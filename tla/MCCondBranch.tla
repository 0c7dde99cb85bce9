----------------------------- MODULE MCCondBranch -----------------------------
(***************************************************************************)
(* The branches and operands for CondBranch: every pattern, forwards and   *)
(* backwards, within and out of the reach of a jump, with every way to set *)
(* the flags, on the values where comparisons go wrong.                    *)
(***************************************************************************)
EXTENDS CondBranch

Test(how, rel, reversed, distance, x, y) ==
  [how |-> how, rel |-> rel, reversed |-> reversed, distance |-> distance,
   adds |-> <<>>, x |-> x, y |-> y]

WordValues == {0, 1, 32767, 32768, 65535}

(* Bytes 0 (twice), 1, 7F, 80 and FF above unrelated lower halves. *)
ByteValues == {\h005A, \h0033, \h01A5, \h7F00, \h80FF, \hFF5A}

Values(how) == IF how \in ByteSetters \cup {"cmpqi", "tstqi", "cmpqi_as_hi"}
                 THEN ByteValues ELSE WordValues

Others(how) == IF how \in {"addhi3_i", "rsubihi"} THEN Values(how) \cup {2, 65534}
                                                 ELSE Values(how)

(* The peepholes leave eq and ne alone; the patterns emit nothing or a CLR *)
(* or SETO, and the optimizer folds the operation, for constants of all    *)
(* zeros or ones.                                                          *)
Compiles(how, rel, y) ==
  /\ how = "cmpqi_as_hi" => rel \notin {"eq", "ne"}
  /\ how \in {"andhi3_i", "iorhi3_i"} => y \notin {0, 65535}
  /\ how \in {"andqi3_i", "iorqi3_i"} => HiByte(y) \notin {0, 255}

(* The flags of these describe something else than the value in R1. *)
Misleading ==
  {"abshi2", "absqi2", "xorqi3", "one_cmplqi2", "movqi_truncate"}

Faithful == (WordSetters \cup ByteSetters) \ Misleading

FlagTests(hows, reversals) ==
  UNION {UNION {{Test(how, rel, rev, 2, x, y) :
                   rev \in reversals, x \in Values(how),
                   y \in {v \in Others(how) : Compiles(how, rel, v)}} :
                rel \in Relations} : how \in hows}

(* Every branch at the distances where its form changes. *)
Distances == {-300, -252, -250, -4, 254, 256}

BranchesAt(distances) ==
  {Test("cmphi_r", rel, rev, dist, x, y) :
     rel \in Relations, rev \in BOOLEAN, dist \in distances,
     x \in {1, 65535}, y \in {1, 65535}}

JumpsAt(distances) == {Test("cmphi_r", "always", FALSE, d, 1, 1) : d \in distances}

(* A branch over three of the additions: the distance is short of the      *)
(* bytes they really take by up to six.                                    *)
Over(tests, name) == {[t EXCEPT !.adds = <<name, name, name>>] : t \in tests}

(* A branch of two jumps reaches 252 bytes forward, not 254. *)
WithinReach(distances) ==
  {t \in BranchesAt(distances) : TwoJumps(t) => t.distance # 254}
  \cup JumpsAt(distances)

(* Counted right, or with those bytes to spare. *)
OverAdditions ==
  Over(WithinReach(Distances \ {-4}), "a_memory")
  \cup Over(WithinReach({-244, 246}), "ai")
  \cup Over(WithinReach({-244, 246}), "inc_memory")

MCTests ==
  FlagTests(Comparisons, BOOLEAN) \cup FlagTests(Faithful, {FALSE})
  \cup WithinReach(Distances) \cup OverAdditions

TwoJumpsAtTheLimit == BranchesAt({254}) \ WithinReach({254})

AdditionsAtTheLimit ==
  Over(WithinReach({-250, 254}), "ai") \cup Over(WithinReach({-250, 254}), "inc_memory")

(* Two jumps at the limit of one, and additions believed too short. *)
TestsAtTheLimit == TwoJumpsAtTheLimit \cup AdditionsAtTheLimit

(* The tests of the run meet the conditions of the theorems (beyond these  *)
(* distances the long form is used), and those at the limit do not fit.    *)
ASSUME MCCondBranchAssumption ==
  /\ \A t \in MCTests : Placed(t)
  /\ \A t \in MCTests : t.distance \in -250 .. 254 => Fits(t)
  /\ \A t \in TestsAtTheLimit : ~Fits(t)

TestsOfMisleadingFlags == FlagTests(Misleading, {FALSE})
=============================================================================
