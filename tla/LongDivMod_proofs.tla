-------------------------- MODULE LongDivMod_proofs --------------------------
(***************************************************************************)
(* Proofs about longdivmod.c and ulongdivmod.c, for every width of a long, *)
(* every program and every interrupt routine that divide what C lets them. *)
(***************************************************************************)
EXTENDS LongDivMod, Data_proofs

(***************************************************************************)
(* The inductive invariant.                                                *)
(***************************************************************************)
Place == {"lookup", "store numerator", "store denominator", "pass", "clear",
          "signs", "loop", "return"}

Frames ==
    {c \in [call : Called, at : Place, sign : {-1, 1}, numerator : Int,
            denominator : Int, i : -1 .. Width - 1] :
        {c.numerator, c.denominator} \subseteq Long(FileOf(c.call.entry))}

Types ==
    /\ numerator_cache \in [File -> Int] /\ denominator_cache \in [File -> Int]
    /\ quotient_cache \in [File -> Int] /\ remainder_cache \in [File -> Int]
    /\ \A f \in File : {numerator_cache[f], denominator_cache[f],
                        quotient_cache[f], remainder_cache[f]} \subseteq Long(f)
    /\ calls \in Seq(Frames) /\ Len(calls) <= 2
    /\ spoilt \in [File -> BOOLEAN]
    /\ made \in [main : 0 .. Len(Program), interrupts : 0 .. MaxInterrupts]

\* Unless calls of it have overlapped, a file has one call in progress.
OneCall ==
    \A f \in File : ~spoilt[f] =>
        \A j, k \in DOMAIN calls :
            FileOf(calls[j].call.entry) = f /\ FileOf(calls[k].call.entry) = f => j = k

\* The bits of n above i are divided by d: quotient q, remainder r.
Divided(n, d, i, q, r) ==
    \E m \in Nat :
        /\ q = m * PowerOfTwo[i + 1]
        /\ n \div PowerOfTwo[i + 1] = m * d + r
        /\ r \in 0 .. d - 1

Sign(call) == IF (call.numerator < 0) = (call.denominator < 0) THEN 1 ELSE -1

\* How far a call c has come: its locals beside the caches n, d, q, r of its
\* file.
Progress(c, n, d, q, r) ==
    /\ c.at \in {"lookup", "store numerator", "store denominator", "pass", "clear", "signs"}
          => c.sign = 1 /\ c.i = Width - 1
    /\ c.at = "store denominator" => n = c.call.numerator
    /\ c.at \in {"pass", "clear", "signs", "loop", "return"}
          => n = c.call.numerator /\ d = c.call.denominator
    /\ c.at \in {"clear", "signs"}
          => c.numerator = c.call.numerator /\ c.denominator = c.call.denominator
    /\ c.at = "signs" => FileOf(c.call.entry) = "s32" /\ q = 0 /\ r = 0
    /\ c.at = "loop" =>
          /\ c.numerator = Contract!Abs(c.call.numerator)
          /\ c.denominator = Contract!Abs(c.call.denominator)
          /\ c.sign = Sign(c.call)
          /\ Divided(c.numerator, c.denominator, c.i, q, r)
    /\ c.at = "return" =>
          /\ q = Contract!Quotient(n, d)
          /\ r = Contract!Abs(Contract!Remainder(n, d))

InProgress ==
    \A f \in File : ~spoilt[f] =>
        \A k \in DOMAIN calls :
            FileOf(calls[k].call.entry) = f =>
                Progress(calls[k], numerator_cache[f], denominator_cache[f],
                         quotient_cache[f], remainder_cache[f])

Inv == Types /\ OneCall /\ InProgress /\ CacheCoherent

(***************************************************************************)
(* Arithmetic of longs.                                                    *)
(***************************************************************************)
Half == PowerOfTwo[Width - 1]

LEMMA Halves ==
    /\ Half \in Nat /\ Half >= 2
    /\ PowerOfTwo[Width] = 2 * Half
    /\ \E m \in Nat : Half = 2 * m
<1> DEFINE m == PowerOfTwo[Width - 2]
<1>1. Width - 2 \in Nat /\ Width - 1 = (Width - 2) + 1 /\ Width = (Width - 1) + 1 /\ Width - 1 \in Nat
  BY LongDivModAssumption
<1>2. m \in Nat \ {0} /\ Half = 2 * m
  BY <1>1, PowerPositive, PowerOfNext DEF Half
<1>3. PowerOfTwo[Width] = 2 * Half
  BY <1>1, PowerOfNext DEF Half
<1> HIDE DEF m
<1> QED BY <1>2, <1>3

LEMMA LongIs ==
    ASSUME NEW f \in File
    PROVE  Long(f) = IF f = "s32" THEN -Half .. Half - 1 ELSE 0 .. 2 * Half - 1
BY Halves DEF Long, Half

\* The low bits of 2 * x are twice the low bits of x, which are one fewer.
LEMMA Doubled ==
    ASSUME NEW x \in Int
    PROVE  \E s \in 0 .. Half - 1 : (2 * x) % (2 * Half) = 2 * s
<1> DEFINE q == x \div Half
           s == x % Half
<1>1. Half \in Nat \ {0}
  BY Halves
<1>2. q \in Int /\ s \in 0 .. Half - 1 /\ x = q * Half + s
  BY <1>1, Division
<1> HIDE DEF q, s
<1>3. 2 * x = q * (2 * Half) + 2 * s
  BY <1>1, <1>2
<1>4. 2 * Half \in Nat \ {0} /\ 2 * s \in 0 .. (2 * Half) - 1
  BY <1>1, <1>2
<1>5. (q * (2 * Half) + 2 * s) % (2 * Half) = 2 * s
  BY <1>2, <1>4, DivisionUnique
<1> QED BY <1>2, <1>3, <1>5

LEMMA WrappedIsLong ==
    ASSUME NEW f \in File, NEW x \in Int PROVE Wrapped(f, x) \in Long(f)
<1> DEFINE low == x % (2 * Half)
<1>1. low \in 0 .. (2 * Half) - 1
  BY Halves, Division, 2 * Half \in Nat \ {0}
<1>2. Wrapped(f, x) = IF f = "s32" /\ low >= Half THEN low - 2 * Half ELSE low
  BY Halves DEF Wrapped, Half
<1> HIDE DEF low
<1> QED BY <1>1, <1>2, LongIs, Halves

LEMMA WrappedLong ==
    ASSUME NEW f \in File, NEW x \in Long(f) PROVE Wrapped(f, x) = x
<1>1. 2 * Half \in Nat \ {0} /\ Half \in Nat
  BY Halves
<1>2. Wrapped(f, x) = IF f = "s32" /\ x % (2 * Half) >= Half
                      THEN (x % (2 * Half)) - 2 * Half ELSE x % (2 * Half)
  BY Halves DEF Wrapped, Half
<1>3. CASE x >= 0
  <2>1. x \in 0 .. (2 * Half) - 1 /\ (f = "s32" => x < Half)
    BY <1>1, <1>3, LongIs
  <2>2. (0 * (2 * Half) + x) % (2 * Half) = x
    BY <1>1, <2>1, DivisionUnique
  <2>3. 0 * (2 * Half) + x = x
    BY <1>1, <2>1
  <2> QED BY <1>1, <1>2, <2>1, <2>2, <2>3
<1>4. CASE x < 0
  <2>1. f = "s32" /\ x \in -Half .. -1
    BY <1>1, <1>4, LongIs
  <2>2. x + 2 * Half \in 0 .. (2 * Half) - 1
    BY <1>1, <2>1
  <2>3. \A q \in Int : (q * (2 * Half) + (x + 2 * Half)) % (2 * Half) = x + 2 * Half
    BY <1>1, <2>2, DivisionUnique
  <2>4. -1 \in Int /\ (-1) * (2 * Half) + (x + 2 * Half) = x
    BY <1>1, <2>1
  <2>5. x % (2 * Half) = x + 2 * Half
    BY <2>3, <2>4
  <2> QED BY <1>1, <1>2, <2>1, <2>5
<1>5. x \in Int
  BY <1>1, LongIs
<1> QED BY <1>3, <1>4, <1>5

LEMMA BitIs ==
    ASSUME NEW f \in File, NEW x \in Int, NEW i \in 0 .. Width - 1
    PROVE  Bit(f, x, i) \in {0, 1} \/ (f = "s32" /\ Bit(f, x, i) = -1)
<1> DEFINE y == (x % PowerOfTwo[Width]) \div PowerOfTwo[i]
<1>1. PowerOfTwo[Width] \in Nat \ {0} /\ PowerOfTwo[i] \in Nat \ {0}
  BY PowerPositive, LongDivModAssumption
<1>2. y \in Int
  <2>1. x % PowerOfTwo[Width] \in Int
    BY <1>1, Division
  <2> QED BY <1>1, <2>1, Division
<1>3. y % 2 \in {0, 1}
  <2> HIDE DEF y
  <2> QED BY <1>2
<1>4. Bit(f, x, i) = IF f = "s32" /\ i = Width - 1 THEN -(y % 2) ELSE y % 2
  BY DEF Bit
<1> HIDE DEF y
<1> QED BY <1>3, <1>4

\* r | t stays a long: the lowest bit of 2 * r is clear.
LEMMA TakenIsLong ==
    ASSUME NEW f \in File, NEW r \in Int, NEW x \in Int, NEW i \in 0 .. Width - 1
    PROVE  OrBit(Wrapped(f, 2 * r), Bit(f, x, i)) \in Long(f)
<1> DEFINE t == Bit(f, x, i)
           w == Wrapped(f, 2 * r)
<1>1. PICK s \in 0 .. Half - 1 : (2 * r) % (2 * Half) = 2 * s
  BY Doubled
<1>2. w = IF f = "s32" /\ 2 * s >= Half THEN 2 * s - 2 * Half ELSE 2 * s
  BY <1>1, Halves DEF Wrapped, Half
<1>3. PICK m \in Nat : Half = 2 * m
  BY Halves
<1>4. t \in {0, 1} \/ (f = "s32" /\ t = -1)
  BY BitIs
<1>5. OrBit(w, t) = IF t = -1 THEN -1 ELSE w + t
  BY DEF OrBit
<1>6. Half \in Nat
  BY Halves
<1> HIDE DEF t, w
<1>7. CASE f = "s32"
  <2>1. w + 1 \in -Half .. Half - 1 /\ w \in -Half .. Half - 1
    BY <1>2, <1>3, <1>6, <1>7
  <2> QED BY <1>4, <1>5, <1>6, <1>7, <2>1, LongIs, Halves DEF t, w
<1>8. CASE f # "s32"
  <2>1. w + 1 \in 0 .. (2 * Half) - 1 /\ w \in 0 .. (2 * Half) - 1
    BY <1>2, <1>6, <1>8
  <2> QED BY <1>4, <1>5, <1>6, <1>8, <2>1, LongIs DEF t, w
<1> QED BY <1>7, <1>8

\* For a magnitude t is the bit.
LEMMA BitOfMagnitude ==
    ASSUME NEW f \in File, NEW x \in Long(f), x >= 0, NEW i \in 0 .. Width - 1
    PROVE  Bit(f, x, i) = (x \div PowerOfTwo[i]) % 2
<1>1. 2 * Half \in Nat \ {0} /\ PowerOfTwo[i] \in Nat \ {0} /\ PowerOfTwo[Width] = 2 * Half
  BY Halves, PowerPositive
<1>2. x \in 0 .. (2 * Half) - 1 /\ (f = "s32" => x < Half)
  <2>1. Half \in Nat
    BY Halves
  <2>2. x \in Int
    BY <2>1, LongIs
  <2> QED BY <2>1, <2>2, LongIs
<1>3. x % PowerOfTwo[Width] = x
  <2>1. PICK w \in Nat \ {0} : w = 2 * Half
    BY <1>1
  <2>2. x % w = x
    BY <1>2, <2>1, Below
  <2> QED BY ONLY <1>1, <2>1, <2>2
<1>4. CASE f = "s32" /\ i = Width - 1
  <2>1. PICK w \in Nat \ {0} : w = Half
    BY Halves
  <2>2. x \div w = 0
    BY <1>2, <1>4, <2>1, Below
  <2>3. x \div PowerOfTwo[i] = 0
    BY ONLY <1>4, <2>1, <2>2 DEF Half
  <2> QED BY <1>3, <1>4, <2>3 DEF Bit
<1> QED BY <1>3, <1>4 DEF Bit

(***************************************************************************)
(* Calls in progress.                                                      *)
(***************************************************************************)
LEMMA FileOfIsFile == \A entry : FileOf(entry) \in File
BY DEF FileOf, File, Contract!FileOf, Contract!File

LEMMA LongIsInt == \A f \in File : Long(f) \subseteq Int
BY LongIs, Halves

\* Every call that is made is within the contract.
LEMMA CalledLegal == Called \subseteq LegalCall
BY CallsAssumption DEF Called

\* The remainder of the magnitudes is C's remainder but for the sign, which
\* only a negative numerator has.
LEMMA RemainderIs ==
    ASSUME NEW n \in Int, NEW d \in Int, Contract!Abs(n) % Contract!Abs(d) \in Nat
    PROVE  /\ Contract!Abs(Contract!Remainder(n, d)) = Contract!Abs(n) % Contract!Abs(d)
           /\ n >= 0 => Contract!Remainder(n, d) = Contract!Abs(n) % Contract!Abs(d)
<1> DEFINE m == Contract!Abs(n) % Contract!Abs(d)
<1>1. m \in Nat /\ Contract!Remainder(n, d) = IF n < 0 THEN -m ELSE m
  BY DEF Contract!Remainder
<1> HIDE DEF m
<1>2. Contract!Abs(m) = m /\ Contract!Abs(-m) = m
  BY <1>1 DEF Contract!Abs
<1>3. n >= 0 => Contract!Remainder(n, d) = m
  BY <1>1
<1> QED BY <1>1, <1>2, <1>3 DEF m

LEMMA FrameFacts ==
    ASSUME NEW c \in Frames
    PROVE  /\ c.call \in Called /\ c.call \in LegalCall /\ c.call.denominator # 0
           /\ c.call.numerator \in Long(FileOf(c.call.entry)) \ {-Half}
           /\ c.call.denominator \in Long(FileOf(c.call.entry)) \ {-Half}
           /\ c.numerator \in Long(FileOf(c.call.entry))
           /\ c.denominator \in Long(FileOf(c.call.entry))
           /\ c.i \in -1 .. Width - 1 /\ c.sign \in {-1, 1} /\ c.at \in Place
BY CalledLegal DEF Frames, LegalCall, Half

LEMMA TopFacts ==
    ASSUME Inv, calls # <<>>
    PROVE  /\ Len(calls) \in DOMAIN calls /\ Top \in Frames /\ TopFile \in File
           /\ ~spoilt[TopFile] =>
                 Progress(Top, numerator_cache[TopFile], denominator_cache[TopFile],
                          quotient_cache[TopFile], remainder_cache[TopFile])
<1>1. calls \in Seq(Frames)
  BY DEF Inv, Types
<1>2. Len(calls) \in DOMAIN calls /\ Top \in Frames
  BY <1>1 DEF Top
<1>3. TopFile \in File
  BY FileOfIsFile DEF TopFile
<1> QED BY <1>2, <1>3 DEF Inv, InProgress, Top, TopFile

\* A step of the innermost call, which becomes c, keeps the invariant when it
\* leaves the caches of the other file alone and c is where it says it is.
LEMMA GoKeepsInv ==
    ASSUME Inv, NEW from, NEW STATE c, c \in Frames, Go(from, c),
           c.call = Top.call, c.at # "lookup",
           numerator_cache' \in [File -> Int], denominator_cache' \in [File -> Int],
           quotient_cache' \in [File -> Int], remainder_cache' \in [File -> Int],
           {numerator_cache'[TopFile], denominator_cache'[TopFile],
            quotient_cache'[TopFile], remainder_cache'[TopFile]} \subseteq Long(TopFile),
           \A g \in File \ {TopFile} :
               /\ numerator_cache'[g] = numerator_cache[g]
               /\ denominator_cache'[g] = denominator_cache[g]
               /\ quotient_cache'[g] = quotient_cache[g]
               /\ remainder_cache'[g] = remainder_cache[g],
           ~spoilt[TopFile] =>
               Progress(c, numerator_cache'[TopFile], denominator_cache'[TopFile],
                        quotient_cache'[TopFile], remainder_cache'[TopFile])
    PROVE  Inv'
<1>1. /\ calls # <<>> /\ calls' = [calls EXCEPT ![Len(calls)] = c]
      /\ made' = made /\ spoilt' = spoilt
  BY DEF Go
<1>2. Len(calls) \in DOMAIN calls /\ TopFile \in File /\ calls \in Seq(Frames) /\ Len(calls) <= 2
  BY <1>1, TopFacts DEF Inv, Types
<1>3. /\ calls' \in Seq(Frames) /\ Len(calls') = Len(calls) /\ DOMAIN calls' = DOMAIN calls
      /\ calls'[Len(calls)] = c
      /\ \A k \in DOMAIN calls : k # Len(calls) => calls'[k] = calls[k]
  BY <1>1, <1>2
<1>4. \A k \in DOMAIN calls : calls'[k].call = calls[k].call
  BY <1>3 DEF Top
<1>5. Types'
  <2>1. \A g \in File :
            {numerator_cache'[g], denominator_cache'[g],
             quotient_cache'[g], remainder_cache'[g]} \subseteq Long(g)
    BY DEF Inv, Types
  <2>2. calls' \in Seq(Frames) /\ Len(calls') <= 2
    BY <1>2, <1>3
  <2> QED BY <1>1, <2>1, <2>2 DEF Inv, Types
<1>6. OneCall'
  <2>1. \A k \in DOMAIN calls : FileOf(calls'[k].call.entry) = FileOf(calls[k].call.entry)
    BY <1>4
  <2>2. OneCall
    BY DEF Inv
  <2>3. \A f : spoilt'[f] = spoilt[f]
    BY <1>1
  <2>4. DOMAIN calls' = DOMAIN calls
    BY <1>3
  <2>5. ASSUME NEW f \in File, ~spoilt[f], NEW j \in DOMAIN calls, NEW k \in DOMAIN calls,
               FileOf(calls'[j].call.entry) = f, FileOf(calls'[k].call.entry) = f
        PROVE  j = k
    BY ONLY <2>1, <2>2, <2>5 DEF OneCall
  <2> QED BY ONLY <2>3, <2>4, <2>5 DEF OneCall, File, Contract!File
<1>7. \A k \in DOMAIN calls :
         FileOf(calls[k].call.entry) = TopFile /\ ~spoilt[TopFile] => k = Len(calls)
  BY <1>2 DEF Inv, OneCall, TopFile, Top
<1>8. \A k \in DOMAIN calls : FileOf(calls[k].call.entry) # TopFile => k # Len(calls)
  BY DEF TopFile, Top
<1>9. InProgress'
  <2>1. ASSUME NEW g \in File, ~spoilt[g], NEW k \in DOMAIN calls,
               FileOf(calls[k].call.entry) = g
        PROVE  Progress(calls'[k], numerator_cache'[g], denominator_cache'[g],
                        quotient_cache'[g], remainder_cache'[g])
    <3>1. CASE g = TopFile
      BY <2>1, <3>1, <1>3, <1>7
    <3>2. CASE g # TopFile
      BY <2>1, <3>2, <1>3, <1>8 DEF Inv, InProgress
    <3> QED BY <3>1, <3>2
  <2>2. spoilt' = spoilt /\ DOMAIN calls' = DOMAIN calls
    BY <1>1, <1>3
  <2> QED BY ONLY <1>4, <2>1, <2>2, Zenon DEF InProgress
<1>10. CacheCoherent'
  <2> SUFFICES ASSUME NEW g \in File, ~spoilt[g], denominator_cache'[g] # 0,
                      ~\E k \in DOMAIN calls :
                           FileOf(calls[k].call.entry) = g /\ calls'[k].at \notin {"lookup", "return"}
               PROVE  /\ quotient_cache'[g] = Contract!Quotient(numerator_cache'[g], denominator_cache'[g])
                      /\ remainder_cache'[g]
                           = Contract!Abs(Contract!Remainder(numerator_cache'[g], denominator_cache'[g]))
    BY <1>1, <1>3, <1>4 DEF CacheCoherent
  <2>1. CASE g = TopFile
    <3>1. c.at = "return"
      BY <2>1, <1>2, <1>3 DEF TopFile, Top
    <3> QED BY <2>1, <3>1 DEF Progress
  <2>2. CASE g # TopFile
    BY <2>2, <1>3, <1>8 DEF Inv, CacheCoherent
  <2> QED BY <2>1, <2>2
<1> QED BY <1>5, <1>6, <1>9, <1>10 DEF Inv

\* [Top EXCEPT ...] in the file: the same call, at another place.
LEMMA MovedTop ==
    ASSUME Inv, calls # <<>>, NEW STATE at, at \in Place
    PROVE  LET c == [Top EXCEPT !.at = at]
           IN  /\ c \in Frames /\ c.call = Top.call /\ c.at = at
               /\ c.sign = Top.sign /\ c.i = Top.i
               /\ c.numerator = Top.numerator /\ c.denominator = Top.denominator
<1>1. Top \in Frames
  BY TopFacts
<1> HIDE DEF Top
<1> QED BY <1>1 DEF Frames

LEMMA CacheTypes ==
    ASSUME Inv
    PROVE  /\ numerator_cache \in [File -> Int] /\ denominator_cache \in [File -> Int]
           /\ quotient_cache \in [File -> Int] /\ remainder_cache \in [File -> Int]
           /\ \A f \in File : {numerator_cache[f], denominator_cache[f],
                               quotient_cache[f], remainder_cache[f]} \subseteq Long(f)
BY DEF Inv, Types

LEMMA LookupKeepsInv == Inv /\ Lookup => Inv'
<1> SUFFICES ASSUME Inv, Lookup PROVE Inv'
  OBVIOUS
<1> DEFINE hit == /\ Top.call.numerator = numerator_cache[TopFile]
                  /\ Top.call.denominator = denominator_cache[TopFile]
           at == IF hit THEN "return" ELSE "store numerator"
           c == [Top EXCEPT !.at = at]
<1>1. /\ Go("lookup", c) /\ calls # <<>> /\ Top.at = "lookup" /\ UNCHANGED caches
  BY DEF Lookup, Go
<1>2. /\ Len(calls) \in DOMAIN calls /\ Top \in Frames /\ TopFile \in File
      /\ ~spoilt[TopFile] =>
            Progress(Top, numerator_cache[TopFile], denominator_cache[TopFile],
                     quotient_cache[TopFile], remainder_cache[TopFile])
  BY <1>1, TopFacts
<1>3. /\ c \in Frames /\ c.call = Top.call /\ c.at = at /\ c.sign = Top.sign /\ c.i = Top.i
  BY <1>1, MovedTop DEF Place
<1>4. ASSUME ~spoilt[TopFile]
      PROVE  Progress(c, numerator_cache[TopFile], denominator_cache[TopFile],
                      quotient_cache[TopFile], remainder_cache[TopFile])
  <2>1. CASE hit
    <3>1. denominator_cache[TopFile] # 0
      BY <2>1, <1>2, FrameFacts
    <3>2. \A k \in DOMAIN calls : FileOf(calls[k].call.entry) = TopFile => k = Len(calls)
      BY <1>2, <1>4 DEF Inv, OneCall, TopFile, Top
    <3>3. /\ quotient_cache[TopFile] = Contract!Quotient(numerator_cache[TopFile], denominator_cache[TopFile])
          /\ remainder_cache[TopFile]
               = Contract!Abs(Contract!Remainder(numerator_cache[TopFile], denominator_cache[TopFile]))
      BY <1>1, <1>2, <1>4, <3>1, <3>2 DEF Inv, CacheCoherent, Top
    <3>4. c.at = "return"
      BY <2>1, <1>3
    <3> HIDE DEF c
    <3> QED BY <2>1, <3>3, <3>4, <1>3 DEF Progress
  <2>2. CASE ~hit
    <3>1. c.at = "store numerator"
      BY <2>2, <1>3
    <3> HIDE DEF c
    <3> QED BY <1>1, <1>2, <1>3, <1>4, <3>1 DEF Progress
  <2> QED BY <2>1, <2>2
<1>5. c.at # "lookup"
  <2>1. at # "lookup"
    OBVIOUS
  <2> HIDE DEF c, at
  <2> QED BY <1>3, <2>1
<1>6. /\ numerator_cache' = numerator_cache /\ denominator_cache' = denominator_cache
      /\ quotient_cache' = quotient_cache /\ remainder_cache' = remainder_cache
  BY <1>1 DEF caches
<1> HIDE DEF c
<1> QED BY <1>1, <1>2, <1>3, <1>4, <1>5, <1>6, CacheTypes, GoKeepsInv

LEMMA StoreNumeratorKeepsInv == Inv /\ StoreNumerator => Inv'
<1> SUFFICES ASSUME Inv, StoreNumerator PROVE Inv'
  OBVIOUS
<1> DEFINE c == [Top EXCEPT !.at = "store denominator"]
<1>1. /\ Go("store numerator", c) /\ calls # <<>> /\ Top.at = "store numerator"
      /\ numerator_cache' = [numerator_cache EXCEPT ![TopFile] = Top.call.numerator]
      /\ UNCHANGED <<denominator_cache, quotient_cache, remainder_cache>>
  BY DEF StoreNumerator, Go
<1>2. /\ Top \in Frames /\ TopFile \in File
      /\ ~spoilt[TopFile] =>
            Progress(Top, numerator_cache[TopFile], denominator_cache[TopFile],
                     quotient_cache[TopFile], remainder_cache[TopFile])
  BY <1>1, TopFacts
<1>3. /\ c \in Frames /\ c.call = Top.call /\ c.at = "store denominator"
      /\ c.sign = Top.sign /\ c.i = Top.i
  BY <1>1, MovedTop DEF Place
<1>4. Top.call.numerator \in Long(TopFile) /\ Long(TopFile) \subseteq Int
  BY <1>2, FrameFacts, LongIsInt DEF TopFile
<1> HIDE DEF c
<1>5. ~spoilt[TopFile] =>
         Progress(c, Top.call.numerator, denominator_cache[TopFile],
                  quotient_cache[TopFile], remainder_cache[TopFile])
  BY <1>1, <1>2, <1>3 DEF Progress
<1>6. /\ numerator_cache' \in [File -> Int] /\ numerator_cache'[TopFile] = Top.call.numerator
      /\ \A g \in File \ {TopFile} : numerator_cache'[g] = numerator_cache[g]
  BY <1>1, <1>2, <1>4, CacheTypes
<1>7. /\ numerator_cache' \in [File -> Int] /\ denominator_cache' \in [File -> Int]
      /\ quotient_cache' \in [File -> Int] /\ remainder_cache' \in [File -> Int]
  BY <1>1, <1>6, CacheTypes
<1>8. {numerator_cache'[TopFile], denominator_cache'[TopFile],
       quotient_cache'[TopFile], remainder_cache'[TopFile]} \subseteq Long(TopFile)
  <2>1. {numerator_cache[TopFile], denominator_cache[TopFile],
         quotient_cache[TopFile], remainder_cache[TopFile]} \subseteq Long(TopFile)
    BY <1>2, CacheTypes
  <2> QED BY ONLY <1>1, <1>4, <1>6, <2>1
<1>9. \A g \in File \ {TopFile} :
         /\ numerator_cache'[g] = numerator_cache[g]
         /\ denominator_cache'[g] = denominator_cache[g]
         /\ quotient_cache'[g] = quotient_cache[g]
         /\ remainder_cache'[g] = remainder_cache[g]
  BY <1>1, <1>6
<1>10. ~spoilt[TopFile] =>
          Progress(c, numerator_cache'[TopFile], denominator_cache'[TopFile],
                   quotient_cache'[TopFile], remainder_cache'[TopFile])
  BY <1>1, <1>5, <1>6
<1>11. c.at # "lookup"
  BY <1>3
<1> QED BY ONLY Inv, <1>1, <1>3, <1>7, <1>8, <1>9, <1>10, <1>11, GoKeepsInv, Zenon

LEMMA StoreDenominatorKeepsInv == Inv /\ StoreDenominator => Inv'
<1> SUFFICES ASSUME Inv, StoreDenominator PROVE Inv'
  OBVIOUS
<1> DEFINE c == [Top EXCEPT !.at = "pass"]
<1>1. /\ Go("store denominator", c) /\ calls # <<>> /\ Top.at = "store denominator"
      /\ denominator_cache' = [denominator_cache EXCEPT ![TopFile] = Top.call.denominator]
      /\ UNCHANGED <<numerator_cache, quotient_cache, remainder_cache>>
  BY DEF StoreDenominator, Go
<1>2. /\ Top \in Frames /\ TopFile \in File
      /\ ~spoilt[TopFile] =>
            Progress(Top, numerator_cache[TopFile], denominator_cache[TopFile],
                     quotient_cache[TopFile], remainder_cache[TopFile])
  BY <1>1, TopFacts
<1>3. /\ c \in Frames /\ c.call = Top.call /\ c.at = "pass" /\ c.sign = Top.sign /\ c.i = Top.i
  BY <1>1, MovedTop DEF Place
<1>4. Top.call.denominator \in Long(TopFile) /\ Long(TopFile) \subseteq Int
  BY <1>2, FrameFacts, LongIsInt DEF TopFile
<1> HIDE DEF c
<1>5. ~spoilt[TopFile] =>
         Progress(c, numerator_cache[TopFile], Top.call.denominator,
                  quotient_cache[TopFile], remainder_cache[TopFile])
  BY <1>1, <1>2, <1>3 DEF Progress
<1>6. /\ denominator_cache' \in [File -> Int] /\ denominator_cache'[TopFile] = Top.call.denominator
      /\ \A g \in File \ {TopFile} : denominator_cache'[g] = denominator_cache[g]
  BY <1>1, <1>2, <1>4, CacheTypes
<1>7. /\ numerator_cache' \in [File -> Int] /\ denominator_cache' \in [File -> Int]
      /\ quotient_cache' \in [File -> Int] /\ remainder_cache' \in [File -> Int]
  BY <1>1, <1>6, CacheTypes
<1>8. {numerator_cache'[TopFile], denominator_cache'[TopFile],
       quotient_cache'[TopFile], remainder_cache'[TopFile]} \subseteq Long(TopFile)
  <2>1. {numerator_cache[TopFile], denominator_cache[TopFile],
         quotient_cache[TopFile], remainder_cache[TopFile]} \subseteq Long(TopFile)
    BY <1>2, CacheTypes
  <2> QED BY ONLY <1>1, <1>4, <1>6, <2>1
<1>9. \A g \in File \ {TopFile} :
         /\ numerator_cache'[g] = numerator_cache[g]
         /\ denominator_cache'[g] = denominator_cache[g]
         /\ quotient_cache'[g] = quotient_cache[g]
         /\ remainder_cache'[g] = remainder_cache[g]
  BY <1>1, <1>6
<1>10. ~spoilt[TopFile] =>
          Progress(c, numerator_cache'[TopFile], denominator_cache'[TopFile],
                   quotient_cache'[TopFile], remainder_cache'[TopFile])
  BY <1>1, <1>5, <1>6
<1>11. c.at # "lookup"
  BY <1>3
<1> QED BY ONLY Inv, <1>1, <1>3, <1>7, <1>8, <1>9, <1>10, <1>11, GoKeepsInv, Zenon

LEMMA PassKeepsInv == Inv /\ Pass => Inv'
<1> SUFFICES ASSUME Inv, Pass PROVE Inv'
  OBVIOUS
<1> DEFINE n == numerator_cache[TopFile]
           d == denominator_cache[TopFile]
           c == [Top EXCEPT !.numerator = n, !.denominator = d, !.at = "clear"]
<1>1. Go("pass", c) /\ calls # <<>> /\ Top.at = "pass" /\ UNCHANGED caches
  BY DEF Pass, Go
<1>2. /\ Top \in Frames /\ TopFile \in File
      /\ ~spoilt[TopFile] =>
            Progress(Top, n, d, quotient_cache[TopFile], remainder_cache[TopFile])
  BY <1>1, TopFacts
<1>3. n \in Long(TopFile) /\ d \in Long(TopFile) /\ n \in Int /\ d \in Int
  BY <1>2, CacheTypes
<1> HIDE DEF n, d
<1>4. /\ c \in Frames /\ c.call = Top.call /\ c.at = "clear" /\ c.sign = Top.sign /\ c.i = Top.i
      /\ c.numerator = n /\ c.denominator = d
  <2>1. {n, d} \subseteq Long(FileOf(Top.call.entry))
    BY <1>3 DEF TopFile
  <2> HIDE DEF Top
  <2> QED BY <1>2, <1>3, <2>1 DEF Frames, Place
<1> HIDE DEF c
<1>5. ~spoilt[TopFile] => Progress(c, n, d, quotient_cache[TopFile], remainder_cache[TopFile])
  BY <1>1, <1>2, <1>4 DEF Progress
<1>6. /\ numerator_cache' = numerator_cache /\ denominator_cache' = denominator_cache
      /\ quotient_cache' = quotient_cache /\ remainder_cache' = remainder_cache
  BY <1>1 DEF caches
<1> QED BY <1>1, <1>2, <1>4, <1>5, <1>6, CacheTypes, GoKeepsInv DEF n, d

(***************************************************************************)
(* The division itself.                                                    *)
(***************************************************************************)

\* The operands of a call have magnitudes, and those are longs of either sign.
LEMMA Magnitudes ==
    ASSUME NEW c \in Frames
    PROVE  LET f == FileOf(c.call.entry)
               n == c.call.numerator
               d == c.call.denominator
           IN  /\ n \in Int /\ d \in Int
               /\ Contract!Abs(n) \in Nat /\ Contract!Abs(d) \in Nat \ {0}
               /\ \A x \in Int : -Contract!Abs(n) <= x /\ x <= Contract!Abs(n) /\ (f = "s32" \/ x >= 0)
                                 => x \in Long(f)
               /\ Contract!Abs(d) \in Long(f)
               /\ Magnitude(n) = Contract!Abs(n) /\ Magnitude(d) = Contract!Abs(d)
               /\ f # "s32" => n >= 0 /\ d >= 0
               /\ f = "s32" => Contract!Abs(n) < Half
               /\ Contract!Abs(n) \in 0 .. (2 * Half) - 1
<1> DEFINE f == FileOf(c.call.entry)
           n == c.call.numerator
           d == c.call.denominator
<1>1. f \in File /\ n \in Long(f) \ {-Half} /\ d \in Long(f) \ {-Half} /\ d # 0
  BY FrameFacts, FileOfIsFile
<1> HIDE DEF f, n, d
<1>2. Half \in Nat /\ Half >= 2
  BY Halves
<1>3. n \in Int /\ d \in Int
  BY <1>1, LongIsInt
<1>4. CASE f = "s32"
  <2>1. Long(f) = -Half .. Half - 1
    BY <1>1, <1>4, LongIs
  <2>2. n \in -(Half - 1) .. Half - 1 /\ d \in -(Half - 1) .. Half - 1
    BY <1>1, <1>2, <1>3, <2>1
  <2>3. Contract!Abs(n) \in 0 .. Half - 1 /\ Contract!Abs(d) \in 1 .. Half - 1
    BY <1>1, <1>2, <2>2 DEF Contract!Abs
  <2>4. -n \in Long("s32") /\ -d \in Long("s32")
    BY <1>2, <1>4, <2>1, <2>2
  <2>5. Wrapped("s32", -n) = -n /\ Wrapped("s32", -d) = -d
    BY <1>1, <1>4, <2>4, WrappedLong
  <2>6. Magnitude(n) = Contract!Abs(n) /\ Magnitude(d) = Contract!Abs(d)
    BY <2>5 DEF Magnitude, Contract!Abs
  <2> QED BY <1>2, <1>3, <1>4, <2>1, <2>3, <2>6 DEF f, n, d
<1>5. CASE f # "s32"
  <2>1. Long(f) = 0 .. (2 * Half) - 1
    BY <1>1, <1>5, LongIs
  <2>2. n \in 0 .. (2 * Half) - 1 /\ d \in 1 .. (2 * Half) - 1
    BY <1>1, <1>2, <1>3, <2>1
  <2>3. Contract!Abs(n) = n /\ Contract!Abs(d) = d /\ Magnitude(n) = n /\ Magnitude(d) = d
    BY <2>2, <1>2 DEF Contract!Abs, Magnitude
  <2> QED BY <1>2, <1>3, <1>5, <2>1, <2>2, <2>3 DEF f, n, d
<1> QED BY <1>4, <1>5

\* Before the first bit nothing is divided.
LEMMA NothingDivided ==
    ASSUME NEW n \in 0 .. (2 * Half) - 1, NEW d \in Nat \ {0}
    PROVE  Divided(n, d, Width - 1, 0, 0)
<1>1. (Width - 1) + 1 = Width /\ PowerOfTwo[Width] = 2 * Half /\ 2 * Half \in Nat \ {0}
  BY Halves, LongDivModAssumption
<1>2. \A q \in Int : (q * (2 * Half) + n) \div (2 * Half) = q
  BY <1>1, DivisionUnique
<1>3. 0 * (2 * Half) + n = n
  BY <1>1
<1>4. n \div (2 * Half) = 0
  BY <1>2, <1>3
<1>5. /\ 0 = 0 * PowerOfTwo[(Width - 1) + 1]
      /\ n \div PowerOfTwo[(Width - 1) + 1] = 0 * d + 0
      /\ 0 \in 0 .. d - 1
  BY <1>1, <1>4
<1> QED BY <1>5 DEF Divided

\* After the last bit the quotient and the remainder are there.
LEMMA AllDivided ==
    ASSUME NEW n \in Nat, NEW d \in Nat \ {0}, NEW q, NEW r, Divided(n, d, -1, q, r)
    PROVE  q = n \div d /\ r = n % d /\ q \in 0 .. n
<1>1. PICK m \in Nat : /\ q = m * PowerOfTwo[-1 + 1]
                        /\ n \div PowerOfTwo[-1 + 1] = m * d + r
                        /\ r \in 0 .. d - 1
  BY DEF Divided
<1>2. -1 + 1 = 0 /\ PowerOfTwo[0] = 1
  BY PowerOfZero
<1>3. q = m /\ n \div 1 = m * d + r
  BY <1>1, <1>2
<1>4. n = m * d + r
  BY <1>3
<1>5. n \div d = m /\ n % d = r
  BY <1>1, <1>4, DivisionUnique
<1>6. m <= m * d /\ m * d \in Nat
  BY <1>1
<1>7. q \in 0 .. n
  BY <1>1, <1>3, <1>4, <1>6
<1> QED BY <1>3, <1>5, <1>7

LEMMA ClearKeepsInv == Inv /\ Clear => Inv'
<1> SUFFICES ASSUME Inv, Clear PROVE Inv'
  OBVIOUS
<1> DEFINE at == IF TopFile = "s32" THEN "signs" ELSE "loop"
           c == [Top EXCEPT !.at = at]
<1>1. /\ Go("clear", c) /\ calls # <<>> /\ Top.at = "clear"
      /\ quotient_cache' = [quotient_cache EXCEPT ![TopFile] = 0]
      /\ remainder_cache' = [remainder_cache EXCEPT ![TopFile] = 0]
      /\ UNCHANGED <<numerator_cache, denominator_cache>>
  BY DEF Clear, Go
<1>2. /\ Top \in Frames /\ TopFile \in File
      /\ ~spoilt[TopFile] =>
            Progress(Top, numerator_cache[TopFile], denominator_cache[TopFile],
                     quotient_cache[TopFile], remainder_cache[TopFile])
  BY <1>1, TopFacts
<1>3. at \in {"signs", "loop"} /\ at \in Place
  BY DEF Place
<1>4. /\ c \in Frames /\ c.call = Top.call /\ c.at = at /\ c.sign = Top.sign /\ c.i = Top.i
      /\ c.numerator = Top.numerator /\ c.denominator = Top.denominator
  BY <1>1, <1>3, MovedTop
<1>5. 0 \in Long(TopFile)
  BY <1>2, LongIs, Halves
<1>6. ASSUME ~spoilt[TopFile]
      PROVE  Progress(c, numerator_cache[TopFile], denominator_cache[TopFile], 0, 0)
  <2>1. /\ Top.sign = 1 /\ Top.i = Width - 1
        /\ numerator_cache[TopFile] = Top.call.numerator
        /\ denominator_cache[TopFile] = Top.call.denominator
        /\ Top.numerator = Top.call.numerator /\ Top.denominator = Top.call.denominator
    BY <1>1, <1>2, <1>6 DEF Progress
  <2>2. CASE TopFile = "s32"
    <3>1. at = "signs"
      BY <2>2
    <3> HIDE DEF c, at
    <3> QED BY <1>4, <2>1, <2>2, <3>1 DEF Progress, TopFile
  <2>3. CASE TopFile # "s32"
    <3>1. at = "loop"
      BY <2>3
    <3> DEFINE n == Top.call.numerator
               d == Top.call.denominator
    <3>2. /\ n \in 0 .. (2 * Half) - 1 /\ d \in Nat \ {0}
          /\ Contract!Abs(n) = n /\ Contract!Abs(d) = d /\ Sign(Top.call) = 1
      <4>1. /\ n >= 0 /\ d >= 0 /\ n \in Int /\ d \in Int
            /\ Contract!Abs(n) \in 0 .. (2 * Half) - 1 /\ Contract!Abs(d) \in Nat \ {0}
        BY <1>2, <2>3, Magnitudes DEF TopFile
      <4>2. Contract!Abs(n) = n /\ Contract!Abs(d) = d
        BY <4>1 DEF Contract!Abs
      <4> QED BY <4>1, <4>2 DEF Sign
    <3>3. Divided(n, d, Width - 1, 0, 0)
      BY <3>2, NothingDivided
    <3> HIDE DEF c, at
    <3> QED BY <1>4, <2>1, <3>1, <3>2, <3>3 DEF Progress
  <2> QED BY <2>2, <2>3
<1>7. /\ quotient_cache' \in [File -> Int] /\ quotient_cache'[TopFile] = 0
      /\ remainder_cache' \in [File -> Int] /\ remainder_cache'[TopFile] = 0
      /\ \A g \in File \ {TopFile} : /\ quotient_cache'[g] = quotient_cache[g]
                                     /\ remainder_cache'[g] = remainder_cache[g]
  BY <1>1, <1>2, CacheTypes
<1>8. c.at # "lookup"
  <2> HIDE DEF at, c
  <2> QED BY <1>3, <1>4
<1>9. {numerator_cache'[TopFile], denominator_cache'[TopFile],
       quotient_cache'[TopFile], remainder_cache'[TopFile]} \subseteq Long(TopFile)
  BY <1>1, <1>2, <1>5, <1>7, CacheTypes
<1>10. ~spoilt[TopFile] =>
         Progress(c, numerator_cache'[TopFile], denominator_cache'[TopFile],
                  quotient_cache'[TopFile], remainder_cache'[TopFile])
  BY <1>1, <1>6, <1>7
<1> HIDE DEF c, at
<1> QED BY <1>1, <1>2, <1>4, <1>7, <1>8, <1>9, <1>10, CacheTypes, GoKeepsInv

LEMMA SignsKeepsInv == Inv /\ Signs => Inv'
<1> SUFFICES ASSUME Inv, Signs PROVE Inv'
  OBVIOUS
<1> DEFINE sign == IF (Top.numerator < 0) = (Top.denominator < 0) THEN 1 ELSE -1
           n == Magnitude(Top.numerator)
           d == Magnitude(Top.denominator)
           c == [Top EXCEPT !.sign = sign, !.numerator = n, !.denominator = d, !.at = "loop"]
<1>1. Go("signs", c) /\ calls # <<>> /\ Top.at = "signs" /\ UNCHANGED caches
  BY DEF Signs, Go
<1>2. /\ Top \in Frames /\ TopFile \in File
      /\ ~spoilt[TopFile] =>
            Progress(Top, numerator_cache[TopFile], denominator_cache[TopFile],
                     quotient_cache[TopFile], remainder_cache[TopFile])
  BY <1>1, TopFacts
<1>3. /\ numerator_cache' = numerator_cache /\ denominator_cache' = denominator_cache
      /\ quotient_cache' = quotient_cache /\ remainder_cache' = remainder_cache
  BY <1>1 DEF caches
<1>4. sign \in {-1, 1}
  OBVIOUS
<1>5. n \in Long(TopFile) /\ d \in Long(TopFile) /\ n \in Int /\ d \in Int
  <2>1. \A x \in Long(TopFile) : Magnitude(x) \in Long(TopFile)
    <3> SUFFICES ASSUME NEW x \in Long(TopFile), x < 0 PROVE Wrapped("s32", -x) \in Long(TopFile)
      BY DEF Magnitude
    <3>1. TopFile = "s32"
      <4>1. TopFile # "s32" => Long(TopFile) = 0 .. (2 * Half) - 1
        BY <1>2, LongIs
      <4>2. Half \in Nat
        BY Halves
      <4> QED BY <4>1, <4>2
    <3>2. -x \in Int
      BY <1>2, LongIsInt
    <3> QED BY <1>2, <3>1, <3>2, WrappedIsLong
  <2>2. Top.numerator \in Long(TopFile) /\ Top.denominator \in Long(TopFile)
    BY <1>2, FrameFacts DEF TopFile
  <2> QED BY <1>2, <2>1, <2>2, LongIsInt
<1>6. /\ c \in Frames /\ c.call = Top.call /\ c.at = "loop" /\ c.sign = sign /\ c.i = Top.i
      /\ c.numerator = n /\ c.denominator = d
  <2>1. {n, d} \subseteq Long(FileOf(Top.call.entry))
    BY <1>5 DEF TopFile
  <2> HIDE DEF Top, n, d, sign
  <2> QED BY <1>2, <1>4, <1>5, <2>1 DEF Frames, Place
<1>7. ASSUME ~spoilt[TopFile]
      PROVE  Progress(c, numerator_cache[TopFile], denominator_cache[TopFile],
                      quotient_cache[TopFile], remainder_cache[TopFile])
  <2>1. /\ Top.i = Width - 1
        /\ numerator_cache[TopFile] = Top.call.numerator
        /\ denominator_cache[TopFile] = Top.call.denominator
        /\ Top.numerator = Top.call.numerator /\ Top.denominator = Top.call.denominator
        /\ quotient_cache[TopFile] = 0 /\ remainder_cache[TopFile] = 0
    BY <1>1, <1>2, <1>7 DEF Progress
  <2>2. /\ n = Contract!Abs(Top.call.numerator) /\ d = Contract!Abs(Top.call.denominator)
        /\ n \in 0 .. (2 * Half) - 1 /\ d \in Nat \ {0}
    BY <1>2, <2>1, Magnitudes
  <2>3. sign = Sign(Top.call)
    BY <2>1 DEF Sign
  <2>4. Divided(n, d, Width - 1, 0, 0)
    BY <2>2, NothingDivided
  <2> HIDE DEF c, n, d, sign
  <2> QED BY <1>6, <2>1, <2>2, <2>3, <2>4 DEF Progress
<1> HIDE DEF c
<1>8. c.at # "lookup"
  BY <1>6
<1> QED BY <1>1, <1>2, <1>3, <1>6, <1>7, <1>8, CacheTypes, GoKeepsInv

LEMMA LeaveLoopKeepsInv == Inv /\ LeaveLoop => Inv'
<1> SUFFICES ASSUME Inv, LeaveLoop PROVE Inv'
  OBVIOUS
<1> DEFINE c == [Top EXCEPT !.at = "return"]
           q == Wrapped(TopFile, quotient_cache[TopFile] * Top.sign)
<1>1. /\ Go("loop", c) /\ calls # <<>> /\ Top.at = "loop" /\ Top.i < 0
      /\ quotient_cache' = [quotient_cache EXCEPT ![TopFile] = q]
      /\ UNCHANGED <<numerator_cache, denominator_cache, remainder_cache>>
  BY DEF LeaveLoop, Go
<1>2. /\ Top \in Frames /\ TopFile \in File
      /\ ~spoilt[TopFile] =>
            Progress(Top, numerator_cache[TopFile], denominator_cache[TopFile],
                     quotient_cache[TopFile], remainder_cache[TopFile])
  BY <1>1, TopFacts
<1>3. /\ c \in Frames /\ c.call = Top.call /\ c.at = "return" /\ c.sign = Top.sign /\ c.i = Top.i
  BY <1>1, MovedTop DEF Place
<1>4. q \in Long(TopFile) /\ q \in Int
  <2>1. quotient_cache[TopFile] \in Int /\ Top.sign \in {-1, 1}
    BY <1>2, CacheTypes, FrameFacts
  <2>2. quotient_cache[TopFile] * Top.sign \in Int
    BY <2>1
  <2> QED BY <1>2, <2>2, WrappedIsLong, LongIsInt
<1>5. ASSUME ~spoilt[TopFile]
      PROVE  Progress(c, numerator_cache[TopFile], denominator_cache[TopFile],
                      q, remainder_cache[TopFile])
  <2> DEFINE N == Top.call.numerator
             D == Top.call.denominator
             n == Contract!Abs(N)
             d == Contract!Abs(D)
             q0 == quotient_cache[TopFile]
             r == remainder_cache[TopFile]
  <2>1. /\ numerator_cache[TopFile] = N /\ denominator_cache[TopFile] = D
        /\ Top.numerator = n /\ Top.denominator = d /\ Top.sign = Sign(Top.call)
        /\ Divided(n, d, Top.i, q0, r)
    BY <1>1, <1>2, <1>5 DEF Progress
  <2>2. Top.i = -1
    BY <1>1, <1>2, FrameFacts, LongDivModAssumption
  <2>3. /\ n \in Nat /\ d \in Nat \ {0}
        /\ \A x \in Int : -n <= x /\ x <= n /\ (TopFile = "s32" \/ x >= 0) => x \in Long(TopFile)
        /\ TopFile # "s32" => N >= 0 /\ D >= 0
        /\ N \in Int /\ D \in Int
    BY <1>2, Magnitudes DEF TopFile
  <2> HIDE DEF n, d, q0, r
  <2>4. q0 = n \div d /\ r = n % d /\ q0 \in 0 .. n
    BY <2>1, <2>2, <2>3, AllDivided
  <2>5. Top.sign = IF (N < 0) = (D < 0) THEN 1 ELSE -1
    BY <2>1 DEF Sign
  <2>6. q0 * Top.sign = IF (N < 0) = (D < 0) THEN q0 ELSE -q0
    BY <2>3, <2>4, <2>5
  <2>7. q0 * Top.sign \in Long(TopFile)
    <3> HIDE DEF N, D
    <3>1. TopFile # "s32" => (N < 0) = (D < 0)
      BY <2>3
    <3> QED BY <2>3, <2>4, <2>6, <3>1
  <2>8. q = q0 * Top.sign
    BY <1>2, <2>7, WrappedLong DEF q0
  <2>9. q = Contract!Quotient(N, D)
    BY <2>4, <2>6, <2>8 DEF Contract!Quotient, n, d
  <2>10. r = Contract!Abs(Contract!Remainder(N, D))
    BY <2>3, <2>4, RemainderIs DEF n, d
  <2> HIDE DEF c, q, N, D
  <2> QED BY <1>3, <2>1, <2>9, <2>10 DEF Progress, N, D, r
<1> HIDE DEF c, q
<1>6. /\ quotient_cache' \in [File -> Int] /\ quotient_cache'[TopFile] = q
      /\ \A g \in File \ {TopFile} : quotient_cache'[g] = quotient_cache[g]
  BY <1>1, <1>2, <1>4, CacheTypes
<1>7. {numerator_cache'[TopFile], denominator_cache'[TopFile],
       quotient_cache'[TopFile], remainder_cache'[TopFile]} \subseteq Long(TopFile)
  <2>1. {numerator_cache[TopFile], denominator_cache[TopFile],
         quotient_cache[TopFile], remainder_cache[TopFile]} \subseteq Long(TopFile)
    BY <1>2, CacheTypes
  <2> QED BY ONLY <1>1, <1>4, <1>6, <2>1
<1>8. c.at # "lookup"
  BY <1>3
<1> QED BY <1>1, <1>2, <1>3, <1>5, <1>6, <1>7, <1>8, CacheTypes, GoKeepsInv

\* The loop body divides one bit more, and nothing it computes exceeds n.
LEMMA BitDivided ==
    ASSUME NEW n \in Nat, NEW d \in Nat \ {0}, NEW i \in Nat, NEW q, NEW r,
           Divided(n, d, i, q, r)
    PROVE  LET t == (n \div PowerOfTwo[i]) % 2
               taken == 2 * r + t
           IN  /\ t \in {0, 1} /\ r \in Nat /\ 2 * r \in 0 .. n /\ taken \in 0 .. n /\ q \in Nat
               /\ taken < d => Divided(n, d, i - 1, q, taken)
               /\ taken >= d => /\ taken - d \in 0 .. n
                                /\ q + PowerOfTwo[i] \in 0 .. n
                                /\ Divided(n, d, i - 1, q + PowerOfTwo[i], taken - d)
<1> DEFINE p == PowerOfTwo[i]
           b == n \div p
           t == b % 2
           taken == 2 * r + t
<1>1. p \in Nat \ {0} /\ PowerOfTwo[i + 1] = 2 * p /\ (i - 1) + 1 = i
  BY PowerPositive, PowerOfNext
<1>2. PICK m \in Nat : q = m * (2 * p) /\ n \div (2 * p) = m * d + r /\ r \in 0 .. d - 1
  BY <1>1 DEF Divided
<1> HIDE DEF p
<1>3. /\ b = (2 * m) * d + taken
      /\ taken \in 0 .. n
      /\ taken - d < d
      /\ taken >= d => b = (2 * m + 1) * d + (taken - d) /\ 2 * m + 1 <= b
      /\ \A k \in Nat : k <= b => k * p <= n
      /\ 2 * m <= b
  <2>1. p \in Nat \ {0} /\ n \div (2 * p) = m * d + r /\ r \in 0 .. d - 1
    BY <1>1, <1>2
  <2>2. LET tk == 2 * r + ((n \div p) % 2)
        IN  /\ n \div p = (2 * m) * d + tk
            /\ tk \in 0 .. n
            /\ tk - d < d
            /\ 2 * m <= n \div p
            /\ tk >= d => /\ n \div p = (2 * m + 1) * d + (tk - d)
                         /\ 2 * m + 1 <= n \div p
            /\ \A k \in Nat : k <= n \div p => k * p <= n
    <3> HIDE DEF b, t, taken
    <3> QED BY ONLY n \in Nat, d \in Nat \ {0}, m \in Nat, <2>1, NextBit, ZenonT(30)
  <2> QED BY <2>2
<1>4. b \in Int
  BY <1>1, Division
<1> HIDE DEF b
<1>5. t \in {0, 1}
  BY <1>4
<1> HIDE DEF t
<1>6. r \in Nat /\ 2 * r \in 0 .. n
  BY <1>2, <1>3, <1>5
<1>7. q = (2 * m) * p /\ q + p = (2 * m + 1) * p /\ q \in Nat
  BY <1>1, <1>2
<1>8. ASSUME taken < d PROVE Divided(n, d, i - 1, q, taken)
  <2>1. taken \in 0 .. d - 1
    BY <1>3, <1>8
  <2>2. 2 * m \in Nat
    OBVIOUS
  <2> HIDE DEF taken
  <2> QED BY <1>1, <1>3, <1>7, <2>1, <2>2 DEF Divided, p, b
<1>9. ASSUME taken >= d
      PROVE  /\ taken - d \in 0 .. n /\ q + p \in 0 .. n
             /\ Divided(n, d, i - 1, q + p, taken - d)
  <2>1. taken - d \in 0 .. d - 1 /\ taken - d \in 0 .. n
    BY <1>3, <1>9
  <2>2. 2 * m + 1 \in Nat
    OBVIOUS
  <2>3. (2 * m + 1) * p <= n
    BY <1>3, <1>9, <2>2
  <2>4. q + p \in 0 .. n
    BY <1>1, <1>7, <2>3
  <2> HIDE DEF taken
  <2>5. Divided(n, d, i - 1, q + p, taken - d)
    BY <1>1, <1>3, <1>7, <1>9, <2>1, <2>2 DEF Divided, p, b
  <2> QED BY <2>1, <2>4, <2>5
<1> QED BY <1>3, <1>5, <1>6, <1>7, <1>8, <1>9 DEF p, b, t

LEMMA IterateKeepsInv == Inv /\ Iterate => Inv'
<1> SUFFICES ASSUME Inv, Iterate PROVE Inv'
  OBVIOUS
<1> DEFINE i == Top.i
           q0 == quotient_cache[TopFile]
           r0 == remainder_cache[TopFile]
           shifted == Wrapped(TopFile, 2 * r0)
           taken == OrBit(shifted, Bit(TopFile, Top.numerator, i))
           fits == taken >= Top.denominator
           r == IF fits THEN Wrapped(TopFile, taken - Top.denominator) ELSE taken
           q == IF fits THEN Wrapped(TopFile, q0 + PowerOfTwo[i]) ELSE q0
           c == [Top EXCEPT !.i = i - 1]
<1>1. /\ Go("loop", c) /\ calls # <<>> /\ Top.at = "loop" /\ i >= 0
      /\ remainder_cache' = [remainder_cache EXCEPT ![TopFile] = r]
      /\ quotient_cache' = [quotient_cache EXCEPT ![TopFile] = q]
      /\ UNCHANGED <<numerator_cache, denominator_cache>>
  BY DEF Iterate, Go
<1>2. /\ Top \in Frames /\ TopFile \in File
      /\ ~spoilt[TopFile] =>
            Progress(Top, numerator_cache[TopFile], denominator_cache[TopFile], q0, r0)
  BY <1>1, TopFacts
<1>3. i \in 0 .. Width - 1 /\ Top.numerator \in Long(TopFile) /\ Top.denominator \in Long(TopFile)
  BY <1>1, <1>2, FrameFacts, LongDivModAssumption DEF TopFile
<1>4. /\ c \in Frames /\ c.call = Top.call /\ c.at = "loop" /\ c.sign = Top.sign /\ c.i = i - 1
      /\ c.numerator = Top.numerator /\ c.denominator = Top.denominator
  <2>1. i - 1 \in -1 .. Width - 1
    BY <1>3, LongDivModAssumption
  <2> HIDE DEF Top
  <2> QED BY <1>1, <1>2, <2>1 DEF Frames
<1>5. r \in Long(TopFile) /\ q \in Long(TopFile) /\ r \in Int /\ q \in Int
  <2>1. /\ q0 \in Long(TopFile) /\ q0 \in Int /\ r0 \in Int
        /\ Top.numerator \in Int /\ Top.denominator \in Int
    BY <1>2, <1>3, CacheTypes, LongIsInt
  <2>2. taken \in Long(TopFile) /\ taken \in Int
    BY <1>2, <1>3, <2>1, TakenIsLong, LongIsInt
  <2>3. taken - Top.denominator \in Int /\ q0 + PowerOfTwo[i] \in Int
    <3> HIDE DEF taken, q0
    <3> QED BY <1>3, <2>1, <2>2, PowerPositive
  <2>4. /\ Wrapped(TopFile, taken - Top.denominator) \in Long(TopFile)
        /\ Wrapped(TopFile, q0 + PowerOfTwo[i]) \in Long(TopFile)
    <3> HIDE DEF taken, q0
    <3> QED BY <1>2, <2>3, WrappedIsLong
  <2> HIDE DEF taken, q0
  <2> QED BY <1>2, <2>1, <2>2, <2>4, LongIsInt
<1>6. ASSUME ~spoilt[TopFile]
      PROVE  Progress(c, numerator_cache[TopFile], denominator_cache[TopFile], q, r)
  <2> DEFINE n == Contract!Abs(Top.call.numerator)
             d == Contract!Abs(Top.call.denominator)
             t == (n \div PowerOfTwo[i]) % 2
  <2>1. /\ numerator_cache[TopFile] = Top.call.numerator
        /\ denominator_cache[TopFile] = Top.call.denominator
        /\ Top.numerator = n /\ Top.denominator = d /\ Top.sign = Sign(Top.call)
        /\ Divided(n, d, i, q0, r0)
    BY <1>1, <1>2, <1>6 DEF Progress
  <2>2. /\ n \in Nat /\ d \in Nat \ {0}
        /\ \A x \in 0 .. n : x \in Long(TopFile)
    BY <1>2, Magnitudes DEF TopFile
  <2>3. i \in Nat
    BY <1>3
  <2> HIDE DEF n, d, i, q0, r0
  <2>4. /\ t \in {0, 1} /\ r0 \in Nat /\ 2 * r0 \in 0 .. n /\ 2 * r0 + t \in 0 .. n /\ q0 \in Nat
        /\ 2 * r0 + t < d => Divided(n, d, i - 1, q0, 2 * r0 + t)
        /\ 2 * r0 + t >= d => /\ (2 * r0 + t) - d \in 0 .. n
                              /\ q0 + PowerOfTwo[i] \in 0 .. n
                              /\ Divided(n, d, i - 1, q0 + PowerOfTwo[i], (2 * r0 + t) - d)
    BY <2>1, <2>2, <2>3, BitDivided
  <2>5. shifted = 2 * r0
    BY <1>2, <2>2, <2>4, WrappedLong
  <2>6. Bit(TopFile, Top.numerator, i) = t
    BY <1>2, <1>3, <2>1, <2>2, BitOfMagnitude DEF i
  <2> HIDE DEF t
  <2>7. taken = 2 * r0 + t
    BY <2>4, <2>5, <2>6 DEF OrBit
  <2> HIDE DEF taken, shifted
  <2>8. Divided(n, d, i - 1, q, r)
    <3>1. CASE taken >= d
      <4>1. Wrapped(TopFile, taken - d) = taken - d
        BY <1>2, <2>2, <2>4, <2>7, <3>1, WrappedLong
      <4>2. Wrapped(TopFile, q0 + PowerOfTwo[i]) = q0 + PowerOfTwo[i]
        BY <1>2, <2>2, <2>4, <2>7, <3>1, WrappedLong
      <4> QED BY <2>1, <2>4, <2>7, <3>1, <4>1, <4>2
    <3>2. CASE ~(taken >= d)
      <4>1. taken < d
        BY <2>2, <2>4, <2>7, <3>2
      <4> QED BY <2>1, <2>4, <2>7, <3>2, <4>1
    <3> QED BY <3>1, <3>2
  <2> HIDE DEF q, r, c
  <2> QED BY <1>4, <2>1, <2>8 DEF Progress, n, d
<1> HIDE DEF c, q, r
<1>7. /\ quotient_cache' \in [File -> Int] /\ quotient_cache'[TopFile] = q
      /\ remainder_cache' \in [File -> Int] /\ remainder_cache'[TopFile] = r
      /\ \A g \in File \ {TopFile} : /\ quotient_cache'[g] = quotient_cache[g]
                                     /\ remainder_cache'[g] = remainder_cache[g]
  BY <1>1, <1>2, <1>5, CacheTypes
<1>8. {numerator_cache'[TopFile], denominator_cache'[TopFile],
       quotient_cache'[TopFile], remainder_cache'[TopFile]} \subseteq Long(TopFile)
  BY <1>1, <1>2, <1>5, <1>7, CacheTypes
<1>9. c.at # "lookup"
  BY <1>4
<1>10. ~spoilt[TopFile] =>
         Progress(c, numerator_cache'[TopFile], denominator_cache'[TopFile],
                  quotient_cache'[TopFile], remainder_cache'[TopFile])
  BY <1>1, <1>6, <1>7
<1> QED BY <1>1, <1>2, <1>4, <1>7, <1>8, <1>9, <1>10, CacheTypes, GoKeepsInv

(***************************************************************************)
(* Calls and returns.                                                      *)
(***************************************************************************)
\* What is left when the last member of a sequence goes.
LEMMA AllButLast ==
    ASSUME NEW S, NEW s \in Seq(S), s # <<>>
    PROVE  LET t == SubSeq(s, 1, Len(s) - 1)
           IN  /\ t \in Seq(S) /\ Len(t) = Len(s) - 1
               /\ DOMAIN t = DOMAIN s \ {Len(s)}
               /\ \A k \in DOMAIN t : t[k] = s[k]
<1> DEFINE t == SubSeq(s, 1, Len(s) - 1)
<1>1. Len(s) \in Nat \ {0} /\ DOMAIN s = 1 .. Len(s)
  OBVIOUS
<1>2. Len(t) = Len(s) - 1 /\ \A k \in 1 .. Len(s) - 1 : t[k] = s[k]
  BY <1>1
<1>3. t \in Seq(S)
  BY <1>1
<1>4. DOMAIN t = 1 .. Len(t)
  <2> HIDE DEF t
  <2> QED BY <1>3
<1> HIDE DEF t
<1>5. DOMAIN t = DOMAIN s \ {Len(s)}
  BY <1>1, <1>2, <1>4
<1> QED BY <1>2, <1>3, <1>4, <1>5 DEF t

LEMMA ReturnKeepsInv == Inv /\ Return => Inv'
<1> SUFFICES ASSUME Inv, Return PROVE Inv'
  OBVIOUS
<1>1. /\ calls # <<>> /\ Top.at = "return" /\ calls' = SubSeq(calls, 1, Len(calls) - 1)
      /\ made' = made /\ spoilt' = spoilt
      /\ numerator_cache' = numerator_cache /\ denominator_cache' = denominator_cache
      /\ quotient_cache' = quotient_cache /\ remainder_cache' = remainder_cache
  BY DEF Return, caches
<1>2. /\ Len(calls) \in DOMAIN calls /\ TopFile \in File
      /\ ~spoilt[TopFile] =>
            Progress(Top, numerator_cache[TopFile], denominator_cache[TopFile],
                     quotient_cache[TopFile], remainder_cache[TopFile])
  BY <1>1, TopFacts
<1>3. calls \in Seq(Frames) /\ Len(calls) <= 2
  BY DEF Inv, Types
<1>4. /\ calls' \in Seq(Frames) /\ Len(calls') = Len(calls) - 1
      /\ DOMAIN calls' = DOMAIN calls \ {Len(calls)}
      /\ \A k \in DOMAIN calls' : calls'[k] = calls[k]
  BY <1>1, <1>3, AllButLast
<1>5. Types'
  <2>1. Len(calls') <= 2
    BY <1>3, <1>4
  <2>2. \A g \in File :
            {numerator_cache'[g], denominator_cache'[g],
             quotient_cache'[g], remainder_cache'[g]} \subseteq Long(g)
    BY <1>1, CacheTypes
  <2> QED BY <1>1, <1>4, <2>1, <2>2 DEF Inv, Types
<1>6. OneCall'
  <2>1. OneCall /\ \A f : spoilt'[f] = spoilt[f]
    BY <1>1 DEF Inv
  <2> QED BY <1>4, <2>1 DEF OneCall, File, Contract!File
<1>7. InProgress'
  <2>1. InProgress
    BY DEF Inv
  <2> QED BY <1>1, <1>4, <2>1 DEF InProgress, File, Contract!File
<1>8. CacheCoherent'
  <2> SUFFICES ASSUME NEW g \in File, ~spoilt[g], denominator_cache[g] # 0,
                      ~\E k \in DOMAIN calls' :
                           FileOf(calls'[k].call.entry) = g /\ calls'[k].at \notin {"lookup", "return"}
               PROVE  /\ quotient_cache[g] = Contract!Quotient(numerator_cache[g], denominator_cache[g])
                      /\ remainder_cache[g]
                           = Contract!Abs(Contract!Remainder(numerator_cache[g], denominator_cache[g]))
    BY <1>1 DEF CacheCoherent, File, Contract!File
  <2>1. CASE g = TopFile
    BY <2>1, <1>1, <1>2 DEF Progress
  <2>2. CASE g # TopFile
    <3>1. ~\E k \in DOMAIN calls :
             FileOf(calls[k].call.entry) = g /\ calls[k].at \notin {"lookup", "return"}
      BY <2>2, <1>4 DEF TopFile, Top
    <3> QED BY <3>1 DEF Inv, CacheCoherent
  <2> QED BY <2>1, <2>2
<1> QED BY <1>5, <1>6, <1>7, <1>8 DEF Inv

LEMMA EnterKeepsInv ==
    ASSUME Inv, NEW call \in Called, Enter(call), Len(calls) <= 1,
           made' \in [main : 0 .. Len(Program), interrupts : 0 .. MaxInterrupts]
    PROVE  Inv'
<1>1. /\ calls' = Append(calls, Frame(call))
      /\ numerator_cache' = numerator_cache /\ denominator_cache' = denominator_cache
      /\ quotient_cache' = quotient_cache /\ remainder_cache' = remainder_cache
  BY DEF Enter, caches
<1>2. calls \in Seq(Frames)
  BY DEF Inv, Types
<1>3. Frame(call) \in Frames
  <2> DEFINE f == FileOf(call.entry)
  <2>1. /\ call.numerator \in Long(f) /\ call.denominator \in Long(f)
        /\ call.numerator \in Int /\ call.denominator \in Int
    BY CalledLegal DEF LegalCall
  <2>2. Width - 1 \in -1 .. Width - 1
    BY LongDivModAssumption
  <2> QED BY <2>1, <2>2 DEF Frame, Frames, Place
<1>4. /\ calls' \in Seq(Frames) /\ Len(calls') = Len(calls) + 1
      /\ DOMAIN calls' = DOMAIN calls \union {Len(calls) + 1}
      /\ \A k \in DOMAIN calls : calls'[k] = calls[k]
      /\ calls'[Len(calls) + 1] = Frame(call)
  BY <1>1, <1>2, <1>3
<1>5. DOMAIN calls = 1 .. Len(calls) /\ Len(calls) \in Nat /\ (calls = <<>> <=> Len(calls) = 0)
  BY <1>2
<1>6. /\ spoilt' \in [File -> BOOLEAN]
      /\ \A f \in File : ~spoilt'[f] =>
            /\ ~spoilt[f]
            /\ FileOf(call.entry) = f =>
                  ~\E k \in DOMAIN calls : FileOf(calls[k].call.entry) = f
  <2>1. /\ spoilt \in [File -> BOOLEAN]
        /\ spoilt' = [f \in File |-> spoilt[f] \/ (f = FileOf(call.entry) /\ calls # <<>> /\ TopFile = f)]
    BY DEF Inv, Types, Enter
  <2>2. \A k \in DOMAIN calls : calls # <<>> /\ FileOf(calls[k].call.entry) = TopFile
    BY <1>5 DEF TopFile, Top
  <2> QED BY <2>1, <2>2
<1>7. FileOf(Frame(call).call.entry) = FileOf(call.entry)
  BY DEF Frame
<1>8. Types'
  <2>1. Len(calls') <= 2
    BY <1>4, <1>5
  <2>2. \A g \in File :
            {numerator_cache'[g], denominator_cache'[g],
             quotient_cache'[g], remainder_cache'[g]} \subseteq Long(g)
    BY <1>1, CacheTypes
  <2> QED BY <1>1, <1>4, <1>6, <2>1, <2>2, CacheTypes DEF Types
<1>9. OneCall'
  <2>1. OneCall
    BY DEF Inv
  <2> SUFFICES ASSUME NEW f \in File, ~spoilt'[f], NEW j \in DOMAIN calls', NEW k \in DOMAIN calls',
                      FileOf(calls'[j].call.entry) = f, FileOf(calls'[k].call.entry) = f
               PROVE  j = k
    BY DEF OneCall, File, Contract!File
  <2>2. CASE j \in DOMAIN calls /\ k \in DOMAIN calls
    BY <2>1, <2>2, <1>4, <1>6 DEF OneCall
  <2>3. CASE j = Len(calls) + 1 \/ k = Len(calls) + 1
    BY <2>3, <1>4, <1>6, <1>7
  <2> QED BY <2>2, <2>3, <1>4
<1>10. InProgress'
  <2> SUFFICES ASSUME NEW f \in File, ~spoilt'[f], NEW k \in DOMAIN calls',
                      FileOf(calls'[k].call.entry) = f
               PROVE  Progress(calls'[k], numerator_cache[f], denominator_cache[f],
                               quotient_cache[f], remainder_cache[f])
    BY <1>1 DEF InProgress, File, Contract!File
  <2>1. CASE k \in DOMAIN calls
    BY <2>1, <1>4, <1>6 DEF Inv, InProgress
  <2>2. CASE k = Len(calls) + 1
    <3>1. /\ calls'[k].at = "lookup" /\ calls'[k].sign = 1 /\ calls'[k].i = Width - 1
      BY <2>2, <1>4 DEF Frame
    <3> QED BY <3>1 DEF Progress
  <2> QED BY <2>1, <2>2, <1>4
<1>11. CacheCoherent'
  <2> SUFFICES ASSUME NEW g \in File, ~spoilt'[g], denominator_cache[g] # 0,
                      ~\E k \in DOMAIN calls' :
                           FileOf(calls'[k].call.entry) = g /\ calls'[k].at \notin {"lookup", "return"}
               PROVE  /\ quotient_cache[g] = Contract!Quotient(numerator_cache[g], denominator_cache[g])
                      /\ remainder_cache[g]
                           = Contract!Abs(Contract!Remainder(numerator_cache[g], denominator_cache[g]))
    BY <1>1 DEF CacheCoherent, File, Contract!File
  <2>1. ~\E k \in DOMAIN calls :
             FileOf(calls[k].call.entry) = g /\ calls[k].at \notin {"lookup", "return"}
    BY <1>4
  <2> QED BY <1>6, <2>1 DEF Inv, CacheCoherent
<1> QED BY <1>8, <1>9, <1>10, <1>11 DEF Inv

LEMMA CallByMainKeepsInv == Inv /\ CallByMain => Inv'
<1> SUFFICES ASSUME Inv, CallByMain PROVE Inv'
  OBVIOUS
<1>1. PICK call \in Program[made.main + 1] : Enter(call)
  BY DEF CallByMain
<1>2. made \in [main : 0 .. Len(Program), interrupts : 0 .. MaxInterrupts] /\ made.main < Len(Program)
  BY DEF CallByMain, Inv, Types
<1>3. Program \in Seq(SUBSET LegalCall)
  BY CallsAssumption
<1>4. call \in Called
  <2>1. made.main + 1 \in DOMAIN Program
    BY <1>2, <1>3
  <2> QED BY <1>1, <2>1 DEF Called
<1>5. made' = [made EXCEPT !.main = made.main + 1]
  BY DEF CallByMain
<1>6. made' \in [main : 0 .. Len(Program), interrupts : 0 .. MaxInterrupts]
  <2>1. made.main + 1 \in 0 .. Len(Program)
    BY <1>2, <1>3
  <2> QED BY <1>2, <1>5, <2>1
<1>7. Len(calls) <= 1
  BY DEF CallByMain
<1> QED BY <1>1, <1>4, <1>6, <1>7, EnterKeepsInv

LEMMA CallByInterruptKeepsInv == Inv /\ CallByInterrupt => Inv'
<1> SUFFICES ASSUME Inv, CallByInterrupt PROVE Inv'
  OBVIOUS
<1>1. PICK call \in InterruptCall : Enter(call)
  BY DEF CallByInterrupt
<1>2. /\ made \in [main : 0 .. Len(Program), interrupts : 0 .. MaxInterrupts]
      /\ made.interrupts < MaxInterrupts
  BY DEF CallByInterrupt, Inv, Types
<1>3. call \in Called
  BY <1>1 DEF Called
<1>4. made' = [made EXCEPT !.interrupts = made.interrupts + 1]
  BY DEF CallByInterrupt
<1>5. made' \in [main : 0 .. Len(Program), interrupts : 0 .. MaxInterrupts]
  <2>1. made.interrupts + 1 \in 0 .. MaxInterrupts
    BY <1>2, LongDivModAssumption
  <2> QED BY <1>2, <1>4, <2>1
<1>6. Len(calls) <= 1
  <2>1. Len(calls) \in Nat
    BY DEF Inv, Types
  <2> QED BY <2>1 DEF CallByInterrupt, MaxDepth
<1> QED BY <1>1, <1>3, <1>5, <1>6, EnterKeepsInv

LEMMA InitInv == Init => Inv
<1> SUFFICES ASSUME Init PROVE Inv
  OBVIOUS
<1>1. \A f \in File : 0 \in Long(f)
  BY LongIs, Halves
<1>2. calls = <<>>
  BY DEF Init
<1>3. Types
  <2>1. made \in [main : 0 .. Len(Program), interrupts : 0 .. MaxInterrupts]
    <3>1. Len(Program) \in Nat
      BY CallsAssumption
    <3> QED BY <3>1, LongDivModAssumption DEF Init
  <2> QED BY <1>1, <1>2, <2>1 DEF Init, Types
<1>4. OneCall /\ InProgress
  BY <1>2 DEF OneCall, InProgress
<1>5. CacheCoherent
  BY DEF Init, CacheCoherent
<1> QED BY <1>3, <1>4, <1>5 DEF Inv

LEMMA NextKeepsInv == Inv /\ [Next]_vars => Inv'
<1> SUFFICES ASSUME Inv, [Next]_vars PROVE Inv'
  OBVIOUS
<1>1. CASE CallByMain
  BY <1>1, CallByMainKeepsInv
<1>2. CASE CallByInterrupt
  BY <1>2, CallByInterruptKeepsInv
<1>3. CASE Divide
  BY <1>3, LookupKeepsInv, StoreNumeratorKeepsInv, StoreDenominatorKeepsInv, PassKeepsInv,
     ClearKeepsInv, SignsKeepsInv, IterateKeepsInv, LeaveLoopKeepsInv, ReturnKeepsInv DEF Divide
<1>4. CASE UNCHANGED vars
  <2>1. /\ calls' = calls /\ made' = made /\ spoilt' = spoilt
        /\ numerator_cache' = numerator_cache /\ denominator_cache' = denominator_cache
        /\ quotient_cache' = quotient_cache /\ remainder_cache' = remainder_cache
    BY <1>4 DEF vars, caches
  <2>2. Types' /\ OneCall' /\ InProgress' /\ CacheCoherent'
    BY <2>1 DEF Inv, Types, OneCall, InProgress, CacheCoherent, File, Contract!File
  <2> QED BY <2>2 DEF Inv
<1> QED BY <1>1, <1>2, <1>3, <1>4 DEF Next, Finished

(***************************************************************************)
(* What the invariant gives.                                               *)
(***************************************************************************)
LEMMA SpecInv == Spec => []Inv
<1>1. Init => Inv
  BY InitInv
<1>2. Inv /\ [Next]_vars => Inv'
  BY NextKeepsInv
<1> QED BY <1>1, <1>2, PTL DEF Spec

(* longdivmod.c and ulongdivmod.c keep every variable within its type,     *)
(* whatever is divided and whenever an interrupt routine divides: the      *)
(* remainder that is shifted left and the quotient that is negated wrap.   *)
THEOREM TypeCorrect == Spec => []TypeOK
<1>1. Inv => TypeOK
  <2> SUFFICES ASSUME Inv PROVE TypeOK
    OBVIOUS
  <2>1. \A k \in DOMAIN calls : calls[k] \in Frames
    BY DEF Inv, Types
  <2>2. \A k \in DOMAIN calls :
          /\ calls[k].i \in -1 .. Width - 1
          /\ calls[k].sign \in {-1, 1}
          /\ {calls[k].numerator, calls[k].denominator} \subseteq Long(FileOf(calls[k].call.entry))
    BY <2>1, FrameFacts
  <2>3. made.main \in 0 .. Len(Program) /\ made.interrupts \in 0 .. MaxInterrupts
    BY DEF Inv, Types
  <2> QED BY <2>2, <2>3 DEF Inv, Types, TypeOK, MaxDepth
<1> QED BY <1>1, SpecInv, PTL

(* The shift-and-subtract loop: before every bit, what is in the cache of  *)
(* a file whose calls have not overlapped is the division of the bits      *)
(* above, for operands of any width.                                       *)
THEOREM LoopCorrect == Spec => []LoopInvariant
<1>1. Inv => LoopInvariant
  <2> SUFFICES ASSUME Inv, NEW k \in DOMAIN calls, calls[k].at = "loop",
                      ~spoilt[FileOf(calls[k].call.entry)]
               PROVE  LET c == calls[k]
                          f == FileOf(c.call.entry)
                          done == PowerOfTwo[c.i + 1]
                      IN /\ remainder_cache[f] \in 0 .. c.denominator - 1
                         /\ quotient_cache[f] % done = 0
                         /\ (c.numerator \div done)
                               = (quotient_cache[f] \div done) * c.denominator + remainder_cache[f]
    BY DEF LoopInvariant
  <2> DEFINE c == calls[k]
             f == FileOf(c.call.entry)
             done == PowerOfTwo[c.i + 1]
             q == quotient_cache[f]
             r == remainder_cache[f]
  <2>1. f \in File /\ c \in Frames
    BY FileOfIsFile DEF Inv, Types
  <2>2. Divided(c.numerator, c.denominator, c.i, q, r)
    BY <2>1 DEF Inv, InProgress, Progress
  <2>3. c.i + 1 \in Nat
    BY <2>1, FrameFacts, LongDivModAssumption
  <2>4. done \in Nat \ {0}
    BY <2>3, PowerPositive
  <2>5. PICK m \in Nat : /\ q = m * done
                          /\ c.numerator \div done = m * c.denominator + r
                          /\ r \in 0 .. c.denominator - 1
    BY <2>2 DEF Divided
  <2> HIDE DEF c, done, q, r
  <2>7. PICK w \in Nat \ {0} : w = done
    BY <2>4
  <2>8. q \div done = m /\ q % done = 0
    <3>1. (m * w) \div w = m /\ (m * w) % w = 0
      BY ONLY m \in Nat, w \in Nat \ {0}, Multiple
    <3> QED BY ONLY <2>5, <2>7, <3>1
  <2> QED BY <2>5, <2>8 DEF c, done, q, r
<1> QED BY <1>1, SpecInv, PTL

(* The cache that divmod_s32 and divmod_u32 leave behind belongs to the    *)
(* operands that lie beside it: their quotient, and the magnitude of their *)
(* remainder.                                                              *)
THEOREM CacheCorrect == Spec => []CacheCoherent
<1>1. Inv => CacheCoherent
  BY DEF Inv
<1> QED BY <1>1, SpecInv, PTL

(***************************************************************************)
(* The refinement of Divider, step by step.                                *)
(***************************************************************************)
Pending == [k \in DOMAIN calls |-> calls[k].call]

LEMMA PendingFacts ==
    ASSUME Inv
    PROVE  /\ Pending \in Seq(LegalCall) /\ Len(Pending) = Len(calls)
           /\ DOMAIN Pending = DOMAIN calls
           /\ \A k \in DOMAIN calls : Pending[k] = calls[k].call
<1>1. calls \in Seq(Frames)
  BY DEF Inv, Types
<1>2. DOMAIN calls = 1 .. Len(calls) /\ Len(calls) \in Nat
  BY <1>1
<1>3. \A k \in DOMAIN calls : calls[k].call \in LegalCall
  BY <1>1, FrameFacts
<1> QED BY <1>2, <1>3 DEF Pending

LEMMA InitImplements == Init => Contract!Init
BY DEF Init, Contract!Init, File

\* A step of a call that neither starts nor ends it is none of Divider.
LEMMA GoImplements ==
    ASSUME Inv, NEW from, NEW STATE c, Go(from, c), c.call = Top.call
    PROVE  UNCHANGED <<Pending, spoilt, answer>>
<1>1. calls' = [calls EXCEPT ![Len(calls)] = c] /\ spoilt' = spoilt /\ answer' = answer
  BY DEF Go
<1>2. calls \in Seq(Frames)
  BY DEF Inv, Types
<1>3. DOMAIN calls' = DOMAIN calls /\ \A k \in DOMAIN calls : calls'[k].call = calls[k].call
  BY <1>1, <1>2 DEF Top
<1>4. Pending' = Pending
  BY <1>3 DEF Pending
<1> QED BY <1>1, <1>4

LEMMA DivideImplements ==
    ASSUME Inv, Divide
    PROVE  Return \/ UNCHANGED <<Pending, spoilt, answer>>
<1>1. /\ \A at : [Top EXCEPT !.at = at].call = Top.call
      /\ \A i : [Top EXCEPT !.i = i].call = Top.call
      /\ \A n, d, at : [Top EXCEPT !.numerator = n, !.denominator = d, !.at = at].call = Top.call
      /\ \A s, n, d, at :
            [Top EXCEPT !.sign = s, !.numerator = n, !.denominator = d, !.at = at].call = Top.call
  <2>1. ASSUME calls # <<>> PROVE Top \in Frames
    BY <2>1, TopFacts
  <2>2. calls # <<>>
    BY DEF Divide, Lookup, StoreNumerator, StoreDenominator, Pass, Clear, Signs, Iterate,
           LeaveLoop, Return, Go
  <2> HIDE DEF Top
  <2> QED BY <2>1, <2>2 DEF Frames
<1>2. CASE Lookup
  BY <1>1, <1>2, GoImplements DEF Lookup
<1>3. CASE StoreNumerator
  BY <1>1, <1>3, GoImplements DEF StoreNumerator
<1>4. CASE StoreDenominator
  BY <1>1, <1>4, GoImplements DEF StoreDenominator
<1>5. CASE Pass
  <2> DEFINE c == [Top EXCEPT !.numerator = numerator_cache[TopFile],
                              !.denominator = denominator_cache[TopFile], !.at = "clear"]
  <2>1. Go("pass", c)
    BY <1>5 DEF Pass
  <2>2. c.call = Top.call
    BY <1>1
  <2> HIDE DEF c
  <2> QED BY <2>1, <2>2, GoImplements
<1>6. CASE Clear
  BY <1>1, <1>6, GoImplements DEF Clear
<1>7. CASE Signs
  <2> DEFINE c == [Top EXCEPT !.sign = IF (Top.numerator < 0) = (Top.denominator < 0) THEN 1 ELSE -1,
                              !.numerator = Magnitude(Top.numerator),
                              !.denominator = Magnitude(Top.denominator), !.at = "loop"]
  <2>1. Go("signs", c)
    BY <1>7 DEF Signs
  <2>2. c.call = Top.call
    BY <1>1
  <2> HIDE DEF c
  <2> QED BY <2>1, <2>2, GoImplements
<1>8. CASE Iterate
  BY <1>1, <1>8, GoImplements DEF Iterate
<1>9. CASE LeaveLoop
  BY <1>1, <1>9, GoImplements DEF LeaveLoop
<1> QED BY <1>2, <1>3, <1>4, <1>5, <1>6, <1>7, <1>8, <1>9 DEF Divide

LEMMA EnterImplements ==
    ASSUME Inv, NEW call \in LegalCall, Enter(call), Len(calls) <= 1
    PROVE  Contract!Enter(call)
<1>1. /\ calls' = Append(calls, Frame(call)) /\ answer' = answer
      /\ spoilt' = [f \in File |-> spoilt[f] \/ (f = FileOf(call.entry) /\ calls # <<>> /\ TopFile = f)]
  BY DEF Enter
<1>2. calls \in Seq(Frames)
  BY DEF Inv, Types
<1>3. DOMAIN calls = 1 .. Len(calls) /\ Len(calls) \in Nat /\ (calls = <<>> <=> Len(calls) = 0)
  BY <1>2
<1>4. /\ DOMAIN calls' = 1 .. Len(calls) + 1
      /\ \A k \in DOMAIN calls : calls'[k] = calls[k]
      /\ calls'[Len(calls) + 1].call = call
  BY <1>1, <1>2 DEF Frame
<1>5. Pending' = Append(Pending, call)
  <2>1. Pending' = [k \in 1 .. Len(calls) + 1 |-> calls'[k].call]
    BY <1>4 DEF Pending
  <2>2. Append(Pending, call) = [k \in 1 .. Len(calls) + 1 |-> IF k = Len(calls) + 1 THEN call ELSE Pending[k]]
    <3>1. Pending \in Seq(LegalCall) /\ Len(Pending) = Len(calls)
      BY PendingFacts
    <3> HIDE DEF Pending
    <3> DEFINE a == Append(Pending, call)
    <3>2. /\ a \in Seq(LegalCall) /\ Len(a) = Len(calls) + 1
          /\ \A k \in 1 .. Len(calls) + 1 : a[k] = IF k = Len(calls) + 1 THEN call ELSE Pending[k]
      BY <1>3, <3>1
    <3> HIDE DEF a
    <3>3. DOMAIN a = 1 .. Len(calls) + 1 /\ a = [k \in DOMAIN a |-> a[k]]
      BY <3>2
    <3> QED BY <3>2, <3>3 DEF a
  <2>3. \A k \in 1 .. Len(calls) + 1 : calls'[k].call = IF k = Len(calls) + 1 THEN call ELSE Pending[k]
    BY <1>3, <1>4, PendingFacts
  <2> QED BY <2>1, <2>2, <2>3
<1>6. \A f \in File : (calls # <<>> /\ TopFile = f) <=> \E k \in DOMAIN Pending : FileOf(Pending[k].entry) = f
  BY <1>3, PendingFacts DEF TopFile, Top
<1>7. spoilt' = [f \in File |-> \/ spoilt[f]
                                \/ /\ f = FileOf(call.entry)
                                   /\ \E k \in DOMAIN Pending : FileOf(Pending[k].entry) = f]
  BY <1>1, <1>6
<1>8. Len(Pending) < MaxDepth
  BY <1>3, PendingFacts DEF MaxDepth
<1> QED BY <1>1, <1>5, <1>7, <1>8 DEF Contract!Enter, Pending, File, FileOf

\* A remainder that is asked for is one of a number that is not negative.
LEMMA SignIsKept ==
    ASSUME SignKept(Called), NEW call \in Called, call.entry \in {"__modsi3", "__umodsi3"}
    PROVE  call.numerator >= 0
<1>1. CASE call.entry = "__modsi3"
  BY <1>1 DEF SignKept
<1>2. CASE call.entry = "__umodsi3"
  <2>1. call.numerator \in Long("u32")
    <3>1. FileOf(call.entry) = "u32"
      BY <1>2 DEF FileOf, Contract!FileOf
    <3> QED BY <3>1, CalledLegal DEF LegalCall
  <2> QED BY <2>1, LongIs, Halves DEF File, Contract!File
<1> QED BY <1>1, <1>2

LEMMA ReturnImplements ==
    ASSUME Inv, SignKept(Called), Return
    PROVE  Contract!Leave
<1> DEFINE v == IF Top.call.entry \in {"__divsi3", "__udivsi3"}
                THEN quotient_cache[TopFile] ELSE remainder_cache[TopFile]
<1>1. /\ calls # <<>> /\ Top.at = "return" /\ calls' = SubSeq(calls, 1, Len(calls) - 1)
      /\ answer' = <<Top.call, v>> /\ spoilt' = spoilt
  BY DEF Return
<1>2. /\ Len(calls) \in DOMAIN calls /\ Top \in Frames /\ TopFile \in File
      /\ ~spoilt[TopFile] =>
            Progress(Top, numerator_cache[TopFile], denominator_cache[TopFile],
                     quotient_cache[TopFile], remainder_cache[TopFile])
  BY <1>1, TopFacts
<1>3. calls \in Seq(Frames)
  BY DEF Inv, Types
<1>4. Len(Pending) = Len(calls) /\ Pending[Len(Pending)] = Top.call /\ Pending # <<>>
  BY <1>1, <1>2, PendingFacts DEF Top
<1>5. v \in Int
  BY <1>2, CacheTypes
<1>6. spoilt[TopFile] \/ v = Contract!Promised(Top.call)
  <2> DEFINE n == Top.call.numerator
             d == Top.call.denominator
  <2>1. Top.call \in Called /\ Top.call \in LegalCall /\ n \in Int /\ d \in Int /\ d # 0
    BY <1>2, FrameFacts DEF LegalCall
  <2>2. ASSUME Top.call.entry \in {"__modsi3", "__umodsi3"}
        PROVE  Contract!Abs(Contract!Remainder(n, d)) = Contract!Remainder(n, d)
    <3>1. n >= 0
      BY <2>1, <2>2, SignIsKept
    <3>2. Contract!Abs(n) \in Nat /\ Contract!Abs(d) \in Nat \ {0}
      BY <2>1 DEF Contract!Abs
    <3>3. Contract!Abs(n) % Contract!Abs(d) \in Nat
      BY <3>2
    <3> HIDE DEF n, d
    <3> QED BY <2>1, <3>1, <3>3, RemainderIs
  <2>3. Top.call.entry \in {"__divsi3", "__udivsi3", "__modsi3", "__umodsi3"}
    BY <2>1 DEF LegalCall
  <2>4. ASSUME ~spoilt[TopFile]
        PROVE  v = IF Top.call.entry \in {"__divsi3", "__udivsi3"} THEN Contract!Quotient(n, d)
                   ELSE Contract!Abs(Contract!Remainder(n, d))
    BY <1>1, <1>2, <2>4 DEF Progress
  <2> HIDE DEF v
  <2> QED BY <2>2, <2>3, <2>4 DEF Contract!Promised
<1> HIDE DEF v
<1>7. Pending' = SubSeq(Pending, 1, Len(Pending) - 1)
  <2>1. /\ DOMAIN calls' = DOMAIN calls \ {Len(calls)}
        /\ \A k \in DOMAIN calls' : calls'[k] = calls[k]
    BY <1>1, <1>3, AllButLast
  <2>2. Pending' = [k \in DOMAIN calls \ {Len(calls)} |-> calls[k].call]
    BY <2>1 DEF Pending
  <2>3. Pending # <<>> /\ Pending \in Seq(LegalCall)
    BY <1>4, PendingFacts
  <2> DEFINE t == SubSeq(Pending, 1, Len(Pending) - 1)
  <2>4. /\ t \in Seq(LegalCall) /\ DOMAIN t = DOMAIN Pending \ {Len(Pending)}
        /\ \A k \in DOMAIN t : t[k] = Pending[k]
    BY <2>3, AllButLast
  <2> HIDE DEF t
  <2>5. t = [k \in DOMAIN t |-> t[k]]
    BY <2>4
  <2>6. t = [k \in DOMAIN calls \ {Len(calls)} |-> calls[k].call]
    BY <2>4, <2>5, PendingFacts
  <2> QED BY <2>2, <2>6 DEF t
<1>8. answer' \in {Top.call} \X Int /\ (spoilt[TopFile] \/ answer'[2] = Contract!Promised(Top.call))
  BY <1>1, <1>5, <1>6
<1> QED BY <1>1, <1>4, <1>7, <1>8 DEF Contract!Leave, Pending, TopFile, FileOf

(* The divisions with a cache implement divisions without one: every call *)
(* that returns gives the quotient or the remainder that C defines for its *)
(* own operands, as long as no two calls of its file have overlapped.  Of  *)
(* the program it takes that it asks for no remainder of a negative number *)
(* (SignKept), for which __modsi3 returns the remainder without its sign.  *)
THEOREM Implements == SignKept(Called) /\ Spec => ImplementsDivider
<1> SUFFICES ASSUME SignKept(Called) PROVE Spec => ImplementsDivider
  OBVIOUS
<1>1. Init => Contract!Init
  BY InitImplements
<1>2. Inv /\ [Next]_vars => [Contract!Next]_(Contract!dividerVars)
  <2> SUFFICES ASSUME Inv, [Next]_vars PROVE [Contract!Next]_(Contract!dividerVars)
    OBVIOUS
  <2>1. CASE CallByMain
    <3>1. PICK call \in Program[made.main + 1] : Enter(call)
      BY <2>1 DEF CallByMain
    <3>2. Program \in Seq(SUBSET LegalCall) /\ made.main + 1 \in DOMAIN Program
      <4>1. made.main \in Nat /\ made.main < Len(Program)
        BY <2>1 DEF CallByMain, Inv, Types
      <4> QED BY <4>1, CallsAssumption
    <3>3. call \in LegalCall
      BY <3>1, <3>2
    <3>4. call \in Called
      BY <3>1, <3>2 DEF Called
    <3>5. Len(calls) <= 1
      BY <2>1 DEF CallByMain
    <3> QED BY <3>1, <3>3, <3>4, <3>5, EnterImplements DEF Contract!Next
  <2>2. CASE CallByInterrupt
    <3>1. PICK call \in InterruptCall : Enter(call)
      BY <2>2 DEF CallByInterrupt
    <3>2. call \in LegalCall
      BY <3>1, CallsAssumption
    <3>3. Len(calls) <= 1
      <4>1. Len(calls) \in Nat
        BY DEF Inv, Types
      <4> QED BY <2>2, <4>1 DEF CallByInterrupt, MaxDepth
    <3>4. call \in Called
      BY <3>1 DEF Called
    <3> QED BY <3>1, <3>2, <3>3, <3>4, EnterImplements DEF Contract!Next
  <2>3. CASE Divide
    BY <2>3, DivideImplements, ReturnImplements DEF Contract!Next, Contract!dividerVars, Pending
  <2>4. CASE UNCHANGED vars
    BY <2>4 DEF vars, Contract!dividerVars
  <2> QED BY <2>1, <2>2, <2>3, <2>4 DEF Next, Finished
<1> QED BY <1>1, <1>2, SpecInv, PTL DEF Spec, ImplementsDivider, Contract!Spec
=============================================================================
