------------------------------- MODULE MCTireal -------------------------------
(***************************************************************************)
(* Constants for Tireal: digits on both sides of the point, zeros in front *)
(* and behind, exponents, the 14 digits a double holds, and both signs.    *)
(* Left out are the constants that meet a known defect: two negative ones  *)
(* (NegativesReversed proves what becomes of them), a negative zero, an    *)
(* exponent with a plus sign, and one behind more digits than 14.          *)
(***************************************************************************)
EXTENDS Tireal

OneToNine(n) == [i \in 1 .. n |-> (i % 9) + 1]

Wholes == {<<0>>, <<7>>, <<4, 2>>, <<9, 9, 9>>, <<1, 0, 0, 0>>}

Fractions == {<<>>, <<0>>, <<5>>, <<0, 5>>, <<0, 0, 1, 2>>}

Exponents == {<<>>, <<7>>, <<1, 2>>}

(* decimal128ToString writes an exponent only to numbers that need one. *)
Short(negative) ==
  {Text(negative, w, f, IF e = <<>> THEN "none" ELSE "minus", e) :
     w \in Wholes, f \in Fractions, e \in Exponents}

Long(negative) ==
  {Text(negative, OneToNine(n), Append(OneToNine(13 - n), last), "none", <<>>) :
     n \in {1, 2, 8, 13}, last \in {1, 5, 9}}

(* Three digits a double has no room for. *)
Longer(negative) ==
  {Text(negative, OneToNine(n), OneToNine(17 - n), "none", <<>>) : n \in {1, 14}}

IsZero(text) == TextValue(text).sign = 0

Positive == Short(FALSE) \cup Long(FALSE) \cup Longer(FALSE)

Negative == {t \in Short(TRUE) \cup Long(TRUE) \cup Longer(TRUE) : ~IsZero(t)}

MCConstants == (Positive \X Positive) \cup (Positive \X Negative) \cup (Negative \X Positive)

(* No pair meets a known defect. *)
ASSUME MCTirealAssumption == \A pair \in MCConstants : Pairs(pair)
=============================================================================
