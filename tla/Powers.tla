------------------------------- MODULE Powers -------------------------------
(***************************************************************************)
(* Powers of two as the recursive function they are, which a proof can     *)
(* take apart; the operator ^ it cannot.                                   *)
(***************************************************************************)
EXTENDS Integers

PowerOfTwo[n \in Nat] == IF n = 0 THEN 1 ELSE 2 * PowerOfTwo[n - 1]
=============================================================================
