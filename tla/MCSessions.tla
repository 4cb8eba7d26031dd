------------------------------ MODULE MCSessions ------------------------------
(* Sessions on a small instance. *)
EXTENDS Sessions, TLC

CONSTANTS c, d

TwoCalls == {c, d}
CallSymmetry == Permutations(TwoCalls)
===============================================================================
