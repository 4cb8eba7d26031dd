----------------------------- MODULE MCCorrections -----------------------------
(* Corrections on a small instance. *)
EXTENDS Corrections, TLC

CONSTANTS x, y

TwoAdmins == {x, y}
AdminSymmetry == Permutations(TwoAdmins)
===============================================================================
