----------------------------- MODULE MCDeployment -----------------------------
(* Deployment on small instances. *)
EXTENDS Deployment, TLC

CONSTANTS w1, w2

TwoWrites == {w1, w2}
WriteSymmetry == Permutations(TwoWrites)
===============================================================================
