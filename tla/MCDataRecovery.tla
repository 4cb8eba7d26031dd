---------------------------- MODULE MCDataRecovery ----------------------------
(* DataRecovery on a small instance. *)
EXTENDS DataRecovery, TLC

CONSTANTS scan, photo

TwoAttachments == {scan, photo}
AttachmentSymmetry == Permutations(TwoAttachments)
===============================================================================
