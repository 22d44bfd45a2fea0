------------------------------ MODULE MCPoller ------------------------------
(* Small instances of Poller. *)
EXTENDS Poller, TLC

CONSTANTS j1, j2, j3

JobSymmetry == Permutations(Jobs)
=============================================================================
