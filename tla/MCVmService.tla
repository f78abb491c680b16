---------------------------- MODULE MCVmService ----------------------------
(* VmService for TLC: one VM and two overlapping calls.                     *)
EXTENDS VmService, TLC

CONSTANTS v1, r1, r2

Symmetry == Permutations(Reqs)
=============================================================================
