---------------------------- MODULE MCPrograms ----------------------------
(* Daemon: one VM and one that is branched from it, two loops, and enough     *)
(* snapshots for a second pruning, of a history the first has relinked.       *)
(* Storage: a chain of three nodes, two threads.  Bridge: two calls at a time *)
(* on a pod and its containers; ids are given again, so histories are as long *)
(* as they like.                                                              *)
EXTENDS Programs
============================================================================
