---------------------------- MODULE MCTeleport ----------------------------
(* Two requests for one VM, to the same target and to two targets.           *)
EXTENDS Teleport

CONSTANTS s1, s2, v1, t1, t2

MCJobs ==
    {[s \in {s1, s2} |-> [vm |-> v1, to |-> IF s = s1 THEN t1 ELSE t]] : t \in {t1, t2}}
===========================================================================
