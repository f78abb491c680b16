----------------------------- MODULE MCRecovery -----------------------------
(* Two VMs, each made in one of the three ways, and two restarts.             *)
EXTENDS Recovery
=============================================================================
