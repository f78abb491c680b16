--------------------------- MODULE Programs ---------------------------
(***************************************************************************)
(* Three programs that keep books of VMs and their snapshots, each for     *)
(* itself: the daemon with its TimeMachine, a program built on             *)
(* vyoma-storage with its SnapshotTree, and the Kubernetes bridge.  They   *)
(* share no state (the daemon uses no SnapshotTree, and the bridge makes   *)
(* no snapshots), so a behaviour is one of any of the three.               *)
(***************************************************************************)
EXTENDS TimeMachine, SnapshotTree, Cri

VARIABLE program     \* which of them runs

vars == <<tmVars, treeVars, criVars, program>>

Init == TmInit /\ TreeInit /\ CriInit /\ program \in {"daemon", "storage", "bridge"}

Daemon  == program = "daemon" /\ TmNext /\ UNCHANGED <<treeVars, criVars, program>>
Storage == program = "storage" /\ TreeNext /\ UNCHANGED <<tmVars, criVars, program>>
Bridge  == program = "bridge" /\ CriNext /\ UNCHANGED <<tmVars, treeVars, program>>

Next == Daemon \/ Storage \/ Bridge

Spec     == Init /\ [][Next]_vars
FairSpec == Spec /\ TmFair /\ CriFair

----------------------------------------------------------------------------

\* Each program keeps its types.
TypeOK == TmTypeOK /\ TreeTypeOK /\ CriTypeOK /\ program \in {"daemon", "storage", "bridge"}

\* Through pruning, with its relinking at moved indices, crashes between the two
\* writes of a tick, overlapping loops and manual snapshots: the history stays in
\* order of creation, a parent is an older snapshot of the same VM, so that walking
\* the parents ends, and the newest snapshot is last unless it was itself pruned
\* (get_latest_snapshot).  In the tree, too, a parent is older than its children,
\* though an update may bring a deleted node back.
Ancestry ==
    /\ \A v \in Vms :
        /\ \A i, j \in DOMAIN hist[v] : i <= j => hist[v][i].id.n <= hist[v][j].id.n
        /\ \A i \in DOMAIN hist[v] :
            hist[v][i].parent = None \/ (hist[v][i].parent.vm = v /\ hist[v][i].parent.n < hist[v][i].id.n)
        /\ made[v] = 0 \/ cut[v] \/ (hist[v] # <<>> /\ Last(hist[v]).id = Id(v, made[v]))
    /\ \A i \in Ids : Has(i) => node[i].parent < i

\* What is_running reports is a loop of that VM that is alive, however starts and
\* stops overlap with loops that are leaving and remove entries that are not theirs;
\* and a loop that has lost its sender ends (stop_task, auto_snapshot_loop).
TasksAgree ==
    /\ [](\A v \in Vms : tasks[v] # None => loop[tasks[v]].vm = v /\ loop[tasks[v]].pc \in {"select", "prune"})
    /\ \A l \in Tasks : Stopped(l) ~> loop[l].pc = "ended"
========================================================================
