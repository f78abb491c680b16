-------------------------- MODULE TimeMachine --------------------------
(***************************************************************************)
(* The snapshot history of VMs (vyomad/src/timemachine.rs) and the         *)
(* automatic snapshots (auto_snapshot.rs), with the handlers that use the  *)
(* history: snapshot_vm, branch_vm_handler and restore_vm.                 *)
(*                                                                         *)
(* The history is in sled and survives the daemon; the tasks do not.  A    *)
(* snapshot's id is the VM and the how-manieth of that VM it is: ids are   *)
(* fresh, and their order is the order of creation.                        *)
(***************************************************************************)
EXTENDS Naturals, Sequences, SequencesExt

CONSTANTS
    Vms, Labels,
    Booted,       \* the VMs the registry starts with
    AutoLabel,    \* the label of automatic snapshots
    None,
    Retain,       \* AutoSnapshotConfig.retain_count
    Tasks,        \* the auto-snapshot loops that may be started
    MaxSnaps      \* bound: snapshots of a VM

ASSUME TimeMachineAssumption ==
    Retain \in Nat /\ MaxSnaps \in Nat /\ None \notin Tasks \cup Labels /\ AutoLabel \in Labels /\ Booted \subseteq Vms

VARIABLES
    hist,         \* timemachine_tree: the entries of each VM, in order
    made,         \* how many snapshots each VM has had
    vms,          \* AppState.vms
    tasks,        \* AutoSnapshotManager.tasks: the loop that holds each VM's receiver
    loop,         \* each loop: its VM and where it is
    lock,         \* the loop that has the write guard of the TimeMachine
    answer,       \* the label of the last vm_restored event
    cut           \* history: whether a VM's newest snapshot was itself deleted

tmVars == <<hist, made, vms, tasks, loop, lock, answer, cut>>

Id(v, n) == [vm |-> v, n |-> n]
Entry    == [id : [vm : Vms, n : 1 .. MaxSnaps], label : Labels,
             parent : [vm : Vms, n : 1 .. MaxSnaps] \cup {None}]

TmInit ==
    /\ hist = [v \in Vms |-> <<>>] /\ made = [v \in Vms |-> 0]
    /\ vms = Booted
    /\ tasks = [v \in Vms |-> None]
    /\ loop = [l \in Tasks |-> [vm |-> None, pc |-> "new"]]
    /\ lock = None /\ answer = None /\ cut = [v \in Vms |-> FALSE]

----------------------------------------------------------------------------
(* The history.  Only the pruning of automatic snapshots deletes entries.    *)

\* Faulty variant of create_snapshot: the new entry is put first.
create_snapshot_Fault(v, lab) ==
    LET h == hist[v] IN
    /\ made[v] < MaxSnaps /\ made' = [made EXCEPT ![v] = @ + 1]
    /\ cut' = [cut EXCEPT ![v] = FALSE]
    /\ hist' = [hist EXCEPT ![v] =
                  <<[id |-> Id(v, made[v] + 1), label |-> lab,
                     parent |-> IF h = <<>> THEN None ELSE Last(h).id]>> \o h]

\* The entry that is last becomes the parent of the new one.
create_snapshot(v, lab) ==
    LET h == hist[v] IN
    /\ made[v] < MaxSnaps /\ made' = [made EXCEPT ![v] = @ + 1]
    /\ cut' = [cut EXCEPT ![v] = FALSE]
    /\ hist' = [hist EXCEPT ![v] =
                  Append(h, [id |-> Id(v, made[v] + 1), label |-> lab,
                             parent |-> IF h = <<>> THEN None ELSE Last(h).id])]

\* What a reference may be: an id, a label, or snap:N.
Refs(v) == {[kind |-> "id", of |-> Id(v, n)] : n \in 1 .. MaxSnaps}
           \cup {[kind |-> "label", of |-> x] : x \in Labels}
           \cup {[kind |-> "snap", of |-> n] : n \in 0 .. MaxSnaps}

\* get_snapshot: the position of the entry a reference names, or 0.  snap:1 and
\* snap:0 both name the first entry.
get_snapshot(v, ref) ==
    LET h == hist[v]
        First(P(_)) == LET at == {i \in DOMAIN h : P(h[i])}
                       IN  IF at = {} THEN 0 ELSE CHOOSE i \in at : \A j \in at : i <= j
    IN  CASE ref.kind = "id"    -> First(LAMBDA e : e.id = ref.of)
          [] ref.kind = "label" -> First(LAMBDA e : e.label = ref.of)
          [] ref.kind = "snap"  -> IF ref.of = 0 THEN (IF h = <<>> THEN 0 ELSE 1)
                                   ELSE IF ref.of <= Len(h) THEN ref.of ELSE 0

\* delete_snapshot relinks after it has removed the entry, so the indices have
\* moved: when two entries follow, the second takes the place of the first and is
\* in the list twice.
Deleted(h, i) ==
    LET rest == RemoveAt(h, i) IN
    IF i + 1 <= Len(rest)
      THEN [rest EXCEPT ![i] = [rest[i + 1] EXCEPT !.parent = rest[i].id]]
      ELSE rest

delete_snapshot(v, ref) ==
    /\ get_snapshot(v, ref) # 0
    /\ hist' = [hist EXCEPT ![v] = Deleted(hist[v], get_snapshot(v, ref))]
    /\ cut' = [cut EXCEPT ![v] = @ \/ hist[v][get_snapshot(v, ref)].id = Id(v, made[v])]

----------------------------------------------------------------------------
(* The handlers.  Each takes the guard of the TimeMachine for one operation.  *)

\* snapshot_vm records the entry and makes its directory.
Snapshot(v, lab) ==
    /\ lock = None /\ v \in vms /\ create_snapshot(v, lab)
    /\ UNCHANGED <<vms, tasks, loop, lock, answer>>

\* branch_vm_handler records an entry for the new VM before it boots it.
Branch(v, w, ref) ==
    /\ lock = None /\ v \in vms /\ w \notin vms /\ made[w] = 0
    /\ get_snapshot(v, ref) # 0 /\ create_snapshot(w, AutoLabel)
    /\ vms' \in {vms, vms \cup {w}}
    /\ UNCHANGED <<tasks, loop, lock, answer>>

\* Faulty variant of Restore: the event carries the snapshot's id as its label.
Restore_Fault(v, ref) ==
    /\ lock = None /\ v \in vms /\ get_snapshot(v, ref) # 0
    /\ answer' = hist[v][get_snapshot(v, ref)].id
    /\ UNCHANGED <<hist, made, vms, tasks, loop, lock, cut>>

\* restore_vm for a VM in the registry.  No operation of the daemon writes the
\* snapshot's file, so the hypervisor is not asked to load anything.
Restore(v, ref) ==
    /\ lock = None /\ v \in vms /\ get_snapshot(v, ref) # 0
    /\ answer' = hist[v][get_snapshot(v, ref)].label
    /\ UNCHANGED <<hist, made, vms, tasks, loop, lock, cut>>

----------------------------------------------------------------------------
(* AutoSnapshotManager.                                                      *)

At(l, pc) == loop' = [loop EXCEPT ![l].pc = pc]

start_task(v, l) ==
    /\ tasks[v] = None /\ loop[l].pc = "new"
    /\ tasks' = [tasks EXCEPT ![v] = l]
    /\ loop' = [loop EXCEPT ![l] = [vm |-> v, pc |-> "select"]]
    /\ UNCHANGED <<hist, made, vms, lock, answer, cut>>

\* The sender is dropped with the entry.
stop_task(v) ==
    /\ tasks[v] # None /\ tasks' = [tasks EXCEPT ![v] = None]
    /\ UNCHANGED <<hist, made, vms, loop, lock, answer, cut>>

\* A tick may win the select even when the sender is gone.
TickCreate(l) ==
    /\ loop[l].pc = "select" /\ lock = None /\ create_snapshot(loop[l].vm, AutoLabel)
    /\ lock' = l /\ At(l, "prune")
    /\ UNCHANGED <<vms, tasks, answer>>

\* Under the same guard: one entry, the oldest, if there are more than Retain.
TickPrune(l) ==
    LET v == loop[l].vm IN
    /\ loop[l].pc = "prune" /\ lock' = None /\ At(l, "select")
    /\ IF Len(hist[v]) > Retain
         THEN delete_snapshot(v, [kind |-> "id", of |-> hist[v][1].id])
         ELSE UNCHANGED <<hist, cut>>
    /\ UNCHANGED <<made, vms, tasks, answer>>

Stopped(l) == loop[l].pc \in {"select", "prune"} /\ tasks[loop[l].vm] # l

\* Faulty variant of LoopBreak: any wake-up of the receiver ends the loop.
LoopBreak_Fault(l) ==
    /\ loop[l].pc = "select" /\ At(l, "leave")
    /\ UNCHANGED <<hist, made, vms, tasks, lock, answer, cut>>

\* changed() fails once the sender is gone.
LoopBreak(l) ==
    /\ loop[l].pc = "select" /\ Stopped(l) /\ At(l, "leave")
    /\ UNCHANGED <<hist, made, vms, tasks, lock, answer, cut>>

\* The loop removes whatever entry the VM has now, a later task's included.
LoopLeave(l) ==
    /\ loop[l].pc = "leave" /\ At(l, "ended")
    /\ tasks' = [tasks EXCEPT ![loop[l].vm] = None]
    /\ UNCHANGED <<hist, made, vms, lock, answer, cut>>

\* The daemon ends and starts again: sled keeps the history, even between the two
\* writes of a tick.
Restart ==
    /\ \E l \in Tasks : loop[l].pc \in {"select", "prune", "leave"}
    /\ tasks' = [v \in Vms |-> None] /\ lock' = None
    /\ loop' = [l \in Tasks |-> IF loop[l].pc = "new" THEN loop[l] ELSE [loop[l] EXCEPT !.pc = "ended"]]
    /\ UNCHANGED <<hist, made, vms, answer, cut>>

TmNext ==
    \/ \E v \in Vms, lab \in Labels \ {AutoLabel} : Snapshot(v, lab)
    \/ \E v \in Vms : \E ref \in Refs(v) : Restore(v, ref)
    \/ \E v, w \in Vms : \E ref \in Refs(v) : Branch(v, w, ref)
    \/ \E v \in Vms, l \in Tasks : start_task(v, l)
    \/ \E v \in Vms : stop_task(v)
    \/ \E l \in Tasks : TickCreate(l) \/ TickPrune(l) \/ LoopBreak(l) \/ LoopLeave(l)
    \/ Restart

\* A tick is a matter of time; the select picks among what is ready at random, so
\* a loop whose sender is gone leaves in the end.
TmFair == \A l \in Tasks :
    WF_tmVars(TickPrune(l)) /\ SF_tmVars(LoopBreak(l)) /\ WF_tmVars(LoopLeave(l))

----------------------------------------------------------------------------

\* Every variable keeps its type: entries have ids that were given, a loop is where
\* auto_snapshot_loop can be.
TmTypeOK ==
    /\ hist \in [Vms -> Seq(Entry)] /\ made \in [Vms -> 0 .. MaxSnaps] /\ vms \subseteq Vms
    /\ tasks \in [Vms -> Tasks \cup {None}]
    /\ loop \in [Tasks -> [vm : Vms \cup {None}, pc : {"new", "select", "prune", "leave", "ended"}]]
    /\ lock \in Tasks \cup {None}
    /\ answer \in Labels \cup {None} /\ cut \in [Vms -> BOOLEAN]
=========================================================================
