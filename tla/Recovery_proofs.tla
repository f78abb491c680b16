-------------------------- MODULE Recovery_proofs --------------------------
(***************************************************************************)
(* Proofs about Recovery, for every set of VMs and every number of         *)
(* restarts: what a stop has given back stays gone over crashes and        *)
(* restarts, a graceful shutdown leaves no hypervisor of its own, and the  *)
(* startup scan takes nothing from a VM that runs.                         *)
(***************************************************************************)
EXTENDS Recovery, TLAPS

-----------------------------------------------------------------------------
(* The inductive invariant.                                                 *)

(* The tables of the daemon as functions: TypeOK tells only their values.  *)
Tables ==
    /\ reg \in [Vms -> Entry \cup {None}]
    /\ held \in [Vms -> Entry \cup {None}]
    /\ recovered \in [Vms -> (SUBSET Resources) \cup {None}]

(* An entry is in the registry only while its VM is live or restore_vm is  *)
(* writing its log, and it is held outside exactly during its clean-up.    *)
(* Without a serving daemon there are no entries and no handlers, and what *)
(* the startup scan has adopted is known only to the scan.                 *)
EntriesOK ==
    /\ \A v \in Vms : reg[v] # None => op[v] \in {"live", "logCreate", "logStart"}
    /\ \A v \in Vms : held[v] # None <=> op[v] = "cleanup"
    /\ ~ Serving => \A v \in Vms : reg[v] = None /\ op[v] \in Idle \ {"live"}
    /\ life # "scan" => \A v \in Vms : recovered[v] = None

(* What a stop has given back: nothing refers to the VM any more, and the  *)
(* scan has not adopted it, for it has no directory.                       *)
ReleasedOK ==
    \A v \in released :
        /\ v \notin proc \cup dir /\ res[v] = {}
        /\ op[v] = "gone" /\ reg[v] = None /\ recovered[v] = None

(* A hypervisor that this daemon process started has a VmmManager: of the  *)
(* handler that makes the VM, of the registry's entry, or of a stop.  One  *)
(* that runs and has none outlived a crash.                                *)
Started == {"runSave", "runInsert", "restLoad", "restInsert", "branchInsert"}

Managed(v) ==
    \/ op[v] \in Started /\ held[v] = None /\ reg[v] = None
    \/ held[v] # None /\ held[v].child
    \/ held[v] = None /\ reg[v] # None /\ reg[v].child

ManagedOK ==
    /\ Serving => \A v \in proc \ stray : Managed(v)
    /\ ~ Serving => proc \subseteq stray

(* Only run_vm writes state.json and only restore_vm opens a log: a VM     *)
(* that the log names as active has no state.json.                         *)
LogOK ==
    /\ \A v \in Vms : op[v] \in {"new", "runStart", "runSave", "runInsert"} => wal[v] = <<>>
    /\ \A v \in Vms : op[v] \in {"new"} \cup (MakeSteps \ {"runSave", "runInsert"})
                         => json[v] = "none"
    /\ \A v \in get_active_vm_ids : json[v] = "none"
    /\ \A v \in todo : json[v] = "none"
    /\ life # "scan" => todo = {}

RecoveryInv == TypeOK /\ Tables /\ EntriesOK /\ ReleasedOK /\ ManagedOK /\ LogOK

\* An append leaves the first entry of a log where it is.
LEMMA FirstEntry ==
    ASSUME NEW S, NEW s \in Seq(S), NEW e \in S
    PROVE  /\ Append(s, e) \in Seq(S) /\ Append(s, e) # <<>>
           /\ s # <<>> => Head(Append(s, e)) = Head(s)
           /\ s = <<>> => Head(Append(s, e)) = e
  OBVIOUS

\* Every step keeps the types.
LEMMA TypesKept ==
    ASSUME RecoveryInv, [Next]_vars
    PROVE  TypeOK' /\ Tables'
  <1>. USE RecoveryAssumption
  <1>. USE DEF RecoveryInv
  <1>1. ASSUME NEW v \in Vms, RunPrepare(v) PROVE TypeOK' /\ Tables'
    BY <1>1 DEF TypeOK, Tables, Entry, Resources, Idle, MakeSteps, StopSteps, EntriesOK,
                Serving, RunPrepare, Goto, makeFrame, diskVars
  <1>2. ASSUME NEW v \in Vms, RunStart(v) PROVE TypeOK' /\ Tables'
    BY <1>2 DEF TypeOK, Tables, Entry, Resources, Idle, MakeSteps, StopSteps, EntriesOK,
                Serving, RunStart, Goto, Start, makeFrame, diskVars
  <1>3. ASSUME NEW v \in Vms, RunFails(v) PROVE TypeOK' /\ Tables'
    <2>1. PICK r \in SUBSET Resources : res' = [res EXCEPT ![v] = r]
      <3>1. res = [res EXCEPT ![v] = res[v]]  BY DEF TypeOK
      <3>2. {} \in SUBSET Resources /\ res[v] \in SUBSET Resources  BY DEF TypeOK
      <3>. QED  BY <1>3, <3>1, <3>2 DEF RunFails
    <2>. QED  BY <1>3, <2>1 DEF TypeOK, Tables, Entry, Resources, Idle, MakeSteps, StopSteps,
                                Goto, RunFails, Kill, makeFrame, EntriesOK, Serving
  <1>4. ASSUME NEW v \in Vms, RunSave(v) PROVE TypeOK' /\ Tables'
    BY <1>4 DEF TypeOK, Tables, Entry, Resources, Idle, MakeSteps, StopSteps, EntriesOK,
                Serving, RunSave, makeFrame, diskVars
  <1>5. ASSUME NEW v \in Vms, RunSaved(v) PROVE TypeOK' /\ Tables'
    BY <1>5 DEF TypeOK, Tables, Entry, Resources, Idle, MakeSteps, StopSteps, EntriesOK,
                Serving, RunSaved, Goto, makeFrame, diskVars
  <1>6. ASSUME NEW v \in Vms, RunInsert(v) PROVE TypeOK' /\ Tables'
    BY <1>6 DEF TypeOK, Tables, Entry, Resources, Idle, MakeSteps, StopSteps, EntriesOK,
                Serving, RunInsert, Goto, Insert, makeFrame, diskVars
  <1>7. ASSUME NEW v \in Vms, RestoreDisk(v) PROVE TypeOK' /\ Tables'
    <2>1. PICK r \in SUBSET Resources : res' = [res EXCEPT ![v] = r]
      <3>1. res = [res EXCEPT ![v] = res[v]]  BY DEF TypeOK
      <3>2. {"loop"} \in SUBSET Resources /\ res[v] \in SUBSET Resources
        BY DEF TypeOK, Resources
      <3>. QED  BY <1>7, <3>1, <3>2 DEF RestoreDisk
    <2>2. PICK s \in {"restDm", "gone"} : op' = [op EXCEPT ![v] = s]
      BY <1>7 DEF RestoreDisk, Goto
    <2>. QED  BY <1>7, <2>1, <2>2 DEF TypeOK, Tables, Entry, Resources, Idle, MakeSteps,
                                      StopSteps, RestoreDisk, makeFrame, EntriesOK, Serving
  <1>8. ASSUME NEW v \in Vms, RestoreDm(v) PROVE TypeOK' /\ Tables'
    BY <1>8 DEF TypeOK, Tables, Entry, Resources, Idle, MakeSteps, StopSteps, EntriesOK,
                Serving, RestoreDm, Goto, makeFrame, diskVars
  <1>9. ASSUME NEW v \in Vms, RestoreTap(v) PROVE TypeOK' /\ Tables'
    BY <1>9 DEF TypeOK, Tables, Entry, Resources, Idle, MakeSteps, StopSteps, EntriesOK,
                Serving, RestoreTap, Goto, makeFrame, diskVars
  <1>10. ASSUME NEW v \in Vms, RestoreStart(v) PROVE TypeOK' /\ Tables'
    BY <1>10 DEF TypeOK, Tables, Entry, Resources, Idle, MakeSteps, StopSteps, EntriesOK,
                 Serving, RestoreStart, Goto, Start, makeFrame, diskVars
  <1>11. ASSUME NEW v \in Vms, RestoreFails(v) PROVE TypeOK' /\ Tables'
    BY <1>11 DEF TypeOK, Tables, Entry, Resources, Idle, MakeSteps, StopSteps, EntriesOK,
                 Serving, RestoreFails, Goto, makeFrame, diskVars
  <1>12. ASSUME NEW v \in Vms, RestoreLoad(v) PROVE TypeOK' /\ Tables'
    <2>1. PICK s \in {"restInsert", "gone"} : op' = [op EXCEPT ![v] = s]
      BY <1>12 DEF RestoreLoad, Goto
    <2>2. sock' \subseteq Vms /\ proc' \subseteq Vms
      BY <1>12 DEF RestoreLoad, Kill, TypeOK
    <2>3. op[v] # "cleanup"  BY <1>12 DEF RestoreLoad
    <2>4. UNCHANGED <<reg, wal, dir, json, res, life, held, drain, busy, todo,
                      recovered, restarts, stray, released>>
      BY <1>12 DEF RestoreLoad, makeFrame
    <2>. QED  BY <2>1, <2>2, <2>3, <2>4 DEF TypeOK, Tables, Entry, Resources, Idle, MakeSteps,
                                            StopSteps, EntriesOK, Serving
  <1>13. ASSUME NEW v \in Vms, RestoreInsert(v) PROVE TypeOK' /\ Tables'
    BY <1>13 DEF TypeOK, Tables, Entry, Resources, Idle, MakeSteps, StopSteps, EntriesOK,
                 Serving, RestoreInsert, Goto, Insert, makeFrame, diskVars
  <1>14. ASSUME NEW v \in Vms, RestoreLog(v) PROVE TypeOK' /\ Tables'
    <2>1. PICK s \in {"logStart", "live"} : op' = [op EXCEPT ![v] = s]
      BY <1>14 DEF RestoreLog, Goto
    <2>2. wal' \in [Vms -> Seq({"create", "start", "stop"})]
      <3>1. \A e \in {"create", "start", "stop"} :
               Append(wal[v], e) \in Seq({"create", "start", "stop"})
        BY FirstEntry DEF TypeOK
      <3>2. wal' = wal \/ \E e \in {"create", "start", "stop"} : wal' = [wal EXCEPT ![v] = Append(wal[v], e)]
        BY <1>14 DEF RestoreLog, append
      <3>3. wal \in [Vms -> Seq({"create", "start", "stop"})]  BY DEF TypeOK
      <3>. HIDE DEF RecoveryInv
      <3>. QED  BY <3>1, <3>2, <3>3
    <2>3. op[v] # "cleanup"  BY <1>14 DEF RestoreLog
    <2>4. UNCHANGED <<reg, dir, json, sock, proc, res, life, held, drain, busy, todo,
                      recovered, restarts, stray, released>>
      BY <1>14 DEF RestoreLog, makeFrame
    <2>. QED  BY <2>1, <2>2, <2>3, <2>4 DEF TypeOK, Tables, Entry, Resources, Idle, MakeSteps,
                                            StopSteps, EntriesOK, Serving
  <1>15. ASSUME NEW v \in Vms, BranchBegin(v) PROVE TypeOK' /\ Tables'
    <2>1. PICK s \in {"branchBoot", "gone"} : op' = [op EXCEPT ![v] = s]
      BY <1>15 DEF BranchBegin, Goto
    <2>. QED  BY <1>15, <2>1 DEF TypeOK, Tables, Entry, Resources, Idle, MakeSteps, StopSteps,
                                 EntriesOK, Serving, BranchBegin, makeFrame, diskVars
  <1>16. ASSUME NEW v \in Vms, BranchBoot(v) PROVE TypeOK' /\ Tables'
    BY <1>16 DEF TypeOK, Tables, Entry, Resources, Idle, MakeSteps, StopSteps, EntriesOK,
                 Serving, BranchBoot, Goto, Start, makeFrame, diskVars
  <1>17. ASSUME NEW v \in Vms, BranchInsert(v) PROVE TypeOK' /\ Tables'
    BY <1>17 DEF TypeOK, Tables, Entry, Resources, Idle, MakeSteps, StopSteps, EntriesOK,
                 Serving, BranchInsert, Goto, Insert, makeFrame, diskVars
  <1>18. ASSUME NEW v \in Vms, StopRemove(v) PROVE TypeOK' /\ Tables'
    BY <1>18 DEF TypeOK, Tables, Entry, Resources, Idle, MakeSteps, StopSteps, EntriesOK,
                 Serving, StopRemove, Take, Goto, diskVars
  <1>19. ASSUME NEW v \in Vms, StopCleanup(v) PROVE TypeOK' /\ Tables'
    BY <1>19 DEF TypeOK, Tables, Entry, Resources, Idle, MakeSteps, StopSteps, EntriesOK,
                 Serving, StopCleanup, Goto, Kill, diskVars
  <1>20. ASSUME NEW v \in Vms, StopLog(v) PROVE TypeOK' /\ Tables'
    <2>1. wal' \in [Vms -> Seq({"create", "start", "stop"})]
      <3>1. \A e \in {"create", "start", "stop"} :
               Append(wal[v], e) \in Seq({"create", "start", "stop"})
        BY FirstEntry DEF TypeOK
      <3>2. wal' = wal \/ \E e \in {"create", "start", "stop"} : wal' = [wal EXCEPT ![v] = Append(wal[v], e)]
        BY <1>20 DEF StopLog, append
      <3>3. wal \in [Vms -> Seq({"create", "start", "stop"})]  BY DEF TypeOK
      <3>. HIDE DEF RecoveryInv
      <3>. QED  BY <3>1, <3>2, <3>3
    <2>2. released' \subseteq Vms /\ busy' \in Vms \cup {None}  BY <1>20 DEF StopLog, TypeOK
    <2>3. op' = [op EXCEPT ![v] = "gone"] /\ op[v] # "cleanup"  BY <1>20 DEF StopLog, Goto
    <2>4. UNCHANGED <<life, reg, held, dir, json, sock, proc, res, drain, todo, recovered, restarts, stray>>
      BY <1>20 DEF StopLog
    <2>. QED  BY <2>1, <2>2, <2>3, <2>4 DEF TypeOK, Tables, Entry, Resources, Idle, MakeSteps,
                                            StopSteps, EntriesOK, Serving
  <1>21. ASSUME NEW v \in Vms, ShutdownNext(v) PROVE TypeOK' /\ Tables'
    <2>1. CASE reg[v] # None
      <3>1. /\ held' = [held EXCEPT ![v] = reg[v]] /\ reg' = [reg EXCEPT ![v] = None]
            /\ op' = [op EXCEPT ![v] = "cleanup"] /\ busy' = v /\ drain' = drain \ {v}
        BY <1>21, <2>1 DEF ShutdownNext, Take, Goto
      <3>2. UNCHANGED <<life, wal, dir, json, sock, proc, res, todo, recovered, restarts, stray, released>>
        BY <1>21 DEF ShutdownNext, diskVars
      <3>3. life = "draining" /\ op[v] \in {"live", "logCreate", "logStart"} /\ held[v] = None
        BY <1>21, <2>1 DEF ShutdownNext, EntriesOK
      <3>. QED  BY <2>1, <3>1, <3>2, <3>3 DEF TypeOK, Tables, Entry, Resources, Idle,
                                              MakeSteps, StopSteps, EntriesOK, Serving
    <2>2. CASE reg[v] = None
      BY <1>21, <2>2 DEF TypeOK, Tables, Entry, Resources, Idle, MakeSteps, StopSteps,
                         EntriesOK, Serving, ShutdownNext, diskVars
    <2>. QED  BY <2>1, <2>2
  <1>22. ASSUME NEW v \in Vms, HypervisorDies(v) PROVE TypeOK' /\ Tables'
    BY <1>22 DEF TypeOK, Tables, Entry, Resources, Idle, MakeSteps, StopSteps, EntriesOK,
                 Serving, HypervisorDies, diskVars
  <1>23. ASSUME NEW v \in Vms, ScanVm(v) PROVE TypeOK' /\ Tables'
    <2>1. sock' \subseteq Vms  BY <1>23 DEF ScanVm, TypeOK
    <2>2. res' \in [Vms -> SUBSET Resources]  BY <1>23 DEF ScanVm, Cleaned, TypeOK
    <2>3. recovered' \in [Vms -> (SUBSET Resources) \cup {None}]
      <3>1. Listed(v) \in SUBSET Resources  BY DEF Listed, TypeOK
      <3>. QED  BY <1>23, <3>1 DEF ScanVm, Tables
    <2>4. todo' \subseteq Vms  BY <1>23 DEF ScanVm, TypeOK
    <2>5. UNCHANGED <<life, op, reg, held, wal, dir, json, proc, drain, busy, restarts, stray, released>>
      BY <1>23 DEF ScanVm
    <2>. QED  BY <2>1, <2>2, <2>3, <2>4, <2>5 DEF TypeOK, Tables, Entry, Resources, Idle,
                                                  MakeSteps, StopSteps
  <1>24. ASSUME Signal PROVE TypeOK' /\ Tables'
    BY <1>24 DEF TypeOK, Tables, Entry, Resources, Idle, MakeSteps, StopSteps, EntriesOK,
                 Serving, Signal, diskVars
  <1>25. ASSUME Exit PROVE TypeOK' /\ Tables'
    BY <1>25 DEF TypeOK, Tables, Entry, Resources, Idle, MakeSteps, StopSteps, EntriesOK,
                 Serving, Exit, Forget, diskVars
  <1>26. ASSUME Crash PROVE TypeOK' /\ Tables'
    BY <1>26 DEF TypeOK, Tables, Entry, Resources, Idle, MakeSteps, StopSteps, EntriesOK,
                 Serving, Crash, Forget, diskVars
  <1>27. ASSUME Boot PROVE TypeOK' /\ Tables'
    BY <1>27 DEF TypeOK, Tables, Entry, Resources, Idle, MakeSteps, StopSteps, EntriesOK,
                 Serving, Boot, get_active_vm_ids, diskVars
  <1>28. ASSUME Adopt PROVE TypeOK' /\ Tables'
    BY <1>28 DEF TypeOK, Tables, Entry, Resources, Idle, MakeSteps, StopSteps, EntriesOK,
                 Serving, Adopt, diskVars
  <1>29. ASSUME UNCHANGED vars PROVE TypeOK' /\ Tables'
    BY <1>29 DEF TypeOK, Tables, Entry, Resources, Idle, MakeSteps, StopSteps, EntriesOK,
                 Serving, vars, diskVars
  <1>. QED
    BY <1>1, <1>2, <1>3, <1>4, <1>5, <1>6, <1>7, <1>8, <1>9, <1>10, <1>11, <1>12, <1>13,
       <1>14, <1>15, <1>16, <1>17, <1>18, <1>19, <1>20, <1>21, <1>22, <1>23, <1>24, <1>25,
       <1>26, <1>27, <1>28, <1>29
       DEF Next, Make

\* Entries stay where a stop or a handler can find them.
LEMMA EntriesKept ==
    ASSUME RecoveryInv, [Next]_vars
    PROVE  EntriesOK'
  <1>. USE RecoveryAssumption
  <1>. USE DEF RecoveryInv
  <1>1. ASSUME NEW v \in Vms, RunPrepare(v) PROVE EntriesOK'
    BY <1>1 DEF EntriesOK, Serving, TypeOK, Tables, Idle, MakeSteps, StopSteps, RunPrepare,
                Goto, makeFrame, diskVars
  <1>2. ASSUME NEW v \in Vms, RunStart(v) PROVE EntriesOK'
    BY <1>2 DEF EntriesOK, Serving, TypeOK, Tables, Idle, MakeSteps, StopSteps, RunStart,
                Goto, Start, makeFrame, diskVars
  <1>3. ASSUME NEW v \in Vms, RunFails(v) PROVE EntriesOK'
    BY <1>3 DEF EntriesOK, Serving, TypeOK, Tables, Idle, MakeSteps, StopSteps, RunFails,
                Goto, Kill, makeFrame, diskVars
  <1>4. ASSUME NEW v \in Vms, RunSave(v) PROVE EntriesOK'
    BY <1>4 DEF EntriesOK, Serving, TypeOK, Tables, Idle, MakeSteps, StopSteps, RunSave,
                makeFrame, diskVars
  <1>5. ASSUME NEW v \in Vms, RunSaved(v) PROVE EntriesOK'
    BY <1>5 DEF EntriesOK, Serving, TypeOK, Tables, Idle, MakeSteps, StopSteps, RunSaved,
                Goto, makeFrame, diskVars
  <1>6. ASSUME NEW v \in Vms, RunInsert(v) PROVE EntriesOK'
    BY <1>6 DEF EntriesOK, Serving, TypeOK, Tables, Idle, MakeSteps, StopSteps, RunInsert,
                Goto, Insert, makeFrame, diskVars
  <1>7. ASSUME NEW v \in Vms, RestoreDisk(v) PROVE EntriesOK'
    BY <1>7 DEF EntriesOK, Serving, TypeOK, Tables, Idle, MakeSteps, StopSteps, RestoreDisk,
                Goto, makeFrame, diskVars
  <1>8. ASSUME NEW v \in Vms, RestoreDm(v) PROVE EntriesOK'
    BY <1>8 DEF EntriesOK, Serving, TypeOK, Tables, Idle, MakeSteps, StopSteps, RestoreDm,
                Goto, makeFrame, diskVars
  <1>9. ASSUME NEW v \in Vms, RestoreTap(v) PROVE EntriesOK'
    BY <1>9 DEF EntriesOK, Serving, TypeOK, Tables, Idle, MakeSteps, StopSteps, RestoreTap,
                Goto, makeFrame, diskVars
  <1>10. ASSUME NEW v \in Vms, RestoreStart(v) PROVE EntriesOK'
    BY <1>10 DEF EntriesOK, Serving, TypeOK, Tables, Idle, MakeSteps, StopSteps, RestoreStart,
                 Goto, Start, makeFrame, diskVars
  <1>11. ASSUME NEW v \in Vms, RestoreFails(v) PROVE EntriesOK'
    BY <1>11 DEF EntriesOK, Serving, TypeOK, Tables, Idle, MakeSteps, StopSteps, RestoreFails,
                 Goto, makeFrame, diskVars
  <1>12. ASSUME NEW v \in Vms, RestoreLoad(v) PROVE EntriesOK'
    <2>1. PICK s \in {"restInsert", "gone"} : op' = [op EXCEPT ![v] = s]
      BY <1>12 DEF RestoreLoad, Goto
    <2>. QED  BY <1>12, <2>1 DEF EntriesOK, Serving, TypeOK, Tables, Idle, MakeSteps,
                                 StopSteps, RestoreLoad, Kill, makeFrame, diskVars
  <1>13. ASSUME NEW v \in Vms, RestoreInsert(v) PROVE EntriesOK'
    BY <1>13 DEF EntriesOK, Serving, TypeOK, Tables, Idle, MakeSteps, StopSteps,
                 RestoreInsert, Goto, Insert, makeFrame, diskVars
  <1>14. ASSUME NEW v \in Vms, RestoreLog(v) PROVE EntriesOK'
    <2>1. PICK s \in {"logStart", "live"} : op' = [op EXCEPT ![v] = s]
      BY <1>14 DEF RestoreLog, Goto
    <2>2. op[v] \in {"logCreate", "logStart"} /\ Serving  BY <1>14 DEF RestoreLog
    <2>3. UNCHANGED <<life, reg, held, recovered>>  BY <1>14 DEF RestoreLog, makeFrame
    <2>. QED  BY <2>1, <2>2, <2>3 DEF EntriesOK, Serving, TypeOK, Idle
  <1>15. ASSUME NEW v \in Vms, BranchBegin(v) PROVE EntriesOK'
    <2>1. PICK s \in {"branchBoot", "gone"} : op' = [op EXCEPT ![v] = s]
      BY <1>15 DEF BranchBegin, Goto
    <2>. QED  BY <1>15, <2>1 DEF EntriesOK, Serving, TypeOK, Tables, Idle, MakeSteps,
                                 StopSteps, BranchBegin, makeFrame, diskVars
  <1>16. ASSUME NEW v \in Vms, BranchBoot(v) PROVE EntriesOK'
    BY <1>16 DEF EntriesOK, Serving, TypeOK, Tables, Idle, MakeSteps, StopSteps, BranchBoot,
                 Goto, Start, makeFrame, diskVars
  <1>17. ASSUME NEW v \in Vms, BranchInsert(v) PROVE EntriesOK'
    BY <1>17 DEF EntriesOK, Serving, TypeOK, Tables, Idle, MakeSteps, StopSteps, BranchInsert,
                 Goto, Insert, makeFrame, diskVars
  <1>18. ASSUME NEW v \in Vms, StopRemove(v) PROVE EntriesOK'
    BY <1>18 DEF EntriesOK, Serving, TypeOK, Tables, Idle, MakeSteps, StopSteps, StopRemove,
                 Take, Goto, diskVars
  <1>19. ASSUME NEW v \in Vms, StopCleanup(v) PROVE EntriesOK'
    BY <1>19 DEF EntriesOK, Serving, TypeOK, Tables, Idle, MakeSteps, StopSteps, StopCleanup,
                 Goto, Kill, diskVars
  <1>20. ASSUME NEW v \in Vms, StopLog(v) PROVE EntriesOK'
    BY <1>20 DEF EntriesOK, Serving, TypeOK, Tables, Idle, MakeSteps, StopSteps, StopLog,
                 Goto, append, diskVars
  <1>21. ASSUME NEW v \in Vms, ShutdownNext(v) PROVE EntriesOK'
    <2>1. CASE reg[v] # None
      <3>1. /\ held' = [held EXCEPT ![v] = reg[v]] /\ reg' = [reg EXCEPT ![v] = None]
            /\ op' = [op EXCEPT ![v] = "cleanup"] /\ busy' = v /\ drain' = drain \ {v}
        BY <1>21, <2>1 DEF ShutdownNext, Take, Goto
      <3>2. UNCHANGED <<life, wal, dir, json, sock, proc, res, todo, recovered, restarts, stray, released>>
        BY <1>21 DEF ShutdownNext, diskVars
      <3>3. life = "draining" /\ op[v] \in {"live", "logCreate", "logStart"} /\ held[v] = None
        BY <1>21, <2>1 DEF ShutdownNext, EntriesOK
      <3>. QED  BY <2>1, <3>1, <3>2, <3>3 DEF EntriesOK, Serving, TypeOK, Tables, Idle,
                                              MakeSteps, StopSteps
    <2>2. CASE reg[v] = None
      BY <1>21, <2>2 DEF EntriesOK, Serving, TypeOK, Tables, Idle, MakeSteps, StopSteps,
                         ShutdownNext, diskVars
    <2>. QED  BY <2>1, <2>2
  <1>22. ASSUME NEW v \in Vms, HypervisorDies(v) PROVE EntriesOK'
    BY <1>22 DEF EntriesOK, Serving, TypeOK, Tables, Idle, MakeSteps, StopSteps,
                 HypervisorDies, diskVars
  <1>23. ASSUME NEW v \in Vms, ScanVm(v) PROVE EntriesOK'
    BY <1>23 DEF EntriesOK, Serving, TypeOK, Tables, Idle, MakeSteps, StopSteps, ScanVm,
                 Check, Cleaned, Listed, diskVars
  <1>24. ASSUME Signal PROVE EntriesOK'
    BY <1>24 DEF EntriesOK, Serving, TypeOK, Tables, Idle, MakeSteps, StopSteps, Signal,
                 diskVars
  <1>25. ASSUME Exit PROVE EntriesOK'
    BY <1>25 DEF EntriesOK, Serving, TypeOK, Tables, Idle, MakeSteps, StopSteps, Exit, Forget,
                 diskVars
  <1>26. ASSUME Crash PROVE EntriesOK'
    BY <1>26 DEF EntriesOK, Serving, TypeOK, Tables, Idle, MakeSteps, StopSteps, Crash,
                 Forget, diskVars
  <1>27. ASSUME Boot PROVE EntriesOK'
    BY <1>27 DEF EntriesOK, Serving, TypeOK, Tables, Idle, MakeSteps, StopSteps, Boot,
                 get_active_vm_ids, diskVars
  <1>28. ASSUME Adopt PROVE EntriesOK'
    BY <1>28 DEF EntriesOK, Serving, TypeOK, Tables, Idle, MakeSteps, StopSteps, Adopt,
                 diskVars
  <1>29. ASSUME UNCHANGED vars PROVE EntriesOK'
    BY <1>29 DEF EntriesOK, Serving, TypeOK, Tables, Idle, MakeSteps, StopSteps, vars, diskVars
  <1>. QED
    BY <1>1, <1>2, <1>3, <1>4, <1>5, <1>6, <1>7, <1>8, <1>9, <1>10, <1>11, <1>12, <1>13,
       <1>14, <1>15, <1>16, <1>17, <1>18, <1>19, <1>20, <1>21, <1>22, <1>23, <1>24, <1>25,
       <1>26, <1>27, <1>28, <1>29
       DEF Next, Make

\* No step brings back a VM whose stop left nothing.
LEMMA ReleasedKept ==
    ASSUME RecoveryInv, [Next]_vars
    PROVE  ReleasedOK'
  <1>. USE DEF RecoveryInv
  <1>1. ASSUME NEW v \in Vms, RunPrepare(v) PROVE ReleasedOK'
    BY <1>1 DEF ReleasedOK, EntriesOK, Serving, TypeOK, Tables, Idle, MakeSteps, RunPrepare,
                Goto, makeFrame, diskVars
  <1>2. ASSUME NEW v \in Vms, RunStart(v) PROVE ReleasedOK'
    BY <1>2 DEF ReleasedOK, EntriesOK, Serving, TypeOK, Tables, Idle, MakeSteps, RunStart,
                Goto, Start, makeFrame, diskVars
  <1>3. ASSUME NEW v \in Vms, RunFails(v) PROVE ReleasedOK'
    BY <1>3 DEF ReleasedOK, EntriesOK, Serving, TypeOK, Tables, Idle, MakeSteps, RunFails,
                Goto, Kill, makeFrame, diskVars
  <1>4. ASSUME NEW v \in Vms, RunSave(v) PROVE ReleasedOK'
    BY <1>4 DEF ReleasedOK, EntriesOK, Serving, TypeOK, Tables, Idle, MakeSteps, RunSave,
                makeFrame, diskVars
  <1>5. ASSUME NEW v \in Vms, RunSaved(v) PROVE ReleasedOK'
    BY <1>5 DEF ReleasedOK, EntriesOK, Serving, TypeOK, Tables, Idle, MakeSteps, RunSaved,
                Goto, makeFrame, diskVars
  <1>6. ASSUME NEW v \in Vms, RunInsert(v) PROVE ReleasedOK'
    BY <1>6 DEF ReleasedOK, EntriesOK, Serving, TypeOK, Tables, Idle, MakeSteps, RunInsert,
                Goto, Insert, makeFrame, diskVars
  <1>7. ASSUME NEW v \in Vms, RestoreDisk(v) PROVE ReleasedOK'
    BY <1>7 DEF ReleasedOK, EntriesOK, Serving, TypeOK, Tables, Idle, MakeSteps, RestoreDisk,
                Goto, makeFrame, diskVars
  <1>8. ASSUME NEW v \in Vms, RestoreDm(v) PROVE ReleasedOK'
    BY <1>8 DEF ReleasedOK, EntriesOK, Serving, TypeOK, Tables, Idle, MakeSteps, RestoreDm,
                Goto, makeFrame, diskVars
  <1>9. ASSUME NEW v \in Vms, RestoreTap(v) PROVE ReleasedOK'
    BY <1>9 DEF ReleasedOK, EntriesOK, Serving, TypeOK, Tables, Idle, MakeSteps, RestoreTap,
                Goto, makeFrame, diskVars
  <1>10. ASSUME NEW v \in Vms, RestoreStart(v) PROVE ReleasedOK'
    BY <1>10 DEF ReleasedOK, EntriesOK, Serving, TypeOK, Tables, Idle, MakeSteps,
                 RestoreStart, Goto, Start, makeFrame, diskVars
  <1>11. ASSUME NEW v \in Vms, RestoreFails(v) PROVE ReleasedOK'
    BY <1>11 DEF ReleasedOK, EntriesOK, Serving, TypeOK, Tables, Idle, MakeSteps,
                 RestoreFails, Goto, makeFrame, diskVars
  <1>12. ASSUME NEW v \in Vms, RestoreLoad(v) PROVE ReleasedOK'
    BY <1>12 DEF ReleasedOK, EntriesOK, Serving, TypeOK, Tables, Idle, MakeSteps, RestoreLoad,
                 Goto, Kill, makeFrame, diskVars
  <1>13. ASSUME NEW v \in Vms, RestoreInsert(v) PROVE ReleasedOK'
    BY <1>13 DEF ReleasedOK, EntriesOK, Serving, TypeOK, Tables, Idle, MakeSteps,
                 RestoreInsert, Goto, Insert, makeFrame, diskVars
  <1>14. ASSUME NEW v \in Vms, RestoreLog(v) PROVE ReleasedOK'
    BY <1>14 DEF ReleasedOK, EntriesOK, Serving, TypeOK, Tables, Idle, MakeSteps, RestoreLog,
                 Goto, append, makeFrame, diskVars
  <1>15. ASSUME NEW v \in Vms, BranchBegin(v) PROVE ReleasedOK'
    BY <1>15 DEF ReleasedOK, EntriesOK, Serving, TypeOK, Tables, Idle, MakeSteps, BranchBegin,
                 Goto, makeFrame, diskVars
  <1>16. ASSUME NEW v \in Vms, BranchBoot(v) PROVE ReleasedOK'
    BY <1>16 DEF ReleasedOK, EntriesOK, Serving, TypeOK, Tables, Idle, MakeSteps, BranchBoot,
                 Goto, Start, makeFrame, diskVars
  <1>17. ASSUME NEW v \in Vms, BranchInsert(v) PROVE ReleasedOK'
    BY <1>17 DEF ReleasedOK, EntriesOK, Serving, TypeOK, Tables, Idle, MakeSteps,
                 BranchInsert, Goto, Insert, makeFrame, diskVars
  <1>18. ASSUME NEW v \in Vms, StopRemove(v) PROVE ReleasedOK'
    BY <1>18 DEF ReleasedOK, EntriesOK, Serving, TypeOK, Tables, Idle, MakeSteps, StopRemove,
                 Take, Goto, diskVars
  <1>19. ASSUME NEW v \in Vms, StopCleanup(v) PROVE ReleasedOK'
    BY <1>19 DEF ReleasedOK, EntriesOK, Serving, TypeOK, Tables, Idle, MakeSteps, StopCleanup,
                 Goto, Kill, diskVars
  <1>20. ASSUME NEW v \in Vms, StopLog(v) PROVE ReleasedOK'
    BY <1>20 DEF ReleasedOK, EntriesOK, Serving, TypeOK, Tables, Idle, MakeSteps, StopLog,
                 Goto, append, diskVars
  <1>21. ASSUME NEW v \in Vms, ShutdownNext(v) PROVE ReleasedOK'
    BY <1>21 DEF ReleasedOK, EntriesOK, Serving, TypeOK, Tables, Idle, MakeSteps,
                 ShutdownNext, Take, Goto, diskVars
  <1>22. ASSUME NEW v \in Vms, HypervisorDies(v) PROVE ReleasedOK'
    BY <1>22 DEF ReleasedOK, EntriesOK, Serving, TypeOK, Tables, Idle, MakeSteps,
                 HypervisorDies, diskVars
  <1>23. ASSUME NEW v \in Vms, ScanVm(v) PROVE ReleasedOK'
    BY <1>23 DEF ReleasedOK, EntriesOK, Serving, TypeOK, Tables, Idle, MakeSteps, ScanVm,
                 Check, Cleaned, Listed, diskVars
  <1>24. ASSUME Signal PROVE ReleasedOK'
    BY <1>24 DEF ReleasedOK, EntriesOK, Serving, TypeOK, Tables, Idle, MakeSteps, Signal,
                 diskVars
  <1>25. ASSUME Exit PROVE ReleasedOK'
    BY <1>25 DEF ReleasedOK, EntriesOK, Serving, TypeOK, Tables, Idle, MakeSteps, Exit,
                 Forget, diskVars
  <1>26. ASSUME Crash PROVE ReleasedOK'
    BY <1>26 DEF ReleasedOK, EntriesOK, Serving, TypeOK, Tables, Idle, MakeSteps, Crash,
                 Forget, diskVars
  <1>27. ASSUME Boot PROVE ReleasedOK'
    BY <1>27 DEF ReleasedOK, EntriesOK, Serving, TypeOK, Tables, Idle, MakeSteps, Boot,
                 get_active_vm_ids, diskVars
  <1>28. ASSUME Adopt PROVE ReleasedOK'
    BY <1>28 DEF ReleasedOK, EntriesOK, Serving, TypeOK, Tables, Idle, MakeSteps, Adopt,
                 diskVars
  <1>29. ASSUME UNCHANGED vars PROVE ReleasedOK'
    BY <1>29 DEF ReleasedOK, EntriesOK, Serving, TypeOK, Tables, Idle, MakeSteps, vars,
                 diskVars
  <1>. QED
    BY <1>1, <1>2, <1>3, <1>4, <1>5, <1>6, <1>7, <1>8, <1>9, <1>10, <1>11, <1>12, <1>13,
       <1>14, <1>15, <1>16, <1>17, <1>18, <1>19, <1>20, <1>21, <1>22, <1>23, <1>24, <1>25,
       <1>26, <1>27, <1>28, <1>29
       DEF Next, Make

\* Every hypervisor of the first process keeps a manager.
LEMMA ManagedKept ==
    ASSUME RecoveryInv, [Next]_vars
    PROVE  ManagedOK'
  <1>. USE DEF RecoveryInv
  <1>1. ASSUME NEW v \in Vms, RunPrepare(v) PROVE ManagedOK'
    BY <1>1 DEF ManagedOK, Managed, Started, EntriesOK, Serving, TypeOK, Tables, Idle,
                MakeSteps, RunPrepare, Goto, makeFrame, diskVars
  <1>2. ASSUME NEW v \in Vms, RunStart(v) PROVE ManagedOK'
    <2>1. reg[v] = None /\ held[v] = None  BY <1>2 DEF RunStart, EntriesOK
    <2>2. op'[v] = "runSave" /\ \A w \in Vms \ {v} : op'[w] = op[w]  BY <1>2
                                                                        DEF RunStart, Goto,
                                                                            TypeOK
    <2>3. UNCHANGED <<life, reg, held, restarts, stray>> /\ proc' = proc \cup {v} /\ Serving
      BY <1>2 DEF RunStart, Start, makeFrame
    <2>. QED  BY <2>1, <2>2, <2>3 DEF ManagedOK, Managed, Started, Serving, TypeOK
  <1>3. ASSUME NEW v \in Vms, RunFails(v) PROVE ManagedOK'
    BY <1>3 DEF ManagedOK, Managed, Started, EntriesOK, Serving, TypeOK, Tables, Idle,
                MakeSteps, RunFails, Goto, Kill, makeFrame, diskVars
  <1>4. ASSUME NEW v \in Vms, RunSave(v) PROVE ManagedOK'
    BY <1>4 DEF ManagedOK, Managed, Started, EntriesOK, Serving, TypeOK, Tables, Idle,
                MakeSteps, RunSave, makeFrame, diskVars
  <1>5. ASSUME NEW v \in Vms, RunSaved(v) PROVE ManagedOK'
    BY <1>5 DEF ManagedOK, Managed, Started, EntriesOK, Serving, TypeOK, Tables, Idle,
                MakeSteps, RunSaved, Goto, makeFrame, diskVars
  <1>6. ASSUME NEW v \in Vms, RunInsert(v) PROVE ManagedOK'
    <2>1. [res |-> res[v], child |-> TRUE] # None
      <3>1. [res |-> res[v], child |-> TRUE] \in Entry  BY DEF Entry, TypeOK
      <3>. QED  BY <3>1, RecoveryAssumption
    <2>. QED  BY <1>6, <2>1 DEF ManagedOK, Managed, Started, EntriesOK, Serving, TypeOK,
                                Tables, Idle, MakeSteps, RunInsert, Goto, Insert, makeFrame,
                                diskVars
  <1>7. ASSUME NEW v \in Vms, RestoreDisk(v) PROVE ManagedOK'
    <2>1. PICK s \in {"restDm", "gone"} : op' = [op EXCEPT ![v] = s]
      BY <1>7 DEF RestoreDisk, Goto
    <2>. QED  BY <1>7, <2>1 DEF ManagedOK, Managed, Started, EntriesOK, Serving, TypeOK,
                                Tables, Idle, MakeSteps, RestoreDisk, makeFrame, diskVars
  <1>8. ASSUME NEW v \in Vms, RestoreDm(v) PROVE ManagedOK'
    BY <1>8 DEF ManagedOK, Managed, Started, EntriesOK, Serving, TypeOK, Tables, Idle,
                MakeSteps, RestoreDm, Goto, makeFrame, diskVars
  <1>9. ASSUME NEW v \in Vms, RestoreTap(v) PROVE ManagedOK'
    BY <1>9 DEF ManagedOK, Managed, Started, EntriesOK, Serving, TypeOK, Tables, Idle,
                MakeSteps, RestoreTap, Goto, makeFrame, diskVars
  <1>10. ASSUME NEW v \in Vms, RestoreStart(v) PROVE ManagedOK'
    <2>1. reg[v] = None /\ held[v] = None  BY <1>10 DEF RestoreStart, EntriesOK
    <2>2. op'[v] = "restLoad" /\ \A w \in Vms \ {v} : op'[w] = op[w]  BY <1>10
                                                                         DEF RestoreStart,
                                                                             Goto, TypeOK
    <2>3. UNCHANGED <<life, reg, held, restarts, stray>> /\ proc' = proc \cup {v} /\ Serving
      BY <1>10 DEF RestoreStart, Start, makeFrame
    <2>. QED  BY <2>1, <2>2, <2>3 DEF ManagedOK, Managed, Started, Serving, TypeOK
  <1>11. ASSUME NEW v \in Vms, RestoreFails(v) PROVE ManagedOK'
    BY <1>11 DEF ManagedOK, Managed, Started, EntriesOK, Serving, TypeOK, Tables, Idle,
                 MakeSteps, RestoreFails, Goto, makeFrame, diskVars
  <1>12. ASSUME NEW v \in Vms, RestoreLoad(v) PROVE ManagedOK'
    <2>1. /\ reg[v] = None /\ held[v] = None
          /\ UNCHANGED <<life, reg, held, restarts, stray>> /\ proc' \subseteq proc
      BY <1>12 DEF RestoreLoad, EntriesOK, makeFrame, Kill
    <2>2. \A w \in Vms \ {v} : op'[w] = op[w]  BY <1>12 DEF RestoreLoad, Goto, TypeOK
    <2>3. v \in proc' => op'[v] = "restInsert"  BY <1>12 DEF RestoreLoad, Goto, Kill, TypeOK
    <2>. QED  BY <1>12, <2>1, <2>2, <2>3 DEF ManagedOK, Managed, Started, Serving, TypeOK,
                                             RestoreLoad
  <1>13. ASSUME NEW v \in Vms, RestoreInsert(v) PROVE ManagedOK'
    <2>1. PICK got \in {{}, {"cgroup"}} :
             /\ res' = [res EXCEPT ![v] = @ \cup got]
             /\ reg' = [reg EXCEPT ![v] = [res |-> res[v] \cup got, child |-> TRUE]]
      BY <1>13 DEF RestoreInsert, Insert
    <2>2. [res |-> res[v] \cup got, child |-> TRUE] # None
      <3>1. [res |-> res[v] \cup got, child |-> TRUE] \in Entry  BY
                                                                    DEF Entry, Resources,
                                                                        TypeOK
      <3>. QED  BY <3>1, RecoveryAssumption
    <2>. QED  BY <1>13, <2>1, <2>2 DEF ManagedOK, Managed, Started, EntriesOK, Serving,
                                       TypeOK, Tables, Idle, MakeSteps, RestoreInsert, Goto,
                                       makeFrame
  <1>14. ASSUME NEW v \in Vms, RestoreLog(v) PROVE ManagedOK'
    <2>1. PICK s \in {"logStart", "live"} : op' = [op EXCEPT ![v] = s]
      BY <1>14 DEF RestoreLog, Goto
    <2>. QED  BY <1>14, <2>1 DEF ManagedOK, Managed, Started, EntriesOK, Serving, TypeOK,
                                 Tables, Idle, MakeSteps, RestoreLog, append, makeFrame,
                                 diskVars
  <1>15. ASSUME NEW v \in Vms, BranchBegin(v) PROVE ManagedOK'
    <2>1. PICK s \in {"branchBoot", "gone"} : op' = [op EXCEPT ![v] = s]
      BY <1>15 DEF BranchBegin, Goto
    <2>. QED  BY <1>15, <2>1 DEF ManagedOK, Managed, Started, EntriesOK, Serving, TypeOK,
                                 Tables, Idle, MakeSteps, BranchBegin, makeFrame, diskVars
  <1>16. ASSUME NEW v \in Vms, BranchBoot(v) PROVE ManagedOK'
    BY <1>16 DEF ManagedOK, Managed, Started, EntriesOK, Serving, TypeOK, Tables, Idle,
                 MakeSteps, BranchBoot, Goto, Start, makeFrame, diskVars
  <1>17. ASSUME NEW v \in Vms, BranchInsert(v) PROVE ManagedOK'
    <2>1. [res |-> {}, child |-> v \in proc] # None
      <3>1. [res |-> {}, child |-> v \in proc] \in Entry  BY DEF Entry, TypeOK
      <3>. QED  BY <3>1, RecoveryAssumption
    <2>. QED  BY <1>17, <2>1 DEF ManagedOK, Managed, Started, EntriesOK, Serving, TypeOK,
                                 Tables, Idle, MakeSteps, BranchInsert, Goto, Insert,
                                 makeFrame, diskVars
  <1>18. ASSUME NEW v \in Vms, StopRemove(v) PROVE ManagedOK'
    BY <1>18 DEF ManagedOK, Managed, Started, EntriesOK, Serving, TypeOK, Tables, Idle,
                 MakeSteps, StopRemove, Take, Goto, diskVars
  <1>19. ASSUME NEW v \in Vms, StopCleanup(v) PROVE ManagedOK'
    BY <1>19 DEF ManagedOK, Managed, Started, EntriesOK, Serving, TypeOK, Tables, Idle,
                 MakeSteps, StopCleanup, Goto, Kill, diskVars
  <1>20. ASSUME NEW v \in Vms, StopLog(v) PROVE ManagedOK'
    BY <1>20 DEF ManagedOK, Managed, Started, EntriesOK, Serving, TypeOK, Tables, Idle,
                 MakeSteps, StopLog, Goto, append, diskVars
  <1>21. ASSUME NEW v \in Vms, ShutdownNext(v) PROVE ManagedOK'
    <2>1. CASE reg[v] # None
      <3>1. /\ held' = [held EXCEPT ![v] = reg[v]] /\ reg' = [reg EXCEPT ![v] = None]
            /\ op' = [op EXCEPT ![v] = "cleanup"] /\ busy' = v /\ drain' = drain \ {v}
        BY <1>21, <2>1 DEF ShutdownNext, Take, Goto
      <3>2. UNCHANGED <<life, wal, dir, json, sock, proc, res, todo, recovered, restarts, stray, released>>
        BY <1>21 DEF ShutdownNext, diskVars
      <3>3. life = "draining" /\ op[v] \in {"live", "logCreate", "logStart"} /\ held[v] = None
        BY <1>21, <2>1 DEF ShutdownNext, EntriesOK
      <3>. QED  BY <2>1, <3>1, <3>2, <3>3 DEF ManagedOK, Managed, Started, EntriesOK, Serving,
                                              TypeOK, Tables, Idle, MakeSteps
    <2>2. CASE reg[v] = None
      BY <1>21, <2>2 DEF ManagedOK, Managed, Started, EntriesOK, Serving, TypeOK, Tables,
                         Idle, MakeSteps, ShutdownNext, diskVars
    <2>. QED  BY <2>1, <2>2
  <1>22. ASSUME NEW v \in Vms, HypervisorDies(v) PROVE ManagedOK'
    BY <1>22 DEF ManagedOK, Managed, Started, EntriesOK, Serving, TypeOK, Tables, Idle,
                 MakeSteps, HypervisorDies, diskVars
  <1>23. ASSUME NEW v \in Vms, ScanVm(v) PROVE ManagedOK'
    BY <1>23 DEF ManagedOK, Managed, Started, EntriesOK, Serving, TypeOK, Tables, Idle,
                 MakeSteps, ScanVm, Check, Cleaned, Listed, diskVars
  <1>24. ASSUME Signal PROVE ManagedOK'
    BY <1>24 DEF ManagedOK, Managed, Started, EntriesOK, Serving, TypeOK, Tables, Idle,
                 MakeSteps, Signal, diskVars
  <1>25. ASSUME Exit PROVE ManagedOK'
    BY <1>25 DEF ManagedOK, Managed, Started, EntriesOK, Serving, TypeOK, Tables, Idle,
                 MakeSteps, Exit, Forget, diskVars
  <1>26. ASSUME Crash PROVE ManagedOK'
    BY <1>26 DEF ManagedOK, Managed, Started, EntriesOK, Serving, TypeOK, Tables, Idle,
                 MakeSteps, Crash, Forget, diskVars
  <1>27. ASSUME Boot PROVE ManagedOK'
    BY <1>27 DEF ManagedOK, Managed, Started, EntriesOK, Serving, TypeOK, Tables, Idle,
                 MakeSteps, Boot, get_active_vm_ids, diskVars
  <1>28. ASSUME Adopt PROVE ManagedOK'
    BY <1>28 DEF ManagedOK, Managed, Started, EntriesOK, Serving, TypeOK, Tables, Idle,
                 MakeSteps, Adopt, diskVars
  <1>29. ASSUME UNCHANGED vars PROVE ManagedOK'
    BY <1>29 DEF ManagedOK, Managed, Started, EntriesOK, Serving, TypeOK, Tables, Idle,
                 MakeSteps, vars, diskVars
  <1>. QED
    BY <1>1, <1>2, <1>3, <1>4, <1>5, <1>6, <1>7, <1>8, <1>9, <1>10, <1>11, <1>12, <1>13,
       <1>14, <1>15, <1>16, <1>17, <1>18, <1>19, <1>20, <1>21, <1>22, <1>23, <1>24, <1>25,
       <1>26, <1>27, <1>28, <1>29
       DEF Next, Make

\* The VMs of the log stay without a state.json.
LEMMA LogKept ==
    ASSUME RecoveryInv, [Next]_vars
    PROVE  LogOK'
  <1>. USE DEF RecoveryInv
  <1>1. ASSUME NEW v \in Vms, RunPrepare(v) PROVE LogOK'
    BY <1>1 DEF LogOK, EntriesOK, Serving, TypeOK, Tables, Idle, MakeSteps, StopSteps,
                get_active_vm_ids, RunPrepare, Goto, makeFrame, diskVars
  <1>2. ASSUME NEW v \in Vms, RunStart(v) PROVE LogOK'
    BY <1>2 DEF LogOK, EntriesOK, Serving, TypeOK, Tables, Idle, MakeSteps, StopSteps,
                get_active_vm_ids, RunStart, Goto, Start, makeFrame, diskVars
  <1>3. ASSUME NEW v \in Vms, RunFails(v) PROVE LogOK'
    BY <1>3 DEF LogOK, EntriesOK, Serving, TypeOK, Tables, Idle, MakeSteps, StopSteps,
                get_active_vm_ids, RunFails, Goto, Kill, makeFrame, diskVars
  <1>4. ASSUME NEW v \in Vms, RunSave(v) PROVE LogOK'
    BY <1>4 DEF LogOK, EntriesOK, Serving, TypeOK, Tables, Idle, MakeSteps, StopSteps,
                get_active_vm_ids, RunSave, makeFrame, diskVars
  <1>5. ASSUME NEW v \in Vms, RunSaved(v) PROVE LogOK'
    BY <1>5 DEF LogOK, EntriesOK, Serving, TypeOK, Tables, Idle, MakeSteps, StopSteps,
                get_active_vm_ids, RunSaved, Goto, makeFrame, diskVars
  <1>6. ASSUME NEW v \in Vms, RunInsert(v) PROVE LogOK'
    BY <1>6 DEF LogOK, EntriesOK, Serving, TypeOK, Tables, Idle, MakeSteps, StopSteps,
                get_active_vm_ids, RunInsert, Goto, Insert, makeFrame, diskVars
  <1>7. ASSUME NEW v \in Vms, RestoreDisk(v) PROVE LogOK'
    <2>1. PICK s \in {"restDm", "gone"} : op' = [op EXCEPT ![v] = s]
      BY <1>7 DEF RestoreDisk, Goto
    <2>. QED  BY <1>7, <2>1 DEF LogOK, EntriesOK, Serving, TypeOK, Tables, Idle, MakeSteps,
                                StopSteps, get_active_vm_ids, RestoreDisk, makeFrame, diskVars
  <1>8. ASSUME NEW v \in Vms, RestoreDm(v) PROVE LogOK'
    BY <1>8 DEF LogOK, EntriesOK, Serving, TypeOK, Tables, Idle, MakeSteps, StopSteps,
                get_active_vm_ids, RestoreDm, Goto, makeFrame, diskVars
  <1>9. ASSUME NEW v \in Vms, RestoreTap(v) PROVE LogOK'
    BY <1>9 DEF LogOK, EntriesOK, Serving, TypeOK, Tables, Idle, MakeSteps, StopSteps,
                get_active_vm_ids, RestoreTap, Goto, makeFrame, diskVars
  <1>10. ASSUME NEW v \in Vms, RestoreStart(v) PROVE LogOK'
    BY <1>10 DEF LogOK, EntriesOK, Serving, TypeOK, Tables, Idle, MakeSteps, StopSteps,
                 get_active_vm_ids, RestoreStart, Goto, Start, makeFrame, diskVars
  <1>11. ASSUME NEW v \in Vms, RestoreFails(v) PROVE LogOK'
    BY <1>11 DEF LogOK, EntriesOK, Serving, TypeOK, Tables, Idle, MakeSteps, StopSteps,
                 get_active_vm_ids, RestoreFails, Goto, makeFrame, diskVars
  <1>12. ASSUME NEW v \in Vms, RestoreLoad(v) PROVE LogOK'
    <2>1. PICK s \in {"restInsert", "gone"} : op' = [op EXCEPT ![v] = s]
      BY <1>12 DEF RestoreLoad, Goto
    <2>. QED  BY <1>12, <2>1 DEF LogOK, EntriesOK, Serving, TypeOK, Tables, Idle, MakeSteps,
                                 StopSteps, get_active_vm_ids, RestoreLoad, Kill, makeFrame,
                                 diskVars
  <1>13. ASSUME NEW v \in Vms, RestoreInsert(v) PROVE LogOK'
    BY <1>13 DEF LogOK, EntriesOK, Serving, TypeOK, Tables, Idle, MakeSteps, StopSteps,
                 get_active_vm_ids, RestoreInsert, Goto, Insert, makeFrame, diskVars
  <1>14. ASSUME NEW v \in Vms, RestoreLog(v) PROVE LogOK'
    <2>1. PICK s \in {"logStart", "live"} : op' = [op EXCEPT ![v] = s]
      BY <1>14 DEF RestoreLog, Goto
    <2>2. json[v] = "none"  BY <1>14 DEF RestoreLog, LogOK, MakeSteps
    <2>3. \A w \in Vms \ {v} : wal'[w] = wal[w]  BY <1>14 DEF RestoreLog, append, TypeOK
    <2>4. UNCHANGED <<json, todo, life>>  BY <1>14 DEF RestoreLog, makeFrame
    <2>5. op[v] \notin {"new", "runStart", "runSave", "runInsert"}  BY <1>14 DEF RestoreLog
    <2>. QED  BY <2>1, <2>2, <2>3, <2>4, <2>5 DEF LogOK, TypeOK, MakeSteps, get_active_vm_ids
  <1>15. ASSUME NEW v \in Vms, BranchBegin(v) PROVE LogOK'
    <2>1. PICK s \in {"branchBoot", "gone"} : op' = [op EXCEPT ![v] = s]
      BY <1>15 DEF BranchBegin, Goto
    <2>. QED  BY <1>15, <2>1 DEF LogOK, EntriesOK, Serving, TypeOK, Tables, Idle, MakeSteps,
                                 StopSteps, get_active_vm_ids, BranchBegin, makeFrame, diskVars
  <1>16. ASSUME NEW v \in Vms, BranchBoot(v) PROVE LogOK'
    BY <1>16 DEF LogOK, EntriesOK, Serving, TypeOK, Tables, Idle, MakeSteps, StopSteps,
                 get_active_vm_ids, BranchBoot, Goto, Start, makeFrame, diskVars
  <1>17. ASSUME NEW v \in Vms, BranchInsert(v) PROVE LogOK'
    BY <1>17 DEF LogOK, EntriesOK, Serving, TypeOK, Tables, Idle, MakeSteps, StopSteps,
                 get_active_vm_ids, BranchInsert, Goto, Insert, makeFrame, diskVars
  <1>18. ASSUME NEW v \in Vms, StopRemove(v) PROVE LogOK'
    BY <1>18 DEF LogOK, EntriesOK, Serving, TypeOK, Tables, Idle, MakeSteps, StopSteps,
                 get_active_vm_ids, StopRemove, Take, Goto, diskVars
  <1>19. ASSUME NEW v \in Vms, StopCleanup(v) PROVE LogOK'
    BY <1>19 DEF LogOK, EntriesOK, Serving, TypeOK, Tables, Idle, MakeSteps, StopSteps,
                 get_active_vm_ids, StopCleanup, Goto, Kill, diskVars
  <1>20. ASSUME NEW v \in Vms, StopLog(v) PROVE LogOK'
    <2>1. op' = [op EXCEPT ![v] = "gone"]  BY <1>20 DEF StopLog, Goto
    <2>2. \A w \in Vms \ {v} : wal'[w] = wal[w]  BY <1>20 DEF StopLog, append, TypeOK
    <2>3. UNCHANGED <<json, todo, life>>  BY <1>20 DEF StopLog
    <2>4. v \in get_active_vm_ids' => v \in get_active_vm_ids
      <3>1. CASE UNCHANGED wal  BY <3>1 DEF get_active_vm_ids
      <3>2. CASE wal' = [wal EXCEPT ![v] = Append(@, "stop")]
        <4>1. wal'[v] = Append(wal[v], "stop")  BY <3>2 DEF TypeOK
        <4>2. wal[v] \in Seq({"create", "start", "stop"})  BY DEF TypeOK
        <4>. QED  BY <4>1, <4>2, FirstEntry DEF get_active_vm_ids
      <3>. QED  BY <1>20, <3>1, <3>2 DEF StopLog, append
    <2>. QED  BY <2>1, <2>2, <2>3, <2>4 DEF LogOK, TypeOK, MakeSteps, get_active_vm_ids
  <1>21. ASSUME NEW v \in Vms, ShutdownNext(v) PROVE LogOK'
    <2>1. op' = op \/ op' = [op EXCEPT ![v] = "cleanup"]  BY <1>21 DEF ShutdownNext, Take, Goto
    <2>2. UNCHANGED <<wal, json, todo, life>>  BY <1>21 DEF ShutdownNext, diskVars
    <2>. QED  BY <2>1, <2>2 DEF LogOK, TypeOK, MakeSteps, get_active_vm_ids
  <1>22. ASSUME NEW v \in Vms, HypervisorDies(v) PROVE LogOK'
    BY <1>22 DEF LogOK, EntriesOK, Serving, TypeOK, Tables, Idle, MakeSteps, StopSteps,
                 get_active_vm_ids, HypervisorDies, diskVars
  <1>23. ASSUME NEW v \in Vms, ScanVm(v) PROVE LogOK'
    BY <1>23 DEF LogOK, EntriesOK, Serving, TypeOK, Tables, Idle, MakeSteps, StopSteps,
                 get_active_vm_ids, ScanVm, Check, Cleaned, Listed, diskVars
  <1>24. ASSUME Signal PROVE LogOK'
    BY <1>24 DEF LogOK, EntriesOK, Serving, TypeOK, Tables, Idle, MakeSteps, StopSteps,
                 get_active_vm_ids, Signal, diskVars
  <1>25. ASSUME Exit PROVE LogOK'
    BY <1>25 DEF LogOK, EntriesOK, Serving, TypeOK, Tables, Idle, MakeSteps, StopSteps,
                 get_active_vm_ids, Exit, Forget, diskVars
  <1>26. ASSUME Crash PROVE LogOK'
    BY <1>26 DEF LogOK, EntriesOK, Serving, TypeOK, Tables, Idle, MakeSteps, StopSteps,
                 get_active_vm_ids, Crash, Forget, diskVars
  <1>27. ASSUME Boot PROVE LogOK'
    BY <1>27 DEF LogOK, EntriesOK, Serving, TypeOK, Tables, Idle, MakeSteps, StopSteps,
                 get_active_vm_ids, Boot, get_active_vm_ids, diskVars
  <1>28. ASSUME Adopt PROVE LogOK'
    BY <1>28 DEF LogOK, EntriesOK, Serving, TypeOK, Tables, Idle, MakeSteps, StopSteps,
                 get_active_vm_ids, Adopt, diskVars
  <1>29. ASSUME UNCHANGED vars PROVE LogOK'
    BY <1>29 DEF LogOK, EntriesOK, Serving, TypeOK, Tables, Idle, MakeSteps, StopSteps,
                 get_active_vm_ids, vars, diskVars
  <1>. QED
    BY <1>1, <1>2, <1>3, <1>4, <1>5, <1>6, <1>7, <1>8, <1>9, <1>10, <1>11, <1>12, <1>13,
       <1>14, <1>15, <1>16, <1>17, <1>18, <1>19, <1>20, <1>21, <1>22, <1>23, <1>24, <1>25,
       <1>26, <1>27, <1>28, <1>29
       DEF Next, Make

-----------------------------------------------------------------------------

\* A daemon that starts on an empty machine satisfies the invariant.
LEMMA InitInv == Init => RecoveryInv
  <1>. SUFFICES ASSUME Init PROVE RecoveryInv  OBVIOUS
  <1>1. TypeOK /\ Tables
    BY RecoveryAssumption DEF Init, TypeOK, Tables, Idle, Resources
  <1>2. EntriesOK /\ ReleasedOK  BY DEF Init, EntriesOK, ReleasedOK, Serving
  <1>3. ManagedOK  BY DEF Init, ManagedOK
  <1>4. LogOK  BY DEF Init, LogOK, get_active_vm_ids
  <1>. QED  BY <1>1, <1>2, <1>3, <1>4 DEF RecoveryInv

\* The invariant holds over all crashes, shutdowns and restarts.
LEMMA InvHolds == Spec => []RecoveryInv
  <1>1. RecoveryInv /\ [Next]_vars => RecoveryInv'
    BY TypesKept, EntriesKept, ReleasedKept, ManagedKept, LogKept DEF RecoveryInv
  <1>. QED  BY <1>1, InitInv, PTL DEF Spec

\* Every variable keeps its type, and an entry is held outside the registry only
\* while its clean-up is going on (stop_vm, shutdown_signal).
THEOREM RecoveryTypes == Spec => []TypeOK
  <1>1. RecoveryInv => TypeOK  BY DEF RecoveryInv
  <1>. QED  BY <1>1, InvHolds, PTL

\* A VM whose stop was answered and left nothing behind stays gone over all crashes
\* and restarts: the log names it as active for ever, and the scan passes over it
\* because it has no directory (stop_vm, recover_on_startup).
THEOREM StoppedStaysGoneHolds == Spec => []StoppedStaysGone
  <1>1. RecoveryInv => StoppedStaysGone
    BY DEF RecoveryInv, ReleasedOK, StoppedStaysGone
  <1>. QED  BY <1>1, InvHolds, PTL

\* A graceful shutdown, before or after restarts, leaves no hypervisor that this
\* daemon started, whatever requests were in progress; what may still run outlived
\* a crash (shutdown_signal, the Drop of VmmManager).
THEOREM NoOrphanHolds == Spec => []NoOrphanAfterShutdown
  <1>1. RecoveryInv => NoOrphanAfterShutdown
    BY DEF RecoveryInv, ManagedOK, Serving, NoOrphanAfterShutdown
  <1>. QED  BY <1>1, InvHolds, PTL

\* The startup scan takes no resource from a VM that runs: the VMs it looks at have
\* no state.json, and without that cleanup_orphaned_resources does nothing.
THEOREM RecoverySparesLiveHolds == Spec => RecoverySparesLive
  <1>1. RecoveryInv /\ [Next]_vars
           => [life = "scan" => \A v \in proc : res'[v] = res[v]]_vars
    <2>. SUFFICES ASSUME RecoveryInv, Next, life = "scan" PROVE res' = res
      OBVIOUS
    <2>1. ASSUME NEW v \in Vms, ScanVm(v) PROVE res' = res
      <3>1. json[v] = "none"  BY <2>1 DEF RecoveryInv, LogOK, ScanVm
      <3>. QED  BY <2>1, <3>1 DEF ScanVm, Cleaned
    <2>2. ASSUME NEW v \in Vms, Make(v) \/ StopRemove(v) \/ StopCleanup(v) \/ StopLog(v)
                                \/ ShutdownNext(v)
          PROVE  FALSE
      BY <2>2 DEF Make, RunPrepare, RunStart, RunFails, RunSave, RunSaved, RunInsert,
                  RestoreDisk, RestoreDm, RestoreTap, RestoreStart, RestoreFails, RestoreLoad,
                  RestoreInsert, RestoreLog, BranchBegin, BranchBoot, BranchInsert,
                  StopRemove, StopCleanup, StopLog, ShutdownNext, Serving
    <2>3. CASE Signal \/ Exit \/ Crash \/ Boot \/ Adopt
      BY <2>3 DEF Signal, Exit, Crash, Boot, Adopt, diskVars
    <2>4. ASSUME NEW v \in Vms, HypervisorDies(v) PROVE res' = res
      BY <2>4 DEF HypervisorDies
    <2>. QED  BY <2>1, <2>2, <2>3, <2>4 DEF Next
  <1>. QED  BY <1>1, InvHolds, PTL DEF Spec, RecoverySparesLive
=============================================================================
