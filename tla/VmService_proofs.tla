-------------------------- MODULE VmService_proofs --------------------------
(***************************************************************************)
(* Proofs about VmService, for every set of VMs, every number of           *)
(* overlapping calls and every choice of failing external calls.           *)
(***************************************************************************)
EXTENDS VmService, TLAPS

-----------------------------------------------------------------------------
(* The operations of the managers stay within the type of a VM.             *)

\* VmmManager::kill yields a VM record.
LEMMA VmmKillType ==
    ASSUME NEW x \in VmRecord PROVE VmmKill(x) \in VmRecord
  BY DEF VmmKill, VmRecord

\* boot::start_vm yields a VM record.
LEMMA BootedType ==
    ASSUME NEW x \in VmRecord,
           NEW tpm \in {"up", "none"}, NEW fs \in {"none", "up"}
    PROVE  Booted(x, tpm, fs) \in VmRecord
  <1>1. 1 \in 0..MaxMem  BY MemAssumption
  <1>. QED  BY <1>1 DEF Booted, VmRecord, Resources, Removable

\* VtpmManager::stop yields a VM record.
LEMMA VtpmStopType ==
    ASSUME NEW x \in VmRecord PROVE VtpmStop(x) \in VmRecord
  BY DEF VtpmStop, VmRecord

\* Dropping an instance yields a VM record, without a process.
LEMMA DropType ==
    ASSUME NEW x \in VmRecord
    PROVE  /\ DropVm(x) \in VmRecord
           /\ DropVm(x).proc = "none"
           /\ DropVm(x).tpm # "up"
           /\ DropVm(x).fs = "none" /\ ~DropVm(x).sock
           /\ DropVm(x).res = x.res /\ DropVm(x).left = x.left
           /\ DropVm(x).status = x.status
  BY DEF DropVm, VtpmStop, VmmKill, VmRecord

\* VmInstance::cleanup yields a VM record, without disk, TAP, cgroup or
\* proxies but for what it failed to remove.
LEMMA CleanupType ==
    ASSUME NEW x \in VmRecord, NEW failed \in SUBSET Removable
    PROVE  /\ Cleanup(x, failed) \in VmRecord
           /\ Cleanup(x, failed).proc = "none"
           /\ Cleanup(x, failed).status = x.status
           /\ Cleanup(x, failed).left = failed
           /\ Cleanup(x, failed).res \subseteq x.res
           /\ Cleanup(x, failed).res \subseteq {"hib", "dir"} \cup failed
  <1>1. DropVm(x) \in VmRecord  BY DropType
  <1>2. DropVm(x).proc = "none" /\ DropVm(x).status = x.status
        /\ DropVm(x).res = x.res
        BY DropType
  <1>3. x.res \subseteq Resources  BY DEF VmRecord
  <1>. DEFINE keep == x.res \ (ToRemove \ failed)
  <1>4. keep \subseteq x.res /\ keep \subseteq {"hib", "dir"} \cup failed
        BY <1>3 DEF Resources, Removable, Disk, ToRemove
  <1>5. Cleanup(x, failed) = [DropVm(x) EXCEPT !.res = keep, !.left = failed]
        BY <1>1, <1>2 DEF Cleanup, VmRecord
  <1>. HIDE DEF keep
  <1>. QED  BY <1>1, <1>2, <1>3, <1>4, <1>5 DEF VmRecord

\* A call to the hypervisor changes at most the state of the guest.
LEMMA GuestCallType ==
    ASSUME NEW x \in VmRecord,
           NEW from, NEW to \in {"running", "paused"},
           NEW y \in GuestCall(x, from, to)
    PROVE  /\ y \in VmRecord
           /\ y.proc = x.proc /\ y.tpm = x.tpm /\ y.fs = x.fs
           /\ y.res = x.res /\ y.status = x.status /\ y.left = x.left
  <1>1. y = x \/ y = [x EXCEPT !.guest = to]  BY DEF GuestCall
  <1>. QED  BY <1>1 DEF VmRecord

\* A hibernation yields a VM record without a process.
LEMMA HibernatedType ==
    ASSUME NEW x \in VmRecord, NEW snapped \in BOOLEAN
    PROVE  /\ HibernatedVm(x, snapped) \in VmRecord
           /\ HibernatedVm(x, snapped).proc = "none"
           /\ HibernatedVm(x, snapped).res = x.res \cup {"hib"}
           /\ HibernatedVm(x, snapped).tpm = x.tpm
           /\ HibernatedVm(x, snapped).left = x.left
  BY DEF HibernatedVm, VmmKill, VmRecord, VmStatus, Resources, Removable

\* A wake-up yields a VM record with a new process and the same resources.
LEMMA WokenType ==
    ASSUME NEW x \in VmRecord, NEW y \in Woken(x)
    PROVE  /\ y \in VmRecord
           /\ y.res = x.res /\ y.tpm = x.tpm /\ y.left = x.left
  <1>1. 1 \in 0..MaxMem  BY MemAssumption
  <1>2. PICK loaded \in BOOLEAN :
           y = [x EXCEPT !.proc = "live", !.sock = TRUE,
                         !.guest = IF loaded THEN "running" ELSE "off",
                         !.mem = IF ~loaded THEN @
                                 ELSE IF x.snap # 0 THEN x.snap ELSE 1]
        BY DEF Woken
  <1>. QED  BY <1>1, <1>2 DEF VmRecord

-----------------------------------------------------------------------------
(* Type correctness.                                                        *)

\* The common last conjunct of the actions that give up an Arc.
LEMMA ReleaseType ==
    ASSUME TypeOK, NEW v \in VMs, NEW x \in VmRecord, Release(v, x)
    PROVE  vm' \in [VMs -> VmRecord]
  <1>1. DropVm(x) \in VmRecord  BY DropType
  <1>2. (IF Held(v)' THEN x ELSE DropVm(x)) \in VmRecord  BY <1>1
  <1>. QED  BY <1>2 DEF Release, TypeOK

\* The last step of a handler.
LEMMA FinishType ==
    ASSUME TypeOK, NEW r \in Reqs, NEW v \in VMs, NEW x \in VmRecord,
           Finish(r, v, x)
    PROVE  /\ vm' \in [VMs -> VmRecord]
           /\ req' \in [Reqs -> ReqRecord]
  <1>1. vm' \in [VMs -> VmRecord]  BY ReleaseType DEF Finish
  <1>2. req' \in [Reqs -> ReqRecord]
        BY DEF Finish, TypeOK, ReqRecord
  <1>. QED  BY <1>1, <1>2

\* One VM, or one task, gets a new record.
LEMMA UpdateType ==
    ASSUME TypeOK, NEW v \in VMs
    PROVE  /\ \A x \in VmRecord : [vm EXCEPT ![v] = x] \in [VMs -> VmRecord]
           /\ \A t \in TaskRecord :
                 [att EXCEPT ![v] = t] \in [VMs -> TaskRecord]
  BY DEF TypeOK

\* Resources come and go.
LEMMA ResType ==
    ASSUME TypeOK, NEW v \in VMs, NEW s \in SUBSET Resources
    PROVE  /\ [vm EXCEPT ![v].res = @ \cup s] \in [VMs -> VmRecord]
           /\ [vm EXCEPT ![v].res = @ \ s] \in [VMs -> VmRecord]
  <1>1. vm[v] \in VmRecord  BY DEF TypeOK
  <1>2. [vm[v] EXCEPT !.res = @ \cup s] \in VmRecord  BY <1>1 DEF VmRecord
  <1>3. [vm[v] EXCEPT !.res = @ \ s] \in VmRecord  BY <1>1 DEF VmRecord
  <1>. QED  BY <1>2, <1>3 DEF TypeOK

\* The status field is written.
LEMMA StatusType ==
    ASSUME TypeOK, NEW v \in VMs, NEW st \in VmStatus
    PROVE  [vm EXCEPT ![v].status = st] \in [VMs -> VmRecord]
  <1>1. vm[v] \in VmRecord  BY DEF TypeOK
  <1>2. [vm[v] EXCEPT !.status = st] \in VmRecord  BY <1>1 DEF VmRecord
  <1>. QED  BY <1>2 DEF TypeOK

\* The attestation task moves to another stage.
LEMMA TaskType ==
    ASSUME TypeOK, NEW v \in VMs, NEW from, NEW to \in TaskStages,
           Task(v, from, to)
    PROVE  att' \in [VMs -> TaskRecord]
  <1>1. att[v] \in TaskRecord  BY DEF TypeOK
  <1>2. [att[v] EXCEPT !.pc = to] \in TaskRecord  BY <1>1 DEF TaskRecord
  <1>. QED  BY <1>2 DEF Task, TypeOK

\* Every step of run_vm preserves the types.
LEMMA RunTypeOK ==
    ASSUME TypeOK, NEW v \in VMs, RunVm(v) \/ RunStep(v)
    PROVE  TypeOK'
  <1>. USE DEF TypeOK, Run
  <1>0. vm[v] \in VmRecord  OBVIOUS
  <1>. USE DEF RunStages, RunOwns
  <1>1. CASE RunVm(v)
    <2>1. {"dir"} \in SUBSET Resources  BY DEF Resources, Removable
    <2>2. vm' \in [VMs -> VmRecord]  BY <1>1, <2>1, ResType DEF RunVm
    <2>. QED  BY <1>1, <2>2 DEF RunVm
  <1>2. CASE PrepareImage(v)  BY <1>2 DEF PrepareImage
  <1>3. CASE PrepareStorage(v)
    <2>1. PICK s \in SUBSET Resources : vm' = [vm EXCEPT ![v].res = @ \cup s]
      <3>1. {"cow"} \in SUBSET Resources /\ Disk \in SUBSET Resources
            BY DEF Resources, Removable, Disk
      <3>2. {{}, {"cow"}, {"cow", "loops"}} \subseteq SUBSET Resources
            BY DEF Resources, Removable, Disk
      <3>. QED  BY <1>3, <3>1, <3>2 DEF PrepareStorage
    <2>2. vm' \in [VMs -> VmRecord]  BY <2>1, ResType
    <2>. QED  BY <1>3, <2>2 DEF PrepareStorage
  <1>4. CASE SetupNetwork(v)
    <2>1. PICK s \in SUBSET Resources : vm' = [vm EXCEPT ![v].res = @ \cup s]
          BY <1>4 DEF SetupNetwork, Resources, Removable
    <2>2. vm' \in [VMs -> VmRecord]  BY <2>1, ResType
    <2>. QED  BY <1>4, <2>2 DEF SetupNetwork
  <1>5. CASE PrepareAgent(v)
    <2>1. vm' = vm \/ \E s \in SUBSET Resources :
                         vm' = [vm EXCEPT ![v].res = @ \cup s]
          BY <1>5 DEF PrepareAgent, Resources, Removable
    <2>2. CASE vm' = vm  BY <1>5, <2>2 DEF PrepareAgent
    <2>3. CASE \E s \in SUBSET Resources :
                  vm' = [vm EXCEPT ![v].res = @ \cup s]
      <3>0. PICK s \in SUBSET Resources : vm' = [vm EXCEPT ![v].res = @ \cup s]
            BY <2>3
      <3>1. vm' \in [VMs -> VmRecord]  BY <3>0, ResType
      <3>. QED  BY <1>5, <3>1 DEF PrepareAgent
    <2>. QED  BY <2>1, <2>2, <2>3
  <1>6. CASE BootVm(v)
    <2>2. PICK tpm \in {"up", "none"}, fs \in {"none", "up"} :
             vm' = [vm EXCEPT ![v] = Booted(vm[v], tpm, fs)]
          BY <1>6 DEF BootVm
    <2>3. Booted(vm[v], tpm, fs) \in VmRecord  BY <1>0, BootedType
    <2>4. vm' \in [VMs -> VmRecord]  BY <2>2, <2>3, UpdateType
    <2>. QED  BY <1>6, <2>4 DEF BootVm
  <1>7. CASE BootFails(v)
    <2>1. Disk \in SUBSET Resources  BY DEF Resources, Removable
    <2>2. vm' \in [VMs -> VmRecord]  BY <1>7, <2>1, ResType DEF BootFails
    <2>. QED  BY <1>7, <2>2 DEF BootFails
  <1>8. CASE SpawnAttestation(v)
    <2>1. VtpmStop(vm[v]) \in VmRecord  BY <1>0, VtpmStopType
    <2>2. [VtpmStop(vm[v]) EXCEPT !.status = "Running"] \in VmRecord
          BY <2>1 DEF VmRecord, VmStatus
    <2>3. "PendingAttestation" \in VmStatus  BY DEF VmStatus
    <2>4. vm' \in [VMs -> VmRecord]
      <3>1. CASE policy
            BY <1>8, <2>3, <3>1, StatusType DEF SpawnAttestation
      <3>2. CASE ~policy
            BY <1>8, <2>2, <3>2, UpdateType DEF SpawnAttestation
      <3>. QED  BY <3>1, <3>2
    <2>5. att' \in [VMs -> TaskRecord]
      <3>1. NewTask("start", vm[v].tpm # "none") \in TaskRecord
            BY DEF NewTask, TaskRecord, TaskStages
      <3>2. CASE policy  BY <1>8, <3>1, <3>2, UpdateType DEF SpawnAttestation
      <3>3. CASE ~policy  BY <1>8, <3>3 DEF SpawnAttestation
      <3>. QED  BY <3>2, <3>3
    <2>. QED  BY <1>8, <2>4, <2>5 DEF SpawnAttestation
  <1>9. CASE SaveNewVm(v)
    <2>1. vm' \in [VMs -> VmRecord]
          BY <1>0, <1>9, ReleaseType DEF SaveNewVm
    <2>. QED  BY <1>9, <2>1 DEF SaveNewVm
  <1>10. CASE InsertVm(v)  BY <1>10 DEF InsertVm
  <1>. QED  BY <1>1, <1>2, <1>3, <1>4, <1>5, <1>6, <1>7, <1>8, <1>9, <1>10
            DEF RunStep

\* Every step of the attestation task preserves the types.
LEMMA TaskTypeOK ==
    ASSUME TypeOK, NEW v \in VMs, TaskStep(v)
    PROVE  TypeOK'
  <1>. USE DEF TypeOK
  <1>0. vm[v] \in VmRecord  OBVIOUS
  <1>t. {"set", "save", "mark", "kill", "lookup", "mlookup", "remove", "done",
         "aborted"} \subseteq TaskStages
        BY DEF TaskStages, TaskHolds
  <1>a. \A pc \in {"lookup", "verify"}, goal \in {"none", "skip", "ok", "fail"},
           late \in BOOLEAN :
           /\ [att[v] EXCEPT !.pc = pc] \in TaskRecord
           /\ [att[v] EXCEPT !.pc = pc, !.goal = goal] \in TaskRecord
           /\ [att[v] EXCEPT !.pc = pc, !.goal = goal, !.late = late] \in TaskRecord
    <2>1. att[v] \in TaskRecord  OBVIOUS
    <2>. QED  BY <2>1 DEF TaskRecord, TaskStages
  <1>1. CASE TaskStart(v)
    <2>1. att' \in [VMs -> TaskRecord]  BY <1>1, <1>a, UpdateType DEF TaskStart
    <2>. QED  BY <1>1, <2>1 DEF TaskStart
  <1>2. CASE TaskVerify(v)
    <2>1. PICK goal \in {"ok", "fail"} :
             att' = [att EXCEPT ![v] =
                       [att[v] EXCEPT !.pc = "lookup", !.goal = goal,
                                      !.late = ~QuoteGiven(v)]]
          BY <1>2 DEF TaskVerify, Verdicts
    <2>a. (~QuoteGiven(v)) \in BOOLEAN  OBVIOUS
    <2>2. att' \in [VMs -> TaskRecord]  BY <2>1, <2>a, <1>a, UpdateType
    <2>. QED  BY <1>2, <2>2 DEF TaskVerify
  <1>3. CASE TaskLookup(v)  BY <1>3, <1>t, TaskType DEF TaskLookup
  <1>4. CASE TaskSetStatus(v)
    <2>1. {"AttestationFailed", "Running"} \subseteq VmStatus  BY DEF VmStatus
    <2>2. vm' \in [VMs -> VmRecord]
          BY <1>4, <2>1, StatusType DEF TaskSetStatus
    <2>. QED  BY <1>4, <1>t, <2>2, TaskType DEF TaskSetStatus
  <1>5. CASE TaskSave(v)
    <2>1. [vm[v] EXCEPT !.res = @ \cup {"dir"}] \in VmRecord
          BY <1>0 DEF VmRecord, Resources, Removable
    <2>2. vm' \in [VMs -> VmRecord]
          BY <1>0, <1>5, <2>1, ReleaseType DEF TaskSave
    <2>. QED  BY <1>5, <1>t, <2>2, TaskType DEF TaskSave
  <1>6. CASE TaskMarkLookup(v)  BY <1>6, <1>t, TaskType DEF TaskMarkLookup
  <1>7. CASE TaskMark(v)
    <2>1. [vm[v] EXCEPT !.attested = IF att[v].goal = "fail" THEN "FAILED"
                                     ELSE "VERIFIED"] \in VmRecord
          BY <1>0 DEF VmRecord
    <2>2. vm' \in [VMs -> VmRecord]  BY <1>7, <2>1, ReleaseType DEF TaskMark
    <2>. QED  BY <1>7, <1>t, <2>2, TaskType DEF TaskMark
  <1>8. CASE TaskRemove(v)  BY <1>8, <1>t, TaskType DEF TaskRemove
  <1>9. CASE TaskKill(v)
    <2>1. vm' \in [VMs -> VmRecord]
          BY <1>0, <1>9, VmmKillType, ReleaseType DEF TaskKill
    <2>. QED  BY <1>9, <1>t, <2>1, TaskType DEF TaskKill
  <1>10. CASE TaskCancelled(v)
    <2>1. vm' \in [VMs -> VmRecord]
          BY <1>0, <1>10, ReleaseType DEF TaskCancelled
    <2>2. Task(v, att[v].pc, "aborted")  BY <1>10 DEF TaskCancelled, Task
    <2>3. att' \in [VMs -> TaskRecord]  BY <1>t, <2>2, TaskType
    <2>. QED  BY <1>10, <2>1, <2>3 DEF TaskCancelled
  <1>. QED  BY <1>1, <1>2, <1>3, <1>4, <1>5, <1>6, <1>7, <1>8, <1>9, <1>10
            DEF TaskStep

\* A VM whose status is Hibernated has no process.
Sane(x) == x.status = "Hibernated" => x.proc = "none"

\* What the steps of the handlers have in common: they hold v, and all but
\* the first step of attest_vm_handler end with a return.
LEMMA ServeFinishes ==
    ASSUME TypeOK, NEW r \in Reqs, NEW v \in VMs, ServeStep(r, v)
    PROVE  /\ UNCHANGED <<policy, registry, run>>
           /\ req[r].vm = v
           /\ \/ UNCHANGED <<att, cleaned>>
              \/ Stop(r, v)
           /\ \/ \E x \in VmRecord :
                    /\ Finish(r, v, x)
                    /\ Stop(r, v) \/ vm[v].res \subseteq x.res
                    /\ Sane(vm[v]) => Sane(x)
                    /\ x.res \subseteq vm[v].res \cup {"hib", "dir"}
                    /\ Stop(r, v) \/ (x.tpm = vm[v].tpm /\ x.left = vm[v].left)
              \/ /\ vm' = vm
                 /\ Serving(r, "attest", v)
                 /\ req' = [req EXCEPT ![r] = [op |-> "attesting", vm |-> v]]
  <1>0. vm[v] \in VmRecord  BY DEF TypeOK
  <1>. DEFINE Keeps(x) == /\ Stop(r, v) \/ vm[v].res \subseteq x.res
                          /\ Sane(vm[v]) => Sane(x)
                          /\ x.res \subseteq vm[v].res \cup {"hib", "dir"}
                          /\ Stop(r, v) \/ (x.tpm = vm[v].tpm /\ x.left = vm[v].left)
              Ends == \E x \in VmRecord : Finish(r, v, x) /\ Keeps(x)
  <1>a. Keeps(vm[v])  OBVIOUS
  <1>1. CASE Stop(r, v)
    <2>1. PICK failed \in SUBSET Removable : Finish(r, v, Cleanup(vm[v], failed))
          BY <1>1, StuckAssumption DEF Stop
    <2>2. Cleanup(vm[v], failed) \in VmRecord /\ Keeps(Cleanup(vm[v], failed))
          BY <1>0, <1>1, CleanupType DEF Sane
    <2>3. Ends  BY <2>1, <2>2
    <2>. QED  BY <1>1, <2>3 DEF Stop, Serving
  <1>3. CASE Pause(r, v)
    <2>1. PICK y \in GuestCall(vm[v], "running", "paused") :
             Finish(r, v, IF y = vm[v] THEN vm[v]
                          ELSE [y EXCEPT !.status = "Paused"])
          BY <1>3 DEF Pause
    <2>2. /\ y \in VmRecord /\ y.res = vm[v].res /\ y.tpm = vm[v].tpm
          /\ y.left = vm[v].left
          BY <1>0, GuestCallType
    <2>3. /\ [y EXCEPT !.status = "Paused"] \in VmRecord
          /\ Keeps([y EXCEPT !.status = "Paused"])
          BY <2>2 DEF VmRecord, VmStatus, Sane
    <2>4. Ends  BY <1>0, <1>a, <2>1, <2>3
    <2>. QED  BY <1>3, <2>4 DEF Pause, Serving
  <1>4. CASE Hibernate(r, v)
    <2>1. CASE Finish(r, v, vm[v])
          BY <1>0, <1>a, <1>4, <2>1 DEF Hibernate, Serving
    <2>2. CASE vm[v].status # "Hibernated"
      <3>1. PICK y \in GuestCall(vm[v], "running", "paused") :
               \/ Finish(r, v, y)
               \/ \E snapped \in BOOLEAN :
                    Finish(r, v, HibernatedVm(y, snapped))
            BY <1>4, <2>2 DEF Hibernate, Reachable
      <3>2. /\ y \in VmRecord /\ y.res = vm[v].res /\ y.tpm = vm[v].tpm
            /\ y.status = vm[v].status /\ y.proc = vm[v].proc
            /\ y.left = vm[v].left
            BY <1>0, GuestCallType
      <3>3. Keeps(y)  BY <3>2 DEF Sane
      <3>4. \A snapped \in BOOLEAN : /\ HibernatedVm(y, snapped) \in VmRecord
                                    /\ Keeps(HibernatedVm(y, snapped))
            BY <3>2, HibernatedType DEF Sane
      <3>5. Ends  BY <3>1, <3>2, <3>3, <3>4
      <3>. QED  BY <1>4, <3>5 DEF Hibernate, Serving
    <2>. QED  BY <1>4, <2>1, <2>2 DEF Hibernate
  <1>5. CASE Resume(r, v)
    <2>. DEFINE Good(y) == /\ y \in VmRecord
                           /\ y.res = vm[v].res /\ y.tpm = vm[v].tpm
                           /\ y.left = vm[v].left
    <2>1. ASSUME NEW y, Good(y)
          PROVE  /\ [y EXCEPT !.status = "Running"] \in VmRecord
                 /\ Keeps([y EXCEPT !.status = "Running"])
          BY <2>1 DEF VmRecord, VmStatus, Sane
    <2>2. \A y \in GuestCall(vm[v], "paused", "running") : Good(y)
          BY <1>0, GuestCallType
    <2>3. \A y \in Woken(vm[v]) : Good(ReplaceManager(y))
      <3>1. \A y \in Woken(vm[v]) : Good(y)  BY <1>0, WokenType
      <3>. QED  BY <3>1 DEF ReplaceManager, VmRecord
    <2>4. Good(ReplaceManager(vm[v]))
          BY <1>0 DEF ReplaceManager, VmRecord
    <2>. HIDE DEF Good, Keeps
    <2>5. Ends
          BY <1>0, <1>a, <1>5, <2>1, <2>2, <2>3, <2>4 DEF Resume
    <2>. USE DEF Keeps
    <2>. QED  BY <1>5, <2>5 DEF Resume, Serving
  <1>6. CASE Snapshot(r, v)
    <2>1. /\ [vm[v] EXCEPT !.res = @ \cup {"dir"}] \in VmRecord
          /\ Keeps([vm[v] EXCEPT !.res = @ \cup {"dir"}])
          BY <1>0 DEF VmRecord, Resources, Removable, Sane
    <2>2. Ends  BY <1>6, <2>1 DEF Snapshot
    <2>. QED  BY <1>6, <2>2 DEF Snapshot, Serving
  <1>7. CASE AttestRead(r, v)
    <2>1. CASE vm[v].tpm = "none"
          BY <1>0, <1>a, <1>7, <2>1 DEF AttestRead, Serving
    <2>2. CASE vm[v].tpm # "none"
      <3>1. req[r] = [op |-> "attest", vm |-> v]
            BY <1>7 DEF AttestRead, Serving
      <3>2. req' = [req EXCEPT ![r] = [op |-> "attesting", vm |-> v]]
            BY <1>7, <2>2, <3>1 DEF AttestRead
      <3>. QED  BY <1>7, <2>2, <3>1, <3>2 DEF AttestRead
    <2>. QED  BY <2>1, <2>2
  <1>8. CASE AttestMark(r, v)
    <2>1. \A result \in {"VERIFIED", "FAILED"} :
             /\ [vm[v] EXCEPT !.attested = result] \in VmRecord
             /\ Keeps([vm[v] EXCEPT !.attested = result])
          BY <1>0 DEF VmRecord, Sane
    <2>2. Ends  BY <1>0, <1>a, <1>8, <2>1 DEF AttestMark
    <2>. QED  BY <1>8, <2>2 DEF AttestMark, Serving
  <1>9. CASE Monitor(r, v)
    <2>1. /\ [vm[v] EXCEPT !.fs = "up"] \in VmRecord
          /\ Keeps([vm[v] EXCEPT !.fs = "up"])
          BY <1>0 DEF VmRecord, Sane
    <2>2. Ends  BY <1>0, <1>a, <1>9, <2>1 DEF Monitor
    <2>. QED  BY <1>9, <2>2 DEF Monitor, Serving
  <1>. QED  BY <1>1, <1>3, <1>4, <1>5, <1>6, <1>7, <1>8, <1>9 DEF ServeStep

\* Every step of a handler preserves the types.
LEMMA ServeTypeOK ==
    ASSUME TypeOK, NEW r \in Reqs, NEW v \in VMs, ServeStep(r, v)
    PROVE  TypeOK'
  <1>1. UNCHANGED <<policy, registry, run>>  BY ServeFinishes
  <1>2. att' \in [VMs -> TaskRecord] /\ cleaned' \subseteq VMs
    <2>1. CASE UNCHANGED <<att, cleaned>>  BY <2>1 DEF TypeOK
    <2>2. CASE Stop(r, v)
      <3>1. Abort(att[v]) \in TaskRecord
        <4>1. att[v] \in TaskRecord  BY DEF TypeOK
        <4>. QED  BY <4>1 DEF Abort, TaskRecord
      <3>2. att' \in [VMs -> TaskRecord]  BY <2>2, <3>1, UpdateType DEF Stop
      <3>. QED  BY <2>2, <3>2 DEF Stop, TypeOK
    <2>. QED  BY <2>1, <2>2, ServeFinishes
  <1>3. vm' \in [VMs -> VmRecord] /\ req' \in [Reqs -> ReqRecord]
    <2>1. CASE \E x \in VmRecord : Finish(r, v, x)  BY <2>1, FinishType
    <2>2. CASE /\ vm' = vm
               /\ req' = [req EXCEPT ![r] = [op |-> "attesting", vm |-> v]]
          BY <2>2 DEF TypeOK, ReqRecord, Ops
    <2>. QED  BY <2>1, <2>2, ServeFinishes
  <1>. QED  BY <1>1, <1>2, <1>3 DEF TypeOK

\* Calls coming in, the policy switch and spontaneous steps preserve them.
LEMMA OtherTypeOK ==
    ASSUME TypeOK,
           \/ SetPolicy
           \/ \E v \in VMs : EnvStep(v)
           \/ \E r \in Reqs, v \in VMs :
                 StopRemove(r, v) \/ \E op \in Ops : Lookup(r, op, v)
    PROVE  TypeOK'
  <1>1. CASE SetPolicy  BY <1>1 DEF SetPolicy, TypeOK
  <1>2. ASSUME NEW v \in VMs, GuestRuns(v)  PROVE TypeOK'
    <2>1. vm[v] \in VmRecord  BY DEF TypeOK
    <2>2. vm[v].mem \in 0..MaxMem /\ vm[v].mem < MaxMem
          BY <1>2, <2>1 DEF GuestRuns, VmRecord
    <2>3. vm[v].mem + 1 \in 0..MaxMem  BY <2>2, MemAssumption
    <2>4. [vm[v] EXCEPT !.mem = @ + 1] \in VmRecord  BY <2>1, <2>3 DEF VmRecord
    <2>5. vm' \in [VMs -> VmRecord]  BY <1>2, <2>4, UpdateType DEF GuestRuns
    <2>. QED  BY <1>2, <2>5 DEF GuestRuns, TypeOK
  <1>3. ASSUME NEW v \in VMs, HypervisorExits(v)  PROVE TypeOK'
    <2>1. vm[v] \in VmRecord  BY DEF TypeOK
    <2>2. [vm[v] EXCEPT !.proc = "exited", !.guest = "off"] \in VmRecord
          BY <2>1 DEF VmRecord
    <2>3. vm' \in [VMs -> VmRecord]
          BY <1>3, <2>2, UpdateType DEF HypervisorExits
    <2>. QED  BY <1>3, <2>3 DEF HypervisorExits, TypeOK
  <1>4. ASSUME NEW v \in VMs, VirtiofsdExits(v)  PROVE TypeOK'
    <2>1. vm[v] \in VmRecord  BY DEF TypeOK
    <2>2. [vm[v] EXCEPT !.fs = "exited"] \in VmRecord  BY <2>1 DEF VmRecord
    <2>3. vm' \in [VMs -> VmRecord]
          BY <1>4, <2>2, UpdateType DEF VirtiofsdExits
    <2>. QED  BY <1>4, <2>3 DEF VirtiofsdExits, TypeOK
  <1>5. ASSUME NEW r \in Reqs, NEW v \in VMs, StopRemove(r, v)  PROVE TypeOK'
        BY <1>5 DEF StopRemove, Begin, TypeOK, ReqRecord, Ops
  <1>6. ASSUME NEW r \in Reqs, NEW v \in VMs, NEW op \in Ops, Lookup(r, op, v)
        PROVE  TypeOK'
        BY <1>6 DEF Lookup, Begin, TypeOK, ReqRecord
  <1>. QED  BY <1>1, <1>2, <1>3, <1>4, <1>5, <1>6 DEF EnvStep

\* Every step of the daemon and of its processes preserves the types.
LEMMA NextTypeOK == TypeOK /\ [Next]_vars => TypeOK'
  <1>. SUFFICES ASSUME TypeOK, [Next]_vars PROVE TypeOK'  OBVIOUS
  <1>1. CASE UNCHANGED vars  BY <1>1 DEF vars, TypeOK
  <1>2. CASE Next
        BY <1>2, RunTypeOK, TaskTypeOK, ServeTypeOK, OtherTypeOK DEF Next
  <1>. QED  BY <1>1, <1>2

\* A daemon that has just started has the types.
LEMMA InitTypeOK == Init => TypeOK
  <1>1. NewVm \in VmRecord
    <2>1. 0 \in 0..MaxMem  BY MemAssumption
    <2>. QED  BY <2>1 DEF NewVm, VmRecord, VmStatus
  <1>2. NoTask \in TaskRecord  BY DEF NoTask, NewTask, TaskRecord, TaskStages
  <1>. QED  BY <1>1, <1>2 DEF Init, TypeOK, RunStages, ReqRecord

\* The daemon's bookkeeping keeps its shape: every status, resource set and
\* stage stays within its type through every interleaving of run_vm, the
\* attestation tasks, the handlers and the monitor.
THEOREM TypeCorrect == Spec => []TypeOK
  BY InitTypeOK, NextTypeOK, PTL DEF Spec

-----------------------------------------------------------------------------
(* No orphan process.  ProcessHasOwner is inductive once the types are      *)
(* known: the only steps that make a process (BootVm, Resume, Monitor) run  *)
(* in a holder, and the only steps that give up a reference end with        *)
(* Release, which drops the instance when the reference was the last.       *)

\* v owns no process.
Quiet(v) == vm[v].proc # "live" /\ vm[v].tpm # "up" /\ vm[v].fs # "up"

\* The step that ends with Release leaves its VM held or without processes,
\* and every other VM as it was.
LEMMA ReleaseOwned ==
    ASSUME TypeOK, NEW v \in VMs, NEW x \in VmRecord, Release(v, x)
    PROVE  /\ Held(v)' \/ Quiet(v)'
           /\ \A w \in VMs \ {v} : vm'[w] = vm[w]
  <1>1. \A w \in VMs \ {v} : vm'[w] = vm[w]  BY DEF Release, TypeOK
  <1>2. CASE ~Held(v)'
    <2>1. vm'[v] = DropVm(x)  BY <1>2 DEF Release, TypeOK
    <2>. QED  BY <1>1, <2>1, DropType DEF Quiet
  <1>. QED  BY <1>1, <1>2

\* A VM the step did not touch, and whose holders it did not touch, stays
\* held or without processes.
LEMMA FrameOwned ==
    ASSUME ProcessHasOwner, NEW w \in VMs,
           vm'[w] = vm[w], Held(w) => Held(w)'
    PROVE  Held(w)' \/ Quiet(w)'
  BY DEF ProcessHasOwner, Quiet

\* Who holds w depends only on the map, run_vm, the task of w and the calls.
LEMMA HeldFrame ==
    ASSUME NEW w \in VMs,
           w \in registry => w \in registry',
           run'[w] = run[w], att'[w] = att[w],
           \A r \in Reqs : req[r].vm = w => req'[r].vm = w
    PROVE  Held(w) => Held(w)'
  BY DEF Held

\* ProcessHasOwner, VM by VM.
LEMMA OwnedByAll ==
    ASSUME TypeOK', \A w \in VMs : Held(w)' \/ Quiet(w)'
    PROVE  ProcessHasOwner'
  BY DEF ProcessHasOwner, Quiet

\* A step of run_vm leaves no orphan: what it starts it owns until it has
\* inserted the VM, and a failed save_state drops the instance.
LEMMA RunOwned ==
    ASSUME TypeOK, TypeOK', ProcessHasOwner, NEW v \in VMs,
           RunVm(v) \/ RunStep(v)
    PROVE  ProcessHasOwner'
  <1>1. \A w \in VMs \ {v} : /\ vm'[w] = vm[w] /\ run'[w] = run[w]
                             /\ att'[w] = att[w]
        BY DEF RunStep, Run, RunVm, PrepareImage, PrepareStorage, SetupNetwork,
               PrepareAgent, BootVm, BootFails, SpawnAttestation, SaveNewVm,
               InsertVm, Release, TypeOK
  <1>2. req' = req /\ registry \subseteq registry'
        BY DEF RunStep, RunVm, PrepareImage, PrepareStorage, SetupNetwork,
               PrepareAgent, BootVm, BootFails, SpawnAttestation, SaveNewVm,
               InsertVm
  <1>3. \A w \in VMs \ {v} : Held(w)' \/ Quiet(w)'
        BY <1>1, <1>2, HeldFrame, FrameOwned
  <1>4. Held(v)' \/ Quiet(v)'
    <2>1. CASE SaveNewVm(v) /\ run'[v] = "failed"
      <3>1. Release(v, vm[v])  BY <2>1 DEF SaveNewVm, Run, TypeOK
      <3>. QED  BY <3>1, ReleaseOwned DEF TypeOK
    <2>2. CASE BootVm(v) \/ SpawnAttestation(v)
               \/ (SaveNewVm(v) /\ run'[v] # "failed")
      <3>1. run'[v] \in RunOwns
            BY <2>2 DEF BootVm, SpawnAttestation, SaveNewVm, Run, RunOwns, TypeOK
      <3>. QED  BY <3>1 DEF Held
    <2>3. CASE InsertVm(v)  BY <2>3 DEF InsertVm, Held
    <2>4. CASE RunVm(v) \/ PrepareImage(v) \/ PrepareStorage(v)
               \/ SetupNetwork(v) \/ PrepareAgent(v) \/ BootFails(v)
      <3>1. run[v] \notin RunOwns /\ att' = att /\ registry' = registry
            BY <2>4 DEF RunVm, PrepareImage, PrepareStorage, SetupNetwork,
                        PrepareAgent, BootFails, Run, RunOwns
      <3>2. Held(v) => Held(v)'  BY <1>2, <3>1 DEF Held
      <3>3. /\ vm'[v].proc = vm[v].proc /\ vm'[v].tpm = vm[v].tpm
            /\ vm'[v].fs = vm[v].fs
        <4>1. \/ vm' = vm
              \/ \E s : vm' = [vm EXCEPT ![v].res = s]
              BY <2>4 DEF RunVm, PrepareImage, PrepareStorage, SetupNetwork,
                          PrepareAgent, BootFails
        <4>2. vm[v] \in VmRecord  BY DEF TypeOK
        <4>. QED  BY <4>1, <4>2 DEF TypeOK, VmRecord
      <3>. QED  BY <3>2, <3>3 DEF ProcessHasOwner, Quiet
    <2>. QED  BY <2>1, <2>2, <2>3, <2>4 DEF RunStep
  <1>. QED  BY <1>3, <1>4, OwnedByAll

\* A step of the attestation task leaves no orphan.
LEMMA TaskOwned ==
    ASSUME TypeOK, TypeOK', ProcessHasOwner, NEW v \in VMs, TaskStep(v)
    PROVE  ProcessHasOwner'
  <1>1. \A w \in VMs \ {v} : /\ vm'[w] = vm[w] /\ run'[w] = run[w]
                             /\ att'[w] = att[w]
                             /\ w \in registry => w \in registry'
        BY DEF TaskStep, Task, TaskStart, TaskVerify, TaskLookup, TaskSetStatus,
               TaskSave, TaskMarkLookup, TaskMark, TaskRemove, TaskKill, TaskCancelled,
               Release, TypeOK
  <1>2. req' = req /\ run' = run
        BY DEF TaskStep, TaskStart, TaskVerify, TaskLookup, TaskSetStatus,
               TaskSave, TaskMarkLookup, TaskMark, TaskRemove, TaskKill, TaskCancelled
  <1>3. \A w \in VMs \ {v} : Held(w)' \/ Quiet(w)'
        BY <1>1, <1>2, HeldFrame, FrameOwned
  <1>4. Held(v)' \/ Quiet(v)'
    <2>0. vm[v] \in VmRecord /\ att[v] \in TaskRecord  BY DEF TypeOK
    <2>1. CASE TaskSave(v) \/ TaskMark(v) \/ TaskKill(v)
               \/ TaskCancelled(v)
      <3>1. PICK x \in VmRecord : Release(v, x)
        <4>1. [vm[v] EXCEPT !.res = @ \cup {"dir"}] \in VmRecord
              BY <2>0 DEF VmRecord, Resources, Removable
        <4>2. [vm[v] EXCEPT !.attested = IF att[v].goal = "fail" THEN "FAILED"
                                         ELSE "VERIFIED"] \in VmRecord
              BY <2>0 DEF VmRecord
        <4>3. VmmKill(vm[v]) \in VmRecord  BY <2>0, VmmKillType
        <4>. QED  BY <2>0, <2>1, <4>1, <4>2, <4>3 DEF TaskSave, TaskMark, TaskKill,
                     TaskCancelled
      <3>. QED  BY <3>1, ReleaseOwned
    <2>2. CASE TaskSetStatus(v)
      <3>1. att'[v].pc = "save"
            BY <2>0, <2>2 DEF TaskSetStatus, Task, TypeOK, TaskRecord
      <3>. QED  BY <3>1 DEF Held, TaskHolds
    <2>3. CASE TaskRemove(v) /\ v \in registry
      <3>1. att'[v].pc = "kill"
            BY <2>0, <2>3 DEF TaskRemove, Task, TypeOK, TaskRecord
      <3>. QED  BY <3>1 DEF Held, TaskHolds
    <2>4. CASE \/ TaskStart(v) \/ TaskVerify(v) \/ TaskLookup(v)
               \/ TaskMarkLookup(v) \/ (TaskRemove(v) /\ v \notin registry)
      <3>1. /\ att[v].pc \notin TaskHolds /\ vm' = vm
            /\ v \in registry => v \in registry'
            BY <2>4 DEF TaskStart, TaskVerify, TaskLookup, TaskMarkLookup,
                        TaskRemove, Task, TaskHolds
      <3>2. Held(v) => Held(v)'  BY <1>2, <3>1 DEF Held
      <3>. QED  BY <3>1, <3>2 DEF ProcessHasOwner, Quiet
    <2>. QED  BY <2>1, <2>2, <2>3, <2>4 DEF TaskStep
  <1>. QED  BY <1>3, <1>4, OwnedByAll

\* A step of a handler under the VM's lock leaves no orphan.
LEMMA ServeOwned ==
    ASSUME TypeOK, TypeOK', ProcessHasOwner,
           NEW r \in Reqs, NEW v \in VMs, ServeStep(r, v)
    PROVE  ProcessHasOwner'
  <1>1. CASE \E x \in VmRecord : Finish(r, v, x)
    <2>1. PICK x \in VmRecord : Finish(r, v, x)  BY <1>1
    <2>2. Release(v, x) /\ req' = [req EXCEPT ![r] = IdleReq]
          BY <2>1 DEF Finish
    <2>3. Held(v)' \/ Quiet(v)'  BY <2>2, ReleaseOwned
    <2>4. ASSUME NEW w \in VMs \ {v}  PROVE Held(w)' \/ Quiet(w)'
      <3>1. vm'[w] = vm[w]  BY <2>2, ReleaseOwned
      <3>2. registry' = registry /\ run' = run  BY ServeFinishes
      <3>3. att'[w] = att[w]  BY ServeFinishes DEF Stop, TypeOK
      <3>4. \A q \in Reqs : req[q].vm = w => req'[q].vm = w
            BY <2>2, ServeFinishes DEF TypeOK
      <3>. QED  BY <3>1, <3>2, <3>3, <3>4, HeldFrame, FrameOwned
    <2>. QED  BY <2>3, <2>4, OwnedByAll
  <1>2. CASE /\ vm' = vm
             /\ req' = [req EXCEPT ![r] = [op |-> "attesting", vm |-> v]]
    <2>1. req'[r].vm = v  BY <1>2 DEF TypeOK
    <2>2. Held(v)'  BY <2>1 DEF Held
    <2>3. ASSUME NEW w \in VMs \ {v}  PROVE Held(w)' \/ Quiet(w)'
      <3>1. registry' = registry /\ run' = run  BY ServeFinishes
      <3>2. att'[w] = att[w]  BY ServeFinishes DEF Stop, TypeOK
      <3>3. \A q \in Reqs : req[q].vm = w => req'[q].vm = w
            BY <1>2, ServeFinishes DEF TypeOK
      <3>. QED  BY <1>2, <3>1, <3>2, <3>3, HeldFrame, FrameOwned
    <2>. QED  BY <2>2, <2>3, OwnedByAll
  <1>. QED  BY <1>1, <1>2, ServeFinishes

\* Calls coming in, the policy switch and spontaneous steps leave no orphan.
LEMMA OtherOwned ==
    ASSUME TypeOK, TypeOK', ProcessHasOwner,
           \/ SetPolicy
           \/ \E v \in VMs : EnvStep(v)
           \/ \E r \in Reqs, v \in VMs :
                 StopRemove(r, v) \/ \E op \in Ops : Lookup(r, op, v)
    PROVE  ProcessHasOwner'
  <1>1. CASE SetPolicy
        BY <1>1 DEF SetPolicy, ProcessHasOwner, Held
  <1>2. ASSUME NEW v \in VMs, EnvStep(v)  PROVE ProcessHasOwner'
    <2>1. UNCHANGED <<registry, run, att, req>>
          BY <1>2 DEF EnvStep, GuestRuns, HypervisorExits, VirtiofsdExits
    <2>2. \A w \in VMs : Held(w)' <=> Held(w)  BY <2>1 DEF Held
    <2>3. vm[v] \in VmRecord  BY DEF TypeOK
    <2>4. Quiet(v) => Quiet(v)'
      <3>1. CASE GuestRuns(v)
            BY <2>3, <3>1 DEF GuestRuns, Quiet, TypeOK, VmRecord
      <3>2. CASE HypervisorExits(v)
            BY <2>3, <3>2 DEF HypervisorExits, Quiet, TypeOK, VmRecord
      <3>3. CASE VirtiofsdExits(v)
            BY <2>3, <3>3 DEF VirtiofsdExits, Quiet, TypeOK, VmRecord
      <3>. QED  BY <1>2, <3>1, <3>2, <3>3 DEF EnvStep
    <2>5. \A w \in VMs \ {v} : vm'[w] = vm[w]
          BY <1>2 DEF EnvStep, GuestRuns, HypervisorExits, VirtiofsdExits, TypeOK
    <2>. QED  BY <2>2, <2>4, <2>5, OwnedByAll DEF ProcessHasOwner, Quiet
  <1>3. ASSUME NEW r \in Reqs, NEW v \in VMs, NEW op,
               Begin(r, op, v), UNCHANGED <<vm, run, att>>,
               registry \ {v} \subseteq registry'
        PROVE  ProcessHasOwner'
    <2>1. req'[r].vm = v  BY <1>3 DEF Begin, TypeOK
    <2>2. Held(v)'  BY <2>1 DEF Held
    <2>3. ASSUME NEW w \in VMs \ {v}  PROVE Held(w)' \/ Quiet(w)'
      <3>1. \A q \in Reqs : req[q].vm = w => req'[q].vm = w
            BY <1>3, VMAssumption DEF Begin, TypeOK, IdleReq
      <3>. QED  BY <1>3, <3>1, HeldFrame, FrameOwned
    <2>. QED  BY <2>2, <2>3, OwnedByAll
  <1>. QED  BY <1>1, <1>2, <1>3 DEF StopRemove, Lookup

\* A live hypervisor, vTPM or virtiofsd always belongs to an instance that
\* the map, run_vm, the attestation task or a handler still holds: however
\* stop, kill_vm, a late resume, a late monitor restart and a failing
\* creation interleave, no process outlives its VM.
THEOREM NoOrphanProcess == Spec => []ProcessHasOwner
  <1>1. Init => ProcessHasOwner
        BY DEF Init, ProcessHasOwner, NewVm
  <1>2. TypeOK /\ TypeOK' /\ ProcessHasOwner /\ [Next]_vars => ProcessHasOwner'
    <2>. SUFFICES ASSUME TypeOK, TypeOK', ProcessHasOwner, [Next]_vars
                  PROVE  ProcessHasOwner'
         OBVIOUS
    <2>1. CASE UNCHANGED vars
          BY <2>1 DEF vars, ProcessHasOwner, Held
    <2>2. CASE Next
          BY <2>2, RunOwned, TaskOwned, ServeOwned, OtherOwned DEF Next
    <2>. QED  BY <2>1, <2>2
  <1>. QED  BY <1>1, <1>2, TypeCorrect, PTL DEF Spec

-----------------------------------------------------------------------------
(* A VM in the map keeps its disk, and a hibernated one has no hypervisor.  *)
(* Neither is inductive alone: that no cleanup runs for a VM of the map     *)
(* rests on the stop having removed it and on run_vm inserting it once,     *)
(* and that a boot never finds the status Hibernated rests on nobody        *)
(* reaching the VM before run_vm is done.                                   *)

DiskStages == {"network", "agent", "boot", "spawn", "save", "insert"}

\* The inductive invariant, for one VM.
Life(v) ==
    /\ (\/ v \in registry \/ v \in cleaned \/ att[v].pc \in TaskHolds
        \/ \E r \in Reqs : req[r].vm = v) => run[v] = "done"
    /\ (v \in registry \/ run[v] \in DiskStages) => "cow" \in vm[v].res
    /\ (v \in cleaned \/ \E r \in Reqs : Serving(r, "stop", v))
          => v \notin registry
    /\ vm[v].status = "Hibernated" => vm[v].proc = "none" /\ run[v] = "done"

LifeInv == \A v \in VMs : Life(v)

\* Life of a VM the step did not touch carries over.
LEMMA LifeFrame ==
    ASSUME NEW w \in VMs, Life(w),
           vm'[w] = vm[w], run'[w] = run[w], att'[w] = att[w],
           w \in registry' <=> w \in registry,
           w \in cleaned' <=> w \in cleaned,
           \A r \in Reqs : req'[r] = req[r] \/ req'[r].vm # w
    PROVE  Life(w)'
  <1>1. \A r \in Reqs : req'[r].vm = w => req[r].vm = w  OBVIOUS
  <1>2. \A r \in Reqs : Serving(r, "stop", w)' => Serving(r, "stop", w)
        BY DEF Serving
  <1>. QED  BY <1>1, <1>2 DEF Life

\* Release keeps the status, the resources and Sane.
LEMMA ReleaseKeeps ==
    ASSUME TypeOK, NEW v \in VMs, NEW x \in VmRecord, Release(v, x)
    PROVE  /\ vm'[v].res = x.res /\ vm'[v].status = x.status
           /\ vm'[v].left = x.left
           /\ Sane(x) => Sane(vm'[v])
           /\ \A w \in VMs \ {v} : vm'[w] = vm[w]
  <1>1. vm'[v] = x \/ vm'[v] = DropVm(x)  BY DEF Release, TypeOK
  <1>2. \A w \in VMs \ {v} : vm'[w] = vm[w]  BY DEF Release, TypeOK
  <1>. QED  BY <1>1, <1>2, DropType DEF Sane

\* A step of run_vm preserves the life-cycle invariant.
LEMMA RunLife ==
    ASSUME TypeOK, TypeOK', LifeInv, NEW v \in VMs, RunVm(v) \/ RunStep(v)
    PROVE  LifeInv'
  <1>0. vm[v] \in VmRecord /\ Life(v)  BY DEF TypeOK, LifeInv
  <1>1. req' = req /\ cleaned' = cleaned
        BY DEF RunStep, RunVm, PrepareImage, PrepareStorage, SetupNetwork,
               PrepareAgent, BootVm, BootFails, SpawnAttestation, SaveNewVm,
               InsertVm
  <1>2. \A w \in VMs \ {v} : Life(w)'
    <2>1. \A w \in VMs \ {v} : /\ vm'[w] = vm[w] /\ run'[w] = run[w]
                               /\ att'[w] = att[w]
                               /\ w \in registry' <=> w \in registry
          BY DEF RunStep, Run, RunVm, PrepareImage, PrepareStorage,
                 SetupNetwork, PrepareAgent, BootVm, BootFails,
                 SpawnAttestation, SaveNewVm, InsertVm, Release, TypeOK
    <2>. QED  BY <1>1, <2>1, LifeFrame DEF LifeInv
  <1>3. /\ run[v] # "done" /\ run[v] \in RunStages /\ run'[v] \in RunStages
        /\ v \notin registry /\ v \notin cleaned /\ att[v].pc \notin TaskHolds
        /\ \A r \in Reqs : req[r].vm # v
        /\ vm[v].status # "Hibernated"
    <2>1. run[v] # "done"
          BY DEF RunStep, Run, RunVm, PrepareImage, PrepareStorage,
                 SetupNetwork, PrepareAgent, BootVm, BootFails,
                 SpawnAttestation, SaveNewVm, InsertVm
    <2>. QED  BY <1>0, <2>1 DEF Life, TypeOK
  <1>4. v \notin cleaned' /\ \A r \in Reqs : req'[r].vm # v
        BY <1>1, <1>3
  <1>5. \A r \in Reqs : ~Serving(r, "stop", v)'  BY <1>4 DEF Serving
  <1>6. Life(v)'
    <2>1. CASE InsertVm(v)
      <3>1. run'[v] = "done" /\ "cow" \in vm'[v].res
            /\ vm'[v].status # "Hibernated"
            BY <1>0, <1>3, <2>1 DEF InsertVm, Run, TypeOK, Life, DiskStages
      <3>. QED  BY <1>4, <1>5, <3>1 DEF Life, DiskStages
    <2>2. CASE ~InsertVm(v)
      <3>1. v \notin registry'
            BY <1>3, <2>2 DEF RunStep, RunVm, PrepareImage, PrepareStorage,
               SetupNetwork, PrepareAgent, BootVm, BootFails, SpawnAttestation,
               SaveNewVm
      <3>2. att'[v].pc \notin TaskHolds
        <4>1. CASE SpawnAttestation(v) /\ policy
              BY <4>1 DEF SpawnAttestation, NewTask, TypeOK, TaskHolds
        <4>2. CASE ~(SpawnAttestation(v) /\ policy)
          <5>1. att' = att
                BY <2>2, <4>2 DEF RunStep, RunVm, PrepareImage, PrepareStorage,
                   SetupNetwork, PrepareAgent, BootVm, BootFails,
                   SpawnAttestation, SaveNewVm
          <5>. QED  BY <1>3, <5>1
        <4>. QED  BY <4>1, <4>2
      <3>3. vm'[v].status # "Hibernated"
        <4>1. CASE SpawnAttestation(v)
          <5>1. VtpmStop(vm[v]) \in VmRecord  BY <1>0, VtpmStopType
          <5>. QED  BY <1>0, <4>1, <5>1 DEF SpawnAttestation, TypeOK, VmRecord
        <4>2. CASE SaveNewVm(v)
              BY <1>0, <1>3, <4>2, ReleaseKeeps DEF SaveNewVm
        <4>3. CASE BootVm(v)
          <5>1. PICK tpm \in {"up", "none"}, fs \in {"none", "up"} :
                   vm' = [vm EXCEPT ![v] = Booted(vm[v], tpm, fs)]
                BY <4>3 DEF BootVm
          <5>2. Booted(vm[v], tpm, fs).status = vm[v].status
                BY <1>0 DEF Booted, VmRecord
          <5>. QED  BY <1>3, <5>1, <5>2 DEF TypeOK
        <4>4. CASE ~SpawnAttestation(v) /\ ~SaveNewVm(v) /\ ~BootVm(v)
          <5>1. vm' = vm \/ \E s : vm' = [vm EXCEPT ![v].res = s]
                BY <2>2, <4>4 DEF RunStep, RunVm, PrepareImage, PrepareStorage,
                   SetupNetwork, PrepareAgent, BootFails
          <5>. QED  BY <1>0, <1>3, <5>1 DEF TypeOK, VmRecord
        <4>. QED  BY <4>1, <4>2, <4>3, <4>4
      <3>4. run'[v] \in DiskStages => "cow" \in vm'[v].res
        <4>1. CASE PrepareStorage(v)
              BY <1>0, <4>1
              DEF PrepareStorage, Run, TypeOK, VmRecord, Disk, DiskStages
        <4>2. CASE SetupNetwork(v) \/ PrepareAgent(v)
          <5>1. "cow" \in vm[v].res
                BY <1>0, <4>2
                DEF SetupNetwork, PrepareAgent, Run, Life, DiskStages
          <5>2. vm' = vm \/ \E s : vm' = [vm EXCEPT ![v].res = @ \cup s]
                BY <4>2 DEF SetupNetwork, PrepareAgent
          <5>3. CASE vm' = vm  BY <5>1, <5>3
          <5>4. ASSUME NEW s, vm' = [vm EXCEPT ![v].res = @ \cup s]
                PROVE  "cow" \in vm'[v].res
            <6>1. vm'[v] = [vm[v] EXCEPT !.res = @ \cup s]
                  BY <5>4 DEF TypeOK
            <6>. QED  BY <1>0, <5>1, <6>1 DEF VmRecord
          <5>. QED  BY <5>2, <5>3, <5>4
        <4>3. CASE BootVm(v)
          <5>1. "cow" \in vm[v].res
                BY <1>0, <4>3 DEF BootVm, Run, Life, DiskStages
          <5>2. PICK tpm \in {"up", "none"}, fs \in {"none", "up"} :
                   vm' = [vm EXCEPT ![v] = Booted(vm[v], tpm, fs)]
                BY <4>3 DEF BootVm
          <5>3. Booted(vm[v], tpm, fs).res = vm[v].res \cup {"proxies"}
                BY <1>0 DEF Booted, VmRecord
          <5>. QED  BY <5>1, <5>2, <5>3 DEF TypeOK
        <4>4. CASE SpawnAttestation(v)
          <5>1. "cow" \in vm[v].res
                BY <1>0, <4>4 DEF SpawnAttestation, Run, Life, DiskStages
          <5>2. VtpmStop(vm[v]) \in VmRecord /\ VtpmStop(vm[v]).res = vm[v].res
                BY <1>0, VtpmStopType DEF VtpmStop, VmRecord
          <5>3. \/ vm' = [vm EXCEPT ![v].status = "PendingAttestation"]
                \/ vm' = [vm EXCEPT ![v] =
                            [VtpmStop(vm[v]) EXCEPT !.status = "Running"]]
                BY <4>4 DEF SpawnAttestation
          <5>4. CASE vm' = [vm EXCEPT ![v].status = "PendingAttestation"]
                BY <1>0, <5>1, <5>4 DEF TypeOK, VmRecord
          <5>5. CASE vm' = [vm EXCEPT ![v] =
                              [VtpmStop(vm[v]) EXCEPT !.status = "Running"]]
            <6>1. vm'[v] = [VtpmStop(vm[v]) EXCEPT !.status = "Running"]
                  BY <5>5 DEF TypeOK
            <6>. QED  BY <5>1, <5>2, <6>1 DEF VmRecord
          <5>. QED  BY <5>3, <5>4, <5>5
        <4>5. CASE SaveNewVm(v)
          <5>1. "cow" \in vm[v].res
                BY <1>0, <4>5 DEF SaveNewVm, Run, Life, DiskStages
          <5>. QED  BY <1>0, <4>5, <5>1, ReleaseKeeps DEF SaveNewVm
        <4>6. CASE RunVm(v) \/ PrepareImage(v) \/ BootFails(v)
              BY <4>6 DEF RunVm, PrepareImage, BootFails, Run, TypeOK, DiskStages
        <4>. QED  BY <2>2, <4>1, <4>2, <4>3, <4>4, <4>5, <4>6 DEF RunStep
      <3>. QED  BY <1>4, <1>5, <3>1, <3>2, <3>3, <3>4 DEF Life
    <2>. QED  BY <2>1, <2>2
  <1>. QED  BY <1>2, <1>6 DEF LifeInv

\* A step of the attestation task preserves the life-cycle invariant.
LEMMA TaskLife ==
    ASSUME TypeOK, TypeOK', LifeInv, NEW v \in VMs, TaskStep(v)
    PROVE  LifeInv'
  <1>0. /\ vm[v] \in VmRecord /\ att[v] \in TaskRecord /\ Life(v)
        BY DEF TypeOK, LifeInv
  <1>1. req' = req /\ run' = run /\ cleaned' = cleaned
        BY DEF TaskStep, TaskStart, TaskVerify, TaskLookup, TaskSetStatus,
               TaskSave, TaskMarkLookup, TaskMark, TaskRemove, TaskKill, TaskCancelled
  <1>2. \A w \in VMs \ {v} : Life(w)'
    <2>1. \A w \in VMs \ {v} : /\ vm'[w] = vm[w] /\ att'[w] = att[w]
                               /\ w \in registry' <=> w \in registry
          BY DEF TaskStep, Task, TaskStart, TaskVerify, TaskLookup,
                 TaskSetStatus, TaskSave, TaskMarkLookup, TaskMark, TaskRemove,
                 TaskKill, TaskCancelled, Release, TypeOK
    <2>. QED  BY <1>1, <2>1, LifeFrame DEF LifeInv
  <1>3. registry' \subseteq registry
        BY DEF TaskStep, TaskStart, TaskVerify, TaskLookup, TaskSetStatus,
               TaskSave, TaskMarkLookup, TaskMark, TaskRemove, TaskKill, TaskCancelled
  <1>4. att'[v].pc \in TaskHolds => v \in registry \/ att[v].pc \in TaskHolds
    <2>1. CASE TaskStart(v) \/ TaskVerify(v)
      <3>1. PICK t : /\ att' = [att EXCEPT ![v] = t]
                     /\ t.pc \in {"lookup", "verify"}
        <4>. DEFINE Early(t) == /\ att' = [att EXCEPT ![v] = t]
                               /\ t.pc \in {"lookup", "verify"}
        <4>0. \A goal : /\ [att[v] EXCEPT !.pc = "lookup",
                                          !.goal = goal].pc = "lookup"
                       /\ [att[v] EXCEPT !.pc = "verify"].pc = "verify"
              BY <1>0 DEF TaskRecord
        <4>1. CASE TaskStart(v)
          <5>1. CASE ~policy
            <6>1. att' = [att EXCEPT ![v] = [att[v] EXCEPT !.pc = "lookup",
                                                           !.goal = "skip"]]
                  BY <4>1, <5>1 DEF TaskStart
            <6>2. Early([att[v] EXCEPT !.pc = "lookup", !.goal = "skip"])
                  BY <4>0, <6>1
            <6>. QED  BY <6>2
          <5>2. CASE policy /\ att[v].tpm
            <6>1. att' = [att EXCEPT ![v] = [att[v] EXCEPT !.pc = "verify"]]
                  BY <4>1, <5>2 DEF TaskStart
            <6>2. Early([att[v] EXCEPT !.pc = "verify"])
                  BY <4>0, <6>1
            <6>. QED  BY <6>2
          <5>3. CASE policy /\ ~att[v].tpm
            <6>1. att' = [att EXCEPT ![v] = [att[v] EXCEPT !.pc = "lookup",
                                                           !.goal = "fail"]]
                  BY <4>1, <5>3 DEF TaskStart
            <6>2. Early([att[v] EXCEPT !.pc = "lookup", !.goal = "fail"])
                  BY <4>0, <6>1
            <6>. QED  BY <6>2
          <5>. QED  BY <5>1, <5>2, <5>3
        <4>2. CASE TaskVerify(v)
          <5>1. PICK goal, late :
                   att' = [att EXCEPT ![v] =
                             [att[v] EXCEPT !.pc = "lookup", !.goal = goal,
                                            !.late = late]]
                BY <4>2 DEF TaskVerify
          <5>a. [att[v] EXCEPT !.pc = "lookup", !.goal = goal,
                               !.late = late].pc = "lookup"
                BY <1>0 DEF TaskRecord
          <5>2. Early([att[v] EXCEPT !.pc = "lookup", !.goal = goal,
                                     !.late = late])
                BY <5>a, <5>1
          <5>. QED  BY <5>2
        <4>. QED  BY <2>1, <4>1, <4>2
      <3>. QED  BY <3>1 DEF TaskHolds, TypeOK
    <2>2. ASSUME NEW from, NEW to, Task(v, from, to),
                 to \in TaskHolds => v \in registry \/ from \in TaskHolds
          PROVE  att'[v].pc \in TaskHolds
                    => v \in registry \/ att[v].pc \in TaskHolds
      <3>1. att'[v] = [att[v] EXCEPT !.pc = to] /\ att[v].pc = from
            BY <2>2 DEF Task, TypeOK
      <3>2. att'[v].pc = to  BY <1>0, <3>1 DEF TaskRecord
      <3>. QED  BY <2>2, <3>1, <3>2
    <2>3. CASE TaskLookup(v) \/ TaskMarkLookup(v) \/ TaskRemove(v)
          BY <2>2, <2>3 DEF TaskLookup, TaskMarkLookup, TaskRemove, TaskHolds
    <2>4. CASE TaskSetStatus(v) \/ TaskSave(v) \/ TaskMark(v) \/ TaskKill(v)
          BY <2>4 DEF TaskSetStatus, TaskSave, TaskMark, TaskKill, TaskHolds, Task
    <2>5. CASE TaskCancelled(v)
      <3>1. Task(v, att[v].pc, "aborted")  BY <2>5 DEF TaskCancelled, Task
      <3>. QED  BY <2>2, <3>1 DEF TaskHolds
    <2>. QED  BY <2>1, <2>3, <2>4, <2>5 DEF TaskStep
  <1>5. /\ vm[v].res \subseteq vm'[v].res
        /\ vm'[v].status = "Hibernated" =>
              vm[v].status = "Hibernated" /\ vm'[v].proc = "none"
    <2>1. CASE TaskSetStatus(v)
          BY <1>0, <2>1 DEF TaskSetStatus, TypeOK, VmRecord
    <2>2. CASE TaskSave(v) \/ TaskMark(v) \/ TaskKill(v)
               \/ TaskCancelled(v)
      <3>1. PICK x \in VmRecord : /\ Release(v, x) /\ vm[v].res \subseteq x.res
                                  /\ x.status = vm[v].status
                                  /\ Sane(vm[v]) => Sane(x)
        <4>. DEFINE Keeps(x) == /\ x \in VmRecord /\ vm[v].res \subseteq x.res
                                /\ x.status = vm[v].status
                                /\ Sane(vm[v]) => Sane(x)
        <4>1. Keeps([vm[v] EXCEPT !.res = @ \cup {"dir"}])
              BY <1>0 DEF VmRecord, Resources, Removable, Sane
        <4>2. Keeps([vm[v] EXCEPT !.attested =
                       IF att[v].goal = "fail" THEN "FAILED" ELSE "VERIFIED"])
              BY <1>0 DEF VmRecord, Sane
        <4>3. Keeps(VmmKill(vm[v]))
              BY <1>0, VmmKillType DEF VmmKill, VmRecord, Sane
        <4>4. Keeps(vm[v])  BY <1>0
        <4>. HIDE DEF Keeps
        <4>5. \E x : Keeps(x) /\ Release(v, x)
              BY <2>2, <4>1, <4>2, <4>3, <4>4 DEF TaskSave, TaskMark, TaskKill, TaskCancelled
        <4>. QED  BY <4>5 DEF Keeps
      <3>2. Sane(vm[v])  BY <1>0 DEF Life, Sane
      <3>. QED  BY <3>1, <3>2, ReleaseKeeps DEF Sane
    <2>3. CASE ~(TaskSetStatus(v) \/ TaskSave(v) \/ TaskMark(v) \/ TaskKill(v)
               \/ TaskCancelled(v))
      <3>1. vm' = vm
            BY <2>3 DEF TaskStep, TaskStart, TaskVerify, TaskLookup,
                        TaskMarkLookup, TaskRemove
      <3>. QED  BY <1>0, <3>1 DEF Life
    <2>. QED  BY <2>1, <2>2, <2>3
  <1>6. \A r \in Reqs : Serving(r, "stop", v)' => Serving(r, "stop", v)
        BY <1>1 DEF Serving
  <1>7. Life(v)'  BY <1>0, <1>1, <1>3, <1>4, <1>5, <1>6 DEF Life
  <1>. QED  BY <1>2, <1>7 DEF LifeInv

\* A step of a handler preserves the life-cycle invariant.
LEMMA ServeLife ==
    ASSUME TypeOK, TypeOK', LifeInv,
           NEW r \in Reqs, NEW v \in VMs, ServeStep(r, v)
    PROVE  LifeInv'
  <1>0. /\ vm[v] \in VmRecord /\ att[v] \in TaskRecord /\ Life(v)
        BY DEF TypeOK, LifeInv
  <1>1. registry' = registry /\ run' = run /\ req[r].vm = v  BY ServeFinishes
  <1>2. run[v] = "done"  BY <1>0, <1>1 DEF Life
  <1>3. CASE \E x \in VmRecord :
               /\ Finish(r, v, x)
               /\ Stop(r, v) \/ vm[v].res \subseteq x.res
               /\ Sane(vm[v]) => Sane(x)
    <2>1. PICK x \in VmRecord : /\ Finish(r, v, x)
                                /\ Stop(r, v) \/ vm[v].res \subseteq x.res
                                /\ Sane(vm[v]) => Sane(x)
          BY <1>3
    <2>2. Release(v, x) /\ req' = [req EXCEPT ![r] = IdleReq]
          BY <2>1 DEF Finish
    <2>3. \A q \in Reqs : req'[q] = req[q] \/ req'[q].vm \notin VMs
          BY <2>2, VMAssumption DEF TypeOK, IdleReq
    <2>4. \A w \in VMs \ {v} : Life(w)'
      <3>0. \A w \in VMs \ {v} : vm'[w] = vm[w]  BY <2>2, ReleaseKeeps
      <3>1. \A w \in VMs \ {v} : /\ vm'[w] = vm[w]
                                 /\ att'[w] = att[w]
                                 /\ w \in cleaned' <=> w \in cleaned
        <4>1. CASE UNCHANGED <<att, cleaned>>  BY <3>0, <4>1
        <4>2. CASE Stop(r, v)
          <5>1. \A w \in VMs \ {v} : att'[w] = att[w]
                BY <4>2 DEF Stop, TypeOK
          <5>2. cleaned' = cleaned \cup {v}  BY <4>2 DEF Stop
          <5>. QED  BY <3>0, <5>1, <5>2
        <4>. QED  BY <4>1, <4>2, ServeFinishes
      <3>. QED  BY <1>1, <2>3, <3>1, LifeFrame DEF LifeInv
    <2>5. Stop(r, v) => v \notin registry  BY <1>0 DEF Life, Stop
    <2>6. Sane(vm[v])  BY <1>0 DEF Life, Sane
    <2>7. vm'[v].status = "Hibernated" => vm'[v].proc = "none"
          BY <2>1, <2>2, <2>6, ReleaseKeeps DEF Sane
    <2>8. v \in registry => "cow" \in vm'[v].res
      <3>1. vm'[v].res = x.res  BY <2>2, ReleaseKeeps
      <3>. QED  BY <1>0, <2>1, <2>5, <3>1 DEF Life
    <2>9. \A q \in Reqs : Serving(q, "stop", v)' => Serving(q, "stop", v)
      <3>1. ASSUME NEW q \in Reqs, Serving(q, "stop", v)'
            PROVE  Serving(q, "stop", v)
        <4>1. req'[q].vm = v  BY <3>1 DEF Serving
        <4>2. req'[q] = req[q]  BY <2>3, <4>1
        <4>. QED  BY <3>1, <4>2 DEF Serving
      <3>. QED  BY <3>1
    <2>10. v \in cleaned' => v \in cleaned \/ Stop(r, v)
           BY ServeFinishes DEF Stop
    <2>11. Life(v)'
           BY <1>0, <1>1, <1>2, <2>5, <2>7, <2>8, <2>9, <2>10
           DEF Life, DiskStages
    <2>. QED  BY <2>4, <2>11 DEF LifeInv
  <1>4. CASE /\ vm' = vm
             /\ Serving(r, "attest", v)
             /\ req' = [req EXCEPT ![r] = [op |-> "attesting", vm |-> v]]
    <2>1. ~Stop(r, v)  BY <1>4 DEF Stop, Serving
    <2>2. att' = att /\ cleaned' = cleaned  BY <2>1, ServeFinishes
    <2>3. \A w \in VMs \ {v} : Life(w)'
      <3>1. \A w \in VMs \ {v}, q \in Reqs : req'[q] = req[q] \/ req'[q].vm # w
            BY <1>4 DEF TypeOK
      <3>. QED  BY <1>1, <1>4, <2>2, <3>1, LifeFrame DEF LifeInv
    <2>4. \A q \in Reqs : Serving(q, "stop", v)' => Serving(q, "stop", v)
          BY <1>4 DEF Serving, TypeOK
    <2>5. Life(v)'  BY <1>0, <1>1, <1>2, <1>4, <2>2, <2>4 DEF Life, DiskStages
    <2>. QED  BY <2>3, <2>5 DEF LifeInv
  <1>. QED  BY <1>3, <1>4, ServeFinishes

\* Calls coming in, the policy switch and spontaneous steps preserve the
\* life-cycle invariant.
LEMMA OtherLife ==
    ASSUME TypeOK, TypeOK', LifeInv,
           \/ SetPolicy
           \/ \E v \in VMs : EnvStep(v)
           \/ \E r \in Reqs, v \in VMs :
                 StopRemove(r, v) \/ \E op \in Ops : Lookup(r, op, v)
    PROVE  LifeInv'
  <1>1. CASE SetPolicy
        BY <1>1, LifeFrame DEF SetPolicy, LifeInv
  <1>2. ASSUME NEW v \in VMs, EnvStep(v)  PROVE LifeInv'
    <2>0. vm[v] \in VmRecord /\ Life(v)  BY DEF TypeOK, LifeInv
    <2>1. UNCHANGED <<registry, run, att, req, cleaned>>
          BY <1>2 DEF EnvStep, GuestRuns, HypervisorExits, VirtiofsdExits
    <2>2. \A w \in VMs \ {v} : vm'[w] = vm[w]
          BY <1>2 DEF EnvStep, GuestRuns, HypervisorExits, VirtiofsdExits, TypeOK
    <2>3. \A w \in VMs \ {v} : Life(w)'
          BY <2>1, <2>2, LifeFrame DEF LifeInv
    <2>4. /\ vm'[v].res = vm[v].res /\ vm'[v].status = vm[v].status
          /\ vm[v].proc = "none" => vm'[v].proc = "none"
      <3>1. CASE GuestRuns(v)
            BY <2>0, <3>1 DEF GuestRuns, TypeOK, VmRecord
      <3>2. CASE HypervisorExits(v)
            BY <2>0, <3>2 DEF HypervisorExits, TypeOK, VmRecord
      <3>3. CASE VirtiofsdExits(v)
            BY <2>0, <3>3 DEF VirtiofsdExits, TypeOK, VmRecord
      <3>. QED  BY <1>2, <3>1, <3>2, <3>3 DEF EnvStep
    <2>5. Life(v)'  BY <2>0, <2>1, <2>4 DEF Life, Serving
    <2>. QED  BY <2>3, <2>5 DEF LifeInv
  <1>3. ASSUME NEW r \in Reqs, NEW v \in VMs, NEW op,
               v \in registry, Begin(r, op, v),
               UNCHANGED <<vm, run, att, cleaned>>,
               registry' = IF op = "stop" THEN registry \ {v} ELSE registry
        PROVE  LifeInv'
    <2>0. Life(v)  BY DEF LifeInv
    <2>1. req' = [req EXCEPT ![r] = [op |-> op, vm |-> v]]  BY <1>3 DEF Begin
    <2>2. \A w \in VMs \ {v} : Life(w)'
      <3>1. \A w \in VMs \ {v}, q \in Reqs : req'[q] = req[q] \/ req'[q].vm # w
            BY <2>1 DEF TypeOK
      <3>. QED  BY <1>3, <3>1, LifeFrame DEF LifeInv
    <2>3. op # "stop" =>
             \A q \in Reqs : Serving(q, "stop", v)' => Serving(q, "stop", v)
          BY <2>1 DEF Serving, TypeOK
    <2>4. Life(v)'
      <3>1. CASE op = "stop"  BY <1>3, <2>0, <3>1 DEF Life, DiskStages
      <3>2. CASE op # "stop"  BY <1>3, <2>0, <2>3, <3>2 DEF Life, DiskStages
      <3>. QED  BY <3>1, <3>2
    <2>. QED  BY <2>2, <2>4 DEF LifeInv
  <1>4. ASSUME NEW r \in Reqs, NEW v \in VMs, StopRemove(r, v)  PROVE LifeInv'
        BY <1>3, <1>4 DEF StopRemove
  <1>5. ASSUME NEW r \in Reqs, NEW v \in VMs, NEW op \in Ops, Lookup(r, op, v)
        PROVE  LifeInv'
        BY <1>3, <1>5 DEF Lookup
  <1>. QED  BY <1>1, <1>2, <1>4, <1>5

\* Every step preserves the life-cycle invariant.
LEMMA LifeInductive == Spec => []LifeInv
  <1>1. Init => LifeInv
    <2>1. ASSUME Init, NEW v \in VMs  PROVE Life(v)
      <3>1. /\ v \notin registry /\ v \notin cleaned /\ run[v] = "none"
            /\ att[v].pc = "none" /\ vm[v].status = "PendingAttestation"
            BY <2>1 DEF Init, NewVm, NoTask, NewTask
      <3>2. \A r \in Reqs : req[r].vm # v
            BY <2>1, VMAssumption DEF Init, IdleReq
      <3>. QED  BY <3>1, <3>2 DEF Life, DiskStages, TaskHolds, Serving
    <2>. QED  BY <2>1 DEF LifeInv
  <1>2. TypeOK /\ TypeOK' /\ LifeInv /\ [Next]_vars => LifeInv'
    <2>. SUFFICES ASSUME TypeOK, TypeOK', LifeInv, [Next]_vars
                  PROVE  LifeInv'
         OBVIOUS
    <2>1. CASE UNCHANGED vars
          BY <2>1, LifeFrame DEF vars, LifeInv
    <2>2. CASE Next
          BY <2>2, RunLife, TaskLife, ServeLife, OtherLife DEF Next
    <2>. QED  BY <2>1, <2>2
  <1>. QED  BY <1>1, <1>2, TypeCorrect, PTL DEF Spec

\* A VM that a handler finds in the map has its disk, whatever stops are
\* under way: no cleanup ever ran, or will run, for a VM of the map.
THEOREM RegisteredVmKeepsItsDisk == Spec => []RegisteredKeepsDisk
  <1>1. TypeOK /\ LifeInv => RegisteredKeepsDisk
        BY DEF LifeInv, Life, RegisteredKeepsDisk, TypeOK
  <1>. QED  BY <1>1, TypeCorrect, LifeInductive, PTL

\* Scale to zero holds of every VM whose status says so: a late resume or
\* attestation result may overwrite the status, never leave a hypervisor
\* running behind the status Hibernated.
THEOREM HibernatedVmHasNoHypervisor == Spec => []HibernatedHasNoHypervisor
  <1>1. LifeInv => HibernatedHasNoHypervisor
        BY DEF LifeInv, Life, HibernatedHasNoHypervisor
  <1>. QED  BY <1>1, LifeInductive, PTL

-----------------------------------------------------------------------------
(* After a stop, and the vTPM an attestation asks.  Both need to know what  *)
(* a step leaves alone: everything about the other VMs.                     *)

\* The step before InsertVm and the steps before it work on one VM only.
LEMMA RunFrame ==
    ASSUME TypeOK, NEW v \in VMs, RunVm(v) \/ RunStep(v)
    PROVE  /\ \A w \in VMs \ {v} : /\ vm'[w] = vm[w] /\ run'[w] = run[w]
                                   /\ att'[w] = att[w]
                                   /\ w \in registry' <=> w \in registry
           /\ req' = req /\ cleaned' = cleaned /\ run[v] # "done"
  <1>1. \A w \in VMs \ {v} : /\ vm'[w] = vm[w] /\ run'[w] = run[w]
                             /\ att'[w] = att[w]
                             /\ w \in registry' <=> w \in registry
        BY DEF RunStep, Run, RunVm, PrepareImage, PrepareStorage, SetupNetwork,
               PrepareAgent, BootVm, BootFails, SpawnAttestation, SaveNewVm,
               InsertVm, Release, TypeOK
  <1>2. req' = req /\ cleaned' = cleaned
        BY DEF RunStep, RunVm, PrepareImage, PrepareStorage, SetupNetwork,
               PrepareAgent, BootVm, BootFails, SpawnAttestation, SaveNewVm,
               InsertVm
  <1>3. run[v] # "done"
        BY DEF RunStep, Run, RunVm, PrepareImage, PrepareStorage, SetupNetwork,
               PrepareAgent, BootVm, BootFails, SpawnAttestation, SaveNewVm,
               InsertVm
  <1>. QED  BY <1>1, <1>2, <1>3

\* A step of an attestation task works on its VM only.
LEMMA TaskFrame ==
    ASSUME TypeOK, NEW v \in VMs, TaskStep(v)
    PROVE  /\ \A w \in VMs \ {v} : /\ vm'[w] = vm[w] /\ att'[w] = att[w]
                                   /\ w \in registry' <=> w \in registry
           /\ req' = req /\ run' = run /\ cleaned' = cleaned
           /\ registry' \subseteq registry
  <1>1. \A w \in VMs \ {v} : /\ vm'[w] = vm[w] /\ att'[w] = att[w]
                             /\ w \in registry' <=> w \in registry
        BY DEF TaskStep, Task, TaskStart, TaskVerify, TaskLookup,
               TaskSetStatus, TaskSave, TaskMarkLookup, TaskMark, TaskRemove,
               TaskKill, TaskCancelled, Release, TypeOK
  <1>2. req' = req /\ run' = run /\ cleaned' = cleaned /\ registry' \subseteq registry
        BY DEF TaskStep, TaskStart, TaskVerify, TaskLookup, TaskSetStatus,
               TaskSave, TaskMarkLookup, TaskMark, TaskRemove, TaskKill, TaskCancelled
  <1>. QED  BY <1>1, <1>2

\* What a task step does to its VM's record: nothing, or a release of a
\* record with at most one more resource, or a new status.
LEMMA TaskReleases ==
    ASSUME TypeOK, NEW v \in VMs, TaskStep(v)
    PROVE  \/ vm' = vm /\ att[v].pc \notin TaskHolds
           \/ /\ att'[v].pc \in TaskHolds
              /\ vm'[v].res = vm[v].res /\ vm'[v].left = vm[v].left
           \/ \E x \in VmRecord : /\ Release(v, x) /\ x.left = vm[v].left
                                  /\ x.res \subseteq vm[v].res \cup {"hib", "dir"}
  <1>0. vm[v] \in VmRecord /\ att[v] \in TaskRecord  BY DEF TypeOK
  <1>1. CASE TaskSetStatus(v)
    <2>1. att'[v] = [att[v] EXCEPT !.pc = "save"]
          BY <1>1 DEF TaskSetStatus, Task, TypeOK
    <2>2. att'[v].pc \in TaskHolds  BY <1>0, <2>1 DEF TaskRecord, TaskHolds
    <2>3. vm'[v].res = vm[v].res /\ vm'[v].left = vm[v].left
          BY <1>0, <1>1 DEF TaskSetStatus, TypeOK, VmRecord
    <2>. QED  BY <2>2, <2>3
  <1>2. CASE TaskSave(v) \/ TaskMark(v) \/ TaskKill(v)
             \/ TaskCancelled(v)
    <2>. DEFINE Keeps(x) == /\ x \in VmRecord /\ x.left = vm[v].left
                            /\ x.res \subseteq vm[v].res \cup {"hib", "dir"}
    <2>1. Keeps([vm[v] EXCEPT !.res = @ \cup {"dir"}])
          BY <1>0 DEF VmRecord, Resources, Removable
    <2>2. Keeps([vm[v] EXCEPT !.attested =
                   IF att[v].goal = "fail" THEN "FAILED" ELSE "VERIFIED"])
          BY <1>0 DEF VmRecord
    <2>3. Keeps(VmmKill(vm[v]))  BY <1>0, VmmKillType DEF VmmKill, VmRecord
    <2>4. Keeps(vm[v])  BY <1>0
    <2>. HIDE DEF Keeps
    <2>5. \E x : Keeps(x) /\ Release(v, x)
          BY <1>2, <2>1, <2>2, <2>3, <2>4 DEF TaskSave, TaskMark, TaskKill, TaskCancelled
    <2>. QED  BY <2>5 DEF Keeps
  <1>3. CASE TaskStart(v) \/ TaskVerify(v) \/ TaskLookup(v) \/ TaskMarkLookup(v)
             \/ TaskRemove(v)
        BY <1>3 DEF TaskStart, TaskVerify, TaskLookup, TaskMarkLookup, TaskRemove,
                    Task, TaskHolds
  <1>. QED  BY <1>1, <1>2, <1>3 DEF TaskStep

\* A step of a handler works on the VM it holds only, and on its own slot.
LEMMA ServeFrame ==
    ASSUME TypeOK, NEW r \in Reqs, NEW v \in VMs, ServeStep(r, v)
    PROVE  /\ \A w \in VMs \ {v} : /\ vm'[w] = vm[w] /\ att'[w] = att[w]
                                   /\ w \in cleaned' <=> w \in cleaned
           /\ registry' = registry /\ run' = run
           /\ \A q \in Reqs \ {r} : req'[q] = req[q]
           /\ req[r].vm = v
           /\ Serving(r, "stop", v) => Stop(r, v)
  <1>1. registry' = registry /\ run' = run /\ req[r].vm = v  BY ServeFinishes
  <1>2. \A w \in VMs \ {v} : att'[w] = att[w] /\ (w \in cleaned' <=> w \in cleaned)
    <2>1. CASE UNCHANGED <<att, cleaned>>  BY <2>1
    <2>2. CASE Stop(r, v)  BY <2>2 DEF Stop, TypeOK
    <2>. QED  BY <2>1, <2>2, ServeFinishes
  <1>3. (\A w \in VMs \ {v} : vm'[w] = vm[w]) /\ \A q \in Reqs \ {r} : req'[q] = req[q]
    <2>1. ASSUME NEW x \in VmRecord, Finish(r, v, x)
          PROVE  (\A w \in VMs \ {v} : vm'[w] = vm[w]) /\ \A q \in Reqs \ {r} : req'[q] = req[q]
      <3>1. Release(v, x) /\ req' = [req EXCEPT ![r] = IdleReq]  BY <2>1 DEF Finish
      <3>2. \A w \in VMs \ {v} : vm'[w] = vm[w]  BY <3>1, ReleaseKeeps
      <3>. QED  BY <3>1, <3>2 DEF TypeOK
    <2>2. CASE vm' = vm /\ req' = [req EXCEPT ![r] = [op |-> "attesting", vm |-> v]]
          BY <2>2 DEF TypeOK
    <2>. QED  BY <2>1, <2>2, ServeFinishes
  <1>4. Serving(r, "stop", v) => Stop(r, v)
    <2>1. Stop(r, v) \/ \E op \in Ops \ {"stop"} : Serving(r, op, v)
          BY DEF ServeStep, Pause, Hibernate, Resume, Snapshot, AttestRead,
                 AttestMark, Monitor, Ops
    <2>2. \A op \in Ops \ {"stop"} : [op |-> op, vm |-> v] # [op |-> "stop", vm |-> v]
      <3>1. \A op : [op |-> op, vm |-> v].op = op  OBVIOUS
      <3>. QED  BY <3>1
    <2>. QED  BY <2>1, <2>2 DEF Serving
  <1>. QED  BY <1>1, <1>2, <1>3, <1>4

\* What a spontaneous step does: the resources and the vTPM stay, a process
\* may go, and none comes.
LEMMA EnvFrame ==
    ASSUME TypeOK, NEW v \in VMs, EnvStep(v)
    PROVE  /\ UNCHANGED <<registry, run, att, req, cleaned>>
           /\ \A w \in VMs \ {v} : vm'[w] = vm[w]
           /\ vm'[v].res = vm[v].res /\ vm'[v].tpm = vm[v].tpm
           /\ vm'[v].sock = vm[v].sock /\ vm'[v].left = vm[v].left
           /\ vm[v].proc = "none" => vm'[v].proc = "none"
           /\ vm[v].fs = "none" => vm'[v].fs = "none"
  <1>0. vm[v] \in VmRecord  BY DEF TypeOK
  <1>1. UNCHANGED <<registry, run, att, req, cleaned>>
        BY DEF EnvStep, GuestRuns, HypervisorExits, VirtiofsdExits
  <1>2. \A w \in VMs \ {v} : vm'[w] = vm[w]
        BY DEF EnvStep, GuestRuns, HypervisorExits, VirtiofsdExits, TypeOK
  <1>3. CASE GuestRuns(v)
        BY <1>0, <1>1, <1>2, <1>3 DEF GuestRuns, TypeOK, VmRecord
  <1>4. CASE HypervisorExits(v)
        BY <1>0, <1>1, <1>2, <1>4 DEF HypervisorExits, TypeOK, VmRecord
  <1>5. CASE VirtiofsdExits(v)
        BY <1>0, <1>1, <1>2, <1>5 DEF VirtiofsdExits, TypeOK, VmRecord
  <1>. QED  BY <1>3, <1>4, <1>5 DEF EnvStep

-----------------------------------------------------------------------------
(* After the cleanup.  Late handlers may still hold the VM and put back a   *)
(* hibernation snapshot, a directory or even a hypervisor: the resources    *)
(* stay within {"hib", "dir"} and what the cleanup failed to remove from    *)
(* the cleanup on, and the processes and the socket go with the last        *)
(* holder.                                                                  *)

\* The inductive invariant, for one VM.
Gone(v) ==
    v \in cleaned =>
        /\ vm[v].res \subseteq {"hib", "dir"} \cup vm[v].left
        /\ ~Held(v) => vm[v].proc = "none" /\ vm[v].fs = "none" /\ ~vm[v].sock

GoneInv == \A v \in VMs : Gone(v)

\* A step that does not touch w, nor who holds it, keeps Gone.
LEMMA GoneFrame ==
    ASSUME NEW w \in VMs, Gone(w), vm'[w] = vm[w],
           w \in cleaned' => w \in cleaned, Held(w) => Held(w)'
    PROVE  Gone(w)'
  BY DEF Gone

\* Giving up a reference to a VM with nothing but these resources keeps Gone.
LEMMA ReleaseGone ==
    ASSUME TypeOK, NEW v \in VMs, NEW x \in VmRecord, Release(v, x),
           v \in cleaned' => x.res \subseteq {"hib", "dir"} \cup x.left
    PROVE  Gone(v)'
  <1>1. vm'[v].res = x.res /\ vm'[v].left = x.left  BY ReleaseKeeps
  <1>2. ~Held(v)' => vm'[v] = DropVm(x)  BY DEF Release, TypeOK
  <1>3. ~Held(v)' => vm'[v].proc = "none" /\ vm'[v].fs = "none" /\ ~vm'[v].sock
        BY <1>2, DropType
  <1>. QED  BY <1>1, <1>3 DEF Gone

\* Every step preserves the invariant.
LEMMA GoneStep ==
    ASSUME TypeOK, LifeInv, GoneInv, [Next]_vars
    PROVE  GoneInv'
  <1>1. ASSUME NEW v \in VMs, RunVm(v) \/ RunStep(v) PROVE GoneInv'
    <2>1. \A w \in VMs \ {v} : Gone(w)'
          BY <1>1, RunFrame, HeldFrame, GoneFrame DEF GoneInv
    <2>2. v \notin cleaned'  BY <1>1, RunFrame DEF LifeInv, Life
    <2>. QED  BY <2>1, <2>2 DEF GoneInv, Gone
  <1>2. ASSUME NEW v \in VMs, TaskStep(v) PROVE GoneInv'
    <2>0. Gone(v) /\ Life(v)  BY DEF GoneInv, LifeInv
    <2>1. \A w \in VMs \ {v} : Gone(w)'
          BY <1>2, TaskFrame, HeldFrame, GoneFrame DEF GoneInv
    <2>2. CASE vm' = vm /\ att[v].pc \notin TaskHolds
      <3>1. cleaned' = cleaned /\ run' = run /\ req' = req  BY <1>2, TaskFrame
      <3>2. v \in cleaned => v \notin registry /\ run[v] \notin RunOwns
            BY <2>0 DEF Life, RunOwns
      <3>3. v \in cleaned => (Held(v) => Held(v)')
            BY <2>2, <3>1, <3>2 DEF Held
      <3>. QED  BY <2>0, <2>1, <2>2, <3>1, <3>3 DEF GoneInv, Gone
    <2>3. CASE /\ att'[v].pc \in TaskHolds
               /\ vm'[v].res = vm[v].res /\ vm'[v].left = vm[v].left
      <3>1. cleaned' = cleaned /\ Held(v)'  BY <1>2, <2>3, TaskFrame DEF Held
      <3>. QED  BY <2>0, <2>1, <2>3, <3>1 DEF GoneInv, Gone
    <2>4. ASSUME NEW x \in VmRecord, Release(v, x), x.left = vm[v].left,
                 x.res \subseteq vm[v].res \cup {"hib", "dir"}
          PROVE  GoneInv'
      <3>1. v \in cleaned' => x.res \subseteq {"hib", "dir"} \cup x.left
            BY <1>2, <2>0, <2>4, TaskFrame DEF Gone
      <3>. QED  BY <2>1, <2>4, <3>1, ReleaseGone DEF GoneInv
    <2>. QED  BY <1>2, <2>2, <2>3, <2>4, TaskReleases
  <1>3. ASSUME NEW r \in Reqs, NEW v \in VMs, ServeStep(r, v) PROVE GoneInv'
    <2>0. Gone(v) /\ vm[v] \in VmRecord  BY DEF GoneInv, TypeOK
    <2>1. \A w \in VMs \ {v} : Gone(w)'
      <3>1. ASSUME NEW w \in VMs \ {v} PROVE Gone(w)'
        <4>1. /\ vm'[w] = vm[w] /\ att'[w] = att[w] /\ (w \in cleaned' <=> w \in cleaned)
              /\ registry' = registry /\ run' = run
              /\ \A q \in Reqs : req[q].vm = w => req'[q].vm = w
              BY <1>3, ServeFrame
        <4>2. Held(w) => Held(w)'  BY <4>1, HeldFrame
        <4>. QED  BY <4>1, <4>2, GoneFrame DEF GoneInv
      <3>. QED  BY <3>1
    <2>2. CASE Stop(r, v)
      <3>1. PICK failed \in SUBSET Removable : Release(v, Cleanup(vm[v], failed))
            BY <2>2, StuckAssumption DEF Stop, Finish
      <3>. DEFINE x == Cleanup(vm[v], failed)
      <3>2. x \in VmRecord /\ x.res \subseteq {"hib", "dir"} \cup x.left
            BY <2>0, CleanupType
      <3>. HIDE DEF x
      <3>3. Release(v, x)  BY <3>1 DEF x
      <3>. QED  BY <2>1, <3>2, <3>3, ReleaseGone DEF GoneInv
    <2>3. CASE ~Stop(r, v)
      <3>1. cleaned' = cleaned  BY <1>3, <2>3, ServeFinishes
      <3>2. ASSUME NEW x \in VmRecord, Finish(r, v, x), x.left = vm[v].left,
                   x.res \subseteq vm[v].res \cup {"hib", "dir"}
            PROVE  GoneInv'
        <4>1. v \in cleaned' => x.res \subseteq {"hib", "dir"} \cup x.left
              BY <2>0, <3>1, <3>2 DEF Gone
        <4>. QED  BY <2>1, <3>2, <4>1, ReleaseGone DEF GoneInv, Finish
      <3>3. CASE vm' = vm /\ req' = [req EXCEPT ![r] = [op |-> "attesting", vm |-> v]]
        <4>1. Held(v)'  BY <3>3 DEF Held, TypeOK
        <4>. QED  BY <2>0, <2>1, <3>1, <3>3, <4>1 DEF GoneInv, Gone
      <3>. QED  BY <1>3, <2>3, <3>2, <3>3, ServeFinishes
    <2>. QED  BY <2>2, <2>3
  <1>4. ASSUME NEW r \in Reqs, NEW v \in VMs,
               StopRemove(r, v) \/ \E op \in Ops : Lookup(r, op, v)
        PROVE  GoneInv'
    <2>1. /\ v \in registry /\ UNCHANGED <<vm, run, att, cleaned>>
          /\ \A w \in VMs \ {v} : w \in registry' <=> w \in registry
          /\ req[r] = IdleReq /\ \E op : req' = [req EXCEPT ![r] = [op |-> op, vm |-> v]]
          BY <1>4 DEF StopRemove, Lookup, Begin
    <2>2. v \notin cleaned'  BY <2>1 DEF LifeInv, Life
    <2>3. \A q \in Reqs : req[q].vm \in VMs => req'[q] = req[q]
          BY <2>1, VMAssumption DEF TypeOK, IdleReq
    <2>4. \A w \in VMs \ {v} : Gone(w)'
          BY <2>1, <2>3, HeldFrame, GoneFrame DEF GoneInv
    <2>. QED  BY <2>2, <2>4 DEF GoneInv, Gone
  <1>5. ASSUME NEW v \in VMs, EnvStep(v) PROVE GoneInv'
    <2>1. \A w \in VMs : Held(w)' <=> Held(w)  BY <1>5, EnvFrame DEF Held
    <2>2. \A w \in VMs \ {v} : Gone(w)'  BY <1>5, <2>1, EnvFrame DEF GoneInv, Gone
    <2>3. Gone(v)'  BY <1>5, <2>1, EnvFrame DEF GoneInv, Gone
    <2>. QED  BY <2>2, <2>3 DEF GoneInv
  <1>6. CASE SetPolicy \/ UNCHANGED vars
    <2>1. UNCHANGED <<registry, vm, run, att, req, cleaned>>  BY <1>6 DEF SetPolicy, vars
    <2>. QED  BY <2>1 DEF GoneInv, Gone, Held
  <1>. QED  BY <1>1, <1>2, <1>3, <1>4, <1>5, <1>6 DEF Next

\* Once cleanup ran and nobody holds the VM any more, no process of it is
\* left and nothing else on the host but a hibernation snapshot, a directory
\* and what cleanup tried to remove and could not, whichever late handlers
\* (a resume that started a hypervisor, a snapshot, a hibernation, the
\* monitor, the attestation task) finished after the stop.
THEOREM StopReleasesEverything == Spec => []StoppedReleasesAll
  <1>1. Init => GoneInv  BY DEF Init, GoneInv, Gone
  <1>2. TypeOK /\ LifeInv /\ GoneInv /\ [Next]_vars => GoneInv'  BY GoneStep
  <1>3. TypeOK /\ GoneInv => StoppedReleasesAll
        BY DEF GoneInv, Gone, StoppedReleasesAll, TypeOK
  <1>. QED  BY <1>1, <1>2, <1>3, TypeCorrect, LifeInductive, PTL DEF Spec

-----------------------------------------------------------------------------
(* The vTPM of an attestation in progress.  The task may ask for a quote    *)
(* long after run_vm spawned it.  As long as run_vm or the map keeps the    *)
(* instance, the vTPM is up; so a task that asked in vain asked for a VM    *)
(* that was in the map no more, and would never be again.                   *)

\* The task is about to ask, or is asking, the vTPM.
Asks(v) == att[v].pc = "verify" \/ (att[v].pc = "start" /\ att[v].tpm)

\* Who keeps the vTPM up while the task asks: run_vm or the map.
Kept(v) == v \in registry \/ run[v] \in RunOwns

\* The inductive invariant, for one VM.
Quote(v) ==
    /\ Asks(v) /\ Kept(v) => vm[v].tpm = "up"
    /\ att[v].pc # "none" => run[v] \in {"save", "insert", "done", "failed"}
    /\ run[v] = "spawn" => vm[v].tpm # "stopped"
    /\ att[v].late => ~Kept(v) /\ att[v].pc \notin TaskHolds \cup {"none"}

QuoteInv == \A v \in VMs : Quote(v)

\* A step that does not touch w, nor makes anybody keep it, keeps Quote.
LEMMA QuoteFrame ==
    ASSUME NEW w \in VMs, Quote(w),
           vm'[w].tpm = vm[w].tpm, run'[w] = run[w], att'[w] = att[w],
           w \in registry' => w \in registry
    PROVE  Quote(w)'
  BY DEF Quote, Asks, Kept

\* A VM that is kept is held, so that no release drops it.
LEMMA KeptIsHeld ==
    ASSUME NEW v \in VMs, Kept(v)' PROVE Held(v)'
  BY DEF Kept, Held

\* The steps of run_vm: the task is spawned with the vTPM up, before the VM
\* is in the map, and run_vm keeps the instance until it is.
LEMMA RunQuote ==
    ASSUME TypeOK, LifeInv, QuoteInv, NEW v \in VMs, RunVm(v) \/ RunStep(v)
    PROVE  QuoteInv'
  <1>0. /\ Quote(v) /\ vm[v] \in VmRecord /\ att[v] \in TaskRecord
        /\ run[v] \in RunStages
        BY DEF QuoteInv, TypeOK
  <1>1. \A w \in VMs \ {v} : Quote(w)'
    <2>1. ASSUME NEW w \in VMs \ {v} PROVE Quote(w)'
      <3>1. /\ vm'[w] = vm[w] /\ run'[w] = run[w] /\ att'[w] = att[w]
            /\ w \in registry' => w \in registry
            BY RunFrame
      <3>. QED  BY <3>1, QuoteFrame DEF QuoteInv
    <2>. QED  BY <2>1
  <1>2. CASE RunVm(v) \/ PrepareImage(v) \/ PrepareStorage(v) \/ SetupNetwork(v)
             \/ PrepareAgent(v) \/ BootFails(v)
    <2>1. att' = att /\ run'[v] # "spawn"
          /\ run[v] \notin {"save", "insert", "done", "failed"}
          BY <1>2 DEF RunVm, PrepareImage, PrepareStorage, SetupNetwork,
                      PrepareAgent, BootFails, Run, TypeOK
    <2>2. att'[v].pc = "none" /\ ~att'[v].late  BY <1>0, <2>1 DEF Quote
    <2>3. Quote(v)'  BY <2>1, <2>2 DEF Quote, Asks
    <2>. QED  BY <1>1, <2>3 DEF QuoteInv
  <1>3. CASE BootVm(v)
    <2>1. att' = att /\ run[v] = "boot"  BY <1>3 DEF BootVm, Run
    <2>2. att'[v].pc = "none" /\ ~att'[v].late  BY <1>0, <2>1 DEF Quote
    <2>3. PICK tpm \in {"up", "none"}, fs \in {"none", "up"} :
             vm' = [vm EXCEPT ![v] = Booted(vm[v], tpm, fs)]
          BY <1>3 DEF BootVm
    <2>4. vm'[v] = Booted(vm[v], tpm, fs)  BY <2>3 DEF TypeOK
    <2>5. vm'[v].tpm = tpm  BY <1>0, <2>4 DEF Booted, VmRecord
    <2>6. Quote(v)'  BY <2>2, <2>5 DEF Quote, Asks
    <2>. QED  BY <1>1, <2>6 DEF QuoteInv
  <1>4. CASE SpawnAttestation(v)
    <2>1. run[v] = "spawn" /\ run'[v] = "save" /\ vm[v].tpm # "stopped"
          BY <1>0, <1>4 DEF SpawnAttestation, Run, TypeOK, Quote
    <2>3. CASE policy
      <3>1. /\ att' = [att EXCEPT ![v] = NewTask("start", vm[v].tpm # "none")]
            /\ vm' = [vm EXCEPT ![v].status = "PendingAttestation"]
            BY <1>4, <2>3 DEF SpawnAttestation
      <3>2. /\ att'[v].pc = "start" /\ att'[v].tpm = (vm[v].tpm # "none")
            /\ ~att'[v].late
            BY <3>1 DEF TypeOK, NewTask
      <3>3. vm'[v].tpm = vm[v].tpm  BY <1>0, <3>1 DEF TypeOK, VmRecord
      <3>4. vm[v].tpm \in {"none", "up", "stopped"}  BY <1>0 DEF VmRecord
      <3>5. Quote(v)'  BY <2>1, <3>2, <3>3, <3>4 DEF Quote, Asks
      <3>. QED  BY <1>1, <3>5 DEF QuoteInv
    <2>4. CASE ~policy
      <3>1. att' = att  BY <1>4, <2>4 DEF SpawnAttestation
      <3>2. att'[v].pc = "none" /\ ~att'[v].late  BY <1>0, <2>1, <3>1 DEF Quote
      <3>3. Quote(v)'  BY <2>1, <3>2 DEF Quote, Asks
      <3>. QED  BY <1>1, <3>3 DEF QuoteInv
    <2>. QED  BY <2>3, <2>4
  <1>5. CASE SaveNewVm(v)
    <2>1. /\ att' = att /\ run[v] = "save" /\ run'[v] \in {"insert", "failed"}
          /\ run'[v] = "insert" => vm' = vm
          /\ registry' = registry
          BY <1>5 DEF SaveNewVm, Run, TypeOK
    <2>2. v \notin registry  BY <2>1 DEF LifeInv, Life
    <2>3. Kept(v) /\ (Kept(v)' => run'[v] = "insert")
          BY <2>1, <2>2 DEF Kept, RunOwns
    <2>4. Quote(v)'  BY <1>0, <2>1, <2>3 DEF Quote, Asks
    <2>. QED  BY <1>1, <2>4 DEF QuoteInv
  <1>6. CASE InsertVm(v)
    <2>1. att' = att /\ vm' = vm /\ run[v] = "insert" /\ run'[v] = "done"
          BY <1>6 DEF InsertVm, Run, TypeOK
    <2>2. Kept(v)  BY <2>1 DEF Kept, RunOwns
    <2>3. Quote(v)'  BY <1>0, <2>1, <2>2 DEF Quote, Asks
    <2>. QED  BY <1>1, <2>3 DEF QuoteInv
  <1>. QED  BY <1>2, <1>3, <1>4, <1>5, <1>6 DEF RunStep

\* The task's own steps: it comes to ask only from its start, what it asks of
\* a VM that is kept is answered, and after a question in vain it finds the
\* VM nowhere.
LEMMA TaskQuote ==
    ASSUME TypeOK, QuoteInv, NEW v \in VMs, TaskStep(v)
    PROVE  QuoteInv'
  <1>0. Quote(v) /\ att[v] \in TaskRecord  BY DEF QuoteInv, TypeOK
  <1>1. \A w \in VMs \ {v} : Quote(w)'
    <2>1. ASSUME NEW w \in VMs \ {v} PROVE Quote(w)'
      <3>1. /\ vm'[w] = vm[w] /\ run' = run /\ att'[w] = att[w]
            /\ w \in registry' => w \in registry
            BY TaskFrame
      <3>. QED  BY <3>1, QuoteFrame DEF QuoteInv
    <2>. QED  BY <2>1
  <1>2. /\ att[v].pc # "none" /\ run' = run
        /\ Kept(v)' => Kept(v)
        /\ v \in registry' => v \in registry
    <2>1. att[v].pc # "none"
          BY DEF TaskStep, TaskStart, TaskVerify, TaskLookup, TaskSetStatus,
                 TaskSave, TaskMarkLookup, TaskMark, TaskRemove, TaskKill,
                 TaskCancelled, Task
    <2>. QED  BY <2>1, TaskFrame DEF Kept
  <1>3. run'[v] \in {"save", "insert", "done", "failed"}  BY <1>0, <1>2 DEF Quote
  <1>4. CASE TaskStart(v)
    <2>1. vm' = vm /\ att[v].pc = "start"  BY <1>4 DEF TaskStart
    <2>2. PICK t \in {[att[v] EXCEPT !.pc = "lookup", !.goal = "skip"],
                     [att[v] EXCEPT !.pc = "lookup", !.goal = "fail"],
                     [att[v] EXCEPT !.pc = "verify"]} :
             /\ att' = [att EXCEPT ![v] = t]
             /\ t = [att[v] EXCEPT !.pc = "verify"] => att[v].tpm
      <3>1. CASE policy /\ att[v].tpm  BY <1>4, <3>1 DEF TaskStart
      <3>2. CASE ~policy
        <4>1. att' = [att EXCEPT ![v] = [att[v] EXCEPT !.pc = "lookup", !.goal = "skip"]]
              BY <1>4, <3>2 DEF TaskStart
        <4>2. [att[v] EXCEPT !.pc = "lookup", !.goal = "skip"].pc = "lookup"
              /\ [att[v] EXCEPT !.pc = "verify"].pc = "verify"
              BY <1>0 DEF TaskRecord
        <4>. QED  BY <4>1, <4>2
      <3>3. CASE policy /\ ~att[v].tpm
        <4>1. att' = [att EXCEPT ![v] = [att[v] EXCEPT !.pc = "lookup", !.goal = "fail"]]
              BY <1>4, <3>3 DEF TaskStart
        <4>2. [att[v] EXCEPT !.pc = "lookup", !.goal = "fail"].pc = "lookup"
              /\ [att[v] EXCEPT !.pc = "verify"].pc = "verify"
              BY <1>0 DEF TaskRecord
        <4>. QED  BY <4>1, <4>2
      <3>. QED  BY <3>1, <3>2, <3>3
    <2>3. /\ t.late = att[v].late /\ t.pc \in {"lookup", "verify"}
          /\ t.pc = "verify" => att[v].tpm
          BY <1>0, <2>2 DEF TaskRecord
    <2>4. att'[v] = t  BY <2>2 DEF TypeOK
    <2>5. Asks(v)' => Asks(v)  BY <2>1, <2>3, <2>4 DEF Asks
    <2>6. Quote(v)'
          BY <1>0, <1>2, <1>3, <2>1, <2>3, <2>4, <2>5 DEF Quote, TaskHolds
    <2>. QED  BY <1>1, <2>6 DEF QuoteInv
  <1>5. CASE TaskVerify(v)
    <2>1. att[v].pc = "verify" /\ vm' = vm  BY <1>5 DEF TaskVerify
    <2>2. PICK goal : att' = [att EXCEPT ![v] =
                        [att[v] EXCEPT !.pc = "lookup", !.goal = goal,
                                       !.late = ~QuoteGiven(v)]]
          BY <1>5 DEF TaskVerify
    <2>3. att'[v] = [att[v] EXCEPT !.pc = "lookup", !.goal = goal,
                                   !.late = ~QuoteGiven(v)]
          BY <2>2 DEF TypeOK
    <2>4. att'[v].pc = "lookup" /\ att'[v].late = ~QuoteGiven(v)
          BY <1>0, <2>3 DEF TaskRecord
    <2>5. Kept(v) => QuoteGiven(v)
          BY <1>0, <2>1 DEF Quote, Asks, QuoteGiven
    <2>6. run[v] # "spawn"  BY <1>2, <1>3
    <2>7. Quote(v)'
          BY <1>2, <1>3, <2>4, <2>5, <2>6 DEF Quote, Asks, TaskHolds
    <2>. QED  BY <1>1, <2>7 DEF QuoteInv
  <1>6. CASE ~TaskStart(v) /\ ~TaskVerify(v)
    <2>. DEFINE Moves(to) ==
                   /\ att' = [att EXCEPT ![v].pc = to]
                   /\ to \notin {"start", "verify", "none"}
                   /\ att[v].pc \notin TaskHolds /\ v \notin registry
                         => to \notin TaskHolds
    <2>1. PICK to : Moves(to)
      <3>1. CASE TaskLookup(v)
        <4>1. Moves(IF v \in registry THEN "set"
                    ELSE IF att[v].goal = "fail" THEN "mlookup" ELSE "done")
              BY <3>1 DEF TaskLookup, Task, TaskHolds
        <4>. QED  BY <4>1
      <3>2. CASE TaskSetStatus(v)
        <4>1. Moves("save")  BY <3>2 DEF TaskSetStatus, Task, TaskHolds
        <4>. QED  BY <4>1
      <3>3. CASE TaskSave(v)
        <4>1. Moves("done") \/ Moves("mlookup")
              BY <3>3 DEF TaskSave, Task, TaskHolds
        <4>. QED  BY <4>1
      <3>4. CASE TaskMarkLookup(v)
        <4>1. Moves(IF v \in registry THEN "mark"
                    ELSE IF att[v].goal = "fail" THEN "remove" ELSE "done")
              BY <3>4 DEF TaskMarkLookup, Task, TaskHolds
        <4>. QED  BY <4>1
      <3>5. CASE TaskMark(v)
        <4>1. Moves("done") \/ Moves("remove")
              BY <3>5 DEF TaskMark, Task, TaskHolds
        <4>. QED  BY <4>1
      <3>6. CASE TaskRemove(v)
        <4>1. Moves(IF v \in registry THEN "kill" ELSE "done")
              BY <3>6 DEF TaskRemove, Task, TaskHolds
        <4>. QED  BY <4>1
      <3>7. CASE TaskKill(v)
        <4>1. Moves("done")  BY <3>7 DEF TaskKill, Task, TaskHolds
        <4>. QED  BY <4>1
      <3>8. CASE TaskCancelled(v)
        <4>1. Moves("aborted")  BY <3>8 DEF TaskCancelled, TaskHolds
        <4>. QED  BY <4>1
      <3>. HIDE DEF Moves
      <3>. QED  BY <1>6, <3>1, <3>2, <3>3, <3>4, <3>5, <3>6, <3>7, <3>8
                DEF TaskStep
    <2>2. att'[v] = [att[v] EXCEPT !.pc = to]  BY <2>1 DEF TypeOK
    <2>3. att'[v].pc = to /\ att'[v].late = att[v].late
          BY <1>0, <2>2 DEF TaskRecord
    <2>4. ~Asks(v)'  BY <2>1, <2>3 DEF Asks
    <2>5. att[v].late => v \notin registry /\ att[v].pc \notin TaskHolds
          BY <1>0 DEF Quote, Kept
    <2>6. att'[v].late => ~Kept(v)' /\ to \notin TaskHolds \cup {"none"}
          BY <1>0, <1>2, <2>1, <2>3, <2>5 DEF Quote
    <2>7. Quote(v)'  BY <1>3, <2>3, <2>4, <2>6 DEF Quote
    <2>. QED  BY <1>1, <2>7 DEF QuoteInv
  <1>. QED  BY <1>4, <1>5, <1>6

\* The handlers: the stop stops the vTPM of a VM that is kept no more; no
\* other touches it, and the instance is not dropped while it is kept.
LEMMA ServeQuote ==
    ASSUME TypeOK, LifeInv, QuoteInv, NEW r \in Reqs, NEW v \in VMs, ServeStep(r, v)
    PROVE  QuoteInv'
  <1>0. Quote(v) /\ vm[v] \in VmRecord /\ att[v] \in TaskRecord  BY DEF QuoteInv, TypeOK
  <1>1. \A w \in VMs \ {v} : Quote(w)'
    <2>1. ASSUME NEW w \in VMs \ {v} PROVE Quote(w)'
      <3>1. /\ vm'[w] = vm[w] /\ run' = run /\ att'[w] = att[w] /\ registry' = registry
            BY ServeFrame
      <3>. QED  BY <3>1, QuoteFrame DEF QuoteInv
    <2>. QED  BY <2>1
  <1>2. registry' = registry /\ run' = run /\ run[v] = "done"
        BY ServeFrame DEF LifeInv, Life
  <1>3. CASE Stop(r, v)
    <2>1. att'[v] = Abort(att[v])  BY <1>3 DEF Stop, TypeOK
    <2>2. att'[v].pc = att[v].pc /\ att'[v].late = att[v].late
          BY <1>0, <2>1 DEF Abort, TaskRecord
    <2>3. v \notin registry  BY <1>3 DEF LifeInv, Life, Stop
    <2>4. ~Kept(v)'  BY <1>2, <2>3 DEF Kept, RunOwns
    <2>5. Quote(v)'  BY <1>0, <1>2, <2>2, <2>4 DEF Quote
    <2>. QED  BY <1>1, <2>5 DEF QuoteInv
  <1>4. CASE ~Stop(r, v)
    <2>1. att' = att  BY <1>4, ServeFinishes
    <2>2. Kept(v)' <=> Kept(v)  BY <1>2 DEF Kept
    <2>3. ASSUME NEW x \in VmRecord, Finish(r, v, x), x.tpm = vm[v].tpm
          PROVE  Quote(v)'
      <3>1. Held(v)' => vm'[v] = x  BY <2>3 DEF Finish, Release, TypeOK
      <3>2. Kept(v)' => vm'[v].tpm = vm[v].tpm  BY <2>3, <3>1, KeptIsHeld
      <3>. QED  BY <1>0, <1>2, <2>1, <2>2, <3>2 DEF Quote, Asks
    <2>4. ASSUME vm' = vm PROVE Quote(v)'
          BY <1>0, <1>2, <2>1, <2>4, QuoteFrame
    <2>5. Quote(v)'  BY <1>4, <2>3, <2>4, ServeFinishes
    <2>. QED  BY <1>1, <2>5 DEF QuoteInv
  <1>. QED  BY <1>3, <1>4

\* Every step preserves the invariant.
LEMMA QuoteStep ==
    ASSUME TypeOK, LifeInv, QuoteInv, [Next]_vars
    PROVE  QuoteInv'
  <1>1. ASSUME NEW r \in Reqs, NEW v \in VMs,
               StopRemove(r, v) \/ \E op \in Ops : Lookup(r, op, v)
        PROVE  QuoteInv'
    <2>1. UNCHANGED <<vm, run, att>> /\ registry' \subseteq registry
          BY <1>1 DEF StopRemove, Lookup
    <2>. QED  BY <2>1, QuoteFrame DEF QuoteInv
  <1>2. ASSUME NEW v \in VMs, EnvStep(v) PROVE QuoteInv'
    <2>1. UNCHANGED <<registry, run, att, req>> /\ \A w \in VMs : vm'[w].tpm = vm[w].tpm
          BY <1>2, EnvFrame
    <2>. QED  BY <2>1, QuoteFrame DEF QuoteInv
  <1>3. CASE SetPolicy \/ UNCHANGED vars
    <2>1. UNCHANGED <<registry, vm, run, att, req>>  BY <1>3 DEF SetPolicy, vars
    <2>. QED  BY <2>1, QuoteFrame DEF QuoteInv
  <1>. QED  BY <1>1, <1>2, <1>3, RunQuote, TaskQuote, ServeQuote DEF Next

\* A quote that came too late is harmless: in every interleaving of the task
\* with stops, resumes, hibernations, policy switches and a failing run_vm, a
\* task that asked a vTPM which had been stopped under it finds its VM in the
\* map no more, and its failure verdict changes nothing.
THEOREM LateQuoteIsHarmless == Spec => []LateQuoteTouchesNothing
  <1>1. Init => QuoteInv
    <2>1. ASSUME Init, NEW v \in VMs PROVE Quote(v)
      <3>1. att[v].pc = "none" /\ run[v] = "none" /\ ~att[v].late
            BY <2>1 DEF Init, NoTask, NewTask
      <3>. QED  BY <3>1 DEF Quote, Asks
    <2>. QED  BY <2>1 DEF QuoteInv
  <1>2. TypeOK /\ LifeInv /\ QuoteInv /\ [Next]_vars => QuoteInv'  BY QuoteStep
  <1>3. QuoteInv => LateQuoteTouchesNothing
        BY DEF QuoteInv, Quote, Kept, LateQuoteTouchesNothing
  <1>. QED  BY <1>1, <1>2, <1>3, TypeCorrect, LifeInductive, PTL DEF Spec

=============================================================================
