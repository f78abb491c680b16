------------------------------ MODULE VmService ------------------------------
(***************************************************************************)
(* The life of the microVMs of one vyomad daemon: creation (run_vm), the   *)
(* background attestation task, the API handlers that stop, pause,         *)
(* hibernate, resume, snapshot and attest a VM, the process monitor, and   *)
(* the measured-boot policy switch (crates/vyomad/src/vm_service,          *)
(* crates/vyomad/src/state.rs, crates/vyomad/src/api/handlers.rs).         *)
(*                                                                         *)
(* AppState.vms maps a VM id to an Arc<Mutex<VmInstance>>.  A handler      *)
(* looks the Arc up (or removes it) under the lock of the map, releases    *)
(* that lock, and only then takes the lock of the VM: two steps, between   *)
(* which every other actor may run.  What it does under the VM's lock is   *)
(* one step.  The instance is dropped, and with it the child processes it  *)
(* owns are killed, when the last Arc goes away: by the step that gives    *)
(* up the last reference.                                                  *)
(***************************************************************************)
EXTENDS Naturals, FiniteSets

CONSTANTS
    VMs,            \* ids of the VMs that are ever created (fresh UUIDs)
    NoVM,           \* the target of an idle handler
    Reqs,           \* handler slots: how many API calls overlap
    MaxMem,         \* bound on the versions of a guest's memory
    Faults,         \* which external calls may fail (see FaultNames)
    Stuck,          \* the resources whose removal by cleanup may fail
    DataDirIsHome   \* is --data-dir the home directory cleanup looks in?

FaultNames == {"image", "qcow2", "dm", "tap", "agent", "cgroup", "boot",
               "vtpm", "save", "api", "hibdir", "snapshot", "spawn", "restore",
               "virtiofsd", "crash"}

Disk      == {"cow", "loops", "dm"}
Removable == Disk \cup {"dir", "tap", "cgroup"}
Resources == Removable \cup {"proxies", "hib"}

ASSUME VMAssumption    == NoVM \notin VMs
ASSUME MemAssumption   == MaxMem \in Nat \ {0}
ASSUME FaultAssumption == Faults \subseteq FaultNames
ASSUME StuckAssumption == Stuck \subseteq Removable
ASSUME DirAssumption   == DataDirIsHome \in BOOLEAN

VARIABLES
    policy,     \* must_verify_on_boot(): measured boot enabled and required
    registry,   \* the keys of AppState.vms
    vm,         \* vm[v]: the VmInstance and what it left on the host
    run,        \* run[v]: how far run_vm got with v
    att,        \* att[v]: the attestation task run_vm spawned for v
    req,        \* req[r]: the call handler r serves, once it has the Arc
    cleaned     \* history: the VMs VmInstance::cleanup ran for

vars == <<policy, registry, vm, run, att, req, cleaned>>

-----------------------------------------------------------------------------
(* What one VM is: a record.  proc is VmmManager.process (the handle stays  *)
(* Some when the child died by itself), sock the API socket file, guest the *)
(* state of the guest inside Cloud Hypervisor, mem the version of the       *)
(* guest's memory (kept after the guest is gone: the last one it had),      *)
(* snap the version in the hibernation snapshot (0: none), tpm and fs the   *)
(* vTPM and the virtiofsd manager, res the host resources that exist, left  *)
(* (history) those cleanup could not remove.                                *)

\* No code path of the daemon assigns Error.
VmStatus == {"PendingAttestation", "Running", "AttestationFailed", "Error",
             "Paused", "Hibernated"}

VmRecord == [status : VmStatus, attested : {"none", "VERIFIED", "FAILED"},
             proc : {"none", "live", "exited"}, sock : BOOLEAN,
             guest : {"off", "running", "paused"},
             mem : 0..MaxMem, snap : 0..MaxMem,
             tpm : {"none", "up", "stopped"}, fs : {"none", "up", "exited"},
             res : SUBSET Resources, left : SUBSET Removable]

NewVm == [status |-> "PendingAttestation", attested |-> "none",
          proc |-> "none", sock |-> FALSE, guest |-> "off",
          mem |-> 0, snap |-> 0, tpm |-> "none", fs |-> "none", res |-> {},
          left |-> {}]

Ops == {"stop", "pause", "hibernate", "resume", "snapshot", "attest",
        "attesting", "monitor"}

IdleReq    == [op |-> "none", vm |-> NoVM]
ReqRecord  == [op : Ops, vm : VMs] \cup {IdleReq}

\* run_vm owns the managers from the boot to the insertion into the map.
RunOwns   == {"spawn", "save", "insert"}
RunStages == {"none", "image", "storage", "network", "agent", "boot",
              "done", "failed"} \cup RunOwns

\* The attestation task holds an Arc in the steps that follow a lookup.
TaskHolds  == {"set", "save", "mark", "kill"}
TaskStages == {"none", "start", "verify", "lookup", "mlookup", "remove",
               "done", "aborted"} \cup TaskHolds

\* tpm: it was given a vTPM socket; dying: it was marked by abort(); late
\* (history): it asked for a quote when the vTPM had been stopped.
TaskRecord == [pc : TaskStages, tpm : BOOLEAN, dying : BOOLEAN, late : BOOLEAN,
               goal : {"none", "skip", "ok", "fail"}]

NewTask(pc, tpm) ==
    [pc |-> pc, goal |-> "none", tpm |-> tpm, dying |-> FALSE, late |-> FALSE]

NoTask == NewTask("none", FALSE)

\* Somebody holds the instance: the map, run_vm, the task or a handler.
Held(v) == \/ v \in registry
           \/ run[v] \in RunOwns
           \/ att[v].pc \in TaskHolds
           \/ \E r \in Reqs : req[r].vm = v

-----------------------------------------------------------------------------
(* Operations of the managers, as functions of the VM's record.             *)

\* Faulty variant of VmmKill: the socket is unlinked, the child never reaped.
VmmKill_KeepChild(x) == [x EXCEPT !.sock = FALSE]

\* VmmManager::kill: reap the child; unlink the socket whoever made it.
VmmKill(x) == [x EXCEPT !.proc = "none", !.guest = "off", !.sock = FALSE]

\* VtpmManager::stop keeps the manager, without a process.
VtpmStop(x) == [x EXCEPT !.tpm = IF @ = "none" THEN "none" ELSE "stopped"]

\* Faulty variant of DropVm: managers without a Drop implementation.
DropVm_NoDrop(x) == x

\* Dropping the instance runs the Drop of the three kinds of managers; the
\* join handles of proxies and of the attestation task are only detached.
DropVm(x) == [VtpmStop(VmmKill(x)) EXCEPT !.fs = "none"]

\* What VmInstance::cleanup removes: the directory is the one under $HOME.
ToRemove == Disk \cup {"tap", "cgroup", "proxies"}
                 \cup (IF DataDirIsHome THEN {"dir"} ELSE {})

\* Faulty variant of Cleanup: the proxy tasks are not aborted.
Cleanup_KeepProxies(x, failed) ==
    [DropVm(x) EXCEPT !.res = @ \ (ToRemove \ (failed \cup {"proxies"})),
                      !.left = failed]

\* VmInstance::cleanup: a removal that fails is logged and the next is tried.
Cleanup(x, failed) ==
    [DropVm(x) EXCEPT !.res = @ \ (ToRemove \ failed), !.left = failed]

\* VmmManager::api_request reaches the process only through the socket file.
Reachable(x) == x.proc = "live" /\ x.sock

\* The outcomes of a call to the hypervisor that moves the guest from one
\* state to another: the call may fail and leave the guest alone.
GuestCall(x, from, to) ==
    IF Reachable(x) /\ x.guest = from
    THEN {[x EXCEPT !.guest = to]} \cup (IF "api" \in Faults THEN {x} ELSE {})
    ELSE {x}

-----------------------------------------------------------------------------
Init == /\ policy \in BOOLEAN
        /\ registry = {}
        /\ vm = [v \in VMs |-> NewVm]
        /\ run = [v \in VMs |-> "none"]
        /\ att = [v \in VMs |-> NoTask]
        /\ req = [r \in Reqs |-> IdleReq]
        /\ cleaned = {}

\* Give v the record x; if the step gave up the last Arc, v is dropped.
Release(v, x) == vm' = [vm EXCEPT ![v] = IF Held(v)' THEN x ELSE DropVm(x)]

Run(v, from, to) == run[v] = from /\ run' = [run EXCEPT ![v] = to]

-----------------------------------------------------------------------------
(* run_vm                                                                   *)

\* The new VM's directory.
RunVm(v) ==
    /\ Run(v, "none", "image")
    /\ vm' = [vm EXCEPT ![v].res = @ \cup {"dir"}]
    /\ UNCHANGED <<policy, registry, att, req, cleaned>>

PrepareImage(v) ==
    /\ \/ Run(v, "image", "storage")
       \/ "image" \in Faults /\ Run(v, "image", "failed")
    /\ UNCHANGED <<policy, registry, vm, att, req, cleaned>>

\* QCOW2 first; on failure Device Mapper, which may fail half way, and then
\* nobody knows of the file and the loop devices it had made.
PrepareStorage(v) ==
    /\ \/ /\ Run(v, "storage", "network")
          /\ \/ vm' = [vm EXCEPT ![v].res = @ \cup {"cow"}]
             \/ "qcow2" \in Faults /\ vm' = [vm EXCEPT ![v].res = @ \cup Disk]
       \/ /\ {"qcow2", "dm"} \subseteq Faults
          /\ Run(v, "storage", "failed")
          /\ \E left \in {{}, {"cow"}, {"cow", "loops"}} :
                vm' = [vm EXCEPT ![v].res = @ \cup left]
    /\ UNCHANGED <<policy, registry, att, req, cleaned>>

\* A rootless daemon, or one whose `ip tuntap` fails, goes on without a TAP.
SetupNetwork(v) ==
    /\ Run(v, "network", "agent")
    /\ \E tap \in {{"tap"}} \cup (IF "tap" \in Faults THEN {{}} ELSE {}) :
          vm' = [vm EXCEPT ![v].res = @ \cup tap]
    /\ UNCHANGED <<policy, registry, att, req, cleaned>>

\* prepare_agent returns early with `?`: no cleanup_on_failure on that path.
\* setup_cgroups never fails: without a cgroup the VM runs unlimited.
PrepareAgent(v) ==
    /\ \/ /\ Run(v, "agent", "boot")
          /\ \E cg \in {{"cgroup"}} \cup (IF "cgroup" \in Faults THEN {{}} ELSE {}) :
                vm' = [vm EXCEPT ![v].res = @ \cup cg]
       \/ /\ "agent" \in Faults
          /\ Run(v, "agent", "failed")
          /\ UNCHANGED vm
    /\ UNCHANGED <<policy, registry, att, req, cleaned>>

\* The hypervisor with a guest in it, its virtiofsd and the port proxies.
Booted(x, tpm, fs) ==
    [x EXCEPT !.proc = "live", !.sock = TRUE, !.guest = "running", !.mem = 1,
              !.tpm = tpm, !.fs = fs, !.res = @ \cup {"proxies"}]

\* boot::start_vm.  A vTPM that does not start is tolerated.  The request
\* publishes ports; whether it mounts volumes (virtiofsd) is its choice.
BootVm(v) ==
    /\ Run(v, "boot", "spawn")
    /\ \E tpm \in (IF policy THEN {"up"} ELSE {"none"})
                    \cup (IF "vtpm" \in Faults THEN {"none"} ELSE {}),
          fs \in {"none", "up"} :
          vm' = [vm EXCEPT ![v] = Booted(vm[v], tpm, fs)]
    /\ UNCHANGED <<policy, registry, att, req, cleaned>>

\* A failed boot drops the local managers; cleanup_on_failure releases the
\* storage only: the TAP is removed with a namespace, which there never is.
BootFails(v) ==
    /\ "boot" \in Faults
    /\ Run(v, "boot", "failed")
    /\ vm' = [vm EXCEPT ![v].res = @ \ Disk]
    /\ UNCHANGED <<policy, registry, att, req, cleaned>>

\* The policy is read again here, after the boot used it.  The task runs
\* from now on, before the VM is in the map.
SpawnAttestation(v) ==
    /\ Run(v, "spawn", "save")
    /\ IF policy
       THEN /\ att' = [att EXCEPT ![v] = NewTask("start", vm[v].tpm # "none")]
            /\ vm' = [vm EXCEPT ![v].status = "PendingAttestation"]
       ELSE /\ vm' = [vm EXCEPT ![v] =
                        [VtpmStop(@) EXCEPT !.status = "Running"]]
            /\ UNCHANGED att
    /\ UNCHANGED <<policy, registry, req, cleaned>>

\* save_state fails with `?`: the instance is dropped, the task goes on.
SaveNewVm(v) ==
    /\ UNCHANGED <<policy, registry, att, req, cleaned>>
    /\ \/ Run(v, "save", "insert") /\ UNCHANGED vm
       \/ /\ "save" \in Faults
          /\ Run(v, "save", "failed")
          /\ Release(v, vm[v])

InsertVm(v) ==
    /\ Run(v, "insert", "done")
    /\ registry' = registry \cup {v}
    /\ UNCHANGED <<policy, vm, att, req, cleaned>>

-----------------------------------------------------------------------------
(* The attestation task: check_policy_and_perform_attestation.              *)

Task(v, from, to) == att[v].pc = from /\ att' = [att EXCEPT ![v].pc = to]

\* The policy is read once more: it may have been switched off since.  With
\* no vTPM socket the attestation has failed before it began.
TaskStart(v) ==
    /\ att[v].pc = "start"
    /\ att' = [att EXCEPT ![v] =
                 IF ~policy THEN [@ EXCEPT !.pc = "lookup", !.goal = "skip"]
                 ELSE IF @.tpm THEN [@ EXCEPT !.pc = "verify"]
                 ELSE [@ EXCEPT !.pc = "lookup", !.goal = "fail"]]
    /\ UNCHANGED <<policy, registry, vm, run, req, cleaned>>

\* get_pcr_quote: only a vTPM that is up answers tpm2_quote.
QuoteGiven(v) == vm[v].tpm = "up"

\* verify_attestation_from_manifest: without a quote it fails; with one the
\* manifest and the PCRs decide.
Verdicts(v) == {"fail"} \cup (IF QuoteGiven(v) THEN {"ok"} ELSE {})

\* The quote is made and checked, without locks and without an await: a task
\* that is marked for abortion here goes on.
TaskVerify(v) ==
    /\ att[v].pc = "verify"
    /\ \E goal \in Verdicts(v) :
          att' = [att EXCEPT ![v] = [@ EXCEPT !.pc = "lookup", !.goal = goal,
                                              !.late = ~QuoteGiven(v)]]
    /\ UNCHANGED <<policy, registry, vm, run, req, cleaned>>

\* update_vm_status returns Err when the VM is not in the map: a success or
\* a skip ends there, the failure handler logs it and goes on.
TaskLookup(v) ==
    /\ Task(v, "lookup", IF v \in registry THEN "set"
                         ELSE IF att[v].goal = "fail" THEN "mlookup"
                         ELSE "done")
    /\ UNCHANGED <<policy, registry, vm, run, req, cleaned>>

TaskSetStatus(v) ==
    /\ Task(v, "set", "save")
    /\ vm' = [vm EXCEPT ![v].status =
                IF att[v].goal = "fail" THEN "AttestationFailed"
                ELSE "Running"]
    /\ UNCHANGED <<policy, registry, run, req, cleaned>>

\* The second lock of update_vm_status; save_state makes the directory.
TaskSave(v) ==
    /\ UNCHANGED <<policy, registry, run, req, cleaned>>
    /\ \/ /\ Task(v, "save", IF att[v].goal = "skip" THEN "done" ELSE "mlookup")
          /\ Release(v, [vm[v] EXCEPT !.res = @ \cup {"dir"}])
       \/ /\ "save" \in Faults
          /\ Task(v, "save", IF att[v].goal = "fail" THEN "mlookup" ELSE "done")
          /\ Release(v, vm[v])

TaskMarkLookup(v) ==
    /\ Task(v, "mlookup", IF v \in registry THEN "mark"
                          ELSE IF att[v].goal = "fail" THEN "remove"
                          ELSE "done")
    /\ UNCHANGED <<policy, registry, vm, run, req, cleaned>>

\* Faulty variant of TaskMark: the verdict is recorded as it is.
TaskMark_RawVerdict(v) ==
    /\ Task(v, "mark", IF att[v].goal = "fail" THEN "remove" ELSE "done")
    /\ UNCHANGED <<policy, registry, run, req, cleaned>>
    /\ Release(v, [vm[v] EXCEPT !.attested = att[v].goal])

TaskMark(v) ==
    /\ Task(v, "mark", IF att[v].goal = "fail" THEN "remove" ELSE "done")
    /\ UNCHANGED <<policy, registry, run, req, cleaned>>
    /\ Release(v, [vm[v] EXCEPT !.attested =
                     IF att[v].goal = "fail" THEN "FAILED" ELSE "VERIFIED"])

\* Faulty variant of TaskRemove: vms.get instead of vms.remove.
TaskRemove_Get(v) ==
    /\ Task(v, "remove", IF v \in registry THEN "kill" ELSE "done")
    /\ UNCHANGED <<policy, registry, vm, run, req, cleaned>>

\* kill_vm (block_on_failure is true and no API changes it): out of the map,
TaskRemove(v) ==
    /\ Task(v, "remove", IF v \in registry THEN "kill" ELSE "done")
    /\ registry' = registry \ {v}
    /\ UNCHANGED <<policy, vm, run, req, cleaned>>

\* then VmmManager::kill under the VM's lock, and nothing else.
TaskKill(v) ==
    /\ Task(v, "kill", "done")
    /\ UNCHANGED <<policy, registry, run, req, cleaned>>
    /\ Release(v, VmmKill(vm[v]))

\* The runtime drops a task marked by abort() when it finds it suspended, at
\* any await it reaches after that: a lock that is free does not suspend it.
TaskCancelled(v) ==
    /\ att[v].dying /\ att[v].pc \notin {"none", "verify", "done", "aborted"}
    /\ att' = [att EXCEPT ![v].pc = "aborted"]
    /\ UNCHANGED <<policy, registry, run, req, cleaned>>
    /\ Release(v, vm[v])

-----------------------------------------------------------------------------
(* API handlers and the monitor: a lookup, then a step under the VM's lock. *)

Begin(r, op, v) == /\ req[r] = IdleReq
                   /\ req' = [req EXCEPT ![r] = [op |-> op, vm |-> v]]

Lookup(r, op, v) ==
    /\ op \in Ops \ {"stop", "attesting"}
    /\ v \in registry
    /\ Begin(r, op, v)
    /\ UNCHANGED <<policy, registry, vm, run, att, cleaned>>

\* Faulty variant of StopRemove: vms.get instead of vms.remove.
StopRemove_Get(r, v) ==
    /\ v \in registry
    /\ Begin(r, "stop", v)
    /\ UNCHANGED <<policy, registry, vm, run, att, cleaned>>

\* stop_vm, the gRPC StopVm and DeleteVm and shutdown_signal all begin so.
StopRemove(r, v) ==
    /\ v \in registry
    /\ Begin(r, "stop", v)
    /\ registry' = registry \ {v}
    /\ UNCHANGED <<policy, vm, run, att, cleaned>>

Serving(r, op, v) == req[r] = [op |-> op, vm |-> v]

\* The handler returns: its Arc goes away.
Finish(r, v, x) == /\ req' = [req EXCEPT ![r] = IdleReq]
                   /\ Release(v, x)

\* JoinHandle::abort marks the task and returns.
Abort(t) == [t EXCEPT !.dying = (t.pc \notin {"none", "done"})]

Stop(r, v) ==
    /\ Serving(r, "stop", v)
    /\ UNCHANGED <<policy, registry, run>>
    /\ att' = [att EXCEPT ![v] = Abort(@)]
    /\ cleaned' = cleaned \cup {v}
    /\ \E failed \in SUBSET (Stuck \cap vm[v].res) :
          Finish(r, v, Cleanup(vm[v], failed))

\* A call the hypervisor refuses is an Err and changes nothing.
Pause(r, v) ==
    /\ Serving(r, "pause", v)
    /\ UNCHANGED <<policy, registry, run, att, cleaned>>
    /\ LET x == vm[v] IN
       \E y \in GuestCall(x, "running", "paused") :
          Finish(r, v, IF y = x THEN x ELSE [y EXCEPT !.status = "Paused"])

\* Faulty variant of HibernatedVm: the vTPM is stopped with the hypervisor.
HibernatedVm_StopVtpm(x, snapped) ==
    [VtpmStop(VmmKill(x)) EXCEPT !.status = "Hibernated",
                                 !.snap = IF snapped THEN x.mem ELSE @,
                                 !.res = @ \cup {"hib"}]

\* The VM after its process was killed, with or without a new snapshot.
HibernatedVm(x, snapped) ==
    [VmmKill(x) EXCEPT !.status = "Hibernated",
                       !.snap = IF snapped THEN x.mem ELSE @,
                       !.res = @ \cup {"hib"}]

\* The failures of pause and of snapshot are ignored; the process is killed
\* and the VM is Hibernated whatever happened.
Hibernate(r, v) ==
    /\ Serving(r, "hibernate", v)
    /\ UNCHANGED <<policy, registry, run, att, cleaned>>
    /\ LET x == vm[v] IN
       IF x.status = "Hibernated" THEN Finish(r, v, x)
       ELSE \E y \in GuestCall(x, "running", "paused") :
            \/ "hibdir" \in Faults /\ Finish(r, v, y)
            \/ \E snapped \in
                    (IF "snapshot" \in Faults THEN {FALSE} ELSE {})
                    \cup {Reachable(y) /\ y.guest = "paused"} :
                 Finish(r, v, HibernatedVm(y, snapped))

\* A new hypervisor for a hibernated VM, by a new manager on the same socket
\* path: it restores the snapshot, or boots from the disk if there is none.
Woken(x) ==
    {[x EXCEPT !.proc = "live", !.sock = TRUE,
               !.guest = IF loaded THEN "running" ELSE "off",
               !.mem = IF ~loaded THEN @
                       ELSE IF x.snap # 0 THEN x.snap ELSE 1] :
     loaded \in (IF "restore" \in Faults THEN {FALSE} ELSE {})
                \cup {"cow" \in x.res}}

\* `vm.vmm = vmm` drops the old manager, whose kill unlinks the socket file
\* of the path both managers share.  (Where the new hypervisor did not start
\* it is the new manager that is dropped, with the same effect.)
ReplaceManager(x) == [x EXCEPT !.sock = FALSE]

\* Any status but Paused and Hibernated is set to Running unconditionally.
Resume(r, v) ==
    /\ Serving(r, "resume", v)
    /\ UNCHANGED <<policy, registry, run, att, cleaned>>
    /\ LET x == vm[v] IN
       \/ /\ x.status = "Paused"
          /\ \E y \in GuestCall(x, "paused", "running") :
                Finish(r, v, IF y = x THEN x ELSE [y EXCEPT !.status = "Running"])
       \/ /\ x.status = "Hibernated"
          /\ \/ /\ "dir" \in x.res
                /\ \E y \in Woken(x) :
                      Finish(r, v, [ReplaceManager(y) EXCEPT !.status = "Running"])
             \/ /\ "spawn" \in Faults \/ "dir" \notin x.res
                /\ Finish(r, v, [ReplaceManager(x) EXCEPT !.status = "Running"])
       \/ /\ x.status \notin {"Paused", "Hibernated"}
          /\ \E y \in GuestCall(x, "paused", "running") :
                Finish(r, v, [y EXCEPT !.status = "Running"])

\* snapshot_vm: an entry of the time machine and a directory, with no lock.
Snapshot(r, v) ==
    /\ Serving(r, "snapshot", v)
    /\ UNCHANGED <<policy, registry, run, att, cleaned>>
    /\ Finish(r, v, [vm[v] EXCEPT !.res = @ \cup {"dir"}])

\* attest_vm_handler reads the vTPM's socket path under the VM's lock,
AttestRead(r, v) ==
    /\ Serving(r, "attest", v)
    /\ UNCHANGED <<policy, registry, run, att, cleaned>>
    /\ IF vm[v].tpm = "none" THEN Finish(r, v, vm[v])
       ELSE /\ req' = [req EXCEPT ![r].op = "attesting"]
            /\ UNCHANGED vm

\* verifies without it, and records the result under it.  A vTPM that was
\* stopped gives no quote: an error, and nothing is recorded.
AttestMark(r, v) ==
    /\ Serving(r, "attesting", v)
    /\ UNCHANGED <<policy, registry, run, att, cleaned>>
    /\ \/ Finish(r, v, vm[v])
       \/ /\ vm[v].tpm = "up"
          /\ \E result \in {"VERIFIED", "FAILED"} :
                Finish(r, v, [vm[v] EXCEPT !.attested = result])

\* start_process_monitor logs a dead hypervisor and restarts a dead
\* virtiofsd; one that was killed on purpose has no process to wait for.
Monitor(r, v) ==
    /\ Serving(r, "monitor", v)
    /\ UNCHANGED <<policy, registry, run, att, cleaned>>
    /\ LET x == vm[v] IN
       \/ Finish(r, v, IF x.fs = "exited" THEN [x EXCEPT !.fs = "up"] ELSE x)
       \/ "virtiofsd" \in Faults /\ Finish(r, v, x)

-----------------------------------------------------------------------------
(* The policy endpoint, and what processes do by themselves.                *)

SetPolicy ==
    /\ policy' \in BOOLEAN
    /\ UNCHANGED <<registry, vm, run, att, req, cleaned>>

\* The guest works: its memory changes.
GuestRuns(v) ==
    /\ vm[v].guest = "running" /\ vm[v].mem < MaxMem
    /\ vm' = [vm EXCEPT ![v].mem = @ + 1]
    /\ UNCHANGED <<policy, registry, run, att, req, cleaned>>

HypervisorExits(v) ==
    /\ "crash" \in Faults /\ vm[v].proc = "live"
    /\ vm' = [vm EXCEPT ![v] = [@ EXCEPT !.proc = "exited", !.guest = "off"]]
    /\ UNCHANGED <<policy, registry, run, att, req, cleaned>>

VirtiofsdExits(v) ==
    /\ "crash" \in Faults /\ vm[v].fs = "up"
    /\ vm' = [vm EXCEPT ![v].fs = "exited"]
    /\ UNCHANGED <<policy, registry, run, att, req, cleaned>>

-----------------------------------------------------------------------------
RunStep(v) == \/ PrepareImage(v) \/ PrepareStorage(v) \/ SetupNetwork(v)
              \/ PrepareAgent(v) \/ BootVm(v) \/ BootFails(v)
              \/ SpawnAttestation(v) \/ SaveNewVm(v) \/ InsertVm(v)

TaskStep(v) == \/ TaskStart(v) \/ TaskVerify(v) \/ TaskLookup(v)
               \/ TaskSetStatus(v) \/ TaskSave(v) \/ TaskMarkLookup(v)
               \/ TaskMark(v) \/ TaskRemove(v) \/ TaskKill(v)
               \/ TaskCancelled(v)

ServeStep(r, v) == \/ Stop(r, v) \/ Pause(r, v) \/ Hibernate(r, v)
                   \/ Resume(r, v) \/ Snapshot(r, v) \/ AttestRead(r, v)
                   \/ AttestMark(r, v) \/ Monitor(r, v)

EnvStep(v) == GuestRuns(v) \/ HypervisorExits(v) \/ VirtiofsdExits(v)

Next == \/ SetPolicy
        \/ \E v \in VMs : RunVm(v) \/ RunStep(v) \/ TaskStep(v) \/ EnvStep(v)
        \/ \E r \in Reqs, v \in VMs : \/ ServeStep(r, v)
                                    \/ StopRemove(r, v)
                                    \/ \E op \in Ops : Lookup(r, op, v)

Spec == Init /\ [][Next]_vars

\* A spawned task, a call that was accepted and a creation that began are
\* driven by the runtime until they end: each external call returns.  Nothing
\* makes a client call, a guest run or a process die.
Fairness == /\ \A v \in VMs : WF_vars(RunStep(v)) /\ WF_vars(TaskStep(v))
            /\ \A r \in Reqs, v \in VMs : WF_vars(ServeStep(r, v))

FairSpec == Spec /\ Fairness
-----------------------------------------------------------------------------
(* Correctness.                                                             *)

\* The registry, the VMs, the tasks and the calls keep their types.
TypeOK ==
    /\ policy \in BOOLEAN
    /\ registry \subseteq VMs
    /\ vm \in [VMs -> VmRecord]
    /\ run \in [VMs -> RunStages]
    /\ att \in [VMs -> TaskRecord]
    /\ req \in [Reqs -> ReqRecord]
    /\ cleaned \subseteq VMs

\* No orphan: a hypervisor, vTPM or virtiofsd process that is alive belongs
\* to a VmInstance somebody still holds, whatever order stop, kill_vm, a late
\* resume (which starts a new hypervisor), a late monitor restart and a
\* failing run_vm come in (the Drop of VmmManager, VtpmManager,
\* VirtioFsManager is what kills the late ones).
ProcessHasOwner ==
    \A v \in VMs :
        vm[v].proc = "live" \/ vm[v].tpm = "up" \/ vm[v].fs = "up" => Held(v)

\* A VM in the map still has its disk: cleanup only ever runs for a VM that
\* its stop took out of the map first, so no handler that finds a VM finds
\* one whose storage a concurrent stop is pulling away.
RegisteredKeepsDisk ==
    \A v \in registry : "cow" \in vm[v].res /\ v \notin cleaned

\* Scale to zero: a VM whose status is Hibernated has no hypervisor, though
\* the attestation task and racing resumes write the same status field.  (Its
\* vTPM and its virtiofsd stay up: hibernate_vm does not touch them.)
HibernatedHasNoHypervisor ==
    \A v \in VMs : vm[v].status = "Hibernated" => vm[v].proc = "none"

\* Once cleanup ran and the last late handler has returned, no hypervisor,
\* virtiofsd, socket or proxy of the VM is left, and the host keeps nothing
\* else of it but its hibernation snapshot, (where the data directory is not
\* the home directory, or a late snapshot_vm or save_state made it again) its
\* directory, and exactly what cleanup tried to remove and failed to.
StoppedReleasesAll ==
    \A v \in cleaned : ~Held(v) =>
        /\ vm[v].proc = "none" /\ vm[v].fs = "none" /\ ~vm[v].sock
        /\ vm[v].res \subseteq {"hib", "dir"} \cup vm[v].left

\* A stop cannot take back a quote that is being made: cleanup aborts the task
\* and stops the vTPM under it ("Abort attestation task before stopping vTPM
\* to prevent use-after-free", state.rs, holds for a suspended task only), and
\* a run_vm that fails to save the state drops the vTPM as well.  But a task
\* that asked a stopped vTPM, and therefore failed, never touches the VM: it
\* is not in the map, and the task never gets hold of it again.
LateQuoteTouchesNothing ==
    \A v \in VMs : att[v].late => v \notin registry /\ att[v].pc \notin TaskHolds

\* A VM that left the map (stop or kill_vm) does not keep its hypervisor:
\* the process is gone as soon as the calls that still hold the VM returned.
RemovedVmDies ==
    \A v \in VMs : (run[v] = "done" /\ v \notin registry)
                      ~> (vm[v].proc = "none" /\ ~Held(v))

\* A VM whose attestation fails while it is in the map is taken out of it
\* and loses its hypervisor, even if it is resumed, hibernated or stopped
\* in the middle of handle_attestation_failure.
FailedAttestationEvicts ==
    \A v \in VMs : (v \in registry /\ att[v].pc = "set" /\ att[v].goal = "fail")
                      ~> (v \notin registry /\ vm[v].proc = "none")

-----------------------------------------------------------------------------
(* What the documentation says and the code does not do.                    *)

\* "If `block_on_failure` is true, the VM is killed immediately" (policy.rs,
\* handle_attestation_failure): once the task has ended with a failure, the
\* VM it was spawned for is not in the map.  run_vm spawns the task before
\* it inserts the VM, so the task can look for the VM too early.
FailedAttestationBlocks ==
    \A v \in VMs :
        att[v].pc = "done" /\ att[v].goal = "fail" /\ run[v] = "done"
            => v \notin registry

\* "VM transitions to `Running` only if attestation succeeds" (trusted-boot
\* .md): a VM that is attested is Running only after a success, or when the
\* policy was switched off before the check.  resume_vm sets Running.
RunningOnlyIfAttested ==
    \A v \in registry :
        att[v].pc # "none" /\ vm[v].status = "Running"
            => att[v].goal \in {"ok", "skip"}

\* "Guest execution resumes [...] at the exact CPU instruction where it was
\* hibernated" (hibernation-and-branching.md): resuming a hibernated VM
\* continues from the memory the guest had when it was hibernated.
WakeContinuesGuest ==
    [][\A v \in VMs :
          vm[v].status = "Hibernated" /\ vm'[v].guest = "running"
              => vm'[v].mem = vm[v].mem]_vars
=============================================================================
