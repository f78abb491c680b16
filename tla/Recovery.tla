--------------------------- MODULE Recovery ---------------------------
(***************************************************************************)
(* The life of the daemon across crashes, shutdowns and restarts           *)
(* (vyomad/src/main.rs, state/wal.rs, state/recovery.rs), with the three   *)
(* ways a VM is made: run_vm, restore_vm (a clone of a snapshot) and       *)
(* branch_vm_handler.  VM ids are fresh, so each VM is made at most once.  *)
(*                                                                         *)
(* On disk and in the kernel, and so kept by a crash: the write-ahead log, *)
(* VM directories with state.json and the hypervisor's socket, hypervisor  *)
(* processes and the resources of VMs.  In memory, and so lost: the        *)
(* registry `vms` and the handlers in progress.                            *)
(***************************************************************************)
EXTENDS Naturals, Sequences

CONSTANTS
    Vms,          \* the ids VMs may get
    None,         \* no registry entry
    MaxRestarts   \* bound: how often the daemon is started again

VARIABLES
    life,      \* "up", "draining", "exited" (graceful), "crashed", "scan"
    op,        \* the step of the handler that makes or stops each VM
    reg,       \* AppState.vms: the resources an entry lists, and if it has the child
    held,      \* the entry a stop has taken from the registry and is cleaning up
    wal,       \* the log: the entries of each VM, oldest first
    dir, json, sock,     \* the VM's directory, state.json and ch.sock
    proc, res,           \* its hypervisor, and its tap, dm, loop and cgroup
    drain, busy,         \* shutdown_signal: ids it has still to stop; the one it is at
    todo, recovered,     \* recover_on_startup: VMs to check; states of those adopted
    restarts,
    stray,     \* history: hypervisors that outlived the latest crash of the daemon
    released   \* history: VMs whose stop was answered with nothing left behind

diskVars == <<wal, dir, json, sock, proc, res>>
vars == <<life, op, reg, held, diskVars, drain, busy, todo, recovered, restarts, stray, released>>

Resources == {"tap", "dm", "loop", "cgroup"}
Entry     == [res : SUBSET Resources, child : BOOLEAN]
MakeSteps == {"runStart", "runSave", "runInsert",
              "restDm", "restTap", "restStart", "restLoad", "restInsert", "logCreate", "logStart",
              "branchBoot", "branchInsert"}
StopSteps == {"cleanup", "logStop"}
Idle      == {"new", "live", "gone", "lost"}

\* None is neither an id nor an entry.
ASSUME RecoveryAssumption == MaxRestarts \in Nat /\ None \notin Vms /\ None \notin Entry

Serving == life \in {"up", "draining"}

\* restore_vm holds the lock of the registry until its log entries are written.
Unlocked == \A v \in Vms : op[v] \notin {"logCreate", "logStart"}

Init ==
    /\ life = "up" /\ op = [v \in Vms |-> "new"] /\ reg = [v \in Vms |-> None]
    /\ held = [v \in Vms |-> None] /\ wal = [v \in Vms |-> <<>>] /\ dir = {} /\ json = [v \in Vms |-> "none"] /\ sock = {}
    /\ proc = {} /\ res = [v \in Vms |-> {}]
    /\ drain = {} /\ busy = None /\ todo = {} /\ recovered = [v \in Vms |-> None]
    /\ restarts = 0 /\ stray = {} /\ released = {}

Goto(v, s) == op' = [op EXCEPT ![v] = s]
Start(v)   == proc' = proc \cup {v} /\ sock' = sock \cup {v}

\* VmmManager::kill and Drop: the child if there is one, and the socket file.
Kill(v, child) == proc' = (IF child THEN proc \ {v} ELSE proc) /\ sock' = sock \ {v}

\* Wal::append keys entries by time, so the log keeps their order.
append(v, kind) == wal' = [wal EXCEPT ![v] = Append(@, kind)]

makeFrame == <<life, held, drain, busy, todo, recovered, restarts, stray, released>>

----------------------------------------------------------------------------
(* run_vm: see VmService for its steps; here what a crash can leave.        *)

RunPrepare(v) ==
    /\ Serving /\ op[v] = "new" /\ Goto(v, "runStart")
    /\ dir' = dir \cup {v} /\ res' = [res EXCEPT ![v] = Resources]
    /\ UNCHANGED <<reg, wal, json, sock, proc, makeFrame>>

RunStart(v) ==
    /\ Serving /\ op[v] = "runStart" /\ Goto(v, "runSave") /\ Start(v)
    /\ UNCHANGED <<reg, wal, dir, json, res, makeFrame>>

\* cleanup_on_failure gives the resources back; an error of prepare_agent or
\* setup_cgroups leaves without it.  The directory stays.
RunFails(v) ==
    /\ Serving /\ op[v] = "runStart" /\ Goto(v, "gone")
    /\ res' \in {res, [res EXCEPT ![v] = {}]} /\ Kill(v, TRUE)
    /\ UNCHANGED <<reg, wal, dir, json, makeFrame>>

\* save_state creates state.json and then writes it.
RunSave(v) ==
    /\ Serving /\ op[v] = "runSave" /\ json[v] = "none"
    /\ json' = [json EXCEPT ![v] = "part"]
    /\ UNCHANGED <<op, reg, wal, dir, sock, proc, res, makeFrame>>

RunSaved(v) ==
    /\ Serving /\ op[v] = "runSave" /\ json[v] = "part" /\ Goto(v, "runInsert")
    /\ json' = [json EXCEPT ![v] = "whole"]
    /\ UNCHANGED <<reg, wal, dir, sock, proc, res, makeFrame>>

Insert(v, listed, child) == reg' = [reg EXCEPT ![v] = [res |-> listed, child |-> child]]

\* run_vm writes nothing to the log.
RunInsert(v) ==
    /\ Serving /\ Unlocked /\ op[v] = "runInsert" /\ Goto(v, "live") /\ Insert(v, res[v], TRUE)
    /\ UNCHANGED <<diskVars, makeFrame>>

----------------------------------------------------------------------------
(* restore_vm, clone of a snapshot.  What an early error has made stays.    *)

RestoreFails(v) ==
    /\ Serving /\ op[v] \in {"restDm", "restTap", "restStart"} /\ Goto(v, "gone")
    /\ UNCHANGED <<reg, diskVars, makeFrame>>

\* The directory, the copy of the COW file, and one or both loop devices.
RestoreDisk(v) ==
    /\ Serving /\ op[v] = "new"
    /\ dir' = dir \cup {v}
    /\ \/ res' = [res EXCEPT ![v] = {"loop"}] /\ Goto(v, "restDm")
       \/ res' \in {res, [res EXCEPT ![v] = {"loop"}]} /\ Goto(v, "gone")
    /\ UNCHANGED <<reg, wal, json, sock, proc, makeFrame>>

RestoreDm(v) ==
    /\ Serving /\ op[v] = "restDm" /\ Goto(v, "restTap")
    /\ res' = [res EXCEPT ![v] = @ \cup {"dm"}]
    /\ UNCHANGED <<reg, wal, dir, json, sock, proc, makeFrame>>

RestoreTap(v) ==
    /\ Serving /\ op[v] = "restTap" /\ Goto(v, "restStart")
    /\ res' = [res EXCEPT ![v] = @ \cup {"tap"}]
    /\ UNCHANGED <<reg, wal, dir, json, sock, proc, makeFrame>>

RestoreStart(v) ==
    /\ Serving /\ op[v] = "restStart" /\ Goto(v, "restLoad") /\ Start(v)
    /\ UNCHANGED <<reg, wal, dir, json, res, makeFrame>>

\* load_snapshot, add_drive, add_network_interface, resume: on an error the
\* hypervisor is killed and nothing else is undone.
RestoreLoad(v) ==
    /\ Serving /\ op[v] = "restLoad"
    /\ \/ Goto(v, "restInsert") /\ UNCHANGED <<sock, proc>>
       \/ Goto(v, "gone") /\ Kill(v, TRUE)
    /\ UNCHANGED <<reg, wal, dir, json, res, makeFrame>>

\* The cgroup, whose failure is only logged, and the registry.
RestoreInsert(v) ==
    /\ Serving /\ Unlocked /\ op[v] = "restInsert" /\ Goto(v, "logCreate")
    /\ \E got \in {{}, {"cgroup"}} :
        res' = [res EXCEPT ![v] = @ \cup got] /\ Insert(v, res[v] \cup got, TRUE)
    /\ UNCHANGED <<wal, dir, json, sock, proc, makeFrame>>

\* Only now the log: create, then start; an append that fails is only logged.
RestoreLog(v) ==
    /\ Serving
    /\ \/ op[v] = "logCreate" /\ Goto(v, "logStart") /\ (append(v, "create") \/ UNCHANGED wal)
       \/ op[v] = "logStart" /\ Goto(v, "live") /\ (append(v, "start") \/ UNCHANGED wal)
    /\ UNCHANGED <<reg, dir, json, sock, proc, res, makeFrame>>

----------------------------------------------------------------------------
(* branch_vm_handler: an overlay disk, no loop, dm or tap, no log.          *)

BranchBegin(v) ==
    /\ Serving /\ op[v] = "new" /\ dir' = dir \cup {v}
    /\ Goto(v, "branchBoot") \/ Goto(v, "gone")
    /\ UNCHANGED <<reg, wal, json, sock, proc, res, makeFrame>>

\* A VM that does not boot is registered, as running, all the same.
BranchBoot(v) ==
    /\ Serving /\ op[v] = "branchBoot" /\ Goto(v, "branchInsert")
    /\ Start(v) \/ UNCHANGED <<proc, sock>>
    /\ UNCHANGED <<reg, wal, dir, json, res, makeFrame>>

BranchInsert(v) ==
    /\ Serving /\ Unlocked /\ op[v] = "branchInsert" /\ Goto(v, "live") /\ Insert(v, {}, v \in proc)
    /\ UNCHANGED <<diskVars, makeFrame>>

----------------------------------------------------------------------------
(* Stopping a VM: stop_vm over HTTP or gRPC, and each round of shutdown.    *)

Take(v) ==
    /\ held' = [held EXCEPT ![v] = reg[v]] /\ reg' = [reg EXCEPT ![v] = None]
    /\ Goto(v, "cleanup")

StopRemove(v) ==
    /\ Serving /\ Unlocked /\ op[v] = "live" /\ reg[v] # None /\ Take(v)
    /\ UNCHANGED <<life, diskVars, drain, busy, todo, recovered, restarts, stray, released>>

\* Faulty variant of StopCleanup: the instance is kept beyond its cleanup.
StopCleanup_Fault(v) ==
    /\ Serving /\ op[v] = "cleanup" /\ Goto(v, "logStop")
    /\ res' = [res EXCEPT ![v] = {}] /\ dir' = dir \ {v} /\ Kill(v, TRUE)
    /\ UNCHANGED <<life, reg, held, wal, json, drain, busy, todo, recovered, restarts, stray, released>>

\* VmInstance::cleanup kills the child and removes what the entry lists and the
\* directory; every error is only logged.
StopCleanup(v) ==
    /\ Serving /\ op[v] = "cleanup" /\ Goto(v, "logStop")
    /\ held' = [held EXCEPT ![v] = None]
    /\ \E left \in {{}, held[v].res} : res' = [res EXCEPT ![v] = (@ \ held[v].res) \cup left]
    /\ Kill(v, held[v].child)
    /\ \/ dir' = dir \ {v} /\ json' = [json EXCEPT ![v] = "none"]
       \/ UNCHANGED <<dir, json>>
    /\ UNCHANGED <<life, reg, wal, drain, busy, todo, recovered, restarts, stray, released>>

\* The stop goes to the log after the fact; then the client has its answer.
StopLog(v) ==
    /\ Serving /\ op[v] = "logStop" /\ Goto(v, "gone")
    /\ append(v, "stop") \/ UNCHANGED wal
    /\ busy' = IF busy = v THEN None ELSE busy
    /\ released' = IF v \notin dir \cup proc /\ res[v] = {} THEN released \cup {v} ELSE released
    /\ UNCHANGED <<life, reg, held, dir, json, sock, proc, res, drain, todo, recovered, restarts, stray>>

\* shutdown_signal: the ids are taken once; the servers go on meanwhile.
Signal ==
    /\ life = "up" /\ Unlocked /\ life' = "draining"
    /\ drain' = {v \in Vms : reg[v] # None}
    /\ UNCHANGED <<op, reg, held, diskVars, busy, todo, recovered, restarts, stray, released>>

\* It stops one after the other, and skips one that a client has stopped.
ShutdownNext(v) ==
    /\ life = "draining" /\ Unlocked /\ busy = None /\ v \in drain /\ drain' = drain \ {v}
    /\ IF reg[v] # None THEN Take(v) /\ busy' = v ELSE UNCHANGED <<op, reg, held, busy>>
    /\ UNCHANGED <<life, diskVars, todo, recovered, restarts, stray, released>>

\* What the end of the process takes with it.
Forget ==
    /\ reg' = [v \in Vms |-> None] /\ held' = [v \in Vms |-> None]
    /\ drain' = {} /\ busy' = None /\ todo' = {} /\ recovered' = [v \in Vms |-> None]
    /\ op' = [v \in Vms |-> IF op[v] \in Idle \ {"live"} THEN op[v] ELSE "lost"]

\* Faulty variant of Exit: only the VMs in the registry are looked after.
Exit_Fault ==
    /\ life = "draining" /\ drain = {} /\ busy = None
    /\ life' = "exited" /\ Forget
    /\ proc' = proc \ {v \in Vms : reg[v] # None /\ reg[v].child}
    /\ UNCHANGED <<wal, dir, json, sock, res, restarts, stray, released>>

\* All of them stopped, main returns; the runtime drops what is left, registry
\* and handlers, and with it every VmmManager, whose Drop kills the hypervisor
\* it started and unlinks the socket.
Exit ==
    /\ life = "draining" /\ drain = {} /\ busy = None
    /\ life' = "exited" /\ Forget
    /\ LET entry(v) == IF held[v] # None THEN held[v] ELSE reg[v]
           managed == {v \in Vms : op[v] \in MakeSteps \/ entry(v) # None}
       IN  /\ proc' = proc \ {v \in managed : entry(v) = None \/ entry(v).child}
           /\ sock' = sock \ managed
    /\ UNCHANGED <<wal, dir, json, res, restarts, stray, released>>

\* The daemon is killed: handlers and registry are gone, hypervisors may survive.
Crash ==
    /\ life \in {"up", "draining", "scan"} /\ life' = "crashed" /\ Forget
    /\ proc' \in SUBSET proc /\ stray' = proc'
    /\ UNCHANGED <<wal, dir, json, sock, res, restarts, released>>

\* A hypervisor ends by itself; its socket file stays.
HypervisorDies(v) ==
    /\ v \in proc /\ proc' = proc \ {v}
    /\ UNCHANGED <<life, op, reg, held, wal, dir, json, sock, res, drain, busy, todo, recovered, restarts, stray, released>>

----------------------------------------------------------------------------
(* Startup.                                                                 *)

\* The first entry of a VM decides: a later one only moves its time.
get_active_vm_ids ==
    {v \in Vms : wal[v] # <<>> /\ Head(wal[v]) \in {"create", "start"}}

Boot ==
    /\ life \in {"exited", "crashed"} /\ restarts < MaxRestarts
    /\ life' = "scan" /\ restarts' = restarts + 1
    /\ todo' = get_active_vm_ids
    /\ UNCHANGED <<op, reg, held, diskVars, drain, busy, recovered, stray, released>>

\* Faulty variant of Check: a VM that does not answer is waited for.
Check_Fault(v) ==
    IF v \notin sock THEN {[found |-> "crashed", sock |-> FALSE]}
    ELSE [found : IF v \in proc THEN {} ELSE {"crashed"}, sock : BOOLEAN]

\* check_vm_status: what it finds, and if the socket is there afterwards.  Its
\* temporary VmmManager unlinks the socket when it is dropped; that may fail.
Check(v) ==
    IF v \notin sock THEN {[found |-> "crashed", sock |-> FALSE]}
    ELSE [found : IF v \in proc THEN {"running", "unknown"} ELSE {"crashed"}, sock : BOOLEAN]

\* Faulty variant of Cleaned: without state.json it goes by the names made from the id.
Cleaned_Fault(v) == [res EXCEPT ![v] = {}]

\* cleanup_orphaned_resources goes by state.json and does nothing without it.
Cleaned(v) == IF json[v] = "whole" THEN [res EXCEPT ![v] = {}] ELSE res

Listed(v) == IF json[v] = "whole" THEN res[v] ELSE {}

\* Faulty variant of ScanVm: the log is trusted.
ScanVm_Fault(v) ==
    /\ life = "scan" /\ v \in todo /\ todo' = todo \ {v}
    /\ recovered' = [recovered EXCEPT ![v] = Listed(v)]
    /\ UNCHANGED <<life, op, reg, held, wal, dir, json, sock, proc, res, drain, busy, restarts, stray, released>>

\* One VM of recover_on_startup.  Without state.json its state is reconstructed,
\* if a first check finds it running; a second check then decides.
ScanVm(v) ==
    /\ life = "scan" /\ v \in todo /\ todo' = todo \ {v}
    /\ IF v \notin dir \/ json[v] = "part"
       THEN UNCHANGED <<sock, res, recovered>>
       ELSE \E first \in Check(v) :
              /\ sock' = IF first.sock THEN sock ELSE sock \ {v}
              /\ LET again   == IF first.sock THEN first.found ELSE "crashed"
                     verdict == IF json[v] = "whole" THEN first.found ELSE again
                 IN IF json[v] = "none" /\ first.found # "running"
                    THEN UNCHANGED <<res, recovered>>
                    ELSE /\ res' = IF verdict = "crashed" THEN Cleaned(v) ELSE res
                         /\ recovered' = IF verdict = "running"
                                         THEN [recovered EXCEPT ![v] = Listed(v)] ELSE recovered
    /\ UNCHANGED <<life, op, reg, held, wal, dir, json, proc, drain, busy, restarts, stray, released>>

\* main: the recovered VMs enter the registry, without their process; then it serves.
Adopt ==
    /\ life = "scan" /\ todo = {} /\ life' = "up"
    /\ reg' = [v \in Vms |-> IF recovered[v] = None THEN None
                             ELSE [res |-> recovered[v], child |-> FALSE]]
    /\ op' = [v \in Vms |-> IF recovered[v] = None THEN op[v] ELSE "live"]
    /\ recovered' = [v \in Vms |-> None]
    /\ UNCHANGED <<held, diskVars, drain, busy, todo, restarts, stray, released>>

Make(v) ==
    \/ RunPrepare(v) \/ RunStart(v) \/ RunFails(v) \/ RunSave(v) \/ RunSaved(v) \/ RunInsert(v)
    \/ RestoreDisk(v) \/ RestoreDm(v) \/ RestoreTap(v) \/ RestoreStart(v) \/ RestoreFails(v)
    \/ RestoreLoad(v) \/ RestoreInsert(v) \/ RestoreLog(v)
    \/ BranchBegin(v) \/ BranchBoot(v) \/ BranchInsert(v)

Next ==
    \/ \E v \in Vms : \/ Make(v) \/ StopRemove(v) \/ StopCleanup(v) \/ StopLog(v)
                      \/ ShutdownNext(v) \/ HypervisorDies(v) \/ ScanVm(v)
    \/ Signal \/ Exit \/ Crash \/ Boot \/ Adopt

Spec == Init /\ [][Next]_vars

\* Startup runs on; a check of a VM ends after three seconds.
FairSpec == Spec /\ WF_vars(Adopt) /\ \A v \in Vms : WF_vars(ScanVm(v))

----------------------------------------------------------------------------
(* Properties.                                                              *)

\* Every variable keeps its type, and an entry is held outside the registry only while
\* its clean-up is going on (stop_vm, shutdown_signal).
TypeOK ==
    /\ life \in {"up", "draining", "exited", "crashed", "scan"}
    /\ op \in [Vms -> Idle \cup MakeSteps \cup StopSteps]
    /\ \A v \in Vms : reg[v] = None \/ reg[v] \in Entry
    /\ \A v \in Vms : held[v] = None \/ (held[v] \in Entry /\ op[v] = "cleanup")
    /\ wal \in [Vms -> Seq({"create", "start", "stop"})]
    /\ dir \subseteq Vms /\ sock \subseteq Vms /\ proc \subseteq Vms
    /\ json \in [Vms -> {"none", "part", "whole"}]
    /\ res \in [Vms -> SUBSET Resources]
    /\ drain \subseteq Vms /\ busy \in Vms \cup {None} /\ todo \subseteq Vms
    /\ \A v \in Vms : recovered[v] = None \/ recovered[v] \subseteq Resources
    /\ restarts \in 0..MaxRestarts /\ stray \subseteq Vms /\ released \subseteq Vms

(* A VM whose stop was answered and left nothing behind stays gone over all *)
(* crashes and restarts, although get_active_vm_ids goes by its first entry *)
(* and so names it for ever (stop_vm, recover_on_startup).                  *)
StoppedStaysGone ==
    \A v \in released : v \notin proc \cup dir /\ res[v] = {} /\ reg[v] = None

(* Startup never takes a resource from a VM that is running, although       *)
(* check_vm_status unlinks the socket of a VM it finds alive and the next   *)
(* check therefore calls it crashed (recover_on_startup).                   *)
RecoverySparesLive ==
    [][life = "scan" => \A v \in proc : res'[v] = res[v]]_vars

(* After a graceful shutdown, of the first daemon or of one that was        *)
(* started again, no hypervisor runs but those that outlived a crash: every *)
(* one this daemon started is gone, whatever requests were in progress      *)
(* (shutdown_signal, the Drop of VmmManager).                               *)
NoOrphanAfterShutdown ==
    life = "exited" => proc \subseteq stray

(* A daemon that starts comes to serve requests, unless it crashes again:   *)
(* the checks of the VMs it finds in the log cannot hold it up.             *)
RestartServes == life = "scan" ~> life # "scan"

=============================================================================
