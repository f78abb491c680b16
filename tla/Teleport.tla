--------------------------- MODULE Teleport ---------------------------
(***************************************************************************)
(* Live migration (vyoma-teleport, and the teleport handlers of            *)
(* vyomad/src/api/handlers.rs).  A teleport of VM job[s].vm to node        *)
(* job[s].to is run by four actors that interleave: the command line, the  *)
(* handler of POST /teleport on the source, the task that handler spawns,  *)
(* and the handler of POST /receive-teleport on the target.  Cancels and   *)
(* the hypervisors at both ends run beside them.                           *)
(*                                                                         *)
(* The target's hypervisor belongs to the VmmManager of the receiving      *)
(* handler and dies with it when the handler returns; every receiver of a  *)
(* node listens on the one port 9000, and receivers for one VM share its   *)
(* directory and so the path of its socket.                                *)
(***************************************************************************)
EXTENDS Naturals, FiniteSets

CONSTANTS
    Teleports,    \* requests to teleport a VM
    Vms, Targets,
    Jobs,         \* the assignments of a VM and a target to the requests
    None,         \* no process, no peer
    MaxCancels    \* bound: cancel requests

ASSUME TeleportAssumption ==
    None \notin Teleports /\ MaxCancels \in Nat /\ Jobs \subseteq [Teleports -> [vm : Vms, to : Targets]]

VARIABLES
    job,            \* the VM and the target of each request
    cli,            \* the command that makes the request
    hpc, tpc, rpc,  \* source handler, its task, and the target's handler
    reply,          \* what the target's handler has answered
    status,         \* MigrationSession.status
    here, there,    \* AppState.vms of the source and of each target
    vm,             \* the VM in the source's hypervisor: "running" or "paused"
    mig,            \* the migration that hypervisor is at: its state and its peer
    proc,           \* the hypervisor a target's handler started
    sock,           \* which of them answers on ch.sock of a VM's directory
    cancel, cancels,
    abandoned,      \* history: VMs whose migration a task gave up on while it went on
    unresumed       \* history: VMs that a failed resume left paused

targetVars == <<rpc, proc, sock>>
vars == <<job, cli, hpc, tpc, reply, status, here, there, vm, mig,
          targetVars, cancel, cancels, abandoned, unresumed>>

Terminal == {"completed", "failed", "cancelled"}
Raw      == {"unknown", "active", "completed", "failed", "cancelled"}

Vm(s) == job[s].vm
To(s) == job[s].to

\* The Arc of a VM outlives its registry entry while a handler keeps a clone; when
\* the last one goes, Drop of VmmManager kills the hypervisor.
Held(v) == v \in here \/ \E s \in Teleports : Vm(s) = v /\ hpc[s] \in {"receive", "mark"}

Init ==
    /\ job \in Jobs
    /\ cli = [s \in Teleports |-> "idle"]
    /\ hpc = [s \in Teleports |-> "idle"]
    /\ tpc = [s \in Teleports |-> "none"]
    /\ rpc = [s \in Teleports |-> "idle"]
    /\ reply = [s \in Teleports |-> "none"]
    /\ status = [s \in Teleports |-> "none"]
    /\ here = Vms /\ there = [t \in Targets |-> {}]
    /\ vm = [v \in Vms |-> "running"]
    /\ mig = [v \in Vms |-> [state |-> "unknown", peer |-> None]]
    /\ proc = [s \in Teleports |-> None]
    /\ sock = [t \in Targets |-> [v \in Vms |-> None]]
    /\ cancel = None /\ cancels = 0 /\ abandoned = {} /\ unresumed = {}

Cli(s, p)     == cli' = [cli EXCEPT ![s] = p]
Handler(s, p) == hpc' = [hpc EXCEPT ![s] = p]
Task(s, p)    == tpc' = [tpc EXCEPT ![s] = p]
Report(s, st) == status' = [status EXCEPT ![s] = st]
Call(s)       == rpc' = [rpc EXCEPT ![s] = "start"] /\ reply' = [reply EXCEPT ![s] = "none"]

----------------------------------------------------------------------------
(* vyoma teleport: it asks the target for the status of a session "test";   *)
(* 404, the answer of every daemon that lets it in, means no live           *)
(* migration, and the command prepares the target itself.                   *)

CliFallback(s) ==
    /\ cli[s] = "idle" /\ Cli(s, "receive") /\ Call(s)
    /\ UNCHANGED <<job, hpc, tpc, status, here, there, vm, mig, proc, sock, cancel, cancels, abandoned, unresumed>>

\* Refused, or no answer arrives: the command gives up.
CliReceived(s) ==
    /\ cli[s] = "receive"
    /\ \/ rpc[s] = "idle" /\ reply[s] = "ok" /\ Cli(s, "post")
       \/ Cli(s, "done")
    /\ UNCHANGED <<job, hpc, tpc, reply, status, here, there, vm, mig, targetVars, cancel, cancels, abandoned, unresumed>>

CliLive(s) ==
    /\ cli[s] = "idle" /\ Cli(s, "live")
    /\ UNCHANGED <<job, hpc, tpc, reply, status, here, there, vm, mig, targetVars, cancel, cancels, abandoned, unresumed>>

\* show_migration_progress
CliWatched(s) ==
    /\ cli[s] = "watch" /\ status[s] \in Terminal /\ Cli(s, "done")
    /\ UNCHANGED <<job, hpc, tpc, reply, status, here, there, vm, mig, targetVars, cancel, cancels, abandoned, unresumed>>

----------------------------------------------------------------------------
(* teleport_handler on the source.                                          *)

\* The handler's answer; with --progress the live form then watches the session.
HandlerEnds(s, accepted) ==
    /\ Handler(s, "done")
    /\ \/ Cli(s, "done")
       \/ accepted /\ cli[s] = "live" /\ Cli(s, "watch")

\* The session is recorded before the VM is looked up.
TeleportBegin(s) ==
    /\ hpc[s] = "idle" /\ cli[s] \in {"post", "live"}
    /\ \/ /\ Vm(s) \in here /\ Report(s, "initiating") /\ Handler(s, "receive") /\ Call(s) /\ UNCHANGED cli
       \/ /\ Vm(s) \notin here /\ Report(s, "failed") /\ HandlerEnds(s, FALSE)
          /\ UNCHANGED <<rpc, reply>>
    /\ UNCHANGED <<job, tpc, here, there, vm, mig, proc, sock, cancel, cancels, abandoned, unresumed>>

\* POST /receive-teleport is refused, does not arrive, or its answer is lost.
TeleportRefused(s) ==
    /\ hpc[s] = "receive"
    /\ \/ rpc[s] = "idle" /\ reply[s] = "err" /\ UNCHANGED rpc
       \/ rpc[s] = "start" /\ rpc' = [rpc EXCEPT ![s] = "idle"]
       \/ rpc[s] \in {"listen", "return"} /\ UNCHANGED rpc
    /\ Report(s, "failed") /\ HandlerEnds(s, FALSE)
    /\ UNCHANGED <<job, tpc, reply, here, there, vm, mig, proc, sock, cancel, cancels, abandoned, unresumed>>

TeleportSpawn(s) ==
    /\ hpc[s] = "receive" /\ rpc[s] = "idle" /\ reply[s] = "ok"
    /\ Handler(s, "mark") /\ Task(s, "send")
    /\ UNCHANGED <<job, cli, reply, status, here, there, vm, mig, targetVars, cancel, cancels, abandoned, unresumed>>

\* The client goes away while the handler waits for the target: its future is
\* dropped, and the session stays as it was.
TeleportDropped(s) ==
    /\ hpc[s] = "receive" /\ Handler(s, "done") /\ Cli(s, "done")
    /\ UNCHANGED <<job, tpc, reply, status, here, there, vm, mig, targetVars, cancel, cancels, abandoned, unresumed>>

\* After the spawn, whatever the task has reported by now.
TeleportMark(s) ==
    /\ hpc[s] = "mark" /\ Report(s, "in_progress") /\ HandlerEnds(s, TRUE)
    /\ UNCHANGED <<job, tpc, reply, here, there, vm, mig, targetVars, cancel, cancels, abandoned, unresumed>>

----------------------------------------------------------------------------
(* receive_teleport_handler on the target.                                  *)

Answer(s, r) == rpc' = [rpc EXCEPT ![s] = "idle"] /\ reply' = [reply EXCEPT ![s] = r]

\* VmmManager::kill: the handler's own child, and whatever socket is at the path.
Kill(s) ==
    /\ proc' = [proc EXCEPT ![s] = None]
    /\ sock' = [sock EXCEPT ![To(s)][Vm(s)] = None]

\* start_daemon unlinks a socket it finds at the path and spawns; it may fail.
ReceiveStart(s) ==
    /\ rpc[s] = "start"
    /\ \/ /\ proc' = [proc EXCEPT ![s] = "up"]
          /\ sock' = [sock EXCEPT ![To(s)][Vm(s)] = s]
          /\ rpc' = [rpc EXCEPT ![s] = "listen"] /\ UNCHANGED reply
       \/ /\ sock' = [sock EXCEPT ![To(s)][Vm(s)] = None]
          /\ Answer(s, "err") /\ UNCHANGED proc
    /\ UNCHANGED <<job, cli, hpc, tpc, status, here, there, vm, mig, cancel, cancels, abandoned, unresumed>>

PortFree(t) == \A q \in Teleports : To(q) = t => proc[q] # "listening"

\* start_receiving_with_config asks whichever process answers at the path.
ReceiveListen(s) ==
    /\ rpc[s] = "listen"
    /\ LET q == sock[To(s)][Vm(s)] IN
        \/ /\ q # None /\ proc[q] = "up" /\ PortFree(To(s))
           /\ proc' = [proc EXCEPT ![q] = "listening"]
           /\ rpc' = [rpc EXCEPT ![s] = "return"] /\ UNCHANGED <<reply, sock>>
        \/ Kill(s) /\ Answer(s, "err")
    /\ UNCHANGED <<job, cli, hpc, tpc, status, here, there, vm, mig, cancel, cancels, abandoned, unresumed>>

\* The answer, and then the Drop of the local VmmManager.
ReceiveReturn(s) ==
    /\ rpc[s] = "return" /\ Kill(s) /\ Answer(s, "ok")
    /\ UNCHANGED <<job, cli, hpc, tpc, status, here, there, vm, mig, cancel, cancels, abandoned, unresumed>>

----------------------------------------------------------------------------
(* The hypervisors during a migration.                                      *)

Active(v) == mig[v].state = "active"

Over(v, st) == [mig EXCEPT ![v] = [state |-> st, peer |-> None]]

Listener(t) ==
    LET up == {q \in Teleports : To(q) = t /\ proc[q] = "listening"}
    IN  IF up = {} THEN None ELSE CHOOSE q \in up : TRUE

MigrationFrame == <<job, cli, hpc, tpc, reply, status, here, there, rpc, sock, cancel, cancels, abandoned, unresumed>>

\* The last round, with the VM paused.
StopAndCopy(v) ==
    /\ Held(v) /\ Active(v) /\ vm[v] = "running" /\ vm' = [vm EXCEPT ![v] = "paused"]
    /\ UNCHANGED <<mig, proc, MigrationFrame>>

MigrationLands(v) ==
    /\ Held(v) /\ Active(v) /\ vm[v] = "paused"
    /\ mig[v].peer # None /\ proc[mig[v].peer] = "listening"
    /\ mig' = Over(v, "completed")
    /\ proc' = [proc EXCEPT ![mig[v].peer] = v]
    /\ UNCHANGED <<vm, MigrationFrame>>

MigrationFails(v) ==
    /\ Held(v) /\ Active(v) /\ mig' = Over(v, "failed")
    /\ UNCHANGED <<vm, proc, MigrationFrame>>

\* vm.cancel-migration: refused when no migration is going on; otherwise it may
\* still fail, and the migration then goes on.
CancelMigration(v) ==
    mig' \in {mig} \cup (IF Held(v) /\ Active(v) THEN {Over(v, "cancelled")} ELSE {})

----------------------------------------------------------------------------
(* The spawned task.                                                        *)

taskFrame == <<job, cli, hpc, reply, targetVars, cancel, cancels>>

CanSend(v) == Held(v) /\ mig[v].state \notin {"active", "completed"}

\* PUT vm.send-migration: begun, refused, or begun with the answer lost.
SendMigration(s) ==
    /\ tpc[s] = "send"
    /\ \/ /\ CanSend(Vm(s))
          /\ mig' = [mig EXCEPT ![Vm(s)] = [state |-> "active", peer |-> Listener(To(s))]]
          /\ \/ Task(s, "poll") /\ UNCHANGED abandoned
             \/ Task(s, "resume") /\ abandoned' = abandoned \cup {Vm(s)}
       \/ Task(s, "resume") /\ UNCHANGED <<mig, abandoned, unresumed>>
    /\ UNCHANGED <<status, here, there, vm, unresumed, taskFrame>>

\* Faulty variant of Poll: whatever is neither going on nor failed is success.
Poll_Fault(s) ==
    /\ tpc[s] = "poll" /\ Held(Vm(s))
    /\ Report(s, mig[Vm(s)].state)
    /\ Task(s, CASE mig[Vm(s)].state \in {"completed", "cancelled"} -> "pause"
                 [] mig[Vm(s)].state = "failed" -> "resume"
                 [] OTHER                       -> "poll")
    /\ UNCHANGED <<here, there, vm, mig, abandoned, unresumed, taskFrame>>

\* wait_for_migration_complete: the state is copied to the session, and only
\* "completed" and "failed" end the loop.
Poll(s) ==
    /\ tpc[s] = "poll" /\ Held(Vm(s))
    /\ Report(s, mig[Vm(s)].state)
    /\ Task(s, CASE mig[Vm(s)].state = "completed" -> "pause"
                 [] mig[Vm(s)].state = "failed"    -> "resume"
                 [] OTHER                          -> "poll")
    /\ UNCHANGED <<here, there, vm, mig, abandoned, unresumed, taskFrame>>

\* vm.info cannot be asked: the task ends without cancelling the migration.
PollError(s) ==
    /\ tpc[s] = "poll" /\ Task(s, "resume")
    /\ abandoned' = IF Active(Vm(s)) THEN abandoned \cup {Vm(s)} ELSE abandoned
    /\ UNCHANGED <<status, here, there, vm, mig, unresumed, taskFrame>>

\* Faulty variant of PollTimeout: the session ends as failed without the resume.
PollTimeout_Fault(s) ==
    /\ tpc[s] = "poll" /\ CancelMigration(Vm(s)) /\ Task(s, "fail")
    /\ UNCHANGED <<status, here, there, vm, abandoned, unresumed, taskFrame>>

\* After ten minutes; the error of the cancel is dropped, and with it the migration.
PollTimeout(s) ==
    /\ tpc[s] = "poll" /\ CancelMigration(Vm(s)) /\ Task(s, "resume")
    /\ abandoned' = IF Active(Vm(s)) /\ mig' = mig THEN abandoned \cup {Vm(s)} ELSE abandoned
    /\ UNCHANGED <<status, here, there, vm, unresumed, taskFrame>>

\* The pause and the resume of a VM that is still registered may fail; the error is
\* only logged.  (A resume that fails on a VM that runs changes as little as one
\* that succeeds.)
SourcePause(s) ==
    /\ tpc[s] = "pause" /\ Task(s, "remove")
    /\ vm' \in {vm} \cup {[vm EXCEPT ![v] = "paused"] : v \in {Vm(s)} \cap here}
    /\ UNCHANGED <<status, here, there, mig, abandoned, unresumed, taskFrame>>

SourceRemove(s) ==
    /\ tpc[s] = "remove" /\ here' = here \ {Vm(s)} /\ Task(s, "adopt")
    /\ UNCHANGED <<status, there, vm, mig, abandoned, unresumed, taskFrame>>

\* adopt_teleported_vm: vm.info on the socket of the directory must show a VM.
AdoptQuery(s) ==
    /\ tpc[s] = "adopt"
    /\ LET q == sock[To(s)][Vm(s)] IN
        \/ q # None /\ proc[q] \in Vms /\ Task(s, "insert")
        \/ Task(s, "complete")
    /\ UNCHANGED <<status, here, there, vm, mig, abandoned, unresumed, taskFrame>>

\* Faulty variant of AdoptInsert: the entry is made under the session's id.
AdoptInsert_Fault(s) ==
    /\ tpc[s] = "insert" /\ Task(s, "complete")
    /\ there' = [there EXCEPT ![To(s)] = @ \cup {s}]
    /\ UNCHANGED <<status, here, vm, mig, abandoned, unresumed, taskFrame>>

AdoptInsert(s) ==
    /\ tpc[s] = "insert" /\ Task(s, "complete")
    /\ there' = [there EXCEPT ![To(s)] = @ \cup {Vm(s)}]
    /\ UNCHANGED <<status, here, vm, mig, abandoned, unresumed, taskFrame>>

TaskComplete(s) ==
    /\ tpc[s] = "complete" /\ Report(s, "completed") /\ Task(s, "done")
    /\ UNCHANGED <<here, there, vm, mig, abandoned, unresumed, taskFrame>>

SourceResume(s) ==
    /\ tpc[s] = "resume" /\ Task(s, "fail")
    /\ \/ Vm(s) \notin here /\ UNCHANGED <<vm, unresumed>>
       \/ /\ Vm(s) \in here
          /\ vm' = [vm EXCEPT ![Vm(s)] = "running"] /\ unresumed' = unresumed \ {Vm(s)}
       \/ /\ Vm(s) \in here /\ vm[Vm(s)] = "paused"
          /\ unresumed' = unresumed \cup {Vm(s)} /\ UNCHANGED vm
    /\ UNCHANGED <<status, here, there, mig, abandoned, taskFrame>>

TaskFail(s) ==
    /\ tpc[s] = "fail" /\ Report(s, "failed") /\ Task(s, "done")
    /\ UNCHANGED <<here, there, vm, mig, abandoned, unresumed, taskFrame>>

----------------------------------------------------------------------------
(* cancel_teleport_internal, by session or by VM (any session of it).        *)

CancelBegin(s) ==
    /\ cancel = None /\ cancels < MaxCancels /\ status[s] # "none"
    /\ Report(s, "cancelling") /\ cancel' = [of |-> s, pc |-> "ask"] /\ cancels' = cancels + 1
    /\ UNCHANGED <<job, cli, hpc, tpc, reply, here, there, vm, mig, targetVars, abandoned, unresumed>>

CancelAsk(s) ==
    /\ cancel = [of |-> s, pc |-> "ask"] /\ cancel' = [of |-> s, pc |-> "mark"]
    /\ IF Vm(s) \in here THEN CancelMigration(Vm(s)) ELSE UNCHANGED mig
    /\ UNCHANGED <<job, cli, hpc, tpc, reply, status, here, there, vm, targetVars, cancels, abandoned, unresumed>>

CancelMark(s) ==
    /\ cancel = [of |-> s, pc |-> "mark"] /\ cancel' = None /\ Report(s, "cancelled")
    /\ UNCHANGED <<job, cli, hpc, tpc, reply, here, there, vm, mig, targetVars, cancels, abandoned, unresumed>>

----------------------------------------------------------------------------

Command(s) == CliReceived(s) \/ CliWatched(s)
Source(s)  == TeleportBegin(s) \/ TeleportRefused(s) \/ TeleportSpawn(s) \/ TeleportMark(s)
Target(s)  == ReceiveStart(s) \/ ReceiveListen(s) \/ ReceiveReturn(s)
Migrate(s) == \/ SendMigration(s) \/ PollError(s) \/ PollTimeout(s)
              \/ SourcePause(s) \/ SourceRemove(s) \/ AdoptQuery(s) \/ AdoptInsert(s)
              \/ TaskComplete(s) \/ SourceResume(s) \/ TaskFail(s)
Cancelling(s) == CancelAsk(s) \/ CancelMark(s)

Next ==
    \/ \E s \in Teleports :
        \/ CliFallback(s) \/ CliLive(s) \/ Command(s) \/ TeleportDropped(s) \/ Source(s) \/ Target(s)
        \/ Poll(s) \/ Migrate(s) \/ CancelBegin(s) \/ Cancelling(s)
    \/ \E v \in Vms : StopAndCopy(v) \/ MigrationLands(v) \/ MigrationFails(v)

Spec == Init /\ [][Next]_vars

\* What is begun goes on: commands, handlers and tasks.  The polling loop ends at
\* the latest with its timeout; that a migration ends is not assumed.
FairSpec ==
    Spec /\ \A s \in Teleports :
        WF_vars(Command(s)) /\ WF_vars(Source(s)) /\ WF_vars(Target(s)) /\ WF_vars(Migrate(s))

----------------------------------------------------------------------------

\* Every variable keeps its type; a registry holds ids of VMs (state.vms) and a
\* session only statuses the handlers, the task and the hypervisor write.
TypeOK ==
    /\ job \in Jobs
    /\ cli \in [Teleports -> {"idle", "receive", "post", "live", "watch", "done"}]
    /\ hpc \in [Teleports -> {"idle", "receive", "mark", "done"}]
    /\ tpc \in [Teleports -> {"none", "send", "poll", "pause", "remove", "adopt", "insert",
                              "complete", "resume", "fail", "done"}]
    /\ rpc \in [Teleports -> {"idle", "start", "listen", "return"}]
    /\ reply \in [Teleports -> {"none", "ok", "err"}]
    /\ status \in [Teleports -> {"none", "initiating", "in_progress", "cancelling"} \cup Raw]
    /\ here \subseteq Vms /\ there \in [Targets -> SUBSET Vms]
    /\ vm \in [Vms -> {"running", "paused"}]
    /\ mig \in [Vms -> [state : Raw, peer : Teleports \cup {None}]]
    /\ proc \in [Teleports -> {None, "up", "listening"} \cup Vms]
    /\ sock \in [Targets -> [Vms -> Teleports \cup {None}]]
    /\ cancel \in [of : Teleports, pc : {"ask", "mark"}] \cup {None}
    /\ cancels \in 0 .. MaxCancels /\ abandoned \subseteq Vms /\ unresumed \subseteq Vms

\* A VM has left the source's registry only if its hypervisor has reported the
\* migration completed, and is in a target's registry only after it has left the
\* source's: teleport_handler's task removes it before it asks for the adoption,
\* however many requests, cancels and timeouts for the VM run at once.
HandedOver ==
    \A v \in Vms :
        /\ v \notin here => mig[v].state = "completed"
        /\ (\E t \in Targets : v \in there[t]) => v \notin here

Ended(s) == hpc[s] \in {"idle", "done"} /\ rpc[s] = "idle" /\ tpc[s] \in {"none", "done"}

\* Every request comes to an end, with the migration completed, failed, cancelled
\* or never ending, and in the end every VM the source still has is running: each
\* way out of teleport_vm_with_mode is followed by the resume.  Two kinds of VM may
\* stay paused: one whose migration a task gave up on while it went on (its answer
\* lost, vm.info or the cancel on timeout failed), for the hypervisor may pause it
\* after the resume; and one whose latest resume failed, which is not tried again.
Settles ==
    <>[](/\ \A s \in Teleports : Ended(s)
         /\ \A v \in here \ (abandoned \cup unresumed) : vm[v] = "running")
=======================================================================
