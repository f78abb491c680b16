-------------------------------- MODULE Cri --------------------------------
(***************************************************************************)
(* The Kubernetes bridge (vk8s/pkg/cri): the calls of the kubelet on pods  *)
(* and containers, over the daemon's gRPC service and the agents in the    *)
(* VMs.  gRPC runs every call in a goroutine of its own; the maps are      *)
(* under one RWMutex.                                                      *)
(*                                                                         *)
(* A section under the mutex that waits for nothing is one step, which     *)
(* needs the mutex free of writers.  A pod has the id of its VM, and VMs   *)
(* have fresh ids: here, ids that nothing refers to any more.  A call that *)
(* has ended may be made again.  Calls that only read (List, Status,       *)
(* Version) are left out, but for the waiting readers they are to          *)
(* RemoveContainer.                                                        *)
(***************************************************************************)
CONSTANTS
    Calls,          \* the calls of the kubelet that overlap
    PodVms,         \* the VMs the daemon may make
    Names,          \* names of containers
    NoCall

ASSUME CriAssumption == NoCall \notin Calls \cup PodVms \cup Names

VARIABLES
    pods,           \* s.pods: "none", "ready" or "notready"
    containers,     \* s.containers, by VM and name
    writer,         \* the call that has s.mu for writing
    call,           \* each call: where it is, what it is about, and whether the
                    \* ContainerInfo it has found is still the one in the map
    up,             \* whether the process of the bridge runs
    daemonVms,      \* the VMs the daemon has
    slipped         \* history: VMs of which bridge and daemon were told different things

criVars == <<pods, containers, writer, call, up, daemonVms, slipped>>

NoContainers == [k \in PodVms \X Names |-> "none"]
Idle         == [pc |-> "idle", vm |-> NoCall, name |-> NoCall, live |-> FALSE]

CriInit ==
    /\ pods = [v \in PodVms |-> "none"] /\ containers = NoContainers
    /\ writer = NoCall /\ call = [c \in Calls |-> Idle] /\ up = TRUE
    /\ daemonVms = {} /\ slipped = {}

----------------------------------------------------------------------------

Free == writer = NoCall
In(c, pc) == call[c].pc = pc
Goto(c, pc) == call' = [call EXCEPT ![c].pc = pc]
Return(c) == call' = [call EXCEPT ![c] = Idle]

\* A call arrives and goes on at pc if what it asks about is there.
Arrive(c, v, n, found, pc) ==
    /\ up /\ In(c, "idle") /\ Free
    /\ call' = IF found THEN [call EXCEPT ![c] = [pc |-> pc, vm |-> v, name |-> n, live |-> pc \in {"startPod", "stopFind"}]] ELSE call

Pod(c)  == pods[call[c].vm] # "none"
Key(c)  == <<call[c].vm, call[c].name>>
Exists(v, n) == containers[<<v, n>>] # "none"

\* The process ends, with a panic, a fatal error or a signal: the maps are gone and
\* the kubelet's calls with them.  syncPodsFromVyomad, which would read them back,
\* is never called.
Crash ==
    /\ up' = FALSE /\ pods' = [v \in PodVms |-> "none"] /\ containers' = NoContainers
    /\ writer' = NoCall /\ call' = [c \in Calls |-> Idle]
    /\ slipped' = slipped \cup daemonVms
    /\ UNCHANGED <<daemonVms>>

mapsFrame == <<pods, containers, writer, up>>

----------------------------------------------------------------------------
(* Pods.                                                                     *)

Fresh(v) ==
    /\ v \notin daemonVms /\ pods[v] = "none" /\ \A n \in Names : ~ Exists(v, n)
    /\ \A c \in Calls : call[c].vm # v

\* CreateVm, whose answer may be lost after the daemon has made the VM.
RunPodSandbox(c, v) ==
    /\ up /\ In(c, "idle") /\ Fresh(v)
    /\ \/ /\ daemonVms' = daemonVms \cup {v} /\ slipped' = slipped \ {v}
          /\ call' = [call EXCEPT ![c] = [Idle EXCEPT !.pc = "runStart", !.vm = v]]
       \/ UNCHANGED <<call, daemonVms, slipped>>
       \/ daemonVms' = daemonVms \cup {v} /\ slipped' = slipped \cup {v} /\ UNCHANGED call
    /\ UNCHANGED mapsFrame

\* Faulty variant of RunStart: a failed StartVm returns at once.
RunStart_Fault(c) ==
    /\ In(c, "runStart")
    /\ \/ call[c].vm \in daemonVms /\ Goto(c, "runRecord")
       \/ Return(c)
    /\ UNCHANGED <<mapsFrame, daemonVms, slipped>>

\* StartVm only looks the VM up.
RunStart(c) ==
    /\ In(c, "runStart")
    /\ \/ call[c].vm \in daemonVms /\ Goto(c, "runRecord")
       \/ Goto(c, "runDelete")
    /\ UNCHANGED <<mapsFrame, daemonVms, slipped>>

\* DeleteVm as the daemon does it, or an error that is at most logged.
DeleteVm(v) ==
    \/ daemonVms' = daemonVms \ {v} /\ UNCHANGED slipped
    \/ slipped' = slipped \cup ({v} \cap daemonVms) /\ UNCHANGED daemonVms

RunDelete(c) ==
    /\ In(c, "runDelete") /\ DeleteVm(call[c].vm) /\ Return(c)
    /\ UNCHANGED <<mapsFrame>>

RunRecord(c) ==
    /\ In(c, "runRecord") /\ Free /\ Return(c)
    /\ pods' = [pods EXCEPT ![call[c].vm] = "ready"]
    /\ UNCHANGED <<containers, writer, up, daemonVms, slipped>>

StopPodSandbox(c, v) ==
    /\ Arrive(c, v, NoCall, pods[v] # "none", "stopVm")
    /\ UNCHANGED <<mapsFrame, daemonVms, slipped>>

\* StopVm takes the VM out of the daemon; an error is logged and passed over.
StopVm(c) ==
    /\ In(c, "stopVm") /\ Goto(c, "stopPod")
    /\ daemonVms' \in {daemonVms, daemonVms \ {call[c].vm}}
    /\ UNCHANGED <<mapsFrame, slipped>>

StopPod(c) ==
    /\ In(c, "stopPod") /\ Free /\ Return(c)
    /\ pods' = IF Pod(c) THEN [pods EXCEPT ![call[c].vm] = "notready"] ELSE pods
    /\ UNCHANGED <<containers, writer, up, daemonVms, slipped>>

\* The mutex is held until DeleteVm has answered.
RemovePodSandbox(c, v) ==
    /\ Arrive(c, v, NoCall, pods[v] # "none", "removeVm")
    /\ writer' = IF pods[v] # "none" THEN c ELSE writer
    /\ UNCHANGED <<pods, containers, up, daemonVms, slipped>>

\* Faulty variant of RemovePod: no deferred Unlock on the path of an error.
RemovePod_Fault(c) ==
    /\ In(c, "removeVm") /\ DeleteVm(call[c].vm) /\ Return(c)
    /\ IF slipped' = slipped THEN writer' = NoCall /\ pods' = [pods EXCEPT ![call[c].vm] = "none"]
                             ELSE UNCHANGED <<writer, pods>>
    /\ UNCHANGED <<containers, up>>

\* The pod's entry goes whatever DeleteVm answered; its containers' stay.
RemovePod(c) ==
    /\ In(c, "removeVm") /\ DeleteVm(call[c].vm) /\ Return(c)
    /\ writer' = NoCall /\ pods' = [pods EXCEPT ![call[c].vm] = "none"]
    /\ UNCHANGED <<containers, up>>

----------------------------------------------------------------------------
(* Containers.  A command in a VM takes as long as it takes: the agent client  *)
(* sets its deadline after the first bytes of the answer, and Connect alone    *)
(* heeds the context.                                                          *)

container(c, s) ==
    containers' = IF call[c].live THEN [containers EXCEPT ![Key(c)] = s] ELSE containers

CreateContainer(c, v, n) ==
    /\ Arrive(c, v, n, pods[v] # "none", "createExec")
    /\ UNCHANGED <<mapsFrame, daemonVms, slipped>>

\* The answer of the agent does not matter.
CreateExec(c) ==
    /\ In(c, "createExec") /\ Goto(c, "createRecord")
    /\ UNCHANGED <<mapsFrame, daemonVms, slipped>>

\* A new ContainerInfo: calls that have found one of that id hold the old one.
CreateRecord(c) ==
    /\ In(c, "createRecord") /\ Free
    /\ containers' = [containers EXCEPT ![Key(c)] = "created"]
    /\ call' = [d \in Calls |-> IF d = c THEN Idle
                                ELSE [call[d] EXCEPT !.live = @ /\ Key(d) # Key(c)]]
    /\ UNCHANGED <<pods, writer, up, daemonVms, slipped>>

StartContainer(c, v, n) ==
    /\ Arrive(c, v, n, Exists(v, n), "startPod")
    /\ UNCHANGED <<mapsFrame, daemonVms, slipped>>

\* The pod may have gone, or its agent may not answer.
StartPod(c) ==
    /\ In(c, "startPod") /\ Free
    /\ (Pod(c) /\ Goto(c, "startExec")) \/ Return(c)
    /\ UNCHANGED <<mapsFrame, daemonVms, slipped>>

StartExec(c) ==
    /\ In(c, "startExec") /\ Goto(c, "startMark")
    /\ UNCHANGED <<mapsFrame, daemonVms, slipped>>

StartMark(c) ==
    /\ In(c, "startMark") /\ Free /\ container(c, "running") /\ Return(c)
    /\ UNCHANGED <<pods, writer, up, daemonVms, slipped>>

StopContainer(c, v, n) ==
    /\ Arrive(c, v, n, Exists(v, n), "stopFind")
    /\ UNCHANGED <<mapsFrame, daemonVms, slipped>>

StopFind(c) ==
    /\ In(c, "stopFind") /\ Free
    /\ (Pod(c) /\ Goto(c, "stopExec")) \/ Goto(c, "stopMark")
    /\ UNCHANGED <<mapsFrame, daemonVms, slipped>>

\* SIGTERM, the sleep and SIGKILL, all to process 1 of the VM.
StopExec(c) ==
    /\ In(c, "stopExec") /\ Goto(c, "stopMark")
    /\ UNCHANGED <<mapsFrame, daemonVms, slipped>>

StopMark(c) ==
    /\ In(c, "stopMark") /\ Free /\ container(c, "exited") /\ Return(c)
    /\ UNCHANGED <<pods, writer, up, daemonVms, slipped>>

\* Lock; for a container that is there the next call is RUnlock.
RemoveContainer(c, v, n) ==
    /\ Arrive(c, v, n, Exists(v, n), "runlock")
    /\ writer' = IF Exists(v, n) THEN c ELSE writer
    /\ UNCHANGED <<pods, containers, up, daemonVms, slipped>>

\* RUnlock of a mutex that is locked for writing ends the process, or, when a reader
\* waits (the kubelet lists pods all the time), passes; RLock then waits for the
\* lock that the call itself has.
RUnlock(c) ==
    /\ In(c, "runlock")
    /\ \/ Crash
       \/ Goto(c, "hung") /\ UNCHANGED <<mapsFrame, daemonVms, slipped>>

----------------------------------------------------------------------------
(* Exec and Attach.  The tokens they make lead to a VM until they expire, with  *)
(* no effect on the maps.                                                      *)

Exec(c, v, n) ==
    /\ Arrive(c, v, n, Exists(v, n), "execPod")
    /\ UNCHANGED <<mapsFrame, daemonVms, slipped>>

\* Both use the pod without asking whether it was found: a nil pointer,
\* and no interceptor recovers.
ExecPod(c) ==
    /\ In(c, "execPod") /\ Free
    /\ IF Pod(c) THEN Return(c) /\ UNCHANGED <<mapsFrame, daemonVms, slipped>>
                 ELSE Crash

----------------------------------------------------------------------------

CriStops == up /\ Crash

CriRestart ==
    /\ ~up /\ up' = TRUE
    /\ UNCHANGED <<pods, containers, writer, call, daemonVms, slipped>>

\* The daemon gives a VM up by itself: another client stops it, an attestation fails.
DaemonDropsVm(v) ==
    /\ v \in daemonVms /\ daemonVms' = daemonVms \ {v} /\ slipped' = slipped \cup {v}
    /\ UNCHANGED <<mapsFrame, call>>

Goes(c) ==   \* steps that depend on the bridge and on answers that do come
    \/ RunStart(c) \/ RunDelete(c) \/ RunRecord(c) \/ StopVm(c) \/ StopPod(c) \/ RemovePod(c)
    \/ CreateRecord(c) \/ StartPod(c) \/ StartMark(c) \/ StopFind(c) \/ StopMark(c)
    \/ RUnlock(c) \/ ExecPod(c)

Agent(c) == CreateExec(c) \/ StartExec(c) \/ StopExec(c)

CriNext ==
    \/ \E c \in Calls, v \in PodVms :
        RunPodSandbox(c, v) \/ StopPodSandbox(c, v) \/ RemovePodSandbox(c, v)
    \/ \E c \in Calls, v \in PodVms, n \in Names :
        \/ CreateContainer(c, v, n) \/ StartContainer(c, v, n) \/ StopContainer(c, v, n)
        \/ RemoveContainer(c, v, n) \/ Exec(c, v, n)
    \/ \E c \in Calls : Goes(c) \/ Agent(c)
    \/ \E v \in PodVms : DaemonDropsVm(v)
    \/ CriStops \/ CriRestart

\* Goroutines are scheduled, a mutex that is released passes on, and the daemon
\* answers (gRPC ends a call whose peer is gone).  The agents need not.
CriFair == \A c \in Calls : SF_criVars(Goes(c))

----------------------------------------------------------------------------

\* The maps of the bridge and its calls keep their types.
CriTypeOK ==
    /\ pods \in [PodVms -> {"none", "ready", "notready"}]
    /\ containers \in [PodVms \X Names -> {"none", "created", "running", "exited"}]
    /\ writer \in Calls \cup {NoCall} /\ up \in BOOLEAN
    /\ \A c \in Calls : /\ call[c].vm \in PodVms \cup {NoCall} /\ call[c].name \in Names \cup {NoCall}
                        /\ call[c].live \in BOOLEAN
    /\ daemonVms \subseteq PodVms /\ slipped \subseteq PodVms

\* However runs, stops and removals of pods overlap: a VM the daemon has belongs to a
\* pod of the bridge or to a RunPodSandbox that will record or delete it, and a pod
\* that is shown ready has its VM until the StopPodSandbox that took it is done.  The
\* exceptions are the VMs of a lost answer, a failed DeleteVm, a bridge that ended,
\* or a daemon that dropped them by itself: nothing brings those two together again.
PodsAccountForVms ==
    \A v \in PodVms \ slipped :
        /\ v \in daemonVms => \/ pods[v] # "none"
                              \/ \E c \in Calls : /\ call[c].vm = v
                                                  /\ call[c].pc \in {"runStart", "runRecord", "runDelete"}
        /\ pods[v] = "ready" => \/ v \in daemonVms
                                \/ \E c \in Calls : call[c].vm = v /\ In(c, "stopPod")

\* A call of the kubelet waits for ever on nothing but the agent of its own VM,
\* although RemovePodSandbox holds the mutex while the daemon deletes a VM; the one
\* exception is a RemoveContainer that has locked the mutex against itself.
KubeletCallsEnd ==
    \A c \in Calls : [](~ In(c, "idle") => <>(\/ In(c, "idle")
                                              \/ call[c].pc \in {"createExec", "startExec", "stopExec"}
                                              \/ \E d \in Calls : In(d, "hung")))
=============================================================================
