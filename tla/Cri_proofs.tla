----------------------------- MODULE Cri_proofs -----------------------------
(***************************************************************************)
(* Proofs about Cri: however the calls of the kubelet overlap, the pods of *)
(* the bridge account for the VMs of the daemon.                           *)
(***************************************************************************)
EXTENDS Cri, TLAPS

-----------------------------------------------------------------------------
(* The inductive invariant.                                                 *)

CallSteps == {"idle", "runStart", "runRecord", "runDelete", "stopVm", "stopPod", "removeVm",
              "createExec", "createRecord", "startPod", "startExec", "startMark",
              "stopFind", "stopExec", "stopMark", "runlock", "hung", "execPod"}
CallRecord == [pc : CallSteps, vm : PodVms \cup {NoCall}, name : Names \cup {NoCall},
               live : BOOLEAN]

(* The calls as a function, of which CriTypeOK tells only the fields; a    *)
(* call that has begun is about a VM.                                      *)
CallsOK ==
    /\ call \in [Calls -> CallRecord]
    /\ \A c \in Calls : call[c].pc # "idle" => call[c].vm \in PodVms

(* Where a RunPodSandbox is between CreateVm and its last step.            *)
Running(c) == call[c].pc \in {"runStart", "runRecord", "runDelete"}

(* Until RunPodSandbox records its pod, nothing else knows the VM's id.    *)
RunAlone ==
    \A c \in Calls : Running(c) =>
        /\ pods[call[c].vm] = "none"
        /\ \A n \in Names : ~ Exists(call[c].vm, n)
        /\ \A d \in Calls \ {c} : call[d].vm # call[c].vm

(* A VM that StartVm has found is still there when its pod is recorded,    *)
(* unless the daemon has dropped it by itself.                             *)
RecordedHasVm ==
    \A c \in Calls : In(c, "runRecord") => call[c].vm \in daemonVms \cup slipped

CriInv == CriTypeOK /\ CallsOK /\ RunAlone /\ RecordedHasVm /\ PodsAccountForVms

-----------------------------------------------------------------------------
(* How a call moves.                                                        *)

\* Goto changes where the call is and nothing else.
LEMMA GotoMoves ==
    ASSUME CallsOK, NEW c \in Calls, NEW pc \in CallSteps, Goto(c, pc)
    PROVE  /\ call' \in [Calls -> CallRecord]
           /\ call'[c].pc = pc /\ call'[c].vm = call[c].vm
           /\ \A d \in Calls \ {c} : call'[d] = call[d]
  <1>1. call[c] \in CallRecord  BY DEF CallsOK
  <1>2. [call[c] EXCEPT !.pc = pc] \in CallRecord  BY <1>1 DEF CallRecord
  <1>3. call' = [call EXCEPT ![c] = [call[c] EXCEPT !.pc = pc]]  BY DEF Goto
  <1>4. call'[c] = [call[c] EXCEPT !.pc = pc]  BY <1>3 DEF CallsOK
  <1>5. call'[c].pc = pc /\ call'[c].vm = call[c].vm  BY <1>1, <1>4 DEF CallRecord
  <1>. QED  BY <1>2, <1>3, <1>5 DEF CallsOK

\* A call that is over is idle and about nothing.
LEMMA ReturnMoves ==
    ASSUME CallsOK, NEW c \in Calls, Return(c)
    PROVE  /\ call' \in [Calls -> CallRecord]
           /\ call'[c].pc = "idle" /\ call'[c].vm = NoCall
           /\ \A d \in Calls \ {c} : call'[d] = call[d]
  <1>1. Idle \in CallRecord  BY DEF Idle, CallRecord, CallSteps
  <1>2. call'[c] = Idle  BY DEF Return, CallsOK
  <1>. QED  BY <1>1, <1>2 DEF CallsOK, Return, Idle

\* A call arrives: if what it asks about is there, it is about that VM.
LEMMA ArriveMoves ==
    ASSUME CallsOK, NEW c \in Calls, NEW v \in PodVms, NEW n \in Names \cup {NoCall},
           NEW found, NEW pc \in CallSteps, Arrive(c, v, n, found, pc)
    PROVE  /\ call' \in [Calls -> CallRecord]
           /\ call[c].pc = "idle"
           /\ \A d \in Calls \ {c} : call'[d] = call[d]
           /\ IF found THEN call'[c].pc = pc /\ call'[c].vm = v ELSE call'[c] = call[c]
  <1>. DEFINE new == [pc |-> pc, vm |-> v, name |-> n, live |-> pc \in {"startPod", "stopFind"}]
  <1>1. new \in CallRecord  BY DEF CallRecord
  <1>2. call[c].pc = "idle"  BY DEF Arrive, In
  <1>3. CASE found
    <2>1. call' = [call EXCEPT ![c] = new]  BY <1>3 DEF Arrive
    <2>2. new.pc = pc /\ new.vm = v  OBVIOUS
    <2>. HIDE DEF new
    <2>. QED  BY <1>1, <1>2, <1>3, <2>1, <2>2 DEF CallsOK
  <1>4. CASE ~ found
    BY <1>2, <1>4 DEF Arrive, CallsOK
  <1>. QED  BY <1>3, <1>4

-----------------------------------------------------------------------------
(* Most steps move one call and touch neither pods nor VMs.                 *)

(* The step moves call c between places that are not those of              *)
(* RunPodSandbox, about a VM that something knows already, and writes at   *)
(* most the containers of the VM that c is about.                          *)
QuietStep(c) ==
    /\ call' \in [Calls -> CallRecord]
    /\ \A d \in Calls \ {c} : call'[d].pc = call[d].pc /\ call'[d].vm = call[d].vm
    /\ ~ Running(c) /\ ~ In(c, "stopPod") /\ ~ Running(c)'
    /\ call'[c].pc # "idle" => call'[c].vm \in PodVms
    /\ \/ call'[c].vm = NoCall \/ call'[c].vm = call[c].vm
       \/ pods[call'[c].vm] # "none" \/ \E n \in Names : Exists(call'[c].vm, n)
    /\ containers' \in [PodVms \X Names -> {"none", "created", "running", "exited"}]
    /\ \A v \in PodVms, n \in Names :
          v # call[c].vm => containers'[<<v, n>>] = containers[<<v, n>>]
    /\ writer' \in Calls \cup {NoCall} /\ up' \in BOOLEAN
    /\ UNCHANGED <<pods, daemonVms, slipped>>

\* Such a step disturbs no RunPodSandbox, and no account of a VM.
LEMMA QuietKeeps ==
    ASSUME CriInv, NEW c \in Calls, QuietStep(c)
    PROVE  CriInv'
  <1>. USE DEF CriInv, QuietStep
  <1>1. CriTypeOK'  BY DEF CriTypeOK, CallRecord
  <1>2. CallsOK'  BY DEF CallsOK
  <1>3. RunAlone'
    <2>. SUFFICES ASSUME NEW d \in Calls, Running(d)'
                  PROVE  /\ pods'[call'[d].vm] = "none"
                         /\ \A n \in Names : containers'[<<call'[d].vm, n>>] = "none"
                         /\ \A e \in Calls \ {d} : call'[e].vm # call'[d].vm
      BY DEF RunAlone, Exists
    <2>1. d # c /\ Running(d) /\ call'[d].vm = call[d].vm  BY DEF Running
    <2>2. call[d].vm \in PodVms  BY <2>1 DEF Running, CallsOK
    <2>3. call[c].vm # call[d].vm  BY <2>1 DEF RunAlone
    <2>4. pods[call[d].vm] = "none" /\ \A n \in Names : ~ Exists(call[d].vm, n)
      BY <2>1 DEF RunAlone
    <2>5. call'[c].vm # call[d].vm  BY <2>2, <2>3, <2>4, CriAssumption
    <2>6. \A n \in Names : containers'[<<call[d].vm, n>>] = "none"
      BY <2>2, <2>3, <2>4 DEF Exists
    <2>. QED  BY <2>1, <2>3, <2>4, <2>5, <2>6 DEF RunAlone
  <1>4. RecordedHasVm'  BY DEF RecordedHasVm, In, Running
  <1>5. PodsAccountForVms'
    <2>. SUFFICES ASSUME NEW v \in PodVms \ slipped
                  PROVE  /\ v \in daemonVms => \/ pods[v] # "none"
                                               \/ \E d \in Calls : call'[d].vm = v /\ Running(d)'
                         /\ pods[v] = "ready" => \/ v \in daemonVms
                                                 \/ \E d \in Calls : call'[d].vm = v /\ In(d, "stopPod")'
      BY DEF PodsAccountForVms, Running
    <2>1. v \in daemonVms => \/ pods[v] # "none"
                             \/ \E d \in Calls : call[d].vm = v /\ Running(d)
      BY DEF PodsAccountForVms, Running
    <2>2. pods[v] = "ready" => \/ v \in daemonVms
                               \/ \E d \in Calls : call[d].vm = v /\ In(d, "stopPod")
      BY DEF PodsAccountForVms
    <2>3. \A d \in Calls : Running(d) => Running(d)' /\ call'[d].vm = call[d].vm  BY
                                                                                     DEF Running
    <2>4. \A d \in Calls : In(d, "stopPod") => In(d, "stopPod")' /\ call'[d].vm = call[d].vm
      BY DEF In
    <2>. HIDE DEF CriInv, QuietStep
    <2>. QED  BY <2>1, <2>2, <2>3, <2>4
  <1>. QED  BY <1>1, <1>2, <1>3, <1>4, <1>5


(* A call has arrived, and has been turned away or is about a VM that the  *)
(* bridge knows.                                                           *)
Arrived(c, v, pc) ==
    /\ call' \in [Calls -> CallRecord] /\ call[c].pc = "idle"
    /\ \A d \in Calls \ {c} : call'[d] = call[d]
    /\ \/ call'[c] = call[c]
       \/ /\ call'[c].pc = pc /\ call'[c].vm = v
          /\ pods[v] # "none" \/ \E n \in Names : Exists(v, n)

\* A call arrives that asks for a pod, or for a container.
LEMMA ArriveKnown ==
    ASSUME CallsOK, NEW c \in Calls, NEW v \in PodVms, NEW pc \in CallSteps,
           \/ \E n \in Names \cup {NoCall} : Arrive(c, v, n, pods[v] # "none", pc)
           \/ \E n \in Names : Arrive(c, v, n, Exists(v, n), pc)
    PROVE  Arrived(c, v, pc)
  <1>1. PICK n \in Names \cup {NoCall} :
           \/ Arrive(c, v, n, pods[v] # "none", pc)
           \/ n \in Names /\ Arrive(c, v, n, Exists(v, n), pc)
    OBVIOUS
  <1>. DEFINE new == [pc |-> pc, vm |-> v, name |-> n, live |-> pc \in {"startPod", "stopFind"}]
  <1>2. new \in CallRecord /\ new.pc = pc /\ new.vm = v  BY DEF CallRecord
  <1>3. /\ call[c].pc = "idle"
        /\ \/ call' = call
           \/ /\ call' = [call EXCEPT ![c] = new]
              /\ pods[v] # "none" \/ \E m \in Names : Exists(v, m)
    BY <1>1 DEF Arrive, In
  <1>. HIDE DEF new
  <1>. QED  BY <1>2, <1>3 DEF CallsOK, Arrived

\* An arrival that leaves the maps alone, but for the mutex, is a quiet step.
LEMMA ArrivedQuiet ==
    ASSUME CriInv, NEW c \in Calls, NEW v \in PodVms,
           NEW pc \in CallSteps \ {"idle", "runStart", "runRecord", "runDelete"},
           Arrived(c, v, pc), writer' \in {writer, c},
           UNCHANGED <<pods, containers, up, daemonVms, slipped>>
    PROVE  CriInv'
  <1>1. QuietStep(c)
    BY DEF CriInv, CriTypeOK, CallsOK, Arrived, QuietStep, Running, In
  <1>. QED  BY <1>1, QuietKeeps

\* The calls that ask for something the bridge knows.
LEMMA ArrivalsKeep ==
    ASSUME CriInv, NEW c \in Calls, NEW v \in PodVms,
           \/ StopPodSandbox(c, v) \/ RemovePodSandbox(c, v)
           \/ \E n \in Names : \/ CreateContainer(c, v, n) \/ StartContainer(c, v, n)
                               \/ StopContainer(c, v, n) \/ RemoveContainer(c, v, n)
                               \/ Exec(c, v, n)
    PROVE  CriInv'
  <1>0. CallsOK  BY DEF CriInv
  <1>1. PICK pc \in CallSteps \ {"idle", "runStart", "runRecord", "runDelete"} :
           \/ \E n \in Names \cup {NoCall} : Arrive(c, v, n, pods[v] # "none", pc)
           \/ \E n \in Names : Arrive(c, v, n, Exists(v, n), pc)
    BY DEF StopPodSandbox, RemovePodSandbox, CreateContainer, StartContainer, StopContainer,
           RemoveContainer, Exec, CallSteps
  <1>2. Arrived(c, v, pc)  BY <1>0, <1>1, ArriveKnown
  <1>3. writer' \in {writer, c} /\ UNCHANGED <<pods, containers, up, daemonVms, slipped>>
    BY DEF StopPodSandbox, RemovePodSandbox, CreateContainer, StartContainer, StopContainer,
           RemoveContainer, Exec, mapsFrame
  <1>. QED  BY <1>2, <1>3, ArrivedQuiet

\* The steps of calls on containers, which move from place to place or return.
LEMMA ContainersKeep ==
    ASSUME CriInv, NEW c \in Calls,
           \/ Agent(c) \/ StartPod(c) \/ StartMark(c) \/ StopFind(c) \/ StopMark(c)
           \/ RUnlock(c) /\ ~ Crash
           \/ ExecPod(c) /\ ~ Crash
    PROVE  CriInv'
  <1>. DEFINE From == {"createExec", "startPod", "startExec", "startMark", "stopFind",
                       "stopExec", "stopMark", "runlock", "execPod"}
              To == {"createRecord", "startExec", "startMark", "stopExec", "stopMark", "hung"}
  <1>0. CallsOK  BY DEF CriInv
  <1>1. call[c].pc \in From /\ (Return(c) \/ \E pc \in To : Goto(c, pc))
    BY DEF Agent, CreateExec, StartExec, StopExec, StartPod, StartMark, StopFind, StopMark,
           RUnlock, ExecPod, In
  <1>2. UNCHANGED <<pods, writer, up, daemonVms, slipped>>
    BY DEF Agent, CreateExec, StartExec, StopExec, StartPod, StartMark, StopFind, StopMark,
           RUnlock, ExecPod, mapsFrame
  <1>3. \/ containers' = containers
        \/ \E s \in {"running", "exited"} : containers' = [containers EXCEPT ![Key(c)] = s]
    BY DEF Agent, CreateExec, StartExec, StopExec, StartPod, StartMark, StopFind, StopMark,
           RUnlock, ExecPod, mapsFrame, container
  <1>4. /\ containers' \in [PodVms \X Names -> {"none", "created", "running", "exited"}]
        /\ \A v \in PodVms, n \in Names :
              v # call[c].vm => containers'[<<v, n>>] = containers[<<v, n>>]
    BY <1>3 DEF CriInv, CriTypeOK, Key
  <1>5. /\ call' \in [Calls -> CallRecord]
        /\ \A d \in Calls \ {c} : call'[d] = call[d]
        /\ \/ call'[c].pc = "idle" /\ call'[c].vm = NoCall
           \/ call'[c].pc \in To /\ call'[c].vm = call[c].vm
    <2>1. CASE Return(c)  BY <1>0, <2>1, ReturnMoves
    <2>2. ASSUME NEW pc \in To, Goto(c, pc) PROVE <1>5
      <3>1. pc \in CallSteps  BY DEF CallSteps
      <3>. QED  BY <1>0, <2>2, <3>1, GotoMoves
    <2>. QED  BY <1>1, <2>1, <2>2
  <1>6. QuietStep(c)
    BY <1>0, <1>1, <1>2, <1>4, <1>5 DEF CriInv, CriTypeOK, CallsOK, QuietStep, Running, In
  <1>. QED  BY <1>6, QuietKeeps

\* CreateContainer records its container, and parts other calls from an older one.
LEMMA CreateRecordKeeps ==
    ASSUME CriInv, NEW c \in Calls, CreateRecord(c)
    PROVE  CriInv'
  <1>1. /\ containers' \in [PodVms \X Names -> {"none", "created", "running", "exited"}]
        /\ \A v \in PodVms, n \in Names :
              v # call[c].vm => containers'[<<v, n>>] = containers[<<v, n>>]
    BY DEF CriInv, CriTypeOK, Key, CreateRecord
  <1>2. Idle \in CallRecord /\ Idle.pc = "idle" /\ Idle.vm = NoCall
    BY DEF Idle, CallRecord, CallSteps
  <1>3. \A d \in Calls : LET new == [call[d] EXCEPT !.live = @ /\ Key(d) # Key(c)]
                         IN  new \in CallRecord /\ new.pc = call[d].pc /\ new.vm = call[d].vm
    <2>. SUFFICES ASSUME NEW d \in Calls, NEW b \in BOOLEAN
                  PROVE  LET new == [call[d] EXCEPT !.live = b]
                         IN  new \in CallRecord /\ new.pc = call[d].pc /\ new.vm = call[d].vm
      OBVIOUS
    <2>1. call[d] \in CallRecord  BY DEF CriInv, CallsOK
    <2>. QED  BY <2>1 DEF CallRecord
  <1>4. /\ call' \in [Calls -> CallRecord] /\ call'[c] = Idle
        /\ \A d \in Calls \ {c} : call'[d].pc = call[d].pc /\ call'[d].vm = call[d].vm
    BY <1>2, <1>3 DEF CreateRecord
  <1>5. QuietStep(c)
    BY <1>1, <1>2, <1>4 DEF CriInv, CriTypeOK, QuietStep, Running, In, CreateRecord
  <1>. QED  BY <1>5, QuietKeeps

-----------------------------------------------------------------------------
(* The steps that make, record, stop and remove pods and VMs.               *)

\* RunPodSandbox takes an id that nothing refers to.
LEMMA RunPodKeeps ==
    ASSUME CriInv, NEW c \in Calls, NEW v \in PodVms, RunPodSandbox(c, v)
    PROVE  CriInv'
  <1>. USE DEF CriInv
  <1>0. /\ call[c].pc = "idle" /\ v \notin daemonVms /\ pods[v] = "none"
        /\ \A n \in Names : ~ Exists(v, n)
        /\ \A d \in Calls : call[d].vm # v
        /\ UNCHANGED <<pods, containers, writer, up>>
    BY DEF RunPodSandbox, Fresh, In, mapsFrame
  <1>1. CASE /\ daemonVms' = daemonVms \cup {v} /\ slipped' = slipped \ {v}
             /\ call' = [call EXCEPT ![c] = [Idle EXCEPT !.pc = "runStart", !.vm = v]]
    <2>. DEFINE new == [Idle EXCEPT !.pc = "runStart", !.vm = v]
    <2>1. new \in CallRecord /\ new.pc = "runStart" /\ new.vm = v
      BY DEF Idle, CallRecord, CallSteps
    <2>2. /\ call' \in [Calls -> CallRecord] /\ call'[c] = new
          /\ \A d \in Calls \ {c} : call'[d] = call[d]
      BY <1>1, <2>1 DEF CallsOK
    <2>. HIDE DEF new
    <2>3. CriTypeOK'  BY <1>0, <1>1, <2>2 DEF CriTypeOK, CallRecord
    <2>4. CallsOK'  BY <2>1, <2>2 DEF CallsOK
    <2>5. RunAlone'
      BY <1>0, <2>1, <2>2 DEF RunAlone, Running, Exists
    <2>6. RecordedHasVm'
      BY <1>0, <1>1, <2>1, <2>2 DEF RecordedHasVm, In
    <2>7. PodsAccountForVms'
      BY <1>0, <1>1, <2>1, <2>2 DEF PodsAccountForVms, In
    <2>. QED  BY <2>3, <2>4, <2>5, <2>6, <2>7
  <1>2. CASE UNCHANGED <<call, daemonVms, slipped>>
    BY <1>0, <1>2 DEF CriTypeOK, CallsOK, RunAlone, Running, Exists, RecordedHasVm, In,
                      PodsAccountForVms
  <1>3. CASE daemonVms' = daemonVms \cup {v} /\ slipped' = slipped \cup {v} /\ UNCHANGED call
    BY <1>0, <1>3 DEF CriTypeOK, CallsOK, RunAlone, Running, Exists, RecordedHasVm, In,
                      PodsAccountForVms
  <1>. QED  BY <1>1, <1>2, <1>3 DEF RunPodSandbox

\* StartVm finds the VM, or it will be deleted.
LEMMA RunStartKeeps ==
    ASSUME CriInv, NEW c \in Calls, RunStart(c)
    PROVE  CriInv'
  <1>. USE DEF CriInv
  <1>0. call[c].pc = "runStart" /\ UNCHANGED <<pods, containers, writer, up, daemonVms, slipped>>
    BY DEF RunStart, In, mapsFrame
  <1>1. PICK pc \in {"runRecord", "runDelete"} :
           Goto(c, pc) /\ (pc = "runRecord" => call[c].vm \in daemonVms)
    BY DEF RunStart
  <1>2. /\ call' \in [Calls -> CallRecord]
        /\ call'[c].pc = pc /\ call'[c].vm = call[c].vm
        /\ \A d \in Calls \ {c} : call'[d] = call[d]
    BY <1>1, GotoMoves DEF CallSteps
  <1>3. CriTypeOK'  BY <1>0, <1>2 DEF CriTypeOK, CallRecord
  <1>4. CallsOK'  BY <1>0, <1>2 DEF CallsOK
  <1>5. RunAlone'  BY <1>0, <1>2 DEF RunAlone, Running, Exists
  <1>6. RecordedHasVm'  BY <1>0, <1>1, <1>2 DEF RecordedHasVm, In
  <1>7. PodsAccountForVms'  BY <1>0, <1>2 DEF PodsAccountForVms, In
  <1>. QED  BY <1>3, <1>4, <1>5, <1>6, <1>7

\* DeleteVm takes the VM from the daemon, or leaves it slipped.
LEMMA RunDeleteKeeps ==
    ASSUME CriInv, NEW c \in Calls, RunDelete(c)
    PROVE  CriInv'
  <1>. USE DEF CriInv
  <1>0. /\ call[c].pc = "runDelete" /\ call[c].vm \in PodVms /\ pods[call[c].vm] = "none"
        /\ UNCHANGED <<pods, containers, writer, up>>
    BY DEF RunDelete, In, mapsFrame, RunAlone, Running, CallsOK
  <1>1. /\ daemonVms' \subseteq daemonVms /\ slipped \subseteq slipped'
        /\ slipped' \subseteq slipped \cup {call[c].vm}
        /\ daemonVms \subseteq daemonVms' \cup {call[c].vm}
        /\ call[c].vm \in daemonVms' => call[c].vm \in slipped'
    BY DEF RunDelete, DeleteVm
  <1>2. /\ call' \in [Calls -> CallRecord]
        /\ call'[c].pc = "idle" /\ call'[c].vm = NoCall
        /\ \A d \in Calls \ {c} : call'[d] = call[d]
    BY ReturnMoves DEF RunDelete
  <1>3. CriTypeOK'  BY <1>0, <1>1, <1>2 DEF CriTypeOK, CallRecord
  <1>4. CallsOK'  BY <1>2 DEF CallsOK
  <1>5. RunAlone'
    BY <1>0, <1>2, CriAssumption DEF RunAlone, Running, Exists, CallsOK
  <1>6. RecordedHasVm'
    BY <1>0, <1>1, <1>2 DEF RecordedHasVm, In, RunAlone, Running
  <1>7. PodsAccountForVms'
    BY <1>0, <1>1, <1>2 DEF PodsAccountForVms, In
  <1>. QED  BY <1>3, <1>4, <1>5, <1>6, <1>7

\* The pod is recorded, and its VM is there or has slipped.
LEMMA RunRecordKeeps ==
    ASSUME CriInv, NEW c \in Calls, RunRecord(c)
    PROVE  CriInv'
  <1>. USE DEF CriInv
  <1>0. /\ call[c].pc = "runRecord" /\ call[c].vm \in PodVms
        /\ call[c].vm \in daemonVms \cup slipped
        /\ UNCHANGED <<containers, writer, up, daemonVms, slipped>>
    BY DEF RunRecord, In, RecordedHasVm, CallsOK
  <1>1. /\ pods' \in [PodVms -> {"none", "ready", "notready"}] /\ pods'[call[c].vm] = "ready"
        /\ \A v \in PodVms \ {call[c].vm} : pods'[v] = pods[v]
    BY <1>0 DEF RunRecord, CriTypeOK
  <1>2. /\ call' \in [Calls -> CallRecord]
        /\ call'[c].pc = "idle" /\ call'[c].vm = NoCall
        /\ \A d \in Calls \ {c} : call'[d] = call[d]
    BY ReturnMoves DEF RunRecord
  <1>3. CriTypeOK'  BY <1>0, <1>1, <1>2 DEF CriTypeOK, CallRecord
  <1>4. CallsOK'  BY <1>2 DEF CallsOK
  <1>5. RunAlone'
    BY <1>0, <1>1, <1>2, CriAssumption DEF RunAlone, Running, Exists, CallsOK
  <1>6. RecordedHasVm'  BY <1>0, <1>2 DEF RecordedHasVm, In
  <1>7. PodsAccountForVms'
    BY <1>0, <1>1, <1>2 DEF PodsAccountForVms, In
  <1>. QED  BY <1>3, <1>4, <1>5, <1>6, <1>7

\* No RunPodSandbox is at the VM of another call.
LEMMA NotRunning ==
    ASSUME CriInv, NEW c \in Calls, call[c].pc # "idle", ~ Running(c), NEW d \in Calls, Running(d)
    PROVE  call[c].vm \in PodVms /\ call[d].vm # call[c].vm
  BY DEF CriInv, CallsOK, RunAlone, Running

\* StopVm takes the VM, and its StopPodSandbox goes on to mark the pod.
LEMMA StopVmKeeps ==
    ASSUME CriInv, NEW c \in Calls, StopVm(c)
    PROVE  CriInv'
  <1>. USE DEF CriInv
  <1>0. /\ call[c].pc = "stopVm" /\ UNCHANGED <<pods, containers, writer, up, slipped>>
        /\ daemonVms' \in {daemonVms, daemonVms \ {call[c].vm}}
    BY DEF StopVm, In, mapsFrame
  <1>1. /\ call' \in [Calls -> CallRecord]
        /\ call'[c].pc = "stopPod" /\ call'[c].vm = call[c].vm
        /\ \A d \in Calls \ {c} : call'[d] = call[d]
    BY GotoMoves DEF StopVm, CallSteps
  <1>2. \A d \in Calls : Running(d) => call[d].vm # call[c].vm
    BY <1>0, NotRunning DEF Running
  <1>3. CriTypeOK'  BY <1>0, <1>1 DEF CriTypeOK, CallRecord
  <1>4. CallsOK'  BY <1>0, <1>1 DEF CallsOK
  <1>5. RunAlone'  BY <1>0, <1>1 DEF RunAlone, Running, Exists
  <1>6. RecordedHasVm'  BY <1>0, <1>1, <1>2 DEF RecordedHasVm, In, Running
  <1>7. PodsAccountForVms'  BY <1>0, <1>1 DEF PodsAccountForVms, In
  <1>. QED  BY <1>3, <1>4, <1>5, <1>6, <1>7

\* StopPodSandbox marks the pod, so that it no longer counts as ready.
LEMMA StopPodKeeps ==
    ASSUME CriInv, NEW c \in Calls, StopPod(c)
    PROVE  CriInv'
  <1>. USE DEF CriInv
  <1>0. /\ call[c].pc = "stopPod" /\ call[c].vm \in PodVms
        /\ UNCHANGED <<containers, writer, up, daemonVms, slipped>>
    BY DEF StopPod, In, CallsOK
  <1>1. /\ pods' \in [PodVms -> {"none", "ready", "notready"}] /\ pods'[call[c].vm] # "ready"
        /\ pods'[call[c].vm] = "none" <=> pods[call[c].vm] = "none"
        /\ \A v \in PodVms \ {call[c].vm} : pods'[v] = pods[v]
    BY <1>0 DEF StopPod, Pod, CriTypeOK
  <1>2. /\ call' \in [Calls -> CallRecord]
        /\ call'[c].pc = "idle" /\ call'[c].vm = NoCall
        /\ \A d \in Calls \ {c} : call'[d] = call[d]
    BY ReturnMoves DEF StopPod
  <1>3. CriTypeOK'  BY <1>0, <1>1, <1>2 DEF CriTypeOK, CallRecord
  <1>4. CallsOK'  BY <1>2 DEF CallsOK
  <1>5. RunAlone'
    BY <1>0, <1>1, <1>2, CriAssumption DEF RunAlone, Running, Exists, CallsOK
  <1>6. RecordedHasVm'  BY <1>0, <1>2 DEF RecordedHasVm, In
  <1>7. PodsAccountForVms'
    BY <1>0, <1>1, <1>2 DEF PodsAccountForVms, In
  <1>. QED  BY <1>3, <1>4, <1>5, <1>6, <1>7

\* RemovePodSandbox drops the pod, and with it the VM or the account of it.
LEMMA RemovePodKeeps ==
    ASSUME CriInv, NEW c \in Calls, RemovePod(c)
    PROVE  CriInv'
  <1>. USE DEF CriInv
  <1>0. /\ call[c].pc = "removeVm" /\ call[c].vm \in PodVms
        /\ UNCHANGED <<containers, up>> /\ writer' = NoCall
    BY DEF RemovePod, In, CallsOK
  <1>1. /\ pods' \in [PodVms -> {"none", "ready", "notready"}] /\ pods'[call[c].vm] = "none"
        /\ \A v \in PodVms \ {call[c].vm} : pods'[v] = pods[v]
    BY <1>0 DEF RemovePod, CriTypeOK
  <1>2. /\ daemonVms' \subseteq daemonVms /\ slipped \subseteq slipped'
        /\ slipped' \subseteq slipped \cup {call[c].vm}
        /\ daemonVms \subseteq daemonVms' \cup {call[c].vm}
        /\ call[c].vm \in daemonVms' => call[c].vm \in slipped'
    BY DEF RemovePod, DeleteVm
  <1>3. /\ call' \in [Calls -> CallRecord]
        /\ call'[c].pc = "idle" /\ call'[c].vm = NoCall
        /\ \A d \in Calls \ {c} : call'[d] = call[d]
    BY ReturnMoves DEF RemovePod
  <1>4. \A d \in Calls : Running(d) => call[d].vm # call[c].vm
    BY <1>0, NotRunning DEF Running
  <1>5. CriTypeOK'  BY <1>0, <1>1, <1>2, <1>3 DEF CriTypeOK, CallRecord
  <1>6. CallsOK'  BY <1>3 DEF CallsOK
  <1>7. RunAlone'
    BY <1>0, <1>1, <1>3, <1>4, CriAssumption DEF RunAlone, Running, Exists, CallsOK
  <1>8. RecordedHasVm'  BY <1>0, <1>2, <1>3, <1>4 DEF RecordedHasVm, In, Running
  <1>9. PodsAccountForVms'
    BY <1>0, <1>1, <1>2, <1>3 DEF PodsAccountForVms, In
  <1>. QED  BY <1>5, <1>6, <1>7, <1>8, <1>9

\* When the bridge ends, its maps and calls are gone and every VM has slipped.
LEMMA CrashKeeps ==
    ASSUME CriInv, Crash
    PROVE  CriInv'
  <1>. USE DEF CriInv, Crash
  <1>1. Idle \in CallRecord /\ Idle.pc = "idle" /\ Idle.vm = NoCall /\ Idle.live = FALSE
    BY DEF Idle, CallRecord, CallSteps
  <1>2. call' \in [Calls -> CallRecord] /\ \A c \in Calls : call'[c] = Idle  BY <1>1
  <1>3. CriTypeOK'
    BY <1>2 DEF CriTypeOK, CallRecord, NoContainers
  <1>4. CallsOK' /\ RunAlone' /\ RecordedHasVm'
    BY <1>1, <1>2 DEF CallsOK, RunAlone, RecordedHasVm, Running, In
  <1>5. PodsAccountForVms'  BY DEF PodsAccountForVms, CriTypeOK
  <1>. QED  BY <1>3, <1>4, <1>5

\* A VM the daemon gives up by itself has slipped.
LEMMA DropKeeps ==
    ASSUME CriInv, NEW v \in PodVms, DaemonDropsVm(v)
    PROVE  CriInv'
  <1>. USE DEF CriInv, DaemonDropsVm, mapsFrame
  <1>1. CriTypeOK' /\ CallsOK'  BY DEF CriTypeOK, CallsOK
  <1>2. RunAlone' /\ RecordedHasVm'  BY DEF RunAlone, RecordedHasVm, Running, In, Exists
  <1>3. PodsAccountForVms'  BY DEF PodsAccountForVms, In
  <1>. QED  BY <1>1, <1>2, <1>3

-----------------------------------------------------------------------------

\* A bridge that starts beside a daemon without VMs satisfies the invariant.
LEMMA CriInvInit == CriInit => CriInv
  <1>. SUFFICES ASSUME CriInit PROVE CriInv  OBVIOUS
  <1>. USE DEF CriInit
  <1>1. Idle \in CallRecord /\ Idle.pc = "idle" /\ Idle.vm = NoCall /\ Idle.live = FALSE
    BY DEF Idle, CallRecord, CallSteps
  <1>2. call \in [Calls -> CallRecord] /\ \A c \in Calls : call[c] = Idle  BY <1>1
  <1>3. CriTypeOK  BY <1>2 DEF CriTypeOK, CallRecord, NoContainers
  <1>4. CallsOK /\ RunAlone /\ RecordedHasVm
    BY <1>1, <1>2 DEF CallsOK, RunAlone, RecordedHasVm, Running, In
  <1>5. PodsAccountForVms  BY DEF PodsAccountForVms
  <1>. QED  BY <1>3, <1>4, <1>5 DEF CriInv

\* Every step of the bridge and of the daemon beside it keeps the invariant.
LEMMA CriInvStep == CriInv /\ [CriNext]_criVars => CriInv'
  <1>. SUFFICES ASSUME CriInv, [CriNext]_criVars PROVE CriInv'  OBVIOUS
  <1>1. ASSUME NEW c \in Calls, NEW v \in PodVms,
               RunPodSandbox(c, v) \/ StopPodSandbox(c, v) \/ RemovePodSandbox(c, v)
        PROVE  CriInv'
    BY <1>1, RunPodKeeps, ArrivalsKeep
  <1>2. ASSUME NEW c \in Calls, NEW v \in PodVms, NEW n \in Names,
               \/ CreateContainer(c, v, n) \/ StartContainer(c, v, n) \/ StopContainer(c, v, n)
               \/ RemoveContainer(c, v, n) \/ Exec(c, v, n)
        PROVE  CriInv'
    BY <1>2, ArrivalsKeep
  <1>3. ASSUME NEW c \in Calls, Goes(c) PROVE CriInv'
    BY <1>3, RunStartKeeps, RunDeleteKeeps, RunRecordKeeps, StopVmKeeps, StopPodKeeps,
       RemovePodKeeps, CreateRecordKeeps, ContainersKeep, CrashKeeps DEF Goes
  <1>4. ASSUME NEW c \in Calls, Agent(c) PROVE CriInv'  BY <1>4, ContainersKeep
  <1>5. ASSUME NEW v \in PodVms, DaemonDropsVm(v) PROVE CriInv'  BY <1>5, DropKeeps
  <1>6. CASE CriStops  BY <1>6, CrashKeeps DEF CriStops
  <1>7. CASE CriRestart \/ UNCHANGED criVars
    <2>1. UNCHANGED <<pods, containers, writer, call, daemonVms, slipped>> /\ up' \in BOOLEAN
      BY <1>7 DEF CriRestart, criVars, CriInv, CriTypeOK
    <2>2. CriTypeOK' /\ CallsOK'  BY <2>1 DEF CriInv, CriTypeOK, CallsOK
    <2>3. RunAlone' /\ RecordedHasVm'
      BY <2>1 DEF CriInv, RunAlone, RecordedHasVm, Running, In, Exists
    <2>4. PodsAccountForVms'  BY <2>1 DEF CriInv, PodsAccountForVms, In
    <2>. QED  BY <2>2, <2>3, <2>4 DEF CriInv
  <1>. QED  BY <1>1, <1>2, <1>3, <1>4, <1>5, <1>6, <1>7 DEF CriNext

\* For any number of calls and VMs: a VM the daemon has belongs to a pod or to a
\* RunPodSandbox that will record or delete it, and a pod shown ready has its VM
\* until the StopPodSandbox that took it is done (RunPodSandbox, StopPodSandbox,
\* RemovePodSandbox).
THEOREM PodsAccountForVmsHolds == CriInit /\ [][CriNext]_criVars => []PodsAccountForVms
  <1>1. CriInv => PodsAccountForVms  BY DEF CriInv
  <1>. QED  BY <1>1, CriInvInit, CriInvStep, PTL
=============================================================================
