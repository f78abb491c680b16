------------------------- MODULE Teleport_proofs -------------------------
(***************************************************************************)
(* Theorems about Teleport, for every set of requests, VMs and targets,    *)
(* every assignment of the requests and every number of cancels.           *)
(***************************************************************************)
EXTENDS Teleport, TLAPS

\* A request names a VM and a target of the system.
LEMMA JobTyped ==
    ASSUME TypeOK, NEW s \in Teleports
    PROVE  Vm(s) \in Vms /\ To(s) \in Targets
BY TeleportAssumption DEF TypeOK, Vm, To

\* Writing one entry of the table of sockets.
LEMMA SockTyped ==
    ASSUME TypeOK, NEW t \in Targets, NEW v \in Vms, NEW q \in Teleports \cup {None}
    PROVE  [sock EXCEPT ![t][v] = q] \in [Targets -> [Vms -> Teleports \cup {None}]]
BY DEF TypeOK

\* The receiver a migration is sent to is a request's, or nobody's.
LEMMA ListenerTyped ==
    ASSUME NEW t PROVE Listener(t) \in Teleports \cup {None}
<1> DEFINE up == {q \in Teleports : To(q) = t /\ proc[q] = "listening"}
<1>1. CASE up = {}
  BY <1>1 DEF Listener
<1>2. CASE up # {}
  <2> DEFINE q == CHOOSE r \in up : TRUE
  <2>1. q \in up
    BY <1>2
  <2>2. Listener(t) = q
    BY <1>2 DEF Listener
  <2> HIDE DEF q
  <2> QED BY <2>1, <2>2
<1> QED BY <1>1, <1>2

\* A cancel leaves every migration in a state a hypervisor reports.
LEMMA CancelTyped ==
    ASSUME TypeOK, NEW v \in Vms, CancelMigration(v)
    PROVE  mig' \in [Vms -> [state : Raw, peer : Teleports \cup {None}]]
<1>1. [state |-> "cancelled", peer |-> None] \in [state : Raw, peer : Teleports \cup {None}]
  BY DEF Raw
<1>2. mig \in [Vms -> [state : Raw, peer : Teleports \cup {None}]]
  BY DEF TypeOK
<1>3. mig' = mig \/ mig' = [mig EXCEPT ![v] = [state |-> "cancelled", peer |-> None]]
  BY DEF CancelMigration, Over
<1> QED
  BY <1>1, <1>2, <1>3

\* No action takes a variable out of its type.
LEMMA TypeStep ==
    TypeOK /\ [Next]_vars => TypeOK'
<1> SUFFICES ASSUME TypeOK, [Next]_vars PROVE TypeOK'
  OBVIOUS
<1>1. ASSUME NEW s \in Teleports, CliFallback(s) PROVE TypeOK'
  BY <1>1 DEF CliFallback, Cli, Call, TypeOK
<1>2. ASSUME NEW s \in Teleports, CliReceived(s) PROVE TypeOK'
  BY <1>2 DEF CliReceived, Cli, targetVars, TypeOK, Raw
<1>3. ASSUME NEW s \in Teleports, CliLive(s) PROVE TypeOK'
  BY <1>3 DEF CliLive, Cli, targetVars, TypeOK, Raw
<1>4. ASSUME NEW s \in Teleports, CliWatched(s) PROVE TypeOK'
  BY <1>4 DEF CliWatched, Cli, targetVars, TypeOK, Raw
<1>5. ASSUME NEW s \in Teleports, TeleportDropped(s) PROVE TypeOK'
  BY <1>5 DEF TeleportDropped, Handler, Cli, targetVars, TypeOK, Raw
<1>6. ASSUME NEW s \in Teleports, TeleportBegin(s) PROVE TypeOK'
  BY <1>6 DEF TeleportBegin, Report, Handler, Call, Cli, HandlerEnds, TypeOK, Raw
<1>7. ASSUME NEW s \in Teleports, TeleportRefused(s) PROVE TypeOK'
  BY <1>7, JobTyped DEF TeleportRefused, Report, Handler, Cli, HandlerEnds, TypeOK, Raw
<1>8. ASSUME NEW s \in Teleports, TeleportSpawn(s) PROVE TypeOK'
  BY <1>8 DEF TeleportSpawn, Handler, Task, targetVars, TypeOK, Raw
<1>9. ASSUME NEW s \in Teleports, TeleportMark(s) PROVE TypeOK'
  BY <1>9 DEF TeleportMark, Report, Handler, Cli, HandlerEnds, targetVars, TypeOK, Raw
<1>10. ASSUME NEW s \in Teleports, ReceiveStart(s) PROVE TypeOK'
  <2>1. sock' \in [Targets -> [Vms -> Teleports \cup {None}]]
    <3>1. \/ sock' = [sock EXCEPT ![To(s)][Vm(s)] = s]
          \/ sock' = [sock EXCEPT ![To(s)][Vm(s)] = None]
      BY <1>10 DEF ReceiveStart
    <3> QED
      BY <3>1, JobTyped, SockTyped
  <2>2. proc' \in [Teleports -> {None, "up", "listening"} \cup Vms]
    BY <1>10 DEF ReceiveStart, TypeOK
  <2> QED
    BY <1>10, <2>1, <2>2 DEF ReceiveStart, Answer, TypeOK
<1>11. ASSUME NEW s \in Teleports, ReceiveListen(s) PROVE TypeOK'
  <2>1. sock' \in [Targets -> [Vms -> Teleports \cup {None}]]
    <3>1. sock' = sock \/ sock' = [sock EXCEPT ![To(s)][Vm(s)] = None]
      BY <1>11 DEF ReceiveListen, Kill
    <3>2. sock \in [Targets -> [Vms -> Teleports \cup {None}]]
      BY DEF TypeOK
    <3>3. [sock EXCEPT ![To(s)][Vm(s)] = None] \in [Targets -> [Vms -> Teleports \cup {None}]]
      BY JobTyped, SockTyped
    <3> QED
      BY <3>1, <3>2, <3>3
  <2>2. sock[To(s)][Vm(s)] \in Teleports \cup {None}
    BY JobTyped DEF TypeOK
  <2>3. proc' \in [Teleports -> {None, "up", "listening"} \cup Vms]
    BY <1>11, <2>2 DEF ReceiveListen, Kill, TypeOK
  <2> QED
    BY <1>11, <2>1, <2>3 DEF ReceiveListen, Answer, TypeOK
<1>12. ASSUME NEW s \in Teleports, ReceiveReturn(s) PROVE TypeOK'
  <2>1. sock' \in [Targets -> [Vms -> Teleports \cup {None}]]
    BY <1>12, JobTyped, SockTyped DEF ReceiveReturn, Kill, TypeOK
  <2> QED
    BY <1>12, <2>1 DEF ReceiveReturn, Answer, Kill, TypeOK
<1>13. ASSUME NEW s \in Teleports, SendMigration(s) PROVE TypeOK'
  <2>1. Vm(s) \in Vms /\ Listener(To(s)) \in Teleports \cup {None}
    BY JobTyped, ListenerTyped
  <2>2. mig' \in [Vms -> [state : Raw, peer : Teleports \cup {None}]]
    BY <1>13, <2>1 DEF SendMigration, TypeOK, Raw
  <2>3. abandoned' \subseteq Vms
    BY <1>13, <2>1 DEF SendMigration, TypeOK
  <2> QED
    BY <1>13, <2>2, <2>3 DEF SendMigration, Task, taskFrame, targetVars, TypeOK
<1>14. ASSUME NEW s \in Teleports, Poll(s) PROVE TypeOK'
  <2>1. mig[Vm(s)].state \in Raw
    BY JobTyped DEF TypeOK
  <2>2. tpc'[s] \in {"pause", "resume", "poll"}
    BY <1>14 DEF Poll, Task, TypeOK
  <2> QED
    BY <1>14, <2>1, <2>2 DEF Poll, Report, Task, taskFrame, targetVars, TypeOK
<1>15. ASSUME NEW s \in Teleports, PollError(s) PROVE TypeOK'
  BY <1>15, JobTyped DEF PollError, Task, taskFrame, targetVars, TypeOK, Raw
<1>16. ASSUME NEW s \in Teleports, PollTimeout(s) PROVE TypeOK'
  <2>1. mig' \in [Vms -> [state : Raw, peer : Teleports \cup {None}]]
    BY <1>16, CancelTyped, JobTyped DEF PollTimeout
  <2>2. abandoned' \subseteq Vms
    BY <1>16, JobTyped DEF PollTimeout, TypeOK
  <2> QED
    BY <1>16, <2>1, <2>2 DEF PollTimeout, Task, taskFrame, targetVars, TypeOK
<1>17. ASSUME NEW s \in Teleports, SourcePause(s) PROVE TypeOK'
  BY <1>17, JobTyped DEF SourcePause, Task, taskFrame, targetVars, TypeOK, Raw
<1>18. ASSUME NEW s \in Teleports, SourceRemove(s) PROVE TypeOK'
  BY <1>18, JobTyped DEF SourceRemove, Task, taskFrame, targetVars, TypeOK, Raw
<1>19. ASSUME NEW s \in Teleports, AdoptQuery(s) PROVE TypeOK'
  BY <1>19 DEF AdoptQuery, Task, taskFrame, targetVars, TypeOK, Raw
<1>20. ASSUME NEW s \in Teleports, AdoptInsert(s) PROVE TypeOK'
  BY <1>20, JobTyped DEF AdoptInsert, Task, taskFrame, targetVars, TypeOK, Raw
<1>21. ASSUME NEW s \in Teleports, TaskComplete(s) PROVE TypeOK'
  BY <1>21 DEF TaskComplete, Report, Task, taskFrame, targetVars, TypeOK, Raw
<1>22. ASSUME NEW s \in Teleports, SourceResume(s) PROVE TypeOK'
  <2>1. vm' \in [Vms -> {"running", "paused"}] /\ unresumed' \subseteq Vms
    <3>1. vm' = vm \/ vm' = [vm EXCEPT ![Vm(s)] = "running"]
      BY <1>22 DEF SourceResume
    <3>2. unresumed' \subseteq unresumed \cup {Vm(s)}
      BY <1>22 DEF SourceResume
    <3>3. vm \in [Vms -> {"running", "paused"}] /\ unresumed \subseteq Vms
      BY DEF TypeOK
    <3>4. Vm(s) \in Vms
      BY JobTyped
    <3> QED
      BY <3>1, <3>2, <3>3, <3>4
  <2> QED
    <3>1. tpc' = [tpc EXCEPT ![s] = "fail"]
      BY <1>22 DEF SourceResume, Task
    <3>2. UNCHANGED <<status, here, there, mig, abandoned, job, cli, hpc, reply, rpc, proc, sock,
                      cancel, cancels>>
      BY <1>22 DEF SourceResume, taskFrame, targetVars
    <3> QED
      BY <2>1, <3>1, <3>2 DEF TypeOK
<1>23. ASSUME NEW s \in Teleports, TaskFail(s) PROVE TypeOK'
  BY <1>23 DEF TaskFail, Report, Task, taskFrame, targetVars, TypeOK, Raw
<1>24. ASSUME NEW s \in Teleports, CancelBegin(s) PROVE TypeOK'
  <2>1. cancels' \in 0 .. MaxCancels
    BY <1>24, TeleportAssumption DEF CancelBegin, TypeOK
  <2> QED
    BY <1>24, <2>1 DEF CancelBegin, Report, targetVars, TypeOK
<1>25. ASSUME NEW s \in Teleports, CancelAsk(s) PROVE TypeOK'
  <2>1. mig' \in [Vms -> [state : Raw, peer : Teleports \cup {None}]]
    <3>1. mig' = mig \/ mig' = [mig EXCEPT ![Vm(s)] = [state |-> "cancelled", peer |-> None]]
      BY <1>25 DEF CancelAsk, CancelMigration, Over
    <3>2. mig \in [Vms -> [state : Raw, peer : Teleports \cup {None}]]
      BY DEF TypeOK
    <3>3. [mig EXCEPT ![Vm(s)] = [state |-> "cancelled", peer |-> None]]
            \in [Vms -> [state : Raw, peer : Teleports \cup {None}]]
      BY <3>2, JobTyped DEF Raw
    <3> QED
      BY <3>1, <3>2, <3>3
  <2>2. cancel' \in [of : Teleports, pc : {"ask", "mark"}]
    BY <1>25 DEF CancelAsk
  <2> QED
    BY <1>25, <2>1, <2>2 DEF CancelAsk, targetVars, TypeOK
<1>26. ASSUME NEW s \in Teleports, CancelMark(s) PROVE TypeOK'
  BY <1>26 DEF CancelMark, Report, targetVars, TypeOK, Raw
<1>27. ASSUME NEW v \in Vms, StopAndCopy(v) PROVE TypeOK'
  BY <1>27 DEF StopAndCopy, MigrationFrame, TypeOK, Raw
<1>28. ASSUME NEW v \in Vms, MigrationLands(v) PROVE TypeOK'
  BY <1>28, JobTyped DEF MigrationLands, MigrationFrame, Over, TypeOK, Raw
<1>29. ASSUME NEW v \in Vms, MigrationFails(v) PROVE TypeOK'
  BY <1>29 DEF MigrationFails, MigrationFrame, Over, TypeOK, Raw
<1>30. CASE UNCHANGED vars
  BY <1>30 DEF TypeOK, vars, targetVars
<1> QED
  BY <1>1, <1>2, <1>3, <1>4, <1>5, <1>6, <1>7, <1>8, <1>9, <1>10, <1>11, <1>12, <1>13,
     <1>14, <1>15, <1>16, <1>17, <1>18, <1>19, <1>20, <1>21, <1>22, <1>23, <1>24, <1>25,
     <1>26, <1>27, <1>28, <1>29, <1>30 DEF Next, Command, Source, Target, Migrate,
     Cancelling

LEMMA TypeInit == Init => TypeOK
BY TeleportAssumption DEF Init, TypeOK, Raw

\* The variables keep their types (the registries hold ids of VMs, the sessions
\* only known statuses) for any number of requests, VMs and cancels.
THEOREM TypeCorrect == Spec => []TypeOK
BY TypeInit, TypeStep, PTL DEF Spec

----------------------------------------------------------------------------

\* How far a task has come says what has happened to its VM: past the polling loop
\* the migration is completed, and past the removal the source has lost the VM.
TaskKnows ==
    \A s \in Teleports :
        /\ tpc[s] \in {"pause", "remove", "adopt", "insert", "complete"} => mig[Vm(s)].state = "completed"
        /\ tpc[s] \in {"adopt", "insert", "complete"} => Vm(s) \notin here

Inv == TypeOK /\ TaskKnows /\ HandedOver

\* A completed migration stays completed: it is neither sent again nor cancelled.
\* No request moves to another VM, and the source never gets a VM back.
LEMMA CompletedStays ==
    ASSUME TypeOK, [Next]_vars
    PROVE  /\ job' = job /\ here' \subseteq here
           /\ \A w \in Vms : mig[w].state = "completed" => mig'[w].state = "completed"
<1> DEFINE Keeps == /\ job' = job /\ here' \subseteq here
                    /\ \A w \in Vms : mig[w].state = "completed" => mig'[w].state = "completed"
<1>1. ASSUME NEW s \in Teleports, CliFallback(s) PROVE Keeps
  BY <1>1 DEF CliFallback, TypeOK
<1>2. ASSUME NEW s \in Teleports, CliReceived(s) PROVE Keeps
  BY <1>2 DEF CliReceived, targetVars, TypeOK
<1>3. ASSUME NEW s \in Teleports, CliLive(s) PROVE Keeps
  BY <1>3 DEF CliLive, targetVars, TypeOK
<1>4. ASSUME NEW s \in Teleports, CliWatched(s) PROVE Keeps
  BY <1>4 DEF CliWatched, targetVars, TypeOK
<1>5. ASSUME NEW s \in Teleports, TeleportDropped(s) PROVE Keeps
  BY <1>5 DEF TeleportDropped, targetVars, TypeOK
<1>6. ASSUME NEW s \in Teleports, TeleportBegin(s) PROVE Keeps
  BY <1>6 DEF TeleportBegin, TypeOK
<1>7. ASSUME NEW s \in Teleports, TeleportRefused(s) PROVE Keeps
  BY <1>7 DEF TeleportRefused, TypeOK
<1>8. ASSUME NEW s \in Teleports, TeleportSpawn(s) PROVE Keeps
  BY <1>8 DEF TeleportSpawn, targetVars, TypeOK
<1>9. ASSUME NEW s \in Teleports, TeleportMark(s) PROVE Keeps
  BY <1>9 DEF TeleportMark, targetVars, TypeOK
<1>10. ASSUME NEW s \in Teleports, ReceiveStart(s) PROVE Keeps
  BY <1>10 DEF ReceiveStart, TypeOK
<1>11. ASSUME NEW s \in Teleports, ReceiveListen(s) PROVE Keeps
  BY <1>11 DEF ReceiveListen, TypeOK
<1>12. ASSUME NEW s \in Teleports, ReceiveReturn(s) PROVE Keeps
  BY <1>12 DEF ReceiveReturn, TypeOK
<1>13. ASSUME NEW s \in Teleports, SendMigration(s) PROVE Keeps
  BY <1>13, JobTyped DEF SendMigration, CanSend, taskFrame, targetVars, TypeOK
<1>14. ASSUME NEW s \in Teleports, Poll(s) PROVE Keeps
  BY <1>14 DEF Poll, taskFrame, targetVars, TypeOK
<1>15. ASSUME NEW s \in Teleports, PollError(s) PROVE Keeps
  BY <1>15 DEF PollError, taskFrame, targetVars, TypeOK
<1>16. ASSUME NEW s \in Teleports, PollTimeout(s) PROVE Keeps
  BY <1>16, JobTyped DEF PollTimeout, CancelMigration, Active, Over, taskFrame, targetVars, TypeOK
<1>17. ASSUME NEW s \in Teleports, SourcePause(s) PROVE Keeps
  BY <1>17 DEF SourcePause, taskFrame, targetVars, TypeOK
<1>18. ASSUME NEW s \in Teleports, SourceRemove(s) PROVE Keeps
  BY <1>18 DEF SourceRemove, taskFrame, targetVars, TypeOK
<1>19. ASSUME NEW s \in Teleports, AdoptQuery(s) PROVE Keeps
  BY <1>19 DEF AdoptQuery, taskFrame, targetVars, TypeOK
<1>20. ASSUME NEW s \in Teleports, AdoptInsert(s) PROVE Keeps
  BY <1>20 DEF AdoptInsert, taskFrame, targetVars, TypeOK
<1>21. ASSUME NEW s \in Teleports, TaskComplete(s) PROVE Keeps
  BY <1>21 DEF TaskComplete, taskFrame, targetVars, TypeOK
<1>22. ASSUME NEW s \in Teleports, SourceResume(s) PROVE Keeps
  BY <1>22 DEF SourceResume, taskFrame, targetVars, TypeOK
<1>23. ASSUME NEW s \in Teleports, TaskFail(s) PROVE Keeps
  BY <1>23 DEF TaskFail, taskFrame, targetVars, TypeOK
<1>24. ASSUME NEW s \in Teleports, CancelBegin(s) PROVE Keeps
  BY <1>24 DEF CancelBegin, targetVars, TypeOK
<1>25. ASSUME NEW s \in Teleports, CancelAsk(s) PROVE Keeps
  BY <1>25, JobTyped DEF CancelAsk, CancelMigration, Active, Over, targetVars, TypeOK
<1>26. ASSUME NEW s \in Teleports, CancelMark(s) PROVE Keeps
  BY <1>26 DEF CancelMark, targetVars, TypeOK
<1>27. ASSUME NEW v \in Vms, StopAndCopy(v) PROVE Keeps
  BY <1>27 DEF StopAndCopy, MigrationFrame, TypeOK
<1>28. ASSUME NEW v \in Vms, MigrationLands(v) PROVE Keeps
  BY <1>28 DEF MigrationLands, Over, MigrationFrame, TypeOK
<1>29. ASSUME NEW v \in Vms, MigrationFails(v) PROVE Keeps
  BY <1>29 DEF MigrationFails, Active, Over, MigrationFrame, TypeOK
<1>30. ASSUME UNCHANGED vars PROVE Keeps
  BY <1>30 DEF vars
<1> HIDE DEF Keeps
<1>31. Keeps
  BY <1>1, <1>2, <1>3, <1>4, <1>5, <1>6, <1>7, <1>8, <1>9, <1>10, <1>11, <1>12, <1>13,
       <1>14, <1>15, <1>16, <1>17, <1>18, <1>19, <1>20, <1>21, <1>22, <1>23, <1>24, <1>25,
       <1>26, <1>27, <1>28, <1>29, <1>30 DEF Next, Command, Source, Target, Migrate,
       Cancelling
<1> QED
  BY <1>31 DEF Keeps

\* What a task knows stays true while it goes on, whatever the others do.
LEMMA TaskKnowsStep ==
    ASSUME TypeOK, TaskKnows, [Next]_vars PROVE TaskKnows'
<1>0. /\ job' = job /\ here' \subseteq here
      /\ \A w \in Vms : mig[w].state = "completed" => mig'[w].state = "completed"
  BY CompletedStays
<1>1. ASSUME NEW s \in Teleports, CliFallback(s) PROVE TaskKnows'
  BY <1>1, <1>0, JobTyped DEF CliFallback, TaskKnows, Vm, TypeOK
<1>2. ASSUME NEW s \in Teleports, CliReceived(s) PROVE TaskKnows'
  BY <1>2, <1>0, JobTyped DEF CliReceived, targetVars, TaskKnows, Vm, TypeOK
<1>3. ASSUME NEW s \in Teleports, CliLive(s) PROVE TaskKnows'
  BY <1>3, <1>0, JobTyped DEF CliLive, targetVars, TaskKnows, Vm, TypeOK
<1>4. ASSUME NEW s \in Teleports, CliWatched(s) PROVE TaskKnows'
  BY <1>4, <1>0, JobTyped DEF CliWatched, targetVars, TaskKnows, Vm, TypeOK
<1>5. ASSUME NEW s \in Teleports, TeleportDropped(s) PROVE TaskKnows'
  BY <1>5, <1>0, JobTyped DEF TeleportDropped, targetVars, TaskKnows, Vm, TypeOK
<1>6. ASSUME NEW s \in Teleports, TeleportBegin(s) PROVE TaskKnows'
  BY <1>6, <1>0, JobTyped DEF TeleportBegin, TaskKnows, Vm, TypeOK
<1>7. ASSUME NEW s \in Teleports, TeleportRefused(s) PROVE TaskKnows'
  BY <1>7, <1>0, JobTyped DEF TeleportRefused, TaskKnows, Vm, TypeOK
<1>8. ASSUME NEW s \in Teleports, TeleportSpawn(s) PROVE TaskKnows'
  BY <1>8, <1>0, JobTyped DEF TeleportSpawn, Task, targetVars, TaskKnows, Vm, TypeOK
<1>9. ASSUME NEW s \in Teleports, TeleportMark(s) PROVE TaskKnows'
  BY <1>9, <1>0, JobTyped DEF TeleportMark, targetVars, TaskKnows, Vm, TypeOK
<1>10. ASSUME NEW s \in Teleports, ReceiveStart(s) PROVE TaskKnows'
  BY <1>10, <1>0, JobTyped DEF ReceiveStart, TaskKnows, Vm, TypeOK
<1>11. ASSUME NEW s \in Teleports, ReceiveListen(s) PROVE TaskKnows'
  BY <1>11, <1>0, JobTyped DEF ReceiveListen, TaskKnows, Vm, TypeOK
<1>12. ASSUME NEW s \in Teleports, ReceiveReturn(s) PROVE TaskKnows'
  BY <1>12, <1>0, JobTyped DEF ReceiveReturn, TaskKnows, Vm, TypeOK
<1>13. ASSUME NEW s \in Teleports, SendMigration(s) PROVE TaskKnows'
  BY <1>13, <1>0, JobTyped DEF SendMigration, Task, taskFrame, targetVars, TaskKnows, Vm, TypeOK
<1>14. ASSUME NEW s \in Teleports, Poll(s) PROVE TaskKnows'
  BY <1>14, <1>0, JobTyped DEF Poll, Task, taskFrame, targetVars, TaskKnows, Vm, TypeOK
<1>15. ASSUME NEW s \in Teleports, PollError(s) PROVE TaskKnows'
  BY <1>15, <1>0, JobTyped DEF PollError, Task, taskFrame, targetVars, TaskKnows, Vm, TypeOK
<1>16. ASSUME NEW s \in Teleports, PollTimeout(s) PROVE TaskKnows'
  BY <1>16, <1>0, JobTyped DEF PollTimeout, Task, taskFrame, targetVars, TaskKnows, Vm, TypeOK
<1>17. ASSUME NEW s \in Teleports, SourcePause(s) PROVE TaskKnows'
  BY <1>17, <1>0, JobTyped DEF SourcePause, Task, taskFrame, targetVars, TaskKnows, Vm, TypeOK
<1>18. ASSUME NEW s \in Teleports, SourceRemove(s) PROVE TaskKnows'
  BY <1>18, <1>0, JobTyped DEF SourceRemove, Task, taskFrame, targetVars, TaskKnows, Vm, TypeOK
<1>19. ASSUME NEW s \in Teleports, AdoptQuery(s) PROVE TaskKnows'
  BY <1>19, <1>0, JobTyped DEF AdoptQuery, Task, taskFrame, targetVars, TaskKnows, Vm, TypeOK
<1>20. ASSUME NEW s \in Teleports, AdoptInsert(s) PROVE TaskKnows'
  BY <1>20, <1>0, JobTyped DEF AdoptInsert, Task, taskFrame, targetVars, TaskKnows, Vm, TypeOK
<1>21. ASSUME NEW s \in Teleports, TaskComplete(s) PROVE TaskKnows'
  BY <1>21, <1>0, JobTyped DEF TaskComplete, Task, taskFrame, targetVars, TaskKnows, Vm, TypeOK
<1>22. ASSUME NEW s \in Teleports, SourceResume(s) PROVE TaskKnows'
  BY <1>22, <1>0, JobTyped DEF SourceResume, Task, taskFrame, targetVars, TaskKnows, Vm, TypeOK
<1>23. ASSUME NEW s \in Teleports, TaskFail(s) PROVE TaskKnows'
  BY <1>23, <1>0, JobTyped DEF TaskFail, Task, taskFrame, targetVars, TaskKnows, Vm, TypeOK
<1>24. ASSUME NEW s \in Teleports, CancelBegin(s) PROVE TaskKnows'
  BY <1>24, <1>0, JobTyped DEF CancelBegin, targetVars, TaskKnows, Vm, TypeOK
<1>25. ASSUME NEW s \in Teleports, CancelAsk(s) PROVE TaskKnows'
  BY <1>25, <1>0, JobTyped DEF CancelAsk, targetVars, TaskKnows, Vm, TypeOK
<1>26. ASSUME NEW s \in Teleports, CancelMark(s) PROVE TaskKnows'
  BY <1>26, <1>0, JobTyped DEF CancelMark, targetVars, TaskKnows, Vm, TypeOK
<1>27. ASSUME NEW v \in Vms, StopAndCopy(v) PROVE TaskKnows'
  BY <1>27, <1>0, JobTyped DEF StopAndCopy, MigrationFrame, TaskKnows, Vm, TypeOK
<1>28. ASSUME NEW v \in Vms, MigrationLands(v) PROVE TaskKnows'
  BY <1>28, <1>0, JobTyped DEF MigrationLands, MigrationFrame, TaskKnows, Vm, TypeOK
<1>29. ASSUME NEW v \in Vms, MigrationFails(v) PROVE TaskKnows'
  BY <1>29, <1>0, JobTyped DEF MigrationFails, MigrationFrame, TaskKnows, Vm, TypeOK
<1>30. CASE UNCHANGED vars
  BY <1>30 DEF TaskKnows, Vm, vars
<1> QED
  BY <1>1, <1>2, <1>3, <1>4, <1>5, <1>6, <1>7, <1>8, <1>9, <1>10, <1>11, <1>12, <1>13,
     <1>14, <1>15, <1>16, <1>17, <1>18, <1>19, <1>20, <1>21, <1>22, <1>23, <1>24, <1>25,
     <1>26, <1>27, <1>28, <1>29, <1>30 DEF Next, Command, Source, Target, Migrate,
     Cancelling

\* The removal follows a completed migration, and the adoption follows the removal.
LEMMA HandedOverStep ==
    ASSUME TypeOK, TaskKnows, HandedOver, [Next]_vars PROVE HandedOver'
<1>0. /\ here' \subseteq here
      /\ \A w \in Vms : mig[w].state = "completed" => mig'[w].state = "completed"
  BY CompletedStays
<1>1. ASSUME NEW s \in Teleports, CliFallback(s) PROVE HandedOver'
  BY <1>1, <1>0 DEF CliFallback, HandedOver
<1>2. ASSUME NEW s \in Teleports, CliReceived(s) PROVE HandedOver'
  BY <1>2, <1>0 DEF CliReceived, targetVars, HandedOver
<1>3. ASSUME NEW s \in Teleports, CliLive(s) PROVE HandedOver'
  BY <1>3, <1>0 DEF CliLive, targetVars, HandedOver
<1>4. ASSUME NEW s \in Teleports, CliWatched(s) PROVE HandedOver'
  BY <1>4, <1>0 DEF CliWatched, targetVars, HandedOver
<1>5. ASSUME NEW s \in Teleports, TeleportDropped(s) PROVE HandedOver'
  BY <1>5, <1>0 DEF TeleportDropped, targetVars, HandedOver
<1>6. ASSUME NEW s \in Teleports, TeleportBegin(s) PROVE HandedOver'
  BY <1>6, <1>0 DEF TeleportBegin, HandedOver
<1>7. ASSUME NEW s \in Teleports, TeleportRefused(s) PROVE HandedOver'
  BY <1>7, <1>0 DEF TeleportRefused, HandedOver
<1>8. ASSUME NEW s \in Teleports, TeleportSpawn(s) PROVE HandedOver'
  BY <1>8, <1>0 DEF TeleportSpawn, targetVars, HandedOver
<1>9. ASSUME NEW s \in Teleports, TeleportMark(s) PROVE HandedOver'
  BY <1>9, <1>0 DEF TeleportMark, targetVars, HandedOver
<1>10. ASSUME NEW s \in Teleports, ReceiveStart(s) PROVE HandedOver'
  BY <1>10, <1>0 DEF ReceiveStart, HandedOver
<1>11. ASSUME NEW s \in Teleports, ReceiveListen(s) PROVE HandedOver'
  BY <1>11, <1>0 DEF ReceiveListen, HandedOver
<1>12. ASSUME NEW s \in Teleports, ReceiveReturn(s) PROVE HandedOver'
  BY <1>12, <1>0 DEF ReceiveReturn, HandedOver
<1>13. ASSUME NEW s \in Teleports, SendMigration(s) PROVE HandedOver'
  BY <1>13, <1>0 DEF SendMigration, taskFrame, targetVars, HandedOver
<1>14. ASSUME NEW s \in Teleports, Poll(s) PROVE HandedOver'
  BY <1>14, <1>0 DEF Poll, taskFrame, targetVars, HandedOver
<1>15. ASSUME NEW s \in Teleports, PollError(s) PROVE HandedOver'
  BY <1>15, <1>0 DEF PollError, taskFrame, targetVars, HandedOver
<1>16. ASSUME NEW s \in Teleports, PollTimeout(s) PROVE HandedOver'
  BY <1>16, <1>0 DEF PollTimeout, taskFrame, targetVars, HandedOver
<1>17. ASSUME NEW s \in Teleports, SourcePause(s) PROVE HandedOver'
  BY <1>17, <1>0 DEF SourcePause, taskFrame, targetVars, HandedOver
<1>18. ASSUME NEW s \in Teleports, SourceRemove(s) PROVE HandedOver'
  BY <1>18, <1>0, JobTyped DEF SourceRemove, taskFrame, targetVars, HandedOver, TaskKnows, TypeOK
<1>19. ASSUME NEW s \in Teleports, AdoptQuery(s) PROVE HandedOver'
  BY <1>19, <1>0 DEF AdoptQuery, taskFrame, targetVars, HandedOver
<1>20. ASSUME NEW s \in Teleports, AdoptInsert(s) PROVE HandedOver'
  BY <1>20, <1>0, JobTyped DEF AdoptInsert, taskFrame, targetVars, HandedOver, TaskKnows, TypeOK
<1>21. ASSUME NEW s \in Teleports, TaskComplete(s) PROVE HandedOver'
  BY <1>21, <1>0 DEF TaskComplete, taskFrame, targetVars, HandedOver
<1>22. ASSUME NEW s \in Teleports, SourceResume(s) PROVE HandedOver'
  BY <1>22, <1>0 DEF SourceResume, taskFrame, targetVars, HandedOver
<1>23. ASSUME NEW s \in Teleports, TaskFail(s) PROVE HandedOver'
  BY <1>23, <1>0 DEF TaskFail, taskFrame, targetVars, HandedOver
<1>24. ASSUME NEW s \in Teleports, CancelBegin(s) PROVE HandedOver'
  BY <1>24, <1>0 DEF CancelBegin, targetVars, HandedOver
<1>25. ASSUME NEW s \in Teleports, CancelAsk(s) PROVE HandedOver'
  BY <1>25, <1>0 DEF CancelAsk, targetVars, HandedOver
<1>26. ASSUME NEW s \in Teleports, CancelMark(s) PROVE HandedOver'
  BY <1>26, <1>0 DEF CancelMark, targetVars, HandedOver
<1>27. ASSUME NEW v \in Vms, StopAndCopy(v) PROVE HandedOver'
  BY <1>27, <1>0 DEF StopAndCopy, MigrationFrame, HandedOver
<1>28. ASSUME NEW v \in Vms, MigrationLands(v) PROVE HandedOver'
  BY <1>28, <1>0 DEF MigrationLands, MigrationFrame, HandedOver
<1>29. ASSUME NEW v \in Vms, MigrationFails(v) PROVE HandedOver'
  BY <1>29, <1>0 DEF MigrationFails, MigrationFrame, HandedOver
<1>30. CASE UNCHANGED vars
  BY <1>30 DEF HandedOver, vars
<1> QED
  BY <1>1, <1>2, <1>3, <1>4, <1>5, <1>6, <1>7, <1>8, <1>9, <1>10, <1>11, <1>12, <1>13,
     <1>14, <1>15, <1>16, <1>17, <1>18, <1>19, <1>20, <1>21, <1>22, <1>23, <1>24, <1>25,
     <1>26, <1>27, <1>28, <1>29, <1>30 DEF Next, Command, Source, Target, Migrate,
     Cancelling

\* A VM leaves the source's registry only after its hypervisor reported the migration
\* completed, and enters a target's only after it left the source's, whatever
\* requests, cancels and timeouts for it overlap in teleport_handler's tasks.
THEOREM VmHandedOver == Spec => []HandedOver
<1>1. Init => Inv
  <2> SUFFICES ASSUME Init PROVE Inv
    OBVIOUS
  <2>1. TaskKnows
    BY DEF Init, TaskKnows
  <2>2. HandedOver
    BY DEF Init, HandedOver
  <2> QED
    BY <2>1, <2>2, TypeInit DEF Inv
<1>2. Inv /\ [Next]_vars => Inv'
  BY TypeStep, TaskKnowsStep, HandedOverStep DEF Inv
<1>3. Inv => HandedOver
  BY DEF Inv
<1> QED
  BY <1>1, <1>2, <1>3, PTL DEF Spec
===========================================================================
