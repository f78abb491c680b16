------------------------------ MODULE Compose ------------------------------
(***************************************************************************)
(* The compose commands of the command line, `up`, `down` and `scale`      *)
(* (crates/vyoma/src/main.rs), run by several users on one stack, and the  *)
(* daemon's table of VMs as those commands see it: a VM and its labels     *)
(* vyoma.stack and vyoma.service.                                          *)
(*                                                                         *)
(* The commands keep no state of their own: each asks the daemon with GET  *)
(* /ps what runs and then sends one request at a time, so that what it     *)
(* knows may be stale when it acts on it.  A request may be refused, and   *)
(* the answer to a run may be lost after the VM was made.  All commands    *)
(* read the same file, so StartOrder computes its order once.              *)
(***************************************************************************)
EXTENDS StartOrder, FiniteSets, SequencesExt

CONSTANTS
    Clients,
    Networks,    \* the networks of the file
    BuildSet,    \* services with a build context
    BareSet,     \* services with neither image nor build context
    Targets,     \* arguments of scale: <<service, count>>
    MaxVms       \* bound on the VMs ever made

ASSUME MaxVmsAssumption == MaxVms \in Nat \ {0}
ASSUME TargetsAssumption == Targets \subseteq Services \X Nat

Ids == 1 .. MaxVms
NoVm == 0
NoService == 0
NoGoal == <<N + 1, 0>>

VARIABLES
    vms,         \* the service of each VM of the stack, NoService if it is gone
    made,        \* how many VMs were ever made
    nets,        \* networks the daemon has provisioned
    pc,          \* what each client is doing
    todo,        \* the services it still has to turn to
    known,       \* the VM it has for a service: service_ids, vms_to_stop
    pool,        \* running_list of scale
    count,       \* starts or stops that scale still has to do
    goal,        \* the argument of scale
    clean        \* no call of the command failed, and no other client has
                 \* changed the stack since it began

stackVars == <<vms, made, nets>>
clientVars == <<pc, todo, known, pool, count, goal, clean>>
vars == <<orderVars, stackVars, clientVars>>

None == [s \in Names |-> NoVm]
Running(s) == {i \in Ids : vms[i] = s}

(* GET /ps, read into a map from service to VM: of several VMs of one      *)
(* service the last of the list stays, and the list has the order of the   *)
(* daemon's HashMap.  When the request fails the map stays empty.          *)
Listings ==
    {k \in [Names -> Ids \cup {NoVm}] :
        \A s \in Names : IF Running(s) = {} THEN k[s] = NoVm
                                            ELSE k[s] \in Running(s)}

Init ==
    /\ OrderInit
    /\ \E old \in {0, 1} :
          /\ vms = [i \in Ids |-> IF i <= old THEN N + 1 ELSE NoService]
          /\ made = old
    /\ nets = {}
    /\ pc = [c \in Clients |-> "idle"]
    /\ todo = [c \in Clients |-> <<>>]
    /\ known = [c \in Clients |-> None]
    /\ pool = [c \in Clients |-> {}]
    /\ count = [c \in Clients |-> 0]
    /\ goal = [c \in Clients |-> NoGoal]
    /\ clean = [c \in Clients |-> TRUE]

-----------------------------------------------------------------------------
(* The command returns. *)
Ended(c) ==
    /\ pc' = [pc EXCEPT ![c] = "idle"]
    /\ todo' = [todo EXCEPT ![c] = <<>>]
    /\ known' = [known EXCEPT ![c] = None]
    /\ pool' = [pool EXCEPT ![c] = {}]
    /\ count' = [count EXCEPT ![c] = 0]
    /\ goal' = [goal EXCEPT ![c] = NoGoal]
    /\ clean' = [clean EXCEPT ![c] = TRUE]

(* c changed the stack: what the other clients know may be stale. *)
Changed(c) ==
    clean' = [d \in Clients |-> clean[d] /\ (d = c \/ pc[d] = "idle")]
Failed(c) == clean' = [clean EXCEPT ![c] = FALSE]

(* POST /run for service s: the daemon makes a VM and answers, makes one   *)
(* whose answer is lost, or refuses.                                       *)
Run(c, s) ==
    \/ /\ made < MaxVms
       /\ made' = made + 1
       /\ vms' = [vms EXCEPT ![made + 1] = s]
       /\ \/ Changed(c)
          \/ clean' = [d \in Clients |-> clean[d] /\ pc[d] = "idle"]
    \/ /\ Failed(c)
       /\ UNCHANGED <<vms, made>>

(* POST /stop/i: stop_vm takes the VM out of the table, or the request     *)
(* fails, as it must for a VM that another client has stopped.             *)
Stop(c, i) ==
    \/ /\ vms[i] # NoService
       /\ vms' = [vms EXCEPT ![i] = NoService]
       /\ Changed(c)
    \/ /\ Failed(c)
       /\ UNCHANGED vms

-----------------------------------------------------------------------------
(* up: the file has an order, and its networks are provisioned; a failure  *)
(* is only logged.  A file without an order ends the command before it has *)
(* asked anything of the daemon.                                           *)
UpBegin(c) ==
    /\ pc[c] = "idle"
    /\ result = "ok"
    /\ pc' = [pc EXCEPT ![c] = "listing"]
    /\ \E ok \in SUBSET Networks : nets' = nets \cup ok
    /\ UNCHANGED <<orderVars, vms, made, todo, known, pool, count, goal, clean>>

UpList(c) ==
    /\ pc[c] = "listing"
    /\ pc' = [pc EXCEPT ![c] = "up"]
    /\ todo' = [todo EXCEPT ![c] = order]
    /\ \/ /\ \E k \in Listings : known' = [known EXCEPT ![c] = k]
          /\ clean' = [clean EXCEPT ![c] = TRUE]
       \/ /\ Failed(c)
          /\ UNCHANGED known
    /\ UNCHANGED <<orderVars, stackVars, pool, count, goal>>

(* The loop body of up for the next service: skip it if it is known or has *)
(* neither image nor build context, otherwise run it, whatever became of   *)
(* its dependencies.  The VM is put into service_ids, where nothing looks  *)
(* for it again.                                                           *)
UpService(c) ==
    /\ pc[c] = "up"
    /\ todo[c] # <<>>
    /\ todo' = [todo EXCEPT ![c] = Tail(todo[c])]
    /\ LET s == Head(todo[c]) IN
          IF known[c][s] # NoVm \/ s \in BareSet
          THEN UNCHANGED <<vms, made, clean>>
          ELSE Run(c, s)
    /\ UNCHANGED <<orderVars, nets, pc, known, pool, count, goal>>

(* A failed build leaves up, or scale, through `?`. *)
BuildFails(c) ==
    /\ \/ /\ pc[c] = "up"
          /\ todo[c] # <<>>
          /\ known[c][Head(todo[c])] = NoVm
          /\ Head(todo[c]) \in BuildSet
       \/ /\ pc[c] = "raise"
          /\ count[c] > 0
          /\ goal[c][1] \in BuildSet
    /\ Ended(c)
    /\ UNCHANGED <<orderVars, stackVars>>

-----------------------------------------------------------------------------
\* Faulty variant of StopOrders: the order of the file is not reversed.
StopOrders_Forward(k, s) ==
    {s \o rest : rest \in SetToSeqs({x \in Names \ ToSet(s) : k[x] # NoVm})}

(* down: the services to stop come from /ps, their order from the file,    *)
(* reversed, and then the services the file does not have.  Without a      *)
(* usable file they are stopped in the order of a HashMap.                 *)
StopOrders(k, s) ==
    {Reverse(s) \o rest :
        rest \in SetToSeqs({x \in Names \ ToSet(s) : k[x] # NoVm})}

DownBegin(c) ==
    /\ pc[c] = "idle"
    /\ result # "running"
    /\ \E k \in Listings :
          /\ k # None
          /\ known' = [known EXCEPT ![c] = k]
          /\ \/ /\ result = "ok"
                /\ pc' = [pc EXCEPT ![c] = "down"]
                /\ \E q \in StopOrders(k, order) : todo' = [todo EXCEPT ![c] = q]
             \/ /\ pc' = [pc EXCEPT ![c] = "downAnyhow"]
                /\ \E q \in StopOrders(k, <<>>) : todo' = [todo EXCEPT ![c] = q]
    /\ clean' = [clean EXCEPT ![c] = TRUE]
    /\ UNCHANGED <<orderVars, stackVars, pool, count, goal>>

DownService(c) ==
    /\ pc[c] \in {"down", "downAnyhow"}
    /\ todo[c] # <<>>
    /\ todo' = [todo EXCEPT ![c] = Tail(todo[c])]
    /\ LET i == known[c][Head(todo[c])] IN
          IF i = NoVm THEN UNCHANGED <<vms, clean>> ELSE Stop(c, i)
    /\ UNCHANGED <<orderVars, made, nets, pc, known, pool, count, goal>>

-----------------------------------------------------------------------------
\* Faulty variant of ScaleBegin: the difference is taken without a comparison.
ScaleBegin_NoCompare(c) ==
    /\ pc[c] = "idle"
    /\ result # "running"
    /\ \E t \in Targets :
          /\ goal' = [goal EXCEPT ![c] = t]
          /\ pool' = [pool EXCEPT ![c] = Running(t[1])]
          /\ clean' = [clean EXCEPT ![c] = TRUE]
          /\ pc' = [pc EXCEPT ![c] = "raise"]
          /\ count' = [count EXCEPT ![c] = t[2] - Cardinality(Running(t[1]))]
    /\ UNCHANGED <<orderVars, stackVars, todo, known>>

(* scale s=n: count the VMs of s in /ps and start or stop the difference.  *)
(* A failed /ps counts as no VM.  It does not look at depends_on.          *)
ScaleBegin(c) ==
    /\ pc[c] = "idle"
    /\ result # "running"
    /\ \E t \in Targets, listed \in BOOLEAN :
          LET running == IF listed THEN Running(t[1]) ELSE {}
              size == Cardinality(running)
          IN /\ goal' = [goal EXCEPT ![c] = t]
             /\ pool' = [pool EXCEPT ![c] = running]
             /\ clean' = [clean EXCEPT ![c] = listed]
             /\ \/ /\ t[2] > size
                   /\ pc' = [pc EXCEPT ![c] = "raise"]
                   /\ count' = [count EXCEPT ![c] = t[2] - size]
                \/ /\ t[2] <= size
                   /\ pc' = [pc EXCEPT ![c] = "lower"]
                   /\ count' = [count EXCEPT ![c] = size - t[2]]
    /\ UNCHANGED <<orderVars, stackVars, todo, known>>

(* start_service_helper: a service with neither image nor build context    *)
(* is logged and counts as done.                                           *)
ScaleStart(c) ==
    /\ pc[c] = "raise"
    /\ count[c] > 0
    /\ count' = [count EXCEPT ![c] = count[c] - 1]
    /\ IF goal[c][1] \in BareSet
       THEN Failed(c) /\ UNCHANGED <<vms, made>>
       ELSE Run(c, goal[c][1])
    /\ UNCHANGED <<orderVars, nets, pc, todo, known, pool, goal>>

\* Faulty variant of ScaleStop: the index into the list never moves.
ScaleStop_SameIndex(c) ==
    /\ pc[c] = "lower"
    /\ count[c] > 0
    /\ count' = [count EXCEPT ![c] = count[c] - 1]
    /\ \E i \in pool[c] :
          IF vms[i] = NoService THEN UNCHANGED <<vms, clean>> ELSE Stop(c, i)
    /\ UNCHANGED <<orderVars, made, nets, pc, todo, known, pool, goal>>

(* The last of the list is stopped; the list has the order of a HashMap. *)
ScaleStop(c) ==
    /\ pc[c] = "lower"
    /\ count[c] > 0
    /\ count' = [count EXCEPT ![c] = count[c] - 1]
    /\ \E i \in pool[c] :
          /\ pool' = [pool EXCEPT ![c] = pool[c] \ {i}]
          /\ Stop(c, i)
    /\ UNCHANGED <<orderVars, made, nets, pc, todo, known, goal>>

(* The loop is over. *)
CommandEnds(c) ==
    /\ pc[c] \in {"up", "down", "downAnyhow", "raise", "lower"}
    /\ todo[c] = <<>>
    /\ count[c] = 0
    /\ Ended(c)
    /\ UNCHANGED <<orderVars, stackVars>>

Begin(c) == UpBegin(c) \/ DownBegin(c) \/ ScaleBegin(c)

Step(c) ==
    \/ UpList(c) \/ UpService(c) \/ BuildFails(c)
    \/ DownService(c)
    \/ ScaleStart(c) \/ ScaleStop(c)
    \/ CommandEnds(c)

Next ==
    \/ Resolve /\ UNCHANGED <<stackVars, clientVars>>
    \/ \E c \in Clients : Begin(c) \/ Step(c)

Spec == Init /\ [][Next]_vars

(* The search computes and the daemon answers every request, so a command  *)
(* that has begun goes on.                                                 *)
Fairness ==
    /\ WF_vars(Resolve /\ UNCHANGED <<stackVars, clientVars>>)
    /\ \A c \in Clients : WF_vars(Step(c))

FairSpec == Spec /\ Fairness

-----------------------------------------------------------------------------
\* Every variable keeps its type: a command goes through a list of service names and
\* knows VMs by the ids the daemon gave them (GET /ps).
TypeOK ==
    /\ OrderTypeOK
    /\ vms \in [Ids -> Names \cup {NoService}]
    /\ made \in 0 .. MaxVms
    /\ nets \subseteq Networks
    /\ pc \in [Clients -> {"idle", "listing", "up", "down", "downAnyhow",
                           "raise", "lower"}]
    /\ todo \in [Clients -> Seq(Names)]
    /\ known \in [Clients -> [Names -> Ids \cup {NoVm}]]
    /\ pool \in [Clients -> SUBSET Ids]
    /\ count \in [Clients -> Nat]
    /\ goal \in [Clients -> Names \X Nat]
    /\ clean \in [Clients -> BOOLEAN]

(* An undisturbed command delivers: when no call of it failed and nobody   *)
(* else changed the stack since its GET /ps, every service of the file     *)
(* that can be run has a VM at the end of `up`, and `scale s=n` ends with  *)
(* exactly n VMs of s.                                                     *)
UndisturbedDelivers ==
    \A c \in Clients : clean[c] =>
        /\ pc[c] = "up" /\ todo[c] = <<>> =>
              \A s \in Services \ BareSet : Running(s) # {}
        /\ pc[c] \in {"raise", "lower"} /\ count[c] = 0 =>
              Cardinality(Running(goal[c][1])) = goal[c][2]

(* The prefix of the order an up has been through, the suffix of it a down *)
(* has been through.                                                       *)
Handled(c) ==
    CASE pc[c] = "up" -> {order[i] : i \in 1 .. Len(order) - Len(todo[c])}
      [] pc[c] = "down" -> Services \ ToSet(todo[c])
      [] OTHER -> {}

Mode(c) == IF pc[c] \in {"up", "down"} THEN pc[c] ELSE "idle"

Promise == INSTANCE StackOrder
    WITH wants <- [s \in Services |-> DepsOf(s)],
         mode <- [c \in Clients |-> Mode(c)],
         handled <- [c \in Clients |-> Handled(c)]

(* up (main.rs:1227) and down (main.rs:1374) keep the promise of           *)
(* StackOrder: every service is turned to after the services it depends    *)
(* on, and on the way down before them, in each of several concurrent      *)
(* commands.                                                               *)
KeepsDependencyOrder == Promise!Spec

(* start_order returns, and so does every command once it has begun. *)
CommandsEnd ==
    /\ <>(result # "running")
    /\ \A c \in Clients : pc[c] # "idle" ~> pc[c] = "idle"
=============================================================================
