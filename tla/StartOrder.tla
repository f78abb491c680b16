----------------------------- MODULE StartOrder -----------------------------
(***************************************************************************)
(* VyomaCompose::start_order and visit (crates/vyoma-compose/src/lib.rs):  *)
(* the depth-first search that turns the depends_on lists of a compose     *)
(* file into the order in which its services are started, or refuses the   *)
(* file.  The call stack of visit is the sequence frames, so one action is *)
(* one call, one return or one error.                                      *)
(*                                                                         *)
(* Service names are the numbers 1..N, which gives them the order that     *)
(* keys.sort() uses; N+1 is a name that the file does not define.          *)
(***************************************************************************)
EXTENDS Naturals, Sequences

CONSTANTS
    N,          \* the number of services in the file
    Files       \* the depends_on lists a file may have

Services == 1 .. N
Names == 1 .. N + 1

ASSUME NAssumption == N \in Nat
ASSUME FilesAssumption == Files \subseteq [Services -> Seq(Names)]

VARIABLES
    deps,       \* depends_on of each service, in the order of the file
    key,        \* the next of the sorted keys
    frames,     \* active calls of visit: the service, its next dependency
    visited,
    visiting,
    order,
    result      \* "running", then "ok", "cycle" or "undefined"

orderVars == <<deps, key, frames, visited, visiting, order, result>>

Frame(s) == [name |-> s, next |-> 1]
Top == frames[Len(frames)]

(* The dependency the innermost call of visit looks at. *)
TopDep == deps[Top.name][Top.next]

\* Faulty variant of Advanced: the loop does not move on.
Advanced_Stuck == frames

(* The caller's loop moves on to its next dependency. *)
Advanced == [frames EXCEPT ![Len(frames)] = [name |-> Top.name,
                                             next |-> Top.next + 1]]

OrderInit ==
    /\ deps \in Files
    /\ key = 1
    /\ frames = <<>>
    /\ visited = {}
    /\ visiting = {}
    /\ order = <<>>
    /\ result = "running"

(* visit(s): a visited service returns at once, one that is being visited  *)
(* closes a cycle, and any other is entered.                               *)
Visit(s, caller) ==
    \/ /\ s \in visited
       /\ frames' = caller
       /\ UNCHANGED <<visiting, result>>
    \/ /\ s \notin visited
       /\ s \in visiting
       /\ result' = "cycle"
       /\ UNCHANGED <<frames, visiting>>
    \/ /\ s \notin visited
       /\ s \notin visiting
       /\ visiting' = visiting \cup {s}
       /\ frames' = Append(caller, Frame(s))
       /\ UNCHANGED result

(* The loop of start_order calls visit on the next key. *)
VisitKey ==
    /\ result = "running"
    /\ frames = <<>>
    /\ key \in Services
    /\ key' = key + 1
    /\ Visit(key, frames)
    /\ UNCHANGED <<deps, visited, order>>

(* The loop of visit: a dependency the file does not define is an error,   *)
(* found before the recursive call.                                        *)
VisitDep ==
    /\ result = "running"
    /\ frames # <<>>
    /\ Top.next <= Len(deps[Top.name])
    /\ \/ /\ TopDep \notin Services
          /\ result' = "undefined"
          /\ UNCHANGED <<frames, visiting>>
       \/ /\ TopDep \in Services
          /\ Visit(TopDep, Advanced)
    /\ UNCHANGED <<deps, key, visited, order>>

\* Faulty variant of Return: visit returns before the last dependency.
Return_Early ==
    /\ result = "running"
    /\ frames # <<>>
    /\ Top.next >= Len(deps[Top.name])
    /\ visiting' = visiting \ {Top.name}
    /\ visited' = visited \cup {Top.name}
    /\ order' = Append(order, Top.name)
    /\ frames' = SubSeq(frames, 1, Len(frames) - 1)
    /\ UNCHANGED <<deps, key, result>>

\* Faulty variant of Return: one set of services where there should be two.
Return_OneSet ==
    /\ result = "running"
    /\ frames # <<>>
    /\ Top.next > Len(deps[Top.name])
    /\ order' = Append(order, Top.name)
    /\ frames' = SubSeq(frames, 1, Len(frames) - 1)
    /\ UNCHANGED <<deps, key, visiting, visited, result>>

(* All dependencies are done: the service is pushed and visit returns. *)
Return ==
    /\ result = "running"
    /\ frames # <<>>
    /\ Top.next > Len(deps[Top.name])
    /\ visiting' = visiting \ {Top.name}
    /\ visited' = visited \cup {Top.name}
    /\ order' = Append(order, Top.name)
    /\ frames' = SubSeq(frames, 1, Len(frames) - 1)
    /\ UNCHANGED <<deps, key, result>>

Finish ==
    /\ result = "running"
    /\ frames = <<>>
    /\ key \notin Services
    /\ result' = "ok"
    /\ UNCHANGED <<deps, key, frames, visited, visiting, order>>

Resolve == VisitKey \/ VisitDep \/ Return \/ Finish

-----------------------------------------------------------------------------
(* The services that s names in its depends_on. *)
DepsOf(s) == {deps[s][i] : i \in DOMAIN deps[s]}

(* Numberings of the services that grow along depends_on: there is one     *)
(* exactly when the file has no cycle.                                     *)
Rankings ==
    {r \in [Services -> Services] :
        \A s \in Services : \A d \in DepsOf(s) \cap Services : r[d] < r[s]}

\* The sets, the stack and the result of start_order keep their types.
OrderTypeOK ==
    /\ deps \in Files
    /\ key \in Nat \ {0}
    /\ frames \in Seq([name : Services, next : Nat \ {0}])
    /\ visited \subseteq Services
    /\ visiting \subseteq Services
    /\ order \in Seq(Services)
    /\ result \in {"running", "ok", "cycle", "undefined"}

(* start_order (lib.rs:100) answers Ok only with every service exactly     *)
(* once, each after all the services it depends on, however the depends_on *)
(* lists are written.                                                      *)
OrderRespectsDeps ==
    result = "ok" =>
        /\ \A s \in Services : \E i \in DOMAIN order : order[i] = s
        /\ \A i, j \in DOMAIN order : order[i] = order[j] => i = j
        /\ \A i \in DOMAIN order : \A d \in DepsOf(order[i]) :
              \E j \in 1 .. i - 1 : order[j] = d

(* A file is refused only when it has no start order: "Circular            *)
(* dependency detected" (lib.rs:126) means that no numbering respects      *)
(* depends_on, and "undefined service" (lib.rs:138) that a list names a    *)
(* service the file lacks.  A diamond is not mistaken for a cycle.         *)
RefusedHasNoOrder ==
    /\ result = "cycle" => Rankings = {}
    /\ result = "undefined" =>
          \E s \in Services : ~(DepsOf(s) \subseteq Services)
=============================================================================
