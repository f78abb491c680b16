----------------------------- MODULE StackOrder -----------------------------
(***************************************************************************)
(* What `vyoma up` and `vyoma down` promise about a stack, without saying  *)
(* how the order is found: an up turns to a service only after all the     *)
(* services it depends on, a down only after all the services that depend  *)
(* on it, and neither turns to a service twice.                            *)
(***************************************************************************)
EXTENDS Naturals

CONSTANTS
    Clients,    \* invocations of the command line
    Services

VARIABLES
    wants,      \* the services that each service depends on
    mode,       \* what a client is doing: "idle", "up" or "down"
    handled     \* the services it has turned to

vars == <<wants, mode, handled>>

Init ==
    /\ mode = [c \in Clients |-> "idle"]
    /\ handled = [c \in Clients |-> {}]

Begin(c, m) ==
    /\ mode[c] = "idle"
    /\ mode' = [mode EXCEPT ![c] = m]
    /\ UNCHANGED <<wants, handled>>

Handle(c, s) ==
    /\ s \notin handled[c]
    /\ \/ /\ mode[c] = "up"
          /\ wants[s] \subseteq handled[c]
       \/ /\ mode[c] = "down"
          /\ {t \in Services : s \in wants[t]} \subseteq handled[c]
    /\ handled' = [handled EXCEPT ![c] = handled[c] \cup {s}]
    /\ UNCHANGED <<wants, mode>>

(* A command may end early: a failed build ends an up. *)
End(c) ==
    /\ mode[c] # "idle"
    /\ mode' = [mode EXCEPT ![c] = "idle"]
    /\ handled' = [handled EXCEPT ![c] = {}]
    /\ UNCHANGED wants

Next ==
    \E c \in Clients :
        \/ \E m \in {"up", "down"} : Begin(c, m)
        \/ \E s \in Services : Handle(c, s)
        \/ End(c)

Spec == Init /\ [][Next]_vars
=============================================================================
