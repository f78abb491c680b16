------------------------------ MODULE MCSwarm ------------------------------
(* Swarm on node 1, with the nodes 2 and 256, whose subnets are the same.  *)
EXTENDS Swarm

CONSTANTS a1, a2, a3, k1, k2, k3, v1, s1

Add(n, a, k, p) == [op |-> "add", node |-> n, addr |-> a, key |-> k, port |-> p]
Remove(n) == [op |-> "remove", node |-> n]
Update(n, a, k, p) ==
    [op |-> "update", node |-> n, addr |-> a, key |-> k, port |-> p]

MCCommands ==
    { Add(2, a2, k1, TRUE), Add(256, a3, k2, TRUE),
      Add(1, a1, NoKey, FALSE), Remove(2), Remove(256), Remove(1),
      Update(2, a3, k3, TRUE), Update(256, NoAddr, k1, FALSE),
      [op |-> "place", vm |-> v1, node |-> 2], [op |-> "unplace", vm |-> v1],
      [op |-> "serve", name |-> s1] }

\* All calls succeed, or some fail: the start of WireGuard, the bridge file,
\* the peer or the route of one node or of both, the removal of a route.
Fine == [start |-> TRUE, bridge |-> "written", peers |-> NodeIds,
         hosts |-> NodeIds, routes |-> NodeIds, drop |-> TRUE]

MCOutcomes ==
    { Fine,
      [Fine EXCEPT !.start = FALSE, !.bridge = "kept", !.peers = {2}, !.routes = {2}],
      [Fine EXCEPT !.bridge = "torn", !.peers = {256}, !.routes = {},
                   !.drop = FALSE] }
============================================================================
