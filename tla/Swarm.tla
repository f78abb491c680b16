------------------------------- MODULE Swarm -------------------------------
(***************************************************************************)
(* One node's view of the swarm: the state machine SwarmRaft that applies  *)
(* membership, placement and service commands, and the host network that   *)
(* its side effects configure (crates/vyomad/src/swarm,                    *)
(* crates/vyoma-net/src/wireguard.rs).                                     *)
(*                                                                         *)
(* SwarmRaft sits behind one mutex and runs its side-effect callback       *)
(* inside it, so a command and what it does to the network are one step.   *)
(* Commands come with an index from the log the nodes share; the log       *)
(* itself is external and may hand an entry over more than once.           *)
(***************************************************************************)
EXTENDS Integers, Sequences, FiniteSets

CONSTANTS
    Self,          \* the id of this node
    SelfAddr,      \* its address, from get_outbound_ip
    MaxId,         \* the largest id (u64::MAX)
    NodeIds,       \* ids of the nodes that ever appear
    Addrs,         \* the IP addresses of nodes
    NoAddr,
    BareAddrs,     \* addresses announced as "ip", not as "ip:port"
    Keys,          \* WireGuard public keys
    NoKey,
    Vms,
    NoHost,        \* where a VM without placement is
    Services,
    Commands,      \* the commands that are ever put into the log
    MaxLog,        \* bound on the length of the log
    MaxDone,       \* bound on the commands that take effect
    Window,        \* applied_commands is drained when it grows past this
    Drain,         \* how many of the oldest entries a drain forgets
    Outcomes       \* how the host calls of one handler may turn out

NodeCommand == [op : {"add"}, node : NodeIds, addr : Addrs,
                key : Keys \cup {NoKey}, port : BOOLEAN]
               \cup [op : {"remove"}, node : NodeIds]
               \cup [op : {"update"}, node : NodeIds, addr : Addrs \cup {NoAddr},
                     key : Keys \cup {NoKey}, port : BOOLEAN]

OtherCommand == [op : {"place"}, vm : Vms, node : NodeIds]
                \cup [op : {"unplace"}, vm : Vms]
                \cup [op : {"serve", "unserve"}, name : Services]

(* How the calls that configure the host turn out.  The handlers only log    *)
(* or drop their errors: start: WireGuardNode::start succeeds; bridge: the   *)
(* CNI file is written, left as it was, or truncated and not written;        *)
(* peers, hosts, routes: the nodes whose add_peer, host route and subnet     *)
(* route take effect; drop: the route of a removed node is deleted.          *)
Outcome == [start : BOOLEAN, bridge : {"written", "kept", "torn"},
            peers : SUBSET NodeIds, hosts : SUBSET NodeIds,
            routes : SUBSET NodeIds, drop : BOOLEAN]

NoSetup == [start |-> FALSE, bridge |-> "kept", peers |-> {}, hosts |-> {},
            routes |-> {}, drop |-> FALSE]

ASSUME NodeAssumption == /\ MaxId \in Nat /\ NodeIds \subseteq 0..MaxId
                         /\ Self \in NodeIds
                         /\ NoHost \notin NodeIds
ASSUME NameAssumption == /\ NoAddr \notin Addrs /\ SelfAddr \in Addrs
                         /\ BareAddrs \subseteq Addrs
                         /\ NoKey \notin Keys
ASSUME CommandAssumption == Commands \subseteq NodeCommand \cup OtherCommand
ASSUME WindowAssumption == /\ Window \in Nat /\ Drain \in 1..Window
                           /\ MaxLog \in Nat /\ MaxDone \in Nat
ASSUME OutcomeAssumption == Outcomes \subseteq Outcome

VARIABLES
    initialized,   \* SwarmRaft.is_initialized
    nodes,         \* SwarmRaft.nodes (NoNode: not in the map)
    subnetMap,     \* SwarmRaft.subnet_map (0: not in the map)
    placements,    \* SwarmRaft.vm_placements
    services,      \* the keys of SwarmRaft.services
    applied,       \* SwarmRaft.applied_commands
    net,           \* the host network the callback configures
    log,           \* the log entries handed to this node so far
    done,          \* history: the indices that took effect, in order
    leased,        \* history: the subnet a node was first given (0: none yet)
    last           \* history: how the latest setup_local_node turned out

raft == <<initialized, nodes, subnetMap, placements, services>>
vars == <<raft, applied, net, log, done, leased, last>>

-----------------------------------------------------------------------------
\* compute_subnet_id.  Ids 0 and 254, and any two that differ by 254, meet.
ComputeSubnetId(n) == IF n = 0 THEN 1 ELSE (n % 254) + 1

\* The subnets 10.42.s.0/24 that nodes can get.
Subnets == {ComputeSubnetId(n) : n \in NodeIds}

\* Faulty variant: the allocation the migration guide replaced, by arrival.
AllocateSubnet_Sequential(n) == Cardinality({m \in NodeIds : subnetMap[m] # 0}) + 1

AllocateSubnet(n) == IF subnetMap[n] # 0 THEN subnetMap[n] ELSE ComputeSubnetId(n)

NodeInfo == [addr : Addrs, key : Keys \cup {NoKey}, port : BOOLEAN,
             subnet : Subnets, leader : BOOLEAN]
NoNode   == [addr |-> NoAddr, key |-> NoKey, port |-> FALSE,
             subnet |-> 0, leader |-> FALSE]

Members(ns) == {n \in NodeIds : ns[n] # NoNode}
Remote(ns)  == Members(ns) \ {Self}

\* NodeInfo::new and with_wireguard, which takes the key and the port or none.
NewNode(addr, key, port, subnet, leader) ==
    [addr |-> addr, subnet |-> subnet, leader |-> leader,
     key  |-> IF port THEN key ELSE NoKey, port |-> port /\ key # NoKey]

-----------------------------------------------------------------------------
(* The host network.  up: the WireGuard interface runs.  peers, allowed:    *)
(* the peers set on it and, per subnet, the peer its packets are encrypted  *)
(* to (setting a subnet on one peer takes it away from the other).  routes: *)
(* one route per subnet (a second `route add` is refused with "File         *)
(* exists", which the code takes for success).  hosts: the addresses with a *)
(* /32 route through the interface.  bridge: the subnet in the file of the  *)
(* CNI bridge (0: no file, or none that can be read).                       *)

NoRoute == [via |-> "none", gw |-> NoAddr]
NoPeer  == [addr |-> NoAddr, subnet |-> 0]

Network == [up : BOOLEAN,
            peers   : [Keys -> [addr : Addrs, subnet : Subnets] \cup {NoPeer}],
            allowed : [Subnets -> Keys \cup {NoKey}],
            routes  : [Subnets -> [via : {"wg", "vxlan"}, gw : Addrs] \cup {NoRoute}],
            hosts   : SUBSET Addrs,
            bridge  : Subnets \cup {0}]

NoNetwork == [up |-> FALSE, peers |-> [k \in Keys |-> NoPeer],
              allowed |-> [s \in Subnets |-> NoKey],
              routes |-> [s \in Subnets |-> NoRoute],
              hosts |-> {}, bridge |-> 0]

Last(S)  == CHOOSE n \in S : \A m \in S : m <= n
First(S) == CHOOSE n \in S : \A m \in S : n <= m

\* The nodes of P with a WireGuard endpoint, those with key k, in subnet s.
WgNodes(ns, P)     == {n \in P : ns[n].key # NoKey /\ ns[n].port}
WithKey(ns, P, k)  == {n \in WgNodes(ns, P) : ns[n].key = k}
InSubnet(ns, P, s) == {n \in P : ns[n].subnet = s}

\* WireGuardNode::add_peer for the nodes P of the map ns, in the order of
\* their ids: of two nodes with the same key the later one wins.
SetPeers(peers, ns, P) ==
    [k \in Keys |->
        LET of == WithKey(ns, P, k)
        IN  IF of = {} THEN peers[k]
            ELSE [addr |-> ns[Last(of)].addr, subnet |-> ns[Last(of)].subnet]]

\* set_wireguard_peer replaces the allowed IPs of a peer: of two nodes in the
\* same subnet the later one wins, unless its key is set again after it.
SetAllowed(allowed, ns, P) ==
    [s \in Subnets |->
        LET in == InSubnet(ns, WgNodes(ns, P), s)
        IN  IF in = {}
            THEN IF allowed[s] \in Keys /\ WithKey(ns, P, allowed[s]) # {}
                 THEN NoKey ELSE allowed[s]
            ELSE IF Last(WithKey(ns, P, ns[Last(in)].key)) = Last(in)
                 THEN ns[Last(in)].key ELSE NoKey]

\* add_wireguard_peer for the nodes P: an add_peer that fails is logged and
\* leaves the peers and their allowed IPs as they were.
AddPeers(nw, ns, P, o) ==
    IF ~nw.up THEN nw
    ELSE [nw EXCEPT !.peers = SetPeers(nw.peers, ns, P \cap o.peers),
                    !.allowed = SetAllowed(nw.allowed, ns, P \cap o.peers)]

\* add_route_to_peer_endpoint: a host route through the interface.
HostRoutes(nw, ns, P) ==
    IF nw.up THEN nw.hosts \cup {ns[n].addr : n \in P} ELSE nw.hosts

\* add_route_to_subnet through WireGuard if it runs, else `ip route add`
\* through VXLAN.  A route that exists stays.
SubnetRoutes(nw, ns, P) ==
    [s \in Subnets |->
        IF nw.routes[s] # NoRoute \/ InSubnet(ns, P, s) = {} THEN nw.routes[s]
        ELSE [via |-> IF nw.up THEN "wg" ELSE "vxlan",
              gw |-> ns[First(InSubnet(ns, P, s))].addr]]

\* add_vxlan_route for the nodes P: the error of a route is dropped or logged.
AddRoutes(nw, ns, P, o) ==
    [nw EXCEPT !.hosts  = HostRoutes(nw, ns, P \cap o.hosts),
               !.routes = SubnetRoutes(nw, ns, P \cap o.routes)]

\* remove_route_to_subnet asks for a static route: not a VXLAN one.
DropRoute(routes, s) ==
    IF routes[s].via = "wg" THEN [routes EXCEPT ![s] = NoRoute] ELSE routes

\* remove_subnet_route needs the handle of the WireGuard node; its error is
\* logged.
RemoveRoute(nw, s, o) ==
    IF nw.up /\ o.drop /\ s \in Subnets
    THEN [nw EXCEPT !.routes = DropRoute(nw.routes, s)] ELSE nw

\* ensure_wireguard: a node that runs is kept, else one is started or not.
EnsureWireGuard(nw, o) == [nw EXCEPT !.up = nw.up \/ o.start]

\* configure_bridge rewrites the CNI configuration.  Without a home directory,
\* or when its directory or the file cannot be created, the old one stays; a
\* write that fails leaves the file truncated.
ConfigureBridge(nw, subnet, o) ==
    [nw EXCEPT !.bridge = CASE o.bridge = "written" -> subnet
                            [] o.bridge = "kept" -> nw.bridge
                            [] o.bridge = "torn" -> 0]

\* Faulty variant of SetupLocalNode: the peers are left to NodeAdded.
SetupLocalNode_RoutesOnly(nw, ns, subnet, o) ==
    AddRoutes(ConfigureBridge(EnsureWireGuard(nw, o), subnet, o), ns, Remote(ns), o)

\* setup_local_node (LocalNodeConfigured): starts WireGuard if it does not
\* run, rewrites the bridge configuration and adds all peers again.
SetupLocalNode(nw, ns, subnet, o) ==
    LET started == ConfigureBridge(EnsureWireGuard(nw, o), subnet, o)
    IN  AddRoutes(AddPeers(started, ns, Remote(ns), o), ns, Remote(ns), o)

\* add_node (NodeAdded) gets the address as it was announced: with a port in
\* it neither the endpoint nor the route can be parsed, and nothing happens.
NodeAdded(nw, ns, n, o) ==
    IF ns[n].addr \in BareAddrs
    THEN AddRoutes(AddPeers(nw, ns, {n}, o), ns, {n}, o) ELSE nw

\* update_node (NodeUpdated) only acts on an update of all three fields.
NodeUpdated(nw, ns, cmd, o) ==
    IF cmd.addr \in BareAddrs /\ cmd.key # NoKey /\ cmd.port
    THEN AddPeers(nw, ns, {cmd.node}, o) ELSE nw

-----------------------------------------------------------------------------
Init == /\ initialized = FALSE
        /\ nodes = [n \in NodeIds |-> NoNode]
        /\ subnetMap = [n \in NodeIds |-> 0]
        /\ placements = [v \in Vms |-> NoHost]
        /\ services = {}
        /\ applied = <<>>
        /\ net = NoNetwork
        /\ log = <<>>
        /\ done = <<>>
        /\ leased = [n \in NodeIds |-> 0]
        /\ last = NoSetup

LocalSubnet(sm) == IF sm[Self] # 0 THEN sm[Self] ELSE 1

\* The first subnet each node was given, once the map of subnets is sm.
Leases(sm) == [n \in NodeIds |-> IF leased[n] = 0 THEN sm[n] ELSE leased[n]]

\* SwarmRaft::bootstrap, from swarm_init_handler: no WireGuard key, no peers.
Bootstrapped ==
    [nodes EXCEPT ![Self] =
        NewNode(SelfAddr, NoKey, FALSE, AllocateSubnet(Self), TRUE)]

Bootstrap ==
    /\ ~initialized
    /\ initialized' = TRUE
    /\ nodes' = Bootstrapped
    /\ subnetMap' = [subnetMap EXCEPT ![Self] = AllocateSubnet(Self)]
    /\ leased' = Leases(subnetMap')
    /\ last' \in Outcomes
    /\ net' = SetupLocalNode(net, nodes', AllocateSubnet(Self), last')
    /\ UNCHANGED <<placements, services, applied, log, done>>

\* SwarmRaft::add_node after its checks.
AddNode(n, addr, key, port) ==
    LET ns == [nodes EXCEPT ![n] =
                 NewNode(addr, key, port, AllocateSubnet(n), FALSE)]
        sm == [subnetMap EXCEPT ![n] = AllocateSubnet(n)]
    IN  /\ nodes' = ns
        /\ subnetMap' = sm
        /\ leased' = Leases(sm)
        /\ last' \in Outcomes
        /\ \E o \in Outcomes :
              net' = SetupLocalNode(NodeAdded(net, ns, n, o), ns,
                                    LocalSubnet(sm), last')
        /\ UNCHANGED <<initialized, placements, services>>

\* Faulty variant of RemoveNode: without the trailing LocalNodeConfigured.
RemoveNode_NoSetup(n) ==
    /\ nodes' = [nodes EXCEPT ![n] = NoNode]
    /\ subnetMap' = [subnetMap EXCEPT ![n] = 0]
    /\ placements' = [v \in Vms |-> IF placements[v] = n THEN NoHost
                                    ELSE placements[v]]
    /\ \E o \in Outcomes : net' = RemoveRoute(net, subnetMap[n], o)
    /\ UNCHANGED <<initialized, services, leased, last>>

\* SwarmRaft::remove_node after its checks.  The WireGuard peer stays.
RemoveNode(n) ==
    LET ns == [nodes EXCEPT ![n] = NoNode]
        sm == [subnetMap EXCEPT ![n] = 0]
    IN  /\ nodes' = ns
        /\ subnetMap' = sm
        /\ placements' = [v \in Vms |-> IF placements[v] = n THEN NoHost
                                        ELSE placements[v]]
        /\ last' \in Outcomes
        /\ \E o \in Outcomes :
              net' = SetupLocalNode(RemoveRoute(net, subnetMap[n], o), ns,
                                    LocalSubnet(sm), last')
        /\ UNCHANGED <<initialized, services, leased>>

\* Faulty variant of WithEndpoint: a missing address is stored as such.
WithEndpoint_ClearAddr(x, cmd) ==
    [x EXCEPT !.addr = cmd.addr,
              !.key  = IF cmd.key = NoKey THEN x.key ELSE cmd.key,
              !.port = x.port \/ cmd.port]

\* The node x with each field of its endpoint that the update gives set.
WithEndpoint(x, cmd) ==
    [x EXCEPT !.addr = IF cmd.addr = NoAddr THEN x.addr ELSE cmd.addr,
              !.key  = IF cmd.key = NoKey THEN x.key ELSE cmd.key,
              !.port = x.port \/ cmd.port]

\* SwarmRaft::update_node_endpoint after its check.
UpdateNodeEndpoint(cmd) ==
    /\ nodes' = [nodes EXCEPT ![cmd.node] = WithEndpoint(nodes[cmd.node], cmd)]
    /\ \E o \in Outcomes : net' = NodeUpdated(net, nodes', cmd, o)
    /\ UNCHANGED <<initialized, subnetMap, placements, services, leased, last>>

\* The checks of add_node, remove_node and update_node_endpoint.
Rejected(cmd) ==
    \/ cmd.op = "add" /\ nodes[cmd.node] # NoNode
    \/ cmd.op = "remove" /\ (cmd.node = Self \/ nodes[cmd.node] = NoNode)
    \/ cmd.op = "update" /\ nodes[cmd.node] = NoNode

\* The match of submit_command.  RegisterNode is an add without a key,
\* DeregisterNode a remove, UpdateService a CreateService.
Apply(cmd) ==
    \/ cmd.op = "add" /\ AddNode(cmd.node, cmd.addr, cmd.key, cmd.port)
    \/ cmd.op = "remove" /\ RemoveNode(cmd.node)
    \/ cmd.op = "update" /\ UpdateNodeEndpoint(cmd)
    \/ /\ cmd.op = "place"
       /\ placements' = [placements EXCEPT ![cmd.vm] = cmd.node]
       /\ UNCHANGED <<initialized, nodes, subnetMap, services, net, leased, last>>
    \/ /\ cmd.op = "unplace"
       /\ placements' = [placements EXCEPT ![cmd.vm] = NoHost]
       /\ UNCHANGED <<initialized, nodes, subnetMap, services, net, leased, last>>
    \/ /\ cmd.op \in {"serve", "unserve"}
       /\ services' = IF cmd.op = "serve" THEN services \cup {cmd.name}
                      ELSE services \ {cmd.name}
       /\ UNCHANGED <<initialized, nodes, subnetMap, placements, net, leased, last>>

\* Faulty variant of Remember: the drain takes one entry too many.
Remember_DrainOneMore(s, i) ==
    LET t == Append(s, i)
    IN  IF Len(t) > Window THEN SubSeq(t, Drain + 2, Len(t)) ELSE t

Remember(s, i) ==
    LET t == Append(s, i)
    IN  IF Len(t) > Window THEN SubSeq(t, Drain + 1, Len(t)) ELSE t

Known(i) == \E j \in 1..Len(applied) : applied[j] = i

\* submit_command.  A known index is skipped; a rejected command returns Err
\* and its index is not remembered.
SubmitCommand(cmd, i) ==
    /\ initialized
    /\ \/ /\ Known(i) \/ Rejected(cmd)
          /\ UNCHANGED <<raft, applied, net, done, leased, last>>
       \/ /\ ~Known(i) /\ ~Rejected(cmd)
          /\ Len(done) < MaxDone
          /\ Apply(cmd)
          /\ applied' = Remember(applied, i)
          /\ done' = Append(done, i)

\* The log hands over its next entry, or one it has handed over before.
Deliver(cmd) == /\ Len(log) < MaxLog
                /\ log' = Append(log, cmd)
                /\ SubmitCommand(cmd, Len(log) + 1)

Redeliver(i) == /\ SubmitCommand(log[i], i)
                /\ UNCHANGED log

\* swarm_join_handler once the node it asks has accepted: bootstrap if
\* needed, then add_node, whose refusal does not undo the bootstrap.
Join(cmd) ==
    /\ cmd.op = "add"
    /\ IF initialized
       THEN IF nodes[cmd.node] # NoNode
            THEN UNCHANGED <<raft, net, leased, last>>
            ELSE AddNode(cmd.node, cmd.addr, cmd.key, cmd.port)
       ELSE LET n   == cmd.node
                b   == Bootstrapped
                new == n # Self
                ns  == IF new
                       THEN [b EXCEPT ![n] = NewNode(cmd.addr, cmd.key, cmd.port,
                                                     AllocateSubnet(n), FALSE)]
                       ELSE b
                sm  == [subnetMap EXCEPT ![Self] = AllocateSubnet(Self),
                                         ![n] = AllocateSubnet(n)]
            IN  /\ initialized' = TRUE
                /\ nodes' = ns
                /\ subnetMap' = sm
                /\ leased' = Leases(sm)
                /\ last' \in Outcomes
                /\ IF new
                   THEN \E o, p \in Outcomes :
                          LET up == SetupLocalNode(net, b, sm[Self], o)
                          IN  net' = SetupLocalNode(NodeAdded(up, ns, n, p), ns,
                                                    sm[Self], last')
                   ELSE net' = SetupLocalNode(net, b, sm[Self], last')
                /\ UNCHANGED <<placements, services>>
    /\ UNCHANGED <<applied, log, done>>

Next == \/ Bootstrap
        \/ \E cmd \in Commands : Deliver(cmd)
        \/ \E i \in 1..Len(log) : Redeliver(i)
        \/ \E cmd \in Commands : Join(cmd)

Spec == Init /\ [][Next]_vars
-----------------------------------------------------------------------------
(* Correctness.                                                             *)

\* The maps of SwarmRaft and the configuration of the host keep their types.
TypeOK ==
    /\ initialized \in BOOLEAN
    /\ nodes \in [NodeIds -> NodeInfo \cup {NoNode}]
    /\ subnetMap \in [NodeIds -> Subnets \cup {0}]
    /\ placements \in [Vms -> NodeIds \cup {NoHost}]
    /\ services \subseteq Services
    /\ applied \in Seq(Nat)
    /\ net \in Network
    /\ log \in Seq(Commands)
    /\ done \in Seq(Nat)
    /\ leased \in [NodeIds -> Subnets \cup {0}]
    /\ last \in Outcome

\* The subnet of a node depends on its id alone ("Deterministic subnet
\* allocation (no central mutex)", swarm-migration.md): a node that comes back
\* is given the subnet it first had, whoever joined or left meanwhile, and
\* only nodes whose ids agree modulo 254 share one.  The two maps of SwarmRaft
\* agree on it, only this node is leader, and the bridge is in the subnet of
\* this node unless the latest configure_bridge failed and left no file that
\* can be read.
SubnetsAgree ==
    /\ \A n \in NodeIds :
         /\ subnetMap[n] = nodes[n].subnet
         /\ nodes[n] # NoNode => nodes[n].subnet = leased[n]
         /\ nodes[n].leader => n = Self
    /\ \A m, n \in Members(nodes) :
         nodes[m].subnet = nodes[n].subnet => m % 254 = n % 254
    /\ initialized =>
         \/ net.bridge = subnetMap[Self]
         \/ net.bridge = 0 /\ last.bridge # "written"

\* Every remote member can be reached: its subnet has a route, in spite of
\* removals that take away the route of a subnet two members share, and of
\* routes that could not be made before.  It may only lack one while the
\* `route add` for it in the latest setup_local_node is the one that failed.
MembersReachable ==
    \A n \in Remote(nodes) :
        n \in last.routes => net.routes[nodes[n].subnet] # NoRoute

KeysDistinct(ns) ==
    \A m, n \in Remote(ns) : ns[m].key = ns[n].key /\ m # n => ns[n].key = NoKey

\* A change of membership repairs the mesh: after it, while WireGuard runs,
\* the packets for the subnet of a member that has a WireGuard endpoint, and
\* whose add_peer in this change did not fail, are encrypted to a member of
\* that subnet at its present address, never to a node that has left
\* (remove_node leaves the peers of such nodes behind), whatever add_peer
\* failed before, as long as no two members announce the same key.
MembershipRepairsMesh ==
    [][Members(nodes') # Members(nodes) /\ net'.up /\ KeysDistinct(nodes') =>
         \A n \in Remote(nodes') :
           nodes'[n].key # NoKey /\ nodes'[n].port /\ n \in last'.peers =>
             \E m \in Remote(nodes') :
               /\ nodes'[m].subnet = nodes'[n].subnet
               /\ net'.allowed[nodes'[n].subnet] = nodes'[m].key
               /\ net'.peers[nodes'[m].key].addr = nodes'[m].addr]_vars

\* Replay protection survives the drains of applied_commands: the latest
\* Window - Drain + 1 commands that took effect are always remembered, so a
\* redelivery of one of them is skipped.
RecentRemembered ==
    \A k \in 1..Len(done) : k > Len(done) - (Window - Drain + 1) => Known(done[k])

-----------------------------------------------------------------------------
\* "Swarm ensures unique Subnet Leases" (README.md): no two members have the
\* same subnet.
SubnetsUnique ==
    \A m, n \in Members(nodes) :
        nodes[m].subnet = nodes[n].subnet => m = n
=============================================================================
