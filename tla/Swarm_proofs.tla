---------------------------- MODULE Swarm_proofs ----------------------------
(***************************************************************************)
(* Proofs about Swarm, for every set of node ids, every set of commands    *)
(* and every size of the replay window.                                    *)
(***************************************************************************)
EXTENDS Swarm, SequenceTheorems, WellFoundedInduction, TLAPS

NodeMap == [NodeIds -> NodeInfo \cup {NoNode}]

-----------------------------------------------------------------------------
(* Ids, subnets and nodes.                                                  *)

\* A set of ids has a first and a last element.
LEMMA FirstLast ==
    ASSUME NEW S \in SUBSET NodeIds, S # {}
    PROVE  First(S) \in S /\ Last(S) \in S
  <1>. USE NodeAssumption
  <1>1. \E n \in S : \A m \in S : n <= m
    <2>0. S \subseteq Nat  OBVIOUS
    <2>1. PICK n \in S : \A m \in S : ~(<<m, n>> \in OpToRel(<, Nat))
          BY <2>0, NatLessThanWellFounded, WFMin
    <2>2. \A m \in S : ~(m < n)  BY <2>0, <2>1 DEF OpToRel
    <2>. QED  BY <2>0, <2>2
  <1>2. \E n \in S : \A m \in S : m <= n
    <2>. DEFINE T == {MaxId - n : n \in S}
    <2>1. T \subseteq Nat /\ T # {}  OBVIOUS
    <2>2. PICK t \in T : \A u \in T : ~(<<u, t>> \in OpToRel(<, Nat))
          BY <2>1, NatLessThanWellFounded, WFMin
    <2>3. PICK n \in S : t = MaxId - n  BY <2>2
    <2>4. ASSUME NEW m \in S PROVE m <= n
      <3>1. MaxId - m \in T  OBVIOUS
      <3>2. ~(MaxId - m < MaxId - n)  BY <2>1, <2>2, <2>3, <3>1 DEF OpToRel
      <3>. QED  BY <3>2
    <2>. QED  BY <2>4
  <1>. QED  BY <1>1, <1>2 DEF First, Last

\* compute_subnet_id gives a third octet that is neither 0 nor 255.
LEMMA SubnetRange ==
    /\ \A n \in NodeIds : ComputeSubnetId(n) \in Subnets
    /\ Subnets \subseteq 1..254
  BY NodeAssumption DEF Subnets, ComputeSubnetId

\* Members have an address and a subnet.
LEMMA MemberType ==
    ASSUME NEW ns \in NodeMap, NEW n \in Members(ns)
    PROVE  ns[n] \in NodeInfo
  BY DEF NodeMap, Members

-----------------------------------------------------------------------------
(* The host network.                                                        *)

\* add_wireguard_peer touches peers and allowed IPs only.
LEMMA AddPeersType ==
    ASSUME NEW nw \in Network, NEW ns \in NodeMap, NEW P \in SUBSET Members(ns), NEW o \in Outcome
    PROVE  /\ AddPeers(nw, ns, P, o) \in Network
           /\ AddPeers(nw, ns, P, o).up = nw.up
           /\ AddPeers(nw, ns, P, o).routes = nw.routes
           /\ AddPeers(nw, ns, P, o).bridge = nw.bridge
  <1>. DEFINE Q       == P \cap o.peers
              peers   == SetPeers(nw.peers, ns, Q)
              allowed == SetAllowed(nw.allowed, ns, Q)
              of(k)   == WithKey(ns, Q, k)
              in(s)   == InSubnet(ns, WgNodes(ns, Q), s)
  <1>1. AddPeers(nw, ns, P, o) =
           IF ~nw.up THEN nw
           ELSE [nw EXCEPT !.peers = peers, !.allowed = allowed]
        BY DEF AddPeers
  <1>2. \A n \in Q : ns[n] \in NodeInfo  BY MemberType
  <1>3. Q \subseteq NodeIds  BY DEF Members
  <1>9. /\ \A k : of(k) \subseteq Q
        /\ \A s : in(s) \subseteq Q
        BY DEF WithKey, InSubnet, WgNodes
  <1>10. \A k \in Keys : peers[k] = IF of(k) = {} THEN nw.peers[k]
                                    ELSE [addr |-> ns[Last(of(k))].addr,
                                          subnet |-> ns[Last(of(k))].subnet]
         BY DEF SetPeers
  <1>11. \A s \in Subnets :
            allowed[s] = IF in(s) = {}
                         THEN IF nw.allowed[s] \in Keys /\ of(nw.allowed[s]) # {}
                              THEN NoKey ELSE nw.allowed[s]
                         ELSE IF Last(of(ns[Last(in(s))].key)) = Last(in(s))
                              THEN ns[Last(in(s))].key ELSE NoKey
         BY DEF SetAllowed
  <1>12. peers = [k \in Keys |-> peers[k]] /\ allowed = [s \in Subnets |-> allowed[s]]
         BY DEF SetPeers, SetAllowed
  <1>. HIDE DEF Q, peers, allowed, of, in
  <1>4. peers \in [Keys -> [addr : Addrs, subnet : Subnets] \cup {NoPeer}]
    <2>1. ASSUME NEW k \in Keys
          PROVE  peers[k] \in [addr : Addrs, subnet : Subnets] \cup {NoPeer}
      <3>1. CASE of(k) = {}  BY <1>10, <3>1 DEF Network
      <3>2. CASE of(k) # {}
        <4>1. Last(of(k)) \in of(k)  BY <1>3, <1>9, <3>2, FirstLast
        <4>2. ns[Last(of(k))] \in NodeInfo  BY <1>2, <1>9, <4>1
        <4>3. /\ ns[Last(of(k))].addr \in Addrs
              /\ ns[Last(of(k))].subnet \in Subnets
              BY <4>2 DEF NodeInfo
        <4>4. peers[k] = [addr |-> ns[Last(of(k))].addr,
                          subnet |-> ns[Last(of(k))].subnet]
              BY <1>10, <3>2
        <4>. QED  BY <4>3, <4>4
      <3>. QED  BY <3>1, <3>2
    <2>. QED  BY <1>12, <2>1
  <1>5. allowed \in [Subnets -> Keys \cup {NoKey}]
    <2>1. ASSUME NEW s \in Subnets  PROVE allowed[s] \in Keys \cup {NoKey}
      <3>1. CASE in(s) = {}  BY <1>11, <3>1 DEF Network
      <3>2. CASE in(s) # {}
        <4>1. Last(in(s)) \in in(s)  BY <1>3, <1>9, <3>2, FirstLast
        <4>2. ns[Last(in(s))] \in NodeInfo  BY <1>2, <1>9, <4>1
        <4>3. ns[Last(in(s))].key \in Keys \cup {NoKey}  BY <4>2 DEF NodeInfo
        <4>. QED  BY <1>11, <3>2, <4>3
      <3>. QED  BY <3>1, <3>2
    <2>. QED  BY <1>12, <2>1
  <1>6. [nw EXCEPT !.peers = peers, !.allowed = allowed] \in Network
        BY <1>4, <1>5 DEF Network
  <1>7. CASE nw.up
    <2>1. AddPeers(nw, ns, P, o) = [nw EXCEPT !.peers = peers, !.allowed = allowed]
          BY <1>1, <1>7
    <2>2. /\ [nw EXCEPT !.peers = peers, !.allowed = allowed].up = nw.up
          /\ [nw EXCEPT !.peers = peers, !.allowed = allowed].routes = nw.routes
          /\ [nw EXCEPT !.peers = peers, !.allowed = allowed].bridge = nw.bridge
          BY DEF Network
    <2>. QED  BY <1>6, <2>1, <2>2
  <1>8. CASE ~nw.up
    <2>1. AddPeers(nw, ns, P, o) = nw  BY <1>1, <1>8
    <2>. QED  BY <2>1
  <1>. QED  BY <1>7, <1>8

\* add_vxlan_route keeps every route there is and makes the missing ones.
LEMMA AddRoutesType ==
    ASSUME NEW nw \in Network, NEW ns \in NodeMap, NEW P \in SUBSET Members(ns), NEW o \in Outcome
    PROVE  /\ AddRoutes(nw, ns, P, o) \in Network
           /\ AddRoutes(nw, ns, P, o).bridge = nw.bridge
           /\ \A n \in P \cap o.routes :
                 AddRoutes(nw, ns, P, o).routes[ns[n].subnet] # NoRoute
           /\ \A s \in Subnets : nw.routes[s] # NoRoute
                 => AddRoutes(nw, ns, P, o).routes[s] # NoRoute
  <1>. DEFINE Q      == P \cap o.routes
              in(s)  == InSubnet(ns, Q, s)
              hosts  == HostRoutes(nw, ns, P \cap o.hosts)
              routes == SubnetRoutes(nw, ns, Q)
  <1>1. AddRoutes(nw, ns, P, o) = [nw EXCEPT !.hosts = hosts, !.routes = routes]
        BY DEF AddRoutes
  <1>2. \A n \in P : ns[n] \in NodeInfo  BY MemberType
  <1>3. Q \subseteq NodeIds  BY DEF Members
  <1>4. hosts \in SUBSET Addrs  BY <1>2 DEF HostRoutes, Network, NodeInfo
  <1>5. ASSUME NEW s \in Subnets
        PROVE  /\ routes[s] \in [via : {"wg", "vxlan"}, gw : Addrs] \cup {NoRoute}
               /\ nw.routes[s] # NoRoute \/ in(s) # {} => routes[s] # NoRoute
    <2>1. CASE nw.routes[s] # NoRoute \/ in(s) = {}
          BY <2>1 DEF Network, SubnetRoutes
    <2>2. CASE nw.routes[s] = NoRoute /\ in(s) # {}
      <3>0. in(s) \subseteq Q  BY DEF InSubnet
      <3>1. First(in(s)) \in in(s)  BY <1>3, <2>2, <3>0, FirstLast
      <3>2. ns[First(in(s))].addr \in Addrs  BY <1>2, <3>0, <3>1 DEF NodeInfo
      <3>3. routes[s] = [via |-> IF nw.up THEN "wg" ELSE "vxlan",
                         gw |-> ns[First(in(s))].addr]
            BY <2>2 DEF SubnetRoutes
      <3>. HIDE DEF routes, in
      <3>4. routes[s].via # NoRoute.via  BY <3>3 DEF NoRoute
      <3>5. routes[s] \in [via : {"wg", "vxlan"}, gw : Addrs]  BY <3>2, <3>3
      <3>6. routes[s] # NoRoute  BY <3>4
      <3>. QED  BY <3>5, <3>6
    <2>. QED  BY <2>1, <2>2
  <1>6. routes \in [Subnets -> [via : {"wg", "vxlan"}, gw : Addrs] \cup {NoRoute}]
    <2>1. routes = [s \in Subnets |-> routes[s]]  BY DEF SubnetRoutes
    <2>. HIDE DEF routes
    <2>. QED  BY <1>5, <2>1
  <1>7. \A n \in Q : ns[n].subnet \in Subnets /\ in(ns[n].subnet) # {}
        BY <1>2 DEF NodeInfo, InSubnet
  <1>. HIDE DEF hosts, routes
  <1>8. AddRoutes(nw, ns, P, o) \in Network /\ AddRoutes(nw, ns, P, o).routes = routes
        /\ AddRoutes(nw, ns, P, o).bridge = nw.bridge
        BY <1>1, <1>4, <1>6 DEF Network
  <1>. QED  BY <1>5, <1>7, <1>8

\* remove_subnet_route yields a network.
LEMMA RemoveRouteType ==
    ASSUME NEW nw \in Network, NEW s, NEW o \in Outcome
    PROVE  /\ RemoveRoute(nw, s, o) \in Network
           /\ RemoveRoute(nw, s, o).bridge = nw.bridge
  <1>1. CASE nw.up /\ o.drop /\ s \in Subnets
    <2>1. DropRoute(nw.routes, s)
             \in [Subnets -> [via : {"wg", "vxlan"}, gw : Addrs] \cup {NoRoute}]
          BY DEF Network, DropRoute
    <2>2. RemoveRoute(nw, s, o) = [nw EXCEPT !.routes = DropRoute(nw.routes, s)]
          BY <1>1 DEF RemoveRoute
    <2>. QED  BY <2>1, <2>2 DEF Network
  <1>. QED  BY <1>1 DEF RemoveRoute

\* The NodeAdded handler yields a network and leaves the bridge alone.
LEMMA AddedType ==
    ASSUME NEW nw \in Network, NEW ns \in NodeMap, NEW n \in Members(ns),
           NEW o \in Outcome
    PROVE  /\ NodeAdded(nw, ns, n, o) \in Network
           /\ NodeAdded(nw, ns, n, o).bridge = nw.bridge
  <1>1. {n} \in SUBSET Members(ns)  OBVIOUS
  <1>2. /\ AddPeers(nw, ns, {n}, o) \in Network
        /\ AddPeers(nw, ns, {n}, o).bridge = nw.bridge
        BY <1>1, AddPeersType
  <1>3. /\ AddRoutes(AddPeers(nw, ns, {n}, o), ns, {n}, o) \in Network
        /\ AddRoutes(AddPeers(nw, ns, {n}, o), ns, {n}, o).bridge = nw.bridge
        BY <1>1, <1>2, AddRoutesType
  <1>. QED  BY <1>3 DEF NodeAdded

\* The NodeUpdated handler yields a network and leaves the routes alone too.
LEMMA UpdatedType ==
    ASSUME NEW nw \in Network, NEW ns \in NodeMap, NEW cmd,
           cmd.node \in Members(ns), NEW o \in Outcome
    PROVE  /\ NodeUpdated(nw, ns, cmd, o) \in Network
           /\ NodeUpdated(nw, ns, cmd, o).routes = nw.routes
           /\ NodeUpdated(nw, ns, cmd, o).bridge = nw.bridge
  <1>1. {cmd.node} \in SUBSET Members(ns)  OBVIOUS
  <1>2. /\ AddPeers(nw, ns, {cmd.node}, o) \in Network
        /\ AddPeers(nw, ns, {cmd.node}, o).routes = nw.routes
        /\ AddPeers(nw, ns, {cmd.node}, o).bridge = nw.bridge
        BY <1>1, AddPeersType
  <1>. QED  BY <1>2 DEF NodeUpdated

\* configure_bridge leaves the bridge in subnet s, where it was, or without a
\* configuration that can be read; ensure_wireguard leaves it alone.
LEMMA StartedType ==
    ASSUME NEW nw \in Network, NEW s \in Subnets \cup {0}, NEW o \in Outcome,
           nw.bridge \in {0, s}
    PROVE  LET up == ConfigureBridge(EnsureWireGuard(nw, o), s, o)
           IN  /\ up \in Network
               /\ up.bridge = s \/ (up.bridge = 0 /\ o.bridge # "written")
  <1>1. PICK e : e = EnsureWireGuard(nw, o)  OBVIOUS
  <1>2. e \in Network /\ e.bridge = nw.bridge
        BY <1>1 DEF EnsureWireGuard, Network, Outcome
  <1>3. o.bridge \in {"written", "kept", "torn"}  BY DEF Outcome
  <1>4. CASE o.bridge = "written"
        BY <1>1, <1>2, <1>4 DEF ConfigureBridge, Network
  <1>5. CASE o.bridge = "kept"
    <2>1. ConfigureBridge(e, s, o) = [e EXCEPT !.bridge = e.bridge]
          BY <1>5 DEF ConfigureBridge
    <2>. QED  BY <1>1, <1>2, <1>5, <2>1 DEF Network
  <1>6. CASE o.bridge = "torn"
    <2>1. ConfigureBridge(e, s, o) = [e EXCEPT !.bridge = 0]
          BY <1>6 DEF ConfigureBridge
    <2>. QED  BY <1>1, <1>2, <1>6, <2>1 DEF Network
  <1>. QED  BY <1>3, <1>4, <1>5, <1>6

-----------------------------------------------------------------------------
(* The mesh.                                                                *)

\* While WireGuard runs and the keys are distinct, the packets for the subnet
\* of a remote node that has an endpoint, and whose add_peer took effect in
\* the setup with outcome o, go to a remote node of that subnet.
Meshed(ns, nw, o) ==
    nw.up /\ KeysDistinct(ns) =>
       \A n \in Remote(ns) :
          ns[n].key # NoKey /\ ns[n].port /\ n \in o.peers =>
             \E m \in Remote(ns) : /\ ns[m].subnet = ns[n].subnet
                                   /\ nw.allowed[ns[n].subnet] = ns[m].key
                                   /\ nw.peers[ns[m].key].addr = ns[m].addr

\* add_wireguard_peer for all remote nodes makes the mesh: of the nodes of a
\* subnet the last is set last, and no later node has its key.
LEMMA AddPeersMeshes ==
    ASSUME NEW nw \in Network, NEW ns \in NodeMap, NEW o \in Outcome
    PROVE  Meshed(ns, AddPeers(nw, ns, Remote(ns), o), o)
  <1>. DEFINE P   == Remote(ns) \cap o.peers
              res == AddPeers(nw, ns, Remote(ns), o)
  <1>1. P \in SUBSET Members(ns) /\ P \in SUBSET NodeIds  BY DEF Remote, Members
  <1>2. res.up = nw.up  BY AddPeersType DEF Remote
  <1>. SUFFICES ASSUME nw.up, KeysDistinct(ns), NEW n \in P,
                       ns[n].key # NoKey, ns[n].port
                PROVE  \E m \in P : /\ ns[m].subnet = ns[n].subnet
                                    /\ res.allowed[ns[n].subnet] = ns[m].key
                                    /\ res.peers[ns[m].key].addr = ns[m].addr
       BY <1>2 DEF Meshed
  <1>3. /\ res.peers = SetPeers(nw.peers, ns, P)
        /\ res.allowed = SetAllowed(nw.allowed, ns, P)
        BY DEF AddPeers, Network
  <1>. HIDE DEF P, res
  <1>. DEFINE s  == ns[n].subnet
              in == InSubnet(ns, WgNodes(ns, P), s)
              m  == Last(in)
              k  == ns[m].key
  <1>4. in \in SUBSET NodeIds /\ in # {}
        BY <1>1 DEF InSubnet, WgNodes
  <1>5. m \in in  BY <1>4, FirstLast
  <1>6. m \in P /\ ns[m].subnet = s /\ k # NoKey /\ ns[m].port
        BY <1>5 DEF InSubnet, WgNodes
  <1>7. ns[m] \in NodeInfo /\ ns[n] \in NodeInfo  BY <1>1, <1>6, MemberType
  <1>8. k \in Keys /\ s \in Subnets  BY <1>6, <1>7 DEF NodeInfo
  <1>. HIDE DEF m, k
  <1>9. WithKey(ns, P, k) = {m}
    <2>1. m \in WithKey(ns, P, k)  BY <1>6 DEF WithKey, WgNodes, k
    <2>2. ASSUME NEW q \in WithKey(ns, P, k)  PROVE q = m
      <3>1. q \in P /\ ns[q].key = k  BY DEF WithKey, WgNodes
      <3>2. ns[m].key = k  BY DEF k
      <3>. QED  BY <1>6, <3>1, <3>2 DEF KeysDistinct, P
    <2>. QED  BY <2>1, <2>2
  <1>10. Last(WithKey(ns, P, k)) = m
    <2>1. {m} \in SUBSET NodeIds /\ {m} # {}  BY <1>1, <1>6
    <2>2. Last({m}) \in {m}  BY <2>1, FirstLast
    <2>. QED  BY <1>9, <2>2
  <1>11. res.allowed[s] = k
    <2>1. SetAllowed(nw.allowed, ns, P)[s] =
             IF Last(WithKey(ns, P, k)) = m THEN k ELSE NoKey
          BY <1>4, <1>8 DEF SetAllowed, m, k
    <2>. QED  BY <1>3, <1>10, <2>1
  <1>12. res.peers[k].addr = ns[m].addr
    <2>1. SetPeers(nw.peers, ns, P)[k] = [addr |-> ns[m].addr, subnet |-> ns[m].subnet]
          BY <1>8, <1>9, <1>10 DEF SetPeers
    <2>. QED  BY <1>3, <2>1
  <1>. QED  BY <1>6, <1>11, <1>12 DEF k

\* What setup_local_node leaves for the nodes ns and the subnet s: a network
\* whose bridge is in s unless configure_bridge failed, with a route to every
\* remote node whose route add did not fail, and a mesh.
Configured(ns, s, nw, o) ==
    /\ nw \in Network
    /\ nw.bridge = s \/ (nw.bridge = 0 /\ o.bridge # "written")
    /\ \A n \in Remote(ns) : n \in o.routes => nw.routes[ns[n].subnet] # NoRoute
    /\ Meshed(ns, nw, o)

\* setup_local_node configures the network, whatever routes and peers there
\* were before and whatever failed then.
LEMMA SetupConfigures ==
    ASSUME NEW nw \in Network, NEW ns \in NodeMap,
           NEW s \in Subnets \cup {0}, NEW o \in Outcome, nw.bridge \in {0, s}
    PROVE  Configured(ns, s, SetupLocalNode(nw, ns, s, o), o)
  <1>0. Remote(ns) \in SUBSET Members(ns)  BY DEF Remote
  <1>1. PICK up : up = ConfigureBridge(EnsureWireGuard(nw, o), s, o)  OBVIOUS
  <1>2. up \in Network /\ (up.bridge = s \/ (up.bridge = 0 /\ o.bridge # "written"))
        BY <1>1, StartedType
  <1>3. PICK mid : mid = AddPeers(up, ns, Remote(ns), o)  OBVIOUS
  <1>4. mid \in Network /\ mid.bridge = up.bridge
        BY <1>0, <1>2, <1>3, AddPeersType
  <1>41. Meshed(ns, mid, o)  BY <1>2, <1>3, AddPeersMeshes
  <1>5. PICK res : res = AddRoutes(mid, ns, Remote(ns), o)  OBVIOUS
  <1>6. /\ res \in Network /\ res.bridge = mid.bridge
        /\ \A n \in Remote(ns) \cap o.routes : res.routes[ns[n].subnet] # NoRoute
    <2>1. /\ AddRoutes(mid, ns, Remote(ns), o) \in Network
          /\ AddRoutes(mid, ns, Remote(ns), o).bridge = mid.bridge
          /\ \A n \in Remote(ns) \cap o.routes :
                AddRoutes(mid, ns, Remote(ns), o).routes[ns[n].subnet] # NoRoute
          BY <1>0, <1>4, AddRoutesType
    <2>. QED  BY <1>5, <2>1
  <1>7. res.up = mid.up /\ res.peers = mid.peers /\ res.allowed = mid.allowed
        BY <1>4, <1>5 DEF AddRoutes, Network
  <1>8. Meshed(ns, res, o)  BY <1>41, <1>7 DEF Meshed
  <1>9. Configured(ns, s, res, o)  BY <1>2, <1>4, <1>6, <1>8 DEF Configured
  <1>10. SetupLocalNode(nw, ns, s, o) = res
         BY <1>1, <1>3, <1>5 DEF SetupLocalNode
  <1>. QED  BY <1>9, <1>10

-----------------------------------------------------------------------------
(* The inductive invariant: the subnet of a node is the one compute_subnet_id *)
(* gives, now and when it was first leased; a node that is not initialized    *)
(* knows no nodes, one that is knows itself; what is remembered is the tail   *)
(* of what took effect.                                                       *)

Agrees == /\ \A n \in NodeIds :
               /\ subnetMap[n] = nodes[n].subnet
               /\ nodes[n] # NoNode => nodes[n].subnet = ComputeSubnetId(n)
               /\ nodes[n].leader => n = Self
          /\ initialized => \/ net.bridge = subnetMap[Self]
                            \/ net.bridge = 0 /\ last.bridge # "written"

Leased == \A n \in NodeIds : /\ leased[n] \in {0, ComputeSubnetId(n)}
                             /\ nodes[n] # NoNode => leased[n] # 0

Standing == /\ ~initialized => /\ nodes = [n \in NodeIds |-> NoNode]
                               /\ net.bridge = 0
            /\ initialized => nodes[Self] # NoNode

RememberedTail ==
    /\ Len(applied) <= Len(done) /\ Len(applied) <= Window
    /\ \A j \in 1..Len(applied) :
          applied[j] = done[Len(done) - Len(applied) + j]
    /\ Len(applied) < Len(done) => Len(applied) >= Window - Drain + 1

SwarmInv == /\ TypeOK /\ Agrees /\ Leased /\ MembersReachable
            /\ Standing /\ RememberedTail

\* The invariant gives the property: nodes that share a subnet have ids that
\* agree modulo 254, and the lease of a member is its subnet.
LEMMA AgreesGives ==
    ASSUME TypeOK, Agrees, Leased
    PROVE  SubnetsAgree
  <1>1. ASSUME NEW n \in NodeIds, nodes[n] # NoNode
        PROVE  nodes[n].subnet = leased[n]
        BY <1>1 DEF Agrees, Leased
  <1>2. ASSUME NEW m \in Members(nodes), NEW n \in Members(nodes),
               nodes[m].subnet = nodes[n].subnet
        PROVE  m % 254 = n % 254
    <2>1. ComputeSubnetId(m) = ComputeSubnetId(n)  BY <1>2 DEF Agrees, Members
    <2>2. m \in Nat /\ n \in Nat  BY NodeAssumption DEF Members
    <2>3. \A i \in Nat : ComputeSubnetId(i) = (i % 254) + 1  BY DEF ComputeSubnetId
    <2>4. \A i \in Nat : i % 254 \in Nat  OBVIOUS
    <2>. QED  BY <2>1, <2>2, <2>3, <2>4
  <1>. QED  BY <1>1, <1>2 DEF SubnetsAgree, Agrees

\* Recording the leases of the new map keeps what is known of them.
LEMMA LeaseKeeps ==
    ASSUME TypeOK, Leased, leased' = Leases(subnetMap'),
           \A n \in NodeIds :
             /\ subnetMap'[n] = nodes'[n].subnet
             /\ nodes'[n] # NoNode => nodes'[n].subnet = ComputeSubnetId(n)
    PROVE  leased' \in [NodeIds -> Subnets \cup {0}] /\ Leased'
  <1>1. ASSUME NEW n \in NodeIds
        PROVE  /\ leased'[n] \in {0, ComputeSubnetId(n)}
               /\ nodes'[n] # NoNode => leased'[n] # 0
    <2>1. ComputeSubnetId(n) # 0  BY SubnetRange
    <2>2. NoNode.subnet = 0  BY DEF NoNode
    <2>3. leased'[n] = IF leased[n] = 0 THEN subnetMap'[n] ELSE leased[n]
          BY DEF Leases
    <2>. QED  BY <2>1, <2>2, <2>3 DEF Leased
  <1>2. \A n \in NodeIds : leased'[n] \in Subnets \cup {0}  BY <1>1, SubnetRange
  <1>3. leased' = [n \in NodeIds |-> leased'[n]]  BY DEF Leases
  <1>. QED  BY <1>1, <1>2, <1>3 DEF Leased

\* Leases that stay are right as long as no node is added.
LEMMA LeaseStays ==
    ASSUME TypeOK, Leased, leased' = leased,
           \A n \in NodeIds : nodes'[n] # NoNode => nodes[n] # NoNode
    PROVE  leased' \in [NodeIds -> Subnets \cup {0}] /\ Leased'
  <1>1. leased' \in [NodeIds -> Subnets \cup {0}]  BY DEF TypeOK
  <1>. QED  BY <1>1 DEF Leased

\* allocate_subnet gives the subnet of the id.
LEMMA AllocateIs ==
    ASSUME TypeOK, Agrees, NEW n \in NodeIds
    PROVE  AllocateSubnet(n) = ComputeSubnetId(n) /\ AllocateSubnet(n) \in Subnets
  <1>1. nodes[n] \in NodeInfo \cup {NoNode}  BY DEF TypeOK
  <1>2. subnetMap[n] # 0 => nodes[n] # NoNode  BY DEF Agrees, NoNode
  <1>. QED  BY <1>1, <1>2, SubnetRange DEF AllocateSubnet, Agrees

\* An initialized node knows its own subnet.
LEMMA SelfSubnet ==
    ASSUME Agrees, Standing, initialized
    PROVE  subnetMap[Self] # 0
  <1>1. nodes[Self] # NoNode  BY DEF Standing
  <1>2. subnetMap[Self] = ComputeSubnetId(Self)
        BY <1>1, NodeAssumption DEF Agrees
  <1>3. ComputeSubnetId(Self) \in 1..254  BY SubnetRange, NodeAssumption
  <1>. QED  BY <1>2, <1>3

\* A step that changes the members leaves a mesh of those there are now.
Repaired == Members(nodes') # Members(nodes) => Meshed(nodes', net', last')

\* What the membership operations leave: types, agreement, routes, the mesh.
Kept == /\ initialized' \in BOOLEAN
        /\ nodes' \in NodeMap
        /\ subnetMap' \in [NodeIds -> Subnets \cup {0}]
        /\ placements' \in [Vms -> NodeIds \cup {NoHost}]
        /\ services' \subseteq Services
        /\ net' \in Network
        /\ leased' \in [NodeIds -> Subnets \cup {0}]
        /\ last' \in Outcome
        /\ Agrees' /\ Leased' /\ MembersReachable' /\ Standing'
        /\ Repaired

\* A map of nodes with one more node is a map of nodes; its subnets agree.
LEMMA InsertNode ==
    ASSUME NEW ns \in NodeMap, NEW n \in NodeIds, NEW x \in NodeInfo
    PROVE  /\ [ns EXCEPT ![n] = x] \in NodeMap
           /\ x # NoNode => n \in Members([ns EXCEPT ![n] = x])
  BY DEF NodeMap, Members

\* SwarmRaft::add_node keeps the invariant.
LEMMA AddNodeKeeps ==
    ASSUME TypeOK, Agrees, Leased, Standing, initialized,
           NEW n \in NodeIds, nodes[n] = NoNode,
           NEW addr \in Addrs, NEW key \in Keys \cup {NoKey},
           NEW port \in BOOLEAN, AddNode(n, addr, key, port)
    PROVE  Kept
  <1>. DEFINE x  == NewNode(addr, key, port, AllocateSubnet(n), FALSE)
              ns == [nodes EXCEPT ![n] = x]
              sm == [subnetMap EXCEPT ![n] = AllocateSubnet(n)]
  <1>0. nodes \in NodeMap /\ subnetMap \in [NodeIds -> Subnets \cup {0}]
        /\ net \in Network
        BY DEF TypeOK, NodeMap
  <1>1. AllocateSubnet(n) = ComputeSubnetId(n) /\ AllocateSubnet(n) \in Subnets
        BY AllocateIs
  <1>2. /\ x \in NodeInfo /\ x # NoNode /\ x.leader = FALSE
        /\ x.subnet = AllocateSubnet(n)
        BY <1>1, NameAssumption DEF NewNode, NodeInfo, NoNode
  <1>. HIDE DEF x
  <1>3. ns \in NodeMap /\ n \in Members(ns)  BY <1>0, <1>2, InsertNode
  <1>4. sm \in [NodeIds -> Subnets \cup {0}]  BY <1>0, <1>1
  <1>5. LocalSubnet(sm) \in Subnets \cup {0} /\ LocalSubnet(sm) = sm[Self]
    <2>1. n # Self  BY DEF Standing
    <2>2. sm[Self] = subnetMap[Self]  BY <1>0, <2>1, NodeAssumption
    <2>3. subnetMap[Self] # 0  BY SelfSubnet
    <2>. QED  BY <1>4, <2>2, <2>3, NodeAssumption DEF LocalSubnet
  <1>6. nodes' = ns /\ subnetMap' = sm
        /\ UNCHANGED <<initialized, placements, services>>
        BY DEF AddNode, x
  <1>7. /\ leased' = Leases(sm) /\ last' \in Outcome
        /\ \E o \in Outcomes :
              net' = SetupLocalNode(NodeAdded(net, ns, n, o), ns, LocalSubnet(sm), last')
        BY OutcomeAssumption DEF AddNode, x
  <1>71. PICK o \in Outcomes :
           net' = SetupLocalNode(NodeAdded(net, ns, n, o), ns, LocalSubnet(sm), last')
        BY <1>7
  <1>8. /\ NodeAdded(net, ns, n, o) \in Network
        /\ NodeAdded(net, ns, n, o).bridge = net.bridge
        BY <1>0, <1>3, AddedType, OutcomeAssumption
  <1>81. net.bridge \in {0, LocalSubnet(sm)}
    <2>1. sm[Self] = subnetMap[Self]  BY <1>0, NodeAssumption DEF Standing
    <2>. QED  BY <1>5, <2>1 DEF Agrees
  <1>. HIDE DEF ns, sm
  <1>9. Configured(ns, LocalSubnet(sm), net', last')
        BY <1>3, <1>5, <1>7, <1>71, <1>8, <1>81, SetupConfigures
  <1>10. MembersReachable'  BY <1>6, <1>9 DEF MembersReachable, Configured
  <1>11. Agrees'
    <2>1. ASSUME NEW m \in NodeIds
          PROVE  /\ sm[m] = ns[m].subnet
                 /\ ns[m] # NoNode => ns[m].subnet = ComputeSubnetId(m)
                 /\ ns[m].leader => m = Self
      <3>1. CASE m = n
        <4>1. sm[m] = AllocateSubnet(n) /\ ns[m] = x
              BY <1>0, <3>1 DEF ns, sm, NodeMap
        <4>. QED  BY <1>1, <1>2, <3>1, <4>1
      <3>2. CASE m # n
        <4>1. sm[m] = subnetMap[m] /\ ns[m] = nodes[m]
              BY <1>0, <3>2 DEF ns, sm, NodeMap
        <4>. QED  BY <4>1 DEF Agrees
      <3>. QED  BY <3>1, <3>2
    <2>2. \/ net'.bridge = sm[Self]
          \/ net'.bridge = 0 /\ last'.bridge # "written"
          BY <1>5, <1>9 DEF Configured
    <2>. QED  BY <1>6, <2>1, <2>2 DEF Agrees
  <1>12. Standing'
    <2>1. ns[Self] = nodes[Self] \/ ns[Self] = x
          BY <1>0, NodeAssumption DEF ns, NodeMap
    <2>. QED  BY <1>2, <1>6, <2>1 DEF Standing
  <1>13. Repaired  BY <1>6, <1>9 DEF Repaired, Configured
  <1>14. leased' \in [NodeIds -> Subnets \cup {0}] /\ Leased'
    <2>1. leased' = Leases(subnetMap')  BY <1>6, <1>7
    <2>. QED  BY <1>11, <2>1, LeaseKeeps DEF Agrees
  <1>15. net' \in Network  BY <1>9 DEF Configured
  <1>. QED  BY <1>0, <1>3, <1>4, <1>6, <1>7, <1>10, <1>11, <1>12, <1>13, <1>14, <1>15
            DEF Kept, TypeOK

\* SwarmRaft::remove_node keeps the invariant: the route it takes away may
\* be another member's, and setup_local_node makes it again.
LEMMA RemoveNodeKeeps ==
    ASSUME TypeOK, Agrees, Leased, Standing, initialized,
           NEW n \in NodeIds \ {Self}, RemoveNode(n)
    PROVE  Kept
  <1>. DEFINE ns == [nodes EXCEPT ![n] = NoNode]
              sm == [subnetMap EXCEPT ![n] = 0]
  <1>0. nodes \in NodeMap /\ subnetMap \in [NodeIds -> Subnets \cup {0}]
        /\ net \in Network
        BY DEF TypeOK, NodeMap
  <1>3. ns \in NodeMap  BY <1>0 DEF NodeMap
  <1>4. sm \in [NodeIds -> Subnets \cup {0}]  BY <1>0
  <1>5. LocalSubnet(sm) \in Subnets \cup {0} /\ LocalSubnet(sm) = sm[Self]
    <2>1. sm[Self] = subnetMap[Self]  BY <1>0, NodeAssumption
    <2>2. subnetMap[Self] # 0  BY SelfSubnet
    <2>. QED  BY <1>4, <2>1, <2>2, NodeAssumption DEF LocalSubnet
  <1>6. nodes' = ns /\ subnetMap' = sm
        /\ UNCHANGED <<initialized, services, leased>>
        BY DEF RemoveNode
  <1>7. /\ last' \in Outcome
        /\ \E o \in Outcomes :
              net' = SetupLocalNode(RemoveRoute(net, subnetMap[n], o), ns,
                                    LocalSubnet(sm), last')
        BY OutcomeAssumption DEF RemoveNode
  <1>71. PICK o \in Outcomes :
           net' = SetupLocalNode(RemoveRoute(net, subnetMap[n], o), ns,
                                 LocalSubnet(sm), last')
        BY <1>7
  <1>8. /\ RemoveRoute(net, subnetMap[n], o) \in Network
        /\ RemoveRoute(net, subnetMap[n], o).bridge = net.bridge
        BY <1>0, RemoveRouteType, OutcomeAssumption
  <1>81. net.bridge \in {0, LocalSubnet(sm)}
    <2>1. sm[Self] = subnetMap[Self]  BY <1>0, NodeAssumption
    <2>. QED  BY <1>5, <2>1 DEF Agrees
  <1>13. placements' \in [Vms -> NodeIds \cup {NoHost}]
         BY DEF RemoveNode, TypeOK
  <1>. HIDE DEF ns, sm
  <1>9. Configured(ns, LocalSubnet(sm), net', last')
        BY <1>3, <1>5, <1>7, <1>71, <1>8, <1>81, SetupConfigures
  <1>10. MembersReachable'  BY <1>6, <1>9 DEF MembersReachable, Configured
  <1>11. Agrees'
    <2>1. ASSUME NEW m \in NodeIds
          PROVE  /\ sm[m] = ns[m].subnet
                 /\ ns[m] # NoNode => ns[m].subnet = ComputeSubnetId(m)
                 /\ ns[m].leader => m = Self
      <3>1. CASE m = n
        <4>1. sm[m] = 0 /\ ns[m] = NoNode
              BY <1>0, <3>1 DEF ns, sm, NodeMap
        <4>. QED  BY <3>1, <4>1 DEF NoNode
      <3>2. CASE m # n
        <4>1. sm[m] = subnetMap[m] /\ ns[m] = nodes[m]
              BY <1>0, <3>2 DEF ns, sm, NodeMap
        <4>. QED  BY <4>1 DEF Agrees
      <3>. QED  BY <3>1, <3>2
    <2>2. \/ net'.bridge = sm[Self]
          \/ net'.bridge = 0 /\ last'.bridge # "written"
          BY <1>5, <1>9 DEF Configured
    <2>. QED  BY <1>6, <2>1, <2>2 DEF Agrees
  <1>12. Standing'
    <2>1. ns[Self] = nodes[Self]
          BY <1>0, NodeAssumption DEF ns, NodeMap
    <2>. QED  BY <1>6, <2>1 DEF Standing
  <1>14. Repaired  BY <1>6, <1>9 DEF Repaired, Configured
  <1>15. leased' \in [NodeIds -> Subnets \cup {0}] /\ Leased'
    <2>1. \A m \in NodeIds : ns[m] # NoNode => nodes[m] # NoNode
          BY <1>0 DEF ns, NodeMap
    <2>. QED  BY <1>6, <2>1, LeaseStays
  <1>16. net' \in Network  BY <1>9 DEF Configured
  <1>. QED  BY <1>0, <1>3, <1>4, <1>6, <1>7, <1>10, <1>11, <1>12, <1>13, <1>14,
               <1>15, <1>16 DEF Kept, TypeOK

\* SwarmRaft::update_node_endpoint keeps the invariant: subnets and routes
\* stay.
LEMMA UpdateKeeps ==
    ASSUME TypeOK, Agrees, Leased, MembersReachable, Standing,
           initialized,
           NEW cmd, cmd.node \in NodeIds, cmd.addr \in Addrs \cup {NoAddr},
           cmd.key \in Keys \cup {NoKey}, cmd.port \in BOOLEAN,
           nodes[cmd.node] # NoNode, UpdateNodeEndpoint(cmd)
    PROVE  Kept
  <1>. DEFINE n  == cmd.node
              x  == WithEndpoint(nodes[n], cmd)
              ns == [nodes EXCEPT ![n] = x]
  <1>0. nodes \in NodeMap /\ net \in Network /\ n \in NodeIds
        BY DEF TypeOK, NodeMap
  <1>1. nodes[n] \in NodeInfo  BY <1>0 DEF NodeMap
  <1>2. /\ x \in NodeInfo
        /\ x.subnet = nodes[n].subnet /\ x.leader = nodes[n].leader
        BY <1>1 DEF NodeInfo, WithEndpoint
  <1>6. /\ nodes' = ns
        /\ UNCHANGED <<initialized, subnetMap, placements, services, leased, last>>
        BY DEF UpdateNodeEndpoint
  <1>61. PICK o \in Outcomes : net' = NodeUpdated(net, ns, cmd, o)
        BY DEF UpdateNodeEndpoint
  <1>. HIDE DEF n, x
  <1>3. x # NoNode
    <2>1. x.subnet \in Subnets  BY <1>2 DEF NodeInfo
    <2>. QED  BY <2>1, SubnetRange DEF NoNode
  <1>4. ns \in NodeMap /\ n \in Members(ns)  BY <1>0, <1>2, <1>3, InsertNode
  <1>5. \A m \in NodeIds : ns[m] = IF m = n THEN x ELSE nodes[m]
        BY <1>0 DEF NodeMap
  <1>. HIDE DEF ns
  <1>7. net' \in Network /\ net'.routes = net.routes /\ net'.bridge = net.bridge
    <2>1. /\ NodeUpdated(net, ns, cmd, o) \in Network
          /\ NodeUpdated(net, ns, cmd, o).routes = net.routes
          /\ NodeUpdated(net, ns, cmd, o).bridge = net.bridge
          BY <1>0, <1>4, UpdatedType, OutcomeAssumption DEF n
    <2>. QED  BY <1>61, <2>1
  <1>8. \A m \in NodeIds : /\ ns[m].subnet = nodes[m].subnet
                           /\ ns[m].leader <=> nodes[m].leader
                           /\ ns[m] # NoNode <=> nodes[m] # NoNode
        BY <1>2, <1>3, <1>5 DEF n
  <1>9. Remote(ns) = Remote(nodes)  BY <1>8 DEF Remote, Members
  <1>10. MembersReachable'
    <2>1. \A m \in Remote(ns) :
             m \in last.routes => net.routes[ns[m].subnet] # NoRoute
          BY <1>8, <1>9 DEF MembersReachable, Remote, Members
    <2>. QED  BY <1>6, <1>7, <2>1 DEF MembersReachable
  <1>11. Agrees'
    <2>1. \A m \in NodeIds :
            /\ subnetMap[m] = ns[m].subnet
            /\ ns[m] # NoNode => ns[m].subnet = ComputeSubnetId(m)
            /\ ns[m].leader => m = Self
          BY <1>8 DEF Agrees
    <2>2. initialized => \/ net'.bridge = subnetMap[Self]
                         \/ net'.bridge = 0 /\ last.bridge # "written"
          BY <1>7 DEF Agrees
    <2>. QED  BY <1>6, <2>1, <2>2 DEF Agrees
  <1>12. Standing'  BY <1>6, <1>8, NodeAssumption DEF Standing
  <1>13. Repaired
    <2>1. Members(ns) = Members(nodes)  BY <1>8 DEF Members
    <2>. QED  BY <1>6, <2>1 DEF Repaired
  <1>14. leased' \in [NodeIds -> Subnets \cup {0}] /\ Leased'
        BY <1>6, <1>8, LeaseStays
  <1>. QED  BY <1>4, <1>6, <1>7, <1>10, <1>11, <1>12, <1>13, <1>14 DEF Kept, TypeOK

\* The map of nodes that bootstrap makes holds this node alone.
LEMMA FirstNode ==
    ASSUME TypeOK, Agrees, Standing, ~initialized
    PROVE  /\ Bootstrapped \in NodeMap
           /\ Bootstrapped[Self] \in NodeInfo
           /\ Bootstrapped[Self].subnet = ComputeSubnetId(Self)
           /\ \A m \in NodeIds \ {Self} : Bootstrapped[m] = NoNode
           /\ \A m \in NodeIds : subnetMap[m] = 0
  <1>. DEFINE x == NewNode(SelfAddr, NoKey, FALSE, AllocateSubnet(Self), TRUE)
  <1>1. nodes \in NodeMap /\ nodes = [n \in NodeIds |-> NoNode]
        BY DEF TypeOK, NodeMap, Standing
  <1>2. AllocateSubnet(Self) = ComputeSubnetId(Self)
        /\ AllocateSubnet(Self) \in Subnets
        BY AllocateIs, NodeAssumption
  <1>3. x \in NodeInfo /\ x.subnet = ComputeSubnetId(Self)
        BY <1>2, NameAssumption DEF NewNode, NodeInfo
  <1>4. Bootstrapped = [nodes EXCEPT ![Self] = x]  BY DEF Bootstrapped
  <1>. HIDE DEF x
  <1>5. \A m \in NodeIds : subnetMap[m] = 0
        BY <1>1 DEF Agrees, NoNode
  <1>6. /\ Bootstrapped \in NodeMap /\ Bootstrapped[Self] = x
        /\ \A m \in NodeIds \ {Self} : Bootstrapped[m] = NoNode
        BY <1>1, <1>3, <1>4, NodeAssumption DEF NodeMap
  <1>. QED  BY <1>3, <1>5, <1>6

\* A node that now is initialized, whose two maps agree and whose network
\* was set up for them, satisfies the invariant.
LEMMA FreshView ==
    ASSUME NEW ns \in NodeMap, NEW sm, NEW nw,
           \A m \in NodeIds : /\ sm[m] = ns[m].subnet
                              /\ ns[m] # NoNode => ns[m].subnet = ComputeSubnetId(m)
                              /\ ns[m].leader => m = Self,
           TypeOK, Leased, ns[Self] # NoNode, Configured(ns, sm[Self], nw, last'),
           initialized' = TRUE, nodes' = ns, subnetMap' = sm, net' = nw,
           leased' = Leases(sm)
    PROVE  /\ Agrees' /\ MembersReachable' /\ Standing'
           /\ leased' \in [NodeIds -> Subnets \cup {0}] /\ Leased'
           /\ net' \in Network /\ Repaired
  <1>1. Agrees'  BY DEF Agrees, Configured
  <1>2. MembersReachable'  BY DEF MembersReachable, Configured
  <1>3. Standing'  BY DEF Standing
  <1>4. leased' \in [NodeIds -> Subnets \cup {0}] /\ Leased'  BY LeaseKeeps
  <1>5. net' \in Network /\ Repaired  BY DEF Repaired, Configured
  <1>. QED  BY <1>1, <1>2, <1>3, <1>4, <1>5

\* SwarmRaft::bootstrap establishes the invariant of an initialized node.
LEMMA BootstrapKeeps ==
    ASSUME TypeOK, Agrees, Leased, Standing, Bootstrap
    PROVE  Kept
  <1>. DEFINE b  == Bootstrapped
              sm == [subnetMap EXCEPT ![Self] = AllocateSubnet(Self)]
  <1>0. /\ ~initialized /\ initialized' = TRUE /\ nodes' = b /\ subnetMap' = sm
        /\ UNCHANGED <<placements, services>>
        BY DEF Bootstrap
  <1>1. /\ b \in NodeMap /\ b[Self] \in NodeInfo
        /\ b[Self].subnet = ComputeSubnetId(Self)
        /\ \A m \in NodeIds \ {Self} : b[m] = NoNode
        /\ \A m \in NodeIds : subnetMap[m] = 0
        BY <1>0, FirstNode
  <1>2. AllocateSubnet(Self) = ComputeSubnetId(Self)
        /\ AllocateSubnet(Self) \in Subnets
        BY AllocateIs, NodeAssumption
  <1>3. /\ sm \in [NodeIds -> Subnets \cup {0}]
        /\ sm[Self] = AllocateSubnet(Self)
        /\ \A m \in NodeIds \ {Self} : sm[m] = 0
        BY <1>1, <1>2, NodeAssumption DEF TypeOK
  <1>4. /\ last' \in Outcome /\ leased' = Leases(sm)
        /\ net' = SetupLocalNode(net, b, AllocateSubnet(Self), last')
        BY <1>0, OutcomeAssumption DEF Bootstrap
  <1>. HIDE DEF b, sm
  <1>5. Configured(b, sm[Self], net', last')
    <2>1. net \in Network /\ net.bridge = 0  BY <1>0 DEF TypeOK, Standing
    <2>2. AllocateSubnet(Self) \in Subnets \cup {0}  BY <1>2
    <2>. QED  BY <1>1, <1>3, <1>4, <2>1, <2>2, SetupConfigures
  <1>6. b[Self] # NoNode
    <2>1. NoNode.subnet = 0  BY DEF NoNode
    <2>2. b[Self].subnet # 0  BY <1>1, SubnetRange, NodeAssumption
    <2>. QED  BY <2>1, <2>2
  <1>7. ASSUME NEW m \in NodeIds
        PROVE  /\ sm[m] = b[m].subnet
               /\ b[m] # NoNode => b[m].subnet = ComputeSubnetId(m)
               /\ b[m].leader => m = Self
    <2>1. CASE m = Self  BY <1>1, <1>2, <1>3, <2>1
    <2>2. CASE m # Self
      <3>1. b[m] = NoNode /\ sm[m] = 0  BY <1>1, <1>3, <2>2
      <3>. QED  BY <3>1 DEF NoNode
    <2>. QED  BY <2>1, <2>2
  <1>8. /\ Agrees' /\ MembersReachable' /\ Standing'
        /\ leased' \in [NodeIds -> Subnets \cup {0}] /\ Leased'
        /\ net' \in Network /\ Repaired
    <2>. DEFINE nw == net'
    <2>1. nodes' = b /\ subnetMap' = sm /\ net' = nw /\ initialized' = TRUE  BY <1>0
    <2>2. Configured(b, sm[Self], nw, last')  BY <1>5
    <2>. HIDE DEF nw
    <2>. QED  BY <1>1, <1>4, <1>6, <1>7, <2>1, <2>2, FreshView
  <1>. QED  BY <1>0, <1>1, <1>3, <1>4, <1>8 DEF Kept, TypeOK

\* The fields of a command.
LEMMA CommandFields ==
    ASSUME NEW cmd \in Commands
    PROVE  /\ cmd.op = "add" => /\ cmd.node \in NodeIds /\ cmd.addr \in Addrs
                                /\ cmd.key \in Keys \cup {NoKey}
                                /\ cmd.port \in BOOLEAN
           /\ cmd.op = "remove" => cmd.node \in NodeIds
           /\ cmd.op = "update" => /\ cmd.node \in NodeIds
                                   /\ cmd.addr \in Addrs \cup {NoAddr}
                                   /\ cmd.key \in Keys \cup {NoKey}
                                   /\ cmd.port \in BOOLEAN
           /\ cmd.op = "place" => cmd.node \in NodeIds
           /\ cmd.op \in {"serve", "unserve"} => cmd.name \in Services
  BY CommandAssumption DEF NodeCommand, OtherCommand

\* swarm_join_handler on a node that is not in a swarm: bootstrap, then the
\* node that joins unless it has this node's id.
LEMMA JoinFreshKeeps ==
    ASSUME TypeOK, Agrees, Leased, Standing, ~initialized,
           NEW cmd \in Commands, Join(cmd)
    PROVE  Kept
  <1>. DEFINE n  == cmd.node
              b  == Bootstrapped
              x  == NewNode(cmd.addr, cmd.key, cmd.port, AllocateSubnet(n), FALSE)
              ns == IF n # Self THEN [b EXCEPT ![n] = x] ELSE b
              sm == [subnetMap EXCEPT ![Self] = AllocateSubnet(Self),
                                      ![n] = AllocateSubnet(n)]
  <1>0. /\ cmd.op = "add" /\ initialized' = TRUE /\ nodes' = ns /\ subnetMap' = sm
        /\ UNCHANGED <<placements, services>>
        BY DEF Join
  <1>1. /\ last' \in Outcome /\ leased' = Leases(sm)
        /\ n # Self => \E o, p \in Outcomes :
             net' = SetupLocalNode(NodeAdded(SetupLocalNode(net, b, sm[Self], o),
                                             ns, n, p), ns, sm[Self], last')
        /\ n = Self => net' = SetupLocalNode(net, b, sm[Self], last')
        BY <1>0, OutcomeAssumption DEF Join
  <1>2. /\ n \in NodeIds /\ cmd.addr \in Addrs
        /\ cmd.key \in Keys \cup {NoKey} /\ cmd.port \in BOOLEAN
        BY <1>0, CommandFields
  <1>3. /\ b \in NodeMap /\ b[Self] \in NodeInfo
        /\ b[Self].subnet = ComputeSubnetId(Self)
        /\ \A m \in NodeIds \ {Self} : b[m] = NoNode
        /\ \A m \in NodeIds : subnetMap[m] = 0
        BY <1>0, FirstNode
  <1>4. \A m \in NodeIds : /\ AllocateSubnet(m) = ComputeSubnetId(m)
                           /\ AllocateSubnet(m) \in Subnets
        BY AllocateIs
  <1>5. /\ x \in NodeInfo /\ x.subnet = ComputeSubnetId(n) /\ x.leader = FALSE
        BY <1>2, <1>4, NameAssumption DEF NewNode, NodeInfo
  <1>. HIDE DEF n, b, x
  <1>6. /\ sm \in [NodeIds -> Subnets \cup {0}]
        /\ sm[Self] = AllocateSubnet(Self) /\ sm[n] = AllocateSubnet(n)
        /\ \A m \in NodeIds \ {Self, n} : sm[m] = 0
        BY <1>2, <1>3, <1>4, NodeAssumption DEF TypeOK
  <1>7. /\ ns \in NodeMap /\ ns[Self] = b[Self]
        /\ n # Self => ns[n] = x
        /\ \A m \in NodeIds \ {Self, n} : ns[m] = NoNode
        BY <1>2, <1>3, <1>5, NodeAssumption DEF NodeMap
  <1>8. b[Self] # NoNode /\ x # NoNode
    <2>1. NoNode.subnet = 0  BY DEF NoNode
    <2>2. b[Self].subnet # 0 /\ x.subnet # 0
          BY <1>2, <1>3, <1>5, SubnetRange, NodeAssumption
    <2>. QED  BY <2>1, <2>2
  <1>. HIDE DEF ns, sm
  <1>9. ASSUME NEW m \in NodeIds
        PROVE  /\ sm[m] = ns[m].subnet
               /\ ns[m] # NoNode => ns[m].subnet = ComputeSubnetId(m)
               /\ ns[m].leader => m = Self
    <2>1. CASE m = Self  BY <1>3, <1>4, <1>6, <1>7, <2>1
    <2>2. CASE m = n /\ n # Self
      <3>1. ns[n] = x /\ sm[n] = ComputeSubnetId(n)  BY <1>2, <1>4, <1>6, <1>7, <2>2
      <3>2. ns[n].leader = FALSE  BY <1>5, <3>1
      <3>. QED  BY <1>5, <2>2, <3>1, <3>2
    <2>3. CASE m # n /\ m # Self
      <3>1. ns[m] = NoNode /\ sm[m] = 0  BY <1>6, <1>7, <2>3
      <3>. QED  BY <3>1 DEF NoNode
    <2>. QED  BY <2>1, <2>2, <2>3
  <1>10. sm[Self] \in Subnets \cup {0}  BY <1>6, NodeAssumption
  <1>11. Configured(ns, sm[Self], net', last')
    <2>0. net \in Network /\ net.bridge = 0  BY DEF TypeOK, Standing
    <2>1. \A o \in Outcome :
             Configured(b, sm[Self], SetupLocalNode(net, b, sm[Self], o), o)
          BY <1>3, <1>10, <2>0, SetupConfigures
    <2>2. CASE n = Self
      <3>1. net' = SetupLocalNode(net, b, sm[Self], last') /\ ns = b
            BY <1>1, <2>2 DEF ns
      <3>. QED  BY <1>1, <2>1, <3>1
    <2>3. CASE n # Self
      <3>1. n \in Members(ns)  BY <1>2, <1>7, <1>8, <2>3 DEF Members
      <3>2. PICK o \in Outcomes, p \in Outcomes :
               net' = SetupLocalNode(NodeAdded(SetupLocalNode(net, b, sm[Self], o),
                                               ns, n, p), ns, sm[Self], last')
            BY <1>1, <2>3
      <3>3. PICK up : up = SetupLocalNode(net, b, sm[Self], o)  OBVIOUS
      <3>4. up \in Network /\ up.bridge \in {0, sm[Self]}
        <4>1. Configured(b, sm[Self], up, o)  BY <2>1, <3>3, OutcomeAssumption
        <4>. QED  BY <4>1 DEF Configured
      <3>5. NodeAdded(up, ns, n, p) \in Network
            /\ NodeAdded(up, ns, n, p).bridge = up.bridge
            BY <1>7, <3>1, <3>4, AddedType, OutcomeAssumption
      <3>6. net' = SetupLocalNode(NodeAdded(up, ns, n, p), ns, sm[Self], last')
            BY <3>2, <3>3
      <3>. QED  BY <1>1, <1>7, <1>10, <3>4, <3>5, <3>6, SetupConfigures
    <2>. QED  BY <2>2, <2>3
  <1>12. /\ Agrees' /\ MembersReachable' /\ Standing'
         /\ leased' \in [NodeIds -> Subnets \cup {0}] /\ Leased'
         /\ net' \in Network /\ Repaired
    <2>. DEFINE nw == net'
    <2>1. /\ nodes' = ns /\ subnetMap' = sm /\ net' = nw /\ initialized' = TRUE
          /\ ns[Self] # NoNode
          BY <1>0, <1>7, <1>8
    <2>2. Configured(ns, sm[Self], nw, last')  BY <1>11
    <2>. HIDE DEF nw
    <2>. QED  BY <1>1, <1>7, <1>9, <2>1, <2>2, FreshView
  <1>. QED  BY <1>0, <1>1, <1>6, <1>7, <1>12 DEF Kept, TypeOK

\* submit_command keeps the invariant, whatever the command.
LEMMA ApplyKeeps ==
    ASSUME TypeOK, Agrees, Leased, MembersReachable, Standing,
           initialized,
           NEW cmd \in Commands, ~Rejected(cmd), Apply(cmd)
    PROVE  Kept
  <1>1. CASE cmd.op = "add" /\ AddNode(cmd.node, cmd.addr, cmd.key, cmd.port)
    <2>1. nodes[cmd.node] = NoNode  BY <1>1 DEF Rejected
    <2>. QED  BY <1>1, <2>1, CommandFields, AddNodeKeeps
  <1>2. CASE cmd.op = "remove" /\ RemoveNode(cmd.node)
    <2>1. cmd.node \in NodeIds \ {Self}  BY <1>2, CommandFields DEF Rejected
    <2>. QED  BY <1>2, <2>1, RemoveNodeKeeps
  <1>3. CASE cmd.op = "update" /\ UpdateNodeEndpoint(cmd)
    <2>1. nodes[cmd.node] # NoNode  BY <1>3 DEF Rejected
    <2>. QED  BY <1>3, <2>1, CommandFields, UpdateKeeps
  <1>4. CASE /\ cmd.op \notin {"add", "remove", "update"}
             /\ UNCHANGED <<initialized, nodes, subnetMap, net, leased, last>>
    <2>1. placements' \in [Vms -> NodeIds \cup {NoHost}] /\ services' \subseteq Services
          BY <1>4, CommandFields DEF Apply, TypeOK
    <2>2. Agrees'  BY <1>4 DEF Agrees
    <2>3. MembersReachable'  BY <1>4 DEF MembersReachable
    <2>4. Standing' /\ Repaired  BY <1>4 DEF Standing, Repaired
    <2>5. Leased'  BY <1>4 DEF Leased
    <2>. QED  BY <1>4, <2>1, <2>2, <2>3, <2>4, <2>5 DEF Kept, TypeOK, NodeMap
  <1>. QED  BY <1>1, <1>2, <1>3, <1>4 DEF Apply

-----------------------------------------------------------------------------
(* Replay protection.                                                       *)

\* Remembering an index, drain included, leaves a long enough tail of what
\* took effect.
LEMMA RememberKeeps ==
    ASSUME applied \in Seq(Nat), done \in Seq(Nat), RememberedTail,
           NEW i \in Nat, applied' = Remember(applied, i),
           done' = Append(done, i)
    PROVE  applied' \in Seq(Nat) /\ done' \in Seq(Nat) /\ RememberedTail'
  <1>. DEFINE t == Append(applied, i)
              d == Append(done, i)
              A == Len(applied)
              D == Len(done)
  <1>0. /\ A \in Nat /\ D \in Nat /\ A <= D /\ A <= Window
        /\ Window \in Nat /\ Drain \in 1..Window
        /\ A < D => A >= Window - Drain + 1
        BY WindowAssumption DEF RememberedTail
  <1>1. t \in Seq(Nat) /\ d \in Seq(Nat) /\ Len(t) = A + 1 /\ Len(d) = D + 1
        OBVIOUS
  <1>2. ASSUME NEW j \in 1..(A + 1)  PROVE t[j] = d[D - A + j]
    <2>1. CASE j = A + 1  BY <1>0, <2>1
    <2>2. CASE j \in 1..A
      <3>1. D - A + j \in 1..D  BY <1>0, <2>2
      <3>2. applied[j] = done[D - A + j]  BY <2>2 DEF RememberedTail
      <3>3. t[j] = applied[j] /\ d[D - A + j] = done[D - A + j]  BY <2>2, <3>1
      <3>. QED  BY <3>2, <3>3
    <2>3. j = A + 1 \/ j \in 1..A  BY <1>0
    <2>. QED  BY <2>1, <2>2, <2>3
  <1>3. applied' = IF A + 1 > Window THEN SubSeq(t, Drain + 1, A + 1) ELSE t
        BY <1>1 DEF Remember
  <1>4. done' = d  OBVIOUS
  <1>. HIDE DEF t, d, A, D
  <1>5. CASE A + 1 <= Window
    <2>1. applied' = t  BY <1>0, <1>3, <1>5
    <2>2. \A j \in 1..Len(t) : t[j] = d[Len(d) - Len(t) + j]
      <3>1. Len(d) - Len(t) = D - A  BY <1>0, <1>1
      <3>. QED  BY <1>1, <1>2, <3>1
    <2>3. /\ Len(t) <= Len(d) /\ Len(t) <= Window
          /\ Len(t) < Len(d) => Len(t) >= Window - Drain + 1
          BY <1>0, <1>1, <1>5
    <2>. QED  BY <1>1, <1>4, <2>1, <2>2, <2>3 DEF RememberedTail
  <1>6. CASE A + 1 > Window
    <2>. DEFINE u == SubSeq(t, Drain + 1, A + 1)
    <2>0. A = Window /\ Drain + 1 \in 1..(A + 1)  BY <1>0, <1>6
    <2>1. /\ u \in Seq(Nat) /\ Len(u) = (A + 1) - (Drain + 1) + 1
          /\ \A j \in 1..((A + 1) - (Drain + 1) + 1) : u[j] = t[Drain + 1 + j - 1]
      <3>1. /\ Drain + 1 \in Int /\ A + 1 \in Int /\ Drain + 1 <= A + 1
            BY <1>0, <2>0
      <3>2. \A j \in (Drain + 1)..(A + 1) : j \in 1..(A + 1)  BY <1>0
      <3>3. \A j \in (Drain + 1)..(A + 1) : t[j] \in Nat  BY <1>1, <3>2
      <3>. QED  BY <3>1, <3>3, SubSeqProperties
    <2>2. /\ Len(u) = A + 1 - Drain
          /\ \A j \in 1..(A + 1 - Drain) : u[j] = t[Drain + j]
      <3>1. (A + 1) - (Drain + 1) + 1 = A + 1 - Drain  BY <1>0
      <3>2. \A j \in 1..(A + 1 - Drain) : Drain + 1 + j - 1 = Drain + j  BY <1>0
      <3>. HIDE DEF u
      <3>. QED  BY <2>1, <3>1, <3>2
    <2>3. applied' = u  BY <1>3, <1>6
    <2>. HIDE DEF u
    <2>4. ASSUME NEW j \in 1..Len(u)  PROVE u[j] = d[Len(d) - Len(u) + j]
      <3>1. Drain + j \in 1..(A + 1)  BY <1>0, <2>2
      <3>2. Len(d) - Len(u) + j = D - A + (Drain + j)  BY <1>0, <1>1, <2>2
      <3>. QED  BY <1>2, <2>2, <3>1, <3>2
    <2>5. /\ Len(u) <= Len(d) /\ Len(u) <= Window
          /\ Len(u) >= Window - Drain + 1
          BY <1>0, <1>1, <2>0, <2>2
    <2>. QED  BY <1>1, <1>4, <2>1, <2>3, <2>4, <2>5 DEF RememberedTail
  <1>. QED  BY <1>0, <1>5, <1>6

\* Such a tail holds the latest Window - Drain + 1 commands.
LEMMA TailRemembers ==
    ASSUME applied \in Seq(Nat), done \in Seq(Nat), RememberedTail
    PROVE  RecentRemembered
  <1>. SUFFICES ASSUME NEW k \in 1..Len(done),
                       k > Len(done) - (Window - Drain + 1)
                PROVE  \E j \in 1..Len(applied) : applied[j] = done[k]
       BY DEF RecentRemembered, Known
  <1>0. /\ Len(applied) \in Nat /\ Len(done) \in Nat
        /\ Window \in Nat /\ Drain \in 1..Window
        BY WindowAssumption
  <1>. DEFINE j == k - (Len(done) - Len(applied))
  <1>1. j \in 1..Len(applied)  BY <1>0 DEF RememberedTail
  <1>2. Len(done) - Len(applied) + j = k  BY <1>0
  <1>3. applied[j] = done[Len(done) - Len(applied) + j]
        BY <1>1 DEF RememberedTail
  <1>. QED  BY <1>1, <1>2, <1>3

-----------------------------------------------------------------------------
(* Inductiveness.                                                           *)

\* A node that starts, in no swarm, satisfies the invariant.
LEMMA SwarmInit == Init => SwarmInv
  <1>. SUFFICES ASSUME Init PROVE SwarmInv  OBVIOUS
  <1>1. NoNetwork \in Network  BY DEF NoNetwork, Network
  <1>2. TypeOK
    <2>1. nodes \in [NodeIds -> NodeInfo \cup {NoNode}]  BY DEF Init
    <2>2. applied \in Seq(Nat) /\ done \in Seq(Nat) /\ log \in Seq(Commands)
          BY DEF Init
    <2>3. last \in Outcome  BY DEF Init, NoSetup, Outcome
    <2>. QED  BY <1>1, <2>1, <2>2, <2>3 DEF Init, TypeOK
  <1>3. \A n \in NodeIds : nodes[n] = NoNode /\ subnetMap[n] = 0  BY DEF Init
  <1>4. Agrees  BY <1>3 DEF Init, Agrees, NoNode
  <1>5. MembersReachable  BY <1>3 DEF MembersReachable, Remote, Members
  <1>6. Standing  BY DEF Init, Standing, NoNetwork
  <1>8. Leased  BY <1>3 DEF Init, Leased
  <1>7. RememberedTail  BY WindowAssumption DEF Init, RememberedTail
  <1>. QED  BY <1>2, <1>4, <1>5, <1>6, <1>7, <1>8 DEF SwarmInv

\* An entry of the log that is submitted keeps the invariant.
LEMMA SubmitKeeps ==
    ASSUME SwarmInv, NEW cmd \in Commands, NEW i \in Nat,
           SubmitCommand(cmd, i), log' \in Seq(Commands)
    PROVE  SwarmInv'
  <1>. USE DEF SwarmInv
  <1>1. CASE UNCHANGED <<raft, applied, net, done, leased, last>>
    <2>0. UNCHANGED <<initialized, nodes, subnetMap, placements, services,
                      applied, net, done, leased, last>>
          BY <1>1 DEF raft
    <2>1. TypeOK'  BY <2>0 DEF TypeOK
    <2>2. Agrees'  BY <2>0 DEF Agrees
    <2>3. MembersReachable'  BY <2>0 DEF MembersReachable
    <2>4. Standing' /\ RememberedTail'  BY <2>0 DEF Standing, RememberedTail
    <2>5. Leased'  BY <2>0 DEF Leased
    <2>. QED  BY <2>1, <2>2, <2>3, <2>4, <2>5
  <1>2. CASE /\ ~Rejected(cmd) /\ Apply(cmd)
             /\ applied' = Remember(applied, i)
             /\ done' = Append(done, i)
    <2>1. initialized  BY DEF SubmitCommand
    <2>2. Kept  BY <1>2, <2>1, ApplyKeeps
    <2>3. applied' \in Seq(Nat) /\ done' \in Seq(Nat) /\ RememberedTail'
          BY <1>2, RememberKeeps DEF TypeOK
    <2>4. TypeOK'  BY <2>2, <2>3 DEF Kept, TypeOK, NodeMap
    <2>. QED  BY <2>2, <2>3, <2>4 DEF Kept
  <1>. QED  BY <1>1, <1>2 DEF SubmitCommand

\* A step of the membership API that leaves the log alone keeps it as well.
LEMMA ApiKeeps ==
    ASSUME SwarmInv, Kept, UNCHANGED <<applied, log, done>>
    PROVE  SwarmInv'
  <1>1. TypeOK'  BY DEF SwarmInv, Kept, TypeOK, NodeMap
  <1>2. RememberedTail'  BY DEF SwarmInv, RememberedTail
  <1>. QED  BY <1>1, <1>2 DEF SwarmInv, Kept

\* Every step keeps the invariant.
LEMMA SwarmStep == SwarmInv /\ [Next]_vars => SwarmInv'
  <1>. SUFFICES ASSUME SwarmInv, [Next]_vars PROVE SwarmInv'  OBVIOUS
  <1>0. TypeOK /\ Agrees /\ Leased /\ MembersReachable /\ Standing
        BY DEF SwarmInv
  <1>1. CASE Bootstrap
    <2>1. Kept  BY <1>0, <1>1, BootstrapKeeps
    <2>. QED  BY <1>1, <2>1, ApiKeeps DEF Bootstrap
  <1>2. ASSUME NEW cmd \in Commands, Deliver(cmd)  PROVE SwarmInv'
    <2>1. log \in Seq(Commands)  BY <1>0 DEF TypeOK
    <2>2. /\ log' \in Seq(Commands) /\ Len(log) + 1 \in Nat
          /\ SubmitCommand(cmd, Len(log) + 1)
          BY <1>2, <2>1 DEF Deliver
    <2>. QED  BY <2>2, SubmitKeeps
  <1>3. ASSUME NEW i \in 1..Len(log), Redeliver(i)  PROVE SwarmInv'
    <2>1. log \in Seq(Commands)  BY <1>0 DEF TypeOK
    <2>2. log[i] \in Commands /\ i \in Nat  BY <2>1
    <2>3. log' \in Seq(Commands) /\ SubmitCommand(log[i], i)
          BY <1>3, <2>1 DEF Redeliver
    <2>. QED  BY <2>2, <2>3, SubmitKeeps
  <1>4. ASSUME NEW cmd \in Commands, Join(cmd)  PROVE SwarmInv'
    <2>0. UNCHANGED <<applied, log, done>>  BY <1>4 DEF Join
    <2>1. CASE ~initialized
      <3>1. Kept  BY <1>0, <1>4, <2>1, JoinFreshKeeps
      <3>. QED  BY <2>0, <3>1, ApiKeeps
    <2>2. CASE initialized /\ nodes[cmd.node] = NoNode
      <3>1. cmd.op = "add" /\ AddNode(cmd.node, cmd.addr, cmd.key, cmd.port)
            BY <1>4, <2>2 DEF Join
      <3>2. Kept  BY <1>0, <2>2, <3>1, CommandFields, AddNodeKeeps
      <3>. QED  BY <2>0, <3>2, ApiKeeps
    <2>3. CASE initialized /\ nodes[cmd.node] # NoNode
      <3>1. UNCHANGED <<initialized, nodes, subnetMap, placements, services, net,
                        leased, last>>
            BY <1>4, <2>3 DEF Join, raft
      <3>2. Agrees'  BY <1>0, <3>1 DEF Agrees
      <3>3. MembersReachable'  BY <1>0, <3>1 DEF MembersReachable
      <3>4. Standing' /\ Repaired  BY <1>0, <3>1 DEF Standing, Repaired
      <3>6. Leased'  BY <1>0, <3>1 DEF Leased
      <3>5. Kept  BY <1>0, <3>1, <3>2, <3>3, <3>4, <3>6 DEF Kept, TypeOK, NodeMap
      <3>. QED  BY <2>0, <3>5, ApiKeeps
    <2>. QED  BY <2>1, <2>2, <2>3
  <1>5. CASE UNCHANGED vars
    <2>0. UNCHANGED <<initialized, nodes, subnetMap, placements, services,
                      applied, net, log, done, leased, last>>
          BY <1>5 DEF vars, raft
    <2>1. TypeOK'  BY <1>0, <2>0 DEF TypeOK
    <2>2. Agrees'  BY <1>0, <2>0 DEF Agrees
    <2>3. MembersReachable'  BY <1>0, <2>0 DEF MembersReachable
    <2>4. Standing' /\ RememberedTail'
          BY <2>0 DEF SwarmInv, Standing, RememberedTail
    <2>5. Leased'  BY <1>0, <2>0 DEF Leased
    <2>. QED  BY <2>1, <2>2, <2>3, <2>4, <2>5 DEF SwarmInv
  <1>. QED  BY <1>1, <1>2, <1>3, <1>4, <1>5 DEF Next

\* A submitted entry of the log leaves a mesh if it changes the members.
LEMMA SubmitRepairs ==
    ASSUME SwarmInv, NEW cmd \in Commands, NEW i \in Nat, SubmitCommand(cmd, i)
    PROVE  Repaired
  <1>1. CASE UNCHANGED <<raft, applied, net, done, leased, last>>
        BY <1>1 DEF raft, Repaired
  <1>2. CASE ~Rejected(cmd) /\ Apply(cmd)
    <2>1. Kept  BY <1>2, ApplyKeeps DEF SubmitCommand, SwarmInv
    <2>. QED  BY <2>1 DEF Kept
  <1>. QED  BY <1>1, <1>2 DEF SubmitCommand

\* Every step that changes the members leaves a mesh.
LEMMA RepairStep == SwarmInv /\ [Next]_vars => Repaired
  <1>. SUFFICES ASSUME SwarmInv, [Next]_vars PROVE Repaired  OBVIOUS
  <1>0. TypeOK /\ Agrees /\ Leased /\ MembersReachable /\ Standing
        BY DEF SwarmInv
  <1>1. CASE Bootstrap
    <2>1. Kept  BY <1>0, <1>1, BootstrapKeeps
    <2>. QED  BY <2>1 DEF Kept
  <1>2. ASSUME NEW cmd \in Commands, Deliver(cmd)  PROVE Repaired
    <2>1. log \in Seq(Commands)  BY <1>0 DEF TypeOK
    <2>2. Len(log) + 1 \in Nat /\ SubmitCommand(cmd, Len(log) + 1)
          BY <1>2, <2>1 DEF Deliver
    <2>. QED  BY <2>2, SubmitRepairs
  <1>3. ASSUME NEW i \in 1..Len(log), Redeliver(i)  PROVE Repaired
    <2>1. log \in Seq(Commands)  BY <1>0 DEF TypeOK
    <2>2. log[i] \in Commands /\ i \in Nat  BY <2>1
    <2>3. SubmitCommand(log[i], i)  BY <1>3 DEF Redeliver
    <2>. QED  BY <2>2, <2>3, SubmitRepairs
  <1>4. ASSUME NEW cmd \in Commands, Join(cmd)  PROVE Repaired
    <2>1. CASE ~initialized
      <3>1. Kept  BY <1>0, <1>4, <2>1, JoinFreshKeeps
      <3>. QED  BY <3>1 DEF Kept
    <2>2. CASE initialized /\ nodes[cmd.node] = NoNode
      <3>1. cmd.op = "add" /\ AddNode(cmd.node, cmd.addr, cmd.key, cmd.port)
            BY <1>4, <2>2 DEF Join
      <3>2. Kept  BY <1>0, <2>2, <3>1, CommandFields, AddNodeKeeps
      <3>. QED  BY <3>2 DEF Kept
    <2>3. CASE initialized /\ nodes[cmd.node] # NoNode
      <3>1. nodes' = nodes  BY <1>4, <2>3 DEF Join, raft
      <3>. QED  BY <3>1 DEF Repaired
    <2>. QED  BY <2>1, <2>2, <2>3
  <1>5. CASE UNCHANGED vars
        BY <1>5 DEF vars, raft, Repaired
  <1>. QED  BY <1>1, <1>2, <1>3, <1>4, <1>5 DEF Next

\* The invariant holds in every reachable state.
THEOREM SwarmInvariant == Spec => []SwarmInv
  BY SwarmInit, SwarmStep, PTL DEF Spec

\* Every state of a node's swarm state machine and of its network is
\* well-typed, whatever the commands and the order of their redelivery.
THEOREM SwarmTypeCorrect == Spec => []TypeOK
  <1>1. SwarmInv => TypeOK  BY DEF SwarmInv
  <1>. QED  BY <1>1, SwarmInvariant, PTL

\* The id alone decides the subnet of a member: a node that comes back has the
\* one it first had, only ids that agree modulo 254 share one, and the two
\* maps, the bridge and the leader flag agree with it, after any history of
\* adds, removes, updates and joins and whatever calls to the host failed.
THEOREM SubnetsAlwaysAgree == Spec => []SubnetsAgree
  <1>1. SwarmInv => SubnetsAgree  BY AgreesGives DEF SwarmInv
  <1>. QED  BY <1>1, SwarmInvariant, PTL

\* Every remote member always has a route unless the latest attempt to add it
\* failed, although remove_node takes away routes by subnet, subnets collide
\* and earlier attempts may have failed.
THEOREM MembersAlwaysReachable == Spec => []MembersReachable
  <1>1. SwarmInv => MembersReachable  BY DEF SwarmInv
  <1>. QED  BY <1>1, SwarmInvariant, PTL

\* For every window and every drain, the latest Window - Drain + 1 commands
\* that took effect are protected from replay.
THEOREM RecentAlwaysRemembered == Spec => []RecentRemembered
  <1>1. SwarmInv => RecentRemembered
        BY TailRemembers DEF SwarmInv, TypeOK
  <1>. QED  BY <1>1, SwarmInvariant, PTL

\* bootstrap, add_node, remove_node and the join handler all end in
\* setup_local_node, which sets every peer again: while WireGuard runs and
\* the keys are distinct, no packet for the subnet of a member whose add_peer
\* took effect is left encrypted to a node that has gone.
THEOREM MembershipAlwaysRepairs == Spec => MembershipRepairsMesh
  <1>1. SwarmInv /\ [Next]_vars =>
           [Members(nodes') # Members(nodes) /\ net'.up /\ KeysDistinct(nodes') =>
              \A n \in Remote(nodes') :
                nodes'[n].key # NoKey /\ nodes'[n].port /\ n \in last'.peers =>
                  \E m \in Remote(nodes') :
                    /\ nodes'[m].subnet = nodes'[n].subnet
                    /\ net'.allowed[nodes'[n].subnet] = nodes'[m].key
                    /\ net'.peers[nodes'[m].key].addr = nodes'[m].addr]_vars
        BY RepairStep DEF Repaired, Meshed
  <1>. QED  BY <1>1, SwarmInvariant, PTL DEF Spec, MembershipRepairsMesh
=============================================================================
