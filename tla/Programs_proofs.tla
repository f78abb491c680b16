--------------------------- MODULE Programs_proofs ---------------------------
(***************************************************************************)
(* Proofs about the three programs that keep books of VMs and snapshots:   *)
(* the histories of TimeMachine and SnapshotTree stay well founded, for    *)
(* any number of VMs, snapshots and loops, and each program keeps its      *)
(* types.                                                                  *)
(***************************************************************************)
EXTENDS Programs, Cri_proofs, WellFoundedInduction

-----------------------------------------------------------------------------
(* The inductive invariants.                                                *)

(* The history of one VM: its entries are the VM's own and were made so    *)
(* far; they are in order of creation, strictly from the second on, for    *)
(* delete_snapshot may put the second entry in the place of the first; a   *)
(* parent is an older snapshot; and the newest is last, if it is there.    *)
WellMade(v, h, m, c) ==
    /\ \A i \in DOMAIN h : h[i].id.vm = v /\ h[i].id.n <= m
    /\ \A i, j \in DOMAIN h : i <= j => h[i].id.n <= h[j].id.n
    /\ \A i, j \in DOMAIN h : 2 <= i /\ i < j => h[i].id.n < h[j].id.n
    /\ \A i \in DOMAIN h : h[i].parent = None \/ (h[i].parent.vm = v /\ h[i].parent.n < h[i].id.n)
    /\ m = 0 \/ c \/ (h # <<>> /\ Last(h).id = Id(v, m))

HistoryOK(v) == WellMade(v, hist[v], made[v], cut[v])

(* A loop that was started has a VM, and the loop a VM's entry in tasks    *)
(* stands for is one of that VM and is alive: is_running tells the truth.  *)
LoopsOK ==
    /\ \A l \in Tasks : loop[l].pc # "new" => loop[l].vm \in Vms
    /\ \A v \in Vms : tasks[v] # None =>
          loop[tasks[v]].vm = v /\ loop[tasks[v]].pc \in {"select", "prune"}

TmInv == TmTypeOK /\ LoopsOK /\ \A v \in Vms : HistoryOK(v)

(* The tree: a parent is older than its child, also in the nodes that a    *)
(* thread has in hand to write, and no node has an id not yet given.       *)
HandOK(w) == w.id < next /\ (w.node = NoNode \/ (w.node \in Node /\ w.node.parent < w.id))

TreeInv ==
    /\ TreeTypeOK
    /\ \A i \in Ids : Has(i) => node[i].parent < i /\ i < next
    /\ \A w \in hand : HandOK(w)

-----------------------------------------------------------------------------
(* The tree of snapshots.                                                   *)

\* A table keeps its type when one place gets a value of that type.
LEMMA TableType ==
    ASSUME NEW D, NEW S, NEW f \in [D -> S], NEW k, NEW x \in S
    PROVE  [f EXCEPT ![k] = x] \in [D -> S]
  OBVIOUS

\* An empty database satisfies the invariant.
LEMMA TreeInvInit == TreeInit => TreeInv
  <1>. SUFFICES ASSUME TreeInit PROVE TreeInv  OBVIOUS
  <1>. USE DEF TreeInit
  <1>1. TreeTypeOK  BY SnapshotTreeAssumption DEF TreeTypeOK
  <1>2. \A i \in Ids : ~ Has(i)  BY DEF Has
  <1>. QED  BY <1>1, <1>2 DEF TreeInv

\* A new node whose parent is there, or is none, keeps the invariant.
LEMMA CreateKeeps ==
    ASSUME TreeInv, NEW n \in Node, n.parent = 0 \/ Has(n.parent), create(n),
           hand' \subseteq Hand, \A w \in hand' : HandOK(w)', UNCHANGED tagged
    PROVE  TreeInv'
  <1>. USE SnapshotTreeAssumption
  <1>1. next \in Ids /\ next' = next + 1  BY DEF create
  <1>2. n.parent < next
    <2>1. Has(n.parent) => n.parent < next  BY DEF TreeInv, Has
    <2>. QED  BY <1>1, <2>1 DEF Ids
  <1>3. /\ node' \in [Ids -> Node \cup {NoNode}] /\ node'[next] = n
        /\ \A i \in Ids \ {next} : node'[i] = node[i]
    BY <1>1 DEF create, TreeInv, TreeTypeOK
  <1>4. next' \in 1 .. MaxNodes + 1  BY <1>1 DEF Ids
  <1>5. TreeTypeOK'  BY <1>3, <1>4 DEF TreeInv, TreeTypeOK
  <1>6. \A i \in Ids : Has(i)' => node'[i].parent < i /\ i < next'
    <2>1. ASSUME NEW i \in Ids, i # next, node'[i] # NoNode PROVE node'[i].parent < i /\ i < next'
      <3>1. Has(i) /\ node'[i] = node[i]  BY <1>3, <2>1 DEF Has
      <3>2. node[i].parent < i /\ i < next  BY <3>1 DEF TreeInv
      <3>. QED  BY <1>1, <3>1, <3>2 DEF Ids
    <2>. QED  BY <1>1, <1>2, <1>3, <2>1 DEF Has, Ids
  <1>. QED  BY <1>5, <1>6 DEF TreeInv

\* Ids that are given later do not disturb what threads have in hand.
LEMMA HandStays ==
    ASSUME TreeInv, next' \in {next, next + 1}, NEW w \in hand
    PROVE  w \in Hand /\ HandOK(w)'
  <1>1. w \in Hand /\ HandOK(w) /\ w.id \in Ids /\ next \in 1 .. MaxNodes + 1
    BY DEF TreeInv, TreeTypeOK, Hand
  <1>. QED  BY <1>1, SnapshotTreeAssumption DEF HandOK, Ids

\* Every method of the tree and of the manager over it keeps the invariant.
LEMMA TreeInvStep == TreeInv /\ [TreeNext]_treeVars => TreeInv'
  <1>. SUFFICES ASSUME TreeInv, [TreeNext]_treeVars PROVE TreeInv'  OBVIOUS
  <1>. USE SnapshotTreeAssumption
  <1>0. TreeTypeOK  BY DEF TreeInv
  <1>b. /\ hand \subseteq Hand /\ next \in Nat
        /\ next' \in {next, next + 1} => \A w \in hand : HandOK(w)'
    BY HandStays DEF TreeInv, TreeTypeOK
  <1>1. ASSUME NEW v \in Volumes, CreateVolume(v) PROVE TreeInv'
    <2>. DEFINE n == [vm |-> v, parent |-> 0, tag |-> NoTag, path |-> "file"]
    <2>1. n \in Node /\ n.parent = 0  BY DEF Node
    <2>2. create(n) /\ UNCHANGED <<tagged, hand>> /\ next' = next + 1
      BY <1>1 DEF CreateVolume, create
    <2>. HIDE DEF n
    <2>. QED  BY <1>b, <2>1, <2>2, CreateKeeps
  <1>2. ASSUME NEW i \in Ids, NEW v \in Volumes, BranchNode(i, v) PROVE TreeInv'
    <2>. DEFINE n == [vm |-> v, parent |-> i, tag |-> NoTag, path |-> "none"]
                o == [vm |-> v, parent |-> i, tag |-> NoTag, path |-> "overlay"]
    <2>1. n \in Node /\ n.parent = i /\ Has(i) /\ o \in Node /\ o.parent = i
      BY <1>2 DEF Node, Ids, BranchNode
    <2>2. create(n) /\ UNCHANGED tagged /\ next \in Ids /\ next' = next + 1
      BY <1>2 DEF BranchNode, create
    <2>3. PICK w : w = [id |-> next, keys |-> {}, entry |-> 0, at |-> "node", node |-> o]
      OBVIOUS
    <2>4. hand' = hand \cup {w}  BY <1>2, <2>3 DEF BranchNode, Takes
    <2>. HIDE DEF n, o
    <2>5. w \in Hand  BY <2>1, <2>2, <2>3 DEF Hand
    <2>6. i < next /\ next < next'
      <3>1. i < next  BY <2>1 DEF TreeInv
      <3>. QED  BY <1>b, <2>2, <3>1
    <2>7. HandOK(w)'  BY <2>1, <2>3, <2>6 DEF HandOK
    <2>. QED  BY <1>b, <2>1, <2>2, <2>4, <2>5, <2>7, CreateKeeps
  <1>3. ASSUME NEW i \in Ids, NEW v \in Volumes, CommitNode(i, v) PROVE TreeInv'
    <2>. DEFINE n == [vm |-> v, parent |-> 0, tag |-> NoTag, path |-> "file"]
    <2>1. n \in Node /\ n.parent = 0  BY DEF Node
    <2>2. create(n) /\ UNCHANGED <<tagged, hand>> /\ next' = next + 1
      BY <1>3 DEF CommitNode, create
    <2>. HIDE DEF n
    <2>. QED  BY <1>b, <2>1, <2>2, CreateKeeps
  <1>4. ASSUME NEW w \in hand, WriteNode(w) PROVE TreeInv'
    <2>1. w \in Hand /\ HandOK(w) /\ w.id \in Ids  BY <1>b DEF TreeInv, Hand
    <2>2. /\ node' \in [Ids -> Node \cup {NoNode}] /\ node'[w.id] = w.node
          /\ \A i \in Ids \ {w.id} : node'[i] = node[i]
          /\ UNCHANGED <<next, tagged>>
      BY <1>0, <1>4, <2>1 DEF WriteNode, TreeTypeOK, Hand
    <2>3. PICK x : x = [w EXCEPT !.at = "index"]  OBVIOUS
    <2>4. hand' \subseteq hand \cup {x}  BY <1>4, <2>3 DEF WriteNode
    <2>5. x \in Hand /\ x.id = w.id /\ x.node = w.node  BY <2>1, <2>3 DEF Hand
    <2>6. HandOK(x)'  BY <2>1, <2>2, <2>5 DEF HandOK
    <2>7. hand' \subseteq Hand /\ \A y \in hand' : HandOK(y)'  BY <1>b, <2>2, <2>4, <2>5, <2>6
    <2>8. TreeTypeOK'  BY <1>0, <2>2, <2>7 DEF TreeTypeOK
    <2>9. \A i \in Ids : Has(i)' => node'[i].parent < i /\ i < next'
      <3>1. ASSUME NEW i \in Ids, i # w.id, Has(i)' PROVE node'[i].parent < i /\ i < next'
        <4>1. Has(i) /\ node'[i] = node[i] /\ next' = next  BY <2>2, <3>1 DEF Has
        <4>. QED  BY <4>1 DEF TreeInv
      <3>2. Has(w.id)' => node'[w.id].parent < w.id /\ w.id < next'
        BY <2>1, <2>2 DEF Has, HandOK
      <3>. QED  BY <3>1, <3>2
    <2>. QED  BY <2>7, <2>8, <2>9 DEF TreeInv
  <1>5. ASSUME NEW i \in Ids, NEW v \in Volumes, NEW t \in Tags, TagNode(i, v, t) PROVE TreeInv'
    <2>1. node[i] \in Node /\ Has(i)  BY <1>0, <1>5 DEF TagNode, Has, TreeTypeOK
    <2>2. PICK n : n = [node[i] EXCEPT !.tag = t]  OBVIOUS
    <2>3. n \in Node /\ n.parent = node[i].parent  BY <2>1, <2>2 DEF Node
    <2>4. PICK w : w = [id |-> i, node |-> n, keys |-> {<<v, t>>}, entry |-> i, at |-> "node"]
      OBVIOUS
    <2>5. hand' = hand \cup {w} /\ UNCHANGED <<node, next, tagged>>
      BY <1>5, <2>2, <2>4 DEF TagNode, Takes
    <2>6. w \in Hand  BY <2>3, <2>4 DEF Hand, Ids
    <2>7. HandOK(w)'  BY <2>1, <2>3, <2>4, <2>5 DEF HandOK, TreeInv
    <2>. QED  BY <1>0, <1>b, <2>5, <2>6, <2>7 DEF TreeInv, TreeTypeOK, Has
  <1>6. ASSUME NEW i \in Ids, DeleteNode(i) PROVE TreeInv'
    <2>1. node[i] \in Node /\ Has(i)  BY <1>0, <1>6 DEF DeleteNode, Has, TreeTypeOK
    <2>2. PICK tags : tags = IF node[i].tag = NoTag THEN {} ELSE {<<node[i].vm, node[i].tag>>}
      OBVIOUS
    <2>3. tags \in SUBSET (Volumes \X Tags)  BY <2>1, <2>2 DEF Node
    <2>4. PICK w : w = [id |-> i, node |-> NoNode, keys |-> tags, entry |-> 0, at |-> "index"]
      OBVIOUS
    <2>5. hand' = hand \cup {w} /\ UNCHANGED <<node, next, tagged>>
      BY <1>6, <2>2, <2>4 DEF DeleteNode, Takes
    <2>6. w \in Hand  BY <2>3, <2>4 DEF Hand
    <2>7. HandOK(w)'  BY <2>1, <2>4, <2>5 DEF HandOK, TreeInv
    <2>. QED  BY <1>0, <1>b, <2>5, <2>6, <2>7 DEF TreeInv, TreeTypeOK, Has
  <1>8. ASSUME NEW w \in hand, WriteIndex(w) PROVE TreeInv'
    <2>1. w \in Hand /\ HandOK(w) /\ w.id \in Ids /\ w.entry \in 0 .. MaxNodes
      BY <1>b DEF TreeInv, Hand
    <2>2. tagged' \in [Volumes \X Tags -> 0 .. MaxNodes]
      <3>1. tagged \in [Volumes \X Tags -> 0 .. MaxNodes]  BY <1>0 DEF TreeTypeOK
      <3>. QED  BY <1>8, <2>1, <3>1 DEF WriteIndex
    <2>3. PICK x : x = [w EXCEPT !.at = "node"]  OBVIOUS
    <2>4. hand' \subseteq hand \cup {x} /\ UNCHANGED <<node, next>>  BY <1>8, <2>3 DEF WriteIndex
    <2>5. x \in Hand /\ x.id = w.id /\ x.node = w.node  BY <2>1, <2>3 DEF Hand
    <2>6. HandOK(x)'  BY <2>1, <2>4, <2>5 DEF HandOK
    <2>. QED  BY <1>0, <1>b, <2>2, <2>4, <2>5, <2>6 DEF TreeInv, TreeTypeOK, Has
  <1>7. CASE UNCHANGED treeVars
    BY <1>7 DEF treeVars, TreeInv, TreeTypeOK, Has, HandOK
  <1>. QED  BY <1>1, <1>2, <1>3, <1>4, <1>5, <1>6, <1>7, <1>8 DEF TreeNext

-----------------------------------------------------------------------------
(* What create_snapshot, delete_snapshot and get_snapshot do to a history.  *)

\* One element of a sequence is replaced.
LEMMA ReplaceSeq ==
    ASSUME NEW S, NEW s \in Seq(S), NEW k \in DOMAIN s, NEW x \in S
    PROVE  LET t == [s EXCEPT ![k] = x]
           IN  /\ t \in Seq(S) /\ Len(t) = Len(s) /\ DOMAIN t = DOMAIN s
               /\ t[k] = x /\ \A i \in DOMAIN s \ {k} : t[i] = s[i]
  <1>. DEFINE t == [s EXCEPT ![k] = x]
  <1>1. Len(s) \in Nat /\ DOMAIN s = 1 .. Len(s) /\ \A i \in 1 .. Len(s) : s[i] \in S  OBVIOUS
  <1>2. t \in [1 .. Len(s) -> S] /\ t[k] = x /\ \A i \in DOMAIN s \ {k} : t[i] = s[i]  BY <1>1
  <1>3. t \in Seq(S) /\ Len(t) = Len(s)  BY <1>1, <1>2
  <1>. QED  BY <1>1, <1>2, <1>3

\* The fields of an entry.
LEMMA EntryFields ==
    ASSUME NEW e \in Entry
    PROVE  /\ e.id \in [vm : Vms, n : 1 .. MaxSnaps] /\ e.id.vm \in Vms
           /\ e.id.n \in 1 .. MaxSnaps /\ e.id.n \in Int
           /\ e.label \in Labels
           /\ e.parent \in [vm : Vms, n : 1 .. MaxSnaps] \cup {None}
  BY TimeMachineAssumption DEF Entry

\* A new snapshot keeps a history well made: it is newer than all others.
LEMMA AppendWellMade ==
    ASSUME NEW v \in Vms, NEW h \in Seq(Entry), NEW m \in 0 .. MaxSnaps, m < MaxSnaps,
           NEW lab \in Labels, NEW c \in BOOLEAN, WellMade(v, h, m, c)
    PROVE  LET new == Append(h, [id |-> Id(v, m + 1), label |-> lab,
                                 parent |-> IF h = <<>> THEN None ELSE Last(h).id])
           IN  new \in Seq(Entry) /\ WellMade(v, new, m + 1, FALSE)
  <1>. USE TimeMachineAssumption
  <1>. DEFINE par == IF h = <<>> THEN None ELSE Last(h).id
              e == [id |-> Id(v, m + 1), label |-> lab, parent |-> par]
              new == Append(h, e)
  <1>1. h # <<>> => /\ Len(h) \in DOMAIN h /\ Last(h) \in Entry /\ Last(h) = h[Len(h)]
    BY DEF Last
  <1>2. h # <<>> => Last(h).id.vm = v /\ Last(h).id.n <= m  BY <1>1 DEF WellMade
  <1>3. par \in [vm : Vms, n : 1 .. MaxSnaps] \cup {None}  BY <1>1, EntryFields
  <1>4. e \in Entry
    <2>1. m + 1 \in 1 .. MaxSnaps  OBVIOUS
    <2>. HIDE DEF par
    <2>. QED  BY <1>3, <2>1 DEF Entry, Id
  <1>5. e.id = Id(v, m + 1) /\ e.id.vm = v /\ e.id.n = m + 1 /\ e.parent = par  BY DEF Id
  <1>6. /\ new \in Seq(Entry) /\ Len(new) = Len(h) + 1 /\ DOMAIN new = 1 .. Len(h) + 1
        /\ new[Len(h) + 1] = e /\ \A i \in DOMAIN h : new[i] = h[i]
        /\ DOMAIN h = 1 .. Len(h) /\ Len(h) \in Nat
    <2>. HIDE DEF e
    <2>. QED  BY <1>4
  <1>7. \A i \in DOMAIN h : h[i] \in Entry /\ h[i].id.n \in Int /\ h[i].id.vm = v /\ h[i].id.n <= m
    BY EntryFields DEF WellMade
  <1>8. par = None \/ (par.vm = v /\ par.n < m + 1)
    <2>1. h # <<>> => Last(h).id.n \in Int  BY <1>1, EntryFields
    <2>. QED  BY <1>2, <2>1
  <1>. HIDE DEF e, par, new
  <1>9. \A i \in DOMAIN new : i = Len(h) + 1 \/ i \in DOMAIN h  BY <1>6
  <1>10. \A i \in DOMAIN new : new[i].id.vm = v /\ new[i].id.n <= m + 1
    BY <1>5, <1>6, <1>7, <1>9
  <1>11. ASSUME NEW i \in DOMAIN new, NEW j \in DOMAIN new
         PROVE  /\ i <= j => new[i].id.n <= new[j].id.n
                /\ 2 <= i /\ i < j => new[i].id.n < new[j].id.n
    <2>1. CASE j \in DOMAIN h
      <3>1. i <= j => i \in DOMAIN h  BY <1>6, <2>1
      <3>2. i \in DOMAIN h => new[i] = h[i] /\ new[j] = h[j]  BY <1>6, <2>1
      <3>3. i < j => i <= j  BY <1>6
      <3>. QED  BY <2>1, <3>1, <3>2, <3>3 DEF WellMade
    <2>2. CASE j = Len(h) + 1
      <3>1. CASE i \in DOMAIN h  BY <1>5, <1>6, <1>7, <2>2, <3>1
      <3>2. CASE i = Len(h) + 1  BY <1>5, <1>6, <2>2, <3>2
      <3>. QED  BY <1>9, <3>1, <3>2
    <2>. QED  BY <1>9, <2>1, <2>2
  <1>12. \A i \in DOMAIN new :
            new[i].parent = None \/ (new[i].parent.vm = v /\ new[i].parent.n < new[i].id.n)
    BY <1>5, <1>6, <1>8, <1>9 DEF WellMade
  <1>13. new # <<>> /\ Last(new).id = Id(v, m + 1)
    BY <1>5, <1>6 DEF Last
  <1>14. WellMade(v, new, m + 1, FALSE)
    BY <1>10, <1>11, <1>12, <1>13 DEF WellMade
  <1>. QED  BY <1>6, <1>14 DEF new, e, par

\* Deleting the first entry, with the relinking at moved indices: the second entry
\* may be in the list twice, and the history is still well made.
LEMMA DeleteFirstWellMade ==
    ASSUME NEW v \in Vms, NEW h \in Seq(Entry), Len(h) > 0, NEW m \in Nat,
           NEW c \in BOOLEAN, WellMade(v, h, m, c)
    PROVE  /\ Deleted(h, 1) \in Seq(Entry)
           /\ WellMade(v, Deleted(h, 1), m, c \/ h[1].id = Id(v, m))
  <1>. USE TimeMachineAssumption
  <1>. DEFINE rest == RemoveAt(h, 1)
              new == Deleted(h, 1)
  <1>0. /\ Len(h) \in Nat /\ DOMAIN h = 1 .. Len(h)
        /\ \A i \in DOMAIN h : h[i] \in Entry
    OBVIOUS
  <1>1. /\ rest \in Seq(Entry) /\ Len(rest) = Len(h) - 1 /\ DOMAIN rest = 1 .. Len(h) - 1
        /\ \A i \in 1 .. Len(h) - 1 : rest[i] = h[i + 1]
    BY <1>0 DEF RemoveAt
  <1>. HIDE DEF rest
  <1>2. CASE Len(h) < 3
    <2>1. new = rest  BY <1>0, <1>1, <1>2 DEF Deleted, rest
    <2>2. \A i \in DOMAIN rest : i = 1 /\ i + 1 \in DOMAIN h /\ rest[i] = h[2] /\ Len(h) = 2
      BY <1>0, <1>1, <1>2
    <2>3. Len(h) = 2 => rest # <<>> /\ Last(rest) = Last(h)
      <3>. SUFFICES ASSUME Len(h) = 2 PROVE rest # <<>> /\ Last(rest) = Last(h)  OBVIOUS
      <3>1. Len(rest) = 1 /\ 1 \in 1 .. Len(h) - 1 /\ 1 + 1 = 2  BY <1>1
      <3>2. rest[1] = h[2]  BY <1>1, <3>1
      <3>3. Len(<<>>) = 0 /\ rest # <<>>
        <4>1. rest = <<>> => Len(rest) = 0  OBVIOUS
        <4>. QED  BY <3>1, <4>1
      <3>. QED  BY <3>1, <3>2, <3>3 DEF Last
    <2>4. Len(h) = 1 => Last(h) = h[1]  BY DEF Last
    <2>5. Len(h) = 1 \/ Len(h) = 2  BY <1>0, <1>2
    <2>6. \A i \in DOMAIN h : h[i].id.n \in Int  BY <1>0, EntryFields
    <2>7. WellMade(v, rest, m, c \/ h[1].id = Id(v, m))
      <3>1. \A i \in DOMAIN rest : rest[i] = h[2] /\ 2 \in DOMAIN h /\ i = 1
        BY <1>0, <2>2
      <3>2. m = 0 \/ (c \/ h[1].id = Id(v, m)) \/ (rest # <<>> /\ Last(rest).id = Id(v, m))
        BY <2>3, <2>4, <2>5 DEF WellMade
      <3>. QED  BY <2>6, <3>1, <3>2 DEF WellMade
    <2>. QED  BY <1>1, <2>1, <2>7
  <1>3. CASE Len(h) >= 3
    <2>. DEFINE e == [h[3] EXCEPT !.parent = h[2].id]
    <2>1. 1 \in DOMAIN h /\ 2 \in DOMAIN h /\ 3 \in DOMAIN h /\ h[2] \in Entry /\ h[3] \in Entry
      BY <1>0, <1>3
    <2>2. rest[1] = h[2] /\ rest[2] = h[3]  BY <1>0, <1>1, <1>3
    <2>3. e \in Entry /\ e.id = h[3].id /\ e.parent = h[2].id
      <3>1. h[2].id \in [vm : Vms, n : 1 .. MaxSnaps]  BY <2>1, EntryFields
      <3>. QED  BY <2>1, <3>1 DEF Entry
    <2>4. new = [rest EXCEPT ![1] = e]
      <3>1. 1 + 1 <= Len(rest)  BY <1>0, <1>1, <1>3
      <3>. QED  BY <2>2, <3>1 DEF Deleted, rest
    <2>. HIDE DEF e
    <2>5. /\ new \in Seq(Entry) /\ Len(new) = Len(h) - 1 /\ DOMAIN new = 1 .. Len(h) - 1
          /\ new[1] = e /\ \A i \in 2 .. Len(h) - 1 : new[i] = h[i + 1]
      <3>1. 1 \in DOMAIN rest  BY <1>0, <1>1, <1>3
      <3>2. /\ new \in Seq(Entry) /\ Len(new) = Len(rest) /\ DOMAIN new = DOMAIN rest
            /\ new[1] = e /\ \A i \in DOMAIN rest \ {1} : new[i] = rest[i]
        BY <1>1, <2>3, <2>4, <3>1, ReplaceSeq
      <3>3. \A i \in 2 .. Len(h) - 1 : i \in DOMAIN rest \ {1} /\ i \in 1 .. Len(h) - 1
        BY <1>0, <1>1
      <3>. QED  BY <1>1, <3>2, <3>3
    <2>. HIDE DEF new
    <2>6. \A i \in DOMAIN new : /\ i + 1 \in DOMAIN h /\ i \in Int
                                /\ i = 1 => new[i].id = h[3].id
                                /\ i # 1 => new[i] = h[i + 1] /\ 2 <= i
      BY <1>0, <2>3, <2>5
    <2>7. \A i \in DOMAIN h : h[i].id.n \in Int /\ h[i].id.vm = v /\ h[i].id.n <= m
      BY <1>0, EntryFields DEF WellMade
    <2>8. \A i \in DOMAIN new : new[i].id.vm = v /\ new[i].id.n <= m  BY <2>1, <2>6, <2>7
    <2>9. ASSUME NEW i \in DOMAIN new, NEW j \in DOMAIN new
          PROVE  /\ i <= j => new[i].id.n <= new[j].id.n
                 /\ 2 <= i /\ i < j => new[i].id.n < new[j].id.n
      <3>1. \A a, b \in DOMAIN h : /\ a <= b => h[a].id.n <= h[b].id.n
                                   /\ 2 <= a /\ a < b => h[a].id.n < h[b].id.n
        BY DEF WellMade
      <3>2. CASE i # 1
        <4>1. i + 1 \in DOMAIN h /\ new[i] = h[i + 1] /\ 2 <= i /\ i \in Int /\ j \in Int
          BY <2>6, <3>2
        <4>2. CASE i <= j
          <5>1. j # 1  BY <4>1, <4>2
          <5>2. j + 1 \in DOMAIN h /\ new[j] = h[j + 1]  BY <2>6, <5>1
          <5>3. i + 1 <= j + 1 /\ (i < j => 2 <= i + 1 /\ i + 1 < j + 1)  BY <4>1, <4>2
          <5>. QED  BY <3>1, <4>1, <5>2, <5>3
        <4>3. CASE ~ (i <= j)  BY <4>1, <4>3
        <4>. QED  BY <4>2, <4>3
      <3>3. CASE i = 1
        <4>1. new[i].id = h[3].id /\ ~ (2 <= i)  BY <2>6, <3>3
        <4>2. CASE j = 1  BY <2>1, <2>6, <2>7, <3>3, <4>2
        <4>3. CASE j # 1
          <5>1. new[j] = h[j + 1] /\ j + 1 \in DOMAIN h /\ 3 <= j + 1  BY <2>6, <4>3
          <5>. QED  BY <2>1, <3>1, <4>1, <5>1
        <4>. QED  BY <4>2, <4>3
      <3>. QED  BY <3>2, <3>3
    <2>10. \A i \in DOMAIN new :
              new[i].parent = None \/ (new[i].parent.vm = v /\ new[i].parent.n < new[i].id.n)
      <3>1. h[2].id.n < h[3].id.n /\ h[2].id.vm = v  BY <2>1, <2>7 DEF WellMade
      <3>2. new[1].parent = h[2].id /\ new[1].id = h[3].id  BY <2>3, <2>5
      <3>. QED  BY <2>6, <3>1, <3>2 DEF WellMade
    <2>11. new # <<>> /\ Last(new) = Last(h)
      <3>1. Len(h) - 1 \in 2 .. Len(h) - 1 /\ (Len(h) - 1) + 1 = Len(h)  BY <1>0, <1>3
      <3>. QED  BY <1>0, <1>3, <2>5, <3>1 DEF Last
    <2>12. WellMade(v, new, m, c \/ h[1].id = Id(v, m))
      BY <2>8, <2>9, <2>10, <2>11 DEF WellMade
    <2>. QED  BY <2>5, <2>12 DEF new
  <1>. QED  BY <1>0, <1>2, <1>3

\* get_snapshot gives the position of an entry, if not 0.
LEMMA GetSnapshotPosition ==
    ASSUME TmTypeOK, NEW v \in Vms, NEW ref \in Refs(v), get_snapshot(v, ref) # 0
    PROVE  get_snapshot(v, ref) \in DOMAIN hist[v]
  <1>. USE TimeMachineAssumption
  <1>. DEFINE h == hist[v]
  <1>0. h \in Seq(Entry) /\ Len(h) \in Nat /\ DOMAIN h = 1 .. Len(h)  BY DEF TmTypeOK
  <1>1. \A at \in SUBSET DOMAIN h : at # {} =>
           (CHOOSE i \in at : \A j \in at : i <= j) \in DOMAIN h
    <2>. SUFFICES ASSUME NEW at \in SUBSET DOMAIN h, at # {}
                  PROVE  \E i \in at : \A j \in at : i <= j
      OBVIOUS
    <2>1. at \subseteq Nat  BY <1>0
    <2>2. PICK i \in at : \A j \in at : ~(<<j, i>> \in OpToRel(<, Nat))
      BY <2>1, NatLessThanWellFounded, WFMin
    <2>3. \A j \in at : ~(j < i)  BY <2>1, <2>2 DEF OpToRel
    <2>. QED  BY <2>1, <2>3
  <1>2. CASE ref.kind = "id"
    <2>. DEFINE at == {i \in DOMAIN h : h[i].id = ref.of}
    <2>1. get_snapshot(v, ref) = IF at = {} THEN 0 ELSE CHOOSE i \in at : \A j \in at : i <= j
      BY <1>2 DEF get_snapshot
    <2>. QED  BY <1>1, <2>1
  <1>3. CASE ref.kind = "label"
    <2>. DEFINE at == {i \in DOMAIN h : h[i].label = ref.of}
    <2>1. get_snapshot(v, ref) = IF at = {} THEN 0 ELSE CHOOSE i \in at : \A j \in at : i <= j
      BY <1>3 DEF get_snapshot
    <2>. QED  BY <1>1, <2>1
  <1>4. CASE ref.kind = "snap"
    <2>1. ref.of \in 0 .. MaxSnaps  BY <1>4 DEF Refs
    <2>2. get_snapshot(v, ref) = IF ref.of = 0 THEN (IF h = <<>> THEN 0 ELSE 1)
                                 ELSE IF ref.of <= Len(h) THEN ref.of ELSE 0
      BY <1>4 DEF get_snapshot
    <2>3. h # <<>> => 1 \in 1 .. Len(h)  BY <1>0
    <2>. QED  BY <1>0, <2>1, <2>2, <2>3
  <1>. QED  BY <1>2, <1>3, <1>4 DEF Refs

\* The id of the first entry refers to that entry.
LEMMA FirstById ==
    ASSUME TmTypeOK, NEW v \in Vms, Len(hist[v]) > 0
    PROVE  get_snapshot(v, [kind |-> "id", of |-> hist[v][1].id]) = 1
  <1>. DEFINE h == hist[v]
              ref == [kind |-> "id", of |-> hist[v][1].id]
              at == {i \in DOMAIN h : h[i].id = h[1].id}
  <1>0. h \in Seq(Entry) /\ Len(h) \in Nat /\ DOMAIN h = 1 .. Len(h)  BY DEF TmTypeOK
  <1>1. get_snapshot(v, ref) = IF at = {} THEN 0 ELSE CHOOSE i \in at : \A j \in at : i <= j
    BY DEF get_snapshot
  <1>2. 1 \in at /\ \A j \in at : 1 <= j /\ j \in Nat  BY <1>0
  <1>3. \A i \in at : (\A j \in at : i <= j) => i = 1  BY <1>2
  <1>4. (CHOOSE i \in at : \A j \in at : i <= j) = 1  BY <1>2, <1>3
  <1>. QED  BY <1>1, <1>2, <1>4

-----------------------------------------------------------------------------
(* The daemon's histories and loops.                                        *)

\* A daemon without histories and loops satisfies the invariant.
LEMMA TmInvInit == TmInit => TmInv
  <1>. SUFFICES ASSUME TmInit PROVE TmInv  OBVIOUS
  <1>. USE TimeMachineAssumption DEF TmInit
  <1>1. TmTypeOK  BY DEF TmTypeOK
  <1>2. LoopsOK  BY DEF LoopsOK
  <1>3. \A v \in Vms : HistoryOK(v)  BY DEF HistoryOK, WellMade
  <1>. QED  BY <1>1, <1>2, <1>3 DEF TmInv

\* create_snapshot keeps the histories.
LEMMA CreateKeepsHistory ==
    ASSUME TmInv, NEW v \in Vms, NEW lab \in Labels, create_snapshot(v, lab)
    PROVE  /\ hist' \in [Vms -> Seq(Entry)] /\ made' \in [Vms -> 0 .. MaxSnaps]
           /\ cut' \in [Vms -> BOOLEAN] /\ \A w \in Vms : HistoryOK(w)'
  <1>. USE TimeMachineAssumption
  <1>0. /\ hist[v] \in Seq(Entry) /\ made[v] \in 0 .. MaxSnaps /\ made[v] < MaxSnaps
        /\ cut[v] \in BOOLEAN /\ WellMade(v, hist[v], made[v], cut[v])
    BY DEF TmInv, TmTypeOK, HistoryOK, create_snapshot
  <1>. DEFINE new == Append(hist[v], [id |-> Id(v, made[v] + 1), label |-> lab,
                        parent |-> IF hist[v] = <<>> THEN None ELSE Last(hist[v]).id])
  <1>1. new \in Seq(Entry) /\ WellMade(v, new, made[v] + 1, FALSE)
    BY <1>0, AppendWellMade
  <1>2. /\ hist' = [hist EXCEPT ![v] = new] /\ made' = [made EXCEPT ![v] = made[v] + 1]
        /\ cut' = [cut EXCEPT ![v] = FALSE]
    BY DEF create_snapshot
  <1>. HIDE DEF new
  <1>3. made[v] + 1 \in 0 .. MaxSnaps  BY <1>0
  <1>4. /\ hist' \in [Vms -> Seq(Entry)] /\ made' \in [Vms -> 0 .. MaxSnaps]
        /\ cut' \in [Vms -> BOOLEAN]
    BY <1>1, <1>2, <1>3 DEF TmInv, TmTypeOK
  <1>5. hist'[v] = new /\ made'[v] = made[v] + 1 /\ cut'[v] = FALSE
    BY <1>2 DEF TmInv, TmTypeOK
  <1>6. \A w \in Vms \ {v} : hist'[w] = hist[w] /\ made'[w] = made[w] /\ cut'[w] = cut[w]
    BY <1>2 DEF TmInv, TmTypeOK
  <1>7. HistoryOK(v)'  BY <1>1, <1>5 DEF HistoryOK
  <1>8. \A w \in Vms \ {v} : HistoryOK(w)'  BY <1>6 DEF TmInv, HistoryOK
  <1>. QED  BY <1>4, <1>7, <1>8

\* The pruning of a tick keeps the histories.
LEMMA PruneKeepsHistory ==
    ASSUME TmInv, NEW v \in Vms, Len(hist[v]) > Retain, UNCHANGED made,
           delete_snapshot(v, [kind |-> "id", of |-> hist[v][1].id])
    PROVE  /\ hist' \in [Vms -> Seq(Entry)]
           /\ cut' \in [Vms -> BOOLEAN] /\ \A w \in Vms : HistoryOK(w)'
  <1>. USE TimeMachineAssumption
  <1>0. /\ hist[v] \in Seq(Entry) /\ made[v] \in Nat
        /\ cut[v] \in BOOLEAN /\ WellMade(v, hist[v], made[v], cut[v])
    BY DEF TmInv, TmTypeOK, HistoryOK
  <1>1. Len(hist[v]) > 0  BY <1>0
  <1>2. get_snapshot(v, [kind |-> "id", of |-> hist[v][1].id]) = 1
    BY <1>1, FirstById DEF TmInv
  <1>. DEFINE new == Deleted(hist[v], 1)
              c == cut[v] \/ hist[v][1].id = Id(v, made[v])
  <1>3. new \in Seq(Entry) /\ WellMade(v, new, made[v], c)
    BY <1>0, <1>1, DeleteFirstWellMade
  <1>4. hist' = [hist EXCEPT ![v] = new] /\ cut' = [cut EXCEPT ![v] = c]
    BY <1>2 DEF delete_snapshot
  <1>5. c \in BOOLEAN  OBVIOUS
  <1>. HIDE DEF new, c
  <1>6. hist' \in [Vms -> Seq(Entry)] /\ cut' \in [Vms -> BOOLEAN]
    BY <1>3, <1>4, <1>5 DEF TmInv, TmTypeOK
  <1>7. hist'[v] = new /\ cut'[v] = c  BY <1>4 DEF TmInv, TmTypeOK
  <1>8. \A w \in Vms \ {v} : hist'[w] = hist[w] /\ cut'[w] = cut[w]
    BY <1>4 DEF TmInv, TmTypeOK
  <1>9. HistoryOK(v)'  BY <1>3, <1>7 DEF HistoryOK
  <1>10. \A w \in Vms \ {v} : HistoryOK(w)'  BY <1>8 DEF TmInv, HistoryOK
  <1>. QED  BY <1>6, <1>9, <1>10

\* A step that leaves the history alone keeps it.
LEMMA HistoryUnchanged ==
    ASSUME TmInv, UNCHANGED <<hist, made, cut>>
    PROVE  \A v \in Vms : HistoryOK(v)'
  BY DEF TmInv, HistoryOK

\* A loop moves on.
LEMMA AtMoves ==
    ASSUME TmTypeOK, NEW l \in Tasks, NEW pc \in {"new", "select", "prune", "leave", "ended"},
           At(l, pc)
    PROVE  /\ loop' \in [Tasks -> [vm : Vms \cup {None}, pc : {"new", "select", "prune", "leave", "ended"}]]
           /\ loop'[l].pc = pc /\ loop'[l].vm = loop[l].vm
           /\ \A k \in Tasks \ {l} : loop'[k] = loop[k]
  <1>. DEFINE R == [vm : Vms \cup {None}, pc : {"new", "select", "prune", "leave", "ended"}]
  <1>1. loop \in [Tasks -> R] /\ loop[l] \in R  BY DEF TmTypeOK
  <1>2. [loop[l] EXCEPT !.pc = pc] \in R /\ [loop[l] EXCEPT !.pc = pc].pc = pc
        /\ [loop[l] EXCEPT !.pc = pc].vm = loop[l].vm
    BY <1>1
  <1>3. loop' = [loop EXCEPT ![l] = [loop[l] EXCEPT !.pc = pc]]  BY DEF At
  <1>. HIDE DEF R
  <1>4. loop' \in [Tasks -> R] /\ loop'[l] = [loop[l] EXCEPT !.pc = pc]
        /\ \A k \in Tasks \ {l} : loop'[k] = loop[k]
    BY <1>1, <1>2, <1>3
  <1>. QED  BY <1>2, <1>4 DEF R

\* A VM's entry in tasks stands for a loop that was started and has not left.
LEMMA TaskPhase ==
    ASSUME TmTypeOK, LoopsOK, NEW l \in Tasks, loop[l].pc \notin {"select", "prune"}
           \/ \A v \in Vms : loop[l].vm = v => tasks[v] # l
    PROVE  \A v \in Vms : tasks[v] # None => tasks[v] \in Tasks \ {l}
  <1>1. ASSUME NEW v \in Vms, tasks[v] # None PROVE tasks[v] \in Tasks \ {l}
    <2>1. tasks[v] \in Tasks  BY <1>1 DEF TmTypeOK
    <2>2. loop[tasks[v]].vm = v /\ loop[tasks[v]].pc \in {"select", "prune"}
      BY <1>1 DEF LoopsOK
    <2>3. tasks[v] # l  BY <2>2
    <2>. QED  BY <2>1, <2>3
  <1>. QED  BY <1>1

\* Every step of the handlers and of the loops keeps the invariant.
LEMMA TmInvStep == TmInv /\ [TmNext]_tmVars => TmInv'
  <1>. SUFFICES ASSUME TmInv, [TmNext]_tmVars PROVE TmInv'  OBVIOUS
  <1>. USE TimeMachineAssumption
  <1>0. TmTypeOK /\ LoopsOK  BY DEF TmInv
  <1>1. ASSUME NEW v \in Vms, NEW lab \in Labels, Snapshot(v, lab) PROVE TmInv'
    <2>1. create_snapshot(v, lab) /\ UNCHANGED <<vms, tasks, loop, lock, answer>>
      BY <1>1 DEF Snapshot
    <2>2. TmTypeOK'  BY <1>0, <2>1, CreateKeepsHistory DEF TmTypeOK
    <2>3. LoopsOK'  BY <1>0, <2>1 DEF LoopsOK
    <2>. QED  BY <2>1, <2>2, <2>3, CreateKeepsHistory DEF TmInv
  <1>2. ASSUME NEW v \in Vms, NEW ref \in Refs(v), Restore(v, ref) PROVE TmInv'
    <2>1. get_snapshot(v, ref) \in DOMAIN hist[v]  BY <1>0, <1>2, GetSnapshotPosition
                                                      DEF Restore
    <2>2. hist[v][get_snapshot(v, ref)] \in Entry  BY <1>0, <2>1 DEF TmTypeOK
    <2>3. answer' \in Labels \cup {None}  BY <1>2, <2>2, EntryFields DEF Restore
    <2>4. UNCHANGED <<hist, made, vms, tasks, loop, lock, cut>>  BY <1>2 DEF Restore
    <2>5. TmTypeOK'  BY <1>0, <2>3, <2>4 DEF TmTypeOK
    <2>6. LoopsOK'  BY <1>0, <2>4 DEF LoopsOK
    <2>. QED  BY <2>4, <2>5, <2>6, HistoryUnchanged DEF TmInv
  <1>3. ASSUME NEW v \in Vms, NEW w \in Vms, NEW ref \in Refs(v), Branch(v, w, ref) PROVE TmInv'
    <2>1. create_snapshot(w, AutoLabel) /\ UNCHANGED <<tasks, loop, lock, answer>>
      BY <1>3 DEF Branch
    <2>2. vms' \subseteq Vms  BY <1>0, <1>3 DEF Branch, TmTypeOK
    <2>3. TmTypeOK'  BY <1>0, <2>1, <2>2, CreateKeepsHistory DEF TmTypeOK
    <2>4. LoopsOK'  BY <1>0, <2>1 DEF LoopsOK
    <2>. QED  BY <2>1, <2>3, <2>4, CreateKeepsHistory DEF TmInv
  <1>4. ASSUME NEW v \in Vms, NEW l \in Tasks, start_task(v, l) PROVE TmInv'
    <2>1. /\ tasks[v] = None /\ loop[l].pc = "new" /\ tasks' = [tasks EXCEPT ![v] = l]
          /\ loop' = [loop EXCEPT ![l] = [vm |-> v, pc |-> "select"]]
          /\ UNCHANGED <<hist, made, vms, lock, answer, cut>>
      BY <1>4 DEF start_task
    <2>2. TmTypeOK'  BY <1>0, <2>1 DEF TmTypeOK
    <2>3. loop'[l] = [vm |-> v, pc |-> "select"] /\ \A k \in Tasks \ {l} : loop'[k] = loop[k]
      BY <1>0, <2>1 DEF TmTypeOK
    <2>4. tasks'[v] = l /\ \A w \in Vms \ {v} : tasks'[w] = tasks[w]
      BY <1>0, <2>1 DEF TmTypeOK
    <2>5. \A w \in Vms : tasks[w] # None => tasks[w] \in Tasks \ {l}
      BY <1>0, <2>1, TaskPhase
    <2>6. LoopsOK'  BY <1>0, <2>3, <2>4, <2>5 DEF LoopsOK
    <2>. QED  BY <2>1, <2>2, <2>6, HistoryUnchanged DEF TmInv
  <1>5. ASSUME NEW v \in Vms, stop_task(v) PROVE TmInv'
    <2>1. tasks' = [tasks EXCEPT ![v] = None] /\ UNCHANGED <<hist, made, vms, loop, lock, answer, cut>>
      BY <1>5 DEF stop_task
    <2>2. TmTypeOK'  BY <1>0, <2>1 DEF TmTypeOK
    <2>3. LoopsOK'  BY <1>0, <2>1 DEF LoopsOK, TmTypeOK
    <2>. QED  BY <2>1, <2>2, <2>3, HistoryUnchanged DEF TmInv
  <1>6. ASSUME NEW l \in Tasks, TickCreate(l) PROVE TmInv'
    <2>1. /\ loop[l].pc = "select" /\ create_snapshot(loop[l].vm, AutoLabel) /\ lock' = l
          /\ At(l, "prune") /\ UNCHANGED <<vms, tasks, answer>>
      BY <1>6 DEF TickCreate
    <2>2. loop[l].vm \in Vms  BY <1>0, <2>1 DEF LoopsOK
    <2>3. TmTypeOK'  BY <1>0, <2>1, <2>2, CreateKeepsHistory, AtMoves DEF TmTypeOK
    <2>4. LoopsOK'
      <3>1. /\ loop'[l].pc = "prune" /\ loop'[l].vm = loop[l].vm
            /\ \A k \in Tasks \ {l} : loop'[k] = loop[k]
        BY <1>0, <2>1, AtMoves
      <3>2. \A v \in Vms : tasks[v] # None => tasks[v] \in Tasks  BY <1>0 DEF TmTypeOK
      <3>3. \A v \in Vms : tasks[v] # None =>
              loop'[tasks[v]].vm = v /\ loop'[tasks[v]].pc \in {"select", "prune"}
        BY <1>0, <3>1, <3>2 DEF LoopsOK
      <3>4. \A k \in Tasks : loop'[k].pc # "new" => loop'[k].vm \in Vms
        BY <1>0, <2>2, <3>1 DEF LoopsOK
      <3>. QED  BY <2>1, <3>3, <3>4 DEF LoopsOK
    <2>. QED  BY <2>1, <2>2, <2>3, <2>4, CreateKeepsHistory DEF TmInv
  <1>7. ASSUME NEW l \in Tasks, TickPrune(l) PROVE TmInv'
    <2>1. /\ loop[l].pc = "prune" /\ lock' = None
          /\ At(l, "select") /\ UNCHANGED <<made, vms, tasks, answer>>
      BY <1>7 DEF TickPrune
    <2>2. loop[l].vm \in Vms  BY <1>0, <2>1 DEF LoopsOK
    <2>3. /\ hist' \in [Vms -> Seq(Entry)]
          /\ cut' \in [Vms -> BOOLEAN] /\ \A w \in Vms : HistoryOK(w)'
      <3>1. CASE Len(hist[loop[l].vm]) > Retain
        BY <1>7, <2>1, <2>2, <3>1, PruneKeepsHistory DEF TickPrune
      <3>2. CASE ~ (Len(hist[loop[l].vm]) > Retain)
        <4>1. UNCHANGED <<hist, made, cut>>  BY <1>7, <2>1, <3>2 DEF TickPrune
        <4>. QED  BY <1>0, <4>1, HistoryUnchanged DEF TmTypeOK
      <3>. QED  BY <3>1, <3>2
    <2>4. TmTypeOK'  BY <1>0, <2>1, <2>3, AtMoves DEF TmTypeOK
    <2>5. LoopsOK'
      <3>1. /\ loop'[l].pc = "select" /\ loop'[l].vm = loop[l].vm
            /\ \A k \in Tasks \ {l} : loop'[k] = loop[k]
        BY <1>0, <2>1, AtMoves
      <3>2. \A v \in Vms : tasks[v] # None => tasks[v] \in Tasks  BY <1>0 DEF TmTypeOK
      <3>3. \A v \in Vms : tasks[v] # None =>
              loop'[tasks[v]].vm = v /\ loop'[tasks[v]].pc \in {"select", "prune"}
        BY <1>0, <3>1, <3>2 DEF LoopsOK
      <3>4. \A k \in Tasks : loop'[k].pc # "new" => loop'[k].vm \in Vms
        BY <1>0, <2>2, <3>1 DEF LoopsOK
      <3>. QED  BY <2>1, <3>3, <3>4 DEF LoopsOK
    <2>. QED  BY <2>3, <2>4, <2>5 DEF TmInv
  <1>8. ASSUME NEW l \in Tasks, LoopBreak(l) PROVE TmInv'
    <2>1. /\ loop[l].pc = "select" /\ tasks[loop[l].vm] # l
          /\ At(l, "leave") /\ UNCHANGED <<hist, made, vms, tasks, lock, answer, cut>>
      BY <1>8 DEF LoopBreak, Stopped
    <2>2. TmTypeOK'  BY <1>0, <2>1, AtMoves DEF TmTypeOK
    <2>3. \A v \in Vms : tasks[v] # None => tasks[v] \in Tasks \ {l}
      BY <1>0, <2>1, TaskPhase
    <2>4. LoopsOK'  BY <1>0, <2>1, <2>3, AtMoves DEF LoopsOK
    <2>. QED  BY <2>1, <2>2, <2>4, HistoryUnchanged DEF TmInv
  <1>9. ASSUME NEW l \in Tasks, LoopLeave(l) PROVE TmInv'
    <2>1. /\ loop[l].pc = "leave" /\ tasks' = [tasks EXCEPT ![loop[l].vm] = None]
          /\ At(l, "ended") /\ UNCHANGED <<hist, made, vms, lock, answer, cut>>
      BY <1>9 DEF LoopLeave
    <2>2. TmTypeOK'  BY <1>0, <2>1, AtMoves DEF TmTypeOK
    <2>3. \A v \in Vms : tasks[v] # None => tasks[v] \in Tasks \ {l}
      BY <1>0, <2>1, TaskPhase
    <2>4. \A v \in Vms : tasks'[v] = None \/ tasks'[v] = tasks[v]  BY <1>0, <2>1 DEF TmTypeOK
    <2>5. LoopsOK'  BY <1>0, <2>1, <2>3, <2>4, AtMoves DEF LoopsOK
    <2>. QED  BY <2>1, <2>2, <2>5, HistoryUnchanged DEF TmInv
  <1>10. CASE Restart
    <2>1. /\ tasks' = [v \in Vms |-> None] /\ lock' = None
          /\ loop' = [l \in Tasks |-> IF loop[l].pc = "new" THEN loop[l] ELSE [loop[l] EXCEPT !.pc = "ended"]]
          /\ UNCHANGED <<hist, made, vms, answer, cut>>
      BY <1>10 DEF Restart
    <2>2. TmTypeOK'  BY <1>0, <2>1 DEF TmTypeOK
    <2>3. \A l \in Tasks : loop'[l].vm = loop[l].vm /\ (loop[l].pc = "new" => loop'[l].pc = "new")
      BY <1>0, <2>1 DEF TmTypeOK
    <2>4. LoopsOK'  BY <1>0, <2>1, <2>3 DEF LoopsOK
    <2>. QED  BY <2>1, <2>2, <2>4, HistoryUnchanged DEF TmInv
  <1>11. CASE UNCHANGED tmVars
    <2>1. UNCHANGED <<hist, made, vms, tasks, loop, lock, answer, cut>>  BY <1>11 DEF tmVars
    <2>2. TmTypeOK' /\ LoopsOK'  BY <1>0, <2>1 DEF TmTypeOK, LoopsOK
    <2>. QED  BY <2>1, <2>2, HistoryUnchanged DEF TmInv
  <1>. QED
    BY <1>1, <1>2, <1>3, <1>4, <1>5, <1>6, <1>7, <1>8, <1>9, <1>10, <1>11 DEF TmNext

-----------------------------------------------------------------------------
(* The three programs.                                                      *)

Books == TmInv /\ TreeInv /\ CriInv /\ program \in {"daemon", "storage", "bridge"}

\* Whichever program runs, all three books stay in order.
LEMMA BooksHold == Spec => []Books
  <1>1. Init => Books
    BY TmInvInit, TreeInvInit, CriInvInit DEF Init, Books
  <1>2. Books /\ [Next]_vars => Books'
    <2>. SUFFICES ASSUME Books, [Next]_vars PROVE Books'  OBVIOUS
    <2>1. [TmNext]_tmVars /\ [TreeNext]_treeVars /\ [CriNext]_criVars
      BY DEF Next, Daemon, Storage, Bridge, vars
    <2>2. program' = program  BY DEF Next, Daemon, Storage, Bridge, vars
    <2>. QED  BY <2>1, <2>2, TmInvStep, TreeInvStep, CriInvStep DEF Books
  <1>. QED  BY <1>1, <1>2, PTL DEF Spec

\* The daemon, the storage library and the bridge keep their types.
THEOREM ProgramsTypes == Spec => []TypeOK
  <1>1. Books => TypeOK  BY DEF Books, TypeOK, TmInv, TreeInv, CriInv
  <1>. QED  BY <1>1, BooksHold, PTL

\* For any number of snapshots, prunings, loops and crashes: a history stays in order
\* of creation, a parent is an older snapshot of the same VM, the newest snapshot is
\* last unless it was itself pruned; and in the tree a parent is older than its
\* children (TimeMachine::create_snapshot, delete_snapshot; SnapshotTree::branch).
THEOREM AncestryHolds == Spec => []Ancestry
  <1>1. Books => Ancestry
    <2>. SUFFICES ASSUME Books PROVE Ancestry  OBVIOUS
    <2>1. \A v \in Vms : WellMade(v, hist[v], made[v], cut[v])  BY DEF Books, TmInv, HistoryOK
    <2>2. \A i \in Ids : Has(i) => node[i].parent < i  BY DEF Books, TreeInv
    <2>. QED  BY <2>1, <2>2 DEF WellMade, Ancestry
  <1>. QED  BY <1>1, BooksHold, PTL

(* What is_running reports: the loop in a VM's entry is one of that VM and *)
(* has not left its select (the safety half of TasksAgree).                *)
TasksAlive ==
    \A v \in Vms : tasks[v] # None => loop[tasks[v]].vm = v /\ loop[tasks[v]].pc \in {"select", "prune"}

\* However starts and stops overlap with loops that are leaving and remove entries
\* that are not theirs, is_running reports only loops that are alive
\* (AutoSnapshotManager::stop_task, auto_snapshot_loop).
THEOREM TasksAliveHolds == Spec => []TasksAlive
  <1>1. Books => TasksAlive  BY DEF Books, TmInv, LoopsOK, TasksAlive
  <1>. QED  BY <1>1, BooksHold, PTL

\* The account of pods and VMs holds in the composition as well.
THEOREM BridgeAccountsForVms == Spec => []PodsAccountForVms
  <1>1. Books => PodsAccountForVms  BY DEF Books, CriInv
  <1>. QED  BY <1>1, BooksHold, PTL
=============================================================================
