-------------------------- MODULE SnapshotTree --------------------------
(***************************************************************************)
(* vyoma-storage: the snapshot tree (snapshot_tree.rs), two sled trees     *)
(* that are written one after the other, and the StorageManager that       *)
(* makes volumes, branches and commits (manager.rs).  Its methods take     *)
(* &self and may run at once in several threads.                           *)
(***************************************************************************)
EXTENDS Naturals, FiniteSets

CONSTANTS
    Volumes,      \* ids of VMs and names of base images
    Tags, NoTag, NoNode,
    MaxNodes,     \* bound: nodes ever made
    MaxThreads    \* bound: threads between the read and the last write of a method

ASSUME SnapshotTreeAssumption == MaxNodes \in Nat /\ MaxThreads \in Nat /\ NoTag \notin Tags

VARIABLES
    node,         \* the tree "snapshots": nodes by id, or NoNode
    next,         \* ids 1 .. next - 1 have been given
    tagged,       \* the tree "tags": the id under each volume and tag, or 0
    hand          \* threads that have read or made a node and have still to write

treeVars == <<node, next, tagged, hand>>

Ids  == 1 .. MaxNodes
Node == [vm : Volumes, parent : 0 .. MaxNodes, tag : Tags \cup {NoTag}, path : {"none", "file", "overlay"}]

\* What a thread has in hand: the node it will write under id (or NoNode, to remove
\* it), what it will put under keys of the index, and which of the two comes next.
Hand == [id : Ids, node : Node \cup {NoNode}, keys : SUBSET (Volumes \X Tags),
         entry : 0 .. MaxNodes, at : {"node", "index"}]

TreeInit ==
    /\ node = [i \in Ids |-> NoNode] /\ next = 1
    /\ tagged = [k \in Volumes \X Tags |-> 0] /\ hand = {}

Has(i) == i \in Ids /\ node[i] # NoNode

create(n) == next \in Ids /\ node' = [node EXCEPT ![next] = n] /\ next' = next + 1

\* create_vm_volume and create_qcow2_volume: the file first, then the node.
CreateVolume(v) ==
    /\ create([vm |-> v, parent |-> 0, tag |-> NoTag, path |-> "file"])
    /\ UNCHANGED <<tagged, hand>>

Takes(w) == Cardinality(hand) < MaxThreads /\ hand' = hand \cup {w}

\* branch_snapshot and branch_qcow2_snapshot: tree.branch records the node, and
\* update is to write it again with its paths, whatever happens to it meanwhile.
BranchNode(i, v) ==
    /\ Has(i) /\ create([vm |-> v, parent |-> i, tag |-> NoTag, path |-> "none"])
    /\ Takes([id |-> next, keys |-> {}, entry |-> 0, at |-> "node",
              node |-> [vm |-> v, parent |-> i, tag |-> NoTag, path |-> "overlay"]])
    /\ UNCHANGED tagged

\* commit_snapshot: a copy of the volume, with no parent.
CommitNode(i, v) ==
    /\ Has(i) /\ node[i].path # "none"
    /\ create([vm |-> v, parent |-> 0, tag |-> NoTag, path |-> "file"])
    /\ UNCHANGED <<tagged, hand>>

\* tag_snapshot gets the node, then writes it with its tag, then the index.
TagNode(i, v, t) ==
    /\ Has(i)
    /\ Takes([id |-> i, node |-> [node[i] EXCEPT !.tag = t], keys |-> {<<v, t>>},
              entry |-> i, at |-> "node"])
    /\ UNCHANGED <<node, next, tagged>>

\* delete gets the node, then removes the entry of its tag, then the node.
DeleteNode(i) ==
    /\ Has(i)
    /\ LET tags == IF node[i].tag = NoTag THEN {} ELSE {<<node[i].vm, node[i].tag>>}
       IN  Takes([id |-> i, node |-> NoNode, keys |-> tags, entry |-> 0, at |-> "index"])
    /\ UNCHANGED <<node, next, tagged>>

\* A thread writes its node, over whatever others have written since it was read.
WriteNode(w) ==
    /\ w.at = "node" /\ node' = [node EXCEPT ![w.id] = w.node]
    /\ hand' = (hand \ {w}) \cup (IF w.node = NoNode \/ w.keys = {} THEN {} ELSE {[w EXCEPT !.at = "index"]})
    /\ UNCHANGED <<next, tagged>>

\* A thread writes the index; a failure leaves it as it was.
WriteIndex(w) ==
    /\ w.at = "index"
    /\ tagged' \in {tagged, [k \in Volumes \X Tags |-> IF k \in w.keys THEN w.entry ELSE tagged[k]]}
    /\ hand' = (hand \ {w}) \cup (IF w.node = NoNode THEN {[w EXCEPT !.at = "node"]} ELSE {})
    /\ UNCHANGED <<node, next>>

TreeNext ==
    \/ \E v \in Volumes : CreateVolume(v)
    \/ \E i \in Ids, v \in Volumes : BranchNode(i, v) \/ CommitNode(i, v)
    \/ \E w \in hand : WriteNode(w) \/ WriteIndex(w)
    \/ \E i \in Ids, v \in Volumes, t \in Tags : TagNode(i, v, t)
    \/ \E i \in Ids : DeleteNode(i)

\* The two sled trees and the threads at work keep their types.
TreeTypeOK ==
    /\ node \in [Ids -> Node \cup {NoNode}] /\ next \in 1 .. MaxNodes + 1
    /\ tagged \in [Volumes \X Tags -> 0 .. MaxNodes]
    /\ hand \subseteq Hand
=========================================================================
