--------------------------- MODULE Compose_proofs ---------------------------
(***************************************************************************)
(* Proofs about Compose: the depth-first search of start_order orders      *)
(* every file that has an order and refuses only files that have none, and *)
(* the commands built on it keep the promise of StackOrder.                *)
(***************************************************************************)
EXTENDS Compose, SequenceTheorems, FiniteSetTheorems, TLAPS

(* What the search knows of the calls that are active: they are the        *)
(* services being visited, each once.                                      *)
FramesOK ==
    /\ visiting = {frames[i].name : i \in DOMAIN frames}
    /\ \A i, j \in DOMAIN frames : frames[i].name = frames[j].name => i = j

(* order lists the visited services, each once and after its dependencies. *)
VisitedOK ==
    /\ visited = {order[i] : i \in DOMAIN order}
    /\ visited \cap visiting = {}
    /\ \A i, j \in DOMAIN order : order[i] = order[j] => i = j
    /\ \A i \in DOMAIN order : \A d \in DepsOf(order[i]) :
          \E j \in 1 .. i - 1 : order[j] = d

(* A call is past a dependency only when that is visited, or is the call   *)
(* it is waiting for.                                                      *)
ProgressOK ==
    \A i \in DOMAIN frames : \A k \in 1 .. frames[i].next - 1 :
        k \in DOMAIN deps[frames[i].name] =>
            \/ deps[frames[i].name][k] \in visited
            \/ /\ i < Len(frames)
               /\ deps[frames[i].name][k] = frames[i + 1].name

(* Every numbering along depends_on falls from a call to the calls inside. *)
RanksOK ==
    \A r \in Rankings : \A i, j \in DOMAIN frames :
        i < j => r[frames[j].name] < r[frames[i].name]

KeysOK ==
    /\ \A s \in Services : s < key /\ result = "running" => s \in visited \cup visiting
    /\ result = "ok" => frames = <<>> /\ visited = Services

OrderInv ==
    /\ OrderTypeOK
    /\ FramesOK
    /\ VisitedOK
    /\ ProgressOK
    /\ RanksOK
    /\ KeysOK
    /\ RefusedHasNoOrder

LEMMA OrderInitInv == OrderInit => OrderInv
  <1> SUFFICES ASSUME OrderInit PROVE OrderInv
    OBVIOUS
  <1>1. OrderTypeOK
    BY DEF OrderInit, OrderTypeOK
  <1>2. FramesOK /\ VisitedOK /\ ProgressOK /\ RanksOK
    BY DEF OrderInit, FramesOK, VisitedOK, ProgressOK, RanksOK
  <1>3. KeysOK
    BY DEF OrderInit, KeysOK, Services
  <1>4. RefusedHasNoOrder
    BY DEF OrderInit, RefusedHasNoOrder
  <1> QED BY <1>1, <1>2, <1>3, <1>4 DEF OrderInv

LEMMA DepsType ==
  ASSUME OrderTypeOK
  PROVE  \A s \in Services : deps[s] \in Seq(Names)
  BY FilesAssumption DEF OrderTypeOK

LEMMA SameRankings ==
  ASSUME UNCHANGED deps
  PROVE  /\ Rankings' = Rankings
         /\ \A s : DepsOf(s)' = DepsOf(s)
  BY DEF Rankings, DepsOf

(* A step of Visit that enters a service. *)
LEMMA EnterKey ==
  ASSUME OrderInv, VisitKey, key \notin visited, key \notin visiting
  PROVE  OrderInv'
  <1> USE DEF VisitKey, Visit, OrderInv
  <1>1. /\ frames' = <<Frame(key)>>
        /\ visiting = {}
        /\ visiting' = {key}
        /\ key' = key + 1
        /\ key \in Services
        /\ UNCHANGED <<deps, visited, order, result>>
    BY DEF FramesOK, OrderTypeOK
  <1> USE DEF Frame
  <1>2. OrderTypeOK'
    BY <1>1 DEF OrderTypeOK, Services
  <1>3. FramesOK'
    BY <1>1 DEF FramesOK
  <1>4. VisitedOK'
    BY <1>1, SameRankings DEF VisitedOK
  <1>5. ProgressOK'
    BY <1>1 DEF ProgressOK
  <1>6. RanksOK'
    BY <1>1 DEF RanksOK
  <1>7. KeysOK'
    BY <1>1 DEF KeysOK, Services, OrderTypeOK
  <1>8. RefusedHasNoOrder'
    BY <1>1 DEF RefusedHasNoOrder
  <1> QED BY <1>2, <1>3, <1>4, <1>5, <1>6, <1>7, <1>8

LEMMA SkipKey ==
  ASSUME OrderInv, VisitKey, key \in visited
  PROVE  OrderInv'
  <1> USE DEF VisitKey, Visit, OrderInv
  <1>1. /\ key' = key + 1
        /\ key \in visited
        /\ UNCHANGED <<deps, frames, visiting, visited, order, result>>
    OBVIOUS
  <1>2. OrderTypeOK'
    BY <1>1 DEF OrderTypeOK, Services
  <1>3. FramesOK' /\ ProgressOK'
    BY <1>1 DEF FramesOK, ProgressOK
  <1>4. VisitedOK' /\ RanksOK' /\ RefusedHasNoOrder'
    BY <1>1, SameRankings DEF VisitedOK, RanksOK, RefusedHasNoOrder
  <1>7. KeysOK'
    BY <1>1 DEF KeysOK, Services, OrderTypeOK
  <1> QED BY <1>2, <1>3, <1>4, <1>7

-----------------------------------------------------------------------------
LEMMA FrameType ==
  ASSUME OrderTypeOK, NEW i \in DOMAIN frames
  PROVE  /\ frames[i] \in [name : Services, next : Nat \ {0}]
         /\ frames[i].name \in Services
         /\ frames[i].next \in Nat \ {0}
  <1>1. frames \in Seq([name : Services, next : Nat \ {0}])
    BY DEF OrderTypeOK
  <1>2. frames[i] \in [name : Services, next : Nat \ {0}]
    <2>1. i \in 1 .. Len(frames)
      BY <1>1
    <2> QED BY <1>1, <2>1, ElementOfSeq
  <1> QED BY <1>2

(* The innermost call and the dependency it looks at. *)
LEMMA TopFacts ==
  ASSUME OrderInv, frames # <<>>
  PROVE  /\ Len(frames) \in DOMAIN frames
         /\ Len(frames) \in Nat \ {0}
         /\ DOMAIN frames = 1 .. Len(frames)
         /\ Top.name \in Services
         /\ Top.next \in Nat \ {0}
         /\ Top = [name |-> Top.name, next |-> Top.next]
         /\ deps[Top.name] \in Seq(Names)
         /\ Top.next <= Len(deps[Top.name]) =>
               /\ Top.next \in DOMAIN deps[Top.name]
               /\ TopDep \in DepsOf(Top.name)
  <1>1. frames \in Seq([name : Services, next : Nat \ {0}])
    BY DEF OrderInv, OrderTypeOK
  <1>2. /\ Len(frames) \in Nat \ {0}
        /\ DOMAIN frames = 1 .. Len(frames)
    BY <1>1
  <1>3. Top \in [name : Services, next : Nat \ {0}]
    <2>1. Len(frames) \in DOMAIN frames
      BY <1>2
    <2> QED BY <2>1, FrameType DEF Top, OrderInv
  <1>4. deps[Top.name] \in Seq(Names)
    BY <1>3, DepsType DEF OrderInv
  <1>5. ASSUME Top.next <= Len(deps[Top.name])
        PROVE  Top.next \in DOMAIN deps[Top.name]
    BY <1>3, <1>4, <1>5
  <1> QED BY <1>2, <1>3, <1>4, <1>5 DEF TopDep, DepsOf

(* A numbering along depends_on is higher at every active call than at a   *)
(* dependency of the innermost one.                                        *)
LEMMA TopDepIsLower ==
  ASSUME OrderInv, frames # <<>>, Top.next <= Len(deps[Top.name]),
         TopDep \in Services, NEW r \in Rankings, NEW i \in DOMAIN frames
  PROVE  r[TopDep] < r[frames[i].name]
  <1>1. r \in [Services -> Services] /\ r[TopDep] < r[Top.name]
    BY TopFacts DEF Rankings
  <1>2. frames[i].name \in Services
    BY FrameType DEF OrderInv
  <1>3. r[Top.name] <= r[frames[i].name]
    <2>1. CASE i = Len(frames)
      BY <2>1, <1>1, <1>2 DEF Top, Services
    <2>2. CASE i # Len(frames)
      <3>1. i < Len(frames) /\ Len(frames) \in DOMAIN frames
        BY <2>2, TopFacts
      <3>2. r[Top.name] < r[frames[i].name]
        BY <3>1 DEF OrderInv, RanksOK, Top
      <3> QED BY <3>2, <1>1, <1>2, TopFacts DEF Services
    <2> QED BY <2>1, <2>2
  <1> QED BY <1>1, <1>2, <1>3, TopFacts DEF Services

LEMMA AdvancedFacts ==
  ASSUME OrderInv, frames # <<>>
  PROVE  /\ Advanced \in Seq([name : Services, next : Nat \ {0}])
         /\ Len(Advanced) = Len(frames)
         /\ DOMAIN Advanced = DOMAIN frames
         /\ \A i \in DOMAIN frames : Advanced[i].name = frames[i].name
         /\ \A i \in DOMAIN frames : i # Len(frames) =>
               Advanced[i].next = frames[i].next
         /\ Advanced[Len(frames)].next = Top.next + 1
  <1>1. frames \in Seq([name : Services, next : Nat \ {0}])
    BY DEF OrderInv, OrderTypeOK
  <1>2. [name |-> Top.name, next |-> Top.next + 1]
            \in [name : Services, next : Nat \ {0}]
    BY TopFacts
  <1>3. /\ Advanced \in Seq([name : Services, next : Nat \ {0}])
        /\ Len(Advanced) = Len(frames)
        /\ DOMAIN Advanced = DOMAIN frames
    BY <1>1, <1>2 DEF Advanced
  <1> QED BY <1>1, <1>3, TopFacts DEF Advanced, Top

LEMMA SkipDep ==
  ASSUME OrderInv, VisitDep, TopDep \in Services, TopDep \in visited
  PROVE  OrderInv'
  <1>1. /\ frames # <<>>
        /\ Top.next <= Len(deps[Top.name])
        /\ frames' = Advanced
        /\ result = "running"
        /\ UNCHANGED <<deps, key, visiting, visited, order, result>>
    BY DEF VisitDep, Visit
  <1>2. OrderTypeOK'
    BY <1>1, AdvancedFacts DEF OrderTypeOK, OrderInv
  <1>3. FramesOK'
    BY <1>1, AdvancedFacts DEF FramesOK, OrderInv
  <1>4. VisitedOK' /\ RefusedHasNoOrder'
    BY <1>1, SameRankings DEF VisitedOK, RefusedHasNoOrder, OrderInv
  <1>5. RanksOK'
    BY <1>1, AdvancedFacts, SameRankings DEF RanksOK, OrderInv
  <1>6. ProgressOK'
    <2> SUFFICES ASSUME NEW i \in DOMAIN Advanced,
                        NEW k \in 1 .. Advanced[i].next - 1,
                        k \in DOMAIN deps[Advanced[i].name]
                 PROVE  \/ deps[Advanced[i].name][k] \in visited
                        \/ /\ i < Len(Advanced)
                           /\ deps[Advanced[i].name][k] = Advanced[i + 1].name
      BY <1>1 DEF ProgressOK
    <2>1. CASE i # Len(frames)
      <3>1. i \in DOMAIN frames /\ i + 1 \in DOMAIN frames
        BY <2>1, <1>1, AdvancedFacts, TopFacts
      <3> QED BY <3>1, <2>1, <1>1, AdvancedFacts DEF ProgressOK, OrderInv
    <2>2. CASE i = Len(frames)
      <3>1. k \in 1 .. Top.next
        BY <2>2, <1>1, AdvancedFacts, TopFacts
      <3>2. CASE k = Top.next
        BY <3>2, <2>2, <1>1, AdvancedFacts, TopFacts DEF TopDep, Top
      <3>3. CASE k # Top.next
        <4>1. k \in 1 .. frames[i].next - 1
          BY <3>1, <3>3, <2>2, <1>1, TopFacts DEF Top
        <4> QED BY <4>1, <2>2, <1>1, AdvancedFacts, TopFacts
                DEF ProgressOK, OrderInv
      <3> QED BY <3>2, <3>3
    <2> QED BY <2>1, <2>2
  <1>7. KeysOK'
    BY <1>1 DEF KeysOK, OrderInv
  <1> QED BY <1>2, <1>3, <1>4, <1>5, <1>6, <1>7 DEF OrderInv

LEMMA EnterDep ==
  ASSUME OrderInv, VisitDep, TopDep \in Services, TopDep \notin visited,
         TopDep \notin visiting
  PROVE  OrderInv'
  <1> DEFINE n == Len(frames)
             new == Append(Advanced, Frame(TopDep))
  <1>1. /\ frames # <<>>
        /\ Top.next <= Len(deps[Top.name])
        /\ frames' = new
        /\ visiting' = visiting \cup {TopDep}
        /\ result = "running"
        /\ UNCHANGED <<deps, key, visited, order, result>>
    BY DEF VisitDep, Visit
  <1>2. /\ n \in Nat \ {0}
        /\ new \in Seq([name : Services, next : Nat \ {0}])
        /\ Len(new) = n + 1
        /\ DOMAIN new = 1 .. n + 1
        /\ DOMAIN frames = 1 .. n
        /\ new[n + 1] = Frame(TopDep)
        /\ \A i \in 1 .. n : new[i].name = frames[i].name
        /\ \A i \in 1 .. n - 1 : new[i].next = frames[i].next
        /\ new[n].next = Top.next + 1
    <2>1. Frame(TopDep) \in [name : Services, next : Nat \ {0}]
      BY DEF Frame
    <2> QED BY <2>1, <1>1, AdvancedFacts, TopFacts
  <1> HIDE DEF new, n
  <1>3. OrderTypeOK'
    BY <1>1, <1>2 DEF OrderTypeOK, OrderInv
  <1>4. FramesOK'
    <2>1. \A i \in 1 .. n : new[i].name # TopDep
      BY <1>2 DEF FramesOK, OrderInv
    <2>2. new[n + 1].name = TopDep
      BY <1>2 DEF Frame
    <2>3. visiting \cup {TopDep} = {new[i].name : i \in 1 .. n + 1}
      <3>1. visiting = {frames[i].name : i \in 1 .. n}
        BY <1>2 DEF FramesOK, OrderInv
      <3>2. 1 .. n + 1 = (1 .. n) \cup {n + 1}
        BY <1>2
      <3>3. {new[i].name : i \in 1 .. n + 1}
                = {new[i].name : i \in 1 .. n} \cup {new[n + 1].name}
        BY <3>2
      <3>4. {new[i].name : i \in 1 .. n} = {frames[i].name : i \in 1 .. n}
        BY <1>2
      <3> QED BY <3>1, <3>3, <3>4, <2>2
    <2>4. ASSUME NEW i \in 1 .. n + 1, NEW j \in 1 .. n + 1,
                 new[i].name = new[j].name
          PROVE  i = j
      <3>1. \A a, b \in 1 .. n : frames[a].name = frames[b].name => a = b
        BY <1>2 DEF FramesOK, OrderInv
      <3>2. CASE i \in 1 .. n /\ j \in 1 .. n
        BY <3>1, <3>2, <2>4, <1>2
      <3>3. CASE i = n + 1 \/ j = n + 1
        BY <3>3, <2>1, <2>2, <2>4, <1>2
      <3> QED BY <3>2, <3>3, <1>2
    <2>5. visiting' = {frames'[i].name : i \in DOMAIN frames'}
      BY <2>3, <1>1, <1>2
    <2>6. \A i, j \in DOMAIN frames' : frames'[i].name = frames'[j].name => i = j
      BY <2>4, <1>1, <1>2
    <2> QED BY <2>5, <2>6 DEF FramesOK
  <1>5. VisitedOK' /\ RefusedHasNoOrder'
    BY <1>1, SameRankings DEF VisitedOK, RefusedHasNoOrder, OrderInv
  <1>6. RanksOK'
    <2> SUFFICES ASSUME NEW r \in Rankings, NEW i \in 1 .. n + 1,
                        NEW j \in 1 .. n + 1, i < j
                 PROVE  r[new[j].name] < r[new[i].name]
      BY <1>1, <1>2, SameRankings DEF RanksOK
    <2>1. i \in 1 .. n
      BY <1>2
    <2>2. CASE j = n + 1
      BY <2>1, <2>2, <1>1, <1>2, TopDepIsLower DEF Frame
    <2>3. CASE j # n + 1
      <3>1. i \in DOMAIN frames /\ j \in DOMAIN frames
        BY <2>1, <2>3, <1>2
      <3>2. r[frames[j].name] < r[frames[i].name]
        BY <3>1 DEF RanksOK, OrderInv
      <3> QED BY <3>1, <3>2, <1>2
    <2> QED BY <2>2, <2>3
  <1>7. ProgressOK'
    <2> SUFFICES ASSUME NEW i \in 1 .. n + 1,
                        NEW k \in 1 .. new[i].next - 1,
                        k \in DOMAIN deps[new[i].name]
                 PROVE  \/ deps[new[i].name][k] \in visited
                        \/ /\ i < n + 1
                           /\ deps[new[i].name][k] = new[i + 1].name
      BY <1>1, <1>2 DEF ProgressOK
    <2>1. i # n + 1
      BY <1>2 DEF Frame
    <2>2. CASE i = n
      <3>1. k \in 1 .. Top.next /\ frames[n] = Top
        BY <2>2, <1>1, <1>2, TopFacts DEF Top, n
      <3>2. CASE k = Top.next
        BY <3>1, <3>2, <2>2, <1>2 DEF TopDep, Frame
      <3>3. CASE k # Top.next
        <4>1. k \in 1 .. frames[i].next - 1
          BY <3>1, <3>3, <2>2, <1>1, TopFacts
        <4> QED BY <4>1, <2>2, <1>1, <1>2 DEF ProgressOK, OrderInv, n
      <3> QED BY <3>2, <3>3
    <2>3. CASE i \in 1 .. n - 1
      <3>1. i \in 1 .. n /\ i + 1 \in 1 .. n /\ i < Len(frames)
        BY <2>3, <1>2 DEF n
      <3>2. k \in 1 .. frames[i].next - 1
        BY <2>3, <1>2
      <3>3. new[i].name = frames[i].name /\ new[i + 1].name = frames[i + 1].name
        BY <3>1, <1>2
      <3>4. \/ deps[frames[i].name][k] \in visited
            \/ deps[frames[i].name][k] = frames[i + 1].name
        BY <3>1, <3>2, <3>3, <1>2 DEF ProgressOK, OrderInv
      <3>5. i < n + 1
        BY <3>1, <1>2
      <3> QED BY <3>3, <3>4, <3>5
    <2> QED BY <2>1, <2>2, <2>3, <1>2
  <1>8. KeysOK'
    BY <1>1 DEF KeysOK, OrderInv
  <1> QED BY <1>3, <1>4, <1>5, <1>6, <1>7, <1>8 DEF OrderInv

(* A dependency that is being visited closes a cycle: no numbering is      *)
(* lower at it than at itself.                                             *)
LEMMA CycleDep ==
  ASSUME OrderInv, VisitDep, TopDep \in Services, TopDep \notin visited,
         TopDep \in visiting
  PROVE  OrderInv'
  <1>1. /\ frames # <<>>
        /\ Top.next <= Len(deps[Top.name])
        /\ result = "running"
        /\ result' = "cycle"
        /\ UNCHANGED <<deps, key, frames, visiting, visited, order>>
    BY DEF VisitDep, Visit
  <1>2. PICK i \in DOMAIN frames : frames[i].name = TopDep
    BY DEF FramesOK, OrderInv
  <1>3. Rankings = {}
    <2> SUFFICES ASSUME NEW r \in Rankings PROVE FALSE
      OBVIOUS
    <2>1. r[TopDep] < r[TopDep]
      BY <1>1, <1>2, TopDepIsLower
    <2>2. r[TopDep] \in Services
      BY DEF Rankings
    <2> QED BY <2>1, <2>2 DEF Services
  <1>4. OrderTypeOK'
    BY <1>1 DEF OrderTypeOK, OrderInv
  <1>8. KeysOK'
    BY <1>1 DEF KeysOK
  <1>7. FramesOK' /\ ProgressOK'
    BY <1>1 DEF FramesOK, ProgressOK, OrderInv
  <1>5. VisitedOK' /\ RanksOK'
    BY <1>1, SameRankings DEF VisitedOK, RanksOK, OrderInv
  <1>6. RefusedHasNoOrder'
    BY <1>1, <1>3, SameRankings DEF RefusedHasNoOrder
  <1> QED BY <1>4, <1>5, <1>6, <1>7, <1>8 DEF OrderInv

LEMMA UndefinedDep ==
  ASSUME OrderInv, VisitDep, TopDep \notin Services
  PROVE  OrderInv'
  <1>1. /\ frames # <<>>
        /\ Top.next <= Len(deps[Top.name])
        /\ result = "running"
        /\ result' = "undefined"
        /\ UNCHANGED <<deps, key, frames, visiting, visited, order>>
    BY DEF VisitDep
  <1>2. \E s \in Services : ~(DepsOf(s) \subseteq Services)
    BY <1>1, TopFacts
  <1>4. OrderTypeOK'
    BY <1>1 DEF OrderTypeOK, OrderInv
  <1>8. KeysOK'
    BY <1>1 DEF KeysOK
  <1>7. FramesOK' /\ ProgressOK'
    BY <1>1 DEF FramesOK, ProgressOK, OrderInv
  <1>5. VisitedOK' /\ RanksOK'
    BY <1>1, SameRankings DEF VisitedOK, RanksOK, OrderInv
  <1>6. RefusedHasNoOrder'
    BY <1>1, <1>2, SameRankings DEF RefusedHasNoOrder
  <1> QED BY <1>4, <1>5, <1>6, <1>7, <1>8 DEF OrderInv

LEMMA ReturnStep ==
  ASSUME OrderInv, Return
  PROVE  OrderInv'
  <1> DEFINE n == Len(frames)
             m == Len(order)
             rest == SubSeq(frames, 1, n - 1)
             new == Append(order, Top.name)
  <1>1. /\ frames # <<>>
        /\ Top.next > Len(deps[Top.name])
        /\ frames' = rest
        /\ visiting' = visiting \ {Top.name}
        /\ visited' = visited \cup {Top.name}
        /\ order' = new
        /\ result = "running"
        /\ UNCHANGED <<deps, key, result>>
    BY DEF Return
  <1>2. /\ n \in Nat \ {0}
        /\ DOMAIN frames = 1 .. n
        /\ frames[n] = Top
        /\ Top.name \in Services
        /\ deps[Top.name] \in Seq(Names)
    BY <1>1, TopFacts DEF Top
  <1>3. /\ rest \in Seq([name : Services, next : Nat \ {0}])
        /\ Len(rest) = n - 1
        /\ DOMAIN rest = 1 .. n - 1
        /\ \A i \in 1 .. n - 1 : rest[i] = frames[i]
    <2>1. frames \in Seq([name : Services, next : Nat \ {0}])
      BY DEF OrderInv, OrderTypeOK
    <2>2. \A i \in 1 .. n - 1 : frames[i] \in [name : Services, next : Nat \ {0}]
      BY <1>2, FrameType DEF OrderInv
    <2>3. /\ rest \in Seq([name : Services, next : Nat \ {0}])
          /\ Len(rest) = IF 1 <= n - 1 THEN (n - 1) - 1 + 1 ELSE 0
          /\ \A i \in 1 .. (n - 1) - 1 + 1 : rest[i] = frames[1 + i - 1]
      BY <2>2, <1>2, SubSeqProperties
    <2> QED BY <2>3, <1>2
  <1>4. /\ m \in Nat
        /\ DOMAIN order = 1 .. m
        /\ new \in Seq(Services)
        /\ Len(new) = m + 1
        /\ DOMAIN new = 1 .. m + 1
        /\ new[m + 1] = Top.name
        /\ \A i \in 1 .. m : new[i] = order[i]
    BY <1>2 DEF OrderInv, OrderTypeOK
  <1> HIDE DEF n, m, rest, new
  <1>5. Top.name \in visiting /\ Top.name \notin visited
    BY <1>2 DEF OrderInv, FramesOK, VisitedOK
  <1>6. DepsOf(Top.name) \subseteq visited
    <2> SUFFICES ASSUME NEW k \in DOMAIN deps[Top.name]
                 PROVE  deps[Top.name][k] \in visited
      BY DEF DepsOf
    <2>1. k \in 1 .. Top.next - 1
      BY <1>1, <1>2, TopFacts
    <2>2. ~(n < Len(frames))
      BY <1>2 DEF n
    <2> QED BY <2>1, <2>2, <1>2 DEF OrderInv, ProgressOK
  <1>7. OrderTypeOK'
    BY <1>1, <1>2, <1>3, <1>4 DEF OrderTypeOK, OrderInv
  <1>8. FramesOK'
    <2>1. \A a, b \in 1 .. n : frames[a].name = frames[b].name => a = b
      BY <1>2 DEF FramesOK, OrderInv
    <2>2. visiting = {frames[i].name : i \in 1 .. n}
      BY <1>2 DEF FramesOK, OrderInv
    <2>3. visiting \ {Top.name} = {rest[i].name : i \in 1 .. n - 1}
      <3>1. ASSUME NEW x \in visiting, x # Top.name
            PROVE  \E i \in 1 .. n - 1 : x = rest[i].name
        <4>1. PICK i \in 1 .. n : x = frames[i].name
          BY <2>2
        <4>2. i \in 1 .. n - 1
          BY <4>1, <3>1, <1>2
        <4> QED BY <4>1, <4>2, <1>3
      <3>2. ASSUME NEW i \in 1 .. n - 1
            PROVE  rest[i].name \in visiting /\ rest[i].name # Top.name
        <4>1. i \in 1 .. n /\ n \in 1 .. n /\ i # n
          BY <1>2
        <4> QED BY <4>1, <2>1, <2>2, <1>2, <1>3
      <3> QED BY <3>1, <3>2
    <2>4. \A i, j \in 1 .. n - 1 : rest[i].name = rest[j].name => i = j
      BY <2>1, <1>2, <1>3
    <2>5. visiting' = {frames'[i].name : i \in DOMAIN frames'}
      BY <2>3, <1>1, <1>3
    <2>6. \A i, j \in DOMAIN frames' : frames'[i].name = frames'[j].name => i = j
      BY <2>4, <1>1, <1>3
    <2> QED BY <2>5, <2>6 DEF FramesOK
  <1>9. VisitedOK'
    <2>1. visited = {order[i] : i \in 1 .. m}
      BY <1>4 DEF VisitedOK, OrderInv
    <2>2. 1 .. m + 1 = (1 .. m) \cup {m + 1}
      BY <1>4
    <2>3. {new[i] : i \in 1 .. m + 1} = {new[i] : i \in 1 .. m} \cup {new[m + 1]}
      BY <2>2
    <2>4. {new[i] : i \in 1 .. m} = {order[i] : i \in 1 .. m}
      BY <1>4
    <2>5. visited' = {order'[i] : i \in DOMAIN order'}
      BY <2>1, <2>3, <2>4, <1>1, <1>4
    <2>6. (visited \cap visiting)' = {}
      BY <1>1 DEF VisitedOK, OrderInv
    <2>7. ASSUME NEW i \in 1 .. m + 1, NEW j \in 1 .. m + 1, new[i] = new[j]
          PROVE  i = j
      <3>1. \A a, b \in 1 .. m : order[a] = order[b] => a = b
        BY <1>4 DEF VisitedOK, OrderInv
      <3>2. CASE i \in 1 .. m /\ j \in 1 .. m
        BY <3>1, <3>2, <2>7, <1>4
      <3>3. CASE i = m + 1 \/ j = m + 1
        BY <3>3, <2>1, <2>7, <1>4, <1>5
      <3> QED BY <3>2, <3>3, <1>4
    <2>8. ASSUME NEW i \in 1 .. m + 1, NEW d \in DepsOf(new[i])
          PROVE  \E j \in 1 .. i - 1 : new[j] = d
      <3>1. CASE i = m + 1
        <4>1. d \in visited
          BY <3>1, <2>8, <1>4, <1>6
        <4>2. PICK j \in 1 .. m : order[j] = d
          BY <4>1, <2>1
        <4> QED BY <4>2, <3>1, <1>4
      <3>2. CASE i \in 1 .. m
        <4>1. PICK j \in 1 .. i - 1 : order[j] = d
          BY <3>2, <2>8, <1>4 DEF VisitedOK, OrderInv
        <4>2. j \in 1 .. m
          BY <4>1, <3>2, <1>4
        <4> QED BY <4>1, <4>2, <1>4
      <3> QED BY <3>1, <3>2, <1>4
    <2>9. \A i, j \in DOMAIN order' : order'[i] = order'[j] => i = j
      BY <2>7, <1>1, <1>4
    <2>10. \A i \in DOMAIN order' : \A d \in DepsOf(order'[i]) :
               \E j \in 1 .. i - 1 : order'[j] = d
      BY <2>8, <1>1, <1>4
    <2>11. \A s : DepsOf(s)' = DepsOf(s)
      BY <1>1, SameRankings
    <2> QED BY <2>5, <2>6, <2>9, <2>10, <2>11 DEF VisitedOK
  <1>10. ProgressOK'
    <2> SUFFICES ASSUME NEW i \in 1 .. n - 1,
                        NEW k \in 1 .. rest[i].next - 1,
                        k \in DOMAIN deps[rest[i].name]
                 PROVE  \/ deps[rest[i].name][k] \in visited \cup {Top.name}
                        \/ /\ i < n - 1
                           /\ deps[rest[i].name][k] = rest[i + 1].name
      BY <1>1, <1>3 DEF ProgressOK
    <2>1. i \in 1 .. n /\ rest[i] = frames[i]
      BY <1>2, <1>3
    <2>2. \/ deps[frames[i].name][k] \in visited
          \/ deps[frames[i].name][k] = frames[i + 1].name
      BY <2>1, <1>2 DEF ProgressOK, OrderInv
    <2>3. CASE i = n - 1
      BY <2>1, <2>2, <2>3, <1>2
    <2>4. CASE i # n - 1
      <3>1. i + 1 \in 1 .. n - 1 /\ i < n - 1
        BY <2>4, <1>2
      <3> QED BY <3>1, <2>1, <2>2, <1>3
    <2> QED BY <2>3, <2>4
  <1>11. RanksOK'
    <2> SUFFICES ASSUME NEW r \in Rankings, NEW i \in 1 .. n - 1,
                        NEW j \in 1 .. n - 1, i < j
                 PROVE  r[rest[j].name] < r[rest[i].name]
      BY <1>1, <1>3, SameRankings DEF RanksOK
    <2>1. i \in DOMAIN frames /\ j \in DOMAIN frames
      BY <1>2
    <2> QED BY <2>1, <1>3 DEF RanksOK, OrderInv
  <1>12. KeysOK'
    BY <1>1, <1>5 DEF KeysOK, OrderInv
  <1>13. RefusedHasNoOrder'
    BY <1>1 DEF RefusedHasNoOrder
  <1> QED BY <1>7, <1>8, <1>9, <1>10, <1>11, <1>12, <1>13 DEF OrderInv

LEMMA FinishStep ==
  ASSUME OrderInv, Finish
  PROVE  OrderInv'
  <1>1. /\ frames = <<>>
        /\ key \notin Services
        /\ result = "running"
        /\ result' = "ok"
        /\ UNCHANGED <<deps, key, frames, visiting, visited, order>>
    BY DEF Finish
  <1>2. visited = Services
    <2>1. visiting = {}
      BY <1>1 DEF FramesOK, OrderInv
    <2>2. \A s \in Services : s < key
      BY <1>1, NAssumption DEF Services, OrderInv, OrderTypeOK
    <2> QED BY <2>1, <2>2, <1>1 DEF KeysOK, OrderInv, OrderTypeOK
  <1>3. OrderTypeOK'
    BY <1>1 DEF OrderTypeOK, OrderInv
  <1>4. FramesOK' /\ ProgressOK'
    BY <1>1 DEF FramesOK, ProgressOK, OrderInv
  <1>5. VisitedOK' /\ RanksOK'
    BY <1>1, SameRankings DEF VisitedOK, RanksOK, OrderInv
  <1>6. KeysOK' /\ RefusedHasNoOrder'
    BY <1>1, <1>2 DEF KeysOK, RefusedHasNoOrder
  <1> QED BY <1>3, <1>4, <1>5, <1>6 DEF OrderInv

LEMMA ResolveStep ==
  ASSUME OrderInv, Resolve
  PROVE  OrderInv'
  <1>1. CASE VisitKey
    <2>1. key \in visited \/ key \notin visiting
      BY <1>1 DEF VisitKey, OrderInv, FramesOK
    <2> QED BY <2>1, <1>1, EnterKey, SkipKey
  <1>2. CASE VisitDep
    BY <1>2, SkipDep, EnterDep, CycleDep, UndefinedDep
  <1> QED BY <1>1, <1>2, ReturnStep, FinishStep DEF Resolve

LEMMA OrderKept ==
  ASSUME OrderInv, UNCHANGED orderVars
  PROVE  OrderInv'
  <1>1. UNCHANGED <<deps, key, frames, visiting, visited, order, result>>
    BY DEF orderVars
  <1>2. OrderTypeOK' /\ FramesOK'
    BY <1>1 DEF OrderTypeOK, FramesOK, OrderInv
  <1>3. ProgressOK' /\ KeysOK'
    BY <1>1 DEF ProgressOK, KeysOK, OrderInv
  <1>4. VisitedOK' /\ RanksOK' /\ RefusedHasNoOrder'
    BY <1>1, SameRankings DEF VisitedOK, RanksOK, RefusedHasNoOrder, OrderInv
  <1> QED BY <1>2, <1>3, <1>4 DEF OrderInv

LEMMA OrderInvImplies == OrderInv => OrderRespectsDeps
  BY DEF OrderInv, OrderRespectsDeps, VisitedOK, KeysOK

-----------------------------------------------------------------------------
(* The commands.  What is left of an up is the end of the order; what is   *)
(* left of a down has every service before those it depends on.            *)
UpRest(c) ==
    /\ pc[c] = "listing" => result = "ok"
    /\ pc[c] = "up" =>
        /\ result = "ok"
        /\ Len(todo[c]) <= Len(order)
        /\ \A i \in DOMAIN todo[c] :
              todo[c][i] = order[Len(order) - Len(todo[c]) + i]

DownRest(c) ==
    pc[c] = "down" =>
        /\ \A i, j \in DOMAIN todo[c] : todo[c][i] = todo[c][j] => i = j
        /\ \A i, j \in DOMAIN todo[c] : \A t \in Services :
              i <= j /\ todo[c][i] \in DepsOf(t) => todo[c][j] # t

Inv ==
    /\ OrderInv
    /\ TypeOK
    /\ \A c \in Clients : UpRest(c) /\ DownRest(c)

LEMMA ServicesAreNames == Services \subseteq Names
  BY NAssumption DEF Services, Names

LEMMA InitInv == Init => Inv
  <1> SUFFICES ASSUME Init PROVE Inv
    OBVIOUS
  <1>1. OrderInv
    BY OrderInitInv DEF Init
  <1>2. vms \in [Ids -> Names \cup {NoService}] /\ made \in 0 .. MaxVms
    BY NAssumption, MaxVmsAssumption DEF Init, Ids, Names, NoService
  <1>3. /\ known \in [Clients -> [Names -> Ids \cup {NoVm}]]
        /\ goal \in [Clients -> Names \X Nat]
    BY NAssumption DEF Init, None, NoGoal, Names
  <1>4. TypeOK
    BY <1>1, <1>2, <1>3 DEF Init, TypeOK, OrderInv
  <1>5. \A c \in Clients : UpRest(c) /\ DownRest(c)
    BY DEF Init, UpRest, DownRest
  <1> QED BY <1>1, <1>4, <1>5 DEF Inv

LEMMA FiniteParts ==
  /\ \A S \in SUBSET Names : IsFiniteSet(S) /\ Cardinality(S) \in Nat
  /\ \A S \in SUBSET Ids : IsFiniteSet(S) /\ Cardinality(S) \in Nat
  <1>1. IsFiniteSet(Names) /\ IsFiniteSet(Ids)
    BY NAssumption, MaxVmsAssumption, FS_Interval DEF Names, Ids
  <1> QED BY <1>1, FS_Subset, FS_CardinalityType

(* The order, once there is one. *)
LEMMA OrderFacts ==
  ASSUME OrderInv, result = "ok"
  PROVE  /\ order \in Seq(Services)
         /\ order \in Seq(Names)
         /\ Len(order) \in Nat
         /\ DOMAIN order = 1 .. Len(order)
         /\ ToSet(order) = Services
         /\ \A i, j \in DOMAIN order : order[i] = order[j] => i = j
         /\ \A i \in DOMAIN order : \A d \in DepsOf(order[i]) :
               \E j \in 1 .. i - 1 : order[j] = d
  <1>1. order \in Seq(Services) /\ Len(order) \in Nat
    BY DEF OrderInv, OrderTypeOK
  <1>2. order \in Seq(Names)
    BY <1>1, ServicesAreNames
  <1>3. ToSet(order) = Services
    BY DEF OrderInv, VisitedOK, KeysOK, ToSet
  <1> QED BY <1>1, <1>2, <1>3 DEF OrderInv, VisitedOK

LEMMA StopOrdersType ==
  ASSUME NEW k, NEW s \in Seq(Names), NEW q \in StopOrders(k, s)
  PROVE  /\ q \in Seq(Names)
         /\ Len(q) >= Len(s)
         /\ \A i \in 1 .. Len(s) : q[i] = s[Len(s) - i + 1]
         /\ \A i \in DOMAIN q : i > Len(s) => q[i] \in Names \ ToSet(s)
         /\ \A i, j \in DOMAIN q :
               i > Len(s) /\ j > Len(s) /\ q[i] = q[j] => i = j
  <1> DEFINE S == {x \in Names \ ToSet(s) : k[x] # NoVm}
  <1>1. PICK rest \in SetToSeqs(S) : q = Reverse(s) \o rest
    BY DEF StopOrders
  <1>2. Cardinality(S) \in Nat
    BY FiniteParts
  <1> DEFINE n == Cardinality(S)
  <1>3. /\ rest \in [1 .. n -> S]
        /\ \A i, j \in 1 .. n : i # j => rest[i] # rest[j]
    BY <1>1 DEF SetToSeqs
  <1> HIDE DEF n, S
  <1>4. rest \in Seq(S) /\ Len(rest) = n
    BY <1>2, <1>3 DEF n
  <1>5. S \subseteq Names \ ToSet(s)
    BY DEF S
  <1>6. rest \in Seq(Names)
    BY <1>4, <1>5
  <1>7. /\ Len(s) \in Nat
        /\ Reverse(s) \in Seq(Names)
        /\ Len(Reverse(s)) = Len(s)
        /\ \A i \in 1 .. Len(s) : Reverse(s)[i] = s[Len(s) - i + 1]
    <2>1. Len(s) \in Nat /\ \A i \in 1 .. Len(s) : s[Len(s) - i + 1] \in Names
      <3>1. Len(s) \in Nat /\ \A i \in 1 .. Len(s) : Len(s) - i + 1 \in 1 .. Len(s)
        OBVIOUS
      <3> QED BY <3>1, ElementOfSeq
    <2>2. Reverse(s) \in [1 .. Len(s) -> Names]
      BY <2>1 DEF Reverse
    <2> QED BY <2>1, <2>2 DEF Reverse
  <1>8. /\ q \in Seq(Names)
        /\ Len(q) = Len(s) + n
        /\ DOMAIN q = 1 .. Len(s) + n
        /\ \A i \in 1 .. Len(s) + n :
              q[i] = IF i <= Len(s) THEN Reverse(s)[i] ELSE rest[i - Len(s)]
    <2>1. /\ Reverse(s) \o rest \in Seq(Names)
          /\ Len(Reverse(s) \o rest) = Len(Reverse(s)) + Len(rest)
          /\ \A i \in 1 .. Len(Reverse(s)) + Len(rest) :
                (Reverse(s) \o rest)[i] =
                   IF i <= Len(Reverse(s)) THEN Reverse(s)[i]
                                           ELSE rest[i - Len(Reverse(s))]
      BY <1>6, <1>7, ConcatProperties
    <2> QED BY <2>1, <1>1, <1>4, <1>7
  <1>9. \A i \in 1 .. Len(s) : q[i] = s[Len(s) - i + 1]
    BY <1>7, <1>8, <1>2 DEF n
  <1>10. ASSUME NEW i \in DOMAIN q, i > Len(s)
         PROVE  i - Len(s) \in 1 .. n /\ q[i] = rest[i - Len(s)]
    BY <1>10, <1>7, <1>8, <1>2 DEF n
  <1>11. \A i \in DOMAIN q : i > Len(s) => q[i] \in Names \ ToSet(s)
    BY <1>10, <1>3, <1>5
  <1>12. ASSUME NEW i \in DOMAIN q, NEW j \in DOMAIN q,
                i > Len(s), j > Len(s), q[i] = q[j]
         PROVE  i = j
    <2>1. i - Len(s) = j - Len(s)
      BY <1>12, <1>10, <1>3
    <2> QED BY <2>1, <1>7, <1>8, <1>2 DEF n
  <1> QED BY <1>2, <1>7, <1>8, <1>9, <1>11, <1>12 DEF n

(* Reversing the order puts every service before those it depends on. *)
LEMMA StopOrderReversed ==
  ASSUME OrderInv, result = "ok", NEW k, NEW q \in StopOrders(k, order)
  PROVE  /\ \A i, j \in DOMAIN q : q[i] = q[j] => i = j
         /\ \A i, j \in DOMAIN q : \A t \in Services :
               i <= j /\ q[i] \in DepsOf(t) => q[j] # t
         /\ Services \subseteq ToSet(q)
  <1> DEFINE m == Len(order)
  <1>1. /\ q \in Seq(Names)
        /\ Len(q) >= m
        /\ m \in Nat
        /\ DOMAIN q = 1 .. Len(q)
        /\ DOMAIN order = 1 .. m
        /\ \A i \in 1 .. m : q[i] = order[m - i + 1]
        /\ \A i \in DOMAIN q : i > m => q[i] \in Names \ Services
        /\ \A i, j \in DOMAIN q : i > m /\ j > m /\ q[i] = q[j] => i = j
    BY OrderFacts, StopOrdersType
  <1> HIDE DEF m
  <1>2. \A i \in 1 .. m : m - i + 1 \in 1 .. m /\ q[i] \in Services
    <2> SUFFICES ASSUME NEW i \in 1 .. m
                 PROVE  m - i + 1 \in 1 .. m /\ q[i] \in Services
      OBVIOUS
    <2>1. m - i + 1 \in 1 .. m
      BY <1>1
    <2> QED BY <2>1, <1>1, OrderFacts
  <1>3. ASSUME NEW i \in DOMAIN q, NEW j \in DOMAIN q, q[i] = q[j]
        PROVE  i = j
    <2>1. CASE i \in 1 .. m /\ j \in 1 .. m
      <3>1. m - i + 1 = m - j + 1
        BY <2>1, <1>1, <1>2, <1>3, OrderFacts
      <3> QED BY <3>1, <1>1
    <2>2. CASE i \notin 1 .. m /\ j \notin 1 .. m
      BY <2>2, <1>1, <1>3
    <2>3. CASE (i \in 1 .. m) # (j \in 1 .. m)
      BY <2>3, <1>1, <1>2, <1>3
    <2> QED BY <2>1, <2>2, <2>3
  <1>4. ASSUME NEW i \in DOMAIN q, NEW j \in DOMAIN q, NEW t \in Services,
               i <= j, q[i] \in DepsOf(t), q[j] = t
        PROVE  FALSE
    <2>1. j \in 1 .. m /\ i \in 1 .. m
      BY <1>1, <1>4
    <2>2. PICK h \in 1 .. (m - j + 1) - 1 : order[h] = q[i]
      BY <2>1, <1>1, <1>2, <1>4, OrderFacts
    <2>3. h \in 1 .. m /\ m - i + 1 \in 1 .. m /\ order[h] = order[m - i + 1]
      BY <2>1, <2>2, <1>1, <1>2
    <2>4. h = m - i + 1
      BY <2>3, <1>1, OrderFacts
    <2> QED BY <2>1, <2>2, <2>4, <1>1, <1>4
  <1>5. ASSUME NEW x \in Services
        PROVE  x \in ToSet(q)
    <2>1. PICK i \in 1 .. m : order[i] = x
      BY OrderFacts, <1>1 DEF ToSet
    <2>2. m - i + 1 \in 1 .. m /\ q[m - i + 1] = x
      BY <2>1, <1>1
    <2> QED BY <2>2, <1>1 DEF ToSet
  <1> QED BY <1>3, <1>4, <1>5

-----------------------------------------------------------------------------
(* A step of one client leaves the plans of the others as they are. *)
LEMMA OthersKept ==
  ASSUME Inv, NEW c \in Clients, UNCHANGED orderVars,
         NEW p, NEW q,
         pc' = [pc EXCEPT ![c] = p], todo' = [todo EXCEPT ![c] = q],
         (UpRest(c) /\ DownRest(c))'
  PROVE  \A d \in Clients : (UpRest(d) /\ DownRest(d))'
  <1>1. /\ UNCHANGED <<order, result>>
        /\ \A s : DepsOf(s)' = DepsOf(s)
    BY SameRankings DEF orderVars
  <1>2. ASSUME NEW d \in Clients, d # c
        PROVE  (UpRest(d) /\ DownRest(d))'
    <2>1. pc'[d] = pc[d] /\ todo'[d] = todo[d]
      BY <1>2 DEF Inv, TypeOK
    <2>2. UpRest(d) /\ DownRest(d)
      BY DEF Inv
    <2> QED BY <2>1, <2>2, <1>1 DEF UpRest, DownRest
  <1> QED BY <1>2

LEMMA TailFacts ==
  ASSUME NEW S, NEW q \in Seq(S), q # <<>>
  PROVE  /\ Tail(q) \in Seq(S)
         /\ Head(q) \in S
         /\ Head(q) = q[1]
         /\ 1 \in DOMAIN q
         /\ Len(q) \in Nat \ {0}
         /\ Len(Tail(q)) = Len(q) - 1
         /\ \A i \in DOMAIN Tail(q) : i + 1 \in DOMAIN q /\ Tail(q)[i] = q[i + 1]
  OBVIOUS

(* The rest of a plan is a plan. *)
LEMMA RestTail ==
  ASSUME Inv, NEW c \in Clients, todo[c] # <<>>, UNCHANGED orderVars,
         UNCHANGED pc, todo' = [todo EXCEPT ![c] = Tail(todo[c])]
  PROVE  /\ todo' \in [Clients -> Seq(Names)]
         /\ \A d \in Clients : (UpRest(d) /\ DownRest(d))'
  <1>1. /\ todo[c] \in Seq(Names)
        /\ todo'[c] = Tail(todo[c])
        /\ pc' = [pc EXCEPT ![c] = pc[c]]
        /\ pc'[c] = pc[c]
    BY DEF Inv, TypeOK
  <1>2. /\ UNCHANGED <<order, result>>
        /\ \A s : DepsOf(s)' = DepsOf(s)
    BY SameRankings DEF orderVars
  <1>3. UpRest(c)'
    <2> SUFFICES ASSUME pc[c] = "up"
                 PROVE  /\ result = "ok"
                        /\ Len(Tail(todo[c])) <= Len(order)
                        /\ \A i \in DOMAIN Tail(todo[c]) : Tail(todo[c])[i] =
                               order[Len(order) - Len(Tail(todo[c])) + i]
      BY <1>1, <1>2 DEF UpRest, Inv
    <2>1. UpRest(c) /\ Len(order) \in Nat
      BY DEF Inv, OrderInv, OrderTypeOK
    <2>2. ASSUME NEW i \in DOMAIN Tail(todo[c])
          PROVE  Tail(todo[c])[i] = order[Len(order) - Len(Tail(todo[c])) + i]
      <3>1. /\ i + 1 \in DOMAIN todo[c]
            /\ Tail(todo[c])[i] = todo[c][i + 1]
            /\ i \in Nat
        BY <1>1, TailFacts
      <3>2. Len(order) - Len(Tail(todo[c])) + i = Len(order) - Len(todo[c]) + (i + 1)
        <4>1. Len(Tail(todo[c])) = Len(todo[c]) - 1 /\ Len(todo[c]) \in Nat
          BY <1>1, TailFacts
        <4>2. \A a, b, x \in Int : a - (b - 1) + x = a - b + (x + 1)
          OBVIOUS
        <4>3. Len(order) \in Int /\ Len(todo[c]) \in Int /\ i \in Int
          BY <4>1, <2>1, <3>1
        <4>4. Len(order) - (Len(todo[c]) - 1) + i = Len(order) - Len(todo[c]) + (i + 1)
          BY <4>2, <4>3
        <4> QED BY <4>1, <4>4, Zenon
      <3>3. todo[c][i + 1] = order[Len(order) - Len(todo[c]) + (i + 1)]
        BY <3>1, <2>1 DEF UpRest
      <3> QED BY <3>1, <3>2, <3>3
    <2> QED BY <2>1, <2>2, <1>1, TailFacts DEF UpRest
  <1>4. DownRest(c)'
    <2> SUFFICES ASSUME pc'[c] = "down"
                 PROVE  DownRest(c)'
      BY DEF DownRest
    <2>0. pc[c] = "down"
      BY <1>1
    <2>1. DownRest(c)
      BY DEF Inv
    <2>2. \A i \in DOMAIN Tail(todo[c]) :
              /\ i \in Nat
              /\ i + 1 \in DOMAIN todo[c]
              /\ Tail(todo[c])[i] = todo[c][i + 1]
      BY <1>1, TailFacts
    <2>3. \A i, j \in DOMAIN Tail(todo[c]) :
              Tail(todo[c])[i] = Tail(todo[c])[j] => i = j
      BY <2>0, <2>1, <2>2 DEF DownRest
    <2>4. ASSUME NEW i \in DOMAIN Tail(todo[c]), NEW j \in DOMAIN Tail(todo[c]),
                 NEW t \in Services, i <= j, Tail(todo[c])[i] \in DepsOf(t)
          PROVE  Tail(todo[c])[j] # t
      <3>1. i + 1 <= j + 1
        BY <2>2, <2>4
      <3> QED BY <3>1, <2>0, <2>1, <2>2, <2>4 DEF DownRest
    <2>5. \A i, j \in DOMAIN todo'[c] : todo'[c][i] = todo'[c][j] => i = j
      BY <2>3, <1>1
    <2>6. \A i, j \in DOMAIN todo'[c] : \A t \in Services :
              i <= j /\ todo'[c][i] \in DepsOf(t)' => todo'[c][j] # t
      BY <2>4, <1>1, <1>2
    <2> QED BY <2>5, <2>6 DEF DownRest
  <1>5. \A d \in Clients : (UpRest(d) /\ DownRest(d))'
    BY <1>1, <1>3, <1>4, OthersKept
  <1>6. todo' \in [Clients -> Seq(Names)]
    BY <1>1, TailFacts DEF Inv, TypeOK
  <1> QED BY <1>5, <1>6

(* Every action keeps the types. *)
LEMMA RunType ==
  ASSUME Inv, NEW c \in Clients, NEW s \in Names, Run(c, s)
  PROVE  /\ vms' \in [Ids -> Names \cup {NoService}]
         /\ made' \in 0 .. MaxVms
         /\ clean' \in [Clients -> BOOLEAN]
  <1>1. /\ vms \in [Ids -> Names \cup {NoService}]
        /\ made \in 0 .. MaxVms
        /\ clean \in [Clients -> BOOLEAN]
    BY DEF Inv, TypeOK
  <1>2. clean' \in [Clients -> BOOLEAN]
    <2>1. CASE Changed(c)
      BY <2>1, <1>1, Zenon DEF Changed
    <2>2. CASE Failed(c)
      BY <2>2, <1>1 DEF Failed
    <2>3. CASE clean' = [d \in Clients |-> clean[d] /\ pc[d] = "idle"]
      BY <2>3, <1>1, Zenon
    <2> QED BY <2>1, <2>2, <2>3 DEF Run
  <1>3. vms' \in [Ids -> Names \cup {NoService}] /\ made' \in 0 .. MaxVms
    BY <1>1, MaxVmsAssumption DEF Run, Ids
  <1> QED BY <1>2, <1>3

LEMMA StopType ==
  ASSUME Inv, NEW c \in Clients, NEW i, Stop(c, i)
  PROVE  /\ vms' \in [Ids -> Names \cup {NoService}]
         /\ clean' \in [Clients -> BOOLEAN]
  <1>1. vms' \in [Ids -> Names \cup {NoService}]
    BY DEF Inv, TypeOK, Stop
  <1>2. clean' \in [Clients -> BOOLEAN]
    <2>1. clean \in [Clients -> BOOLEAN]
      BY DEF Inv, TypeOK
    <2>2. CASE Changed(c)
      BY <2>1, <2>2, Zenon DEF Changed
    <2>3. CASE Failed(c)
      BY <2>1, <2>3 DEF Failed
    <2> QED BY <2>2, <2>3 DEF Stop
  <1> QED BY <1>1, <1>2

LEMMA EndedType ==
  ASSUME Inv, NEW c \in Clients, Ended(c), UNCHANGED <<orderVars, stackVars>>
  PROVE  Inv'
  <1>1. /\ OrderInv'
        /\ OrderTypeOK'
    BY OrderKept DEF Inv, OrderInv
  <1>2. None \in [Names -> Ids \cup {NoVm}] /\ NoGoal \in Names \X Nat
    BY NAssumption DEF None, NoGoal, Names
  <1>3. TypeOK'
    BY <1>1, <1>2 DEF Inv, TypeOK, Ended, stackVars
  <1>4. (UpRest(c) /\ DownRest(c))'
    BY DEF Ended, UpRest, DownRest, Inv, TypeOK
  <1>5. \A d \in Clients : (UpRest(d) /\ DownRest(d))'
    BY <1>4, OthersKept DEF Ended
  <1> QED BY <1>1, <1>3, <1>5 DEF Inv

(* A step that changes neither the order nor the plans. *)
LEMMA PlansKept ==
  ASSUME Inv, UNCHANGED orderVars, UNCHANGED <<pc, todo>>
  PROVE  /\ OrderInv' /\ OrderTypeOK'
         /\ \A d \in Clients : (UpRest(d) /\ DownRest(d))'
  <1>1. OrderInv' /\ OrderTypeOK'
    BY OrderKept DEF Inv, OrderInv
  <1>2. /\ UNCHANGED <<order, result>>
        /\ \A s : DepsOf(s)' = DepsOf(s)
    BY SameRankings DEF orderVars
  <1>3. ASSUME NEW d \in Clients
        PROVE  (UpRest(d) /\ DownRest(d))'
    <2>1. UpRest(d) /\ DownRest(d)
      BY DEF Inv
    <2> QED BY <2>1, <1>2 DEF UpRest, DownRest
  <1> QED BY <1>1, <1>3

LEMMA ResolveInv ==
  ASSUME Inv, Resolve, UNCHANGED <<stackVars, clientVars>>
  PROVE  Inv'
  <1>1. OrderInv' /\ OrderTypeOK'
    BY ResolveStep DEF Inv, OrderInv
  <1>2. UNCHANGED <<pc, todo>> /\ UNCHANGED deps /\ result = "running"
    BY DEF clientVars, Resolve, VisitKey, VisitDep, Return, Finish
  <1>3. ASSUME NEW d \in Clients
        PROVE  (UpRest(d) /\ DownRest(d))'
    <2>1. UpRest(d) /\ DownRest(d) /\ \A s : DepsOf(s)' = DepsOf(s)
      BY <1>2, SameRankings DEF Inv
    <2>2. pc[d] \notin {"up", "listing"}
      BY <2>1, <1>2 DEF UpRest
    <2> QED BY <2>1, <2>2, <1>2 DEF UpRest, DownRest
  <1>4. TypeOK'
    BY <1>1 DEF Inv, TypeOK, stackVars, clientVars
  <1> QED BY <1>1, <1>3, <1>4 DEF Inv

LEMMA UpBeginInv ==
  ASSUME Inv, NEW c \in Clients, UpBegin(c)
  PROVE  Inv'
  <1>1. OrderInv' /\ OrderTypeOK'
    BY OrderKept DEF Inv, OrderInv, UpBegin
  <1>2. TypeOK'
    BY <1>1 DEF Inv, TypeOK, UpBegin
  <1>3. (UpRest(c) /\ DownRest(c))'
    BY DEF UpBegin, UpRest, DownRest, Inv, TypeOK, orderVars
  <1>4. todo' = [todo EXCEPT ![c] = todo[c]]
    BY DEF UpBegin, Inv, TypeOK
  <1>5. \A d \in Clients : (UpRest(d) /\ DownRest(d))'
    BY <1>3, <1>4, OthersKept DEF UpBegin
  <1> QED BY <1>1, <1>2, <1>5 DEF Inv

LEMMA UpListInv ==
  ASSUME Inv, NEW c \in Clients, UpList(c)
  PROVE  Inv'
  <1>0. result = "ok"
    BY DEF Inv, UpRest, UpList
  <1>1. OrderInv' /\ OrderTypeOK'
    BY OrderKept DEF Inv, OrderInv, UpList
  <1>2. known' \in [Clients -> [Names -> Ids \cup {NoVm}]]
    BY DEF UpList, Listings, Inv, TypeOK
  <1>3. clean' \in [Clients -> BOOLEAN]
    BY DEF UpList, Failed, Inv, TypeOK
  <1>4. order \in Seq(Names) /\ Len(order) \in Nat
    BY <1>0, OrderFacts DEF Inv
  <1>5. TypeOK'
    BY <1>1, <1>2, <1>3, <1>4 DEF Inv, TypeOK, UpList, stackVars
  <1>6. /\ pc'[c] = "up" /\ todo'[c] = order
        /\ UNCHANGED <<order, result>>
    BY DEF UpList, orderVars, Inv, TypeOK
  <1>7. (UpRest(c) /\ DownRest(c))'
    BY <1>0, <1>4, <1>6 DEF UpRest, DownRest
  <1>8. \A d \in Clients : (UpRest(d) /\ DownRest(d))'
    BY <1>7, OthersKept DEF UpList
  <1> QED BY <1>1, <1>5, <1>8 DEF Inv

LEMMA UpServiceInv ==
  ASSUME Inv, NEW c \in Clients, UpService(c)
  PROVE  Inv'
  <1>1. OrderInv' /\ OrderTypeOK'
    BY OrderKept DEF Inv, OrderInv, UpService
  <1>2. Head(todo[c]) \in Names
    BY TailFacts DEF Inv, TypeOK, UpService
  <1>3. /\ vms' \in [Ids -> Names \cup {NoService}]
        /\ made' \in 0 .. MaxVms
        /\ clean' \in [Clients -> BOOLEAN]
    <2>1. CASE Run(c, Head(todo[c]))
      BY <2>1, <1>2, RunType
    <2>2. CASE UNCHANGED <<vms, made, clean>>
      BY <2>2 DEF Inv, TypeOK
    <2> QED BY <2>1, <2>2 DEF UpService
  <1>4. /\ todo' \in [Clients -> Seq(Names)]
        /\ \A d \in Clients : (UpRest(d) /\ DownRest(d))'
    BY RestTail DEF UpService
  <1>5. TypeOK'
    BY <1>1, <1>3, <1>4 DEF Inv, TypeOK, UpService
  <1> QED BY <1>1, <1>4, <1>5 DEF Inv

LEMMA DownBeginInv ==
  ASSUME Inv, NEW c \in Clients, DownBegin(c)
  PROVE  Inv'
  <1>1. OrderInv' /\ OrderTypeOK'
    BY OrderKept DEF Inv, OrderInv, DownBegin
  <1>2. PICK k \in Listings :
          /\ known' = [known EXCEPT ![c] = k]
          /\ \/ /\ result = "ok"
                /\ pc' = [pc EXCEPT ![c] = "down"]
                /\ \E q \in StopOrders(k, order) : todo' = [todo EXCEPT ![c] = q]
             \/ /\ pc' = [pc EXCEPT ![c] = "downAnyhow"]
                /\ \E q \in StopOrders(k, <<>>) : todo' = [todo EXCEPT ![c] = q]
    BY DEF DownBegin
  <1>3. known' \in [Clients -> [Names -> Ids \cup {NoVm}]]
    BY <1>2 DEF Listings, Inv, TypeOK
  <1>4. UNCHANGED <<deps, order, result>> /\ \A s : DepsOf(s)' = DepsOf(s)
    BY SameRankings DEF DownBegin, orderVars
  <1>5. ASSUME NEW p \in {"down", "downAnyhow"}, NEW q \in Seq(Names),
               pc' = [pc EXCEPT ![c] = p], todo' = [todo EXCEPT ![c] = q],
               (UpRest(c) /\ DownRest(c))'
        PROVE  Inv'
    <2>1. TypeOK'
      BY <1>1, <1>3, <1>5 DEF Inv, TypeOK, DownBegin, stackVars
    <2>2. \A d \in Clients : (UpRest(d) /\ DownRest(d))'
      BY <1>5, OthersKept DEF DownBegin
    <2> QED BY <1>1, <2>1, <2>2 DEF Inv
  <1>6. CASE /\ result = "ok"
             /\ pc' = [pc EXCEPT ![c] = "down"]
             /\ \E q \in StopOrders(k, order) : todo' = [todo EXCEPT ![c] = q]
    <2>1. PICK q \in StopOrders(k, order) : todo' = [todo EXCEPT ![c] = q]
      BY <1>6
    <2>2. q \in Seq(Names)
      BY <1>6, OrderFacts, StopOrdersType DEF Inv
    <2>3. pc'[c] = "down" /\ todo'[c] = q
      BY <1>6, <2>1 DEF Inv, TypeOK
    <2>4. /\ \A i, j \in DOMAIN q : q[i] = q[j] => i = j
          /\ \A i, j \in DOMAIN q : \A t \in Services :
                i <= j /\ q[i] \in DepsOf(t) => q[j] # t
      BY <1>6, StopOrderReversed DEF Inv
    <2>5. (UpRest(c) /\ DownRest(c))'
      BY <2>3, <2>4, <1>4 DEF UpRest, DownRest
    <2> QED BY <1>6, <2>1, <2>2, <2>5, <1>5
  <1>7. CASE /\ pc' = [pc EXCEPT ![c] = "downAnyhow"]
             /\ \E q \in StopOrders(k, <<>>) : todo' = [todo EXCEPT ![c] = q]
    <2>1. PICK q \in StopOrders(k, <<>>) : todo' = [todo EXCEPT ![c] = q]
      BY <1>7
    <2>2. q \in Seq(Names)
      <3>1. <<>> \in Seq(Names)
        OBVIOUS
      <3> QED BY <3>1, StopOrdersType
    <2>3. pc'[c] = "downAnyhow"
      BY <1>7 DEF Inv, TypeOK
    <2>5. (UpRest(c) /\ DownRest(c))'
      BY <2>3 DEF UpRest, DownRest
    <2> QED BY <1>7, <2>1, <2>2, <2>5, <1>5
  <1> QED BY <1>2, <1>6, <1>7

LEMMA DownServiceInv ==
  ASSUME Inv, NEW c \in Clients, DownService(c)
  PROVE  Inv'
  <1>1. OrderInv' /\ OrderTypeOK'
    BY OrderKept DEF Inv, OrderInv, DownService
  <1>2. vms' \in [Ids -> Names \cup {NoService}] /\ clean' \in [Clients -> BOOLEAN]
    <2>1. CASE UNCHANGED <<vms, clean>>
      BY <2>1 DEF Inv, TypeOK
    <2>2. CASE Stop(c, known[c][Head(todo[c])])
      BY <2>2, StopType
    <2> QED BY <2>1, <2>2 DEF DownService
  <1>3. /\ todo' \in [Clients -> Seq(Names)]
        /\ \A d \in Clients : (UpRest(d) /\ DownRest(d))'
    BY RestTail DEF DownService
  <1>4. TypeOK'
    BY <1>1, <1>2, <1>3 DEF Inv, TypeOK, DownService
  <1> QED BY <1>1, <1>3, <1>4 DEF Inv

LEMMA ScaleBeginInv ==
  ASSUME Inv, NEW c \in Clients, ScaleBegin(c)
  PROVE  Inv'
  <1>1. OrderInv' /\ OrderTypeOK'
    BY OrderKept DEF Inv, OrderInv, ScaleBegin
  <1>2. PICK t \in Targets, listed \in BOOLEAN :
          LET running == IF listed THEN Running(t[1]) ELSE {}
              size == Cardinality(running)
          IN /\ goal' = [goal EXCEPT ![c] = t]
             /\ pool' = [pool EXCEPT ![c] = running]
             /\ clean' = [clean EXCEPT ![c] = listed]
             /\ \/ /\ t[2] > size
                   /\ pc' = [pc EXCEPT ![c] = "raise"]
                   /\ count' = [count EXCEPT ![c] = t[2] - size]
                \/ /\ t[2] <= size
                   /\ pc' = [pc EXCEPT ![c] = "lower"]
                   /\ count' = [count EXCEPT ![c] = size - t[2]]
    BY DEF ScaleBegin
  <1> DEFINE running == IF listed THEN Running(t[1]) ELSE {}
             size == Cardinality(running)
  <1>3. running \in SUBSET Ids /\ size \in Nat
    <2>1. running \in SUBSET Ids
      BY DEF Running
    <2> QED BY <2>1, FiniteParts
  <1>4. t \in Names \X Nat /\ t[2] \in Nat
    BY TargetsAssumption, ServicesAreNames
  <1> HIDE DEF running, size
  <1>5. PICK p \in {"raise", "lower"}, n \in Nat :
          pc' = [pc EXCEPT ![c] = p] /\ count' = [count EXCEPT ![c] = n]
    <2>1. CASE t[2] > size
      <3>1. t[2] - size \in Nat
        BY <2>1, <1>3, <1>4
      <3>2. /\ pc' = [pc EXCEPT ![c] = "raise"]
            /\ count' = [count EXCEPT ![c] = t[2] - size]
        BY <2>1, <1>2, <1>3, <1>4 DEF size, running
      <3> QED BY <3>1, <3>2
    <2>2. CASE t[2] <= size
      <3>1. size - t[2] \in Nat
        BY <2>2, <1>3, <1>4
      <3>2. /\ pc' = [pc EXCEPT ![c] = "lower"]
            /\ count' = [count EXCEPT ![c] = size - t[2]]
        BY <2>2, <1>2, <1>3, <1>4 DEF size, running
      <3> QED BY <3>1, <3>2
    <2> QED BY <2>1, <2>2, <1>3, <1>4
  <1>6. /\ goal' \in [Clients -> Names \X Nat]
        /\ pool' \in [Clients -> SUBSET Ids]
        /\ clean' \in [Clients -> BOOLEAN]
    BY <1>2, <1>3, <1>4 DEF Inv, TypeOK, running
  <1>7. TypeOK'
    BY <1>1, <1>5, <1>6 DEF Inv, TypeOK, ScaleBegin, stackVars
  <1>8. (UpRest(c) /\ DownRest(c))'
    BY <1>5 DEF UpRest, DownRest, Inv, TypeOK
  <1>9. todo' = [todo EXCEPT ![c] = todo[c]]
    BY DEF ScaleBegin, Inv, TypeOK
  <1>10. \A d \in Clients : (UpRest(d) /\ DownRest(d))'
    BY <1>5, <1>8, <1>9, OthersKept DEF ScaleBegin
  <1> QED BY <1>1, <1>7, <1>10 DEF Inv

LEMMA ScaleStartInv ==
  ASSUME Inv, NEW c \in Clients, ScaleStart(c)
  PROVE  Inv'
  <1>1. /\ OrderInv' /\ OrderTypeOK'
        /\ \A d \in Clients : (UpRest(d) /\ DownRest(d))'
    BY PlansKept DEF ScaleStart
  <1>2. goal[c][1] \in Names
    BY DEF Inv, TypeOK
  <1>3. /\ vms' \in [Ids -> Names \cup {NoService}]
        /\ made' \in 0 .. MaxVms
        /\ clean' \in [Clients -> BOOLEAN]
    <2>1. CASE Run(c, goal[c][1])
      BY <2>1, <1>2, RunType
    <2>2. CASE Failed(c) /\ UNCHANGED <<vms, made>>
      BY <2>2 DEF Inv, TypeOK, Failed
    <2> QED BY <2>1, <2>2 DEF ScaleStart
  <1>5. count' \in [Clients -> Nat]
    BY DEF Inv, TypeOK, ScaleStart
  <1>4. TypeOK'
    BY <1>1, <1>3, <1>5 DEF Inv, TypeOK, ScaleStart
  <1> QED BY <1>1, <1>4 DEF Inv

LEMMA ScaleStopInv ==
  ASSUME Inv, NEW c \in Clients, ScaleStop(c)
  PROVE  Inv'
  <1>1. /\ OrderInv' /\ OrderTypeOK'
        /\ \A d \in Clients : (UpRest(d) /\ DownRest(d))'
    BY PlansKept DEF ScaleStop
  <1>2. PICK i \in pool[c] : /\ pool' = [pool EXCEPT ![c] = pool[c] \ {i}]
                             /\ Stop(c, i)
    BY DEF ScaleStop
  <1>3. vms' \in [Ids -> Names \cup {NoService}] /\ clean' \in [Clients -> BOOLEAN]
    BY <1>2, StopType
  <1>5. count' \in [Clients -> Nat] /\ pool' \in [Clients -> SUBSET Ids]
    BY <1>2 DEF Inv, TypeOK, ScaleStop
  <1>4. TypeOK'
    BY <1>1, <1>3, <1>5 DEF Inv, TypeOK, ScaleStop
  <1> QED BY <1>1, <1>4 DEF Inv

LEMMA NextInv == Inv /\ [Next]_vars => Inv'
  <1> SUFFICES ASSUME Inv, [Next]_vars PROVE Inv'
    OBVIOUS
  <1>1. CASE Resolve /\ UNCHANGED <<stackVars, clientVars>>
    BY <1>1, ResolveInv
  <1>2. ASSUME NEW c \in Clients, Begin(c) \/ Step(c)
        PROVE  Inv'
    <2>1. CASE Begin(c)
      BY <2>1, UpBeginInv, DownBeginInv, ScaleBeginInv DEF Begin
    <2>2. CASE BuildFails(c) \/ CommandEnds(c)
      BY <2>2, EndedType DEF BuildFails, CommandEnds
    <2> QED BY <1>2, <2>1, <2>2, UpListInv, UpServiceInv, DownServiceInv,
               ScaleStartInv, ScaleStopInv DEF Step
  <1>3. CASE UNCHANGED vars
    <2>1. UNCHANGED <<pc, todo>> /\ UNCHANGED orderVars
      BY <1>3 DEF vars, clientVars
    <2>2. TypeOK'
      BY <1>3, <2>1, PlansKept DEF Inv, TypeOK, vars, stackVars, clientVars
    <2> QED BY <2>1, <2>2, PlansKept DEF Inv
  <1> QED BY <1>1, <1>2, <1>3 DEF Next

(* The types, for any number of clients, services and VMs and for every    *)
(* compose file.                                                           *)
THEOREM TypeCorrect == Spec => []TypeOK
  <1>1. Inv => TypeOK
    BY DEF Inv
  <1> QED BY InitInv, NextInv, <1>1, PTL DEF Spec

(* start_order answers Ok only with a complete order that puts every       *)
(* service after its dependencies.                                         *)
THEOREM StartOrderIsTopological == Spec => []OrderRespectsDeps
  <1>1. Inv => OrderRespectsDeps
    BY OrderInvImplies DEF Inv
  <1> QED BY InitInv, NextInv, <1>1, PTL DEF Spec

(* start_order refuses only files that have no order.                      *)
THEOREM RefusalIsJustified == Spec => []RefusedHasNoOrder
  <1>1. Inv => RefusedHasNoOrder
    BY DEF Inv, OrderInv
  <1> QED BY InitInv, NextInv, <1>1, PTL DEF Spec

-----------------------------------------------------------------------------
(* The refinement: every step is a step of StackOrder or leaves its state. *)
LEMMA MappedStep ==
  ASSUME Inv, NEW c \in Clients, UNCHANGED orderVars, NEW p, NEW q,
         pc' = [pc EXCEPT ![c] = p], todo' = [todo EXCEPT ![c] = q]
  PROVE  /\ [d \in Clients |-> Mode(d)]' =
               [[d \in Clients |-> Mode(d)] EXCEPT ![c] = Mode(c)']
         /\ [d \in Clients |-> Handled(d)]' =
               [[d \in Clients |-> Handled(d)] EXCEPT ![c] = Handled(c)']
         /\ [s \in Services |-> DepsOf(s)]' = [s \in Services |-> DepsOf(s)]
  <1>1. UNCHANGED order /\ \A s : DepsOf(s)' = DepsOf(s)
    BY SameRankings DEF orderVars
  <1>2. ASSUME NEW d \in Clients, d # c
        PROVE  Mode(d)' = Mode(d) /\ Handled(d)' = Handled(d)
    <2>1. pc'[d] = pc[d] /\ todo'[d] = todo[d]
      BY <1>2 DEF Inv, TypeOK
    <2> QED BY <2>1, <1>1 DEF Mode, Handled, ToSet
  <1> QED BY <1>1, <1>2

LEMMA MappedKept ==
  ASSUME Inv, NEW c \in Clients, UNCHANGED orderVars, NEW p, NEW q,
         pc' = [pc EXCEPT ![c] = p], todo' = [todo EXCEPT ![c] = q],
         Mode(c)' = Mode(c), Handled(c)' = Handled(c)
  PROVE  UNCHANGED Promise!vars
  <1>1. /\ [d \in Clients |-> Mode(d)]' = [d \in Clients |-> Mode(d)]
        /\ [d \in Clients |-> Handled(d)]' = [d \in Clients |-> Handled(d)]
    BY MappedStep
  <1> QED BY <1>1, MappedStep DEF Promise!vars

LEMMA UpHandles ==
  ASSUME Inv, NEW c \in Clients, UpService(c)
  PROVE  Promise!Next
  <1> DEFINE s == Head(todo[c])
             n == Len(order)
             k == Len(order) - Len(todo[c])
  <1>1. /\ pc[c] = "up" /\ pc'[c] = "up" /\ result = "ok"
        /\ todo[c] \in Seq(Names) /\ todo[c] # <<>>
        /\ todo'[c] = Tail(todo[c])
        /\ UpRest(c)
        /\ UNCHANGED orderVars /\ UNCHANGED order
        /\ pc' = [pc EXCEPT ![c] = pc[c]]
        /\ todo' = [todo EXCEPT ![c] = Tail(todo[c])]
    BY DEF UpService, Inv, TypeOK, UpRest, orderVars
  <1>2. /\ n \in Nat /\ Len(todo[c]) \in Nat \ {0}
        /\ Len(Tail(todo[c])) = Len(todo[c]) - 1
        /\ 1 \in DOMAIN todo[c] /\ s = todo[c][1]
        /\ DOMAIN order = 1 .. n
    BY <1>1, TailFacts, OrderFacts DEF Inv
  <1>3. Len(todo[c]) <= n /\ s = order[k + 1]
    <2>1. /\ Len(todo[c]) <= Len(order)
          /\ todo[c][1] = order[Len(order) - Len(todo[c]) + 1]
      BY <1>1, <1>2 DEF UpRest
    <2> QED BY <2>1, <1>2
  <1>4. k \in Nat /\ k + 1 \in 1 .. n /\ n - Len(Tail(todo[c])) = k + 1
    <2>1. \A a \in Nat, b \in Nat \ {0} : b <= a =>
             a - b \in Nat /\ a - b + 1 \in 1 .. a /\ a - (b - 1) = a - b + 1
      OBVIOUS
    <2>2. /\ n - Len(todo[c]) \in Nat
          /\ n - Len(todo[c]) + 1 \in 1 .. n
          /\ n - (Len(todo[c]) - 1) = n - Len(todo[c]) + 1
      BY <2>1, <1>2, <1>3, Zenon
    <2> QED BY <2>2, <1>2, Zenon
  <1> HIDE DEF s, n, k
  <1>5. Handled(c) = {order[i] : i \in 1 .. k}
    BY <1>1 DEF Handled, k
  <1>6. Handled(c)' = {order[i] : i \in 1 .. k + 1}
    <2>1. Handled(c)' = {order'[i] : i \in 1 .. Len(order') - Len(todo'[c])}
      BY <1>1 DEF Handled
    <2>2. Len(order') - Len(todo'[c]) = k + 1
      BY <1>1, <1>4 DEF n
    <2> QED BY <2>1, <2>2, <1>1
  <1>7. Handled(c)' = Handled(c) \cup {s}
    <2>1. 1 .. k + 1 = (1 .. k) \cup {k + 1}
      BY <1>4
    <2> QED BY <2>1, <1>3, <1>5, <1>6
  <1>8. s \notin Handled(c)
    <2> SUFFICES ASSUME NEW i \in 1 .. k, order[i] = order[k + 1] PROVE FALSE
      BY <1>3, <1>5
    <2>0. n \in Nat /\ k \in Nat /\ k + 1 \in 1 .. n
      BY <1>2, <1>4
    <2>1. i \in 1 .. n /\ k + 1 \in 1 .. n /\ i # k + 1
      BY <2>0
    <2> QED BY <2>1, <1>1, <1>2, OrderFacts DEF Inv
  <1>9. DepsOf(s) \subseteq Handled(c)
    <2> SUFFICES ASSUME NEW d \in DepsOf(s) PROVE d \in {order[i] : i \in 1 .. k}
      BY <1>5
    <2>1. PICK j \in 1 .. (k + 1) - 1 : order[j] = d
      BY <1>1, <1>2, <1>3, <1>4, OrderFacts DEF Inv
    <2>2. j \in 1 .. k
      BY <2>1, <1>4
    <2> QED BY <2>1, <2>2
  <1>10. s \in Services
    BY <1>1, <1>2, <1>3, <1>4, OrderFacts DEF Inv
  <1>11. Mode(c) = "up" /\ Mode(c)' = Mode(c)
    BY <1>1 DEF Mode
  <1>12. Promise!Handle(c, s)
    BY <1>1, <1>7, <1>8, <1>9, <1>10, <1>11, MappedStep DEF Promise!Handle
  <1> QED BY <1>10, <1>12 DEF Promise!Next

LEMMA DownHandles ==
  ASSUME Inv, NEW c \in Clients, DownService(c)
  PROVE  [Promise!Next]_(Promise!vars)
  <1> DEFINE s == Head(todo[c])
  <1>1. /\ pc'[c] = pc[c]
        /\ pc[c] \in {"down", "downAnyhow"}
        /\ todo[c] \in Seq(Names) /\ todo[c] # <<>>
        /\ todo'[c] = Tail(todo[c])
        /\ UNCHANGED orderVars /\ UNCHANGED order
        /\ pc' = [pc EXCEPT ![c] = pc[c]]
        /\ todo' = [todo EXCEPT ![c] = Tail(todo[c])]
        /\ DownRest(c)
    BY DEF DownService, Inv, TypeOK, orderVars
  <1>2. Mode(c)' = Mode(c)
    BY <1>1 DEF Mode
  <1>3. CASE pc[c] = "downAnyhow"
    <2>1. Handled(c)' = Handled(c)
      BY <1>1, <1>3 DEF Handled
    <2> QED BY <2>1, <1>1, <1>2, MappedKept
  <1>4. CASE pc[c] = "down"
    <2>1. /\ 1 \in DOMAIN todo[c] /\ s = todo[c][1] /\ s \in Names
          /\ Len(todo[c]) \in Nat \ {0}
          /\ Len(Tail(todo[c])) = Len(todo[c]) - 1
          /\ \A i \in DOMAIN Tail(todo[c]) :
                i + 1 \in DOMAIN todo[c] /\ Tail(todo[c])[i] = todo[c][i + 1]
      BY <1>1, TailFacts
    <2> HIDE DEF s
    <2>2. ToSet(todo[c]) = ToSet(Tail(todo[c])) \cup {s}
      <3>1. ASSUME NEW i \in DOMAIN todo[c]
            PROVE  todo[c][i] \in ToSet(Tail(todo[c])) \cup {s}
        <4>1. CASE i = 1
          BY <4>1, <2>1
        <4>2. CASE i # 1
          <5>1. /\ i - 1 \in DOMAIN Tail(todo[c])
                /\ (i - 1) + 1 = i
            <6>1. Tail(todo[c]) \in Seq(Names)
              BY <1>1, TailFacts
            <6> QED BY <6>1, <4>2, <1>1, <2>1
          <5>2. Tail(todo[c])[i - 1] = todo[c][i]
            BY <5>1, <2>1
          <5> QED BY <5>1, <5>2 DEF ToSet
        <4> QED BY <4>1, <4>2
      <3> QED BY <3>1, <2>1 DEF ToSet
    <2>3. s \notin ToSet(Tail(todo[c]))
      <3> SUFFICES ASSUME NEW i \in DOMAIN Tail(todo[c]), Tail(todo[c])[i] = s
                   PROVE  FALSE
        BY DEF ToSet
      <3>1. i + 1 = 1
        BY <1>1, <1>4, <2>1 DEF DownRest
      <3>2. i \in Nat \ {0}
        <4>1. Tail(todo[c]) \in Seq(Names)
          BY <1>1, TailFacts
        <4> QED BY <4>1
      <3> QED BY <3>1, <3>2
    <2>4. /\ Handled(c) = Services \ ToSet(todo[c])
          /\ Handled(c)' = Services \ ToSet(Tail(todo[c]))
      BY <1>1, <1>4 DEF Handled
    <2>5. CASE s \notin Services
      <3>1. Handled(c)' = Handled(c)
        BY <2>2, <2>4, <2>5
      <3> QED BY <3>1, <1>1, <1>2, MappedKept
    <2>6. CASE s \in Services
      <3>1. Handled(c)' = Handled(c) \cup {s} /\ s \notin Handled(c)
        BY <2>2, <2>3, <2>4, <2>6
      <3>2. {t \in Services : s \in DepsOf(t)} \subseteq Handled(c)
        <4> SUFFICES ASSUME NEW t \in Services, s \in DepsOf(t),
                            NEW j \in DOMAIN todo[c], todo[c][j] = t
                     PROVE  FALSE
          BY <2>4 DEF ToSet
        <4>1. 1 <= j
          BY <1>1
        <4> QED BY <4>1, <2>1, <1>1, <1>4 DEF DownRest
      <3>3. Mode(c) = "down"
        BY <1>4 DEF Mode
      <3>4. Promise!Handle(c, s)
        BY <3>1, <3>2, <3>3, <2>6, <1>1, <1>2, MappedStep DEF Promise!Handle
      <3> QED BY <3>4, <2>6 DEF Promise!Next
    <2> QED BY <2>5, <2>6
  <1> QED BY <1>1, <1>3, <1>4

LEMMA BeginMapped ==
  ASSUME Inv, NEW c \in Clients, Begin(c) \/ UpList(c)
  PROVE  [Promise!Next]_(Promise!vars)
  <1>1. CASE UpBegin(c)
    <2>1. /\ pc[c] = "idle" /\ pc'[c] = "listing"
          /\ UNCHANGED orderVars
          /\ pc' = [pc EXCEPT ![c] = "listing"]
          /\ todo' = [todo EXCEPT ![c] = todo[c]]
      BY <1>1 DEF UpBegin, Inv, TypeOK
    <2>2. Mode(c)' = Mode(c) /\ Handled(c)' = Handled(c)
      BY <2>1 DEF Mode, Handled
    <2> QED BY <2>1, <2>2, MappedKept
  <1>2. CASE ScaleBegin(c)
    <2>1. PICK p \in {"raise", "lower"} : pc' = [pc EXCEPT ![c] = p]
      BY <1>2 DEF ScaleBegin
    <2>2. /\ pc[c] = "idle" /\ pc'[c] \in {"raise", "lower"}
          /\ UNCHANGED orderVars
          /\ todo' = [todo EXCEPT ![c] = todo[c]]
      BY <1>2, <2>1 DEF ScaleBegin, Inv, TypeOK
    <2>3. Mode(c)' = Mode(c) /\ Handled(c)' = Handled(c)
      BY <2>2 DEF Mode, Handled
    <2> QED BY <2>1, <2>2, <2>3, MappedKept
  <1>3. CASE UpList(c)
    <2>1. /\ pc[c] = "listing" /\ pc'[c] = "up" /\ todo'[c] = order
          /\ UNCHANGED orderVars /\ UNCHANGED order
          /\ pc' = [pc EXCEPT ![c] = "up"]
          /\ todo' = [todo EXCEPT ![c] = order]
          /\ Len(order) \in Nat
      BY <1>3 DEF UpList, Inv, TypeOK, orderVars, OrderTypeOK
    <2>2. /\ Mode(c) = "idle" /\ Mode(c)' = "up"
          /\ Handled(c) = {} /\ Handled(c)' = {}
      BY <2>1 DEF Mode, Handled
    <2>3. Promise!Begin(c, "up")
      BY <2>1, <2>2, MappedStep DEF Promise!Begin
    <2> QED BY <2>3 DEF Promise!Next
  <1>4. CASE DownBegin(c)
    <2>1. PICK k \in Listings :
            \/ /\ result = "ok"
               /\ pc' = [pc EXCEPT ![c] = "down"]
               /\ \E q \in StopOrders(k, order) : todo' = [todo EXCEPT ![c] = q]
            \/ /\ pc' = [pc EXCEPT ![c] = "downAnyhow"]
               /\ \E q \in StopOrders(k, <<>>) : todo' = [todo EXCEPT ![c] = q]
      BY <1>4 DEF DownBegin
    <2>2. pc[c] = "idle" /\ UNCHANGED orderVars
      BY <1>4 DEF DownBegin
    <2>3. CASE /\ result = "ok"
               /\ pc' = [pc EXCEPT ![c] = "down"]
               /\ \E q \in StopOrders(k, order) : todo' = [todo EXCEPT ![c] = q]
      <3>1. PICK q \in StopOrders(k, order) : todo' = [todo EXCEPT ![c] = q]
        BY <2>3
      <3>2. pc'[c] = "down" /\ todo'[c] = q
        BY <2>3, <3>1 DEF Inv, TypeOK
      <3>3. /\ Mode(c) = "idle" /\ Mode(c)' = "down"
            /\ Handled(c) = {} /\ Handled(c)' = {}
        BY <2>2, <2>3, <3>2, StopOrderReversed DEF Mode, Handled, Inv
      <3>4. Promise!Begin(c, "down")
        BY <2>2, <2>3, <3>1, <3>3, MappedStep DEF Promise!Begin
      <3> QED BY <3>4 DEF Promise!Next
    <2>4. CASE /\ pc' = [pc EXCEPT ![c] = "downAnyhow"]
               /\ \E q \in StopOrders(k, <<>>) : todo' = [todo EXCEPT ![c] = q]
      <3>1. PICK q \in StopOrders(k, <<>>) : todo' = [todo EXCEPT ![c] = q]
        BY <2>4
      <3>2. pc'[c] = "downAnyhow"
        BY <2>4 DEF Inv, TypeOK
      <3>3. Mode(c)' = Mode(c) /\ Handled(c)' = Handled(c)
        BY <2>2, <3>2 DEF Mode, Handled
      <3> QED BY <2>2, <2>4, <3>1, <3>3, MappedKept
    <2> QED BY <2>1, <2>3, <2>4
  <1> QED BY <1>1, <1>2, <1>3, <1>4 DEF Begin

LEMMA EndMapped ==
  ASSUME Inv, NEW c \in Clients, Ended(c), UNCHANGED orderVars
  PROVE  [Promise!Next]_(Promise!vars)
  <1>1. /\ pc'[c] = "idle"
        /\ pc' = [pc EXCEPT ![c] = "idle"]
        /\ todo' = [todo EXCEPT ![c] = <<>>]
    BY DEF Ended, Inv, TypeOK
  <1>2. Mode(c)' = "idle" /\ Handled(c)' = {}
    BY <1>1 DEF Mode, Handled
  <1>3. CASE pc[c] \in {"up", "down"}
    <2>1. Mode(c) # "idle"
      BY <1>3 DEF Mode
    <2>2. Promise!End(c)
      BY <1>1, <1>2, <2>1, MappedStep DEF Promise!End
    <2> QED BY <2>2 DEF Promise!Next
  <1>4. CASE pc[c] \notin {"up", "down"}
    <2>1. Mode(c)' = Mode(c) /\ Handled(c)' = Handled(c)
      BY <1>2, <1>4 DEF Mode, Handled
    <2> QED BY <2>1, <1>1, MappedKept
  <1> QED BY <1>3, <1>4

LEMMA ScaleMapped ==
  ASSUME Inv, NEW c \in Clients, ScaleStart(c) \/ ScaleStop(c)
  PROVE  UNCHANGED Promise!vars
  <1>1. /\ UNCHANGED orderVars /\ UNCHANGED <<pc, todo, order>>
        /\ pc' = [pc EXCEPT ![c] = pc[c]]
        /\ todo' = [todo EXCEPT ![c] = todo[c]]
    BY DEF ScaleStart, ScaleStop, Inv, TypeOK, orderVars
  <1>2. Mode(c)' = Mode(c) /\ Handled(c)' = Handled(c)
    BY <1>1 DEF Mode, Handled
  <1> QED BY <1>1, <1>2, MappedKept

LEMMA ResolveMapped ==
  ASSUME Inv, UNCHANGED deps, UNCHANGED <<pc, todo>>,
         result = "running" \/ UNCHANGED order
  PROVE  UNCHANGED Promise!vars
  <1>1. ASSUME NEW d \in Clients
        PROVE  Mode(d)' = Mode(d) /\ Handled(d)' = Handled(d)
    <2>1. UpRest(d)
      BY DEF Inv
    <2>2. pc[d] = "up" => UNCHANGED order
      BY <2>1 DEF UpRest
    <2> QED BY <2>2 DEF Mode, Handled
  <1>2. \A s : DepsOf(s)' = DepsOf(s)
    BY SameRankings
  <1> QED BY <1>1, <1>2 DEF Promise!vars

(* The compose commands implement StackOrder: whatever other clients do    *)
(* and whichever requests fail, up and down turn to the services in an     *)
(* order that respects depends_on.                                         *)
THEOREM ComposeKeepsOrder == Spec => KeepsDependencyOrder
  <1>1. Init => Promise!Init
    BY DEF Init, Promise!Init, Mode, Handled
  <1>2. Inv /\ [Next]_vars => [Promise!Next]_(Promise!vars)
    <2> SUFFICES ASSUME Inv, [Next]_vars PROVE [Promise!Next]_(Promise!vars)
      OBVIOUS
    <2>1. CASE Resolve /\ UNCHANGED <<stackVars, clientVars>>
      <3>1. UNCHANGED deps /\ UNCHANGED <<pc, todo>> /\ result = "running"
        BY <2>1 DEF clientVars, Resolve, VisitKey, VisitDep, Return, Finish
      <3> QED BY <3>1, ResolveMapped
    <2>2. ASSUME NEW c \in Clients, Begin(c) \/ Step(c)
          PROVE  [Promise!Next]_(Promise!vars)
      <3>1. CASE Begin(c) \/ UpList(c)
        BY <3>1, BeginMapped
      <3>2. CASE BuildFails(c) \/ CommandEnds(c)
        BY <3>2, EndMapped DEF BuildFails, CommandEnds
      <3>3. CASE ScaleStart(c) \/ ScaleStop(c)
        BY <3>3, ScaleMapped
      <3>4. CASE UpService(c)
        BY <3>4, UpHandles
      <3>5. CASE DownService(c)
        BY <3>5, DownHandles
      <3> QED BY <2>2, <3>1, <3>2, <3>3, <3>4, <3>5 DEF Step
    <2>3. CASE UNCHANGED vars
      <3>1. UNCHANGED deps /\ UNCHANGED <<pc, todo>> /\ UNCHANGED order
        BY <2>3 DEF vars, clientVars, orderVars
      <3> QED BY <3>1, ResolveMapped
    <2> QED BY <2>1, <2>2, <2>3 DEF Next
  <1> QED BY InitInv, NextInv, <1>1, <1>2, PTL
          DEF Spec, KeepsDependencyOrder, Promise!Spec

-----------------------------------------------------------------------------
(* An undisturbed command delivers.  The invariant says how far it is while *)
(* it is still under way.                                                   *)

\* The ids the daemon has not given yet have no VM.
Spare == \A i \in Ids : i > made => vms[i] = NoService

\* A service that still has no VM is one that up will turn to, and will run.
UpTally(c) ==
    clean[c] /\ pc[c] = "up" =>
        \A s \in Services \ BareSet :
            Running(s) # {} \/ (known[c][s] = NoVm /\ s \in ToSet(todo[c]))

\* What scale has yet to start or to stop is what is missing or too much, and the VMs
\* it may stop are VMs of its service.
ScaleTally(c) ==
    clean[c] =>
        /\ pc[c] = "raise" =>
               Cardinality(Running(goal[c][1])) + count[c] = goal[c][2]
        /\ pc[c] = "lower" =>
               /\ Cardinality(Running(goal[c][1])) = goal[c][2] + count[c]
               /\ pool[c] \subseteq Running(goal[c][1])

Tally(c) == UpTally(c) /\ ScaleTally(c)

TallyInv == Spare /\ \A c \in Clients : Tally(c)

(* A step of another client either leaves the stack alone or tells.        *)
LEMMA Bystander ==
  ASSUME NEW d \in Clients, Tally(d),
         pc'[d] = pc[d], todo'[d] = todo[d], known'[d] = known[d],
         pool'[d] = pool[d], count'[d] = count[d], goal'[d] = goal[d],
         \/ vms' = vms /\ (clean'[d] => clean[d])
         \/ clean'[d] => pc[d] = "idle"
  PROVE  Tally(d)'
  <1>1. CASE vms' = vms /\ (clean'[d] => clean[d])
    <2>1. UpTally(d)'
      BY <1>1 DEF Tally, UpTally, Running
    <2>2. ScaleTally(d)'
      BY <1>1 DEF Tally, ScaleTally, Running
    <2> QED BY <2>1, <2>2 DEF Tally
  <1>2. CASE clean'[d] => pc[d] = "idle"
    BY <1>2 DEF Tally, UpTally, ScaleTally
  <1> QED BY <1>1, <1>2

(* A run makes a VM and tells the others, or fails and tells its own.      *)
LEMMA RunOutcome ==
  ASSUME Inv, NEW c \in Clients, NEW s \in Names, Run(c, s), pc[c] # "idle"
  PROVE  \/ /\ made < MaxVms /\ made' = made + 1 /\ vms' = [vms EXCEPT ![made + 1] = s]
            /\ clean'[c] => clean[c]
            /\ \A d \in Clients \ {c} : clean'[d] => pc[d] = "idle"
         \/ /\ vms' = vms /\ made' = made /\ ~clean'[c]
            /\ \A d \in Clients \ {c} : clean'[d] => clean[d]
  <1>1. clean \in [Clients -> BOOLEAN]
    BY DEF Inv, TypeOK
  <1>2. CASE Changed(c)
    <2>1. \A d \in Clients : clean'[d] <=> clean[d] /\ (d = c \/ pc[d] = "idle")
      BY <1>2, Zenon DEF Changed
    <2>2. Run(c, s) => \/ made < MaxVms /\ made' = made + 1 /\ vms' = [vms EXCEPT ![made + 1] = s]
                       \/ Failed(c) /\ vms' = vms /\ made' = made
      BY DEF Run
    <2>3. Failed(c) => ~clean'[c] /\ \A d \in Clients \ {c} : clean'[d] = clean[d]
      BY <1>1 DEF Failed
    <2> QED BY <2>1, <2>2, <2>3
  <1>3. CASE clean' = [d \in Clients |-> clean[d] /\ pc[d] = "idle"]
    <2>1. \A d \in Clients : clean'[d] <=> clean[d] /\ pc[d] = "idle"
      BY <1>3, Zenon
    <2>2. Run(c, s) => \/ made < MaxVms /\ made' = made + 1 /\ vms' = [vms EXCEPT ![made + 1] = s]
                       \/ Failed(c) /\ vms' = vms /\ made' = made
      BY DEF Run
    <2> QED BY <2>1, <2>2
  <1>4. CASE Failed(c) /\ UNCHANGED <<vms, made>>
    BY <1>1, <1>4 DEF Failed
  <1> QED BY <1>2, <1>3, <1>4 DEF Run

(* A stop removes a VM and tells the others, or fails and tells its own.   *)
LEMMA StopOutcome ==
  ASSUME Inv, NEW c \in Clients, NEW i, Stop(c, i)
  PROVE  \/ /\ vms[i] # NoService /\ vms' = [vms EXCEPT ![i] = NoService]
            /\ clean'[c] => clean[c]
            /\ \A d \in Clients \ {c} : clean'[d] => pc[d] = "idle"
         \/ /\ vms' = vms /\ ~clean'[c]
            /\ \A d \in Clients \ {c} : clean'[d] => clean[d]
  <1>1. clean \in [Clients -> BOOLEAN]
    BY DEF Inv, TypeOK
  <1>2. CASE Failed(c) /\ UNCHANGED vms
    BY <1>1, <1>2 DEF Failed
  <1>3. CASE vms[i] # NoService /\ vms' = [vms EXCEPT ![i] = NoService] /\ Changed(c)
    <2>1. \A d \in Clients : clean'[d] <=> clean[d] /\ (d = c \/ pc[d] = "idle")
      BY <1>3, Zenon DEF Changed
    <2> QED BY <1>3, <2>1
  <1> QED BY <1>2, <1>3 DEF Stop

(* What a new VM adds to the listing.                                      *)
LEMMA RunAdds ==
  ASSUME TypeOK, Spare, NEW s \in Names, made < MaxVms, made' = made + 1,
         vms' = [vms EXCEPT ![made + 1] = s]
  PROVE  /\ Spare'
         /\ \A t \in Names \ {s} : Running(t)' = Running(t)
         /\ Cardinality(Running(s)') = Cardinality(Running(s)) + 1
         /\ Running(s)' # {}
  <1>1. /\ made + 1 \in Ids /\ made \in Nat /\ vms \in [Ids -> Names \cup {NoService}]
        /\ NoService \notin Names
    BY NAssumption, MaxVmsAssumption DEF TypeOK, Ids, Names, NoService
  <1>2. vms[made + 1] = NoService
    BY <1>1 DEF Spare
  <1>3. Spare'
    BY <1>1 DEF Spare, Ids
  <1>4. \A t \in Names \ {s} : Running(t)' = Running(t)
    BY <1>1, <1>2 DEF Running
  <1>5. Running(s)' = Running(s) \cup {made + 1} /\ made + 1 \notin Running(s)
    BY <1>1, <1>2 DEF Running
  <1>6. IsFiniteSet(Running(s))
    BY FiniteParts DEF Running
  <1>7. Cardinality(Running(s)') = Cardinality(Running(s)) + 1
    BY <1>5, <1>6, FS_AddElement
  <1>8. Running(s)' # {}
    BY <1>5
  <1> QED BY <1>3, <1>4, <1>7, <1>8

(* What a stopped VM takes from the listing.                               *)
LEMMA StopTakes ==
  ASSUME TypeOK, Spare, NEW s \in Names, NEW i \in Running(s), made' = made,
         vms' = [vms EXCEPT ![i] = NoService]
  PROVE  /\ Running(s)' = Running(s) \ {i}
         /\ Cardinality(Running(s)') = Cardinality(Running(s)) - 1
  <1>1. /\ i \in Ids /\ vms[i] = s /\ vms \in [Ids -> Names \cup {NoService}]
        /\ NoService \notin Names
    BY NAssumption DEF TypeOK, Running, Names, NoService
  <1>2. Running(s)' = Running(s) \ {i}
    BY <1>1 DEF Running
  <1>3. IsFiniteSet(Running(s))
    BY FiniteParts DEF Running
  <1> QED BY <1>2, <1>3, FS_RemoveElement

(* A stop leaves the ids to come as they are.                              *)
LEMMA SpareKept ==
  ASSUME TypeOK, Spare, made' = made,
         vms' = vms \/ \E i : vms' = [vms EXCEPT ![i] = NoService]
  PROVE  Spare'
  BY DEF Spare, TypeOK

(* A client that is not in the middle of an up or a scale has no tally.    *)
LEMMA NoTally ==
  ASSUME NEW c \in Clients, pc'[c] \notin {"up", "raise", "lower"} \/ ~clean'[c]
  PROVE  Tally(c)'
  BY DEF Tally, UpTally, ScaleTally

(* A command that does not touch the stack.                                *)
LEMMA QuietTally ==
  ASSUME Inv, TallyInv, NEW c \in Clients, UNCHANGED <<vms, made>>,
         \A d \in Clients \ {c} :
             /\ pc'[d] = pc[d] /\ todo'[d] = todo[d] /\ known'[d] = known[d]
             /\ pool'[d] = pool[d] /\ count'[d] = count[d] /\ goal'[d] = goal[d]
             /\ clean'[d] => clean[d],
         Tally(c)'
  PROVE  TallyInv'
  <1>1. Spare'
    BY DEF TallyInv, Spare
  <1>2. \A d \in Clients \ {c} : Tally(d)'
    BY Bystander DEF TallyInv
  <1> QED BY <1>1, <1>2 DEF TallyInv

LEMMA UpListTally ==
  ASSUME Inv, TallyInv, NEW c \in Clients, UpList(c)
  PROVE  TallyInv'
  <1>0. result = "ok"
    BY DEF Inv, UpRest, UpList
  <1>1. ToSet(order) = Services
    BY <1>0, OrderFacts DEF Inv
  <1>2. /\ pc'[c] = "up" /\ todo'[c] = order
        /\ vms' = vms /\ made' = made
    BY DEF UpList, Inv, TypeOK, stackVars
  <1>3. \A d \in Clients \ {c} :
             /\ pc'[d] = pc[d] /\ todo'[d] = todo[d] /\ known'[d] = known[d]
             /\ pool'[d] = pool[d] /\ count'[d] = count[d] /\ goal'[d] = goal[d]
             /\ clean'[d] => clean[d]
    BY DEF UpList, Failed, Inv, TypeOK
  <1>4. ASSUME clean'[c]
        PROVE  \A s \in Services \ BareSet :
                   Running(s)' # {} \/ (known'[c][s] = NoVm /\ s \in ToSet(todo'[c]))
    <2>1. ~Failed(c)
      BY <1>4 DEF Failed, Inv, TypeOK
    <2>2. PICK k \in Listings : known' = [known EXCEPT ![c] = k]
      BY <2>1 DEF UpList
    <2>3. known'[c] = k
      BY <2>2 DEF Inv, TypeOK
    <2>4. \A s \in Services : Running(s)' = Running(s) /\ (Running(s) = {} => k[s] = NoVm)
      BY <1>2, ServicesAreNames DEF Running, Listings
    <2> QED BY <1>1, <1>2, <2>3, <2>4
  <1>5. Tally(c)'
    BY <1>2, <1>4 DEF Tally, UpTally, ScaleTally
  <1> QED BY <1>2, <1>3, <1>5, QuietTally

LEMMA UpServiceTally ==
  ASSUME Inv, TallyInv, NEW c \in Clients, UpService(c)
  PROVE  TallyInv'
  <1>0. TypeOK /\ Spare /\ UpTally(c)
    BY DEF Inv, TallyInv, Tally
  <1>s. PICK s : s = Head(todo[c])
    OBVIOUS
  <1>1. /\ pc[c] = "up" /\ todo[c] # <<>> /\ todo[c] \in Seq(Names) /\ pc' = pc
        /\ todo'[c] = Tail(todo[c]) /\ known' = known
        /\ pool' = pool /\ count' = count /\ goal' = goal
        /\ \A d \in Clients \ {c} : todo'[d] = todo[d]
    BY <1>0 DEF UpService, TypeOK
  <1>2. s \in Names /\ \A t \in ToSet(todo[c]) : t # s => t \in ToSet(todo'[c])
    <2>1. s \in Names
      BY <1>1, <1>s, TailFacts
    <2>2. ASSUME NEW t \in ToSet(todo[c]), t # s PROVE t \in ToSet(Tail(todo[c]))
      <3>1. PICK i \in DOMAIN todo[c] : todo[c][i] = t
        BY DEF ToSet
      <3>2. i # 1
        BY <1>1, <1>s, <2>2, <3>1, TailFacts
      <3>3. i - 1 \in DOMAIN Tail(todo[c]) /\ Tail(todo[c])[i - 1] = todo[c][i]
        BY <1>1, <3>1, <3>2
      <3> QED BY <3>1, <3>3 DEF ToSet
    <2> QED BY <1>1, <2>1, <2>2
  <1>3. CASE (known[c][s] # NoVm \/ s \in BareSet) /\ UNCHANGED <<vms, made, clean>>
    <2>1. \A t : Running(t)' = Running(t)
      BY <1>3 DEF Running
    <2>2. UpTally(c)'
      BY <1>0, <1>1, <1>2, <1>3, <2>1 DEF UpTally
    <2>3. Tally(c)'
      BY <1>1, <2>2 DEF Tally, ScaleTally
    <2> QED BY <1>1, <1>3, <2>3, QuietTally
  <1>4. CASE Run(c, s)
    <2>1. CASE /\ made < MaxVms /\ made' = made + 1 /\ vms' = [vms EXCEPT ![made + 1] = s]
               /\ clean'[c] => clean[c]
               /\ \A d \in Clients \ {c} : clean'[d] => pc[d] = "idle"
      <3>1. /\ Spare' /\ Running(s)' # {}
            /\ \A t \in Names \ {s} : Running(t)' = Running(t)
        BY <1>0, <1>2, <2>1, RunAdds
      <3>2. UpTally(c)'
        BY <1>0, <1>1, <1>2, <2>1, <3>1, ServicesAreNames DEF UpTally
      <3>3. Tally(c)'
        BY <1>1, <3>2 DEF Tally, ScaleTally
      <3>4. \A d \in Clients \ {c} : Tally(d)'
        BY <1>1, <2>1, Bystander DEF TallyInv
      <3> QED BY <3>1, <3>3, <3>4 DEF TallyInv
    <2>2. CASE /\ vms' = vms /\ made' = made /\ ~clean'[c]
               /\ \A d \in Clients \ {c} : clean'[d] => clean[d]
      <3>1. Tally(c)'
        BY <2>2, NoTally
      <3> QED BY <1>1, <2>2, <3>1, QuietTally
    <2> QED BY <1>1, <1>2, <1>4, <2>1, <2>2, RunOutcome
  <1> QED BY <1>s, <1>3, <1>4 DEF UpService

LEMMA DownServiceTally ==
  ASSUME Inv, TallyInv, NEW c \in Clients, DownService(c)
  PROVE  TallyInv'
  <1> DEFINE i == known[c][Head(todo[c])]
  <1>0. TypeOK /\ Spare
    BY DEF Inv, TallyInv
  <1>1. /\ pc[c] \in {"down", "downAnyhow"} /\ pc' = pc /\ known' = known /\ made' = made
        /\ pool' = pool /\ count' = count /\ goal' = goal
        /\ \A d \in Clients \ {c} : todo'[d] = todo[d]
    BY <1>0 DEF DownService, TypeOK
  <1>2. Tally(c)'
    BY <1>1, NoTally
  <1> HIDE DEF i
  <1>3. CASE UNCHANGED <<vms, clean>>
    BY <1>1, <1>2, <1>3, QuietTally
  <1>4. CASE Stop(c, i)
    <2>1. \/ /\ vms' = [vms EXCEPT ![i] = NoService]
             /\ \A d \in Clients \ {c} : clean'[d] => pc[d] = "idle"
          \/ /\ vms' = vms /\ \A d \in Clients \ {c} : clean'[d] => clean[d]
      BY <1>4, StopOutcome
    <2>2. Spare'
      BY <1>0, <1>1, <2>1, SpareKept
    <2>3. \A d \in Clients \ {c} : Tally(d)'
      BY <1>1, <2>1, Bystander DEF TallyInv
    <2> QED BY <1>2, <2>2, <2>3 DEF TallyInv
  <1> QED BY <1>3, <1>4 DEF DownService, i

LEMMA ScaleBeginTally ==
  ASSUME Inv, TallyInv, NEW c \in Clients, ScaleBegin(c)
  PROVE  TallyInv'
  <1>0. TypeOK
    BY DEF Inv
  <1>1. PICK t \in Targets, listed \in BOOLEAN :
          LET running == IF listed THEN Running(t[1]) ELSE {}
              size == Cardinality(running)
          IN /\ goal' = [goal EXCEPT ![c] = t]
             /\ pool' = [pool EXCEPT ![c] = running]
             /\ clean' = [clean EXCEPT ![c] = listed]
             /\ \/ /\ t[2] > size
                   /\ pc' = [pc EXCEPT ![c] = "raise"]
                   /\ count' = [count EXCEPT ![c] = t[2] - size]
                \/ /\ t[2] <= size
                   /\ pc' = [pc EXCEPT ![c] = "lower"]
                   /\ count' = [count EXCEPT ![c] = size - t[2]]
    BY DEF ScaleBegin
  <1>2. UNCHANGED <<vms, made, todo, known>>
    BY DEF ScaleBegin, stackVars
  <1>3. \A d \in Clients \ {c} :
             /\ pc'[d] = pc[d] /\ todo'[d] = todo[d] /\ known'[d] = known[d]
             /\ pool'[d] = pool[d] /\ count'[d] = count[d] /\ goal'[d] = goal[d]
             /\ clean'[d] => clean[d]
    BY <1>0, <1>1, <1>2 DEF TypeOK
  <1>4. CASE ~listed
    <2>1. ~clean'[c]
      BY <1>0, <1>1, <1>4 DEF TypeOK
    <2>2. Tally(c)'
      BY <2>1, NoTally
    <2> QED BY <1>2, <1>3, <2>2, QuietTally
  <1>5. CASE listed
    <2> DEFINE size == Cardinality(Running(t[1]))
    <2>1. size \in Nat /\ t[2] \in Nat
      <3>1. Running(t[1]) \in SUBSET Ids
        BY DEF Running
      <3>2. size \in Nat
        BY <3>1, FiniteParts
      <3>3. t[2] \in Nat
        BY TargetsAssumption
      <3> QED BY <3>2, <3>3
    <2>2. goal'[c] = t /\ pool'[c] = Running(t[1])
      BY <1>0, <1>1, <1>5 DEF TypeOK
    <2>3. \/ pc'[c] = "raise" /\ count'[c] = t[2] - size
          \/ pc'[c] = "lower" /\ count'[c] = size - t[2]
      BY <1>0, <1>1, <1>5 DEF TypeOK
    <2>5. Running(goal[c][1])' = Running(t[1])
      BY <1>2, <2>2 DEF Running
    <2>9. Cardinality(Running(goal[c][1])') = size
      BY <2>5
    <2> HIDE DEF size
    <2>6. UpTally(c)'
      BY <2>3 DEF UpTally
    <2>7. ScaleTally(c)'
      <3>1. (t[2] - size) + size = t[2] /\ size + (t[2] - size) = t[2]
            /\ t[2] + (size - t[2]) = size
        BY <2>1
      <3> QED BY <2>2, <2>3, <2>5, <2>9, <3>1 DEF ScaleTally
    <2>8. Tally(c)'
      BY <2>6, <2>7 DEF Tally
    <2> QED BY <1>2, <1>3, <2>8, QuietTally
  <1> QED BY <1>4, <1>5

LEMMA ScaleStartTally ==
  ASSUME Inv, TallyInv, NEW c \in Clients, ScaleStart(c)
  PROVE  TallyInv'
  <1>0. TypeOK /\ Spare /\ ScaleTally(c)
    BY DEF Inv, TallyInv, Tally
  <1>s. PICK s : s = goal[c][1]
    OBVIOUS
  <1>1. /\ pc[c] = "raise" /\ pc' = pc /\ todo' = todo /\ known' = known /\ pool' = pool
        /\ goal' = goal /\ count'[c] = count[c] - 1 /\ count[c] \in Nat
        /\ \A d \in Clients \ {c} : count'[d] = count[d]
    BY <1>0 DEF ScaleStart, TypeOK
  <1>2. s \in Names /\ goal[c][2] \in Nat
    BY <1>s, <1>0 DEF TypeOK
  <1>3. Cardinality(Running(s)) \in Nat
    BY FiniteParts DEF Running
  <1>g. goal'[c][1] = s /\ Running(goal[c][1]) = Running(s) /\ Running(goal[c][1])' = Running(s)'
    BY <1>s, <1>1 DEF Running
  <1>4. CASE /\ made < MaxVms /\ made' = made + 1 /\ vms' = [vms EXCEPT ![made + 1] = s]
             /\ clean'[c] => clean[c]
             /\ \A d \in Clients \ {c} : clean'[d] => pc[d] = "idle"
    <2>1. Spare' /\ Cardinality(Running(s)') = Cardinality(Running(s)) + 1
      BY <1>0, <1>2, <1>4, RunAdds
    <2>2. ScaleTally(c)'
      <3>1. ASSUME clean'[c] PROVE Cardinality(Running(s)') + count'[c] = goal'[c][2]
        <4>1. Cardinality(Running(s)) + count[c] = goal[c][2]
          BY <1>g, <1>0, <1>1, <1>4, <3>1 DEF ScaleTally
        <4> QED BY <1>1, <1>2, <1>3, <2>1, <4>1
      <3> QED BY <1>g, <1>1, <3>1 DEF ScaleTally
    <2>3. Tally(c)'
      BY <1>1, <2>2 DEF Tally, UpTally
    <2>4. \A d \in Clients \ {c} : Tally(d)'
      BY <1>1, <1>4, Bystander DEF TallyInv
    <2> QED BY <2>1, <2>3, <2>4 DEF TallyInv
  <1>5. CASE /\ vms' = vms /\ made' = made /\ ~clean'[c]
             /\ \A d \in Clients \ {c} : clean'[d] => clean[d]
    <2>1. Tally(c)'
      BY <1>5, NoTally
    <2> QED BY <1>1, <1>5, <2>1, QuietTally
  <1>6. CASE Run(c, s)
    BY <1>1, <1>2, <1>4, <1>5, <1>6, RunOutcome
  <1>7. CASE Failed(c) /\ UNCHANGED <<vms, made>>
    <2>1. ~clean'[c] /\ \A d \in Clients \ {c} : clean'[d] => clean[d]
      BY <1>0, <1>7 DEF Failed, TypeOK
    <2> QED BY <1>5, <1>7, <2>1
  <1> QED BY <1>s, <1>6, <1>7 DEF ScaleStart

LEMMA ScaleStopTally ==
  ASSUME Inv, TallyInv, NEW c \in Clients, ScaleStop(c)
  PROVE  TallyInv'
  <1>0. TypeOK /\ Spare /\ ScaleTally(c)
    BY DEF Inv, TallyInv, Tally
  <1>s. PICK s : s = goal[c][1]
    OBVIOUS
  <1>1. /\ pc[c] = "lower" /\ pc' = pc /\ todo' = todo /\ known' = known /\ made' = made
        /\ goal' = goal /\ count'[c] = count[c] - 1 /\ count[c] \in Nat \ {0}
        /\ \A d \in Clients \ {c} : count'[d] = count[d]
    BY <1>0 DEF ScaleStop, TypeOK
  <1>2. PICK i \in pool[c] : pool' = [pool EXCEPT ![c] = pool[c] \ {i}] /\ Stop(c, i)
    BY DEF ScaleStop
  <1>3. pool'[c] = pool[c] \ {i} /\ \A d \in Clients \ {c} : pool'[d] = pool[d]
    BY <1>0, <1>2 DEF TypeOK
  <1>4. s \in Names /\ goal[c][2] \in Nat
    BY <1>s, <1>0 DEF TypeOK
  <1>5. Cardinality(Running(s)) \in Nat
    BY FiniteParts DEF Running
  <1>g. goal'[c][1] = s /\ Running(goal[c][1]) = Running(s) /\ Running(goal[c][1])' = Running(s)'
    BY <1>s, <1>1 DEF Running
  <1>6. CASE /\ vms' = [vms EXCEPT ![i] = NoService]
             /\ clean'[c] => clean[c]
             /\ \A d \in Clients \ {c} : clean'[d] => pc[d] = "idle"
    <2>1. Spare'
      BY <1>0, <1>1, <1>6, SpareKept
    <2>2. ASSUME clean'[c]
          PROVE  /\ Cardinality(Running(s)') = goal'[c][2] + count'[c]
                 /\ pool'[c] \subseteq Running(s)'
      <3>1. Cardinality(Running(s)) = goal[c][2] + count[c] /\ pool[c] \subseteq Running(s)
        BY <1>g, <1>0, <1>1, <1>6, <2>2 DEF ScaleTally
      <3>2. i \in Running(s)
        BY <1>2, <3>1
      <3>3. /\ Running(s)' = Running(s) \ {i}
            /\ Cardinality(Running(s)') = Cardinality(Running(s)) - 1
        BY <1>0, <1>1, <1>4, <1>6, <3>2, StopTakes
      <3>4. Cardinality(Running(s)') = goal'[c][2] + count'[c]
        BY <1>1, <1>4, <1>5, <3>1, <3>3
      <3>5. pool'[c] \subseteq Running(s)'
        BY <1>3, <3>1, <3>3
      <3> QED BY <3>4, <3>5
    <2>3. Tally(c)'
      BY <1>g, <1>1, <2>2 DEF Tally, UpTally, ScaleTally
    <2>4. \A d \in Clients \ {c} : Tally(d)'
      BY <1>1, <1>3, <1>6, Bystander DEF TallyInv
    <2> QED BY <2>1, <2>3, <2>4 DEF TallyInv
  <1>7. CASE /\ vms' = vms /\ ~clean'[c]
             /\ \A d \in Clients \ {c} : clean'[d] => clean[d]
    <2>1. Tally(c)'
      BY <1>7, NoTally
    <2> QED BY <1>1, <1>3, <1>7, <2>1, QuietTally
  <1> QED BY <1>2, <1>6, <1>7, StopOutcome

(* Every step keeps the tallies.                                           *)
LEMMA TallyStep == Inv /\ TallyInv /\ [Next]_vars => TallyInv'
  <1> SUFFICES ASSUME Inv, TallyInv, [Next]_vars PROVE TallyInv'
    OBVIOUS
  <1>1. ASSUME UNCHANGED <<stackVars, clientVars>> PROVE TallyInv'
    <2>1. \A d \in Clients : Tally(d)'
      BY <1>1, Bystander DEF TallyInv, stackVars, clientVars
    <2>2. Spare'
      BY <1>1 DEF TallyInv, Spare, stackVars
    <2> QED BY <2>1, <2>2 DEF TallyInv
  <1>2. ASSUME NEW c \in Clients, UpBegin(c) \/ DownBegin(c) \/ BuildFails(c) \/ CommandEnds(c)
        PROVE  TallyInv'
    <2>1. /\ UNCHANGED <<vms, made>>
          /\ pc'[c] \in {"listing", "down", "downAnyhow", "idle"}
      BY <1>2 DEF Inv, TypeOK, UpBegin, DownBegin, BuildFails, CommandEnds, Ended, stackVars
    <2>2. Tally(c)'
      BY <2>1, NoTally
    <2>3. \A d \in Clients \ {c} :
             /\ pc'[d] = pc[d] /\ todo'[d] = todo[d] /\ known'[d] = known[d]
             /\ pool'[d] = pool[d] /\ count'[d] = count[d] /\ goal'[d] = goal[d]
             /\ clean'[d] => clean[d]
      <3>1. CASE UpBegin(c)
        BY <3>1 DEF Inv, TypeOK, UpBegin
      <3>2. CASE DownBegin(c)
        BY <3>2 DEF Inv, TypeOK, DownBegin
      <3>3. CASE Ended(c)
        BY <3>3 DEF Inv, TypeOK, Ended
      <3> QED BY <1>2, <3>1, <3>2, <3>3 DEF BuildFails, CommandEnds
    <2> QED BY <2>1, <2>2, <2>3, QuietTally
  <1>3. ASSUME NEW c \in Clients, Begin(c) \/ Step(c) PROVE TallyInv'
    BY <1>2, <1>3, UpListTally, UpServiceTally, DownServiceTally, ScaleBeginTally,
       ScaleStartTally, ScaleStopTally DEF Begin, Step
  <1> QED BY <1>1, <1>3 DEF Next, vars

(* A command that no failure and no other client disturbed delivers: up    *)
(* leaves no runnable service without a VM and scale leaves exactly as     *)
(* many VMs as it was asked for, for any file and any number of clients.   *)
THEOREM UndisturbedCommandDelivers == Spec => []UndisturbedDelivers
  <1>1. Init => TallyInv
    <2> SUFFICES ASSUME Init PROVE TallyInv
      OBVIOUS
    <2>1. Spare
      BY DEF Init, Spare, Ids
    <2>2. \A c \in Clients : pc[c] = "idle"
      BY DEF Init
    <2>3. \A c \in Clients : Tally(c)
      BY <2>2 DEF Tally, UpTally, ScaleTally
    <2> QED BY <2>1, <2>3 DEF TallyInv
  <1>2. Inv /\ TallyInv => UndisturbedDelivers
    <2> SUFFICES ASSUME Inv, TallyInv, NEW c \in Clients, clean[c]
                 PROVE  /\ pc[c] = "up" /\ todo[c] = <<>> =>
                              \A s \in Services \ BareSet : Running(s) # {}
                        /\ pc[c] \in {"raise", "lower"} /\ count[c] = 0 =>
                              Cardinality(Running(goal[c][1])) = goal[c][2]
      BY DEF UndisturbedDelivers
    <2>1. UpTally(c) /\ ScaleTally(c) /\ goal[c][2] \in Nat
      BY DEF TallyInv, Tally, Inv, TypeOK
    <2>2. ToSet(<<>>) = {}
      BY DEF ToSet
    <2>3. Cardinality(Running(goal[c][1])) \in Nat
      BY FiniteParts DEF Running
    <2>4. pc[c] = "up" /\ todo[c] = <<>> => \A s \in Services \ BareSet : Running(s) # {}
      BY <2>1, <2>2 DEF UpTally
    <2>5. pc[c] \in {"raise", "lower"} /\ count[c] = 0 =>
              Cardinality(Running(goal[c][1])) = goal[c][2]
      BY <2>1, <2>3 DEF ScaleTally
    <2> QED BY <2>4, <2>5
  <1> QED BY InitInv, NextInv, TallyStep, <1>1, <1>2, PTL DEF Spec
=============================================================================
