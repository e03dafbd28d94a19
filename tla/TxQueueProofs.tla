--------------------------- MODULE TxQueueProofs ---------------------------
(***************************************************************************)
(* Proofs about TxQueue, for any number of slots, frames, interfaces and   *)
(* links, any queue capacities and any number of CPUs.                     *)
(***************************************************************************)
EXTENDS TxQueue, FiniteSetTheorems, TLAPS

\* The tuples of variables and the one-line BumpGeneration stand for their
\* definitions everywhere.
USE DEF itemVars, countVars, lockVars, actorVars, BumpGeneration

-----------------------------------------------------------------------------
(* Type correctness.                                                       *)

\* What the actors hold is a set of packet IDs.
LEMMA OutstandingType ==
  ASSUME TypeOK
  PROVE  Outstanding \in SUBSET PacketID
BY DEF TypeOK, Outstanding

\* The generation atbm_queue_clear moves to is in range.
LEMMA NextGenerationType ==
  ASSUME TypeOK
  PROVE  NextGeneration \in 0 .. GenMod - 1
BY NumberAssumption DEF TypeOK, NextGeneration

\* The lists stay lists when items are freed.
LEMMA FreeItemsType ==
  ASSUME TypeOK, NEW S \in SUBSET Item, FreeItems(S)
  PROVE  /\ where' \in [Item -> {"free", "queued", "pending"}]
         /\ skb' \in [Item -> Frame \cup {None}]
         /\ ahead' \in [Item -> SUBSET Item]
BY DEF TypeOK, FreeItems, AheadWithout

\* Locking and unlocking keep the lock count and the stop flag well typed.
LEMMA LockType ==
  ASSUME TypeOK, NEW S, QueueLock(S) \/ QueueUnlock(S)
  PROVE  tx_locked_cnt' \in [Vif -> Int] /\ stopped' \in [Vif -> BOOLEAN]
<1>1. \A v \in Vif : /\ tx_locked_cnt[v] \in Int
                     /\ tx_locked_cnt[v] + 1 \in Int
                     /\ tx_locked_cnt[v] - 1 \in Int
  BY DEF TypeOK
<1>2. \A v \in Vif : stopped[v] \in BOOLEAN
  BY DEF TypeOK
<1>3. CASE QueueLock(S)
  BY <1>1, <1>2, <1>3, Zenon DEF QueueLock
<1>4. CASE QueueUnlock(S)
  BY <1>1, <1>2, <1>4, Zenon DEF QueueUnlock
<1> QED BY <1>3, <1>4

\* Releasing overfull interfaces keeps the lock state well typed.
LEMMA ReleaseType ==
  ASSUME TypeOK, NEW S, ReleaseOverfull(S)
  PROVE  /\ overfull' \in [Vif -> BOOLEAN]
         /\ tx_locked_cnt' \in [Vif -> Int]
         /\ stopped' \in [Vif -> BOOLEAN]
<1>1. overfull' \in [Vif -> BOOLEAN]
  BY DEF TypeOK, ReleaseOverfull
<1> QED BY <1>1, LockType DEF ReleaseOverfull

\* The 8-bit generation of an item stays in range when one number is changed
\* and wraps.
LEMMA GenerationWraps ==
  ASSUME NEW g, g \in [Item -> 0 .. 255], NEW i \in Item, NEW n \in 0 .. 255
  PROVE  [g EXCEPT ![i] = (n + 1) % 256] \in [Item -> 0 .. 255]
<1>1. (n + 1) % 256 \in 0 .. 255
  OBVIOUS
<1> DEFINE m == (n + 1) % 256
<1>2. m \in 0 .. 255
  BY <1>1
<1> HIDE DEF m
<1>3. [g EXCEPT ![i] = m] \in [Item -> 0 .. 255]
  BY <1>2
<1> QED BY <1>3 DEF m

\* atbm_queue_remove keeps the types.
LEMMA RemoveType ==
  ASSUME TypeOK, NEW p \in PacketID, Remove(p),
         bh' \in PacketID \cup {None}, rx' \in PacketID \cup {None},
         device' \in SUBSET PacketID
  PROVE  TypeOK'
<1>1. CASE Valid(p) /\ RemoveValid(p)
  <2> p.item \in Item /\ p.vif \in Vif
    BY DEF PacketID
  <2>1. /\ where' \in [Item -> {"free", "queued", "pending"}]
        /\ skb' \in [Item -> Frame \cup {None}]
        /\ ahead' \in [Item -> SUBSET Item]
    BY <1>1, FreeItemsType DEF RemoveValid
  <2>2. /\ overfull' \in [Vif -> BOOLEAN]
        /\ tx_locked_cnt' \in [Vif -> Int]
        /\ stopped' \in [Vif -> BOOLEAN]
    BY <1>1, ReleaseType DEF RemoveValid, TypeOK
  <2>3. igen' \in [Item -> 0 .. 255]
    <3>1. igen \in [Item -> 0 .. 255]
      BY DEF TypeOK
    <3>2. igen[p.item] \in 0 .. 255
      BY <3>1
    <3>3. [igen EXCEPT ![p.item] = (igen[p.item] + 1) % 256]
            \in [Item -> 0 .. 255]
      BY ONLY <3>1, <3>2, p.item \in Item, GenerationWraps
    <3> QED BY <1>1, <3>3, Zenon DEF RemoveValid
  <2>4. /\ num_pending' \in Int /\ num_pending_vif' \in [Vif -> Int]
        /\ num_queued' \in Int /\ num_queued_vif' \in [Vif -> Int]
    BY <1>1 DEF RemoveValid, TypeOK
  <2> QED BY <1>1, <2>1, <2>2, <2>3, <2>4 DEF RemoveValid, TypeOK
<1>2. CASE ~Valid(p) /\ UNCHANGED <<itemVars, countVars, lockVars, generation>>
  BY <1>2 DEF TypeOK
<1> QED BY <1>1, <1>2 DEF Remove

\* atbm_queue_requeue keeps the types.
LEMMA RequeueType ==
  ASSUME TypeOK, NEW p \in PacketID, NEW check \in BOOLEAN, Requeue(p, check),
         Valid(p) => skb[p.item] \in Frame,
         bh' \in PacketID \cup {None}, rx' \in PacketID \cup {None},
         device' \in SUBSET PacketID
  PROVE  TypeOK'
<1> p.item \in Item /\ p.vif \in Vif /\ p.igen \in 0 .. 255
  BY DEF PacketID
<1>1. CASE Remove(p)
  BY <1>1, RemoveType
<1>2. CASE /\ offchannel' = [offchannel EXCEPT ![p.item] = @ \/ ~check]
           /\ Valid(p) /\ RequeueValid(p)
  <2>1. where' \in [Item -> {"free", "queued", "pending"}]
    BY <1>2 DEF RequeueValid, TypeOK
  <2>2. ahead' \in [Item -> SUBSET Item]
    BY <1>2 DEF RequeueValid, TypeOK
  <2>3. igen' \in [Item -> 0 .. 255]
    <3>1. igen \in [Item -> 0 .. 255]
      BY DEF TypeOK
    <3>2. [igen EXCEPT ![p.item] = (p.igen + 1) % 256]
            \in [Item -> 0 .. 255]
      BY ONLY <3>1, p.item \in Item, p.igen \in 0 .. 255, GenerationWraps
    <3> QED BY <1>2, <3>2, Zenon DEF RequeueValid
  <2>4. offchannel' \in [Item -> BOOLEAN]
    BY <1>2 DEF TypeOK
  <2>5. /\ link_map_cache' \in [Vif -> [Link -> Int]]
        /\ stats_num_queued' \in [Vif -> Int]
    <3>1. VifOf[skb[p.item]] \in Vif /\ LinkOf[skb[p.item]] \in Link
      BY <1>2, TxprivAssumption
    <3>2. link_map_cache \in [Vif -> [Link -> Int]]
          /\ stats_num_queued \in [Vif -> Int]
      BY DEF TypeOK
    <3>3. /\ link_map_cache' =
               [link_map_cache EXCEPT ![p.vif][LinkOf[skb[p.item]]] = @ + 1]
          /\ stats_num_queued' =
               [stats_num_queued EXCEPT ![VifOf[skb[p.item]]] = @ + 1]
      BY <1>2 DEF RequeueValid
    <3> DEFINE w == VifOf[skb[p.item]]
               l == LinkOf[skb[p.item]]
    <3>4. w \in Vif /\ l \in Link
      BY <3>1
    <3>5. /\ link_map_cache' = [link_map_cache EXCEPT ![p.vif][l] = @ + 1]
          /\ stats_num_queued' = [stats_num_queued EXCEPT ![w] = @ + 1]
      BY <3>3
    <3> HIDE DEF w, l
    <3>6. stats_num_queued' \in [Vif -> Int]
      BY ONLY <3>2, <3>4, <3>5
    <3>7. [link_map_cache[p.vif] EXCEPT ![l] = @ + 1] \in [Link -> Int]
      <4>1. link_map_cache[p.vif] \in [Link -> Int]
        BY ONLY <3>2, p.vif \in Vif
      <4> QED BY ONLY <3>4, <4>1
    <3>8. link_map_cache' \in [Vif -> [Link -> Int]]
      BY ONLY <3>2, <3>5, <3>7
    <3> QED BY <3>6, <3>8
  <2>6. num_pending' \in Int /\ num_pending_vif' \in [Vif -> Int]
    BY <1>2 DEF RequeueValid, TypeOK
  <2> QED
    BY <1>2, <2>1, <2>2, <2>3, <2>4, <2>5, <2>6 DEF RequeueValid, TypeOK
<1>3. CASE /\ offchannel' = [offchannel EXCEPT ![p.item] = @ \/ ~check]
           /\ UNCHANGED <<where, skb, igen, ahead, countVars, lockVars,
                          generation>>
  <2>1. offchannel' \in [Item -> BOOLEAN]
    BY <1>3 DEF TypeOK
  <2> QED BY <1>3, <2>1 DEF TypeOK
<1> QED BY <1>1, <1>2, <1>3 DEF Requeue

\* The inductive invariant: the packet IDs can only be trusted because the
\* lists are well formed, and a packet can only be told from the others
\* because it has one owner.
IdInv == TypeOK /\ ListsWellFormed /\ CurrentIDIsItsFrame /\ OneOwnerPerItem

\* atbm_queue_put keeps the types.
LEMMA PutType ==
  ASSUME TypeOK, NEW f \in Frame, NEW i \in Item, NEW off \in BOOLEAN,
         Put(f, i, off)
  PROVE  TypeOK'
<1> VifOf[f] \in Vif /\ LinkOf[f] \in Link
  BY TxprivAssumption
<1>1. /\ where' \in [Item -> {"free", "queued", "pending"}]
      /\ skb' \in [Item -> Frame \cup {None}]
      /\ igen' \in [Item -> 0 .. 255]
      /\ offchannel' \in [Item -> BOOLEAN]
  BY DEF Put, TypeOK
<1>2. ahead' \in [Item -> SUBSET Item]
  BY DEF Put, TypeOK, ItemsOn
<1>3. /\ num_queued' \in Int /\ num_queued_vif' \in [Vif -> Int]
      /\ stats_num_queued' \in [Vif -> Int]
      /\ link_map_cache' \in [Vif -> [Link -> Int]]
  BY DEF Put, TypeOK
<1>4. /\ overfull' \in [Vif -> BOOLEAN] /\ gcTimer' \in [Vif -> BOOLEAN]
      /\ tx_locked_cnt' \in [Vif -> Int] /\ stopped' \in [Vif -> BOOLEAN]
  <2>1. CASE /\ overfull' = [overfull EXCEPT ![VifOf[f]] = TRUE]
             /\ QueueLock({VifOf[f]})
             /\ gcTimer' = [gcTimer EXCEPT ![VifOf[f]] = TRUE]
    <3>1. overfull' \in [Vif -> BOOLEAN] /\ gcTimer' \in [Vif -> BOOLEAN]
      BY <2>1 DEF TypeOK
    <3> QED BY <2>1, <3>1, LockType
  <2>2. CASE UNCHANGED <<overfull, tx_locked_cnt, stopped, gcTimer>>
    BY <2>2 DEF TypeOK
  <2> QED BY <2>1, <2>2 DEF Put, StopIfOverflown
<1> QED BY <1>1, <1>2, <1>3, <1>4 DEF Put, TypeOK

\* atbm_queue_get keeps the types and hands out a packet ID.
LEMMA GetType ==
  ASSUME TypeOK, ListsWellFormed, NEW v \in Vif, NEW mask, NEW listen \in BOOLEAN,
         Get(v, mask, listen)
  PROVE  TypeOK'
<1>1. PICK i \in Matching(v, mask) :
        /\ bh' = [qgen |-> generation, igen |-> igen[i], item |-> i,
                  vif |-> v, frame |-> skb[i]]
        /\ where' = [where EXCEPT ![i] = "pending"]
        /\ ahead' = AheadWithout({i})
        /\ offchannel' = [offchannel EXCEPT ![i] = @ \/ listen]
        /\ link_map_cache' = [link_map_cache EXCEPT ![v][LinkOf[skb[i]]] = @ - 1]
  BY DEF Get
<1>2. i \in Item /\ skb[i] \in Frame
  BY SetAssumption
     DEF Matching, VifItemsOn, ItemsOn, TypeOK, ListsWellFormed
<1>3. bh' \in PacketID
  BY <1>1, <1>2 DEF PacketID, TypeOK
<1>4. /\ where' \in [Item -> {"free", "queued", "pending"}]
      /\ ahead' \in [Item -> SUBSET Item]
  BY <1>1, <1>2 DEF AheadWithout, TypeOK
<1>5. offchannel' \in [Item -> BOOLEAN]
  BY <1>1, <1>2 DEF TypeOK
<1>6. /\ link_map_cache' \in [Vif -> [Link -> Int]]
      /\ num_pending' \in Int /\ num_pending_vif' \in [Vif -> Int]
      /\ stats_num_queued' \in [Vif -> Int]
  BY <1>1, <1>2, TxprivAssumption DEF Get, TypeOK
<1> QED BY <1>3, <1>4, <1>5, <1>6 DEF Get, TypeOK

\* atbm_queue_clear keeps the types.
LEMMA ClearItemsType ==
  ASSUME TypeOK, NEW S \in SUBSET Vif, ClearItems(S),
         bh' \in PacketID \cup {None}, rx' \in PacketID \cup {None},
         device' \in SUBSET PacketID
  PROVE  TypeOK'
<1> DEFINE C == UNION {Held(v) : v \in S}
           P == UNION {VifItemsOn("pending", v) : v \in S}
<1>1. C \in SUBSET Item /\ P \in SUBSET C
  BY DEF Held, VifItemsOn, ItemsOn
<1>2. Cardinality(C) \in Int /\ Cardinality(P) \in Int
  BY <1>1, SetAssumption, FS_Subset, FS_CardinalityType
<1>3. /\ where' \in [Item -> {"free", "queued", "pending"}]
      /\ skb' \in [Item -> Frame \cup {None}]
      /\ ahead' \in [Item -> SUBSET Item]
  BY <1>1, FreeItemsType DEF ClearItems
<1>4. generation' \in 0 .. GenMod - 1
  BY NextGenerationType DEF ClearItems
<1>5. num_queued' \in Int /\ num_pending' \in Int
  BY <1>2 DEF ClearItems, TypeOK
<1>6. /\ num_queued_vif' \in [Vif -> Int] /\ num_pending_vif' \in [Vif -> Int]
      /\ link_map_cache' \in [Vif -> [Link -> Int]]
      /\ stats_num_queued' \in [Vif -> Int]
  BY DEF ClearItems, TypeOK
<1>7. /\ overfull' \in [Vif -> BOOLEAN]
      /\ tx_locked_cnt' \in [Vif -> Int]
      /\ stopped' \in [Vif -> BOOLEAN]
  BY ReleaseType DEF ClearItems
<1> QED BY <1>3, <1>4, <1>5, <1>6, <1>7 DEF ClearItems, TypeOK

\* atbm_queue_gc keeps the types.
LEMMA GcType ==
  ASSUME TypeOK, NEW v \in Vif, NEW E \in SUBSET Item, Gc(v, E)
  PROVE  TypeOK'
<1>1. \A T \in SUBSET Item : Cardinality(T) \in Int
  BY SetAssumption, FS_Subset, FS_CardinalityType
<1>2. /\ where' \in [Item -> {"free", "queued", "pending"}]
      /\ skb' \in [Item -> Frame \cup {None}]
      /\ ahead' \in [Item -> SUBSET Item]
  BY FreeItemsType DEF Gc
<1>3. /\ num_queued' \in Int /\ num_queued_vif' \in [Vif -> Int]
      /\ stats_num_queued' \in [Vif -> Int]
  BY <1>1 DEF Gc, TypeOK
<1>4. link_map_cache' \in [Vif -> [Link -> Int]]
  <2>1. \A l \in Link : Cardinality({i \in E : LinkOf[skb[i]] = l}) \in Int
    BY <1>1
  <2>2. [l \in Link |-> link_map_cache[v][l]
           - Cardinality({i \in E : LinkOf[skb[i]] = l})] \in [Link -> Int]
    BY <2>1 DEF TypeOK
  <2> QED BY <2>2, Zenon DEF Gc, TypeOK
<1>5. /\ overfull' \in [Vif -> BOOLEAN]
      /\ tx_locked_cnt' \in [Vif -> Int]
      /\ stopped' \in [Vif -> BOOLEAN]
  BY ReleaseType DEF Gc, TypeOK
<1>6. gcTimer' \in [Vif -> BOOLEAN]
  <2>1. overfull[v] \in BOOLEAN
    BY DEF TypeOK
  <2>2. PICK b \in BOOLEAN : gcTimer' = [gcTimer EXCEPT ![v] = b]
    BY <2>1 DEF Gc
  <2> QED BY <2>2 DEF TypeOK
<1> QED BY <1>2, <1>3, <1>4, <1>5, <1>6 DEF Gc, TypeOK

\* Every step keeps the types.
LEMMA TypeStep ==
  ASSUME IdInv, [Next]_vars
  PROVE  TypeOK'
<1> TypeOK /\ ListsWellFormed /\ CurrentIDIsItsFrame
  BY DEF IdInv
<1>1. ASSUME NEW f \in Frame, NEW i \in Item, NEW off \in BOOLEAN,
             Put(f, i, off)
      PROVE  TypeOK'
  BY <1>1, PutType
<1>2. ASSUME NEW v \in Vif, NEW mask \in SUBSET Link, NEW listen \in BOOLEAN,
             Get(v, mask, listen)
      PROVE  TypeOK'
  BY <1>2, GetType
<1>3. CASE BhFree
  BY <1>3, RemoveType DEF BhFree, TypeOK
<1>4. CASE BhSend
  BY <1>4 DEF BhSend, TypeOK
<1>5. ASSUME NEW p \in device, Confirm(p) PROVE TypeOK'
  BY <1>5 DEF Confirm, TypeOK
<1>6. CASE RxRemove
  BY <1>6, RemoveType DEF RxRemove, TypeOK
<1>7. ASSUME NEW check \in BOOLEAN, RxRequeue(check) PROVE TypeOK'
  <2>1. rx \in PacketID /\ (Valid(rx) => skb[rx.item] \in Frame)
    BY <1>7 DEF RxRequeue, TypeOK, CurrentIDIsItsFrame, Outstanding, Valid,
                Current, PacketID
  <2>2. /\ bh' \in PacketID \cup {None} /\ rx' \in PacketID \cup {None}
        /\ device' \in SUBSET PacketID
    BY <1>7 DEF RxRequeue, TypeOK
  <2> QED BY <1>7, <2>1, <2>2, RequeueType DEF RxRequeue
<1>8. ASSUME NEW v \in Vif, ClearVif(v) PROVE TypeOK'
  <2>1. /\ bh' \in PacketID \cup {None} /\ rx' \in PacketID \cup {None}
        /\ device' \in SUBSET PacketID
    BY <1>8 DEF ClearVif, TypeOK
  <2> QED BY <1>8, <2>1, ClearItemsType DEF ClearVif
<1>9. CASE ClearAll
  <2>1. /\ bh' \in PacketID \cup {None} /\ rx' \in PacketID \cup {None}
        /\ device' \in SUBSET PacketID
    BY <1>9 DEF ClearAll, TypeOK
  <2> QED BY <1>9, <2>1, ClearItemsType DEF ClearAll
<1>10. ASSUME NEW v \in Vif, NEW E \in SUBSET Item, Gc(v, E) PROVE TypeOK'
  BY <1>10, GcType
<1>11. CASE TxQueuesLock
  BY <1>11, LockType DEF TxQueuesLock, TypeOK
<1>12. CASE TxQueuesUnlock
  BY <1>12, LockType DEF TxQueuesUnlock, TypeOK
<1>13. CASE UNCHANGED vars
  BY <1>13 DEF vars, TypeOK
<1> QED BY <1>1, <1>2, <1>3, <1>4, <1>5, <1>6, <1>7, <1>8, <1>9, <1>10,
           <1>11, <1>12, <1>13 DEF Next

-----------------------------------------------------------------------------
(* The lists.                                                              *)

\* Freeing items keeps the lists well formed.
LEMMA FreeItemsLists ==
  ASSUME TypeOK, ListsWellFormed, NEW S \in SUBSET Item, FreeItems(S)
  PROVE  ListsWellFormed'
<1>1. ItemsOn("queued")' = ItemsOn("queued") \ S
  BY DEF FreeItems, ItemsOn, TypeOK
<1>2. \A i \in Item : where'[i] = "free" <=> skb'[i] = None
  BY DEF FreeItems, ListsWellFormed
<1>3. \A i, j \in Item : skb'[i] = skb'[j] /\ skb'[i] # None => i = j
  BY DEF FreeItems, ListsWellFormed
<1>4. \A i \in Item : ahead'[i] \subseteq ItemsOn("queued")' \ {i}
  BY <1>1 DEF FreeItems, AheadWithout, ListsWellFormed
<1>5. \A i, j \in ItemsOn("queued")' :
        i # j => (i \in ahead'[j] <=> j \notin ahead'[i])
  <2> SUFFICES ASSUME NEW i \in ItemsOn("queued") \ S,
                      NEW j \in ItemsOn("queued") \ S, i # j
               PROVE  i \in ahead'[j] <=> j \notin ahead'[i]
    BY <1>1
  <2> i \in Item /\ j \in Item
    BY DEF ItemsOn
  <2>1. ahead'[i] = ahead[i] \ S /\ ahead'[j] = ahead[j] \ S
    BY DEF FreeItems, AheadWithout
  <2>2. i \in ahead[j] <=> j \notin ahead[i]
    BY DEF ListsWellFormed
  <2> QED BY <2>1, <2>2
<1> QED BY <1>2, <1>3, <1>4, <1>5 DEF ListsWellFormed

\* atbm_queue_remove keeps the lists well formed.
LEMMA RemoveLists ==
  ASSUME TypeOK, ListsWellFormed, NEW p \in PacketID, Remove(p)
  PROVE  ListsWellFormed'
<1>1. CASE RemoveValid(p)
  BY <1>1, FreeItemsLists DEF RemoveValid, PacketID
<1>2. CASE UNCHANGED <<itemVars, countVars, lockVars, generation>>
  BY <1>2 DEF ListsWellFormed, ItemsOn
<1> QED BY <1>1, <1>2 DEF Remove

\* atbm_queue_requeue, which puts a pending item at the head, keeps the lists
\* well formed.
LEMMA RequeueLists ==
  ASSUME TypeOK, ListsWellFormed, NEW p \in PacketID, NEW check \in BOOLEAN,
         Requeue(p, check), Valid(p) => where[p.item] = "pending"
  PROVE  ListsWellFormed'
<1>1. CASE Remove(p)
  BY <1>1, RemoveLists
<1>2. CASE UNCHANGED <<where, skb, igen, ahead, countVars, lockVars, generation>>
  BY <1>2 DEF ListsWellFormed, ItemsOn
<1>3. CASE Valid(p) /\ RequeueValid(p)
  <2> DEFINE k == p.item
  <2>1. k \in Item /\ where[k] = "pending"
    BY <1>3 DEF PacketID
  <2>2. /\ where' = [where EXCEPT ![k] = "queued"]
        /\ skb' = skb
        /\ ahead' = [i \in Item |->
                       IF where[i] = "queued" THEN ahead[i] \cup {k} ELSE {}]
    BY <1>3 DEF RequeueValid
  <2> HIDE DEF k
  <2>3. ItemsOn("queued")' = ItemsOn("queued") \cup {k}
    BY <2>1, <2>2 DEF ItemsOn, TypeOK
  <2>4. \A i \in Item : where'[i] = "free" <=> skb'[i] = None
    BY <2>1, <2>2 DEF ListsWellFormed, TypeOK
  <2>5. \A i, j \in Item : skb'[i] = skb'[j] /\ skb'[i] # None => i = j
    BY <2>2 DEF ListsWellFormed
  <2>6. \A i \in Item : ahead'[i] \subseteq ItemsOn("queued")' \ {i}
    BY <2>1, <2>2, <2>3 DEF ListsWellFormed
  <2>7. \A i, j \in ItemsOn("queued")' :
          i # j => (i \in ahead'[j] <=> j \notin ahead'[i])
    <3> SUFFICES ASSUME NEW i \in ItemsOn("queued") \cup {k},
                        NEW j \in ItemsOn("queued") \cup {k}, i # j
                 PROVE  i \in ahead'[j] <=> j \notin ahead'[i]
      BY <2>3
    <3>1. i \in Item /\ j \in Item /\ k \notin ItemsOn("queued")
      BY <2>1 DEF ItemsOn
    <3>2. CASE i = k
      BY <2>1, <2>2, <3>1, <3>2 DEF ItemsOn
    <3>3. CASE j = k
      BY <2>1, <2>2, <3>1, <3>3 DEF ItemsOn
    <3>4. CASE i # k /\ j # k
      <4>1. i \in ahead[j] <=> j \notin ahead[i]
        BY <3>4 DEF ListsWellFormed
      <4>2. ahead'[i] = ahead[i] \cup {k} /\ ahead'[j] = ahead[j] \cup {k}
        BY <2>2, <3>1, <3>4 DEF ItemsOn
      <4> QED BY <3>4, <4>1, <4>2
    <3> QED BY <3>2, <3>3, <3>4
  <2> QED BY <2>4, <2>5, <2>6, <2>7 DEF ListsWellFormed
<1> QED BY <1>1, <1>2, <1>3 DEF Requeue

\* atbm_queue_put, which adds an item at the tail, keeps the lists well formed.
LEMMA PutLists ==
  ASSUME TypeOK, ListsWellFormed, NEW f \in Frame, NEW k \in Item,
         NEW off \in BOOLEAN, Put(f, k, off)
  PROVE  ListsWellFormed'
<1>1. /\ where[k] = "free"
      /\ where' = [where EXCEPT ![k] = "queued"]
      /\ skb' = [skb EXCEPT ![k] = f]
      /\ ahead' = [ahead EXCEPT ![k] = ItemsOn("queued")]
      /\ \A j \in Item : skb[j] # f
  BY DEF Put
<1>2. ItemsOn("queued")' = ItemsOn("queued") \cup {k} /\ k \notin ItemsOn("queued")
  BY <1>1 DEF ItemsOn, TypeOK
<1>3. \A i \in Item : where'[i] = "free" <=> skb'[i] = None
  BY <1>1, SetAssumption DEF ListsWellFormed, TypeOK
<1>4. \A i, j \in Item : skb'[i] = skb'[j] /\ skb'[i] # None => i = j
  BY <1>1 DEF ListsWellFormed, TypeOK
<1>5. \A i \in Item : ahead'[i] \subseteq ItemsOn("queued")' \ {i}
  BY <1>1, <1>2 DEF ListsWellFormed, TypeOK
<1>6. \A i, j \in ItemsOn("queued")' :
        i # j => (i \in ahead'[j] <=> j \notin ahead'[i])
  <2> SUFFICES ASSUME NEW i \in ItemsOn("queued") \cup {k},
                      NEW j \in ItemsOn("queued") \cup {k}, i # j
               PROVE  i \in ahead'[j] <=> j \notin ahead'[i]
    BY <1>2
  <2>1. i \in Item /\ j \in Item
    BY DEF ItemsOn
  <2>2. k \notin ahead[i] /\ k \notin ahead[j]
    BY <1>2, <2>1 DEF ListsWellFormed
  <2>3. CASE i = k
    BY <1>1, <1>2, <2>1, <2>2, <2>3 DEF TypeOK
  <2>4. CASE j = k
    BY <1>1, <1>2, <2>1, <2>2, <2>4 DEF TypeOK
  <2>5. CASE i # k /\ j # k
    <3>1. ahead'[i] = ahead[i] /\ ahead'[j] = ahead[j]
      BY <1>1, <2>1, <2>5 DEF TypeOK
    <3> QED BY <2>5, <3>1 DEF ListsWellFormed
  <2> QED BY <2>3, <2>4, <2>5
<1> QED BY <1>3, <1>4, <1>5, <1>6 DEF ListsWellFormed

\* atbm_queue_get keeps the lists well formed.
LEMMA GetLists ==
  ASSUME TypeOK, ListsWellFormed, NEW v \in Vif, NEW mask, NEW listen \in BOOLEAN,
         Get(v, mask, listen)
  PROVE  ListsWellFormed'
<1>1. PICK k \in Matching(v, mask) : /\ where' = [where EXCEPT ![k] = "pending"]
                                     /\ ahead' = AheadWithout({k})
  BY DEF Get
<1>2. k \in Item /\ where[k] = "queued" /\ skb' = skb
  BY DEF Matching, VifItemsOn, ItemsOn, Get
<1>3. ItemsOn("queued")' = ItemsOn("queued") \ {k}
  BY <1>1, <1>2 DEF ItemsOn, TypeOK
<1>4. \A i \in Item : where'[i] = "free" <=> skb'[i] = None
  BY <1>1, <1>2 DEF ListsWellFormed, TypeOK
<1>5. \A i, j \in Item : skb'[i] = skb'[j] /\ skb'[i] # None => i = j
  BY <1>2 DEF ListsWellFormed
<1>6. \A i \in Item : ahead'[i] \subseteq ItemsOn("queued")' \ {i}
  BY <1>1, <1>3 DEF ListsWellFormed, AheadWithout
<1>7. \A i, j \in ItemsOn("queued")' :
        i # j => (i \in ahead'[j] <=> j \notin ahead'[i])
  <2> SUFFICES ASSUME NEW i \in ItemsOn("queued") \ {k},
                      NEW j \in ItemsOn("queued") \ {k}, i # j
               PROVE  i \in ahead'[j] <=> j \notin ahead'[i]
    BY <1>3
  <2>1. ahead'[i] = ahead[i] \ {k} /\ ahead'[j] = ahead[j] \ {k}
    BY <1>1 DEF AheadWithout, ItemsOn
  <2> QED BY <2>1 DEF ListsWellFormed
<1> QED BY <1>4, <1>5, <1>6, <1>7 DEF ListsWellFormed

\* Every step keeps the lists well formed.
LEMMA ListsStep ==
  ASSUME IdInv, [Next]_vars
  PROVE  ListsWellFormed'
<1> TypeOK /\ ListsWellFormed /\ CurrentIDIsItsFrame
  BY DEF IdInv
<1>1. ASSUME NEW f \in Frame, NEW i \in Item, NEW off \in BOOLEAN,
             Put(f, i, off)
      PROVE  ListsWellFormed'
  BY <1>1, PutLists
<1>2. ASSUME NEW v \in Vif, NEW mask \in SUBSET Link, NEW listen \in BOOLEAN,
             Get(v, mask, listen)
      PROVE  ListsWellFormed'
  BY <1>2, GetLists
<1>3. CASE BhFree
  BY <1>3, RemoveLists DEF BhFree, TypeOK
<1>4. CASE RxRemove
  BY <1>4, RemoveLists DEF RxRemove, TypeOK
<1>5. ASSUME NEW check \in BOOLEAN, RxRequeue(check) PROVE ListsWellFormed'
  <2>1. rx \in PacketID /\ (Valid(rx) => where[rx.item] = "pending")
    BY <1>5 DEF RxRequeue, TypeOK, CurrentIDIsItsFrame, Outstanding, Valid,
                Current
  <2> QED BY <1>5, <2>1, RequeueLists DEF RxRequeue
<1>6. ASSUME NEW S \in SUBSET Vif, ClearItems(S) PROVE ListsWellFormed'
  <2>1. UNION {Held(v) : v \in S} \in SUBSET Item
    BY DEF Held, VifItemsOn, ItemsOn
  <2> QED BY <1>6, <2>1, FreeItemsLists DEF ClearItems
<1>7. ASSUME NEW v \in Vif, NEW E \in SUBSET Item, Gc(v, E)
      PROVE  ListsWellFormed'
  BY <1>7, FreeItemsLists DEF Gc
<1>8. CASE UNCHANGED itemVars
  BY <1>8 DEF ListsWellFormed, ItemsOn
<1> QED
  BY <1>1, <1>2, <1>3, <1>4, <1>5, <1>6, <1>7, <1>8
     DEF Next, vars, BhSend, Confirm, ClearVif, ClearAll, TxQueuesLock,
         TxQueuesUnlock

-----------------------------------------------------------------------------
(* The packet IDs.                                                         *)

IDs == CurrentIDIsItsFrame /\ OneOwnerPerItem

\* A step that only touches items no current packet names, and brings in no
\* packet, leaves the IDs in order.
LEMMA IDsKept ==
  ASSUME IdInv, generation' = generation, Outstanding' \subseteq Outstanding,
         \A p \in Outstanding' : Current(p) =>
           /\ where'[p.item] = where[p.item]
           /\ skb'[p.item] = skb[p.item]
           /\ igen'[p.item] = igen[p.item]
  PROVE  CurrentIDIsItsFrame'
BY DEF IdInv, CurrentIDIsItsFrame, Current, Valid

\* A step that removes or requeues packet p and takes it from its owner
\* touches the item of no other current packet.
LEMMA OnePacketDone ==
  ASSUME IdInv, NEW p \in Outstanding, Outstanding' \subseteq Outstanding,
         Current(p) => p \notin Outstanding',
         generation' = generation,
         \A i \in Item : (~Valid(p) \/ i # p.item) =>
           where'[i] = where[i] /\ skb'[i] = skb[i] /\ igen'[i] = igen[i]
  PROVE  CurrentIDIsItsFrame'
<1>1. ASSUME NEW q \in Outstanding', Current(q)
      PROVE  /\ where'[q.item] = where[q.item]
             /\ skb'[q.item] = skb[q.item]
             /\ igen'[q.item] = igen[q.item]
  <2>1. q.item \in Item
    BY OutstandingType DEF IdInv, PacketID
  <2>2. ~Valid(p) \/ q.item # p.item
    BY <1>1 DEF IdInv, OneOwnerPerItem, Valid, Current
  <2> QED BY <2>1, <2>2
<1> QED BY <1>1, IDsKept

\* atbm_queue_remove changes no item but that of its packet.
LEMMA RemoveTouches ==
  ASSUME TypeOK, NEW p \in PacketID, Remove(p)
  PROVE  /\ generation' = generation
         /\ \A i \in Item : (~Valid(p) \/ i # p.item) =>
              where'[i] = where[i] /\ skb'[i] = skb[i] /\ igen'[i] = igen[i]
<1>1. CASE Valid(p) /\ RemoveValid(p)
  BY <1>1 DEF RemoveValid, FreeItems, TypeOK
<1>2. CASE UNCHANGED <<itemVars, countVars, lockVars, generation>>
  BY <1>2
<1> QED BY <1>1, <1>2 DEF Remove

\* atbm_queue_requeue changes no item but that of its packet.
LEMMA RequeueTouches ==
  ASSUME TypeOK, NEW p \in PacketID, NEW check \in BOOLEAN, Requeue(p, check)
  PROVE  /\ generation' = generation
         /\ \A i \in Item : (~Valid(p) \/ i # p.item) =>
              where'[i] = where[i] /\ skb'[i] = skb[i] /\ igen'[i] = igen[i]
<1>1. CASE Remove(p)
  BY <1>1, RemoveTouches
<1>2. CASE Valid(p) /\ RequeueValid(p)
  BY <1>2 DEF RequeueValid, TypeOK
<1>3. CASE UNCHANGED <<where, skb, igen, ahead, countVars, lockVars, generation>>
  BY <1>3
<1> QED BY <1>1, <1>2, <1>3 DEF Requeue

\* The ID atbm_queue_get issues is valid, and the IDs issued before stay so.
LEMMA GetIDs ==
  ASSUME IdInv, NEW v \in Vif, NEW mask, NEW listen \in BOOLEAN,
         Get(v, mask, listen)
  PROVE  IDs'
<1> TypeOK /\ ListsWellFormed /\ CurrentIDIsItsFrame /\ OneOwnerPerItem
  BY DEF IdInv
<1>1. PICK k \in Matching(v, mask) :
        /\ bh' = [qgen |-> generation, igen |-> igen[k], item |-> k,
                  vif |-> v, frame |-> skb[k]]
        /\ where' = [where EXCEPT ![k] = "pending"]
  BY DEF Get
<1>2. /\ k \in Item /\ where[k] = "queued" /\ VifOf[skb[k]] = v
      /\ skb' = skb /\ igen' = igen /\ generation' = generation
      /\ rx' = rx /\ device' = device /\ bh = None
  BY DEF Matching, VifItemsOn, ItemsOn, Get
<1>3. ASSUME NEW p \in Outstanding, Current(p)
      PROVE  p.item \in Item /\ p.item # k
  BY <1>2, <1>3, OutstandingType DEF CurrentIDIsItsFrame, PacketID
<1>4. Outstanding' = Outstanding \cup {bh'} /\ bh' # None
  <2>1. bh' \in PacketID
    <3> skb[k] \in Frame
      BY <1>2, SetAssumption DEF TypeOK, ListsWellFormed
    <3> QED BY <1>1, <1>2 DEF PacketID, TypeOK
  <2>2. bh' # None
    BY <2>1, NoneAssumption
  <2> QED BY <1>2, <2>2 DEF Outstanding
<1>5. CurrentIDIsItsFrame'
  <2> SUFFICES ASSUME NEW p \in Outstanding \cup {bh'}, Current(p)'
               PROVE  /\ Valid(p)' /\ where'[p.item] = "pending"
                      /\ skb'[p.item] = p.frame /\ VifOf[p.frame] = p.vif
    BY <1>4 DEF CurrentIDIsItsFrame
  <2>1. CASE p = bh'
    BY <1>1, <1>2, <2>1 DEF Valid, TypeOK
  <2>2. CASE p \in Outstanding
    <3>1. Current(p)
      BY <1>2 DEF Current
    <3> QED BY <1>1, <1>2, <1>3, <2>2, <3>1 DEF CurrentIDIsItsFrame, Valid, TypeOK
  <2> QED BY <2>1, <2>2
<1>6. OneOwnerPerItem'
  <2>1. \A p \in Outstanding : Current(p) => p # bh' /\ p.item # bh'.item
    BY <1>1, <1>3
  <2>2. \A p : Current(p)' <=> Current(p)
    BY <1>2 DEF Current
  <2>3. bh' \notin Outstanding
    BY <1>1, <2>1 DEF Current
  <2> QED BY <1>2, <1>4, <2>1, <2>2, <2>3 DEF OneOwnerPerItem, Outstanding
<1> QED BY <1>5, <1>6 DEF IDs

\* Every step keeps the IDs in order.
LEMMA IDsStep ==
  ASSUME IdInv, [Next]_vars
  PROVE  IDs'
<1> TypeOK /\ ListsWellFormed /\ CurrentIDIsItsFrame /\ OneOwnerPerItem
  BY DEF IdInv
<1>1. ASSUME NEW f \in Frame, NEW k \in Item, NEW off \in BOOLEAN,
             Put(f, k, off)
      PROVE  IDs'
  <2>1. /\ UNCHANGED <<generation, bh, rx, device>>
        /\ where[k] = "free"
        /\ \A i \in Item \ {k} :
             where'[i] = where[i] /\ skb'[i] = skb[i] /\ igen'[i] = igen[i]
    BY <1>1 DEF Put, TypeOK
  <2>2. Outstanding' = Outstanding
    BY <2>1 DEF Outstanding
  <2>3. ASSUME NEW p \in Outstanding, Current(p)
        PROVE  p.item \in Item \ {k}
    BY <2>1, <2>3, OutstandingType DEF CurrentIDIsItsFrame, PacketID
  <2>4. CurrentIDIsItsFrame'
    BY <2>1, <2>2, <2>3, IDsKept
  <2>5. OneOwnerPerItem'
    BY <2>1, <2>2 DEF OneOwnerPerItem, Current
  <2> QED BY <2>4, <2>5 DEF IDs
<1>2. ASSUME NEW v \in Vif, NEW mask \in SUBSET Link, NEW listen \in BOOLEAN,
             Get(v, mask, listen)
      PROVE  IDs'
  BY <1>2, GetIDs
<1>3. CASE BhFree
  <2>1. bh \in PacketID /\ bh \in Outstanding
    BY <1>3 DEF BhFree, TypeOK, Outstanding
  <2>2. Outstanding' = device \cup ({rx} \ {None})
    BY <1>3 DEF BhFree, Outstanding
  <2>3. Current(bh) => bh \notin Outstanding'
    BY <1>3, <2>2 DEF OneOwnerPerItem, BhFree
  <2>4. generation' = generation
    BY <1>3, <2>1, RemoveTouches DEF BhFree
  <2>5. CurrentIDIsItsFrame'
    BY <1>3, <2>1, <2>2, <2>3, RemoveTouches, OnePacketDone
       DEF BhFree, Outstanding
  <2>6. OneOwnerPerItem'
    BY <1>3, <2>2, <2>4 DEF OneOwnerPerItem, Current, Outstanding, BhFree
  <2> QED BY <2>5, <2>6 DEF IDs
<1>4. CASE BhSend
  <2>1. /\ Outstanding' = Outstanding
        /\ UNCHANGED <<where, skb, igen, generation, rx>>
        /\ bh' = None /\ device' = device \cup {bh}
    BY <1>4 DEF BhSend, Outstanding
  <2>2. CurrentIDIsItsFrame'
    BY <2>1, IDsKept
  <2>3. OneOwnerPerItem'
    BY <1>4, <2>1 DEF OneOwnerPerItem, Current, BhSend
  <2> QED BY <2>2, <2>3 DEF IDs
<1>5. ASSUME NEW p \in device, Confirm(p) PROVE IDs'
  <2>1. /\ Outstanding' \subseteq Outstanding
        /\ UNCHANGED <<where, skb, igen, generation, bh>>
        /\ device' = device \ {p} /\ rx = None
        /\ rx' = IF Valid(p) THEN p ELSE None
    BY <1>5 DEF Confirm, Outstanding
  <2>2. CurrentIDIsItsFrame'
    BY <2>1, IDsKept
  <2>3. OneOwnerPerItem'
    BY <2>1 DEF OneOwnerPerItem, Current, Outstanding
  <2> QED BY <2>2, <2>3 DEF IDs
<1>6. ASSUME rx # None, rx' = None, UNCHANGED <<bh, device>>,
             Remove(rx) \/ \E check \in BOOLEAN : Requeue(rx, check)
      PROVE  IDs'
  <2>1. rx \in PacketID /\ rx \in Outstanding
    BY <1>6 DEF TypeOK, Outstanding
  <2>2. Outstanding' = device \cup ({bh} \ {None})
    BY <1>6 DEF Outstanding
  <2>3. Current(rx) => rx \notin Outstanding'
    BY <1>6, <2>2 DEF OneOwnerPerItem
  <2>4. /\ generation' = generation
        /\ \A i \in Item : (~Valid(rx) \/ i # rx.item) =>
             where'[i] = where[i] /\ skb'[i] = skb[i] /\ igen'[i] = igen[i]
    BY <1>6, <2>1, RemoveTouches, RequeueTouches
  <2>5. CurrentIDIsItsFrame'
    BY <2>1, <2>2, <2>3, <2>4, OnePacketDone DEF Outstanding
  <2>6. OneOwnerPerItem'
    BY <1>6, <2>2, <2>4 DEF OneOwnerPerItem, Current, Outstanding
  <2> QED BY <2>5, <2>6 DEF IDs
<1>7. ASSUME NEW v \in Vif, ClearVif(v) PROVE IDs'
  <2>1. /\ Outstanding' \subseteq Outstanding /\ generation' = NextGeneration
        /\ \A p \in Outstanding : p.qgen # NextGeneration
    BY <1>7 DEF ClearVif, ClearItems, FreshGeneration, Outstanding
  <2>2. \A p \in Outstanding' : ~Current(p)'
    BY <2>1 DEF Current
  <2> QED BY <2>2
          DEF IDs, CurrentIDIsItsFrame, OneOwnerPerItem, Outstanding
<1>8. CASE ClearAll
  <2>1. Outstanding' = {} /\ bh' = None /\ rx' = None
    BY <1>8 DEF ClearAll, Outstanding
  <2> QED BY <2>1 DEF IDs, CurrentIDIsItsFrame, OneOwnerPerItem
<1>9. ASSUME NEW v \in Vif, NEW E \in SUBSET Item, Gc(v, E) PROVE IDs'
  <2>1. /\ UNCHANGED <<igen, generation, bh, rx, device>>
        /\ \A i \in E : where[i] = "queued"
        /\ \A i \in Item \ E : where'[i] = where[i] /\ skb'[i] = skb[i]
    BY <1>9 DEF Gc, VifItemsOn, ItemsOn, FreeItems
  <2>2. Outstanding' = Outstanding
    BY <2>1 DEF Outstanding
  <2>3. ASSUME NEW p \in Outstanding, Current(p)
        PROVE  p.item \in Item \ E
    BY <2>1, <2>3, OutstandingType DEF CurrentIDIsItsFrame, PacketID
  <2>4. CurrentIDIsItsFrame'
    BY <2>1, <2>2, <2>3, IDsKept
  <2>5. OneOwnerPerItem'
    BY <2>1, <2>2 DEF OneOwnerPerItem, Current
  <2> QED BY <2>4, <2>5 DEF IDs
<1>10. CASE UNCHANGED <<itemVars, actorVars, generation>>
  <2>1. Outstanding' = Outstanding
    BY <1>10 DEF Outstanding
  <2> QED BY <1>10, <2>1
          DEF IDs, CurrentIDIsItsFrame, OneOwnerPerItem, Current, Valid
<1> QED
  BY <1>1, <1>2, <1>3, <1>4, <1>5, <1>6, <1>7, <1>8, <1>9, <1>10
     DEF Next, vars, RxRemove, RxRequeue, TxQueuesLock, TxQueuesUnlock

\* An empty queue with no packet outstanding satisfies the invariant.
LEMMA IdInvInit ==
  ASSUME Init
  PROVE  IdInv
<1>1. TypeOK
  <2>1. 0 \in 0 .. GenMod - 1 /\ 0 \in 0 .. 255 /\ 0 \in Int
    BY NumberAssumption
  <2>2. \A S, x, y : y \in S => [a \in x |-> y] \in [x -> S]
    OBVIOUS
  <2> QED BY <2>1, <2>2, Zenon DEF Init, TypeOK
<1>2. ListsWellFormed
  BY DEF Init, ListsWellFormed, ItemsOn
<1>3. Outstanding = {}
  BY DEF Init, Outstanding
<1>4. CurrentIDIsItsFrame /\ OneOwnerPerItem
  BY <1>3 DEF Init, CurrentIDIsItsFrame, OneOwnerPerItem
<1> QED BY <1>1, <1>2, <1>4 DEF IdInv

\* The strengthened invariant holds in every reachable state.
LEMMA IdInvariant == Spec => []IdInv
<1>1. IdInv /\ [Next]_vars => IdInv'
  BY TypeStep, ListsStep, IDsStep DEF IdInv, IDs
<1> QED BY IdInvInit, <1>1, PTL DEF Spec

\* Every variable of the queue keeps its type; in particular a generation stays
\* below GenMod, what the mask of atbm_queue_clear is for.
THEOREM TypeCorrect == Spec => []TypeOK
<1>1. IdInv => TypeOK
  BY DEF IdInv
<1> QED BY <1>1, IdInvariant, PTL

\* Whatever puts, expiries, clears, restarts and retries happen, a packet ID
\* of the current generation means the frame it was issued for, still pending:
\* atbm_queue_remove, atbm_queue_requeue and atbm_queue_get_skb never act on
\* a frame that reused the slot.
THEOREM CurrentIDCorrect == Spec => []CurrentIDIsItsFrame
<1>1. IdInv => CurrentIDIsItsFrame
  BY DEF IdInv
<1> QED BY <1>1, IdInvariant, PTL

\* A pending frame has one owner: it is never with the bottom half, with the
\* receive path and with the device at once.
THEOREM OneOwnerCorrect == Spec => []OneOwnerPerItem
<1>1. IdInv => OneOwnerPerItem
  BY DEF IdInv
<1> QED BY <1>1, IdInvariant, PTL

\* The free pool and the lists of the queue stay well formed, so the
\* BUG_ON(item->skb) of atbm_queue_put never fires.
THEOREM ListsCorrect == Spec => []ListsWellFormed
<1>1. IdInv => ListsWellFormed
  BY DEF IdInv
<1> QED BY <1>1, IdInvariant, PTL

-----------------------------------------------------------------------------
(* The lock count.                                                         *)

\* The number of reasons to hold an interface is a natural number.
LEMMA ReasonsType ==
  ASSUME TypeOK, NEW v \in Vif
  PROVE  Reasons(v) \in Nat
BY DEF TypeOK, Reasons

\* A step that locks (unlocks) the interfaces of S and adds (takes away) one
\* reason for each of them keeps the count exact.
LEMMA LockExact ==
  ASSUME TypeOK, LocksExact, NEW S, QueueLock(S),
         \A v \in Vif : Reasons(v)' = IF v \in S THEN Reasons(v) + 1
                                                 ELSE Reasons(v)
  PROVE  LocksExact'
<1> SUFFICES ASSUME NEW v \in Vif
             PROVE  /\ tx_locked_cnt'[v] = Reasons(v)'
                    /\ stopped'[v] <=> tx_locked_cnt'[v] > 0
  BY DEF LocksExact
<1>1. Reasons(v) \in Nat /\ tx_locked_cnt[v] = Reasons(v)
  BY ReasonsType DEF LocksExact
<1>2. stopped[v] <=> tx_locked_cnt[v] > 0
  BY DEF LocksExact
<1>3. CASE v \in S
  BY <1>1, <1>2, <1>3 DEF QueueLock
<1>4. CASE v \notin S
  BY <1>1, <1>2, <1>4 DEF QueueLock
<1> QED BY <1>3, <1>4

\* Unlocking interfaces that have one reason less keeps the count exact.
LEMMA UnlockExact ==
  ASSUME TypeOK, LocksExact, NEW S, QueueUnlock(S),
         \A v \in Vif : /\ v \in S => Reasons(v) > 0
                        /\ Reasons(v)' = IF v \in S THEN Reasons(v) - 1
                                                    ELSE Reasons(v)
  PROVE  LocksExact'
<1> SUFFICES ASSUME NEW v \in Vif
             PROVE  /\ tx_locked_cnt'[v] = Reasons(v)'
                    /\ stopped'[v] <=> tx_locked_cnt'[v] > 0
  BY DEF LocksExact
<1>1. Reasons(v) \in Nat /\ tx_locked_cnt[v] = Reasons(v)
  BY ReasonsType DEF LocksExact
<1>2. stopped[v] <=> tx_locked_cnt[v] > 0
  BY DEF LocksExact
<1>3. CASE v \in S
  BY <1>1, <1>2, <1>3 DEF QueueUnlock
<1>4. CASE v \notin S
  BY <1>1, <1>2, <1>4 DEF QueueUnlock
<1> QED BY <1>3, <1>4

\* Releasing overfull interfaces keeps the count exact.
LEMMA ReleaseExact ==
  ASSUME TypeOK, LocksExact, NEW S, ReleaseOverfull(S), extLock' = extLock
  PROVE  LocksExact'
<1> DEFINE R == {v \in S : overfull[v]}
<1>1. QueueUnlock(R)
  BY DEF ReleaseOverfull
<1>2. ASSUME NEW v \in Vif
      PROVE  /\ v \in R => Reasons(v) > 0
             /\ Reasons(v)' = IF v \in R THEN Reasons(v) - 1 ELSE Reasons(v)
  <2>1. overfull'[v] <=> overfull[v] /\ v \notin R
    BY DEF ReleaseOverfull
  <2>2. CASE v \in R
    BY <2>1, <2>2 DEF Reasons
  <2>3. CASE v \notin R
    BY <2>1, <2>3 DEF Reasons
  <2> QED BY <2>2, <2>3
<1> QED BY <1>1, <1>2, UnlockExact

\* A step that leaves the locks alone keeps the count exact.
LEMMA LocksKept ==
  ASSUME LocksExact, UNCHANGED <<overfull, tx_locked_cnt, stopped, extLock>>
  PROVE  LocksExact'
BY DEF LocksExact, Reasons

\* Every step keeps the lock count exact.
LEMMA LocksStep ==
  ASSUME TypeOK, LocksExact, [Next]_vars
  PROVE  LocksExact'
<1>1. ASSUME NEW f \in Frame, NEW i \in Item, NEW off \in BOOLEAN,
             Put(f, i, off)
      PROVE  LocksExact'
  <2> DEFINE v == VifOf[f]
  <2>1. CASE ~overfull[v] /\ overfull' = [overfull EXCEPT ![v] = TRUE]
             /\ QueueLock({v})
    <3>1. v \in Vif /\ extLock' = extLock
      BY <1>1, TxprivAssumption DEF Put
    <3> HIDE DEF v
    <3>2. \A w \in Vif : Reasons(w)' = IF w \in {v} THEN Reasons(w) + 1
                                                    ELSE Reasons(w)
      BY <2>1, <3>1 DEF Reasons, TypeOK
    <3> QED BY <2>1, <3>2, LockExact
  <2>2. CASE UNCHANGED <<overfull, tx_locked_cnt, stopped>>
    BY <1>1, <2>2, LocksKept DEF Put
  <2> QED BY <1>1, <2>1, <2>2 DEF Put, StopIfOverflown
<1>2. ASSUME NEW p, Remove(p) PROVE LocksExact'
  BY <1>2, ReleaseExact, LocksKept DEF Remove, RemoveValid
<1>3. ASSUME NEW p, NEW check, Requeue(p, check) PROVE LocksExact'
  BY <1>2, <1>3, LocksKept DEF Requeue, RequeueValid
<1>4. ASSUME NEW S, ClearItems(S) PROVE LocksExact'
  BY <1>4, ReleaseExact DEF ClearItems
<1>5. ASSUME NEW v \in Vif, NEW E \in SUBSET Item, Gc(v, E) PROVE LocksExact'
  BY <1>5, ReleaseExact, LocksKept DEF Gc
<1>6. CASE TxQueuesLock
  <2>1. \A v \in Vif : Reasons(v)' = IF v \in Vif THEN Reasons(v) + 1
                                                  ELSE Reasons(v)
    BY <1>6 DEF TxQueuesLock, Reasons
  <2> QED BY <1>6, <2>1, LockExact DEF TxQueuesLock
<1>7. CASE TxQueuesUnlock
  <2>1. \A v \in Vif : /\ Reasons(v) > 0
                       /\ Reasons(v)' = IF v \in Vif THEN Reasons(v) - 1
                                                      ELSE Reasons(v)
    BY <1>7 DEF TxQueuesUnlock, Reasons
  <2> QED BY <1>7, <2>1, UnlockExact DEF TxQueuesUnlock
<1>8. CASE UNCHANGED lockVars
  BY <1>8, LocksKept
<1> QED
  BY <1>1, <1>2, <1>3, <1>4, <1>5, <1>6, <1>7, <1>8
     DEF Next, vars, Get, BhFree, BhSend, Confirm, RxRemove, RxRequeue,
         ClearVif, ClearAll

\* The lock count is the number of reasons to stop the interface and mac80211
\* is stopped exactly while there is one: the BUG_ONs of __atbm_queue_lock and
\* __atbm_queue_unlock never fire and no stop is lost.
THEOREM LocksCorrect == Spec => []LocksExact
<1>1. Init => LocksExact
  BY DEF Init, LocksExact, Reasons
<1>2. IdInv /\ LocksExact /\ [Next]_vars => LocksExact'
  BY LocksStep DEF IdInv
<1> QED BY <1>1, <1>2, IdInvariant, PTL DEF Spec

-----------------------------------------------------------------------------
(* The counters.                                                           *)

\* Sets of items are finite.
LEMMA FiniteItems ==
  ASSUME NEW T \in SUBSET Item
  PROVE  IsFiniteSet(T) /\ Cardinality(T) \in Nat
BY SetAssumption, FS_Subset, FS_CardinalityType

\* A set of items grows by one when an item is added.
LEMMA CardAdd ==
  ASSUME NEW T \in SUBSET Item, NEW k \in Item \ T
  PROVE  Cardinality(T \cup {k}) = Cardinality(T) + 1
BY FiniteItems, FS_AddElement

\* A set of items shrinks by one when one of its items leaves.
LEMMA CardRemove ==
  ASSUME NEW T \in SUBSET Item, NEW k \in T
  PROVE  Cardinality(T \ {k}) = Cardinality(T) - 1
BY FiniteItems, FS_RemoveElement

\* A set of items shrinks by the size of a subset that leaves.
LEMMA CardWithout ==
  ASSUME NEW T \in SUBSET Item, NEW S \in SUBSET T
  PROVE  Cardinality(T \ S) = Cardinality(T) - Cardinality(S)
<1>1. T \cap S = S
  OBVIOUS
<1> QED BY <1>1, FiniteItems, FS_Difference

\* The sets the counters count.
InUse == ItemsOn("queued") \cup ItemsOn("pending")

\* The sets the counters count are sets of items.
LEMMA CountedSets ==
  /\ InUse \in SUBSET Item
  /\ \A l : ItemsOn(l) \in SUBSET Item
  /\ \A l, v : VifItemsOn(l, v) \in SUBSET Item
  /\ \A v : Held(v) \in SUBSET Item
  /\ \A v, l : QueuedOn(v, l) \in SUBSET Item
BY DEF InUse, ItemsOn, VifItemsOn, Held, QueuedOn

\* CountersExact, with the items in use counted as one set.
LEMMA CountersByInUse ==
  CountersExact <=>
    /\ num_queued = Cardinality(InUse)
    /\ num_pending = Cardinality(ItemsOn("pending"))
    /\ \A v \in Vif :
         /\ num_queued_vif[v] = Cardinality(Held(v))
         /\ num_pending_vif[v] = Cardinality(VifItemsOn("pending", v))
         /\ stats_num_queued[v] = Cardinality(VifItemsOn("queued", v))
         /\ \A l \in Link : link_map_cache[v][l] = Cardinality(QueuedOn(v, l))
BY DEF CountersExact, InUse

\* Freeing items takes them out of every counted set.
LEMMA FreeSets ==
  ASSUME TypeOK, NEW S \in SUBSET Item, FreeItems(S)
  PROVE  /\ InUse' = InUse \ S
         /\ ItemsOn("pending")' = ItemsOn("pending") \ S
         /\ \A v \in Vif :
              /\ Held(v)' = Held(v) \ S
              /\ VifItemsOn("pending", v)' = VifItemsOn("pending", v) \ S
              /\ VifItemsOn("queued", v)' = VifItemsOn("queued", v) \ S
              /\ \A l \in Link : QueuedOn(v, l)' = QueuedOn(v, l) \ S
<1>1. \A i \in Item : /\ i \in S => where'[i] = "free"
                      /\ i \notin S => where'[i] = where[i] /\ skb'[i] = skb[i]
  BY DEF FreeItems
<1>2. \A l \in {"queued", "pending"} : ItemsOn(l)' = ItemsOn(l) \ S
  BY <1>1 DEF ItemsOn
<1>3. \A v \in Vif, l \in {"queued", "pending"} :
        VifItemsOn(l, v)' = VifItemsOn(l, v) \ S
  BY <1>1, <1>2 DEF VifItemsOn, ItemsOn
<1>4. \A v \in Vif : Held(v)' = Held(v) \ S
  BY <1>3 DEF Held
<1>5. \A v \in Vif, l \in Link : QueuedOn(v, l)' = QueuedOn(v, l) \ S
  BY <1>1, <1>3 DEF QueuedOn, VifItemsOn, ItemsOn
<1> QED BY <1>2, <1>3, <1>4, <1>5 DEF InUse

\* Freed items that v does not hold leave the sets of v alone.
LEMMA FreeSetsOther ==
  ASSUME TypeOK, NEW S \in SUBSET Item, FreeItems(S),
         NEW v \in Vif, Held(v) \cap S = {}
  PROVE  /\ Held(v)' = Held(v)
         /\ VifItemsOn("pending", v)' = VifItemsOn("pending", v)
         /\ VifItemsOn("queued", v)' = VifItemsOn("queued", v)
         /\ \A l \in Link : QueuedOn(v, l)' = QueuedOn(v, l)
<1>1. /\ Held(v) \ S = Held(v)
      /\ VifItemsOn("pending", v) \ S = VifItemsOn("pending", v)
      /\ VifItemsOn("queued", v) \ S = VifItemsOn("queued", v)
      /\ \A l \in Link : QueuedOn(v, l) \ S = QueuedOn(v, l)
  BY DEF Held, QueuedOn
<1>2. /\ Held(v)' = Held(v) \ S
      /\ VifItemsOn("pending", v)' = VifItemsOn("pending", v) \ S
      /\ VifItemsOn("queued", v)' = VifItemsOn("queued", v) \ S
      /\ \A l \in Link : QueuedOn(v, l)' = QueuedOn(v, l) \ S
  BY FreeSets
<1>3. ASSUME NEW l \in Link PROVE QueuedOn(v, l)' = QueuedOn(v, l)
  BY <1>1, <1>2
<1> QED BY <1>1, <1>2, <1>3

\* A step that changes neither lists nor counters keeps them in agreement.
LEMMA CountersKept ==
  ASSUME CountersExact, UNCHANGED <<countVars, where, skb>>
  PROVE  CountersExact'
<1>1. /\ InUse' = InUse /\ ItemsOn("pending")' = ItemsOn("pending")
      /\ \A v : /\ Held(v)' = Held(v)
               /\ VifItemsOn("pending", v)' = VifItemsOn("pending", v)
               /\ VifItemsOn("queued", v)' = VifItemsOn("queued", v)
               /\ \A l : QueuedOn(v, l)' = QueuedOn(v, l)
  BY DEF InUse, ItemsOn, VifItemsOn, Held, QueuedOn
<1>2. num_queued' = Cardinality(InUse') /\ num_pending' = Cardinality(ItemsOn("pending")')
  BY <1>1, CountersByInUse
<1>3. ASSUME NEW v \in Vif
      PROVE  /\ num_queued_vif'[v] = Cardinality(Held(v)')
             /\ num_pending_vif'[v] = Cardinality(VifItemsOn("pending", v)')
             /\ stats_num_queued'[v] = Cardinality(VifItemsOn("queued", v)')
             /\ \A l \in Link :
                  link_map_cache'[v][l] = Cardinality(QueuedOn(v, l)')
  BY <1>1, CountersByInUse, Zenon
<1> QED BY <1>2, <1>3, Zenon DEF CountersExact, InUse

\* atbm_queue_remove keeps the counters exact.
LEMMA RemoveCounters ==
  ASSUME TypeOK, CountersExact, NEW p \in PacketID, Remove(p),
         Valid(p) => where[p.item] = "pending" /\ VifOf[skb[p.item]] = p.vif
  PROVE  CountersExact'
<1>1. CASE Valid(p) /\ RemoveValid(p)
  <2> DEFINE k == p.item
             w == p.vif
  <2>1. /\ k \in Item /\ w \in Vif /\ where[k] = "pending" /\ VifOf[skb[k]] = w
        /\ FreeItems({k})
        /\ num_pending' = num_pending - 1
        /\ num_pending_vif' = [num_pending_vif EXCEPT ![w] = @ - 1]
        /\ num_queued' = num_queued - 1
        /\ num_queued_vif' = [num_queued_vif EXCEPT ![w] = @ - 1]
        /\ UNCHANGED <<link_map_cache, stats_num_queued>>
    BY <1>1 DEF RemoveValid, PacketID
  <2> HIDE DEF k, w
  <2>2. /\ k \in InUse /\ k \in ItemsOn("pending")
        /\ k \in Held(w) /\ k \in VifItemsOn("pending", w)
        /\ \A v \in Vif \ {w} : Held(v) \cap {k} = {}
        /\ \A v \in Vif : /\ k \notin VifItemsOn("queued", v)
                          /\ \A l \in Link : k \notin QueuedOn(v, l)
    BY <2>1 DEF InUse, ItemsOn, Held, VifItemsOn, QueuedOn
  <2>3. /\ num_queued' = Cardinality(InUse')
        /\ num_pending' = Cardinality(ItemsOn("pending")')
    BY <2>1, <2>2, FreeSets, CardRemove, CountedSets, CountersByInUse
  <2>4. ASSUME NEW v \in Vif
        PROVE  /\ num_queued_vif'[v] = Cardinality(Held(v)')
               /\ num_pending_vif'[v] = Cardinality(VifItemsOn("pending", v)')
    <3>1. CASE v = w
      <4>1. /\ Held(v)' = Held(v) \ {k}
            /\ VifItemsOn("pending", v)' = VifItemsOn("pending", v) \ {k}
        BY <2>1, FreeSets
      <4>2. /\ Cardinality(Held(v)') = Cardinality(Held(v)) - 1
            /\ Cardinality(VifItemsOn("pending", v)')
                 = Cardinality(VifItemsOn("pending", v)) - 1
        BY <2>2, <3>1, <4>1, CardRemove, CountedSets
      <4>3. /\ num_queued_vif'[v] = num_queued_vif[v] - 1
            /\ num_pending_vif'[v] = num_pending_vif[v] - 1
        <5> /\ num_queued_vif \in [Vif -> Int] /\ num_pending_vif \in [Vif -> Int]
          BY DEF TypeOK
        <5> QED BY <2>1, <3>1
      <4> QED BY <4>2, <4>3, CountersByInUse
    <3>2. CASE v # w
      <4>1. /\ Held(v)' = Held(v)
            /\ VifItemsOn("pending", v)' = VifItemsOn("pending", v)
        BY <2>1, <2>2, <3>2, FreeSetsOther
      <4>2. /\ num_queued_vif'[v] = num_queued_vif[v]
            /\ num_pending_vif'[v] = num_pending_vif[v]
        BY <2>1, <3>2 DEF TypeOK
      <4> QED BY <4>1, <4>2, CountersByInUse
    <3> QED BY <3>1, <3>2
  <2>5. ASSUME NEW v \in Vif
        PROVE  /\ stats_num_queued'[v] = Cardinality(VifItemsOn("queued", v)')
               /\ \A l \in Link :
                    link_map_cache'[v][l] = Cardinality(QueuedOn(v, l)')
    <3>1. /\ VifItemsOn("queued", v) \ {k} = VifItemsOn("queued", v)
          /\ \A l \in Link : QueuedOn(v, l) \ {k} = QueuedOn(v, l)
      BY <2>2
    <3>2. /\ VifItemsOn("queued", v)' = VifItemsOn("queued", v)
          /\ \A l \in Link : QueuedOn(v, l)' = QueuedOn(v, l)
      <4>1. /\ VifItemsOn("queued", v)' = VifItemsOn("queued", v) \ {k}
            /\ \A l \in Link : QueuedOn(v, l)' = QueuedOn(v, l) \ {k}
        BY <2>1, FreeSets
      <4>2. ASSUME NEW l \in Link PROVE QueuedOn(v, l)' = QueuedOn(v, l)
        BY <3>1, <4>1
      <4> QED BY <3>1, <4>1, <4>2
    <3> QED BY <2>1, <3>2, CountersByInUse, Zenon
  <2> QED BY <2>3, <2>4, <2>5 DEF CountersExact, InUse
<1>2. CASE UNCHANGED <<itemVars, countVars, lockVars, generation>>
  BY <1>2, CountersKept
<1> QED BY <1>1, <1>2 DEF Remove

\* atbm_queue_clear keeps the counters exact.
LEMMA ClearCounters ==
  ASSUME TypeOK, CountersExact, NEW S \in SUBSET Vif, ClearItems(S)
  PROVE  CountersExact'
<1> DEFINE C == UNION {Held(v) : v \in S}
           P == UNION {VifItemsOn("pending", v) : v \in S}
<1>1. /\ FreeItems(C) /\ C \in SUBSET Item
      /\ num_pending' = num_pending - Cardinality(P)
      /\ num_queued' = num_queued - Cardinality(C)
  BY CountedSets DEF ClearItems
<1>2. C \in SUBSET InUse /\ P \in SUBSET ItemsOn("pending")
  BY DEF InUse, Held, VifItemsOn
<1>3. ItemsOn("pending") \ C = ItemsOn("pending") \ P
  BY DEF Held, VifItemsOn, ItemsOn
<1>4. \A v \in S : /\ Held(v) \ C = {} /\ VifItemsOn("pending", v) \ C = {}
                   /\ VifItemsOn("queued", v) \ C = {}
                   /\ \A l \in Link : QueuedOn(v, l) \ C = {}
  BY DEF Held, QueuedOn
<1>5. \A v \in Vif \ S : Held(v) \cap C = {}
  BY DEF Held, VifItemsOn
<1> HIDE DEF C, P
<1>6. /\ num_queued' = Cardinality(InUse')
      /\ num_pending' = Cardinality(ItemsOn("pending")')
  BY <1>1, <1>2, <1>3, FreeSets, CardWithout, CountedSets, CountersByInUse
<1>7. ASSUME NEW v \in Vif
      PROVE  /\ num_queued_vif'[v] = Cardinality(Held(v)')
             /\ num_pending_vif'[v] = Cardinality(VifItemsOn("pending", v)')
             /\ stats_num_queued'[v] = Cardinality(VifItemsOn("queued", v)')
             /\ \A l \in Link :
                  link_map_cache'[v][l] = Cardinality(QueuedOn(v, l)')
  <2>1. CASE v \in S
    <3>1. /\ Held(v)' = {} /\ VifItemsOn("pending", v)' = {}
          /\ VifItemsOn("queued", v)' = {}
          /\ \A l \in Link : QueuedOn(v, l)' = {}
      BY <1>1, <1>4, <2>1, FreeSets
    <3> QED BY <2>1, <3>1, FS_EmptySet DEF ClearItems
  <2>2. CASE v \notin S
    <3>1. /\ Held(v)' = Held(v)
          /\ VifItemsOn("pending", v)' = VifItemsOn("pending", v)
          /\ VifItemsOn("queued", v)' = VifItemsOn("queued", v)
          /\ \A l \in Link : QueuedOn(v, l)' = QueuedOn(v, l)
      BY <1>1, <1>5, <2>2, FreeSetsOther
    <3>2. /\ num_queued_vif'[v] = num_queued_vif[v]
          /\ num_pending_vif'[v] = num_pending_vif[v]
          /\ stats_num_queued'[v] = stats_num_queued[v]
          /\ link_map_cache'[v] = link_map_cache[v]
      BY <2>2 DEF ClearItems
    <3> QED BY <3>1, <3>2, CountersByInUse, Zenon
  <2> QED BY <2>1, <2>2
<1> QED BY <1>6, <1>7 DEF CountersExact, InUse

\* atbm_queue_gc keeps the counters exact.
LEMMA GcCounters ==
  ASSUME TypeOK, CountersExact, NEW v \in Vif, NEW E \in SUBSET Item, Gc(v, E)
  PROVE  CountersExact'
<1>1. /\ FreeItems(E) /\ E \in SUBSET VifItemsOn("queued", v)
      /\ num_queued' = num_queued - Cardinality(E)
      /\ num_queued_vif' = [num_queued_vif EXCEPT ![v] = @ - Cardinality(E)]
      /\ stats_num_queued' = [stats_num_queued EXCEPT ![v] = @ - Cardinality(E)]
      /\ link_map_cache' =
           [link_map_cache EXCEPT ![v] = [l \in Link |->
              @[l] - Cardinality({i \in E : LinkOf[skb[i]] = l})]]
      /\ UNCHANGED <<num_pending, num_pending_vif>>
  BY DEF Gc
<1>2. /\ E \in SUBSET InUse /\ E \in SUBSET Held(v)
      /\ ItemsOn("pending") \ E = ItemsOn("pending")
      /\ \A w \in Vif : VifItemsOn("pending", w) \ E = VifItemsOn("pending", w)
      /\ \A w \in Vif \ {v} : Held(w) \cap E = {}
  BY <1>1 DEF InUse, Held, VifItemsOn, ItemsOn
<1>3. /\ num_queued' = Cardinality(InUse')
      /\ num_pending' = Cardinality(ItemsOn("pending")')
  <2>1. /\ InUse' = InUse \ E
        /\ ItemsOn("pending")' = ItemsOn("pending") \ E
    BY <1>1, FreeSets
  <2>2. Cardinality(InUse') = Cardinality(InUse) - Cardinality(E)
    BY <1>2, <2>1, CardWithout, CountedSets
  <2> QED BY <1>1, <1>2, <2>1, <2>2, CountersByInUse
<1>4. ASSUME NEW w \in Vif
      PROVE  /\ num_queued_vif'[w] = Cardinality(Held(w)')
             /\ num_pending_vif'[w] = Cardinality(VifItemsOn("pending", w)')
             /\ stats_num_queued'[w] = Cardinality(VifItemsOn("queued", w)')
             /\ \A l \in Link :
                  link_map_cache'[w][l] = Cardinality(QueuedOn(w, l)')
  <2>1. CASE w = v
    <3>1. /\ Held(v)' = Held(v) \ E
          /\ VifItemsOn("pending", v)' = VifItemsOn("pending", v)
          /\ VifItemsOn("queued", v)' = VifItemsOn("queued", v) \ E
          /\ \A l \in Link : QueuedOn(v, l)' = QueuedOn(v, l) \ E
      <4>1. /\ Held(v)' = Held(v) \ E
            /\ VifItemsOn("pending", v)' = VifItemsOn("pending", v) \ E
            /\ VifItemsOn("queued", v)' = VifItemsOn("queued", v) \ E
            /\ \A l \in Link : QueuedOn(v, l)' = QueuedOn(v, l) \ E
        BY <1>1, FreeSets
      <4> QED BY <1>2, <4>1
    <3>2. /\ Cardinality(Held(v)') = Cardinality(Held(v)) - Cardinality(E)
          /\ Cardinality(VifItemsOn("queued", v)')
               = Cardinality(VifItemsOn("queued", v)) - Cardinality(E)
      BY <1>1, <1>2, <3>1, CardWithout, CountedSets
    <3>3. /\ num_queued_vif'[v] = num_queued_vif[v] - Cardinality(E)
          /\ num_pending_vif'[v] = num_pending_vif[v]
          /\ stats_num_queued'[v] = stats_num_queued[v] - Cardinality(E)
      <4> /\ num_queued_vif \in [Vif -> Int] /\ stats_num_queued \in [Vif -> Int]
        BY DEF TypeOK
      <4> QED BY <1>1
    <3>4. ASSUME NEW l \in Link
          PROVE  link_map_cache'[v][l] = Cardinality(QueuedOn(v, l)')
      <4> DEFINE El == {i \in E : LinkOf[skb[i]] = l}
      <4>1. link_map_cache'[v][l] = link_map_cache[v][l] - Cardinality(El)
        <5> link_map_cache \in [Vif -> [Link -> Int]]
          BY DEF TypeOK
        <5> QED BY <1>1
      <4>2. QueuedOn(v, l) \ E = QueuedOn(v, l) \ El /\ El \in SUBSET QueuedOn(v, l)
        BY <1>1 DEF QueuedOn
      <4>3. Cardinality(QueuedOn(v, l)')
              = Cardinality(QueuedOn(v, l)) - Cardinality(El)
        BY <3>1, <4>2, CardWithout, CountedSets
      <4> QED BY <4>1, <4>3, CountersByInUse
    <3> QED BY <2>1, <3>1, <3>2, <3>3, <3>4, CountersByInUse
  <2>2. CASE w # v
    <3>1. /\ Held(w)' = Held(w)
          /\ VifItemsOn("pending", w)' = VifItemsOn("pending", w)
          /\ VifItemsOn("queued", w)' = VifItemsOn("queued", w)
          /\ \A l \in Link : QueuedOn(w, l)' = QueuedOn(w, l)
      BY <1>1, <1>2, <2>2, FreeSetsOther
    <3>2. /\ num_queued_vif'[w] = num_queued_vif[w]
          /\ num_pending_vif'[w] = num_pending_vif[w]
          /\ stats_num_queued'[w] = stats_num_queued[w]
          /\ link_map_cache'[w] = link_map_cache[w]
      BY <1>1, <2>2 DEF TypeOK
    <3> QED BY <3>1, <3>2, CountersByInUse, Zenon
  <2> QED BY <2>1, <2>2
<1> QED BY <1>3, <1>4 DEF CountersExact, InUse

\* atbm_queue_put keeps the counters exact.
LEMMA PutCounters ==
  ASSUME TypeOK, CountersExact, NEW f \in Frame, NEW k \in Item,
         NEW off \in BOOLEAN, Put(f, k, off)
  PROVE  CountersExact'
<1> DEFINE w == VifOf[f]
           m == LinkOf[f]
<1>1. /\ w \in Vif /\ m \in Link /\ where[k] = "free"
      /\ where' = [where EXCEPT ![k] = "queued"]
      /\ skb' = [skb EXCEPT ![k] = f]
      /\ num_queued' = num_queued + 1
      /\ num_queued_vif' = [num_queued_vif EXCEPT ![w] = @ + 1]
      /\ link_map_cache' = [link_map_cache EXCEPT ![w][m] = @ + 1]
      /\ stats_num_queued' = [stats_num_queued EXCEPT ![w] = @ + 1]
      /\ UNCHANGED <<num_pending, num_pending_vif>>
  BY TxprivAssumption DEF Put
<1>2. /\ where'[k] = "queued" /\ VifOf[skb'[k]] = w /\ LinkOf[skb'[k]] = m
      /\ \A i \in Item \ {k} : where'[i] = where[i] /\ skb'[i] = skb[i]
  BY <1>1 DEF TypeOK
<1> HIDE DEF w, m
<1>3. /\ InUse' = InUse \cup {k} /\ k \notin InUse
      /\ ItemsOn("pending")' = ItemsOn("pending")
  BY <1>1, <1>2 DEF InUse, ItemsOn
<1>4. ASSUME NEW v \in Vif
      PROVE  /\ Held(v)' = IF v = w THEN Held(v) \cup {k} ELSE Held(v)
             /\ VifItemsOn("pending", v)' = VifItemsOn("pending", v)
             /\ VifItemsOn("queued", v)' = IF v = w
                  THEN VifItemsOn("queued", v) \cup {k} ELSE VifItemsOn("queued", v)
             /\ k \notin Held(v) /\ k \notin VifItemsOn("queued", v)
  BY <1>1, <1>2 DEF Held, VifItemsOn, ItemsOn
<1>5. ASSUME NEW v \in Vif, NEW l \in Link
      PROVE  /\ QueuedOn(v, l)' = IF v = w /\ l = m THEN QueuedOn(v, l) \cup {k}
                                                    ELSE QueuedOn(v, l)
             /\ k \notin QueuedOn(v, l)
  BY <1>1, <1>2 DEF QueuedOn, VifItemsOn, ItemsOn
<1>6. /\ num_queued' = Cardinality(InUse')
      /\ num_pending' = Cardinality(ItemsOn("pending")')
  BY <1>1, <1>3, CardAdd, CountedSets, CountersByInUse
<1>7. ASSUME NEW v \in Vif
      PROVE  /\ num_queued_vif'[v] = Cardinality(Held(v)')
             /\ num_pending_vif'[v] = Cardinality(VifItemsOn("pending", v)')
             /\ stats_num_queued'[v] = Cardinality(VifItemsOn("queued", v)')
  <2> /\ num_queued_vif \in [Vif -> Int] /\ stats_num_queued \in [Vif -> Int]
    BY DEF TypeOK
  <2>1. /\ num_queued_vif'[v] = num_queued_vif[v] + (IF v = w THEN 1 ELSE 0)
        /\ stats_num_queued'[v] = stats_num_queued[v] + (IF v = w THEN 1 ELSE 0)
        /\ num_pending_vif'[v] = num_pending_vif[v]
    BY <1>1
  <2>2. /\ Cardinality(Held(v)') = Cardinality(Held(v)) + (IF v = w THEN 1 ELSE 0)
        /\ Cardinality(VifItemsOn("queued", v)')
             = Cardinality(VifItemsOn("queued", v)) + (IF v = w THEN 1 ELSE 0)
    BY <1>4, CardAdd, CountedSets, FiniteItems
  <2> QED BY <1>4, <2>1, <2>2, CountersByInUse
<1>8. ASSUME NEW v \in Vif, NEW l \in Link
      PROVE  link_map_cache'[v][l] = Cardinality(QueuedOn(v, l)')
  <2> link_map_cache \in [Vif -> [Link -> Int]]
    BY DEF TypeOK
  <2>1. link_map_cache'[v][l]
          = link_map_cache[v][l] + (IF v = w /\ l = m THEN 1 ELSE 0)
    BY <1>1
  <2>2. Cardinality(QueuedOn(v, l)')
          = Cardinality(QueuedOn(v, l)) + (IF v = w /\ l = m THEN 1 ELSE 0)
    BY <1>5, CardAdd, CountedSets, FiniteItems
  <2> QED BY <2>1, <2>2, CountersByInUse
<1> QED BY <1>6, <1>7, <1>8 DEF CountersExact, InUse

\* A frame goes from the queue to the pending list, or back.
LEMMA GetCounters ==
  ASSUME TypeOK, ListsWellFormed, CountersExact, NEW w \in Vif,
         NEW mask \in SUBSET Link, NEW listen \in BOOLEAN, Get(w, mask, listen)
  PROVE  CountersExact'
<1>1. PICK k \in Matching(w, mask) :
        /\ where' = [where EXCEPT ![k] = "pending"]
        /\ link_map_cache' = [link_map_cache EXCEPT ![w][LinkOf[skb[k]]] = @ - 1]
  BY DEF Get
<1> DEFINE m == LinkOf[skb[k]]
<1>2. /\ k \in Item /\ VifOf[skb[k]] = w /\ m \in Link
      /\ where[k] = "queued" /\ where'[k] = "pending" /\ skb' = skb
      /\ \A i \in Item \ {k} : where'[i] = where[i]
      /\ num_pending' = num_pending + 1
      /\ num_pending_vif' = [num_pending_vif EXCEPT ![w] = @ + 1]
      /\ stats_num_queued' = [stats_num_queued EXCEPT ![w] = @ - 1]
      /\ UNCHANGED <<num_queued, num_queued_vif>>
  BY <1>1 DEF Get, Matching, VifItemsOn, ItemsOn, TypeOK
<1>3. link_map_cache' = [link_map_cache EXCEPT ![w][m] = @ - 1]
  BY <1>1
<1> HIDE DEF m
<1>m. LinkOf[skb[k]] = m
  BY DEF m
<1>4. /\ InUse' = InUse
      /\ ItemsOn("pending")' = ItemsOn("pending") \cup {k}
      /\ k \notin ItemsOn("pending")
  BY <1>2 DEF InUse, ItemsOn
<1>5. ASSUME NEW v \in Vif
      PROVE  /\ Held(v)' = Held(v)
             /\ VifItemsOn("pending", v)' = IF v = w
                  THEN VifItemsOn("pending", v) \cup {k} ELSE VifItemsOn("pending", v)
             /\ VifItemsOn("queued", v)' = IF v = w
                  THEN VifItemsOn("queued", v) \ {k} ELSE VifItemsOn("queued", v)
             /\ k \notin VifItemsOn("pending", v)
             /\ v = w => k \in VifItemsOn("queued", v)
  BY <1>2 DEF Held, VifItemsOn, ItemsOn
<1>6. ASSUME NEW v \in Vif, NEW l \in Link
      PROVE  /\ QueuedOn(v, l)' = IF v = w /\ l = m THEN QueuedOn(v, l) \ {k}
                                                    ELSE QueuedOn(v, l)
             /\ v = w /\ l = m => k \in QueuedOn(v, l)
  BY <1>2, <1>m DEF QueuedOn, VifItemsOn, ItemsOn
<1>7. /\ num_queued' = Cardinality(InUse')
      /\ num_pending' = Cardinality(ItemsOn("pending")')
  BY <1>2, <1>4, CardAdd, CountedSets, CountersByInUse
<1>8. ASSUME NEW v \in Vif
      PROVE  /\ num_queued_vif'[v] = Cardinality(Held(v)')
             /\ num_pending_vif'[v] = Cardinality(VifItemsOn("pending", v)')
             /\ stats_num_queued'[v] = Cardinality(VifItemsOn("queued", v)')
  <2> /\ num_pending_vif \in [Vif -> Int] /\ stats_num_queued \in [Vif -> Int]
    BY DEF TypeOK
  <2>1. /\ num_pending_vif'[v] = num_pending_vif[v] + (IF v = w THEN 1 ELSE 0)
        /\ stats_num_queued'[v] = stats_num_queued[v] - (IF v = w THEN 1 ELSE 0)
        /\ num_queued_vif'[v] = num_queued_vif[v]
    BY <1>2
  <2>2. Cardinality(VifItemsOn("pending", v)')
          = Cardinality(VifItemsOn("pending", v)) + (IF v = w THEN 1 ELSE 0)
    BY <1>2, <1>5, CardAdd, CountedSets, FiniteItems
  <2>3. Cardinality(VifItemsOn("queued", v)')
          = Cardinality(VifItemsOn("queued", v)) - (IF v = w THEN 1 ELSE 0)
    BY <1>5, CardRemove, CountedSets, FiniteItems
  <2> QED BY <1>5, <2>1, <2>2, <2>3, CountersByInUse
<1>9. ASSUME NEW v \in Vif, NEW l \in Link
      PROVE  link_map_cache'[v][l] = Cardinality(QueuedOn(v, l)')
  <2> link_map_cache \in [Vif -> [Link -> Int]]
    BY DEF TypeOK
  <2>1. link_map_cache'[v][l]
          = link_map_cache[v][l] - (IF v = w /\ l = m THEN 1 ELSE 0)
    BY <1>2, <1>3
  <2>2. Cardinality(QueuedOn(v, l)')
          = Cardinality(QueuedOn(v, l)) - (IF v = w /\ l = m THEN 1 ELSE 0)
    BY <1>6, CardRemove, CountedSets, FiniteItems
  <2> QED BY <2>1, <2>2, CountersByInUse
<1> QED BY <1>7, <1>8, <1>9 DEF CountersExact, InUse

\* atbm_queue_requeue keeps the counters exact.
LEMMA RequeueCounters ==
  ASSUME TypeOK, CountersExact, NEW p \in PacketID, NEW check \in BOOLEAN,
         Requeue(p, check),
         Valid(p) => /\ where[p.item] = "pending" /\ skb[p.item] \in Frame
                     /\ VifOf[skb[p.item]] = p.vif
  PROVE  CountersExact'
<1>1. CASE Remove(p)
  BY <1>1, RemoveCounters
<1>2. CASE UNCHANGED <<where, skb, igen, ahead, countVars, lockVars, generation>>
  BY <1>2, CountersKept
<1>3. CASE Valid(p) /\ RequeueValid(p)
  <2> DEFINE k == p.item
             w == p.vif
             m == LinkOf[skb[k]]
  <2>1. /\ k \in Item /\ w \in Vif /\ m \in Link /\ VifOf[skb[k]] = w
        /\ where[k] = "pending" /\ where'[k] = "queued" /\ skb' = skb
        /\ \A i \in Item \ {k} : where'[i] = where[i]
        /\ num_pending' = num_pending - 1
        /\ num_pending_vif' = [num_pending_vif EXCEPT ![w] = @ - 1]
        /\ stats_num_queued' = [stats_num_queued EXCEPT ![w] = @ + 1]
        /\ link_map_cache' = [link_map_cache EXCEPT ![w][m] = @ + 1]
        /\ UNCHANGED <<num_queued, num_queued_vif>>
        /\ LinkOf[skb[k]] = m
    BY <1>3, TxprivAssumption DEF RequeueValid, PacketID, TypeOK
  <2> HIDE DEF k, w, m
  <2>4. /\ InUse' = InUse
        /\ ItemsOn("pending")' = ItemsOn("pending") \ {k}
        /\ k \in ItemsOn("pending")
    BY <2>1 DEF InUse, ItemsOn
  <2>5. ASSUME NEW v \in Vif
        PROVE  /\ Held(v)' = Held(v)
               /\ VifItemsOn("pending", v)' = IF v = w
                    THEN VifItemsOn("pending", v) \ {k} ELSE VifItemsOn("pending", v)
               /\ VifItemsOn("queued", v)' = IF v = w
                    THEN VifItemsOn("queued", v) \cup {k} ELSE VifItemsOn("queued", v)
               /\ v = w => k \in VifItemsOn("pending", v)
               /\ k \notin VifItemsOn("queued", v)
    BY <2>1 DEF Held, VifItemsOn, ItemsOn
  <2>6. ASSUME NEW v \in Vif, NEW l \in Link
        PROVE  /\ QueuedOn(v, l)' = IF v = w /\ l = m THEN QueuedOn(v, l) \cup {k}
                                                      ELSE QueuedOn(v, l)
               /\ k \notin QueuedOn(v, l)
    BY <2>1 DEF QueuedOn, VifItemsOn, ItemsOn
  <2>7. /\ num_queued' = Cardinality(InUse')
        /\ num_pending' = Cardinality(ItemsOn("pending")')
    BY <2>1, <2>4, CardRemove, CountedSets, CountersByInUse
  <2>8. ASSUME NEW v \in Vif
        PROVE  /\ num_queued_vif'[v] = Cardinality(Held(v)')
               /\ num_pending_vif'[v] = Cardinality(VifItemsOn("pending", v)')
               /\ stats_num_queued'[v] = Cardinality(VifItemsOn("queued", v)')
    <3> /\ num_pending_vif \in [Vif -> Int] /\ stats_num_queued \in [Vif -> Int]
      BY DEF TypeOK
    <3>1. /\ num_pending_vif'[v] = num_pending_vif[v] - (IF v = w THEN 1 ELSE 0)
          /\ stats_num_queued'[v] = stats_num_queued[v] + (IF v = w THEN 1 ELSE 0)
          /\ num_queued_vif'[v] = num_queued_vif[v]
      BY <2>1
    <3>2. Cardinality(VifItemsOn("pending", v)')
            = Cardinality(VifItemsOn("pending", v)) - (IF v = w THEN 1 ELSE 0)
      BY <2>5, CardRemove, CountedSets, FiniteItems
    <3>3. Cardinality(VifItemsOn("queued", v)')
            = Cardinality(VifItemsOn("queued", v)) + (IF v = w THEN 1 ELSE 0)
      BY <2>1, <2>5, CardAdd, CountedSets, FiniteItems
    <3> QED BY <2>5, <3>1, <3>2, <3>3, CountersByInUse
  <2>9. ASSUME NEW v \in Vif, NEW l \in Link
        PROVE  link_map_cache'[v][l] = Cardinality(QueuedOn(v, l)')
    <3> link_map_cache \in [Vif -> [Link -> Int]]
      BY DEF TypeOK
    <3>1. link_map_cache'[v][l]
            = link_map_cache[v][l] + (IF v = w /\ l = m THEN 1 ELSE 0)
      BY <2>1
    <3>2. Cardinality(QueuedOn(v, l)')
            = Cardinality(QueuedOn(v, l)) + (IF v = w /\ l = m THEN 1 ELSE 0)
      <4>1. CASE v = w /\ l = m
        BY <2>1, <2>6, <4>1, CardAdd, CountedSets, FiniteItems
      <4>2. CASE ~(v = w /\ l = m)
        <5>1. QueuedOn(v, l)' = QueuedOn(v, l)
          BY <2>6, <4>2
        <5>2. Cardinality(QueuedOn(v, l)) \in Nat
          BY CountedSets, FiniteItems
        <5> QED BY <4>2, <5>1, <5>2
      <4> QED BY <4>1, <4>2
    <3>3. link_map_cache[v][l] = Cardinality(QueuedOn(v, l))
      BY CountersByInUse
    <3> QED BY <3>1, <3>2, <3>3
  <2> QED BY <2>7, <2>8, <2>9 DEF CountersExact, InUse
<1> QED BY <1>1, <1>2, <1>3 DEF Requeue

\* Every step keeps the counters exact.
LEMMA CountersStep ==
  ASSUME IdInv, CountersExact, [Next]_vars
  PROVE  CountersExact'
<1> TypeOK /\ ListsWellFormed /\ CurrentIDIsItsFrame
  BY DEF IdInv
<1>1. ASSUME NEW p \in Outstanding
      PROVE  /\ p \in PacketID
             /\ Valid(p) => /\ where[p.item] = "pending"
                            /\ skb[p.item] \in Frame
                            /\ VifOf[skb[p.item]] = p.vif
  BY OutstandingType DEF CurrentIDIsItsFrame, Current, Valid, PacketID
<1>2. ASSUME NEW f \in Frame, NEW i \in Item, NEW off \in BOOLEAN,
             Put(f, i, off)
      PROVE  CountersExact'
  BY <1>2, PutCounters
<1>3. ASSUME NEW v \in Vif, NEW mask \in SUBSET Link, NEW listen \in BOOLEAN,
             Get(v, mask, listen)
      PROVE  CountersExact'
  BY <1>3, GetCounters
<1>4. CASE BhFree
  BY <1>1, <1>4, RemoveCounters DEF BhFree, Outstanding
<1>5. CASE RxRemove
  BY <1>1, <1>5, RemoveCounters DEF RxRemove, Outstanding
<1>6. ASSUME NEW check \in BOOLEAN, RxRequeue(check) PROVE CountersExact'
  BY <1>1, <1>6, RequeueCounters DEF RxRequeue, Outstanding
<1>7. ASSUME NEW S \in SUBSET Vif, ClearItems(S) PROVE CountersExact'
  BY <1>7, ClearCounters
<1>8. ASSUME NEW v \in Vif, NEW E \in SUBSET Item, Gc(v, E)
      PROVE  CountersExact'
  BY <1>8, GcCounters
<1>9. CASE UNCHANGED <<itemVars, countVars>>
  BY <1>9, CountersKept
<1> QED
  BY <1>2, <1>3, <1>4, <1>5, <1>6, <1>7, <1>8, <1>9
     DEF Next, vars, BhSend, Confirm, ClearVif, ClearAll, TxQueuesLock,
         TxQueuesUnlock

\* The counters of the queue are exact in every reachable state: num_queued,
\* num_pending and the per-interface and per-link counts never drift from the
\* lists, so the WARN_ON and BUG_ON on them in atbm_queue_clear never fire.
THEOREM CountersCorrect == Spec => []CountersExact
<1>1. Init => CountersExact
  <2> SUFFICES ASSUME Init PROVE CountersExact
    OBVIOUS
  <2>1. ItemsOn("queued") = {} /\ ItemsOn("pending") = {}
    BY DEF Init, ItemsOn
  <2>2. \A v \in Vif : /\ Held(v) = {} /\ VifItemsOn("pending", v) = {}
                      /\ VifItemsOn("queued", v) = {}
                      /\ \A l \in Link : QueuedOn(v, l) = {}
    BY <2>1 DEF VifItemsOn, Held, QueuedOn
  <2>3. InUse = {}
    BY <2>1 DEF InUse
  <2> QED BY <2>1, <2>2, <2>3, FS_EmptySet, CountersByInUse DEF Init
<1>2. IdInv /\ CountersExact /\ [Next]_vars => CountersExact'
  BY CountersStep
<1> QED BY <1>1, <1>2, IdInvariant, PTL DEF Spec

-----------------------------------------------------------------------------
(* No wake-up is lost.                                                     *)

\* NoLostWakeup in terms of the counter the code compares.
Releasable ==
  \A v \in Vif : overfull[v] => gcTimer[v] \/ num_queued_vif[v] > ReleaseLevel(v)

\* Every step leaves an overfull interface with a timer to fire or with enough
\* frames to be released by a removal.
LEMMA ReleasableStep ==
  ASSUME TypeOK, Releasable, [Next]_vars
  PROVE  Releasable'
<1> /\ num_queued_vif \in [Vif -> Int] /\ overfull \in [Vif -> BOOLEAN]
    /\ gcTimer \in [Vif -> BOOLEAN]
    /\ \A v \in Vif : ReleaseLevel(v) \in Int
  BY NumberAssumption DEF TypeOK, ReleaseLevel
<1>1. ASSUME NEW f \in Frame, NEW i \in Item, NEW off \in BOOLEAN,
             Put(f, i, off), NEW v \in Vif, overfull'[v]
      PROVE  gcTimer'[v] \/ num_queued_vif'[v] > ReleaseLevel(v)
  <2> VifOf[f] \in Vif
    BY TxprivAssumption
  <2>1. /\ num_queued_vif'[v] \in Int
        /\ num_queued_vif'[v] >= num_queued_vif[v]
    BY <1>1 DEF Put
  <2>2. CASE /\ overfull' = [overfull EXCEPT ![VifOf[f]] = TRUE]
             /\ gcTimer' = [gcTimer EXCEPT ![VifOf[f]] = TRUE]
    <3>1. v = VifOf[f] => gcTimer'[v]
      BY <2>2
    <3>2. v # VifOf[f] => overfull[v] /\ gcTimer'[v] = gcTimer[v]
      BY <1>1, <2>2
    <3>3. overfull[v] /\ ~gcTimer[v] => num_queued_vif'[v] > ReleaseLevel(v)
      BY <2>1 DEF Releasable
    <3> QED BY <3>1, <3>2, <3>3
  <2>3. CASE UNCHANGED <<overfull, gcTimer>>
    <3>1. gcTimer[v] \/ num_queued_vif[v] > ReleaseLevel(v)
      BY <1>1, <2>3 DEF Releasable
    <3> QED BY <2>1, <2>3, <3>1
  <2> QED BY <1>1, <2>2, <2>3 DEF Put, StopIfOverflown
<1>2. ASSUME NEW p \in PacketID, Remove(p) PROVE Releasable'
  <2>1. CASE RemoveValid(p)
    <3> DEFINE w == p.vif
    <3>0. /\ w \in Vif /\ gcTimer' = gcTimer
          /\ num_queued_vif' = [num_queued_vif EXCEPT ![w] = @ - 1]
      BY <2>1 DEF RemoveValid, PacketID
    <3>1. CASE num_queued_vif'[w] <= ReleaseLevel(w) /\ ReleaseOverfull({w})
      <4>1. \A v \in Vif : overfull'[v] => overfull[v] /\ v # w
        BY <3>1 DEF ReleaseOverfull
      <4> QED BY <3>0, <4>1 DEF Releasable, ReleaseLevel
    <3>2. CASE ~(num_queued_vif'[w] <= ReleaseLevel(w)) /\ overfull' = overfull
      <4>1. num_queued_vif'[w] > ReleaseLevel(w)
        BY <3>0, <3>2
      <4> QED BY <3>0, <3>2, <4>1 DEF Releasable, ReleaseLevel
    <3> QED BY <2>1, <3>1, <3>2 DEF RemoveValid
  <2>2. CASE UNCHANGED <<itemVars, countVars, lockVars, generation>>
    BY <2>2 DEF Releasable, ReleaseLevel
  <2> QED BY <1>2, <2>1, <2>2 DEF Remove
<1>3. ASSUME NEW p \in PacketID, NEW check \in BOOLEAN, Requeue(p, check)
      PROVE  Releasable'
  BY <1>2, <1>3 DEF Requeue, RequeueValid, Releasable, ReleaseLevel
<1>4. ASSUME NEW S \in SUBSET Vif, ClearItems(S) PROVE Releasable'
  <2>1. /\ \A v \in Vif : overfull'[v] => overfull[v] /\ v \notin S
        /\ \A v \in Vif \ S : num_queued_vif'[v] = num_queued_vif[v]
        /\ gcTimer' = gcTimer
    BY <1>4 DEF ClearItems, ReleaseOverfull
  <2> QED BY <2>1 DEF Releasable, ReleaseLevel
<1>5. ASSUME NEW w \in Vif, NEW E \in SUBSET Item, Gc(w, E) PROVE Releasable'
  <2>0. \A v \in Vif \ {w} : /\ num_queued_vif'[v] = num_queued_vif[v]
                             /\ gcTimer'[v] = gcTimer[v]
                             /\ overfull'[v] => overfull[v]
    BY <1>5 DEF Gc, ReleaseOverfull
  <2>1. num_queued_vif'[w] \in Int
    <3> Cardinality(E) \in Int
      BY FiniteItems
    <3> QED BY <1>5 DEF Gc
  <2>2. overfull'[w] => num_queued_vif'[w] > ReleaseLevel(w)
    <3>1. CASE num_queued_vif'[w] <= ReleaseLevel(w)
      BY <1>5, <3>1 DEF Gc, ReleaseOverfull
    <3> QED BY <2>1, <3>1
  <2> QED BY <2>0, <2>2 DEF Releasable, ReleaseLevel
<1>6. CASE UNCHANGED <<num_queued_vif, overfull, gcTimer>>
  BY <1>6 DEF Releasable, ReleaseLevel
<1>7. bh # None => bh \in PacketID
  BY DEF TypeOK
<1>8. rx # None => rx \in PacketID
  BY DEF TypeOK
<1>9. ASSUME NEW f \in Frame, NEW i \in Item, NEW off \in BOOLEAN,
             Put(f, i, off)
      PROVE  Releasable'
  BY <1>1, <1>9 DEF Releasable, ReleaseLevel
<1> QED
  BY <1>2, <1>3, <1>4, <1>5, <1>6, <1>7, <1>8, <1>9
     DEF Next, vars, Get, BhFree, BhSend, Confirm, RxRemove, RxRequeue,
         ClearVif, ClearAll, TxQueuesLock, TxQueuesUnlock

\* An overfull interface, whose transmitters are stopped, has its timer armed
\* or holds enough frames that the removal of one of them releases it.
THEOREM NoLostWakeupCorrect == Spec => []NoLostWakeup
<1>1. Init => Releasable
  BY DEF Init, Releasable
<1>2. IdInv /\ Releasable /\ [Next]_vars => Releasable'
  BY ReleasableStep DEF IdInv
<1>3. CountersExact /\ Releasable => NoLostWakeup
  BY DEF CountersExact, Releasable, NoLostWakeup
<1> QED BY <1>1, <1>2, <1>3, IdInvariant, CountersCorrect, PTL DEF Spec
=============================================================================
