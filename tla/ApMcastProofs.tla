---------------------------- MODULE ApMcastProofs ----------------------------
(***************************************************************************)
(* Proofs about buffered multicast frames, for any number of stations and  *)
(* frames and any links in the firmware's indications.                     *)
(*                                                                         *)
(* Announced is not inductive: a start that has taken the lock is worth    *)
(* nothing when a stop is queued behind it.  Announcing says that none is, *)
(* which rests on the cancelling of a pending stop, and that on a queue    *)
(* without duplicates (Distinct).                                          *)
(***************************************************************************)
EXTENDS ApMcast, TLAPS

Item == {"start", "stop", "tim"}

\* An item is queued once.
Distinct == \A j, k \in 1 .. Len(wq) : wq[j] = wq[k] => j = k

\* The firmware's beacon has bit 0 set as long as aid0_bit_set is.
TimInv ==
  /\ aid0_bit_set \/ worker \in {"start_aid0", "start_timer"} => tim
  /\ worker = "stop_tim" => ~aid0_bit_set

\* Announced, with no stop to follow a start that is under way.
Announcing ==
  sta_asleep_mask # {} /\ buffered_multicasts =>
    \/ Queued("start") \/ worker = "start"
    \/ /\ ~Queued("stop")
       /\ worker \in {"start_lock", "start_tim", "start_aid0"}
    \/ /\ aid0_bit_set /\ ~Queued("stop")
       /\ worker \notin {"stop", "stop_lock", "stop_aid0"}

Bounded == queued <= sent

IInv ==
  /\ TypeOK /\ Bounded /\ Distinct /\ TimInv
  /\ WindowHasFrames /\ OnItsWay /\ Announcing

-----------------------------------------------------------------------------
(* The queue of the worker.                                                *)

\* queue_work adds an item that is not queued, and keeps the queue free of
\* duplicates.
LEMMA QueueWorkFacts ==
  ASSUME wq \in Seq(Item), Distinct, NEW w \in Item, QueueWork(w)
  PROVE  /\ wq' \in Seq(Item) /\ Distinct'
         /\ \A x : Queued(x)' <=> Queued(x) \/ x = w
<1>1. CASE Queued(w)
  BY <1>1 DEF QueueWork, Queued, Distinct
<1>2. CASE ~Queued(w)
  <2>1. wq' = Append(wq, w)
    BY <1>2 DEF QueueWork
  <2>2. /\ wq' \in Seq(Item) /\ Len(wq') = Len(wq) + 1 /\ Len(wq) \in Nat
        /\ \A k \in 1 .. Len(wq) : wq'[k] = wq[k]
        /\ wq'[Len(wq) + 1] = w
    BY <2>1
  <2>3. Distinct'
    BY <1>2, <2>2 DEF Distinct, Queued
  <2>4. \A x : Queued(x)' <=> Queued(x) \/ x = w
    BY <2>2 DEF Queued
  <2> QED BY <2>2, <2>3, <2>4
<1> QED BY <1>1, <1>2

\* After cancel_work_sync the item is not queued, all others are.
LEMMA CancelWorkFacts ==
  ASSUME wq \in Seq(Item), Distinct, NEW w \in Item, CancelWork(w)
  PROVE  /\ wq' \in Seq(Item) /\ Distinct'
         /\ \A x : Queued(x)' <=> Queued(x) /\ x # w
<1>1. CASE ~Queued(w) /\ UNCHANGED wq
  BY <1>1 DEF Queued, Distinct
<1>2. ASSUME NEW n \in 1 .. Len(wq), wq[n] = w,
             wq' = [j \in 1 .. Len(wq) - 1 |-> wq[IF j < n THEN j ELSE j + 1]]
      PROVE  /\ wq' \in Seq(Item) /\ Distinct'
             /\ \A x : Queued(x)' <=> Queued(x) /\ x # w
  <2>1. Len(wq) \in Nat /\ \A k \in 1 .. Len(wq) : wq[k] \in Item
    OBVIOUS
  <2>2. \A j \in 1 .. Len(wq) - 1 :
           /\ (IF j < n THEN j ELSE j + 1) \in 1 .. Len(wq)
           /\ wq'[j] = wq[IF j < n THEN j ELSE j + 1]
    BY <1>2, <2>1
  <2>3. wq' \in Seq(Item) /\ Len(wq') = Len(wq) - 1
    BY <1>2, <2>1, <2>2
  <2>4. Distinct'
    BY <2>1, <2>2, <2>3 DEF Distinct
  <2>5. ASSUME NEW x, Queued(x)'
        PROVE  Queued(x) /\ x # w
    BY <1>2, <2>1, <2>2, <2>3, <2>5 DEF Queued, Distinct
  <2>6. ASSUME NEW x, Queued(x), x # w
        PROVE  Queued(x)'
    <3>1. PICK k \in 1 .. Len(wq) : wq[k] = x
      BY <2>6 DEF Queued
    <3>2. CASE k < n
      <4>1. k \in 1 .. Len(wq) - 1 /\ wq'[k] = x
        BY <2>1, <2>2, <3>1, <3>2
      <4> QED BY <2>3, <4>1 DEF Queued
    <3>3. CASE k > n
      <4>1. k - 1 \in 1 .. Len(wq) - 1 /\ wq'[k - 1] = x
        BY <2>1, <2>2, <3>1, <3>3
      <4> QED BY <2>3, <4>1 DEF Queued
    <3> QED BY <1>2, <2>1, <2>6, <3>1, <3>2, <3>3
  <2> QED BY <2>3, <2>4, <2>5, <2>6
<1> QED BY <1>1, <1>2 DEF CancelWork

\* What the worker takes is not queued any more.
LEMMA TakeFacts ==
  ASSUME wq \in Seq(Item), Distinct, wq # <<>>, wq' = Tail(wq)
  PROVE  /\ wq' \in Seq(Item) /\ Distinct' /\ Head(wq) \in Item
         /\ Queued(Head(wq))
         /\ \A x : Queued(x)' <=> Queued(x) /\ x # Head(wq)
<1>1. /\ Len(wq) \in Nat /\ Len(wq) >= 1 /\ Len(wq') = Len(wq) - 1
      /\ wq' \in Seq(Item) /\ Head(wq) = wq[1] /\ wq[1] \in Item
      /\ \A k \in 1 .. Len(wq) - 1 : wq'[k] = wq[k + 1]
  OBVIOUS
<1>2. Distinct'
  BY <1>1 DEF Distinct
<1>3. Queued(Head(wq))
  BY <1>1 DEF Queued
<1>4. ASSUME NEW x, Queued(x)' PROVE Queued(x) /\ x # Head(wq)
  BY <1>1, <1>4 DEF Queued, Distinct
<1>5. ASSUME NEW x, Queued(x), x # Head(wq) PROVE Queued(x)'
  <2>1. PICK k \in 1 .. Len(wq) : wq[k] = x
    BY <1>5 DEF Queued
  <2>2. k - 1 \in 1 .. Len(wq) - 1 /\ wq'[k - 1] = x
    BY <1>1, <1>5, <2>1
  <2> QED BY <1>1, <2>2 DEF Queued
<1> QED BY <1>1, <1>2, <1>3, <1>4, <1>5
-----------------------------------------------------------------------------
(* The type invariant, in groups of variables.                             *)

TypeFlags ==
  /\ link_id_map \subseteq Sta /\ sta_asleep_mask \subseteq Sta
  /\ buffered_multicasts \in BOOLEAN /\ tx_multicast \in BOOLEAN
  /\ aid0_bit_set \in BOOLEAN /\ tim \in BOOLEAN /\ mcast_timeout \in BOOLEAN
  /\ woken \in BOOLEAN /\ tx_lock \in BOOLEAN

TypeCounts == queued \in 0 .. MaxMc /\ sent \in 0 .. MaxMc

TypePlaces ==
  /\ bh \in {"idle", "multicast", "unicast"} \cup Asleep
  /\ rx \in {"idle", "del"}
  /\ worker \in {"idle", "start", "start_lock", "start_tim", "start_aid0",
                 "start_timer", "stop", "stop_lock", "stop_aid0", "stop_tim",
                 "unlock", "tim"}

\* The queue is apart: the other variables do not need its theory.
LEMMA TypeSplit ==
  /\ TypeOK <=> wq \in Seq(Item) /\ TypeFlags /\ TypeCounts /\ TypePlaces
  /\ TypeOK' <=> wq' \in Seq(Item) /\ TypeFlags' /\ TypeCounts' /\ TypePlaces'
BY DEF TypeOK, TypeFlags, TypeCounts, TypePlaces, Item

-----------------------------------------------------------------------------
(* Each step preserves IInv.                                               *)

LEMMA StaAddStep ==
  ASSUME IInv, NEW s \in Sta, StaAdd(s)
  PROVE  IInv'
<1> USE DEF IInv
<1>1. UNCHANGED wq /\ Distinct' /\ \A x : Queued(x)' <=> Queued(x)
  BY DEF StaAdd, workVars, Distinct, Queued
<1>2. TypeOK' /\ Bounded'
  <2>1. TypeFlags /\ TypeCounts /\ TypePlaces
    BY TypeSplit
  <2>2. TypeFlags'
    BY <2>1
       DEF StaAdd, TypeFlags, maskVars, windowVars, timVars, queueVars, rxVars,
           workVars
  <2>3. TypeCounts' /\ Bounded'
    BY <2>1, NumberAssumption
       DEF StaAdd, TypeCounts, Bounded, maskVars, windowVars, timVars,
           queueVars, rxVars, workVars
  <2>4. TypePlaces'
    BY <2>1
       DEF StaAdd, TypePlaces, maskVars, windowVars, timVars, queueVars,
           rxVars, workVars
  <2> QED BY <1>1, <2>2, <2>3, <2>4, TypeSplit
<1>3. TimInv'
  BY DEF StaAdd, TimInv, timVars, workVars
<1>4. WindowHasFrames' /\ OnItsWay'
  BY DEF StaAdd, TypeOK, WindowHasFrames, OnItsWay, maskVars,
         windowVars, timVars, queueVars, rxVars, workVars
<1>5. Announcing'
  BY <1>1
     DEF StaAdd, Announcing, maskVars, windowVars, timVars, queueVars, rxVars,
         workVars
<1> QED BY <1>1, <1>2, <1>3, <1>4, <1>5

LEMMA StaRemoveStep ==
  ASSUME IInv, NEW s \in Sta, StaRemove(s)
  PROVE  IInv'
<1> USE DEF IInv
<1>1. UNCHANGED wq /\ Distinct' /\ \A x : Queued(x)' <=> Queued(x)
  BY DEF StaRemove, workVars, Distinct, Queued
<1>2. TypeOK' /\ Bounded'
  <2>1. TypeFlags /\ TypeCounts /\ TypePlaces
    BY TypeSplit
  <2>2. TypeFlags'
    BY <2>1
       DEF StaRemove, TypeFlags, maskVars, windowVars, timVars, queueVars,
           rxVars, workVars
  <2>3. TypeCounts' /\ Bounded'
    BY <2>1, NumberAssumption
       DEF StaRemove, TypeCounts, Bounded, maskVars, windowVars, timVars,
           queueVars, rxVars, workVars
  <2>4. TypePlaces'
    BY <2>1
       DEF StaRemove, TypePlaces, maskVars, windowVars, timVars, queueVars,
           rxVars, workVars
  <2> QED BY <1>1, <2>2, <2>3, <2>4, TypeSplit
<1>3. TimInv'
  BY DEF StaRemove, TimInv, timVars, workVars
<1>4. WindowHasFrames' /\ OnItsWay'
  BY DEF StaRemove, TypeOK, WindowHasFrames, OnItsWay, maskVars,
         windowVars, timVars, queueVars, rxVars, workVars
<1>5. Announcing'
  BY <1>1
     DEF StaRemove, Announcing, maskVars, windowVars, timVars, queueVars,
         rxVars, workVars
<1> QED BY <1>1, <1>2, <1>3, <1>4, <1>5

LEMMA TxAuthStep ==
  ASSUME IInv, NEW s \in Sta, TxAuth(s)
  PROVE  IInv'
<1> USE DEF IInv
<1>1. UNCHANGED wq /\ Distinct' /\ \A x : Queued(x)' <=> Queued(x)
  BY DEF TxAuth, workVars, Distinct, Queued
<1>2. TypeOK' /\ Bounded'
  <2>1. TypeFlags /\ TypeCounts /\ TypePlaces
    BY TypeSplit
  <2>2. TypeFlags'
    BY <2>1
       DEF TxAuth, TypeFlags, maskVars, windowVars, timVars, queueVars, rxVars,
           workVars
  <2>3. TypeCounts' /\ Bounded'
    BY <2>1, NumberAssumption
       DEF TxAuth, TypeCounts, Bounded, maskVars, windowVars, timVars,
           queueVars, rxVars, workVars
  <2>4. TypePlaces'
    BY <2>1
       DEF TxAuth, TypePlaces, maskVars, windowVars, timVars, queueVars,
           rxVars, workVars
  <2> QED BY <1>1, <2>2, <2>3, <2>4, TypeSplit
<1>3. TimInv'
  BY DEF TxAuth, TimInv, timVars, workVars
<1>4. WindowHasFrames' /\ OnItsWay'
  BY DEF TxAuth, TypeOK, WindowHasFrames, OnItsWay, maskVars,
         windowVars, timVars, queueVars, rxVars, workVars
<1>5. Announcing'
  BY <1>1
     DEF TxAuth, Announcing, maskVars, windowVars, timVars, queueVars, rxVars,
         workVars
<1> QED BY <1>1, <1>2, <1>3, <1>4, <1>5

LEMMA ExpireStep ==
  ASSUME IInv, Expire
  PROVE  IInv'
<1> USE DEF IInv
<1>1. UNCHANGED wq /\ Distinct' /\ \A x : Queued(x)' <=> Queued(x)
  BY DEF Expire, workVars, Distinct, Queued
<1>2. TypeOK' /\ Bounded'
  <2>1. TypeFlags /\ TypeCounts /\ TypePlaces
    BY TypeSplit
  <2>2. TypeFlags'
    BY <2>1
       DEF Expire, TypeFlags, maskVars, windowVars, timVars, queueVars, rxVars,
           workVars
  <2>3. TypeCounts' /\ Bounded'
    BY <2>1, NumberAssumption
       DEF Expire, TypeCounts, Bounded, maskVars, windowVars, timVars,
           queueVars, rxVars, workVars
  <2>4. TypePlaces'
    BY <2>1
       DEF Expire, TypePlaces, maskVars, windowVars, timVars, queueVars,
           rxVars, workVars
  <2> QED BY <1>1, <2>2, <2>3, <2>4, TypeSplit
<1>3. TimInv'
  BY DEF Expire, TimInv, timVars, workVars
<1>4. WindowHasFrames' /\ OnItsWay'
  BY DEF Expire, TypeOK, WindowHasFrames, OnItsWay, maskVars,
         windowVars, timVars, queueVars, rxVars, workVars
<1>5. Announcing'
  BY <1>1
     DEF Expire, Announcing, maskVars, windowVars, timVars, queueVars, rxVars,
         workVars
<1> QED BY <1>1, <1>2, <1>3, <1>4, <1>5

LEMMA BhGetStep ==
  ASSUME IInv, BhGet
  PROVE  IInv'
<1> USE DEF IInv
<1>1. UNCHANGED wq /\ Distinct' /\ \A x : Queued(x)' <=> Queued(x)
  BY DEF BhGet, workVars, Distinct, Queued
<1>2. TypeOK' /\ Bounded'
  <2>1. TypeFlags /\ TypeCounts /\ TypePlaces
    BY TypeSplit
  <2>2. TypeFlags'
    BY <2>1
       DEF BhGet, TypeFlags, maskVars, windowVars, timVars, queueVars, rxVars,
           workVars
  <2>3. TypeCounts' /\ Bounded'
    BY <2>1, NumberAssumption
       DEF BhGet, TypeCounts, Bounded, maskVars, windowVars, timVars,
           queueVars, rxVars, workVars
  <2>4. TypePlaces'
    BY <2>1
       DEF BhGet, TypePlaces, Asleep, maskVars, windowVars, timVars, queueVars, rxVars,
           workVars
  <2> QED BY <1>1, <2>2, <2>3, <2>4, TypeSplit
<1>3. TimInv'
  BY DEF BhGet, TimInv, timVars, workVars
<1>4. WindowHasFrames' /\ OnItsWay'
  BY DEF BhGet, TypeOK, WindowHasFrames, OnItsWay, maskVars, windowVars,
         timVars, queueVars, rxVars, workVars
<1>5. Announcing'
  BY <1>1
     DEF BhGet, Announcing, maskVars, windowVars, timVars, queueVars, rxVars,
         workVars
<1> QED BY <1>1, <1>2, <1>3, <1>4, <1>5

LEMMA BhWakeStep ==
  ASSUME IInv, BhWake
  PROVE  IInv'
<1> USE DEF IInv
<1>1. UNCHANGED wq /\ Distinct' /\ \A x : Queued(x)' <=> Queued(x)
  BY DEF BhWake, workVars, Distinct, Queued
<1>2. TypeOK' /\ Bounded'
  <2>1. TypeFlags /\ TypeCounts /\ TypePlaces
    BY TypeSplit
  <2>2. TypeFlags'
    BY <2>1
       DEF BhWake, TypeFlags, maskVars, windowVars, timVars, queueVars, rxVars,
           workVars
  <2>3. TypeCounts' /\ Bounded'
    BY <2>1, NumberAssumption
       DEF BhWake, TypeCounts, Bounded, maskVars, windowVars, timVars,
           queueVars, rxVars, workVars
  <2>4. TypePlaces'
    BY <2>1
       DEF BhWake, TypePlaces, Asleep, maskVars, windowVars, timVars, queueVars, rxVars,
           workVars
  <2> QED BY <1>1, <2>2, <2>3, <2>4, TypeSplit
<1>3. TimInv'
  BY DEF BhWake, TimInv, timVars, workVars
<1>4. WindowHasFrames' /\ OnItsWay'
  BY DEF BhWake, TypeOK, WindowHasFrames, OnItsWay, maskVars, windowVars,
         timVars, queueVars, rxVars, workVars
<1>5. Announcing'
  BY <1>1
     DEF BhWake, Announcing, maskVars, windowVars, timVars, queueVars, rxVars,
         workVars
<1> QED BY <1>1, <1>2, <1>3, <1>4, <1>5

LEMMA BhKeptOutStep ==
  ASSUME IInv, BhKeptOut
  PROVE  IInv'
<1> USE DEF IInv
<1>1. UNCHANGED wq /\ Distinct' /\ \A x : Queued(x)' <=> Queued(x)
  BY DEF BhKeptOut, workVars, Distinct, Queued
<1>2. TypeOK' /\ Bounded'
  <2>1. TypeFlags /\ TypeCounts /\ TypePlaces
    BY TypeSplit
  <2>2. TypeFlags'
    BY <2>1
       DEF BhKeptOut, TypeFlags, maskVars, windowVars, timVars, queueVars, rxVars,
           workVars
  <2>3. TypeCounts' /\ Bounded'
    BY <2>1, NumberAssumption
       DEF BhKeptOut, TypeCounts, Bounded, maskVars, windowVars, timVars,
           queueVars, rxVars, workVars
  <2>4. TypePlaces'
    BY <2>1
       DEF BhKeptOut, TypePlaces, Asleep, maskVars, windowVars, timVars, queueVars, rxVars,
           workVars
  <2> QED BY <1>1, <2>2, <2>3, <2>4, TypeSplit
<1>3. TimInv'
  BY DEF BhKeptOut, TimInv, timVars, workVars
<1>4. WindowHasFrames' /\ OnItsWay'
  BY DEF BhKeptOut, TypeOK, WindowHasFrames, OnItsWay, maskVars, windowVars,
         timVars, queueVars, rxVars, workVars
<1>5. Announcing'
  BY <1>1
     DEF BhKeptOut, Announcing, maskVars, windowVars, timVars, queueVars, rxVars,
         workVars
<1> QED BY <1>1, <1>2, <1>3, <1>4, <1>5

LEMMA BhLoseStep ==
  ASSUME IInv, BhLose
  PROVE  IInv'
<1> USE DEF IInv
<1>1. UNCHANGED wq /\ Distinct' /\ \A x : Queued(x)' <=> Queued(x)
  BY DEF BhLose, workVars, Distinct, Queued
<1>2. TypeOK' /\ Bounded'
  <2>1. TypeFlags /\ TypeCounts /\ TypePlaces
    BY TypeSplit
  <2>2. TypeFlags'
    BY <2>1
       DEF BhLose, TypeFlags, maskVars, windowVars, timVars, queueVars, rxVars,
           workVars
  <2>3. TypeCounts' /\ Bounded'
    BY <2>1, NumberAssumption
       DEF BhLose, TypeCounts, Bounded, maskVars, windowVars, timVars,
           queueVars, rxVars, workVars
  <2>4. TypePlaces'
    BY <2>1
       DEF BhLose, TypePlaces, Asleep, maskVars, windowVars, timVars, queueVars, rxVars,
           workVars
  <2> QED BY <1>1, <2>2, <2>3, <2>4, TypeSplit
<1>3. TimInv'
  BY DEF BhLose, TimInv, timVars, workVars
<1>4. WindowHasFrames' /\ OnItsWay'
  BY DEF BhLose, TypeOK, WindowHasFrames, OnItsWay, maskVars, windowVars,
         timVars, queueVars, rxVars, workVars
<1>5. Announcing'
  BY <1>1
     DEF BhLose, Announcing, maskVars, windowVars, timVars, queueVars, rxVars,
         workVars
<1> QED BY <1>1, <1>2, <1>3, <1>4, <1>5

LEMMA DtimStartStep ==
  ASSUME IInv, DtimStart
  PROVE  IInv'
<1> USE DEF IInv
<1>1. UNCHANGED wq /\ Distinct' /\ \A x : Queued(x)' <=> Queued(x)
  BY DEF DtimStart, workVars, Distinct, Queued
<1>2. TypeOK' /\ Bounded'
  <2>1. TypeFlags /\ TypeCounts /\ TypePlaces
    BY TypeSplit
  <2>2. TypeFlags'
    BY <2>1
       DEF DtimStart, TypeFlags, maskVars, windowVars, timVars, queueVars,
           rxVars, workVars
  <2>3. TypeCounts' /\ Bounded'
    BY <2>1, NumberAssumption
       DEF DtimStart, TypeCounts, Bounded, maskVars, windowVars, timVars,
           queueVars, rxVars, workVars
  <2>4. TypePlaces'
    BY <2>1
       DEF DtimStart, TypePlaces, maskVars, windowVars, timVars, queueVars,
           rxVars, workVars
  <2> QED BY <1>1, <2>2, <2>3, <2>4, TypeSplit
<1>3. TimInv'
  BY DEF DtimStart, TimInv, timVars, workVars
<1>4. WindowHasFrames' /\ OnItsWay'
  BY DEF DtimStart, TypeOK, WindowHasFrames, OnItsWay, maskVars,
         windowVars, timVars, queueVars, rxVars, workVars
<1>5. Announcing'
  BY <1>1
     DEF DtimStart, Announcing, maskVars, windowVars, timVars, queueVars,
         rxVars, workVars
<1> QED BY <1>1, <1>2, <1>3, <1>4, <1>5

LEMMA DtimDelTimerStep ==
  ASSUME IInv, DtimDelTimer
  PROVE  IInv'
<1> USE DEF IInv
<1>1. UNCHANGED wq /\ Distinct' /\ \A x : Queued(x)' <=> Queued(x)
  BY DEF DtimDelTimer, workVars, Distinct, Queued
<1>2. TypeOK' /\ Bounded'
  <2>1. TypeFlags /\ TypeCounts /\ TypePlaces
    BY TypeSplit
  <2>2. TypeFlags'
    BY <2>1
       DEF DtimDelTimer, TypeFlags, maskVars, windowVars, timVars, queueVars,
           rxVars, workVars
  <2>3. TypeCounts' /\ Bounded'
    BY <2>1, NumberAssumption
       DEF DtimDelTimer, TypeCounts, Bounded, maskVars, windowVars, timVars,
           queueVars, rxVars, workVars
  <2>4. TypePlaces'
    BY <2>1
       DEF DtimDelTimer, TypePlaces, maskVars, windowVars, timVars, queueVars,
           rxVars, workVars
  <2> QED BY <1>1, <2>2, <2>3, <2>4, TypeSplit
<1>3. TimInv'
  BY DEF DtimDelTimer, TimInv, timVars, workVars
<1>4. WindowHasFrames' /\ OnItsWay'
  BY DEF DtimDelTimer, TypeOK, WindowHasFrames, OnItsWay, maskVars,
         windowVars, timVars, queueVars, rxVars, workVars
<1>5. Announcing'
  BY <1>1
     DEF DtimDelTimer, Announcing, maskVars, windowVars, timVars, queueVars,
         rxVars, workVars
<1> QED BY <1>1, <1>2, <1>3, <1>4, <1>5

LEMMA DtimStopStep ==
  ASSUME IInv, DtimStop
  PROVE  IInv'
<1> USE DEF IInv
<1>1. UNCHANGED wq /\ Distinct' /\ \A x : Queued(x)' <=> Queued(x)
  BY DEF DtimStop, workVars, Distinct, Queued
<1>2. TypeOK' /\ Bounded'
  <2>1. TypeFlags /\ TypeCounts /\ TypePlaces
    BY TypeSplit
  <2>2. TypeFlags'
    BY <2>1
       DEF DtimStop, TypeFlags, maskVars, windowVars, timVars, queueVars,
           rxVars, workVars
  <2>3. TypeCounts' /\ Bounded'
    BY <2>1, NumberAssumption
       DEF DtimStop, TypeCounts, Bounded, maskVars, windowVars, timVars,
           queueVars, rxVars, workVars
  <2>4. TypePlaces'
    BY <2>1
       DEF DtimStop, TypePlaces, maskVars, windowVars, timVars, queueVars,
           rxVars, workVars
  <2> QED BY <1>1, <2>2, <2>3, <2>4, TypeSplit
<1>3. TimInv'
  BY DEF DtimStop, TimInv, timVars, workVars
<1>4. WindowHasFrames' /\ OnItsWay'
  BY DEF DtimStop, TypeOK, WindowHasFrames, OnItsWay, maskVars,
         windowVars, timVars, queueVars, rxVars, workVars
<1>5. Announcing'
  BY <1>1
     DEF DtimStop, Announcing, maskVars, windowVars, timVars, queueVars,
         rxVars, workVars
<1> QED BY <1>1, <1>2, <1>3, <1>4, <1>5

LEMMA StopWorkStep ==
  ASSUME IInv, StopWork
  PROVE  IInv'
<1> USE DEF IInv
<1>1. UNCHANGED wq /\ Distinct' /\ \A x : Queued(x)' <=> Queued(x)
  BY DEF StopWork, workVars, Distinct, Queued
<1>2. TypeOK' /\ Bounded'
  <2>1. TypeFlags /\ TypeCounts /\ TypePlaces
    BY TypeSplit
  <2>2. TypeFlags'
    BY <2>1
       DEF StopWork, TypeFlags, maskVars, windowVars, timVars, queueVars,
           rxVars, workVars
  <2>3. TypeCounts' /\ Bounded'
    BY <2>1, NumberAssumption
       DEF StopWork, TypeCounts, Bounded, maskVars, windowVars, timVars,
           queueVars, rxVars, workVars
  <2>4. TypePlaces'
    BY <2>1
       DEF StopWork, TypePlaces, maskVars, windowVars, timVars, queueVars,
           rxVars, workVars
  <2> QED BY <1>1, <2>2, <2>3, <2>4, TypeSplit
<1>3. TimInv'
  BY DEF StopWork, TimInv, timVars, workVars
<1>4. WindowHasFrames' /\ OnItsWay'
  BY DEF StopWork, TypeOK, WindowHasFrames, OnItsWay, maskVars,
         windowVars, timVars, queueVars, rxVars, workVars
<1>5. Announcing'
  BY <1>1
     DEF StopWork, Announcing, maskVars, windowVars, timVars, queueVars,
         rxVars, workVars
<1> QED BY <1>1, <1>2, <1>3, <1>4, <1>5

LEMMA LockStep ==
  ASSUME IInv, Lock
  PROVE  IInv'
<1> USE DEF IInv
<1>1. UNCHANGED wq /\ Distinct' /\ \A x : Queued(x)' <=> Queued(x)
  BY DEF Lock, workVars, Distinct, Queued
<1>2. TypeOK' /\ Bounded'
  <2>1. TypeFlags /\ TypeCounts /\ TypePlaces
    BY TypeSplit
  <2>2. TypeFlags'
    BY <2>1
       DEF Lock, TypeFlags, maskVars, windowVars, timVars, queueVars, rxVars,
           workVars
  <2>3. TypeCounts' /\ Bounded'
    BY <2>1, NumberAssumption
       DEF Lock, TypeCounts, Bounded, maskVars, windowVars, timVars, queueVars,
           rxVars, workVars
  <2>4. TypePlaces'
    BY <2>1
       DEF Lock, TypePlaces, maskVars, windowVars, timVars, queueVars, rxVars,
           workVars
  <2> QED BY <1>1, <2>2, <2>3, <2>4, TypeSplit
<1>3. TimInv'
  BY DEF Lock, TimInv, timVars, workVars
<1>4. WindowHasFrames' /\ OnItsWay'
  BY DEF Lock, TypeOK, WindowHasFrames, OnItsWay, maskVars, windowVars,
         timVars, queueVars, rxVars, workVars
<1>5. Announcing'
  BY <1>1
     DEF Lock, Announcing, maskVars, windowVars, timVars, queueVars, rxVars,
         workVars
<1> QED BY <1>1, <1>2, <1>3, <1>4, <1>5

LEMMA AnnounceStep ==
  ASSUME IInv, Announce
  PROVE  IInv'
<1> USE DEF IInv
<1>1. UNCHANGED wq /\ Distinct' /\ \A x : Queued(x)' <=> Queued(x)
  BY DEF Announce, workVars, Distinct, Queued
<1>2. TypeOK' /\ Bounded'
  <2>1. TypeFlags /\ TypeCounts /\ TypePlaces
    BY TypeSplit
  <2>2. TypeFlags'
    BY <2>1
       DEF Announce, TypeFlags, maskVars, windowVars, timVars, queueVars,
           rxVars, workVars
  <2>3. TypeCounts' /\ Bounded'
    BY <2>1, NumberAssumption
       DEF Announce, TypeCounts, Bounded, maskVars, windowVars, timVars,
           queueVars, rxVars, workVars
  <2>4. TypePlaces'
    BY <2>1
       DEF Announce, TypePlaces, maskVars, windowVars, timVars, queueVars,
           rxVars, workVars
  <2> QED BY <1>1, <2>2, <2>3, <2>4, TypeSplit
<1>3. TimInv'
  BY DEF Announce, TimInv, timVars, workVars
<1>4. WindowHasFrames' /\ OnItsWay'
  BY DEF Announce, TypeOK, WindowHasFrames, OnItsWay, maskVars,
         windowVars, timVars, queueVars, rxVars, workVars
<1>5. Announcing'
  BY <1>1
     DEF Announce, Announcing, maskVars, windowVars, timVars, queueVars,
         rxVars, workVars
<1> QED BY <1>1, <1>2, <1>3, <1>4, <1>5

LEMMA StartTimerStep ==
  ASSUME IInv, StartTimer
  PROVE  IInv'
<1> USE DEF IInv
<1>1. UNCHANGED wq /\ Distinct' /\ \A x : Queued(x)' <=> Queued(x)
  BY DEF StartTimer, workVars, Distinct, Queued
<1>2. TypeOK' /\ Bounded'
  <2>1. TypeFlags /\ TypeCounts /\ TypePlaces
    BY TypeSplit
  <2>2. TypeFlags'
    BY <2>1
       DEF StartTimer, TypeFlags, maskVars, windowVars, timVars, queueVars,
           rxVars, workVars
  <2>3. TypeCounts' /\ Bounded'
    BY <2>1, NumberAssumption
       DEF StartTimer, TypeCounts, Bounded, maskVars, windowVars, timVars,
           queueVars, rxVars, workVars
  <2>4. TypePlaces'
    BY <2>1
       DEF StartTimer, TypePlaces, maskVars, windowVars, timVars, queueVars,
           rxVars, workVars
  <2> QED BY <1>1, <2>2, <2>3, <2>4, TypeSplit
<1>3. TimInv'
  BY DEF StartTimer, TimInv, timVars, workVars
<1>4. WindowHasFrames' /\ OnItsWay'
  BY DEF StartTimer, TypeOK, WindowHasFrames, OnItsWay, maskVars,
         windowVars, timVars, queueVars, rxVars, workVars
<1>5. Announcing'
  BY <1>1
     DEF StartTimer, Announcing, maskVars, windowVars, timVars, queueVars,
         rxVars, workVars
<1> QED BY <1>1, <1>2, <1>3, <1>4, <1>5

LEMMA WithdrawStep ==
  ASSUME IInv, Withdraw
  PROVE  IInv'
<1> USE DEF IInv
<1>1. UNCHANGED wq /\ Distinct' /\ \A x : Queued(x)' <=> Queued(x)
  BY DEF Withdraw, workVars, Distinct, Queued
<1>2. TypeOK' /\ Bounded'
  <2>1. TypeFlags /\ TypeCounts /\ TypePlaces
    BY TypeSplit
  <2>2. TypeFlags'
    BY <2>1
       DEF Withdraw, TypeFlags, maskVars, windowVars, timVars, queueVars,
           rxVars, workVars
  <2>3. TypeCounts' /\ Bounded'
    BY <2>1, NumberAssumption
       DEF Withdraw, TypeCounts, Bounded, maskVars, windowVars, timVars,
           queueVars, rxVars, workVars
  <2>4. TypePlaces'
    BY <2>1
       DEF Withdraw, TypePlaces, maskVars, windowVars, timVars, queueVars,
           rxVars, workVars
  <2> QED BY <1>1, <2>2, <2>3, <2>4, TypeSplit
<1>3. TimInv'
  BY DEF Withdraw, TimInv, timVars, workVars
<1>4. WindowHasFrames' /\ OnItsWay'
  BY DEF Withdraw, TypeOK, WindowHasFrames, OnItsWay, maskVars,
         windowVars, timVars, queueVars, rxVars, workVars
<1>5. Announcing'
  BY <1>1
     DEF Withdraw, Announcing, maskVars, windowVars, timVars, queueVars,
         rxVars, workVars
<1> QED BY <1>1, <1>2, <1>3, <1>4, <1>5

LEMMA UnlockStep ==
  ASSUME IInv, Unlock
  PROVE  IInv'
<1> USE DEF IInv
<1>1. UNCHANGED wq /\ Distinct' /\ \A x : Queued(x)' <=> Queued(x)
  BY DEF Unlock, workVars, Distinct, Queued
<1>2. TypeOK' /\ Bounded'
  <2>1. TypeFlags /\ TypeCounts /\ TypePlaces
    BY TypeSplit
  <2>2. TypeFlags'
    BY <2>1
       DEF Unlock, TypeFlags, maskVars, windowVars, timVars, queueVars, rxVars,
           workVars
  <2>3. TypeCounts' /\ Bounded'
    BY <2>1, NumberAssumption
       DEF Unlock, TypeCounts, Bounded, maskVars, windowVars, timVars,
           queueVars, rxVars, workVars
  <2>4. TypePlaces'
    BY <2>1
       DEF Unlock, TypePlaces, maskVars, windowVars, timVars, queueVars,
           rxVars, workVars
  <2> QED BY <1>1, <2>2, <2>3, <2>4, TypeSplit
<1>3. TimInv'
  BY DEF Unlock, TimInv, timVars, workVars
<1>4. WindowHasFrames' /\ OnItsWay'
  BY DEF Unlock, TypeOK, WindowHasFrames, OnItsWay, maskVars,
         windowVars, timVars, queueVars, rxVars, workVars
<1>5. Announcing'
  BY <1>1
     DEF Unlock, Announcing, maskVars, windowVars, timVars, queueVars, rxVars,
         workVars
<1> QED BY <1>1, <1>2, <1>3, <1>4, <1>5

LEMMA SetTimWorkStep ==
  ASSUME IInv, SetTimWork
  PROVE  IInv'
<1> USE DEF IInv
<1>1. UNCHANGED wq /\ Distinct' /\ \A x : Queued(x)' <=> Queued(x)
  BY DEF SetTimWork, workVars, Distinct, Queued
<1>2. TypeOK' /\ Bounded'
  <2>1. TypeFlags /\ TypeCounts /\ TypePlaces
    BY TypeSplit
  <2>2. TypeFlags'
    BY <2>1
       DEF SetTimWork, TypeFlags, maskVars, windowVars, timVars, queueVars,
           rxVars, workVars
  <2>3. TypeCounts' /\ Bounded'
    BY <2>1, NumberAssumption
       DEF SetTimWork, TypeCounts, Bounded, maskVars, windowVars, timVars,
           queueVars, rxVars, workVars
  <2>4. TypePlaces'
    BY <2>1
       DEF SetTimWork, TypePlaces, maskVars, windowVars, timVars, queueVars,
           rxVars, workVars
  <2> QED BY <1>1, <2>2, <2>3, <2>4, TypeSplit
<1>3. TimInv'
  BY DEF SetTimWork, TimInv, timVars, workVars
<1>4. WindowHasFrames' /\ OnItsWay'
  BY DEF SetTimWork, TypeOK, WindowHasFrames, OnItsWay, maskVars,
         windowVars, timVars, queueVars, rxVars, workVars
<1>5. Announcing'
  BY <1>1
     DEF SetTimWork, Announcing, maskVars, windowVars, timVars, queueVars,
         rxVars, workVars
<1> QED BY <1>1, <1>2, <1>3, <1>4, <1>5

LEMMA SleepsStep ==
  ASSUME IInv, NEW links \in SUBSET Sta, Sleeps(links),
         UNCHANGED <<link_id_map, windowVars, timVars, mcast_timeout,
                     queueVars, bh, rxVars, worker, tx_lock>>
  PROVE  IInv'
<1> USE DEF IInv
<1>1. /\ wq' \in Seq(Item) /\ Distinct'
      /\ \A x : Queued(x)' <=>
           \/ Queued(x)
           \/ buffered_multicasts /\ sta_asleep_mask = {} /\ x = "start"
  <2>1. CASE (buffered_multicasts /\ sta_asleep_mask = {})
    BY <2>1, QueueWorkFacts DEF Sleeps, TypeOK, Item, QueueWorkIf, workVars
  <2>2. CASE ~((buffered_multicasts /\ sta_asleep_mask = {}))
    BY <2>2 DEF Sleeps, TypeOK, Item, QueueWorkIf, Distinct, Queued, workVars
  <2> QED BY <2>1, <2>2
<1>2. TypeOK' /\ Bounded'
  <2>1. TypeFlags /\ TypeCounts /\ TypePlaces
    BY TypeSplit
  <2>2. TypeFlags'
    BY <2>1
       DEF Sleeps, TypeFlags, maskVars, windowVars, timVars, queueVars, rxVars,
           workVars
  <2>3. TypeCounts' /\ Bounded'
    BY <2>1, NumberAssumption
       DEF Sleeps, TypeCounts, Bounded, maskVars, windowVars, timVars,
           queueVars, rxVars, workVars
  <2>4. TypePlaces'
    BY <2>1
       DEF Sleeps, TypePlaces, maskVars, windowVars, timVars, queueVars,
           rxVars, workVars
  <2> QED BY <1>1, <2>2, <2>3, <2>4, TypeSplit
<1>3. TimInv'
  BY <1>1 DEF Sleeps, TimInv, timVars, workVars
<1>4. WindowHasFrames' /\ OnItsWay'
  BY DEF Sleeps, TypeOK, WindowHasFrames, OnItsWay, maskVars,
         windowVars, timVars, queueVars, rxVars, workVars
<1>5. Announcing'
  BY <1>1
     DEF Sleeps, TypeOK, WindowHasFrames, Announcing, maskVars, windowVars,
         timVars, queueVars, rxVars, workVars
<1> QED BY <1>1, <1>2, <1>3, <1>4, <1>5

LEMMA WakesStep ==
  ASSUME IInv, NEW links \in SUBSET Sta, NEW link \in 0 .. MaxSta,
         Wakes(links, link),
         UNCHANGED <<link_id_map, windowVars, timVars, mcast_timeout,
                     queueVars, bh, rxVars, worker, tx_lock>>
  PROVE  IInv'
<1> USE DEF IInv
<1>1. /\ wq' \in Seq(Item) /\ Distinct'
      /\ \A x : Queued(x)' <=>
           \/ Queued(x)
           \/ /\ tx_multicast /\ link # All /\ sta_asleep_mask' = {}
              /\ x = "stop"
  <2>1. CASE (tx_multicast /\ link # All /\ sta_asleep_mask' = {})
    BY <2>1, QueueWorkFacts DEF Wakes, TypeOK, Item, QueueWorkIf, workVars
  <2>2. CASE ~((tx_multicast /\ link # All /\ sta_asleep_mask' = {}))
    BY <2>2 DEF Wakes, TypeOK, Item, QueueWorkIf, Distinct, Queued, workVars
  <2> QED BY <2>1, <2>2
<1>2. TypeOK' /\ Bounded'
  <2>1. TypeFlags /\ TypeCounts /\ TypePlaces
    BY TypeSplit
  <2>2. TypeFlags'
    BY <2>1
       DEF Wakes, TypeFlags, maskVars, windowVars, timVars, queueVars, rxVars,
           workVars
  <2>3. TypeCounts' /\ Bounded'
    BY <2>1, NumberAssumption
       DEF Wakes, TypeCounts, Bounded, maskVars, windowVars, timVars,
           queueVars, rxVars, workVars
  <2>4. TypePlaces'
    BY <2>1
       DEF Wakes, TypePlaces, maskVars, windowVars, timVars, queueVars, rxVars,
           workVars
  <2> QED BY <1>1, <2>2, <2>3, <2>4, TypeSplit
<1>3. TimInv'
  BY <1>1 DEF Wakes, TimInv, timVars, workVars
<1>4. WindowHasFrames' /\ OnItsWay'
  BY DEF Wakes, TypeOK, WindowHasFrames, OnItsWay, maskVars, windowVars,
         timVars, queueVars, rxVars, workVars
<1>5. Announcing'
  BY <1>1
     DEF Wakes, TypeOK, WindowHasFrames, Announcing, maskVars, windowVars,
         timVars, queueVars, rxVars, workVars
<1> QED BY <1>1, <1>2, <1>3, <1>4, <1>5

LEMMA StaNotifyStep ==
  ASSUME IInv, NEW s \in Sta, StaNotify(s)
  PROVE  IInv'
<1>1. s \in 0 .. MaxSta
  BY NumberAssumption DEF Sta
<1> QED BY <1>1, SleepsStep, WakesStep DEF StaNotify

LEMMA FwUnicastStep ==
  ASSUME IInv, NEW link \in FwLinks, FwUnicast(link)
  PROVE  IInv'
<1>1. link \in 0 .. MaxSta /\ (link # All => link \in Sta)
  BY FwLinksAssumption, NumberAssumption DEF Sta, All
<1>2. link_id_map \in SUBSET Sta
  BY DEF IInv, TypeOK
<1>3. CASE woken' = TRUE /\ UNCHANGED <<sta_asleep_mask, wq>>
  <2> USE <1>3 DEF IInv, FwUnicast
  <2>1. UNCHANGED wq /\ Distinct' /\ \A x : Queued(x)' <=> Queued(x)
    BY DEF Distinct, Queued
  <2>2. TypeOK' /\ Bounded' /\ TimInv'
    BY DEF TypeOK, Bounded, TimInv, windowVars, timVars, queueVars, rxVars
  <2>3. WindowHasFrames' /\ OnItsWay'
    BY DEF WindowHasFrames, OnItsWay, windowVars
  <2>4. Announcing'
    BY <2>1 DEF Announcing, windowVars, timVars
  <2> QED BY <2>1, <2>2, <2>3, <2>4
<1> QED BY <1>1, <1>2, <1>3, SleepsStep, WakesStep DEF FwUnicast

LEMMA TxStep ==
  ASSUME IInv, Tx
  PROVE  IInv'
<1> USE DEF IInv
<1>1. /\ wq' \in Seq(Item) /\ Distinct'
      /\ \A x : Queued(x)' <=>
           \/ Queued(x)
           \/ ~buffered_multicasts /\ sta_asleep_mask # {} /\ x = "start"
  <2>1. CASE (~buffered_multicasts /\ sta_asleep_mask # {})
    BY <2>1, QueueWorkFacts DEF Tx, TypeOK, Item, QueueWorkIf, workVars
  <2>2. CASE ~((~buffered_multicasts /\ sta_asleep_mask # {}))
    BY <2>2 DEF Tx, TypeOK, Item, QueueWorkIf, Distinct, Queued, workVars
  <2> QED BY <2>1, <2>2
<1>2. TypeOK' /\ Bounded'
  <2>1. TypeFlags /\ TypeCounts /\ TypePlaces
    BY TypeSplit
  <2>2. TypeFlags'
    BY <2>1
       DEF Tx, TypeFlags, maskVars, windowVars, timVars, queueVars, rxVars,
           workVars
  <2>3. TypeCounts' /\ Bounded'
    BY <2>1, NumberAssumption
       DEF Tx, TypeCounts, Bounded, maskVars, windowVars, timVars, queueVars,
           rxVars, workVars
  <2>4. TypePlaces'
    BY <2>1
       DEF Tx, TypePlaces, maskVars, windowVars, timVars, queueVars, rxVars,
           workVars
  <2> QED BY <1>1, <2>2, <2>3, <2>4, TypeSplit
<1>3. TimInv'
  BY <1>1 DEF Tx, TimInv, timVars, workVars
<1>4. WindowHasFrames' /\ OnItsWay'
  BY DEF Tx, TypeOK, WindowHasFrames, OnItsWay, maskVars, windowVars,
         timVars, queueVars, rxVars, workVars
<1>5. Announcing'
  BY <1>1
     DEF Tx, TypeOK, WindowHasFrames, Announcing, maskVars, windowVars,
         timVars, queueVars, rxVars, workVars
<1> QED BY <1>1, <1>2, <1>3, <1>4, <1>5

LEMMA BhSelectStep ==
  ASSUME IInv, NEW unicast \in BOOLEAN, BhSelect(unicast)
  PROVE  IInv'
<1> USE DEF IInv
<1> DEFINE reset == /\ buffered_multicasts
                    /\ ~(Window /\ queued > 1)
                    /\ tx_multicast \/ sta_asleep_mask = {}
<1>1. /\ wq' \in Seq(Item) /\ Distinct'
      /\ \A x : Queued(x)' <=>
           Queued(x) \/ (reset /\ tx_multicast /\ x = "stop")
  <2>1. CASE reset /\ tx_multicast
    BY <2>1, QueueWorkFacts DEF BhSelect, TypeOK, Item, QueueWorkIf, workVars
  <2>2. CASE ~(reset /\ tx_multicast)
    BY <2>2 DEF BhSelect, TypeOK, Item, QueueWorkIf, Distinct, Queued, workVars
  <2> QED BY <2>1, <2>2
<1>2. TypeOK' /\ Bounded'
  <2>1. TypeFlags /\ TypeCounts /\ TypePlaces
    BY TypeSplit
  <2>2. TypeFlags'
    BY <2>1
       DEF BhSelect, SelectQueue, Window, TypeFlags, maskVars, windowVars, timVars,
           queueVars, rxVars, workVars
  <2>3. TypeCounts' /\ Bounded'
    BY <2>1, NumberAssumption
       DEF BhSelect, SelectQueue, Window, TypeCounts, Bounded, maskVars, windowVars,
           timVars, queueVars, rxVars, workVars
  <2>4. TypePlaces'
    BY <2>1
       DEF BhSelect, SelectQueue, Window, Asleep, TypePlaces, maskVars, windowVars, timVars,
           queueVars, rxVars, workVars
  <2> QED BY <1>1, <2>2, <2>3, <2>4, TypeSplit
<1>3. TimInv'
  BY <1>1 DEF BhSelect, SelectQueue, Window, TimInv, timVars, workVars
<1>4. WindowHasFrames' /\ OnItsWay'
  <2>1. WindowHasFrames'
    BY DEF BhSelect, WindowHasFrames, windowVars
  <2>2. /\ UNCHANGED <<queued, sta_asleep_mask, woken>>
        /\ bh' = "asleep" => sta_asleep_mask # {} \/ queued = 0
    BY DEF BhSelect, SelectQueue, maskVars, queueVars
  <2>3. OnItsWay'
    BY <2>2, NumberAssumption DEF OnItsWay, TypeOK
  <2> QED BY <2>1, <2>3
<1>5. Announcing'
  <2>1. CASE reset
    BY <2>1 DEF BhSelect, Announcing
  <2>2. CASE ~reset
    <3>1. UNCHANGED <<sta_asleep_mask, buffered_multicasts, aid0_bit_set,
                      worker>>
      BY <2>2 DEF BhSelect, maskVars, windowVars, timVars
    <3>2. \A x : Queued(x)' <=> Queued(x)
      BY <1>1, <2>2
    <3> QED BY <3>1, <3>2 DEF Announcing
  <2> QED BY <2>1, <2>2
<1> QED BY <1>1, <1>2, <1>3, <1>4, <1>5

LEMMA McastTimeoutStep ==
  ASSUME IInv, McastTimeout
  PROVE  IInv'
<1> USE DEF IInv
<1>1. /\ wq' \in Seq(Item) /\ Distinct'
      /\ \A x : Queued(x)' <=>
           Queued(x) \/ (~tx_multicast' /\ aid0_bit_set /\ x = "stop")
  <2>1. CASE (~tx_multicast' /\ aid0_bit_set)
    BY <2>1, QueueWorkFacts
       DEF McastTimeout, TypeOK, Item, QueueWorkIf, workVars
  <2>2. CASE ~(~tx_multicast' /\ aid0_bit_set)
    BY <2>2
       DEF McastTimeout, TypeOK, Item, QueueWorkIf, Distinct, Queued, workVars
  <2> QED BY <2>1, <2>2
<1>2. TypeOK' /\ Bounded'
  <2>1. TypeFlags /\ TypeCounts /\ TypePlaces
    BY TypeSplit
  <2>2. TypeFlags'
    BY <2>1
       DEF McastTimeout, TypeFlags, maskVars, windowVars, timVars, queueVars,
           rxVars, workVars
  <2>3. TypeCounts' /\ Bounded'
    BY <2>1, NumberAssumption
       DEF McastTimeout, TypeCounts, Bounded, maskVars, windowVars, timVars,
           queueVars, rxVars, workVars
  <2>4. TypePlaces'
    BY <2>1
       DEF McastTimeout, TypePlaces, maskVars, windowVars, timVars, queueVars,
           rxVars, workVars
  <2> QED BY <1>1, <2>2, <2>3, <2>4, TypeSplit
<1>3. TimInv'
  BY <1>1 DEF McastTimeout, TimInv, timVars, workVars
<1>4. WindowHasFrames' /\ OnItsWay'
  BY DEF McastTimeout, TypeOK, WindowHasFrames, OnItsWay, maskVars,
         windowVars, timVars, queueVars, rxVars, workVars
<1>5. Announcing'
  BY <1>1
     DEF McastTimeout, TypeOK, WindowHasFrames, Announcing, maskVars,
         windowVars, timVars, queueVars, rxVars, workVars
<1> QED BY <1>1, <1>2, <1>3, <1>4, <1>5

LEMMA WqTakeStep ==
  ASSUME IInv, WqTake
  PROVE  IInv'
<1> USE DEF IInv
<1>1. /\ wq' \in Seq(Item) /\ Distinct' /\ worker' \in Item
      /\ Queued(worker')
      /\ \A x : Queued(x)' <=> Queued(x) /\ x # worker'
  BY TakeFacts DEF WqTake, TypeOK, Item
<1>2. /\ worker = "idle"
      /\ UNCHANGED <<maskVars, windowVars, timVars, mcast_timeout, queueVars,
                     woken, bh, rxVars, tx_lock>>
  BY DEF WqTake
<1> USE DEF maskVars, windowVars, timVars, queueVars, rxVars, workVars
<1>3. TypeOK' /\ Bounded'
  BY <1>1, <1>2 DEF TypeOK, Bounded, Item
<1>4. TimInv'
  BY <1>1, <1>2 DEF TimInv, Item
<1>5. WindowHasFrames' /\ OnItsWay'
  BY <1>2 DEF WindowHasFrames, OnItsWay
<1>6. Announcing'
  <2>1. CASE worker' = "start"
    BY <2>1 DEF Announcing
  <2>2. CASE worker' = "stop"
    BY <1>1, <1>2, <2>2 DEF Announcing
  <2>3. CASE worker' = "tim"
    BY <1>1, <1>2, <2>3 DEF Announcing
  <2> QED BY <1>1, <2>1, <2>2, <2>3 DEF Item
<1> QED BY <1>1, <1>3, <1>4, <1>5, <1>6

LEMMA StartWorkStep ==
  ASSUME IInv, StartWork
  PROVE  IInv'
<1> USE DEF IInv
<1>1. /\ wq' \in Seq(Item) /\ Distinct'
      /\ \A x : Queued(x)' <=> Queued(x) /\ x # "stop"
  BY CancelWorkFacts DEF StartWork, TypeOK, Item
<1>2. TypeOK' /\ Bounded'
  <2>1. TypeFlags /\ TypeCounts /\ TypePlaces
    BY TypeSplit
  <2>2. TypeFlags'
    BY <2>1
       DEF StartWork, TypeFlags, maskVars, windowVars, timVars, queueVars,
           rxVars, workVars
  <2>3. TypeCounts' /\ Bounded'
    BY <2>1, NumberAssumption
       DEF StartWork, TypeCounts, Bounded, maskVars, windowVars, timVars,
           queueVars, rxVars, workVars
  <2>4. TypePlaces'
    BY <2>1
       DEF StartWork, TypePlaces, maskVars, windowVars, timVars, queueVars,
           rxVars, workVars
  <2> QED BY <1>1, <2>2, <2>3, <2>4, TypeSplit
<1>3. TimInv'
  BY <1>1 DEF StartWork, TimInv, timVars, workVars
<1>4. WindowHasFrames' /\ OnItsWay'
  BY DEF StartWork, TypeOK, WindowHasFrames, OnItsWay, maskVars,
         windowVars, timVars, queueVars, rxVars, workVars
<1>5. Announcing'
  BY <1>1
     DEF StartWork, TypeOK, WindowHasFrames, Announcing, maskVars, windowVars,
         timVars, queueVars, rxVars, workVars
<1> QED BY <1>1, <1>2, <1>3, <1>4, <1>5

LEMMA SetTimStep ==
  ASSUME IInv, SetTim
  PROVE  IInv'
<1> USE DEF IInv
<1>1. /\ wq' \in Seq(Item) /\ Distinct'
      /\ \A x : Queued(x)' <=> Queued(x) \/ x = "tim"
  BY QueueWorkFacts DEF SetTim, TypeOK, Item
<1>2. TypeOK' /\ Bounded'
  <2>1. TypeFlags /\ TypeCounts /\ TypePlaces
    BY TypeSplit
  <2>2. TypeFlags'
    BY <2>1
       DEF SetTim, TypeFlags, maskVars, windowVars, timVars, queueVars, rxVars,
           workVars
  <2>3. TypeCounts' /\ Bounded'
    BY <2>1, NumberAssumption
       DEF SetTim, TypeCounts, Bounded, maskVars, windowVars, timVars,
           queueVars, rxVars, workVars
  <2>4. TypePlaces'
    BY <2>1
       DEF SetTim, TypePlaces, maskVars, windowVars, timVars, queueVars,
           rxVars, workVars
  <2> QED BY <1>1, <2>2, <2>3, <2>4, TypeSplit
<1>3. TimInv'
  BY <1>1 DEF SetTim, TimInv, timVars, workVars
<1>4. WindowHasFrames' /\ OnItsWay'
  BY DEF SetTim, TypeOK, WindowHasFrames, OnItsWay, maskVars,
         windowVars, timVars, queueVars, rxVars, workVars
<1>5. Announcing'
  BY <1>1
     DEF SetTim, TypeOK, WindowHasFrames, Announcing, maskVars, windowVars,
         timVars, queueVars, rxVars, workVars
<1> QED BY <1>1, <1>2, <1>3, <1>4, <1>5

-----------------------------------------------------------------------------

LEMMA InitIInv == Init => IInv
<1> SUFFICES ASSUME Init PROVE IInv
  OBVIOUS
<1>1. TypeOK
  <2>1. wq \in Seq({"start", "stop", "tim"})
    BY DEF Init
  <2>2. queued \in 0 .. MaxMc /\ sent \in 0 .. MaxMc
    BY NumberAssumption DEF Init
  <2> QED BY <2>1, <2>2 DEF Init, TypeOK, Asleep
<1>2. Bounded /\ Distinct /\ TimInv
  BY DEF Init, Bounded, Distinct, TimInv
<1>3. WindowHasFrames /\ OnItsWay /\ Announcing
  BY DEF Init, WindowHasFrames, OnItsWay, Announcing
<1> QED BY <1>1, <1>2, <1>3 DEF IInv

LEMMA StutterStep ==
  ASSUME IInv, UNCHANGED vars
  PROVE  IInv'
<1> USE DEF IInv, vars, maskVars, windowVars, timVars, queueVars, rxVars,
            workVars
<1>1. TypeOK' /\ Bounded' /\ Distinct' /\ TimInv'
  BY DEF TypeOK, Bounded, Distinct, TimInv
<1>2. WindowHasFrames' /\ OnItsWay' /\ Announcing'
  BY DEF WindowHasFrames, OnItsWay, Announcing, Queued
<1> QED BY <1>1, <1>2

LEMMA NextStep ==
  ASSUME IInv, Next
  PROVE  IInv'
<1>1. ASSUME NEW s \in Sta, StaStep(s) PROVE IInv'
  BY <1>1, StaAddStep, StaRemoveStep, TxAuthStep, StaNotifyStep DEF StaStep
<1>2. ASSUME NEW link \in FwLinks, FwUnicast(link) PROVE IInv'
  BY <1>2, FwUnicastStep
<1>3. CASE Tx \/ Expire \/ SetTim
  BY <1>3, TxStep, ExpireStep, SetTimStep
<1>4. CASE BhStep
  BY <1>4, BhWakeStep, BhKeptOutStep, BhSelectStep, BhGetStep, BhLoseStep
     DEF BhStep
<1>5. CASE WorkerStep
  BY <1>5, WqTakeStep, StartWorkStep, StopWorkStep, LockStep, AnnounceStep,
     StartTimerStep, WithdrawStep, UnlockStep, SetTimWorkStep DEF WorkerStep
<1>6. CASE DtimStart \/ DtimDelTimer \/ DtimStop \/ McastTimeout
  BY <1>6, DtimStartStep, DtimDelTimerStep, DtimStopStep, McastTimeoutStep
<1> QED BY <1>1, <1>2, <1>3, <1>4, <1>5, <1>6 DEF Next

\* The inductive invariant holds of the flags, the queue of the worker, the
\* beacon and the transmit thread in every reachable state.
THEOREM Invariance == Spec => []IInv
<1>1. IInv /\ [Next]_vars => IInv'
  BY NextStep, StutterStep
<1> QED BY InitIInv, <1>1, PTL DEF Spec

\* The variables keep their types: no frame is taken that is not there.
THEOREM TypeCorrect == Spec => []TypeOK
<1>1. IInv => TypeOK
  BY DEF IInv
<1> QED BY Invariance, <1>1, PTL

\* While a station sleeps, what is buffered is announced, or will be when the
\* worker has run multicast_start_work.
THEOREM AnnouncedCorrect == Spec => []Announced
<1>1. IInv => Announced
  BY DEF IInv, Announcing, Announced
<1> QED BY Invariance, <1>1, PTL

\* The window tx_multicast is open only while frames are buffered.
THEOREM WindowHasFramesCorrect == Spec => []WindowHasFrames
<1>1. IInv => WindowHasFrames
  BY DEF IInv
<1> QED BY Invariance, <1>1, PTL

\* With all stations awake the transmit thread does not sleep on a multicast
\* frame that waits, TX being free, unless it gave the access point up after a
\* frame lost on the way or was kept from looking by the other interface.
THEOREM OnItsWayCorrect == Spec => []OnItsWay
<1>1. IInv => OnItsWay
  BY DEF IInv
<1> QED BY Invariance, <1>1, PTL

\* The window opens only while the beacon announces: atbm_suspend_resume and
\* atbm_mcast_timeout may trust aid0_bit_set.
THEOREM WindowAnnouncedCorrect == Spec => WindowAnnounced
<1>1. ASSUME IInv, Next, tx_multicast' /\ ~tx_multicast
      PROVE  tim
  <2>1. CASE DtimStart \/ McastTimeout
    BY <1>1, <2>1 DEF IInv, TimInv, DtimStart, McastTimeout
  <2>2. CASE ~(DtimStart \/ McastTimeout)
    <3>1. tx_multicast' => tx_multicast
      BY <1>1, <2>2
         DEF Next, StaStep, BhStep, WorkerStep, StaAdd, StaRemove, TxAuth,
         StaNotify, FwUnicast, Tx, Expire, SetTim, BhWake, BhKeptOut, BhGet,
         BhLose, BhSelect, WqTake,
         StartWork, StopWork, Lock, Announce, StartTimer, Withdraw, Unlock,
         SetTimWork, DtimDelTimer, DtimStop, windowVars
    <3> QED BY <1>1, <3>1
  <2> QED BY <2>1, <2>2
<1>2. IInv /\ [Next]_vars => [tx_multicast' /\ ~tx_multicast => tim]_vars
  BY <1>1 DEF vars
<1> QED BY Invariance, <1>2, PTL DEF Spec, WindowAnnounced
=============================================================================
