------------------------- MODULE TxAdmissionProofs -------------------------
(***************************************************************************)
(* Proofs about TxAdmission, for any pool, capacities and number of CPUs   *)
(* that meet the assumptions of the module.  ATBM_WIFI_MAX_QUEUE_SZ and    *)
(* the capacities derived from it meet them with up to 16 CPUs.            *)
(***************************************************************************)
EXTENDS TxAdmission, TLAPS

\* What a capacity admits is at least its two thresholds, and the largest
\* capacity admits the most.
LEMMA AdmittedFacts ==
  ASSUME NEW cap \in Caps
  PROVE  /\ Admitted(cap) \in Int /\ ReleaseLevel(cap) \in Int
         /\ Admitted(cap) >= cap - NCpu - 1
         /\ Admitted(cap) >= ReleaseLevel(cap)
         /\ Admitted(cap) <= Admitted(SingleCap)
<1>1. /\ cap \in Nat /\ SingleCap \in Nat /\ NCpu \in Nat /\ cap <= SingleCap
  BY CapAssumption DEF Caps
<1> QED BY <1>1 DEF Admitted, ReleaseLevel

\* The capacities in force are capacities of the module.
LEMMA CapsOfType ==
  ASSUME NEW j \in [Vif -> BOOLEAN]
  PROVE  CapsOf(j) \in [Vif -> Caps]
BY DEF CapsOf, Caps

\* What the frames of an interface, queued and in flight, are bounded by when
\* its capacity is in force for good: its transmitters may only send while it
\* holds at most Admitted frames, and at most NCpu of them are let through.
Within(v, bound) ==
  /\ ~overfull[v] => num_queued_vif[v] <= bound
  /\ num_queued_vif[v] + inflight[v] <= bound + NCpu

CpusInv == inflight[0] + inflight[1] <= NCpu

\* One step of the queue of interface v keeps the types and the bounds, for
\* any bound that is at least what the capacities in force admit.
LEMMA QueueStepKeeps ==
  ASSUME TypeOK, CpusInv, NEW b \in [Vif -> Int],
         \A w \in Vif : b[w] >= Admitted(queue_cap[w]) /\ Within(w, b[w]),
         NEW v \in Vif, QueueStep(v)
  PROVE  /\ TypeOK' /\ CpusInv'
         /\ UNCHANGED <<joined, queue_cap>>
         /\ \A w \in Vif : Within(w, b[w])'
<1> NCpu \in Nat /\ Vif = {0, 1}
  BY CapAssumption DEF Vif
<1>0. /\ num_queued_vif \in [Vif -> Nat] /\ inflight \in [Vif -> Nat]
      /\ overfull \in [Vif -> BOOLEAN] /\ gcTimer \in [Vif -> BOOLEAN]
      /\ queue_cap \in [Vif -> Caps]
  BY DEF TypeOK
<1>a. \A w \in Vif : /\ b[w] \in Int /\ b[w] >= ReleaseLevel(queue_cap[w])
                     /\ b[w] >= queue_cap[w] - NCpu - 1
                     /\ ReleaseLevel(queue_cap[w]) \in Int
                     /\ queue_cap[w] \in Int
  BY <1>0, AdmittedFacts, CapAssumption DEF Caps
\* Only interface v changes.
<1>b. \A w \in Vif \ {v} : /\ num_queued_vif'[w] = num_queued_vif[w]
                           /\ inflight'[w] = inflight[w]
                           /\ overfull'[w] = overfull[w]
  BY <1>0 DEF QueueStep, TxStart, TxDrop, Put, Remove, Clear, Gc
<1>c. /\ UNCHANGED <<joined, queue_cap>>
  BY DEF QueueStep, TxStart, TxDrop, Put, Remove, Clear, Gc
<1>d. \A w \in Vif \ {v} : Within(w, b[w])'
  BY <1>b DEF Within
<1>1. CASE TxStart(v)
  <2>1. TypeOK' /\ CpusInv'
    BY <1>0, <1>1 DEF TxStart, TypeOK, CpusInv
  <2>2. Within(v, b[v])'
    BY <1>0, <1>1, <1>a, <2>1 DEF TxStart, Within, CpusInv, TypeOK
  <2> QED BY <1>c, <1>d, <2>1, <2>2
<1>2. CASE TxDrop(v)
  <2>1. TypeOK' /\ CpusInv'
    BY <1>0, <1>2 DEF TxDrop, TypeOK, CpusInv
  <2>2. Within(v, b[v])'
    BY <1>0, <1>2, <1>a DEF TxDrop, Within
  <2> QED BY <1>c, <1>d, <2>1, <2>2
<1>3. CASE Put(v)
  <2>1. /\ num_queued_vif' = [num_queued_vif EXCEPT ![v] = @ + 1]
        /\ inflight' = [inflight EXCEPT ![v] = @ - 1]
        /\ inflight[v] > 0
    BY <1>3 DEF Put
  <2>2. /\ num_queued_vif'[v] = num_queued_vif[v] + 1
        /\ inflight'[v] = inflight[v] - 1
        /\ num_queued_vif' \in [Vif -> Nat] /\ inflight' \in [Vif -> Nat]
    BY <1>0, <2>1
  <2>3. overfull' \in [Vif -> BOOLEAN] /\ gcTimer' \in [Vif -> BOOLEAN]
    BY <1>0, <1>3 DEF Put
  <2>4. TypeOK' /\ CpusInv'
    BY <1>c, <2>1, <2>2, <2>3, <1>0 DEF TypeOK, CpusInv
  <2>5. ~overfull'[v] => ~overfull[v] /\ num_queued_vif'[v] < queue_cap[v] - NCpu
    BY <1>0, <1>3, <1>a, <2>2 DEF Put, Overflows
  <2>6. Within(v, b[v])'
    BY <1>0, <1>a, <2>2, <2>5 DEF Within
  <2> QED BY <1>c, <1>d, <2>4, <2>6
<1>4. ASSUME overfull' = [overfull EXCEPT ![v] = @ /\ ~Drained(v)],
             num_queued_vif'[v] \in Nat, num_queued_vif'[v] <= num_queued_vif[v],
             inflight' = inflight
      PROVE  Within(v, b[v])'
  <2>1. ~overfull'[v] => \/ ~overfull[v]
                         \/ num_queued_vif'[v] <= ReleaseLevel(queue_cap[v])
    BY <1>0, <1>4 DEF Drained
  <2> QED BY <1>0, <1>4, <1>a, <2>1 DEF Within
<1>5. CASE Remove(v)
  <2>1. TypeOK' /\ CpusInv'
    BY <1>0, <1>5 DEF Remove, TypeOK, CpusInv
  <2>2. num_queued_vif'[v] \in Nat /\ num_queued_vif'[v] <= num_queued_vif[v]
    BY <1>0, <1>5 DEF Remove
  <2> QED BY <1>4, <1>5, <1>c, <1>d, <2>1, <2>2 DEF Remove
<1>6. ASSUME NEW n \in 0 .. num_queued_vif[v], Gc(v, n)
      PROVE  TypeOK' /\ CpusInv' /\ Within(v, b[v])'
  <2>1. gcTimer' \in [Vif -> BOOLEAN] /\ overfull' \in [Vif -> BOOLEAN]
    BY <1>0, <1>6 DEF Gc
  <2>2. /\ num_queued_vif'[v] \in Nat /\ num_queued_vif'[v] <= num_queued_vif[v]
        /\ num_queued_vif' \in [Vif -> Nat]
    BY <1>0, <1>6 DEF Gc
  <2>3. TypeOK' /\ CpusInv'
    BY <1>6, <2>1, <2>2 DEF Gc, TypeOK, CpusInv
  <2> QED BY <1>4, <1>6, <2>2, <2>3 DEF Gc
<1>7. CASE Clear(v)
  <2>1. TypeOK' /\ CpusInv'
    BY <1>0, <1>7 DEF Clear, TypeOK, CpusInv
  <2>2. Within(v, b[v])'
    <3>1. num_queued_vif'[v] = 0 /\ inflight' = inflight
      BY <1>0, <1>7 DEF Clear
    <3>2. inflight[v] <= NCpu /\ inflight[v] \in Nat
      BY <1>0 DEF CpusInv
    <3>3. b[v] \in Nat
      <4>1. queue_cap[v] \in Nat
        BY <1>0, CapAssumption
      <4>2. ReleaseLevel(queue_cap[v]) \in Nat
        BY <4>1 DEF ReleaseLevel
      <4> QED BY <1>a, <4>2
    <3> QED BY <3>1, <3>2, <3>3 DEF Within
  <2> QED BY <1>c, <1>d, <2>1, <2>2
<1> QED BY <1>1, <1>2, <1>3, <1>5, <1>6, <1>7, <1>c, <1>d DEF QueueStep

-----------------------------------------------------------------------------
(* Bounds that hold while interfaces join and leave.                       *)

\* The bound on an interface does not depend on the capacity in force now:
\* that of the largest capacity is inductive.
BoundInv ==
  /\ TypeOK
  /\ CpusInv
  /\ \A w \in Vif : Within(w, Admitted(SingleCap))

\* BoundInv holds in every reachable state.
LEMMA BoundInvariant == Spec => []BoundInv
<1>0. NCpu \in Nat /\ Vif = {0, 1}
  BY CapAssumption DEF Vif
<1>a. Admitted(SingleCap) \in Int /\ ReleaseLevel(SingleCap) >= 0
  <2>1. SingleCap \in Nat /\ SingleCap \in Caps
    BY CapAssumption DEF Caps
  <2> QED BY <2>1, AdmittedFacts DEF ReleaseLevel
<1>1. Init => BoundInv
  <2> SUFFICES ASSUME Init PROVE BoundInv
    OBVIOUS
  <2>1. TypeOK
    <3>1. joined \in [Vif -> BOOLEAN]
      BY DEF Init
    <3>2. queue_cap \in [Vif -> Caps]
      BY <3>1, CapsOfType DEF Init
    <3> QED BY <3>1, <3>2 DEF Init, InitQueue, TypeOK
  <2>2. CpusInv
    BY <1>0 DEF Init, InitQueue, CpusInv
  <2>3. Admitted(SingleCap) >= ReleaseLevel(SingleCap) /\ ReleaseLevel(SingleCap) \in Int
    BY AdmittedFacts DEF Caps
  <2>4. \A w \in Vif : Within(w, Admitted(SingleCap))
    BY <1>0, <1>a, <2>3 DEF Init, InitQueue, Within
  <2> QED BY <2>1, <2>2, <2>4 DEF BoundInv
<1>2. BoundInv /\ [Next]_vars => BoundInv'
  <2> SUFFICES ASSUME BoundInv, [Next]_vars PROVE BoundInv'
    OBVIOUS
  <2> DEFINE b == [w \in Vif |-> Admitted(SingleCap)]
  <2>1. b \in [Vif -> Int]
    BY <1>a
  <2>2. \A w \in Vif : b[w] >= Admitted(queue_cap[w]) /\ Within(w, b[w])
    <3> SUFFICES ASSUME NEW w \in Vif
                 PROVE  b[w] >= Admitted(queue_cap[w]) /\ Within(w, b[w])
      OBVIOUS
    <3>1. queue_cap[w] \in Caps
      BY DEF BoundInv, TypeOK
    <3>2. Admitted(queue_cap[w]) \in Int /\ Admitted(queue_cap[w]) <= Admitted(SingleCap)
      BY <3>1, AdmittedFacts
    <3> QED BY <3>2, <1>a DEF BoundInv
  <2>3. ASSUME NEW v \in Vif, QueueStep(v) PROVE BoundInv'
    <3>1. TypeOK' /\ CpusInv' /\ \A w \in Vif : Within(w, b[w])'
      <4> HIDE DEF b
      <4> QED BY <2>1, <2>2, <2>3, QueueStepKeeps DEF BoundInv
    <3>2. \A w \in Vif : b'[w] = Admitted(SingleCap)
      OBVIOUS
    <3> QED BY <3>1, <3>2 DEF BoundInv, Within
  <2>4. ASSUME NEW v \in Vif, Join(v) \/ Unjoin(v) PROVE BoundInv'
    <3>1. UNCHANGED <<num_queued_vif, overfull, gcTimer, inflight>>
      BY <2>4 DEF Join, Unjoin
    <3>2. queue_cap \in [Vif -> Caps] /\ joined \in [Vif -> BOOLEAN]
      BY DEF BoundInv, TypeOK
    <3>3. queue_cap' \in [Vif -> Caps] /\ joined' \in [Vif -> BOOLEAN]
      BY <2>4, <3>2 DEF Join, Unjoin, Caps
    <3> QED BY <3>1, <3>3 DEF BoundInv, TypeOK, CpusInv, Within
  <2>5. CASE UNCHANGED vars
    BY <2>5 DEF vars, BoundInv, TypeOK, CpusInv, Within
  <2> QED BY <2>3, <2>4, <2>5 DEF Next
<1> QED BY <1>1, <1>2, PTL DEF Spec

\* The counters of the queue never go below zero and capacities stay among
\* those the driver defines.
THEOREM AdmissionTypeCorrect == Spec => []TypeOK
<1>1. BoundInv => TypeOK
  BY DEF BoundInv
<1> QED BY <1>1, BoundInvariant, PTL

\* However often interfaces join and leave with frames queued, one interface
\* and its CPUs stay within what the largest capacity admits.
THEOREM InterfaceBoundedCorrect == Spec => []InterfaceBounded
<1>1. BoundInv => InterfaceBounded
  BY DEF BoundInv, Within, InterfaceBounded
<1> QED BY <1>1, BoundInvariant, PTL

\* A stopped interface always holds a frame whose removal or expiry can wake
\* it: atbm_queue_remove, gc and clear never leave it stopped and empty.
THEOREM StoppedHoldsFramesCorrect == Spec => []StoppedHoldsFrames
<1>0. Vif = {0, 1}
  BY DEF Vif
<1>1. Init => StoppedHoldsFrames
  BY DEF Init, InitQueue, StoppedHoldsFrames
<1>2. BoundInv /\ BoundInv' /\ StoppedHoldsFrames /\ [Next]_vars => StoppedHoldsFrames'
  <2> SUFFICES ASSUME TypeOK, TypeOK', StoppedHoldsFrames, [Next]_vars
               PROVE  StoppedHoldsFrames'
    BY DEF BoundInv
  <2>1. /\ num_queued_vif \in [Vif -> Nat] /\ num_queued_vif' \in [Vif -> Nat]
        /\ overfull \in [Vif -> BOOLEAN] /\ queue_cap \in [Vif -> Caps]
    BY DEF TypeOK
  <2>2. \A v \in Vif : ReleaseLevel(queue_cap[v]) \in Nat
    <3> SUFFICES ASSUME NEW v \in Vif PROVE ReleaseLevel(queue_cap[v]) \in Nat
      OBVIOUS
    <3>1. queue_cap[v] \in Nat
      BY <2>1, CapAssumption
    <3> QED BY <3>1 DEF ReleaseLevel
  <2>3. ASSUME NEW v \in Vif, QueueStep(v),
               NEW w \in Vif, overfull'[w]
        PROVE  num_queued_vif'[w] > 0
    <3>1. CASE TxStart(v) \/ TxDrop(v)
      BY <3>1, <2>3 DEF TxStart, TxDrop, StoppedHoldsFrames
    <3>2. CASE Put(v)
      <4>1. num_queued_vif'[w] >= num_queued_vif[w]
        BY <2>1, <3>2 DEF Put
      <4>2. w = v => num_queued_vif'[w] > 0
        BY <2>1, <3>2 DEF Put
      <4>3. w # v => overfull[w]
        BY <2>1, <2>3, <3>2 DEF Put
      <4>4. w # v => num_queued_vif[w] > 0
        BY <4>3 DEF StoppedHoldsFrames
      <4> QED BY <2>1, <4>1, <4>2, <4>4
    <3>3. ASSUME overfull' = [overfull EXCEPT ![v] = @ /\ ~Drained(v)],
                 w # v => num_queued_vif'[w] = num_queued_vif[w]
          PROVE  num_queued_vif'[w] > 0
      <4>1. CASE w = v
        <5>1. ~(num_queued_vif'[w] <= ReleaseLevel(queue_cap[w]))
          BY <2>1, <2>3, <3>3, <4>1 DEF Drained
        <5> QED BY <5>1, <2>1, <2>2
      <4>2. CASE w # v
        <5>1. overfull[w]
          BY <2>1, <2>3, <3>3, <4>2
        <5> QED BY <5>1, <4>2, <3>3 DEF StoppedHoldsFrames
      <4> QED BY <4>1, <4>2
    <3>4. CASE Remove(v)
      BY <3>3, <3>4, <2>1 DEF Remove
    <3>5. CASE \E n \in 0 .. num_queued_vif[v] : Gc(v, n)
      BY <3>3, <3>5, <2>1 DEF Gc
    <3>6. CASE Clear(v)
      <4>1. w # v /\ overfull[w]
        BY <2>1, <2>3, <3>6 DEF Clear
      <4> QED BY <4>1, <2>1, <3>6 DEF Clear, StoppedHoldsFrames
    <3> QED BY <2>3, <3>1, <3>2, <3>4, <3>5, <3>6 DEF QueueStep
  <2>4. ASSUME NEW v \in Vif, Join(v) \/ Unjoin(v) PROVE StoppedHoldsFrames'
    BY <2>4 DEF Join, Unjoin, StoppedHoldsFrames
  <2>5. CASE UNCHANGED vars
    BY <2>5 DEF vars, StoppedHoldsFrames
  <2>6. ASSUME NEW v \in Vif, QueueStep(v) PROVE StoppedHoldsFrames'
    BY <2>3, <2>6 DEF StoppedHoldsFrames
  <2> QED BY <2>4, <2>5, <2>6 DEF Next
<1> QED BY <1>1, <1>2, BoundInvariant, PTL DEF Spec

-----------------------------------------------------------------------------
(* The pool does not run empty while no interface joins or leaves.         *)

\* With the capacities fixed, each interface stays within what its own
\* capacity admits.
SteadyInv ==
  /\ TypeOK
  /\ CpusInv
  /\ queue_cap = CapsOf(joined)
  /\ \A w \in Vif : Within(w, Admitted(queue_cap[w]))

\* SteadyInv holds in every reachable state of the steady queue.
LEMMA SteadyInvariant == SteadySpec => []SteadyInv
<1>0. NCpu \in Nat /\ Vif = {0, 1}
  BY CapAssumption DEF Vif
<1>1. InitSteady => SteadyInv
  <2> SUFFICES ASSUME InitSteady PROVE SteadyInv
    OBVIOUS
  <2>1. joined \in [Vif -> BOOLEAN] /\ queue_cap = CapsOf(joined)
    BY DEF InitSteady
  <2>2. queue_cap \in [Vif -> Caps]
    BY <2>1, CapsOfType
  <2>3. TypeOK
    BY <2>1, <2>2 DEF InitSteady, InitQueue, TypeOK
  <2>4. CpusInv
    BY <1>0 DEF InitSteady, InitQueue, CpusInv
  <2>5. ASSUME NEW w \in Vif PROVE Within(w, Admitted(queue_cap[w]))
    <3>1. queue_cap[w] \in Caps /\ queue_cap[w] \in Nat
      BY <2>2, CapAssumption
    <3>2. ReleaseLevel(queue_cap[w]) \in Nat
      BY <3>1 DEF ReleaseLevel
    <3>3. Admitted(queue_cap[w]) \in Nat
      BY <3>1, <3>2, AdmittedFacts
    <3> QED BY <1>0, <3>3 DEF InitSteady, InitQueue, Within
  <2> QED BY <2>1, <2>3, <2>4, <2>5 DEF SteadyInv
<1>2. SteadyInv /\ [NextSteady]_vars => SteadyInv'
  <2> SUFFICES ASSUME SteadyInv, [NextSteady]_vars PROVE SteadyInv'
    OBVIOUS
  <2>1. CASE UNCHANGED vars
    BY <2>1 DEF vars, SteadyInv, TypeOK, CpusInv, Within
  <2>2. ASSUME NEW v \in Vif, QueueStep(v) PROVE SteadyInv'
    \* The capacities before the step, as a constant.
    <3>1. PICK b \in [Vif -> Int] : \A w \in Vif : b[w] = Admitted(queue_cap[w])
      <4>1. [w \in Vif |-> Admitted(queue_cap[w])] \in [Vif -> Int]
        BY AdmittedFacts DEF SteadyInv, TypeOK
      <4> QED BY <4>1
    <3>2. \A w \in Vif : b[w] >= Admitted(queue_cap[w]) /\ Within(w, b[w])
      BY <3>1 DEF SteadyInv
    <3>3. /\ TypeOK' /\ CpusInv' /\ UNCHANGED <<joined, queue_cap>>
          /\ \A w \in Vif : Within(w, b[w])'
      BY <2>2, <3>2, QueueStepKeeps DEF SteadyInv
    <3>4. \A w \in Vif : b[w] = Admitted(queue_cap'[w])
      BY <3>1, <3>3
    <3> QED BY <3>3, <3>4 DEF SteadyInv, Within
  <2> QED BY <2>1, <2>2 DEF NextSteady
<1> QED BY <1>1, <1>2, PTL DEF SteadySpec

\* While no interface joins or leaves, a CPU that mac80211 let through always
\* finds a free slot: the BUG_ON of atbm_tx does not fire, for any number of
\* CPUs and capacities that meet the assumptions.
THEOREM SteadyPutNeverFails == SteadySpec => []PutNeverFails
<1>1. SteadyInv => PutNeverFails
  <2> SUFFICES ASSUME SteadyInv, NEW v \in Vif, inflight[v] > 0
               PROVE  num_queued < Capacity
    BY DEF PutNeverFails
  <2>0. NCpu \in Nat /\ Capacity \in Nat /\ Vif = {0, 1}
    BY CapAssumption DEF Vif
  <2> DEFINE a0 == Admitted(queue_cap[0])
             a1 == Admitted(queue_cap[1])
  <2>1. a0 + a1 + 2 * NCpu <= Capacity
    <3>1. \/ queue_cap[0] = SingleCap /\ queue_cap[1] = DefaultCap
          \/ queue_cap[0] = DefaultCap /\ queue_cap[1] = SingleCap
          \/ queue_cap[0] = CombCap /\ queue_cap[1] = CombCap
          \/ queue_cap[0] = DefaultCap /\ queue_cap[1] = DefaultCap
      BY <2>0 DEF SteadyInv, CapsOf, Other
    <3>2. a0 \in Int /\ a1 \in Int /\ Admitted(SingleCap) \in Int
          /\ Admitted(DefaultCap) \in Int /\ Admitted(CombCap) \in Int
      BY <2>0, AdmittedFacts DEF SteadyInv, TypeOK, Caps
    <3>3. \/ a0 = Admitted(SingleCap) /\ a1 = Admitted(DefaultCap)
          \/ a0 = Admitted(DefaultCap) /\ a1 = Admitted(SingleCap)
          \/ a0 = Admitted(CombCap) /\ a1 = Admitted(CombCap)
          \/ a0 = Admitted(DefaultCap) /\ a1 = Admitted(DefaultCap)
      BY <3>1
    <3> HIDE DEF a0, a1
    <3> QED BY <3>2, <3>3, <2>0, FitAssumption
  <2>2. /\ num_queued_vif[0] \in Nat /\ num_queued_vif[1] \in Nat
        /\ inflight[0] \in Nat /\ inflight[1] \in Nat
        /\ a0 \in Int /\ a1 \in Int
    BY <2>0, AdmittedFacts DEF SteadyInv, TypeOK
  <2>3. /\ num_queued_vif[0] + inflight[0] <= a0 + NCpu
        /\ num_queued_vif[1] + inflight[1] <= a1 + NCpu
    BY <2>0 DEF SteadyInv, Within
  <2>4. inflight[0] + inflight[1] > 0
    BY <2>0, <2>2
  <2> HIDE DEF a0, a1
  <2> QED BY <2>0, <2>1, <2>2, <2>3, <2>4 DEF num_queued
<1> QED BY <1>1, SteadyInvariant, PTL
=============================================================================
