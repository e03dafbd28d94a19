---------------------------- MODULE TxAdmission ----------------------------
(***************************************************************************)
(* Admission control of one transmit queue: how the queue capacity of each *)
(* interface, the reserve of one slot per CPU and the overfull flag keep   *)
(* the shared free pool from running empty.  atbm_tx (txrx.c) turns a full *)
(* pool into a BUG_ON.                                                     *)
(*                                                                         *)
(* Only the numbers matter here: how many slots each interface holds, and  *)
(* how many CPUs are between mac80211's check of the stop flag (tx.c of    *)
(* the mac80211 fork, taken and released under queue_stop_reason_lock) and *)
(* atbm_queue_put, which comes later and under another lock.  The lists,   *)
(* packet IDs and other reasons to stop an interface are in TxQueue.       *)
(***************************************************************************)
EXTENDS Integers

CONSTANTS
  Capacity,   \* ATBM_WIFI_MAX_QUEUE_SZ, the slots of the pool
  DefaultCap, \* ATBM_QUEUE_DEFAULT_CAP
  SingleCap,  \* ATBM_QUEUE_SINGLE_CAP
  CombCap,    \* ATBM_QUEUE_COMB_CAP
  NCpu        \* num_present_cpus()

\* ATBM_WIFI_MAX_VIFS is 2.
Vif == 0 .. 1
Other(v) == 1 - v
Caps == {DefaultCap, SingleCap, CombCap}

\* queue_cap*2/3: at or below it an overfull interface is released.
ReleaseLevel(cap) == (cap * 2) \div 3

\* The most frames an interface can hold while its transmitters may send.
Admitted(cap) == IF cap - NCpu - 1 < ReleaseLevel(cap)
                 THEN ReleaseLevel(cap) ELSE cap - NCpu - 1

\* The thresholds are compared as unsigned numbers: they must not wrap.
ASSUME CapAssumption ==
  /\ Capacity \in Nat /\ NCpu \in Nat
  /\ Caps \subseteq Nat
  /\ \A cap \in Caps : NCpu <= cap /\ cap <= SingleCap
  /\ NCpu <= Capacity

\* The capacities that are ever in force together fit the pool.
ASSUME FitAssumption ==
  /\ Admitted(SingleCap) + Admitted(DefaultCap) + 2 * NCpu <= Capacity
  /\ Admitted(CombCap) + Admitted(CombCap) + 2 * NCpu <= Capacity
  /\ Admitted(DefaultCap) + Admitted(DefaultCap) + 2 * NCpu <= Capacity

VARIABLES
  joined,         \* priv->join_status is above MONITOR
  queue_cap,      \* priv->queue_cap
  num_queued_vif, \* queue->num_queued_vif
  overfull,       \* queue->overfull: the interface is stopped
  gcTimer,        \* queue->gc[if_id] is armed
  inflight        \* CPUs that passed the stop check with a frame in hand

vars == <<joined, queue_cap, num_queued_vif, overfull, gcTimer, inflight>>

num_queued == num_queued_vif[0] + num_queued_vif[1]

-----------------------------------------------------------------------------
(* Transmitters.                                                           *)

\* mac80211 finds the queue of v not stopped and calls atbm_tx.
TxStart(v) ==
  /\ ~overfull[v]
  /\ inflight[0] + inflight[1] < NCpu
  /\ inflight' = [inflight EXCEPT ![v] = @ + 1]
  /\ UNCHANGED <<joined, queue_cap, num_queued_vif, overfull, gcTimer>>

\* atbm_tx drops the frame before it reaches the queue.
TxDrop(v) ==
  /\ inflight[v] > 0
  /\ inflight' = [inflight EXCEPT ![v] = @ - 1]
  /\ UNCHANGED <<joined, queue_cap, num_queued_vif, overfull, gcTimer>>

\* A faulty Overflows: no slots are left for transmitters on other CPUs.
OverflowsNoReserve(v) == \/ num_queued_vif'[v] >= queue_cap[v]
                         \/ num_queued' >= Capacity

\* xIF_QUEUE_OVERFLOW or ALLIF_QUEUE_OVERFLOW, after the frame is counted.
Overflows(v) == \/ num_queued_vif'[v] >= queue_cap[v] - NCpu
                \/ num_queued' >= Capacity - NCpu

\* atbm_queue_put.  With the pool full it fails, and the BUG_ON of atbm_tx
\* stops the system.
Put(v) ==
  /\ inflight[v] > 0
  /\ num_queued < Capacity
  /\ inflight' = [inflight EXCEPT ![v] = @ - 1]
  /\ num_queued_vif' = [num_queued_vif EXCEPT ![v] = @ + 1]
  /\ IF ~overfull[v] /\ Overflows(v)
     THEN /\ overfull' = [overfull EXCEPT ![v] = TRUE]
          /\ gcTimer' = [gcTimer EXCEPT ![v] = TRUE]
     ELSE UNCHANGED <<overfull, gcTimer>>
  /\ UNCHANGED <<joined, queue_cap>>

-----------------------------------------------------------------------------
(* Removal and expiry.                                                     *)

\* A faulty Drained: the count before the removal is compared.
DrainedBefore(v) == num_queued_vif[v] <= ReleaseLevel(queue_cap[v])

\* The interface has drained far enough to be released.
Drained(v) == num_queued_vif'[v] <= ReleaseLevel(queue_cap[v])

\* A faulty Remove: a frame that was already removed is counted again.
RemoveTwice(v) ==
  /\ num_queued_vif' = [num_queued_vif EXCEPT ![v] = @ - 1]
  /\ overfull' = [overfull EXCEPT ![v] = @ /\ ~Drained(v)]
  /\ UNCHANGED <<joined, queue_cap, gcTimer, inflight>>

\* atbm_queue_remove of one frame of v.
Remove(v) ==
  /\ num_queued_vif[v] > 0
  /\ num_queued_vif' = [num_queued_vif EXCEPT ![v] = @ - 1]
  /\ overfull' = [overfull EXCEPT ![v] = @ /\ ~Drained(v)]
  /\ UNCHANGED <<joined, queue_cap, gcTimer, inflight>>

\* atbm_queue_gc: the timer of v fires and n frames have expired.  The timer
\* is armed again only when a frame that has not expired is still queued.
Gc(v, n) ==
  /\ gcTimer[v]
  /\ num_queued_vif' = [num_queued_vif EXCEPT ![v] = @ - n]
  /\ overfull' = [overfull EXCEPT ![v] = @ /\ ~Drained(v)]
  /\ \E rearm \in BOOLEAN :
       /\ rearm => overfull'[v] /\ num_queued_vif'[v] > 0
       /\ gcTimer' = [gcTimer EXCEPT ![v] = rearm]
  /\ UNCHANGED <<joined, queue_cap, inflight>>

\* A faulty Clear: the stopped interface is not released.
ClearKeepsOverfull(v) ==
  /\ num_queued_vif' = [num_queued_vif EXCEPT ![v] = 0]
  /\ UNCHANGED <<joined, queue_cap, overfull, gcTimer, inflight>>

\* atbm_queue_clear for interface v.
Clear(v) ==
  /\ num_queued_vif' = [num_queued_vif EXCEPT ![v] = 0]
  /\ overfull' = [overfull EXCEPT ![v] = FALSE]
  /\ UNCHANGED <<joined, queue_cap, gcTimer, inflight>>

-----------------------------------------------------------------------------
(* Joining and leaving a network.                                          *)

\* The capacities in force for a set of joined interfaces.
CapsOf(j) == [v \in Vif |-> IF ~j[v] THEN DefaultCap
                            ELSE IF j[Other(v)] THEN CombCap ELSE SingleCap]

\* Interface v joins a network or starts an access point:
\* atbm_set_priv_queue_cap lowers the capacity of the other interface too.
Join(v) ==
  /\ ~joined[v]
  /\ joined' = [joined EXCEPT ![v] = TRUE]
  /\ queue_cap' = IF joined[Other(v)]
                  THEN [w \in Vif |-> CombCap]
                  ELSE [queue_cap EXCEPT ![v] = SingleCap]
  /\ UNCHANGED <<num_queued_vif, overfull, gcTimer, inflight>>

\* Interface v leaves: atbm_clear_priv_queue_cap.
Unjoin(v) ==
  /\ joined[v]
  /\ joined' = [joined EXCEPT ![v] = FALSE]
  /\ queue_cap' = [w \in Vif |-> IF w = v THEN DefaultCap
                                 ELSE IF joined[w] THEN SingleCap
                                 ELSE queue_cap[w]]
  /\ UNCHANGED <<num_queued_vif, overfull, gcTimer, inflight>>

-----------------------------------------------------------------------------
InitQueue ==
  /\ num_queued_vif = [v \in Vif |-> 0]
  /\ overfull = [v \in Vif |-> FALSE]
  /\ gcTimer = [v \in Vif |-> FALSE]
  /\ inflight = [v \in Vif |-> 0]

Init ==
  /\ joined = [v \in Vif |-> FALSE]
  /\ queue_cap = CapsOf(joined)
  /\ InitQueue

QueueStep(v) ==
  \/ TxStart(v) \/ TxDrop(v) \/ Put(v) \/ Remove(v) \/ Clear(v)
  \/ \E n \in 0 .. num_queued_vif[v] : Gc(v, n)

Next == \E v \in Vif : QueueStep(v) \/ Join(v) \/ Unjoin(v)

Spec == Init /\ [][Next]_vars

\* The device confirms, and so removes, the frames it is given.
FairSpec == Spec /\ \A v \in Vif : WF_vars(Remove(v))

\* The same queue while no interface joins or leaves a network.
InitSteady ==
  /\ joined \in [Vif -> BOOLEAN]
  /\ queue_cap = CapsOf(joined)
  /\ InitQueue

NextSteady == \E v \in Vif : QueueStep(v)

SteadySpec == InitSteady /\ [][NextSteady]_vars

-----------------------------------------------------------------------------
(* Properties.                                                             *)

TypeOK ==
  /\ joined \in [Vif -> BOOLEAN]
  /\ queue_cap \in [Vif -> Caps]
  /\ num_queued_vif \in [Vif -> Nat]
  /\ overfull \in [Vif -> BOOLEAN]
  /\ gcTimer \in [Vif -> BOOLEAN]
  /\ inflight \in [Vif -> Nat]

\* "Leave extra queue slots so we don't overflow" (atbm_queue_put): a CPU
\* that was let through finds a free slot, so BUG_ON(atbm_queue_put(...)) in
\* atbm_tx does not fire.
PutNeverFails == \A v \in Vif : inflight[v] > 0 => num_queued < Capacity

\* However the capacities change underneath, one interface and the CPUs that
\* send for it never take more slots than the largest capacity lets in plus
\* one frame for each CPU.
InterfaceBounded ==
  \A v \in Vif : num_queued_vif[v] + inflight[v] <= Admitted(SingleCap) + NCpu

\* An interface is stopped only while it holds frames whose removal will wake
\* it: it never stays stopped with nothing left to transmit.
StoppedHoldsFrames == \A v \in Vif : overfull[v] => num_queued_vif[v] > 0

\* A stopped interface is woken again, even when its capacity is changed by a
\* join while it is stopped.
StoppedIsWoken == \A v \in Vif : overfull[v] ~> ~overfull[v]
=============================================================================
