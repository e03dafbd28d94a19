------------------------------ MODULE TxQueue ------------------------------
(***************************************************************************)
(* One hardware transmit queue of the driver (hal_apollo/queue.c) and the  *)
(* four actors that work on it concurrently:                               *)
(*                                                                         *)
(*   - mac80211 transmitters, which put frames (atbm_tx, txrx.c);          *)
(*   - the bottom half, which takes the next frame, drops it, hands it to  *)
(*     the device, or frees it at once when no confirmation is asked for   *)
(*     (wsm_get_tx in wsm.c, atbm_sdio_tx_bh in bh_sdio.c);                *)
(*   - the receive path, which handles the confirmations of the firmware   *)
(*     (atbm_tx_confirm_cb, txrx.c);                                       *)
(*   - threads that remove an interface or restart the device, which clear *)
(*     the queue, and the garbage collection timer of each interface.      *)
(*                                                                         *)
(* Every queue operation runs under queue->lock, so it is one action; what *)
(* an actor carries from one operation to the next (the packet ID in the   *)
(* hands of the bottom half or of the receive path) is state of its own.   *)
(*                                                                         *)
(* Data is reduced to what the properties tell apart.  A frame stands for  *)
(* an skb with its txpriv: VifOf and LinkOf give its interface and link.   *)
(* The list queue->queue is represented by the set of items ahead of each  *)
(* item; which slot of the free pool is used next is left open.            *)
(***************************************************************************)
EXTENDS Integers, FiniteSets

CONSTANTS
  Item,       \* the slots of queue->pool
  Frame,      \* the frames (skb + txpriv) that may be in transit at once
  Vif,        \* the virtual interfaces
  Link,       \* the link ids, 0 .. map_capacity - 1
  VifOf,      \* VifOf[f]: txpriv.if_id of frame f
  LinkOf,     \* LinkOf[f]: txpriv.link_id of frame f
  QueueCap,   \* QueueCap[v]: priv->queue_cap of interface v
  NCpu,       \* num_present_cpus()
  GenMod,     \* number of queue generations (the mask 0xf: 16)
  EapolTries, \* retries of an EAPOL frame (2 in atbm_tx_confirm_cb)
  ActionTries,\* retries of an off-channel action frame (5)
  None        \* no frame, no packet ID

ASSUME SetAssumption ==
  /\ IsFiniteSet(Item)
  /\ IsFiniteSet(Frame)
  /\ None \notin Frame

ASSUME TxprivAssumption ==
  /\ VifOf \in [Frame -> Vif]
  /\ LinkOf \in [Frame -> Link]

ASSUME NumberAssumption ==
  /\ QueueCap \in [Vif -> Nat]
  /\ NCpu \in Nat
  /\ GenMod \in Nat /\ GenMod > 1
  /\ EapolTries \in Nat /\ ActionTries \in Nat

VARIABLES
  where,            \* the list each item is on: "free", "queued" or "pending"
  skb,              \* item->skb
  igen,             \* item->generation
  offchannel,       \* item->txpriv.offchannel_if_id is the generic interface
  ahead,            \* for an item of queue->queue, the items ahead of it
  generation,       \* queue->generation
  num_queued,       \* queue->num_queued: queued and pending frames
  num_queued_vif,   \* the same, per interface
  num_pending,      \* queue->num_pending
  num_pending_vif,  \* the same, per interface
  link_map_cache,   \* queued frames per interface and link
  stats_num_queued, \* stats->num_queued: queued frames per interface
  overfull,         \* queue->overfull
  tx_locked_cnt,    \* queue->tx_locked_cnt
  stopped,          \* mac80211's queue is stopped for the driver's reason
  gcTimer,          \* queue->gc[if_id] is armed
  extLock,          \* a caller of atbm_tx_queues_lock holds the queues
  bh,               \* the packet the bottom half works on, or None
  rx,               \* the confirmed packet the receive path works on, or None
  device            \* packets handed to the firmware, not yet confirmed

itemVars  == <<where, skb, igen, offchannel, ahead>>
countVars == <<num_queued, num_queued_vif, num_pending, num_pending_vif,
               link_map_cache, stats_num_queued>>
lockVars  == <<overfull, tx_locked_cnt, stopped, gcTimer, extLock>>
actorVars == <<bh, rx, device>>
vars == <<itemVars, countVars, lockVars, actorVars, generation>>

-----------------------------------------------------------------------------
(* Packet IDs.                                                             *)

\* A packet ID carries the queue generation, the item generation, the item
\* and the interface; frame is not in the ID, it remembers which frame the
\* ID was issued for.
PacketID == [qgen : 0 .. GenMod - 1, igen : 0 .. 255, item : Item,
             vif : Vif, frame : Frame]

ASSUME NoneAssumption == None \notin PacketID

\* The checks atbm_queue_get_skb, atbm_queue_remove and atbm_queue_requeue
\* make before they touch the item (any other outcome is -ENOENT).
Valid(p) == /\ p.qgen = generation
            /\ p.igen = igen[p.item]

\* The packet was taken from the queue after the last clear.
Current(p) == p.qgen = generation

\* The packets some actor or the firmware may still come back with.
Outstanding == device \cup ({bh, rx} \ {None})

\* A faulty NextGeneration: the mask is forgotten.
NextGenerationUnmasked == generation + 1

NextGeneration == IF generation = GenMod - 1 THEN 0 ELSE generation + 1

-----------------------------------------------------------------------------
(* The lists and the counters.                                             *)

ItemsOn(list) == {i \in Item : where[i] = list}
VifItemsOn(list, v) == {i \in ItemsOn(list) : VifOf[skb[i]] = v}
Held(v) == VifItemsOn("queued", v) \cup VifItemsOn("pending", v)
QueuedOn(v, l) == {i \in VifItemsOn("queued", v) : LinkOf[skb[i]] = l}

\* The order of queue->queue after the items of S have left it.
AheadWithout(S) ==
  [i \in Item |-> IF i \in S THEN {} ELSE ahead[i] \ S]

\* A faulty FreeItems: item->skb is not reset.
FreeItemsKeepSkb(S) ==
  /\ where' = [i \in Item |-> IF i \in S THEN "free" ELSE where[i]]
  /\ skb' = skb
  /\ ahead' = AheadWithout(S)

\* The items of S leave their list for the free pool and lose their skb.
FreeItems(S) ==
  /\ where' = [i \in Item |-> IF i \in S THEN "free" ELSE where[i]]
  /\ skb' = [i \in Item |-> IF i \in S THEN None ELSE skb[i]]
  /\ ahead' = AheadWithout(S)

-----------------------------------------------------------------------------
(* Stopping and waking the queue of an interface.                          *)

\* __atbm_queue_lock and __atbm_queue_unlock for the interfaces of S.
QueueLock(S) ==
  /\ tx_locked_cnt' = [v \in Vif |-> IF v \in S THEN tx_locked_cnt[v] + 1
                                                ELSE tx_locked_cnt[v]]
  /\ stopped' = [v \in Vif |-> IF v \in S /\ tx_locked_cnt[v] = 0
                               THEN TRUE ELSE stopped[v]]

QueueUnlock(S) ==
  /\ tx_locked_cnt' = [v \in Vif |-> IF v \in S THEN tx_locked_cnt[v] - 1
                                                ELSE tx_locked_cnt[v]]
  /\ stopped' = [v \in Vif |-> IF v \in S /\ tx_locked_cnt[v] = 1
                               THEN FALSE ELSE stopped[v]]

\* xIF_QUEUE_OVERFLOW or ALLIF_QUEUE_OVERFLOW, after the frame is counted.
Overflows(v) == \/ num_queued_vif'[v] >= QueueCap[v] - NCpu
                \/ num_queued' >= Cardinality(Item) - NCpu

\* queue_cap*2/3: at or below it an overfull interface is released.
ReleaseLevel(v) == (QueueCap[v] * 2) \div 3

\* A faulty ReleaseOverfull: the unlock does not look at overfull.
ReleaseAlways(S) ==
  /\ overfull' = [v \in Vif |-> overfull[v] /\ v \notin S]
  /\ QueueUnlock(S)

\* The tail of atbm_queue_remove, __atbm_queue_gc and atbm_queue_clear:
\* the overfull interfaces of S are released.
ReleaseOverfull(S) ==
  LET R == {v \in S : overfull[v]}
  IN /\ overfull' = [v \in Vif |-> overfull[v] /\ v \notin R]
     /\ QueueUnlock(R)

\* A faulty StopIfOverflown: the timer is not started.
StopWithoutTimer(v) ==
  IF ~overfull[v] /\ Overflows(v)
  THEN /\ overfull' = [overfull EXCEPT ![v] = TRUE]
       /\ QueueLock({v})
       /\ UNCHANGED gcTimer
  ELSE UNCHANGED <<overfull, tx_locked_cnt, stopped, gcTimer>>

\* The tail of atbm_queue_put: interface v is stopped when it overflows, and
\* its timer is set to fire at once.
StopIfOverflown(v) ==
  IF ~overfull[v] /\ Overflows(v)
  THEN /\ overfull' = [overfull EXCEPT ![v] = TRUE]
       /\ QueueLock({v})
       /\ gcTimer' = [gcTimer EXCEPT ![v] = TRUE]
  ELSE UNCHANGED <<overfull, tx_locked_cnt, stopped, gcTimer>>

-----------------------------------------------------------------------------
Init ==
  /\ where = [i \in Item |-> "free"]
  /\ skb = [i \in Item |-> None]
  /\ igen = [i \in Item |-> 0]
  /\ offchannel = [i \in Item |-> FALSE]
  /\ ahead = [i \in Item |-> {}]
  /\ generation = 0
  /\ num_queued = 0
  /\ num_queued_vif = [v \in Vif |-> 0]
  /\ num_pending = 0
  /\ num_pending_vif = [v \in Vif |-> 0]
  /\ link_map_cache = [v \in Vif |-> [l \in Link |-> 0]]
  /\ stats_num_queued = [v \in Vif |-> 0]
  /\ overfull = [v \in Vif |-> FALSE]
  /\ tx_locked_cnt = [v \in Vif |-> 0]
  /\ stopped = [v \in Vif |-> FALSE]
  /\ gcTimer = [v \in Vif |-> FALSE]
  /\ extLock = FALSE
  /\ bh = None
  /\ rx = None
  /\ device = {}

-----------------------------------------------------------------------------
(* Transmitters.                                                           *)

\* atbm_queue_put of a frame no one holds yet, on- or off-channel (off).  With
\* an empty free pool it returns -ENOENT and changes nothing.
Put(f, i, off) ==
  /\ \A j \in Item : skb[j] # f
  /\ \A p \in Outstanding : p.frame # f
  /\ where[i] = "free"
  /\ where' = [where EXCEPT ![i] = "queued"]
  /\ skb' = [skb EXCEPT ![i] = f]
  /\ igen' = [igen EXCEPT ![i] = 0]
  /\ offchannel' = [offchannel EXCEPT ![i] = off]
  /\ ahead' = [ahead EXCEPT ![i] = ItemsOn("queued")]
  /\ num_queued' = num_queued + 1
  /\ num_queued_vif' = [num_queued_vif EXCEPT ![VifOf[f]] = @ + 1]
  /\ link_map_cache' = [link_map_cache EXCEPT ![VifOf[f]][LinkOf[f]] = @ + 1]
  /\ stats_num_queued' = [stats_num_queued EXCEPT ![VifOf[f]] = @ + 1]
  /\ StopIfOverflown(VifOf[f])
  /\ UNCHANGED <<generation, num_pending, num_pending_vif, extLock, actorVars>>

-----------------------------------------------------------------------------
(* Requests shared by the bottom half and the receive path.                *)

\* atbm_queue_remove of a packet that passed the checks.
RemoveValid(p) ==
  /\ FreeItems({p.item})
  /\ igen' = [igen EXCEPT ![p.item] = (@ + 1) % 256]
  /\ num_pending' = num_pending - 1
  /\ num_pending_vif' = [num_pending_vif EXCEPT ![p.vif] = @ - 1]
  /\ num_queued' = num_queued - 1
  /\ num_queued_vif' = [num_queued_vif EXCEPT ![p.vif] = @ - 1]
  /\ IF num_queued_vif'[p.vif] <= ReleaseLevel(p.vif)
     THEN ReleaseOverfull({p.vif})
     ELSE UNCHANGED <<overfull, tx_locked_cnt, stopped>>
  /\ UNCHANGED <<offchannel, link_map_cache, stats_num_queued, gcTimer,
                 extLock, generation>>

\* A faulty Remove: the packet ID is not checked.
RemoveUnchecked(p) == RemoveValid(p)

\* atbm_queue_remove: -ENOENT, with nothing changed, when the ID is stale.
Remove(p) ==
  \/ Valid(p) /\ RemoveValid(p)
  \/ ~Valid(p) /\ UNCHANGED <<itemVars, countVars, lockVars, generation>>

\* atbm_queue_requeue of a packet that passed the checks: back to the head.
RequeueValid(p) ==
  /\ where' = [where EXCEPT ![p.item] = "queued"]
  /\ ahead' = [i \in Item |->
                 IF where[i] = "queued" THEN ahead[i] \cup {p.item} ELSE {}]
  /\ igen' = [igen EXCEPT ![p.item] = (p.igen + 1) % 256]
  /\ num_pending' = num_pending - 1
  /\ num_pending_vif' = [num_pending_vif EXCEPT ![p.vif] = @ - 1]
  /\ link_map_cache' =
       [link_map_cache EXCEPT ![p.vif][LinkOf[skb[p.item]]] = @ + 1]
  /\ stats_num_queued' =
       [stats_num_queued EXCEPT ![VifOf[skb[p.item]]] = @ + 1]
  /\ UNCHANGED <<skb, num_queued, num_queued_vif, lockVars, generation>>

\* atbm_queue_requeue.  The off-channel mark of the item is read, or set when
\* check is FALSE, before the lock is taken and before the ID is validated.
Requeue(p, check) ==
  \/ /\ check /\ offchannel[p.item]
     /\ Remove(p)
  \/ /\ ~(check /\ offchannel[p.item])
     /\ offchannel' = [offchannel EXCEPT ![p.item] = @ \/ ~check]
     /\ \/ Valid(p) /\ RequeueValid(p)
        \/ /\ ~Valid(p)
           /\ UNCHANGED <<where, skb, igen, ahead, countVars, lockVars,
                          generation>>

-----------------------------------------------------------------------------
(* The bottom half.                                                        *)

\* The items atbm_queue_get may return: interface v, a link of the mask.
Matching(v, mask) == {i \in VifItemsOn("queued", v) : LinkOf[skb[i]] \in mask}

\* atbm_queue_get: the first matching item of the list goes to pending, and
\* its packet ID carries the current queue generation.  In listen mode
\* wsm_handle_tx_data marks the frame off-channel (listen).
Get(v, mask, listen) ==
  /\ bh = None
  /\ \E i \in Matching(v, mask) :
       /\ ahead[i] \cap Matching(v, mask) = {}
       /\ bh' = [qgen |-> generation, igen |-> igen[i], item |-> i,
                 vif |-> v, frame |-> skb[i]]
       /\ where' = [where EXCEPT ![i] = "pending"]
       /\ ahead' = AheadWithout({i})
       /\ offchannel' = [offchannel EXCEPT ![i] = @ \/ listen]
       /\ link_map_cache' = [link_map_cache EXCEPT ![v][LinkOf[skb[i]]] = @ - 1]
  /\ num_pending' = num_pending + 1
  /\ num_pending_vif' = [num_pending_vif EXCEPT ![v] = @ + 1]
  /\ stats_num_queued' = [stats_num_queued EXCEPT ![v] = @ - 1]
  /\ UNCHANGED <<skb, igen, generation, num_queued, num_queued_vif, lockVars,
                 rx, device>>

\* The doDrop branch of wsm_handle_tx_data, the last step of a frame that
\* asks for no confirmation (atbm_sdio_free_tx_wsm), and what follows a failed
\* write (atbm_sdio_force_free_wsm): the item is freed.
BhFree ==
  /\ bh # None
  /\ Remove(bh)
  /\ bh' = None
  /\ UNCHANGED <<rx, device>>

\* A faulty BhSend: the frame is also kept, to be freed without confirmation.
BhSendAndKeep ==
  /\ bh # None
  /\ device' = device \cup {bh}
  /\ UNCHANGED <<itemVars, countVars, lockVars, generation, bh, rx>>

\* atbm_sdio_tx_bh has written a frame that asks for a confirmation.
BhSend ==
  /\ bh # None
  /\ device' = device \cup {bh}
  /\ bh' = None
  /\ UNCHANGED <<itemVars, countVars, lockVars, generation, rx>>

-----------------------------------------------------------------------------
(* The receive path.                                                       *)

\* A confirmation arrives: the firmware confirms a frame at most once.  The
\* lookup atbm_queue_get_skb rejects a stale ID and the confirmation is lost.
Confirm(p) ==
  /\ rx = None
  /\ device' = device \ {p}
  /\ rx' = IF Valid(p) THEN p ELSE None
  /\ UNCHANGED <<itemVars, countVars, lockVars, generation, bh>>

\* atbm_tx_confirm_cb goes on: the frame is done.
RxRemove ==
  /\ rx # None
  /\ Remove(rx)
  /\ rx' = None
  /\ UNCHANGED <<bh, device>>

\* atbm_tx_confirm_cb goes on: transmission failed and the frame is retried,
\* EapolTries times for an EAPOL frame (check), ActionTries times for an
\* off-channel action frame (not check).
RxRequeue(check) ==
  /\ rx # None
  /\ rx.igen < IF check THEN EapolTries ELSE ActionTries
  /\ Requeue(rx, check)
  /\ rx' = None
  /\ UNCHANGED <<bh, device>>

-----------------------------------------------------------------------------
(* Clearing and expiry.                                                    *)

\* A faulty BumpGeneration: a clear keeps the generation.
KeepGeneration == generation' = generation

\* What makes the packet IDs issued before a clear stale.
BumpGeneration == generation' = NextGeneration

\* atbm_queue_clear for the interfaces of S.
ClearItems(S) ==
  LET C == UNION {Held(v) : v \in S}
      P == UNION {VifItemsOn("pending", v) : v \in S}
  IN /\ FreeItems(C)
     /\ BumpGeneration
     /\ num_pending' = num_pending - Cardinality(P)
     /\ num_queued' = num_queued - Cardinality(C)
     /\ num_queued_vif' = [v \in Vif |-> IF v \in S THEN 0
                                         ELSE num_queued_vif[v]]
     /\ num_pending_vif' = [v \in Vif |-> IF v \in S THEN 0
                                          ELSE num_pending_vif[v]]
     /\ link_map_cache' = [v \in Vif |-> IF v \in S THEN [l \in Link |-> 0]
                                         ELSE link_map_cache[v]]
     /\ stats_num_queued' = [v \in Vif |-> IF v \in S THEN 0
                                           ELSE stats_num_queued[v]]
     /\ ReleaseOverfull(S)
     /\ UNCHANGED <<igen, offchannel, gcTimer, extLock>>

\* The new generation is not the one of a packet still outstanding: the 16
\* generations do not wrap around within the life of one packet.
FreshGeneration == \A p \in Outstanding : p.qgen # NextGeneration

\* What wsm_flush_tx waits for: no buffer of the device is in use, or no frame
\* is pending (a command may be in the pipe).
Flushed == device = {} \/ ItemsOn("pending") = {}

\* atbm_remove_interface: the device is flushed, then the queue is cleared for
\* one interface.  When the flush gives up, the bottom half has been halted
\* and what is in the device will not be confirmed.
ClearVif(v) ==
  /\ FreshGeneration
  /\ ClearItems({v})
  /\ \/ Flushed /\ UNCHANGED device
     \/ device' = {}
  /\ UNCHANGED <<bh, rx>>

\* __atbm_sdio_lmac_restart: the bottom half and the receive path have been
\* stopped, the queue is cleared and the device forgets its frames.
ClearAll ==
  /\ bh = None /\ rx = None
  /\ ClearItems(Vif)
  /\ device' = {}
  /\ UNCHANGED <<bh, rx>>

\* atbm_queue_gc: the timer of interface v expires.  E is the run of expired
\* frames at the head of the frames of v; unless v is released, the timer is
\* armed again for the first frame that has not expired.
Gc(v, E) ==
  /\ gcTimer[v]
  /\ E \subseteq VifItemsOn("queued", v)
  /\ \A i \in E : ahead[i] \cap VifItemsOn("queued", v) \subseteq E
  /\ FreeItems(E)
  /\ num_queued' = num_queued - Cardinality(E)
  /\ num_queued_vif' = [num_queued_vif EXCEPT ![v] = @ - Cardinality(E)]
  /\ stats_num_queued' = [stats_num_queued EXCEPT ![v] = @ - Cardinality(E)]
  /\ link_map_cache' =
       [link_map_cache EXCEPT ![v] = [l \in Link |->
          @[l] - Cardinality({i \in E : LinkOf[skb[i]] = l})]]
  /\ IF num_queued_vif'[v] <= ReleaseLevel(v)
     THEN /\ ReleaseOverfull({v})
          /\ gcTimer' = [gcTimer EXCEPT ![v] = FALSE]
     ELSE /\ UNCHANGED <<overfull, tx_locked_cnt, stopped>>
          /\ gcTimer' = [gcTimer EXCEPT ![v] =
               overfull[v] /\ VifItemsOn("queued", v) \ E # {}]
  /\ UNCHANGED <<igen, offchannel, generation, num_pending, num_pending_vif,
                 extLock, actorVars>>

\* atbm_tx_queues_lock and atbm_tx_queues_unlock, by the device restart.
TxQueuesLock ==
  /\ ~extLock
  /\ extLock' = TRUE
  /\ QueueLock(Vif)
  /\ UNCHANGED <<itemVars, countVars, overfull, gcTimer, actorVars, generation>>

TxQueuesUnlock ==
  /\ extLock
  /\ extLock' = FALSE
  /\ QueueUnlock(Vif)
  /\ UNCHANGED <<itemVars, countVars, overfull, gcTimer, actorVars, generation>>

-----------------------------------------------------------------------------
Next ==
  \/ \E f \in Frame, i \in Item, off \in BOOLEAN : Put(f, i, off)
  \/ \E v \in Vif, mask \in SUBSET Link, listen \in BOOLEAN :
       Get(v, mask, listen)
  \/ BhFree
  \/ BhSend
  \/ \E p \in device : Confirm(p)
  \/ RxRemove
  \/ \E check \in BOOLEAN : RxRequeue(check)
  \/ \E v \in Vif : ClearVif(v)
  \/ ClearAll
  \/ \E v \in Vif, E \in SUBSET Item : Gc(v, E)
  \/ TxQueuesLock
  \/ TxQueuesUnlock

Spec == Init /\ [][Next]_vars

-----------------------------------------------------------------------------
(* Properties.                                                             *)

TypeOK ==
  /\ where \in [Item -> {"free", "queued", "pending"}]
  /\ skb \in [Item -> Frame \cup {None}]
  /\ igen \in [Item -> 0 .. 255]
  /\ offchannel \in [Item -> BOOLEAN]
  /\ ahead \in [Item -> SUBSET Item]
  /\ generation \in 0 .. GenMod - 1
  /\ num_queued \in Int
  /\ num_queued_vif \in [Vif -> Int]
  /\ num_pending \in Int
  /\ num_pending_vif \in [Vif -> Int]
  /\ link_map_cache \in [Vif -> [Link -> Int]]
  /\ stats_num_queued \in [Vif -> Int]
  /\ overfull \in [Vif -> BOOLEAN]
  /\ tx_locked_cnt \in [Vif -> Int]
  /\ stopped \in [Vif -> BOOLEAN]
  /\ gcTimer \in [Vif -> BOOLEAN]
  /\ extLock \in BOOLEAN
  /\ bh \in PacketID \cup {None}
  /\ rx \in PacketID \cup {None}
  /\ device \in SUBSET PacketID

\* An item of the free pool has no skb (the BUG_ON(item->skb) of
\* atbm_queue_put) and an item on a list has one, no frame sits in two items,
\* and queue->queue is a list: of two queued items one is ahead of the other.
ListsWellFormed ==
  /\ \A i \in Item : where[i] = "free" <=> skb[i] = None
  /\ \A i, j \in Item : skb[i] = skb[j] /\ skb[i] # None => i = j
  /\ \A i \in Item : ahead[i] \subseteq ItemsOn("queued") \ {i}
  /\ \A i, j \in ItemsOn("queued") :
       i # j => (i \in ahead[j] <=> j \notin ahead[i])

\* Only a clear makes a packet ID stale: as long as the queue generation is
\* the one the ID was issued in, the ID is valid and means the very frame it
\* was issued for, still pending.  So no confirmation, drop or retry of one
\* frame ever reaches another frame that reused its slot, whatever puts,
\* expiries and clears happened since atbm_queue_get.
CurrentIDIsItsFrame ==
  \A p \in Outstanding : Current(p) =>
    /\ Valid(p)
    /\ where[p.item] = "pending"
    /\ skb[p.item] = p.frame
    /\ VifOf[p.frame] = p.vif

\* An item that is pending is owned once: no two outstanding packets of the
\* current generation name one item, and a packet is with the bottom half,
\* with the receive path or with the device, never with two of them.  So a
\* frame that was confirmed is not confirmed, retried or dropped again.
OneOwnerPerItem ==
  /\ \A p, q \in Outstanding :
       Current(p) /\ Current(q) /\ p.item = q.item => p = q
  /\ bh # None /\ Current(bh) => bh # rx /\ bh \notin device
  /\ rx # None /\ Current(rx) => rx \notin device

\* All counters of the queue agree with its lists, whatever the interleaving:
\* num_queued counts queued and pending frames, num_pending the pending ones,
\* link_map_cache the queued ones only.
CountersExact ==
  /\ num_queued = Cardinality(ItemsOn("queued") \cup ItemsOn("pending"))
  /\ num_pending = Cardinality(ItemsOn("pending"))
  /\ \A v \in Vif :
       /\ num_queued_vif[v] = Cardinality(Held(v))
       /\ num_pending_vif[v] = Cardinality(VifItemsOn("pending", v))
       /\ stats_num_queued[v] = Cardinality(VifItemsOn("queued", v))
       /\ \A l \in Link : link_map_cache[v][l] = Cardinality(QueuedOn(v, l))

\* The reasons to hold the queue of interface v.
Reasons(v) == (IF overfull[v] THEN 1 ELSE 0) + (IF extLock THEN 1 ELSE 0)

\* The lock count of an interface is the sum of the reasons to hold it, and
\* mac80211's queue is stopped exactly while the count is not zero: the stop
\* of an overfull interface is never lost nor released twice.
LocksExact ==
  \A v \in Vif :
    /\ tx_locked_cnt[v] = Reasons(v)
    /\ stopped[v] <=> tx_locked_cnt[v] > 0

\* No wake-up is lost: an interface stays overfull, and its transmitters
\* stopped, only while it holds more frames than the release level (so that
\* the removal of one of them will release it) or its timer is still to fire.
\* The overflow of the whole pool can stop an interface with few frames.
NoLostWakeup ==
  \A v \in Vif :
    overfull[v] => gcTimer[v] \/ Cardinality(Held(v)) > ReleaseLevel(v)

\* What the BUG_ON around atbm_queue_remove in wsm_handle_tx_data asserts: the
\* frame the bottom half has just taken from the queue can be removed.
BhFrameRemovable == bh # None => Valid(bh)
=============================================================================
