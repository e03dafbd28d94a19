------------------------- MODULE TxLockFlushProofs -------------------------
(***************************************************************************)
(* Proofs about what a flush is worth and about the sleep of the transmit  *)
(* thread, for any frames, lockers and input buffers.  They rest on the    *)
(* accounting of TxLockProofs (IInv).                                      *)
(*                                                                         *)
(* A flush that succeeds has seen hw_bufs_used 0 or no frame pending.  In  *)
(* the first case no packet is owed or about to be, by UsedExact, so that  *)
(* what is pending is in the hands of one of the two threads (Placed).     *)
(* From then on the lock keeps the transmit thread from another "pick",    *)
(* and the one it may stand at is the frame left (AfterFlush).             *)
(*                                                                         *)
(* On its way to sleep the thread has looked at both interfaces, or given  *)
(* one up (LookedAt).  An interface it skipped because it was not up has   *)
(* no frame left when it is added again (Emptied).                         *)
(***************************************************************************)
EXTENDS TxLockProofs

\* A pending frame is in the hands of one of the threads, or of the firmware.
Placed == pending \subseteq owed \cup {cur, need_confirm, rxcur}

AfterFlush ==
  \A t \in Locker : pc[t] = "flushed" =>
    /\ \A p, q \in pending \ {rxcur} : p = q
    /\ bhpc \in {"pick", "get"} => pending \subseteq {rxcur}

\* if_pending is off only within a call of wsm_get_tx.
PendingFlag == ~if_pending => bhpc \in {"check", "pick", "get", "got"}

\* Past its look at wsm_cmd, the thread has no command to see, or a wake-up.
CommandSeen ==
  /\ ~wakeup
  /\ \/ bhpc \in {"asleep", "check", "pick", "get"}
     \/ bhpc = "got" /\ cur \in Frame
  => cmd # "posted"

\* An interface whose queues were cleared has no frame until it is up again.
Emptied ==
  \A f \in queued \cup pending : iface[VifOf[f]] \in {"up", "off"}

\* Nothing of an interface is to be sent, or the thread has given it up.
Seen(v) ==
  iface[v] # "up" \/ (\A f \in queued : VifOf[f] # v) \/ v \in left

\* What waits for an unlock or for an answer.
Blocked == tx_lock > 0 \/ hw_bufs_used >= NumBufs

\* The thread has seen the interface it looked at last, when the other one is
\* the last to be tried, and both or a block when it sleeps.
LookedAt ==
  ~wakeup =>
    /\ bhpc = "check" /\ ~if_pending => Seen(Looked)
    /\ bhpc = "pick" /\ ~if_pending => Seen(1 - Looked)
    /\ bhpc = "asleep" => Blocked \/ \A v \in Vif : Seen(v)

-----------------------------------------------------------------------------
(* Placed.                                                                 *)

LEMMA PlacedInductive ==
  ASSUME IInv, Placed, [Next]_vars
  PROVE  Placed'
<1> USE DEF Placed
<1>k. Kinds /\ OnePlace
  BY DEF IInv, Types
<1>d. /\ Cmd # None /\ Cmd \notin Frame /\ None \notin Frame
      /\ NeedConfirm \subseteq Frame
  BY DistinctAssumption, FrameAssumption
<1>1. CASE UNCHANGED <<pending, owed, cur, need_confirm, rxcur>>
  BY <1>1
<1>2. CASE \/ \E f \in Frame : Enqueue(f)
           \/ CmdSend \/ RestartLock \/ RestartUnlock \/ UNCHANGED vars
  BY <1>2, <1>1
     DEF Enqueue, CmdSend, RestartLock, RestartUnlock, vars, bhVars, fwVars,
         rxVars
<1>3. CASE BhWake \/ BhSpace \/ BhNoSpace \/ BhCheck \/ BhPickNone
           \/ BhNotEnabled \/ BhGetFails \/ \E f \in Frame : BhFind(f)
  BY <1>3, <1>1
     DEF BhWake, BhSpace, BhNoSpace, BhCheck, BhPickNone, BhNotEnabled,
         BhGetFails, BhFind, EndOfBatch, bhVars, fwVars, rxVars
<1>4. CASE BhAlloc \/ BhAccount \/ BhFreeVif \/ BhFreeBuf
  BY <1>4, <1>1 DEF BhAlloc, BhAccount, BhFreeVif, BhFreeBuf, fwVars, rxVars
<1>5. CASE BhSelect
  BY <1>5, <1>k, <1>d DEF BhSelect, Kinds, Busy, fwVars, rxVars
<1>6. ASSUME NEW f \in Frame, BhPick(f)
      PROVE  Placed'
  BY <1>6, <1>k, <1>d DEF BhPick, Kinds, Busy, fwVars, rxVars
<1>7. CASE BhDrop \/ BhRemove
  BY <1>7 DEF BhDrop, BhRemove, fwVars, rxVars
<1>8. CASE BhKeep
  BY <1>8, <1>k, <1>d DEF BhKeep, Kinds, OnePlace, fwVars, rxVars
<1>9. CASE BhWrite
  BY <1>9, <1>k, <1>d DEF BhWrite, Kinds, rxVars
<1>10. CASE BhTerm \/ BhWriteFails
  BY <1>10, <1>k, <1>d
     DEF BhTerm, BhWriteFails, LoseBatch, ForceFree, Kinds, fwVars, rxVars
<1>11. CASE Firmware
  BY <1>11, <1>k, <1>d
     DEF Firmware, FwXmit, RxAnswer, RxCmd, RxVif, RxFrame, Kinds, OnePlace,
         bhVars, fwVars, rxVars
<1>12. ASSUME NEW t \in Locker,
              \/ LockAsync(t) \/ Flush(t)
              \/ LockSync(t, "sync") \/ LockSync(t, "vif")
              \/ SyncFlush(t) \/ VifFlush(t)
              \/ FlushDone(t) \/ FlushTimeout(t) \/ Unlock(t)
       PROVE  Placed'
  BY <1>12, <1>1
     DEF LockAsync, Flush, LockSync, SyncFlush, VifFlush, FlushDone,
         FlushTimeout, Unlock, bhVars, fwVars, rxVars
<1>13. CASE RestartReset
  BY <1>13 DEF RestartReset
<1>i. CASE (\E f \in queued : Expire(f)) \/ Interfaces
  BY <1>i, InterfaceStep DEF bhVars, fwVars, rxVars
<1> QED BY <1>i, <1>2, <1>3, <1>4, <1>5, <1>6, <1>7, <1>8, <1>9, <1>10, <1>11,
           <1>12, <1>13 DEF Next, Bh

-----------------------------------------------------------------------------
(* AfterFlush.                                                             *)

\* Without a buffer in use, pending frames are in hand.
LEMMA DrainedInHand ==
  ASSUME IInv, Placed, hw_bufs_used = 0
  PROVE  pending \subseteq {cur, rxcur}
<1>1. owed = {} /\ BhHolds = {}
  <2>1. IsFiniteSet(Held) /\ Cardinality(Held) = 0
    BY HeldPackets DEF IInv, Types, UsedExact
  <2>2. Held = {}
    BY <2>1, FS_EmptySet
  <2> QED BY <2>2 DEF Held
<1>2. need_confirm = None
  BY <1>1 DEF BhHolds
<1>3. None \notin pending
  BY DistinctAssumption DEF IInv, Types, Kinds
<1> QED BY <1>1, <1>2, <1>3 DEF Placed

LEMMA FlushSucceeds ==
  ASSUME IInv, Placed, hw_bufs_used = 0 \/ pending = {}
  PROVE  /\ \A p, q \in pending \ {rxcur} : p = q
         /\ bhpc \in {"pick", "get"} => pending \subseteq {rxcur}
<1>1. CASE pending = {}
  BY <1>1
<1>2. CASE hw_bufs_used = 0
  <2>1. pending \subseteq {cur, rxcur}
    BY <1>2, DrainedInHand
  <2>2. bhpc \in {"pick", "get"} => cur = None
    BY DEF IInv, Types, Kinds, Busy
  <2>3. None \notin pending
    BY DistinctAssumption DEF IInv, Types, Kinds
  <2> QED BY <2>1, <2>2, <2>3
<1> QED BY <1>1, <1>2

LEMMA AfterFlushInductive ==
  ASSUME IInv, Placed, AfterFlush, [Next]_vars
  PROVE  AfterFlush'
<1> USE DEF AfterFlush
<1>k. Kinds /\ OnePlace
  BY DEF IInv, Types
<1>d. /\ Cmd # None /\ Cmd \notin Frame /\ None \notin Frame
      /\ NeedConfirm \subseteq Frame
  BY DistinctAssumption, FrameAssumption
<1>l. \A t \in Locker : pc[t] = "flushed" => tx_lock > 0
  BY LockIsNat DEF IInv
<1>1. CASE UNCHANGED <<pending, rxcur, bhpc, pc>>
  BY <1>1
<1>2. CASE \/ \E f \in Frame : Enqueue(f)
           \/ CmdSend \/ BhNoSpace \/ RestartLock \/ RestartUnlock
           \/ UNCHANGED vars
  BY <1>2, <1>1
     DEF Enqueue, CmdSend, BhNoSpace, RestartLock, RestartUnlock, vars, bhVars,
         rxVars, lockVars
<1>3. CASE \/ BhWake \/ BhSpace \/ BhSelect \/ BhPickNone
           \/ BhNotEnabled \/ BhGetFails
           \/ BhAlloc \/ BhAccount \/ BhKeep
           \/ BhFreeVif \/ BhFreeBuf \/ BhWrite
  <2>1. UNCHANGED <<pending, rxcur, pc>> /\ bhpc' \notin {"pick", "get"}
    BY <1>3
       DEF BhWake, BhSpace, BhSelect, BhPickNone, BhNotEnabled, BhGetFails,
           BhAlloc, BhAccount, BhKeep, BhFreeVif, BhFreeBuf, BhWrite,
           EndOfBatch, rxVars, lockVars
  <2> QED BY <2>1
<1>4. CASE BhCheck
  BY <1>4, <1>l DEF BhCheck, Passes, EndOfBatch, rxVars, lockVars
<1>5. ASSUME NEW f \in Frame, BhFind(f) \/ BhPick(f)
      PROVE  AfterFlush'
  BY <1>5 DEF BhFind, BhPick, rxVars, lockVars
<1>6. CASE BhDrop \/ BhRemove
  BY <1>6 DEF BhDrop, BhRemove, rxVars, lockVars
<1>7. CASE BhTerm \/ BhWriteFails
  BY <1>7 DEF BhTerm, BhWriteFails, LoseBatch, ForceFree, rxVars, lockVars
<1>8. CASE Firmware
  <2>1. CASE \E p \in lmc : FwXmit(p)
    BY <2>1, <1>1 DEF FwXmit, bhVars, rxVars, lockVars
  <2>2. ASSUME NEW p \in owed, RxAnswer(p)
        PROVE  AfterFlush'
    BY <2>2, <1>k, <1>d DEF RxAnswer, Kinds, OnePlace, bhVars, lockVars
  <2>3. CASE RxCmd \/ RxVif \/ RxFrame
    BY <2>3, <1>k, <1>d
       DEF RxCmd, RxVif, RxFrame, Kinds, OnePlace, bhVars, lockVars
  <2> QED BY <1>8, <2>1, <2>2, <2>3 DEF Firmware
\* A flush succeeds, or the locker moves elsewhere.
<1>9. ASSUME NEW t \in Locker,
             \/ LockAsync(t) \/ Flush(t)
             \/ LockSync(t, "sync") \/ LockSync(t, "vif")
             \/ SyncFlush(t) \/ VifFlush(t)
             \/ FlushDone(t) \/ FlushTimeout(t) \/ Unlock(t)
      PROVE  AfterFlush'
  <2>1. UNCHANGED <<pending, rxcur, bhpc>>
    BY <1>9
       DEF LockAsync, Flush, LockSync, SyncFlush, VifFlush, FlushDone,
           FlushTimeout, Unlock, bhVars, rxVars
  <2>2. pc \in [Locker -> LockerPlaces] /\ pc' \in [Locker -> LockerPlaces]
        /\ \A u \in Locker \ {t} : pc'[u] = pc[u]
    BY <1>9, <1>k
       DEF LockAsync, Flush, LockSync, SyncFlush, VifFlush, FlushDone,
           FlushTimeout, Unlock, StartFlush, MoveTo, Kinds, LockerPlaces
  <2>3. pc'[t] = "flushed" => hw_bufs_used = 0 \/ pending = {}
    BY <1>9, <1>k
       DEF LockAsync, Flush, LockSync, SyncFlush, VifFlush, FlushDone, Drained,
           FlushTimeout, Unlock, StartFlush, NothingToFlush, MoveTo, Kinds,
           LockerPlaces
  <2> QED BY <2>1, <2>2, <2>3, FlushSucceeds
<1>10. CASE RestartReset
  BY <1>10, <1>k DEF RestartReset, bhVars, Kinds
<1>i. CASE (\E f \in queued : Expire(f)) \/ Interfaces
  BY <1>i, InterfaceStep DEF bhVars, rxVars
<1> QED BY <1>i, <1>2, <1>3, <1>4, <1>5, <1>6, <1>7, <1>8, <1>9, <1>10 DEF Next, Bh
-----------------------------------------------------------------------------
(* The sleep of the transmit thread.                                       *)

WakeInv == PendingFlag /\ CommandSeen /\ Emptied /\ LookedAt

LEMMA PendingFlagInductive ==
  ASSUME IInv, PendingFlag, [Next]_vars
  PROVE  PendingFlag'
<1> USE DEF PendingFlag
<1>1. CASE UNCHANGED <<if_pending, bhpc>>
  BY <1>1
<1>2. CASE \/ \E f \in Frame : Enqueue(f)
           \/ CmdSend \/ BhNoSpace \/ Firmware
           \/ RestartLock \/ RestartReset \/ RestartUnlock \/ UNCHANGED vars
  BY <1>2, <1>1
     DEF Enqueue, CmdSend, BhNoSpace, Firmware, FwXmit, RxAnswer, RxCmd, RxVif,
         RxFrame, RestartLock, RestartReset, RestartUnlock, vars, bhVars,
         selVars
<1>3. ASSUME NEW t \in Locker,
             \/ LockAsync(t) \/ Flush(t)
             \/ LockSync(t, "sync") \/ LockSync(t, "vif")
             \/ SyncFlush(t) \/ VifFlush(t)
             \/ FlushDone(t) \/ FlushTimeout(t) \/ Unlock(t)
      PROVE  PendingFlag'
  BY <1>3, <1>1
     DEF LockAsync, Flush, LockSync, SyncFlush, VifFlush, FlushDone,
         FlushTimeout, Unlock, bhVars, selVars
<1>4. CASE Bh \/ BhWriteFails
  BY <1>4
     DEF Bh, BhWriteFails, BhWake, BhSpace, BhSelect, BhCheck, BhPickNone,
         BhNotEnabled, BhGetFails, BhFind, BhPick, BhDrop, BhAlloc, BhAccount,
         BhKeep, BhFreeVif, BhFreeBuf, BhRemove, BhWrite, BhTerm, LoseBatch,
         EndOfBatch, selVars
<1>i. CASE (\E f \in queued : Expire(f)) \/ Interfaces
  BY <1>i, <1>1, InterfaceStep DEF bhVars, selVars
<1> QED BY <1>i, <1>2, <1>3, <1>4 DEF Next

LEMMA CommandSeenInductive ==
  ASSUME IInv, CommandSeen, [Next]_vars
  PROVE  CommandSeen'
<1> USE DEF CommandSeen
<1>k. Kinds /\ Flags
  BY DEF IInv, Types
<1>1. CASE UNCHANGED <<bhpc, cur, cmd>> /\ (wakeup' = wakeup \/ wakeup')
  BY <1>1, <1>k DEF Flags
<1>2. CASE (\E f \in Frame : Enqueue(f)) \/ CmdSend
  BY <1>2 DEF Enqueue, CmdSend
<1>3. CASE BhNoSpace \/ RestartLock \/ UNCHANGED vars
  BY <1>3, <1>1 DEF BhNoSpace, RestartLock, vars, bhVars, cmdVars
<1>4. CASE BhWake \/ BhSpace \/ BhWrite \/ BhTerm \/ BhWriteFails
  BY <1>4 DEF BhWake, BhSpace, BhWrite, BhTerm, BhWriteFails, LoseBatch
<1>5. CASE BhSelect
  BY <1>5, DistinctAssumption DEF BhSelect, cmdVars
<1>6. CASE \/ BhCheck \/ BhPickNone \/ BhNotEnabled \/ BhGetFails \/ BhDrop
           \/ \E f \in Frame : BhFind(f) \/ BhPick(f)
  BY <1>6 DEF BhCheck, BhPickNone, BhNotEnabled, BhGetFails, BhDrop, BhFind,
              BhPick, EndOfBatch, cmdVars
<1>7. CASE \/ BhAlloc \/ BhAccount \/ BhKeep \/ BhFreeVif \/ BhFreeBuf
           \/ BhRemove
  BY <1>7 DEF BhAlloc, BhAccount, BhKeep, BhFreeVif, BhFreeBuf, BhRemove
<1>8. CASE Firmware
  BY <1>8, <1>k DEF Firmware, FwXmit, RxAnswer, Release, RxCmd, RxVif, RxFrame,
              CmdDone, Flags, bhVars, cmdVars
<1>9. ASSUME NEW t \in Locker,
             \/ LockAsync(t) \/ Flush(t)
             \/ LockSync(t, "sync") \/ LockSync(t, "vif")
             \/ SyncFlush(t) \/ VifFlush(t)
             \/ FlushDone(t) \/ FlushTimeout(t) \/ Unlock(t)
      PROVE  CommandSeen'
  BY <1>9, <1>k
     DEF LockAsync, Flush, LockSync, SyncFlush, VifFlush, FlushDone,
         FlushTimeout, Unlock, Lower, Flags, bhVars, cmdVars
<1>10. CASE RestartReset \/ RestartUnlock
  BY <1>10, <1>k DEF RestartReset, RestartUnlock, Lower, Flags, bhVars, cmdVars
<1>i. CASE (\E f \in queued : Expire(f)) \/ Interfaces
  BY <1>i, <1>1, InterfaceStep DEF bhVars, cmdVars
<1> QED BY <1>i, <1>2, <1>3, <1>4, <1>5, <1>6, <1>7, <1>8, <1>9, <1>10 DEF Next, Bh

LEMMA EmptiedInductive ==
  ASSUME IInv, Emptied, [Next]_vars
  PROVE  Emptied'
<1> USE DEF Emptied
<1>k. Kinds /\ Ifaces
  BY DEF IInv, Types
<1>v. VifOf \in [Frame -> Vif] /\ LockerVif \in [Locker -> Vif]
      /\ Remover \subseteq Locker
  BY FrameAssumption, DistinctAssumption
<1>1. CASE queued' \cup pending' \subseteq queued \cup pending /\ iface' = iface
  BY <1>1
<1>2. CASE (\E f \in queued : Expire(f)) \/ CmdSend \/ BhNoSpace
           \/ UNCHANGED vars \/ RestartLock \/ RestartReset \/ RestartUnlock
  BY <1>2, <1>1 DEF Expire, CmdSend, BhNoSpace, RestartLock, RestartReset,
                    RestartUnlock, vars, lockVars
<1>3. ASSUME NEW f \in Frame, Enqueue(f)
      PROVE  Emptied'
  BY <1>3 DEF Enqueue, lockVars
<1>4. CASE Bh \/ BhWriteFails
  <2>1. /\ queued' \cup pending' \subseteq queued \cup pending
        /\ iface' = iface
    BY <1>4
       DEF Bh, BhWriteFails, BhWake, BhSpace, BhSelect, BhCheck, BhPickNone,
           BhNotEnabled, BhGetFails, BhFind, BhPick, Candidates, BhDrop,
           BhAlloc, BhAccount, BhKeep, BhFreeVif, BhFreeBuf, BhRemove, BhWrite,
           BhTerm, LoseBatch, ForceFree, lockVars
  <2> QED BY <2>1, <1>1
<1>5. CASE Firmware
  BY <1>5, <1>1 DEF Firmware, FwXmit, RxAnswer, RxCmd, RxVif, RxFrame, lockVars
<1>6. ASSUME NEW t \in Locker,
             \/ LockAsync(t) \/ Flush(t)
             \/ LockSync(t, "sync") \/ LockSync(t, "vif")
             \/ SyncFlush(t) \/ VifFlush(t)
             \/ FlushDone(t) \/ FlushTimeout(t) \/ Unlock(t)
      PROVE  Emptied'
  BY <1>6, <1>1
     DEF LockAsync, Flush, LockSync, SyncFlush, VifFlush, FlushDone,
         FlushTimeout, Unlock
<1>7. ASSUME NEW t \in Remover, Disable(t) \/ Unlist(t) \/ AddInterface(t)
      PROVE  Emptied'
  BY <1>7, <1>k, <1>v
     DEF Disable, Unlist, AddInterface, SetIface, Ifaces, Kinds
<1>8. ASSUME NEW t \in Remover, ClearQueues(t)
      PROVE  Emptied'
  BY <1>8, <1>k, <1>v DEF ClearQueues, SetIface, Ifaces, Kinds
<1> QED BY <1>2, <1>3, <1>4, <1>5, <1>6, <1>7, <1>8 DEF Next, Interfaces

\* A step of another actor, after which there is no less in the way and no
\* more to see.
LEMMA LookedAtQuiet ==
  ASSUME IInv, LookedAt, queued' \subseteq queued, Blocked => Blocked',
         \A v \in Vif : iface[v] # "up" => \/ iface'[v] # "up"
                                         \/ \A f \in queued : VifOf[f] # v,
         bhpc' = bhpc, if_id_selected' = if_id_selected,
         if_pending' = if_pending, left' = left, wakeup' = wakeup
  PROVE  LookedAt'
<1>1. \A v \in Vif : Seen(v) => Seen(v)'
  BY DEF Seen
<1>2. Looked' = Looked /\ Looked \in Vif /\ 1 - Looked \in Vif
  BY DEF Looked, IInv, Types, Kinds, Vif
<1> QED BY <1>1, <1>2 DEF LookedAt

\* What the thread does between two looks at the lock.
LEMMA LookedAtSearch ==
  ASSUME IInv, PendingFlag, LookedAt,
         BhNotEnabled \/ BhPickNone \/ BhGetFails \/ BhDrop
  PROVE  LookedAt'
<1>k. Kinds
  BY DEF IInv, Types
<1>s. /\ UNCHANGED <<wakeup, if_id_selected, iface>> /\ queued' = queued
      /\ left \subseteq left'
  BY DEF BhNotEnabled, BhPickNone, BhGetFails, BhDrop, lockVars, histVars
<1>m. \A v : Seen(v) => Seen(v)'
  BY <1>s DEF Seen
<1>l. Looked' = Looked /\ Vif = {Looked, 1 - Looked}
  BY <1>s, <1>k DEF Looked, Vif, Kinds
<1>1. CASE BhNotEnabled
  <2>1. Seen(Looked)'
    BY <1>1, <1>s, <1>l DEF BhNotEnabled, Seen
  <2>2. ~wakeup => Seen(1 - Looked)'
    <3>1. CASE if_pending
      BY <1>1, <1>l, <3>1 DEF BhNotEnabled, Seen
    <3>2. CASE ~if_pending
      BY <1>1, <1>l, <1>m, <3>2 DEF BhNotEnabled, LookedAt
    <3> QED BY <3>1, <3>2
  <2>3. bhpc' \notin {"check", "pick"}
    BY <1>1 DEF BhNotEnabled, EndOfBatch
  <2>4. ~wakeup => \A v \in Vif : Seen(v)'
    BY <2>1, <2>2, <1>l
  <2> QED BY <2>3, <2>4, <1>s DEF LookedAt
<1>2. CASE BhPickNone
  <2>1. Seen(Looked)'
    BY <1>2, <1>s, <1>l DEF BhPickNone, Seen, Candidates
  <2>2. ~if_pending /\ ~wakeup => Seen(1 - Looked)'
    BY <1>2, <1>l, <1>m DEF BhPickNone, LookedAt
  <2>3. \/ bhpc' = "check"
        \/ bhpc' \notin {"check", "pick"} /\ ~if_pending
    BY <1>2 DEF BhPickNone, EndOfBatch
  <2>4. ~if_pending /\ ~wakeup => \A v \in Vif : Seen(v)'
    BY <2>1, <2>2, <1>l
  <2> QED BY <2>1, <2>3, <2>4, <1>s, <1>l DEF LookedAt
<1>3. CASE BhGetFails \/ BhDrop
  <2>1. Seen(Looked)' /\ bhpc' = "check"
    BY <1>3, <1>l DEF BhGetFails, BhDrop, Seen
  <2> QED BY <2>1, <1>l DEF LookedAt
<1> QED BY <1>1, <1>2, <1>3

LEMMA LookedAtInductive ==
  ASSUME IInv, PendingFlag, Emptied, LookedAt, [Next]_vars
  PROVE  LookedAt'
<1> USE DEF LookedAt
<1>k. Kinds /\ Flags /\ Numbers /\ Ifaces
  BY DEF IInv, Types
<1>n. tx_lock \in Nat /\ (restart # "no" => tx_lock > 0) /\ NumBufs \in Nat
  BY LockIsNat, FrameAssumption DEF IInv
<1>1. ASSUME UNCHANGED <<bhVars, left, hw_bufs_used, wakeup, iface>>,
             queued' \subseteq queued, tx_lock' \in Nat, tx_lock' >= tx_lock
      PROVE  LookedAt'
  <2>1. Blocked => Blocked'
    BY <1>1, <1>n DEF Blocked
  <2>2. /\ bhpc' = bhpc /\ if_id_selected' = if_id_selected
        /\ if_pending' = if_pending /\ left' = left /\ wakeup' = wakeup
        /\ queued' \subseteq queued /\ iface' = iface
    BY <1>1 DEF bhVars, selVars
  <2> HIDE DEF LookedAt
  <2> QED BY <2>1, <2>2, LookedAtQuiet
<1>2. CASE wakeup'
  BY <1>2
\* The lock is lowered, and the thread woken when it is free.
<1>l. ASSUME Lower, UNCHANGED <<queued, bhVars, left, hw_bufs_used, iface>>
      PROVE  LookedAt'
  <2>1. CASE tx_lock' = 0
    BY <1>l, <1>2, <2>1 DEF Lower
  <2>2. CASE tx_lock' # 0
    <3>1. wakeup' = wakeup
      BY <1>l, <1>k, <2>2 DEF Lower, Flags
    <3>2. tx_lock > 0 => tx_lock' > 0
      BY <1>l, <1>n, <2>2 DEF Lower
    <3>3. Blocked => Blocked'
      BY <1>l, <1>n, <2>2, <3>2 DEF Blocked, Lower
    <3>4. /\ bhpc' = bhpc /\ if_id_selected' = if_id_selected
          /\ if_pending' = if_pending /\ left' = left
          /\ queued' \subseteq queued /\ iface' = iface
      BY <1>l DEF bhVars, selVars
    <3> HIDE DEF LookedAt
    <3> QED BY <3>1, <3>3, <3>4, LookedAtQuiet
  <2> QED BY <2>1, <2>2
<1>3. CASE \/ \E f \in Frame : Enqueue(f)
           \/ CmdSend
  BY <1>3, <1>2 DEF Enqueue, CmdSend
<1>4. CASE UNCHANGED vars \/ RestartLock \/ BhNoSpace
           \/ \E f \in queued : Expire(f)
  <2>1. /\ tx_lock' \in Nat /\ tx_lock' >= tx_lock /\ queued' \subseteq queued
        /\ iface' = iface
    BY <1>4, <1>n DEF vars, RestartLock, BhNoSpace, Expire, lockVars
  <2> QED
    BY <1>4, <2>1, <1>1
       DEF vars, RestartLock, BhNoSpace, Expire, bufVars, histVars
<1>5. CASE RestartReset
  BY <1>5, <1>n DEF RestartReset, bhVars, Blocked
<1>6. CASE RestartUnlock
  BY <1>6, <1>l DEF RestartUnlock, bufVars, histVars
<1>7. CASE BhWake \/ BhSpace \/ BhSelect
  BY <1>7, <1>k DEF BhWake, BhSpace, BhSelect, PendingFlag, Flags, selVars
<1>8. CASE BhCheck
  <2>1. CASE Passes
    <3>1. bhpc' = "pick" /\ wakeup' = wakeup /\ if_pending' = if_pending
      BY <1>8, <2>1 DEF BhCheck
    <3>2. 1 - Looked' = Looked
      BY <1>8, <2>1, <1>k DEF BhCheck, Looked, Kinds, Vif
    <3>3. \A v : Seen(v) => Seen(v)'
      BY <1>8 DEF BhCheck, Seen, lockVars, histVars
    <3> QED BY <1>8, <3>1, <3>2, <3>3 DEF BhCheck
  <2>2. CASE ~Passes
    <3>1. Blocked'
      BY <1>8, <2>2, <1>k, <1>n
         DEF BhCheck, Passes, Blocked, Numbers, lockVars, bufVars
    <3> QED BY <1>8, <2>2, <3>1 DEF BhCheck, EndOfBatch
  <2> QED BY <2>1, <2>2
<1>9. CASE BhNotEnabled \/ BhPickNone \/ BhGetFails \/ BhDrop
  <2> HIDE DEF LookedAt
  <2> QED BY <1>9, LookedAtSearch
<1>10. CASE \E f \in Frame : BhFind(f) \/ BhPick(f)
  BY <1>10 DEF BhFind, BhPick
<1>11. CASE \/ BhAlloc \/ BhAccount \/ BhKeep \/ BhFreeVif \/ BhFreeBuf
            \/ BhRemove \/ BhWrite \/ BhTerm \/ BhWriteFails
  BY <1>11 DEF BhAlloc, BhAccount, BhKeep, BhFreeVif, BhFreeBuf, BhRemove,
               BhWrite, BhTerm, BhWriteFails, LoseBatch
<1>12. CASE Firmware
  <2>1. CASE (\E p \in lmc : FwXmit(p)) \/ RxCmd \/ RxVif
    BY <2>1, <1>1, <1>n DEF FwXmit, RxCmd, RxVif, bufVars, lockVars, histVars
  <2>2. ASSUME NEW p \in owed, RxAnswer(p)
        PROVE  LookedAt'
    <3>1. CASE hw_bufs_used >= NumBufs - 1
      BY <1>2, <2>2, <3>1 DEF RxAnswer, Release
    <3>2. CASE ~(hw_bufs_used >= NumBufs - 1)
      <4>1. wakeup' = wakeup
        BY <1>k, <2>2, <3>2 DEF RxAnswer, Release, Flags
      <4>2. Blocked => Blocked'
        BY <1>k, <1>n, <2>2, <3>2
           DEF RxAnswer, Blocked, Numbers, lockVars
      <4>3. /\ bhpc' = bhpc /\ if_id_selected' = if_id_selected
            /\ if_pending' = if_pending /\ left' = left
            /\ queued' \subseteq queued /\ iface' = iface
        BY <2>2 DEF RxAnswer, bhVars, selVars, lockVars, histVars
      <4> HIDE DEF LookedAt
      <4> QED BY <4>1, <4>2, <4>3, LookedAtQuiet
    <3> QED BY <3>1, <3>2
  <2>3. CASE RxFrame
    BY <2>3, <1>1, <1>2, <1>n DEF RxFrame, bufVars, lockVars, histVars
  <2> QED BY <1>12, <2>1, <2>2, <2>3 DEF Firmware
<1>13. ASSUME NEW t \in Locker,
              \/ LockAsync(t) \/ Flush(t)
              \/ LockSync(t, "sync") \/ LockSync(t, "vif")
              \/ SyncFlush(t) \/ VifFlush(t)
              \/ FlushDone(t) \/ FlushTimeout(t)
       PROVE  LookedAt'
  <2>1. tx_lock' \in Nat /\ tx_lock' >= tx_lock /\ queued' = queued
    BY <1>13, <1>n
       DEF LockAsync, Flush, LockSync, SyncFlush, VifFlush, FlushDone,
           FlushTimeout
  <2> QED
    BY <1>13, <2>1, <1>1
       DEF LockAsync, Flush, LockSync, SyncFlush, VifFlush, FlushDone,
           FlushTimeout, bufVars, histVars
<1>14. ASSUME NEW t \in Locker, Unlock(t)
       PROVE  LookedAt'
  BY <1>14, <1>l DEF Unlock, bufVars, histVars
\* An interface that comes up had been cleared.
<1>15. CASE Interfaces
  <2>1. /\ bhpc' = bhpc /\ if_id_selected' = if_id_selected
        /\ if_pending' = if_pending /\ left' = left /\ wakeup' = wakeup
        /\ queued' \subseteq queued
        /\ UNCHANGED <<tx_lock, hw_bufs_used>>
    BY <1>15, InterfaceStep DEF bhVars, selVars, bufVars, histVars
  <2>2. \A v \in Vif : iface[v] # "up" => \/ iface'[v] # "up"
                                         \/ \A f \in queued : VifOf[f] # v
    <3>1. PICK t \in Remover :
            Disable(t) \/ ClearQueues(t) \/ Unlist(t) \/ AddInterface(t)
      BY <1>15 DEF Interfaces
    <3>2. CASE AddInterface(t)
      <4>1. iface[LockerVif[t]] = "gone"
        BY <3>2 DEF AddInterface, SetIface
      <4>2. \A f \in queued : VifOf[f] # LockerVif[t]
        BY <4>1 DEF Emptied
      <4> QED BY <3>2, <4>2, <1>k DEF AddInterface, SetIface, Ifaces
    <3>3. CASE Disable(t) \/ ClearQueues(t) \/ Unlist(t)
      BY <3>3, <1>k DEF Disable, ClearQueues, Unlist, SetIface, Ifaces
    <3> QED BY <3>1, <3>2, <3>3
  <2>3. Blocked => Blocked'
    BY <2>1 DEF Blocked
  <2> HIDE DEF LookedAt
  <2> QED BY <2>1, <2>2, <2>3, LookedAtQuiet
<1> QED BY <1>3, <1>4, <1>5, <1>6, <1>7, <1>8, <1>9, <1>10, <1>11, <1>12,
           <1>13, <1>14, <1>15 DEF Next, Bh

-----------------------------------------------------------------------------
(* The theorems.                                                           *)

LEMMA InitFlush ==
  ASSUME Init
  PROVE  Placed /\ AfterFlush /\ WakeInv
<1>1. Placed /\ AfterFlush
  BY DEF Init, Placed, AfterFlush
<1>2. WakeInv
  BY DEF Init, WakeInv, PendingFlag, CommandSeen, Emptied, LookedAt, Seen
<1> QED BY <1>1, <1>2

\* After wsm_flush_tx has succeeded, and until the lock is given back, one
\* frame at most is still on its way.
THEOREM FlushLeavesOneCorrect == Spec => []FlushLeavesOneAtMost
<1>1. IInv /\ Placed /\ AfterFlush /\ [Next]_vars => (Placed /\ AfterFlush)'
  BY PlacedInductive, AfterFlushInductive
<1>2. IInv /\ AfterFlush => FlushLeavesOneAtMost
  <2> SUFFICES ASSUME IInv, AfterFlush, NEW t \in Locker, pc[t] = "flushed"
               PROVE  Cardinality(pending \ {rxcur}) <= 1
    BY DEF FlushLeavesOneAtMost
  <2>1. \A p, q \in pending \ {rxcur} : p = q
    BY DEF AfterFlush
  <2>2. CASE pending \ {rxcur} = {}
    BY <2>2, FS_EmptySet
  <2>3. ASSUME NEW p \in pending \ {rxcur}
        PROVE  Cardinality(pending \ {rxcur}) <= 1
    <3>1. pending \ {rxcur} = {p}
      BY <2>1, <2>3
    <3> QED BY <3>1, FS_Singleton
  <2> QED BY <2>2, <2>3
<1> QED BY InitFlush, IInvInvariant, <1>1, <1>2, PTL DEF Spec

\* The transmit thread does not sleep while a command is posted, nor while an
\* interface that is up has something to send, unless the last call of
\* wsm_get_tx gave that interface up: it dropped a frame of it, lost one before
\* atbm_queue_get, or ended at the other interface because that was disabled.
THEOREM NoLostWakeupCorrect == Spec => []NoLostWakeup
<1>1. IInv /\ WakeInv /\ [Next]_vars => WakeInv'
  BY PendingFlagInductive, CommandSeenInductive, EmptiedInductive,
     LookedAtInductive DEF WakeInv
<1>2. IInv /\ WakeInv => NoLostWakeup
  BY DEF WakeInv, CommandSeen, LookedAt, Seen, Blocked, NothingToSend,
         NoLostWakeup
<1> QED BY InitFlush, IInvInvariant, <1>1, <1>2, PTL DEF Spec
=============================================================================
