---------------------------- MODULE TxLockProofs ----------------------------
(***************************************************************************)
(* Proofs about TxLock, for any frames, any number of lockers and of input *)
(* buffers.                                                                *)
(***************************************************************************)
EXTENDS TxLock, FiniteSetTheorems, TLAPS

-----------------------------------------------------------------------------
(* Facts about the sets that are counted.                                  *)

\* The packets are finitely many.
LEMMA FinitePackets ==
  /\ IsFiniteSet(Packet)
  /\ \A S \in SUBSET Packet : IsFiniteSet(S) /\ Cardinality(S) \in Nat
<1>1. IsFiniteSet(Packet)
  BY FrameAssumption, FS_AddElement DEF Packet
<1> QED BY <1>1, FS_Subset, FS_CardinalityType

\* Counting one packet more, and one less.
LEMMA CountAdd ==
  ASSUME NEW S, NEW p, IsFiniteSet(S), p \notin S
  PROVE  Cardinality(S \cup {p}) = Cardinality(S) + 1
BY FS_AddElement

LEMMA CountRemove ==
  ASSUME NEW S, NEW p, IsFiniteSet(S), p \in S
  PROVE  Cardinality(S \ {p}) = Cardinality(S) - 1
BY FS_RemoveElement

-----------------------------------------------------------------------------
(* Types, with integers for the numbers.                                   *)

Numbers ==
  /\ tx_lock \in Int /\ hw_bufs_used \in Int /\ hw_bufs_free \in Int
  /\ hw_bufs_used_vif \in [Vif -> Int]
  /\ late \in Int /\ overtaken \in Int

Places == {"asleep", "top", "select", "check", "pick", "get", "got", "alloc",
           "copied", "free", "remove", "write"}
LockerPlaces == {"idle", "locked", "flushed", "wait", "sync", "syncwait",
                 "vif", "vifwait", "vifflushed"}

\* Where the transmit thread has a packet in its hands.
Busy == {"got", "alloc", "copied", "free", "remove"}

Kinds ==
  /\ queued \subseteq Frame /\ pending \subseteq Frame
  /\ cmd \in {"none", "posted", "running"}
  /\ mux \in Locker \cup {Cmd, None}
  /\ bhpc \in Places
  /\ if_id_selected \in Vif
  /\ cur \in IF bhpc \in Busy THEN Packet ELSE {None}
  /\ need_confirm \in NeedConfirm \cup {Cmd, None}
  /\ xmit_buff \subseteq Packet
  /\ lmc \subseteq Packet
  /\ owed \subseteq NeedConfirm \cup {Cmd}
  /\ rxpc \in {"idle", "cmd", "vif", "frame"}
  /\ rxcur \in NeedConfirm \cup {Cmd, None}
  /\ pc \in [Locker -> LockerPlaces]
  /\ restart \in {"no", "locked", "reset"}

Flags == /\ wakeup \in BOOLEAN /\ halted \in BOOLEAN /\ if_pending \in BOOLEAN

IfaceStates == {"up", "off", "cleared", "gone"}

Ifaces ==
  /\ iface \in [Vif -> IfaceStates] /\ left \subseteq Vif
  /\ found \in Frame \cup {None}

Types == Numbers /\ Kinds /\ Flags /\ Ifaces

-----------------------------------------------------------------------------
(* Steps that only take frames off the queues or change an interface.      *)

LEMMA InterfaceStep ==
  ASSUME (\E f \in queued : Expire(f)) \/ Interfaces
  PROVE  /\ queued' \subseteq queued /\ pending' \subseteq pending
         /\ UNCHANGED <<cmdVars, bufVars, bhVars, wakeup, fwVars, rxVars,
                        tx_lock, pc, restart, halted, histVars>>
<1>1. CASE \E f \in queued : Expire(f)
  BY <1>1 DEF Expire, lockVars
<1>2. ASSUME NEW t \in Remover,
             Disable(t) \/ ClearQueues(t) \/ Unlist(t) \/ AddInterface(t)
      PROVE  /\ queued' \subseteq queued /\ pending' \subseteq pending
             /\ UNCHANGED <<cmdVars, bufVars, bhVars, wakeup, fwVars, rxVars,
                            tx_lock, pc, restart, halted, histVars>>
  BY <1>2 DEF Disable, ClearQueues, Unlist, AddInterface, SetIface
<1> QED BY <1>1, <1>2 DEF Interfaces

LEMMA InitTypes ==
  ASSUME Init
  PROVE  Types
<1>1. Numbers
  BY FrameAssumption DEF Init, Numbers
<1>2. Kinds
  BY DEF Init, Kinds, Packet, Vif, Places, LockerPlaces, Busy
<1>3. Flags
  BY DEF Init, Flags
<1>4. Ifaces
  BY DEF Init, Ifaces, IfaceStates
<1> QED BY <1>1, <1>2, <1>3, <1>4 DEF Types

LEMMA CreditsType ==
  ASSUME Kinds
  PROVE  InChannel \in Nat /\ Credits \in Int
BY FinitePackets, FrameAssumption DEF Kinds, InChannel, Credits

LEMMA NumbersStep ==
  ASSUME Types, Next
  PROVE  Numbers'
<1> USE FrameAssumption, DistinctAssumption
    DEF Types, Numbers, Packet, Vif
<1>c. Credits \in Int
  BY CreditsType
<1>0. hw_bufs_used_vif \in [Vif -> Int] /\ VifOf \in [Frame -> Vif]
  BY DEF Types, Numbers
<1>1. \A p : VifUsed(p, 1) \in [Vif -> Int] /\ VifUsed(p, -1) \in [Vif -> Int]
  BY <1>0 DEF VifUsed
<1> HIDE DEF Vif
<1>2. CASE \E f \in Frame : Enqueue(f)
  BY <1>2 DEF Enqueue, bufVars, lockVars, histVars
<1>3. CASE CmdSend
  BY <1>3 DEF CmdSend, bufVars, lockVars, histVars
<1>4. CASE Bh \/ BhNoSpace \/ BhWriteFails
  BY <1>4, <1>1, <1>c
     DEF Bh, BhNoSpace, BhWriteFails, BhWake, BhSpace, BhSelect, BhCheck,
         BhPickNone, BhNotEnabled, BhGetFails, BhFind, BhPick, BhDrop, BhAlloc,
         BhAccount, BhKeep, BhFreeVif,
         BhFreeBuf, BhRemove, BhWrite, BhTerm, LoseBatch, ForceFree,
         bufVars, lockVars, histVars
<1>5. CASE Firmware
  BY <1>5, <1>1
     DEF Firmware, FwXmit, RxAnswer, Release, RxCmd, RxVif, RxFrame,
         bufVars, lockVars, histVars
<1>6. ASSUME NEW t \in Locker,
             \/ LockAsync(t) \/ Flush(t)
             \/ LockSync(t, "sync") \/ LockSync(t, "vif")
             \/ SyncFlush(t) \/ VifFlush(t)
             \/ FlushDone(t) \/ FlushTimeout(t) \/ Unlock(t)
      PROVE  Numbers'
  BY <1>6
     DEF LockAsync, Flush, LockSync, SyncFlush, VifFlush, FlushDone,
         FlushTimeout, Unlock, Lower, bufVars, histVars
<1>7. CASE RestartLock \/ RestartReset \/ RestartUnlock
  BY <1>7
     DEF RestartLock, RestartReset, RestartUnlock, ResetBuffers, Lower,
         bufVars, histVars, Vif
<1>i. CASE (\E f \in queued : Expire(f)) \/ Interfaces
  BY <1>i, InterfaceStep DEF bufVars, histVars
<1> QED BY <1>i, <1>2, <1>3, <1>4, <1>5, <1>6, <1>7 DEF Next

LEMMA FlagsStep ==
  ASSUME Types, Next
  PROVE  Flags'
<1> USE DEF Types, Flags
<1>2. CASE \E f \in Frame : Enqueue(f)
  BY <1>2 DEF Enqueue, bhVars, selVars, histVars
<1>3. CASE CmdSend
  BY <1>3 DEF CmdSend, bhVars, selVars, histVars
<1>4. CASE Bh \/ BhNoSpace \/ BhWriteFails
  BY <1>4
     DEF Bh, BhNoSpace, BhWriteFails, BhWake, BhSpace, BhSelect, BhCheck,
         BhPickNone, BhNotEnabled, BhGetFails, BhFind, BhPick, BhDrop, BhAlloc,
         BhAccount, BhKeep, BhFreeVif,
         BhFreeBuf, BhRemove, BhWrite, BhTerm, LoseBatch, EndOfBatch,
         bhVars, selVars, histVars
<1>5. CASE Firmware
  BY <1>5
     DEF Firmware, FwXmit, RxAnswer, Release, RxCmd, RxVif, RxFrame,
         bhVars, selVars, histVars
<1>6. ASSUME NEW t \in Locker,
             \/ LockAsync(t) \/ Flush(t)
             \/ LockSync(t, "sync") \/ LockSync(t, "vif")
             \/ SyncFlush(t) \/ VifFlush(t)
             \/ FlushDone(t) \/ FlushTimeout(t) \/ Unlock(t)
      PROVE  Flags'
  BY <1>6
     DEF LockAsync, Flush, LockSync, SyncFlush, VifFlush, FlushDone,
         FlushTimeout, Unlock, Lower, bhVars, selVars, histVars
<1>7. CASE RestartLock \/ RestartReset \/ RestartUnlock
  BY <1>7
     DEF RestartLock, RestartReset, RestartUnlock, Lower, bhVars, selVars,
         histVars
<1>i. CASE (\E f \in queued : Expire(f)) \/ Interfaces
  BY <1>i, InterfaceStep DEF bhVars, selVars
<1> QED BY <1>i, <1>2, <1>3, <1>4, <1>5, <1>6, <1>7 DEF Next

LEMMA KindsStep ==
  ASSUME Types, Next
  PROVE  Kinds'
<1> USE FrameAssumption DEF Types, Kinds, Places, Busy
<1>2. CASE \E f \in Frame : Enqueue(f)
  BY <1>2 DEF Enqueue, cmdVars, bhVars, selVars, fwVars, rxVars, lockVars
<1>3. CASE CmdSend
  BY <1>3 DEF CmdSend, bhVars, selVars, fwVars, rxVars, lockVars
<1>4. CASE Bh \/ BhNoSpace \/ BhWriteFails
  <2> USE DEF cmdVars, bhVars, selVars, fwVars, rxVars, lockVars, Packet
  <2>1. CASE BhWake \/ BhSpace \/ BhSelect \/ BhNoSpace
    BY <2>1 DEF BhWake, BhSpace, BhSelect, BhNoSpace
  <2>2. CASE \/ BhCheck \/ BhPickNone \/ BhNotEnabled \/ BhGetFails
             \/ BhDrop \/ \E f \in Frame : BhFind(f) \/ BhPick(f)
    <3>1. 1 - if_id_selected \in Vif
      BY DEF Vif
    <3> QED BY <2>2, <3>1 DEF BhCheck, BhPickNone, BhNotEnabled, BhGetFails,
                              BhDrop, BhFind, BhPick, EndOfBatch
  <2>3. CASE BhAlloc \/ BhAccount \/ BhFreeVif \/ BhFreeBuf \/ BhRemove
    BY <2>3 DEF BhAlloc, BhAccount, BhFreeVif, BhFreeBuf, BhRemove
  <2>4. CASE BhKeep \/ BhWrite
    BY <2>4 DEF BhKeep, BhWrite
  <2>5. CASE BhTerm \/ BhWriteFails
    BY <2>5 DEF BhTerm, BhWriteFails, LoseBatch, ForceFree, CmdDone
  <2> QED BY <1>4, <2>1, <2>2, <2>3, <2>4, <2>5 DEF Bh
<1>5. CASE Firmware
  BY <1>5
     DEF Firmware, FwXmit, RxAnswer, RxCmd, RxVif, RxFrame, CmdDone, cmdVars,
         bhVars, selVars, fwVars, rxVars, lockVars
<1>6. ASSUME NEW t \in Locker,
             \/ LockAsync(t) \/ Flush(t)
             \/ LockSync(t, "sync") \/ LockSync(t, "vif")
             \/ SyncFlush(t) \/ VifFlush(t)
             \/ FlushDone(t) \/ FlushTimeout(t) \/ Unlock(t)
      PROVE  Kinds'
  BY <1>6
     DEF LockAsync, Flush, LockSync, SyncFlush, VifFlush, FlushDone,
         FlushTimeout, Unlock, StartFlush, MoveTo, LockerPlaces, cmdVars,
         bhVars, selVars, fwVars, rxVars
<1>7. CASE RestartLock \/ RestartReset \/ RestartUnlock
  BY <1>7
     DEF RestartLock, RestartReset, RestartUnlock, cmdVars, bhVars, selVars,
         fwVars, rxVars
<1>i. CASE (\E f \in queued : Expire(f)) \/ Interfaces
  BY <1>i, InterfaceStep DEF cmdVars, bhVars, selVars, fwVars, rxVars
<1> QED BY <1>i, <1>2, <1>3, <1>4, <1>5, <1>6, <1>7 DEF Next

LEMMA IfacesStep ==
  ASSUME Types, Next
  PROVE  Ifaces'
<1> USE FrameAssumption, DistinctAssumption DEF Types, Ifaces
<1>v. Looked \in Vif /\ 1 - Looked \in Vif
  BY DEF Looked, Vif, Kinds
<1>1. CASE UNCHANGED <<iface, left, found>>
  BY <1>1
<1>2. CASE (\E f \in Frame : Enqueue(f)) \/ CmdSend \/ Firmware
           \/ BhNoSpace \/ BhWriteFails
  BY <1>2, <1>1
     DEF Enqueue, CmdSend, Firmware, FwXmit, RxAnswer, RxCmd, RxVif, RxFrame,
         BhNoSpace, BhWriteFails, LoseBatch, bhVars, selVars, lockVars,
         histVars
<1>3. CASE Bh
  BY <1>3, <1>v
     DEF Bh, BhWake, BhSpace, BhSelect, BhCheck, BhPickNone, BhNotEnabled,
         BhGetFails, BhFind, BhPick, BhDrop, BhAlloc, BhAccount, BhKeep,
         BhFreeVif, BhFreeBuf, BhRemove, BhWrite, BhTerm, LoseBatch, bhVars,
         selVars, lockVars, histVars
<1>4. ASSUME NEW t \in Locker,
             \/ LockAsync(t) \/ Flush(t)
             \/ LockSync(t, "sync") \/ LockSync(t, "vif")
             \/ SyncFlush(t) \/ VifFlush(t)
             \/ FlushDone(t) \/ FlushTimeout(t) \/ Unlock(t)
      PROVE  Ifaces'
  BY <1>4, <1>1
     DEF LockAsync, Flush, LockSync, SyncFlush, VifFlush, FlushDone,
         FlushTimeout, Unlock, bhVars, selVars, histVars
<1>5. CASE RestartLock \/ RestartReset \/ RestartUnlock
  BY <1>5, <1>1
     DEF RestartLock, RestartReset, RestartUnlock, bhVars, selVars, histVars
<1>6. CASE (\E f \in queued : Expire(f)) \/ Interfaces
  <2>1. UNCHANGED <<left, found>>
    BY <1>6, InterfaceStep DEF bhVars, selVars, histVars
  <2>2. iface' \in [Vif -> IfaceStates]
    BY <1>6
       DEF Expire, Interfaces, Disable, ClearQueues, Unlist, AddInterface,
           SetIface, IfaceStates, lockVars
  <2> QED BY <2>1, <2>2
<1> QED BY <1>2, <1>3, <1>4, <1>5, <1>6 DEF Next

LEMMA TypesInductive ==
  ASSUME Types, [Next]_vars
  PROVE  Types'
<1>1. CASE Next
  BY <1>1, NumbersStep, FlagsStep, KindsStep, IfacesStep DEF Types
<1>2. CASE UNCHANGED vars
  BY <1>2 DEF vars, Types, Numbers, Kinds, Flags, Ifaces, cmdVars, bufVars,
              bhVars,
          selVars, fwVars, rxVars, lockVars, histVars
<1> QED BY <1>1, <1>2

-----------------------------------------------------------------------------
(* tx_lock counts its holders.                                             *)

Holders == {t \in Locker : pc[t] # "idle"}

LockCount == tx_lock = Cardinality(Holders) + (IF restart = "no" THEN 0 ELSE 1)

LEMMA FiniteHolders == IsFiniteSet(Holders) /\ Cardinality(Holders) \in Nat
<1>1. Holders \in SUBSET Locker
  BY DEF Holders
<1> QED BY <1>1, DistinctAssumption, FS_Subset, FS_CardinalityType

LEMMA LockCountInductive ==
  ASSUME Types, LockCount, [Next]_vars
  PROVE  LockCount'
<1> USE DEF LockCount
<1>p. pc \in [Locker -> LockerPlaces] /\ tx_lock \in Int
  BY DEF Types, Kinds, Numbers
<1>n. IsFiniteSet(Holders) /\ Cardinality(Holders) \in Nat
  BY FiniteHolders
<1>1. CASE UNCHANGED lockVars
  <2>1. Holders' = Holders
    BY <1>1 DEF lockVars, Holders
  <2> QED BY <1>1, <2>1 DEF lockVars
<1>2. ASSUME NEW t \in Locker, LockAsync(t) \/ LockSync(t, "sync")
                               \/ LockSync(t, "vif")
      PROVE  LockCount'
  <2>1. t \notin Holders /\ Holders' = Holders \cup {t}
    BY <1>2, <1>p DEF LockAsync, LockSync, MoveTo, Holders, LockerPlaces
  <2>2. tx_lock' = tx_lock + 1 /\ restart' = restart
    BY <1>2 DEF LockAsync, LockSync
  <2>3. Cardinality(Holders \cup {t}) = Cardinality(Holders) + 1
    BY <1>n, <2>1, CountAdd
  <2> QED BY <1>n, <2>1, <2>2, <2>3
<1>3. ASSUME NEW t \in Locker,
             \/ Flush(t) \/ SyncFlush(t) \/ VifFlush(t)
             \/ FlushDone(t) \/ FlushTimeout(t)
      PROVE  LockCount'
  <2>1. Holders' = Holders
    BY <1>3, <1>p DEF Flush, SyncFlush, VifFlush, FlushDone, FlushTimeout,
                      Drained, StartFlush, MoveTo, Holders
  <2>2. tx_lock' = tx_lock /\ restart' = restart
    BY <1>3 DEF Flush, SyncFlush, VifFlush, FlushDone, FlushTimeout
  <2> QED BY <2>1, <2>2
<1>4. ASSUME NEW t \in Locker, Unlock(t)
      PROVE  LockCount'
  <2>1. t \in Holders /\ Holders' = Holders \ {t}
    BY <1>4, <1>p DEF Unlock, MoveTo, Holders
  <2>2. tx_lock' = tx_lock - 1 /\ restart' = restart
    BY <1>4 DEF Unlock, Lower
  <2>3. Cardinality(Holders \ {t}) = Cardinality(Holders) - 1
    BY <1>n, <2>1, CountRemove
  <2> QED BY <1>n, <2>1, <2>2, <2>3
<1>5. CASE RestartLock \/ RestartReset \/ RestartUnlock
  <2>1. Holders' = Holders
    BY <1>5 DEF RestartLock, RestartReset, RestartUnlock, Holders
  <2> QED BY <1>5, <1>n, <2>1 DEF RestartLock, RestartReset, RestartUnlock,
                                  Lower
<1>6. CASE \E f \in Frame : Enqueue(f)
  BY <1>6, <1>1 DEF Enqueue
<1>7. CASE CmdSend
  BY <1>7, <1>1 DEF CmdSend
<1>8. CASE Bh \/ BhNoSpace \/ BhWriteFails
  <2>1. UNCHANGED lockVars
    BY <1>8
       DEF Bh, BhNoSpace, BhWriteFails, BhWake, BhSpace, BhSelect, BhCheck,
           BhPickNone, BhNotEnabled, BhGetFails, BhFind, BhPick, BhDrop,
           BhAlloc, BhAccount, BhKeep, BhFreeVif,
           BhFreeBuf, BhRemove, BhWrite, BhTerm, LoseBatch
  <2> QED BY <2>1, <1>1
<1>9. CASE Firmware
  <2>1. UNCHANGED lockVars
    BY <1>9 DEF Firmware, FwXmit, RxAnswer, RxCmd, RxVif, RxFrame
  <2> QED BY <2>1, <1>1
<1>10. CASE UNCHANGED vars
  BY <1>10, <1>1 DEF vars
<1>i. CASE (\E f \in queued : Expire(f)) \/ Interfaces
  <2>1. UNCHANGED <<tx_lock, pc, restart>> /\ Holders' = Holders
    BY <1>i, InterfaceStep DEF Holders
  <2> QED BY <2>1
<1> QED BY <1>i, <1>2, <1>3, <1>4, <1>5, <1>6, <1>7, <1>8, <1>9, <1>10 DEF Next

LEMMA LockIsNat ==
  ASSUME LockCount
  PROVE  /\ tx_lock \in Nat
         /\ \A t \in Locker : pc[t] # "idle" => tx_lock > 0
         /\ restart # "no" => tx_lock > 0
<1>1. IsFiniteSet(Holders) /\ Cardinality(Holders) \in Nat
  BY FiniteHolders
<1>2. ASSUME NEW t \in Locker, pc[t] # "idle"
      PROVE  Cardinality(Holders) > 0
  BY <1>1, <1>2, FS_EmptySet DEF Holders
<1> QED BY <1>1, <1>2 DEF LockCount

-----------------------------------------------------------------------------
(* One frame is late at most.                                              *)

\* A frame counted under the lock was picked, at the latest, when the lock was
\* raised: there is no second one.
LateInv ==
  /\ late \in {0, 1}
  /\ tx_lock = 0 => late = 0
  /\ late = 1 =>
       bhpc \notin {"pick", "get"} /\ ~(bhpc = "got" /\ cur \in Frame)

LEMMA LateInductive ==
  ASSUME Types, LockCount, LateInv, [Next]_vars
  PROVE  LateInv'
<1> USE DEF LateInv
<1>n. tx_lock \in Nat
  BY LockIsNat
<1>1. CASE \E f \in Frame : Enqueue(f)
  BY <1>1 DEF Enqueue, bhVars, lockVars, histVars
<1>2. CASE CmdSend
  BY <1>2 DEF CmdSend, bhVars, lockVars, histVars
<1>3. CASE BhWake \/ BhSpace \/ BhNoSpace
  BY <1>3 DEF BhWake, BhSpace, BhNoSpace, bhVars, lockVars, histVars
<1>4. CASE BhSelect
  BY <1>4, DistinctAssumption DEF BhSelect, lockVars, histVars
<1>5. CASE \/ BhCheck \/ BhPickNone \/ BhNotEnabled \/ BhGetFails
           \/ \E f \in Frame : BhFind(f) \/ BhPick(f)
  BY <1>5
     DEF BhCheck, BhPickNone, BhNotEnabled, BhGetFails, BhFind, BhPick,
         EndOfBatch, Passes, lockVars, histVars
<1>6. CASE BhDrop \/ BhAlloc
  BY <1>6, <1>n DEF BhDrop, BhAlloc, lockVars
<1>7. CASE BhAccount \/ BhKeep \/ BhFreeVif \/ BhFreeBuf \/ BhRemove
  BY <1>7 DEF BhAccount, BhKeep, BhFreeVif, BhFreeBuf, BhRemove, lockVars,
              histVars
<1>8. CASE BhWrite \/ BhTerm \/ BhWriteFails
  BY <1>8 DEF BhWrite, BhTerm, BhWriteFails, LoseBatch, lockVars, histVars
<1>9. CASE Firmware
  BY <1>9 DEF Firmware, FwXmit, RxAnswer, RxCmd, RxVif, RxFrame, bhVars,
              lockVars, histVars
<1>10. ASSUME NEW t \in Locker,
              \/ LockAsync(t) \/ Flush(t)
              \/ LockSync(t, "sync") \/ LockSync(t, "vif")
              \/ SyncFlush(t) \/ VifFlush(t)
              \/ FlushDone(t) \/ FlushTimeout(t) \/ Unlock(t)
       PROVE  LateInv'
  BY <1>10, <1>n
     DEF LockAsync, Flush, LockSync, SyncFlush, VifFlush, FlushDone,
         FlushTimeout, Unlock, Lower, bhVars, histVars
<1>11. CASE RestartLock \/ RestartReset \/ RestartUnlock
  BY <1>11, <1>n DEF RestartLock, RestartReset, RestartUnlock, Lower, bhVars,
                     histVars
<1>12. CASE UNCHANGED vars
  BY <1>12 DEF vars, bhVars, lockVars, histVars
<1>i. CASE (\E f \in queued : Expire(f)) \/ Interfaces
  BY <1>i, InterfaceStep DEF bhVars, histVars
<1> QED BY <1>i, <1>1, <1>2, <1>3, <1>4, <1>5, <1>6, <1>7, <1>8, <1>9, <1>10,
           <1>11,
           <1>12 DEF Next, Bh

-----------------------------------------------------------------------------
(* A packet is in one place.                                               *)

\* Queued, in the hands of the transmit thread, the last of a batch, owed an
\* answer, having its answer handled: no two of these at once.
OnePlace ==
  /\ bhpc \in {"free", "remove"} => cur \in Frame
  /\ bhpc = "copied" => cur \in xmit_buff
  /\ need_confirm # None => bhpc = "write" /\ need_confirm \in xmit_buff
  /\ rxpc = "idle" <=> rxcur = None
  /\ rxpc = "cmd" <=> rxcur = Cmd
  /\ queued \cap owed = {}
  /\ \A p \in {cur, need_confirm, rxcur} : p \notin queued \cup owed
  /\ cur # None => cur # rxcur
  /\ need_confirm # None => need_confirm # rxcur
  /\ cmd = "posted" => Cmd \notin owed \cup {need_confirm, rxcur}

LEMMA OnePlaceInductive ==
  ASSUME Types, OnePlace, [Next]_vars
  PROVE  OnePlace'
<1> USE DEF OnePlace
<1>k. Kinds
  BY DEF Types
<1>d. /\ Cmd # None /\ Cmd \notin Frame /\ None \notin Frame
      /\ NeedConfirm \subseteq Frame
  BY DistinctAssumption, FrameAssumption
<1>1. CASE \E f \in Frame : Enqueue(f)
  BY <1>1, <1>k, <1>d DEF Enqueue, Kinds, cmdVars, bhVars, selVars, fwVars,
                          rxVars
<1>2. CASE CmdSend
  BY <1>2, <1>k, <1>d DEF CmdSend, Kinds, bhVars, selVars, fwVars, rxVars
<1>3. CASE BhWake \/ BhSpace \/ BhNoSpace
  BY <1>3, <1>k DEF BhWake, BhSpace, BhNoSpace, Kinds, cmdVars, bhVars, fwVars,
                    rxVars
<1>4. CASE BhSelect
  BY <1>4, <1>k, <1>d DEF BhSelect, Kinds, Busy, cmdVars, fwVars, rxVars
<1>5. CASE BhCheck \/ BhPickNone \/ BhNotEnabled \/ BhGetFails \/ BhDrop
  BY <1>5, <1>k, <1>d DEF BhCheck, BhPickNone, BhNotEnabled, BhGetFails,
                          BhDrop, EndOfBatch, Kinds, Busy,
                    cmdVars, fwVars, rxVars
<1>6. ASSUME NEW f \in Frame, BhFind(f) \/ BhPick(f)
      PROVE  OnePlace'
  BY <1>6, <1>k, <1>d DEF BhFind, BhPick, Candidates, Kinds, Busy, cmdVars,
                          fwVars,
                          rxVars
<1>7. CASE BhAlloc \/ BhAccount \/ BhFreeVif \/ BhFreeBuf
  BY <1>7, <1>k, <1>d DEF BhAlloc, BhAccount, BhFreeVif, BhFreeBuf, Kinds,
                          Busy,
                    cmdVars, fwVars, rxVars
<1>8. CASE BhRemove
  BY <1>8, <1>k, <1>d DEF BhRemove, Kinds, Busy, cmdVars, fwVars, rxVars
<1>9. CASE BhKeep
  BY <1>9, <1>k, <1>d DEF BhKeep, Kinds, Busy, fwVars, rxVars
<1>10. CASE BhWrite
  BY <1>10, <1>k, <1>d DEF BhWrite, Kinds, Busy, cmdVars, rxVars
<1>11. CASE BhTerm \/ BhWriteFails
  BY <1>11, <1>k, <1>d DEF BhTerm, BhWriteFails, LoseBatch, ForceFree, CmdDone,
                           Kinds, Busy, cmdVars, fwVars, rxVars
<1>12. CASE Firmware
  <2>1. CASE \E p \in lmc : FwXmit(p)
    BY <2>1 DEF FwXmit, cmdVars, bhVars, rxVars
  <2>2. ASSUME NEW p \in owed, RxAnswer(p)
        PROVE  OnePlace'
    BY <2>2, <1>k, <1>d DEF RxAnswer, Kinds, cmdVars, bhVars
  <2>3. CASE RxCmd \/ RxVif \/ RxFrame
    BY <2>3, <1>k, <1>d DEF RxCmd, RxVif, RxFrame, CmdDone, Kinds, cmdVars,
                            bhVars,
                      fwVars
  <2> QED BY <1>12, <2>1, <2>2, <2>3 DEF Firmware
<1>13. ASSUME NEW t \in Locker,
              \/ LockAsync(t) \/ Flush(t)
              \/ LockSync(t, "sync") \/ LockSync(t, "vif")
              \/ SyncFlush(t) \/ VifFlush(t)
              \/ FlushDone(t) \/ FlushTimeout(t) \/ Unlock(t)
       PROVE  OnePlace'
  BY <1>13
     DEF LockAsync, Flush, LockSync, SyncFlush, VifFlush, FlushDone,
         FlushTimeout, Unlock, cmdVars, bhVars, fwVars, rxVars
<1>14. CASE RestartLock \/ RestartUnlock
  BY <1>14 DEF RestartLock, RestartUnlock, cmdVars, bhVars, fwVars, rxVars
<1>15. CASE RestartReset
  BY <1>15, <1>k, <1>d DEF RestartReset, Kinds, Busy, bhVars, rxVars
<1>16. CASE UNCHANGED vars
  BY <1>16 DEF vars, cmdVars, bhVars, fwVars, rxVars
<1>i. CASE (\E f \in queued : Expire(f)) \/ Interfaces
  BY <1>i, InterfaceStep DEF cmdVars, bhVars, fwVars, rxVars
<1> QED BY <1>i, <1>1, <1>2, <1>3, <1>4, <1>5, <1>6, <1>7, <1>8, <1>9, <1>10,
           <1>11,
           <1>12, <1>13, <1>14, <1>15, <1>16 DEF Next, Bh

-----------------------------------------------------------------------------
(* One frame at most overtakes a command.                                  *)

CommandInv ==
  /\ Cmd \in owed \cup {need_confirm, rxcur} => cmd = "running"
  /\ cur = Cmd => cmd = "posted"
  /\ cmd # "posted" => overtaken = 0
  /\ overtaken \in {0, 1}
  /\ overtaken = 1 => /\ bhpc \notin {"check", "pick", "get"}
                     /\ ~(bhpc = "got" /\ cur \in Frame)

LEMMA CommandInductive ==
  ASSUME Types, OnePlace, CommandInv, [Next]_vars
  PROVE  CommandInv'
<1> USE DEF CommandInv
<1>k. Kinds
  BY DEF Types
<1>d. /\ Cmd # None /\ Cmd \notin Frame /\ None \notin Frame
      /\ NeedConfirm \subseteq Frame
  BY DistinctAssumption, FrameAssumption
<1>1. CASE \E f \in Frame : Enqueue(f)
  BY <1>1 DEF Enqueue, cmdVars, bhVars, fwVars, rxVars, histVars
<1>2. CASE CmdSend
  BY <1>2, <1>k, <1>d DEF CmdSend, OnePlace, Kinds, bhVars, fwVars, rxVars,
                          histVars
<1>3. CASE BhWake \/ BhSpace \/ BhNoSpace
  BY <1>3 DEF BhWake, BhSpace, BhNoSpace, cmdVars, bhVars, fwVars, rxVars,
              histVars
<1>4. CASE BhSelect
  BY <1>4, <1>k, <1>d DEF BhSelect, Kinds, Busy, cmdVars, fwVars, rxVars,
                          histVars
<1>5. CASE BhCheck \/ BhPickNone \/ BhNotEnabled \/ BhGetFails
  BY <1>5 DEF BhCheck, BhPickNone, BhNotEnabled, BhGetFails, EndOfBatch,
              cmdVars, fwVars, rxVars, histVars
<1>6. CASE BhDrop
  BY <1>6, <1>d DEF BhDrop, cmdVars, fwVars, rxVars
<1>7. ASSUME NEW f \in Frame, BhFind(f) \/ BhPick(f)
      PROVE  CommandInv'
  BY <1>7, <1>d DEF BhFind, BhPick, cmdVars, fwVars, rxVars, histVars
<1>8. CASE BhAlloc
  BY <1>8, <1>d DEF BhAlloc, cmdVars, fwVars, rxVars
<1>9. CASE BhAccount \/ BhFreeVif \/ BhFreeBuf \/ BhRemove
  BY <1>9, <1>d DEF BhAccount, BhFreeVif, BhFreeBuf, BhRemove, cmdVars, fwVars,
                    rxVars, histVars
<1>10. CASE BhKeep
  BY <1>10, <1>k, <1>d DEF BhKeep, OnePlace, Kinds, Busy, fwVars, rxVars
<1>11. CASE BhWrite
  BY <1>11, <1>d DEF BhWrite, cmdVars, rxVars, histVars
<1>12. CASE BhTerm \/ BhWriteFails
  BY <1>12, <1>k, <1>d DEF BhTerm, BhWriteFails, LoseBatch, ForceFree, CmdDone,
       OnePlace, Kinds, Busy, cmdVars, fwVars, rxVars, histVars
<1>13. CASE Firmware
  <2>1. CASE \E p \in lmc : FwXmit(p)
    BY <2>1 DEF FwXmit, cmdVars, bhVars, rxVars, histVars
  <2>2. ASSUME NEW p \in owed, RxAnswer(p)
        PROVE  CommandInv'
    BY <2>2 DEF RxAnswer, cmdVars, bhVars, histVars
  <2>3. CASE RxCmd
    BY <2>3, <1>k, <1>d DEF RxCmd, CmdDone, OnePlace, Kinds, bhVars, fwVars,
                            histVars
  <2>4. CASE RxVif \/ RxFrame
    BY <2>4, <1>d DEF RxVif, RxFrame, cmdVars, bhVars, fwVars, histVars
  <2> QED BY <1>13, <2>1, <2>2, <2>3, <2>4 DEF Firmware
<1>14. ASSUME NEW t \in Locker,
              \/ LockAsync(t) \/ Flush(t)
              \/ LockSync(t, "sync") \/ LockSync(t, "vif")
              \/ SyncFlush(t) \/ VifFlush(t)
              \/ FlushDone(t) \/ FlushTimeout(t) \/ Unlock(t)
       PROVE  CommandInv'
  BY <1>14
     DEF LockAsync, Flush, LockSync, SyncFlush, VifFlush, FlushDone,
         FlushTimeout, Unlock, cmdVars, bhVars, fwVars, rxVars, histVars
<1>15. CASE RestartLock \/ RestartUnlock
  BY <1>15 DEF RestartLock, RestartUnlock, cmdVars, bhVars, fwVars, rxVars,
               histVars
<1>16. CASE RestartReset
  BY <1>16, <1>k, <1>d DEF RestartReset, OnePlace, Kinds, Busy, bhVars, rxVars,
                           histVars
<1>17. CASE UNCHANGED vars
  BY <1>17 DEF vars, cmdVars, bhVars, fwVars, rxVars, histVars
<1>i. CASE (\E f \in queued : Expire(f)) \/ Interfaces
  BY <1>i, InterfaceStep DEF cmdVars, bhVars, fwVars, rxVars, histVars
<1> QED BY <1>i, <1>1, <1>2, <1>3, <1>4, <1>5, <1>6, <1>7, <1>8, <1>9, <1>10,
           <1>11,
           <1>12, <1>13, <1>14, <1>15, <1>16, <1>17 DEF Next, Bh

-----------------------------------------------------------------------------
(* The buffers in use are counted exactly.                                 *)

Held == owed \cup BhHolds
HeldVif == owed \cup BhHoldsVif \cup (IF rxpc = "vif" THEN {rxcur} ELSE {})
OnVif(S, v) == {p \in S \cap Frame : VifOf[p] = v}

UsedExact == hw_bufs_used = Cardinality(Held)
VifExact == \A v \in Vif : hw_bufs_used_vif[v] = Cardinality(OnVif(HeldVif, v))

LEMMA ExactParts == BuffersExact <=> UsedExact /\ VifExact
BY DEF BuffersExact, UsedExact, VifExact, Held, HeldVif, OnVif

LEMMA HeldPackets ==
  ASSUME Kinds, OnePlace
  PROVE  /\ Held \subseteq Packet /\ HeldVif \subseteq Packet
         /\ IsFiniteSet(Held) /\ Cardinality(Held) \in Nat
<1>1. Held \subseteq Packet /\ HeldVif \subseteq Packet
  BY FrameAssumption, DistinctAssumption
     DEF Held, HeldVif, BhHolds, BhHoldsVif, Kinds, OnePlace, Busy, Packet
<1> QED BY <1>1, FinitePackets

\* The counters of the interfaces follow one packet more, and one less.
LEMMA VifAdd ==
  ASSUME NEW n \in [Vif -> Int], n = hw_bufs_used_vif,
         NEW S \in SUBSET Packet, NEW p \in Packet \ S,
         \A v \in Vif : n[v] = Cardinality(OnVif(S, v))
  PROVE  \A v \in Vif : VifUsed(p, 1)[v] = Cardinality(OnVif(S \cup {p}, v))
<1> SUFFICES ASSUME NEW v \in Vif
             PROVE  VifUsed(p, 1)[v] = Cardinality(OnVif(S \cup {p}, v))
  OBVIOUS
<1>1. IsFiniteSet(OnVif(S, v)) /\ Cardinality(OnVif(S, v)) \in Nat
  <2>1. OnVif(S, v) \in SUBSET Packet
    BY DEF OnVif, Packet
  <2> QED BY <2>1, FinitePackets
<1>2. CASE p \in Frame /\ VifOf[p] = v
  <2>1. OnVif(S \cup {p}, v) = OnVif(S, v) \cup {p} /\ p \notin OnVif(S, v)
    BY <1>2 DEF OnVif
  <2>2. VifUsed(p, 1)[v] = n[v] + 1
    BY <1>2 DEF VifUsed
  <2> QED BY <1>1, <2>1, <2>2, CountAdd
<1>3. CASE ~(p \in Frame /\ VifOf[p] = v)
  <2>1. OnVif(S \cup {p}, v) = OnVif(S, v)
    BY <1>3 DEF OnVif
  <2>2. VifUsed(p, 1)[v] = n[v]
    BY <1>3, FrameAssumption DEF VifUsed
  <2> QED BY <2>1, <2>2
<1> QED BY <1>2, <1>3

LEMMA VifRemove ==
  ASSUME NEW n \in [Vif -> Int], n = hw_bufs_used_vif,
         NEW S \in SUBSET Packet, NEW p \in S,
         \A v \in Vif : n[v] = Cardinality(OnVif(S, v))
  PROVE  \A v \in Vif : VifUsed(p, -1)[v] = Cardinality(OnVif(S \ {p}, v))
<1> SUFFICES ASSUME NEW v \in Vif
             PROVE  VifUsed(p, -1)[v] = Cardinality(OnVif(S \ {p}, v))
  OBVIOUS
<1>1. IsFiniteSet(OnVif(S, v)) /\ Cardinality(OnVif(S, v)) \in Nat
  <2>1. OnVif(S, v) \in SUBSET Packet
    BY DEF OnVif, Packet
  <2> QED BY <2>1, FinitePackets
<1>2. CASE p \in Frame /\ VifOf[p] = v
  <2>1. OnVif(S \ {p}, v) = OnVif(S, v) \ {p} /\ p \in OnVif(S, v)
    BY <1>2 DEF OnVif
  <2>2. VifUsed(p, -1)[v] = n[v] - 1
    BY <1>2 DEF VifUsed
  <2> QED BY <1>1, <2>1, <2>2, CountRemove
<1>3. CASE ~(p \in Frame /\ VifOf[p] = v)
  <2>1. OnVif(S \ {p}, v) = OnVif(S, v)
    BY <1>3 DEF OnVif
  <2>2. VifUsed(p, -1)[v] = n[v]
    BY <1>3, FrameAssumption DEF VifUsed
  <2> QED BY <2>1, <2>2
<1> QED BY <1>2, <1>3

\* Nothing is counted or given back.
LEMMA SameBuffers ==
  ASSUME UsedExact, VifExact, UNCHANGED <<hw_bufs_used, hw_bufs_used_vif>>,
         Held' = Held, HeldVif' = HeldVif
  PROVE  UsedExact' /\ VifExact'
BY DEF UsedExact, VifExact, OnVif

LEMMA BuffersInductive ==
  ASSUME Types, OnePlace, UsedExact, VifExact, [Next]_vars
  PROVE  UsedExact' /\ VifExact'
<1>k. Kinds
  BY DEF Types
<1>d. /\ Cmd # None /\ Cmd \notin Frame /\ None \notin Frame
      /\ NeedConfirm \subseteq Frame
  BY DistinctAssumption, FrameAssumption
<1>h. /\ Held \in SUBSET Packet /\ HeldVif \in SUBSET Packet
      /\ IsFiniteSet(Held) /\ Cardinality(Held) \in Nat
  BY <1>k, HeldPackets
<1>n. hw_bufs_used_vif \in [Vif -> Int] /\ hw_bufs_used \in Int
  BY DEF Types, Numbers
<1> USE DEF BhHolds, BhHoldsVif
\* The transmit thread has no packet it counts, before and after.
<1>1. CASE \/ BhWake \/ BhSpace \/ BhSelect \/ BhCheck \/ BhPickNone
           \/ BhNotEnabled \/ BhGetFails \/ BhDrop \/ BhRemove
           \/ \E f \in Frame : BhFind(f) \/ BhPick(f)
  <2>1. Held' = Held /\ HeldVif' = HeldVif
    BY <1>1, <1>k
       DEF BhWake, BhSpace, BhSelect, BhCheck, BhPickNone, BhNotEnabled,
           BhGetFails, BhDrop, BhRemove,
           BhFind, BhPick, EndOfBatch, Held, HeldVif, fwVars, rxVars, Kinds,
           OnePlace
  <2>2. UNCHANGED <<hw_bufs_used, hw_bufs_used_vif>>
    BY <1>1
       DEF BhWake, BhSpace, BhSelect, BhCheck, BhPickNone, BhNotEnabled,
           BhGetFails, BhDrop, BhRemove,
           BhFind, BhPick, bufVars
  <2> QED BY <2>1, <2>2, SameBuffers
<1>2. CASE BhAlloc
  <2>1. /\ Held' = Held \cup {cur} /\ HeldVif' = HeldVif
        /\ cur \notin Held
    BY <1>2, <1>k, <1>d
       DEF BhAlloc, Held, HeldVif, fwVars, rxVars, Kinds, OnePlace, Busy,
           Packet
  <2>2. hw_bufs_used' = hw_bufs_used + 1 /\ hw_bufs_used_vif' = hw_bufs_used_vif
    BY <1>2 DEF BhAlloc
  <2>3. Cardinality(Held \cup {cur}) = Cardinality(Held) + 1
    BY <1>h, <2>1, CountAdd
  <2>4. UsedExact'
    BY <2>1, <2>2, <2>3 DEF UsedExact
  <2>5. VifExact'
    BY <2>1, <2>2 DEF VifExact, OnVif
  <2> QED BY <2>4, <2>5
<1>3. CASE BhAccount
  <2>1. /\ Held' = Held /\ HeldVif' = HeldVif \cup {cur}
        /\ cur \in Packet \ HeldVif
    BY <1>3, <1>k, <1>d
       DEF BhAccount, Held, HeldVif, fwVars, rxVars, Kinds, OnePlace, Busy,
           Packet
  <2>2. hw_bufs_used' = hw_bufs_used /\ hw_bufs_used_vif' = VifUsed(cur, 1)
    BY <1>3 DEF BhAccount
  <2>3. \A v \in Vif : VifUsed(cur,
  1)[v] = Cardinality(OnVif(HeldVif \cup {cur}, v))
    BY <1>n, <1>h, <2>1, VifAdd DEF VifExact
  <2>4. UsedExact'
    BY <2>1, <2>2 DEF UsedExact
  <2>5. VifExact'
    BY <2>1, <2>2, <2>3 DEF VifExact, OnVif
  <2> QED BY <2>4, <2>5
<1>4. CASE BhKeep \/ BhWrite
  <2>1. Held' = Held /\ HeldVif' = HeldVif
    BY <1>4, <1>k, <1>d
       DEF BhKeep, BhWrite, Held, HeldVif, fwVars, rxVars, Kinds, OnePlace,
           Busy
  <2>2. UNCHANGED <<hw_bufs_used, hw_bufs_used_vif>>
    BY <1>4 DEF BhKeep, BhWrite, bufVars
  <2> QED BY <2>1, <2>2, SameBuffers
<1>5. CASE BhFreeVif
  <2>1. /\ Held' = Held /\ HeldVif' = HeldVif \ {cur}
        /\ cur \in HeldVif
    BY <1>5, <1>k, <1>d
       DEF BhFreeVif, Held, HeldVif, fwVars, rxVars, Kinds, OnePlace, Busy
  <2>2. hw_bufs_used' = hw_bufs_used /\ hw_bufs_used_vif' = VifUsed(cur, -1)
    BY <1>5 DEF BhFreeVif
  <2>3. \A v \in Vif : VifUsed(cur, -1)[v] = Cardinality(OnVif(HeldVif \ {cur},
  v))
    BY <1>n, <1>h, <2>1, VifRemove DEF VifExact
  <2>4. UsedExact'
    BY <2>1, <2>2 DEF UsedExact
  <2>5. VifExact'
    BY <2>1, <2>2, <2>3 DEF VifExact, OnVif
  <2> QED BY <2>4, <2>5
<1>6. CASE BhFreeBuf
  <2>1. /\ Held' = Held \ {cur} /\ HeldVif' = HeldVif
        /\ cur \in Held
    BY <1>6, <1>k, <1>d
       DEF BhFreeBuf, Held, HeldVif, fwVars, rxVars, Kinds, OnePlace, Busy
  <2>2. hw_bufs_used' = hw_bufs_used - 1 /\ hw_bufs_used_vif' = hw_bufs_used_vif
    BY <1>6 DEF BhFreeBuf
  <2>3. Cardinality(Held \ {cur}) = Cardinality(Held) - 1
    BY <1>h, <2>1, CountRemove
  <2>4. UsedExact'
    BY <2>1, <2>2, <2>3 DEF UsedExact
  <2>5. VifExact'
    BY <2>1, <2>2 DEF VifExact, OnVif
  <2> QED BY <2>4, <2>5
<1>7. CASE BhTerm \/ BhWriteFails
  <2> LoseBatch
    BY <1>7 DEF BhTerm, BhWriteFails
  <2>1. CASE need_confirm = None
    <3>1. Held' = Held /\ HeldVif' = HeldVif
      BY <2>1, <1>k DEF LoseBatch, Held, HeldVif, fwVars, rxVars
    <3>2. UNCHANGED <<hw_bufs_used, hw_bufs_used_vif>>
      BY <2>1 DEF LoseBatch, ForceFree
    <3> QED BY <3>1, <3>2, SameBuffers
  <2>2. CASE need_confirm # None
    <3>1. /\ Held' = Held \ {need_confirm} /\ need_confirm \in Held
          /\ HeldVif' = HeldVif \ {need_confirm} /\ need_confirm \in HeldVif
      BY <2>2, <1>k, <1>d
         DEF LoseBatch, Held, HeldVif, fwVars, rxVars, Kinds, OnePlace
    <3>2. /\ hw_bufs_used' = hw_bufs_used - 1
          /\ hw_bufs_used_vif' = VifUsed(need_confirm, -1)
      BY <2>2 DEF LoseBatch, ForceFree
    <3>3. Cardinality(Held \ {need_confirm}) = Cardinality(Held) - 1
      BY <1>h, <3>1, CountRemove
    <3>4. \A v \in Vif : VifUsed(need_confirm, -1)[v]
                           = Cardinality(OnVif(HeldVif \ {need_confirm}, v))
      BY <1>n, <1>h, <3>1, VifRemove DEF VifExact
    <3>5. UsedExact'
      BY <3>1, <3>2, <3>3 DEF UsedExact
    <3>6. VifExact'
      BY <3>1, <3>2, <3>4 DEF VifExact, OnVif
    <3> QED BY <3>5, <3>6
  <2> QED BY <2>1, <2>2
<1>8. ASSUME NEW p \in owed, RxAnswer(p)
      PROVE  UsedExact' /\ VifExact'
  <2>1. /\ Held' = Held \ {p} /\ p \in Held
        /\ HeldVif' = IF p = Cmd THEN HeldVif \ {Cmd} ELSE HeldVif
    BY <1>8, <1>k, <1>d DEF RxAnswer, Held, HeldVif, bhVars, Kinds, OnePlace
  <2>2. hw_bufs_used' = hw_bufs_used - 1 /\ hw_bufs_used_vif' = hw_bufs_used_vif
    BY <1>8 DEF RxAnswer, Release
  <2>3. Cardinality(Held \ {p}) = Cardinality(Held) - 1
    BY <1>h, <2>1, CountRemove
  <2>4. UsedExact'
    BY <2>1, <2>2, <2>3 DEF UsedExact
  <2>5. \A v \in Vif : OnVif(HeldVif, v)' = OnVif(HeldVif, v)
    BY <2>1, <1>d DEF OnVif
  <2>6. VifExact'
    BY <2>2, <2>5 DEF VifExact
  <2> QED BY <2>4, <2>6
<1>9. CASE RxVif
  <2>1. /\ Held' = Held /\ HeldVif' = HeldVif \ {rxcur}
        /\ rxcur \in HeldVif
    BY <1>9, <1>k, <1>d
       DEF RxVif, Held, HeldVif, bhVars, fwVars, Kinds, OnePlace, Busy
  <2>2. hw_bufs_used' = hw_bufs_used /\ hw_bufs_used_vif' = VifUsed(rxcur, -1)
    BY <1>9 DEF RxVif
  <2>3. \A v \in Vif : VifUsed(rxcur, -1)[v]
                         = Cardinality(OnVif(HeldVif \ {rxcur}, v))
    BY <1>n, <1>h, <2>1, VifRemove DEF VifExact
  <2>4. UsedExact'
    BY <2>1, <2>2 DEF UsedExact
  <2>5. VifExact'
    BY <2>1, <2>2, <2>3 DEF VifExact, OnVif
  <2> QED BY <2>4, <2>5
<1>10. CASE RestartReset
  <2>1. Held' = {} /\ HeldVif' = {}
    BY <1>10 DEF RestartReset, Held, HeldVif, bhVars, rxVars, OnePlace
  <2>2. hw_bufs_used' = 0 /\ hw_bufs_used_vif' = [v \in Vif |-> 0]
    BY <1>10 DEF RestartReset, ResetBuffers
  <2>3. \A v \in Vif : OnVif(HeldVif, v)' = {}
    BY <2>1 DEF OnVif
  <2> QED BY <2>1, <2>2, <2>3, FS_EmptySet DEF UsedExact, VifExact
\* Everything else leaves buffers and packets where they are.
<1>11. CASE \/ \E f \in Frame : Enqueue(f)
            \/ CmdSend \/ BhNoSpace
            \/ \E p \in lmc : FwXmit(p)
            \/ RxCmd \/ RxFrame
            \/ \E t \in Locker :
                 \/ LockAsync(t) \/ Flush(t)
                 \/ LockSync(t, "sync") \/ LockSync(t, "vif")
                 \/ SyncFlush(t) \/ VifFlush(t)
                 \/ FlushDone(t) \/ FlushTimeout(t) \/ Unlock(t)
            \/ RestartLock \/ RestartUnlock \/ UNCHANGED vars
  <2>1. UNCHANGED <<bhVars, owed, bufVars>> /\ (rxpc' = "vif" <=> rxpc = "vif")
        /\ (rxpc = "vif" => rxcur' = rxcur)
    BY <1>11
       DEF Enqueue, CmdSend, BhNoSpace, FwXmit, RxCmd, RxFrame, LockAsync,
           Flush,
           LockSync, SyncFlush, VifFlush, FlushDone, FlushTimeout, Unlock,
           RestartLock, RestartUnlock, vars, fwVars, rxVars
  <2>2. Held' = Held /\ HeldVif' = HeldVif
    BY <2>1 DEF Held, HeldVif, bhVars
  <2> QED BY <2>1, <2>2, SameBuffers DEF bufVars
<1>i. CASE (\E f \in queued : Expire(f)) \/ Interfaces
  <2>1. UNCHANGED <<bhVars, fwVars, bufVars, rxVars>>
    BY <1>i, InterfaceStep
  <2>2. Held' = Held /\ HeldVif' = HeldVif
    BY <2>1 DEF Held, HeldVif, bhVars, fwVars, rxVars
  <2> QED BY <2>1, <2>2, SameBuffers DEF bufVars
<1> QED BY <1>i, <1>1, <1>2, <1>3, <1>4, <1>5, <1>6, <1>7, <1>8, <1>9, <1>10,
           <1>11
        DEF Next, Bh, Firmware

-----------------------------------------------------------------------------
(* Credits never exceed the input buffers.                                 *)

\* While the device is alive, credits and packets in the channel together fit
\* the input buffers.  A halted device gets credits it has no buffers for, but
\* nothing is written to it, and the restart takes them away.
CreditInv ==
  /\ Cardinality(lmc) <= NumBufs
  /\ hw_bufs_free >= 0
  /\ bhpc \in {"select", "check", "pick", "get", "got", "alloc"} =>
       hw_bufs_free > 0
  /\ ~halted => InChannel + hw_bufs_free <= NumBufs
  /\ bhpc = "asleep" => xmit_buff = {}

LEMMA CountBounds ==
  ASSUME NEW S, IsFiniteSet(S), Cardinality(S) \in Nat, NEW x
  PROVE  /\ Cardinality(S \cup {x}) \in Nat
         /\ Cardinality(S \cup {x}) <= Cardinality(S) + 1
         /\ Cardinality(S \ {x}) \in Nat
         /\ Cardinality(S \ {x}) <= Cardinality(S)
<1>1. /\ Cardinality(S \cup {x}) \in Nat
      /\ Cardinality(S \cup {x}) <= Cardinality(S) + 1
  <2>1. CASE x \in S
    <3>1. Cardinality(S \cup {x}) = Cardinality(S)
      BY <2>1, FS_AddElement
    <3> QED BY <3>1
  <2>2. CASE x \notin S
    <3>1. Cardinality(S \cup {x}) = Cardinality(S) + 1
      BY <2>2, FS_AddElement
    <3> QED BY <3>1
  <2> QED BY <2>1, <2>2
<1>2. /\ Cardinality(S \ {x}) \in Nat
      /\ Cardinality(S \ {x}) <= Cardinality(S)
  BY FS_Subset, FS_CardinalityType
<1> QED BY <1>1, <1>2

LEMMA CreditSum ==
  ASSUME NEW a \in Int, NEW b \in Int, NEW n \in Int, NEW c \in Int,
         NEW d \in Int, a + b <= n
  PROVE  /\ c <= a /\ d = b => c + d <= n
         /\ c <= a + 1 /\ d = b - 1 => c + d <= n
OBVIOUS

LEMMA ChannelCounts ==
  ASSUME Kinds
  PROVE  /\ IsFiniteSet(lmc) /\ Cardinality(lmc) \in Nat
         /\ IsFiniteSet(xmit_buff \cup lmc) /\ InChannel \in Nat
         /\ NumBufs \in Nat
<1>1. lmc \in SUBSET Packet /\ xmit_buff \cup lmc \in SUBSET Packet
  BY DEF Kinds
<1> QED BY <1>1, FinitePackets, FrameAssumption DEF InChannel

LEMMA CreditInductive ==
  ASSUME Types, CreditInv, [Next]_vars
  PROVE  CreditInv'
<1> USE DEF CreditInv
<1>k. Kinds /\ hw_bufs_free \in Int
  BY DEF Types, Numbers
<1>c. /\ IsFiniteSet(lmc) /\ Cardinality(lmc) \in Nat
      /\ IsFiniteSet(xmit_buff \cup lmc) /\ InChannel \in Nat
      /\ NumBufs \in Nat
  BY <1>k, ChannelCounts
<1>1. CASE BhSpace
  <2>1. InChannel' = InChannel /\ lmc' = lmc /\ xmit_buff' = xmit_buff
    BY <1>1 DEF BhSpace, fwVars, InChannel
  <2>2. CASE hw_bufs_free > 0
    BY <1>1, <1>k, <1>c, <2>1, <2>2 DEF BhSpace
  <2>3. CASE ~(hw_bufs_free > 0) /\ halted
    BY <1>1, <1>k, <1>c, <2>1, <2>3 DEF BhSpace
  <2>4. CASE ~(hw_bufs_free > 0) /\ ~halted
    BY <1>1, <1>k, <1>c, <2>1, <2>4 DEF BhSpace, Credits
  <2> QED BY <2>2, <2>3, <2>4
<1>2. CASE BhAccount
  <2>1. InChannel' <= InChannel + 1 /\ InChannel' \in Nat
    <3>1. xmit_buff' \cup lmc' = (xmit_buff \cup lmc) \cup {cur}
      BY <1>2 DEF BhAccount, fwVars
    <3>2. /\ Cardinality((xmit_buff \cup lmc) \cup {cur}) <= InChannel + 1
          /\ Cardinality((xmit_buff \cup lmc) \cup {cur}) \in Nat
      BY <1>c, CountBounds DEF InChannel
    <3>3. InChannel' = Cardinality((xmit_buff \cup lmc) \cup {cur})
      BY <3>1 DEF InChannel
    <3> QED BY <3>2, <3>3
  <2>2. hw_bufs_free' = hw_bufs_free - 1 /\ hw_bufs_free > 0
    BY <1>2 DEF BhAccount
  <2>3. lmc' = lmc /\ (~halted' => ~halted) /\ bhpc' = "copied"
    BY <1>2 DEF BhAccount, fwVars
  <2>4. /\ Cardinality(lmc') <= NumBufs /\ hw_bufs_free' >= 0
        /\ ~halted' => InChannel' + hw_bufs_free' <= NumBufs
    <3>1. Cardinality(lmc') <= NumBufs
      BY <2>3
    <3>2. hw_bufs_free' >= 0
      BY <2>2, <1>k
    <3>3. ASSUME ~halted'
          PROVE  InChannel' + hw_bufs_free' <= NumBufs
      <4>1. InChannel + hw_bufs_free <= NumBufs
        BY <3>3, <2>3
      <4>2. /\ InChannel \in Int /\ InChannel' \in Int /\ NumBufs \in Int
            /\ hw_bufs_free \in Int /\ hw_bufs_free' \in Int
        BY <2>1, <2>2, <1>k, <1>c
      <4> QED BY <4>1, <4>2, <2>1, <2>2, CreditSum
    <3> QED BY <3>1, <3>2, <3>3
  <2> QED BY <2>3, <2>4
<1>3. CASE BhWrite
  <2>1. lmc' = xmit_buff \cup lmc /\ xmit_buff' \cup lmc' = xmit_buff \cup lmc
    BY <1>3 DEF BhWrite
  <2>2. Cardinality(lmc') = InChannel /\ InChannel' = InChannel
    BY <2>1 DEF InChannel
  <2>3. /\ hw_bufs_free' = hw_bufs_free /\ halted' = halted /\ ~halted
        /\ bhpc' = "top"
    BY <1>3 DEF BhWrite, bufVars
  <2> QED BY <2>2, <2>3, <1>k, <1>c
<1>4. CASE BhTerm \/ BhWriteFails
  BY <1>4 DEF BhTerm, BhWriteFails, LoseBatch, fwVars
<1>5. ASSUME NEW p \in lmc, FwXmit(p)
      PROVE  CreditInv'
  <2>1. Cardinality(lmc') <= Cardinality(lmc) /\ Cardinality(lmc') \in Nat
    <3>1. lmc' = lmc \ {p}
      BY <1>5 DEF FwXmit
    <3>2. /\ Cardinality(lmc \ {p}) <= Cardinality(lmc)
          /\ Cardinality(lmc \ {p}) \in Nat
      BY <1>c, CountBounds
    <3> QED BY <3>1, <3>2
  <2>2. InChannel' <= InChannel /\ InChannel' \in Nat
    <3>1. xmit_buff' \cup lmc' \in SUBSET (xmit_buff \cup lmc)
      BY <1>5 DEF FwXmit, bhVars
    <3>2. \A S : S \in SUBSET (xmit_buff \cup lmc)
                  => Cardinality(S) <= InChannel /\ Cardinality(S) \in Nat
      BY <1>c, FS_Subset, FS_CardinalityType DEF InChannel
    <3>3. InChannel' = Cardinality(xmit_buff' \cup lmc')
      BY DEF InChannel
    <3> QED BY <3>1, <3>2, <3>3
  <2>3. UNCHANGED <<hw_bufs_free, halted, bhpc, xmit_buff>>
    BY <1>5 DEF FwXmit, bufVars, bhVars
  <2>4. Cardinality(lmc') <= NumBufs
    BY <2>1, <1>c
  <2>5. ASSUME ~halted'
        PROVE  InChannel' + hw_bufs_free' <= NumBufs
    <3>1. InChannel + hw_bufs_free <= NumBufs
      BY <2>3, <2>5
    <3>2. /\ InChannel \in Int /\ InChannel' \in Int /\ NumBufs \in Int
          /\ hw_bufs_free \in Int /\ hw_bufs_free' \in Int
      BY <2>2, <2>3, <1>k, <1>c
    <3> QED BY <3>1, <3>2, <2>2, <2>3, CreditSum
  <2> QED BY <2>3, <2>4, <2>5
<1>6. CASE RestartReset
  <2>1. lmc' = {} /\ xmit_buff' = {} /\ hw_bufs_free' = 0 /\ bhpc' = "asleep"
    BY <1>6 DEF RestartReset, ResetBuffers, bhVars
  <2>2. Cardinality(lmc') = 0 /\ InChannel' = 0
    BY <2>1, FS_EmptySet DEF InChannel
  <2> QED BY <2>1, <2>2, <1>c
<1>7. CASE BhNoSpace \/ \E t \in Locker : FlushTimeout(t)
  BY <1>7 DEF BhNoSpace, FlushTimeout, bufVars, bhVars, fwVars
\* The other steps of the transmit thread.
<1>8. CASE \/ BhWake \/ BhSelect \/ BhCheck \/ BhPickNone
           \/ BhNotEnabled \/ BhGetFails \/ BhDrop
           \/ BhAlloc \/ BhKeep \/ BhFreeVif \/ BhFreeBuf \/ BhRemove
           \/ \E f \in Frame : BhFind(f) \/ BhPick(f)
  <2>1. UNCHANGED <<hw_bufs_free, lmc, xmit_buff, halted>>
    BY <1>8
       DEF BhWake, BhSelect, BhCheck, BhPickNone, BhNotEnabled, BhGetFails,
           BhDrop, BhAlloc, BhKeep,
           BhFreeVif, BhFreeBuf, BhRemove, BhFind, BhPick, bufVars, fwVars
  <2>2. InChannel' = InChannel
    BY <2>1 DEF InChannel
  <2>3. /\ bhpc' \in {"select", "check", "pick", "get", "got", "alloc"}
             => bhpc \in {"select", "check", "pick", "get", "got", "alloc"}
        /\ bhpc' = "asleep" => xmit_buff = {}
    BY <1>8
       DEF BhWake, BhSelect, BhCheck, BhPickNone, BhNotEnabled, BhGetFails,
           BhDrop, BhAlloc, BhKeep,
           BhFreeVif, BhFreeBuf, BhRemove, BhFind, BhPick, EndOfBatch
  <2> QED BY <2>1, <2>2, <2>3
\* The steps of the others.
<1>9. CASE \/ \E f \in Frame : Enqueue(f)
           \/ CmdSend
           \/ \E p \in owed : RxAnswer(p)
           \/ RxCmd \/ RxVif \/ RxFrame
           \/ \E t \in Locker :
                \/ LockAsync(t) \/ Flush(t)
                \/ LockSync(t, "sync") \/ LockSync(t, "vif")
                \/ SyncFlush(t) \/ VifFlush(t)
                \/ FlushDone(t) \/ Unlock(t)
           \/ RestartLock \/ RestartUnlock \/ UNCHANGED vars
  <2>1. UNCHANGED <<hw_bufs_free, lmc, xmit_buff, halted, bhpc>>
    BY <1>9
       DEF Enqueue, CmdSend, RxAnswer, RxCmd, RxVif, RxFrame, LockAsync, Flush,
           LockSync, SyncFlush, VifFlush, FlushDone, Unlock, RestartLock,
           RestartUnlock, vars, bufVars, fwVars, bhVars
  <2>2. InChannel' = InChannel
    BY <2>1 DEF InChannel
  <2> QED BY <2>1, <2>2
<1>i. CASE (\E f \in queued : Expire(f)) \/ Interfaces
  <2>1. UNCHANGED <<hw_bufs_free, lmc, xmit_buff, halted, bhpc>>
    BY <1>i, InterfaceStep DEF bufVars, fwVars, bhVars
  <2>2. InChannel' = InChannel
    BY <2>1 DEF InChannel
  <2> QED BY <2>1, <2>2
<1> QED BY <1>i, <1>1, <1>2, <1>3, <1>4, <1>5, <1>6, <1>7, <1>8, <1>9
        DEF Next, Bh, Firmware

-----------------------------------------------------------------------------
(* The theorems.                                                           *)

IInv == /\ Types /\ LockCount /\ LateInv
        /\ OnePlace /\ CommandInv /\ UsedExact /\ VifExact /\ CreditInv

LEMMA InitIInv ==
  ASSUME Init
  PROVE  IInv
<1>1. Types
  BY InitTypes
<1>2. LockCount
  <2>1. Holders = {}
    BY DEF Init, Holders
  <2> QED BY <2>1, FS_EmptySet DEF Init, LockCount
<1>3. LateInv /\ CommandInv
  BY DistinctAssumption DEF Init, LateInv, CommandInv
<1>4. OnePlace
  BY DistinctAssumption DEF Init, OnePlace
<1>5. UsedExact /\ VifExact
  <2>1. Held = {} /\ HeldVif = {}
    BY DEF Init, Held, HeldVif, BhHolds, BhHoldsVif
  <2>2. \A v \in Vif : OnVif(HeldVif, v) = {}
    BY <2>1 DEF OnVif
  <2> QED BY <2>1, <2>2, FS_EmptySet DEF Init, UsedExact, VifExact
<1>6. CreditInv
  <2>1. Cardinality(lmc) = 0 /\ InChannel = 0
    BY FS_EmptySet DEF Init, InChannel
  <2> QED BY <2>1, FrameAssumption DEF Init, CreditInv
<1> QED BY <1>1, <1>2, <1>3, <1>4, <1>5, <1>6 DEF IInv

THEOREM IInvInvariant == Spec => []IInv
<1>1. IInv /\ [Next]_vars => IInv'
  BY TypesInductive, LockCountInductive, LateInductive, OnePlaceInductive,
     CommandInductive, BuffersInductive, CreditInductive DEF IInv
<1> QED BY InitIInv, <1>1, PTL DEF Spec

\* Each variable of the transmit path keeps its type; in particular tx_lock,
\* hw_bufs_used and hw_bufs_free never go below zero (BUG_ON and WARN_ON of
\* wsm_unlock_tx, wsm_release_tx_buffer and atbm_sdio_tx_bh).
THEOREM LockTypeCorrect == Spec => []TypeOK
<1>1. IInv => TypeOK
  <2> SUFFICES ASSUME IInv PROVE TypeOK
    OBVIOUS
  <2> USE DEF IInv
  <2>1. tx_lock \in Nat
    BY LockIsNat
  <2>2. hw_bufs_used \in Nat
    BY HeldPackets DEF UsedExact, Types
  <2>3. hw_bufs_used_vif \in [Vif -> Nat]
    <3>1. \A v \in Vif : OnVif(HeldVif, v) \in SUBSET Packet
      BY DEF OnVif, Packet
    <3>2. \A v \in Vif : Cardinality(OnVif(HeldVif, v)) \in Nat
      BY <3>1, FinitePackets
    <3>3. \A v \in Vif : hw_bufs_used_vif[v] \in Nat
      BY <3>2 DEF VifExact
    <3> QED BY <3>3 DEF Types, Numbers
  <2>4. hw_bufs_free \in Nat /\ late \in Nat /\ overtaken \in Nat
    BY DEF CreditInv, LateInv, CommandInv, Types, Numbers
  <2>5. Kinds /\ Flags /\ Ifaces
    BY DEF Types
  <2> QED BY <2>1, <2>2, <2>3, <2>4, <2>5
          DEF TypeOK, Kinds, Flags, Ifaces, IfaceStates, Places, LockerPlaces
<1> QED BY IInvInvariant, <1>1, PTL

\* hw_bufs_used and hw_bufs_used_vif count the packets between
\* wsm_alloc_tx_buffer and their release exactly.
THEOREM BuffersCorrect == Spec => []BuffersExact
<1>1. IInv => BuffersExact
  BY ExactParts DEF IInv
<1> QED BY IInvInvariant, <1>1, PTL

\* hw_bufs_free never promises an input buffer the firmware does not have.
THEOREM NoOverrunCorrect == Spec => []NoOverrun
<1>1. IInv => NoOverrun
  BY DEF IInv, CreditInv, NoOverrun
<1> QED BY IInvInvariant, <1>1, PTL

\* One frame at most is counted while tx_lock is held.
THEOREM OneLateFrameCorrect == Spec => []OneLateFrame
<1>1. IInv => OneLateFrame
  BY DEF IInv, LateInv, OneLateFrame
<1> QED BY IInvInvariant, <1>1, PTL

\* One frame at most overtakes a posted command (wsm_get_tx).
THEOREM CommandGoesNextCorrect == Spec => []CommandGoesNext
<1>1. IInv => CommandGoesNext
  BY DEF IInv, CommandInv, CommandGoesNext
<1> QED BY IInvInvariant, <1>1, PTL
=============================================================================
