------------------------------- MODULE TxLock -------------------------------
(***************************************************************************)
(* Locking and flushing the transmit path (wsm.c) against the SDIO         *)
(* transmit thread (atbm_sdio_tx_bh, bh_sdio.c).                           *)
(*                                                                         *)
(* The transmit thread gathers frames in xmit_buff and writes them to the  *)
(* firmware in one go.  It looks at tx_lock before it takes a frame, and   *)
(* counts the frame in hw_bufs_used after it has taken it.  A frame that   *)
(* asks for no confirmation leaves hw_bufs_used before it is written.      *)
(* Control threads raise tx_lock and then wait for hw_bufs_used to reach   *)
(* zero.  Commands pass the lock; wsm_cmd_mux admits one at a time.        *)
(*                                                                         *)
(* A wake-up of the transmit thread is part of the action that gives it.   *)
(* Which frame of an interface is next is left open, so is the number of   *)
(* frames that fit xmit_buff.  A frame that power save holds back is not   *)
(* on a queue yet.  The firmware is external: it frees the input buffer of *)
(* a packet and answers, in any order of the packets.                      *)
(*                                                                         *)
(* An interface is taken down in steps: it is disabled while it is still   *)
(* on vif_list, its queues are cleared under the lock, and it leaves the   *)
(* list after the unlock.  wsm_get_tx meets it in each of these states.    *)
(***************************************************************************)
EXTENDS Integers, FiniteSets

CONSTANTS
  Frame,       \* the data frames
  NeedConfirm, \* those with WSM_NEED_TX_CONFIRM
  VifOf,       \* the interface of each frame
  Locker,      \* threads that lock the transmit path
  LockerVif,   \* the interface each of them works for
  Remover,     \* those of them that take it down and add it again, no more
  NumBufs,     \* wsm_caps.numInpChBufs
  Cmd,         \* the WSM command in wsm_cmd
  None         \* no frame, no thread

\* The two interfaces (if_id_selected ^= 1 switches between them).
Vif == {0, 1}

ASSUME FrameAssumption ==
  /\ IsFiniteSet(Frame)
  /\ NeedConfirm \subseteq Frame
  /\ VifOf \in [Frame -> Vif]
  /\ NumBufs \in Nat \ {0}

ASSUME DistinctAssumption ==
  /\ Cmd \notin Frame \cup Locker /\ None \notin Frame \cup Locker \cup {Cmd}
  /\ IsFiniteSet(Locker) /\ LockerVif \in [Locker -> Vif]
  /\ Remover \subseteq Locker

Packet == Frame \cup {Cmd}

VARIABLES
  queued,           \* frames on the queue lists
  pending,          \* frames on the pending lists
  cmd,              \* wsm_cmd: "none", "posted" (ptr set) or "running"
  mux,              \* holder of wsm_cmd_mux: a thread, Cmd (its sender), None
  tx_lock,          \* tx_lock
  hw_bufs_used,     \* hw_bufs_used
  hw_bufs_used_vif, \* hw_bufs_used_vif
  hw_bufs_free,     \* hw_bufs_free
  bhpc,             \* where the transmit thread is
  if_id_selected,   \* the interface it looks at next
  if_pending,       \* if_pending of wsm_get_tx
  found,            \* the frame it found before it gets it, or None
  cur,              \* the packet it works on
  need_confirm,     \* need_confirm of the batch
  xmit_buff,        \* packets gathered and not yet written
  wakeup,           \* THREAD_WAKEUP of the transmit thread
  lmc,              \* packets written that occupy an input buffer
  owed,             \* packets written that the firmware will answer
  rxpc, rxcur,      \* where the receive path is, and the packet it handles
  pc,               \* where each locker is
  halted,           \* atbm_bh_is_term: the device is unplugged or halted
  restart,          \* the device restart: "no", "locked" or "reset"
  iface,            \* each interface: "up", "off" (disabled), "cleared"
                    \* (disabled and its queues cleared), "gone" (not listed)
  late,             \* frames counted since tx_lock was last raised from 0
  overtaken,        \* frames counted while the command is posted
  left              \* the interfaces that the last call of wsm_get_tx gave up,
                    \* whatever they still had queued

bufVars  == <<hw_bufs_used, hw_bufs_used_vif, hw_bufs_free>>
selVars  == <<if_id_selected, if_pending, found>>
bhVars   == <<bhpc, selVars, cur, need_confirm, xmit_buff>>
fwVars   == <<lmc, owed>>
rxVars   == <<rxpc, rxcur>>
cmdVars  == <<cmd, mux>>
lockVars == <<tx_lock, pc, restart, iface>>
histVars == <<late, overtaken, left>>
vars == <<queued, pending, cmdVars, bufVars, bhVars, wakeup, fwVars, rxVars,
          lockVars, halted, histVars>>

-----------------------------------------------------------------------------
(* Buffers.                                                                *)

\* The counters of the interface of a packet after n more are in use.
VifUsed(p, n) == IF p \in Frame
                 THEN [hw_bufs_used_vif EXCEPT ![VifOf[p]] = @ + n]
                 ELSE hw_bufs_used_vif

\* n_xmits - NumOfHwXmited: the packets counted in n_xmits whose input buffer
\* the firmware has not freed.
InChannel == Cardinality(xmit_buff \cup lmc)

\* A faulty Credits: one buffer is kept back, although the firmware may be full.
CreditsReserve == NumBufs - 1 - InChannel

\* A faulty Credits: the packets in xmit_buff are not counted.
CreditsWritten == NumBufs - Cardinality(lmc)

\* What hw_bufs_free is set to when it is used up.
Credits == NumBufs - InChannel

Init ==
  /\ queued = {} /\ pending = {}
  /\ cmd = "none" /\ mux = None
  /\ tx_lock = 0
  /\ hw_bufs_used = 0
  /\ hw_bufs_used_vif = [v \in Vif |-> 0]
  /\ hw_bufs_free = NumBufs
  /\ bhpc = "asleep" /\ cur = None /\ need_confirm = None /\ xmit_buff = {}
  /\ if_id_selected = 0 /\ if_pending = TRUE /\ found = None
  /\ wakeup = FALSE
  /\ lmc = {} /\ owed = {}
  /\ rxpc = "idle" /\ rxcur = None
  /\ pc = [t \in Locker |-> "idle"]
  /\ halted = FALSE
  /\ restart = "no"
  /\ iface = [v \in Vif |-> "up"]
  /\ late = 0 /\ overtaken = 0 /\ left = {}

-----------------------------------------------------------------------------
(* Transmitters and command senders.                                       *)

\* atbm_tx: a frame of an interface that is up is put and the transmit thread
\* woken.
Enqueue(f) ==
  /\ iface[VifOf[f]] = "up"
  /\ f \notin queued \cup pending \cup xmit_buff \cup lmc
  /\ f \notin owed \cup {cur, found, need_confirm, rxcur}
  /\ queued' = queued \cup {f}
  /\ wakeup' = TRUE
  /\ UNCHANGED <<pending, cmdVars, bufVars, bhVars, fwVars, rxVars, lockVars,
                 halted, histVars>>

\* atbm_queue_gc: a frame that was queued for too long is dropped.
Expire(f) ==
  /\ queued' = queued \ {f}
  /\ UNCHANGED <<pending, cmdVars, bufVars, bhVars, wakeup, fwVars, rxVars,
                 lockVars, halted, histVars>>

\* wsm_cmd_send up to its wait.
CmdSend ==
  /\ mux = None /\ ~halted
  /\ Cmd \notin xmit_buff \cup lmc \cup owed \cup {cur, rxcur}
  /\ mux' = Cmd
  /\ cmd' = "posted"
  /\ wakeup' = TRUE
  /\ UNCHANGED <<queued, pending, bufVars, bhVars, fwVars, rxVars, lockVars,
                 halted, histVars>>

\* The command is answered or given up: its sender returns.
CmdDone == cmd' = "none" /\ mux' = None

-----------------------------------------------------------------------------
(* The transmit thread.                                                    *)

\* atbm_sdio_wait_action: the thread runs only when THREAD_WAKEUP is set, its
\* timer never runs atbm_sdio_tx_bh.
BhWake ==
  /\ bhpc = "asleep" /\ wakeup
  /\ wakeup' = FALSE
  /\ bhpc' = "top" /\ left' = {}
  /\ UNCHANGED <<queued, pending, cmdVars, bufVars, selVars, cur, need_confirm,
                 xmit_buff, fwVars, rxVars, lockVars, halted, late,
                 overtaken>>

\* wsm_get_tx finds nothing: the batch is written, or the thread goes to sleep.
EndOfBatch ==
  /\ bhpc' = IF xmit_buff = {} THEN "asleep" ELSE "write"
  /\ if_pending' = TRUE

\* atbm_sdio_have_enough_space, and atbm_sdio_wait_enough_space when nothing
\* is gathered yet (the thread stays at "top" while the device has no space).
BhSpace ==
  /\ bhpc = "top"
  /\ hw_bufs_free' = IF hw_bufs_free > 0 THEN hw_bufs_free
                     ELSE IF halted THEN 1 ELSE Credits
  /\ bhpc' = IF hw_bufs_free' > 0 THEN "select"
             ELSE IF xmit_buff # {} THEN "write" ELSE "top"
  /\ UNCHANGED <<queued, pending, cmdVars, hw_bufs_used, hw_bufs_used_vif,
                 selVars, cur, need_confirm, xmit_buff, wakeup, fwVars, rxVars,
                 lockVars, halted, histVars>>

\* atbm_sdio_wait_enough_space gives up: the device is halted.
BhNoSpace ==
  /\ bhpc = "top" /\ hw_bufs_free = 0 /\ xmit_buff = {} /\ Credits = 0
  /\ ~halted
  /\ halted' = TRUE
  /\ UNCHANGED <<queued, pending, cmdVars, bufVars, bhVars, wakeup, fwVars,
                 rxVars, lockVars, histVars>>

\* A faulty BhSelect: data frames go before commands.
BhSelectDataFirst ==
  /\ bhpc = "select"
  /\ \/ /\ cmd = "posted" /\ queued = {}
        /\ cur' = Cmd /\ bhpc' = "got"
     \/ /\ cmd # "posted" \/ queued # {}
        /\ bhpc' = "check" /\ UNCHANGED cur
  /\ left' = {}
  /\ UNCHANGED <<queued, pending, cmdVars, bufVars, selVars, need_confirm,
                 xmit_buff, wakeup, fwVars, rxVars, lockVars, halted, late,
                 overtaken>>

\* wsm_get_tx: a command goes first.
BhSelect ==
  /\ bhpc = "select"
  /\ \/ /\ cmd = "posted"
        /\ cur' = Cmd /\ bhpc' = "got"
     \/ /\ cmd # "posted"
        /\ bhpc' = "check" /\ UNCHANGED cur
  /\ left' = {}
  /\ UNCHANGED <<queued, pending, cmdVars, bufVars, selVars, need_confirm,
                 xmit_buff, wakeup, fwVars, rxVars, lockVars, halted, late,
                 overtaken>>

\* A faulty Passes: the lock is not looked at.
PassesLock == hw_bufs_used < NumBufs

\* The checks of wsm_get_tx before it looks for a frame.
Passes == tx_lock = 0 /\ hw_bufs_used < NumBufs

BhCheck ==
  /\ bhpc = "check"
  /\ \/ /\ Passes
        /\ bhpc' = "pick" /\ if_id_selected' = 1 - if_id_selected
        /\ UNCHANGED if_pending
     \/ ~Passes /\ EndOfBatch /\ UNCHANGED if_id_selected
  /\ UNCHANGED <<queued, pending, cmdVars, bufVars, found, cur, need_confirm,
                 xmit_buff, wakeup, fwVars, rxVars, lockVars, halted, histVars>>

\* The interface wsm_get_tx looks at, and its frames.
Looked == 1 - if_id_selected
Candidates == {f \in queued : VifOf[f] = Looked}

\* The interface is listed but not enabled: the search ends at once, also when
\* the other interface has not been looked at.
BhNotEnabled ==
  /\ bhpc = "pick" /\ iface[Looked] \in {"off", "cleared"}
  /\ EndOfBatch
  /\ left' = IF if_pending THEN left \cup {1 - Looked} ELSE left
  /\ UNCHANGED <<queued, pending, cmdVars, bufVars, if_id_selected, found, cur,
                 need_confirm, xmit_buff, wakeup, fwVars, rxVars, lockVars,
                 halted, late, overtaken>>

\* The interface is not listed or has no frame: the other one is tried, unless
\* if_pending is off.
BhPickNone ==
  /\ bhpc = "pick"
  /\ iface[Looked] = "gone" \/ (iface[Looked] = "up" /\ Candidates = {})
  /\ \/ if_pending /\ bhpc' = "check" /\ if_pending' = FALSE
     \/ ~if_pending /\ EndOfBatch
  /\ UNCHANGED <<queued, pending, cmdVars, bufVars, if_id_selected, found, cur,
                 need_confirm, xmit_buff, wakeup, fwVars, rxVars, lockVars,
                 halted, histVars>>

\* wsm_get_tx_queue_and_mask finds a frame ...
BhFind(f) ==
  /\ bhpc = "pick" /\ iface[Looked] = "up" /\ f \in Candidates
  /\ found' = f /\ bhpc' = "get"
  /\ UNCHANGED <<queued, pending, cmdVars, bufVars, if_id_selected, if_pending,
                 cur, need_confirm, xmit_buff, wakeup, fwVars, rxVars,
                 lockVars, halted, histVars>>

\* ... and atbm_queue_get takes one ...
BhPick(f) ==
  /\ bhpc = "get" /\ f \in Candidates
  /\ queued' = queued \ {f}
  /\ pending' = pending \cup {f}
  /\ found' = None
  /\ cur' = f /\ bhpc' = "got"
  /\ UNCHANGED <<cmdVars, bufVars, if_id_selected, if_pending, need_confirm,
                 xmit_buff, wakeup, fwVars, rxVars, lockVars, halted, histVars>>

\* ... or fails, because the frame is gone: the interface is given up and the
\* other one is the last to be tried.
BhGetFails ==
  /\ bhpc = "get" /\ found \notin queued
  /\ found' = None /\ bhpc' = "check"
  /\ if_pending' = FALSE
  /\ left' = left \cup {Looked}
  /\ UNCHANGED <<queued, pending, cmdVars, bufVars, if_id_selected, cur,
                 need_confirm, xmit_buff, wakeup, fwVars, rxVars, lockVars,
                 halted, late, overtaken>>

\* wsm_handle_tx_data drops the frame: the interface is given up, the other one
\* is the last to be tried.
BhDrop ==
  /\ bhpc = "got" /\ cur \in Frame
  /\ pending' = pending \ {cur}
  /\ cur' = None /\ bhpc' = "check"
  /\ if_pending' = FALSE
  /\ left' = left \cup {Looked}
  /\ UNCHANGED <<queued, cmdVars, bufVars, if_id_selected, found, need_confirm,
                 xmit_buff, wakeup, fwVars, rxVars, lockVars, halted, late,
                 overtaken>>

\* wsm_alloc_tx_buffer.
BhAlloc ==
  /\ bhpc = "got"
  /\ hw_bufs_used' = hw_bufs_used + 1
  /\ late' = IF cur \in Frame /\ tx_lock > 0 THEN late + 1 ELSE late
  /\ overtaken' = IF cur \in Frame /\ cmd = "posted" THEN overtaken + 1
                                                     ELSE overtaken
  /\ bhpc' = "alloc"
  /\ if_pending' = TRUE /\ left' = {}
  /\ UNCHANGED <<queued, pending, cmdVars, hw_bufs_used_vif, hw_bufs_free,
                 if_id_selected, found, cur, need_confirm, xmit_buff, wakeup,
                 fwVars, rxVars, lockVars, halted>>

\* The credit is taken, the interface counted, the packet copied.
BhAccount ==
  /\ bhpc = "alloc"
  /\ hw_bufs_free' = hw_bufs_free - 1
  /\ hw_bufs_used_vif' = VifUsed(cur, 1)
  /\ xmit_buff' = xmit_buff \cup {cur}
  /\ bhpc' = "copied"
  /\ UNCHANGED <<queued, pending, cmdVars, hw_bufs_used, selVars, cur,
                 need_confirm, wakeup, fwVars, rxVars, lockVars, halted,
                 histVars>>

\* wsm_txed of a command, or a frame that asks for a confirmation: the batch
\* ends with it.
BhKeep ==
  /\ bhpc = "copied" /\ cur \in NeedConfirm \cup {Cmd}
  /\ cmd' = IF cur = Cmd THEN "running" ELSE cmd
  /\ overtaken' = IF cur = Cmd THEN 0 ELSE overtaken
  /\ need_confirm' = cur
  /\ cur' = None /\ bhpc' = "write"
  /\ UNCHANGED <<queued, pending, mux, bufVars, selVars, xmit_buff, wakeup,
                 fwVars, rxVars, lockVars, halted, late, left>>

\* atbm_sdio_free_tx_wsm: a frame that asks for none is done with, though it
\* is still to be written.
BhFreeVif ==
  /\ bhpc = "copied" /\ cur \in Frame \ NeedConfirm
  /\ hw_bufs_used_vif' = VifUsed(cur, -1)
  /\ bhpc' = "free"
  /\ UNCHANGED <<queued, pending, cmdVars, hw_bufs_used, hw_bufs_free, selVars,
                 cur, need_confirm, xmit_buff, wakeup, fwVars, rxVars,
                 lockVars, halted, histVars>>

BhFreeBuf ==
  /\ bhpc = "free"
  /\ hw_bufs_used' = hw_bufs_used - 1
  /\ bhpc' = "remove"
  /\ UNCHANGED <<queued, pending, cmdVars, hw_bufs_used_vif, hw_bufs_free,
                 selVars, cur, need_confirm, xmit_buff, wakeup, fwVars, rxVars,
                 lockVars, halted, histVars>>

\* The next packet may or may not fit xmit_buff.
BhRemove ==
  /\ bhpc = "remove"
  /\ pending' = pending \ {cur}
  /\ cur' = None
  /\ bhpc' \in {"top", "write"}
  /\ UNCHANGED <<queued, cmdVars, bufVars, selVars, need_confirm, xmit_buff,
                 wakeup, fwVars, rxVars, lockVars, halted, histVars>>

\* atbm_data_write.
BhWrite ==
  /\ bhpc = "write" /\ ~halted
  /\ lmc' = lmc \cup xmit_buff
  /\ owed' = owed \cup ({need_confirm} \ {None})
  /\ xmit_buff' = {} /\ need_confirm' = None
  /\ bhpc' = "top"
  /\ UNCHANGED <<queued, pending, cmdVars, bufVars, selVars, cur, wakeup,
                 rxVars, lockVars, halted, histVars>>

\* A faulty force_free: the buffer is not given back.
ForceFreeKeepsBuffer(p) ==
  /\ IF p = None THEN UNCHANGED <<hw_bufs_used_vif, pending>>
     ELSE /\ hw_bufs_used_vif' = VifUsed(p, -1)
          /\ pending' = pending \ {p}
  /\ IF p = Cmd THEN CmdDone ELSE UNCHANGED cmdVars
  /\ UNCHANGED hw_bufs_used

\* atbm_sdio_force_free_wsm.
ForceFree(p) ==
  /\ IF p = None THEN UNCHANGED <<hw_bufs_used, hw_bufs_used_vif, pending>>
     ELSE /\ hw_bufs_used' = hw_bufs_used - 1
          /\ hw_bufs_used_vif' = VifUsed(p, -1)
          /\ pending' = pending \ {p}
  /\ IF p = Cmd THEN CmdDone ELSE UNCHANGED cmdVars

\* The batch is lost.
LoseBatch ==
  /\ bhpc = "write"
  /\ ForceFree(need_confirm)
  /\ halted' = TRUE
  /\ xmit_buff' = {} /\ need_confirm' = None
  /\ bhpc' = "top"
  /\ UNCHANGED <<queued, hw_bufs_free, selVars, cur, wakeup, fwVars, rxVars,
                 lockVars, histVars>>

\* The device is gone before the write ...
BhTerm == halted /\ LoseBatch

\* ... or the write fails and halts it.
BhWriteFails == ~halted /\ LoseBatch

Bh == \/ BhWake \/ BhSpace \/ BhSelect \/ BhCheck
      \/ BhNotEnabled \/ BhPickNone
      \/ \E f \in Frame : BhFind(f) \/ BhPick(f)
      \/ BhGetFails \/ BhDrop \/ BhAlloc \/ BhAccount \/ BhKeep
      \/ BhFreeVif \/ BhFreeBuf \/ BhRemove \/ BhWrite
      \/ BhTerm

-----------------------------------------------------------------------------
(* The firmware and the receive path.                                      *)

\* The firmware frees the input buffer of a packet: NumOfHwXmited grows.
FwXmit(p) ==
  /\ lmc' = lmc \ {p}
  /\ UNCHANGED <<queued, pending, cmdVars, bufVars, bhVars, wakeup, owed,
                 rxVars, lockVars, halted, histVars>>

\* A faulty Release: the transmit thread is not woken.
ReleaseNoWake ==
  /\ hw_bufs_used' = hw_bufs_used - 1
  /\ UNCHANGED wakeup

\* wsm_release_tx_buffer of the receive path: the transmit thread is woken
\* when all buffers, or all but one, were in use.
Release ==
  /\ hw_bufs_used' = hw_bufs_used - 1
  /\ wakeup' = (wakeup \/ hw_bufs_used >= NumBufs - 1)

\* atbm_rx_directly: an answer arrives and its buffer is released.
RxAnswer(p) ==
  /\ rxpc = "idle" /\ p \notin lmc /\ ~halted
  /\ owed' = owed \ {p}
  /\ Release
  /\ rxcur' = p
  /\ rxpc' = IF p = Cmd THEN "cmd" ELSE "vif"
  /\ UNCHANGED <<queued, pending, cmdVars, hw_bufs_used_vif, hw_bufs_free,
                 bhVars, lmc, lockVars, halted, histVars>>

\* The confirmation of a command completes it.
RxCmd ==
  /\ rxpc = "cmd"
  /\ CmdDone
  /\ rxpc' = "idle" /\ rxcur' = None
  /\ UNCHANGED <<queued, pending, bufVars, bhVars, wakeup, fwVars, lockVars,
                 halted, histVars>>

\* wsm_tx_confirm releases the buffer of the interface ...
RxVif ==
  /\ rxpc = "vif"
  /\ hw_bufs_used_vif' = VifUsed(rxcur, -1)
  /\ rxpc' = "frame"
  /\ UNCHANGED <<queued, pending, cmdVars, hw_bufs_used, hw_bufs_free, bhVars,
                 wakeup, fwVars, rxcur, lockVars, halted, histVars>>

\* ... and atbm_tx_confirm_cb removes the frame or queues it again.
RxFrame ==
  /\ rxpc = "frame"
  /\ pending' = pending \ {rxcur}
  /\ \/ UNCHANGED <<queued, wakeup>>
     \/ /\ rxcur \in pending
        /\ queued' = queued \cup {rxcur} /\ wakeup' = TRUE
  /\ rxpc' = "idle" /\ rxcur' = None
  /\ UNCHANGED <<cmdVars, bufVars, bhVars, fwVars, lockVars, halted, histVars>>

Firmware == \/ \E p \in lmc : FwXmit(p)
            \/ \E p \in owed : RxAnswer(p)
            \/ RxCmd \/ RxVif \/ RxFrame

-----------------------------------------------------------------------------
(* Locking, flushing and unlocking.                                        *)

MoveTo(t, place) == pc' = [pc EXCEPT ![t] = place]

\* The thread has disabled its interface and not cleared the queues yet.
Removing(t) == t \in Remover /\ iface[LockerVif[t]] = "off"

\* wsm_lock_tx_async.
LockAsync(t) ==
  /\ pc[t] = "idle" /\ (t \in Remover => Removing(t))
  /\ tx_lock' = tx_lock + 1
  /\ MoveTo(t, "locked")
  /\ UNCHANGED <<queued, pending, cmdVars, bufVars, bhVars, wakeup, fwVars,
                 rxVars, restart, iface, halted, histVars>>

\* A faulty NothingToFlush: a pending frame alone is not waited for.
NothingWaited == hw_bufs_used = 0 \/ ~halted

\* wsm_flush_tx returns true at once: no buffer is in use, or no frame is
\* pending ("only a command in the pipe").
NothingToFlush == hw_bufs_used = 0 \/ (~halted /\ pending = {})

\* wsm_flush_tx up to its wait; it fails when the device is gone.
StartFlush(t, place) ==
  \/ NothingToFlush /\ MoveTo(t, "flushed")
  \/ ~NothingToFlush /\ MoveTo(t, IF halted THEN "locked" ELSE place)

Flush(t) ==
  /\ pc[t] = "locked"
  /\ StartFlush(t, "wait")
  /\ UNCHANGED <<queued, pending, cmdVars, bufVars, bhVars, wakeup, fwVars,
                 rxVars, tx_lock, restart, iface, halted, histVars>>

\* wsm_lock_tx and wsm_vif_lock_tx: only the thread that raises tx_lock from 0
\* flushes, with wsm_cmd_mux held.
LockSync(t, place) ==
  /\ pc[t] = "idle" /\ mux = None /\ t \notin Remover
  /\ tx_lock' = tx_lock + 1
  /\ \/ tx_lock = 0 /\ mux' = t /\ MoveTo(t, place)
     \/ tx_lock # 0 /\ UNCHANGED mux /\ MoveTo(t, "locked")
  /\ UNCHANGED <<queued, pending, cmd, bufVars, bhVars, wakeup, fwVars, rxVars,
                 restart, iface, halted, histVars>>

\* The flush of wsm_lock_tx begins.
SyncFlush(t) ==
  /\ pc[t] = "sync"
  /\ StartFlush(t, "syncwait")
  /\ mux' = IF pc'[t] = "syncwait" THEN t ELSE None
  /\ UNCHANGED <<queued, pending, cmd, bufVars, bhVars, wakeup, fwVars, rxVars,
                 tx_lock, restart, iface, halted, histVars>>

\* wsm_vif_flush_tx begins.
VifFlush(t) ==
  /\ pc[t] = "vif"
  /\ IF hw_bufs_used_vif[LockerVif[t]] = 0
     THEN MoveTo(t, "vifflushed") /\ mux' = None
     ELSE MoveTo(t, "vifwait") /\ UNCHANGED mux
  /\ UNCHANGED <<queued, pending, cmd, bufVars, bhVars, wakeup, fwVars, rxVars,
                 tx_lock, restart, iface, halted, histVars>>

\* What a flush waits for has happened.
Drained(t) ==
  \/ pc[t] \in {"wait", "syncwait"} /\ hw_bufs_used = 0
  \/ pc[t] = "vifwait" /\ hw_bufs_used_vif[LockerVif[t]] = 0

\* The wait of a flush ends; wsm_lock_tx releases wsm_cmd_mux.
FlushDone(t) ==
  /\ Drained(t)
  /\ MoveTo(t, IF pc[t] = "vifwait" THEN "vifflushed" ELSE "flushed")
  /\ mux' = IF mux = t THEN None ELSE mux
  /\ UNCHANGED <<queued, pending, cmd, bufVars, bhVars, wakeup, fwVars, rxVars,
                 tx_lock, restart, iface, halted, histVars>>

\* The wait times out: a frame is stuck in the firmware, the device is halted.
FlushTimeout(t) ==
  /\ pc[t] \in {"wait", "syncwait", "vifwait"} /\ ~Drained(t)
  /\ halted' = TRUE
  /\ MoveTo(t, "locked")
  /\ mux' = IF mux = t THEN None ELSE mux
  /\ UNCHANGED <<queued, pending, cmd, bufVars, bhVars, wakeup, fwVars, rxVars,
                 tx_lock, restart, iface, histVars>>

\* The last one to unlock wakes the transmit thread.
Lower ==
  /\ tx_lock' = tx_lock - 1
  /\ wakeup' = (wakeup \/ tx_lock' = 0)
  /\ late' = IF tx_lock' = 0 THEN 0 ELSE late

\* wsm_unlock_tx.
Unlock(t) ==
  /\ pc[t] \in {"locked", "flushed", "vifflushed"} /\ ~Removing(t)
  /\ Lower
  /\ MoveTo(t, "idle")
  /\ UNCHANGED <<queued, pending, cmdVars, bufVars, bhVars, fwVars, rxVars,
                 restart, iface, halted, overtaken, left>>

-----------------------------------------------------------------------------
(* Interfaces are taken down and added again.                              *)

SetIface(t, from, to) ==
  /\ iface[LockerVif[t]] = from
  /\ iface' = [iface EXCEPT ![LockerVif[t]] = to]
  /\ UNCHANGED <<cmdVars, bufVars, bhVars, wakeup, fwVars, rxVars, tx_lock, pc,
                 restart, halted, histVars>>

\* atbm_remove_interface disables the interface, locks and flushes the transmit
\* path (LockAsync, Flush) ...
Disable(t) ==
  /\ pc[t] = "idle"
  /\ SetIface(t, "up", "off") /\ UNCHANGED <<queued, pending>>

\* ... clears its queues, whatever the flush returned (__atbm_flush) ...
ClearQueues(t) ==
  /\ pc[t] \in {"locked", "flushed"}
  /\ SetIface(t, "off", "cleared")
  /\ queued' = {f \in queued : VifOf[f] # LockerVif[t]}
  /\ pending' = {f \in pending : VifOf[f] # LockerVif[t]}

\* ... unlocks (Unlock) and takes it off the list.
Unlist(t) ==
  /\ pc[t] = "idle"
  /\ SetIface(t, "cleared", "gone") /\ UNCHANGED <<queued, pending>>

\* atbm_add_interface.
AddInterface(t) ==
  SetIface(t, "gone", "up") /\ UNCHANGED <<queued, pending>>

Interfaces == \E t \in Remover :
  Disable(t) \/ ClearQueues(t) \/ Unlist(t) \/ AddInterface(t)

-----------------------------------------------------------------------------
(* The restart of a halted device, __atbm_sdio_lmac_restart.               *)

RestartLock ==
  /\ halted /\ restart = "no"
  /\ restart' = "locked"
  /\ tx_lock' = tx_lock + 1
  /\ UNCHANGED <<queued, pending, cmdVars, bufVars, bhVars, wakeup, fwVars,
                 rxVars, pc, iface, halted, histVars>>

\* A faulty reset: buffers of frames the device has forgotten stay in use.
ResetKeepsBuffers ==
  /\ hw_bufs_free' = 0
  /\ UNCHANGED <<hw_bufs_used, hw_bufs_used_vif>>

\* "release hw buff".
ResetBuffers ==
  /\ hw_bufs_used' = 0
  /\ hw_bufs_used_vif' = [v \in Vif |-> 0]
  /\ hw_bufs_free' = 0

\* Both threads have been stopped.  The queues are cleared (frames put later
\* stay), a running command is released, the threads are started again.
RestartReset ==
  /\ restart = "locked"
  /\ bhpc = "asleep" /\ rxpc = "idle"
  /\ restart' = "reset"
  /\ halted' = FALSE
  /\ queued' \in SUBSET queued
  /\ pending' = {}
  /\ cmd' = "none"
  /\ mux' = IF mux = Cmd THEN None ELSE mux
  /\ ResetBuffers
  /\ lmc' = {} /\ owed' = {}
  /\ overtaken' = 0
  /\ wakeup' = FALSE
  /\ UNCHANGED <<bhVars, rxVars, tx_lock, pc, iface, late, left>>

RestartUnlock ==
  /\ restart = "reset"
  /\ restart' = "no"
  /\ Lower
  /\ UNCHANGED <<queued, pending, cmdVars, bufVars, bhVars, fwVars, rxVars, pc,
                 iface, halted, overtaken, left>>

-----------------------------------------------------------------------------
Next ==
  \/ \E f \in Frame : Enqueue(f)
  \/ \E f \in queued : Expire(f)
  \/ CmdSend
  \/ Bh \/ BhNoSpace \/ BhWriteFails
  \/ Firmware
  \/ \E t \in Locker :
       \/ LockAsync(t) \/ Flush(t)
       \/ LockSync(t, "sync") \/ LockSync(t, "vif")
       \/ SyncFlush(t) \/ VifFlush(t)
       \/ FlushDone(t) \/ FlushTimeout(t) \/ Unlock(t)
  \/ Interfaces
  \/ RestartLock \/ RestartReset \/ RestartUnlock

Spec == Init /\ [][Next]_vars

\* The threads run, the firmware works, a halted device is restarted; a thread
\* told to stop does so when it comes to sleep.  No fairness of time-outs,
\* failures, lockers, senders or interfaces.
Fairness ==
  /\ WF_vars(Bh)
  /\ WF_vars(Firmware)
  /\ WF_vars(RestartLock \/ RestartUnlock)
  /\ SF_vars(RestartReset)
  /\ \A t \in Locker : WF_vars(FlushDone(t))

FairSpec == Spec /\ Fairness

-----------------------------------------------------------------------------
(* Properties.                                                             *)

TypeOK ==
  /\ queued \subseteq Frame /\ pending \subseteq Frame
  /\ cmd \in {"none", "posted", "running"}
  /\ mux \in Locker \cup {Cmd, None}
  /\ tx_lock \in Nat
  /\ hw_bufs_used \in Nat
  /\ hw_bufs_used_vif \in [Vif -> Nat]
  /\ hw_bufs_free \in Nat
  /\ bhpc \in {"asleep", "top", "select", "check", "pick", "got", "alloc",
               "copied", "free", "remove", "write", "get"}
  /\ if_id_selected \in Vif /\ if_pending \in BOOLEAN
  /\ found \in Frame \cup {None}
  /\ cur \in Packet \cup {None}
  /\ need_confirm \in NeedConfirm \cup {Cmd, None}
  /\ xmit_buff \subseteq Packet
  /\ wakeup \in BOOLEAN
  /\ lmc \subseteq Packet
  /\ owed \subseteq NeedConfirm \cup {Cmd}
  /\ rxpc \in {"idle", "cmd", "vif", "frame"}
  /\ rxcur \in NeedConfirm \cup {Cmd, None}
  /\ pc \in [Locker -> {"idle", "locked", "flushed", "wait", "sync",
                        "syncwait", "vif", "vifwait", "vifflushed"}]
  /\ halted \in BOOLEAN
  /\ restart \in {"no", "locked", "reset"}
  /\ iface \in [Vif -> {"up", "off", "cleared", "gone"}]
  /\ late \in Nat /\ overtaken \in Nat /\ left \subseteq Vif

\* What the transmit thread holds a buffer for, apart from what was written.
BhHolds == (IF bhpc \in {"alloc", "copied", "free"} THEN {cur} ELSE {})
           \cup ({need_confirm} \ {None})
BhHoldsVif == (IF bhpc = "copied" THEN {cur} ELSE {})
              \cup ({need_confirm} \ {None})

\* hw_bufs_used counts the packets that are between wsm_alloc_tx_buffer and
\* their answer or their release, exactly, across halts and restarts, and so do
\* the counters of the interfaces: WARN_ON(hw_bufs_used < 0) does not fire, and
\* a flush never waits for a buffer that nobody will release.
BuffersExact ==
  /\ hw_bufs_used = Cardinality(owed \cup BhHolds)
  /\ \A v \in Vif : hw_bufs_used_vif[v] =
       Cardinality({p \in (owed \cup BhHoldsVif
                           \cup (IF rxpc = "vif" THEN {rxcur} ELSE {}))
                          \cap Frame : VifOf[p] = v})

\* hw_bufs_free never promises more than the firmware has: what is written
\* always finds an input buffer, also when a batch is gathered while older
\* packets still occupy the channel.
NoOverrun ==
  /\ Cardinality(lmc) <= NumBufs
  /\ bhpc = "alloc" => hw_bufs_free > 0

\* After tx_lock was raised at most one more frame is counted until it is back
\* to 0: the one whose check of tx_lock came before.
OneLateFrame == late <= 1

\* What a successful wsm_flush_tx is worth while the lock is held: besides the
\* frame whose confirmation is being handled, one frame at most is between
\* atbm_queue_get and its removal.
FlushLeavesOneAtMost ==
  \A t \in Locker : pc[t] = "flushed" => Cardinality(pending \ {rxcur}) <= 1

\* A posted command is overtaken by one frame at most, however many are queued.
CommandGoesNext == cmd = "posted" => overtaken <= 1

\* Frames of an interface wait only for an unlock or for an answer of the
\* firmware, which both wake the transmit thread.
NothingToSend(v) ==
  (\A f \in queued : VifOf[f] # v) \/ tx_lock > 0 \/ hw_bufs_used >= NumBufs

\* The transmit thread does not sleep through work: with no wake-up due, no
\* command is posted, and an interface that is up has nothing to send unless
\* the last call of wsm_get_tx gave it up.  It does so in three places, where
\* the code really leaves frames for the next wake-up: wsm_handle_tx_data
\* dropped a frame of the interface, a frame of it vanished before
\* atbm_queue_get, or the other interface was looked at first and was listed
\* but no longer enabled.
NoLostWakeup ==
  bhpc = "asleep" /\ ~wakeup =>
    /\ cmd # "posted"
    /\ \A v \in Vif : iface[v] = "up" => NothingToSend(v) \/ v \in left

\* A flush made by wsm_lock_tx or wsm_vif_lock_tx ends without its time-out,
\* as long as the firmware answers what it was given.
LockingEnds ==
  \A t \in Locker :
    pc[t] \in {"syncwait", "vifwait"} ~> pc[t] \notin {"syncwait", "vifwait"}
=============================================================================
