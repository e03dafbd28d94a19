------------------------------ MODULE ApMcast ------------------------------
(***************************************************************************)
(* Multicast frames of an access point whose stations sleep (ap.c, txrx.c, *)
(* wsm.c).                                                                 *)
(*                                                                         *)
(* While a station sleeps, multicast frames stay on the transmit queue.    *)
(* multicast_start_work announces them in bit 0 of the beacon's TIM and    *)
(* arms mcast_timeout.  The firmware reports every DTIM beacon: then, or   *)
(* at the time-out, tx_multicast lets the transmit thread take them, and   *)
(* when it takes the last one multicast_stop_work takes the bit away.      *)
(*                                                                         *)
(* Five parties meet: transmitters, the transmit thread, the receive path, *)
(* the timer and the worker.  All but the worker hold ps_state_lock for    *)
(* the flags; the worker changes aid0_bit_set and the TIM under the TX     *)
(* lock.  The firmware and mac80211 are external.                          *)
(*                                                                         *)
(* The access point stays up.  Of the other interface only what it does to *)
(* the search of the transmit thread is here: it has frames or none, or is *)
(* not enabled.  Buffers and space in the device are TxLock's.             *)
(***************************************************************************)
EXTENDS Naturals, Sequences, FiniteSets

CONSTANTS
  MaxSta,   \* the largest link identifier (the AID of a station)
  MaxMc,    \* bound: multicast frames sent in one behaviour
  FwLinks   \* link identifiers that indications for unicast may have

ASSUME NumberAssumption == MaxSta \in Nat /\ MaxMc \in Nat
ASSUME FwLinksAssumption == FwLinks \subseteq 0 .. MaxSta

Sta == 1 .. MaxSta
All == 0  \* link identifier 0 stands for all links

\* Why the transmit thread sleeps: it has nothing to send or is locked, it has
\* lost a frame of the access point on the way, or the other interface kept it
\* from looking.
Asleep == {"asleep", "gaveup", "barred"}

VARIABLES
  link_id_map,         \* links in use
  sta_asleep_mask,
  buffered_multicasts, tx_multicast,
  aid0_bit_set,
  tim,                 \* bit 0 of the TIM in the firmware's beacon
  mcast_timeout,       \* the timer is pending
  queued,              \* multicast frames on the transmit queue
  sent,                \* multicast frames put there so far
  woken,               \* THREAD_WAKEUP of the transmit thread
  bh,                  \* where it is: looking ("idle"), about to take a frame
                       \* ("multicast", "unicast"), or sleeping (Asleep)
  rx,                  \* the receive path: "idle" or "del"
  wq, worker,          \* the queue of the worker thread; where it is
  tx_lock              \* TX is locked by the worker

maskVars   == <<link_id_map, sta_asleep_mask>>
windowVars == <<buffered_multicasts, tx_multicast>>
timVars    == <<aid0_bit_set, tim>>
queueVars  == <<queued, sent>>
rxVars     == <<rx>>
workVars   == <<wq, worker, tx_lock>>
vars == <<maskVars, windowVars, timVars, mcast_timeout, queueVars, woken, bh,
          rxVars, workVars>>

Init ==
  /\ link_id_map = {} /\ sta_asleep_mask = {}
  /\ buffered_multicasts = FALSE /\ tx_multicast = FALSE
  /\ aid0_bit_set = FALSE /\ tim = FALSE /\ mcast_timeout = FALSE
  /\ queued = 0 /\ sent = 0
  /\ woken = FALSE /\ bh = "asleep" /\ rx = "idle"
  /\ wq = <<>> /\ worker = "idle" /\ tx_lock = FALSE

-----------------------------------------------------------------------------
(* Work items.                                                             *)

Queued(w) == \E k \in 1 .. Len(wq) : wq[k] = w

\* queue_work: nothing happens when the item is queued already.
QueueWork(w) == wq' = IF Queued(w) THEN wq ELSE Append(wq, w)
QueueWorkIf(cond, w) == IF cond THEN QueueWork(w) ELSE UNCHANGED wq

\* cancel_work_sync of another item than the one that runs.
CancelWork(w) ==
  \/ /\ ~Queued(w) /\ UNCHANGED wq
  \/ \E k \in 1 .. Len(wq) :
       /\ wq[k] = w
       /\ wq' = [j \in 1 .. Len(wq) - 1 |-> wq[IF j < k THEN j ELSE j + 1]]

-----------------------------------------------------------------------------
(* Stations.                                                               *)

\* atbm_sta_add; its command wsm_map_link wakes the transmit thread.
StaAdd(s) ==
  /\ s \notin link_id_map
  /\ link_id_map' = link_id_map \cup {s}
  /\ sta_asleep_mask' = sta_asleep_mask \ {s}
  /\ woken' = TRUE
  /\ UNCHANGED <<windowVars, timVars, mcast_timeout, queueVars, bh, rxVars,
                 workVars>>

\* atbm_sta_remove: nothing is told to the worker; its command wakes the
\* transmit thread.
StaRemove(s) ==
  /\ s \in link_id_map
  /\ link_id_map' = link_id_map \ {s}
  /\ sta_asleep_mask' = sta_asleep_mask \ {s}
  /\ woken' = TRUE
  /\ UNCHANGED <<windowVars, timVars, mcast_timeout, queueVars, bh, rxVars,
                 workVars>>

\* atbm_tx_h_pm: an authentication frame is sent to a known station.
TxAuth(s) ==
  /\ s \in link_id_map
  /\ sta_asleep_mask' = sta_asleep_mask \ {s}
  /\ woken' = TRUE
  /\ UNCHANGED <<link_id_map, windowVars, timVars, mcast_timeout, queueVars,
                 bh, rxVars, workVars>>

\* __atbm_sta_notify, STA_NOTIFY_SLEEP of links none of which sleeps.
Sleeps(links) ==
  /\ QueueWorkIf(buffered_multicasts /\ sta_asleep_mask = {}, "start")
  /\ sta_asleep_mask' = sta_asleep_mask \cup links
  /\ UNCHANGED woken

\* Mutant: the transmit thread is not woken.
WakesSilently(links, link) ==
  /\ sta_asleep_mask' = sta_asleep_mask \ links
  /\ QueueWorkIf(tx_multicast /\ link # All /\ sta_asleep_mask' = {}, "stop")
  /\ UNCHANGED woken

\* __atbm_sta_notify, STA_NOTIFY_AWAKE of links some of which sleep.
Wakes(links, link) ==
  /\ sta_asleep_mask' = sta_asleep_mask \ links
  /\ QueueWorkIf(tx_multicast /\ link # All /\ sta_asleep_mask' = {}, "stop")
  /\ woken' = TRUE

\* atbm_sta_notify: mac80211 has seen the power management bit of a frame.
StaNotify(s) ==
  /\ s \in link_id_map
  /\ \/ s \notin sta_asleep_mask /\ Sleeps({s})
     \/ s \in sta_asleep_mask /\ Wakes({s}, s)
  /\ UNCHANGED <<link_id_map, windowVars, timVars, mcast_timeout, queueVars,
                 bh, rxVars, worker, tx_lock>>

\* atbm_suspend_resume for unicast.  wsm_suspend_resume_indication leaves
\* link_id uninitialized when the first interface is the access point: any
\* link may be meant, one without a station too.
FwUnicast(link) ==
  /\ rx = "idle"
  /\ \/ /\ link # All /\ link \notin sta_asleep_mask
        /\ Sleeps({link})
     \/ link = All /\ Sleeps({})
     \/ /\ link # All /\ link \in sta_asleep_mask
        /\ Wakes({link}, link)
     \/ /\ link = All /\ link_id_map \cap sta_asleep_mask # {}
        /\ Wakes(link_id_map, link)
     \/ woken' = TRUE /\ UNCHANGED <<sta_asleep_mask, wq>>
  /\ UNCHANGED <<link_id_map, windowVars, timVars, mcast_timeout, queueVars,
                 bh, rxVars, worker, tx_lock>>

-----------------------------------------------------------------------------
(* The transmit queue.                                                     *)

\* atbm_tx of a multicast frame, after the beacon was enabled.
Tx ==
  /\ sent < MaxMc
  /\ sent' = sent + 1 /\ queued' = queued + 1
  /\ buffered_multicasts' = TRUE
  /\ QueueWorkIf(~buffered_multicasts /\ sta_asleep_mask # {}, "start")
  /\ woken' = TRUE
  /\ UNCHANGED <<maskVars, tx_multicast, timVars, mcast_timeout, bh, rxVars,
                 worker, tx_lock>>

\* atbm_queue_gc drops a frame that has waited too long.
Expire ==
  /\ queued > 0
  /\ queued' = queued - 1
  /\ UNCHANGED <<maskVars, windowVars, timVars, mcast_timeout, sent, woken,
                 bh, rxVars, workVars>>

\* wsm_get_tx_queue_and_mask: only multicast frames are to be sent now.
Window == tx_multicast /\ queued > 0

\* The transmit thread is woken, and looks for a frame.
BhWake ==
  /\ bh \in Asleep /\ woken
  /\ woken' = FALSE /\ bh' = "idle"
  /\ UNCHANGED <<maskVars, windowVars, timVars, mcast_timeout, queueVars,
                 rxVars, workVars>>

\* wsm_get_tx does not look at the access point: TX is locked, or the other
\* interface comes first and is not enabled.
BhKeptOut ==
  /\ bh = "idle"
  /\ bh' = IF tx_lock THEN "asleep" ELSE "barred"
  /\ UNCHANGED <<maskVars, windowVars, timVars, mcast_timeout, queueVars, woken,
                 rxVars, workVars>>

\* A queue is selected, frames for stations being queued or not.  With nothing
\* to send the thread sleeps, or goes on with the other interface.
SelectQueue(unicast) ==
  /\ bh = "idle" /\ ~tx_lock
  /\ \/ Window /\ bh' = "multicast"
     \/ sta_asleep_mask = {} /\ queued > 0 /\ bh' = "multicast"
     \/ unicast /\ ~Window /\ bh' = "unicast"
     \/ /\ ~Window /\ ~unicast
        /\ sta_asleep_mask # {} \/ queued = 0
        /\ bh' \in {"asleep", "idle"}

\* Mutants of the selection: no flag is reset; the window stays open.
BhSelectKeeps(unicast) ==
  /\ SelectQueue(unicast)
  /\ UNCHANGED <<maskVars, windowVars, timVars, mcast_timeout, queueVars, woken,
                 rxVars, workVars>>

BhSelectKeepsWindow(unicast) ==
  /\ SelectQueue(unicast)
  /\ IF /\ buffered_multicasts
        /\ ~(Window /\ queued > 1)
        /\ tx_multicast \/ sta_asleep_mask = {}
     THEN /\ buffered_multicasts' = FALSE
          /\ QueueWorkIf(tx_multicast, "stop")
     ELSE UNCHANGED <<buffered_multicasts, wq>>
  /\ UNCHANGED <<maskVars, tx_multicast, timVars, mcast_timeout, queueVars,
                 woken, rxVars, worker, tx_lock>>

\* wsm_get_tx looks at the access point under ps_state_lock: when the last
\* multicast frame of the window is to be taken or no station sleeps, the
\* flags are reset.
BhSelect(unicast) ==
  /\ SelectQueue(unicast)
  /\ IF /\ buffered_multicasts
        /\ ~(Window /\ queued > 1)
        /\ tx_multicast \/ sta_asleep_mask = {}
     THEN /\ buffered_multicasts' = FALSE /\ tx_multicast' = FALSE
          /\ QueueWorkIf(tx_multicast, "stop")
     ELSE UNCHANGED <<windowVars, wq>>
  /\ UNCHANGED <<maskVars, timVars, mcast_timeout, queueVars, woken, rxVars,
                 worker, tx_lock>>

\* Mutant: the frame that has expired is taken.
BhGetExpired ==
  /\ bh \in {"multicast", "unicast"}
  /\ queued' = IF bh = "multicast" THEN queued - 1 ELSE queued
  /\ bh' = "idle"
  /\ UNCHANGED <<maskVars, windowVars, timVars, mcast_timeout, sent, woken,
                 rxVars, workVars>>

\* atbm_queue_get, after the lock was given back, and wsm_handle_tx_data take
\* a frame ...
BhGet ==
  /\ \/ bh = "multicast" /\ queued > 0 /\ queued' = queued - 1
     \/ bh = "unicast" /\ UNCHANGED queued
  /\ bh' = "idle"
  /\ UNCHANGED <<maskVars, windowVars, timVars, mcast_timeout, sent, woken,
                 rxVars, workVars>>

\* ... or there is none: it has expired, or is for a station that is gone and
\* is dropped.  The other interface is the last to be tried: the thread goes
\* on with a frame of it, or sleeps.
BhLose ==
  /\ bh = "unicast" \/ (bh = "multicast" /\ queued = 0)
  /\ bh' \in {"idle", "gaveup"}
  /\ UNCHANGED <<maskVars, windowVars, timVars, mcast_timeout, queueVars, woken,
                 rxVars, workVars>>

-----------------------------------------------------------------------------
(* atbm_suspend_resume for multicast, and atbm_mcast_timeout.              *)

\* The firmware has sent a DTIM beacon; it does when a station sleeps.
DtimStart ==
  /\ rx = "idle" /\ link_id_map \cap sta_asleep_mask # {}
  /\ tx_multicast' = (aid0_bit_set /\ buffered_multicasts)
  /\ IF tx_multicast'
     THEN woken' = TRUE /\ rx' = "del"
     ELSE UNCHANGED <<woken, rx>>
  /\ UNCHANGED <<maskVars, buffered_multicasts, timVars, mcast_timeout,
                 queueVars, bh, workVars>>

\* del_timer_sync, after ps_state_lock was given back.
DtimDelTimer ==
  /\ rx = "del"
  /\ mcast_timeout' = FALSE
  /\ rx' = "idle"
  /\ UNCHANGED <<maskVars, windowVars, timVars, queueVars, woken, bh,
                 workVars>>

\* The firmware takes no more multicast frames, after a DTIM beacon or a window
\* that the timer opened.
DtimStop ==
  /\ rx = "idle"
  /\ tx_multicast' = FALSE
  /\ UNCHANGED <<maskVars, buffered_multicasts, timVars, mcast_timeout,
                 queueVars, woken, bh, rx, workVars>>

\* The DTIM beacon was not reported: the timer opens the window, or has the
\* announcement taken back.
McastTimeout ==
  /\ mcast_timeout
  /\ mcast_timeout' = FALSE
  /\ tx_multicast' = (aid0_bit_set /\ buffered_multicasts)
  /\ IF tx_multicast'
     THEN woken' = TRUE /\ UNCHANGED wq
     ELSE QueueWorkIf(aid0_bit_set, "stop") /\ UNCHANGED woken
  /\ UNCHANGED <<maskVars, buffered_multicasts, timVars, queueVars, bh, rxVars,
                 worker, tx_lock>>

-----------------------------------------------------------------------------
(* The worker.                                                             *)

WqTake ==
  /\ worker = "idle" /\ wq # <<>>
  /\ worker' = Head(wq) /\ wq' = Tail(wq)
  /\ UNCHANGED <<maskVars, windowVars, timVars, mcast_timeout, queueVars,
                 woken, bh, rxVars, tx_lock>>

\* Mutant: a pending stop is not cancelled.
StartKeepsStop ==
  /\ worker = "start"
  /\ worker' = IF aid0_bit_set THEN "idle" ELSE "start_lock"
  /\ UNCHANGED <<maskVars, windowVars, timVars, mcast_timeout, queueVars,
                 woken, bh, rxVars, wq, tx_lock>>

\* atbm_multicast_start_work: a pending stop is cancelled.
StartWork ==
  /\ worker = "start"
  /\ CancelWork("stop")
  /\ worker' = IF aid0_bit_set THEN "idle" ELSE "start_lock"
  /\ UNCHANGED <<maskVars, windowVars, timVars, mcast_timeout, queueVars,
                 woken, bh, rxVars, tx_lock>>

\* atbm_multicast_stop_work.
StopWork ==
  /\ worker = "stop"
  /\ worker' = IF aid0_bit_set THEN "stop_lock" ELSE "idle"
  /\ mcast_timeout' = (mcast_timeout /\ ~aid0_bit_set)
  /\ UNCHANGED <<maskVars, windowVars, timVars, queueVars, woken, bh, rxVars, wq,
                 tx_lock>>

\* wsm_lock_tx: the frame the transmit thread has selected is not stopped.
Lock ==
  /\ \/ worker = "start_lock" /\ worker' = "start_tim"
     \/ worker = "stop_lock"  /\ worker' = "stop_aid0"
  /\ tx_lock' = TRUE
  /\ UNCHANGED <<maskVars, windowVars, timVars, mcast_timeout, queueVars,
                 woken, bh, rxVars, wq>>

\* Mutant: aid0_bit_set is changed first.
AnnounceLate ==
  /\ \/ /\ worker = "start_tim" /\ worker' = "start_aid0"
        /\ aid0_bit_set' = TRUE /\ UNCHANGED tim
     \/ /\ worker = "start_aid0" /\ worker' = "start_timer"
        /\ tim' = TRUE /\ UNCHANGED aid0_bit_set
  /\ UNCHANGED <<maskVars, windowVars, mcast_timeout, queueVars, woken, bh,
                 rxVars, wq, tx_lock>>

\* atbm_set_tim_impl tells the firmware, then aid0_bit_set is set.
Announce ==
  /\ \/ /\ worker = "start_tim" /\ worker' = "start_aid0"
        /\ tim' = TRUE /\ UNCHANGED aid0_bit_set
     \/ /\ worker = "start_aid0" /\ worker' = "start_timer"
        /\ aid0_bit_set' = TRUE /\ UNCHANGED tim
  /\ UNCHANGED <<maskVars, windowVars, mcast_timeout, queueVars, woken, bh,
                 rxVars, wq, tx_lock>>

StartTimer ==
  /\ worker = "start_timer" /\ worker' = "unlock"
  /\ mcast_timeout' = TRUE
  /\ UNCHANGED <<maskVars, windowVars, timVars, queueVars, woken, bh, rxVars, wq,
                 tx_lock>>

Withdraw ==
  /\ \/ /\ worker = "stop_aid0" /\ worker' = "stop_tim"
        /\ aid0_bit_set' = FALSE /\ UNCHANGED tim
     \/ /\ worker = "stop_tim" /\ worker' = "unlock"
        /\ tim' = FALSE /\ UNCHANGED aid0_bit_set
  /\ UNCHANGED <<maskVars, windowVars, mcast_timeout, queueVars, woken, bh,
                 rxVars, wq, tx_lock>>

\* wsm_unlock_tx.
Unlock ==
  /\ worker = "unlock" /\ worker' = "idle"
  /\ tx_lock' = FALSE /\ woken' = TRUE
  /\ UNCHANGED <<maskVars, windowVars, timVars, mcast_timeout, queueVars, bh,
                 rxVars, wq>>

\* atbm_set_tim: the TIM bit of a station changes, and the worker sends the
\* TIM again (atbm_set_tim_work).
SetTim ==
  /\ QueueWork("tim") /\ ~Queued("tim")
  /\ UNCHANGED <<maskVars, windowVars, timVars, mcast_timeout, queueVars,
                 woken, bh, rxVars, worker, tx_lock>>

SetTimWork ==
  /\ worker = "tim" /\ worker' = "idle"
  /\ tim' = aid0_bit_set
  /\ UNCHANGED <<maskVars, windowVars, aid0_bit_set, mcast_timeout, queueVars,
                 woken, bh, rxVars, wq, tx_lock>>

-----------------------------------------------------------------------------

StaStep(s) == StaAdd(s) \/ StaRemove(s) \/ TxAuth(s) \/ StaNotify(s)
BhStep     == \/ BhWake \/ BhKeptOut \/ BhGet \/ BhLose
              \/ \E unicast \in BOOLEAN : BhSelect(unicast)
WorkerStep == \/ WqTake \/ StartWork \/ StopWork \/ Lock \/ Announce
              \/ StartTimer \/ Withdraw \/ Unlock \/ SetTimWork

Next ==
  \/ \E s \in Sta : StaStep(s)
  \/ \E link \in FwLinks : FwUnicast(link)
  \/ Tx \/ Expire \/ SetTim
  \/ BhStep \/ WorkerStep
  \/ DtimStart \/ DtimDelTimer \/ DtimStop \/ McastTimeout

Spec == Init /\ [][Next]_vars

Fairness ==
  /\ WF_vars(WorkerStep) /\ WF_vars(BhStep)
  /\ SF_vars(tx_multicast /\ ~tx_lock /\ BhWake)
  /\ SF_vars(tx_multicast /\ (BhGet \/ BhLose))
  /\ SF_vars(tx_multicast /\ \E unicast \in BOOLEAN : BhSelect(unicast))
  /\ WF_vars(DtimDelTimer) /\ WF_vars(McastTimeout) /\ WF_vars(DtimStart)

FairSpec == Spec /\ Fairness

-----------------------------------------------------------------------------
(* Properties.                                                             *)

\* The variables have their types; a frame that is not there is not taken.
TypeOK ==
  /\ link_id_map \subseteq Sta /\ sta_asleep_mask \subseteq Sta
  /\ buffered_multicasts \in BOOLEAN /\ tx_multicast \in BOOLEAN
  /\ aid0_bit_set \in BOOLEAN /\ tim \in BOOLEAN /\ mcast_timeout \in BOOLEAN
  /\ queued \in 0 .. MaxMc /\ sent \in 0 .. MaxMc
  /\ woken \in BOOLEAN /\ bh \in {"idle", "multicast", "unicast"} \cup Asleep
  /\ rx \in {"idle", "del"}
  /\ wq \in Seq({"start", "stop", "tim"})
  /\ worker \in {"idle", "start", "start_lock", "start_tim", "start_aid0",
                 "start_timer", "stop", "stop_lock", "stop_aid0", "stop_tim",
                 "unlock", "tim"}
  /\ tx_lock \in BOOLEAN

\* While a station sleeps, multicast frames that wait are announced in the
\* TIM with nothing pending that would take the announcement back, or
\* multicast_start_work has yet to run: against the transmitters, sleeps,
\* wakes, windows and time-outs that queue start and stop in any order.
Announced ==
  sta_asleep_mask # {} /\ buffered_multicasts =>
    \/ Queued("start")
    \/ worker \in {"start", "start_lock", "start_tim", "start_aid0"}
    \/ /\ aid0_bit_set /\ ~Queued("stop")
       /\ worker \notin {"stop", "stop_lock", "stop_aid0"}

\* The receive path and the timer open the window only while the beacon of
\* the firmware announces multicast frames, although they read aid0_bit_set
\* without the lock under which the worker changes beacon and bit.
WindowAnnounced == [][tx_multicast' /\ ~tx_multicast => tim]_vars

\* An open window has frames to send: the two flags, set by three threads,
\* are reset together when the last frame is taken.
WindowHasFrames == tx_multicast => buffered_multicasts

\* When nobody sleeps the transmit thread does not go to sleep on a multicast
\* frame, whoever was the last to wake and however it was noted.  Two ends of
\* wsm_get_tx are left out, where the code lets it: after a frame of the access
\* point that had expired or was dropped, and at the other interface when that
\* is not enabled.
OnItsWay ==
  queued > 0 /\ sta_asleep_mask = {} /\ ~tx_lock =>
    woken \/ bh # "asleep"

\* When stations stop changing their state, and the other interface being not
\* enabled stops to keep the transmit thread from looking, what is buffered is
\* sent or has expired some time, and the flag is reset.  The flag may stay
\* when the last frame expired on the way, and frames when a link without a
\* station is said to sleep.
McastEnds ==
  <>[][FALSE]_maskVars /\ <>[](bh # "barred") =>
    (buffered_multicasts ~>
       \/ ~buffered_multicasts
       \/ queued = 0 /\ bh = "gaveup"
       \/ sta_asleep_mask \ link_id_map # {})

\* What the comment at ap.c:1365 says: when the timer finds no multicast
\* frame buffered under an announcement, the transmit thread has sent them
\* all, or is sending them because all stations are awake.
TimeoutMeansSent ==
  [][McastTimeout /\ aid0_bit_set /\ ~buffered_multicasts =>
       queued = 0 \/ bh = "multicast" \/ sta_asleep_mask = {}]_vars
=============================================================================
