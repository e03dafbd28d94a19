-------------------------------- MODULE Scan --------------------------------
(***************************************************************************)
(* Scanning and the operation lock (scan.c, wsm.c).                        *)
(*                                                                         *)
(* atbm_hw_scan takes scan.lock, locks the transmitter and queues          *)
(* scan.work.  The worker takes the semaphore wsm_oper_lock and starts the *)
(* scan in the firmware; the bottom half gives wsm_oper_lock back when the *)
(* firmware reports that the scan is complete, and lets scan.timeout end   *)
(* the scan at once.  When nothing is reported in time scan.timeout stops  *)
(* the scan itself.  wsm_set_pm takes the same semaphore, which the        *)
(* indication of the firmware or a timer of two seconds gives back.        *)
(*                                                                         *)
(* A firmware command is atomic but for the wait for its answer: WsmCmd    *)
(* has the details.  The firmware and mac80211 are external.               *)
(***************************************************************************)
EXTENDS Integers, Sequences, FiniteSets

CONSTANTS
  MaxScans,  \* bound: calls of atbm_hw_scan that reach scan.lock
  MaxRx,     \* bound: messages of the firmware not handled yet
  MayHappen  \* sets of things that may happen in one behaviour, of:
             \*   "pm":   mac80211 changes the power save mode
             \*   "late": an indication of the firmware comes after its timeout
             \*   "dies": the firmware stops, and the device is restarted

ASSUME NumberAssumption == MaxScans \in Nat /\ MaxRx \in Nat
ASSUME MayAssumption    == MayHappen \subseteq SUBSET {"pm", "late", "dies"}

Thread == {"mac", "wq", "user", "bh"}
Scans  == 1 .. MaxScans
None   == "none"
NoCmd  == [id |-> None, state |-> None]
CmdID  == {"template", "scan", "stop", "pm", "start"}

VARIABLES
  may,           \* what may happen in this behaviour
  pc,            \* where each thread is
  scan_lock,     \* scan.lock, a semaphore
  wsm_oper_lock, \* the semaphore
  conf_mutex,    \* its holder
  tx_lock,       \* how often the modelled threads have locked TX
  stayawak_cnt,  \* how often they hold off suspend
  cmd,           \* the command wsm_cmd_mux protects, or NoCmd
  req,           \* scan.req: the number of the scan, 0 for NULL
  status,        \* scan.status: 0, 1 or a reason for failure
  curr,          \* scan.curr is scan.begin or scan.end
  in_progress,   \* scan.in_progress
  timer,         \* the timer of scan.timeout is running
  wq,            \* the queue of the single worker thread
  pm_running, pm_timer,  \* wsm_pm_running; wsm_pm_timer is pending
  op,            \* the command the users of wsm_oper_lock are about
  alive,         \* the firmware runs
  up,            \* ~atbm_bh_is_term
  flushed,       \* the barrier of atbm_flush_workqueue was reached
  pass,          \* calls of atbm_destroy_wsm_cmd in this restart
  rxOn, rxCb,    \* receive path is running; is in atbm_scan_complete_cb
  fw, fwPm,      \* scan the firmware is at; it will send a pm indication
  rx,            \* messages from the firmware, in order
  report,        \* what became of each scan
  scans,         \* number of the last scan
  awaited,       \* history: confirmed scan whose completion is not handled
  heard          \* history: scans whose completion was handled

lockVars == <<scan_lock, wsm_oper_lock, conf_mutex, tx_lock, stayawak_cnt>>
scanVars == <<req, status, curr, in_progress, timer>>
pmVars   == <<pm_running, pm_timer>>
bhVars   == <<alive, up, flushed, pass, rxOn, rxCb>>
fwVars   == <<fw, fwPm, rx>>
histVars == <<report, scans, awaited, heard>>
vars == <<may, pc, lockVars, cmd, scanVars, wq, pmVars, op, bhVars,
          fwVars, histVars>>

Init ==
  /\ may \in MayHappen
  /\ pc = [t \in Thread |-> "idle"]
  /\ scan_lock = 1 /\ wsm_oper_lock = 1 /\ conf_mutex = None
  /\ tx_lock = 0 /\ stayawak_cnt = 0
  /\ cmd = NoCmd
  /\ req = 0 /\ status = "zero" /\ curr = "end" /\ in_progress = FALSE
  /\ timer = FALSE /\ wq = <<>>
  /\ pm_running = FALSE /\ pm_timer = FALSE
  /\ op = [t \in Thread |-> "start"]
  /\ alive = TRUE /\ up = TRUE /\ flushed = FALSE /\ pass = 0 /\ rxOn = TRUE
  /\ rxCb = FALSE
  /\ fw = 0 /\ fwPm = FALSE /\ rx = <<>>
  /\ report = [n \in Scans |-> None] /\ scans = 0
  /\ awaited = 0 /\ heard = {}

-----------------------------------------------------------------------------
(* Work items, the delayed work and commands.                              *)

Go(t, place) == pc' = [pc EXCEPT ![t] = place]

Queued(w) == \E k \in DOMAIN wq : wq[k] = w

\* cancel_work: the queue s without w, which is queued at most once.
Without(s, w) ==
  IF \E k \in DOMAIN s : s[k] = w
  THEN LET n == CHOOSE k \in DOMAIN s : s[k] = w
       IN  [j \in 1 .. Len(s) - 1 |-> s[IF j < n THEN j ELSE j + 1]]
  ELSE s

\* queue_work: nothing happens when the item is queued already.
QueueWork(w) == wq' = IF Queued(w) THEN wq ELSE Append(wq, w)

\* scan.timeout is pending: its timer runs or it is queued.
TimeoutPending == timer \/ Queued("timeout")

\* cancel_delayed_work(&scan.timeout).
CancelTimeout == timer' = FALSE /\ wq' = Without(wq, "timeout")

\* The worker takes the next item; a barrier tells the thread in
\* atbm_flush_workqueue that all that was queued before it is done.
WqTake ==
  /\ pc["wq"] = "idle" /\ wq # <<>>
  /\ wq' = Tail(wq)
  /\ IF Head(wq) = "barrier"
     THEN flushed' = TRUE /\ UNCHANGED pc
     ELSE Go("wq", Head(wq)) /\ UNCHANGED flushed
  /\ UNCHANGED <<may, lockVars, cmd, scanVars, pmVars, op, alive, up, pass,
                 rxOn, rxCb, fwVars, histVars>>

\* Nothing is reported in time: the timer of scan.timeout expires.
TimerExpires ==
  /\ timer
  /\ \/ "late" \in may
     \/ /\ ~alive /\ ~rxCb
        /\ rxOn => \A k \in DOMAIN rx : rx[k].msg # "scan_ind"
  /\ timer' = FALSE
  /\ QueueWork("timeout")
  /\ UNCHANGED <<may, pc, lockVars, cmd, req, status, curr, in_progress,
                 pmVars, op, bhVars, fwVars, histVars>>

\* wsm_cmd_lock and wsm_cmd_send, up to the wait for the answer: an error at
\* once when the device is down.
Send(id) ==
  /\ cmd = NoCmd
  /\ cmd' = [id |-> id, state |-> IF up THEN "sent" ELSE "err"]

\* wsm_cmd_send returns and wsm_cmd_unlock is called.
Returned(state) ==
  /\ cmd # NoCmd /\ cmd.state = state
  /\ cmd' = NoCmd

\* Nobody answers: wsm_cmd_send gives up and halts the device.
CmdTimeout ==
  /\ cmd # NoCmd /\ cmd.state \in {"sent", "taken"}
  /\ ~alive
  /\ \A k \in DOMAIN rx : rx[k].msg # "confirm"
  /\ cmd' = [cmd EXCEPT !.state = "err"]
  /\ up' = FALSE
  /\ UNCHANGED <<may, pc, lockVars, scanVars, wq, pmVars, op, alive, flushed,
                 pass, rxOn, rxCb, fwVars, histVars>>

-----------------------------------------------------------------------------
(* atbm_hw_scan.                                                           *)

\* The device must be up; mac80211 has one scan at a time.
HwScan ==
  /\ pc["mac"] = "idle" /\ scans < MaxScans /\ up
  /\ scans > 0 => report[scans] # "pending"
  /\ scans' = scans + 1
  /\ stayawak_cnt' = stayawak_cnt + 1
  /\ Go("mac", "scan_lock")
  /\ UNCHANGED <<may, scan_lock, wsm_oper_lock, conf_mutex, tx_lock, cmd,
                 scanVars, wq, pmVars, op, bhVars, fwVars, report, awaited,
                 heard>>

HwScanDown ==
  /\ pc["mac"] = "scan_lock" /\ scan_lock > 0
  /\ scan_lock' = scan_lock - 1
  /\ Go("mac", "conf")
  /\ UNCHANGED <<may, wsm_oper_lock, conf_mutex, tx_lock, stayawak_cnt, cmd,
                 scanVars, wq, pmVars, op, bhVars, fwVars, histVars>>

HwScanConf ==
  /\ pc["mac"] = "conf" /\ conf_mutex = None
  /\ conf_mutex' = "mac"
  /\ Go("mac", "template")
  /\ UNCHANGED <<may, scan_lock, wsm_oper_lock, tx_lock, stayawak_cnt, cmd,
                 scanVars, wq, pmVars, op, bhVars, fwVars, histVars>>

\* wsm_set_template_frame.
HwScanTemplate ==
  /\ pc["mac"] = "template"
  /\ Send("template")
  /\ Go("mac", "template_cnf")
  /\ UNCHANGED <<may, lockVars, scanVars, wq, pmVars, op, bhVars, fwVars,
                 histVars>>

\* Mutant: the error path forgets up(&scan.lock).
HwScanRefusedLocked ==
  /\ pc["mac"] = "template_cnf" /\ Returned("err")
  /\ conf_mutex' = None
  /\ stayawak_cnt' = stayawak_cnt - 1
  /\ report' = [report EXCEPT ![scans] = "refused"]
  /\ Go("mac", "idle")
  /\ UNCHANGED <<may, scan_lock, wsm_oper_lock, tx_lock, scanVars, wq,
                 pmVars, op, bhVars, fwVars, scans, awaited, heard>>

HwScanRefused ==
  /\ pc["mac"] = "template_cnf" /\ Returned("err")
  /\ conf_mutex' = None
  /\ scan_lock' = scan_lock + 1
  /\ stayawak_cnt' = stayawak_cnt - 1
  /\ report' = [report EXCEPT ![scans] = "refused"]
  /\ Go("mac", "idle")
  /\ UNCHANGED <<may, wsm_oper_lock, tx_lock, scanVars, wq, pmVars, op,
                 bhVars, fwVars, scans, awaited, heard>>

\* TX is locked and flushed, the request is stored and scan.work queued.
HwScanQueue ==
  /\ pc["mac"] = "template_cnf" /\ Returned("ok")
  /\ tx_lock' = tx_lock + 1
  /\ req' = scans /\ status' = "zero" /\ curr' = "begin"
  /\ conf_mutex' = None
  /\ QueueWork("work")
  /\ report' = [report EXCEPT ![scans] = "pending"]
  /\ Go("mac", "idle")
  /\ UNCHANGED <<may, scan_lock, wsm_oper_lock, stayawak_cnt, in_progress,
                 timer, pmVars, op, bhVars, fwVars, scans, awaited, heard>>

-----------------------------------------------------------------------------
(* atbm_scan_work and atbm_scan_timeout, run by the worker, or by the      *)
(* bottom half when a restart cancels the scan.                            *)

\* The work ends: the worker is idle, a restart goes on.
Return(t) == Go(t, IF t = "wq" THEN "idle" ELSE "flush3")

ScanWork(t) ==
  /\ pc[t] = "work" /\ conf_mutex = None
  /\ conf_mutex' = t
  /\ Go(t, "work_run")
  /\ UNCHANGED <<may, scan_lock, wsm_oper_lock, tx_lock, stayawak_cnt, cmd,
                 scanVars, wq, pmVars, op, bhVars, fwVars, histVars>>

\* Mutant: scan.req is left set.
ScanDoneKeepsReq(t) ==
  /\ pc[t] = "work_run" /\ (req = 0 \/ curr = "end")
  /\ tx_lock' = tx_lock - 1
  /\ conf_mutex' = None
  /\ Go(t, "finish")
  /\ UNCHANGED <<may, scan_lock, wsm_oper_lock, stayawak_cnt, cmd, req, status,
                 curr, in_progress, timer, wq, pmVars, op, bhVars, fwVars,
                 histVars>>

\* All is scanned, or the scan failed.
ScanDone(t) ==
  /\ pc[t] = "work_run" /\ (req = 0 \/ curr = "end")
  /\ req' = 0
  /\ tx_lock' = tx_lock - 1
  /\ conf_mutex' = None
  /\ Go(t, "finish")
  /\ UNCHANGED <<may, scan_lock, wsm_oper_lock, stayawak_cnt, cmd, status,
                 curr, in_progress, timer, wq, pmVars, op, bhVars, fwVars,
                 histVars>>

\* ieee80211_scan_completed, and the locks of atbm_hw_scan are given back.
ScanFinish(t) ==
  /\ pc[t] = "finish"
  /\ report' = [report EXCEPT ![scans] =
                  IF status = "zero" THEN "ok" ELSE "aborted"]
  /\ scan_lock' = scan_lock + 1
  /\ stayawak_cnt' = stayawak_cnt - 1
  /\ Return(t)
  /\ UNCHANGED <<may, wsm_oper_lock, conf_mutex, tx_lock, cmd, scanVars, wq,
                 pmVars, op, bhVars, fwVars, scans, awaited, heard>>

\* atbm_scan_start: the timeout is queued before wsm_scan has the lock.
ScanBegin(t) ==
  /\ pc[t] = "work_run" /\ req # 0 /\ curr = "begin"
  /\ in_progress' = TRUE
  /\ timer' = (timer \/ ~Queued("timeout"))
  /\ Go(t, "scan_oper")
  /\ UNCHANGED <<may, lockVars, cmd, req, status, curr, wq, pmVars, op,
                 bhVars, fwVars, histVars>>

\* wsm_scan.
ScanOper(t) ==
  /\ pc[t] = "scan_oper" /\ wsm_oper_lock > 0
  /\ wsm_oper_lock' = wsm_oper_lock - 1
  /\ Go(t, "scan_cmd")
  /\ UNCHANGED <<may, scan_lock, conf_mutex, tx_lock, stayawak_cnt, cmd,
                 scanVars, wq, pmVars, op, bhVars, fwVars, histVars>>

ScanSend(t) ==
  /\ pc[t] = "scan_cmd"
  /\ Send("scan")
  /\ Go(t, "scan_cnf")
  /\ UNCHANGED <<may, lockVars, scanVars, wq, pmVars, op, bhVars, fwVars,
                 histVars>>

\* The scan runs; wsm_oper_lock is kept.
ScanStarted(t) ==
  /\ pc[t] = "scan_cnf" /\ Returned("ok")
  /\ curr' = "end"
  /\ conf_mutex' = None
  /\ Return(t)
  /\ UNCHANGED <<may, scan_lock, wsm_oper_lock, tx_lock, stayawak_cnt, req,
                 status, in_progress, timer, wq, pmVars, op, bhVars, fwVars,
                 histVars>>

\* Mutant: the error path of wsm_scan forgets wsm_oper_unlock.
ScanRejectedKeeps(t) ==
  /\ pc[t] = "scan_cnf" /\ Returned("err")
  /\ Go(t, "scan_fail")
  /\ UNCHANGED <<may, lockVars, scanVars, wq, pmVars, op, bhVars, fwVars,
                 histVars>>

ScanRejected(t) ==
  /\ pc[t] = "scan_cnf" /\ Returned("err")
  /\ wsm_oper_lock' = wsm_oper_lock + 1
  /\ Go(t, "scan_fail")
  /\ UNCHANGED <<may, scan_lock, conf_mutex, tx_lock, stayawak_cnt, scanVars,
                 wq, pmVars, op, bhVars, fwVars, histVars>>

\* Mutants: the failed scan is not reported; scan.lock is given back twice.
ScanFailSilent(t) ==
  /\ pc[t] = "scan_fail"
  /\ in_progress' = FALSE
  /\ CancelTimeout
  /\ status' = "failed" /\ curr' = "end"
  /\ conf_mutex' = None
  /\ Return(t)
  /\ UNCHANGED <<may, scan_lock, wsm_oper_lock, tx_lock, stayawak_cnt, cmd,
                 req, pmVars, op, bhVars, fwVars, histVars>>

ScanFailUnlocks(t) ==
  /\ pc[t] = "scan_fail"
  /\ in_progress' = FALSE
  /\ timer' = FALSE
  /\ wq' = Append(Without(Without(wq, "timeout"), "work"), "work")
  /\ status' = "failed" /\ curr' = "end"
  /\ conf_mutex' = None
  /\ scan_lock' = scan_lock + 1
  /\ Return(t)
  /\ UNCHANGED <<may, wsm_oper_lock, tx_lock, stayawak_cnt, cmd, req, pmVars,
                 op, bhVars, fwVars, histVars>>

\* atbm_scan_start fails: the work is queued again to report it.
ScanFail(t) ==
  /\ pc[t] = "scan_fail"
  /\ in_progress' = FALSE
  /\ timer' = FALSE
  /\ wq' = Append(Without(Without(wq, "timeout"), "work"), "work")
  /\ status' = "failed" /\ curr' = "end"
  /\ conf_mutex' = None
  /\ Return(t)
  /\ UNCHANGED <<may, scan_lock, wsm_oper_lock, tx_lock, stayawak_cnt, cmd,
                 req, pmVars, op, bhVars, fwVars, histVars>>

\* Mutant: a scan that timed out is reported as one that succeeded.
ScanTimeoutKeepsStatus(t) ==
  /\ pc[t] = "timeout"
  /\ in_progress' = FALSE
  /\ IF in_progress /\ status = "zero"
     THEN curr' = "end" /\ Go(t, "stop") /\ UNCHANGED status
     ELSE /\ status' = IF in_progress /\ status = "done"
                       THEN "zero" ELSE status
          /\ IF in_progress THEN Go(t, "work") ELSE Return(t)
          /\ UNCHANGED curr
  /\ UNCHANGED <<may, lockVars, cmd, req, timer, wq, pmVars, op, bhVars,
                 fwVars, histVars>>

\* atbm_scan_timeout, after the report or without one.
ScanTimeout(t) ==
  /\ pc[t] = "timeout"
  /\ in_progress' = FALSE
  /\ IF in_progress /\ status = "zero"
     THEN /\ status' = "timedout" /\ curr' = "end"
          /\ Go(t, "stop")
     ELSE /\ status' = IF in_progress /\ status = "done"
                       THEN "zero" ELSE status
          /\ IF in_progress THEN Go(t, "work") ELSE Return(t)
          /\ UNCHANGED curr
  /\ UNCHANGED <<may, lockVars, cmd, req, timer, wq, pmVars, op, bhVars,
                 fwVars, histVars>>

\* wsm_stop_scan.
StopSend(t) ==
  /\ pc[t] = "stop"
  /\ Send("stop")
  /\ Go(t, "stop_cnf")
  /\ UNCHANGED <<may, lockVars, scanVars, wq, pmVars, op, bhVars, fwVars,
                 histVars>>

\* The firmware will report the end of the scan: wsm_oper_lock is kept.
StopConfirmed(t) ==
  /\ pc[t] = "stop_cnf" /\ Returned("ok")
  /\ Go(t, "work")
  /\ UNCHANGED <<may, lockVars, scanVars, wq, pmVars, op, bhVars, fwVars,
                 histVars>>

StopFailed(t) ==
  /\ pc[t] = "stop_cnf" /\ Returned("err")
  /\ wsm_oper_lock' = wsm_oper_lock + 1
  /\ awaited' = 0
  /\ Go(t, "work")
  /\ UNCHANGED <<may, scan_lock, conf_mutex, tx_lock, stayawak_cnt, scanVars,
                 wq, pmVars, op, bhVars, fwVars, report, scans, heard>>

ScanStep(t) ==
  \/ ScanWork(t) \/ ScanDone(t) \/ ScanFinish(t) \/ ScanBegin(t)
  \/ ScanOper(t) \/ ScanSend(t) \/ ScanStarted(t) \/ ScanRejected(t)
  \/ ScanFail(t) \/ ScanTimeout(t) \/ StopSend(t) \/ StopConfirmed(t)
  \/ StopFailed(t)

-----------------------------------------------------------------------------
(* Other users of wsm_oper_lock and scan.lock.                             *)

\* A configuration call takes conf_mutex for wsm_start or wsm_set_pm.
OpBegin ==
  /\ pc["user"] = "idle" /\ up /\ conf_mutex = None
  /\ conf_mutex' = "user"
  /\ \E id \in {"start"} \cup (may \cap {"pm"}) : op' = [op EXCEPT !["user"] = id]
  /\ Go("user", "oper")
  /\ UNCHANGED <<may, scan_lock, wsm_oper_lock, tx_lock, stayawak_cnt, cmd,
                 scanVars, wq, pmVars, bhVars, fwVars, histVars>>

OpOper(t) ==
  /\ pc[t] = "oper" /\ wsm_oper_lock > 0
  /\ wsm_oper_lock' = wsm_oper_lock - 1
  /\ Go(t, "op_cmd")
  /\ UNCHANGED <<may, scan_lock, conf_mutex, tx_lock, stayawak_cnt, cmd,
                 scanVars, wq, pmVars, op, bhVars, fwVars, histVars>>

\* wsm_set_pm starts its timer (atbm_pm_timer_setup) before it sends.
OpSend(t) ==
  /\ pc[t] = "op_cmd"
  /\ Send(op[t])
  /\ IF op[t] = "pm"
     THEN /\ pm_running' = TRUE /\ pm_timer' = TRUE
          /\ stayawak_cnt' = stayawak_cnt + 1
     ELSE UNCHANGED <<pmVars, stayawak_cnt>>
  /\ Go(t, "op_cnf")
  /\ UNCHANGED <<may, scan_lock, wsm_oper_lock, conf_mutex, tx_lock, scanVars,
                 wq, op, bhVars, fwVars, histVars>>

\* The call is over.  The restarting bottom half unlocks TX.
OpLeave(t) ==
  /\ conf_mutex' = None
  /\ tx_lock' = IF t = "bh" THEN tx_lock - 1 ELSE tx_lock
  /\ Go(t, "idle")

\* wsm_start returns.
OpStarted(t) ==
  /\ pc[t] = "op_cnf" /\ op[t] = "start"
  /\ Returned("ok") \/ Returned("err")
  /\ wsm_oper_lock' = wsm_oper_lock + 1
  /\ OpLeave(t)
  /\ UNCHANGED <<may, scan_lock, stayawak_cnt, scanVars, wq, pmVars, op,
                 bhVars, fwVars, histVars>>

\* wsm_set_pm returns; the indication or the timer gives wsm_oper_lock back.
OpPm(t) ==
  /\ pc[t] = "op_cnf" /\ op[t] = "pm" /\ Returned("ok")
  /\ OpLeave(t)
  /\ UNCHANGED <<may, scan_lock, wsm_oper_lock, stayawak_cnt, scanVars, wq,
                 pmVars, op, bhVars, fwVars, histVars>>

OpPmFails(t) ==
  /\ pc[t] = "op_cnf" /\ op[t] = "pm" /\ Returned("err")
  /\ Go(t, "op_cancel")
  /\ UNCHANGED <<may, lockVars, scanVars, wq, pmVars, op, bhVars, fwVars,
                 histVars>>

\* atbm_pm_timer_cancle and wsm_oper_unlock, whether or not the timer or the
\* indication came first.
OpCancel(t) ==
  /\ pc[t] = "op_cancel"
  /\ pm_running' = FALSE /\ pm_timer' = FALSE
  /\ stayawak_cnt' = stayawak_cnt - 1
  /\ wsm_oper_lock' = wsm_oper_lock + 1
  /\ OpLeave(t)
  /\ UNCHANGED <<may, scan_lock, cmd, scanVars, wq, op, bhVars, fwVars,
                 histVars>>

OpStep(t) ==
  \/ OpOper(t) \/ OpSend(t) \/ OpStarted(t) \/ OpPm(t) \/ OpPmFails(t)
  \/ OpCancel(t)

\* atbm_wait_scan_complete_sync, and every other call that takes scan.lock
\* and conf_mutex for a while.
WaitScan(t, from, to) ==
  /\ pc[t] = from /\ scan_lock > 0
  /\ scan_lock' = scan_lock - 1
  /\ Go(t, to)
  /\ UNCHANGED <<may, wsm_oper_lock, conf_mutex, tx_lock, stayawak_cnt, cmd,
                 scanVars, wq, pmVars, op, bhVars, fwVars, histVars>>

WaitConf ==
  /\ pc["user"] = "wait_conf" /\ conf_mutex = None
  /\ scan_lock' = scan_lock + 1
  /\ Go("user", "idle")
  /\ UNCHANGED <<may, wsm_oper_lock, conf_mutex, tx_lock, stayawak_cnt, cmd,
                 scanVars, wq, pmVars, op, bhVars, fwVars, histVars>>

\* Mutant: wsm_pm_running is not looked at.
PmReleaseAlways ==
  /\ pm_timer' = FALSE /\ pm_running' = FALSE
  /\ wsm_oper_lock' = wsm_oper_lock + 1
  /\ stayawak_cnt' = stayawak_cnt - 1

\* atbm_pm_timer, wsm_set_pm_indication and atbm_destroy_wsm_cmd release what
\* wsm_set_pm holds, once.
PmRelease ==
  /\ pm_timer' = FALSE /\ pm_running' = FALSE
  /\ IF pm_running
     THEN /\ wsm_oper_lock' = wsm_oper_lock + 1
          /\ stayawak_cnt' = stayawak_cnt - 1
     ELSE UNCHANGED <<wsm_oper_lock, stayawak_cnt>>

\* atbm_pm_timer: the indication takes more than two seconds, but the answer
\* to wsm_set_pm does not when the firmware runs.
PmTimer ==
  /\ pm_timer
  /\ alive => "late" \in may /\ (pc["user"] = "op_cnf" => cmd.state = "ok")
  /\ PmRelease
  /\ UNCHANGED <<may, pc, scan_lock, conf_mutex, tx_lock, cmd, scanVars, wq,
                 op, bhVars, fwVars, histVars>>

-----------------------------------------------------------------------------
(* The firmware (external) and the receive path.                           *)

Room == Len(rx) < MaxRx
Post(m) == rx' = Append(rx, m)
Confirmation(ok) == [msg |-> "confirm", ok |-> ok, scan |-> 0]

\* The firmware takes a command and answers it; wsm_stop_scan is never
\* rejected, nor wsm_set_pm when indications are late.
FwCommand ==
  /\ alive /\ Room
  /\ cmd # NoCmd /\ cmd.state = "sent"
  /\ cmd' = [cmd EXCEPT !.state = "taken"]
  /\ \E ok \in BOOLEAN :
       /\ cmd.id = "stop" \/ (cmd.id = "pm" /\ "late" \in may) => ok
       /\ Post(Confirmation(ok))
       /\ fw' = IF ok /\ cmd.id = "scan" THEN req ELSE fw
       /\ fwPm' = IF ok /\ cmd.id = "pm" THEN TRUE ELSE fwPm
  /\ UNCHANGED <<may, pc, lockVars, scanVars, wq, pmVars, op, bhVars,
                 histVars>>

\* The scan ends in the firmware, by itself or because it was stopped.
FwScanComplete ==
  /\ alive /\ Room /\ fw # 0
  /\ Post([msg |-> "scan_ind", ok |-> TRUE, scan |-> fw])
  /\ fw' = 0
  /\ UNCHANGED <<may, pc, lockVars, cmd, scanVars, wq, pmVars, op, bhVars,
                 fwPm, histVars>>

FwPmIndication ==
  /\ alive /\ Room /\ fwPm
  /\ Post([msg |-> "pm_ind", ok |-> TRUE, scan |-> 0])
  /\ fwPm' = FALSE
  /\ UNCHANGED <<may, pc, lockVars, cmd, scanVars, wq, pmVars, op, bhVars,
                 fw, histVars>>

\* At most once in a behaviour.
FwDies ==
  /\ alive /\ "dies" \in may
  /\ may' = may \ {"dies"}
  /\ alive' = FALSE /\ fw' = 0 /\ fwPm' = FALSE
  /\ UNCHANGED <<pc, lockVars, cmd, scanVars, wq, pmVars, op, up, flushed,
                 pass, rxOn, rxCb, rx, histVars>>

\* The receive path takes the next message.
RxNext(msg) ==
  /\ rxOn /\ ~rxCb /\ rx # <<>> /\ Head(rx).msg = msg
  /\ rx' = Tail(rx)

\* A confirmation of the command that is waited for.
RxConfirm ==
  /\ RxNext("confirm")
  /\ IF cmd # NoCmd /\ cmd.state = "taken"
     THEN /\ cmd' = [cmd EXCEPT !.state = IF Head(rx).ok THEN "ok" ELSE "err"]
          /\ awaited' = IF Head(rx).ok /\ cmd.id = "scan" THEN req ELSE awaited
     ELSE UNCHANGED <<cmd, awaited>>
  /\ UNCHANGED <<may, pc, lockVars, scanVars, wq, pmVars, op, bhVars, fw,
                 fwPm, report, scans, heard>>

\* wsm_scan_complete_indication gives wsm_oper_lock back ...
RxScanComplete ==
  /\ RxNext("scan_ind")
  /\ wsm_oper_lock' = wsm_oper_lock + 1
  /\ rxCb' = TRUE
  /\ awaited' = 0 /\ heard' = heard \cup {Head(rx).scan}
  /\ UNCHANGED <<may, pc, scan_lock, conf_mutex, tx_lock, stayawak_cnt, cmd,
                 scanVars, wq, pmVars, op, alive, up, flushed, pass, rxOn, fw,
                 fwPm, report, scans>>

\* Mutant: the timeout is cancelled and not queued again.
ScanCompleteCbCancels ==
  /\ rxCb
  /\ rxCb' = FALSE
  /\ IF status # "timedout" /\ TimeoutPending
     THEN status' = "done" /\ CancelTimeout
     ELSE UNCHANGED <<status, timer, wq>>
  /\ UNCHANGED <<may, pc, lockVars, cmd, req, curr, in_progress, pmVars, op,
                 alive, up, flushed, pass, rxOn, fwVars, histVars>>

\* ... and atbm_scan_complete_cb runs scan.timeout at once, unless it has
\* begun or the scan is past it.
ScanCompleteCb ==
  /\ rxCb
  /\ rxCb' = FALSE
  /\ IF status # "timedout" /\ TimeoutPending
     THEN /\ status' = "done"
          /\ timer' = FALSE /\ wq' = Append(Without(wq, "timeout"), "timeout")
     ELSE UNCHANGED <<status, timer, wq>>
  /\ UNCHANGED <<may, pc, lockVars, cmd, req, curr, in_progress, pmVars, op,
                 alive, up, flushed, pass, rxOn, fwVars, histVars>>

\* wsm_set_pm_indication.
RxPm ==
  /\ RxNext("pm_ind")
  /\ PmRelease
  /\ UNCHANGED <<may, pc, scan_lock, conf_mutex, tx_lock, cmd, scanVars, wq,
                 op, bhVars, fw, fwPm, histVars>>

-----------------------------------------------------------------------------
(* The restart of the device by the bottom half (__atbm_sdio_lmac_restart). *)

\* The device has failed or was halted: TX is locked, the receive path stops.
RestartBegin ==
  /\ pc["bh"] = "idle" /\ (~alive \/ ~up) /\ ~rxCb
  /\ up' = FALSE /\ rxOn' = FALSE
  /\ tx_lock' = tx_lock + 1
  /\ pass' = 1
  /\ Go("bh", "release")
  /\ UNCHANGED <<may, scan_lock, wsm_oper_lock, conf_mutex, stayawak_cnt, cmd,
                 scanVars, wq, pmVars, op, alive, flushed, rxCb, fwVars,
                 histVars>>

\* atbm_sdio_release_err_cmd.
RestartRelease ==
  /\ pc["bh"] = "release"
  /\ cmd' = IF cmd # NoCmd /\ cmd.state \in {"sent", "taken"}
            THEN [cmd EXCEPT !.state = "err"] ELSE cmd
  /\ Go("bh", "flush1")
  /\ UNCHANGED <<may, lockVars, scanVars, wq, pmVars, op, bhVars, fwVars,
                 histVars>>

\* atbm_flush_workqueue waits for what is queued when it is called.
FlushBegin ==
  /\ pc["bh"] \in {"flush1", "flush2", "flush3"}
  /\ ~flushed /\ ~Queued("barrier")
  /\ wq' = Append(wq, "barrier")
  /\ UNCHANGED <<may, pc, lockVars, cmd, scanVars, pmVars, op, bhVars, fwVars,
                 histVars>>

FlushEnd ==
  /\ flushed
  /\ flushed' = FALSE
  /\ Go("bh", CASE pc["bh"] = "flush1" -> "pm"
                [] pc["bh"] = "flush2" -> "cancel"
                [] pc["bh"] = "flush3" ->
                     IF pass = 1 THEN "wait" ELSE "bringup")
  /\ UNCHANGED <<may, lockVars, cmd, scanVars, wq, pmVars, op, alive, up,
                 pass, rxOn, rxCb, fwVars, histVars>>

\* atbm_destroy_wsm_cmd: what wsm_set_pm holds is released, then the scan.
DestroyPm ==
  /\ pc["bh"] = "pm"
  /\ PmRelease
  /\ Go("bh", IF in_progress THEN "flush2" ELSE "flush3")
  /\ UNCHANGED <<may, scan_lock, conf_mutex, tx_lock, cmd, scanVars, wq, op,
                 bhVars, fwVars, histVars>>

DestroyScan ==
  /\ pc["bh"] = "cancel" /\ pc["wq"] # "timeout"
  /\ IF in_progress /\ status # "timedout"
     THEN /\ CancelTimeout
          /\ Go("bh", IF TimeoutPending THEN "timeout" ELSE "flush3")
     ELSE Go("bh", "flush3") /\ UNCHANGED <<timer, wq>>
  /\ UNCHANGED <<may, lockVars, cmd, req, status, curr, in_progress, pmVars,
                 op, bhVars, fwVars, histVars>>

\* ieee80211_pre_restart_hw_sync waits for the scan and removes the
\* interfaces; what was received is dropped; atbm_destroy_wsm_cmd runs again.
RestartRemove ==
  /\ pc["bh"] = "remove" /\ conf_mutex = None
  /\ scan_lock' = scan_lock + 1
  /\ rx' = <<>>
  /\ pass' = 2
  /\ Go("bh", "flush1")
  /\ UNCHANGED <<may, wsm_oper_lock, conf_mutex, tx_lock, stayawak_cnt, cmd,
                 scanVars, wq, pmVars, op, alive, up, flushed, rxOn, rxCb, fw,
                 fwPm, histVars>>

\* The firmware is loaded, and ieee80211_restart_hw_sync starts the
\* interfaces again (wsm_start).
RestartUp ==
  /\ pc["bh"] = "bringup" /\ conf_mutex = None
  /\ alive' = TRUE /\ up' = TRUE /\ rxOn' = TRUE
  /\ pass' = 0
  /\ conf_mutex' = "bh"
  /\ Go("bh", "oper")
  /\ UNCHANGED <<may, scan_lock, wsm_oper_lock, tx_lock, stayawak_cnt, cmd,
                 scanVars, wq, pmVars, op, flushed, rxCb, fwVars, histVars>>

RestartStep ==
  \/ RestartBegin \/ RestartRelease \/ FlushBegin \/ FlushEnd \/ DestroyPm
  \/ DestroyScan \/ WaitScan("bh", "wait", "remove") \/ RestartRemove
  \/ RestartUp

-----------------------------------------------------------------------------
HwScanStep ==
  \/ HwScanDown \/ HwScanConf \/ HwScanTemplate \/ HwScanRefused
  \/ HwScanQueue

FwStep == FwCommand \/ FwScanComplete \/ FwPmIndication

RxStep == RxConfirm \/ RxScanComplete \/ ScanCompleteCb \/ RxPm

Next ==
  \/ WqTake \/ TimerExpires \/ CmdTimeout
  \/ HwScan \/ HwScanStep
  \/ \E t \in {"wq", "bh"} : ScanStep(t)
  \/ OpBegin \/ \E t \in {"user", "bh"} : OpStep(t)
  \/ WaitScan("user", "idle", "wait_conf") \/ WaitConf
  \/ PmTimer
  \/ FwStep \/ FwDies \/ RxStep
  \/ RestartStep

Spec == Init /\ [][Next]_vars

\* Threads that are scheduled run; semaphores and mutexes are granted in
\* order of arrival, so a thread that waits for one is not passed over for
\* ever.  A running firmware answers, and reports the scan it was asked for.
Fairness ==
  /\ SF_vars(HwScanStep)
  /\ SF_vars(ScanStep("wq"))
  /\ SF_vars(OpStep("user") \/ WaitConf)
  /\ SF_vars(RestartStep \/ ScanStep("bh") \/ OpStep("bh"))
  /\ WF_vars(WqTake) /\ WF_vars(TimerExpires) /\ WF_vars(CmdTimeout)
  /\ WF_vars(PmTimer) /\ WF_vars(FwStep) /\ WF_vars(RxStep)

FairSpec == Spec /\ Fairness

-----------------------------------------------------------------------------
(* Properties.                                                             *)

Message == [msg : {"confirm", "scan_ind", "pm_ind"}, ok : BOOLEAN,
            scan : 0 .. MaxScans]
Place == {"idle", "scan_lock", "conf", "template", "template_cnf", "work",
          "work_run", "finish", "scan_oper", "scan_cmd", "scan_cnf",
          "scan_fail", "timeout", "stop", "stop_cnf", "oper", "op_cmd",
          "op_cnf", "op_cancel", "wait_conf", "release", "flush1", "flush2",
          "flush3", "pm", "cancel", "wait", "remove", "bringup"}

\* The variables have their types.
TypeOK ==
  /\ may \subseteq {"pm", "late", "dies"}
  /\ pc \in [Thread -> Place]
  /\ scan_lock \in 0 .. 1 /\ wsm_oper_lock \in 0 .. 1
  /\ conf_mutex \in Thread \cup {None}
  /\ tx_lock \in Nat /\ stayawak_cnt \in Nat
  /\ cmd \in {NoCmd} \cup
             [id : CmdID, state : {"sent", "taken", "ok", "err"}]
  /\ req \in 0 .. MaxScans
  /\ status \in {"zero", "done", "failed", "timedout"}
  /\ curr \in {"begin", "end"}
  /\ in_progress \in BOOLEAN /\ timer \in BOOLEAN
  /\ wq \in Seq({"work", "timeout", "barrier"})
  /\ pm_running \in BOOLEAN /\ pm_timer \in BOOLEAN
  /\ op \in [Thread -> {"start", "pm"}]
  /\ alive \in BOOLEAN /\ up \in BOOLEAN /\ flushed \in BOOLEAN
  /\ pass \in 0 .. 2 /\ rxOn \in BOOLEAN /\ rxCb \in BOOLEAN
  /\ fw \in 0 .. MaxScans /\ fwPm \in BOOLEAN
  /\ rx \in Seq(Message)
  /\ report \in [Scans -> {None, "pending", "refused", "ok", "aborted"}]
  /\ scans \in 0 .. MaxScans
  /\ awaited \in 0 .. MaxScans
  /\ heard \subseteq Scans

Count(b) == IF b THEN 1 ELSE 0

\* Threads that hold wsm_oper_lock and give it back themselves.
OperHolders ==
  {t \in Thread :
     \/ pc[t] \in {"scan_cmd", "op_cmd"}
     \/ pc[t] = "scan_cnf" /\ cmd.state # "ok"
     \/ pc[t] = "op_cnf" /\ op[t] = "start"}

\* A scan is between atbm_hw_scan and its report.
Pending == \E n \in Scans : report[n] = "pending"

\* wsm_oper_lock is a semaphore that stands for a mutex: it is given back by
\* another thread than took it, for a scan by the indication or by the failure
\* to stop, for wsm_set_pm by the indication, the timer or the restart, and
\* still as often as it is taken.  So is the wake lock, which wsm_set_pm
\* shares with atbm_hw_scan.
OperLockExact ==
  /\ wsm_oper_lock + Cardinality(OperHolders) + Count(awaited # 0)
       + Count(pm_running) = 1
  /\ stayawak_cnt = Count(pc["mac"] # "idle") + Count(Pending)
                      + Count(pm_running)

\* Threads inside scan.lock.
ScanLockHolders ==
  {t \in Thread : pc[t] \in {"conf", "template", "template_cnf", "wait_conf",
                             "remove"}}

\* What atbm_hw_scan takes, scan.lock and the TX lock, the work gives back
\* once for each scan whatever ends it, and no one else does.
ScanHoldsExact ==
  /\ scan_lock + Cardinality(ScanLockHolders) + Count(Pending) = 1
  /\ tx_lock = Count(pc["bh"] # "idle") +
               Count(Pending /\ \A t \in Thread : pc[t] # "finish")

\* BUG_ON(hw_priv->scan.req) in atbm_hw_scan holds off a second request.
NoSecondRequest ==
  pc["mac"] = "template_cnf" => req = 0 /\ ~in_progress

\* A scan that is not reported yet has someone left to report it: the queued
\* work, the thread that runs it or the delayed timeout.  Every cancel of the
\* timeout is followed by one of these.
NeverOrphaned ==
  Pending =>
    \/ Queued("work")
    \/ \E t \in {"wq", "bh"} :
         pc[t] \in {"work", "work_run", "finish", "scan_oper", "scan_cmd",
                    "scan_cnf", "scan_fail", "stop", "stop_cnf"}
    \/ in_progress /\ (TimeoutPending \/ \E t \in {"wq", "bh"} : pc[t] = "timeout")

\* Each success is the doing of a report of the firmware that no other scan
\* has used up: late reports do not make two scans a success.
OneReportEach ==
  Cardinality({n \in Scans : report[n] = "ok"}) <= Cardinality(heard)

\* With reports in time it is the report of the scan itself; a late one may be
\* taken for that of the next scan, whose status atbm_hw_scan has reset.
SuccessIsReported ==
  /\ OneReportEach
  /\ "late" \in may \/ \A n \in Scans : report[n] = "ok" => n \in heard

\* The wake lock is never given back more often than it was taken: the
\* BUG_ON of atbm_pm_stay_awake_unlock.
StayAwakeBalanced == stayawak_cnt >= 0

\* A scan the driver has accepted is reported, whether the firmware reports
\* it, rejects it, is late or dies.
ScanEnds == \A n \in Scans : report[n] = "pending" ~> report[n] # "pending"

\* Nobody waits for ever for scan.lock, conf_mutex, wsm_oper_lock or the
\* worker: every call, every work and every restart ends.
OperationsEnd == \A t \in Thread : pc[t] # "idle" ~> pc[t] = "idle"
=============================================================================
