--------------------------- MODULE ScanOperProofs ---------------------------
(***************************************************************************)
(* Proofs about the operation lock, for any number of scans and messages.  *)
(*                                                                         *)
(* wsm_oper_lock is given back by others than took it.  OperOwner says who *)
(* owns it: a thread that is in a call, the scan once its confirmation was *)
(* handled, or wsm_pm_running.  That it is given back once is a matter of  *)
(* what may still come from the firmware (Mail): while a scan owns the     *)
(* lock there is one report of it to come, unless the firmware has died,   *)
(* and then the timeout of the scan gives it back (ScanInTime).            *)
(*                                                                         *)
(* TypeCorrect, OperLockCorrect and SuccessIsReportedCorrect assume that a  *)
(* firmware that dies does not meet a power mode change or a late report   *)
(* (Alone).  The code does not rule that out: then the lock is given back  *)
(* twice or never.  OneReportEachCorrect needs no assumption.              *)
(***************************************************************************)
EXTENDS ScanProofs

Alone == \A m \in MayHappen : "dies" \in m => m \cap {"pm", "late"} = {}

\* Places of a restart before the device is up again.
Down == {"release", "flush1", "flush2", "flush3", "pm", "cancel", "wait",
         "remove", "bringup"} \cup Reporting

\* Messages that wait in rx: one of a kind, a confirmation, a report.
Told(m) == \E k \in DOMAIN rx : rx[k].msg = m
Answer(ok) == \E k \in DOMAIN rx : rx[k].msg = "confirm" /\ rx[k].ok = ok
Completed(n) == \E k \in DOMAIN rx : rx[k].msg = "scan_ind" /\ rx[k].scan = n
\* At most one of a kind waits.
Single(m) ==
  \A j, k \in DOMAIN rx : rx[j].msg = m /\ rx[k].msg = m => j = k
\* A confirmation is handled before the report of a scan.
ConfirmFirst ==
  \A j, k \in DOMAIN rx :
    rx[j].msg = "confirm" /\ rx[k].msg = "scan_ind" => j < k

RxSeq ==
  /\ rx \in Seq(Message)
  /\ \A k \in DOMAIN rx : rx[k].msg = "scan_ind" => rx[k].scan \in Scans

DataTypes ==
  /\ may \subseteq {"pm", "late", "dies"}
  /\ cmd \in {NoCmd} \cup [id : CmdID, state : {"sent", "taken", "ok", "err"}]
  /\ pm_running \in BOOLEAN /\ pm_timer \in BOOLEAN
  /\ alive \in BOOLEAN /\ rxOn \in BOOLEAN /\ rxCb \in BOOLEAN
  /\ pass \in 0 .. 2 /\ fwPm \in BOOLEAN
  /\ req \in 0 .. MaxScans /\ fw \in 0 .. MaxScans /\ awaited \in 0 .. MaxScans
  /\ heard \subseteq Scans

\* What Alone means: with power mode changes or late reports the device never
\* fails; without power mode changes nothing is known of wsm_set_pm.
NeverDies == alive /\ up /\ pc["bh"] = "idle" /\ "dies" \notin may
NoPm == /\ ~pm_running /\ ~pm_timer /\ ~fwPm /\ ~Told("pm_ind")
        /\ op["user"] = "start" /\ pc["user"] # "op_cancel"
Regime ==
  /\ "pm" \in may \/ "late" \in may => NeverDies
  /\ "pm" \notin may => NoPm
  /\ pc["bh"] # "op_cancel"

\* What a restart finds and does to the device and the command that waits.
Device ==
  /\ ~up => ~alive
  /\ ~alive => fw = 0 /\ ~fwPm
  /\ rxOn <=> pc["bh"] \notin Down
  /\ pc["bh"] \in Down => ~alive /\ ~up /\ ~rxCb
  /\ pc["bh"] \in Down \ {"release"} => cmd.state \notin {"sent", "taken"}

\* After the interfaces were removed no scan is pending, none can be begun,
\* and what was received is gone.
SecondPass ==
  /\ pc["bh"] \in Down => pass \in {1, 2}
  /\ pc["bh"] = "bringup" => pass = 2
  /\ pass = 2 => /\ pc["bh"] \in {"flush1", "pm", "flush3", "bringup"}
                 /\ rx = <<>> /\ ~Pending
                 /\ pc["mac"] = "template_cnf" => cmd.state = "err"

\* The command that waits for its answer is that of the thread that waits.
Caller ==
  /\ cmd.id = "template" <=> pc["mac"] = "template_cnf"
  /\ cmd.id = "scan" <=> pc["wq"] = "scan_cnf"
  /\ cmd.id = "stop" <=> pc["wq"] = "stop_cnf" \/ pc["bh"] = "stop_cnf"
  /\ cmd.id \in {"start", "pm"} <=>
       pc["user"] = "op_cnf" \/ pc["bh"] = "op_cnf"
  /\ \A t \in {"user", "bh"} : pc[t] = "op_cnf" => cmd.id = op[t]

\* A command that was taken has its one answer on the way.
Answered ==
  rxOn =>
    /\ cmd.state = "taken" <=> Told("confirm")
    /\ Single("confirm")
\* The firmware is at a scan or has reported it; a report never overtakes the
\* confirmation of its scan.
OneInd ==
  rxOn =>
    /\ fw # 0 => ~Told("scan_ind")
    /\ Single("scan_ind")
    /\ cmd.id = "scan" => ConfirmFirst
\* A report is to come only of a scan that owns wsm_oper_lock or will.
IndOwed ==
  rxOn /\ (fw # 0 \/ Told("scan_ind")) =>
    awaited # 0 \/ (cmd.id = "scan" /\ Answer(TRUE))

\* The owners of wsm_oper_lock.
Owns(x) ==
  \/ x \in Thread /\ pc[x] \in {"scan_cmd", "op_cmd"}
  \/ x \in Thread /\ pc[x] = "scan_cnf" /\ cmd.state # "ok"
  \/ x \in Thread /\ pc[x] = "op_cnf" /\ op[x] = "start"
  \/ x = "scan" /\ awaited # 0
  \/ x = "pm" /\ pm_running
Owner == Thread \cup {"scan", "pm"}
\* It is free, or has one owner.
OperOwner ==
  /\ wsm_oper_lock \in 0 .. 1
  /\ wsm_oper_lock = 0 <=> \E x \in Owner : Owns(x)
  /\ \A x, y \in Owner : Owns(x) /\ Owns(y) => x = y
AwakeExact ==
  stayawak_cnt = Count(pc["mac"] # "idle") + Count(Pending) + Count(pm_running)

\* With late indications the firmware refuses neither wsm_set_pm nor
\* wsm_stop_scan.
LateInv ==
  "late" \in may =>
    /\ pc["user"] # "op_cancel"
    /\ cmd.id \in {"pm", "stop"} => cmd.state # "err" /\ ~Answer(FALSE)

\* Without them one indication of wsm_set_pm comes while wsm_pm_running is
\* set, and none after a refusal.
PmInTime ==
  "late" \notin may =>
    /\ fwPm \/ Told("pm_ind") => pm_running
    /\ ~(fwPm /\ Told("pm_ind"))
    /\ Single("pm_ind")
    /\ pc["user"] = "op_cancel" => pm_running /\ ~fwPm /\ ~Told("pm_ind")
    /\ cmd.id = "pm" /\ (cmd.state \in {"sent", "err"} \/ Answer(FALSE)) =>
         pm_running /\ ~fwPm /\ ~Told("pm_ind")

\* What is on its way from the firmware, or owed by it.
Mail == Answered /\ OneInd /\ IndOwed /\ LateInv /\ PmInTime

\* scan.curr and scan.req of the scan that is being started or run.
Begun ==
  /\ pc["wq"] \in Starting => curr = "begin"
  /\ Finishing => curr = "end"
Numbered == req # 0 => req = scans

\* The confirmation of the scan was handled; the scan is not past its end; it
\* is being stopped; nobody has reported it in time.
Confirmed == curr = "end" \/ (pc["wq"] = "scan_cnf" /\ cmd.state = "ok")
Running == in_progress /\ status = "zero" /\ Confirmed
Stopping == \E t \in {"wq", "bh"} : pc[t] \in {"stop", "stop_cnf"}
Expired ==
  \/ status = "zero" /\ Queued("timeout")
  \/ status = "zero" /\ \E t \in {"wq", "bh"} : pc[t] = "timeout"
  \/ Stopping

\* A scan owns wsm_oper_lock exactly while it runs, until its report is
\* handled, and while it is stopped; and it is stopped only when the firmware
\* has died, so that no report comes besides.
ScanInTime ==
  "late" \notin may =>
    /\ Running => awaited # 0 \/ rxCb
    /\ Stopping => awaited # 0
    /\ awaited # 0 => Running \/ Stopping
    /\ rxCb => Running /\ awaited = 0 /\ fw = 0 /\ ~Told("scan_ind")
    /\ Expired => ~alive /\ ~rxCb /\ (rxOn => ~Told("scan_ind"))
    /\ cmd.id = "stop" => cmd.state # "ok" /\ cmd.state # "taken"
    /\ Pending /\ ~Confirmed => status = "zero"

\* The report that comes is that of the last scan, and status zero at the end
\* of a scan means that it has come.
HeardInTime ==
  "late" \notin may =>
    /\ fw # 0 => fw = scans
    /\ \A n \in Scans : rxOn /\ Completed(n) => n = scans
    /\ rxCb => scans \in heard
    /\ Pending /\ status = "done" => scans \in heard
    /\ Pending /\ curr = "end" /\ status = "zero" /\ ~in_progress =>
         scans \in heard
    /\ \A n \in Scans : report[n] = "ok" => n \in heard

LInv ==
  /\ RxSeq /\ DataTypes /\ Regime /\ Device /\ SecondPass /\ Caller
  /\ Mail /\ OperOwner /\ AwakeExact /\ Begun /\ Numbered
  /\ ScanInTime /\ HeardInTime

-----------------------------------------------------------------------------
(* The messages in rx.                                                     *)

\* What is known of rx stays known while it is not touched.
RxSame ==
  /\ RxSeq' /\ (\A m : Told(m)' <=> Told(m))
  /\ \A ok : Answer(ok)' <=> Answer(ok)
  /\ \A n : Completed(n)' <=> Completed(n)
  /\ \A m : Single(m)' <=> Single(m)
  /\ ConfirmFirst' <=> ConfirmFirst

LEMMA RxKept ==
  ASSUME RxSeq, UNCHANGED rx
  PROVE  RxSame
BY DEF RxSame, RxSeq, Told, Answer, Completed, Single, ConfirmFirst

\* A message is put at the end.
LEMMA RxPosted ==
  ASSUME RxSeq, NEW m \in Message, m.msg = "scan_ind" => m.scan \in Scans,
         rx' = Append(rx, m)
  PROVE  /\ RxSeq' /\ \A x : Told(x)' <=> Told(x) \/ x = m.msg
         /\ \A ok : Answer(ok)' <=>
              Answer(ok) \/ (m.msg = "confirm" /\ m.ok = ok)
         /\ \A n : Completed(n)' <=>
              Completed(n) \/ (m.msg = "scan_ind" /\ m.scan = n)
         /\ \A x : Single(x) /\ (x # m.msg \/ ~Told(x)) => Single(x)'
         /\ ConfirmFirst /\ (m.msg = "confirm" => ~Told("scan_ind")) =>
              ConfirmFirst'
<1>1. /\ Len(rx) \in Nat /\ DOMAIN rx = 1 .. Len(rx)
      /\ rx' \in Seq(Message) /\ DOMAIN rx' = 1 .. Len(rx) + 1
      /\ \A k \in 1 .. Len(rx) : rx'[k] = rx[k]
      /\ rx'[Len(rx) + 1] = m
  BY DEF RxSeq
<1> HIDE DEF Message
<1>2. RxSeq'
  BY <1>1 DEF RxSeq
<1>3. \A x : Told(x)' <=> Told(x) \/ x = m.msg
  BY <1>1 DEF Told
<1>4. \A ok : Answer(ok)' <=>
        Answer(ok) \/ (m.msg = "confirm" /\ m.ok = ok)
  BY <1>1 DEF Answer
<1>5. \A n : Completed(n)' <=>
        Completed(n) \/ (m.msg = "scan_ind" /\ m.scan = n)
  BY <1>1 DEF Completed
<1>6. \A x : Single(x) /\ (x # m.msg \/ ~Told(x)) => Single(x)'
  BY <1>1 DEF Single, Told
<1>7. ConfirmFirst /\ (m.msg = "confirm" => ~Told("scan_ind")) =>
        ConfirmFirst'
  BY <1>1 DEF ConfirmFirst, Told
<1> QED BY <1>2, <1>3, <1>4, <1>5, <1>6, <1>7

\* The first message is taken.
LEMMA RxTook ==
  ASSUME RxSeq, rx # <<>>, rx' = Tail(rx), NEW m, m = Head(rx)
  PROVE  /\ RxSeq' /\ m \in Message /\ Told(m.msg)
         /\ \A x : Told(x)' => Told(x)
         /\ \A x : Told(x) /\ x # m.msg => Told(x)'
         /\ Single(m.msg) => ~Told(m.msg)'
         /\ \A x : Single(x) => Single(x)'
         /\ \A ok : Answer(ok)' => Answer(ok)
         /\ m.msg # "confirm" => \A ok : Answer(ok) => Answer(ok)'
         /\ m.msg = "confirm" => Answer(m.ok)
         /\ m.msg = "confirm" /\ Single("confirm") =>
              \A ok : Answer(ok) => ok = m.ok
         /\ \A n : Completed(n)' => Completed(n)
         /\ m.msg = "scan_ind" => m.scan \in Scans /\ Completed(m.scan)
         /\ ConfirmFirst => ConfirmFirst'
         /\ m.msg = "scan_ind" /\ ConfirmFirst => ~Told("confirm")
<1>1. /\ Len(rx) \in Nat /\ Len(rx) >= 1 /\ DOMAIN rx = 1 .. Len(rx)
      /\ rx' \in Seq(Message) /\ DOMAIN rx' = 1 .. Len(rx) - 1
      /\ rx[1] = m /\ m \in Message
      /\ \A k \in 1 .. Len(rx) - 1 : rx'[k] = rx[k + 1]
  BY DEF RxSeq
<1>2. RxSeq' /\ (m.msg = "scan_ind" => m.scan \in Scans)
  BY <1>1 DEF RxSeq
<1>3. /\ Told(m.msg)
      /\ \A x : Told(x)' => Told(x)
      /\ Single(m.msg) => ~Told(m.msg)'
  BY <1>1 DEF Told, Single
<1>4. ASSUME NEW x, Told(x), x # m.msg
      PROVE  Told(x)'
  <2>1. PICK k \in 1 .. Len(rx) : rx[k].msg = x
    BY <1>1, <1>4 DEF Told
  <2>2. k - 1 \in DOMAIN rx' /\ rx'[k - 1].msg = x
    BY <1>1, <1>4, <2>1
  <2> QED BY <2>2 DEF Told
<1>5. ASSUME NEW x, Single(x)
      PROVE  Single(x)'
  BY <1>1, <1>5 DEF Single
<1>6. /\ \A ok : Answer(ok)' => Answer(ok)
      /\ m.msg = "confirm" => Answer(m.ok)
  BY <1>1 DEF Answer
<1>7. ASSUME m.msg = "confirm", Single("confirm"), NEW ok, Answer(ok)
      PROVE  ok = m.ok
  BY <1>1, <1>7 DEF Answer, Single
<1>8. ASSUME m.msg # "confirm", NEW ok, Answer(ok)
      PROVE  Answer(ok)'
  <2>1. PICK k \in 1 .. Len(rx) : rx[k].msg = "confirm" /\ rx[k].ok = ok
    BY <1>1, <1>8 DEF Answer
  <2>2. /\ k - 1 \in DOMAIN rx'
        /\ rx'[k - 1].msg = "confirm" /\ rx'[k - 1].ok = ok
    BY <1>1, <1>8, <2>1
  <2> QED BY <2>2 DEF Answer
<1>9. /\ \A n : Completed(n)' => Completed(n)
      /\ m.msg = "scan_ind" => Completed(m.scan)
  BY <1>1 DEF Completed
<1>10. ConfirmFirst => ConfirmFirst'
  BY <1>1 DEF ConfirmFirst
<1>11. m.msg = "scan_ind" /\ ConfirmFirst => ~Told("confirm")
  BY <1>1 DEF ConfirmFirst, Told
<1> QED BY <1>1, <1>2, <1>3, <1>4, <1>5, <1>6, <1>7, <1>8, <1>9, <1>10, <1>11

\* What was received is dropped.
LEMMA RxDropped ==
  ASSUME rx' = <<>>
  PROVE  /\ RxSeq' /\ (\A m : ~Told(m)') /\ (\A ok : ~Answer(ok)')
         /\ (\A n : ~Completed(n)') /\ (\A m : Single(m)') /\ ConfirmFirst'
BY DEF RxSeq, Told, Answer, Completed, Single, ConfirmFirst

LEMMA RxTold ==
  /\ (\E ok : Answer(ok)) => Told("confirm")
  /\ (\E n : Completed(n)) => Told("scan_ind")
  /\ \A m : ~Told(m) => Single(m)
  /\ ~Told("confirm") \/ ~Told("scan_ind") => ConfirmFirst
BY DEF Answer, Completed, Told, Single, ConfirmFirst

\* What the life of a scan says of the places of its threads.
ScanFacts ==
  /\ Pending <=> \/ in_progress \/ Queued("work")
                 \/ pc["wq"] \in Reporting \/ pc["bh"] \in Reporting
  /\ pc["wq"] \in Starting => in_progress /\ TimeoutPending
  /\ in_progress <=>
       TimeoutPending \/ pc["wq"] = "timeout" \/ pc["bh"] = "timeout"
  /\ in_progress => ~Queued("work")
  /\ in_progress => /\ pc["wq"] \notin Reporting \ {"timeout"}
                    /\ pc["bh"] \notin Reporting \ {"timeout"}
  /\ pc["wq"] \in Reporting => pc["bh"] \notin Reporting /\ ~TimeoutPending
  /\ pc["bh"] \in Reporting => ~TimeoutPending /\ ~Queued("work")
  /\ pc["wq"] \in Reporting => ~Queued("work")
  /\ pc["bh"] \in Reporting => pc["wq"] \notin Starting
  /\ pc["mac"] # "idle" => ~Pending
  /\ Finishing => pc["wq"] = "finish" \/ pc["bh"] = "finish"
  /\ Pending /\ ~Finishing => req # 0
  /\ req # 0 => Pending /\ ~Finishing
  /\ in_progress /\ curr = "begin" => pc["wq"] \in Starting
  /\ \A u \in Thread : pc[u] \in Starting => u = "wq"

LEMMA ScanFactsHold == IInv => ScanFacts
<1> SUFFICES ASSUME IInv
             PROVE  ScanFacts
  OBVIOUS
<1> USE DEF IInv, Types, Places
<1>1. /\ \A t \in Thread \ {"wq", "bh"} : pc[t] # "finish"
      /\ Finishing => pc["wq"] = "finish" \/ pc["bh"] = "finish"
  BY DEF Finishing, Thread, MacPlace, UserPlace
<1>2. /\ Queued("work") \/ TimeoutPending \/ pc["wq"] \in Reporting
           \/ pc["bh"] \in Reporting <=> Pending
      /\ TimeoutPending => /\ ~Queued("work")
                           /\ pc["wq"] \notin Reporting
                           /\ pc["bh"] \notin Reporting
      /\ pc["wq"] \in Reporting => pc["bh"] \notin Reporting
      /\ Queued("work") =>
           pc["wq"] \notin Reporting /\ pc["bh"] \notin Reporting
  BY DEF OneReporter, Reporter
<1>3. /\ in_progress <=>
           TimeoutPending \/ pc["wq"] = "timeout" \/ pc["bh"] = "timeout"
      /\ pc["wq"] \in Starting => in_progress /\ TimeoutPending
      /\ in_progress /\ curr = "begin" => pc["wq"] \in Starting
  BY DEF Progress
<1>4. "timeout" \in Reporting
  BY DEF Reporting
<1>5. /\ pc["mac"] # "idle" => ~Pending
      /\ pc["bh"] \in Reporting => pc["wq"] \notin Starting
      /\ req # 0 <=> Pending /\ ~Finishing
  BY <1>2, <1>3 DEF LastPending, Requested
<1>6. \A u \in Thread : pc[u] \in Starting => u = "wq"
  BY DEF Starting, Thread, MacPlace, UserPlace, BhPlace, Reporting
<1> QED BY <1>1, <1>2, <1>3, <1>4, <1>5, <1>6 DEF ScanFacts

LEMMA ScanFactsNext == IInv' => ScanFacts'
BY ScanFactsHold, PTL

\* How wsm_oper_lock and its owners go together: nobody's steps but these.
LEMMA OwnersKept ==
  ASSUME OperOwner, UNCHANGED wsm_oper_lock,
         \A x \in Owner : Owns(x)' <=> Owns(x)
  PROVE  OperOwner'
BY DEF OperOwner

LEMMA OwnerTakes ==
  ASSUME OperOwner, NEW t \in Owner,
         wsm_oper_lock > 0, wsm_oper_lock' = wsm_oper_lock - 1,
         \A x \in Owner : Owns(x)' <=> Owns(x) \/ x = t
  PROVE  OperOwner'
BY DEF OperOwner

LEMMA OwnerGives ==
  ASSUME OperOwner, NEW t \in Owner, Owns(t),
         wsm_oper_lock' = wsm_oper_lock + 1,
         \A x \in Owner : Owns(x)' <=> Owns(x) /\ x # t
  PROVE  OperOwner'
BY DEF OperOwner

LEMMA OwnerPasses ==
  ASSUME OperOwner, NEW t \in Owner, NEW u \in Owner, Owns(t),
         UNCHANGED wsm_oper_lock,
         \A x \in Owner : Owns(x)' <=> (Owns(x) /\ x # t) \/ x = u
  PROVE  OperOwner'
BY DEF OperOwner

\* Nothing is received, sent or promised.
LEMMA MailKept ==
  ASSUME LInv, UNCHANGED <<may, cmd, rx, rxOn, fw, fwPm, awaited, pm_running>>,
         pc'["user"] = "op_cancel" => pc["user"] = "op_cancel"
  PROVE  Mail'
<1>1. RxSame
  BY RxKept DEF LInv
<1>2. Answered' /\ OneInd' /\ IndOwed'
  BY <1>1 DEF LInv, Mail, RxSame, Answered, OneInd, IndOwed
<1>3. LateInv' /\ PmInTime'
  BY <1>1 DEF LInv, Mail, RxSame, LateInv, PmInTime
<1> QED BY <1>2, <1>3 DEF Mail

\* A command is sent.
LEMMA MailSent ==
  ASSUME LInv, UNCHANGED <<may, rx, rxOn, fw, fwPm, awaited, pm_running>>,
         pc'["user"] = "op_cancel" => pc["user"] = "op_cancel",
         NEW id \in {"template", "scan", "stop", "start"}, Send(id)
  PROVE  Mail'
<1>1. RxSame
  BY RxKept DEF LInv
<1>2. /\ cmd.id = None /\ cmd.state = None
      /\ cmd'.id = id /\ cmd'.state \in {"sent", "err"}
      /\ up => cmd'.state = "sent"
  BY DEF Send, NoCmd
<1>3. rxOn => ~Told("confirm")
  BY <1>2 DEF LInv, Mail, Answered, None
<1>4. Answered' /\ OneInd' /\ IndOwed'
  BY <1>1, <1>2, <1>3, RxTold
     DEF LInv, Mail, RxSame, Answered, OneInd, IndOwed, None
<1>5. LateInv'
  <2>1. "late" \in may => up /\ rxOn
    BY DEF LInv, Regime, NeverDies, Device, Down, Reporting
  <2> QED BY <1>1, <1>2, <1>3, <2>1, RxTold DEF LInv, Mail, RxSame, LateInv
<1>6. PmInTime'
  BY <1>1, <1>2 DEF LInv, Mail, RxSame, PmInTime
<1> QED BY <1>4, <1>5, <1>6 DEF Mail

\* A call returns.
LEMMA MailReturned ==
  ASSUME LInv, UNCHANGED <<may, rx, rxOn, fw, fwPm, awaited, pm_running>>,
         pc'["user"] = "op_cancel" => pc["user"] = "op_cancel",
         NEW state \in {"ok", "err"}, Returned(state)
  PROVE  Mail'
<1>1. RxSame
  BY RxKept DEF LInv
<1>2. cmd.state \in {"ok", "err"} /\ cmd'.id = None /\ cmd'.state = None
  BY DEF Returned, NoCmd
<1>3. rxOn => ~Told("confirm")
  BY <1>2 DEF LInv, Mail, Answered
<1>4. Answered' /\ OneInd' /\ IndOwed'
  BY <1>1, <1>2, <1>3, RxTold
     DEF LInv, Mail, RxSame, Answered, OneInd, IndOwed, None
<1>5. LateInv' /\ PmInTime'
  BY <1>1, <1>2 DEF LInv, Mail, RxSame, LateInv, PmInTime, None
<1> QED BY <1>4, <1>5 DEF Mail

\* The wake lock is not touched.
LEMMA AwakeKept ==
  ASSUME AwakeExact, UNCHANGED <<stayawak_cnt, pm_running>>,
         pc'["mac"] = "idle" <=> pc["mac"] = "idle", Pending' <=> Pending
  PROVE  AwakeExact'
BY DEF AwakeExact, Count

\* When no scan is pending, none is under way in the firmware.
LEMMA NoScanOwed ==
  ASSUME LInv, ScanFacts, "late" \notin may, ~Pending
  PROVE  awaited = 0 /\ fw = 0 /\ ~rxCb /\ (rxOn => ~Told("scan_ind"))
<1>1. ~in_progress /\ ~Stopping /\ pc["wq"] # "scan_cnf"
  BY DEF ScanFacts, Stopping, Starting, Reporting
<1>2. awaited = 0 /\ ~rxCb
  BY <1>1 DEF LInv, ScanInTime, Running
<1>3. fw # 0 => rxOn
  BY DEF LInv, Device
<1> QED BY <1>1, <1>2, <1>3 DEF LInv, Mail, IndOwed, Caller

\* A scan that waits for its confirmation owns wsm_oper_lock as a thread.
LEMMA ScanWaits ==
  ASSUME LInv, ScanFacts, cmd.id = "scan", cmd.state # "ok"
  PROVE  /\ req = scans /\ req # 0 /\ pc["wq"] = "scan_cnf"
         /\ curr = "begin" /\ in_progress /\ Pending /\ awaited = 0
<1> USE DEF LInv
<1>1. pc["wq"] = "scan_cnf" /\ pc["wq"] \in Starting
  BY DEF Caller, Starting
<1>2. curr = "begin" /\ in_progress /\ Pending /\ ~Finishing
  BY <1>1 DEF Begun, ScanFacts
<1>3. req # 0 /\ req = scans
  BY <1>2 DEF ScanFacts, Numbered
<1>4. Owns("wq") /\ "wq" \in Owner /\ "scan" \in Owner
  BY <1>1 DEF Owns, Owner, Thread
<1>5. awaited = 0
  BY <1>4 DEF OperOwner, Owns
<1> QED BY <1>1, <1>2, <1>3, <1>5

-----------------------------------------------------------------------------
(* Each step preserves LInv.  In the proofs <1>z is the move of the thread, *)
(* <1>r what the step does to rx, <1>p to the pending scan and <1>q to the  *)
(* queue of the worker; <1>a to <1>o are the conjuncts of LInv.             *)

\* atbm_hw_scan begins: no scan is pending, so none is owed by the firmware,
\* and the wake lock is taken once more.
LEMMA HwScanOper ==
  ASSUME IInv, IInv', LInv, HwScan
  PROVE  LInv'
<1> USE DEF LInv, HwScan, lockVars, scanVars, pmVars, bhVars, fwVars, histVars
<1>f. ScanFacts /\ ScanFacts'
  BY ScanFactsHold, ScanFactsNext
<1>z. /\ pc \in [Thread -> Place] /\ pc' \in [Thread -> Place]
      /\ pc["mac"] = "idle"
      /\ pc'["mac"] = "scan_lock"
      /\ \A u \in Thread \ {"mac"} : pc'[u] = pc[u]
  BY DEF IInv, Types, Places, Go
<1>r. RxSame
  BY RxKept
<1>p. ~Pending /\ ~Pending'
  BY DEF IInv, LastPending, Pending
<1>q. \A x : Queued(x)' <=> Queued(x)
  BY DEF Queued
<1>n. "late" \notin may =>
        awaited = 0 /\ fw = 0 /\ ~rxCb /\ (rxOn => ~Told("scan_ind"))
  BY <1>f, <1>p, NoScanOwed
<1>a. RxSeq' /\ DataTypes'
  <2>1. RxSeq'
    BY <1>r DEF RxSame
  <2>2. DataTypes'
    BY DEF DataTypes
  <2> QED BY <2>1, <2>2
<1>b. Regime' /\ Device'
  BY <1>r, <1>z DEF RxSame, Regime, Device, NeverDies, NoPm, Thread
<1>c. SecondPass'
  BY <1>z, <1>p DEF SecondPass, Thread
<1>d. Caller'
  BY <1>z DEF Caller, Thread
<1>e. Mail'
  BY <1>z, MailKept DEF Thread
<1>o. OperOwner'
  <2>1. \A x \in Owner : Owns(x)' <=> Owns(x)
    BY <1>z DEF Owns
  <2> QED BY <2>1, OwnersKept
<1>g. AwakeExact'
  BY <1>z, <1>p DEF AwakeExact, Count
<1>i. Begun' /\ Numbered'
  BY <1>z, <1>f DEF Begun, Numbered, Finishing, ScanFacts
<1>j. ScanInTime'
  BY <1>r, <1>z, <1>f, <1>q
     DEF RxSame, ScanInTime, Running, Stopping, Expired, ScanFacts, Reporting
<1>k. HeardInTime'
  BY <1>r, RxTold, <1>p, <1>n DEF RxSame, HeardInTime
<1> QED BY <1>a, <1>b, <1>c, <1>d, <1>e, <1>o, <1>g, <1>i, <1>j, <1>k

\* It takes scan.lock and conf_mutex.
LEMMA HwScanLocksOper ==
  ASSUME IInv, IInv', LInv, HwScanDown \/ HwScanConf
  PROVE  LInv'
<1> USE DEF LInv, HwScanDown, HwScanConf, lockVars, scanVars, pmVars, bhVars,
           fwVars, histVars
<1>f. ScanFacts /\ ScanFacts'
  BY ScanFactsHold, ScanFactsNext
<1>z. /\ pc \in [Thread -> Place] /\ pc' \in [Thread -> Place]
      /\ pc["mac"] \in {"scan_lock", "conf"}
      /\ pc'["mac"] \in {"conf", "template"}
      /\ \A u \in Thread \ {"mac"} : pc'[u] = pc[u]
  BY DEF IInv, Types, Places, Go, Thread
<1>r. RxSame
  BY RxKept
<1>p. Pending' <=> Pending
  BY DEF Pending
<1>q. \A x : Queued(x)' <=> Queued(x)
  BY DEF Queued
<1>a. RxSeq' /\ DataTypes'
  <2>1. RxSeq'
    BY <1>r DEF RxSame
  <2>2. DataTypes'
    BY DEF DataTypes
  <2> QED BY <2>1, <2>2
<1>b. Regime' /\ Device'
  BY <1>r, <1>z DEF RxSame, Regime, Device, NeverDies, NoPm, Thread
<1>c. SecondPass'
  BY <1>z, <1>p DEF SecondPass, Thread
<1>d. Caller'
  BY <1>z DEF Caller, Thread
<1>e. Mail'
  BY <1>z, MailKept DEF Thread
<1>o. OperOwner'
  <2>1. \A x \in Owner : Owns(x)' <=> Owns(x)
    BY <1>z DEF Owns
  <2> QED BY <2>1, OwnersKept
<1>g. AwakeExact'
  BY <1>z, <1>p, AwakeKept
<1>i. Begun' /\ Numbered'
  BY <1>z, <1>f DEF Begun, Numbered, Finishing, ScanFacts
<1>j. ScanInTime'
  BY <1>r, <1>z, <1>f, <1>q
     DEF RxSame, ScanInTime, Running, Stopping, Expired, ScanFacts, Reporting
<1>k. HeardInTime'
  BY <1>r, <1>p DEF RxSame, HeardInTime
<1> QED BY <1>a, <1>b, <1>c, <1>d, <1>e, <1>o, <1>g, <1>i, <1>j, <1>k

\* It sends the template frame.
LEMMA HwScanTemplateOper ==
  ASSUME IInv, IInv', LInv, HwScanTemplate
  PROVE  LInv'
<1> USE DEF LInv, HwScanTemplate, Send, lockVars, scanVars, pmVars, bhVars,
           fwVars, histVars
<1>f. ScanFacts /\ ScanFacts'
  BY ScanFactsHold, ScanFactsNext
<1>z. /\ pc \in [Thread -> Place] /\ pc' \in [Thread -> Place]
      /\ pc["mac"] = "template"
      /\ pc'["mac"] = "template_cnf"
      /\ \A u \in Thread \ {"mac"} : pc'[u] = pc[u]
  BY DEF IInv, Types, Places, Go
<1>r. RxSame
  BY RxKept
<1>p. Pending' <=> Pending
  BY DEF Pending
<1>q. \A x : Queued(x)' <=> Queued(x)
  BY DEF Queued
<1>a. RxSeq' /\ DataTypes'
  <2>1. RxSeq'
    BY <1>r DEF RxSame
  <2>2. DataTypes'
    BY DEF DataTypes, CmdID
  <2> QED BY <2>1, <2>2
<1>b. Regime' /\ Device'
  BY <1>r, <1>z DEF RxSame, Regime, Device, NeverDies, NoPm, Thread
<1>c. SecondPass'
  BY <1>z, <1>p DEF SecondPass, Device, Down, Thread
<1>d. Caller'
  BY <1>z DEF Caller, Thread, NoCmd, None
<1>e. Mail'
  BY <1>z, MailSent DEF Thread
<1>o. OperOwner'
  <2>1. \A x \in Owner : Owns(x)' <=> Owns(x)
    BY <1>z DEF Owns, NoCmd, None
  <2> QED BY <2>1, OwnersKept
<1>g. AwakeExact'
  BY <1>z, <1>p, AwakeKept
<1>i. Begun' /\ Numbered'
  BY <1>z, <1>f DEF Begun, Numbered, Finishing, ScanFacts
<1>j. ScanInTime'
  BY <1>r, <1>z, <1>f, <1>q
     DEF RxSame, ScanInTime, Running, Stopping, Expired, ScanFacts, Reporting
<1>k. HeardInTime'
  BY <1>r, <1>p DEF RxSame, HeardInTime
<1> QED BY <1>a, <1>b, <1>c, <1>d, <1>e, <1>o, <1>g, <1>i, <1>j, <1>k

\* The template is refused: the wake lock is given back.
LEMMA HwScanRefusedOper ==
  ASSUME IInv, IInv', LInv, HwScanRefused
  PROVE  LInv'
<1> USE DEF LInv, HwScanRefused, Returned, lockVars, scanVars, pmVars, bhVars,
           fwVars, histVars
<1>f. ScanFacts /\ ScanFacts'
  BY ScanFactsHold, ScanFactsNext
<1>z. /\ pc \in [Thread -> Place] /\ pc' \in [Thread -> Place]
      /\ pc["mac"] = "template_cnf"
      /\ pc'["mac"] = "idle"
      /\ \A u \in Thread \ {"mac"} : pc'[u] = pc[u]
  BY DEF IInv, Types, Places, Go
<1>r. RxSame
  BY RxKept
<1>p. ~Pending /\ ~Pending'
  <2>1. ~Pending
    BY <1>f DEF ScanFacts
  <2> QED BY <2>1 DEF Pending
<1>q. \A x : Queued(x)' <=> Queued(x)
  BY DEF Queued
<1>a. RxSeq' /\ DataTypes'
  <2>1. RxSeq'
    BY <1>r DEF RxSame
  <2>2. DataTypes'
    BY DEF DataTypes
  <2> QED BY <2>1, <2>2
<1>b. Regime' /\ Device'
  BY <1>r, <1>z
     DEF RxSame, Regime, Device, NeverDies, NoPm, Thread, NoCmd, None
<1>c. SecondPass'
  BY <1>z, <1>p DEF SecondPass, Thread
<1>d. Caller'
  BY <1>z DEF Caller, Thread, NoCmd, None
<1>e. Mail'
  BY <1>z, MailReturned DEF Thread
<1>o. OperOwner'
  <2>1. \A x \in Owner : Owns(x)' <=> Owns(x)
    BY <1>z DEF Owns, NoCmd, None
  <2> QED BY <2>1, OwnersKept
<1>g. AwakeExact'
  BY <1>z, <1>p DEF AwakeExact, Count
<1>i. Begun' /\ Numbered'
  BY <1>z, <1>f DEF Begun, Numbered, Finishing, ScanFacts
<1>j. ScanInTime'
  BY <1>r, <1>f, <1>p, <1>q
     DEF RxSame, ScanInTime, Running, Stopping, Expired, ScanFacts, Reporting,
         NoCmd
<1>k. HeardInTime'
  BY <1>r, <1>p DEF RxSame, HeardInTime
<1> QED BY <1>a, <1>b, <1>c, <1>d, <1>e, <1>o, <1>g, <1>i, <1>j, <1>k

\* The scan is pending and takes over the wake lock of the call.
LEMMA HwScanQueueOper ==
  ASSUME IInv, IInv', LInv, HwScanQueue
  PROVE  LInv'
<1> USE DEF LInv, HwScanQueue, Returned, lockVars, scanVars, pmVars, bhVars,
           fwVars, histVars
<1>f. ScanFacts /\ ScanFacts'
  BY ScanFactsHold, ScanFactsNext
<1>z. /\ pc \in [Thread -> Place] /\ pc' \in [Thread -> Place]
      /\ pc["mac"] = "template_cnf"
      /\ pc'["mac"] = "idle"
      /\ \A u \in Thread \ {"mac"} : pc'[u] = pc[u]
  BY DEF IInv, Types, Places, Go
<1>r. RxSame
  BY RxKept
<1>p. ~Pending /\ Pending'
  BY DEF IInv, Types, ScanData, LastPending, Pending
<1>q. \A x : Queued(x)' <=> Queued(x) \/ x = "work"
  BY QueueWorkFacts DEF IInv, Item
<1>w. \A u \in Thread : pc[u] # "scan_cnf"
  <2>1. pc["wq"] # "scan_cnf"
    BY <1>f DEF ScanFacts, Starting
  <2> QED BY <1>f DEF ScanFacts, Starting
<1>a. RxSeq' /\ DataTypes'
  <2>1. RxSeq'
    BY <1>r DEF RxSame
  <2>2. DataTypes'
    BY DEF DataTypes, IInv, Types, ScanData
  <2> QED BY <2>1, <2>2
<1>b. Regime' /\ Device'
  BY <1>r, <1>z
     DEF RxSame, Regime, Device, NeverDies, NoPm, Thread, NoCmd, None
<1>c. SecondPass'
  BY <1>z DEF SecondPass, Thread
<1>d. Caller'
  BY <1>z DEF Caller, Thread, NoCmd, None
<1>e. Mail'
  BY <1>z, MailReturned DEF Thread
<1>o. OperOwner'
  <2>1. \A x \in Owner : Owns(x)' <=> Owns(x)
    BY <1>z, <1>w DEF Owns
  <2> QED BY <2>1, OwnersKept
<1>g. AwakeExact'
  BY <1>z, <1>p DEF AwakeExact, Count
<1>i. Begun' /\ Numbered'
  BY <1>z, <1>f DEF Begun, Numbered, Finishing, ScanFacts, Reporting
<1>j. ScanInTime'
  BY <1>f, <1>q
     DEF ScanInTime, Running, Stopping, Expired, ScanFacts, Reporting, NoCmd,
         TimeoutPending
<1>k. HeardInTime'
  BY <1>r DEF RxSame, HeardInTime
<1> QED BY <1>a, <1>b, <1>c, <1>d, <1>e, <1>o, <1>g, <1>i, <1>j, <1>k

\* scan.work takes conf_mutex.
LEMMA ScanWorkOper ==
  ASSUME IInv, IInv', LInv, NEW t \in {"wq", "bh"}, ScanWork(t)
  PROVE  LInv'
<1> USE DEF LInv, ScanWork, lockVars, scanVars, pmVars, bhVars, fwVars,
           histVars
<1>f. ScanFacts /\ ScanFacts'
  BY ScanFactsHold, ScanFactsNext
<1>z. /\ pc \in [Thread -> Place] /\ pc' \in [Thread -> Place]
      /\ pc[t] = "work"
      /\ pc'[t] = "work_run"
      /\ \A u \in Thread \ {t} : pc'[u] = pc[u]
  BY DEF IInv, Types, Places, Go
<1>r. RxSame
  BY RxKept
<1>p. Pending' <=> Pending
  BY DEF Pending
<1>q. \A x : Queued(x)' <=> Queued(x)
  BY DEF Queued
<1>a. RxSeq' /\ DataTypes'
  <2>1. RxSeq'
    BY <1>r DEF RxSame
  <2>2. DataTypes'
    BY DEF DataTypes
  <2> QED BY <2>1, <2>2
<1>b. Regime' /\ Device'
  BY <1>r, <1>z
     DEF RxSame, Regime, Device, NeverDies, NoPm, Down, Reporting, Thread
<1>c. SecondPass'
  BY <1>z, <1>p DEF SecondPass, Down, Reporting, Thread
<1>d. Caller'
  BY <1>z DEF Caller, Thread
<1>e. Mail'
  BY <1>z, MailKept DEF Thread
<1>o. OperOwner'
  <2>1. \A x \in Owner : Owns(x)' <=> Owns(x)
    BY <1>z DEF Owns
  <2> QED BY <2>1, OwnersKept
<1>g. AwakeExact'
  BY <1>z, <1>p, AwakeKept DEF Thread
<1>i. Begun' /\ Numbered'
  BY <1>f DEF Begun, Numbered, ScanFacts, Reporting
<1>j. ScanInTime'
  BY <1>r, <1>z, <1>f, <1>q
     DEF RxSame, ScanInTime, Running, Confirmed, Stopping, Expired, ScanFacts,
         Starting, Reporting
<1>k. HeardInTime'
  BY <1>r, <1>p DEF RxSame, HeardInTime
<1> QED BY <1>a, <1>b, <1>c, <1>d, <1>e, <1>o, <1>g, <1>i, <1>j, <1>k

\* scan.work finds that the scan is over.
LEMMA ScanDoneOper ==
  ASSUME IInv, IInv', LInv, NEW t \in {"wq", "bh"}, ScanDone(t)
  PROVE  LInv'
<1> USE DEF LInv, ScanDone, lockVars, scanVars, pmVars, bhVars, fwVars,
           histVars
<1>f. ScanFacts /\ ScanFacts'
  BY ScanFactsHold, ScanFactsNext
<1>z. /\ pc \in [Thread -> Place] /\ pc' \in [Thread -> Place]
      /\ pc[t] = "work_run"
      /\ pc'[t] = "finish"
      /\ \A u \in Thread \ {t} : pc'[u] = pc[u]
  BY DEF IInv, Types, Places, Go
<1>r. RxSame
  BY RxKept
<1>p. Pending' <=> Pending
  BY DEF Pending
<1>q. \A x : Queued(x)' <=> Queued(x)
  BY DEF Queued
<1>a. RxSeq' /\ DataTypes'
  <2>1. RxSeq'
    BY <1>r DEF RxSame
  <2>2. DataTypes'
    BY NumberAssumption DEF DataTypes
  <2> QED BY <2>1, <2>2
<1>b. Regime' /\ Device'
  BY <1>r, <1>z
     DEF RxSame, Regime, Device, NeverDies, NoPm, Down, Reporting, Thread
<1>c. SecondPass'
  BY <1>z, <1>p DEF SecondPass, Down, Reporting, Thread
<1>d. Caller'
  BY <1>z DEF Caller, Thread
<1>e. Mail'
  BY <1>z, MailKept DEF Thread
<1>o. OperOwner'
  <2>1. \A x \in Owner : Owns(x)' <=> Owns(x)
    BY <1>z DEF Owns
  <2> QED BY <2>1, OwnersKept
<1>g. AwakeExact'
  BY <1>z, <1>p, AwakeKept DEF Thread
<1>i. Begun' /\ Numbered'
  BY <1>f DEF Begun, Numbered, ScanFacts, Reporting
<1>j. ScanInTime'
  BY <1>r, <1>f, <1>q
     DEF RxSame, ScanInTime, Running, Confirmed, Stopping, Expired, ScanFacts,
         Reporting
<1>k. HeardInTime'
  BY <1>r, <1>p DEF RxSame, HeardInTime
<1> QED BY <1>a, <1>b, <1>c, <1>d, <1>e, <1>o, <1>g, <1>i, <1>j, <1>k

\* The scan is reported: as a success when status is still zero, and then it
\* was heard of.
LEMMA ScanFinishOper ==
  ASSUME IInv, IInv', LInv, NEW t \in {"wq", "bh"}, ScanFinish(t)
  PROVE  LInv'
<1> USE DEF LInv, ScanFinish, Return, lockVars, scanVars, pmVars, bhVars,
           fwVars, histVars
<1>f. ScanFacts /\ ScanFacts'
  BY ScanFactsHold, ScanFactsNext
<1>z. /\ pc \in [Thread -> Place] /\ pc' \in [Thread -> Place]
      /\ pc[t] = "finish"
      /\ pc'[t] = (IF t = "wq" THEN "idle" ELSE "flush3")
      /\ \A u \in Thread \ {t} : pc'[u] = pc[u]
  BY DEF IInv, Types, Places, Go
<1>r. RxSame
  BY RxKept
<1>p. Pending /\ ~Pending'
    <2>1. Pending
    BY <1>f DEF ScanFacts, Reporting
  <2> QED BY <2>1 DEF IInv, Types, ScanData, LastPending, Pending
<1>q. \A x : Queued(x)' <=> Queued(x)
  BY DEF Queued
<1>a. RxSeq' /\ DataTypes'
  <2>1. RxSeq'
    BY <1>r DEF RxSame
  <2>2. DataTypes'
    BY DEF DataTypes
  <2> QED BY <2>1, <2>2
<1>b. Regime' /\ Device'
  BY <1>r, <1>z
     DEF RxSame, Regime, Device, NeverDies, NoPm, Down, Reporting, Thread
<1>c. SecondPass'
  BY <1>z, <1>p DEF SecondPass, Down, Reporting, Thread
<1>d. Caller'
  BY <1>z DEF Caller, Thread
<1>e. Mail'
  BY <1>z, MailKept DEF Thread
<1>o. OperOwner'
  <2>1. \A x \in Owner : Owns(x)' <=> Owns(x)
    BY <1>z DEF Owns
  <2> QED BY <2>1, OwnersKept
<1>g. AwakeExact'
  BY <1>z, <1>p DEF AwakeExact, Count, Thread
<1>i. Begun' /\ Numbered'
  BY <1>f, <1>p DEF Begun, Numbered, ScanFacts
<1>j. ScanInTime'
  BY <1>r, <1>f, <1>p, <1>q
     DEF RxSame, ScanInTime, Running, Stopping, Expired, ScanFacts, Reporting
<1>k. HeardInTime'
  BY <1>r, <1>f, <1>p DEF RxSame, HeardInTime, ScanFacts, Begun
<1> QED BY <1>a, <1>b, <1>c, <1>d, <1>e, <1>o, <1>g, <1>i, <1>j, <1>k

\* The timeout of a scan is set before wsm_oper_lock is asked for.
LEMMA ScanBeginOper ==
  ASSUME IInv, IInv', LInv, NEW t \in {"wq", "bh"}, ScanBegin(t)
  PROVE  LInv'
<1> USE DEF LInv, ScanBegin, lockVars, scanVars, pmVars, bhVars, fwVars,
           histVars
<1>f. ScanFacts /\ ScanFacts'
  BY ScanFactsHold, ScanFactsNext
<1>t. t = "wq"
  BY DEF IInv, Types, Places, BhPlace, Reporting, Go
<1>z. /\ pc \in [Thread -> Place] /\ pc' \in [Thread -> Place]
      /\ pc["wq"] = "work_run"
      /\ pc'["wq"] = "scan_oper"
      /\ \A u \in Thread \ {"wq"} : pc'[u] = pc[u]
  BY <1>t DEF IInv, Types, Places, Go
<1>r. RxSame
  BY RxKept
<1>p. Pending' <=> Pending
  BY DEF Pending
<1>q. \A x : Queued(x)' <=> Queued(x)
  BY DEF Queued
<1>a. RxSeq' /\ DataTypes'
  <2>1. RxSeq'
    BY <1>r DEF RxSame
  <2>2. DataTypes'
    BY DEF DataTypes
  <2> QED BY <2>1, <2>2
<1>b. Regime' /\ Device'
  BY <1>r, <1>z DEF RxSame, Regime, Device, NeverDies, NoPm, Thread
<1>c. SecondPass'
  BY <1>z, <1>p DEF SecondPass, Thread
<1>d. Caller'
  BY <1>z DEF Caller, Thread
<1>e. Mail'
  BY <1>z, MailKept DEF Thread
<1>o. OperOwner'
  <2>1. \A x \in Owner : Owns(x)' <=> Owns(x)
    BY <1>z DEF Owns
  <2> QED BY <2>1, OwnersKept
<1>g. AwakeExact'
  BY <1>z, <1>p, AwakeKept DEF Thread
<1>i. Begun' /\ Numbered'
  BY <1>z DEF Begun, Numbered, Finishing
<1>j. ScanInTime'
  BY <1>r, <1>z, <1>f, <1>q
     DEF RxSame, ScanInTime, Running, Confirmed, Stopping, Expired, ScanFacts,
         Reporting
<1>k. HeardInTime'
  BY <1>r, <1>p DEF RxSame, HeardInTime
<1> QED BY <1>a, <1>b, <1>c, <1>d, <1>e, <1>o, <1>g, <1>i, <1>j, <1>k

\* The worker becomes the owner of wsm_oper_lock.
LEMMA ScanOperOper ==
  ASSUME IInv, IInv', LInv, NEW t \in {"wq", "bh"}, ScanOper(t)
  PROVE  LInv'
<1> USE DEF LInv, ScanOper, lockVars, scanVars, pmVars, bhVars, fwVars,
           histVars
<1>f. ScanFacts /\ ScanFacts'
  BY ScanFactsHold, ScanFactsNext
<1>z. /\ pc \in [Thread -> Place] /\ pc' \in [Thread -> Place]
      /\ pc[t] = "scan_oper"
      /\ pc'[t] = "scan_cmd"
      /\ \A u \in Thread \ {t} : pc'[u] = pc[u]
  BY DEF IInv, Types, Places, Go
<1>r. RxSame
  BY RxKept
<1>p. Pending' <=> Pending
  BY DEF Pending
<1>q. \A x : Queued(x)' <=> Queued(x)
  BY DEF Queued
<1>a. RxSeq' /\ DataTypes'
  <2>1. RxSeq'
    BY <1>r DEF RxSame
  <2>2. DataTypes'
    BY DEF DataTypes
  <2> QED BY <2>1, <2>2
<1>b. Regime' /\ Device'
  BY <1>r, <1>z
     DEF RxSame, Regime, Device, NeverDies, NoPm, Down, Reporting, Thread
<1>c. SecondPass'
  BY <1>z, <1>p DEF SecondPass, Down, Reporting, Thread
<1>d. Caller'
  BY <1>z DEF Caller, Thread
<1>e. Mail'
  BY <1>z, MailKept DEF Thread
<1>o. OperOwner'
  <2>1. t \in Owner /\ \A x \in Owner : Owns(x)' <=> Owns(x) \/ x = t
    BY <1>z DEF Owner, Owns
  <2> QED BY <2>1, OwnerTakes
<1>g. AwakeExact'
  BY <1>z, <1>p, AwakeKept DEF Thread
<1>i. Begun' /\ Numbered'
  BY <1>z, <1>f DEF Begun, Numbered, ScanFacts, Starting
<1>j. ScanInTime'
  BY <1>r, <1>z, <1>f, <1>q
     DEF RxSame, ScanInTime, Running, Confirmed, Stopping, Expired, ScanFacts,
         Starting, Reporting
<1>k. HeardInTime'
  BY <1>r, <1>p DEF RxSame, HeardInTime
<1> QED BY <1>a, <1>b, <1>c, <1>d, <1>e, <1>o, <1>g, <1>i, <1>j, <1>k

\* It sends the command, and stays the owner.
LEMMA ScanSendOper ==
  ASSUME IInv, IInv', LInv, NEW t \in {"wq", "bh"}, ScanSend(t)
  PROVE  LInv'
<1> USE DEF LInv, ScanSend, Send, lockVars, scanVars, pmVars, bhVars, fwVars,
           histVars
<1>f. ScanFacts /\ ScanFacts'
  BY ScanFactsHold, ScanFactsNext
<1>z. /\ pc \in [Thread -> Place] /\ pc' \in [Thread -> Place]
      /\ pc[t] = "scan_cmd"
      /\ pc'[t] = "scan_cnf"
      /\ \A u \in Thread \ {t} : pc'[u] = pc[u]
  BY DEF IInv, Types, Places, Go
<1>r. RxSame
  BY RxKept
<1>p. Pending' <=> Pending
  BY DEF Pending
<1>q. \A x : Queued(x)' <=> Queued(x)
  BY DEF Queued
<1>a. RxSeq' /\ DataTypes'
  <2>1. RxSeq'
    BY <1>r DEF RxSame
  <2>2. DataTypes'
    BY DEF DataTypes, CmdID
  <2> QED BY <2>1, <2>2
<1>b. Regime' /\ Device'
  BY <1>r, <1>z
     DEF RxSame, Regime, Device, NeverDies, NoPm, Down, Reporting, Thread
<1>c. SecondPass'
  BY <1>z, <1>p DEF SecondPass, Device, Down, Reporting, Thread
<1>d. Caller'
  BY <1>z
     DEF Caller, Thread, NoCmd, None, IInv, Types, Places, Reporting, BhPlace
<1>e. Mail'
  BY <1>z, MailSent DEF Thread
<1>o. OperOwner'
  <2>1. \A x \in Owner : Owns(x)' <=> Owns(x)
    BY <1>z DEF Owns, NoCmd, None
  <2> QED BY <2>1, OwnersKept
<1>g. AwakeExact'
  BY <1>z, <1>p, AwakeKept DEF Thread
<1>i. Begun' /\ Numbered'
  BY <1>z, <1>f DEF Begun, Numbered, ScanFacts, Starting
<1>j. ScanInTime'
  BY <1>r, <1>z, <1>f, <1>q
     DEF RxSame, ScanInTime, Running, Confirmed, Stopping, Expired, ScanFacts,
         Starting, Reporting
<1>k. HeardInTime'
  BY <1>r, <1>p DEF RxSame, HeardInTime
<1> QED BY <1>a, <1>b, <1>c, <1>d, <1>e, <1>o, <1>g, <1>i, <1>j, <1>k

\* The scan runs: its owner is the scan itself since the confirmation was
\* handled.
LEMMA ScanStartedOper ==
  ASSUME IInv, IInv', LInv, NEW t \in {"wq", "bh"}, ScanStarted(t)
  PROVE  LInv'
<1> USE DEF LInv, ScanStarted, Returned, Return, lockVars, scanVars, pmVars,
           bhVars, fwVars, histVars
<1>f. ScanFacts /\ ScanFacts'
  BY ScanFactsHold, ScanFactsNext
<1>t. t = "wq"
  BY DEF IInv, Types, Places, BhPlace, Reporting
<1>z. /\ pc \in [Thread -> Place] /\ pc' \in [Thread -> Place]
      /\ pc["wq"] = "scan_cnf"
      /\ pc'["wq"] = "idle"
      /\ \A u \in Thread \ {"wq"} : pc'[u] = pc[u]
  BY <1>t DEF IInv, Types, Places, Go
<1>r. RxSame
  BY RxKept
<1>p. Pending' <=> Pending
  BY DEF Pending
<1>q. \A x : Queued(x)' <=> Queued(x)
  BY DEF Queued
<1>w. \A u \in Thread \ {"wq"} : pc[u] # "scan_cnf"
  BY <1>f DEF ScanFacts, Starting
<1>a. RxSeq' /\ DataTypes'
  <2>1. RxSeq'
    BY <1>r DEF RxSame
  <2>2. DataTypes'
    BY DEF DataTypes
  <2> QED BY <2>1, <2>2
<1>b. Regime' /\ Device'
  BY <1>r, <1>z
     DEF RxSame, Regime, Device, NeverDies, NoPm, Thread, NoCmd, None
<1>c. SecondPass'
  BY <1>z, <1>p DEF SecondPass, Thread
<1>d. Caller'
  BY <1>z DEF Caller, Thread, NoCmd, None
<1>e. Mail'
  BY <1>z, MailReturned DEF Thread
<1>o. OperOwner'
  <2>1. \A x \in Owner : Owns(x)' <=> Owns(x)
    BY <1>z, <1>w DEF Owns
  <2> QED BY <2>1, OwnersKept
<1>g. AwakeExact'
  BY <1>z, <1>p, AwakeKept DEF Thread
<1>i. Begun' /\ Numbered'
  BY <1>z DEF Begun, Numbered, Starting
<1>j. ScanInTime'
  BY <1>r, <1>z, <1>q
     DEF RxSame, ScanInTime, Running, Confirmed, Stopping, Expired, Thread,
         NoCmd
<1>k. HeardInTime'
  BY <1>r, <1>z, <1>f DEF RxSame, HeardInTime, ScanFacts, Starting
<1> QED BY <1>a, <1>b, <1>c, <1>d, <1>e, <1>o, <1>g, <1>i, <1>j, <1>k

\* The scan is rejected: the worker gives wsm_oper_lock back.
LEMMA ScanRejectedOper ==
  ASSUME IInv, IInv', LInv, NEW t \in {"wq", "bh"}, ScanRejected(t)
  PROVE  LInv'
<1> USE DEF LInv, ScanRejected, Returned, lockVars, scanVars, pmVars, bhVars,
           fwVars, histVars
<1>f. ScanFacts /\ ScanFacts'
  BY ScanFactsHold, ScanFactsNext
<1>z. /\ pc \in [Thread -> Place] /\ pc' \in [Thread -> Place]
      /\ pc[t] = "scan_cnf"
      /\ pc'[t] = "scan_fail"
      /\ \A u \in Thread \ {t} : pc'[u] = pc[u]
  BY DEF IInv, Types, Places, Go
<1>r. RxSame
  BY RxKept
<1>p. Pending' <=> Pending
  BY DEF Pending
<1>q. \A x : Queued(x)' <=> Queued(x)
  BY DEF Queued
<1>a. RxSeq' /\ DataTypes'
  <2>1. RxSeq'
    BY <1>r DEF RxSame
  <2>2. DataTypes'
    BY DEF DataTypes
  <2> QED BY <2>1, <2>2
<1>b. Regime' /\ Device'
  BY <1>r, <1>z
     DEF RxSame, Regime, Device, NeverDies, NoPm, Down, Reporting, Thread,
         NoCmd, None
<1>c. SecondPass'
  BY <1>z, <1>p DEF SecondPass, Down, Reporting, Thread, Caller
<1>d. Caller'
  BY <1>z
     DEF Caller, Thread, NoCmd, None, IInv, Types, Places, Reporting, BhPlace
<1>e. Mail'
  BY <1>z, MailReturned DEF Thread
<1>o. OperOwner'
  <2>1. /\ t \in Owner /\ Owns(t)
        /\ \A x \in Owner : Owns(x)' <=> Owns(x) /\ x # t
    BY <1>z DEF Owner, Owns, NoCmd, None
  <2> QED BY <2>1, OwnerGives
<1>g. AwakeExact'
  BY <1>z, <1>p, AwakeKept DEF Thread
<1>i. Begun' /\ Numbered'
  BY <1>z, <1>f DEF Begun, Numbered, ScanFacts, Starting
<1>j. ScanInTime'
  BY <1>r, <1>z, <1>f, <1>q
     DEF RxSame, ScanInTime, Running, Confirmed, Stopping, Expired, ScanFacts,
         Starting, Reporting, NoCmd
<1>k. HeardInTime'
  BY <1>r, <1>p DEF RxSame, HeardInTime
<1> QED BY <1>a, <1>b, <1>c, <1>d, <1>e, <1>o, <1>g, <1>i, <1>j, <1>k

\* A scan that was rejected is not confirmed, so its status moves on to
\* failed.
LEMMA ScanFailOper ==
  ASSUME IInv, IInv', LInv, NEW t \in {"wq", "bh"}, ScanFail(t)
  PROVE  LInv'
<1> USE DEF LInv, ScanFail, Return, lockVars, scanVars, pmVars, bhVars, fwVars,
           histVars
<1>f. ScanFacts /\ ScanFacts'
  BY ScanFactsHold, ScanFactsNext
<1>t. t = "wq"
  BY DEF IInv, Types, Places, BhPlace, Reporting
<1>z. /\ pc \in [Thread -> Place] /\ pc' \in [Thread -> Place]
      /\ pc["wq"] = "scan_fail"
      /\ pc'["wq"] = "idle"
      /\ \A u \in Thread \ {"wq"} : pc'[u] = pc[u]
  BY <1>t DEF IInv, Types, Places, Go
<1>r. RxSame
  BY RxKept
<1>p. Pending' <=> Pending
  BY DEF Pending
<1>q. \A x : Queued(x)' <=> (Queued(x) /\ x # "timeout") \/ x = "work"
  BY FailFacts DEF IInv
<1>a. RxSeq' /\ DataTypes'
  <2>1. RxSeq'
    BY <1>r DEF RxSame
  <2>2. DataTypes'
    BY DEF DataTypes
  <2> QED BY <2>1, <2>2
<1>b. Regime' /\ Device'
  BY <1>r, <1>z DEF RxSame, Regime, Device, NeverDies, NoPm, Thread
<1>c. SecondPass'
  BY <1>z, <1>p DEF SecondPass, Thread
<1>d. Caller'
  BY <1>z DEF Caller, Thread
<1>e. Mail'
  BY <1>z, MailKept DEF Thread
<1>o. OperOwner'
  <2>1. \A x \in Owner : Owns(x)' <=> Owns(x)
    BY <1>z DEF Owns
  <2> QED BY <2>1, OwnersKept
<1>g. AwakeExact'
  BY <1>z, <1>p, AwakeKept DEF Thread
<1>i. Begun' /\ Numbered'
  BY <1>f DEF Begun, Numbered, ScanFacts
<1>j. ScanInTime'
  BY <1>z, <1>f, <1>q
     DEF ScanInTime, Running, Confirmed, Stopping, Expired, ScanFacts,
         Starting, Reporting, Begun
<1>k. HeardInTime'
  BY <1>r DEF RxSame, HeardInTime
<1> QED BY <1>a, <1>b, <1>c, <1>d, <1>e, <1>o, <1>g, <1>i, <1>j, <1>k

\* scan.timeout runs. With status zero the scan still owns wsm_oper_lock and
\* is to be stopped; otherwise the report has given it back.
LEMMA ScanTimeoutOper ==
  ASSUME IInv, IInv', LInv, NEW t \in {"wq", "bh"}, ScanTimeout(t)
  PROVE  LInv'
<1> USE DEF LInv, ScanTimeout, lockVars, scanVars, pmVars, bhVars, fwVars,
           histVars
<1>f. ScanFacts /\ ScanFacts'
  BY ScanFactsHold, ScanFactsNext
<1>t. in_progress
  BY <1>f DEF ScanFacts
<1>z. /\ pc \in [Thread -> Place] /\ pc' \in [Thread -> Place]
      /\ pc[t] = "timeout"
      /\ pc'[t] = (IF status = "zero" THEN "stop" ELSE "work")
      /\ \A u \in Thread \ {t} : pc'[u] = pc[u]
  BY <1>t DEF IInv, Types, Places, Go, Thread
<1>r. RxSame
  BY RxKept
<1>p. Pending' <=> Pending
  BY DEF Pending
<1>q. \A x : Queued(x)' <=> Queued(x)
  BY DEF Queued
<1>n. /\ in_progress /\ curr = "end" /\ ~Queued("timeout") /\ Confirmed
      /\ \A u \in {"wq", "bh"} \ {t} : pc[u] \notin Reporting
  BY <1>f
     DEF ScanFacts, TimeoutPending, Reporting, IInv, Types, ScanData,
         Confirmed
<1>m. /\ ~Stopping /\ Confirmed'
      /\ "late" \notin may =>
           /\ status # "zero" => awaited = 0
           /\ status = "zero" => awaited # 0
           /\ ~rxCb
  <2>1. ~Stopping /\ Confirmed'
    BY <1>n DEF Stopping, Confirmed, Reporting
  <2>2. status = "zero" => Expired /\ Running
    BY <1>n DEF Expired, Running
  <2>3. status # "zero" => ~Running
    BY DEF Running
  <2> QED BY <2>1, <2>2, <2>3 DEF ScanInTime
<1>a. RxSeq' /\ DataTypes'
  <2>1. RxSeq'
    BY <1>r DEF RxSame
  <2>2. DataTypes'
    BY DEF DataTypes
  <2> QED BY <2>1, <2>2
<1>b. Regime' /\ Device'
  BY <1>r, <1>z
     DEF RxSame, Regime, Device, NeverDies, NoPm, Down, Reporting, Thread
<1>c. SecondPass'
  BY <1>z, <1>p DEF SecondPass, Down, Reporting, Thread
<1>d. Caller'
  BY <1>z DEF Caller, Thread
<1>e. Mail'
  BY <1>z, MailKept DEF Thread
<1>o. OperOwner'
  <2>1. \A x \in Owner : Owns(x)' <=> Owns(x)
    BY <1>z DEF Owns
  <2> QED BY <2>1, OwnersKept
<1>g. AwakeExact'
  BY <1>z, <1>p, AwakeKept DEF Thread
<1>i. Begun' /\ Numbered'
  BY <1>f DEF Begun, Numbered, ScanFacts
<1>j. ScanInTime'
  <2>0. /\ \A u \in {"wq", "bh"} \ {t} : pc'[u] \notin Reporting
        /\ pc'[t] = (IF status = "zero" THEN "stop" ELSE "work")
    BY <1>n, <1>z DEF Thread
  <2>1. ~Running' /\ (Stopping' <=> status = "zero")
    BY <2>0 DEF Running, Stopping, Reporting
  <2>2. Expired' => Expired /\ status = "zero"
    <3>1. ~Queued("timeout")'
      BY <1>n, <1>q
    <3>2. Expired' => Stopping'
      BY <2>0, <3>1 DEF Expired, Reporting
    <3>3. status = "zero" => Expired
      BY DEF Expired
    <3> QED BY <2>1, <3>2, <3>3
  <2> QED BY <1>m, <1>r, <2>1, <2>2 DEF ScanInTime, RxSame
<1>k. HeardInTime'
  BY <1>r, <1>p DEF RxSame, HeardInTime
<1> QED BY <1>a, <1>b, <1>c, <1>d, <1>e, <1>o, <1>g, <1>i, <1>j, <1>k

\* wsm_stop_scan is sent.
LEMMA StopSendOper ==
  ASSUME IInv, IInv', LInv, NEW t \in {"wq", "bh"}, StopSend(t)
  PROVE  LInv'
<1> USE DEF LInv, StopSend, Send, lockVars, scanVars, pmVars, bhVars, fwVars,
           histVars
<1>f. ScanFacts /\ ScanFacts'
  BY ScanFactsHold, ScanFactsNext
<1>z. /\ pc \in [Thread -> Place] /\ pc' \in [Thread -> Place]
      /\ pc[t] = "stop"
      /\ pc'[t] = "stop_cnf"
      /\ \A u \in Thread \ {t} : pc'[u] = pc[u]
  BY DEF IInv, Types, Places, Go
<1>r. RxSame
  BY RxKept
<1>p. Pending' <=> Pending
  BY DEF Pending
<1>a. RxSeq' /\ DataTypes'
  <2>1. RxSeq'
    BY <1>r DEF RxSame
  <2>2. DataTypes'
    BY DEF DataTypes, CmdID
  <2> QED BY <2>1, <2>2
<1>b. Regime' /\ Device'
  BY <1>r, <1>z
     DEF RxSame, Regime, Device, NeverDies, NoPm, Down, Reporting, Thread
<1>c. SecondPass'
  BY <1>z, <1>p DEF SecondPass, Device, Down, Reporting, Thread
<1>d. Caller'
  BY <1>z DEF Caller, Thread, NoCmd, None
<1>e. Mail'
  BY <1>z, MailSent DEF Thread
<1>o. OperOwner'
  <2>1. \A x \in Owner : Owns(x)' <=> Owns(x)
    BY <1>z DEF Owns, NoCmd, None
  <2> QED BY <2>1, OwnersKept
<1>g. AwakeExact'
  BY <1>z, <1>p, AwakeKept DEF Thread
<1>i. Begun' /\ Numbered'
  BY <1>f DEF Begun, Numbered, ScanFacts, Reporting
<1>j. ScanInTime'
  BY <1>r, <1>z, <1>f
     DEF RxSame, ScanInTime, Confirmed, Stopping, Expired, ScanFacts,
         Starting, Reporting
<1>k. HeardInTime'
  BY <1>r, <1>p DEF RxSame, HeardInTime
<1> QED BY <1>a, <1>b, <1>c, <1>d, <1>e, <1>o, <1>g, <1>i, <1>j, <1>k

\* wsm_stop_scan is confirmed: only with late reports, because otherwise the
\* firmware has died.
LEMMA StopConfirmedOper ==
  ASSUME IInv, IInv', LInv, NEW t \in {"wq", "bh"}, StopConfirmed(t)
  PROVE  LInv'
<1> USE DEF LInv, StopConfirmed, Returned, lockVars, scanVars, pmVars, bhVars,
           fwVars, histVars
<1>f. ScanFacts /\ ScanFacts'
  BY ScanFactsHold, ScanFactsNext
<1>z. /\ pc \in [Thread -> Place] /\ pc' \in [Thread -> Place]
      /\ pc[t] = "stop_cnf"
      /\ pc'[t] = "work"
      /\ \A u \in Thread \ {t} : pc'[u] = pc[u]
  BY DEF IInv, Types, Places, Go
<1>r. RxSame
  BY RxKept
<1>p. Pending' <=> Pending
  BY DEF Pending
<1>w. \A u \in Thread : pc[u] # "scan_cnf"
  <2>1. pc["wq"] # "scan_cnf"
    BY DEF Caller
  <2> QED BY <2>1, <1>f DEF ScanFacts, Starting
<1>a. RxSeq' /\ DataTypes'
  <2>1. RxSeq'
    BY <1>r DEF RxSame
  <2>2. DataTypes'
    BY DEF DataTypes
  <2> QED BY <2>1, <2>2
<1>b. Regime' /\ Device'
  BY <1>r, <1>z
     DEF RxSame, Regime, Device, NeverDies, NoPm, Down, Reporting, Thread,
         NoCmd, None
<1>c. SecondPass'
  BY <1>z, <1>p DEF SecondPass, Down, Reporting, Thread
<1>d. Caller'
  BY <1>z, <1>f
     DEF Caller, Thread, NoCmd, None, IInv, Types, Places, ScanFacts
<1>e. Mail'
  BY <1>z, MailReturned DEF Thread
<1>o. OperOwner'
  <2>1. \A x \in Owner : Owns(x)' <=> Owns(x)
    BY <1>z, <1>w DEF Owns
  <2> QED BY <2>1, OwnersKept
<1>g. AwakeExact'
  BY <1>z, <1>p, AwakeKept DEF Thread
<1>i. Begun' /\ Numbered'
  BY <1>f DEF Begun, Numbered, ScanFacts, Reporting
<1>j. ScanInTime'
  BY DEF ScanInTime, Caller
<1>k. HeardInTime'
  BY <1>r, <1>p DEF RxSame, HeardInTime
<1> QED BY <1>a, <1>b, <1>c, <1>d, <1>e, <1>o, <1>g, <1>i, <1>j, <1>k

\* wsm_stop_scan fails: the scan still owned wsm_oper_lock and no indication
\* of it is left.
LEMMA StopFailedOper ==
  ASSUME IInv, IInv', LInv, NEW t \in {"wq", "bh"}, StopFailed(t)
  PROVE  LInv'
<1> USE DEF LInv, StopFailed, Returned, lockVars, scanVars, pmVars, bhVars,
           fwVars, histVars
<1>f. ScanFacts /\ ScanFacts'
  BY ScanFactsHold, ScanFactsNext
<1>z. /\ pc \in [Thread -> Place] /\ pc' \in [Thread -> Place]
      /\ pc[t] = "stop_cnf"
      /\ pc'[t] = "work"
      /\ \A u \in Thread \ {t} : pc'[u] = pc[u]
  BY DEF IInv, Types, Places, Go
<1>r. RxSame
  BY RxKept
<1>p. Pending' <=> Pending
  BY DEF Pending
<1>w. \A u \in Thread : pc[u] # "scan_cnf"
  <2>1. pc["wq"] # "scan_cnf"
    BY DEF Caller
  <2> QED BY <2>1, <1>f DEF ScanFacts, Starting
<1>n. /\ "late" \notin may /\ awaited # 0 /\ fw = 0
      /\ rxOn => ~Told("scan_ind")
  <2>1. "late" \notin may /\ Stopping
    BY DEF Mail, LateInv, Caller, Stopping
  <2> QED BY <2>1 DEF ScanInTime, Expired, Device
<1>a. RxSeq' /\ DataTypes'
  <2>1. RxSeq'
    BY <1>r DEF RxSame
  <2>2. DataTypes'
    BY NumberAssumption DEF DataTypes
  <2> QED BY <2>1, <2>2
<1>b. Regime' /\ Device'
  BY <1>r, <1>z
     DEF RxSame, Regime, Device, NeverDies, NoPm, Down, Reporting, Thread,
         NoCmd, None
<1>c. SecondPass'
  BY <1>z, <1>f DEF SecondPass, Down, ScanFacts, Reporting, Thread
<1>d. Caller'
  BY <1>z, <1>f
     DEF Caller, Thread, NoCmd, None, IInv, Types, Places, ScanFacts
<1>e. Mail'
  BY <1>z, <1>r, <1>n
     DEF Mail, Answered, OneInd, IndOwed, LateInv, PmInTime, RxSame, NoCmd,
         None, Thread
<1>o. OperOwner'
  <2>1. /\ "scan" \in Owner /\ Owns("scan")
        /\ \A x \in Owner : Owns(x)' <=> Owns(x) /\ x # "scan"
    BY <1>z, <1>w, <1>n DEF Owner, Owns, Thread
  <2> QED BY <2>1, OwnerGives
<1>g. AwakeExact'
  BY <1>z, <1>p, AwakeKept DEF Thread
<1>i. Begun' /\ Numbered'
  BY <1>f DEF Begun, Numbered, ScanFacts, Reporting
<1>j. ScanInTime'
  BY <1>r, <1>z, <1>f
     DEF RxSame, ScanInTime, Running, Confirmed, Stopping, Expired, ScanFacts,
         Reporting, NoCmd
<1>k. HeardInTime'
  BY <1>r, <1>p DEF RxSame, HeardInTime
<1> QED BY <1>a, <1>b, <1>c, <1>d, <1>e, <1>o, <1>g, <1>i, <1>j, <1>k

\* A configuration call takes conf_mutex.
LEMMA OpBeginOper ==
  ASSUME IInv, IInv', LInv, OpBegin
  PROVE  LInv'
<1> USE DEF LInv, OpBegin, lockVars, scanVars, pmVars, bhVars, fwVars, histVars
<1>z. /\ pc \in [Thread -> Place] /\ pc' \in [Thread -> Place]
      /\ pc["user"] = "idle"
      /\ pc'["user"] = "oper"
      /\ \A u \in Thread \ {"user"} : pc'[u] = pc[u]
  BY DEF IInv, Types, Places, Go
<1>r. RxSame
  BY RxKept
<1>p. Pending' <=> Pending
  BY DEF Pending
<1>q. \A x : Queued(x)' <=> Queued(x)
  BY DEF Queued
<1>a. RxSeq' /\ DataTypes'
  <2>1. RxSeq'
    BY <1>r DEF RxSame
  <2>2. DataTypes'
    BY DEF DataTypes
  <2> QED BY <2>1, <2>2
<1>b. Regime' /\ Device'
  BY <1>r, <1>z DEF RxSame, Regime, Device, NeverDies, NoPm, Thread
<1>c. SecondPass'
  BY <1>z, <1>p DEF SecondPass, Thread
<1>d. Caller'
  BY <1>z DEF Caller, Thread
<1>e. Mail'
  BY <1>z, MailKept
<1>o. OperOwner'
  <2>1. \A x \in Owner : Owns(x)' <=> Owns(x)
    BY <1>z DEF Owns
  <2> QED BY <2>1, OwnersKept
<1>g. AwakeExact'
  BY <1>z, <1>p, AwakeKept DEF Thread
<1>i. Begun' /\ Numbered'
  BY <1>z DEF Begun, Numbered, Finishing, Thread
<1>j. ScanInTime'
  BY <1>r, <1>z, <1>p, <1>q
     DEF RxSame, ScanInTime, Running, Confirmed, Stopping, Expired, Thread
<1>k. HeardInTime'
  BY <1>r, <1>p DEF RxSame, HeardInTime
<1> QED BY <1>a, <1>b, <1>c, <1>d, <1>e, <1>o, <1>g, <1>i, <1>j, <1>k

\* It becomes the owner of wsm_oper_lock.
LEMMA OpOperOper ==
  ASSUME IInv, IInv', LInv, NEW t \in {"user", "bh"}, OpOper(t)
  PROVE  LInv'
<1> USE DEF LInv, OpOper, lockVars, scanVars, pmVars, bhVars, fwVars, histVars
<1>z. /\ pc \in [Thread -> Place] /\ pc' \in [Thread -> Place]
      /\ pc[t] = "oper"
      /\ pc'[t] = "op_cmd"
      /\ \A u \in Thread \ {t} : pc'[u] = pc[u]
  BY DEF IInv, Types, Places, Go
<1>r. RxSame
  BY RxKept
<1>p. Pending' <=> Pending
  BY DEF Pending
<1>q. \A x : Queued(x)' <=> Queued(x)
  BY DEF Queued
<1>a. RxSeq' /\ DataTypes'
  <2>1. RxSeq'
    BY <1>r DEF RxSame
  <2>2. DataTypes'
    BY DEF DataTypes
  <2> QED BY <2>1, <2>2
<1>b. Regime' /\ Device'
  BY <1>r, <1>z
     DEF RxSame, Regime, Device, NeverDies, NoPm, Down, Reporting, Thread
<1>c. SecondPass'
  BY <1>z, <1>p DEF SecondPass, Down, Reporting, Thread
<1>d. Caller'
  BY <1>z DEF Caller, Thread
<1>e. Mail'
  BY <1>z, MailKept DEF Thread
<1>o. OperOwner'
  <2>1. t \in Owner /\ \A x \in Owner : Owns(x)' <=> Owns(x) \/ x = t
    BY <1>z DEF Owner, Owns
  <2> QED BY <2>1, OwnerTakes
<1>g. AwakeExact'
  BY <1>z, <1>p, AwakeKept DEF Thread
<1>i. Begun' /\ Numbered'
  BY <1>z DEF Begun, Numbered, Finishing, Thread
<1>j. ScanInTime'
  BY <1>r, <1>z, <1>p, <1>q
     DEF RxSame, ScanInTime, Running, Confirmed, Stopping, Expired, Thread
<1>k. HeardInTime'
  BY <1>r, <1>p DEF RxSame, HeardInTime
<1> QED BY <1>a, <1>b, <1>c, <1>d, <1>e, <1>o, <1>g, <1>i, <1>j, <1>k

\* wsm_start is sent.
LEMMA OpSendStartOper ==
  ASSUME IInv, IInv', LInv, NEW t \in {"user", "bh"}, OpSend(t),
         op[t] = "start"
  PROVE  LInv'
<1> USE DEF LInv, OpSend, Send, lockVars, scanVars, pmVars, bhVars, fwVars,
           histVars
<1>z. /\ pc \in [Thread -> Place] /\ pc' \in [Thread -> Place]
      /\ pc[t] = "op_cmd"
      /\ pc'[t] = "op_cnf"
      /\ \A u \in Thread \ {t} : pc'[u] = pc[u]
  BY DEF IInv, Types, Places, Go
<1>r. RxSame
  BY RxKept
<1>p. Pending' <=> Pending
  BY DEF Pending
<1>q. \A x : Queued(x)' <=> Queued(x)
  BY DEF Queued
<1>a. RxSeq' /\ DataTypes'
  <2>1. RxSeq'
    BY <1>r DEF RxSame
  <2>2. DataTypes'
    BY DEF DataTypes, CmdID
  <2> QED BY <2>1, <2>2
<1>b. Regime' /\ Device'
  BY <1>r, <1>z
     DEF RxSame, Regime, Device, NeverDies, NoPm, Down, Reporting, Thread
<1>c. SecondPass'
  BY <1>z, <1>p DEF SecondPass, Device, Down, Reporting, Thread
<1>d. Caller'
  BY <1>z DEF Caller, Thread, NoCmd, None
<1>e. Mail'
  BY <1>z, MailSent DEF Thread
<1>o. OperOwner'
  <2>1. \A x \in Owner : Owns(x)' <=> Owns(x)
    BY <1>z DEF Owns, NoCmd, None
  <2> QED BY <2>1, OwnersKept
<1>g. AwakeExact'
  BY <1>z, <1>p, AwakeKept DEF Thread
<1>i. Begun' /\ Numbered'
  BY <1>z DEF Begun, Numbered, Finishing, Thread
<1>j. ScanInTime'
  BY <1>r, <1>z, <1>p, <1>q
     DEF RxSame, ScanInTime, Running, Confirmed, Stopping, Expired, Caller,
         Thread, NoCmd
<1>k. HeardInTime'
  BY <1>r, <1>p DEF RxSame, HeardInTime
<1> QED BY <1>a, <1>b, <1>c, <1>d, <1>e, <1>o, <1>g, <1>i, <1>j, <1>k

\* wsm_set_pm hands wsm_oper_lock to wsm_pm_running and then sends; the device
\* is up.
LEMMA OpSendPmOper ==
  ASSUME IInv, IInv', LInv, NEW t \in {"user", "bh"}, OpSend(t), op[t] = "pm"
  PROVE  LInv'
<1> USE DEF LInv, OpSend, Send, lockVars, scanVars, pmVars, bhVars, fwVars,
           histVars
<1>t. t = "user"
  BY DEF IInv, Types, LockData
<1>z. /\ pc \in [Thread -> Place] /\ pc' \in [Thread -> Place]
      /\ pc["user"] = "op_cmd"
      /\ pc'["user"] = "op_cnf"
      /\ \A u \in Thread \ {"user"} : pc'[u] = pc[u]
  BY <1>t DEF IInv, Types, Places, Go
<1>r. RxSame
  BY RxKept
<1>p. Pending' <=> Pending
  BY DEF Pending
<1>q. \A x : Queued(x)' <=> Queued(x)
  BY DEF Queued
<1>n. /\ "pm" \in may /\ up /\ ~Told("confirm")
      /\ cmd.id = None /\ cmd' = [id |-> "pm", state |-> "sent"]
      /\ "late" \notin may => ~fwPm /\ ~Told("pm_ind")
  <2>1. "pm" \in may /\ up /\ rxOn
    BY <1>t DEF Regime, NoPm, NeverDies, Device
  <2>2. cmd.id = None /\ cmd.state = None
    BY DEF NoCmd
  <2>3. ~Told("confirm")
    BY <2>1, <2>2 DEF Mail, Answered, None
  <2>4. Owns("user") /\ "user" \in Owner /\ "pm" \in Owner
    BY <1>z DEF Owns, Owner
  <2>5. ~pm_running
    BY <2>4 DEF OperOwner, Owns
  <2>6. "late" \notin may => ~fwPm /\ ~Told("pm_ind")
    BY <2>5 DEF Mail, PmInTime
  <2> QED BY <2>1, <2>2, <2>3, <2>6
<1>a. RxSeq' /\ DataTypes'
  <2>1. RxSeq'
    BY <1>r DEF RxSame
  <2>2. DataTypes'
    BY DEF DataTypes, CmdID
  <2> QED BY <2>1, <2>2
<1>b. Regime' /\ Device'
  BY <1>z, <1>n DEF Regime, Device, NeverDies, Thread
<1>c. SecondPass'
  BY <1>z, <1>p DEF SecondPass, Device, Down, Thread
<1>d. Caller'
  BY <1>z, <1>n DEF Caller, Thread, None, ConfOwner, ConfPlace, IInv
<1>e. Mail'
  <2>1. Answered' /\ OneInd' /\ IndOwed'
    BY <1>n, <1>r DEF Mail, Answered, OneInd, IndOwed, RxSame, None
  <2>2. pc'["user"] = "op_cnf" /\ pm_running' = TRUE
    BY <1>z
  <2>3. LateInv'
    <3>1. ~Answer(FALSE)'
      BY <1>n, <1>r, RxTold DEF RxSame
    <3>2. cmd'.state = "sent"
      BY <1>n
    <3> HIDE DEF LInv, OpSend, Go, pmVars
    <3> QED BY <2>2, <3>1, <3>2 DEF LateInv
  <2>4. PmInTime'
    BY <1>n, <1>r, RxTold DEF PmInTime, RxSame
  <2> QED BY <2>1, <2>3, <2>4 DEF Mail
<1>o. OperOwner'
  <2>1. /\ t \in Owner /\ "pm" \in Owner /\ Owns(t)
        /\ \A x \in Owner : Owns(x)' <=> (Owns(x) /\ x # t) \/ x = "pm"
    BY <1>t, <1>z DEF Owner, Owns, NoCmd, None
  <2> QED BY <2>1, OwnerPasses
<1>g. AwakeExact'
  BY <1>z, <1>p DEF AwakeExact, Count, Thread, OperOwner, Owner, Owns
<1>i. Begun' /\ Numbered'
  BY <1>z DEF Begun, Numbered, Finishing, Thread
<1>j. ScanInTime'
  BY <1>r, <1>z, <1>p, <1>q
     DEF RxSame, ScanInTime, Running, Confirmed, Stopping, Expired, Caller,
         Thread, NoCmd
<1>k. HeardInTime'
  BY <1>r, <1>p DEF RxSame, HeardInTime
<1> QED BY <1>a, <1>b, <1>c, <1>d, <1>e, <1>o, <1>g, <1>i, <1>j, <1>k

\* wsm_start returns and gives wsm_oper_lock back.
LEMMA OpStartedOper ==
  ASSUME IInv, IInv', LInv, NEW t \in {"user", "bh"}, OpStarted(t)
  PROVE  LInv'
<1> USE DEF LInv, OpStarted, OpLeave, Returned, lockVars, scanVars, pmVars,
           bhVars, fwVars, histVars
<1>f. ScanFacts /\ ScanFacts'
  BY ScanFactsHold, ScanFactsNext
<1>z. /\ pc \in [Thread -> Place] /\ pc' \in [Thread -> Place]
      /\ pc[t] = "op_cnf"
      /\ pc'[t] = "idle"
      /\ \A u \in Thread \ {t} : pc'[u] = pc[u]
  BY DEF IInv, Types, Places, Go
<1>r. RxSame
  BY RxKept
<1>p. Pending' <=> Pending
  BY DEF Pending
<1>q. \A x : Queued(x)' <=> Queued(x)
  BY DEF Queued
<1>w. \A u \in Thread : pc[u] # "scan_cnf"
  <2>1. pc["wq"] # "scan_cnf"
    BY DEF Caller
  <2> QED BY <2>1, <1>f DEF ScanFacts, Starting
<1>a. RxSeq' /\ DataTypes'
  <2>1. RxSeq'
    BY <1>r DEF RxSame
  <2>2. DataTypes'
    BY DEF DataTypes
  <2> QED BY <2>1, <2>2
<1>b. Regime' /\ Device'
  BY <1>r, <1>z
     DEF RxSame, Regime, Device, NeverDies, NoPm, Down, Reporting, Thread,
         NoCmd, None
<1>c. SecondPass'
  BY <1>z, <1>p DEF SecondPass, Down, Reporting, Thread, Caller
<1>d. Caller'
  BY <1>z DEF Caller, Thread, NoCmd, None, IInv, ConfOwner, ConfPlace
<1>e. Mail'
  BY <1>z, MailReturned DEF Thread
<1>o. OperOwner'
  <2>1. /\ t \in Owner /\ Owns(t)
        /\ \A x \in Owner : Owns(x)' <=> Owns(x) /\ x # t
    BY <1>z, <1>w DEF Owner, Owns
  <2> QED BY <2>1, OwnerGives
<1>g. AwakeExact'
  BY <1>z, <1>p, AwakeKept DEF Thread
<1>i. Begun' /\ Numbered'
  BY <1>z DEF Begun, Numbered, Finishing, Thread
<1>j. ScanInTime'
  BY <1>r, <1>z, <1>p, <1>q
     DEF RxSame, ScanInTime, Running, Confirmed, Stopping, Expired, Caller,
         Thread, NoCmd
<1>k. HeardInTime'
  BY <1>r, <1>p DEF RxSame, HeardInTime
<1> QED BY <1>a, <1>b, <1>c, <1>d, <1>e, <1>o, <1>g, <1>i, <1>j, <1>k

\* wsm_set_pm returns, and wsm_pm_running may still own wsm_oper_lock.
LEMMA OpPmOper ==
  ASSUME IInv, IInv', LInv, NEW t \in {"user", "bh"}, OpPm(t)
  PROVE  LInv'
<1> USE DEF LInv, OpPm, OpLeave, Returned, lockVars, scanVars, pmVars, bhVars,
           fwVars, histVars
<1>f. ScanFacts /\ ScanFacts'
  BY ScanFactsHold, ScanFactsNext
<1>z. /\ pc \in [Thread -> Place] /\ pc' \in [Thread -> Place]
      /\ pc[t] = "op_cnf"
      /\ pc'[t] = "idle"
      /\ \A u \in Thread \ {t} : pc'[u] = pc[u]
  BY DEF IInv, Types, Places, Go
<1>r. RxSame
  BY RxKept
<1>p. Pending' <=> Pending
  BY DEF Pending
<1>q. \A x : Queued(x)' <=> Queued(x)
  BY DEF Queued
<1>w. \A u \in Thread : pc[u] # "scan_cnf"
  <2>1. pc["wq"] # "scan_cnf"
    BY DEF Caller
  <2> QED BY <2>1, <1>f DEF ScanFacts, Starting
<1>a. RxSeq' /\ DataTypes'
  <2>1. RxSeq'
    BY <1>r DEF RxSame
  <2>2. DataTypes'
    BY DEF DataTypes
  <2> QED BY <2>1, <2>2
<1>b. Regime' /\ Device'
  BY <1>r, <1>z
     DEF RxSame, Regime, Device, NeverDies, NoPm, Down, Reporting, Thread
<1>c. SecondPass'
  BY <1>z, <1>p DEF SecondPass, Down, Reporting, Thread
<1>d. Caller'
  BY <1>z DEF Caller, Thread, NoCmd, None, IInv, ConfOwner, ConfPlace
<1>e. Mail'
  BY <1>z, MailReturned DEF Thread
<1>o. OperOwner'
  <2>1. \A x \in Owner : Owns(x)' <=> Owns(x)
    BY <1>z, <1>w DEF Owns
  <2> QED BY <2>1, OwnersKept
<1>g. AwakeExact'
  BY <1>z, <1>p, AwakeKept DEF Thread
<1>i. Begun' /\ Numbered'
  BY <1>z DEF Begun, Numbered, Finishing, Thread
<1>j. ScanInTime'
  BY <1>r, <1>z, <1>p, <1>q
     DEF RxSame, ScanInTime, Running, Confirmed, Stopping, Expired, Caller,
         Thread, NoCmd
<1>k. HeardInTime'
  BY <1>r, <1>p DEF RxSame, HeardInTime
<1> QED BY <1>a, <1>b, <1>c, <1>d, <1>e, <1>o, <1>g, <1>i, <1>j, <1>k

\* wsm_set_pm is refused: no indication comes, so wsm_pm_running is still set.
LEMMA OpPmFailsOper ==
  ASSUME IInv, IInv', LInv, NEW t \in {"user", "bh"}, OpPmFails(t)
  PROVE  LInv'
<1> USE DEF LInv, OpPmFails, OpLeave, Returned, lockVars, scanVars, pmVars,
           bhVars, fwVars, histVars
<1>f. ScanFacts /\ ScanFacts'
  BY ScanFactsHold, ScanFactsNext
<1>t. t = "user"
  BY DEF IInv, Types, LockData
<1>z. /\ pc \in [Thread -> Place] /\ pc' \in [Thread -> Place]
      /\ pc["user"] = "op_cnf"
      /\ pc'["user"] = "op_cancel"
      /\ \A u \in Thread \ {"user"} : pc'[u] = pc[u]
  BY <1>t DEF IInv, Types, Places, Go
<1>r. RxSame
  BY RxKept
<1>p. Pending' <=> Pending
  BY DEF Pending
<1>q. \A x : Queued(x)' <=> Queued(x)
  BY DEF Queued
<1>w. \A u \in Thread : pc[u] # "scan_cnf"
  <2>1. pc["wq"] # "scan_cnf"
    BY DEF Caller
  <2> QED BY <2>1, <1>f DEF ScanFacts, Starting
<1>n. /\ "late" \notin may /\ "pm" \in may
      /\ pm_running /\ ~fwPm /\ ~Told("pm_ind")
  BY DEF Mail, LateInv, PmInTime, Caller, Regime, NoPm
<1>a. RxSeq' /\ DataTypes'
  <2>1. RxSeq'
    BY <1>r DEF RxSame
  <2>2. DataTypes'
    BY DEF DataTypes
  <2> QED BY <2>1, <2>2
<1>b. Regime' /\ Device'
  BY <1>z, <1>n DEF Regime, Device, NeverDies, Thread
<1>c. SecondPass'
  BY <1>z, <1>p DEF SecondPass, Thread, Caller
<1>d. Caller'
  BY <1>z DEF Caller, Thread, NoCmd, None, IInv, ConfOwner, ConfPlace
<1>e. Mail'
  <2>1. cmd.state = "err" /\ cmd'.id = None /\ cmd'.state = None
    BY DEF NoCmd
  <2>2. rxOn => ~Told("confirm")
    BY DEF Mail, Answered
  <2>3. Answered' /\ OneInd' /\ IndOwed'
    BY <2>1, <1>r, RxTold DEF Mail, Answered, OneInd, IndOwed, RxSame, None
  <2>4. LateInv' /\ PmInTime'
    BY <1>n, <1>r DEF Mail, LateInv, PmInTime, RxSame
  <2> QED BY <2>3, <2>4 DEF Mail
<1>o. OperOwner'
  <2>1. \A x \in Owner : Owns(x)' <=> Owns(x)
    BY <1>z, <1>w, <1>t DEF Owns
  <2> QED BY <2>1, OwnersKept
<1>g. AwakeExact'
  BY <1>z, <1>p, AwakeKept DEF Thread
<1>i. Begun' /\ Numbered'
  BY <1>z DEF Begun, Numbered, Finishing, Thread
<1>j. ScanInTime'
  BY <1>r, <1>z, <1>p, <1>q
     DEF RxSame, ScanInTime, Running, Confirmed, Stopping, Expired, Caller,
         Thread, NoCmd
<1>k. HeardInTime'
  BY <1>r, <1>p DEF RxSame, HeardInTime
<1> QED BY <1>a, <1>b, <1>c, <1>d, <1>e, <1>o, <1>g, <1>i, <1>j, <1>k

\* It gives back what it took: nobody else has, because the firmware is
\* neither late nor dead.
LEMMA OpCancelOper ==
  ASSUME IInv, IInv', LInv, NEW t \in {"user", "bh"}, OpCancel(t)
  PROVE  LInv'
<1> USE DEF LInv, OpCancel, OpLeave, lockVars, scanVars, pmVars, bhVars,
           fwVars, histVars
<1>t. t = "user"
  BY DEF Regime
<1>z. /\ pc \in [Thread -> Place] /\ pc' \in [Thread -> Place]
      /\ pc["user"] = "op_cancel"
      /\ pc'["user"] = "idle"
      /\ \A u \in Thread \ {"user"} : pc'[u] = pc[u]
  BY <1>t DEF IInv, Types, Places, Go
<1>r. RxSame
  BY RxKept
<1>p. Pending' <=> Pending
  BY DEF Pending
<1>q. \A x : Queued(x)' <=> Queued(x)
  BY DEF Queued
<1>n. /\ "late" \notin may /\ pm_running /\ ~fwPm /\ ~Told("pm_ind")
  BY <1>t DEF Mail, LateInv, PmInTime
<1>a. RxSeq' /\ DataTypes'
  <2>1. RxSeq'
    BY <1>r DEF RxSame
  <2>2. DataTypes'
    BY DEF DataTypes
  <2> QED BY <2>1, <2>2
<1>b. Regime' /\ Device'
  BY <1>z DEF Regime, Device, NeverDies, NoPm, Thread
<1>c. SecondPass'
  BY <1>z, <1>p DEF SecondPass, Thread
<1>d. Caller'
  BY <1>z DEF Caller, Thread
<1>e. Mail'
  <2>1. ~(cmd.id = "pm")
    BY <1>t DEF Caller, IInv, Types, LockData
  <2>2. Answered' /\ OneInd' /\ IndOwed'
    BY <1>r DEF Mail, Answered, OneInd, IndOwed, RxSame
  <2>3. LateInv' /\ PmInTime'
    BY <1>z, <1>r, <2>1 DEF Mail, LateInv, PmInTime, RxSame
  <2> QED BY <2>2, <2>3 DEF Mail
<1>o. OperOwner'
  <2>1. /\ "pm" \in Owner /\ Owns("pm")
        /\ \A x \in Owner : Owns(x)' <=> Owns(x) /\ x # "pm"
    BY <1>z, <1>n DEF Owner, Owns, Thread
  <2> QED BY <2>1, OwnerGives
<1>g. AwakeExact'
  BY <1>z, <1>p, <1>n DEF AwakeExact, Count, Thread
<1>i. Begun' /\ Numbered'
  BY <1>z DEF Begun, Numbered, Finishing, Thread
<1>j. ScanInTime'
  BY <1>r, <1>z, <1>p, <1>q
     DEF RxSame, ScanInTime, Running, Confirmed, Stopping, Expired, Thread
<1>k. HeardInTime'
  BY <1>r, <1>p DEF RxSame, HeardInTime
<1> QED BY <1>a, <1>b, <1>c, <1>d, <1>e, <1>o, <1>g, <1>i, <1>j, <1>k

\* A call waits for the end of a scan.
LEMMA WaitOper ==
  ASSUME IInv, IInv', LInv, WaitScan("user", "idle", "wait_conf") \/ WaitConf
  PROVE  LInv'
<1> USE DEF LInv, WaitScan, WaitConf, lockVars, scanVars, pmVars, bhVars,
           fwVars, histVars
<1>z. /\ pc \in [Thread -> Place] /\ pc' \in [Thread -> Place]
      /\ pc["user"] \in {"idle", "wait_conf"}
      /\ pc'["user"] \in {"idle", "wait_conf"}
      /\ \A u \in Thread \ {"user"} : pc'[u] = pc[u]
  BY DEF IInv, Types, Places, Go
<1>r. RxSame
  BY RxKept
<1>p. Pending' <=> Pending
  BY DEF Pending
<1>q. \A x : Queued(x)' <=> Queued(x)
  BY DEF Queued
<1>a. RxSeq' /\ DataTypes'
  <2>1. RxSeq'
    BY <1>r DEF RxSame
  <2>2. DataTypes'
    BY DEF DataTypes
  <2> QED BY <2>1, <2>2
<1>b. Regime' /\ Device'
  BY <1>r, <1>z DEF RxSame, Regime, Device, NeverDies, NoPm, Thread
<1>c. SecondPass'
  BY <1>z, <1>p DEF SecondPass, Thread
<1>d. Caller'
  BY <1>z DEF Caller, Thread
<1>e. Mail'
  BY <1>z, MailKept
<1>o. OperOwner'
  <2>1. \A x \in Owner : Owns(x)' <=> Owns(x)
    BY <1>z DEF Owns
  <2> QED BY <2>1, OwnersKept
<1>g. AwakeExact'
  BY <1>z, <1>p, AwakeKept DEF Thread
<1>i. Begun' /\ Numbered'
  BY <1>z DEF Begun, Numbered, Finishing, Thread
<1>j. ScanInTime'
  BY <1>r, <1>z, <1>p, <1>q
     DEF RxSame, ScanInTime, Running, Confirmed, Stopping, Expired, Thread
<1>k. HeardInTime'
  BY <1>r, <1>p DEF RxSame, HeardInTime
<1> QED BY <1>a, <1>b, <1>c, <1>d, <1>e, <1>o, <1>g, <1>i, <1>j, <1>k

\* The timer of wsm_set_pm fires, which it does only when indications are
\* late.
LEMMA PmTimerOper ==
  ASSUME IInv, IInv', LInv, PmTimer
  PROVE  LInv'
<1> USE DEF LInv, PmTimer, PmRelease, lockVars, scanVars, pmVars, bhVars,
           fwVars, histVars
<1>r. RxSame
  BY RxKept
<1>p. Pending' <=> Pending
  BY DEF Pending
<1>n. "late" \in may
  BY DEF Regime, NeverDies, NoPm
<1>a. RxSeq' /\ DataTypes'
  <2>1. RxSeq'
    BY <1>r DEF RxSame
  <2>2. DataTypes'
    BY DEF DataTypes
  <2> QED BY <2>1, <2>2
<1>b. Regime' /\ Device'
  BY DEF Regime, Device, NeverDies, NoPm
<1>c. SecondPass'
  BY <1>p DEF SecondPass
<1>d. Caller'
  BY DEF Caller
<1>e. Mail'
  BY <1>r, <1>n DEF Mail, Answered, OneInd, IndOwed, LateInv, PmInTime, RxSame
<1>o. OperOwner'
  <2>1. CASE pm_running
    <3>1. /\ "pm" \in Owner /\ Owns("pm")
          /\ \A x \in Owner : Owns(x)' <=> Owns(x) /\ x # "pm"
      BY <2>1 DEF Owner, Owns, Thread
    <3> QED BY <2>1, <3>1, OwnerGives
  <2>2. CASE ~pm_running
    <3>1. \A x \in Owner : Owns(x)' <=> Owns(x)
      BY <2>2 DEF Owns
    <3> QED BY <2>2, <3>1, OwnersKept
  <2> QED BY <2>1, <2>2
<1>g. AwakeExact'
  BY <1>p DEF AwakeExact, Count
<1>i. Begun' /\ Numbered'
  BY DEF Begun, Numbered, Finishing
<1>j. ScanInTime'
  BY <1>n DEF ScanInTime
<1>k. HeardInTime'
  BY <1>n DEF HeardInTime
<1> QED BY <1>a, <1>b, <1>c, <1>d, <1>e, <1>o, <1>g, <1>i, <1>j, <1>k

\* The timer of scan.timeout expires: nothing was reported and nothing will
\* be, unless reports are late.
LEMMA TimerExpiresOper ==
  ASSUME IInv, IInv', LInv, TimerExpires
  PROVE  LInv'
<1> USE DEF LInv, TimerExpires, lockVars, scanVars, pmVars, bhVars, fwVars,
           histVars
<1>r. RxSame
  BY RxKept
<1>p. Pending' <=> Pending
  BY DEF Pending
<1>n. "late" \notin may => ~alive /\ ~rxCb /\ (rxOn => ~Told("scan_ind"))
  BY DEF Told
<1>a. RxSeq' /\ DataTypes'
  <2>1. RxSeq'
    BY <1>r DEF RxSame
  <2>2. DataTypes'
    BY DEF DataTypes
  <2> QED BY <2>1, <2>2
<1>b. Regime' /\ Device'
  BY <1>r DEF RxSame, Regime, Device, NeverDies, NoPm
<1>c. SecondPass'
  BY <1>p DEF SecondPass
<1>d. Caller'
  BY DEF Caller
<1>e. Mail'
  BY MailKept
<1>o. OperOwner'
  <2>1. \A x \in Owner : Owns(x)' <=> Owns(x)
    BY DEF Owns
  <2> QED BY <2>1, OwnersKept
<1>g. AwakeExact'
  BY <1>p, AwakeKept
<1>i. Begun' /\ Numbered'
  BY DEF Begun, Numbered, Finishing
<1>j. ScanInTime'
  BY <1>r, <1>p, <1>n DEF RxSame, ScanInTime, Running, Confirmed, Stopping
<1>k. HeardInTime'
  BY <1>r, <1>p DEF RxSame, HeardInTime
<1> QED BY <1>a, <1>b, <1>c, <1>d, <1>e, <1>o, <1>g, <1>i, <1>j, <1>k

\* A command is not answered: the device has died, and is halted.
LEMMA CmdTimeoutOper ==
  ASSUME IInv, IInv', LInv, CmdTimeout
  PROVE  LInv'
<1> USE DEF LInv, CmdTimeout, lockVars, scanVars, pmVars, bhVars, fwVars,
           histVars
<1>r. RxSame
  BY RxKept
<1>p. Pending' <=> Pending
  BY DEF Pending
<1>q. \A x : Queued(x)' <=> Queued(x)
  BY DEF Queued
<1>n. /\ ~alive /\ "late" \notin may /\ "pm" \notin may
      /\ cmd.id # "pm" /\ ~pm_running /\ ~fwPm /\ ~Told("pm_ind")
      /\ pc["user"] # "op_cancel"
  <2>1. ~alive /\ "late" \notin may /\ "pm" \notin may
    BY DEF Regime, NeverDies
  <2>2. NoPm /\ op["bh"] = "start"
    BY <2>1 DEF Regime, IInv, Types, LockData
  <2>3. cmd.id # "pm"
    BY <2>2 DEF NoPm, Caller
  <2> QED BY <2>1, <2>2, <2>3 DEF NoPm
<1>m. ~Told("confirm")
  BY DEF Told
<1>u. cmd'.id = cmd.id /\ cmd'.state = "err"
  OBVIOUS
<1>a. RxSeq' /\ DataTypes'
  <2>1. RxSeq'
    BY <1>r DEF RxSame
  <2>2. DataTypes'
    BY DEF DataTypes
  <2> QED BY <2>1, <2>2
<1>b. Regime' /\ Device'
  BY <1>r, <1>n DEF RxSame, Regime, Device, NoPm
<1>c. SecondPass'
  BY <1>p DEF SecondPass
<1>d. Caller'
  BY DEF Caller
<1>e. Mail'
  <2>1. Answered' /\ OneInd' /\ IndOwed'
    BY <1>m, <1>u, <1>r DEF Mail, Answered, OneInd, IndOwed, RxSame
  <2>2. LateInv' /\ PmInTime'
    BY <1>n, <1>r DEF Mail, LateInv, PmInTime, RxSame
  <2> QED BY <2>1, <2>2 DEF Mail
<1>o. OperOwner'
  <2>1. \A x \in Owner : Owns(x)' <=> Owns(x)
    BY DEF Owns
  <2> QED BY <2>1, OwnersKept
<1>g. AwakeExact'
  BY <1>p, AwakeKept
<1>i. Begun' /\ Numbered'
  BY DEF Begun, Numbered, Finishing
<1>j. ScanInTime'
  BY <1>r, <1>p, <1>q
     DEF RxSame, ScanInTime, Running, Confirmed, Stopping, Expired
<1>k. HeardInTime'
  BY <1>r, <1>p DEF RxSame, HeardInTime
<1> QED BY <1>a, <1>b, <1>c, <1>d, <1>e, <1>o, <1>g, <1>i, <1>j, <1>k

\* The worker takes a barrier.
LEMMA WqBarrierOper ==
  ASSUME IInv, IInv', LInv, WqTake, Head(wq) = "barrier"
  PROVE  LInv'
<1> USE DEF LInv, WqTake, lockVars, scanVars, pmVars, bhVars, fwVars, histVars
<1>r. RxSame
  BY RxKept
<1>p. Pending' <=> Pending
  BY DEF Pending
<1>q. \A x : Queued(x)' <=> Queued(x) /\ x # Head(wq)
  BY TakeFacts DEF IInv
<1>a. RxSeq' /\ DataTypes'
  <2>1. RxSeq'
    BY <1>r DEF RxSame
  <2>2. DataTypes'
    BY DEF DataTypes
  <2> QED BY <2>1, <2>2
<1>b. Regime' /\ Device'
  BY <1>r DEF RxSame, Regime, Device, NeverDies, NoPm
<1>c. SecondPass'
  BY <1>p DEF SecondPass
<1>d. Caller'
  BY DEF Caller
<1>e. Mail'
  BY MailKept
<1>o. OperOwner'
  <2>1. \A x \in Owner : Owns(x)' <=> Owns(x)
    BY DEF Owns
  <2> QED BY <2>1, OwnersKept
<1>g. AwakeExact'
  BY <1>p, AwakeKept
<1>i. Begun' /\ Numbered'
  BY DEF Begun, Numbered, Finishing
<1>j. ScanInTime'
  BY <1>r, <1>p, <1>q
     DEF RxSame, ScanInTime, Running, Confirmed, Stopping, Expired
<1>k. HeardInTime'
  BY <1>r, <1>p DEF RxSame, HeardInTime
<1> QED BY <1>a, <1>b, <1>c, <1>d, <1>e, <1>o, <1>g, <1>i, <1>j, <1>k

\* The worker takes scan.work or scan.timeout.
LEMMA WqItemOper ==
  ASSUME IInv, IInv', LInv, WqTake, Head(wq) \in {"work", "timeout"}
  PROVE  LInv'
<1> USE DEF LInv, WqTake, lockVars, scanVars, pmVars, bhVars, fwVars, histVars
<1>z. /\ pc \in [Thread -> Place] /\ pc' \in [Thread -> Place]
      /\ pc["wq"] \in {"idle"}
      /\ pc'["wq"] \in {"work", "timeout"}
      /\ \A u \in Thread \ {"wq"} : pc'[u] = pc[u]
  BY DEF IInv, Types, Places, Go, Thread
<1>r. RxSame
  BY RxKept
<1>p. Pending' <=> Pending
  BY DEF Pending
<1>q. \A x : Queued(x)' <=> Queued(x) /\ x # Head(wq)
  BY TakeFacts DEF IInv
<1>u. pc'["wq"] = "timeout" => Queued("timeout")
  <2>1. pc'["wq"] = Head(wq)
    BY DEF IInv, Types, Places, Thread, Go
  <2>2. Queued(Head(wq))
    BY TakeFacts DEF IInv
  <2> QED BY <2>1, <2>2
<1>a. RxSeq' /\ DataTypes'
  <2>1. RxSeq'
    BY <1>r DEF RxSame
  <2>2. DataTypes'
    BY DEF DataTypes
  <2> QED BY <2>1, <2>2
<1>b. Regime' /\ Device'
  BY <1>r, <1>z DEF RxSame, Regime, Device, NeverDies, NoPm, Thread
<1>c. SecondPass'
  BY <1>z, <1>p DEF SecondPass, Thread
<1>d. Caller'
  BY <1>z DEF Caller, Thread
<1>e. Mail'
  BY <1>z, MailKept DEF Thread
<1>o. OperOwner'
  <2>1. \A x \in Owner : Owns(x)' <=> Owns(x)
    BY <1>z DEF Owns
  <2> QED BY <2>1, OwnersKept
<1>g. AwakeExact'
  BY <1>z, <1>p, AwakeKept DEF Thread
<1>i. Begun' /\ Numbered'
  BY <1>z DEF Begun, Numbered, Finishing, Starting
<1>j. ScanInTime'
  BY <1>r, <1>z, <1>p, <1>q, <1>u
     DEF RxSame, ScanInTime, Running, Confirmed, Stopping, Expired, Thread
<1>k. HeardInTime'
  BY <1>r, <1>p DEF RxSame, HeardInTime
<1> QED BY <1>a, <1>b, <1>c, <1>d, <1>e, <1>o, <1>g, <1>i, <1>j, <1>k

\* The firmware reports the scan it is at.
LEMMA FwScanCompleteOper ==
  ASSUME IInv, IInv', LInv, FwScanComplete
  PROVE  LInv'
<1> USE DEF LInv, FwScanComplete, lockVars, scanVars, pmVars, bhVars, fwVars,
           histVars
<1>a1. PICK m : m = [msg |-> "scan_ind", ok |-> TRUE, scan |-> fw]
  OBVIOUS
<1>a2. m \in Message /\ m.msg = "scan_ind" /\ m.scan = fw /\ fw \in Scans
  BY <1>a1 DEF Message, DataTypes, Scans
<1>a3. rx' = Append(rx, m)
  BY <1>a1 DEF Post
<1>r. /\ RxSeq' /\ \A x : Told(x)' <=> Told(x) \/ x = m.msg
      /\ \A ok : Answer(ok)' <=>
           Answer(ok) \/ (m.msg = "confirm" /\ m.ok = ok)
      /\ \A n : Completed(n)' <=>
           Completed(n) \/ (m.msg = "scan_ind" /\ m.scan = n)
      /\ \A x : Single(x) /\ (x # m.msg \/ ~Told(x)) => Single(x)'
      /\ ConfirmFirst /\ (m.msg = "confirm" => ~Told("scan_ind")) =>
           ConfirmFirst'
  BY <1>a2, <1>a3, RxPosted
<1>p. Pending' <=> Pending
  BY DEF Pending
<1>q. \A x : Queued(x)' <=> Queued(x)
  BY DEF Queued
<1> HIDE DEF Message
<1>a. RxSeq' /\ DataTypes'
  <2>1. RxSeq'
    BY <1>r
  <2>2. DataTypes'
    BY NumberAssumption DEF DataTypes
  <2> QED BY <2>1, <2>2
<1>b. Regime' /\ Device'
  BY <1>r, <1>a2 DEF Regime, Device, NeverDies, NoPm
<1>c. SecondPass'
  BY DEF SecondPass, Device, Down
<1>d. Caller'
  BY DEF Caller
<1>e. Mail'
  <2>1. Answered' /\ OneInd' /\ IndOwed'
    BY <1>a2, <1>r DEF Mail, Answered, OneInd, IndOwed
  <2>2. LateInv' /\ PmInTime'
    BY <1>a2, <1>r DEF Mail, LateInv, PmInTime
  <2> QED BY <2>1, <2>2 DEF Mail
<1>o. OperOwner'
  <2>1. \A x \in Owner : Owns(x)' <=> Owns(x)
    BY DEF Owns
  <2> QED BY <2>1, OwnersKept
<1>g. AwakeExact'
  BY <1>p, AwakeKept
<1>i. Begun' /\ Numbered'
  BY DEF Begun, Numbered, Finishing
<1>j. ScanInTime'
  BY <1>p, <1>q DEF ScanInTime, Running, Confirmed, Stopping, Expired
<1>k. HeardInTime'
  BY <1>r, <1>a2, <1>p DEF HeardInTime
<1> QED BY <1>a, <1>b, <1>c, <1>d, <1>e, <1>o, <1>g, <1>i, <1>j, <1>k

\* The firmware sends the indication of wsm_set_pm.
LEMMA FwPmIndicationOper ==
  ASSUME IInv, IInv', LInv, FwPmIndication
  PROVE  LInv'
<1> USE DEF LInv, FwPmIndication, lockVars, scanVars, pmVars, bhVars, fwVars,
           histVars
<1>a1. PICK m : m = [msg |-> "pm_ind", ok |-> TRUE, scan |-> 0]
  OBVIOUS
<1>a2. m \in Message /\ m.msg = "pm_ind"
  BY <1>a1, NumberAssumption DEF Message
<1>a3. rx' = Append(rx, m)
  BY <1>a1 DEF Post
<1>a4. rxOn /\ "pm" \in may
  BY DEF Device, Regime, NoPm
<1>r. /\ RxSeq' /\ \A x : Told(x)' <=> Told(x) \/ x = m.msg
      /\ \A ok : Answer(ok)' <=>
           Answer(ok) \/ (m.msg = "confirm" /\ m.ok = ok)
      /\ \A n : Completed(n)' <=>
           Completed(n) \/ (m.msg = "scan_ind" /\ m.scan = n)
      /\ \A x : Single(x) /\ (x # m.msg \/ ~Told(x)) => Single(x)'
      /\ ConfirmFirst /\ (m.msg = "confirm" => ~Told("scan_ind")) =>
           ConfirmFirst'
  BY <1>a2, <1>a3, RxPosted
<1>p. Pending' <=> Pending
  BY DEF Pending
<1>q. \A x : Queued(x)' <=> Queued(x)
  BY DEF Queued
<1>a. RxSeq' /\ DataTypes'
  <2>1. RxSeq'
    BY <1>r
  <2>2. DataTypes'
    BY DEF DataTypes
  <2> QED BY <2>1, <2>2
<1>b. Regime' /\ Device'
  BY <1>a4 DEF Regime, Device, NeverDies
<1>c. SecondPass'
  BY DEF SecondPass, Device, Down
<1>d. Caller'
  BY DEF Caller
<1>e. Mail'
  <2>1. Answered' /\ OneInd' /\ IndOwed'
    BY <1>a2, <1>r DEF Mail, Answered, OneInd, IndOwed
  <2>2. LateInv' /\ PmInTime'
    BY <1>a2, <1>r DEF Mail, LateInv, PmInTime
  <2> QED BY <2>1, <2>2 DEF Mail
<1>o. OperOwner'
  <2>1. \A x \in Owner : Owns(x)' <=> Owns(x)
    BY DEF Owns
  <2> QED BY <2>1, OwnersKept
<1>g. AwakeExact'
  BY <1>p, AwakeKept
<1>i. Begun' /\ Numbered'
  BY DEF Begun, Numbered, Finishing
<1>j. ScanInTime'
  BY <1>r, <1>a2, <1>p, <1>q
     DEF ScanInTime, Running, Confirmed, Stopping, Expired
<1>k. HeardInTime'
  BY <1>r, <1>a2, <1>p DEF HeardInTime
<1> QED BY <1>a, <1>b, <1>c, <1>d, <1>e, <1>o, <1>g, <1>i, <1>j, <1>k

\* The firmware answers a command. When it is a scan nothing of an earlier one
\* is on its way, because the worker owns wsm_oper_lock.
LEMMA FwCommandOper ==
  ASSUME IInv, IInv', LInv, FwCommand
  PROVE  LInv'
<1> USE DEF LInv, FwCommand, lockVars, scanVars, pmVars, bhVars, fwVars,
           histVars
<1>f. ScanFacts /\ ScanFacts'
  BY ScanFactsHold, ScanFactsNext
<1>a1. PICK ok \in BOOLEAN :
         /\ cmd.id = "stop" \/ (cmd.id = "pm" /\ "late" \in may) => ok
         /\ Post(Confirmation(ok))
         /\ fw' = IF ok /\ cmd.id = "scan" THEN req ELSE fw
         /\ fwPm' = IF ok /\ cmd.id = "pm" THEN TRUE ELSE fwPm
  OBVIOUS
<1>a2. PICK m : m = Confirmation(ok)
  OBVIOUS
<1>a3. m \in Message /\ m.msg = "confirm" /\ m.ok = ok
  BY <1>a2, NumberAssumption DEF Message, Confirmation
<1>a4. rx' = Append(rx, m)
  BY <1>a1, <1>a2 DEF Post
<1>a5. /\ cmd \in [id : CmdID, state : {"sent", "taken", "ok", "err"}]
       /\ cmd.state = "sent" /\ cmd'.id = cmd.id /\ cmd'.state = "taken"
       /\ cmd' \in [id : CmdID, state : {"sent", "taken", "ok", "err"}]
  BY DEF DataTypes
<1> HIDE DEF FwCommand
<1>a6. UNCHANGED <<may, pc, lockVars, scanVars, wq, pmVars, op, bhVars,
                   histVars>> /\ alive
  BY DEF FwCommand
<1>a7. rxOn /\ ~Told("confirm") /\ pass # 2
  BY <1>a5, <1>a6 DEF Device, Mail, Answered, SecondPass, Down
<1>s. cmd.id = "scan" /\ cmd.state # "ok" =>
        /\ req = scans /\ req # 0 /\ pc["wq"] = "scan_cnf" /\ curr = "begin"
        /\ in_progress /\ Pending /\ awaited = 0
  BY <1>f, ScanWaits
<1>u. cmd.id = "scan" => fw = 0 /\ ~Told("scan_ind")
  BY <1>a5, <1>a7, <1>s, RxTold DEF Mail, IndOwed
<1>z. pc \in [Thread -> Place] /\ UNCHANGED pc
  BY <1>a6 DEF IInv, Types, Places
<1>r. /\ RxSeq' /\ \A x : Told(x)' <=> Told(x) \/ x = m.msg
      /\ \A b : Answer(b)' <=>
           Answer(b) \/ (m.msg = "confirm" /\ m.ok = b)
      /\ \A n : Completed(n)' <=>
           Completed(n) \/ (m.msg = "scan_ind" /\ m.scan = n)
      /\ \A x : Single(x) /\ (x # m.msg \/ ~Told(x)) => Single(x)'
      /\ ConfirmFirst /\ (m.msg = "confirm" => ~Told("scan_ind")) =>
           ConfirmFirst'
  BY <1>a3, <1>a4, RxPosted
<1>p. Pending' <=> Pending
  BY <1>a6 DEF Pending
<1>q. \A x : Queued(x)' <=> Queued(x)
  BY <1>a6 DEF Queued
<1>w. UNCHANGED <<op, awaited, pm_running, wsm_oper_lock>>
  BY <1>a6
<1>v. cmd.id = "pm" => "pm" \in may /\ pc["user"] = "op_cnf"
  BY DEF Regime, NoPm, Caller, IInv, Types, LockData
<1>a. RxSeq' /\ DataTypes'
  <2>1. RxSeq'
    BY <1>r
  <2>2. DataTypes'
    BY <1>a5, <1>a6, <1>a1 DEF DataTypes
  <2> QED BY <2>1, <2>2
<1>b. Regime' /\ Device'
  BY <1>r, <1>a3, <1>a6, <1>a1, <1>v DEF Regime, Device, NeverDies, NoPm
<1>c. SecondPass'
  BY <1>a6, <1>a7 DEF SecondPass
<1>d. Caller'
  BY <1>a5, <1>a6 DEF Caller
<1>e. Mail'
  <2>1. Answered' /\ IndOwed'
    BY <1>a1, <1>a3, <1>a5, <1>a6, <1>r DEF Mail, Answered, IndOwed
  <2>2. OneInd'
    BY <1>a1, <1>a3, <1>a5, <1>a6, <1>r, <1>u DEF Mail, OneInd
  <2>3. LateInv'
    BY <1>a1, <1>a3, <1>a5, <1>a6, <1>r DEF Mail, LateInv
  <2>4. PmInTime'
    BY <1>a1, <1>a3, <1>a5, <1>a6, <1>a7, <1>r, <1>v, RxTold
       DEF Mail, PmInTime
  <2> QED BY <2>1, <2>2, <2>3, <2>4 DEF Mail
<1>o. OperOwner'
  <2>1. \A x \in Owner : Owns(x)' <=> Owns(x)
    BY <1>z, <1>a5, <1>w DEF Owns
  <2> QED BY <2>1, OwnersKept, <1>w
<1>g. AwakeExact'
  BY <1>p, AwakeKept, <1>a6
<1>i. Begun' /\ Numbered'
  BY <1>a6 DEF Begun, Numbered, Finishing
<1>j. ScanInTime'
  BY <1>r, <1>a3, <1>a5, <1>a6, <1>p, <1>q, <1>a1, <1>s
     DEF ScanInTime, Running, Confirmed, Stopping, Expired, Caller
<1>k. HeardInTime'
  BY <1>r, <1>a3, <1>a5, <1>a6, <1>p, <1>a1, <1>s DEF HeardInTime
<1> QED BY <1>a, <1>b, <1>c, <1>d, <1>e, <1>o, <1>g, <1>i, <1>j, <1>k

\* The firmware dies, and owes nothing from now on.
LEMMA FwDiesOper ==
  ASSUME IInv, IInv', LInv, FwDies
  PROVE  LInv'
<1> USE DEF LInv, FwDies, lockVars, scanVars, pmVars, bhVars, fwVars, histVars
<1>r. RxSame
  BY RxKept
<1>p. Pending' <=> Pending
  BY DEF Pending
<1>q. \A x : Queued(x)' <=> Queued(x)
  BY DEF Queued
<1>n. "late" \notin may /\ "pm" \notin may
  BY DEF Regime, NeverDies
<1>a. RxSeq' /\ DataTypes'
  <2>1. RxSeq'
    BY <1>r DEF RxSame
  <2>2. may' \subseteq may
    OBVIOUS
  <2>4. fw' \in 0 .. MaxScans
    <3>1. fw' = 0
      OBVIOUS
    <3> QED BY NumberAssumption
  <2>5. fwPm' \in BOOLEAN /\ alive' \in BOOLEAN
    BY Zenon
  <2> HIDE DEF LInv
  <2>3. DataTypes'
    <3>1. DataTypes
      BY DEF LInv
    <3> QED BY <2>4, <3>1 DEF DataTypes
  <2> QED BY <2>1, <2>3
<1>b. Regime' /\ Device'
  BY <1>r, <1>n DEF RxSame, Regime, Device, NoPm
<1>c. SecondPass'
  BY <1>p DEF SecondPass
<1>d. Caller'
  BY DEF Caller
<1>e. Mail'
  <2>1. Answered' /\ OneInd' /\ IndOwed'
    BY <1>r DEF Mail, Answered, OneInd, IndOwed, RxSame
  <2>2. LateInv' /\ PmInTime'
    BY <1>r DEF Mail, LateInv, PmInTime, RxSame
  <2> QED BY <2>1, <2>2 DEF Mail
<1>o. OperOwner'
  <2>1. \A x \in Owner : Owns(x)' <=> Owns(x)
    BY DEF Owns
  <2> QED BY <2>1, OwnersKept
<1>g. AwakeExact'
  BY <1>p, AwakeKept
<1>i. Begun' /\ Numbered'
  BY DEF Begun, Numbered, Finishing
<1>j. ScanInTime'
  BY <1>r, <1>p, <1>q
     DEF RxSame, ScanInTime, Running, Confirmed, Stopping, Expired
<1>k. HeardInTime'
  BY <1>r, <1>p DEF RxSame, HeardInTime
<1> QED BY <1>a, <1>b, <1>c, <1>d, <1>e, <1>o, <1>g, <1>i, <1>j, <1>k

\* The indication of wsm_set_pm is handled.
LEMMA RxPmOper ==
  ASSUME IInv, IInv', LInv, RxPm
  PROVE  LInv'
<1> USE DEF LInv, RxPm, PmRelease, RxNext, lockVars, scanVars, pmVars, bhVars,
           fwVars, histVars
<1>a1. PICK m : m = Head(rx)
  OBVIOUS
<1>a2. /\ m.msg = "pm_ind" /\ Told(m.msg)
       /\ Single(m.msg) => ~Told(m.msg)'
  BY <1>a1, RxTook
<1>r. /\ RxSeq' /\ \A x : Told(x)' => Told(x)
      /\ \A x : Told(x) /\ x # m.msg => Told(x)'
      /\ \A x : Single(x) => Single(x)'
      /\ \A ok : Answer(ok)' => Answer(ok)
      /\ m.msg # "confirm" => \A ok : Answer(ok) => Answer(ok)'
      /\ \A n : Completed(n)' => Completed(n)
      /\ ConfirmFirst => ConfirmFirst'
  BY <1>a1, RxTook
<1>p. Pending' <=> Pending
  BY DEF Pending
<1>q. \A x : Queued(x)' <=> Queued(x)
  BY DEF Queued
<1>a. RxSeq' /\ DataTypes'
  <2>1. RxSeq'
    BY <1>r
  <2>2. DataTypes'
    BY DEF DataTypes
  <2> QED BY <2>1, <2>2
<1>b. Regime' /\ Device'
  BY <1>r DEF Regime, Device, NeverDies, NoPm
<1>c. SecondPass'
  BY DEF SecondPass
<1>d. Caller'
  BY DEF Caller
<1>e. Mail'
  <2>1. Answered' /\ OneInd' /\ IndOwed'
    BY <1>a2, <1>r DEF Mail, Answered, OneInd, IndOwed
  <2>2. LateInv' /\ PmInTime'
    BY <1>a2, <1>r DEF Mail, LateInv, PmInTime
  <2> QED BY <2>1, <2>2 DEF Mail
<1>o. OperOwner'
  <2>1. CASE pm_running
    <3>1. /\ "pm" \in Owner /\ Owns("pm")
          /\ \A x \in Owner : Owns(x)' <=> Owns(x) /\ x # "pm"
      BY <2>1 DEF Owner, Owns, Thread
    <3> QED BY <2>1, <3>1, OwnerGives
  <2>2. CASE ~pm_running
    <3>1. \A x \in Owner : Owns(x)' <=> Owns(x)
      BY <2>2 DEF Owns
    <3> QED BY <2>2, <3>1, OwnersKept
  <2> QED BY <2>1, <2>2
<1>g. AwakeExact'
  BY <1>p DEF AwakeExact, Count
<1>i. Begun' /\ Numbered'
  BY DEF Begun, Numbered, Finishing
<1>j. ScanInTime'
  BY <1>r, <1>p, <1>q DEF ScanInTime, Running, Confirmed, Stopping, Expired
<1>k. HeardInTime'
  BY <1>r, <1>p DEF HeardInTime
<1> QED BY <1>a, <1>b, <1>c, <1>d, <1>e, <1>o, <1>g, <1>i, <1>j, <1>k

\* The indication of a scan gives wsm_oper_lock back: its confirmation was
\* handled before, so the scan is the owner.
LEMMA RxScanCompleteOper ==
  ASSUME IInv, IInv', LInv, RxScanComplete
  PROVE  LInv'
<1> USE DEF LInv, RxScanComplete, RxNext, lockVars, scanVars, pmVars, bhVars,
           fwVars, histVars
<1>a1. PICK m : m = Head(rx)
  OBVIOUS
<1>a2. /\ m.msg = "scan_ind" /\ Told(m.msg) /\ m.scan \in Scans
       /\ Single(m.msg) => ~Told(m.msg)'
       /\ Completed(m.scan)
       /\ ConfirmFirst => ~Told("confirm")
  BY <1>a1, RxTook
<1>a3. heard' = heard \cup {m.scan}
  BY <1>a1
<1>a5. /\ fw = 0 /\ ~Told("scan_ind")' /\ awaited # 0
       /\ cmd.id = "scan" => ConfirmFirst
  BY <1>a2, RxTold DEF Mail, OneInd, IndOwed
<1>r. /\ RxSeq' /\ \A x : Told(x)' => Told(x)
      /\ \A x : Told(x) /\ x # m.msg => Told(x)'
      /\ \A x : Single(x) => Single(x)'
      /\ \A ok : Answer(ok)' => Answer(ok)
      /\ m.msg # "confirm" => \A ok : Answer(ok) => Answer(ok)'
      /\ \A n : Completed(n)' => Completed(n)
      /\ ConfirmFirst => ConfirmFirst'
  BY <1>a1, RxTook
<1>p. Pending' <=> Pending
  BY DEF Pending
<1>q. \A x : Queued(x)' <=> Queued(x)
  BY DEF Queued
<1>u. ~Running' <=> ~Running
  BY DEF Running, Confirmed
<1>a. RxSeq' /\ DataTypes'
  <2>1. RxSeq'
    BY <1>r
  <2>2. DataTypes'
    BY <1>a2, <1>a3, <1>a5 DEF DataTypes
  <2> QED BY <2>1, <2>2
<1>b. Regime' /\ Device'
  BY <1>r DEF Regime, Device, NeverDies, NoPm
<1>c. SecondPass'
  BY DEF SecondPass
<1>d. Caller'
  BY DEF Caller
<1>e. Mail'
  <2>1. Answered' /\ OneInd' /\ IndOwed'
    BY <1>a2, <1>r DEF Mail, Answered, OneInd, IndOwed
  <2>2. LateInv' /\ PmInTime'
    BY <1>r DEF Mail, LateInv, PmInTime
  <2> QED BY <2>1, <2>2 DEF Mail
<1>o. OperOwner'
  <2>1. /\ "scan" \in Owner /\ Owns("scan")
        /\ \A x \in Owner : Owns(x)' <=> Owns(x) /\ x # "scan"
    BY <1>a5 DEF Owner, Owns, Thread
  <2> QED BY <2>1, OwnerGives
<1>g. AwakeExact'
  BY <1>p, AwakeKept
<1>i. Begun' /\ Numbered'
  BY DEF Begun, Numbered, Finishing
<1>j. ScanInTime'
  BY <1>a2, <1>a5, <1>q, <1>u DEF ScanInTime, Running, Stopping, Expired
<1>k. HeardInTime'
  BY <1>r, <1>a2, <1>a3 DEF HeardInTime
<1> QED BY <1>a, <1>b, <1>c, <1>d, <1>e, <1>o, <1>g, <1>i, <1>j, <1>k

\* A confirmation is handled: that of a scan makes the scan the owner of
\* wsm_oper_lock in place of the worker.
LEMMA RxConfirmOper ==
  ASSUME IInv, IInv', LInv, RxConfirm
  PROVE  LInv'
<1> USE DEF LInv, RxConfirm, RxNext, lockVars, scanVars, pmVars, bhVars,
           fwVars, histVars
<1>f. ScanFacts /\ ScanFacts'
  BY ScanFactsHold, ScanFactsNext
<1>a1. PICK m : m = Head(rx)
  OBVIOUS
<1>a2. /\ m.msg = "confirm" /\ Told(m.msg) /\ m \in Message
       /\ Single(m.msg) => ~Told(m.msg)'
       /\ Answer(m.ok)
       /\ Single("confirm") => \A ok : Answer(ok) => ok = m.ok
  BY <1>a1, RxTook
<1>a3. cmd.state = "taken" /\ ~Told("confirm")' /\ m.ok \in BOOLEAN
  BY <1>a2 DEF Mail, Answered, Message
<1>a4. cmd # NoCmd
  BY <1>a3 DEF NoCmd, None
<1>a5. /\ cmd' = [cmd EXCEPT !.state = IF m.ok THEN "ok" ELSE "err"]
       /\ awaited' = IF m.ok /\ cmd.id = "scan" THEN req ELSE awaited
  BY <1>a1, <1>a3, <1>a4
<1> HIDE DEF RxConfirm
<1>a6. UNCHANGED <<may, pc, lockVars, scanVars, wq, pmVars, op, bhVars, fw,
                   fwPm, report, scans, heard>> /\ rxOn /\ ~rxCb /\ rx # <<>>
  BY DEF RxConfirm
<1>a7. /\ cmd'.id = cmd.id /\ cmd'.state = IF m.ok THEN "ok" ELSE "err"
       /\ cmd \in [id : CmdID, state : {"sent", "taken", "ok", "err"}]
  BY <1>a4, <1>a5 DEF DataTypes
<1>s. cmd.id = "scan" /\ cmd.state # "ok" =>
        /\ req = scans /\ req # 0 /\ pc["wq"] = "scan_cnf" /\ curr = "begin"
        /\ in_progress /\ Pending /\ awaited = 0
  BY <1>f, ScanWaits
<1>r. /\ RxSeq' /\ \A x : Told(x)' => Told(x)
      /\ \A x : Told(x) /\ x # m.msg => Told(x)'
      /\ \A x : Single(x) => Single(x)'
      /\ \A ok : Answer(ok)' => Answer(ok)
      /\ m.msg # "confirm" => \A ok : Answer(ok) => Answer(ok)'
      /\ \A n : Completed(n)' => Completed(n)
      /\ ConfirmFirst => ConfirmFirst'
  BY <1>a1, RxTook DEF RxConfirm
<1>p. Pending' <=> Pending
  BY <1>a6 DEF Pending
<1>q. \A x : Queued(x)' <=> Queued(x)
  BY <1>a6 DEF Queued
<1>a. RxSeq' /\ DataTypes'
  <2>1. RxSeq'
    BY <1>r
  <2>2. DataTypes'
    BY <1>a5, <1>a6, <1>a7 DEF DataTypes
  <2> QED BY <2>1, <2>2
<1>b. Regime' /\ Device'
  BY <1>r, <1>a6 DEF Regime, Device, NeverDies, NoPm
<1>c. SecondPass'
  BY <1>a3, <1>a5, <1>a6, <1>f, <1>s
     DEF SecondPass, ScanFacts, Thread, ConfOwner, ConfPlace, IInv
<1>d. Caller'
  BY <1>a6, <1>a7 DEF Caller
<1>e. Mail'
  <2>1. Answered' /\ OneInd'
    BY <1>a2, <1>a5, <1>a6, <1>r DEF Mail, Answered, OneInd
  <2>2. IndOwed'
    BY <1>a2, <1>a5, <1>a6, <1>r, <1>s DEF Mail, Answered, IndOwed
  <2>3. LateInv' /\ PmInTime'
    BY <1>a2, <1>a3, <1>a6, <1>a7, <1>r DEF Mail, LateInv, PmInTime
  <2> QED BY <2>1, <2>2, <2>3 DEF Mail
<1>o. OperOwner'
  <2>1. CASE m.ok /\ cmd.id = "scan"
    <3>1. /\ "wq" \in Owner /\ "scan" \in Owner /\ Owns("wq")
          /\ \A x \in Owner :
               Owns(x)' <=> (Owns(x) /\ x # "wq") \/ x = "scan"
      BY <2>1, <1>a3, <1>a5, <1>a6, <1>s, <1>f
         DEF Owner, Owns, Thread, ScanFacts
    <3> QED BY <1>a6, <3>1, OwnerPasses
  <2>2. CASE ~(m.ok /\ cmd.id = "scan")
    <3>1. \A u \in Thread : pc[u] = "scan_cnf" => u = "wq" /\ cmd.id = "scan"
      BY <1>f DEF ScanFacts, Starting, Caller
    <3>2. \A x \in Owner : Owns(x)' <=> Owns(x)
      BY <2>2, <3>1, <1>a3, <1>a5, <1>a6 DEF Owns
    <3> QED BY <1>a6, <3>2, OwnersKept
  <2> QED BY <2>1, <2>2
<1>g. AwakeExact'
  BY <1>p, AwakeKept, <1>a6
<1>i. Begun' /\ Numbered'
  BY <1>a6 DEF Begun, Numbered, Finishing
<1>j. ScanInTime'
  BY <1>r, <1>a3, <1>a5, <1>a6, <1>p, <1>q, <1>s
     DEF ScanInTime, Running, Confirmed, Stopping, Expired, Caller
<1>k. HeardInTime'
  BY <1>r, <1>a6, <1>p DEF HeardInTime
<1> QED BY <1>a, <1>b, <1>c, <1>d, <1>e, <1>o, <1>g, <1>i, <1>j, <1>k

\* atbm_scan_complete_cb: when no report is late the timeout is pending and
\* status becomes done.
LEMMA ScanCompleteCbOper ==
  ASSUME IInv, IInv', LInv, ScanCompleteCb
  PROVE  LInv'
<1> USE DEF LInv, ScanCompleteCb, lockVars, scanVars, pmVars, bhVars, fwVars,
           histVars
<1>f. ScanFacts /\ ScanFacts'
  BY ScanFactsHold, ScanFactsNext
<1>r. RxSame
  BY RxKept
<1>p. Pending' <=> Pending
  BY DEF Pending
<1>n. "late" \notin may =>
        /\ Running /\ ~Stopping /\ awaited = 0 /\ fw = 0 /\ ~Told("scan_ind")
        /\ status' = "done"
  <2> SUFFICES ASSUME "late" \notin may
               PROVE  /\ Running /\ ~Stopping /\ awaited = 0 /\ fw = 0
                      /\ ~Told("scan_ind") /\ status' = "done"
    OBVIOUS
  <2>1. /\ Running /\ awaited = 0 /\ fw = 0 /\ ~Told("scan_ind")
        /\ ~Stopping /\ ~Expired
    BY DEF ScanInTime
  <2>2. in_progress /\ status = "zero" /\ TimeoutPending
    BY <2>1, <1>f DEF Running, Expired, ScanFacts
  <2> QED BY <2>1, <2>2
<1>a. RxSeq' /\ DataTypes'
  <2>1. RxSeq'
    BY <1>r DEF RxSame
  <2>2. DataTypes'
    BY DEF DataTypes
  <2> QED BY <2>1, <2>2
<1>b. Regime' /\ Device'
  BY <1>r DEF RxSame, Regime, Device, NeverDies, NoPm
<1>c. SecondPass'
  BY <1>p DEF SecondPass
<1>d. Caller'
  BY DEF Caller
<1>e. Mail'
  BY MailKept
<1>o. OperOwner'
  <2>1. \A x \in Owner : Owns(x)' <=> Owns(x)
    BY DEF Owns
  <2> QED BY <2>1, OwnersKept
<1>g. AwakeExact'
  BY <1>p, AwakeKept
<1>i. Begun' /\ Numbered'
  BY DEF Begun, Numbered, Finishing
<1>j. ScanInTime'
  BY <1>n DEF ScanInTime, Running, Confirmed, Stopping, Expired
<1>k. HeardInTime'
  BY <1>r DEF RxSame, HeardInTime
<1> QED BY <1>a, <1>b, <1>c, <1>d, <1>e, <1>o, <1>g, <1>i, <1>j, <1>k

\* The restart begins; the firmware does not run.
LEMMA RestartBeginOper ==
  ASSUME IInv, IInv', LInv, RestartBegin
  PROVE  LInv'
<1> USE DEF LInv, RestartBegin, lockVars, scanVars, pmVars, bhVars, fwVars,
           histVars
<1>z. /\ pc \in [Thread -> Place] /\ pc' \in [Thread -> Place]
      /\ pc["bh"] = "idle"
      /\ pc'["bh"] = "release"
      /\ \A u \in Thread \ {"bh"} : pc'[u] = pc[u]
  BY DEF IInv, Types, Places, Go
<1>r. RxSame
  BY RxKept
<1>p. Pending' <=> Pending
  BY DEF Pending
<1>n. /\ ~alive /\ "late" \notin may /\ "pm" \notin may
      /\ cmd.id # "pm" /\ ~pm_running /\ ~fwPm /\ ~Told("pm_ind")
      /\ pc["user"] # "op_cancel"
  <2>1. ~alive /\ "late" \notin may /\ "pm" \notin may
    BY DEF Regime, NeverDies, Device
  <2>2. NoPm /\ op["bh"] = "start"
    BY <2>1 DEF Regime, IInv, Types, LockData
  <2>3. cmd.id # "pm"
    BY <2>2 DEF NoPm, Caller
  <2> QED BY <2>1, <2>2, <2>3 DEF NoPm
<1>a. RxSeq' /\ DataTypes'
  <2>1. RxSeq'
    BY <1>r DEF RxSame
  <2>2. pass' \in 0 .. 2 /\ up' = FALSE /\ rxOn' = FALSE
    OBVIOUS
  <2> HIDE DEF LInv
  <2>3. DataTypes'
    <3>1. DataTypes
      BY DEF LInv
    <3> QED BY <2>2, <3>1 DEF DataTypes
  <2> QED BY <2>1, <2>3
<1>b. Regime' /\ Device'
  BY <1>r, <1>z, <1>n DEF RxSame, Regime, Device, NoPm, Down, Thread
<1>c. SecondPass'
  BY <1>z DEF SecondPass
<1>d. Caller'
  BY <1>z DEF Caller, Thread
<1>e. Mail'
  <2>1. Answered' /\ OneInd' /\ IndOwed'
    BY DEF Answered, OneInd, IndOwed
  <2>2. LateInv' /\ PmInTime'
    BY <1>z, <1>r DEF Mail, LateInv, PmInTime, Thread, RxSame
  <2> QED BY <2>1, <2>2 DEF Mail
<1>o. OperOwner'
  <2>1. \A x \in Owner : Owns(x)' <=> Owns(x)
    BY <1>z DEF Owns
  <2> QED BY <2>1, OwnersKept
<1>g. AwakeExact'
  BY <1>z, <1>p, AwakeKept DEF Thread
<1>i. Begun' /\ Numbered'
  BY <1>z DEF Begun, Numbered, Finishing, Thread
<1>j. ScanInTime'
  BY <1>z, <1>p, <1>n DEF ScanInTime, Running, Confirmed, Stopping, Thread
<1>k. HeardInTime'
  BY <1>p DEF HeardInTime
<1> QED BY <1>a, <1>b, <1>c, <1>d, <1>e, <1>o, <1>g, <1>i, <1>j, <1>k

\* The command that waits is given up.
LEMMA RestartReleaseOper ==
  ASSUME IInv, IInv', LInv, RestartRelease
  PROVE  LInv'
<1> USE DEF LInv, RestartRelease, lockVars, scanVars, pmVars, bhVars, fwVars,
           histVars
<1>z. /\ pc \in [Thread -> Place] /\ pc' \in [Thread -> Place]
      /\ pc["bh"] = "release"
      /\ pc'["bh"] = "flush1"
      /\ \A u \in Thread \ {"bh"} : pc'[u] = pc[u]
  BY DEF IInv, Types, Places, Go
<1>r. RxSame
  BY RxKept
<1>p. Pending' <=> Pending
  BY DEF Pending
<1>q. \A x : Queued(x)' <=> Queued(x)
  BY DEF Queued
<1>n. /\ ~alive /\ "late" \notin may /\ "pm" \notin may
      /\ cmd.id # "pm" /\ ~pm_running /\ ~fwPm /\ ~Told("pm_ind")
      /\ pc["user"] # "op_cancel"
  <2>1. ~alive /\ "late" \notin may /\ "pm" \notin may
    BY DEF Regime, NeverDies, Device, Down
  <2>2. NoPm /\ op["bh"] = "start"
    BY <2>1 DEF Regime, IInv, Types, LockData
  <2>3. cmd.id # "pm"
    BY <2>2 DEF NoPm, Caller
  <2> QED BY <2>1, <2>2, <2>3 DEF NoPm
<1>m. ~rxOn
  BY DEF Device, Down
<1>u. cmd'.id # "pm"
  BY <1>n
<1>a. RxSeq' /\ DataTypes'
  <2>1. RxSeq'
    BY <1>r DEF RxSame
  <2>2. DataTypes'
    BY DEF DataTypes
  <2> QED BY <2>1, <2>2
<1>b. Regime' /\ Device'
  BY <1>r, <1>z, <1>n
     DEF RxSame, Regime, Device, NoPm, Down, Thread, NoCmd, None
<1>c. SecondPass'
  BY <1>z DEF SecondPass, Down
<1>d. Caller'
  BY <1>z DEF Caller, Thread
<1>e. Mail'
  <2>1. Answered' /\ OneInd' /\ IndOwed'
    BY <1>m DEF Answered, OneInd, IndOwed
  <2>2. LateInv' /\ PmInTime'
    BY <1>n, <1>u, <1>z, <1>r DEF Mail, LateInv, PmInTime, Thread, RxSame
  <2> QED BY <2>1, <2>2 DEF Mail
<1>o. OperOwner'
  <2>1. \A x \in Owner : Owns(x)' <=> Owns(x)
    BY <1>z DEF Owns
  <2> QED BY <2>1, OwnersKept
<1>g. AwakeExact'
  BY <1>z, <1>p, AwakeKept DEF Thread
<1>i. Begun' /\ Numbered'
  BY <1>z DEF Begun, Numbered, Finishing, Thread
<1>j. ScanInTime'
  BY <1>r, <1>z, <1>p, <1>q
     DEF RxSame, ScanInTime, Running, Confirmed, Stopping, Expired, Thread
<1>k. HeardInTime'
  BY <1>r, <1>p DEF RxSame, HeardInTime
<1> QED BY <1>a, <1>b, <1>c, <1>d, <1>e, <1>o, <1>g, <1>i, <1>j, <1>k

\* A barrier is queued.
LEMMA FlushBeginOper ==
  ASSUME IInv, IInv', LInv, FlushBegin
  PROVE  LInv'
<1> USE DEF LInv, FlushBegin, lockVars, scanVars, pmVars, bhVars, fwVars,
           histVars
<1>r. RxSame
  BY RxKept
<1>p. Pending' <=> Pending
  BY DEF Pending
<1>q. \A x : Queued(x)' <=> Queued(x) \/ x = "barrier"
  BY QueueWorkFacts DEF IInv, Item, QueueWork
<1>a. RxSeq' /\ DataTypes'
  <2>1. RxSeq'
    BY <1>r DEF RxSame
  <2>2. DataTypes'
    BY DEF DataTypes
  <2> QED BY <2>1, <2>2
<1>b. Regime' /\ Device'
  BY <1>r DEF RxSame, Regime, Device, NeverDies, NoPm
<1>c. SecondPass'
  BY <1>p DEF SecondPass
<1>d. Caller'
  BY DEF Caller
<1>e. Mail'
  BY MailKept
<1>o. OperOwner'
  <2>1. \A x \in Owner : Owns(x)' <=> Owns(x)
    BY DEF Owns
  <2> QED BY <2>1, OwnersKept
<1>g. AwakeExact'
  BY <1>p, AwakeKept
<1>i. Begun' /\ Numbered'
  BY DEF Begun, Numbered, Finishing
<1>j. ScanInTime'
  BY <1>r, <1>p, <1>q
     DEF RxSame, ScanInTime, Running, Confirmed, Stopping, Expired
<1>k. HeardInTime'
  BY <1>r, <1>p DEF RxSame, HeardInTime
<1> QED BY <1>a, <1>b, <1>c, <1>d, <1>e, <1>o, <1>g, <1>i, <1>j, <1>k

\* The flush is over. Before the device is brought up again no scan is
\* pending, so none owns wsm_oper_lock.
LEMMA FlushEndOper ==
  ASSUME IInv, IInv', LInv, FlushEnd
  PROVE  LInv'
<1> USE DEF LInv, FlushEnd, lockVars, scanVars, pmVars, bhVars, fwVars,
           histVars
<1>f. ScanFacts /\ ScanFacts'
  BY ScanFactsHold, ScanFactsNext
<1>t. pc["bh"] \in {"flush1", "flush2", "flush3"}
  BY DEF IInv, Barrier
<1>z. /\ pc \in [Thread -> Place] /\ pc' \in [Thread -> Place]
      /\ pc["bh"] \in {"flush1", "flush2", "flush3"}
      /\ pc["bh"] = "flush1" => pc'["bh"] = "pm"
      /\ pc["bh"] = "flush2" => pc'["bh"] = "cancel"
      /\ pc["bh"] = "flush3" =>
           pc'["bh"] = (IF pass = 1 THEN "wait" ELSE "bringup")
      /\ \A u \in Thread \ {"bh"} : pc'[u] = pc[u]
  BY <1>t DEF IInv, Types, Places, Go
<1>r. RxSame
  BY RxKept
<1>p. Pending' <=> Pending
  BY DEF Pending
<1>q. \A x : Queued(x)' <=> Queued(x)
  BY DEF Queued
<1>n. /\ ~alive /\ "late" \notin may /\ "pm" \notin may
      /\ cmd.id # "pm" /\ ~pm_running /\ ~fwPm /\ ~Told("pm_ind")
      /\ pc["user"] # "op_cancel"
  <2>1. ~alive /\ "late" \notin may /\ "pm" \notin may
    BY <1>z DEF Regime, NeverDies, Device, Down
  <2>2. NoPm /\ op["bh"] = "start"
    BY <2>1 DEF Regime, IInv, Types, LockData
  <2>3. cmd.id # "pm"
    BY <2>2 DEF NoPm, Caller
  <2> QED BY <2>1, <2>2, <2>3 DEF NoPm
<1>m. pc'["bh"] = "bringup" => pass = 2 /\ awaited = 0
  BY <1>f, <1>n, <1>z, NoScanOwed DEF SecondPass, Down
<1>a. RxSeq' /\ DataTypes'
  <2>1. RxSeq'
    BY <1>r DEF RxSame
  <2>2. DataTypes'
    BY DEF DataTypes
  <2> QED BY <2>1, <2>2
<1>b. Regime' /\ Device'
  BY <1>r, <1>z, <1>n DEF RxSame, Regime, Device, NoPm, Down, Thread
<1>c. SecondPass'
  BY <1>z, <1>p, <1>m DEF SecondPass, Down, Thread
<1>d. Caller'
  BY <1>z DEF Caller, Thread
<1>e. Mail'
  BY <1>z, MailKept DEF Thread
<1>o. OperOwner'
  <2>1. \A x \in Owner : Owns(x)' <=> Owns(x)
    BY <1>z DEF Owns
  <2> QED BY <2>1, OwnersKept
<1>g. AwakeExact'
  BY <1>z, <1>p, AwakeKept DEF Thread
<1>i. Begun' /\ Numbered'
  BY <1>z DEF Begun, Numbered, Finishing, Thread
<1>j. ScanInTime'
  BY <1>r, <1>z, <1>p, <1>q
     DEF RxSame, ScanInTime, Running, Confirmed, Stopping, Expired, Thread
<1>k. HeardInTime'
  BY <1>r, <1>p DEF RxSame, HeardInTime
<1> QED BY <1>a, <1>b, <1>c, <1>d, <1>e, <1>o, <1>g, <1>i, <1>j, <1>k

\* atbm_destroy_wsm_cmd finds wsm_pm_running not set, because no behaviour has
\* both a wsm_set_pm and a restart.
LEMMA DestroyPmOper ==
  ASSUME IInv, IInv', LInv, DestroyPm
  PROVE  LInv'
<1> USE DEF LInv, DestroyPm, PmRelease, lockVars, scanVars, pmVars, bhVars,
           fwVars, histVars
<1>f. ScanFacts /\ ScanFacts'
  BY ScanFactsHold, ScanFactsNext
<1>z. /\ pc \in [Thread -> Place] /\ pc' \in [Thread -> Place]
      /\ pc["bh"] = "pm"
      /\ pc'["bh"] \in {"flush2", "flush3"}
      /\ pc'["bh"] = "flush2" => in_progress
      /\ \A u \in Thread \ {"bh"} : pc'[u] = pc[u]
  BY DEF IInv, Types, Places, Go
<1>r. RxSame
  BY RxKept
<1>p. Pending' <=> Pending
  BY DEF Pending
<1>q. \A x : Queued(x)' <=> Queued(x)
  BY DEF Queued
<1>n. /\ ~alive /\ "late" \notin may /\ "pm" \notin may
      /\ cmd.id # "pm" /\ ~pm_running /\ ~fwPm /\ ~Told("pm_ind")
      /\ pc["user"] # "op_cancel"
  <2>1. ~alive /\ "late" \notin may /\ "pm" \notin may
    BY DEF Regime, NeverDies, Device, Down
  <2>2. NoPm /\ op["bh"] = "start"
    BY <2>1 DEF Regime, IInv, Types, LockData
  <2>3. cmd.id # "pm"
    BY <2>2 DEF NoPm, Caller
  <2> QED BY <2>1, <2>2, <2>3 DEF NoPm
<1>m. UNCHANGED <<pm_running, wsm_oper_lock, stayawak_cnt>>
  BY <1>n DEF DataTypes
<1>a. RxSeq' /\ DataTypes'
  <2>1. RxSeq'
    BY <1>r DEF RxSame
  <2>2. DataTypes'
    BY DEF DataTypes
  <2> QED BY <2>1, <2>2
<1>b. Regime' /\ Device'
  BY <1>r, <1>z, <1>n DEF RxSame, Regime, Device, NoPm, Down, Thread
<1>c. SecondPass'
  BY <1>z, <1>p, <1>f DEF SecondPass, Down, ScanFacts, Thread
<1>d. Caller'
  BY <1>z DEF Caller, Thread
<1>e. Mail'
  BY <1>z, MailKept, <1>m DEF Thread
<1>o. OperOwner'
  <2>1. \A x \in Owner : Owns(x)' <=> Owns(x)
    BY <1>z, <1>m DEF Owns
  <2> QED BY <2>1, OwnersKept, <1>m
<1>g. AwakeExact'
  BY <1>z, <1>p, AwakeKept, <1>m DEF Thread
<1>i. Begun' /\ Numbered'
  BY <1>z DEF Begun, Numbered, Finishing, Thread
<1>j. ScanInTime'
  BY <1>r, <1>z, <1>p, <1>q
     DEF RxSame, ScanInTime, Running, Confirmed, Stopping, Expired, Thread
<1>k. HeardInTime'
  BY <1>r, <1>p DEF RxSame, HeardInTime
<1> QED BY <1>a, <1>b, <1>c, <1>d, <1>e, <1>o, <1>g, <1>i, <1>j, <1>k

\* It cancels the timeout of a scan and runs it itself.
LEMMA DestroyScanOper ==
  ASSUME IInv, IInv', LInv, DestroyScan
  PROVE  LInv'
<1> USE DEF LInv, DestroyScan, lockVars, scanVars, pmVars, bhVars, fwVars,
           histVars
<1>z. /\ pc \in [Thread -> Place] /\ pc' \in [Thread -> Place]
      /\ pc["bh"] = "cancel"
      /\ pc'["bh"] \in {"timeout", "flush3"}
      /\ pc'["bh"] = "timeout" => in_progress
      /\ \A u \in Thread \ {"bh"} : pc'[u] = pc[u]
  BY DEF IInv, Types, Places, Go, Thread
<1>r. RxSame
  BY RxKept
<1>p. Pending' <=> Pending
  BY DEF Pending
<1>n. /\ ~alive /\ "late" \notin may /\ "pm" \notin may
      /\ cmd.id # "pm" /\ ~pm_running /\ ~fwPm /\ ~Told("pm_ind")
      /\ pc["user"] # "op_cancel"
  <2>1. ~alive /\ "late" \notin may /\ "pm" \notin may
    BY DEF Regime, NeverDies, Device, Down
  <2>2. NoPm /\ op["bh"] = "start"
    BY <2>1 DEF Regime, IInv, Types, LockData
  <2>3. cmd.id # "pm"
    BY <2>2 DEF NoPm, Caller
  <2> QED BY <2>1, <2>2, <2>3 DEF NoPm
<1>m. ~rxOn /\ ~rxCb
  BY DEF Device, Down
<1>a. RxSeq' /\ DataTypes'
  <2>1. RxSeq'
    BY <1>r DEF RxSame
  <2>2. DataTypes'
    BY DEF DataTypes
  <2> QED BY <2>1, <2>2
<1>b. Regime' /\ Device'
  BY <1>r, <1>z, <1>n
     DEF RxSame, Regime, Device, NoPm, Down, Reporting, Thread
<1>c. SecondPass'
  BY <1>z DEF SecondPass, Down
<1>d. Caller'
  BY <1>z DEF Caller, Thread
<1>e. Mail'
  BY <1>z, MailKept DEF Thread
<1>o. OperOwner'
  <2>1. \A x \in Owner : Owns(x)' <=> Owns(x)
    BY <1>z DEF Owns
  <2> QED BY <2>1, OwnersKept
<1>g. AwakeExact'
  BY <1>z, <1>p, AwakeKept DEF Thread
<1>i. Begun' /\ Numbered'
  BY <1>z DEF Begun, Numbered, Finishing, Thread
<1>j. ScanInTime'
  BY <1>z, <1>p, <1>n, <1>m
     DEF ScanInTime, Running, Confirmed, Stopping, Thread
<1>k. HeardInTime'
  BY <1>r, <1>p DEF RxSame, HeardInTime
<1> QED BY <1>a, <1>b, <1>c, <1>d, <1>e, <1>o, <1>g, <1>i, <1>j, <1>k

\* The restart takes scan.lock.
LEMMA RestartWaitOper ==
  ASSUME IInv, IInv', LInv, WaitScan("bh", "wait", "remove")
  PROVE  LInv'
<1> USE DEF LInv, WaitScan, lockVars, scanVars, pmVars, bhVars, fwVars,
           histVars
<1>z. /\ pc \in [Thread -> Place] /\ pc' \in [Thread -> Place]
      /\ pc["bh"] = "wait"
      /\ pc'["bh"] = "remove"
      /\ \A u \in Thread \ {"bh"} : pc'[u] = pc[u]
  BY DEF IInv, Types, Places, Go
<1>r. RxSame
  BY RxKept
<1>p. Pending' <=> Pending
  BY DEF Pending
<1>q. \A x : Queued(x)' <=> Queued(x)
  BY DEF Queued
<1>a. RxSeq' /\ DataTypes'
  <2>1. RxSeq'
    BY <1>r DEF RxSame
  <2>2. DataTypes'
    BY DEF DataTypes
  <2> QED BY <2>1, <2>2
<1>b. Regime' /\ Device'
  BY <1>r, <1>z DEF RxSame, Regime, Device, NeverDies, NoPm, Down, Thread
<1>c. SecondPass'
  BY <1>z DEF SecondPass, Down
<1>d. Caller'
  BY <1>z DEF Caller, Thread
<1>e. Mail'
  BY <1>z, MailKept DEF Thread
<1>o. OperOwner'
  <2>1. \A x \in Owner : Owns(x)' <=> Owns(x)
    BY <1>z DEF Owns
  <2> QED BY <2>1, OwnersKept
<1>g. AwakeExact'
  BY <1>z, <1>p, AwakeKept DEF Thread
<1>i. Begun' /\ Numbered'
  BY <1>z DEF Begun, Numbered, Finishing, Thread
<1>j. ScanInTime'
  BY <1>r, <1>z, <1>p, <1>q
     DEF RxSame, ScanInTime, Running, Confirmed, Stopping, Expired, Thread
<1>k. HeardInTime'
  BY <1>r, <1>p DEF RxSame, HeardInTime
<1> QED BY <1>a, <1>b, <1>c, <1>d, <1>e, <1>o, <1>g, <1>i, <1>j, <1>k

\* What was received is dropped. The restart is inside scan.lock, so that no
\* scan is pending and none is begun.
LEMMA RestartRemoveOper ==
  ASSUME IInv, IInv', LInv, RestartRemove
  PROVE  LInv'
<1> USE DEF LInv, RestartRemove, lockVars, scanVars, pmVars, bhVars, fwVars,
           histVars
<1>f. ScanFacts /\ ScanFacts'
  BY ScanFactsHold, ScanFactsNext
<1>z. /\ pc \in [Thread -> Place] /\ pc' \in [Thread -> Place]
      /\ pc["bh"] = "remove"
      /\ pc'["bh"] = "flush1"
      /\ \A u \in Thread \ {"bh"} : pc'[u] = pc[u]
  BY DEF IInv, Types, Places, Go
<1>r. /\ RxSeq' /\ (\A x : ~Told(x)') /\ (\A ok : ~Answer(ok)')
      /\ (\A n : ~Completed(n)') /\ (\A x : Single(x)') /\ ConfirmFirst'
  BY RxDropped
<1>p. Pending' <=> Pending
  BY DEF Pending
<1>n. /\ ~alive /\ "late" \notin may /\ "pm" \notin may
      /\ cmd.id # "pm" /\ ~pm_running /\ ~fwPm /\ ~Told("pm_ind")
      /\ pc["user"] # "op_cancel"
  <2>1. ~alive /\ "late" \notin may /\ "pm" \notin may
    BY DEF Regime, NeverDies, Device, Down
  <2>2. NoPm /\ op["bh"] = "start"
    BY <2>1 DEF Regime, IInv, Types, LockData
  <2>3. cmd.id # "pm"
    BY <2>2 DEF NoPm, Caller
  <2> QED BY <2>1, <2>2, <2>3 DEF NoPm
<1>m. ~rxOn /\ ~Pending /\ pc["mac"] # "template_cnf"
  <2>1. ~rxOn
    BY DEF Device, Down
  <2>2. "bh" \in ScanLockHolders
    BY <1>z DEF ScanLockHolders
  <2>3. ~Pending /\ \E u \in Thread : ScanLockHolders = {u}
    BY <2>2 DEF IInv, ScanLockOwner
  <2>4. "mac" \notin ScanLockHolders
    BY <2>2, <2>3
  <2> QED BY <2>1, <2>3 DEF ScanLockHolders, Thread
<1>a. RxSeq' /\ DataTypes'
  <2>1. RxSeq'
    BY <1>r
  <2>2. DataTypes'
    BY DEF DataTypes
  <2> QED BY <2>1, <2>2
<1>b. Regime' /\ Device'
  BY <1>r, <1>z, <1>n DEF Regime, Device, NoPm, Down, Thread
<1>c. SecondPass'
  BY <1>z, <1>p, <1>m DEF SecondPass, Thread
<1>d. Caller'
  BY <1>z DEF Caller, Thread
<1>e. Mail'
  <2>1. Answered' /\ OneInd' /\ IndOwed'
    BY <1>m DEF Answered, OneInd, IndOwed
  <2>2. LateInv' /\ PmInTime'
    BY <1>n, <1>z, <1>r DEF LateInv, PmInTime, Thread
  <2> QED BY <2>1, <2>2 DEF Mail
<1>o. OperOwner'
  <2>1. \A x \in Owner : Owns(x)' <=> Owns(x)
    BY <1>z DEF Owns
  <2> QED BY <2>1, OwnersKept
<1>g. AwakeExact'
  BY <1>z, <1>p, AwakeKept DEF Thread
<1>i. Begun' /\ Numbered'
  BY <1>z DEF Begun, Numbered, Finishing, Thread
<1>j. ScanInTime'
  BY <1>f, <1>p, <1>m, <1>n
     DEF ScanInTime, Running, Stopping, ScanFacts, Reporting
<1>k. HeardInTime'
  BY <1>r, <1>p DEF HeardInTime
<1> QED BY <1>a, <1>b, <1>c, <1>d, <1>e, <1>o, <1>g, <1>i, <1>j, <1>k

\* The device is up again.
LEMMA RestartUpOper ==
  ASSUME IInv, IInv', LInv, RestartUp
  PROVE  LInv'
<1> USE DEF LInv, RestartUp, lockVars, scanVars, pmVars, bhVars, fwVars,
           histVars
<1>f. ScanFacts /\ ScanFacts'
  BY ScanFactsHold, ScanFactsNext
<1>z. /\ pc \in [Thread -> Place] /\ pc' \in [Thread -> Place]
      /\ pc["bh"] = "bringup"
      /\ pc'["bh"] = "oper"
      /\ \A u \in Thread \ {"bh"} : pc'[u] = pc[u]
  BY DEF IInv, Types, Places, Go
<1>r. /\ RxSeq' /\ (\A x : ~Told(x)') /\ (\A ok : ~Answer(ok)')
      /\ (\A n : ~Completed(n)') /\ (\A x : Single(x)') /\ ConfirmFirst'
  <2>1. rx' = <<>>
    BY DEF SecondPass
  <2> QED BY <2>1, RxDropped
<1>p. Pending' <=> Pending
  BY DEF Pending
<1>n. /\ ~alive /\ "late" \notin may /\ "pm" \notin may
      /\ cmd.id # "pm" /\ ~pm_running /\ ~fwPm /\ ~Told("pm_ind")
      /\ pc["user"] # "op_cancel"
  <2>1. ~alive /\ "late" \notin may /\ "pm" \notin may
    BY DEF Regime, NeverDies, Device, Down
  <2>2. NoPm /\ op["bh"] = "start"
    BY <2>1 DEF Regime, IInv, Types, LockData
  <2>3. cmd.id # "pm"
    BY <2>2 DEF NoPm, Caller
  <2> QED BY <2>1, <2>2, <2>3 DEF NoPm
<1>m. ~Pending /\ awaited = 0 /\ fw = 0 /\ ~rxCb
      /\ cmd.state \notin {"sent", "taken"}
  <2>1. ~Pending /\ cmd.state \notin {"sent", "taken"}
    BY DEF SecondPass, Device, Down
  <2> QED BY <1>f, <1>n, <2>1, NoScanOwed
<1>v. ~Expired /\ ~Expired' /\ ~Running'
  BY <1>m, <1>f
     DEF ScanFacts, Expired, Stopping, Running, TimeoutPending, Reporting
<1>a. RxSeq' /\ DataTypes'
  <2>1. RxSeq'
    BY <1>r
  <2>2. DataTypes'
    BY DEF DataTypes
  <2> QED BY <2>1, <2>2
<1>b. Regime' /\ Device'
  BY <1>r, <1>z, <1>n DEF Regime, Device, NoPm, Down, Reporting, Thread
<1>c. SecondPass'
  BY <1>z, <1>p, <1>f DEF SecondPass, Down, ScanFacts
<1>d. Caller'
  BY <1>z DEF Caller, Thread
<1>e. Mail'
  <2>1. Answered' /\ OneInd' /\ IndOwed'
    BY <1>m, <1>r DEF Answered, OneInd, IndOwed
  <2>2. LateInv' /\ PmInTime'
    BY <1>n, <1>z, <1>r DEF LateInv, PmInTime, Thread
  <2> QED BY <2>1, <2>2 DEF Mail
<1>o. OperOwner'
  <2>1. \A x \in Owner : Owns(x)' <=> Owns(x)
    BY <1>z DEF Owns
  <2> QED BY <2>1, OwnersKept
<1>g. AwakeExact'
  BY <1>z, <1>p, AwakeKept DEF Thread
<1>i. Begun' /\ Numbered'
  BY <1>z DEF Begun, Numbered, Finishing, Thread
<1>j. ScanInTime'
  BY <1>p, <1>m, <1>v DEF ScanInTime, Expired
<1>k. HeardInTime'
  BY <1>r, <1>p DEF HeardInTime
<1> QED BY <1>a, <1>b, <1>c, <1>d, <1>e, <1>o, <1>g, <1>i, <1>j, <1>k

\* Nothing happens.
LEMMA StutterOper ==
  ASSUME IInv, IInv', LInv, UNCHANGED vars
  PROVE  LInv'
<1> USE DEF LInv, vars, lockVars, scanVars, pmVars, bhVars, fwVars, histVars
<1>r. RxSame
  BY RxKept
<1>p. Pending' <=> Pending
  BY DEF Pending
<1>q. \A x : Queued(x)' <=> Queued(x)
  BY DEF Queued
<1>a. RxSeq' /\ DataTypes'
  <2>1. RxSeq'
    BY <1>r DEF RxSame
  <2>2. DataTypes'
    BY DEF DataTypes
  <2> QED BY <2>1, <2>2
<1>b. Regime' /\ Device'
  BY <1>r DEF RxSame, Regime, Device, NeverDies, NoPm
<1>c. SecondPass'
  BY <1>p DEF SecondPass
<1>d. Caller'
  BY DEF Caller
<1>e. Mail'
  BY MailKept
<1>o. OperOwner'
  <2>1. \A x \in Owner : Owns(x)' <=> Owns(x)
    BY DEF Owns
  <2> QED BY <2>1, OwnersKept
<1>g. AwakeExact'
  BY <1>p, AwakeKept
<1>i. Begun' /\ Numbered'
  BY DEF Begun, Numbered, Finishing
<1>j. ScanInTime'
  BY <1>r, <1>p, <1>q
     DEF RxSame, ScanInTime, Running, Confirmed, Stopping, Expired
<1>k. HeardInTime'
  BY <1>r, <1>p DEF RxSame, HeardInTime
<1> QED BY <1>a, <1>b, <1>c, <1>d, <1>e, <1>o, <1>g, <1>i, <1>j, <1>k

-----------------------------------------------------------------------------
(* The invariant.                                                          *)

\* It holds when the driver starts.
LEMMA InitLInv ==
  ASSUME Alone, Init
  PROVE  LInv
<1>1. may \in MayHappen /\ may \subseteq {"pm", "late", "dies"}
  BY MayAssumption DEF Init
<1>2. \A t \in Thread : pc[t] = "idle" /\ op[t] = "start"
  BY DEF Init
<1>3. rx = <<>> /\ DOMAIN rx = {}
  BY DEF Init
<1>4. /\ RxSeq /\ (\A m : ~Told(m)) /\ (\A ok : ~Answer(ok))
      /\ (\A n : ~Completed(n)) /\ (\A m : Single(m)) /\ ConfirmFirst
  BY <1>3 DEF RxSeq, Told, Answer, Completed, Single, ConfirmFirst
<1>5. ~Pending /\ \A n \in Scans : report[n] = None
  BY DEF Init, Pending, None
<1>6. \A x : ~Queued(x)
  BY DEF Init, Queued
<1> DEFINE Started ==
      /\ wsm_oper_lock = 1 /\ stayawak_cnt = 0 /\ cmd = NoCmd
      /\ req = 0 /\ status = "zero" /\ curr = "end" /\ in_progress = FALSE
      /\ pm_running = FALSE /\ pm_timer = FALSE
      /\ alive = TRUE /\ up = TRUE /\ pass = 0 /\ rxOn = TRUE /\ rxCb = FALSE
      /\ fw = 0 /\ fwPm = FALSE /\ scans = 0 /\ awaited = 0 /\ heard = {}
<1>7. Started
  BY DEF Init
<1>8. DataTypes
  <2>1. /\ pm_running \in BOOLEAN /\ pm_timer \in BOOLEAN /\ fwPm \in BOOLEAN
        /\ alive \in BOOLEAN /\ rxOn \in BOOLEAN /\ rxCb \in BOOLEAN
    BY <1>7, Zenon
  <2>2. /\ pass \in 0 .. 2 /\ req \in 0 .. MaxScans /\ fw \in 0 .. MaxScans
        /\ awaited \in 0 .. MaxScans
    BY <1>7, NumberAssumption
  <2> QED BY <1>1, <1>7, <2>1, <2>2 DEF DataTypes
<1>9. Regime /\ Device /\ SecondPass /\ Caller
  <2>1. Regime
    BY <1>1, <1>2, <1>4, <1>7 DEF Alone, Regime, NeverDies, NoPm, Thread
  <2>2. Device /\ SecondPass /\ Caller
    BY <1>2, <1>5, <1>7
       DEF Device, SecondPass, Caller, Down, Reporting, Thread, NoCmd, None
  <2> QED BY <2>1, <2>2
<1>10. Mail
  BY <1>2, <1>4, <1>7
     DEF Mail, Answered, OneInd, IndOwed, LateInv, PmInTime, Thread, NoCmd,
         None
<1>11. OperOwner
  <2>1. \A x \in Owner : ~Owns(x)
    BY <1>2, <1>7 DEF Owner, Owns, Thread
  <2> QED BY <1>7, <2>1 DEF OperOwner
<1>12. AwakeExact
  BY <1>2, <1>5, <1>7 DEF AwakeExact, Count, Thread
<1>13. Begun /\ Numbered
  BY <1>2, <1>7 DEF Begun, Numbered, Starting, Finishing, Thread
<1>14. ScanInTime
  BY <1>2, <1>4, <1>5, <1>6, <1>7
     DEF ScanInTime, Running, Stopping, Expired, Thread, NoCmd, None
<1>15. HeardInTime
  BY <1>4, <1>5, <1>7 DEF HeardInTime, None
<1> QED
  BY <1>4, <1>8, <1>9, <1>10, <1>11, <1>12, <1>13, <1>14, <1>15 DEF LInv

\* It holds after every step.
LEMMA NextLInv ==
  ASSUME IInv, LInv, [Next]_vars
  PROVE  LInv'
<1>i. IInv'
  BY NextStep
<1>1. CASE WqTake
  <2>1. wq # <<>> /\ Distinct
    BY <1>1 DEF WqTake, IInv
  <2>2. Head(wq) \in {"work", "timeout", "barrier"}
    BY <2>1 DEF Distinct, Once, Item
  <2> QED BY <1>i, <1>1, <2>2, WqBarrierOper, WqItemOper
<1>2. CASE TimerExpires \/ CmdTimeout
  BY <1>i, <1>2, TimerExpiresOper, CmdTimeoutOper
<1>3. CASE HwScan \/ HwScanStep
  BY <1>i, <1>3, HwScanOper, HwScanLocksOper, HwScanTemplateOper,
     HwScanRefusedOper, HwScanQueueOper
     DEF HwScanStep
<1>4. ASSUME NEW t \in {"wq", "bh"}, ScanStep(t)
      PROVE  LInv'
  <2>1. CASE ScanWork(t) \/ ScanDone(t) \/ ScanFinish(t) \/ ScanBegin(t)
    BY <1>i, <2>1, ScanWorkOper, ScanDoneOper, ScanFinishOper, ScanBeginOper
  <2>2. CASE ScanOper(t) \/ ScanSend(t) \/ ScanStarted(t)
    BY <1>i, <2>2, ScanOperOper, ScanSendOper, ScanStartedOper
  <2>3. CASE ScanRejected(t) \/ ScanFail(t) \/ ScanTimeout(t)
    BY <1>i, <2>3, ScanRejectedOper, ScanFailOper, ScanTimeoutOper
  <2>4. CASE StopSend(t) \/ StopConfirmed(t) \/ StopFailed(t)
    BY <1>i, <2>4, StopSendOper, StopConfirmedOper, StopFailedOper
  <2> QED BY <1>4, <2>1, <2>2, <2>3, <2>4 DEF ScanStep
<1>5. CASE OpBegin
  BY <1>i, <1>5, OpBeginOper
<1>6. ASSUME NEW t \in {"user", "bh"}, OpStep(t)
      PROVE  LInv'
  <2>1. CASE OpSend(t)
    <3>1. op[t] = "start" \/ op[t] = "pm"
      BY DEF IInv, Types, LockData, Thread
    <3> QED BY <1>i, <2>1, <3>1, OpSendStartOper, OpSendPmOper
  <2>2. CASE OpOper(t) \/ OpStarted(t)
    BY <1>i, <2>2, OpOperOper, OpStartedOper
  <2>3. CASE OpPm(t) \/ OpPmFails(t) \/ OpCancel(t)
    BY <1>i, <2>3, OpPmOper, OpPmFailsOper, OpCancelOper
  <2> QED BY <1>6, <2>1, <2>2, <2>3 DEF OpStep
<1>7. CASE WaitScan("user", "idle", "wait_conf") \/ WaitConf \/ PmTimer
  BY <1>i, <1>7, WaitOper, PmTimerOper
<1>8. CASE FwStep \/ FwDies
  BY <1>i, <1>8, FwCommandOper, FwScanCompleteOper, FwPmIndicationOper,
     FwDiesOper
     DEF FwStep
<1>9. CASE RxStep
  BY <1>i, <1>9, RxConfirmOper, RxScanCompleteOper, ScanCompleteCbOper,
     RxPmOper
     DEF RxStep
<1>10. CASE RestartStep
  <2>1. CASE RestartBegin \/ RestartRelease \/ FlushBegin \/ FlushEnd
    BY <1>i, <2>1, RestartBeginOper, RestartReleaseOper, FlushBeginOper,
       FlushEndOper
  <2>2. CASE DestroyPm \/ DestroyScan \/ WaitScan("bh", "wait", "remove")
    BY <1>i, <2>2, DestroyPmOper, DestroyScanOper, RestartWaitOper
  <2>3. CASE RestartRemove \/ RestartUp
    BY <1>i, <2>3, RestartRemoveOper, RestartUpOper
  <2> QED BY <1>10, <2>1, <2>2, <2>3 DEF RestartStep
<1>11. CASE UNCHANGED vars
  BY <1>i, <1>11, StutterOper
<1> QED
  BY <1>1, <1>2, <1>3, <1>4, <1>5, <1>6, <1>7, <1>8, <1>9, <1>10, <1>11
     DEF Next

\* LInv always holds.
THEOREM OperInvariance ==
  ASSUME Alone
  PROVE  Spec => []LInv
<1>1. Init => LInv
  BY InitLInv
<1>2. IInv /\ LInv /\ [Next]_vars => LInv'
  BY NextLInv
<1> QED BY <1>1, <1>2, Invariance, PTL DEF Spec

-----------------------------------------------------------------------------
(* The theorems.                                                           *)

\* The variables have their types: wsm_oper_lock is never above one.
THEOREM TypeCorrect ==
  ASSUME Alone
  PROVE  Spec => []TypeOK
<1>1. IInv /\ LInv => TypeOK
  <2> SUFFICES ASSUME IInv, LInv
               PROVE  TypeOK
    OBVIOUS
  <2>1. stayawak_cnt \in Nat /\ wsm_oper_lock \in 0 .. 1
    BY DEF LInv, AwakeExact, Count, OperOwner
  <2>2. tx_lock \in Nat
    BY DEF IInv, TxHeld, Count
  <2>3. scan_lock \in 0 .. 1
    BY DEF IInv, ScanLockOwner
  <2>4. wq \in Seq({"work", "timeout", "barrier"}) /\ rx \in Seq(Message)
    BY DEF IInv, Distinct, Once, Item, LInv, RxSeq
  <2> QED
    BY <2>1, <2>2, <2>3, <2>4
       DEF IInv, LInv, Types, Places, LockData, ScanData, DataTypes, TypeOK
<1> QED BY <1>1, Invariance, OperInvariance, PTL

\* wsm_oper_lock is given back exactly as often as it is taken, whoever gives
\* it back, and so is the wake lock that wsm_set_pm and atbm_hw_scan share.
THEOREM OperLockCorrect ==
  ASSUME Alone
  PROVE  Spec => []OperLockExact
<1>1. IInv /\ LInv => OperLockExact
  <2> SUFFICES ASSUME IInv, LInv
               PROVE  OperLockExact
    OBVIOUS
  <2>1. \A t \in Thread : t \in OperHolders <=> Owns(t)
    BY DEF OperHolders, Owns, Thread
  <2>2. OperHolders \subseteq Thread /\ Thread \subseteq Owner
    BY DEF OperHolders, Owner
  <2>3. /\ Owns("scan") <=> awaited # 0
        /\ Owns("pm") <=> pm_running
        /\ "scan" \in Owner \ Thread /\ "pm" \in Owner \ Thread
    BY DEF Owns, Owner, Thread
  <2>4. wsm_oper_lock + Cardinality(OperHolders) + Count(awaited # 0)
          + Count(pm_running) = 1
    <3>1. CASE wsm_oper_lock = 1
      <4>1. \A x \in Owner : ~Owns(x)
        BY <3>1 DEF LInv, OperOwner
      <4>2. OperHolders = {}
        BY <2>1, <2>2, <4>1
      <4> QED BY <2>3, <3>1, <4>1, <4>2, FS_EmptySet DEF Count
    <3>2. CASE wsm_oper_lock = 0
      <4>1. PICK x \in Owner : Owns(x)
        BY <3>2 DEF LInv, OperOwner
      <4>2. \A y \in Owner : Owns(y) => y = x
        BY <4>1 DEF LInv, OperOwner
      <4>3. CASE x \in Thread
        <5>1. OperHolders = {x}
          BY <2>1, <2>2, <4>1, <4>2, <4>3
        <5> QED BY <2>3, <3>2, <4>2, <4>3, <5>1, FS_Singleton DEF Count
      <4>4. CASE x \notin Thread
        <5>1. OperHolders = {}
          BY <2>1, <2>2, <4>2, <4>4
        <5>2. x = "scan" \/ x = "pm"
          BY <4>4 DEF Owner
        <5>3. Cardinality(OperHolders) = 0
          BY <5>1, FS_EmptySet
        <5> QED BY <2>3, <3>2, <4>1, <4>2, <5>2, <5>3 DEF Count
      <4> QED BY <4>3, <4>4
    <3> QED BY <3>1, <3>2 DEF LInv, OperOwner
  <2> QED BY <2>4 DEF LInv, AwakeExact, OperLockExact
<1> QED BY <1>1, Invariance, OperInvariance, PTL

-----------------------------------------------------------------------------
(* Each report of the firmware makes one scan a success, also when it comes *)
(* late: that is proved here without Alone.                                 *)

\* No two reports of one scan wait.
ReportedOnce ==
  \A j, k \in DOMAIN rx :
    /\ rx[j].msg = "scan_ind" /\ rx[k].msg = "scan_ind"
    /\ rx[j].scan = rx[k].scan
    => j = k

\* The firmware was asked for scan n.
Known(n) == n \in heard \/ fw = n \/ Completed(n)

\* The last scan is begun, and the firmware was not asked for it yet.
NotAsked ==
  \/ pc["mac"] # "idle"
  \/ Pending /\ curr = "begin" /\ pc["wq"] \notin {"scan_cnf", "scan_fail"}
  \/ Pending /\ pc["wq"] \in {"scan_oper", "scan_cmd"}
  \/ Pending /\ pc["wq"] = "scan_cnf" /\ cmd.id = "scan" /\ cmd.state = "sent"

\* A scan is asked for once, so it is reported once.
Fresh ==
  /\ RxSeq /\ ReportedOnce /\ heard \subseteq Scans /\ fw \in 0 .. MaxScans
  /\ \A n \in Scans : Known(n) => n <= scans
  /\ NotAsked => scans \in Scans /\ ~Known(scans)
  /\ fw # 0 => fw \notin heard /\ ~Completed(fw)
  /\ \A n \in Scans : Completed(n) => n \notin heard
  /\ req # 0 => req = scans
  /\ cmd.id = "scan" => pc["wq"] = "scan_cnf"

\* The reports that were handled and did not make a scan a success yet.
Due ==
  Count(rxCb) + Count(Pending /\ status = "done")
    + Count(Pending /\ status = "zero" /\ curr = "end" /\ ~in_progress)

Successes == {n \in Scans : report[n] = "ok"}
Used ==
  /\ Finishing => curr = "end"
  /\ Cardinality(Successes) + Due <= Cardinality(heard)

LEMMA OnceKept ==
  ASSUME ReportedOnce, UNCHANGED rx
  PROVE  ReportedOnce'
BY DEF ReportedOnce

LEMMA OncePosted ==
  ASSUME RxSeq, ReportedOnce, NEW m \in Message, rx' = Append(rx, m),
         m.msg = "scan_ind" => ~Completed(m.scan)
  PROVE  ReportedOnce'
<1>1. /\ Len(rx) \in Nat /\ DOMAIN rx = 1 .. Len(rx)
      /\ DOMAIN rx' = 1 .. Len(rx) + 1
      /\ \A k \in 1 .. Len(rx) : rx'[k] = rx[k]
      /\ rx'[Len(rx) + 1] = m
  BY DEF RxSeq
<1> HIDE DEF Message
<1> QED BY <1>1 DEF ReportedOnce, Completed

LEMMA OnceTook ==
  ASSUME RxSeq, ReportedOnce, rx # <<>>, rx' = Tail(rx), NEW m, m = Head(rx)
  PROVE  /\ ReportedOnce'
         /\ m.msg = "scan_ind" => ~Completed(m.scan)'
<1>1. /\ Len(rx) \in Nat /\ Len(rx) >= 1 /\ DOMAIN rx = 1 .. Len(rx)
      /\ DOMAIN rx' = 1 .. Len(rx) - 1 /\ rx[1] = m
      /\ \A k \in 1 .. Len(rx) - 1 : rx'[k] = rx[k + 1]
  BY DEF RxSeq
<1>2. ReportedOnce'
  BY <1>1 DEF ReportedOnce
<1>3. m.msg = "scan_ind" => ~Completed(m.scan)'
  BY <1>1 DEF ReportedOnce, Completed
<1> QED BY <1>2, <1>3

\* No report is sent or handled and no scan is begun or asked for.
LEMMA FreshKept ==
  ASSUME Fresh, RxSeq', ReportedOnce', \A n : Completed(n)' => Completed(n),
         UNCHANGED <<heard, scans>>, fw' \in {0, fw}, NotAsked' => NotAsked,
         req' \in {0, req, scans}, cmd'.id = "scan" => pc'["wq"] = "scan_cnf"
  PROVE  Fresh'
<1>1. \A n \in Scans : Known(n)' => Known(n)
  BY DEF Known, Scans
<1>2. 0 \in 0 .. MaxScans
  BY NumberAssumption
<1> QED BY <1>1, <1>2 DEF Fresh

\* ... and no message comes or goes.
LEMMA FreshQuiet ==
  ASSUME Fresh, UNCHANGED <<rx, heard, scans>>, fw' \in {0, fw},
         NotAsked' => NotAsked, req' \in {0, req, scans},
         cmd'.id = "scan" => pc'["wq"] = "scan_cnf"
  PROVE  Fresh'
<1>1. RxSame /\ ReportedOnce'
  BY RxKept, OnceKept DEF Fresh
<1> QED BY <1>1, FreshKept DEF RxSame

\* The calls of mac80211 for a scan: a number is used once.
LEMMA HwScanFresh ==
  ASSUME IInv, Fresh, HwScan
  PROVE  Fresh'
<1> USE DEF HwScan, Go
<1>1. scans \in 0 .. MaxScans /\ scans' \in Scans /\ scans' = scans + 1
  BY NumberAssumption DEF IInv, Types, ScanData, Scans
<1>2. ~Pending
  BY DEF IInv, LastPending, Pending, Scans
<1>3. req = 0
  BY <1>2 DEF IInv, Requested
<1>4. RxSame /\ ReportedOnce' /\ pc'["wq"] = pc["wq"]
  BY RxKept, OnceKept DEF Fresh, fwVars, IInv, Types, Places
<1>5. \A n : Known(n)' <=> Known(n)
  BY <1>4 DEF Known, RxSame, fwVars
<1>6. \A n \in Scans : n <= scans => n <= scans'
  BY <1>1 DEF Scans
<1>7. ASSUME NEW n \in Scans, n = scans'
      PROVE  ~Known(n)'
  <2>1. ~(n <= scans)
    BY <1>1, <1>7
  <2> QED BY <1>5, <2>1 DEF Fresh
<1>8. NotAsked' => scans' \in Scans /\ ~Known(scans)'
  BY <1>1, <1>7
<1>9. (\A n \in Scans : Known(n)' => n <= scans') /\ (req' # 0 => req' = scans')
  BY <1>3, <1>5, <1>6 DEF Fresh, scanVars
<1> QED BY <1>4, <1>8, <1>9 DEF Fresh, RxSame, fwVars, Known

LEMMA HwScanStepFresh ==
  ASSUME IInv, Fresh, HwScanStep
  PROVE  Fresh'
<1> USE DEF Go, fwVars, histVars, scanVars, lockVars, IInv, Types, Places
<1>1. pc["mac"] # "idle" /\ NotAsked
  BY DEF HwScanStep, HwScanDown, HwScanConf, HwScanTemplate, HwScanRefused,
         HwScanQueue, NotAsked
<1>2. UNCHANGED <<rx, heard, scans, fw>> /\ pc'["wq"] = pc["wq"]
  BY DEF HwScanStep, HwScanDown, HwScanConf, HwScanTemplate, HwScanRefused,
         HwScanQueue, Thread
<1>3. req' \in {0, req, scans}
  BY DEF HwScanStep, HwScanDown, HwScanConf, HwScanTemplate, HwScanRefused,
         HwScanQueue
<1>4. cmd'.id = "scan" => cmd.id = "scan"
  BY DEF HwScanStep, HwScanDown, HwScanConf, HwScanTemplate, HwScanRefused,
         HwScanQueue, Send, Returned, NoCmd, None
<1> QED BY <1>1, <1>2, <1>3, <1>4, FreshQuiet DEF Fresh

\* The worker and the restart: the scan is begun, asked for, and ended.
LEMMA ScanStepFresh ==
  ASSUME IInv, Fresh, NEW t \in {"wq", "bh"}, ScanStep(t)
  PROVE  Fresh'
<1> USE DEF Go, fwVars, scanVars, lockVars
<1>1. UNCHANGED <<rx, heard, scans, fw>> /\ pc'["mac"] = pc["mac"]
  BY DEF ScanStep, ScanWork, ScanDone, ScanFinish, ScanBegin, ScanOper,
         ScanSend, ScanStarted, ScanRejected, ScanFail, ScanTimeout, StopSend,
         StopConfirmed, StopFailed, Return, histVars, IInv, Types, Places,
         Thread
<1>2. req' \in {0, req, scans}
  BY DEF ScanStep, ScanWork, ScanDone, ScanFinish, ScanBegin, ScanOper,
         ScanSend, ScanStarted, ScanRejected, ScanFail, ScanTimeout, StopSend,
         StopConfirmed, StopFailed
<1>3. Pending' => Pending
  <2>1. CASE ScanFinish(t)
    BY <2>1 DEF ScanFinish, Pending, IInv, Types, ScanData
  <2>2. CASE ~ScanFinish(t)
    <3>1. UNCHANGED report
      BY <2>2 DEF ScanStep, ScanWork, ScanDone, ScanBegin, ScanOper, ScanSend,
                  ScanStarted, ScanRejected, ScanFail, ScanTimeout, StopSend,
                  StopConfirmed, StopFailed, histVars
    <3> QED BY <3>1 DEF Pending
  <2> QED BY <2>1, <2>2
<1>4. pc[t] \notin Starting \/ t = "wq"
  BY DEF IInv, Types, Places, BhPlace, Reporting, Starting
<1>5. pc \in [Thread -> Place]
  BY DEF IInv, Types, Places
<1>6. /\ cmd'.id = "scan" => pc'["wq"] = "scan_cnf"
      /\ NotAsked' => NotAsked
  <2>1. CASE ScanWork(t) \/ ScanDone(t) \/ ScanFinish(t)
    BY <1>1, <1>3, <1>5, <2>1
       DEF ScanWork, ScanDone, ScanFinish, Return, Fresh, NotAsked, Thread
  <2>2. CASE ScanBegin(t) \/ ScanOper(t)
    BY <1>1, <1>3, <1>5, <2>2
       DEF ScanBegin, ScanOper, Fresh, NotAsked, Thread
  <2>3. CASE ScanSend(t)
    BY <1>1, <1>3, <1>4, <1>5, <2>3
       DEF ScanSend, Send, Fresh, NotAsked, Thread, Starting
  <2>4. CASE ScanStarted(t) \/ ScanRejected(t) \/ ScanFail(t)
    BY <1>1, <1>3, <1>4, <1>5, <2>4
       DEF ScanStarted, ScanRejected, ScanFail, Returned, NoCmd, None, Return,
           Fresh, NotAsked, Thread, Starting
  <2>5. CASE ScanTimeout(t)
    BY <1>1, <1>3, <1>5, <2>5
       DEF ScanTimeout, Return, Fresh, NotAsked, Thread
  <2>6. CASE StopSend(t) \/ StopConfirmed(t) \/ StopFailed(t)
    BY <1>1, <1>3, <1>5, <2>6
       DEF StopSend, StopConfirmed, StopFailed, Send, Returned, NoCmd, None,
           Fresh, NotAsked, Thread
  <2> QED BY <2>1, <2>2, <2>3, <2>4, <2>5, <2>6 DEF ScanStep
<1> QED BY <1>1, <1>2, <1>6, FreshQuiet

\* The calls that take the locks for something else.
LEMMA OpFresh ==
  ASSUME IInv, Fresh,
         \/ OpBegin \/ \E t \in {"user", "bh"} : OpStep(t)
         \/ WaitScan("user", "idle", "wait_conf") \/ WaitConf \/ PmTimer
  PROVE  Fresh'
<1> USE DEF Go, OpLeave, fwVars, scanVars, histVars, lockVars
<1>1. /\ UNCHANGED <<rx, heard, scans, report, fw, req, curr>>
      /\ pc'["mac"] = pc["mac"] /\ pc'["wq"] = pc["wq"]
  BY DEF OpBegin, OpStep, OpOper, OpSend, OpStarted, OpPm, OpPmFails,
         OpCancel, WaitScan, WaitConf, PmTimer, IInv, Types, Places, Thread
<1>2. cmd' = cmd \/ cmd'.id # "scan"
  BY DEF OpBegin, OpStep, OpOper, OpSend, OpStarted, OpPm, OpPmFails,
         OpCancel, WaitScan, WaitConf, PmTimer, Send, Returned, NoCmd, None,
         IInv, Types, LockData, Thread
<1>3. Pending' <=> Pending
  BY <1>1 DEF Pending
<1>4. NotAsked' => NotAsked
  BY <1>1, <1>2, <1>3 DEF NotAsked
<1> QED BY <1>1, <1>2, <1>4, FreshQuiet DEF Fresh

\* The worker takes an item, and the timers.
LEMMA WorkerFresh ==
  ASSUME IInv, Fresh,
         \/ WqTake \/ TimerExpires \/ CmdTimeout \/ FwDies \/ ScanCompleteCb
         \/ UNCHANGED vars
  PROVE  Fresh'
<1> USE DEF Go, fwVars, scanVars, histVars, lockVars, vars
<1>1. /\ UNCHANGED <<rx, heard, scans, report, req, curr>>
      /\ fw' \in {0, fw} /\ pc'["mac"] = pc["mac"]
  BY DEF WqTake, TimerExpires, CmdTimeout, FwDies, ScanCompleteCb, IInv,
         Types, Places, Thread
<1>2. Pending' <=> Pending
  BY <1>1 DEF Pending
<1>3. CASE WqTake
  <2>1. Head(wq) \in Item /\ pc["wq"] = "idle" /\ UNCHANGED cmd
    BY <1>3 DEF WqTake, IInv, Distinct, Once
  <2>2. pc'["wq"] \in {"idle"} \cup Item
    BY <1>3, <2>1 DEF WqTake, IInv, Types, Places, Thread
  <2>3. NotAsked' => NotAsked
    BY <1>1, <1>2, <2>1, <2>2 DEF NotAsked, Item
  <2> QED BY <1>1, <2>1, <2>3, FreshQuiet DEF Fresh
<1>4. CASE ~WqTake
  <2>1. UNCHANGED pc /\ (cmd' = cmd \/ cmd' = [cmd EXCEPT !.state = "err"])
    BY <1>4 DEF TimerExpires, CmdTimeout, FwDies, ScanCompleteCb
  <2>2. cmd'.id = cmd.id /\ (cmd'.state = "sent" => cmd.state = "sent")
    BY <2>1 DEF IInv, Types, LockData
  <2>3. NotAsked' => NotAsked
    BY <1>1, <1>2, <2>1, <2>2 DEF NotAsked
  <2> QED BY <1>1, <2>1, <2>2, <2>3, FreshQuiet DEF Fresh
<1> QED BY <1>3, <1>4

\* The firmware takes wsm_scan for the last scan, which it does not know.
LEMMA FwCommandFresh ==
  ASSUME IInv, Fresh, FwCommand
  PROVE  Fresh'
<1> USE DEF FwCommand, scanVars, histVars
<1>1. /\ UNCHANGED <<pc, heard, scans, report, req, curr>>
      /\ cmd'.id = cmd.id /\ cmd.state = "sent" /\ cmd'.state = "taken"
  BY DEF IInv, Types, LockData
<1>2. Pending' <=> Pending
  BY <1>1 DEF Pending
<1>3. PICK ok \in BOOLEAN :
        /\ rx' = Append(rx, Confirmation(ok))
        /\ fw' = IF ok /\ cmd.id = "scan" THEN req ELSE fw
  BY DEF Post
<1>4. Confirmation(ok) \in Message /\ Confirmation(ok).msg = "confirm"
  BY NumberAssumption DEF Confirmation, Message
<1> HIDE DEF FwCommand
<1>5. /\ RxSeq' /\ ReportedOnce'
      /\ \A n : Completed(n)' <=> Completed(n)
  BY <1>3, <1>4, RxPosted, OncePosted DEF Fresh
<1>6. NotAsked' => NotAsked
  BY <1>1, <1>2 DEF NotAsked
<1>7. CASE fw' \in {0, fw}
  BY <1>1, <1>5, <1>6, <1>7, FreshKept DEF Fresh
<1>8. CASE fw' \notin {0, fw}
  <2>1. fw' = scans /\ cmd.id = "scan" /\ req # 0
    BY <1>3, <1>8 DEF Fresh
  <2>2. Pending /\ pc["mac"] = "idle" /\ pc["wq"] = "scan_cnf"
    BY <2>1 DEF Fresh, IInv, Requested, LastPending
  <2>3. NotAsked /\ ~NotAsked'
    BY <1>1, <2>1, <2>2 DEF NotAsked
  <2>4. scans \in Scans /\ scans \in 0 .. MaxScans /\ ~Known(scans)
    BY <2>3 DEF Fresh, Scans
  <2>5. \A n : Known(n)' => Known(n) \/ n = scans
    BY <1>1, <1>5, <2>1 DEF Known
  <2>6. scans <= scans
    BY <2>4
  <2> QED BY <1>1, <1>5, <2>1, <2>2, <2>3, <2>4, <2>5, <2>6 DEF Fresh, Known
<1> QED BY <1>7, <1>8

LEMMA FwIndicationFresh ==
  ASSUME IInv, Fresh, FwScanComplete \/ FwPmIndication
  PROVE  Fresh'
<1> USE DEF scanVars, histVars
<1>1. UNCHANGED <<pc, cmd, heard, scans, report, req, curr>>
  BY DEF FwScanComplete, FwPmIndication
<1>2. Pending' <=> Pending
  BY <1>1 DEF Pending
<1>3. NotAsked' <=> NotAsked
  BY <1>1, <1>2 DEF NotAsked
<1>4. CASE FwPmIndication
  <2> DEFINE m == [msg |-> "pm_ind", ok |-> TRUE, scan |-> 0]
  <2>1. m \in Message /\ m.msg = "pm_ind" /\ rx' = Append(rx, m) /\ fw' = fw
    BY <1>4, NumberAssumption DEF FwPmIndication, Post, Message
  <2> HIDE DEF m
  <2>2. RxSeq' /\ ReportedOnce' /\ \A n : Completed(n)' <=> Completed(n)
    BY <2>1, RxPosted, OncePosted DEF Fresh
  <2> QED BY <1>1, <1>3, <2>1, <2>2, FreshKept DEF Fresh
<1>5. CASE FwScanComplete
  <2> DEFINE m == [msg |-> "scan_ind", ok |-> TRUE, scan |-> fw]
  <2>1. fw \in Scans /\ fw # 0
    BY <1>5 DEF FwScanComplete, Fresh, Scans
  <2>2. /\ m \in Message /\ m.msg = "scan_ind" /\ m.scan = fw
        /\ rx' = Append(rx, m) /\ fw' = 0
    BY <1>5, <2>1 DEF FwScanComplete, Post, Message, Fresh
  <2> HIDE DEF m
  <2>3. /\ RxSeq' /\ ReportedOnce'
        /\ \A n : Completed(n)' <=> Completed(n) \/ n = fw
    BY <2>1, <2>2, RxPosted, OncePosted DEF Fresh
  <2>4. \A n \in Scans : Known(n)' => Known(n)
    BY <1>1, <2>2, <2>3 DEF Known, Scans
  <2>5. 0 \in 0 .. MaxScans
    BY NumberAssumption
  <2> QED BY <1>1, <1>3, <2>1, <2>2, <2>3, <2>4, <2>5 DEF Fresh
<1> QED BY <1>4, <1>5

\* The receive path takes a message: a report that is handled was the only
\* one of its scan.
LEMMA RxFresh ==
  ASSUME IInv, Fresh, RxConfirm \/ RxScanComplete \/ RxPm
  PROVE  Fresh' /\ (RxScanComplete => Head(rx).scan \in Scans \ heard)
<1> USE DEF RxNext, scanVars, histVars
<1>1. /\ UNCHANGED <<pc, scans, report, req, curr, fw>>
      /\ rx # <<>> /\ rx' = Tail(rx)
  BY DEF RxConfirm, RxScanComplete, RxPm
<1>2. Pending' <=> Pending
  BY <1>1 DEF Pending
<1>3. /\ cmd'.id = cmd.id /\ cmd'.state = "sent" => cmd.state = "sent"
      /\ cmd'.id = "scan" => cmd.id = "scan"
  BY DEF RxConfirm, RxScanComplete, RxPm, IInv, Types, LockData
<1>4. NotAsked' => NotAsked
  BY <1>1, <1>2, <1>3 DEF NotAsked, RxConfirm, RxScanComplete, RxPm, IInv,
     Types, LockData
<1>m. PICK m : m = Head(rx)
  OBVIOUS
<1>5. /\ RxSeq' /\ ReportedOnce' /\ \A n : Completed(n)' => Completed(n)
      /\ m.msg = "scan_ind" =>
           m.scan \in Scans /\ Completed(m.scan) /\ ~Completed(m.scan)'
  BY <1>1, <1>m, RxTook, OnceTook DEF Fresh
<1>6. CASE RxScanComplete
  <2>1. heard' = heard \cup {m.scan} /\ m.msg = "scan_ind"
    BY <1>m, <1>6 DEF RxScanComplete
  <2>2. m.scan \in Scans \ heard
    BY <1>5, <2>1 DEF Fresh
  <2>3. \A n : Known(n)' => Known(n)
    BY <1>1, <1>5, <2>1 DEF Known
  <2>4. Fresh'
    BY <1>1, <1>3, <1>4, <1>5, <2>1, <2>2, <2>3 DEF Fresh
  <2> QED BY <1>m, <2>2, <2>4
<1>7. CASE ~RxScanComplete
  <2>1. UNCHANGED heard
    BY <1>7 DEF RxConfirm, RxPm
  <2> QED BY <1>1, <1>3, <1>4, <1>5, <1>7, <2>1, FreshKept DEF Fresh
<1> QED BY <1>m, <1>6, <1>7

\* The restart drops what was received.
LEMMA RestartFresh ==
  ASSUME IInv, Fresh, RestartStep
  PROVE  Fresh'
<1> USE DEF Go, fwVars, scanVars, histVars, lockVars
<1>1. /\ UNCHANGED <<heard, scans, report, fw, req, curr>>
      /\ pc'["mac"] = pc["mac"] /\ pc'["wq"] = pc["wq"]
  BY DEF RestartStep, RestartBegin, RestartRelease, FlushBegin, FlushEnd,
         DestroyPm, DestroyScan, WaitScan, RestartRemove, RestartUp, IInv,
         Types, Places, Thread
<1>2. cmd'.id = cmd.id /\ (cmd'.state = "sent" => cmd.state = "sent")
  BY DEF RestartStep, RestartBegin, RestartRelease, FlushBegin, FlushEnd,
         DestroyPm, DestroyScan, WaitScan, RestartRemove, RestartUp, IInv,
         Types, LockData
<1>3. Pending' <=> Pending
  BY <1>1 DEF Pending
<1>4. NotAsked' => NotAsked
  BY <1>1, <1>2, <1>3 DEF NotAsked
<1>5. RxSeq' /\ ReportedOnce' /\ \A n : Completed(n)' => Completed(n)
  <2>1. CASE RestartRemove
    BY <2>1, RxDropped DEF RestartRemove, ReportedOnce
  <2>2. CASE ~RestartRemove
    <3>1. UNCHANGED rx
      BY <2>2 DEF RestartStep, RestartBegin, RestartRelease, FlushBegin,
                  FlushEnd, DestroyPm, DestroyScan, WaitScan, RestartUp
    <3> QED BY <3>1, RxKept, OnceKept DEF Fresh, RxSame
  <2> QED BY <2>1, <2>2
<1> QED BY <1>1, <1>2, <1>4, <1>5, FreshKept DEF Fresh

-----------------------------------------------------------------------------
\* No report is handled and no scan becomes a success.
LEMMA UsedKept ==
  ASSUME Used, Fresh, UNCHANGED heard, Successes' \subseteq Successes,
         Due' <= Due, Finishing' => curr' = "end"
  PROVE  Used'
<1>1. IsFiniteSet(Successes) /\ IsFiniteSet(heard)
  <2>1. IsFiniteSet(Scans)
    BY FS_Interval, NumberAssumption DEF Scans
  <2> QED BY <2>1, FS_Subset DEF Successes, Fresh
<1>2. /\ Cardinality(Successes') <= Cardinality(Successes)
      /\ Cardinality(Successes) \in Nat /\ Cardinality(Successes') \in Nat
      /\ Cardinality(heard) \in Nat
  BY <1>1, FS_Subset, FS_CardinalityType
<1>3. Due \in Int /\ Due' \in Int
  BY DEF Due, Count
<1> QED BY <1>2, <1>3 DEF Used

\* Nothing of a scan changes, unless it is refused.
LEMMA UsedQuiet ==
  ASSUME IInv, Used, Fresh,
         UNCHANGED <<heard, status, curr, in_progress, rxCb>>,
         Pending' => Pending, Successes' \subseteq Successes,
         Finishing' => Finishing
  PROVE  Used'
<1>1. Due' <= Due
  BY DEF Due, Count
<1> QED BY <1>1, UsedKept DEF Used

\* A thread other than the worker or the restart takes a step, or one of
\* these in another work.
LEMMA HwScanUsed ==
  ASSUME IInv, IInv', Used, Fresh, HwScan \/ HwScanStep
  PROVE  Used'
<1> USE DEF Go, fwVars, scanVars, histVars, lockVars
<1>1. /\ \A t \in Thread \ {"mac"} : pc'[t] = pc[t]
      /\ pc'["mac"] # "finish"
      /\ UNCHANGED <<heard, in_progress, rxCb>>
  BY DEF HwScan, HwScanStep, HwScanDown, HwScanConf, HwScanTemplate,
         HwScanRefused, HwScanQueue, IInv, Types, Places, Thread, bhVars
<1>2. Finishing' => Finishing
  BY <1>1 DEF Finishing
<1>3. CASE HwScanQueue
  <2>1. scans \in Scans /\ ~Pending
    BY <1>3 DEF HwScanQueue, IInv, LastPending, Types, ScanData, Scans
  <2>2. Successes' \subseteq Successes
    BY <1>3, <2>1 DEF HwScanQueue, Successes, IInv, Types, ScanData
  <2>3. status' = "zero" /\ curr' = "begin"
    BY <1>3 DEF HwScanQueue
  <2>4. ~Finishing
    BY <2>1, ScanFactsHold DEF ScanFacts, Reporting
  <2>5. Due' <= Due
    BY <1>1, <2>3 DEF Due, Count
  <2> QED BY <1>1, <1>2, <2>2, <2>4, <2>5, UsedKept
<1>4. CASE ~HwScanQueue
  <2>1. UNCHANGED <<status, curr>>
    BY <1>4 DEF HwScan, HwScanStep, HwScanDown, HwScanConf, HwScanTemplate,
                HwScanRefused
  <2>2. UNCHANGED report \/ report' = [report EXCEPT ![scans] = "refused"]
    BY <1>4 DEF HwScan, HwScanStep, HwScanDown, HwScanConf, HwScanTemplate,
                HwScanRefused
  <2>3. (Pending' => Pending) /\ Successes' \subseteq Successes
    BY <2>2 DEF Pending, Successes, IInv, Types, ScanData
  <2> QED BY <1>1, <1>2, <2>1, <2>3, UsedQuiet
<1> QED BY <1>3, <1>4

\* The success of a scan uses up the report that was due.
LEMMA ScanFinishUsed ==
  ASSUME IInv, IInv', Used, Fresh, NEW t \in {"wq", "bh"}, ScanFinish(t)
  PROVE  Used'
<1> USE DEF ScanFinish, Go, Return, fwVars, scanVars, lockVars
<1>1. /\ pc[t] = "finish" /\ t \in Thread
      /\ UNCHANGED <<heard, status, curr, in_progress, rxCb, scans>>
  BY DEF bhVars, Thread
<1>2. Pending /\ ~in_progress /\ Finishing /\ curr = "end"
  BY <1>1, ScanFactsHold DEF ScanFacts, Reporting, Finishing, Used
<1>3. report[scans] = "pending" /\ scans \in Scans
  BY <1>2 DEF IInv, LastPending, Pending
<1>4. ~Pending'
  BY <1>3 DEF Pending, IInv, Types, ScanData, LastPending
<1>5. IsFiniteSet(Successes) /\ scans \notin Successes
  <2>1. IsFiniteSet(Scans)
    BY FS_Interval, NumberAssumption DEF Scans
  <2> QED BY <1>3, <2>1, FS_Subset DEF Successes
<1>6. Cardinality(Successes) \in Nat
  BY <1>5, FS_CardinalityType
<1>7. IsFiniteSet(heard) /\ Cardinality(heard) \in Nat
  <2>1. IsFiniteSet(Scans)
    BY FS_Interval, NumberAssumption DEF Scans
  <2> QED BY <2>1, FS_Subset, FS_CardinalityType DEF Fresh
<1>8. CASE status = "zero"
  <2>1. Successes' = Successes \cup {scans}
    BY <1>3, <1>8 DEF Successes, IInv, Types, ScanData
  <2>2. Cardinality(Successes') = Cardinality(Successes) + 1
    BY <1>5, <2>1, FS_AddElement
  <2>3. Due' + 1 <= Due /\ Due \in Int /\ Due' \in Int
    BY <1>1, <1>2, <1>4, <1>8 DEF Due, Count
  <2>4. Cardinality(Successes) + Due <= Cardinality(heard)
    BY DEF Used
  <2>5. Cardinality(Successes') + Due' <= Cardinality(heard)
    <3>1. \A a, b \in Nat, d, e \in Int :
            a + d <= b /\ e + 1 <= d => a + 1 + e <= b
      OBVIOUS
    <3>2. Cardinality(Successes) + 1 + Due' <= Cardinality(heard)
      BY <1>6, <1>7, <2>3, <2>4, <3>1
    <3> QED BY <2>2, <3>2
  <2> QED BY <1>1, <1>2, <2>5 DEF Used
<1>9. CASE status # "zero"
  <2>1. Successes' = Successes
    BY <1>3, <1>9 DEF Successes, IInv, Types, ScanData
  <2>2. Due' <= Due
    BY <1>1, <1>4 DEF Due, Count
  <2> QED BY <1>1, <1>2, <2>1, <2>2, UsedKept
<1> QED BY <1>8, <1>9

\* The other steps of the work and of the timeout.
LEMMA ScanStepUsed ==
  ASSUME IInv, IInv', Used, Fresh, NEW t \in {"wq", "bh"}, ScanStep(t),
         ~ScanFinish(t)
  PROVE  Used'
<1> USE DEF Go, fwVars, scanVars, lockVars
<1>1. UNCHANGED <<heard, report, rxCb>>
  BY DEF ScanStep, ScanWork, ScanDone, ScanBegin, ScanOper, ScanSend,
         ScanStarted, ScanRejected, ScanFail, ScanTimeout, StopSend,
         StopConfirmed, StopFailed, bhVars, histVars
<1>2. (Pending' <=> Pending) /\ Successes' = Successes
  BY <1>1 DEF Pending, Successes
<1>3. t \in Thread /\ pc \in [Thread -> Place]
  BY DEF Thread, IInv, Types, Places
<1>4. curr' = "end" \/ curr' = curr
  BY DEF ScanStep, ScanWork, ScanDone, ScanBegin, ScanOper, ScanSend,
         ScanStarted, ScanRejected, ScanFail, ScanTimeout, StopSend,
         StopConfirmed, StopFailed
<1>5. Finishing' => curr' = "end"
  <2>1. CASE ScanDone(t)
    <3>1. pc[t] \in Reporting /\ Pending /\ ~Finishing
      BY <1>3, <2>1, ScanFactsHold
         DEF ScanDone, Reporting, ScanFacts
    <3>2. curr = "end"
      BY <2>1, <3>1 DEF ScanDone, IInv, Requested
    <3> QED BY <1>4, <3>2
  <2>2. CASE ~ScanDone(t)
    <3>1. Finishing' => Finishing
      BY <1>3, <2>2
         DEF Finishing, ScanStep, ScanWork, ScanBegin, ScanOper, ScanSend,
             ScanStarted, ScanRejected, ScanFail, ScanTimeout, StopSend,
             StopConfirmed, StopFailed, Return
    <3> QED BY <1>4, <3>1 DEF Used
  <2> QED BY <2>1, <2>2
<1>6. Due' <= Due
  <2>1. CASE ScanTimeout(t)
    BY <1>1, <1>2, <2>1 DEF ScanTimeout, Due, Count
  <2>2. CASE ScanBegin(t) \/ ScanFail(t)
    BY <1>1, <1>2, <2>2 DEF ScanBegin, ScanFail, Due, Count
  <2>3. CASE ScanStarted(t)
    <3>1. in_progress /\ in_progress' = in_progress /\ status' = status
      BY <1>3, <2>3, ScanFactsHold DEF ScanStarted, Starting, ScanFacts
    <3> QED BY <1>1, <1>2, <3>1 DEF Due, Count
  <2>4. CASE ~(ScanTimeout(t) \/ ScanBegin(t) \/ ScanFail(t) \/ ScanStarted(t))
    <3>1. UNCHANGED <<status, curr, in_progress>>
      BY <2>4 DEF ScanStep, ScanWork, ScanDone, ScanOper, ScanSend,
                  ScanRejected, StopSend, StopConfirmed, StopFailed
    <3> QED BY <1>1, <1>2, <3>1 DEF Due, Count
  <2> QED BY <2>1, <2>2, <2>3, <2>4
<1> QED BY <1>1, <1>2, <1>5, <1>6, UsedKept

\* A report is handled, and atbm_scan_complete_cb makes it one of the scan
\* that is pending, if there is one.
LEMMA RxScanCompleteUsed ==
  ASSUME IInv, IInv', Used, Fresh, RxScanComplete
  PROVE  Used'
<1>1. /\ UNCHANGED <<pc, report, status, curr, in_progress>>
      /\ rxCb = FALSE /\ rxCb' = TRUE /\ heard' = heard \cup {Head(rx).scan}
  BY DEF RxScanComplete, RxNext, scanVars, IInv, Types, ScanData
<1>2. Head(rx).scan \notin heard
  BY RxFresh
<1>3. IsFiniteSet(heard) /\ IsFiniteSet(Successes)
  <2>1. IsFiniteSet(Scans)
    BY FS_Interval, NumberAssumption DEF Scans
  <2> QED BY <2>1, FS_Subset DEF Successes, Fresh
<1>4. /\ Cardinality(heard') = Cardinality(heard) + 1
      /\ Cardinality(heard) \in Nat /\ Cardinality(Successes) \in Nat
  BY <1>1, <1>2, <1>3, FS_AddElement, FS_CardinalityType
<1>5. (Pending' <=> Pending) /\ Successes' = Successes
      /\ (Finishing' <=> Finishing)
  BY <1>1 DEF Pending, Successes, Finishing
<1>6. Due' = Due + 1 /\ Due \in Int
  BY <1>1, <1>5 DEF Due, Count
<1> QED BY <1>1, <1>4, <1>5, <1>6 DEF Used

LEMMA ScanCompleteCbUsed ==
  ASSUME IInv, IInv', Used, Fresh, ScanCompleteCb
  PROVE  Used'
<1>1. /\ UNCHANGED <<pc, report, curr, in_progress, heard>>
      /\ rxCb /\ rxCb' = FALSE /\ status' \in {status, "done"}
  BY DEF ScanCompleteCb, histVars
<1>2. (Pending' <=> Pending) /\ Successes' = Successes
      /\ (Finishing' <=> Finishing)
  BY <1>1 DEF Pending, Successes, Finishing
<1>3. Due' <= Due
  BY <1>1, <1>2 DEF Due, Count
<1> QED BY <1>1, <1>2, <1>3, UsedKept DEF Used

\* No other step touches the scan.
LEMMA OtherUsed ==
  ASSUME IInv, IInv', Used, Fresh,
         \/ WqTake \/ TimerExpires \/ CmdTimeout \/ FwStep \/ FwDies
         \/ OpBegin \/ \E t \in {"user", "bh"} : OpStep(t)
         \/ WaitScan("user", "idle", "wait_conf") \/ WaitConf \/ PmTimer
         \/ RxConfirm \/ RxPm \/ RestartStep \/ UNCHANGED vars
  PROVE  Used'
<1> USE DEF Go, OpLeave, fwVars, scanVars, histVars, lockVars, bhVars, vars
<1>1. UNCHANGED <<heard, report, status, curr, in_progress, rxCb>>
  BY DEF WqTake, TimerExpires, CmdTimeout, FwStep, FwCommand, FwScanComplete,
         FwPmIndication, FwDies, OpBegin, OpStep, OpOper, OpSend, OpStarted,
         OpPm, OpPmFails, OpCancel, WaitScan, WaitConf, PmTimer, RxConfirm,
         RxPm, RestartStep, RestartBegin, RestartRelease, FlushBegin,
         FlushEnd, DestroyPm, DestroyScan, RestartRemove, RestartUp
<1>2. (Pending' <=> Pending) /\ Successes' = Successes
  BY <1>1 DEF Pending, Successes
<1>3. Finishing' => Finishing
  <2>1. CASE WqTake
    <3>1. Head(wq) \in Item
      BY <2>1 DEF WqTake, IInv, Distinct, Once
    <3> QED BY <2>1, <3>1
            DEF WqTake, Finishing, Item, IInv, Types, Places, Thread
  <2>2. CASE OpBegin \/ (\E t \in {"user", "bh"} : OpStep(t))
             \/ WaitScan("user", "idle", "wait_conf") \/ WaitConf
    BY <2>2 DEF OpBegin, OpStep, OpOper, OpSend, OpStarted, OpPm, OpPmFails,
                OpCancel, WaitScan, WaitConf, Finishing, IInv, Types, Places,
                Thread
  <2>3. CASE RestartStep
    BY <2>3 DEF RestartStep, RestartBegin, RestartRelease, FlushBegin,
                DestroyPm, DestroyScan, WaitScan, RestartRemove, RestartUp,
                FlushEnd, Finishing, IInv, Types, Places, Barrier, Thread
  <2>4. CASE \/ TimerExpires \/ CmdTimeout \/ FwStep \/ FwDies \/ PmTimer
             \/ RxConfirm \/ RxPm \/ UNCHANGED vars
    BY <2>4 DEF TimerExpires, CmdTimeout, FwStep, FwCommand, FwScanComplete,
                FwPmIndication, FwDies, PmTimer, RxConfirm, RxPm, Finishing
  <2> QED BY <2>1, <2>2, <2>3, <2>4
<1> QED BY <1>1, <1>2, <1>3, UsedQuiet

\* Both hold when the driver starts and after every step.
LEMMA InitUsed ==
  ASSUME Init
  PROVE  Fresh /\ Used
<1>1. \A n \in Scans : report[n] = None
  BY DEF Init
<1>2. ~Pending /\ Successes = {} /\ ~Finishing
  BY <1>1 DEF Pending, Successes, Finishing, Init, None
<1>3. RxSeq /\ ReportedOnce /\ \A n : ~Completed(n)
  BY DEF Init, RxSeq, ReportedOnce, Completed
<1>4. \A n \in Scans : ~Known(n)
  BY <1>3 DEF Known, Init, Scans
<1>5. ~NotAsked
  BY <1>2 DEF NotAsked, Init, Thread
<1>6. Fresh
  BY <1>3, <1>4, <1>5, NumberAssumption DEF Fresh, Init, NoCmd, None
<1>7. Used
  BY <1>2, FS_EmptySet DEF Used, Due, Count, Init
<1> QED BY <1>6, <1>7

LEMMA NextUsed ==
  ASSUME IInv, Fresh, Used, [Next]_vars
  PROVE  Fresh' /\ Used'
<1>i. IInv'
  BY NextStep
<1>1. CASE HwScan \/ HwScanStep
  BY <1>i, <1>1, HwScanFresh, HwScanStepFresh, HwScanUsed
<1>2. ASSUME NEW t \in {"wq", "bh"}, ScanStep(t)
      PROVE  Fresh' /\ Used'
  BY <1>i, <1>2, ScanStepFresh, ScanFinishUsed, ScanStepUsed
<1>3. CASE \/ OpBegin \/ \E t \in {"user", "bh"} : OpStep(t)
           \/ WaitScan("user", "idle", "wait_conf") \/ WaitConf \/ PmTimer
  BY <1>i, <1>3, OpFresh, OtherUsed
<1>4. CASE WqTake \/ TimerExpires \/ CmdTimeout \/ FwDies \/ UNCHANGED vars
  BY <1>i, <1>4, WorkerFresh, OtherUsed
<1>5. CASE FwStep
  BY <1>i, <1>5, FwCommandFresh, FwIndicationFresh, OtherUsed DEF FwStep
<1>6. CASE RxStep
  BY <1>i, <1>6, RxFresh, WorkerFresh, OtherUsed, RxScanCompleteUsed,
     ScanCompleteCbUsed
     DEF RxStep
<1>7. CASE RestartStep
  BY <1>i, <1>7, RestartFresh, OtherUsed
<1> QED BY <1>1, <1>2, <1>3, <1>4, <1>5, <1>6, <1>7 DEF Next

\* However late the firmware reports and whether it dies: each report makes
\* at most one scan a success.
THEOREM OneReportEachCorrect == Spec => []OneReportEach
<1>1. Init => Fresh /\ Used
  BY InitUsed
<1>2. IInv /\ Fresh /\ Used /\ [Next]_vars => Fresh' /\ Used'
  BY NextUsed
<1>3. Fresh /\ Used => OneReportEach
  <2> SUFFICES ASSUME Fresh, Used
               PROVE  OneReportEach
    OBVIOUS
  <2>1. IsFiniteSet(heard) /\ IsFiniteSet(Successes)
    <3>1. IsFiniteSet(Scans)
      BY FS_Interval, NumberAssumption DEF Scans
    <3> QED BY <3>1, FS_Subset DEF Successes, Fresh
  <2>2. Cardinality(heard) \in Nat /\ Cardinality(Successes) \in Nat
    BY <2>1, FS_CardinalityType
  <2>3. Due \in Int /\ Due >= 0
    BY DEF Due, Count
  <2> QED BY <2>2, <2>3 DEF Used, Successes, OneReportEach
<1> QED BY <1>1, <1>2, <1>3, Invariance, PTL DEF Spec

\* A scan that is reported as a success used up a report of the firmware, and
\* where no report comes late it was the report of that scan.
THEOREM SuccessIsReportedCorrect ==
  ASSUME Alone
  PROVE  Spec => []SuccessIsReported
<1>1. LInv /\ OneReportEach => SuccessIsReported
  BY DEF LInv, HeardInTime, SuccessIsReported
<1> QED BY <1>1, OperInvariance, OneReportEachCorrect, PTL
=============================================================================
