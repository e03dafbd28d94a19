----------------------------- MODULE ScanProofs -----------------------------
(***************************************************************************)
(* Proofs about the life of a scan, for any number of scans and messages   *)
(* and whatever the firmware does.                                         *)
(*                                                                         *)
(* A scan in progress has one reporter (OneReporter): the queued work, the *)
(* timeout, or the thread that is in one of them.  When a restart takes    *)
(* the timeout away from the worker to end the scan itself, the worker     *)
(* might be starting the scan at the same time, and both would report it.  *)
(* Restarting says why it is not: the flush of the work queue before it    *)
(* saw the worker idle, and no scan can be started since.                  *)
(***************************************************************************)
EXTENDS Scan, FiniteSetTheorems, TLAPS

Item == {"work", "timeout", "barrier"}

MacPlace  == {"idle", "scan_lock", "conf", "template", "template_cnf"}
\* Inside atbm_scan_start, with the timeout queued.
Starting  == {"scan_oper", "scan_cmd", "scan_cnf", "scan_fail"}
\* In scan.work or scan.timeout.
Reporting == {"timeout", "stop", "stop_cnf", "work", "work_run", "finish"}
UserPlace == {"idle", "wait_conf", "oper", "op_cmd", "op_cnf", "op_cancel"}
BhPlace   == {"idle", "release", "flush1", "flush2", "flush3", "pm", "cancel",
              "wait", "remove", "bringup", "oper", "op_cmd", "op_cnf",
              "op_cancel"}
\* Places with conf_mutex held.
ConfPlace == {"template", "template_cnf", "work_run", "oper", "op_cmd",
              "op_cnf", "op_cancel"} \cup Starting

Places ==
  /\ pc \in [Thread -> Place]
  /\ pc["mac"] \in MacPlace
  /\ pc["wq"] \in {"idle"} \cup Starting \cup Reporting
  /\ pc["user"] \in UserPlace
  /\ pc["bh"] \in BhPlace \cup Reporting

LockData ==
  /\ tx_lock \in Int
  /\ conf_mutex \in Thread \cup {None}
  /\ cmd \in [id : CmdID \cup {None},
              state : {"sent", "taken", "ok", "err", None}]
  /\ op \in [Thread -> {"start", "pm"}] /\ op["bh"] = "start"
  /\ up \in BOOLEAN /\ flushed \in BOOLEAN

ScanData ==
  /\ req \in Nat /\ scans \in 0 .. MaxScans
  /\ status \in {"zero", "done", "failed", "timedout"}
  /\ curr \in {"begin", "end"}
  /\ in_progress \in BOOLEAN /\ timer \in BOOLEAN
  /\ report \in [Scans -> {None, "pending", "refused", "ok", "aborted"}]

Types == Places /\ LockData /\ ScanData

\* An item is queued once.
Once(s)  == s \in Seq(Item) /\ \A j, k \in DOMAIN s : s[j] = s[k] => j = k
Distinct == Once(wq)

ConfOwner == \A t \in Thread : conf_mutex = t <=> pc[t] \in ConfPlace

\* Only the last scan may be pending, and not while atbm_hw_scan begins one.
LastPending ==
  /\ \A n \in Scans : report[n] = "pending" => n = scans
  /\ pc["mac"] # "idle" => scans > 0 /\ ~Pending

\* scan.lock is free, or a thread is inside it, or a scan is pending.
ScanLockOwner ==
  \/ scan_lock = 1 /\ ScanLockHolders = {} /\ ~Pending
  \/ /\ scan_lock = 0 /\ ~Pending
     /\ \E t \in Thread : ScanLockHolders = {t}
  \/ scan_lock = 0 /\ ScanLockHolders = {} /\ Pending

Reporter(x) ==
  \/ x = "queue" /\ Queued("work")
  \/ x = "timeout" /\ TimeoutPending
  \/ x \in {"wq", "bh"} /\ pc[x] \in Reporting

\* A pending scan has one reporter; otherwise there is none.
OneReporter ==
  /\ (\E x \in {"queue", "timeout", "wq", "bh"} : Reporter(x)) <=> Pending
  /\ \A x, y \in {"queue", "timeout", "wq", "bh"} :
       Reporter(x) /\ Reporter(y) => x = y

\* The timer of scan.timeout or its work, not both.
OneTimeout == ~(timer /\ Queued("timeout"))

Finishing == \E t \in Thread : pc[t] = "finish"
Requested == req # 0 <=> Pending /\ ~Finishing
TxHeld ==
  tx_lock = Count(pc["bh"] # "idle") + Count(Pending /\ ~Finishing)

\* scan.in_progress lasts until scan.timeout runs; the scan is being started
\* as long as scan.curr has not moved.
Progress ==
  /\ in_progress <=> TimeoutPending \/ \E t \in {"wq", "bh"} : pc[t] = "timeout"
  /\ pc["wq"] \in Starting => TimeoutPending
  /\ in_progress /\ curr = "begin" => pc["wq"] \in Starting

\* The barrier of a flush.
Barrier ==
  /\ flushed \/ Queued("barrier") => pc["bh"] \in {"flush1", "flush2", "flush3"}
  /\ ~(flushed /\ Queued("barrier"))

Restarting ==
  /\ up => pc["bh"] \in {"idle", "oper", "op_cmd", "op_cnf", "op_cancel"}
  /\ pc["bh"] \in {"flush2", "cancel"} \cup Reporting =>
       /\ curr = "begin" => pc["wq"] \in Starting
       /\ pc["mac"] = "template_cnf" => cmd.state = "err"
  /\ \/ pc["bh"] = "flush2" /\ flushed
     \/ pc["bh"] \in {"cancel"} \cup Reporting
     => pc["wq"] \notin Starting

IInv ==
  /\ Types /\ Distinct /\ ConfOwner /\ LastPending /\ ScanLockOwner
  /\ OneReporter /\ OneTimeout /\ Requested /\ TxHeld /\ Progress /\ Barrier
  /\ Restarting

-----------------------------------------------------------------------------
(* The queue of the worker.                                                *)

Has(s, x) == \E k \in DOMAIN s : s[k] = x

\* A queue without an item has all others, once.
LEMMA WithoutFacts ==
  ASSUME NEW s, Once(s), NEW w, NEW r, r = Without(s, w)
  PROVE  Once(r) /\ \A x : Has(r, x) <=> x # w /\ Has(s, x)
<1>1. /\ Len(s) \in Nat /\ DOMAIN s = 1 .. Len(s)
      /\ \A k \in 1 .. Len(s) : s[k] \in Item
  BY DEF Once
<1>2. CASE ~Has(s, w)
  <2>1. r = s
    BY <1>2 DEF Without, Has
  <2> QED BY <1>2, <2>1
<1>3. CASE Has(s, w)
  <2> DEFINE n == CHOOSE k \in DOMAIN s : s[k] = w
  <2>1. n \in 1 .. Len(s) /\ s[n] = w
    BY <1>1, <1>3 DEF Has
  <2> DEFINE old(j) == IF j < n THEN j ELSE j + 1
  <2>2. r = [j \in 1 .. Len(s) - 1 |-> s[old(j)]]
    BY <1>3 DEF Without, Has
  <2> HIDE DEF n
  <2>3. \A j \in 1 .. Len(s) - 1 :
           old(j) \in 1 .. Len(s) /\ old(j) # n /\ r[j] = s[old(j)]
    BY <1>1, <2>1, <2>2
  <2>4. r \in Seq(Item) /\ DOMAIN r = 1 .. Len(s) - 1
    BY <1>1, <2>2, <2>3
  <2>5. ASSUME NEW j \in DOMAIN r, NEW k \in DOMAIN r, r[j] = r[k]
        PROVE  j = k
    <3>1. old(j) = old(k)
      <4> HIDE DEF old
      <4> QED BY <1>1, <2>3, <2>4, <2>5 DEF Once
    <3> QED BY <1>1, <2>1, <2>4, <3>1
  <2>6. ASSUME NEW x, Has(r, x)
        PROVE  x # w /\ Has(s, x)
    BY <1>1, <2>1, <2>3, <2>4, <2>6 DEF Has, Once
  <2>7. ASSUME NEW x, x # w, Has(s, x)
        PROVE  Has(r, x)
    <3>1. PICK k \in 1 .. Len(s) : s[k] = x
      BY <1>1, <2>7 DEF Has
    <3>2. CASE k < n
      <4>1. k \in DOMAIN r /\ r[k] = x
        BY <1>1, <2>1, <2>3, <2>4, <3>1, <3>2
      <4> QED BY <4>1 DEF Has
    <3>3. CASE k > n
      <4>1. k - 1 \in DOMAIN r /\ r[k - 1] = x
        BY <1>1, <2>1, <2>3, <2>4, <3>1, <3>3
      <4> QED BY <4>1 DEF Has
    <3>4. k # n
      BY <2>1, <2>7, <3>1
    <3> QED BY <1>1, <2>1, <3>1, <3>2, <3>3, <3>4
  <2> QED BY <2>4, <2>5, <2>6, <2>7 DEF Once
<1> QED BY <1>2, <1>3

\* What is appended is queued once more.
LEMMA AppendFacts ==
  ASSUME NEW s, Once(s), NEW w \in Item, ~Has(s, w), NEW r, r = Append(s, w)
  PROVE  Once(r) /\ \A x : Has(r, x) <=> x = w \/ Has(s, x)
<1>1. /\ Len(s) \in Nat /\ DOMAIN s = 1 .. Len(s)
      /\ r \in Seq(Item) /\ DOMAIN r = 1 .. Len(s) + 1
      /\ \A k \in 1 .. Len(s) : r[k] = s[k]
      /\ r[Len(s) + 1] = w
  BY DEF Once
<1>2. Once(r)
  BY <1>1 DEF Once, Has
<1>3. ASSUME NEW x
      PROVE  Has(r, x) <=> x = w \/ Has(s, x)
  BY <1>1 DEF Has
<1> QED BY <1>2, <1>3

LEMMA TheQueue ==
  /\ Once(wq) <=> Distinct
  /\ Once(wq)' <=> Distinct'
  /\ \A x : Has(wq, x) <=> Queued(x)
  /\ \A x : Has(wq, x)' <=> Queued(x)'
BY DEF Distinct, Has, Queued

\* queue_work adds an item that is not queued.
LEMMA QueueWorkFacts ==
  ASSUME Distinct, NEW w \in Item, QueueWork(w)
  PROVE  /\ Distinct'
         /\ \A x : Queued(x)' <=> Queued(x) \/ x = w
<1>1. CASE Queued(w)
  BY <1>1 DEF QueueWork, Queued, Distinct, Once
<1>2. CASE ~Queued(w)
  <2>1. wq' = Append(wq, w)
    BY <1>2 DEF QueueWork
  <2> QED BY <1>2, <2>1, AppendFacts, TheQueue
<1> QED BY <1>1, <1>2

\* cancel_delayed_work takes an item away.
LEMMA CancelFacts ==
  ASSUME Distinct, NEW w, wq' = Without(wq, w)
  PROVE  /\ Distinct'
         /\ \A x : Queued(x)' <=> Queued(x) /\ x # w
BY WithoutFacts, TheQueue

\* An item is taken away and queued again.
LEMMA RequeueFacts ==
  ASSUME Distinct, NEW w \in Item,
         wq' = Append(Without(wq, w), w)
  PROVE  /\ Distinct'
         /\ \A x : Queued(x)' <=> Queued(x) \/ x = w
<1>1. PICK r : r = Without(wq, w)
  OBVIOUS
<1>2. Once(r) /\ \A x : Has(r, x) <=> x # w /\ Has(wq, x)
  BY <1>1, WithoutFacts, TheQueue
<1>3. Once(wq') /\ \A x : Has(wq', x) <=> x = w \/ Has(r, x)
  BY <1>1, <1>2, AppendFacts
<1> QED BY <1>2, <1>3, TheQueue

\* A failed start takes the timeout away and queues the work.
LEMMA FailFacts ==
  ASSUME Distinct,
         wq' = Append(Without(Without(wq, "timeout"), "work"), "work")
  PROVE  /\ Distinct'
         /\ \A x : Queued(x)' <=> (Queued(x) /\ x # "timeout") \/ x = "work"
<1>1. PICK r : r = Without(wq, "timeout")
  OBVIOUS
<1>2. PICK q : q = Without(r, "work")
  OBVIOUS
<1>3. Once(r) /\ \A x : Has(r, x) <=> x # "timeout" /\ Has(wq, x)
  BY <1>1, WithoutFacts, TheQueue
<1>4. Once(q) /\ \A x : Has(q, x) <=> x # "work" /\ Has(r, x)
  BY <1>2, <1>3, WithoutFacts
<1>5. wq' = Append(q, "work") /\ "work" \in Item
  BY <1>1, <1>2 DEF Item
<1>6. Once(wq') /\ \A x : Has(wq', x) <=> x = "work" \/ Has(q, x)
  BY <1>4, <1>5, AppendFacts
<1> QED BY <1>3, <1>4, <1>6, TheQueue

\* What the worker takes is not queued any more.
LEMMA TakeFacts ==
  ASSUME Distinct, wq # <<>>, wq' = Tail(wq)
  PROVE  /\ Distinct' /\ Head(wq) \in Item
         /\ Queued(Head(wq))
         /\ \A x : Queued(x)' <=> Queued(x) /\ x # Head(wq)
<1>1. /\ Len(wq) \in Nat /\ Len(wq) >= 1 /\ DOMAIN wq = 1 .. Len(wq)
      /\ wq' \in Seq(Item) /\ DOMAIN wq' = 1 .. Len(wq) - 1
      /\ Head(wq) = wq[1] /\ wq[1] \in Item
      /\ \A k \in 1 .. Len(wq) - 1 : wq'[k] = wq[k + 1]
  BY DEF Distinct, Once
<1>2. Distinct'
  BY <1>1 DEF Distinct, Once
<1>3. Queued(Head(wq))
  BY <1>1 DEF Queued
<1>4. ASSUME NEW x, Queued(x)'
      PROVE  Queued(x) /\ x # Head(wq)
  BY <1>1, <1>4 DEF Queued, Distinct, Once
<1>5. ASSUME NEW x, Queued(x), x # Head(wq)
      PROVE  Queued(x)'
  <2>1. PICK k \in 1 .. Len(wq) : wq[k] = x
    BY <1>1, <1>5 DEF Queued
  <2>2. k - 1 \in 1 .. Len(wq) - 1 /\ wq'[k - 1] = x
    BY <1>1, <1>5, <2>1
  <2> QED BY <1>1, <2>2 DEF Queued
<1> QED BY <1>1, <1>2, <1>3, <1>4, <1>5
-----------------------------------------------------------------------------
(* Each step preserves IInv.                                              *)

LEMMA HwScanBegins ==
  ASSUME IInv, HwScan
  PROVE  IInv'
<1> USE DEF IInv, Types, Places, LockData, ScanData, HwScan, Go, scanVars,
           bhVars, pmVars
<1>q. Distinct' /\ \A x : Queued(x)' <=> Queued(x)
  BY DEF Distinct, Queued
<1>p. Pending' <=> Pending
  BY DEF Pending
<1>t. Places'
  BY DEF Place, Thread, MacPlace, BhPlace, UserPlace, Starting, Reporting
<1>l. LockData'
  BY DEF Thread, CmdID, NoCmd, None
<1>d. ScanData'
  BY NumberAssumption DEF None
<1>1. Types'
  BY <1>t, <1>l, <1>d DEF Types
<1>2. ConfOwner'
  BY DEF ConfOwner, Thread, Place, ConfPlace, Starting, None, MacPlace,
         BhPlace, UserPlace
<1>3. LastPending'
  BY <1>p DEF LastPending, Thread, Pending, Scans
<1>4. ScanLockOwner'
  BY <1>p DEF ScanLockOwner, ScanLockHolders, Thread, Starting, Reporting,
         LastPending
<1>5. OneReporter' /\ OneTimeout'
  BY <1>q, <1>p DEF OneReporter, OneTimeout, Reporter, TimeoutPending, Thread,
         Reporting, Starting, MacPlace, Progress
<1>6. Requested' /\ TxHeld'
  BY <1>p DEF Requested, TxHeld, Finishing, Count, Thread, OneReporter,
         Reporter, Reporting, MacPlace, Scans
<1>7. Progress' /\ Barrier'
  BY <1>q, <1>p DEF Progress, Barrier, TimeoutPending, OneReporter, OneTimeout,
         Reporter, Thread, Starting, Reporting
<1>8. Restarting'
  BY <1>q, <1>p DEF Restarting, LastPending, ConfOwner, ConfPlace, OneReporter,
         Reporter, Progress, Thread, Starting, Reporting, NoCmd, None
<1> QED BY <1>q, <1>1, <1>2, <1>3, <1>4, <1>5, <1>6, <1>7, <1>8

LEMMA HwScanLocksStep ==
  ASSUME IInv, HwScanDown \/ HwScanConf \/ HwScanTemplate
  PROVE  IInv'
<1> USE DEF IInv, Types, Places, LockData, ScanData, HwScanDown, HwScanConf,
           HwScanTemplate, Send, Go, lockVars, scanVars, bhVars, histVars,
           pmVars
<1>q. Distinct' /\ \A x : Queued(x)' <=> Queued(x)
  BY DEF Distinct, Queued
<1>p. Pending' <=> Pending
  BY DEF Pending
<1>t. Places'
  BY DEF Place, Thread, MacPlace, BhPlace, UserPlace, Starting, Reporting
<1>l. LockData'
  BY DEF Thread, CmdID, NoCmd, None
<1>d. ScanData'
  BY NumberAssumption DEF None
<1>1. Types'
  BY <1>t, <1>l, <1>d DEF Types
<1>2. ConfOwner'
  BY DEF ConfOwner, Thread, Place, ConfPlace, Starting, None, MacPlace,
         BhPlace, UserPlace
<1>3. LastPending'
  BY <1>p DEF LastPending, Thread, Pending, Scans
<1>4. ScanLockOwner'
  BY <1>p DEF ScanLockOwner, ScanLockHolders, Thread, Starting, Reporting,
         LastPending
<1>5. OneReporter' /\ OneTimeout'
  BY <1>q, <1>p DEF OneReporter, OneTimeout, Reporter, TimeoutPending, Thread,
         Reporting, Starting, MacPlace, Progress
<1>6. Requested' /\ TxHeld'
  BY <1>p DEF Requested, TxHeld, Finishing, Count, Thread, OneReporter,
         Reporter, Reporting, MacPlace, Scans
<1>7. Progress' /\ Barrier'
  BY <1>q, <1>p DEF Progress, Barrier, TimeoutPending, OneReporter, OneTimeout,
         Reporter, Thread, Starting, Reporting
<1>8. Restarting'
  BY <1>q, <1>p DEF Restarting, LastPending, ConfOwner, ConfPlace, OneReporter,
         Reporter, Progress, Thread, Starting, Reporting, NoCmd, None
<1> QED BY <1>q, <1>1, <1>2, <1>3, <1>4, <1>5, <1>6, <1>7, <1>8

LEMMA HwScanRefusedStep ==
  ASSUME IInv, HwScanRefused
  PROVE  IInv'
<1> USE DEF IInv, Types, Places, LockData, ScanData, HwScanRefused, Returned,
           Go, scanVars, bhVars, pmVars
<1>q. Distinct' /\ \A x : Queued(x)' <=> Queued(x)
  BY DEF Distinct, Queued
<1>p. Pending' <=> Pending
  BY DEF LastPending, Pending, Scans
<1>t. Places'
  BY DEF Place, Thread, MacPlace, BhPlace, UserPlace, Starting, Reporting
<1>l. LockData'
  BY DEF Thread, CmdID, NoCmd, None
<1>d. ScanData'
  BY NumberAssumption DEF None
<1>1. Types'
  BY <1>t, <1>l, <1>d DEF Types
<1>2. ConfOwner'
  BY DEF ConfOwner, Thread, Place, ConfPlace, Starting, None, MacPlace,
         BhPlace, UserPlace
<1>3. LastPending'
  BY <1>p DEF LastPending, Thread, Pending, Scans
<1>4. ScanLockOwner'
  BY <1>p DEF ScanLockOwner, ScanLockHolders, Thread, Starting, Reporting,
         LastPending
<1>5. OneReporter' /\ OneTimeout'
  BY <1>q, <1>p DEF OneReporter, OneTimeout, Reporter, TimeoutPending, Thread,
         Reporting, Starting, MacPlace, Progress
<1>6. Requested' /\ TxHeld'
  BY <1>p DEF Requested, TxHeld, Finishing, Count, Thread, OneReporter,
         Reporter, Reporting, MacPlace, Scans
<1>7. Progress' /\ Barrier'
  BY <1>q, <1>p DEF Progress, Barrier, TimeoutPending, OneReporter, OneTimeout,
         Reporter, Thread, Starting, Reporting
<1>8. Restarting'
  BY <1>q, <1>p DEF Restarting, LastPending, ConfOwner, ConfPlace, OneReporter,
         Reporter, Progress, Thread, Starting, Reporting, NoCmd, None
<1> QED BY <1>q, <1>1, <1>2, <1>3, <1>4, <1>5, <1>6, <1>7, <1>8

\* A scan becomes pending, and the queued work its reporter.
LEMMA HwScanQueueStep ==
  ASSUME IInv, HwScanQueue
  PROVE  IInv'
<1> USE DEF IInv, Types, Places, LockData, ScanData, HwScanQueue, Returned, Go,
           bhVars, pmVars
<1>a. ~Finishing
  BY DEF LastPending, OneReporter, Reporter, Reporting, Finishing, MacPlace,
         UserPlace, Thread
<1>q. Distinct'
      /\ \A x : Queued(x)' <=> Queued(x) \/ x = "work"
  BY QueueWorkFacts DEF Item
<1>p. Pending' /\ ~Pending /\ scans \in Scans
  BY NumberAssumption DEF LastPending, Pending, Scans
<1>t. Places'
  BY DEF Place, Thread, MacPlace, BhPlace, UserPlace, Starting, Reporting
<1>l. LockData'
  BY DEF Thread, CmdID, NoCmd, None
<1>d. ScanData'
  <2>1. /\ req' = scans /\ status' = "zero" /\ curr' = "begin"
        /\ UNCHANGED <<in_progress, timer, scans>>
        /\ report' = [report EXCEPT ![scans] = "pending"]
    OBVIOUS
  <2>2. req' \in Nat
    BY <2>1, NumberAssumption
  <2>3. report' \in [Scans -> {None, "pending", "refused", "ok", "aborted"}]
    BY <2>1
  <2> QED BY <2>1, <2>2, <2>3
<1>1. Types'
  BY <1>t, <1>l, <1>d DEF Types
<1>2. ConfOwner'
  BY DEF ConfOwner, Thread, Place, ConfPlace, Starting, None, MacPlace,
         BhPlace, UserPlace
<1>3. LastPending'
  BY <1>p DEF LastPending, Thread, Pending, Scans
<1>4. ScanLockOwner'
  BY <1>p DEF ScanLockOwner, ScanLockHolders, Thread, Starting, Reporting,
         LastPending
<1>5. OneReporter' /\ OneTimeout'
  BY <1>q, <1>p DEF OneReporter, OneTimeout, Reporter, TimeoutPending, Thread,
         Reporting, Starting, MacPlace, Progress
<1>6. Requested' /\ TxHeld'
  BY <1>p, <1>a DEF Requested, TxHeld, Finishing, Count, Thread, OneReporter,
         Reporter, Reporting, MacPlace, Scans
<1>7. Progress' /\ Barrier'
  BY <1>q, <1>p DEF Progress, Barrier, TimeoutPending, OneReporter, OneTimeout,
         Reporter, Thread, Starting, Reporting
<1>8. Restarting'
  BY <1>q, <1>p DEF Restarting, LastPending, ConfOwner, ConfPlace, OneReporter,
         Reporter, Progress, Thread, Starting, Reporting, NoCmd, None
<1> QED BY <1>q, <1>1, <1>2, <1>3, <1>4, <1>5, <1>6, <1>7, <1>8

\* The worker is idle, with no scan being started.
LEMMA WqBarrierStep ==
  ASSUME IInv, WqTake, Head(wq) = "barrier"
  PROVE  IInv'
<1> USE DEF IInv, Types, Places, LockData, ScanData, lockVars, scanVars
<1>a. /\ pc["wq"] = "idle"
      /\ flushed' = TRUE /\ UNCHANGED pc
      /\ UNCHANGED <<lockVars, cmd, scanVars, op, up, report, scans>>
  BY DEF WqTake, Go, histVars
<1>q. /\ Distinct' /\ Queued("barrier")
      /\ \A x : Queued(x)' <=> Queued(x) /\ x # "barrier"
  BY TakeFacts DEF WqTake
<1>p. Pending' <=> Pending
  BY <1>a DEF Pending
<1>t. Places'
  BY <1>a DEF Place, Thread, MacPlace, BhPlace, UserPlace, Starting, Reporting
<1>l. LockData'
  BY <1>a DEF Thread, CmdID, NoCmd, None
<1>d. ScanData'
  BY <1>a, NumberAssumption DEF None
<1>1. Types'
  BY <1>t, <1>l, <1>d DEF Types
<1>2. ConfOwner'
  BY <1>a DEF ConfOwner, Thread, Place, ConfPlace, Starting, None, MacPlace,
         BhPlace, UserPlace
<1>3. LastPending'
  BY <1>a, <1>p DEF LastPending, Thread, Pending, Scans
<1>4. ScanLockOwner'
  BY <1>a, <1>p DEF ScanLockOwner, ScanLockHolders, Thread, Starting,
         Reporting, LastPending
<1>5. OneReporter' /\ OneTimeout'
  BY <1>a, <1>q, <1>p DEF OneReporter, OneTimeout, Reporter, TimeoutPending,
         Thread, Reporting, Starting, MacPlace, Progress
<1>6. Requested' /\ TxHeld'
  BY <1>a, <1>p DEF Requested, TxHeld, Finishing, Count, Thread, OneReporter,
         Reporter, Reporting, MacPlace, Scans
<1>7. Progress' /\ Barrier'
  BY <1>a, <1>q, <1>p DEF Progress, Barrier, TimeoutPending, OneReporter,
         OneTimeout, Reporter, Thread, Starting, Reporting
<1>8. Restarting'
  BY <1>a, <1>q, <1>p DEF Restarting, LastPending, ConfOwner, ConfPlace,
         OneReporter, Reporter, Progress, Thread, Starting, Reporting, NoCmd,
         None
<1> QED BY <1>q, <1>1, <1>2, <1>3, <1>4, <1>5, <1>6, <1>7, <1>8

\* The worker is the reporter now.
LEMMA WqItemStep ==
  ASSUME IInv, WqTake, NEW w \in {"work", "timeout"}, Head(wq) = w
  PROVE  IInv'
<1> USE DEF IInv, Types, Places, LockData, ScanData, lockVars, scanVars
<1>a. /\ pc["wq"] = "idle"
      /\ pc' = [pc EXCEPT !["wq"] = w] /\ UNCHANGED flushed
      /\ UNCHANGED <<lockVars, cmd, scanVars, op, up, report, scans>>
  BY DEF WqTake, Go, histVars
<1>q. /\ Distinct' /\ Queued(w)
      /\ \A x : Queued(x)' <=> Queued(x) /\ x # w
  BY TakeFacts DEF WqTake
<1>p. Pending' <=> Pending
  BY <1>a DEF Pending
<1>t. Places'
  BY <1>a DEF Place, Thread, MacPlace, BhPlace, UserPlace, Starting, Reporting
<1>l. LockData'
  BY <1>a DEF Thread, CmdID, NoCmd, None
<1>d. ScanData'
  BY <1>a, NumberAssumption DEF None
<1>1. Types'
  BY <1>t, <1>l, <1>d DEF Types
<1>2. ConfOwner'
  BY <1>a DEF ConfOwner, Thread, Place, ConfPlace, Starting, None, MacPlace,
         BhPlace, UserPlace
<1>3. LastPending'
  BY <1>a, <1>p DEF LastPending, Thread, Pending, Scans
<1>4. ScanLockOwner'
  BY <1>a, <1>p DEF ScanLockOwner, ScanLockHolders, Thread, Starting,
         Reporting, LastPending
<1>5. OneReporter' /\ OneTimeout'
  BY <1>a, <1>q, <1>p DEF OneReporter, OneTimeout, Reporter, TimeoutPending,
         Thread, Reporting, Starting, MacPlace, Progress
<1>6. Requested' /\ TxHeld'
  BY <1>a, <1>p DEF Requested, TxHeld, Finishing, Count, Thread, OneReporter,
         Reporter, Reporting, MacPlace, Scans
<1>7. Progress' /\ Barrier'
  BY <1>a, <1>q, <1>p DEF Progress, Barrier, TimeoutPending, OneReporter,
         OneTimeout, Reporter, Thread, Starting, Reporting
<1>8. Restarting'
  BY <1>a, <1>q, <1>p DEF Restarting, LastPending, ConfOwner, ConfPlace,
         OneReporter, Reporter, Progress, Thread, Starting, Reporting, NoCmd,
         None
<1> QED BY <1>q, <1>1, <1>2, <1>3, <1>4, <1>5, <1>6, <1>7, <1>8

\* The timeout moves from its timer to the queue.
LEMMA TimerExpiresStep ==
  ASSUME IInv, TimerExpires
  PROVE  IInv'
<1> USE DEF IInv, Types, Places, LockData, ScanData, TimerExpires, lockVars,
           bhVars, histVars, pmVars
<1>q. Distinct'
      /\ \A x : Queued(x)' <=> Queued(x) \/ x = "timeout"
  BY QueueWorkFacts DEF Item
<1>p. Pending' <=> Pending
  BY DEF Pending
<1>t. Places'
  BY DEF Place, Thread, MacPlace, BhPlace, UserPlace, Starting, Reporting
<1>l. LockData'
  BY DEF Thread, CmdID, NoCmd, None
<1>d. ScanData'
  BY NumberAssumption DEF None
<1>1. Types'
  BY <1>t, <1>l, <1>d DEF Types
<1>2. ConfOwner'
  BY DEF ConfOwner, Thread, Place, ConfPlace, Starting, None, MacPlace,
         BhPlace, UserPlace
<1>3. LastPending'
  <2>1. UNCHANGED <<report, scans>> /\ pc'["mac"] = pc["mac"]
    BY DEF Thread
  <2> QED BY <1>p, <2>1 DEF LastPending
<1>4. ScanLockOwner'
  BY <1>p DEF ScanLockOwner, ScanLockHolders, Thread, Starting, Reporting,
         LastPending
<1>5. OneReporter' /\ OneTimeout'
  BY <1>q, <1>p DEF OneReporter, OneTimeout, Reporter, TimeoutPending, Thread,
         Reporting, Starting, MacPlace, Progress
<1>6. Requested' /\ TxHeld'
  BY <1>p DEF Requested, TxHeld, Finishing, Count, Thread, OneReporter,
         Reporter, Reporting, MacPlace, Scans
<1>7. Progress' /\ Barrier'
  BY <1>q, <1>p DEF Progress, Barrier, TimeoutPending, OneReporter, OneTimeout,
         Reporter, Thread, Starting, Reporting
<1>8. Restarting'
  BY <1>q, <1>p DEF Restarting, LastPending, ConfOwner, ConfPlace, OneReporter,
         Reporter, Progress, Thread, Starting, Reporting, NoCmd, None
<1> QED BY <1>q, <1>1, <1>2, <1>3, <1>4, <1>5, <1>6, <1>7, <1>8

\* The firmware and the receive path touch no part of the invariant but cmd.
LEMMA QuietStep ==
  ASSUME IInv, \/ CmdTimeout \/ FwStep \/ FwDies \/ PmTimer
                \/ RxConfirm \/ RxScanComplete \/ RxPm
  PROVE  IInv'
<1> USE DEF IInv, Types, Places, LockData, ScanData, scanVars
<1>a. /\ UNCHANGED <<pc, scan_lock, conf_mutex, tx_lock, scanVars, wq, op,
                     flushed, report, scans>>
      /\ cmd' \in [id : CmdID \cup {None},
                  state : {"sent", "taken", "ok", "err", None}]
      /\ cmd.state = "err" => cmd'.state = "err"
      /\ up' = up \/ up' = FALSE
  <2>1. CASE CmdTimeout
    BY <2>1 DEF CmdTimeout, lockVars, histVars
  <2>2. CASE FwCommand
    BY <2>2 DEF FwCommand, lockVars, bhVars, histVars
  <2>3. CASE RxConfirm
    BY <2>3 DEF RxConfirm, lockVars, bhVars
  <2>4. CASE \/ FwScanComplete \/ FwPmIndication \/ FwDies \/ PmTimer
             \/ RxScanComplete \/ RxPm
    BY <2>4 DEF FwScanComplete, FwPmIndication, FwDies, PmTimer,
                RxScanComplete, RxPm, lockVars, bhVars, histVars
  <2> QED BY <2>1, <2>2, <2>3, <2>4 DEF FwStep
<1>q. Distinct' /\ \A x : Queued(x)' <=> Queued(x)
  BY <1>a DEF Distinct, Queued
<1>p. Pending' <=> Pending
  BY <1>a DEF Pending
<1>t. Places'
  BY <1>a DEF Place, Thread, MacPlace, BhPlace, UserPlace, Starting, Reporting
<1>l. LockData'
  BY <1>a DEF Thread, CmdID, NoCmd, None
<1>d. ScanData'
  BY <1>a, NumberAssumption DEF None
<1>1. Types'
  BY <1>t, <1>l, <1>d DEF Types
<1>2. ConfOwner'
  BY <1>a DEF ConfOwner, Thread, Place, ConfPlace, Starting, None, MacPlace,
         BhPlace, UserPlace
<1>3. LastPending'
  BY <1>a, <1>p DEF LastPending, Thread, Pending, Scans
<1>4. ScanLockOwner'
  BY <1>a, <1>p DEF ScanLockOwner, ScanLockHolders, Thread, Starting,
         Reporting, LastPending
<1>5. OneReporter' /\ OneTimeout'
  BY <1>a, <1>q, <1>p DEF OneReporter, OneTimeout, Reporter, TimeoutPending,
         Thread, Reporting, Starting, MacPlace, Progress
<1>6. Requested' /\ TxHeld'
  BY <1>a, <1>p DEF Requested, TxHeld, Finishing, Count, Thread, OneReporter,
         Reporter, Reporting, MacPlace, Scans
<1>7. Progress' /\ Barrier'
  BY <1>a, <1>q, <1>p DEF Progress, Barrier, TimeoutPending, OneReporter,
         OneTimeout, Reporter, Thread, Starting, Reporting
<1>8. Restarting'
  BY <1>a, <1>q, <1>p DEF Restarting, LastPending, ConfOwner, ConfPlace,
         OneReporter, Reporter, Progress, Thread, Starting, Reporting, NoCmd,
         None
<1> QED BY <1>q, <1>1, <1>2, <1>3, <1>4, <1>5, <1>6, <1>7, <1>8

\* The report of the firmware queues the timeout at once.
LEMMA ReportInTimeStep ==
  ASSUME IInv, ScanCompleteCb, status # "timedout" /\ TimeoutPending
  PROVE  IInv'
<1> USE DEF IInv, Types, Places, LockData, ScanData, lockVars
<1>a. /\ status' = "done" /\ timer' = FALSE
      /\ wq' = Append(Without(wq, "timeout"), "timeout")
      /\ UNCHANGED <<pc, lockVars, cmd, req, curr, in_progress, op, up, flushed,
                     report, scans>>
  BY DEF ScanCompleteCb, histVars
<1>q. Distinct'
      /\ \A x : Queued(x)' <=> Queued(x) \/ x = "timeout"
  BY <1>a, RequeueFacts DEF Item
<1>p. Pending' <=> Pending
  BY <1>a DEF Pending
<1>t. Places'
  BY <1>a DEF Place, Thread, MacPlace, BhPlace, UserPlace, Starting, Reporting
<1>l. LockData'
  BY <1>a DEF Thread, CmdID, NoCmd, None
<1>d. ScanData'
  BY <1>a, NumberAssumption DEF None
<1>1. Types'
  BY <1>t, <1>l, <1>d DEF Types
<1>2. ConfOwner'
  BY <1>a DEF ConfOwner, Thread, Place, ConfPlace, Starting, None, MacPlace,
         BhPlace, UserPlace
<1>3. LastPending'
  BY <1>a, <1>p DEF LastPending, Thread, Pending, Scans
<1>4. ScanLockOwner'
  BY <1>a, <1>p DEF ScanLockOwner, ScanLockHolders, Thread, Starting,
         Reporting, LastPending
<1>5. OneReporter' /\ OneTimeout'
  BY <1>a, <1>q, <1>p DEF OneReporter, OneTimeout, Reporter, TimeoutPending,
         Thread, Reporting, Starting, MacPlace, Progress
<1>6. Requested' /\ TxHeld'
  BY <1>a, <1>p DEF Requested, TxHeld, Finishing, Count, Thread, OneReporter,
         Reporter, Reporting, MacPlace, Scans
<1>7. Progress' /\ Barrier'
  BY <1>a, <1>q, <1>p DEF Progress, Barrier, TimeoutPending, OneReporter,
         OneTimeout, Reporter, Thread, Starting, Reporting
<1>8. Restarting'
  BY <1>a, <1>q, <1>p DEF Restarting, LastPending, ConfOwner, ConfPlace,
         OneReporter, Reporter, Progress, Thread, Starting, Reporting, NoCmd,
         None
<1> QED BY <1>q, <1>1, <1>2, <1>3, <1>4, <1>5, <1>6, <1>7, <1>8

LEMMA ReportIgnoredStep ==
  ASSUME IInv, ScanCompleteCb, ~(status # "timedout" /\ TimeoutPending)
  PROVE  IInv'
<1> USE DEF IInv, Types, Places, LockData, ScanData, lockVars
<1>a. /\ UNCHANGED <<status, timer, wq>>
      /\ UNCHANGED <<pc, lockVars, cmd, req, curr, in_progress, op, up, flushed,
                     report, scans>>
  BY DEF ScanCompleteCb, histVars
<1>q. Distinct' /\ \A x : Queued(x)' <=> Queued(x)
  BY <1>a DEF Distinct, Queued
<1>p. Pending' <=> Pending
  BY <1>a DEF Pending
<1>t. Places'
  BY <1>a DEF Place, Thread, MacPlace, BhPlace, UserPlace, Starting, Reporting
<1>l. LockData'
  BY <1>a DEF Thread, CmdID, NoCmd, None
<1>d. ScanData'
  BY <1>a, NumberAssumption DEF None
<1>1. Types'
  BY <1>t, <1>l, <1>d DEF Types
<1>2. ConfOwner'
  BY <1>a DEF ConfOwner, Thread, Place, ConfPlace, Starting, None, MacPlace,
         BhPlace, UserPlace
<1>3. LastPending'
  BY <1>a, <1>p DEF LastPending, Thread, Pending, Scans
<1>4. ScanLockOwner'
  BY <1>a, <1>p DEF ScanLockOwner, ScanLockHolders, Thread, Starting,
         Reporting, LastPending
<1>5. OneReporter' /\ OneTimeout'
  BY <1>a, <1>q, <1>p DEF OneReporter, OneTimeout, Reporter, TimeoutPending,
         Thread, Reporting, Starting, MacPlace, Progress
<1>6. Requested' /\ TxHeld'
  BY <1>a, <1>p DEF Requested, TxHeld, Finishing, Count, Thread, OneReporter,
         Reporter, Reporting, MacPlace, Scans
<1>7. Progress' /\ Barrier'
  BY <1>a, <1>q, <1>p DEF Progress, Barrier, TimeoutPending, OneReporter,
         OneTimeout, Reporter, Thread, Starting, Reporting
<1>8. Restarting'
  BY <1>a, <1>q, <1>p DEF Restarting, LastPending, ConfOwner, ConfPlace,
         OneReporter, Reporter, Progress, Thread, Starting, Reporting, NoCmd,
         None
<1> QED BY <1>q, <1>1, <1>2, <1>3, <1>4, <1>5, <1>6, <1>7, <1>8

LEMMA ScanWorkStep ==
  ASSUME IInv, NEW t \in {"wq", "bh"}, ScanWork(t)
  PROVE  IInv'
<1> USE DEF IInv, Types, Places, LockData, ScanData, ScanWork, Go, scanVars,
           bhVars, histVars, pmVars
<1>q. Distinct' /\ \A x : Queued(x)' <=> Queued(x)
  BY DEF Distinct, Queued
<1>p. Pending' <=> Pending
  BY DEF Pending
<1>t. Places'
  BY DEF Place, Thread, MacPlace, BhPlace, UserPlace, Starting, Reporting
<1>l. LockData'
  BY DEF Thread, CmdID, NoCmd, None
<1>d. ScanData'
  BY NumberAssumption DEF None
<1>1. Types'
  BY <1>t, <1>l, <1>d DEF Types
<1>2. ConfOwner'
  BY DEF ConfOwner, Thread, Place, ConfPlace, Starting, None, MacPlace,
         BhPlace, UserPlace
<1>3. LastPending'
  <2>1. UNCHANGED <<report, scans>> /\ pc'["mac"] = pc["mac"]
    BY DEF Thread
  <2> QED BY <1>p, <2>1 DEF LastPending
<1>4. ScanLockOwner'
  BY <1>p DEF ScanLockOwner, ScanLockHolders, Thread, Starting, Reporting,
         LastPending
<1>5. OneReporter' /\ OneTimeout'
  BY <1>q, <1>p DEF OneReporter, OneTimeout, Reporter, TimeoutPending, Thread,
         Reporting, Starting, MacPlace, Progress
<1>6. Requested' /\ TxHeld'
  BY <1>p DEF Requested, TxHeld, Finishing, Count, Thread, OneReporter,
         Reporter, Reporting, MacPlace, Scans
<1>7. Progress' /\ Barrier'
  BY <1>q, <1>p DEF Progress, Barrier, TimeoutPending, OneReporter, OneTimeout,
         Reporter, Thread, Starting, Reporting
<1>8. Restarting'
  BY <1>q, <1>p DEF Restarting, LastPending, ConfOwner, ConfPlace, OneReporter,
         Reporter, Progress, Thread, Starting, Reporting, NoCmd, None
<1> QED BY <1>q, <1>1, <1>2, <1>3, <1>4, <1>5, <1>6, <1>7, <1>8

LEMMA ScanDoneStep ==
  ASSUME IInv, NEW t \in {"wq", "bh"}, ScanDone(t)
  PROVE  IInv'
<1> USE DEF IInv, Types, Places, LockData, ScanData, ScanDone, Go, bhVars,
           histVars, pmVars
<1>a. Pending /\ ~Finishing
  BY DEF OneReporter, Reporter, Reporting, Finishing, Thread, MacPlace,
         UserPlace
<1>q. Distinct' /\ \A x : Queued(x)' <=> Queued(x)
  BY DEF Distinct, Queued
<1>p. Pending' <=> Pending
  BY DEF Pending
<1>t. Places'
  BY DEF Place, Thread, MacPlace, BhPlace, UserPlace, Starting, Reporting
<1>l. LockData'
  BY DEF Thread, CmdID, NoCmd, None
<1>d. ScanData'
  BY NumberAssumption DEF None
<1>1. Types'
  BY <1>t, <1>l, <1>d DEF Types
<1>2. ConfOwner'
  BY DEF ConfOwner, Thread, Place, ConfPlace, Starting, None, MacPlace,
         BhPlace, UserPlace
<1>3. LastPending'
  <2>1. UNCHANGED <<report, scans>> /\ pc'["mac"] = pc["mac"]
    BY DEF Thread
  <2> QED BY <1>p, <2>1 DEF LastPending
<1>4. ScanLockOwner'
  BY <1>p DEF ScanLockOwner, ScanLockHolders, Thread, Starting, Reporting,
         LastPending
<1>5. OneReporter' /\ OneTimeout'
  BY <1>q, <1>p DEF OneReporter, OneTimeout, Reporter, TimeoutPending, Thread,
         Reporting, Starting, MacPlace, Progress
<1>6. Requested' /\ TxHeld'
  BY <1>p, <1>a DEF Requested, TxHeld, Finishing, Count, Thread, OneReporter,
         Reporter, Reporting, MacPlace, Scans
<1>7. Progress' /\ Barrier'
  BY <1>q, <1>p DEF Progress, Barrier, TimeoutPending, OneReporter, OneTimeout,
         Reporter, Thread, Starting, Reporting
<1>8. Restarting'
  BY <1>q, <1>p DEF Restarting, LastPending, ConfOwner, ConfPlace, OneReporter,
         Reporter, Progress, Thread, Starting, Reporting, NoCmd, None
<1> QED BY <1>q, <1>1, <1>2, <1>3, <1>4, <1>5, <1>6, <1>7, <1>8

\* The reporter reports, and there is none any more.
LEMMA ScanFinishStep ==
  ASSUME IInv, NEW t \in {"wq", "bh"}, ScanFinish(t)
  PROVE  IInv'
<1> USE DEF IInv, Types, Places, LockData, ScanData, ScanFinish, Return, Go,
           scanVars, bhVars, pmVars
<1>q. Distinct' /\ \A x : Queued(x)' <=> Queued(x)
  BY DEF Distinct, Queued
<1>p. ~Pending' /\ Pending /\ report[scans] = "pending" /\ scans \in Scans
  BY DEF LastPending, OneReporter, Reporter, Reporting, Pending, Scans
<1>t. Places'
  BY DEF Place, Thread, MacPlace, BhPlace, UserPlace, Starting, Reporting
<1>l. LockData'
  BY DEF Thread, CmdID, NoCmd, None
<1>d. ScanData'
  BY NumberAssumption DEF None
<1>1. Types'
  BY <1>t, <1>l, <1>d DEF Types
<1>2. ConfOwner'
  BY DEF ConfOwner, Thread, Place, ConfPlace, Starting, None, MacPlace,
         BhPlace, UserPlace
<1>3. LastPending'
  BY <1>p DEF LastPending, Thread, Pending, Scans
<1>4. ScanLockOwner'
  BY <1>p DEF ScanLockOwner, ScanLockHolders, Thread, Starting, Reporting,
         LastPending
<1>5. OneReporter' /\ OneTimeout'
  BY <1>q, <1>p DEF OneReporter, OneTimeout, Reporter, TimeoutPending, Thread,
         Reporting, Starting, MacPlace, Progress
<1>6. Requested' /\ TxHeld'
  BY <1>p DEF Requested, TxHeld, Finishing, Count, Thread, OneReporter,
         Reporter, Reporting, MacPlace, Scans
<1>7. Progress' /\ Barrier'
  BY <1>q, <1>p DEF Progress, Barrier, TimeoutPending, OneReporter, OneTimeout,
         Reporter, Thread, Starting, Reporting
<1>8. Restarting'
  BY <1>q, <1>p DEF Restarting, LastPending, ConfOwner, ConfPlace, OneReporter,
         Reporter, Progress, Thread, Starting, Reporting, NoCmd, None
<1> QED BY <1>q, <1>1, <1>2, <1>3, <1>4, <1>5, <1>6, <1>7, <1>8

\* The worker starts the scan, and leaves the report to the timeout.
LEMMA ScanBeginStep ==
  ASSUME IInv, NEW t \in {"wq", "bh"}, ScanBegin(t)
  PROVE  IInv'
<1> USE DEF IInv, Types, Places, LockData, ScanData, ScanBegin, Go, lockVars,
           bhVars, histVars, pmVars
<1>a. t = "wq"
  BY DEF Restarting, Reporting, Starting
<1>q. Distinct' /\ \A x : Queued(x)' <=> Queued(x)
  BY <1>a DEF Distinct, Queued
<1>p. Pending' <=> Pending
  BY <1>a DEF Pending
<1>t. Places'
  BY <1>a DEF Place, Thread, MacPlace, BhPlace, UserPlace, Starting, Reporting
<1>l. LockData'
  BY <1>a DEF Thread, CmdID, NoCmd, None
<1>d. ScanData'
  BY <1>a, NumberAssumption DEF None
<1>1. Types'
  BY <1>t, <1>l, <1>d DEF Types
<1>2. ConfOwner'
  BY <1>a DEF ConfOwner, Thread, Place, ConfPlace, Starting, None, MacPlace,
         BhPlace, UserPlace
<1>3. LastPending'
  BY <1>a, <1>p DEF LastPending, Thread, Pending, Scans
<1>4. ScanLockOwner'
  BY <1>a, <1>p DEF ScanLockOwner, ScanLockHolders, Thread, Starting,
         Reporting, LastPending
<1>5. OneReporter' /\ OneTimeout'
  BY <1>a, <1>q, <1>p DEF OneReporter, OneTimeout, Reporter, TimeoutPending,
         Thread, Reporting, Starting, MacPlace, Progress
<1>6. Requested' /\ TxHeld'
  BY <1>a, <1>p DEF Requested, TxHeld, Finishing, Count, Thread, OneReporter,
         Reporter, Reporting, MacPlace, Scans
<1>7. Progress' /\ Barrier'
  BY <1>a, <1>q, <1>p DEF Progress, Barrier, TimeoutPending, OneReporter,
         OneTimeout, Reporter, Thread, Starting, Reporting
<1>8. Restarting'
  BY <1>a, <1>q, <1>p DEF Restarting, LastPending, ConfOwner, ConfPlace,
         OneReporter, Reporter, Progress, Thread, Starting, Reporting, NoCmd,
         None
<1> QED BY <1>q, <1>1, <1>2, <1>3, <1>4, <1>5, <1>6, <1>7, <1>8

LEMMA ScanSendStep ==
  ASSUME IInv, NEW t \in {"wq", "bh"},
         ScanOper(t) \/ ScanSend(t) \/ ScanRejected(t)
  PROVE  IInv'
<1> USE DEF IInv, Types, Places, LockData, ScanData, ScanOper, ScanSend,
           ScanRejected, Send, Returned, Go, lockVars, scanVars, bhVars,
           histVars, pmVars
<1>q. Distinct' /\ \A x : Queued(x)' <=> Queued(x)
  BY DEF Distinct, Queued
<1>p. Pending' <=> Pending
  BY DEF Pending
<1>t. Places'
  BY DEF Place, Thread, MacPlace, BhPlace, UserPlace, Starting, Reporting
<1>l. LockData'
  BY DEF Thread, CmdID, NoCmd, None
<1>d. ScanData'
  BY NumberAssumption DEF None
<1>1. Types'
  BY <1>t, <1>l, <1>d DEF Types
<1>2. ConfOwner'
  BY DEF ConfOwner, Thread, Place, ConfPlace, Starting, None, MacPlace,
         BhPlace, UserPlace
<1>3. LastPending'
  <2>1. UNCHANGED <<report, scans>> /\ pc'["mac"] = pc["mac"]
    BY DEF Thread
  <2> QED BY <1>p, <2>1 DEF LastPending
<1>4. ScanLockOwner'
  BY <1>p DEF ScanLockOwner, ScanLockHolders, Thread, Starting, Reporting,
         LastPending
<1>5. OneReporter' /\ OneTimeout'
  BY <1>q, <1>p DEF OneReporter, OneTimeout, Reporter, TimeoutPending, Thread,
         Reporting, Starting, MacPlace, Progress
<1>6. Requested' /\ TxHeld'
  BY <1>p DEF Requested, TxHeld, Finishing, Count, Thread, OneReporter,
         Reporter, Reporting, MacPlace, Scans
<1>7. Progress' /\ Barrier'
  BY <1>q, <1>p DEF Progress, Barrier, TimeoutPending, OneReporter, OneTimeout,
         Reporter, Thread, Starting, Reporting
<1>8. Restarting'
  BY <1>q, <1>p DEF Restarting, LastPending, ConfOwner, ConfPlace, OneReporter,
         Reporter, Progress, Thread, Starting, Reporting, NoCmd, None
<1> QED BY <1>q, <1>1, <1>2, <1>3, <1>4, <1>5, <1>6, <1>7, <1>8

LEMMA ScanStartedStep ==
  ASSUME IInv, NEW t \in {"wq", "bh"}, ScanStarted(t)
  PROVE  IInv'
<1> USE DEF IInv, Types, Places, LockData, ScanData, ScanStarted, Return,
           Returned, Go, bhVars, histVars, pmVars
<1>q. Distinct' /\ \A x : Queued(x)' <=> Queued(x)
  BY DEF Distinct, Queued
<1>p. Pending' <=> Pending
  BY DEF Pending
<1>t. Places'
  BY DEF Place, Thread, MacPlace, BhPlace, UserPlace, Starting, Reporting
<1>l. LockData'
  BY DEF Thread, CmdID, NoCmd, None
<1>d. ScanData'
  BY NumberAssumption DEF None
<1>1. Types'
  BY <1>t, <1>l, <1>d DEF Types
<1>2. ConfOwner'
  BY DEF ConfOwner, Thread, Place, ConfPlace, Starting, None, MacPlace,
         BhPlace, UserPlace
<1>3. LastPending'
  <2>1. UNCHANGED <<report, scans>> /\ pc'["mac"] = pc["mac"]
    BY DEF Thread
  <2> QED BY <1>p, <2>1 DEF LastPending
<1>4. ScanLockOwner'
  BY <1>p DEF ScanLockOwner, ScanLockHolders, Thread, Starting, Reporting,
         LastPending
<1>5. OneReporter' /\ OneTimeout'
  BY <1>q, <1>p DEF OneReporter, OneTimeout, Reporter, TimeoutPending, Thread,
         Reporting, Starting, MacPlace, Progress
<1>6. Requested' /\ TxHeld'
  BY <1>p DEF Requested, TxHeld, Finishing, Count, Thread, OneReporter,
         Reporter, Reporting, MacPlace, Scans
<1>7. Progress' /\ Barrier'
  BY <1>q, <1>p DEF Progress, Barrier, TimeoutPending, OneReporter, OneTimeout,
         Reporter, Thread, Starting, Reporting
<1>8. Restarting'
  BY <1>q, <1>p DEF Restarting, LastPending, ConfOwner, ConfPlace, OneReporter,
         Reporter, Progress, Thread, Starting, Reporting, NoCmd, None
<1> QED BY <1>q, <1>1, <1>2, <1>3, <1>4, <1>5, <1>6, <1>7, <1>8

\* A failed start takes the report from the timeout to the queued work.
LEMMA ScanFailStep ==
  ASSUME IInv, NEW t \in {"wq", "bh"}, ScanFail(t)
  PROVE  IInv'
<1> USE DEF IInv, Types, Places, LockData, ScanData, ScanFail, Return, Go,
           bhVars, histVars, pmVars
<1>a. t = "wq" /\ TimeoutPending /\ ~Queued("work")
  BY DEF BhPlace, Reporting, Progress, Starting, OneReporter, Reporter
<1>q. /\ Distinct'
      /\ \A x : Queued(x)' <=> (Queued(x) /\ x # "timeout") \/ x = "work"
  BY FailFacts
<1>p. Pending' <=> Pending
  BY <1>a DEF Pending
<1>t. Places'
  BY <1>a DEF Place, Thread, MacPlace, BhPlace, UserPlace, Starting, Reporting
<1>l. LockData'
  BY <1>a DEF Thread, CmdID, NoCmd, None
<1>d. ScanData'
  BY <1>a, NumberAssumption DEF None
<1>1. Types'
  BY <1>t, <1>l, <1>d DEF Types
<1>2. ConfOwner'
  BY <1>a DEF ConfOwner, Thread, Place, ConfPlace, Starting, None, MacPlace,
         BhPlace, UserPlace
<1>3. LastPending'
  BY <1>a, <1>p DEF LastPending, Thread, Pending, Scans
<1>4. ScanLockOwner'
  BY <1>a, <1>p DEF ScanLockOwner, ScanLockHolders, Thread, Starting,
         Reporting, LastPending
<1>5. OneReporter' /\ OneTimeout'
  BY <1>a, <1>q, <1>p DEF OneReporter, OneTimeout, Reporter, TimeoutPending,
         Thread, Reporting, Starting, MacPlace, Progress
<1>6. Requested' /\ TxHeld'
  BY <1>a, <1>p DEF Requested, TxHeld, Finishing, Count, Thread, OneReporter,
         Reporter, Reporting, MacPlace, Scans
<1>7. Progress' /\ Barrier'
  BY <1>a, <1>q, <1>p DEF Progress, Barrier, TimeoutPending, OneReporter,
         OneTimeout, Reporter, Thread, Starting, Reporting
<1>8. Restarting'
  BY <1>a, <1>q, <1>p DEF Restarting, LastPending, ConfOwner, ConfPlace,
         OneReporter, Reporter, Progress, Thread, Starting, Reporting, NoCmd,
         None
<1> QED BY <1>q, <1>1, <1>2, <1>3, <1>4, <1>5, <1>6, <1>7, <1>8

LEMMA ScanTimeoutStep ==
  ASSUME IInv, NEW t \in {"wq", "bh"}, ScanTimeout(t)
  PROVE  IInv'
<1> USE DEF IInv, Types, Places, LockData, ScanData, ScanTimeout, Return, Go,
           lockVars, bhVars, histVars, pmVars
<1>q. Distinct' /\ \A x : Queued(x)' <=> Queued(x)
  BY DEF Distinct, Queued
<1>p. Pending' <=> Pending
  BY DEF Pending
<1>t. Places'
  BY DEF Place, Thread, MacPlace, BhPlace, UserPlace, Starting, Reporting
<1>l. LockData'
  BY DEF Thread, CmdID, NoCmd, None
<1>d. ScanData'
  BY NumberAssumption DEF None
<1>1. Types'
  BY <1>t, <1>l, <1>d DEF Types
<1>2. ConfOwner'
  BY DEF ConfOwner, Thread, Place, ConfPlace, Starting, None, MacPlace,
         BhPlace, UserPlace
<1>3. LastPending'
  <2>1. UNCHANGED <<report, scans>> /\ pc'["mac"] = pc["mac"]
    BY DEF Thread
  <2> QED BY <1>p, <2>1 DEF LastPending
<1>4. ScanLockOwner'
  BY <1>p DEF ScanLockOwner, ScanLockHolders, Thread, Starting, Reporting,
         LastPending
<1>5. OneReporter' /\ OneTimeout'
  BY <1>q, <1>p DEF OneReporter, OneTimeout, Reporter, TimeoutPending, Thread,
         Reporting, Starting, MacPlace, Progress
<1>6. Requested' /\ TxHeld'
  BY <1>p DEF Requested, TxHeld, Finishing, Count, Thread, OneReporter,
         Reporter, Reporting, MacPlace, Scans
<1>7. Progress' /\ Barrier'
  BY <1>q, <1>p DEF Progress, Barrier, TimeoutPending, OneReporter, OneTimeout,
         Reporter, Thread, Starting, Reporting
<1>8. Restarting'
  BY <1>q, <1>p DEF Restarting, LastPending, ConfOwner, ConfPlace, OneReporter,
         Reporter, Progress, Thread, Starting, Reporting, NoCmd, None
<1> QED BY <1>q, <1>1, <1>2, <1>3, <1>4, <1>5, <1>6, <1>7, <1>8

LEMMA StopStep ==
  ASSUME IInv, NEW t \in {"wq", "bh"},
         StopSend(t) \/ StopConfirmed(t) \/ StopFailed(t)
  PROVE  IInv'
<1> USE DEF IInv, Types, Places, LockData, ScanData, StopSend, StopConfirmed,
           StopFailed, Send, Returned, Go, lockVars, scanVars, bhVars,
           histVars, pmVars
<1>q. Distinct' /\ \A x : Queued(x)' <=> Queued(x)
  BY DEF Distinct, Queued
<1>p. Pending' <=> Pending
  BY DEF Pending
<1>t. Places'
  BY DEF Place, Thread, MacPlace, BhPlace, UserPlace, Starting, Reporting
<1>l. LockData'
  BY DEF Thread, CmdID, NoCmd, None
<1>d. ScanData'
  BY NumberAssumption DEF None
<1>1. Types'
  BY <1>t, <1>l, <1>d DEF Types
<1>2. ConfOwner'
  BY DEF ConfOwner, Thread, Place, ConfPlace, Starting, None, MacPlace,
         BhPlace, UserPlace
<1>3. LastPending'
  <2>1. UNCHANGED <<report, scans>> /\ pc'["mac"] = pc["mac"]
    BY DEF Thread
  <2> QED BY <1>p, <2>1 DEF LastPending
<1>4. ScanLockOwner'
  BY <1>p DEF ScanLockOwner, ScanLockHolders, Thread, Starting, Reporting,
         LastPending
<1>5. OneReporter' /\ OneTimeout'
  BY <1>q, <1>p DEF OneReporter, OneTimeout, Reporter, TimeoutPending, Thread,
         Reporting, Starting, MacPlace, Progress
<1>6. Requested' /\ TxHeld'
  BY <1>p DEF Requested, TxHeld, Finishing, Count, Thread, OneReporter,
         Reporter, Reporting, MacPlace, Scans
<1>7. Progress' /\ Barrier'
  BY <1>q, <1>p DEF Progress, Barrier, TimeoutPending, OneReporter, OneTimeout,
         Reporter, Thread, Starting, Reporting
<1>8. Restarting'
  BY <1>q, <1>p DEF Restarting, LastPending, ConfOwner, ConfPlace, OneReporter,
         Reporter, Progress, Thread, Starting, Reporting, NoCmd, None
<1> QED BY <1>q, <1>1, <1>2, <1>3, <1>4, <1>5, <1>6, <1>7, <1>8

LEMMA OpBeginStep ==
  ASSUME IInv, OpBegin
  PROVE  IInv'
<1> USE DEF IInv, Types, Places, LockData, ScanData, OpBegin, Go, scanVars,
           bhVars, histVars, pmVars
<1>q. Distinct' /\ \A x : Queued(x)' <=> Queued(x)
  BY DEF Distinct, Queued
<1>p. Pending' <=> Pending
  BY DEF Pending
<1>t. Places'
  BY DEF Place, Thread, MacPlace, BhPlace, UserPlace, Starting, Reporting
<1>l. LockData'
  BY DEF Thread, CmdID, NoCmd, None
<1>d. ScanData'
  BY NumberAssumption DEF None
<1>1. Types'
  BY <1>t, <1>l, <1>d DEF Types
<1>2. ConfOwner'
  BY DEF ConfOwner, Thread, Place, ConfPlace, Starting, None, MacPlace,
         BhPlace, UserPlace
<1>3. LastPending'
  <2>1. UNCHANGED <<report, scans>> /\ pc'["mac"] = pc["mac"]
    BY DEF Thread
  <2> QED BY <1>p, <2>1 DEF LastPending
<1>4. ScanLockOwner'
  BY <1>p DEF ScanLockOwner, ScanLockHolders, Thread, Starting, Reporting,
         LastPending
<1>5. OneReporter' /\ OneTimeout'
  BY <1>q, <1>p DEF OneReporter, OneTimeout, Reporter, TimeoutPending, Thread,
         Reporting, Starting, MacPlace, Progress
<1>6. Requested' /\ TxHeld'
  BY <1>p DEF Requested, TxHeld, Finishing, Count, Thread, OneReporter,
         Reporter, Reporting, MacPlace, Scans
<1>7. Progress' /\ Barrier'
  BY <1>q, <1>p DEF Progress, Barrier, TimeoutPending, OneReporter, OneTimeout,
         Reporter, Thread, Starting, Reporting
<1>8. Restarting'
  BY <1>q, <1>p DEF Restarting, LastPending, ConfOwner, ConfPlace, OneReporter,
         Reporter, Progress, Thread, Starting, Reporting, NoCmd, None
<1> QED BY <1>q, <1>1, <1>2, <1>3, <1>4, <1>5, <1>6, <1>7, <1>8

LEMMA OperUsersStep ==
  ASSUME IInv, NEW t \in {"user", "bh"}, OpStep(t)
  PROVE  IInv'
<1> USE DEF IInv, Types, Places, LockData, ScanData, OpStep, OpOper, OpSend,
           OpStarted, OpPm, OpPmFails, OpCancel, OpLeave, Send, Returned, Go,
           lockVars, scanVars, bhVars, histVars, pmVars
<1>q. Distinct' /\ \A x : Queued(x)' <=> Queued(x)
  BY DEF Distinct, Queued
<1>p. Pending' <=> Pending
  BY DEF Pending
<1>t. Places'
  BY DEF Place, Thread, MacPlace, BhPlace, UserPlace, Starting, Reporting
<1>l. LockData'
  BY DEF Thread, CmdID, NoCmd, None
<1>d. ScanData'
  BY NumberAssumption DEF None
<1>1. Types'
  BY <1>t, <1>l, <1>d DEF Types
<1>2. ConfOwner'
  BY DEF ConfOwner, Thread, Place, ConfPlace, Starting, None, MacPlace,
         BhPlace, UserPlace
<1>3. LastPending'
  <2>1. UNCHANGED <<report, scans>> /\ pc'["mac"] = pc["mac"]
    BY DEF Thread
  <2> QED BY <1>p, <2>1 DEF LastPending
<1>4. ScanLockOwner'
  BY <1>p DEF ScanLockOwner, ScanLockHolders, Thread, Starting, Reporting,
         LastPending
<1>5. OneReporter' /\ OneTimeout'
  BY <1>q, <1>p DEF OneReporter, OneTimeout, Reporter, TimeoutPending, Thread,
         Reporting, Starting, MacPlace, Progress
<1>6. Requested' /\ TxHeld'
  BY <1>p DEF Requested, TxHeld, Finishing, Count, Thread, OneReporter,
         Reporter, Reporting, MacPlace, Scans
<1>7. Progress' /\ Barrier'
  BY <1>q, <1>p DEF Progress, Barrier, TimeoutPending, OneReporter, OneTimeout,
         Reporter, Thread, Starting, Reporting
<1>8. Restarting'
  BY <1>q, <1>p DEF Restarting, LastPending, ConfOwner, ConfPlace, OneReporter,
         Reporter, Progress, Thread, Starting, Reporting, NoCmd, None
<1> QED BY <1>q, <1>1, <1>2, <1>3, <1>4, <1>5, <1>6, <1>7, <1>8

LEMMA WaitScanStep ==
  ASSUME IInv, WaitScan("user", "idle", "wait_conf") \/ WaitConf
  PROVE  IInv'
<1> USE DEF IInv, Types, Places, LockData, ScanData, WaitScan, WaitConf, Go,
           scanVars, bhVars, histVars, pmVars
<1>q. Distinct' /\ \A x : Queued(x)' <=> Queued(x)
  BY DEF Distinct, Queued
<1>p. Pending' <=> Pending
  BY DEF Pending
<1>t. Places'
  BY DEF Place, Thread, MacPlace, BhPlace, UserPlace, Starting, Reporting
<1>l. LockData'
  BY DEF Thread, CmdID, NoCmd, None
<1>d. ScanData'
  BY NumberAssumption DEF None
<1>1. Types'
  BY <1>t, <1>l, <1>d DEF Types
<1>2. ConfOwner'
  BY DEF ConfOwner, Thread, Place, ConfPlace, Starting, None, MacPlace,
         BhPlace, UserPlace
<1>3. LastPending'
  <2>1. UNCHANGED <<report, scans>> /\ pc'["mac"] = pc["mac"]
    BY DEF Thread
  <2> QED BY <1>p, <2>1 DEF LastPending
<1>4. ScanLockOwner'
  BY <1>p DEF ScanLockOwner, ScanLockHolders, Thread, Starting, Reporting,
         LastPending
<1>5. OneReporter' /\ OneTimeout'
  BY <1>q, <1>p DEF OneReporter, OneTimeout, Reporter, TimeoutPending, Thread,
         Reporting, Starting, MacPlace, Progress
<1>6. Requested' /\ TxHeld'
  BY <1>p DEF Requested, TxHeld, Finishing, Count, Thread, OneReporter,
         Reporter, Reporting, MacPlace, Scans
<1>7. Progress' /\ Barrier'
  BY <1>q, <1>p DEF Progress, Barrier, TimeoutPending, OneReporter, OneTimeout,
         Reporter, Thread, Starting, Reporting
<1>8. Restarting'
  BY <1>q, <1>p DEF Restarting, LastPending, ConfOwner, ConfPlace, OneReporter,
         Reporter, Progress, Thread, Starting, Reporting, NoCmd, None
<1> QED BY <1>q, <1>1, <1>2, <1>3, <1>4, <1>5, <1>6, <1>7, <1>8

LEMMA RestartWaitStep ==
  ASSUME IInv, WaitScan("bh", "wait", "remove") \/ RestartRemove
  PROVE  IInv'
<1> USE DEF IInv, Types, Places, LockData, ScanData, WaitScan, RestartRemove,
           Go, scanVars, bhVars, histVars, pmVars
<1>q. Distinct' /\ \A x : Queued(x)' <=> Queued(x)
  BY DEF Distinct, Queued
<1>p. Pending' <=> Pending
  BY DEF Pending
<1>t. Places'
  BY DEF Place, Thread, MacPlace, BhPlace, UserPlace, Starting, Reporting
<1>l. LockData'
  BY DEF Thread, CmdID, NoCmd, None
<1>d. ScanData'
  BY NumberAssumption DEF None
<1>1. Types'
  BY <1>t, <1>l, <1>d DEF Types
<1>2. ConfOwner'
  BY DEF ConfOwner, Thread, Place, ConfPlace, Starting, None, MacPlace,
         BhPlace, UserPlace
<1>3. LastPending'
  <2>1. UNCHANGED <<report, scans>> /\ pc'["mac"] = pc["mac"]
    BY DEF Thread
  <2> QED BY <1>p, <2>1 DEF LastPending
<1>4. ScanLockOwner'
  BY <1>p DEF ScanLockOwner, ScanLockHolders, Thread, Starting, Reporting,
         LastPending
<1>5. OneReporter' /\ OneTimeout'
  BY <1>q, <1>p DEF OneReporter, OneTimeout, Reporter, TimeoutPending, Thread,
         Reporting, Starting, MacPlace, Progress
<1>6. Requested' /\ TxHeld'
  BY <1>p DEF Requested, TxHeld, Finishing, Count, Thread, OneReporter,
         Reporter, Reporting, MacPlace, Scans
<1>7. Progress' /\ Barrier'
  BY <1>q, <1>p DEF Progress, Barrier, TimeoutPending, OneReporter, OneTimeout,
         Reporter, Thread, Starting, Reporting
<1>8. Restarting'
  BY <1>q, <1>p DEF Restarting, LastPending, ConfOwner, ConfPlace, OneReporter,
         Reporter, Progress, Thread, Starting, Reporting, NoCmd, None
<1> QED BY <1>q, <1>1, <1>2, <1>3, <1>4, <1>5, <1>6, <1>7, <1>8

\* No command can be sent from here on.
LEMMA RestartBeginStep ==
  ASSUME IInv, RestartBegin
  PROVE  IInv'
<1> USE DEF IInv, Types, Places, LockData, ScanData, RestartBegin, Go,
           scanVars, histVars, pmVars
<1>q. Distinct' /\ \A x : Queued(x)' <=> Queued(x)
  BY DEF Distinct, Queued
<1>p. Pending' <=> Pending
  BY DEF Pending
<1>t. Places'
  BY DEF Place, Thread, MacPlace, BhPlace, UserPlace, Starting, Reporting
<1>l. LockData'
  <2>1. /\ tx_lock' = tx_lock + 1 /\ up' = FALSE
        /\ UNCHANGED <<conf_mutex, cmd, op, flushed>>
    OBVIOUS
  <2>2. tx_lock' \in Int
    BY <2>1
  <2> QED BY <2>1, <2>2
<1>d. ScanData'
  BY NumberAssumption DEF None
<1>1. Types'
  BY <1>t, <1>l, <1>d DEF Types
<1>2. ConfOwner'
  BY DEF ConfOwner, Thread, Place, ConfPlace, Starting, None, MacPlace,
         BhPlace, UserPlace
<1>3. LastPending'
  <2>1. UNCHANGED <<report, scans>> /\ pc'["mac"] = pc["mac"]
    BY DEF Thread
  <2> QED BY <1>p, <2>1 DEF LastPending
<1>4. ScanLockOwner'
  BY <1>p DEF ScanLockOwner, ScanLockHolders, Thread, Starting, Reporting,
         LastPending
<1>5. OneReporter' /\ OneTimeout'
  BY <1>q, <1>p DEF OneReporter, OneTimeout, Reporter, TimeoutPending, Thread,
         Reporting, Starting, MacPlace, Progress
<1>6. Requested' /\ TxHeld'
  BY <1>p DEF Requested, TxHeld, Finishing, Count, Thread, OneReporter,
         Reporter, Reporting, MacPlace, Scans
<1>7. Progress' /\ Barrier'
  BY <1>q, <1>p DEF Progress, Barrier, TimeoutPending, OneReporter, OneTimeout,
         Reporter, Thread, Starting, Reporting
<1>8. Restarting'
  BY <1>q, <1>p DEF Restarting, LastPending, ConfOwner, ConfPlace, OneReporter,
         Reporter, Progress, Thread, Starting, Reporting, NoCmd, None
<1> QED BY <1>q, <1>1, <1>2, <1>3, <1>4, <1>5, <1>6, <1>7, <1>8

LEMMA RestartUpStep ==
  ASSUME IInv, RestartUp
  PROVE  IInv'
<1> USE DEF IInv, Types, Places, LockData, ScanData, RestartUp, Go, scanVars,
           histVars, pmVars
<1>q. Distinct' /\ \A x : Queued(x)' <=> Queued(x)
  BY DEF Distinct, Queued
<1>p. Pending' <=> Pending
  BY DEF Pending
<1>t. Places'
  BY DEF Place, Thread, MacPlace, BhPlace, UserPlace, Starting, Reporting
<1>l. LockData'
  BY DEF Thread, CmdID, NoCmd, None
<1>d. ScanData'
  BY NumberAssumption DEF None
<1>1. Types'
  BY <1>t, <1>l, <1>d DEF Types
<1>2. ConfOwner'
  BY DEF ConfOwner, Thread, Place, ConfPlace, Starting, None, MacPlace,
         BhPlace, UserPlace
<1>3. LastPending'
  <2>1. UNCHANGED <<report, scans>> /\ pc'["mac"] = pc["mac"]
    BY DEF Thread
  <2> QED BY <1>p, <2>1 DEF LastPending
<1>4. ScanLockOwner'
  BY <1>p DEF ScanLockOwner, ScanLockHolders, Thread, Starting, Reporting,
         LastPending
<1>5. OneReporter' /\ OneTimeout'
  BY <1>q, <1>p DEF OneReporter, OneTimeout, Reporter, TimeoutPending, Thread,
         Reporting, Starting, MacPlace, Progress
<1>6. Requested' /\ TxHeld'
  BY <1>p DEF Requested, TxHeld, Finishing, Count, Thread, OneReporter,
         Reporter, Reporting, MacPlace, Scans
<1>7. Progress' /\ Barrier'
  BY <1>q, <1>p DEF Progress, Barrier, TimeoutPending, OneReporter, OneTimeout,
         Reporter, Thread, Starting, Reporting
<1>8. Restarting'
  BY <1>q, <1>p DEF Restarting, LastPending, ConfOwner, ConfPlace, OneReporter,
         Reporter, Progress, Thread, Starting, Reporting, NoCmd, None
<1> QED BY <1>q, <1>1, <1>2, <1>3, <1>4, <1>5, <1>6, <1>7, <1>8

LEMMA RestartReleaseStep ==
  ASSUME IInv, RestartRelease
  PROVE  IInv'
<1> USE DEF IInv, Types, Places, LockData, ScanData, RestartRelease, Go,
           lockVars, scanVars, bhVars, histVars, pmVars
<1>q. Distinct' /\ \A x : Queued(x)' <=> Queued(x)
  BY DEF Distinct, Queued
<1>p. Pending' <=> Pending
  BY DEF Pending
<1>t. Places'
  BY DEF Place, Thread, MacPlace, BhPlace, UserPlace, Starting, Reporting
<1>l. LockData'
  BY DEF Thread, CmdID, NoCmd, None
<1>d. ScanData'
  BY NumberAssumption DEF None
<1>1. Types'
  BY <1>t, <1>l, <1>d DEF Types
<1>2. ConfOwner'
  BY DEF ConfOwner, Thread, Place, ConfPlace, Starting, None, MacPlace,
         BhPlace, UserPlace
<1>3. LastPending'
  <2>1. UNCHANGED <<report, scans>> /\ pc'["mac"] = pc["mac"]
    BY DEF Thread
  <2> QED BY <1>p, <2>1 DEF LastPending
<1>4. ScanLockOwner'
  BY <1>p DEF ScanLockOwner, ScanLockHolders, Thread, Starting, Reporting,
         LastPending
<1>5. OneReporter' /\ OneTimeout'
  BY <1>q, <1>p DEF OneReporter, OneTimeout, Reporter, TimeoutPending, Thread,
         Reporting, Starting, MacPlace, Progress
<1>6. Requested' /\ TxHeld'
  BY <1>p DEF Requested, TxHeld, Finishing, Count, Thread, OneReporter,
         Reporter, Reporting, MacPlace, Scans
<1>7. Progress' /\ Barrier'
  BY <1>q, <1>p DEF Progress, Barrier, TimeoutPending, OneReporter, OneTimeout,
         Reporter, Thread, Starting, Reporting
<1>8. Restarting'
  BY <1>q, <1>p DEF Restarting, LastPending, ConfOwner, ConfPlace, OneReporter,
         Reporter, Progress, Thread, Starting, Reporting, NoCmd, None
<1> QED BY <1>q, <1>1, <1>2, <1>3, <1>4, <1>5, <1>6, <1>7, <1>8

\* A barrier is queued; the worker is idle when it takes it.
LEMMA FlushBeginStep ==
  ASSUME IInv, FlushBegin
  PROVE  IInv'
<1> USE DEF IInv, Types, Places, LockData, ScanData, FlushBegin, lockVars,
           scanVars, bhVars, histVars, pmVars
<1>q. Distinct'
      /\ \A x : Queued(x)' <=> Queued(x) \/ x = "barrier"
  BY QueueWorkFacts DEF QueueWork, Item
<1>p. Pending' <=> Pending
  BY DEF Pending
<1>t. Places'
  BY DEF Place, Thread, MacPlace, BhPlace, UserPlace, Starting, Reporting
<1>l. LockData'
  BY DEF Thread, CmdID, NoCmd, None
<1>d. ScanData'
  BY NumberAssumption DEF None
<1>1. Types'
  BY <1>t, <1>l, <1>d DEF Types
<1>2. ConfOwner'
  BY DEF ConfOwner, Thread, Place, ConfPlace, Starting, None, MacPlace,
         BhPlace, UserPlace
<1>3. LastPending'
  <2>1. UNCHANGED <<report, scans>> /\ pc'["mac"] = pc["mac"]
    BY DEF Thread
  <2> QED BY <1>p, <2>1 DEF LastPending
<1>4. ScanLockOwner'
  BY <1>p DEF ScanLockOwner, ScanLockHolders, Thread, Starting, Reporting,
         LastPending
<1>5. OneReporter' /\ OneTimeout'
  BY <1>q, <1>p DEF OneReporter, OneTimeout, Reporter, TimeoutPending, Thread,
         Reporting, Starting, MacPlace, Progress
<1>6. Requested' /\ TxHeld'
  BY <1>p DEF Requested, TxHeld, Finishing, Count, Thread, OneReporter,
         Reporter, Reporting, MacPlace, Scans
<1>7. Progress' /\ Barrier'
  BY <1>q, <1>p DEF Progress, Barrier, TimeoutPending, OneReporter, OneTimeout,
         Reporter, Thread, Starting, Reporting
<1>8. Restarting'
  BY <1>q, <1>p DEF Restarting, LastPending, ConfOwner, ConfPlace, OneReporter,
         Reporter, Progress, Thread, Starting, Reporting, NoCmd, None
<1> QED BY <1>q, <1>1, <1>2, <1>3, <1>4, <1>5, <1>6, <1>7, <1>8

LEMMA FlushEndStep ==
  ASSUME IInv, FlushEnd
  PROVE  IInv'
<1> USE DEF IInv, Types, Places, LockData, ScanData, lockVars, scanVars
<1>a. /\ flushed /\ flushed' = FALSE
      /\ UNCHANGED <<lockVars, cmd, scanVars, wq, op, up, report, scans>>
  BY DEF FlushEnd, histVars
<1>b. PICK p \in {"pm", "cancel", "wait", "bringup"} :
        /\ pc' = [pc EXCEPT !["bh"] = p]
        /\ pc["bh"] \in {"flush1", "flush2", "flush3"}
        /\ p = "cancel" => pc["bh"] = "flush2"
  <2>1. pc["bh"] \in {"flush1", "flush2", "flush3"}
    BY <1>a DEF Barrier
  <2>2. CASE pc["bh"] = "flush1"
    BY <2>2 DEF FlushEnd, Go
  <2>3. CASE pc["bh"] = "flush2"
    BY <2>3 DEF FlushEnd, Go
  <2>4. CASE pc["bh"] = "flush3"
    BY <2>4 DEF FlushEnd, Go
  <2> QED BY <2>1, <2>2, <2>3, <2>4
<1>q. Distinct' /\ \A x : Queued(x)' <=> Queued(x)
  BY <1>a, <1>b DEF Distinct, Queued
<1>p. Pending' <=> Pending
  BY <1>a, <1>b DEF Pending
<1>t. Places'
  BY <1>a, <1>b DEF Place, Thread, MacPlace, BhPlace, UserPlace, Starting,
         Reporting
<1>l. LockData'
  BY <1>a, <1>b DEF Thread, CmdID, NoCmd, None
<1>d. ScanData'
  BY <1>a, <1>b, NumberAssumption DEF None
<1>1. Types'
  BY <1>t, <1>l, <1>d DEF Types
<1>2. ConfOwner'
  BY <1>a, <1>b DEF ConfOwner, Thread, Place, ConfPlace, Starting, None,
         MacPlace, BhPlace, UserPlace
<1>3. LastPending'
  BY <1>a, <1>b, <1>p DEF LastPending, Thread, Pending, Scans
<1>4. ScanLockOwner'
  BY <1>a, <1>b, <1>p DEF ScanLockOwner, ScanLockHolders, Thread, Starting,
         Reporting, LastPending
<1>5. OneReporter' /\ OneTimeout'
  BY <1>a, <1>b, <1>q, <1>p DEF OneReporter, OneTimeout, Reporter,
         TimeoutPending, Thread, Reporting, Starting, MacPlace, Progress
<1>6. Requested' /\ TxHeld'
  BY <1>a, <1>b, <1>p DEF Requested, TxHeld, Finishing, Count, Thread,
         OneReporter, Reporter, Reporting, MacPlace, Scans
<1>7. Progress' /\ Barrier'
  BY <1>a, <1>b, <1>q, <1>p DEF Progress, Barrier, TimeoutPending, OneReporter,
         OneTimeout, Reporter, Thread, Starting, Reporting
<1>8. Restarting'
  BY <1>a, <1>b, <1>q, <1>p DEF Restarting, LastPending, ConfOwner, ConfPlace,
         OneReporter, Reporter, Progress, Thread, Starting, Reporting, NoCmd,
         None
<1> QED BY <1>q, <1>1, <1>2, <1>3, <1>4, <1>5, <1>6, <1>7, <1>8

\* A scan that is in progress here has been begun, and no other can be.
LEMMA DestroyPmStep ==
  ASSUME IInv, DestroyPm
  PROVE  IInv'
<1> USE DEF IInv, Types, Places, LockData, ScanData, DestroyPm, PmRelease, Go,
           scanVars, bhVars, histVars
<1>a. in_progress => Pending
  BY DEF Progress, OneReporter, Reporter, Reporting
<1>q. Distinct' /\ \A x : Queued(x)' <=> Queued(x)
  BY DEF Distinct, Queued
<1>p. Pending' <=> Pending
  BY DEF Pending
<1>t. Places'
  BY DEF Place, Thread, MacPlace, BhPlace, UserPlace, Starting, Reporting
<1>l. LockData'
  BY DEF Thread, CmdID, NoCmd, None
<1>d. ScanData'
  BY NumberAssumption DEF None
<1>1. Types'
  BY <1>t, <1>l, <1>d DEF Types
<1>2. ConfOwner'
  BY DEF ConfOwner, Thread, Place, ConfPlace, Starting, None, MacPlace,
         BhPlace, UserPlace
<1>3. LastPending'
  <2>1. UNCHANGED <<report, scans>> /\ pc'["mac"] = pc["mac"]
    BY DEF Thread
  <2> QED BY <1>p, <2>1 DEF LastPending
<1>4. ScanLockOwner'
  BY <1>p DEF ScanLockOwner, ScanLockHolders, Thread, Starting, Reporting,
         LastPending
<1>5. OneReporter' /\ OneTimeout'
  BY <1>q, <1>p DEF OneReporter, OneTimeout, Reporter, TimeoutPending, Thread,
         Reporting, Starting, MacPlace, Progress
<1>6. Requested' /\ TxHeld'
  BY <1>p DEF Requested, TxHeld, Finishing, Count, Thread, OneReporter,
         Reporter, Reporting, MacPlace, Scans
<1>7. Progress' /\ Barrier'
  BY <1>q, <1>p DEF Progress, Barrier, TimeoutPending, OneReporter, OneTimeout,
         Reporter, Thread, Starting, Reporting
<1>8. Restarting'
  BY <1>q, <1>p, <1>a DEF Restarting, LastPending, ConfOwner, ConfPlace,
         OneReporter, Reporter, Progress, Thread, Starting, Reporting, NoCmd,
         None, Barrier
<1> QED BY <1>q, <1>1, <1>2, <1>3, <1>4, <1>5, <1>6, <1>7, <1>8

\* The restart takes the report from the timeout, which the worker is not in.
LEMMA DestroyScanStep ==
  ASSUME IInv, DestroyScan, in_progress, status # "timedout", TimeoutPending
  PROVE  IInv'
<1> USE DEF IInv, Types, Places, LockData, ScanData, lockVars
<1>a. /\ pc["bh"] = "cancel" /\ pc["wq"] # "timeout"
      /\ pc' = [pc EXCEPT !["bh"] = "timeout"]
      /\ timer' = FALSE /\ wq' = Without(wq, "timeout")
      /\ UNCHANGED <<lockVars, cmd, req, status, curr, in_progress, op, up,
                     flushed, report, scans>>
  BY DEF DestroyScan, CancelTimeout, Go, bhVars, histVars
<1>q. Distinct'
      /\ \A x : Queued(x)' <=> Queued(x) /\ x # "timeout"
  BY <1>a, CancelFacts
<1>p. Pending' <=> Pending
  BY <1>a DEF Pending
<1>t. Places'
  BY <1>a DEF Place, Thread, MacPlace, BhPlace, UserPlace, Starting, Reporting
<1>l. LockData'
  BY <1>a DEF Thread, CmdID, NoCmd, None
<1>d. ScanData'
  BY <1>a, NumberAssumption DEF None
<1>1. Types'
  BY <1>t, <1>l, <1>d DEF Types
<1>2. ConfOwner'
  BY <1>a DEF ConfOwner, Thread, Place, ConfPlace, Starting, None, MacPlace,
         BhPlace, UserPlace
<1>3. LastPending'
  BY <1>a, <1>p DEF LastPending, Thread, Pending, Scans
<1>4. ScanLockOwner'
  BY <1>a, <1>p DEF ScanLockOwner, ScanLockHolders, Thread, Starting,
         Reporting, LastPending
<1>5. OneReporter' /\ OneTimeout'
  BY <1>a, <1>q, <1>p DEF OneReporter, OneTimeout, Reporter, TimeoutPending,
         Thread, Reporting, Starting, MacPlace, Progress
<1>6. Requested' /\ TxHeld'
  BY <1>a, <1>p DEF Requested, TxHeld, Finishing, Count, Thread, OneReporter,
         Reporter, Reporting, MacPlace, Scans
<1>7. Progress' /\ Barrier'
  BY <1>a, <1>q, <1>p DEF Progress, Barrier, TimeoutPending, OneReporter,
         OneTimeout, Reporter, Thread, Starting, Reporting, Restarting
<1>8. Restarting'
  BY <1>a, <1>q, <1>p DEF Restarting, LastPending, ConfOwner, ConfPlace,
         OneReporter, Reporter, Progress, Thread, Starting, Reporting, NoCmd,
         None
<1> QED BY <1>q, <1>1, <1>2, <1>3, <1>4, <1>5, <1>6, <1>7, <1>8

LEMMA DestroyNoScanStep ==
  ASSUME IInv, DestroyScan,
         ~(in_progress /\ status # "timedout" /\ TimeoutPending)
  PROVE  IInv'
<1> USE DEF IInv, Types, Places, LockData, ScanData, lockVars
<1>a. /\ pc["bh"] = "cancel"
      /\ pc' = [pc EXCEPT !["bh"] = "flush3"] /\ timer' = timer
      /\ wq' = wq \/ (wq' = Without(wq, "timeout") /\ ~Queued("timeout"))
      /\ UNCHANGED <<lockVars, cmd, req, status, curr, in_progress, op, up,
                     flushed, report, scans>>
  <2>1. CASE in_progress /\ status # "timedout"
    BY <2>1 DEF DestroyScan, CancelTimeout, TimeoutPending, Go, bhVars,
                histVars
  <2>2. CASE ~(in_progress /\ status # "timedout")
    BY <2>2 DEF DestroyScan, Go, bhVars, histVars
  <2> QED BY <2>1, <2>2
<1>q. Distinct'
      /\ \A x : Queued(x)' <=> Queued(x)
  <2>1. CASE wq' = wq
    BY <2>1 DEF Distinct, Queued
  <2>2. CASE wq' = Without(wq, "timeout") /\ ~Queued("timeout")
    BY <2>2, CancelFacts
  <2> QED BY <1>a, <2>1, <2>2
<1>p. Pending' <=> Pending
  BY <1>a DEF Pending
<1>t. Places'
  BY <1>a DEF Place, Thread, MacPlace, BhPlace, UserPlace, Starting, Reporting
<1>l. LockData'
  BY <1>a DEF Thread, CmdID, NoCmd, None
<1>d. ScanData'
  BY <1>a, NumberAssumption DEF None
<1>1. Types'
  BY <1>t, <1>l, <1>d DEF Types
<1>2. ConfOwner'
  BY <1>a DEF ConfOwner, Thread, Place, ConfPlace, Starting, None, MacPlace,
         BhPlace, UserPlace
<1>3. LastPending'
  BY <1>a, <1>p DEF LastPending, Thread, Pending, Scans
<1>4. ScanLockOwner'
  BY <1>a, <1>p DEF ScanLockOwner, ScanLockHolders, Thread, Starting,
         Reporting, LastPending
<1>5. OneReporter' /\ OneTimeout'
  BY <1>a, <1>q, <1>p DEF OneReporter, OneTimeout, Reporter, TimeoutPending,
         Thread, Reporting, Starting, MacPlace, Progress
<1>6. Requested' /\ TxHeld'
  BY <1>a, <1>p DEF Requested, TxHeld, Finishing, Count, Thread, OneReporter,
         Reporter, Reporting, MacPlace, Scans
<1>7. Progress' /\ Barrier'
  BY <1>a, <1>q, <1>p DEF Progress, Barrier, TimeoutPending, OneReporter,
         OneTimeout, Reporter, Thread, Starting, Reporting
<1>8. Restarting'
  BY <1>a, <1>q, <1>p DEF Restarting, LastPending, ConfOwner, ConfPlace,
         OneReporter, Reporter, Progress, Thread, Starting, Reporting, NoCmd,
         None
<1> QED BY <1>q, <1>1, <1>2, <1>3, <1>4, <1>5, <1>6, <1>7, <1>8

LEMMA InitIInv ==
  ASSUME Init
  PROVE  IInv
<1>1. /\ pc = [t \in Thread |-> "idle"] /\ wq = <<>>
      /\ ~Pending /\ ~Finishing /\ ScanLockHolders = {}
      /\ \A x : ~Queued(x)
  <2>1. ~Pending
    BY DEF Init, Pending, None
  <2>2. ~Finishing /\ ScanLockHolders = {}
    BY DEF Init, Finishing, ScanLockHolders
  <2>3. \A x : ~Queued(x)
    BY DEF Init, Queued
  <2> QED BY <2>1, <2>2, <2>3 DEF Init
<1>2. Types
  <2>1. Places
    BY <1>1 DEF Places, Place, Thread, MacPlace, BhPlace, UserPlace, Starting,
                Reporting
  <2>2. LockData
    <3>1. /\ tx_lock = 0 /\ conf_mutex = None /\ up = TRUE /\ flushed = FALSE
          /\ cmd = [id |-> None, state |-> None]
          /\ op = [t \in Thread |-> "start"]
      BY DEF Init, NoCmd
    <3>2. op \in [Thread -> {"start", "pm"}] /\ op["bh"] = "start"
      BY <3>1 DEF Thread
    <3>3. cmd \in [id : CmdID \cup {None},
                  state : {"sent", "taken", "ok", "err", None}]
      BY <3>1
    <3>4. up \in BOOLEAN /\ flushed \in BOOLEAN
      BY <3>1
    <3>5. tx_lock \in Int /\ conf_mutex \in Thread \cup {None}
      BY <3>1
    <3> QED BY <3>2, <3>3, <3>4, <3>5 DEF LockData
  <2>3. ScanData
    <3>1. /\ req = 0 /\ scans = 0 /\ status = "zero" /\ curr = "end"
          /\ in_progress = FALSE /\ timer = FALSE
          /\ report = [n \in Scans |-> None]
      BY DEF Init
    <3>2. report \in [Scans -> {None, "pending", "refused", "ok", "aborted"}]
      BY <3>1
    <3>3. in_progress \in BOOLEAN /\ timer \in BOOLEAN
      BY <3>1
    <3>4. req \in Nat /\ scans \in 0 .. MaxScans
      BY <3>1, NumberAssumption
    <3>5. /\ status \in {"zero", "done", "failed", "timedout"}
          /\ curr \in {"begin", "end"}
      BY <3>1
    <3> QED BY <3>2, <3>3, <3>4, <3>5 DEF ScanData
  <2> QED BY <2>1, <2>2, <2>3 DEF Types
<1>3. Distinct /\ OneTimeout /\ OneReporter
  BY <1>1 DEF Init, Distinct, Once, OneTimeout, OneReporter, Reporter,
              TimeoutPending, Thread, Reporting
<1>4. ConfOwner
  BY <1>1 DEF Init, ConfOwner, ConfPlace, Starting, Thread, None
<1>5. LastPending /\ ScanLockOwner
  BY <1>1 DEF Init, LastPending, ScanLockOwner, Thread, None
<1>6. Requested /\ TxHeld
  BY <1>1 DEF Init, Requested, TxHeld, Count, Thread
<1>7. Progress /\ Barrier /\ Restarting
  BY <1>1 DEF Init, Progress, Barrier, Restarting, TimeoutPending, Thread,
              Starting, Reporting
<1> QED BY <1>2, <1>3, <1>4, <1>5, <1>6, <1>7 DEF IInv

LEMMA StutterStep ==
  ASSUME IInv, UNCHANGED vars
  PROVE  IInv'
<1>a. UNCHANGED <<pc, lockVars, cmd, scanVars, wq, op, up, flushed, report,
                  scans>>
  BY DEF vars, bhVars, histVars
<1>1. Types'
  BY <1>a DEF IInv, Types, Places, LockData, ScanData, lockVars, scanVars
<1>2. Distinct' /\ OneTimeout' /\ OneReporter'
  BY <1>a DEF IInv, Distinct, OneTimeout, OneReporter, Reporter, TimeoutPending,
              Queued, Pending, scanVars
<1>3. ConfOwner' /\ LastPending' /\ ScanLockOwner'
  BY <1>a DEF IInv, ConfOwner, LastPending, ScanLockOwner, ScanLockHolders,
              Pending, lockVars
<1>4. Requested' /\ TxHeld'
  BY <1>a DEF IInv, Requested, TxHeld, Finishing, Pending, lockVars, scanVars
<1>5. Progress' /\ Barrier' /\ Restarting'
  BY <1>a DEF IInv, Progress, Barrier, Restarting, TimeoutPending, Queued,
              scanVars
<1> QED BY <1>1, <1>2, <1>3, <1>4, <1>5 DEF IInv

LEMMA NextStep ==
  ASSUME IInv, [Next]_vars
  PROVE  IInv'
<1>1. CASE WqTake
  <2>1. wq # <<>> /\ Distinct
    BY <1>1 DEF WqTake, IInv
  <2>2. Head(wq) \in {"work", "timeout", "barrier"}
    BY <2>1 DEF Distinct, Once, Item
  <2> QED BY <1>1, <2>2, WqBarrierStep, WqItemStep
<1>2. CASE TimerExpires \/ HwScan \/ OpBegin
  BY <1>2, TimerExpiresStep, HwScanBegins, OpBeginStep
<1>3. CASE CmdTimeout \/ PmTimer \/ FwStep \/ FwDies
  BY <1>3, QuietStep
<1>4. CASE HwScanStep
  BY <1>4, HwScanLocksStep, HwScanRefusedStep, HwScanQueueStep DEF HwScanStep
<1>5. ASSUME NEW t \in {"wq", "bh"}, ScanStep(t)
      PROVE  IInv'
  BY <1>5, ScanWorkStep, ScanDoneStep, ScanFinishStep, ScanBeginStep,
     ScanSendStep, ScanStartedStep, ScanFailStep, ScanTimeoutStep, StopStep
     DEF ScanStep
<1>6. ASSUME NEW t \in {"user", "bh"}, OpStep(t)
      PROVE  IInv'
  BY <1>6, OperUsersStep
<1>7. CASE WaitScan("user", "idle", "wait_conf") \/ WaitConf
  BY <1>7, WaitScanStep
<1>8. CASE RxStep
  BY <1>8, QuietStep, ReportInTimeStep, ReportIgnoredStep DEF RxStep
<1>9. CASE RestartStep
  BY <1>9, RestartBeginStep, RestartReleaseStep, FlushBeginStep, FlushEndStep,
     DestroyPmStep, DestroyScanStep, DestroyNoScanStep, RestartWaitStep,
     RestartUpStep
     DEF RestartStep
<1> QED
  BY <1>1, <1>2, <1>3, <1>4, <1>5, <1>6, <1>7, <1>8, <1>9, StutterStep DEF Next

THEOREM Invariance == Spec => []IInv
<1>1. Init => IInv
  BY InitIInv
<1>2. IInv /\ [Next]_vars => IInv'
  BY NextStep
<1> QED BY <1>1, <1>2, PTL DEF Spec

-----------------------------------------------------------------------------
(* The theorems.                                                           *)

\* What atbm_hw_scan has taken is given back once for each scan, by the one
\* thread that reports it: scan.lock, and the TX lock before the report.
THEOREM ScanHoldsCorrect == Spec => []ScanHoldsExact
<1>1. IInv => ScanHoldsExact
  <2> SUFFICES ASSUME IInv
               PROVE  ScanHoldsExact
    OBVIOUS
  <2>1. scan_lock + Cardinality(ScanLockHolders) + Count(Pending) = 1
    <3>1. CASE scan_lock = 1 /\ ScanLockHolders = {} /\ ~Pending
      BY <3>1, FS_EmptySet DEF Count
    <3>2. CASE /\ scan_lock = 0 /\ ~Pending
               /\ \E t \in Thread : ScanLockHolders = {t}
      BY <3>2, FS_Singleton DEF Count
    <3>3. CASE scan_lock = 0 /\ ScanLockHolders = {} /\ Pending
      BY <3>3, FS_EmptySet DEF Count
    <3> QED BY <3>1, <3>2, <3>3 DEF IInv, ScanLockOwner
  <2>2. tx_lock = Count(pc["bh"] # "idle") +
                  Count(Pending /\ \A t \in Thread : pc[t] # "finish")
    BY DEF IInv, TxHeld, Finishing, Count
  <2> QED BY <2>1, <2>2 DEF ScanHoldsExact
<1> QED BY <1>1, Invariance, PTL

\* atbm_hw_scan never finds a request of another scan: its BUG_ON is not met.
THEOREM NoSecondRequestCorrect == Spec => []NoSecondRequest
<1>1. IInv => NoSecondRequest
  BY DEF IInv, Types, Places, ScanData, LastPending, Requested, Progress,
         OneReporter, Reporter, Reporting, NoSecondRequest
<1> QED BY <1>1, Invariance, PTL

\* A scan that is pending has someone left to report it, whatever was
\* cancelled, and whenever the device was halted and restarted.
THEOREM NeverOrphanedCorrect == Spec => []NeverOrphaned
<1>1. IInv => NeverOrphaned
  BY DEF IInv, Progress, OneReporter, Reporter, Reporting, NeverOrphaned
<1> QED BY <1>1, Invariance, PTL
=============================================================================
