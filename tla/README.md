# A verification development for the ATBM Wi-Fi driver

This directory models parts of the ATBM (`hal_apollo`) Wi-Fi driver in TLA+, checks
small instances of the models with TLC and proves theorems about them with TLAPS.
The driver is a Linux softmac driver: a fork of mac80211 above, a firmware reached
over SDIO (or USB, SPI) below, and between them the code modelled here: transmit
queues, the firmware command protocol ("WSM"), the bottom half thread, scanning,
joining, access point power save.

The build modelled is the SDIO one with `ATBM_WIFI_QUEUE_LOCK_BUG` and
`CONFIG_TX_NO_CONFIRM` as the Makefiles set them; an exception is said
where it matters.

## 1. Inventory

| component | state | operations | interacts through |
|---|---|---|---|
| transmit queue (`queue.c`, `queue.h`) | free pool, `queue`, `pending` lists, generations, per-interface and per-link counters, `overfull`, `tx_locked_cnt`, gc timer | put, get, requeue, remove, clear, gc, lock, unlock | called by transmitters, the bottom half, the receive path, timers, control threads; every operation under `queue->lock` |
| transmit admission (`util.c`, `apollo.h`, `queue.c`) | `queue_cap` per interface | join and leave change capacities; put stops, remove/gc/clear release | mac80211's stop flags |
| frame confirmation (`txrx.c`) | the packet ID in hand | look up, retry (EAPOL, off-channel action), remove | receive thread to queue |
| transmit lock and flush (`wsm.c`, `bh_sdio.c`) | `tx_lock`, `hw_bufs_used` (total and per interface) | `wsm_lock_tx`, `wsm_lock_tx_async`, `wsm_flush_tx`, `wsm_unlock_tx`, the SDIO transmit thread | control threads to the bottom half |
| rate policy cache (`txrx.c`) | 8 policies, usage counts, free and used lists | get, put, upload | transmitters and confirmations, queue locks |
| WSM command channel (`wsm.c`) | `wsm_cmd` (ptr, cmd, done, ret), `wsm_cmd_mux` | send, take by the bottom half, confirm, time out, halt | wait queues, receive thread |
| SDIO bottom half (`bh_sdio.c`) | input channel credits, `bh_suspend` states, `hw_bufs_used` | transmit loop, receive loop, suspend, resume, error release | `wsm_get_tx`, interrupt, bus |
| operation lock and scan (`scan.c`, `wsm.c`) | `scan` (lock, req, status, curr, in_progress, timeout), `wsm_oper_lock`, `wsm_pm_running`, `conf_mutex` | request, work, start, report, time out, stop, cancel by a restart; power mode, start of an interface | the work queue, WSM indications, timers, the restart |
| station (`sta.c`) | `join_status`, `mode`, interface list | join, unjoin, add/remove interface, link-loss recovery | all the above |
| access point (`ap.c`) | `link_id_map`, `sta_asleep_mask`, `buffered_multicasts`, `tx_multicast`, `aid0_bit_set`, `mcast_timeout` | station added, removed, asleep, awake; frame, DTIM report, timer, start and stop of the announcement | transmit selection (`wsm_get_tx`), firmware events, the work queue |
| host power management (`pm.c`) | wake locks, per-interface suspend state | suspend, resume | kernel PM, bottom half |
| device restart (`apollo_sdio.c`) | restart flag | stop, clear, reload, restart | everything |

What makes it hard: four kinds of threads share the queues; packets are named by
IDs that outlive the slots they name; the WARN_ON and BUG_ON statements of the code
state invariants that hold across several critical sections; flushing and locking
the transmit path is a protocol between a counter, a work item and a thread; WSM
commands time out while their confirmation may still arrive; firmware events come
late, and scanning, joining and remain-on-channel compete for one radio.

The properties that make each component correct:

* *transmit queue*: lists are well formed; a packet ID that passes the checks names
  the frame it was issued for; a frame is freed once; the counters are exact; stops
  and wakes balance; no wake-up is lost.
* *admission*: the free pool never runs empty under a transmitter; no interface is
  stopped for ever.
* *transmit lock*: after a successful flush nothing is in the device; lock and unlock
  balance; a flush ends.
* *rate policy cache*: usage counts equal the frames that use an entry; the queue
  locks taken when the cache is full are released.
* *WSM commands*: one command at a time; a confirmation is delivered to the command
  it answers; no caller waits for ever.
* *SDIO bottom half*: buffers in use never exceed the input channels; suspend and
  resume always end.
* *operation lock and scan*: the semaphore is given back as often as it is taken; what a
  scan takes is given back once; an accepted scan is reported, whatever the firmware does;
  nobody waits for ever.
* *access point*: while a station sleeps, what is buffered is announced; the window for multicast
  opens only under an announcement; what is buffered is sent.

The vendored and generated parts (the mac80211 fork, NimBLE, the menu configurator,
firmware images) are left out: `PROJECT.json` lists every component and the reason.

## 2. Modules

### TxQueue: one hardware queue and its users

State variables have the names of the fields of `struct atbm_queue`, `atbm_queue_item`
and `atbm_queue_stats`. `where` says which of the three lists a slot is on, `ahead`
gives the order of `queue->queue` as the set of items in front of each item. `bh`,
`rx` and `device` are what actors carry *between* critical sections: the packet the
bottom half has taken from the queue, the packet whose confirmation is being handled,
and the packets the firmware may still confirm.

| action | code |
|---|---|
| `Put` | `atbm_queue_put` |
| `Get` | `wsm_get_tx` up to `atbm_queue_get`, off-channel mark of `wsm_handle_tx_data` |
| `BhFree` | drop of `wsm_handle_tx_data`, `atbm_sdio_free_tx_wsm`, failed write |
| `BhSend` | write of a frame that asks for a confirmation |
| `Confirm`, `RxRemove`, `RxRequeue` | the three steps of `atbm_tx_confirm_cb` |
| `ClearVif` | flush and clear of `atbm_remove_interface` |
| `ClearAll`, `TxQueuesLock`, `TxQueuesUnlock` | device restart |
| `Gc` | the timer of an interface, `atbm_queue_gc` |

Abstractions: one of the four hardware queues (they share the generation-independent
statistics object only through sums); an skb is a model value with its interface and
link; which free slot is used next is left open; how many frames expire at a firing
of the timer is left open. `FreshGeneration`, a guard of the clear of one interface,
says that the 4-bit queue generation does not wrap within the life of one packet.

### TxAdmission: capacities and the shared pool

Only numbers: how many slots each of the two interfaces holds, its capacity, its
overfull flag, and how many CPUs are between mac80211's stop check and
`atbm_queue_put`. `Join` and `Unjoin` change capacities under filled queues as
`atbm_set_priv_queue_cap` and `atbm_clear_priv_queue_cap` do; the order of the
assignments within them is one action, the transient value is at most the larger
of the two. The fallbacks for an interface being removed concurrently are left out.

### TxLock: locking and flushing the transmit path

The SDIO transmit thread is a program counter (`bhpc`) with one step per place where
another thread may come in between: taking a command or a frame (`wsm_get_tx`, with its
loop over the two interfaces and `if_pending`), counting it in `hw_bufs_used`, taking the
credit, giving an unconfirmed frame's buffer back, writing the batch. Around it: transmitters,
the timer that drops old frames, one command sender, the firmware and the receive path, the
threads that lock, flush and unlock, those that take an interface down and add it again, and
the device restart.

| action | code |
|---|---|
| `BhWake` ... `BhWriteFails` | `atbm_sdio_wait_action`, `atbm_sdio_tx_bh`, `wsm_get_tx`, `wsm_handle_tx_data`, `wsm_txed` |
| of these, the search: `BhCheck`, `BhNotEnabled`, `BhPickNone`, `BhFind`, `BhPick`, `BhGetFails`, `BhDrop` | the loop of `wsm_get_tx` and each of its exits |
| `Enqueue`, `Expire` | `atbm_tx`, `atbm_queue_gc` |
| `LockAsync`, `LockSync`, `Flush`, `SyncFlush`, `VifFlush`, `FlushDone`, `FlushTimeout`, `Unlock` | `wsm_lock_tx_async`, `wsm_lock_tx`, `wsm_vif_lock_tx`, `wsm_flush_tx`, `wsm_vif_flush_tx`, `wsm_unlock_tx` |
| `Disable`, `ClearQueues`, `Unlist`, `AddInterface` | `atbm_remove_interface` with `__atbm_flush`, `atbm_add_interface` |
| `FwXmit` | the firmware frees an input buffer (external) |
| `RxAnswer`, `RxCmd`, `RxVif`, `RxFrame` | `atbm_rx_directly`, `wsm_handle_rx`, `wsm_tx_confirm`, `atbm_tx_confirm_cb` |
| `RestartLock`, `RestartReset`, `RestartUnlock` | `__atbm_sdio_lmac_restart` |

`wsm_get_tx` may leave frames that could be sent, and the thread sleep on them: an interface that is
listed but not enabled ends the search at once (`wsm.c:3223`), and a frame that vanished before
`atbm_queue_get` or was dropped by `wsm_handle_tx_data` sets `if_pending` to 0, so that the interface is
not looked at again (`wsm.c:3260-3272`). The history variable `left` holds the interfaces which the last
search gave up in one of these ways; `NoLostWakeup` says that there is no other. `late` and `overtaken`
are history variables too.

Abstractions: a wake-up is part of the action that gives it; a thread that nests locks is two lockers;
`atbm_sdio_force_free_wsm` is one step; frames held back by power save are not on a queue; a batch is full
at any time; the firmware answers a packet only after it freed the input buffer; the middle part of the
restart, with both threads stopped, is one step; it succeeds. A frame is put only while its interface is
up, as one step: mac80211 has stopped the senders of an interface before it calls
`atbm_remove_interface`. The lock and flush of the interface which `__atbm_flush` nests in those of
`atbm_remove_interface` are left out: `tx_lock` is held then, so that they neither raise it from 0 nor
free it. A thread of `Remover` does nothing but take its interface down and add it again. Command
timeouts are left out.

### WsmRpc and WsmCmd: the firmware command channel

`WsmRpc` is the promise of `wsm_cmd_send`: one call at a time; a call may be refused, may fail at
any time, and returns an answer only after its own answer has come. `WsmCmd` is the code: the sender
with `wsm_cmd_mux` and its wait, the transmit thread with its three looks at `wsm_cmd.ptr`, the
receive path, and the halt and restart of the device. One step per critical section of
`wsm_cmd.lock`, and one per access without it.

| action | code |
|---|---|
| `Begin`, `Refuse`, `Post`, `Wait`, `TimeOut`, `GiveUp`, `Halt`, `Finish` | `wsm_cmd_lock`, `wsm_cmd_send`, `atbm_bh_halt` |
| `BhSee`, `BhTake`, `BhCopy`, `BhTxed` | `wsm_get_tx`, `atbm_sdio_tx_bh`, `wsm_txed` |
| `BhWrite`, `BhTerm`, `BhWriteFails`, `BhHalt` | the end of the batch in `atbm_sdio_tx_bh`, `atbm_sdio_force_free_wsm` |
| `RxGet`, `RxTake`, `RxDrop`, `RxDone` | `atbm_sdio_rx_bh`, `wsm_handle_rx` |
| `DeviceHalts` | `atbm_bh_halt` by a flush or a bus error |
| `StopTx`, `StopRx`, `Restart` | end of the transmit thread, `__atbm_sdio_lmac_restart` |

`answered` and `result` are history variables; the mapping to `WsmRpc` reads the holder of the mutex
and whether the answer accepted last was to its call. Calls are told apart although the driver
does not: the code matches an answer by its command only, and whether that is enough is the question.
Assumptions: the firmware answers a command it was given once or never, and sends no other
confirmation; a write that fails delivers nothing; what the firmware has not answered at a
restart is lost. `Restart` requires that no call is in progress, as the driver does: it has flushed
its work queues and holds `rtnl_lock` (`apollo_sdio.c:1335`). The window between `atbm_pluged` and
`bh_halt` within it is merged into that step. Left out: the commands that ask for no confirmation,
the mutex held by `wsm_lock_tx` (`TxLock` has it), the contents of answers.

### Scan: scanning and the operation lock

Four threads: `mac` (mac80211's call of `atbm_hw_scan`), `wq` (the single worker), `user` (any configuration
call that takes `conf_mutex`) and `bh` (the transmit thread, of which only the restart is here). `pc` says where
each one is; `may` chooses at the start which kinds of trouble a behaviour has.

| action | code |
|---|---|
| `HwScan` ... `HwScanQueue` | `atbm_hw_scan` |
| `ScanWork`, `ScanDone`, `ScanFinish`, `ScanBegin`, `ScanOper` ... `ScanFail` | `atbm_scan_work`, `atbm_scan_start`, `wsm_scan` |
| `ScanTimeout`, `StopSend`, `StopConfirmed`, `StopFailed` | `atbm_scan_timeout`, `wsm_stop_scan` |
| `OpBegin` ... `OpCancel`, `WaitScan`, `WaitConf` | `wsm_set_pm`, `wsm_start`, `atbm_wait_scan_complete_sync` |
| `PmTimer`, `RxPm`, `DestroyPm` | `atbm_pm_timer`, `wsm_set_pm_indication`, `atbm_destroy_wsm_cmd` |
| `RxConfirm`, `RxScanComplete`, `ScanCompleteCb` | `wsm_handle_rx`, `wsm_scan_complete_indication`, `atbm_scan_complete_cb` |
| `RestartBegin` ... `RestartUp`, `FlushBegin`, `FlushEnd`, `DestroyScan` | `__atbm_sdio_lmac_restart`, `atbm_destroy_wsm_cmd`, `atbm_flush_workqueue` |
| `FwCommand`, `FwScanComplete`, `FwPmIndication`, `FwDies` | the firmware (external) |

`report` is what mac80211 was told of each scan; `awaited` (a scan whose confirmation came and whose
indication has not) and `heard` are history. Abstractions: a firmware command is atomic but for the wait for
its answer (`WsmCmd` has the details); one batch of channels per scan; scheduled scans, P2P and remain on
channel are off, as in the default build; the firmware does not reject `wsm_stop_scan`; while it runs it answers
`wsm_set_pm` within the timer's two seconds; it dies at most once; the time-out of a scan comes before
the report of a running firmware only in behaviours with `late`.

### ApMcast: buffered multicast of an access point

Five parties: transmitters, the transmit thread between `wsm_get_tx` and `atbm_queue_get`, the receive
path, the timer `mcast_timeout` and the worker. All but the worker work under `ps_state_lock`; one step per
critical section of it, and one per step of the worker, which uses the TX lock instead.

| action | code |
|---|---|
| `StaAdd`, `StaRemove`, `TxAuth`, `StaNotify` | `atbm_sta_add`, `atbm_sta_remove`, `atbm_tx_h_pm`, `__atbm_sta_notify` |
| `Tx`, `Expire` | `atbm_tx` for a multicast frame, `atbm_queue_gc` |
| `BhWake` | the transmit thread is woken and calls `wsm_get_tx` |
| `BhKeptOut` | `wsm_get_tx` ends before the access point is looked at: TX is locked, or the other interface comes first and is not enabled |
| `BhSelect` | the part of `wsm_get_tx` under `ps_state_lock`, with `wsm_get_tx_queue_and_mask` |
| `BhGet`, `BhLose` | `atbm_queue_get` and `wsm_handle_tx_data`: a frame is taken; or it is gone or dropped, and the search goes on with the other interface or ends |
| `DtimStart`, `DtimDelTimer`, `DtimStop`, `FwUnicast` | `atbm_suspend_resume`, `wsm_suspend_resume_indication` |
| `McastTimeout` | `atbm_mcast_timeout` |
| `StartWork`, `StopWork`, `Lock`, `Announce`, `StartTimer`, `Withdraw`, `Unlock` | `atbm_multicast_start_work`, `atbm_multicast_stop_work`, `atbm_set_tim_impl` |
| `SetTim`, `SetTimWork` | `atbm_set_tim`, `atbm_set_tim_work` |

`FwLinks` are the links an indication for unicast may name. `wsm_suspend_resume_indication` leaves
`link_id` uninitialized when the first interface is the access point, so that it may be any link, one
without a station too: the passing run has link 0 and link 2. Abstractions: the wake-up by a command
(`wsm_map_link`) and by the authentication frame itself is part of the action that causes it; frames for stations
appear only as a choice of the selection; the update of the beacon succeeds, and the beacon does not change while
something is announced; the firmware reports the start of a DTIM window only while a station sleeps, its end at any time.
The access point itself stays up. The other interface appears only in what it does to the search: it has frames, has none, or is
not enabled. Buffers and space in the device are left to `TxLock`.

`bh` tells three kinds of sleep apart: `asleep` after a search that found nothing or met the TX lock, `gaveup` after one that lost a
frame of the access point on the way, `barred` after one which the other interface kept from looking. In the last two the code
does leave multicast frames queued with nobody asleep and no wake-up due. `OnItsWay` says that it does so in no other case, and
`McastEnds` exempts what cannot end then: an interface that stays barred for ever, and `buffered_multicasts` when the last
frame expired on the way.

`TxLock` and `WsmCmd` describe the same transmit thread at different grains: `TxLock` has one command
whose sender never gives up, `WsmCmd` has nothing but commands, data frames appearing only as what a
command that was withdrawn too late is taken for.

## 3. Runs

| run | question | bounds |
|---|---|---|
| `tx_queue` | the queue invariants under every interleaving | 2 slots, 3 frames of 2 interfaces and 2 links, 3 generations, 1 and 2 retries |
| `tx_queue_bh_drop` | can the bottom half always remove the frame it just took? (no) | same |
| `tx_admission` | bounds, no stop without frames, every stop ends | pool 16, capacities 3, 13, 7, two CPUs |
| `tx_admission_steady` | the pool never runs empty without join and leave | same |
| `tx_admission_join` | nor with them? (no) | same |
| `tx_lock` | buffer accounting, credits, wake-ups, what a flush is worth, a lock ends | 2 frames (one confirmed) of 2 interfaces, a command, 2 input buffers; a thread that locks for the first interface, one that takes the second down and adds it again |
| `wsm_cmd` | does the command channel keep its promise, does every call end? | 2 senders, 3 calls of which 2 carry the same command |
| `wsm_cmd_seen` | is a command still there when the lock is taken? (no) | same |
| `scan` | is the operation lock exact, is every scan reported and none made a success by another's report, does nobody wait for ever? | 2 scans, 3 messages on their way; behaviours with power mode changes, with late reports besides, or with a firmware that dies |
| `scan_pm_dies` | is the wake lock given back once when both meet? (no) | same, power mode changes and a firmware that dies |
| `ap_mcast` | is what is buffered announced, does the window open and close right, is it sent? | 2 stations, 2 frames, stray links 0 and 2 |
| `ap_mcast_timeout` | does an expired announcement mean that all was sent? (no) | 1 station, 2 frames, no stray links |

Two slots and three frames are enough for a slot to be reused while an ID of its
former frame is outstanding, for two interfaces to hold frames at once, for one of them
to be stopped by its own capacity and by the pool limit, and for a frame to be requeued
ahead of another. The capacities are chosen so that both thresholds of each
(`cap - NCpu` and `cap*2/3`) are reached and differ. `SYMMETRY` is used over slots only,
in runs without liveness properties.

Two frames and a command in `tx_lock` fill the two input buffers and the batch, so that the thread
stops for lack of either. The first locker holds the lock while the second arrives, and the other way round; the second makes the
transmit thread meet an interface in each of its four states. Frames of one interface follow each other when one is
confirmed and queued again or put again, but two of them are never queued at once. The instance with two frames of one
interface was searched aside: the invariants held, and each of the three places where `left` grows was needed.

In `wsm_cmd` calls are used again when nothing remembers them, so the runs are unbounded in length.
Three calls suffice for the answer of one that timed out to meet another with the same command and
one with a different command; two senders for one to call while the other gives up.

In `scan` the second scan may be asked for while the end of the first is still being handled, its report still
on its way, its timeout queued, or the restart it led to in progress; three messages are a confirmation and the two indications.
A behaviour has power mode changes, or these and late reports, or a firmware that dies: a restart never meets a power mode change or
a late report. What that leaves out is wrong in the code or not covered here: with `wsm_set_pm`, the restart's release of
`wsm_oper_lock` for a power mode change (`DestroyPm` always finds `wsm_pm_running` false in the passing run), of which `scan_pm_dies` shows
what it does together with the error path; with late reports, the two ways described below in which the lock is given back twice or never.
In `ap_mcast` one station can sleep while the other is awake, and one frame be taken while another waits, which is what
the conditions on `sta_asleep_mask` and `more` tell apart; a station may come, sleep, wake and leave without bound.

Deadlock checking is off in the queue runs: an idle driver stops. It is off in the scan runs, where the number of
scans is bounded and `OperationsEnd` and `ScanEnds` say more. It is on in the `tx_lock`, `wsm_cmd` and `ap_mcast` runs.

Fairness. `LockingEnds` assumes weak fairness of the transmit thread (it is runnable once woken),
of the firmware and the receive thread (every packet written is answered unless the device is
halted), of the restart of a halted device, and of the end of a wait whose condition holds (the
waiter is woken, or its timer makes it look again). The middle of the restart is assumed with strong fairness, since what it
waits for, the transmit thread asleep, comes and goes while frames are put: the restart tells the thread to stop, and
it does so the next time it comes to `atbm_sdio_wait_action`, which the model has as going to sleep. Nothing is assumed of
transmitters, lockers, timeouts, failures, or the removal of interfaces. `StoppedIsWoken` assumes weak fairness of `Remove`: as long as an interface holds
frames, the bottom half transmits and confirms them. Nothing is assumed of timers,
transmitters or joins. `CallsEnd` assumes weak fairness of the sender alone, whose wait has a
time limit: neither the firmware, nor the two threads, nor a restart need do anything.

`ScanEnds` and `OperationsEnd` assume strong fairness of each thread, because they wait in `down`, `mutex_lock` and
`wait_event`, which grant a semaphore or mutex in order of arrival and pass over no one for ever; weak fairness of the worker's
next item, of timers, and of a firmware that runs. A firmware that does not run owes nothing, and whether a further scan or operation begins is open.

`McastEnds` assumes weak fairness of the worker, the transmit thread and the timers, and of DTIM reports while a station
sleeps ("Firmware sends this indication every DTIM ..." in `ap.c`); and strong fairness, within the window, of each step of the
transmit thread towards a frame of the access point: waking (while TX is not locked), selecting, and getting or losing the frame. The
window stays open for many turns of a woken thread, and the interfaces are looked at in turn. It is about behaviours in which stations some time stop
changing their state and the other interface stops to bar the search, and exempts those in which a link without a station is said to sleep (no
DTIM reports come for that one) and a last frame that expired on the way.

### What the violations show

* `tx_queue_bh_drop`: `atbm_queue_clear` for one interface advances the generation of the queue shared
  by both, and `wsm_flush_tx` before it returns at once while the only frame in transit is in the hands of
  the bottom half, not yet counted in `hw_bufs_used`. The frame of the *other* interface then has a stale
  ID: its removal fails under a `BUG_ON` (`wsm.c:3010`), and it stays on the pending list.
* `tx_admission_join`: a joining interface is granted half of the pool while the other
  one may already hold almost all of it. The pool limit stops the joining one but the
  timer, set to fire at once, releases it because its own count is low, so that the
  pool is filled and `BUG_ON(atbm_queue_put(...))` (`txrx.c:1476`) is reached.
* `wsm_cmd_seen`: the sender's wait ends while the transmit thread stands between its unlocked
  look at `wsm_cmd.ptr` and the lock; the sender sets it to NULL and `BUG_ON(!hw_priv->wsm_cmd.ptr)` follows.
* `scan_pm_dies`: the firmware stops answering during `wsm_set_pm`. The timer (2 s) gives the wake lock and
  `wsm_oper_lock` back before the command gives up, and the error path of `wsm_set_pm` gives them back again without
  looking at `wsm_pm_running`. The wake lock's count (in builds with `CONFIG_WAKELOCK`) falls below zero, which is a `BUG_ON`
  (`pm.c:303`); `wsm_oper_lock` is up twice in every build, so that two operations may hold it from then on.
* `ap_mcast_timeout`: no station sleeps, frames are queued, and the transmit thread resets `buffered_multicasts` when it
  selects the first of them. A station falls asleep before the others are taken; nothing announces these. The comment of
  `atbm_mcast_timeout` ("Maybe all Sta have been in wake state ...") takes them for sent. They stay until another multicast frame
  comes, all stations wake, or they expire. `Announced` and `McastEnds` of the passing run are therefore about
  `buffered_multicasts`, and not about the queue.

The models have more behaviours of this kind, for which no run is kept. In `TxQueue`, the confirmation of a frame
whose generation a clear has advanced meets the `WARN_ON` at `txrx.c:1670`. In `TxLock`, a frame passes the check
of `tx_lock`, another thread locks and flushes with success, and the frame is written after that (`OneLateFrame`
and `FlushLeavesOneAtMost` say that it is one); and after a frame was dropped the transmit thread may sleep with
another one queued, and so after a frame that expired between its selection and `atbm_queue_get`, and with a frame of an interface that comes
second to one being removed (the three exits in `left`; `gaveup` and `barred` in `ApMcast`). In `WsmCmd`, an answer that comes at the very end of the wait is
written to the variable of a caller that has returned. In `Scan`, a report that comes after its timeout is taken for
that of the next scan, which is then told a success before its own report has come; `SuccessIsReported` says that such a report is still not
counted twice, and that without late reports each success is the scan's own. With `late` and
`dies` together, a scan can time out, be stopped and be reported, and the firmware die before its indication: no restart looks
for a scan then, and `wsm_oper_lock` stays taken.

## 4. Proofs

`TxQueueProofs` proves for every number of slots, frames, interfaces and links that the
seven invariants of `tx_queue` hold. The inductive invariant is

    IdInv == TypeOK /\ ListsWellFormed /\ CurrentIDIsItsFrame /\ OneOwnerPerItem

`CurrentIDIsItsFrame` alone is not inductive: that a removal of one packet leaves the IDs of
the others valid needs that no two outstanding packets name one item, and that a put takes
a slot no current packet names needs the lists. `LocksExact` is inductive with the types;
`CountersExact` needs `IdInv` (a removal decrements the counters of the interface in the
packet ID, which is the frame's) and the finiteness of the pool; `NoLostWakeup` is proved by
way of `Releasable`, which states it on the counters, and `CountersExact`.

`TxAdmissionProofs` proves the bounds of an interface under any joins and leaves, and for
fixed capacities that the pool never runs empty (`SteadyPutNeverFails`). The inductive
invariant bounds, for each interface, the frames it holds by `Admitted(cap)` while it is not
stopped and frames plus CPUs in flight by `Admitted(cap) + NCpu`; the sum of the two bounds fits
the pool by `FitAssumption`. The driver's numbers (pool 256, capacities 16, 224, 120) meet
the assumption with up to 16 CPUs.

`TxLockProofs` proves, for any number of frames, lockers and input buffers, the accounting and
the credits of the transmit path. The inductive invariant is

    IInv == Types /\ LockCount /\ LateInv /\ OnePlace /\ CommandInv
            /\ UsedExact /\ VifExact /\ CreditInv

`UsedExact` and `VifExact` are the two halves of `BuffersExact`. A count changes by one only
when the packet was not (or was) counted already, which is `OnePlace`: the packet in the transmit
thread's hands, the confirmed packet of the batch, the answers the firmware owes and the answer
being handled are all different. `LockCount` says that `tx_lock` is the number of threads
that hold it, from which it never goes below zero. `LateInv` bounds the frames counted
under the lock by what the transmit thread has already checked, `CommandInv` the same for a posted
command. `CreditInv` says that credits and packets in the channel fit the input buffers *while
the device is not halted*: a halted device gets credits it has no buffers for, and the
restart takes them away before anything is written.

`TxLockFlushProofs` rests on that invariant and proves what a flush is worth and that no wake-up is lost. A flush that succeeds
has seen `hw_bufs_used` at 0, or no frame pending. In the first case `UsedExact` says that no packet is owed and the
transmit thread holds none it has counted, so that a pending frame is in the hands of one of the two threads
(`Placed`, `DrainedInHand`). The lock then keeps the transmit thread from another pick, and if it is past the check of the lock
already, it has picked none (`AfterFlush`): one frame at most is left. The invariant for the sleep,

    WakeInv == PendingFlag /\ CommandSeen /\ Emptied /\ LookedAt

says at each place of the transmit thread what it has found on its way to sleep and what may have changed since *without*
setting `wakeup`: nothing, since enqueuing, posting a command, the unlock that frees the lock and the release
of a buffer of a full device all set it (`LookedAtQuiet` is the step of anyone else). `Emptied` says the same of an interface whose queues were
cleared: nothing is put there until it is added again. An interface the thread has passed over without having looked is in `left`, which the
three exits of the search set and which only the next search, or a frame taken, resets.

`WsmCmdProofs` proves, for any senders, calls and commands, the three invariants of `wsm_cmd` and that
`WsmCmd` implements `WsmRpc` (`ImplementsRpcCorrect`). The inductive invariant is

    IInv == TypeOK /\ Holder /\ Posted /\ OneCall /\ OnePlace /\ Seen
            /\ Quiescent /\ Completed /\ Restarting

The refinement needs, at one step only, that the answer the receive path accepts is to the call in
progress although only the commands were compared. That is `OneCall`: whatever is on its way while the
mutex is held belongs to its holder. It is kept when a call begins because then nothing is on its way
(`Quiescent`), which a call that gives up ensures by halting the device, and the restart
(`Restarting`) by stopping both threads before the device runs again. `Completed` says that a sender
is completed by its own answer or by a release, `Seen` that the transmit thread loses sight of a
command only when it is given up.

`ApMcastProofs` proves, for any number of stations and frames and any stray links, the four invariants of `ap_mcast`
and `WindowAnnounced`. The inductive invariant is

    IInv == TypeOK /\ Bounded /\ Distinct /\ TimInv
            /\ WindowHasFrames /\ OnItsWay /\ Announcing

`Announced` counts a start that is under way, which a stop queued behind it would undo; `Announcing` says that none
is. It holds because `multicast_start_work` cancels a pending stop before anything else, and because a stop is queued only with
`buffered_multicasts` reset or nobody asleep, after which it takes a new start. The cancelling removes *the* stop because
an item is queued once (`Distinct`), which three lemmas about the queue keep. `WindowAnnounced` follows from
`TimInv`: the worker sets the beacon before `aid0_bit_set` and clears it after.

`ScanProofs` proves, for any number of scans and messages and *any* sets in `MayHappen`, that a scan is ended once. The inductive
invariant is

    IInv == Types /\ Distinct /\ ConfOwner /\ LastPending /\ ScanLockOwner
            /\ OneReporter /\ OneTimeout /\ Requested /\ TxHeld
            /\ Progress /\ Barrier /\ Restarting

`OneReporter` is its heart: of the queued work, the timeout (its timer or its work) and the two threads that may be in them,
exactly one has the pending scan to report, and none when no scan is pending. `ScanHoldsExact` follows because only the
reporter gives `scan.lock` and the TX lock back. The hard step is `DestroyScan`, where a restart cancels the timeout and ends the scan
itself: were the worker starting that scan, both would report it. `Restarting` says that it is not. The flush before it has seen
the worker idle (`Barrier`); a scan that was in progress then has been begun, and no other can be, since with the device down
the template command of `atbm_hw_scan` fails. Nothing is assumed of the firmware.

`ScanOperProofs` proves, for any number of scans and messages and *any* sets in `MayHappen`, that a report makes one scan a success at
most (`OneReportEach`). The firmware is asked for a scan once, so that it reports it once (`Fresh`); and the reports that have reached
the driver cover the successes mac80211 was told of and the one that is due, a report being handled or a scan that will end with
success (`Used`). Under the
hypothesis that follows it proves, besides, `OperLockExact`, `SuccessIsReported` and `TypeOK`.

    Alone == \A m \in MayHappen : "dies" \in m => m \cap {"pm", "late"} = {}

which the sets of the `scan` run satisfy: a behaviour may have power mode changes and late reports in any combination, or a
firmware that dies, not both. The driver does not ensure it: the theorems say what holds when a power mode change or a late report does not
meet a restart, and without it they are false. With "pm" and "dies" `OperLockExact` is false (run `scan_pm_dies` shows the wake
lock's part of it). With "late" and "dies" a scan can time out while its report waits in the receive path; the firmware dies, `wsm_stop_scan`
fails and gives `wsm_oper_lock` back, and the handler of the report gives it back again (`OperLockExact`, `TypeOK`); or the
firmware dies between the stop and the report, and the lock stays taken. The inductive invariant is that of
`ScanProofs` and

    LInv == RxSeq /\ DataTypes /\ Regime /\ Device /\ SecondPass /\ Caller
            /\ Mail /\ OperOwner /\ AwakeExact /\ Begun /\ Numbered
            /\ ScanInTime /\ HeardInTime

`OperOwner` says that `wsm_oper_lock` is free or has one owner: a thread in a call, a scan whose confirmation was handled, or
`wsm_pm_running`. The owner changes without the semaphore being touched (`RxConfirm`, `OpSend`) and the semaphore is given back by
threads that never took it, so the invariant must say that the one who gives back *is* the owner. For a report of the firmware that
is `Mail`: one report is on its way or owed only while a scan owns the lock, or its confirmation is in front of the report in `rx`.
For the failure to stop it is `ScanInTime`: a scan owns the lock as long as it runs and while it is stopped, and it is stopped only
when the firmware has died with no report left. A scan is started only by the owner of the lock, so that the report the
firmware then owes is that of the last scan (`HeardInTime`). `SecondPass` is about the restart: the second call of
`atbm_destroy_wsm_cmd` comes after the restart was inside `scan.lock`, so no scan is pending, and with the device down none can be begun. `Regime` is what `Alone`
amounts to in each state. TLC checked `LInv` with three scans, and with each of {}, {"pm"}, {"late"}, {"pm", "late"} and {"dies"},
before it was proved. Of the constants `MayAssumption` says only which kinds of trouble there are.

Model-checked only: the liveness properties (fairness and ENABLED are out of the prover's reach) and, of course, the violations.

## 5. Not modelled

`PROJECT.json` gives the reason for each component. The largest parts are the mac80211 fork and the NimBLE host (third-party
code, the environment of the driver), firmware images kept as arrays in headers, the USB and SPI transports (not in this build) and
the user interfaces (private commands, ioctl, debug files), which parse and print. Of the modelled components the following
is left out: a restart that fails and the download of the firmware; suspend and resume for wake on LAN; joining and leaving a
network, but for what it does to queues and capacities; the upload of beacons; remain on channel and P2P; the 32-bit counters behind
the credits; the frame formats.

## 6. Plan

1. `SdioCredit`: credits of the input channels with their 32-bit counters. Proof: no overrun across the wrap of the counters.
2. Composition `TxPath`: `TxQueue` with `TxLock`, so that the flush of `ClearVif` is the real one.
3. `StaJoin`: joining, unjoining and loss of the link against scans and restarts, on top of `Scan`.
4. `TxPolicy`: the rate policy cache, which the Makefile's default compiles out
   (`CONFIG_RATE_HW_CONTROL`).
