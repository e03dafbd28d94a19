-------------------------------- MODULE WsmCmd --------------------------------
(***************************************************************************)
(* The firmware command channel (wsm_cmd_send, wsm_handle_rx in wsm.c).    *)
(*                                                                         *)
(* A sender holds wsm_cmd_mux, fills the shared buffer wsm_cmd_buf, posts  *)
(* it in wsm_cmd and waits.  The transmit thread takes the command from    *)
(* wsm_cmd.ptr and writes it, the receive path matches an answer with      *)
(* wsm_cmd.cmd and completes the sender.  A sender whose time is up        *)
(* withdraws its command and halts the device; so do others.  The restart  *)
(* of a halted device stops both threads and releases the sender.          *)
(*                                                                         *)
(* Every access under wsm_cmd.lock is one step, and so is every access     *)
(* without it.  A call is a member of Call, so that the answers of two     *)
(* calls with the same command can be told apart; one is used again when   *)
(* nothing remembers it.  The firmware is external: it answers a command   *)
(* once, or never.                                                         *)
(***************************************************************************)
EXTENDS Naturals, FiniteSets

CONSTANTS
  Sender,  \* threads that send commands
  Call,    \* calls of wsm_cmd_send
  Op,      \* the command of each call
  NoCmd,   \* 0xFFFF
  None     \* no call, no thread

ASSUME CallAssumption ==
  /\ None \notin Call \cup Sender
  /\ \A c \in Call : Op[c] # NoCmd

VARIABLES
  mux,       \* holder of wsm_cmd_mux
  call,      \* the call its holder makes
  pc,        \* where each sender is
  ptr,       \* wsm_cmd.ptr # NULL (it always points to wsm_cmd_buf)
  buf,       \* the call whose command wsm_cmd_buf holds
  arg,       \* wsm_cmd.arg: the call it belongs to
  cmd,       \* wsm_cmd.cmd
  done, ret, \* wsm_cmd.done and wsm_cmd.ret
  bhpc,      \* where the transmit thread is
  bhcur,     \* the call whose command it has copied to xmit_buff
  owed,      \* calls whose command was written and is not answered
  rxpc,      \* where the receive path is
  rxcur,     \* the call whose answer it handles
  rxarg,     \* wsm_arg of wsm_handle_rx
  halted,    \* atbm_bh_is_term
  restart,   \* the device restart: "no", "tx" (thread stopped) or "cleared"
  answered,  \* the call whose answer was accepted last
  result     \* what each sender's last call returned

cmdVars == <<ptr, buf, arg, cmd, done, ret>>
bhVars  == <<bhpc, bhcur>>
rxVars  == <<rxpc, rxcur, rxarg, answered>>
sndVars == <<mux, call, pc, result>>
vars == <<sndVars, cmdVars, bhVars, owed, rxVars, halted, restart>>

Init ==
  /\ mux = None /\ call = None
  /\ pc = [t \in Sender |-> "idle"]
  /\ ptr = FALSE /\ buf = None /\ arg = None
  /\ cmd = NoCmd /\ done = TRUE /\ ret = "error"
  /\ bhpc = "idle" /\ bhcur = None
  /\ owed = {}
  /\ rxpc = "idle" /\ rxcur = None /\ rxarg = None
  /\ halted = FALSE
  /\ restart = "no"
  /\ answered = None
  /\ result = [t \in Sender |-> "none"]

-----------------------------------------------------------------------------
(* Senders.                                                                *)

MoveTo(t, place) == pc' = [pc EXCEPT ![t] = place]

\* wsm_cmd_lock, and wsm_cmd_send finds the device alive ...
Begin(t, c) ==
  /\ mux = None /\ ~halted
  /\ c \notin owed \cup {bhcur, buf, rxcur, rxarg}
  /\ mux' = t /\ call' = c
  /\ MoveTo(t, "begun")
  /\ answered' = None
  /\ UNCHANGED <<cmdVars, bhVars, owed, rxpc, rxcur, rxarg, halted, restart,
                 result>>

\* ... or gone.
Refuse(t) ==
  /\ mux = None /\ halted
  /\ result' = [result EXCEPT ![t] = "error"]
  /\ UNCHANGED <<mux, call, pc, cmdVars, bhVars, owed, rxVars, halted, restart>>

\* wsm_cmd is filled and the transmit thread woken.
Post(t) ==
  /\ pc[t] = "begun"
  /\ ptr' = TRUE /\ buf' = call /\ arg' = call
  /\ cmd' = Op[call]
  /\ done' = FALSE
  /\ MoveTo(t, "posted")
  /\ UNCHANGED <<mux, call, result, ret, bhVars, owed, rxVars, halted, restart>>

\* The sender waits, unless the device is gone.
Wait(t) ==
  /\ pc[t] = "posted"
  /\ MoveTo(t, IF halted THEN "late" ELSE "wait")
  /\ UNCHANGED <<mux, call, result, cmdVars, bhVars, owed, rxVars, halted,
                 restart>>

\* A faulty TimeOut: only a command that is not taken times out.
TimeOutUnsent(t) ==
  /\ pc[t] = "wait" /\ ~done /\ ptr
  /\ MoveTo(t, "late")
  /\ UNCHANGED <<mux, call, result, cmdVars, bhVars, owed, rxVars, halted,
                 restart>>

\* The wait ends with wsm_cmd.done not set.
TimeOut(t) ==
  /\ pc[t] = "wait" /\ ~done
  /\ MoveTo(t, "late")
  /\ UNCHANGED <<mux, call, result, cmdVars, bhVars, owed, rxVars, halted,
                 restart>>

\* A faulty GiveUp: a command that was not taken stays posted.
GiveUpKeepsPtr(t) ==
  /\ pc[t] = "late"
  /\ arg' = None /\ cmd' = NoCmd
  /\ done' = TRUE /\ ret' = "error"
  /\ MoveTo(t, "halt")
  /\ UNCHANGED <<mux, call, result, ptr, buf, bhVars, owed, rxVars, halted,
                 restart>>

\* The command is withdrawn, whatever has happened to it since the wait ended.
GiveUp(t) ==
  /\ pc[t] = "late"
  /\ ptr' = FALSE /\ arg' = None /\ cmd' = NoCmd
  /\ done' = TRUE /\ ret' = "error"
  /\ MoveTo(t, "halt")
  /\ UNCHANGED <<mux, call, result, buf, bhVars, owed, rxVars, halted, restart>>

\* wsm_cmd_send returns: wsm_buf_reset, wsm_cmd_unlock.
Leave(t, outcome) ==
  /\ buf' = None
  /\ mux' = None /\ call' = None
  /\ MoveTo(t, "idle")
  /\ result' = [result EXCEPT ![t] = outcome]

\* A faulty Halt: the device is left running.
HaltNot(t) ==
  /\ pc[t] = "halt"
  /\ Leave(t, "error")
  /\ UNCHANGED <<ptr, arg, cmd, done, ret, bhVars, owed, rxVars, halted, restart>>

\* atbm_bh_halt, and the call returns -ETIMEDOUT.
Halt(t) ==
  /\ pc[t] = "halt"
  /\ halted' = TRUE
  /\ Leave(t, "error")
  /\ UNCHANGED <<ptr, arg, cmd, done, ret, bhVars, owed, rxVars, restart>>

\* The wait ends with wsm_cmd.done set, and the call returns wsm_cmd.ret.
Finish(t) ==
  /\ pc[t] = "wait" /\ done
  /\ Leave(t, ret)
  /\ UNCHANGED <<ptr, arg, cmd, done, ret, bhVars, owed, rxVars, halted, restart>>

\* A sender goes on with its call.
Step(t) == \/ Post(t) \/ Wait(t) \/ TimeOut(t) \/ GiveUp(t) \/ Halt(t)
           \/ Finish(t)

-----------------------------------------------------------------------------
(* The transmit thread.                                                    *)

\* wsm_get_tx looks at wsm_cmd.ptr without the lock ...
BhSee ==
  /\ bhpc = "idle" /\ ptr /\ restart = "no"
  /\ bhpc' = "seen"
  /\ UNCHANGED <<sndVars, cmdVars, bhcur, owed, rxVars, halted, restart>>

\* ... and again with it: BUG_ON(!wsm_cmd.ptr).
BhTake ==
  /\ bhpc = "seen"
  /\ bhpc' = IF ptr THEN "got" ELSE "bug"
  /\ UNCHANGED <<sndVars, cmdVars, bhcur, owed, rxVars, halted, restart>>

\* The command is copied; an empty buffer has not the length it had:
\* BUG_ON(wsm_tx->len != tx_len).
BhCopy ==
  /\ bhpc = "got"
  /\ bhcur' = buf
  /\ bhpc' = IF buf = None THEN "bug" ELSE "copied"
  /\ UNCHANGED <<sndVars, cmdVars, owed, rxVars, halted, restart>>

\* wsm_txed.  What is no longer wsm_cmd.ptr is taken for a data frame, which
\* has a queue (a BUG_ON otherwise) and may ask for a confirmation ("write") or
\* not ("frame").  The comparison and the reset under the lock are one step: in
\* between, ptr could only have been reset by others.
BhTxed ==
  /\ bhpc = "copied"
  /\ bhpc' \in IF ptr THEN {"write"} ELSE {"write", "frame", "bug"}
  /\ bhcur' = IF bhpc' = "bug" THEN None ELSE bhcur
  /\ ptr' = FALSE
  /\ UNCHANGED <<sndVars, buf, arg, cmd, done, ret, owed, rxVars, halted,
                 restart>>

\* A faulty BhWrite: the thread does not let go of the command.
BhWriteKeeps ==
  /\ bhpc \in {"write", "frame"} /\ ~halted
  /\ owed' = owed \cup {bhcur}
  /\ bhpc' = "idle"
  /\ UNCHANGED <<sndVars, cmdVars, bhcur, rxVars, halted, restart>>

\* atbm_data_write.
BhWrite ==
  /\ bhpc \in {"write", "frame"} /\ ~halted
  /\ owed' = owed \cup {bhcur}
  /\ bhpc' = "idle" /\ bhcur' = None
  /\ UNCHANGED <<sndVars, cmdVars, rxVars, halted, restart>>

\* A faulty Release: a command that was taken is not released.
ReleaseUntaken ==
  IF cmd # NoCmd /\ ptr
  THEN /\ ret' = "error" /\ done' = TRUE
       /\ cmd' = NoCmd /\ ptr' = FALSE /\ arg' = None
  ELSE UNCHANGED <<ret, done, cmd, ptr, arg>>

\* atbm_sdio_release_err_cmd, and the last case of atbm_sdio_force_free_wsm: a
\* command that is not answered fails.
Release ==
  IF cmd # NoCmd
  THEN /\ ret' = "error" /\ done' = TRUE
       /\ cmd' = NoCmd /\ ptr' = FALSE /\ arg' = None
  ELSE UNCHANGED <<ret, done, cmd, ptr, arg>>

\* atbm_sdio_force_free_wsm for the packet that ends the batch.
ForceFree ==
  IF bhpc = "write" THEN Release ELSE UNCHANGED <<ret, done, cmd, ptr, arg>>

\* The device is gone before the write ...
BhTerm ==
  /\ bhpc \in {"write", "frame"} /\ halted
  /\ ForceFree
  /\ bhpc' = "idle" /\ bhcur' = None
  /\ UNCHANGED <<sndVars, buf, owed, rxVars, halted, restart>>

\* ... or the write fails, with nothing delivered, and the thread halts it.
BhWriteFails ==
  /\ bhpc \in {"write", "frame"} /\ ~halted
  /\ ForceFree
  /\ bhpc' = "failed" /\ bhcur' = None
  /\ UNCHANGED <<sndVars, buf, owed, rxVars, halted, restart>>

BhHalt ==
  /\ bhpc = "failed"
  /\ halted' = TRUE
  /\ bhpc' = "idle"
  /\ UNCHANGED <<sndVars, cmdVars, bhcur, owed, rxVars, restart>>

Bh == BhSee \/ BhTake \/ BhCopy \/ BhTxed \/ BhWrite \/ BhTerm \/ BhWriteFails
      \/ BhHalt

-----------------------------------------------------------------------------
(* The receive path.                                                       *)

\* An answer is read and passed to wsm_handle_rx, unless the device is gone.
RxGet(c) ==
  /\ rxpc = "idle" /\ ~halted
  /\ owed' = owed \ {c}
  /\ rxpc' = "got" /\ rxcur' = c
  /\ UNCHANGED <<sndVars, cmdVars, bhVars, rxarg, answered, halted, restart>>

\* It takes the argument and the command out of wsm_cmd ...
RxTake ==
  /\ rxpc = "got" /\ cmd = Op[rxcur]
  /\ cmd' = NoCmd
  /\ rxarg' = arg
  /\ answered' = rxcur
  /\ rxpc' = "confirm"
  /\ UNCHANGED <<sndVars, ptr, buf, arg, done, ret, bhVars, owed, rxcur, halted,
                 restart>>

\* ... or the command only, when the answer is to another one.
RxDrop ==
  /\ rxpc = "got" /\ cmd # Op[rxcur]
  /\ cmd' = NoCmd
  /\ rxpc' = "idle" /\ rxcur' = None
  /\ UNCHANGED <<sndVars, ptr, buf, arg, done, ret, bhVars, owed, rxarg,
                 answered, halted, restart>>

\* The answer is written to the argument, the sender completed.
RxDone ==
  /\ rxpc = "confirm"
  /\ ret' = "answer" /\ done' = TRUE
  /\ rxpc' = "idle" /\ rxcur' = None /\ rxarg' = None
  /\ UNCHANGED <<sndVars, ptr, buf, arg, cmd, bhVars, owed, answered, halted,
                 restart>>

Rx == (\E c \in owed : RxGet(c)) \/ RxTake \/ RxDrop \/ RxDone

-----------------------------------------------------------------------------
(* Halt and restart of the device.                                         *)

\* atbm_bh_halt, called by a flush that timed out or by a bus error.
DeviceHalts ==
  /\ halted' = TRUE
  /\ UNCHANGED <<sndVars, cmdVars, bhVars, owed, rxVars, restart>>

\* __atbm_sdio_lmac_restart stops the transmit thread, which releases the
\* command as it ends ...
StopTx ==
  /\ halted /\ restart = "no" /\ bhpc = "idle"
  /\ restart' = "tx"
  /\ Release
  /\ UNCHANGED <<sndVars, buf, bhVars, owed, rxVars, halted>>

\* ... then the receive thread, and releases what was posted meanwhile.  What
\* the firmware has not answered is forgotten.
StopRx ==
  /\ restart = "tx" /\ rxpc = "idle"
  /\ restart' = "cleared"
  /\ Release
  /\ owed' = {}
  /\ UNCHANGED <<sndVars, buf, bhVars, rxVars, halted>>

\* The work queues are flushed and rtnl_lock is held: no call is in progress,
\* and none begins until the firmware is loaded and bh_halt is 0 again.
Restart ==
  /\ restart = "cleared" /\ mux = None
  /\ restart' = "no"
  /\ halted' = FALSE
  /\ UNCHANGED <<sndVars, cmdVars, bhVars, owed, rxVars>>

-----------------------------------------------------------------------------
Next ==
  \/ \E t \in Sender : \/ \E c \in Call : Begin(t, c)
                       \/ Refuse(t) \/ Step(t)
  \/ Bh
  \/ Rx
  \/ DeviceHalts \/ StopTx \/ StopRx \/ Restart

Spec == Init /\ [][Next]_vars

\* A sender goes on with its call: its wait has a time limit.
FairSpec == Spec /\ \A t \in Sender : WF_vars(Step(t))

-----------------------------------------------------------------------------
(* Properties.                                                             *)

TypeOK ==
  /\ mux \in Sender \cup {None} /\ call \in Call \cup {None}
  /\ pc \in [Sender -> {"idle", "begun", "posted", "wait", "late", "halt"}]
  /\ ptr \in BOOLEAN /\ done \in BOOLEAN
  /\ {buf, arg, rxcur, rxarg, answered} \subseteq Call \cup {None}
  /\ cmd \in {Op[c] : c \in Call} \cup {NoCmd}
  /\ ret \in {"answer", "error"}
  /\ bhpc \in {"idle", "seen", "got", "copied", "write", "frame", "failed",
               "bug"}
  /\ bhcur \in IF bhpc \in {"copied", "write", "frame"} THEN Call ELSE {None}
  /\ owed \subseteq Call
  /\ rxpc \in {"idle", "got", "confirm"}
  /\ halted \in BOOLEAN
  /\ restart \in {"no", "tx", "cleared"}
  /\ result \in [Sender -> {"none", "answer", "error"}]

\* BUG_ON(wsm_cmd.ptr) of wsm_cmd_send is not reached: whatever ended the call
\* before (its answer, a failed write, a halt, a restart, its time-out), its
\* command is not left posted.
NoStalePtr == \A t \in Sender : pc[t] = "begun" => ~ptr

\* The restart does not wait for a time-out: once both threads are stopped, a
\* sender that waits has been completed, by its answer or by the restart.
RestartReleases ==
  restart = "cleared" => \A t \in Sender : pc[t] = "wait" => done

RpcState ==
  [t \in Sender |-> IF mux # t THEN "idle"
                    ELSE IF answered = call THEN "answered" ELSE "called"]

Rpc == INSTANCE WsmRpc WITH state <- RpcState

\* The command channel keeps the promise of wsm_cmd_send: one call at a time,
\* and what is returned as an answer is the answer to this very call, not to an
\* earlier one with the same command that timed out.
ImplementsRpc == Rpc!Spec

\* A call of wsm_cmd_send ends, also when the device is halted under it.
CallsEnd == \A t \in Sender : pc[t] # "idle" ~> pc[t] = "idle"

\* "BUG_ON(!hw_priv->wsm_cmd.ptr)" of wsm_get_tx: a command that was seen is
\* still there when the lock is taken.
SeenIsThere == bhpc = "seen" => ptr
=============================================================================
