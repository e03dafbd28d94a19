---------------------------- MODULE WsmCmdProofs ----------------------------
(***************************************************************************)
(* Proofs about the command channel, for any senders, calls and commands.  *)
(*                                                                         *)
(* The properties are not inductive: that a call is not completed by the   *)
(* answer to another one rests on the device being halted, and restarted,  *)
(* before the next call begins.  IInv says so: while a call is in progress *)
(* everything on its way belongs to it (OneCall), it is at one place only  *)
(* (OnePlace), and when nothing is in progress on a running device nothing *)
(* is on its way (Quiescent).                                              *)
(***************************************************************************)
EXTENDS WsmCmd, TLAPS

\* Where the holder of wsm_cmd_mux is.
Place == IF mux = None THEN "idle" ELSE pc[mux]

\* wsm_cmd_mux excludes all other senders; the buffer holds its command.
Holder ==
  /\ mux = None <=> call = None
  /\ \A t \in Sender : pc[t] # "idle" <=> mux = t
  /\ buf = IF Place \in {"posted", "wait", "late", "halt"} THEN call ELSE None

\* What is posted is the command of the call in progress.
Posted ==
  /\ cmd # NoCmd => Place \in {"posted", "wait", "late"} /\ cmd = Op[call]
  /\ ptr => cmd # NoCmd

OneCall == mux # None => owed \cup {bhcur, rxcur} \subseteq {call, None}

\* A command is posted, or copied, or written, or being answered.
OnePlace ==
  /\ rxpc = "idle" <=> rxcur = None
  /\ rxpc # "idle" => bhcur = None /\ owed = {}
  /\ \A c, d \in owed : c = d
  /\ bhcur # None => owed = {}
  /\ bhpc \in {"write", "frame"} => ~ptr
  /\ bhpc \in {"seen", "got"} \/ ptr => owed = {} /\ rxpc = "idle"

\* The transmit thread has the command it saw, unless the call was given up.
Seen ==
  /\ bhpc \in {"seen", "got", "copied"} => ptr \/ halted \/ Place = "halt"
  /\ bhpc \in {"frame", "bug"} => halted \/ Place = "halt"

\* Nothing is on its way, and the transmit thread has no command.
Quiet ==
  /\ ~ptr /\ owed = {} /\ rxpc = "idle"
  /\ bhpc \in {"idle", "failed"}

Quiescent ==
  /\ Place = "begun" => Quiet
  /\ ~halted /\ (mux = None \/ (Place \in {"posted", "wait"} /\ done))
       => Quiet

\* A call that was not completed is posted or being answered; one that was
\* completed by an answer was completed by its own.
Completed ==
  /\ Place \in {"posted", "wait"} /\ ~done => cmd # NoCmd \/ rxpc = "confirm"
  /\ Place \in {"posted", "wait"} /\ done /\ ret = "answer" => answered = call
  /\ Place \in {"posted", "wait"} /\ done => cmd = NoCmd
  /\ rxpc = "confirm" => cmd = NoCmd /\ answered = rxcur

Restarting ==
  /\ restart # "no" => halted /\ bhpc = "idle"
  /\ restart = "cleared" =>
       owed = {} /\ rxpc = "idle" /\ (Place = "wait" => done)

\* What the release of a command leaves of the types.
LEMMA ReleaseType ==
  ASSUME TypeOK, Release
  PROVE  /\ ptr' \in BOOLEAN /\ done' \in BOOLEAN
         /\ arg' \in Call \cup {None}
         /\ cmd' \in {Op[c] : c \in Call} \cup {NoCmd}
         /\ ret' \in {"answer", "error"}
<1>1. CASE cmd # NoCmd
  BY <1>1 DEF TypeOK, Release
<1>2. CASE cmd = NoCmd
  BY <1>2 DEF TypeOK, Release
<1> QED BY <1>1, <1>2

IInv ==
  /\ TypeOK /\ Holder /\ Posted /\ OneCall /\ OnePlace /\ Seen /\ Quiescent
  /\ Completed /\ Restarting

-----------------------------------------------------------------------------
(* Each step preserves the invariant.  The first step of a proof has the   *)
(* parts that are preserved by themselves.                                 *)

LEMMA InitInv == Init => IInv
BY CallAssumption DEF Init, IInv, TypeOK, Holder, Posted, OneCall,
     OnePlace, Seen, Quiescent, Completed, Restarting, Quiet, Place

\* A call begins on a running device with nothing on its way.
LEMMA BeginInv ==
  ASSUME IInv, NEW t \in Sender, NEW c \in Call, Begin(t, c)
  PROVE  IInv'
<1>1. TypeOK' /\ Posted' /\ OnePlace' /\ Seen' /\ Quiescent' /\ Restarting'
  BY DEF IInv, TypeOK, Posted, OnePlace, Seen, Quiescent, Restarting,
     Quiet, Place, Begin, MoveTo, sndVars, cmdVars, bhVars, rxVars
<1>2. Holder'
  BY CallAssumption DEF IInv, TypeOK, Holder, Place, Begin, MoveTo,
     sndVars, cmdVars, bhVars, rxVars
<1>3. OneCall'
  BY DEF IInv, TypeOK, OneCall, OnePlace, Quiescent, Quiet, Place, Begin,
     MoveTo, sndVars, cmdVars, bhVars, rxVars
<1>4. Completed'
  BY DEF IInv, TypeOK, Quiescent, Completed, Quiet, Place, Begin, MoveTo,
     sndVars, cmdVars, bhVars, rxVars
<1> QED BY <1>1, <1>2, <1>3, <1>4 DEF IInv

LEMMA RefuseInv ==
  ASSUME IInv, NEW t \in Sender, Refuse(t)
  PROVE  IInv'
BY DEF IInv, TypeOK, Holder, Posted, OneCall, OnePlace, Seen, Quiescent,
   Completed, Restarting, Quiet, Place, Refuse, sndVars, cmdVars,
   bhVars, rxVars

\* The posted command is the only thing on its way.
LEMMA PostInv ==
  ASSUME IInv, NEW t \in Sender, Post(t)
  PROVE  IInv'
<1>1. OneCall' /\ Seen'
  BY DEF IInv, OneCall, Seen, Place, Post, MoveTo, sndVars, cmdVars,
     bhVars, rxVars
<1>2. TypeOK'
  BY CallAssumption DEF IInv, TypeOK, Holder, Place, Post, MoveTo,
     sndVars, cmdVars, bhVars, rxVars
<1>3. Holder'
  BY DEF IInv, TypeOK, Holder, Place, Post, MoveTo, sndVars, cmdVars,
     bhVars, rxVars
<1>4. Posted'
  BY CallAssumption DEF IInv, TypeOK, Holder, Posted, Place, Post, MoveTo,
     sndVars, cmdVars, bhVars, rxVars
<1>5. OnePlace'
  BY CallAssumption DEF IInv, Holder, OnePlace, Quiescent, Quiet, Place,
     Post, MoveTo, sndVars, cmdVars, bhVars, rxVars
<1>6. Quiescent'
  BY CallAssumption DEF IInv, TypeOK, Holder, Quiescent, Quiet, Place,
     Post, MoveTo, sndVars, cmdVars, bhVars, rxVars
<1>7. Completed'
  BY CallAssumption DEF IInv, TypeOK, Holder, Quiescent, Completed, Quiet,
     Place, Post, MoveTo, sndVars, cmdVars, bhVars, rxVars
<1>8. Restarting'
  BY DEF IInv, Holder, Restarting, Place, Post, MoveTo, sndVars, cmdVars,
     bhVars, rxVars
<1> QED BY <1>1, <1>2, <1>3, <1>4, <1>5, <1>6, <1>7, <1>8 DEF IInv

LEMMA WaitInv ==
  ASSUME IInv, NEW t \in Sender, Wait(t)
  PROVE  IInv'
BY DEF IInv, TypeOK, Holder, Posted, OneCall, OnePlace, Seen, Quiescent,
   Completed, Restarting, Quiet, Place, Wait, MoveTo, sndVars, cmdVars,
   bhVars, rxVars

LEMMA TimeOutInv ==
  ASSUME IInv, NEW t \in Sender, TimeOut(t)
  PROVE  IInv'
BY DEF IInv, TypeOK, Holder, Posted, OneCall, OnePlace, Seen, Quiescent,
   Completed, Restarting, Quiet, Place, TimeOut, MoveTo, sndVars,
   cmdVars, bhVars, rxVars

\* A withdrawn command is halted next.
LEMMA GiveUpInv ==
  ASSUME IInv, NEW t \in Sender, GiveUp(t)
  PROVE  IInv'
<1>0. TypeOK' /\ Holder'
  BY DEF IInv, TypeOK, Holder, Place, GiveUp, MoveTo, sndVars, cmdVars,
     bhVars, rxVars
<1>1. Posted' /\ OneCall' /\ OnePlace' /\ Completed' /\ Restarting'
  BY DEF IInv, TypeOK, Holder, Posted, OneCall, OnePlace, Completed,
     Restarting, Place, GiveUp, MoveTo, sndVars, cmdVars, bhVars, rxVars
<1>2. Seen'
  BY CallAssumption DEF IInv, TypeOK, Holder, Seen, Place, GiveUp, MoveTo,
     sndVars, cmdVars, bhVars, rxVars
<1>3. Quiescent'
  BY DEF IInv, Holder, Quiescent, Quiet, Place, GiveUp, MoveTo, sndVars,
     cmdVars, bhVars, rxVars
<1> QED BY <1>0, <1>1, <1>2, <1>3 DEF IInv

LEMMA HaltInv ==
  ASSUME IInv, NEW t \in Sender, Halt(t)
  PROVE  IInv'
<1>1. TypeOK' /\ OneCall' /\ OnePlace' /\ Seen' /\ Quiescent' /\ Completed'
      /\ Restarting'
  BY DEF IInv, TypeOK, OneCall, OnePlace, Seen, Quiescent, Completed,
     Restarting, Quiet, Place, Halt, Leave, MoveTo, sndVars, cmdVars,
     bhVars, rxVars
<1>2. Holder'
  BY CallAssumption DEF IInv, TypeOK, Holder, Place, Halt, Leave, MoveTo,
     sndVars, cmdVars, bhVars, rxVars
<1>3. Posted'
  BY DEF IInv, Holder, Posted, Place, Halt, Leave, MoveTo, sndVars,
     cmdVars, bhVars, rxVars
<1> QED BY <1>1, <1>2, <1>3 DEF IInv

\* A completed call leaves nothing behind on a running device.
LEMMA FinishInv ==
  ASSUME IInv, NEW t \in Sender, Finish(t)
  PROVE  IInv'
<1>1. TypeOK' /\ OneCall' /\ OnePlace' /\ Completed' /\ Restarting'
  BY DEF IInv, TypeOK, OneCall, OnePlace, Completed, Restarting, Place,
     Finish, Leave, MoveTo, sndVars, cmdVars, bhVars, rxVars
<1>2. Holder'
  BY CallAssumption DEF IInv, TypeOK, Holder, Place, Finish, Leave,
     MoveTo, sndVars, cmdVars, bhVars, rxVars
<1>3. Posted'
  BY DEF IInv, Holder, Posted, Completed, Place, Finish, Leave, MoveTo,
     sndVars, cmdVars, bhVars, rxVars
<1>4. Seen'
  BY DEF IInv, Holder, Seen, Place, Finish, Leave, MoveTo, sndVars,
     cmdVars, bhVars, rxVars
<1>5. Quiescent'
  BY DEF IInv, Holder, Quiescent, Quiet, Place, Finish, Leave, MoveTo,
     sndVars, cmdVars, bhVars, rxVars
<1> QED BY <1>1, <1>2, <1>3, <1>4, <1>5 DEF IInv

LEMMA BhSeeInv ==
  ASSUME IInv, BhSee
  PROVE  IInv'
<1>1. TypeOK' /\ Holder' /\ Posted'
  BY DEF IInv, TypeOK, Holder, Posted, Place, BhSee, sndVars, cmdVars,
     bhVars, rxVars
<1>2. OneCall' /\ OnePlace' /\ Completed' /\ Restarting'
  BY DEF IInv, Holder, OneCall, OnePlace, Completed, Restarting, Place,
     BhSee, sndVars, cmdVars, bhVars, rxVars
<1>3. Seen' /\ Quiescent'
  BY DEF IInv, Holder, Posted, Seen, Quiescent, Quiet, Place, BhSee,
     sndVars, cmdVars, bhVars, rxVars
<1> QED BY <1>1, <1>2, <1>3 DEF IInv

LEMMA BhTakeInv ==
  ASSUME IInv, BhTake
  PROVE  IInv'
<1>1. TypeOK' /\ Holder' /\ Posted'
  BY DEF IInv, TypeOK, Holder, Posted, Place, BhTake, sndVars, cmdVars,
     bhVars, rxVars
<1>2. OneCall' /\ OnePlace' /\ Completed' /\ Restarting'
  BY DEF IInv, Holder, OneCall, OnePlace, Completed, Restarting, Place,
     BhTake, sndVars, cmdVars, bhVars, rxVars
<1>3. Seen' /\ Quiescent'
  BY DEF IInv, Holder, Posted, Seen, Quiescent, Quiet, Place, BhTake,
     sndVars, cmdVars, bhVars, rxVars
<1> QED BY <1>1, <1>2, <1>3 DEF IInv

\* What is copied is the command of the call in progress.
LEMMA BhCopyInv ==
  ASSUME IInv, BhCopy
  PROVE  IInv'
<1>1. TypeOK' /\ Holder' /\ Posted' /\ OnePlace' /\ Quiescent' /\ Completed'
      /\ Restarting'
  BY DEF IInv, TypeOK, Holder, Posted, OnePlace, Quiescent, Completed,
     Restarting, Quiet, Place, BhCopy, sndVars, cmdVars, bhVars, rxVars
<1>2. OneCall'
  BY DEF IInv, Holder, OneCall, Place, BhCopy, sndVars, cmdVars, bhVars,
     rxVars
<1>3. Seen'
  BY DEF IInv, Holder, Posted, Seen, Place, BhCopy, sndVars, cmdVars,
     bhVars, rxVars
<1> QED BY <1>1, <1>2, <1>3 DEF IInv

LEMMA BhTxedInv ==
  ASSUME IInv, BhTxed
  PROVE  IInv'
<1>1. TypeOK' /\ Holder' /\ Posted'
  BY DEF IInv, TypeOK, Holder, Posted, Place, BhTxed, sndVars, cmdVars,
     bhVars, rxVars
<1>2. OneCall' /\ OnePlace' /\ Completed' /\ Restarting'
  BY DEF IInv, Holder, OneCall, OnePlace, Completed, Restarting, Place,
     BhTxed, sndVars, cmdVars, bhVars, rxVars
<1>3. Seen' /\ Quiescent'
  BY DEF IInv, Holder, Posted, Seen, Quiescent, Quiet, Place, BhTxed,
     sndVars, cmdVars, bhVars, rxVars
<1> QED BY <1>1, <1>2, <1>3 DEF IInv

LEMMA BhWriteInv ==
  ASSUME IInv, BhWrite
  PROVE  IInv'
<1>1. TypeOK' /\ Holder' /\ Posted' /\ OneCall' /\ Seen' /\ Quiescent' /\
      Completed' /\ Restarting'
  BY DEF IInv, TypeOK, Holder, Posted, OneCall, Seen, Quiescent,
     Completed, Restarting, Quiet, Place, BhWrite, sndVars, cmdVars,
     bhVars, rxVars
<1>2. OnePlace'
  BY CallAssumption DEF IInv, TypeOK, OnePlace, BhWrite, sndVars, cmdVars,
     bhVars, rxVars
<1> QED BY <1>1, <1>2 DEF IInv

LEMMA BhTermInv ==
  ASSUME IInv, BhTerm
  PROVE  IInv'
<1>1. Holder' /\ Posted' /\ OneCall' /\ OnePlace' /\ Seen' /\ Quiescent' /\
      Completed' /\ Restarting'
  BY DEF IInv, Holder, Posted, OneCall, OnePlace, Seen, Quiescent,
     Completed, Restarting, Quiet, Place, BhTerm, ForceFree, Release,
     sndVars, cmdVars, bhVars, rxVars
<1>2. TypeOK'
  BY ReleaseType DEF IInv, TypeOK, BhTerm, ForceFree, Release, sndVars,
     cmdVars, bhVars, rxVars
<1> QED BY <1>1, <1>2 DEF IInv

LEMMA BhWriteFailsInv ==
  ASSUME IInv, BhWriteFails
  PROVE  IInv'
<1>1. Holder' /\ Posted' /\ OneCall' /\ OnePlace' /\ Seen' /\ Completed' /\
      Restarting'
  BY DEF IInv, Holder, Posted, OneCall, OnePlace, Seen, Completed,
     Restarting, Place, BhWriteFails, ForceFree, Release, sndVars,
     cmdVars, bhVars, rxVars
<1>2. TypeOK'
  BY ReleaseType DEF IInv, TypeOK, BhWriteFails, ForceFree, Release,
     sndVars, cmdVars, bhVars, rxVars
<1>3. Quiescent'
  BY CallAssumption DEF IInv, TypeOK, OnePlace, Quiescent, Quiet, Place,
     BhWriteFails, ForceFree, Release, sndVars, cmdVars, bhVars, rxVars
<1> QED BY <1>1, <1>2, <1>3 DEF IInv

LEMMA BhHaltInv ==
  ASSUME IInv, BhHalt
  PROVE  IInv'
BY DEF IInv, TypeOK, Holder, Posted, OneCall, OnePlace, Seen, Quiescent,
   Completed, Restarting, Quiet, Place, BhHalt, sndVars, cmdVars,
   bhVars, rxVars

LEMMA RxGetInv ==
  ASSUME IInv, NEW c \in owed, RxGet(c)
  PROVE  IInv'
<1>1. TypeOK' /\ Holder' /\ Posted' /\ OneCall' /\ Seen' /\ Quiescent' /\
      Completed' /\ Restarting'
  BY DEF IInv, TypeOK, Holder, Posted, OneCall, Seen, Quiescent,
     Completed, Restarting, Quiet, Place, RxGet, sndVars, cmdVars, bhVars,
     rxVars
<1>2. OnePlace'
  BY CallAssumption DEF IInv, TypeOK, OnePlace, RxGet, sndVars, cmdVars,
     bhVars, rxVars
<1> QED BY <1>1, <1>2 DEF IInv

\* The answer taken is that of the call in progress.
LEMMA RxTakeInv ==
  ASSUME IInv, RxTake
  PROVE  IInv'
<1>1. TypeOK' /\ Holder' /\ OneCall' /\ OnePlace' /\ Seen' /\ Quiescent' /\
      Restarting'
  BY DEF IInv, TypeOK, Holder, OneCall, OnePlace, Seen, Quiescent,
     Restarting, Quiet, Place, RxTake, sndVars, cmdVars, bhVars, rxVars
<1>2. Posted'
  BY DEF IInv, Posted, OnePlace, Place, RxTake, sndVars, cmdVars, bhVars,
     rxVars
<1>3. Completed'
  BY CallAssumption DEF IInv, TypeOK, OnePlace, Completed, Place, RxTake,
     sndVars, cmdVars, bhVars, rxVars
<1> QED BY <1>1, <1>2, <1>3 DEF IInv

LEMMA RxDropInv ==
  ASSUME IInv, RxDrop
  PROVE  IInv'
<1>1. TypeOK' /\ Holder' /\ OneCall' /\ OnePlace' /\ Seen' /\ Quiescent' /\
      Restarting'
  BY DEF IInv, TypeOK, Holder, OneCall, OnePlace, Seen, Quiescent,
     Restarting, Quiet, Place, RxDrop, sndVars, cmdVars, bhVars, rxVars
<1>2. Posted'
  BY DEF IInv, Posted, OnePlace, Place, RxDrop, sndVars, cmdVars, bhVars,
     rxVars
<1>3. Completed'
  BY DEF IInv, Posted, OneCall, OnePlace, Completed, Place, RxDrop,
     sndVars, cmdVars, bhVars, rxVars
<1> QED BY <1>1, <1>2, <1>3 DEF IInv

\* The call in progress is completed by its own answer.
LEMMA RxDoneInv ==
  ASSUME IInv, RxDone
  PROVE  IInv'
<1>1. TypeOK' /\ Holder' /\ Posted' /\ OneCall' /\ OnePlace' /\ Seen' /\
      Restarting'
  BY DEF IInv, TypeOK, Holder, Posted, OneCall, OnePlace, Seen,
     Restarting, Place, RxDone, sndVars, cmdVars, bhVars, rxVars
<1>2. Quiescent'
  BY CallAssumption DEF IInv, TypeOK, OnePlace, Seen, Quiescent, Quiet,
     Place, RxDone, sndVars, cmdVars, bhVars, rxVars
<1>3. Completed'
  BY DEF IInv, OneCall, OnePlace, Completed, Place, RxDone, sndVars,
     cmdVars, bhVars, rxVars
<1> QED BY <1>1, <1>2, <1>3 DEF IInv

LEMMA DeviceHaltsInv ==
  ASSUME IInv, DeviceHalts
  PROVE  IInv'
BY DEF IInv, TypeOK, Holder, Posted, OneCall, OnePlace, Seen, Quiescent,
   Completed, Restarting, Quiet, Place, DeviceHalts, sndVars, cmdVars,
   bhVars, rxVars

LEMMA StopTxInv ==
  ASSUME IInv, StopTx
  PROVE  IInv'
<1>1. Holder' /\ Posted' /\ OneCall' /\ OnePlace' /\ Seen' /\ Quiescent' /\
      Completed' /\ Restarting'
  BY DEF IInv, Holder, Posted, OneCall, OnePlace, Seen, Quiescent,
     Completed, Restarting, Quiet, Place, StopTx, Release, sndVars,
     cmdVars, bhVars, rxVars
<1>2. TypeOK'
  BY ReleaseType DEF IInv, TypeOK, StopTx, Release, sndVars, cmdVars,
     bhVars, rxVars
<1> QED BY <1>1, <1>2 DEF IInv

LEMMA StopRxInv ==
  ASSUME IInv, StopRx
  PROVE  IInv'
<1>1. Holder' /\ Posted' /\ OneCall' /\ OnePlace' /\ Completed'
  BY DEF IInv, Holder, Posted, OneCall, OnePlace, Completed, Place,
     StopRx, Release, sndVars, cmdVars, bhVars, rxVars
<1>2. TypeOK'
  BY ReleaseType DEF IInv, TypeOK, StopRx, Release, sndVars, cmdVars,
     bhVars, rxVars
<1>3. Seen'
  BY DEF IInv, Seen, Restarting, Place, StopRx, Release, sndVars, cmdVars,
     bhVars, rxVars
<1>4. Quiescent'
  BY DEF IInv, Quiescent, Restarting, Quiet, Place, StopRx, Release,
     sndVars, cmdVars, bhVars, rxVars
<1>5. Restarting'
  BY DEF IInv, Completed, Restarting, Place, StopRx, Release, sndVars,
     cmdVars, bhVars, rxVars
<1> QED BY <1>1, <1>2, <1>3, <1>4, <1>5 DEF IInv

\* A device that runs again has forgotten everything.
LEMMA RestartInv ==
  ASSUME IInv, Restart
  PROVE  IInv'
<1>1. TypeOK' /\ Holder' /\ Posted' /\ OneCall' /\ OnePlace' /\ Completed'
      /\ Restarting'
  BY DEF IInv, TypeOK, Holder, Posted, OneCall, OnePlace, Completed,
     Restarting, Place, Restart, sndVars, cmdVars, bhVars, rxVars
<1>2. Seen'
  BY DEF IInv, Seen, Restarting, Place, Restart, sndVars, cmdVars, bhVars,
     rxVars
<1>3. Quiescent'
  BY DEF IInv, Posted, Quiescent, Restarting, Quiet, Place, Restart,
     sndVars, cmdVars, bhVars, rxVars
<1> QED BY <1>1, <1>2, <1>3 DEF IInv

LEMMA NextInv ==
  ASSUME IInv, [Next]_vars
  PROVE  IInv'
<1>1. CASE UNCHANGED vars
  BY <1>1 DEF vars, sndVars, cmdVars, bhVars, rxVars, IInv, TypeOK, Holder,
     Posted, OneCall, OnePlace, Seen, Quiescent, Completed, Restarting, Quiet,
     Place
<1>2. ASSUME NEW t \in Sender, NEW c \in Call, Begin(t, c)
      PROVE  IInv'
  BY <1>2, BeginInv
<1>3. ASSUME NEW t \in Sender, Refuse(t) \/ Step(t)
      PROVE  IInv'
  BY <1>3, RefuseInv, PostInv, WaitInv, TimeOutInv, GiveUpInv, HaltInv,
     FinishInv DEF Step
<1>4. CASE Bh
  BY <1>4, BhSeeInv, BhTakeInv, BhCopyInv, BhTxedInv, BhWriteInv, BhTermInv,
     BhWriteFailsInv, BhHaltInv DEF Bh
<1>5. CASE Rx
  BY <1>5, RxGetInv, RxTakeInv, RxDropInv, RxDoneInv DEF Rx
<1>6. CASE DeviceHalts \/ StopTx \/ StopRx \/ Restart
  BY <1>6, DeviceHaltsInv, StopTxInv, StopRxInv, RestartInv
<1> QED BY <1>1, <1>2, <1>3, <1>4, <1>5, <1>6 DEF Next

LEMMA InvCorrect == Spec => []IInv
<1>1. IInv /\ [Next]_vars => IInv'
  BY NextInv
<1> QED BY InitInv, <1>1, PTL DEF Spec

-----------------------------------------------------------------------------
(* The theorems.                                                           *)

\* wsm_cmd and the threads that share it keep their types; the transmit thread
\* has a packet in its hands exactly between the copy and the write.
THEOREM CmdTypeCorrect == Spec => []TypeOK
<1>1. IInv => TypeOK
  BY DEF IInv
<1> QED BY <1>1, InvCorrect, PTL

\* For any number of senders, BUG_ON(wsm_cmd.ptr) of wsm_cmd_send is not
\* reached.
THEOREM NoStalePtrCorrect == Spec => []NoStalePtr
<1>1. IInv => NoStalePtr
  BY CallAssumption
     DEF IInv, TypeOK, Holder, Quiescent, Quiet, Place, NoStalePtr
<1> QED BY <1>1, InvCorrect, PTL

\* For any number of senders, whoever waits when both threads are stopped was
\* completed.
THEOREM RestartReleasesCorrect == Spec => []RestartReleases
<1>1. IInv => RestartReleases
  BY CallAssumption DEF IInv, TypeOK, Holder, Restarting, Place, RestartReleases
<1> QED BY <1>1, InvCorrect, PTL

-----------------------------------------------------------------------------
(* The refinement.                                                         *)

\* A step that leaves the call in progress and its answer alone is no step of
\* the promise.
LEMMA Stutter ==
  ASSUME UNCHANGED <<mux, call, answered, result>>
  PROVE  UNCHANGED Rpc!vars
BY DEF Rpc!vars, RpcState

LEMMA BeginIsSend ==
  ASSUME IInv, NEW t \in Sender, NEW c \in Call, Begin(t, c)
  PROVE  Rpc!Send(t)
BY CallAssumption
   DEF Begin, MoveTo, Rpc!Send, Rpc!AllIdle, RpcState

LEMMA RefuseIsRefuse ==
  ASSUME IInv, NEW t \in Sender, Refuse(t)
  PROVE  Rpc!Refuse(t)
BY CallAssumption
   DEF Refuse, rxVars, Rpc!Refuse, Rpc!AllIdle, RpcState

\* The call fails, whether or not its answer has arrived.
LEMMA HaltIsFail ==
  ASSUME IInv, NEW t \in Sender, Halt(t)
  PROVE  Rpc!Fail(t)
BY CallAssumption
   DEF IInv, Holder, Halt, Leave, rxVars, Rpc!Fail, RpcState

\* A call that returns an answer returns its own.
LEMMA FinishIsReturn ==
  ASSUME IInv, NEW t \in Sender, Finish(t)
  PROVE  Rpc!Return(t) \/ Rpc!Fail(t)
<1>1. mux = t /\ Place = "wait" /\ mux' = None
  BY CallAssumption DEF IInv, Holder, Finish, Leave, Place
<1>2. RpcState' = [RpcState EXCEPT ![t] = "idle"]
  BY <1>1, CallAssumption DEF Finish, rxVars, RpcState
<1>3. RpcState[t] # "idle"
  BY <1>1 DEF RpcState
<1>4. CASE ret = "answer"
  <2>1. RpcState[t] = "answered"
    BY <1>1, <1>4 DEF IInv, Completed, Finish, RpcState
  <2> QED BY <1>2, <1>4, <2>1 DEF Finish, Leave, Rpc!Return
<1>5. CASE ret = "error"
  BY <1>2, <1>3, <1>5 DEF Finish, Leave, Rpc!Fail
<1> QED BY <1>4, <1>5 DEF IInv, TypeOK

\* The answer taken is that of the call in progress, whose command it matches.
LEMMA RxTakeIsAnswer ==
  ASSUME IInv, RxTake
  PROVE  (\E t \in Sender : Rpc!Answer(t)) \/ UNCHANGED Rpc!vars
<1>1. mux \in Sender /\ call = rxcur
  BY CallAssumption
     DEF IInv, TypeOK, Holder, Posted, OneCall, OnePlace, Place, RxTake
<1>2. CASE answered = call
  BY <1>1, <1>2, Stutter DEF RxTake, sndVars
<1>3. CASE answered # call
  <2>1. Rpc!Answer(mux)
    BY <1>1, <1>3 DEF RxTake, sndVars, Rpc!Answer, RpcState
  <2> QED BY <1>1, <2>1
<1> QED BY <1>2, <1>3

LEMMA StepRefines ==
  ASSUME IInv, [Next]_vars
  PROVE  [Rpc!Next]_Rpc!vars
<1>1. CASE UNCHANGED vars
  BY <1>1, Stutter DEF vars, sndVars, rxVars
<1>2. ASSUME NEW t \in Sender, NEW c \in Call, Begin(t, c)
      PROVE  Rpc!Next
  BY <1>2, BeginIsSend DEF Rpc!Next
<1>3. ASSUME NEW t \in Sender, Refuse(t) \/ Halt(t) \/ Finish(t)
      PROVE  Rpc!Next
  BY <1>3, RefuseIsRefuse, HaltIsFail, FinishIsReturn DEF Rpc!Next
<1>4. ASSUME NEW t \in Sender, Post(t) \/ Wait(t) \/ TimeOut(t) \/ GiveUp(t)
      PROVE  UNCHANGED Rpc!vars
  BY <1>4, Stutter DEF Post, Wait, TimeOut, GiveUp, rxVars
<1>5. CASE Bh
  BY <1>5, Stutter DEF Bh, BhSee, BhTake, BhCopy, BhTxed, BhWrite, BhTerm,
     BhWriteFails, BhHalt, sndVars, rxVars
<1>6. CASE Rx
  <2>1. ASSUME NEW c \in owed, RxGet(c)
        PROVE  UNCHANGED Rpc!vars
    BY <2>1, Stutter DEF RxGet, sndVars
  <2>2. CASE RxTake
    BY <2>2, RxTakeIsAnswer DEF Rpc!Next
  <2>3. CASE RxDrop \/ RxDone
    BY <2>3, Stutter DEF RxDrop, RxDone, sndVars
  <2> QED BY <1>6, <2>1, <2>2, <2>3 DEF Rx
<1>7. CASE DeviceHalts \/ StopTx \/ StopRx \/ Restart
  BY <1>7, Stutter DEF DeviceHalts, StopTx, StopRx, Restart, sndVars, rxVars
<1> QED BY <1>1, <1>2, <1>3, <1>4, <1>5, <1>6, <1>7 DEF Next, Step

\* For any senders, calls and commands, wsm_cmd_send with the threads that
\* share wsm_cmd keeps its promise: one call at a time, and an answer that is
\* returned is the answer to this call.
THEOREM ImplementsRpcCorrect == Spec => ImplementsRpc
<1>1. Init => Rpc!Init
  BY CallAssumption DEF Init, Rpc!Init, RpcState
<1>2. IInv /\ [Next]_vars => [Rpc!Next]_Rpc!vars
  BY StepRefines
<1> QED BY <1>1, <1>2, InvCorrect, PTL DEF Spec, ImplementsRpc, Rpc!Spec

=============================================================================
