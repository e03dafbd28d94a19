-------------------------------- MODULE WsmRpc --------------------------------
(***************************************************************************)
(* What wsm_cmd_send promises its callers: one command at a time, and a    *)
(* command that returns the firmware's answer returns the answer to itself.*)
(* It may fail at any time, also after it was answered.                    *)
(***************************************************************************)

CONSTANT Sender  \* threads that send commands

VARIABLES
  state,  \* of each sender: "idle", "called" or "answered"
  result  \* what its last call returned: "none", "answer" or "error"

vars == <<state, result>>

Init ==
  /\ state = [t \in Sender |-> "idle"]
  /\ result = [t \in Sender |-> "none"]

AllIdle == \A t \in Sender : state[t] = "idle"

Send(t) ==
  /\ AllIdle
  /\ state' = [state EXCEPT ![t] = "called"]
  /\ UNCHANGED result

\* The driver refuses a call.
Refuse(t) ==
  /\ AllIdle
  /\ result' = [result EXCEPT ![t] = "error"]
  /\ UNCHANGED state

\* The firmware's answer to the call of t arrives.
Answer(t) ==
  /\ state[t] = "called"
  /\ state' = [state EXCEPT ![t] = "answered"]
  /\ UNCHANGED result

Return(t) ==
  /\ state[t] = "answered"
  /\ state' = [state EXCEPT ![t] = "idle"]
  /\ result' = [result EXCEPT ![t] = "answer"]

Fail(t) ==
  /\ state[t] # "idle"
  /\ state' = [state EXCEPT ![t] = "idle"]
  /\ result' = [result EXCEPT ![t] = "error"]

Next ==
  \E t \in Sender : Send(t) \/ Refuse(t) \/ Answer(t) \/ Return(t) \/ Fail(t)

Spec == Init /\ [][Next]_vars
=============================================================================
