------------------------------ MODULE MCTxLock ------------------------------
(* An instance of TxLock for TLC: a frame that is confirmed and one that is *)
(* not, of two interfaces, a thread that locks for the first interface and  *)
(* one that takes the second down and adds it again.                        *)
EXTENDS TxLock, TLC

CONSTANTS confirmed, unconfirmed, t1, t2

MCVifOf == (confirmed :> 0 @@ unconfirmed :> 1)
MCLockerVif == (t1 :> 0 @@ t2 :> 1)
=============================================================================
