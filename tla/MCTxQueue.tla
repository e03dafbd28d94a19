----------------------------- MODULE MCTxQueue -----------------------------
(* Instances of TxQueue for TLC: two interfaces, two links.                *)
EXTENDS TxQueue, TLC

CONSTANTS sta, ap, f1, f2, f3, i1, i2

MCVif == {sta, ap}
MCVifOf == (f1 :> sta @@ f2 :> sta @@ f3 :> ap)
MCLinkOf == (f1 :> 0 @@ f2 :> 1 @@ f3 :> 0)

\* Thresholds that two slots can reach: sta is stopped at 2 frames and released
\* at 1, ap is stopped at 1 and released at 0.  The reserve of NCpu slots only
\* shifts the thresholds; TxAdmission is about it.
MCQueueCap == (sta :> 2 @@ ap :> 1)

\* The slots of the pool are interchangeable: no action orders them.
ItemSymmetry == Permutations(Item)
=============================================================================
