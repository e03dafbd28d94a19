------------------------------- MODULE MCWsmCmd -------------------------------
(* Two of three calls carry the same command.                              *)
EXTENDS WsmCmd, TLC

CONSTANTS s1, s2, c1, c2, c3, setKey, writeMib

MCOp == (c1 :> writeMib) @@ (c2 :> writeMib) @@ (c3 :> setKey)
=============================================================================
