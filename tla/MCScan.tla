------------------------------- MODULE MCScan -------------------------------
(* Instances of Scan for TLC: what may happen in one behaviour.             *)
EXTENDS Scan

MCMayHappen == {{"pm"}, {"pm", "late"}, {"dies"}}
MCPmDies    == {{"pm", "dies"}}
=============================================================================
