---------------------------- MODULE MCVsyncFlip ----------------------------
(***************************************************************************)
(* VsyncFlip with two outputs: enough for one output to be closed while    *)
(* the other goes on flipping.                                             *)
(***************************************************************************)
EXTENDS VsyncFlip

CONSTANTS o1, o2

TwoOutputs == {o1, o2}
CallFaults == {"SetCrtc", "PageFlip"}

============================================================================
