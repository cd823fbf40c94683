--------------------------- MODULE MCVsyncPrepare ---------------------------
(***************************************************************************)
(* VsyncPrepare on graphics cards with three connectors and two CRTCs:     *)
(* connectors with one encoder of any kind, or with two of which the first *)
(* works with fewer CRTCs than the second.                                 *)
(***************************************************************************)
EXTENDS VsyncPrepare

OneEncoder  == [1 .. 1 -> SUBSET Crtc]
TwoEncoders == {<<{}, {0, 1}>>, <<{0}, {1}>>, <<{0}, {0, 1}>>}
Lists       == OneEncoder \cup TwoEncoders

============================================================================
