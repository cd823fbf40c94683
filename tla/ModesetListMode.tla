--------------------------- MODULE ModesetListMode ---------------------------
(***************************************************************************)
(* modeset_list_mode.c: modeset.c cut short.  modeset_setup_dev() prints   *)
(* the modes and returns, before it looks for a CRTC, and main() returns   *)
(* after modeset_prepare(); what follows in both is never reached.         *)
(***************************************************************************)
EXTENDS Modeset

OpenList == Open

SkipInList == NoResources \/ SkipConnector

\* The device is linked into the list with neither CRTC nor buffer.
ListModes ==
  /\ More
  /\ modeset_list' = modeset_list \cup {i}
  /\ NextConnector
  /\ UNCHANGED <<envVars, phase, todo, devVars, round, display>>

EndList ==
  /\ phase = "prepare" /\ ~More
  /\ phase' = "done"
  /\ UNCHANGED <<envVars, i, modeset_list, todo, devVars, round, display>>

ListModeNext ==
  /\ program = "list_mode"
  /\ OpenList \/ SkipInList \/ ListModes \/ EndList

==============================================================================
