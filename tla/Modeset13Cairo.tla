---------------------------- MODULE Modeset13Cairo ----------------------------
(***************************************************************************)
(* cairo/modeset13_cairo.c: modeset13.c with one line drawn by cairo on    *)
(* one output.  The functions that are the same text are the same actions. *)
(***************************************************************************)
EXTENDS Modeset

OpenCairo        == Open
PrepareCairo     == Prepare
FindCrtcCairo    == NoCrtcLeft
CreateFbCairo    == FbFails
SetupDeviceCairo == SetupDevice
MainCairo        == Main
CleanupCairo     == Cleanup

\* modeset_draw_cairo() draws on the head of the list, clipped to its buffer.
DrawLine ==
  /\ phase = "draw" /\ modeset_list # {}
  /\ phase' = "cleanup"
  /\ UNCHANGED <<envVars, i, modeset_list, todo, devVars, round, display>>

\* Without outputs there is no head.
DrawNothing ==
  /\ phase = "draw" /\ modeset_list = {}
  /\ Crash
  /\ UNCHANGED <<envVars, i, modeset_list, todo, devVars, round>>

CairoNext ==
  /\ program = "cairo"
  /\ \/ OpenCairo \/ PrepareCairo
     \/ FindCrtcCairo \/ CreateFbCairo \/ SetupDeviceCairo
     \/ MainCairo
     \/ DrawLine \/ DrawNothing
     \/ CleanupCairo

===============================================================================
