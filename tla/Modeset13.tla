------------------------------ MODULE Modeset13 ------------------------------
(***************************************************************************)
(* modeset13.c: modeset.c with the mode chosen on the command line and     *)
(* three rectangles, one inside the other, instead of the colours.  The    *)
(* functions that are the same text are the same actions.                  *)
(***************************************************************************)
EXTENDS Modeset

Open13        == Open
Prepare13     == Prepare
FindCrtc13    == NoCrtcLeft
CreateFb13    == FbFails
SetupDevice13 == SetupDevice
Main13        == Main
Cleanup13     == Cleanup

----------------------------------------------------------------------------
(* modeset_draw2(): three passes, 0, 100 and 200 lines from the edges *)

Passes == 3
Word   == 1000                  \* unsigned arithmetic wraps, at 2^32

\* height - margin, in hundreds of lines.
EndPlus(lines, margin) == lines + margin                  \* + for -
End(lines, margin) == IF lines >= margin THEN lines - margin
                                         ELSE lines + Word - margin

\* for (j = margin; j < height - margin; ++j): no line past the last.
Inside(lines, margin) == margin >= End(lines, margin) \/ End(lines, margin) <= lines

DrawPass ==
  /\ phase = "draw" /\ round < Passes
  /\ \A c \in modeset_list : Inside(height[c], round)
  /\ round' = round + 1
  /\ UNCHANGED <<envVars, phase, i, modeset_list, todo, devVars, display>>

\* A loop that wrapped leaves the mapping.
DrawCrashes ==
  /\ phase = "draw" /\ round < Passes
  /\ \E c \in modeset_list : ~Inside(height[c], round)
  /\ Crash
  /\ UNCHANGED <<envVars, i, modeset_list, todo, devVars, round>>

EndDraw2 ==
  /\ phase = "draw" /\ round = Passes
  /\ phase' = "cleanup"
  /\ UNCHANGED <<envVars, i, modeset_list, todo, devVars, round, display>>

----------------------------------------------------------------------------
Modeset13Next ==
  /\ program = "modeset13"
  /\ \/ Open13 \/ Prepare13
     \/ FindCrtc13 \/ CreateFb13 \/ SetupDevice13
     \/ Main13
     \/ DrawPass \/ DrawCrashes \/ EndDraw2
     \/ Cleanup13

==============================================================================
