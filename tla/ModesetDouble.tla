---------------------------- MODULE ModesetDouble ----------------------------
(***************************************************************************)
(* modeset-double-buffered.c: modeset.c with two buffers per output; each  *)
(* round paints the one not shown and exchanges them with drmModeSetCrtc().*)
(* What Modeset says of Bufs makes the difference in the set-up and in the *)
(* cleanup.                                                                *)
(***************************************************************************)
EXTENDS Modeset

OpenDouble        == Open
PrepareDouble     == Prepare
FindCrtcDouble    == NoCrtcLeft
CreateFbDouble    == FbFails
SetupDeviceDouble == SetupDevice
MainDouble        == Main
CleanupDouble     == Cleanup

BackBufferPlus(c) == front_buf[c] + 1                     \* + for ^
BackBuffer(c) == 1 - front_buf[c]

\* The exchange takes place only if drmModeSetCrtc() succeeds.
ExchangedAnyway(c, done) == BackBuffer(c)                 \* result ignored
Exchanged(c, done) == IF done THEN BackBuffer(c) ELSE front_buf[c]

DrawBack ==
  /\ phase = "draw" /\ round < Rounds /\ todo # {}
  /\ LET c == Max(todo)
     IN  /\ todo' = todo \ {c}
         /\ display' \in SetOutcomes(c, Fb(c, BackBuffer(c)), MayFail(c))
         /\ front_buf' = [front_buf EXCEPT ![c] = Exchanged(c, display' # display)]
  /\ UNCHANGED <<envVars, phase, i, modeset_list, crtc, height, saved_crtc, held,
                 round>>

EndRound ==
  /\ phase = "draw" /\ round < Rounds /\ todo = {}
  /\ round' = round + 1
  /\ todo'  = modeset_list
  /\ UNCHANGED <<envVars, phase, i, modeset_list, devVars, display>>

EndDrawDouble == EndDraw

DoubleNext ==
  /\ Double
  /\ \/ OpenDouble \/ PrepareDouble
     \/ FindCrtcDouble \/ CreateFbDouble \/ SetupDeviceDouble
     \/ MainDouble
     \/ DrawBack \/ EndRound \/ EndDrawDouble
     \/ CleanupDouble

==============================================================================
