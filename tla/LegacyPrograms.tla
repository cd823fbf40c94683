---------------------------- MODULE LegacyPrograms ----------------------------
(***************************************************************************)
(* The five drm-howto programs without page flips, one of which runs.      *)
(***************************************************************************)
EXTENDS Modeset13, Modeset13Cairo, ModesetListMode, ModesetDouble

Next ==
  \/ ModesetNext
  \/ Modeset13Next
  \/ CairoNext
  \/ ListModeNext
  \/ DoubleNext

Spec == Init /\ [][Next]_vars

----------------------------------------------------------------------------
\* modeset_create_fb() and modeset_setup_dev() undo what they did, wherever
\* they fail: a connector given up holds nothing, a device on the list holds
\* its buffers entirely, and after the cleanup nothing is held.
NothingLeaks ==
  phase # "crashed" =>
    \A c \in Connector :
      held[c] = IF c \in modeset_list /\ program # "list_mode"
                THEN Kinds \X Bufs ELSE {}

\* "This is used in modeset_cleanup() to restore the CRTC to the same mode as
\* was before we changed it": every CRTC shows in the end what it showed at
\* first.
CrtcsRestored ==
  phase = "done" /\ ~calls_fail => display.shows = Initially(Routes).shows

\* It does, every connector is back where it was, and the program does not
\* crash, if nothing fails, no output was set on a CRTC that another connector
\* was on (main() may then turn that connector's CRTC off before saving it), the
\* rectangles of modeset13.c fit in the mode, and the cairo program has an output.
Outputs == {c \in Connector : crtc[c] \in Crtc}
NoneTaken ==
  \A c \in Outputs, d \in Connector : conns[d].bound = crtc[c] => d = c
WellUsed ==
  /\ ~calls_fail
  /\ program = "modeset13" => \A c \in Outputs : height[c] >= Passes - 1
  /\ program = "cairo" => Outputs # {}
LeavesAsFound ==
  WellUsed /\ NoneTaken =>
    /\ phase # "crashed"
    /\ phase = "done" => display = Initially(Routes)

\* modeset_draw() of modeset-double-buffered.c never paints the buffer that is
\* on the screen, even after drmModeSetCrtc() failed in an earlier round.
BackBufferHidden ==
  Double /\ phase = "draw" =>
    \A c \in modeset_list : display.shows[crtc[c]] # Fb(c, BackBuffer(c))

===============================================================================
