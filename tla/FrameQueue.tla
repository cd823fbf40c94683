---------------------------- MODULE FrameQueue -----------------------------
(***************************************************************************)
(* What a double-buffered output promises to the person watching it: the   *)
(* screen shows only completely rendered frames, every one of them, in the *)
(* order they were rendered, and a frame is queued only when the previous  *)
(* one is on the screen.  The animation programs of drm-howto are meant to *)
(* implement this.                                                         *)
(***************************************************************************)
EXTENDS Naturals

CONSTANTS
  Output,           \* the outputs
  FrameMod          \* frames are numbered modulo FrameMod, a number above 2

VARIABLES
  visible,          \* visible[o]: the frame on the screen, Unset or Gone
  queued            \* queued[o]: the frame waiting for the vblank, or Unset

Frame == 0 .. FrameMod - 1
Unset == FrameMod           \* the program shows nothing on this output yet
Gone  == FrameMod + 1       \* and no longer does

\* Frame 0 is the cleared buffer; the first rendered frame is frame 1.
Succ(f) == IF f \in Frame THEN (f + 1) % FrameMod ELSE 1

Init ==
  /\ visible = [o \in Output |-> Unset]
  /\ queued  = [o \in Output |-> Unset]

\* The first modeset shows the cleared buffer.
Show(o) ==
  /\ visible[o] = Unset
  /\ visible' = [visible EXCEPT ![o] = 0]
  /\ UNCHANGED queued

Queue(o) ==
  /\ queued[o] = Unset
  /\ visible[o] # Gone
  /\ queued' = [queued EXCEPT ![o] = Succ(visible[o])]
  /\ UNCHANGED visible

Latch(o) ==
  /\ queued[o] # Unset
  /\ visible' = [visible EXCEPT ![o] = queued[o]]
  /\ queued'  = [queued EXCEPT ![o] = Unset]

\* The output is given back, with no frame left in flight.
Hide(o) ==
  /\ queued[o] = Unset
  /\ visible' = [visible EXCEPT ![o] = Gone]
  /\ UNCHANGED queued

Next == \E o \in Output : Show(o) \/ Queue(o) \/ Latch(o) \/ Hide(o)

Spec == Init /\ [][Next]_<<visible, queued>>

============================================================================
