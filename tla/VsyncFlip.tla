----------------------------- MODULE VsyncFlip -----------------------------
(***************************************************************************)
(* modeset-vsync.c: every output is animated by vblank-synchronised page   *)
(* flips.  The program is single-threaded, but the CRTCs are not: between  *)
(* any two of its steps a vertical blank may complete a flip and post an   *)
(* event.  A frame is therefore rendered in two steps (BeginDraw,          *)
(* FinishDraw), and the events one drmHandleEvent() has read wait in inbox *)
(* while their callbacks run one at a time.                                *)
(*                                                                         *)
(* modeset_list is a set: the order of the list is that of the connectors, *)
(* hence arbitrary, and every loop over it may take any order.             *)
(***************************************************************************)
EXTENDS DrmCrtc

CONSTANTS
  FrameMod,         \* frames are numbered modulo FrameMod
  Faults            \* the calls that may fail: "SetCrtc", "PageFlip", "Read"

ASSUME VsyncAssumption ==
  /\ FrameMod \in Nat /\ FrameMod > 2
  /\ Faults \subseteq {"SetCrtc", "PageFlip", "Read"}

VARIABLES
  phase,            \* where main() is
  modeset_list,     \* the outputs on the list
  todo,             \* the outputs the loop over the list has still to visit
  closing,          \* the output modeset_cleanup() has taken off the list
  front_buf,        \* the four fields of struct modeset_dev
  pflip_pending,
  cleanup,
  frame,            \* the number of the last frame rendered (r, g and b)
  content,          \* content[o][b]: the frame in buffer b, or Torn
  painting,         \* the output whose back buffer is being filled
  inbox,            \* events read by drmHandleEvent(), callback not yet run
  expired           \* the five seconds of modeset_draw() are over

devVars == <<front_buf, pflip_pending, cleanup, frame, content, painting>>
vars == <<crtcVars, phase, modeset_list, todo, closing, devVars, inbox, expired>>

Frame == 0 .. FrameMod - 1
Torn  == FrameMod           \* a buffer that is half painted

\* modeset_draw_dev's memory: the dev is allocated until modeset_cleanup frees it.
Allocated == modeset_list \cup closing

TypeOK ==
  /\ CrtcTypeOK
  /\ phase \in {"modeset", "firstdraw", "loop", "select", "cleanup", "done"}
  /\ modeset_list \subseteq Output
  /\ todo \subseteq Output
  /\ closing \subseteq Output
  /\ front_buf \in [Output -> Buf]
  /\ pflip_pending \in [Output -> BOOLEAN]
  /\ cleanup \in [Output -> BOOLEAN]
  /\ frame \in [Output -> Frame]
  /\ content \in [Output -> [Buf -> Frame \cup {Torn}]]
  /\ painting \subseteq Output
  /\ inbox \in [Output -> Nat]
  /\ expired \in BOOLEAN

\* modeset_prepare() has made a zeroed device with two cleared buffers each.
Init ==
  /\ CrtcInit
  /\ phase = "modeset"
  /\ modeset_list = Output
  /\ todo = Output
  /\ closing = {}
  /\ front_buf = [o \in Output |-> 0]
  /\ pflip_pending = [o \in Output |-> FALSE]
  /\ cleanup = [o \in Output |-> FALSE]
  /\ frame = [o \in Output |-> 0]
  /\ content = [o \in Output |-> [b \in Buf |-> 0]]
  /\ painting = {}
  /\ inbox = NoEvents
  /\ expired = FALSE

\* No callback is running and none is due: the program is in its own loops.
Idle == painting = {} /\ inbox = NoEvents

----------------------------------------------------------------------------
(* Rendering: modeset_draw_dev() *)

BackBufferMutant(o) == front_buf[o]                       \* drops the ^ 1
BackBufferPlus(o) == front_buf[o] + 1                     \* + for ^
BackBuffer(o) == 1 - front_buf[o]

\* next_color() and the start of the loops that fill the back buffer.
BeginDraw(o) ==
  /\ frame'    = [frame EXCEPT ![o] = (@ + 1) % FrameMod]
  /\ content'  = [content EXCEPT ![o][BackBuffer(o)] = Torn]
  /\ painting' = {o}

\* The fields drmModePageFlip's success changes.
FlipQueuedNotPending(o) ==                                \* forgets the flag
  /\ front_buf' = [front_buf EXCEPT ![o] = BackBuffer(o)]
  /\ UNCHANGED pflip_pending
FlipQueued(o) ==
  /\ front_buf'     = [front_buf EXCEPT ![o] = BackBuffer(o)]
  /\ pflip_pending' = [pflip_pending EXCEPT ![o] = TRUE]

\* ... and its failure: none, the message apart.
FlipRefused(o) == UNCHANGED <<front_buf, pflip_pending>>

\* A CRTC whose modeset failed may refuse flips even where others do not.
MayRefuse(o) == ~CanFlip(o) \/ scanout[o] = Saved \/ "PageFlip" \in Faults

\* The buffer is filled: flip to it, and give up on the output if refused.
FinishDraw(o) ==
  /\ o \in painting
  /\ content'  = [content EXCEPT ![o][BackBuffer(o)] = frame[o]]
  /\ painting' = {}
  /\ \/ PageFlip(o, BackBuffer(o)) /\ FlipQueued(o)
     \/ MayRefuse(o) /\ FlipRefused(o) /\ UNCHANGED flip
  /\ UNCHANGED <<scanout, events, phase, modeset_list, todo, closing,
                 cleanup, frame, inbox, expired>>

----------------------------------------------------------------------------
(* Events: drmHandleEvent() and modeset_page_flip_event() *)

\* drmHandleEvent's read, which takes every event posted so far.
ReadEvents ==
  /\ Readable
  /\ inbox'  = events
  /\ events' = NoEvents

RedrawAlways(o) == TRUE                                   \* ignores cleanup
RedrawNever(o) == FALSE                                   \* stops after one
Redraw(o) == ~cleanup[o]

ClearPendingNot(o) == UNCHANGED pflip_pending             \* forgets to clear
ClearPending(o) == pflip_pending' = [pflip_pending EXCEPT ![o] = FALSE]

\* modeset_page_flip_event(): for a device already freed it touches freed
\* memory; the outcome modelled is that the fields still read as they were.
PageFlipEvent(o) ==
  /\ painting = {}
  /\ inbox[o] > 0
  /\ inbox' = [inbox EXCEPT ![o] = @ - 1]
  /\ ClearPending(o)
  /\ IF Redraw(o) THEN BeginDraw(o) ELSE UNCHANGED <<frame, content, painting>>
  /\ UNCHANGED <<crtcVars, phase, modeset_list, todo, closing,
                 front_buf, cleanup, expired>>

----------------------------------------------------------------------------
(* main() and modeset_draw() *)

\* The modeset loop of main(): a failure is only reported.
ModesetOutput(o) ==
  /\ phase = "modeset" /\ o \in todo
  /\ todo' = todo \ {o}
  /\ SetCrtc(o, front_buf[o]) \/ ("SetCrtc" \in Faults /\ UNCHANGED scanout)
  /\ UNCHANGED <<flip, events, phase, modeset_list, closing, devVars, inbox, expired>>

StartDraw ==
  /\ phase = "modeset" /\ todo = {}
  /\ phase' = "firstdraw"
  /\ todo'  = modeset_list
  /\ UNCHANGED <<crtcVars, modeset_list, closing, devVars, inbox, expired>>

\* "redraw all outputs": the first frame of each.
FirstDraw(o) ==
  /\ phase = "firstdraw" /\ painting = {} /\ o \in todo
  /\ todo' = todo \ {o}
  /\ BeginDraw(o)
  /\ UNCHANGED <<crtcVars, phase, modeset_list, closing, front_buf,
                 pflip_pending, cleanup, inbox, expired>>

EnterLoop ==
  /\ phase = "firstdraw" /\ painting = {} /\ todo = {}
  /\ phase' = "loop"
  /\ UNCHANGED <<crtcVars, modeset_list, todo, closing, devVars, inbox, expired>>

\* while (time(&cur) < start + 5), evaluated between two rounds of events.
LoopTest ==
  /\ phase = "loop" /\ Idle
  /\ phase' = IF expired THEN "cleanup" ELSE "select"
  /\ UNCHANGED <<crtcVars, modeset_list, todo, closing, devVars, inbox, expired>>

\* select() fails or reports input on stdin: break.
SelectStop ==
  /\ phase = "select"
  /\ phase' = "cleanup"
  /\ UNCHANGED <<crtcVars, modeset_list, todo, closing, devVars, inbox, expired>>

SelectTimeout ==
  /\ phase = "select" /\ expired
  /\ phase' = "loop"
  /\ UNCHANGED <<crtcVars, modeset_list, todo, closing, devVars, inbox, expired>>

\* Whether drmHandleEvent's read fails.
ReadLost == IF "Read" \in Faults THEN BOOLEAN ELSE {FALSE}

\* The DRM descriptor is readable; drmHandleEvent's own failure is ignored.
SelectEvents ==
  /\ phase = "select" /\ Readable
  /\ phase' = "loop"
  /\ \E lost \in ReadLost : IF lost THEN UNCHANGED <<events, inbox>> ELSE ReadEvents
  /\ UNCHANGED <<scanout, flip, modeset_list, todo, closing, devVars, expired>>

----------------------------------------------------------------------------
(* modeset_cleanup() *)

TakeOutput(o) ==
  /\ phase = "cleanup" /\ closing = {} /\ o \in modeset_list
  /\ modeset_list' = modeset_list \ {o}
  /\ closing' = {o}
  /\ cleanup' = [cleanup EXCEPT ![o] = TRUE]
  /\ UNCHANGED <<crtcVars, phase, todo, front_buf, pflip_pending, frame,
                 content, painting, inbox, expired>>

\* while (iter->pflip_pending) drmHandleEvent(): a blocking read.
WaitFlip(o) ==
  /\ phase = "cleanup" /\ o \in closing /\ Idle /\ pflip_pending[o]
  /\ ReadEvents
  /\ UNCHANGED <<scanout, flip, phase, modeset_list, todo, closing, devVars, expired>>

\* What the CRTC is left with: the saved configuration, unless the flip is
\* still pending or drmModeSetCrtc fails; then the removal of the scanned-out
\* framebuffer disables the CRTC.
Disabled(o) == IF scanout[o] \in Buf \/ flip[o] # NoFlip THEN Off ELSE scanout[o]
FinalScanout(o) ==
  IF pflip_pending[o]
    THEN {Disabled(o)}
    ELSE {Saved} \cup (IF "SetCrtc" \in Faults THEN {Disabled(o)} ELSE {})

MayCloseAnyway(o) == TRUE                                 \* does not wait
MayClose(o) == pflip_pending[o] => "Read" \in Faults

\* Restore the CRTC, destroy both framebuffers and free the device; with the
\* flip still pending only when drmHandleEvent() has failed.
CloseOutput(o) ==
  /\ phase = "cleanup" /\ o \in closing /\ Idle /\ MayClose(o)
  /\ \E s \in FinalScanout(o) : SetCrtc(o, s)
  /\ closing' = {}
  /\ UNCHANGED <<flip, events, phase, modeset_list, todo, devVars, inbox, expired>>

Exit ==
  /\ phase = "cleanup" /\ Allocated = {}
  /\ phase' = "done"
  /\ UNCHANGED <<crtcVars, modeset_list, todo, closing, devVars, inbox, expired>>

----------------------------------------------------------------------------
(* The environment *)

OutputVblank(o) ==
  /\ Vblank(o)
  /\ UNCHANGED <<phase, modeset_list, todo, closing, devVars, inbox, expired>>

\* The clock passes start + 5.
Expire ==
  /\ ~expired /\ phase \in {"firstdraw", "loop", "select"}
  /\ expired' = TRUE
  /\ UNCHANGED <<crtcVars, phase, modeset_list, todo, closing, devVars, inbox>>

----------------------------------------------------------------------------

OutputStep(o) ==
  \/ ModesetOutput(o)
  \/ FirstDraw(o)
  \/ FinishDraw(o)
  \/ PageFlipEvent(o)
  \/ TakeOutput(o)
  \/ WaitFlip(o)
  \/ CloseOutput(o)

\* Every step the program takes of its own accord.
Program ==
  \/ \E o \in Output : OutputStep(o)
  \/ StartDraw
  \/ EnterLoop
  \/ LoopTest
  \/ SelectTimeout
  \/ SelectEvents
  \/ Exit

Next ==
  \/ Program
  \/ SelectStop
  \/ Expire
  \/ \E o \in Output : OutputVblank(o)

Spec == Init /\ [][Next]_vars

\* The program runs, and a CRTC with a flip queued has its vblank.  Nothing is
\* assumed of the clock: what is promised is not promised because time is up.
Fairness ==
  /\ WF_vars(Program)
  /\ \A o \in Output : WF_vars(OutputVblank(o))

FairSpec == Spec /\ Fairness

----------------------------------------------------------------------------
(* Safety *)

\* modeset_draw_dev() never paints a buffer the CRTC scans out or is about to:
\* "bufs[front_buf ^ 1]" really is the back buffer whenever a frame is drawn.
NoTearing ==
  \A o \in painting : /\ scanout[o] # BackBuffer(o)
                      /\ flip[o] # BackBuffer(o)

\* pflip_pending is exactly "a flip is queued in the kernel or its event is on
\* its way", and never are two of them in flight for one output.
InFlight(o) == (IF flip[o] = NoFlip THEN 0 ELSE 1) + events[o] + inbox[o]
FlipTracked ==
  \A o \in Output : InFlight(o) = IF pflip_pending[o] THEN 1 ELSE 0

\* A device is freed only when no flip of it is outstanding, so no event is
\* ever delivered with a dangling device pointer and none outlives main().
NoStaleEvent ==
  \A o \in Output \ Allocated : InFlight(o) = 0

\* What makes the invariants above inductive.  Before its first frame an
\* output has nothing in flight; the only output being painted has nothing in
\* flight either; front_buf is the buffer shown, or queued if one is; and
\* select() is called with no callback due.
Quiet(o) == phase = "modeset" \/ (phase = "firstdraw" /\ o \in todo)
QuietBeforeFirstDraw ==
  \A o \in Output : Quiet(o) => ~pflip_pending[o] /\ o \notin painting
PaintingAlone ==
  \A o \in painting : painting = {o} /\ ~pflip_pending[o]
FrontBufferShown ==
  \A o \in Output : IF flip[o] = NoFlip
                      THEN scanout[o] \in Buf => scanout[o] = front_buf[o]
                      ELSE flip[o] = front_buf[o]

SelectsIdle == phase = "select" => Idle

IInv ==
  /\ TypeOK
  /\ FlipTracked
  /\ SelectsIdle
  /\ QuietBeforeFirstDraw
  /\ PaintingAlone
  /\ FrontBufferShown

\* While drmHandleEvent() never fails: what belongs to whom.  Only a device
\* that is still allocated is painted or has a flip in flight, one output is
\* closed at a time, and the loops of the start visit outputs of the list.
Owned ==
  /\ \A o \in Output \ Allocated : ~pflip_pending[o]
  /\ painting \subseteq Allocated
  /\ \A o, p \in closing : o = p
  /\ modeset_list \cap closing = {}
  /\ phase \in {"modeset", "firstdraw"} => todo \subseteq modeset_list

(* Liveness *)

\* For as long as modeset_draw() runs, an output with a flip on its way gets
\* the next frame, whatever became of the other outputs: each event starts a
\* frame, and no event is lost.  (One whose flip was refused never does.)
KeepsDrawing ==
  \A o \in Output : \A f \in Frame :
    (phase = "loop" /\ pflip_pending[o] /\ frame[o] = f)
      ~> (frame[o] # f \/ phase = "cleanup")

\* When the five seconds are over, or the user has pressed a key, the loop ends
\* even if no event ever comes; and then modeset_cleanup() ends, although the
\* other outputs go on flipping, whichever flips were refused.
Terminates == (expired \/ phase = "cleanup") ~> phase = "done"

(* Refinement *)

Visible(o) ==
  IF scanout[o] \in Buf THEN content[o][scanout[o]]
  ELSE IF scanout[o] = Saved /\ o \in Allocated THEN FrameMod ELSE FrameMod + 1

\* A flip queued and not latched is a queued frame.
Queued(o) == IF flip[o] = NoFlip THEN FrameMod ELSE content[o][flip[o]]

Screen == INSTANCE FrameQueue
  WITH visible <- [o \in Output |-> Visible(o)],
       queued  <- [o \in Output |-> Queued(o)]

\* The program implements the frame queue: what is on the screen is always a
\* complete frame, and the frames come in order.
ImplementsFrameQueue == Screen!Spec

\* Why each step of the program is a step of the frame queue: the front buffer
\* holds a complete frame, the frame being painted is its successor, a queued
\* frame succeeds the one on the screen, and a CRTC still in its saved
\* configuration has seen no frame before frame 1.
Succeeds(f, g) == f = (g + 1) % FrameMod
Ordered(o) ==
  /\ content[o][front_buf[o]] \in Frame
  /\ Quiet(o) => frame[o] = 0 /\ content[o][front_buf[o]] = 0
  /\ phase = "modeset" /\ o \in todo => scanout[o] = Saved
  /\ o \in painting => Succeeds(frame[o], content[o][front_buf[o]])
  /\ pflip_pending[o] => frame[o] = content[o][front_buf[o]]
  /\ flip[o] # NoFlip /\ scanout[o] \in Buf =>
       /\ scanout[o] = BackBuffer(o)
       /\ Succeeds(frame[o], content[o][scanout[o]])
  /\ o \in Allocated /\ scanout[o] = Saved =>
       /\ pflip_pending[o] => flip[o] # NoFlip
       /\ o \in painting \/ pflip_pending[o] => frame[o] = 1
  /\ IF o \in Allocated THEN scanout[o] # Off ELSE scanout[o] \notin Buf
FramesInOrder == \A o \in Output : Ordered(o)

============================================================================
