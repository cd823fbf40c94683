----------------------------- MODULE AtomicFlip -----------------------------
(***************************************************************************)
(* modeset-atomic.c: the animation of modeset-vsync.c on the atomic API.   *)
(* One blocking commit sets the mode of every output at once and posts an  *)
(* event for each; every event then renders the next frame and commits a   *)
(* flip of its output.  The event names a CRTC, and the output is looked   *)
(* up in output_list, so that an event of a destroyed output is ignored.   *)
(*                                                                         *)
(* output_list is a set, as modeset_list is in VsyncFlip.                  *)
(***************************************************************************)
EXTENDS DrmCrtc

CONSTANTS
  FrameMod,         \* frames are numbered 1 .. FrameMod, then 1 again
  Faults            \* the calls that may ever fail: "Modeset", "Commit", "Read"

ASSUME AtomicAssumption ==
  /\ FrameMod \in Nat /\ FrameMod > 1
  /\ Faults \subseteq {"Modeset", "Commit", "Read"}

VARIABLES
  phase,            \* where main() is
  output_list,      \* the outputs on the list
  todo,             \* the outputs modeset_perform_modeset() has yet to paint
  closing,          \* the head of the list modeset_cleanup() waits for
  front_buf,        \* three fields of struct modeset_output
  pflip_pending,
  cleanup,
  frame,            \* the number of the last frame painted, at first 0
  content,          \* content[o][b]: the frame in buffer b, Blank or Torn
  painting,         \* the output whose buffer is being filled
  inbox,            \* events read by drmHandleEvent(), callback not yet run
  expired,          \* the five seconds of modeset_draw() are over
  faults            \* the calls that may fail in this run

outVars == <<front_buf, pflip_pending, cleanup, frame, content, painting>>
vars == <<crtcVars, phase, output_list, todo, closing, outVars, inbox, expired,
          faults>>

Frame == 1 .. FrameMod
Blank == 0                  \* a buffer as create_fb clears it
Torn  == FrameMod + 1       \* a buffer that is half painted

TypeOK ==
  /\ CrtcTypeOK
  /\ phase \in {"test", "paint", "commit", "loop", "select", "cleanup", "done"}
  /\ output_list \subseteq Output
  /\ todo \subseteq Output
  /\ closing \subseteq output_list
  /\ front_buf \in [Output -> Buf]
  /\ pflip_pending \in [Output -> BOOLEAN]
  /\ cleanup \in [Output -> BOOLEAN]
  /\ frame \in [Output -> Frame \cup {0}]
  /\ content \in [Output -> [Buf -> Frame \cup {Blank, Torn}]]
  /\ painting \subseteq Output
  /\ inbox \in [Output -> 0 .. 1]
  /\ expired \in BOOLEAN
  /\ faults \subseteq Faults

Init ==
  /\ CrtcInit
  /\ phase = "test"
  /\ output_list = Output
  /\ todo = Output
  /\ closing = {}
  /\ front_buf = [o \in Output |-> 0]
  /\ pflip_pending = [o \in Output |-> FALSE]
  /\ cleanup = [o \in Output |-> FALSE]
  /\ frame = [o \in Output |-> 0]
  /\ content = [o \in Output |-> [b \in Buf |-> Blank]]
  /\ painting = {}
  /\ inbox = NoEvents
  /\ expired = FALSE
  /\ faults \in SUBSET Faults

Idle == painting = {} /\ inbox = NoEvents

----------------------------------------------------------------------------
(* modeset_perform_modeset() *)

BackBufferPlus(o) == front_buf[o] + 1                     \* + for ^
BackBuffer(o) == 1 - front_buf[o]

NextFrame(o) == (frame[o] % FrameMod) + 1

\* A commit fails in the kernel, or one of the thirteen properties that
\* modeset_atomic_prepare_commit() adds to the request does not exist.
MayFail(call) == call \in faults

\* The TEST_ONLY commit of every output.  A failure, of the preparation too,
\* returns to modeset_draw(), which enters its loop regardless.
TestCommit ==
  /\ phase = "test"
  /\ \/ phase' = "paint"
     \/ MayFail("Modeset") /\ phase' = "loop"
  /\ UNCHANGED <<crtcVars, output_list, todo, closing, outVars, inbox, expired, faults>>

\* The first frame of an output, which no CRTC displays yet.
PaintFirst(o) ==
  /\ phase = "paint" /\ o \in todo
  /\ todo'    = todo \ {o}
  /\ frame'   = [frame EXCEPT ![o] = NextFrame(o)]
  /\ content' = [content EXCEPT ![o][BackBuffer(o)] = NextFrame(o)]
  /\ UNCHANGED <<crtcVars, phase, output_list, closing, front_buf,
                 pflip_pending, cleanup, painting, inbox, expired, faults>>

PaintedSome == todo # Output                              \* does not wait for all
PaintedAll == todo = {}

EndPaint ==
  /\ phase = "paint" /\ PaintedAll
  /\ phase' = "commit"
  /\ UNCHANGED <<crtcVars, output_list, todo, closing, outVars, inbox, expired, faults>>

\* The blocking commit of all outputs: on return every CRTC displays the
\* buffer just painted and has posted its event.  Neither front_buf nor
\* pflip_pending is touched.
ModesetAll ==
  /\ scanout' = [o \in Output |-> BackBuffer(o)]
  /\ events'  = [o \in Output |-> 1]

CommitModeset ==
  /\ phase = "commit"
  /\ phase' = "loop"
  /\ ModesetAll \/ (MayFail("Modeset") /\ UNCHANGED <<scanout, events>>)
  /\ UNCHANGED <<flip, output_list, todo, closing, outVars, inbox, expired, faults>>

----------------------------------------------------------------------------
(* modeset_draw_out() *)

\* modeset_paint_framebuffer() starts to fill the buffer ...
BeginDraw(o) ==
  /\ frame'    = [frame EXCEPT ![o] = NextFrame(o)]
  /\ content'  = [content EXCEPT ![o][BackBuffer(o)] = Torn]
  /\ painting' = {o}

CommittedSets(o) ==                                       \* sets, not toggles
  /\ front_buf'     = [front_buf EXCEPT ![o] = 1]
  /\ pflip_pending' = [pflip_pending EXCEPT ![o] = TRUE]
CommittedNotPending(o) ==                                 \* forgets the flag
  /\ front_buf' = [front_buf EXCEPT ![o] = BackBuffer(o)]
  /\ UNCHANGED pflip_pending
Committed(o) ==
  /\ front_buf'     = [front_buf EXCEPT ![o] = BackBuffer(o)]
  /\ pflip_pending' = [pflip_pending EXCEPT ![o] = TRUE]

\* ... and has filled it: commit the flip, or return if that (or the
\* preparation of the commit) fails, after which nothing redraws the output.
FinishDraw(o) ==
  /\ o \in painting
  /\ content'  = [content EXCEPT ![o][BackBuffer(o)] = frame[o]]
  /\ painting' = {}
  /\ \/ PageFlip(o, BackBuffer(o)) /\ Committed(o)
     \/ /\ ~CanFlip(o) \/ MayFail("Commit")
        /\ UNCHANGED <<flip, front_buf, pflip_pending>>
  /\ UNCHANGED <<scanout, events, phase, output_list, todo, closing,
                 cleanup, frame, inbox, expired, faults>>

----------------------------------------------------------------------------
(* modeset_page_flip_event() *)

ReadEvents ==
  /\ Readable
  /\ inbox'  = events
  /\ events' = NoEvents

RedrawAlways(o) == TRUE                                   \* ignores cleanup
RedrawNever(o) == FALSE
Redraw(o) == ~cleanup[o]

ClearPendingNot(o) == UNCHANGED pflip_pending
ClearPending(o) == pflip_pending' = [pflip_pending EXCEPT ![o] = FALSE]

PageFlipEvent(o) ==
  /\ painting = {}
  /\ inbox[o] > 0
  /\ inbox' = [inbox EXCEPT ![o] = @ - 1]
  /\ IF o \in output_list THEN ClearPending(o) ELSE UNCHANGED pflip_pending
  /\ IF o \in output_list /\ Redraw(o)
       THEN BeginDraw(o) ELSE UNCHANGED <<frame, content, painting>>
  /\ UNCHANGED <<crtcVars, phase, output_list, todo, closing,
                 front_buf, cleanup, expired, faults>>

----------------------------------------------------------------------------
(* modeset_draw() *)

\* while (time(&cur) < start + 5), evaluated between two rounds of events.
LoopTest ==
  /\ phase = "loop" /\ Idle
  /\ phase' = IF expired THEN "cleanup" ELSE "select"
  /\ UNCHANGED <<crtcVars, output_list, todo, closing, outVars, inbox, expired, faults>>

\* select() fails or reports input on stdin: break.
SelectStop ==
  /\ phase = "select"
  /\ phase' = "cleanup"
  /\ UNCHANGED <<crtcVars, output_list, todo, closing, outVars, inbox, expired, faults>>

SelectTimeout ==
  /\ phase = "select" /\ expired
  /\ phase' = "loop"
  /\ UNCHANGED <<crtcVars, output_list, todo, closing, outVars, inbox, expired, faults>>

\* The DRM descriptor is readable; drmHandleEvent's own failure is ignored.
SelectEvents ==
  /\ phase = "select" /\ Readable
  /\ phase' = "loop"
  /\ ReadEvents \/ (MayFail("Read") /\ UNCHANGED <<events, inbox>>)
  /\ UNCHANGED <<scanout, flip, output_list, todo, closing, outVars, expired, faults>>

----------------------------------------------------------------------------
(* modeset_cleanup() *)

\* iter = output_list: the output stays on the list while its flip is awaited.
TakeOutput(o) ==
  /\ phase = "cleanup" /\ closing = {} /\ o \in output_list
  /\ closing' = {o}
  /\ cleanup' = [cleanup EXCEPT ![o] = TRUE]
  /\ UNCHANGED <<crtcVars, phase, output_list, todo, front_buf, pflip_pending,
                 frame, content, painting, inbox, expired, faults>>

\* while (iter->pflip_pending) drmHandleEvent(): a blocking read.
WaitFlip(o) ==
  /\ phase = "cleanup" /\ o \in closing /\ Idle /\ pflip_pending[o]
  /\ ReadEvents
  /\ UNCHANGED <<scanout, flip, phase, output_list, todo, closing, outVars, expired, faults>>

MayDestroyAnyway(o) == TRUE                               \* does not wait
MayDestroy(o) == pflip_pending[o] => MayFail("Read")

\* modeset_output_destroy(): nothing restores the CRTC, and removing the
\* framebuffers disables it if it displays one of them.
DestroyOutput(o) ==
  /\ phase = "cleanup" /\ o \in closing /\ Idle /\ MayDestroy(o)
  /\ SetCrtc(o, IF scanout[o] \in Buf \/ flip[o] # NoFlip THEN Off ELSE scanout[o])
  /\ output_list' = output_list \ {o}
  /\ closing' = {}
  /\ UNCHANGED <<flip, events, phase, todo, outVars, inbox, expired, faults>>

Exit ==
  /\ phase = "cleanup" /\ output_list = {}
  /\ phase' = "done"
  /\ UNCHANGED <<crtcVars, output_list, todo, closing, outVars, inbox, expired, faults>>

----------------------------------------------------------------------------
(* The environment *)

OutputVblank(o) ==
  /\ Vblank(o)
  /\ UNCHANGED <<phase, output_list, todo, closing, outVars, inbox, expired, faults>>

\* The clock passes start + 5.
Expire ==
  /\ ~expired /\ phase \notin {"cleanup", "done"}
  /\ expired' = TRUE
  /\ UNCHANGED <<crtcVars, phase, output_list, todo, closing, outVars, inbox, faults>>

----------------------------------------------------------------------------

OutputStep(o) ==
  \/ PaintFirst(o)
  \/ FinishDraw(o)
  \/ PageFlipEvent(o)
  \/ TakeOutput(o)
  \/ WaitFlip(o)
  \/ DestroyOutput(o)

\* Every step the program takes of its own accord.
Program ==
  \/ \E o \in Output : OutputStep(o)
  \/ TestCommit
  \/ EndPaint
  \/ CommitModeset
  \/ LoopTest
  \/ SelectTimeout
  \/ SelectEvents
  \/ Exit

Next ==
  \/ Program
  \/ SelectStop
  \/ Expire
  \/ \E o \in Output : OutputVblank(o)

Spec == Init /\ [][Next]_vars

\* The program runs, and a CRTC with a flip queued has its vblank.  Nothing is
\* assumed of the clock: what is promised is not promised because time is up.
Fairness ==
  /\ WF_vars(Program)
  /\ \A o \in Output : WF_vars(OutputVblank(o))

FairSpec == Spec /\ Fairness

----------------------------------------------------------------------------
(* Safety *)

\* modeset_paint_framebuffer() fills a "back framebuffer", one that the CRTC
\* neither scans out nor is about to.  The first frame after the modeset
\* breaks it: front_buf still is 0 and the CRTC displays buffer 1.
Tears(o) == o \in painting /\ BackBuffer(o) \in {scanout[o], flip[o]}
NoTearing == \A o \in Output : ~Tears(o)

\* Only that one frame is lost: once modeset_draw_out() has committed a flip
\* of an output, front_buf is right for good.
StopsTearing == \A o \in Output : [](front_buf[o] = 1 => []~Tears(o))

\* No CRTC ever starts to display a buffer that is not completely painted:
\* modeset_perform_modeset() paints before the commit, "to avoid displaying
\* unwanted content", and modeset_draw_out() before each flip.
ShowsCompleteFrames ==
  [][\A o \in Output :
       scanout'[o] # scanout[o] /\ scanout'[o] \in Buf
         => content[o][scanout'[o]] \in Frame]_vars

\* pflip_pending announces exactly one event to come, and at most one is ever
\* in flight; it misses the event of the modeset only.  (Of an output already
\* destroyed the event is ignored, and the flag is gone.)
InFlight(o) == (IF flip[o] = NoFlip THEN 0 ELSE 1) + events[o] + inbox[o]
FlipTracked ==
  \A o \in output_list :
    IF pflip_pending[o] THEN InFlight(o) = 1
                        ELSE InFlight(o) <= 1 /\ (InFlight(o) = 1 => front_buf[o] = 0)

\* "if a page-flip is pending, wait for it to complete": no output is destroyed
\* while its CRTC has a flip queued, unless drmHandleEvent() fails.
DestroyedQuiet ==
  ~MayFail("Read") => \A o \in Output \ output_list : flip[o] = NoFlip

(* Liveness *)

\* For as long as modeset_draw() runs, an output with a flip or an event on its
\* way, that of the modeset too, gets the next frame, whatever became of the
\* other outputs.  (One whose commit has failed has none, and never does; and
\* drmHandleEvent() must not fail for ever.)
KeepsDrawing ==
  \A o \in Output : \A f \in Frame :
    (phase = "loop" /\ InFlight(o) > 0 /\ frame[o] = f /\ ~MayFail("Read"))
      ~> (frame[o] # f \/ phase = "cleanup")

\* When the five seconds are over, or the user has pressed a key, the loop ends
\* even if no event ever comes; and then modeset_cleanup() ends, although the
\* other outputs go on flipping, whichever calls fail, the modeset's
\* included.
Terminates == (expired \/ phase = "cleanup") ~> phase = "done"

============================================================================
