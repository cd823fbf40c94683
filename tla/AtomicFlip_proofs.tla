------------------------- MODULE AtomicFlip_proofs -------------------------
(***************************************************************************)
(* Theorems about AtomicFlip, for every set of outputs, every FrameMod and *)
(* every set of faults.                                                    *)
(***************************************************************************)
EXTENDS TLAPS, AtomicFlip

----------------------------------------------------------------------------
(* The inductive invariant *)

\* Until the blocking commit every output is as modeset_output_create() left
\* it, but for the first frames being painted, into buffer 1.
Early == phase \in {"test", "paint", "commit"}
Untouched(o) ==
  /\ scanout[o] = Saved /\ flip[o] = NoFlip /\ events[o] = 0 /\ inbox[o] = 0
  /\ front_buf[o] = 0 /\ ~pflip_pending[o] /\ o \notin painting
BeforeModeset ==
  Early => /\ output_list = Output
           /\ \A o \in Output : Untouched(o)
           /\ phase = "test" => todo = Output
           /\ phase = "commit" => todo = {}
           /\ \A o \in Output \ todo : content[o][1] \in Frame

\* No output ever has two of {flip queued, event posted, event read}, and a flip
\* queued for an output on the list is announced by pflip_pending.
OneInFlight == \A o \in Output : InFlight(o) <= 1
FlipFlagged == \A o \in output_list : flip[o] # NoFlip => pflip_pending[o]

\* The output being painted is alone, on the list, and has nothing in flight.
PaintingAlone ==
  \A o \in painting : /\ painting = {o} /\ o \in output_list
                      /\ InFlight(o) = 0
                      /\ frame[o] \in Frame

\* A queued buffer is complete, and stays so until it is shown.
QueuedComplete ==
  \A o \in Output : flip[o] # NoFlip => content[o][flip[o]] \in Frame

\* front_buf is the buffer shown, or queued if one is.  So it is from the first
\* flip after the modeset on; that flip sets it to 1.
FrontBufferShown(o) ==
  /\ ~Early
  /\ IF flip[o] = NoFlip THEN scanout[o] \in Buf => scanout[o] = front_buf[o]
                         ELSE flip[o] = front_buf[o]
FlipsSetRight == \A o \in Output : front_buf[o] = 1 => FrontBufferShown(o)

\* select() is called with no callback due: what it reads overwrites nothing.
SelectsIdle == phase = "select" => Idle

IInv ==
  /\ TypeOK
  /\ BeforeModeset
  /\ FlipTracked
  /\ OneInFlight
  /\ FlipFlagged
  /\ PaintingAlone
  /\ QueuedComplete
  /\ FlipsSetRight
  /\ SelectsIdle
  /\ DestroyedQuiet

----------------------------------------------------------------------------
(* It holds at first, and every step keeps the types *)

\* The outputs modeset_prepare() leaves satisfy the invariant.
LEMMA InitIInv == Init => IInv
<1> SUFFICES ASSUME Init PROVE IInv
  OBVIOUS
<1> USE DEF Init, CrtcInit, NoEvents
<1>1. TypeOK
  <2>1. CrtcTypeOK
    BY DEF CrtcTypeOK, Buf, Off, Saved, NoFlip
  <2>2. content \in [Output -> [Buf -> Frame \cup {Blank, Torn}]]
    BY DEF Buf
  <2>3. /\ front_buf \in [Output -> Buf] /\ inbox \in [Output -> 0 .. 1]
        /\ pflip_pending \in [Output -> BOOLEAN] /\ cleanup \in [Output -> BOOLEAN]
        /\ frame \in [Output -> Frame \cup {0}]
    BY DEF Buf
  <2> QED
    BY <2>1, <2>2, <2>3 DEF TypeOK
<1>2. BeforeModeset
  BY DEF BeforeModeset, Early, Untouched
<1>3. \A o \in Output : InFlight(o) = 0
  BY DEF InFlight, NoFlip
<1>4. FlipTracked /\ OneInFlight /\ FlipFlagged /\ PaintingAlone
  BY <1>3 DEF FlipTracked, OneInFlight, FlipFlagged, PaintingAlone
<1>5. QueuedComplete /\ FlipsSetRight /\ SelectsIdle /\ DestroyedQuiet
  BY DEF QueuedComplete, FlipsSetRight, SelectsIdle, DestroyedQuiet
<1> QED
  BY <1>1, <1>2, <1>4, <1>5 DEF IInv

\* Frames are numbered 1 .. FrameMod, then 1 again.
LEMMA NextFrameType ==
  ASSUME NEW o \in Output, frame[o] \in Frame \cup {0}
  PROVE  NextFrame(o) \in Frame
  BY AtomicAssumption DEF NextFrame, Frame

\* One of the two buffers is the back buffer, and it is not the front buffer.
LEMMA BackBufferType ==
  ASSUME TypeOK, NEW o \in Output
  PROVE  /\ front_buf[o] \in Buf /\ BackBuffer(o) \in Buf
         /\ BackBuffer(o) # front_buf[o] /\ BackBuffer(o) # NoFlip
  BY DEF TypeOK, BackBuffer, Buf, NoFlip

\* What InFlight() adds up.
LEMMA InFlightParts ==
  ASSUME TypeOK, NEW o \in Output
  PROVE  /\ events[o] \in Nat /\ inbox[o] \in 0 .. 1 /\ InFlight(o) \in Nat
         /\ InFlight(o) = 0 <=> flip[o] = NoFlip /\ events[o] = 0 /\ inbox[o] = 0
         /\ InFlight(o) <= 1 =>
              /\ events[o] \in 0 .. 1
              /\ flip[o] # NoFlip => events[o] = 0 /\ inbox[o] = 0
              /\ inbox[o] > 0 => InFlight(o) = 1 /\ flip[o] = NoFlip /\ events[o] = 0
<1>1. events[o] \in Nat /\ inbox[o] \in 0 .. 1
  BY DEF TypeOK, CrtcTypeOK
<1> QED
  BY <1>1 DEF InFlight

\* Every step keeps every variable in its type.
LEMMA TypeOKStep == IInv /\ [Next]_vars => TypeOK'
<1> SUFFICES ASSUME IInv, [Next]_vars PROVE TypeOK'
  OBVIOUS
<1> USE DEF IInv, TypeOK, CrtcTypeOK, Buf, NoFlip, Saved, Off, outVars, crtcVars
<1>1. ASSUME NEW o \in Output, PaintFirst(o) PROVE TypeOK'
  <2>1. BackBuffer(o) \in Buf /\ NextFrame(o) \in Frame
    BY BackBufferType, NextFrameType
  <2>2. content' \in [Output -> [Buf -> Frame \cup {Blank, Torn}]]
    BY <1>1, <2>1 DEF PaintFirst
  <2>3. frame' \in [Output -> Frame \cup {0}]
    BY <1>1, <2>1 DEF PaintFirst
  <2> QED
    BY <1>1, <2>2, <2>3 DEF PaintFirst
<1>2. CASE TestCommit \/ EndPaint \/ LoopTest \/ SelectStop \/ SelectTimeout
           \/ Exit \/ Expire
  BY <1>2 DEF TestCommit, EndPaint, LoopTest, SelectStop, SelectTimeout, Exit, Expire
<1>3. CASE CommitModeset
  <2>1. \A o \in Output : BackBuffer(o) \in Buf
    BY BackBufferType
  <2>2. scanout' \in [Output -> Buf \cup {Saved, Off}] /\ events' \in [Output -> Nat]
    BY <1>3, <2>1 DEF CommitModeset, ModesetAll
  <2> QED
    BY <1>3, <2>2 DEF CommitModeset
<1>4. ASSUME NEW o \in Output, FinishDraw(o) PROVE TypeOK'
  <2>1. BackBuffer(o) \in Buf
    BY BackBufferType
  <2>2. content' \in [Output -> [Buf -> Frame \cup {Blank, Torn}]]
    BY <1>4, <2>1 DEF FinishDraw, PaintingAlone
  <2>3. flip' \in [Output -> Buf \cup {NoFlip}]
    BY <1>4, <2>1 DEF FinishDraw, PageFlip
  <2>4. front_buf' \in [Output -> Buf] /\ pflip_pending' \in [Output -> BOOLEAN]
    BY <1>4, <2>1 DEF FinishDraw, Committed
  <2> QED
    BY <1>4, <2>2, <2>3, <2>4 DEF FinishDraw
<1>5. ASSUME NEW o \in Output, PageFlipEvent(o) PROVE TypeOK'
  <2>1. BackBuffer(o) \in Buf /\ NextFrame(o) \in Frame
    BY BackBufferType, NextFrameType
  <2>2. /\ content' \in [Output -> [Buf -> Frame \cup {Blank, Torn}]]
        /\ frame' \in [Output -> Frame \cup {0}] /\ painting' \subseteq Output
    BY <1>5, <2>1 DEF PageFlipEvent, BeginDraw
  <2>3. inbox' \in [Output -> 0 .. 1]
    BY <1>5 DEF PageFlipEvent
  <2>4. pflip_pending' \in [Output -> BOOLEAN]
    BY <1>5 DEF PageFlipEvent, ClearPending
  <2> QED
    BY <1>5, <2>2, <2>3, <2>4 DEF PageFlipEvent
<1>6. ASSUME ReadEvents
      PROVE  inbox' \in [Output -> 0 .. 1] /\ events' \in [Output -> Nat]
  <2>1. \A o \in Output : events[o] \in 0 .. 1
    BY InFlightParts DEF OneInFlight
  <2> QED
    BY <1>6, <2>1 DEF ReadEvents, NoEvents
<1>7. CASE SelectEvents
  BY <1>6, <1>7 DEF SelectEvents
<1>8. ASSUME NEW o \in Output, TakeOutput(o) PROVE TypeOK'
  BY <1>8 DEF TakeOutput
<1>9. ASSUME NEW o \in Output, WaitFlip(o) PROVE TypeOK'
  BY <1>6, <1>9 DEF WaitFlip
<1>10. ASSUME NEW o \in Output, DestroyOutput(o) PROVE TypeOK'
  BY <1>10 DEF DestroyOutput, SetCrtc
<1>11. ASSUME NEW o \in Output, OutputVblank(o) PROVE TypeOK'
  BY <1>11 DEF OutputVblank, Vblank
<1>12. CASE UNCHANGED vars
  BY <1>12 DEF vars
<1> QED
  BY <1>1, <1>2, <1>3, <1>4, <1>5, <1>7, <1>8, <1>9, <1>10, <1>11, <1>12
     DEF Next, Program, OutputStep

----------------------------------------------------------------------------
(* Every step keeps the rest of it *)

\* The moves of main() between its loops, and all that touches neither a buffer
\* nor an event of any output.
LEMMA MoveStep ==
  ASSUME IInv, TypeOK', BeforeModeset', SelectsIdle', Early' => Early,
         UNCHANGED <<crtcVars, front_buf, pflip_pending, frame, content, painting,
                     inbox, output_list, faults>>
  PROVE  IInv'
<1> USE DEF IInv, crtcVars
<1>1. \A o \in Output : InFlight(o)' = InFlight(o)
  BY DEF InFlight
<1>2. FlipTracked' /\ OneInFlight' /\ FlipFlagged' /\ PaintingAlone'
  BY <1>1 DEF FlipTracked, OneInFlight, FlipFlagged, PaintingAlone, TypeOK
<1>3. QueuedComplete' /\ FlipsSetRight' /\ DestroyedQuiet'
  BY DEF QueuedComplete, FlipsSetRight, FrontBufferShown, DestroyedQuiet, MayFail
<1> QED
  BY <1>2, <1>3

\* The first frames are painted while no CRTC shows anything of the program.
LEMMA PaintFirstStep ==
  ASSUME IInv, NEW o \in Output, PaintFirst(o)
  PROVE  IInv'
<1> USE DEF IInv, PaintFirst, crtcVars
<1>1. TypeOK'
  BY TypeOKStep DEF Next, Program, OutputStep
<1>2. Early /\ Early' /\ \A p \in Output : Untouched(p) /\ Untouched(p)'
  BY DEF Early, BeforeModeset, Untouched
<1>3. \A p \in Output : InFlight(p)' = 0
  BY <1>2 DEF InFlight, Untouched
<1>4. BeforeModeset'
  <2>1. NextFrame(o) \in Frame /\ BackBuffer(o) = 1
    BY <1>2, NextFrameType DEF TypeOK, Untouched, BackBuffer
  <2>2. content'[o][1] \in Frame
    BY <2>1 DEF TypeOK, Buf
  <2>3. \A p \in Output \ {o} : content'[p] = content[p]
    BY DEF TypeOK
  <2> QED
    BY <1>2, <2>2, <2>3 DEF BeforeModeset, Early
<1>5. FlipTracked' /\ OneInFlight' /\ FlipFlagged' /\ PaintingAlone'
  BY <1>1, <1>2, <1>3
     DEF FlipTracked, OneInFlight, FlipFlagged, PaintingAlone, Untouched, TypeOK
<1>6. QueuedComplete' /\ FlipsSetRight' /\ SelectsIdle' /\ DestroyedQuiet'
  BY <1>2 DEF QueuedComplete, FlipsSetRight, SelectsIdle, DestroyedQuiet, Untouched,
              Early, MayFail
<1> QED
  BY <1>1, <1>4, <1>5, <1>6

\* The blocking commit shows complete frames, and its events are the only ones.
LEMMA CommitModesetStep ==
  ASSUME IInv, CommitModeset
  PROVE  IInv'
<1> USE DEF IInv, CommitModeset, outVars
<1>1. TypeOK'
  BY TypeOKStep DEF Next, Program
<1>2. ~Early' /\ \A p \in Output : Untouched(p)
  BY DEF Early, BeforeModeset
<1>3. \A p \in Output : InFlight(p)' \in 0 .. 1
  BY <1>2 DEF InFlight, Untouched, ModesetAll
<1>4. FlipTracked' /\ OneInFlight' /\ FlipFlagged' /\ PaintingAlone'
  BY <1>2, <1>3 DEF FlipTracked, OneInFlight, FlipFlagged, PaintingAlone, Untouched, TypeOK
<1>5. QueuedComplete' /\ FlipsSetRight' /\ SelectsIdle' /\ DestroyedQuiet'
  BY <1>2 DEF QueuedComplete, FlipsSetRight, SelectsIdle, DestroyedQuiet, Untouched
<1>6. BeforeModeset'
  BY <1>2 DEF BeforeModeset
<1> QED
  BY <1>1, <1>4, <1>5, <1>6

\* A frame is complete: whether or not the flip to it is committed, nothing was
\* in flight, so that at most one flip is now.
LEMMA FinishDrawStep ==
  ASSUME IInv, NEW o \in Output, FinishDraw(o)
  PROVE  IInv'
<1> USE DEF IInv, FinishDraw
<1>1. TypeOK'
  BY TypeOKStep DEF Next, Program, OutputStep
<1>2. ~Early /\ ~Early' /\ o \in output_list /\ painting' = {}
  BY DEF Early, BeforeModeset, Untouched, PaintingAlone
<1>3. flip[o] = NoFlip /\ events[o] = 0 /\ inbox[o] = 0 /\ frame[o] \in Frame
  BY InFlightParts DEF PaintingAlone
<1>4. \A p \in Output \ {o} :
        /\ InFlight(p)' = InFlight(p) /\ flip'[p] = flip[p] /\ content'[p] = content[p]
        /\ front_buf'[p] = front_buf[p] /\ pflip_pending'[p] = pflip_pending[p]
  BY DEF InFlight, PageFlip, Committed, TypeOK, CrtcTypeOK
<1>5. CASE PageFlip(o, BackBuffer(o)) /\ Committed(o)
  <2>1. /\ flip'[o] = BackBuffer(o) /\ front_buf'[o] = BackBuffer(o) /\ pflip_pending'[o]
        /\ content'[o][BackBuffer(o)] = frame[o] /\ BackBuffer(o) # NoFlip
    BY <1>5, BackBufferType DEF PageFlip, Committed, TypeOK, CrtcTypeOK
  <2>2. InFlight(o)' = 1
    BY <1>3, <2>1 DEF InFlight
  <2>3. OneInFlight'
    BY <1>4, <2>2 DEF OneInFlight
  <2>4. FlipTracked' /\ FlipFlagged'
    <3>1. ASSUME NEW p \in output_list \ {o}
          PROVE  /\ IF pflip_pending'[p] THEN InFlight(p)' = 1
                    ELSE InFlight(p)' <= 1 /\ (InFlight(p)' = 1 => front_buf'[p] = 0)
                 /\ flip'[p] # NoFlip => pflip_pending'[p]
      BY <1>4 DEF FlipTracked, FlipFlagged, TypeOK
    <3> QED
      BY <2>1, <2>2, <3>1 DEF FlipTracked, FlipFlagged
  <2>5. QueuedComplete'
    BY <1>3, <1>4, <2>1 DEF QueuedComplete
  <2>6. FlipsSetRight'
    BY <1>2, <1>4, <2>1 DEF FlipsSetRight, FrontBufferShown, Early
  <2> QED
    BY <1>1, <1>2, <1>4, <2>3, <2>4, <2>5, <2>6
       DEF BeforeModeset, PaintingAlone, SelectsIdle, DestroyedQuiet, Idle, MayFail
<1>6. CASE UNCHANGED <<flip, front_buf, pflip_pending>>
  <2>1. InFlight(o)' = InFlight(o)
    BY <1>6 DEF InFlight
  <2>2. \A p \in Output : InFlight(p)' = InFlight(p)
    BY <1>4, <2>1
  <2>3. FlipTracked' /\ OneInFlight' /\ FlipFlagged'
    BY <1>6, <2>2 DEF FlipTracked, OneInFlight, FlipFlagged, TypeOK
  <2>4. QueuedComplete' /\ FlipsSetRight'
    BY <1>2, <1>3, <1>4, <1>6 DEF QueuedComplete, FlipsSetRight, FrontBufferShown, Early
  <2> QED
    BY <1>1, <1>2, <1>4, <1>6, <2>3, <2>4
       DEF BeforeModeset, PaintingAlone, SelectsIdle, DestroyedQuiet, Idle, MayFail
<1> QED
  BY <1>5, <1>6

\* An event is what its output had in flight: afterwards it has nothing, and if
\* it is still there and goes on, it is painted.
LEMMA PageFlipEventStep ==
  ASSUME IInv, NEW o \in Output, PageFlipEvent(o)
  PROVE  IInv'
<1> USE DEF IInv, PageFlipEvent, crtcVars
<1>1. TypeOK'
  BY TypeOKStep DEF Next, Program, OutputStep
<1>2. ~Early /\ ~Early'
  BY DEF Early, BeforeModeset, Untouched
<1>3. inbox[o] = 1 /\ flip[o] = NoFlip /\ events[o] = 0
  BY InFlightParts DEF OneInFlight, TypeOK
<1>4. InFlight(o)' = 0
  BY <1>3 DEF InFlight, TypeOK
<1>5. \A p \in Output \ {o} :
        /\ InFlight(p)' = InFlight(p) /\ pflip_pending'[p] = pflip_pending[p]
        /\ content'[p] = content[p]
  BY DEF InFlight, ClearPending, BeginDraw, TypeOK
<1>6. OneInFlight'
  BY <1>4, <1>5 DEF OneInFlight
<1>7. FlipTracked' /\ FlipFlagged'
  <2>1. ASSUME NEW p \in output_list \ {o}
        PROVE  /\ IF pflip_pending'[p] THEN InFlight(p)' = 1
                  ELSE InFlight(p)' <= 1 /\ (InFlight(p)' = 1 => front_buf'[p] = 0)
               /\ flip'[p] # NoFlip => pflip_pending'[p]
    BY <1>5 DEF FlipTracked, FlipFlagged, TypeOK
  <2>2. o \in output_list => ~pflip_pending'[o]
    BY DEF ClearPending, TypeOK
  <2> QED
    BY <1>3, <1>4, <2>1, <2>2 DEF FlipTracked, FlipFlagged
<1>8. PaintingAlone'
  <2>1. CASE o \in output_list /\ Redraw(o)
    <3>1. NextFrame(o) \in Frame
      BY NextFrameType DEF TypeOK
    <3>2. frame'[o] \in Frame /\ painting' = {o}
      BY <2>1, <3>1 DEF BeginDraw, TypeOK
    <3> QED
      BY <1>4, <2>1, <3>2 DEF PaintingAlone
  <2>2. CASE ~(o \in output_list /\ Redraw(o))
    BY <2>2 DEF PaintingAlone
  <2> QED
    BY <2>1, <2>2
<1>9. QueuedComplete'
  BY <1>3, <1>5 DEF QueuedComplete
<1>10. FlipsSetRight'
  BY <1>2 DEF FlipsSetRight, FrontBufferShown
<1>11. SelectsIdle'
  <2>1. phase # "select"
    BY <1>3 DEF SelectsIdle, Idle, NoEvents
  <2> QED
    BY <2>1 DEF SelectsIdle
<1>12. DestroyedQuiet' /\ BeforeModeset'
  BY <1>2 DEF DestroyedQuiet, BeforeModeset, MayFail
<1> QED
  BY <1>1, <1>6, <1>7, <1>8, <1>9, <1>10, <1>11, <1>12

\* drmHandleEvent() reads while nothing read before is left.
LEMMA ReadStep ==
  ASSUME IInv, TypeOK', ReadEvents, Idle, ~Early, ~Early', phase' # "select",
         UNCHANGED <<scanout, flip, output_list, outVars, faults>>
  PROVE  IInv'
<1> USE DEF IInv, outVars
<1>1. \A o \in Output : InFlight(o)' = InFlight(o)
  BY DEF InFlight, ReadEvents, NoEvents, Idle, TypeOK, CrtcTypeOK
<1>2. FlipTracked' /\ OneInFlight' /\ FlipFlagged' /\ PaintingAlone'
  BY <1>1 DEF FlipTracked, OneInFlight, FlipFlagged, PaintingAlone, TypeOK
<1>3. QueuedComplete' /\ FlipsSetRight' /\ DestroyedQuiet'
  BY DEF QueuedComplete, FlipsSetRight, FrontBufferShown, DestroyedQuiet, MayFail
<1> QED
  BY <1>2, <1>3 DEF BeforeModeset, SelectsIdle

LEMMA SelectEventsStep ==
  ASSUME IInv, SelectEvents
  PROVE  IInv'
<1> USE DEF IInv, SelectEvents, outVars
<1>1. TypeOK' /\ ~Early /\ ~Early' /\ Idle
  BY TypeOKStep DEF Next, Program, Early, SelectsIdle
<1>2. CASE ReadEvents
  BY <1>1, <1>2, ReadStep
<1>3. CASE UNCHANGED <<events, inbox>>
  BY <1>1, <1>3, MoveStep DEF BeforeModeset, SelectsIdle, crtcVars
<1> QED
  BY <1>2, <1>3

LEMMA WaitFlipStep ==
  ASSUME IInv, NEW o \in Output, WaitFlip(o)
  PROVE  IInv'
<1> USE DEF IInv, WaitFlip
<1>1. TypeOK' /\ ~Early /\ ~Early' /\ phase' # "select"
  BY TypeOKStep DEF Next, Program, OutputStep, Early
<1> QED
  BY <1>1, ReadStep

\* An output is destroyed with a flip queued only if drmHandleEvent() may fail:
\* otherwise pflip_pending is clear, and it tells of every flip.
LEMMA DestroyOutputStep ==
  ASSUME IInv, NEW o \in Output, DestroyOutput(o)
  PROVE  IInv'
<1> USE DEF IInv, DestroyOutput, outVars
<1>1. TypeOK'
  BY TypeOKStep DEF Next, Program, OutputStep
<1>2. ~Early /\ ~Early' /\ phase' # "select"
  BY DEF Early
<1>3. \A p \in Output : InFlight(p)' = InFlight(p)
  BY DEF InFlight
<1>4. FlipTracked' /\ OneInFlight' /\ FlipFlagged' /\ PaintingAlone'
  BY <1>3 DEF FlipTracked, OneInFlight, FlipFlagged, PaintingAlone, TypeOK, Idle
<1>5. QueuedComplete'
  BY DEF QueuedComplete
<1>6. FlipsSetRight'
  BY <1>2 DEF FlipsSetRight, FrontBufferShown, SetCrtc, TypeOK, CrtcTypeOK, Off, Buf
<1>7. DestroyedQuiet'
  BY DEF DestroyedQuiet, MayDestroy, MayFail, FlipFlagged, TypeOK
<1> QED
  BY <1>1, <1>2, <1>4, <1>5, <1>6, <1>7 DEF BeforeModeset, SelectsIdle

\* The vertical blank turns a flip into an event, and shows what was queued.
LEMMA VblankStep ==
  ASSUME IInv, NEW o \in Output, OutputVblank(o)
  PROVE  IInv'
<1> USE DEF IInv, OutputVblank, Vblank, outVars
<1>1. TypeOK'
  BY TypeOKStep DEF Next
<1>2. ~Early /\ ~Early'
  BY DEF Early, BeforeModeset, Untouched
<1>3. \A p \in Output : InFlight(p)' = InFlight(p)
  BY DEF InFlight, TypeOK, CrtcTypeOK, NoFlip
<1>4. flip'[o] = NoFlip /\ \A p \in Output \ {o} : flip'[p] = flip[p]
  BY DEF TypeOK, CrtcTypeOK
<1>5. FlipTracked' /\ OneInFlight' /\ FlipFlagged' /\ PaintingAlone'
  BY <1>3, <1>4 DEF FlipTracked, OneInFlight, FlipFlagged, PaintingAlone, TypeOK
<1>6. QueuedComplete' /\ SelectsIdle' /\ DestroyedQuiet'
  BY <1>4 DEF QueuedComplete, SelectsIdle, Idle, DestroyedQuiet, MayFail
<1>7. FlipsSetRight'
  BY <1>2, <1>4 DEF FlipsSetRight, FrontBufferShown, TypeOK, CrtcTypeOK, Off, Buf
<1> QED
  BY <1>1, <1>2, <1>5, <1>6, <1>7 DEF BeforeModeset

LEMMA IInvStep == IInv /\ [Next]_vars => IInv'
<1> SUFFICES ASSUME IInv, [Next]_vars PROVE IInv'
  OBVIOUS
<1>0. TypeOK'
  BY TypeOKStep
<1>1. CASE TestCommit \/ EndPaint \/ LoopTest \/ SelectStop \/ SelectTimeout
           \/ Exit \/ Expire \/ UNCHANGED vars \/ \E o \in Output : TakeOutput(o)
  <2> USE <1>1 DEF TestCommit, EndPaint, LoopTest, SelectStop, SelectTimeout, Exit,
                   Expire, vars, TakeOutput, outVars, crtcVars
  <2>1. Early' => Early
    BY DEF Early
  <2>2. BeforeModeset'
    BY DEF IInv, BeforeModeset, Early, Untouched, PaintedAll
  <2>3. SelectsIdle'
    BY DEF IInv, SelectsIdle, Idle
  <2> QED
    BY <1>0, <2>1, <2>2, <2>3, MoveStep
<1>2. CASE CommitModeset \/ SelectEvents
  BY <1>2, CommitModesetStep, SelectEventsStep
<1>3. ASSUME NEW o \in Output, OutputStep(o) PROVE IInv'
  BY <1>1, <1>3, PaintFirstStep, FinishDrawStep, PageFlipEventStep, WaitFlipStep,
     DestroyOutputStep DEF OutputStep
<1>4. ASSUME NEW o \in Output, OutputVblank(o) PROVE IInv'
  BY <1>4, VblankStep
<1> QED
  BY <1>1, <1>2, <1>3, <1>4 DEF Next, Program

\* The invariant holds in every state modeset-atomic.c can reach.
LEMMA IInvAlways == Spec => []IInv
  BY InitIInv, IInvStep, PTL DEF Spec

----------------------------------------------------------------------------
(* Theorems *)

\* Type correctness of modeset-atomic.c's state.
THEOREM TypeCorrect == Spec => []TypeOK
<1>1. IInv => TypeOK
  BY DEF IInv
<1> QED
  BY IInvAlways, <1>1, PTL

\* pflip_pending announces one event, and misses only that of the modeset.
THEOREM FlipsTracked == Spec => []FlipTracked
<1>1. IInv => FlipTracked
  BY DEF IInv
<1> QED
  BY IInvAlways, <1>1, PTL

\* modeset_output_destroy() never frees the buffers of a queued flip, unless
\* drmHandleEvent() fails.
THEOREM DestroyedIsQuiet == Spec => []DestroyedQuiet
<1>1. IInv => DestroyedQuiet
  BY DEF IInv
<1> QED
  BY IInvAlways, <1>1, PTL

\* The buffer a CRTC starts to display is complete: in the modeset all outputs
\* have been painted, and a queued buffer was complete before it was queued.
THEOREM CompleteFramesShown == Spec => ShowsCompleteFrames
<1> DEFINE Shown == \A o \in Output :
                      scanout'[o] # scanout[o] /\ scanout'[o] \in Buf
                        => content[o][scanout'[o]] \in Frame
<1>1. IInv /\ [Next]_vars => [Shown]_vars
  <2> SUFFICES ASSUME IInv, [Next]_vars,
                      NEW p \in Output, scanout'[p] # scanout[p], scanout'[p] \in Buf
               PROVE  content[p][scanout'[p]] \in Frame
    OBVIOUS
  <2> USE DEF IInv, TypeOK, CrtcTypeOK
  <2>1. CASE CommitModeset
    <3>1. \A o \in Output : front_buf[o] = 0 /\ content[o][1] \in Frame
      BY <2>1 DEF CommitModeset, BeforeModeset, Early, Untouched
    <3>2. scanout'[p] = 1
      BY <2>1, <3>1 DEF CommitModeset, ModesetAll, BackBuffer
    <3> QED
      BY <3>1, <3>2
  <2>2. ASSUME NEW o \in Output, OutputVblank(o)
        PROVE  content[p][scanout'[p]] \in Frame
    <3>1. p = o /\ scanout'[p] = flip[p] /\ flip[p] # NoFlip
      BY <2>2 DEF OutputVblank, Vblank
    <3> QED
      BY <3>1 DEF QueuedComplete
  <2>3. ASSUME NEW o \in Output, DestroyOutput(o) PROVE FALSE
    <3>1. p = o /\ scanout'[p] = Off
      BY <2>3 DEF DestroyOutput, SetCrtc
    <3> QED
      BY <3>1 DEF Off, Buf
  <2>4. CASE TestCommit \/ EndPaint \/ LoopTest \/ SelectTimeout \/ SelectEvents \/ Exit
    BY <2>4 DEF TestCommit, EndPaint, LoopTest, SelectTimeout, SelectEvents, Exit, crtcVars
  <2>5. CASE SelectStop \/ Expire \/ UNCHANGED vars
    BY <2>5 DEF SelectStop, Expire, vars, crtcVars
  <2>6. ASSUME NEW o \in Output, \/ PaintFirst(o) \/ FinishDraw(o) \/ PageFlipEvent(o)
                                 \/ TakeOutput(o) \/ WaitFlip(o)
        PROVE  FALSE
    BY <2>6 DEF PaintFirst, FinishDraw, PageFlipEvent, TakeOutput, WaitFlip, crtcVars
  <2> QED
    BY <2>1, <2>2, <2>3, <2>4, <2>5, <2>6 DEF Next, Program, OutputStep
<1>2. Spec => [][Shown]_vars
  BY <1>1, IInvAlways, PTL DEF Spec
<1> QED
  BY <1>2 DEF ShowsCompleteFrames

\* From the first flip after the modeset on, modeset_draw_out() paints buffers
\* that are neither shown nor queued: front_buf, once right, stays right, and
\* whenever an output is painted nothing is in flight.
LEMMA RightForGood ==
  ASSUME NEW o \in Output
  PROVE  IInv /\ FrontBufferShown(o) /\ [Next]_vars => FrontBufferShown(o)'
<1> SUFFICES ASSUME IInv, FrontBufferShown(o), [Next]_vars PROVE FrontBufferShown(o)'
  OBVIOUS
<1> USE DEF IInv, TypeOK, CrtcTypeOK, FrontBufferShown
<1>1. ~Early /\ ~Early'
  BY DEF Early, Next, Program, OutputStep, TestCommit, EndPaint, CommitModeset, LoopTest,
         SelectTimeout, SelectEvents, Exit, SelectStop, Expire, OutputVblank, vars,
         PaintFirst, FinishDraw, PageFlipEvent, TakeOutput, WaitFlip, DestroyOutput
<1>2. ASSUME NEW p \in Output, FinishDraw(p) PROVE FrontBufferShown(o)'
  <2>1. CASE PageFlip(p, BackBuffer(p)) /\ Committed(p)
    BY <1>1, <1>2, <2>1, BackBufferType DEF FinishDraw, PageFlip, Committed
  <2>2. CASE UNCHANGED <<flip, front_buf>>
    BY <1>1, <1>2, <2>2 DEF FinishDraw
  <2> QED
    BY <1>2, <2>1, <2>2 DEF FinishDraw
<1>3. ASSUME NEW p \in Output, DestroyOutput(p) PROVE FrontBufferShown(o)'
  BY <1>1, <1>3 DEF DestroyOutput, SetCrtc, outVars, Off, Buf
<1>4. ASSUME NEW p \in Output, OutputVblank(p) PROVE FrontBufferShown(o)'
  BY <1>1, <1>4 DEF OutputVblank, Vblank, outVars, Off, Buf
<1>5. ASSUME NEW p \in Output, \/ PaintFirst(p) \/ PageFlipEvent(p)
                               \/ TakeOutput(p) \/ WaitFlip(p)
      PROVE  FrontBufferShown(o)'
  BY <1>1, <1>5 DEF PaintFirst, PageFlipEvent, TakeOutput, WaitFlip, crtcVars, outVars
<1>6. CASE LoopTest \/ SelectTimeout \/ SelectEvents \/ Exit \/ SelectStop \/ Expire
           \/ UNCHANGED vars
  BY <1>1, <1>6 DEF LoopTest, SelectTimeout, SelectEvents, Exit, SelectStop, Expire, vars,
                    crtcVars, outVars
<1>7. ~(TestCommit \/ EndPaint \/ CommitModeset)
  BY <1>1 DEF Early, TestCommit, EndPaint, CommitModeset
<1> QED
  BY <1>2, <1>3, <1>4, <1>5, <1>6, <1>7 DEF Next, Program, OutputStep

\* Only the one frame that follows the modeset is torn, on each output.
THEOREM TearingStops == Spec => StopsTearing
<1> SUFFICES ASSUME NEW o \in Output
             PROVE  Spec => [](front_buf[o] = 1 => []~Tears(o))
  BY DEF StopsTearing
<1>1. IInv /\ front_buf[o] = 1 => FrontBufferShown(o)
  BY DEF IInv, FlipsSetRight
<1>2. IInv /\ FrontBufferShown(o) => ~Tears(o)
  <2> SUFFICES ASSUME IInv, FrontBufferShown(o), o \in painting
               PROVE  BackBuffer(o) \notin {scanout[o], flip[o]}
    BY DEF Tears
  <2>1. flip[o] = NoFlip
    BY InFlightParts DEF IInv, PaintingAlone
  <2> QED
    BY <2>1, BackBufferType DEF IInv, FrontBufferShown
<1>3. IInv /\ FrontBufferShown(o) /\ [Next]_vars => FrontBufferShown(o)'
  BY RightForGood
<1> QED
  BY <1>1, <1>2, <1>3, IInvAlways, PTL DEF Spec

============================================================================
