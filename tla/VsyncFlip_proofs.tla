-------------------------- MODULE VsyncFlip_proofs --------------------------
(***************************************************************************)
(* Theorems about VsyncFlip, for every set of outputs, every FrameMod and  *)
(* every set of faults.                                                    *)
(***************************************************************************)
EXTENDS TLAPS, VsyncFlip

\* A painted buffer is neither shown nor queued, because the output painted
\* has nothing in flight and its CRTC, if on, shows the other buffer.
LEMMA IInvImpliesNoTearing == IInv => NoTearing
<1> SUFFICES ASSUME IInv, NEW o \in painting
             PROVE  scanout[o] # BackBuffer(o) /\ flip[o] # BackBuffer(o)
  BY DEF NoTearing
<1> USE DEF IInv, TypeOK, CrtcTypeOK, Buf, NoFlip, Saved, Off
<1>1. o \in Output /\ ~pflip_pending[o]
  BY DEF PaintingAlone
<1>2. flip[o] = NoFlip
  BY <1>1 DEF FlipTracked, InFlight
<1>3. scanout[o] \in Buf => scanout[o] = front_buf[o]
  BY <1>1, <1>2 DEF FrontBufferShown
<1>4. QED
  BY <1>1, <1>2, <1>3 DEF BackBuffer

\* The zeroed devices modeset_prepare() leaves satisfy the invariant.
LEMMA InitIInv == Init => IInv
<1> SUFFICES ASSUME Init
             PROVE  IInv
  OBVIOUS
<1>1. TypeOK
  <2>1. CrtcTypeOK
    BY DEF Init, CrtcInit, CrtcTypeOK, Buf, Off, Saved, NoFlip
  <2>2. content \in [Output -> [Buf -> Frame \cup {Torn}]] /\ frame \in [Output -> Frame]
    BY VsyncAssumption DEF Init, Frame, Buf
  <2>3. QED
    BY <2>1, <2>2 DEF Init, TypeOK, Buf, NoEvents
<1>2. \A o \in Output : /\ flip[o] = NoFlip /\ scanout[o] = Saved
                        /\ events[o] = 0 /\ inbox[o] = 0 /\ ~pflip_pending[o]
  BY DEF Init, CrtcInit, NoEvents
<1>3. FlipTracked
  BY <1>2 DEF FlipTracked, InFlight, NoFlip
<1>4. QuietBeforeFirstDraw /\ PaintingAlone /\ FrontBufferShown /\ SelectsIdle
  BY <1>2 DEF Init, SelectsIdle, QuietBeforeFirstDraw, PaintingAlone, FrontBufferShown, Buf, Saved
<1>5. QED
  BY <1>1, <1>3, <1>4 DEF IInv

\* Frames are numbered modulo FrameMod.
LEMMA NextFrame == \A f \in Frame : (f + 1) % FrameMod \in Frame
BY VsyncAssumption DEF Frame

\* Every step keeps every variable in its type.
LEMMA TypeOKStep == TypeOK /\ [Next]_vars => TypeOK'
<1> SUFFICES ASSUME TypeOK, [Next]_vars
             PROVE  TypeOK'
  OBVIOUS
<1> USE DEF TypeOK, CrtcTypeOK, Buf, NoFlip, Saved, Off, devVars, crtcVars
<1>1. ASSUME NEW o \in Output, ModesetOutput(o)
      PROVE  TypeOK'
  BY <1>1 DEF ModesetOutput, SetCrtc
<1>2. CASE StartDraw
  BY <1>2 DEF StartDraw
<1>3. ASSUME NEW o \in Output, FirstDraw(o)
      PROVE  TypeOK'
  BY <1>3, NextFrame DEF FirstDraw, BeginDraw, BackBuffer, Torn
<1>4. ASSUME NEW o \in Output, FinishDraw(o)
      PROVE  TypeOK'
  <2>1. BackBuffer(o) \in Buf
    BY DEF BackBuffer
  <2>2. content' \in [Output -> [Buf -> Frame \cup {Torn}]]
    BY <1>4, <2>1 DEF FinishDraw
  <2>3. flip' \in [Output -> Buf \cup {NoFlip}]
    BY <1>4, <2>1 DEF FinishDraw, PageFlip
  <2>4. front_buf' \in [Output -> Buf] /\ pflip_pending' \in [Output -> BOOLEAN]
    BY <1>4, <2>1 DEF FinishDraw, FlipQueued, FlipRefused
  <2>5. QED
    BY <1>4, <2>2, <2>3, <2>4 DEF FinishDraw
<1>5. ASSUME NEW o \in Output, PageFlipEvent(o)
      PROVE  TypeOK'
  BY <1>5, NextFrame
     DEF PageFlipEvent, ClearPending, BeginDraw, BackBuffer, Torn
<1>6. CASE EnterLoop \/ LoopTest \/ SelectStop \/ SelectTimeout \/ Exit \/ Expire
  BY <1>6 DEF EnterLoop, LoopTest, SelectStop, SelectTimeout, Exit, Expire
<1>7. CASE SelectEvents
  BY <1>7 DEF SelectEvents, ReadLost, ReadEvents, NoEvents
<1>8. ASSUME NEW o \in Output, TakeOutput(o)
      PROVE  TypeOK'
  BY <1>8 DEF TakeOutput
<1>9. ASSUME NEW o \in Output, WaitFlip(o)
      PROVE  TypeOK'
  BY <1>9 DEF WaitFlip, ReadEvents, NoEvents
<1>10. ASSUME NEW o \in Output, CloseOutput(o)
       PROVE  TypeOK'
  BY <1>10 DEF CloseOutput, SetCrtc, FinalScanout, Disabled
<1>11. ASSUME NEW o \in Output, OutputVblank(o)
       PROVE  TypeOK'
  BY <1>11 DEF OutputVblank, Vblank
<1>12. CASE UNCHANGED vars
  BY <1>12 DEF vars
<1>13. QED
  BY <1>1, <1>2, <1>3, <1>4, <1>5, <1>6, <1>7, <1>8, <1>9, <1>10, <1>11, <1>12
     DEF Next, Program, OutputStep

\* The steps that leave the device and the kernel as they are, and the ones
\* that only take outputs off the list or turn a CRTC off or back.
Unrelated ==
  /\ UNCHANGED <<flip, events, front_buf, pflip_pending, painting, inbox>>
  /\ \A o \in Output : scanout'[o] = scanout[o] \/ scanout'[o] \notin Buf
  /\ \A o \in Output : Quiet(o)' => Quiet(o)

\* A step that touches no event, flip or buffer of any output (the moves of
\* main() between its loops) keeps the invariant.
LEMMA UnrelatedStep == IInv /\ TypeOK' /\ SelectsIdle' /\ Unrelated => IInv'
<1> SUFFICES ASSUME IInv, TypeOK', SelectsIdle', Unrelated
             PROVE  IInv'
  OBVIOUS
<1>1. FlipTracked'
  BY DEF IInv, Unrelated, FlipTracked, InFlight
<1>2. QuietBeforeFirstDraw'
  BY DEF IInv, Unrelated, QuietBeforeFirstDraw
<1>3. PaintingAlone'
  BY DEF IInv, Unrelated, PaintingAlone
<1>4. FrontBufferShown'
  BY DEF IInv, Unrelated, FrontBufferShown
<1>5. QED
  BY <1>1, <1>2, <1>3, <1>4 DEF IInv

\* select() is called only from the loop test, when nothing is due.
LEMMA SelectsIdleStep == TypeOK /\ SelectsIdle /\ [Next]_vars => SelectsIdle'
<1> SUFFICES ASSUME TypeOK, SelectsIdle, [Next]_vars, phase' = "select"
             PROVE  Idle'
  BY DEF SelectsIdle
<1> USE DEF Idle, NoEvents, SelectsIdle, TypeOK, crtcVars, devVars
<1>1. CASE LoopTest
  BY <1>1 DEF LoopTest
<1>2. ASSUME NEW o \in Output, OutputStep(o)
      PROVE  Idle'
  BY <1>2 DEF OutputStep, ModesetOutput, FirstDraw, FinishDraw, PageFlipEvent,
              TakeOutput, WaitFlip, CloseOutput
<1>3. CASE SelectStop \/ Expire \/ UNCHANGED vars \/ \E o \in Output : OutputVblank(o)
  BY <1>3 DEF SelectStop, Expire, vars, OutputVblank
<1>4. CASE StartDraw \/ EnterLoop \/ SelectTimeout \/ SelectEvents \/ Exit
  BY <1>4 DEF StartDraw, EnterLoop, SelectTimeout, SelectEvents, Exit
<1>5. QED
  BY <1>1, <1>2, <1>3, <1>4 DEF Next, Program

\* Every step of the program and of the kernel preserves the invariant.
LEMMA IInvStep == IInv /\ [Next]_vars => IInv'
<1> SUFFICES ASSUME IInv, [Next]_vars
             PROVE  IInv'
  OBVIOUS
<1>0. TypeOK /\ TypeOK' /\ SelectsIdle'
  BY TypeOKStep, SelectsIdleStep DEF IInv
<1>1. ASSUME NEW o \in Output, ModesetOutput(o)
      PROVE  IInv'
  <2>1. ~pflip_pending[o] /\ flip[o] = NoFlip
    BY <1>0, <1>1 DEF ModesetOutput, IInv, QuietBeforeFirstDraw, Quiet, FlipTracked,
                      InFlight, TypeOK, CrtcTypeOK
  <2>2. FlipTracked' /\ PaintingAlone'
    BY <1>1 DEF ModesetOutput, devVars, IInv, FlipTracked, InFlight, PaintingAlone
  <2>3. QuietBeforeFirstDraw'
    BY <1>1 DEF ModesetOutput, devVars, IInv, QuietBeforeFirstDraw, Quiet
  <2>4. FrontBufferShown'
    BY <1>0, <1>1, <2>1 DEF ModesetOutput, devVars, SetCrtc, IInv, FrontBufferShown,
                            TypeOK, CrtcTypeOK
  <2>5. QED
    BY <1>0, <2>2, <2>3, <2>4 DEF IInv
<1>2. CASE StartDraw
  <2>1. Unrelated
    BY <1>2 DEF StartDraw, Unrelated, Quiet, crtcVars, devVars
  <2>2. QED
    BY <1>0, <2>1, UnrelatedStep
<1>3. ASSUME NEW o \in Output, FirstDraw(o)
      PROVE  IInv'
  <2>1. ~pflip_pending[o]
    BY <1>3 DEF FirstDraw, IInv, QuietBeforeFirstDraw, Quiet
  <2>2. FlipTracked' /\ FrontBufferShown'
    BY <1>3 DEF FirstDraw, crtcVars, IInv, FlipTracked, InFlight, FrontBufferShown
  <2>3. QuietBeforeFirstDraw'
    BY <1>3 DEF FirstDraw, BeginDraw, IInv, QuietBeforeFirstDraw, Quiet
  <2>4. PaintingAlone'
    BY <1>3, <2>1 DEF FirstDraw, BeginDraw, PaintingAlone
  <2>5. QED
    BY <1>0, <2>2, <2>3, <2>4 DEF IInv
<1>4. ASSUME NEW o \in Output, FinishDraw(o)
      PROVE  IInv'
  <2>1. ~pflip_pending[o] /\ flip[o] = NoFlip /\ ~Quiet(o)
    BY <1>0, <1>4 DEF FinishDraw, IInv, PaintingAlone, QuietBeforeFirstDraw, FlipTracked,
                      InFlight, TypeOK, CrtcTypeOK
  <2>2. QuietBeforeFirstDraw' /\ PaintingAlone'
    BY <1>0, <1>4, <2>1 DEF FinishDraw, FlipQueued, FlipRefused, IInv, Quiet,
                            QuietBeforeFirstDraw, PaintingAlone, TypeOK
  <2>3. CASE PageFlip(o, BackBuffer(o)) /\ FlipQueued(o)
    <3>1. BackBuffer(o) \in Buf /\ BackBuffer(o) # NoFlip
      BY <1>0 DEF BackBuffer, TypeOK, Buf, NoFlip
    <3>2. FlipTracked'
      BY <1>0, <1>4, <2>1, <2>3, <3>1
         DEF FinishDraw, PageFlip, FlipQueued, IInv, FlipTracked, InFlight, TypeOK, CrtcTypeOK
    <3>3. FrontBufferShown'
      BY <1>0, <1>4, <2>3, <3>1
         DEF FinishDraw, PageFlip, FlipQueued, IInv, FrontBufferShown, TypeOK, CrtcTypeOK
    <3>4. QED
      BY <1>0, <2>2, <3>2, <3>3 DEF IInv
  <2>4. CASE FlipRefused(o) /\ UNCHANGED flip
    <3>1. FlipTracked' /\ FrontBufferShown'
      BY <1>4, <2>4 DEF FinishDraw, FlipRefused, IInv, FlipTracked, InFlight, FrontBufferShown
    <3>2. QED
      BY <1>0, <2>2, <3>1 DEF IInv
  <2>5. QED
    BY <1>4, <2>3, <2>4 DEF FinishDraw
<1>5. ASSUME NEW o \in Output, PageFlipEvent(o)
      PROVE  IInv'
  <2>1. pflip_pending[o] /\ ~Quiet(o) /\ InFlight(o) = 1
    BY <1>0, <1>5 DEF PageFlipEvent, IInv, QuietBeforeFirstDraw, FlipTracked,
                      InFlight, TypeOK, CrtcTypeOK
  <2>2. FlipTracked'
    <3>1. InFlight(o)' = 0 /\ ~pflip_pending'[o]
      BY <1>0, <1>5, <2>1 DEF PageFlipEvent, ClearPending, crtcVars, InFlight,
                              TypeOK, CrtcTypeOK
    <3>2. \A p \in Output \ {o} : /\ InFlight(p)' = InFlight(p)
                                  /\ pflip_pending'[p] = pflip_pending[p]
      BY <1>0, <1>5 DEF PageFlipEvent, ClearPending, crtcVars, InFlight, TypeOK
    <3>3. \A p \in Output : InFlight(p)' = IF pflip_pending'[p] THEN 1 ELSE 0
      BY <3>1, <3>2 DEF IInv, FlipTracked
    <3>4. QED
      BY <3>3 DEF FlipTracked
  <2>3. QuietBeforeFirstDraw'
    BY <1>0, <1>5, <2>1 DEF PageFlipEvent, ClearPending, BeginDraw, IInv,
                            QuietBeforeFirstDraw, Quiet, TypeOK
  <2>4. PaintingAlone'
    BY <1>0, <1>5 DEF PageFlipEvent, ClearPending, BeginDraw, PaintingAlone, TypeOK
  <2>5. FrontBufferShown'
    BY <1>5 DEF PageFlipEvent, crtcVars, IInv, FrontBufferShown
  <2>6. QED
    BY <1>0, <2>2, <2>3, <2>4, <2>5 DEF IInv
<1>6. CASE EnterLoop \/ LoopTest \/ SelectStop \/ SelectTimeout \/ Exit \/ Expire
  <2>1. Unrelated
    BY <1>6 DEF EnterLoop, LoopTest, SelectStop, SelectTimeout, Exit, Expire,
                Unrelated, Quiet, crtcVars, devVars
  <2>2. QED
    BY <1>0, <2>1, UnrelatedStep
<1>7. ASSUME ReadEvents, UNCHANGED <<scanout, flip, devVars>>, inbox = NoEvents,
             \A o \in Output : Quiet(o)' => Quiet(o)
      PROVE  IInv'
  <2>1. FlipTracked'
    BY <1>0, <1>7 DEF ReadEvents, NoEvents, devVars, IInv, FlipTracked, InFlight,
                      TypeOK, CrtcTypeOK
  <2>2. QuietBeforeFirstDraw' /\ PaintingAlone' /\ FrontBufferShown'
    BY <1>7 DEF devVars, IInv, QuietBeforeFirstDraw, PaintingAlone, FrontBufferShown
  <2>3. QED
    BY <1>0, <2>1, <2>2 DEF IInv
<1>8. CASE SelectEvents
  <2>1. CASE ReadEvents
    BY <1>7, <1>8, <2>1 DEF SelectEvents, Quiet, IInv, SelectsIdle, Idle
  <2>2. CASE UNCHANGED <<events, inbox>>
    <3>1. Unrelated
      BY <1>8, <2>2 DEF SelectEvents, Unrelated, Quiet, devVars
    <3>2. QED
      BY <1>0, <3>1, UnrelatedStep
  <2>3. QED
    BY <1>8, <2>1, <2>2 DEF SelectEvents
<1>9. ASSUME NEW o \in Output, WaitFlip(o)
      PROVE  IInv'
  BY <1>7, <1>9 DEF WaitFlip, Idle, Quiet
<1>10. ASSUME NEW o \in Output, TakeOutput(o) \/ CloseOutput(o)
       PROVE  IInv'
  <2>1. Unrelated
    BY <1>0, <1>10 DEF TakeOutput, CloseOutput, SetCrtc, FinalScanout, Disabled, Unrelated,
                       Quiet, crtcVars, devVars, TypeOK, CrtcTypeOK, Buf, Saved, Off
  <2>2. QED
    BY <1>0, <2>1, UnrelatedStep
<1>11. ASSUME NEW o \in Output, OutputVblank(o)
       PROVE  IInv'
  <2>1. FlipTracked'
    BY <1>0, <1>11 DEF OutputVblank, Vblank, devVars, IInv, FlipTracked, InFlight,
                       TypeOK, CrtcTypeOK
  <2>2. QuietBeforeFirstDraw' /\ PaintingAlone'
    BY <1>11 DEF OutputVblank, devVars, IInv, QuietBeforeFirstDraw, PaintingAlone, Quiet
  <2>3. FrontBufferShown'
    BY <1>0, <1>11 DEF OutputVblank, Vblank, devVars, IInv, FrontBufferShown,
                       TypeOK, CrtcTypeOK, Buf, Off, NoFlip
  <2>4. QED
    BY <1>0, <2>1, <2>2, <2>3 DEF IInv
<1>12. CASE UNCHANGED vars
  <2>1. Unrelated
    BY <1>12 DEF vars, Unrelated, Quiet, crtcVars, devVars
  <2>2. QED
    BY <1>0, <2>1, UnrelatedStep
<1>13. QED
  BY <1>1, <1>2, <1>3, <1>4, <1>5, <1>6, <1>8, <1>9, <1>10, <1>11, <1>12
     DEF Next, Program, OutputStep

\* The invariant holds in every state modeset-vsync.c can reach.
LEMMA InductiveInvariant == Spec => []IInv
BY InitIInv, IInvStep, PTL DEF Spec

\* Type correctness of modeset-vsync.c's state.
THEOREM TypeCorrect == Spec => []TypeOK
<1>1. IInv => TypeOK
  BY DEF IInv
<1>2. QED
  BY InductiveInvariant, <1>1, PTL

\* modeset_draw_dev() never paints a buffer that is on the screen or queued
\* for it, whatever calls fail and whenever the vertical blanks come.
THEOREM NeverTears == Spec => []NoTearing
BY InductiveInvariant, IInvImpliesNoTearing, PTL

\* pflip_pending counts exactly the flip in flight, of which there is at most
\* one per output.
THEOREM FlipsTracked == Spec => []FlipTracked
<1>1. IInv => FlipTracked
  BY DEF IInv
<1>2. QED
  BY InductiveInvariant, <1>1, PTL

----------------------------------------------------------------------------
(* As long as drmHandleEvent() does not fail, VsyncFlip frees no device     *)
(* with a flip outstanding and implements FrameQueue: every step is a step  *)
(* of the queue or leaves the screen as it is.                              *)

NoReadFault == "Read" \notin Faults

----------------------------------------------------------------------------
(* Ownership *)

\* Before the modeset nothing is painted and no flip is queued.
LEMMA InitOwned == Init => Owned
BY DEF Init, Owned, Allocated

\* The event of a device is only delivered while its flip is pending, so while
\* the device is allocated; and the device is freed only once that is over.
LEMMA OwnedStep == NoReadFault /\ IInv /\ Owned /\ [Next]_vars => Owned'
<1> SUFFICES ASSUME NoReadFault, IInv, Owned, [Next]_vars
             PROVE  Owned'
  OBVIOUS
<1> USE DEF Owned, Allocated, IInv, TypeOK, crtcVars, devVars
<1>1. ASSUME NEW o \in Output, ModesetOutput(o)
      PROVE  Owned'
  BY <1>1 DEF ModesetOutput
<1>2. ASSUME NEW o \in Output, FirstDraw(o)
      PROVE  Owned'
  BY <1>2 DEF FirstDraw, BeginDraw
<1>3. ASSUME NEW o \in Output, FinishDraw(o)
      PROVE  Owned'
  BY <1>3 DEF FinishDraw, FlipQueued, FlipRefused
<1>4. ASSUME NEW o \in Output, PageFlipEvent(o)
      PROVE  Owned'
  <2>1. pflip_pending[o]
    BY <1>4 DEF PageFlipEvent, FlipTracked, InFlight, CrtcTypeOK
  <2>2. QED
    BY <1>4, <2>1 DEF PageFlipEvent, ClearPending, BeginDraw
<1>5. ASSUME NEW o \in Output, TakeOutput(o)
      PROVE  Owned'
  BY <1>5 DEF TakeOutput
<1>6. ASSUME NEW o \in Output, CloseOutput(o)
      PROVE  Owned'
  <2>1. ~pflip_pending[o] /\ closing = {o} /\ painting = {}
    BY <1>6 DEF CloseOutput, MayClose, NoReadFault, Idle
  <2>2. QED
    BY <1>6, <2>1 DEF CloseOutput
<1>7. ASSUME NEW o \in Output, WaitFlip(o)
      PROVE  Owned'
  BY <1>7 DEF WaitFlip
<1>8. CASE StartDraw \/ EnterLoop \/ LoopTest \/ SelectTimeout \/ SelectEvents \/ Exit
  BY <1>8 DEF StartDraw, EnterLoop, LoopTest, SelectTimeout, SelectEvents, Exit
<1>9. CASE SelectStop \/ Expire \/ UNCHANGED vars \/ \E o \in Output : OutputVblank(o)
  BY <1>9 DEF SelectStop, Expire, vars, OutputVblank
<1>10. QED
  BY <1>1, <1>2, <1>3, <1>4, <1>5, <1>6, <1>7, <1>8, <1>9 DEF Next, Program, OutputStep

\* Ownership holds in every state modeset-vsync.c can reach.
LEMMA OwnedInvariant == NoReadFault /\ Spec => []Owned
<1> SUFFICES ASSUME NoReadFault
             PROVE  Spec => []Owned
  OBVIOUS
<1>1. IInv /\ Owned /\ [Next]_vars => Owned'
  BY OwnedStep
<1>2. QED
  BY InitOwned, InductiveInvariant, <1>1, PTL DEF Spec

\* modeset_cleanup() leaves no event that could reach a freed device, and main()
\* returns with no flip outstanding.
THEOREM NoDanglingEvent == NoReadFault /\ Spec => []NoStaleEvent
<1> SUFFICES ASSUME NoReadFault
             PROVE  Spec => []NoStaleEvent
  OBVIOUS
<1>1. IInv /\ Owned => NoStaleEvent
  BY DEF IInv, FlipTracked, Owned, NoStaleEvent
<1>2. QED
  BY InductiveInvariant, OwnedInvariant, <1>1, PTL

----------------------------------------------------------------------------
(* Frames *)

\* The cleared buffers modeset_create_fb() leaves are frame 0 of every output.
LEMMA InitFrames == Init => FramesInOrder
<1> SUFFICES ASSUME Init, NEW o \in Output
             PROVE  Ordered(o)
  BY DEF FramesInOrder
<1>1. content[o][front_buf[o]] = 0 /\ frame[o] = 0 /\ o \notin painting
  BY DEF Init, Buf
<1>2. ~pflip_pending[o] /\ flip[o] = NoFlip /\ scanout[o] = Saved /\ o \in Allocated
  BY DEF Init, CrtcInit, Allocated
<1>3. QED
  BY <1>1, <1>2, VsyncAssumption DEF Ordered, Frame, Saved, Off, Buf

\* Nothing that Ordered(o) speaks of changes, but for o having drawn.
Untouched(o) ==
  /\ content'[o] = content[o] /\ front_buf'[o] = front_buf[o] /\ frame'[o] = frame[o]
  /\ pflip_pending'[o] = pflip_pending[o]
  /\ flip'[o] = flip[o] /\ scanout'[o] = scanout[o]
  /\ o \in painting' => o \in painting
  /\ Quiet(o)' => Quiet(o)
  /\ phase' = "modeset" /\ o \in todo' => phase = "modeset" /\ o \in todo
  /\ o \in Allocated' <=> o \in Allocated

\* A step that does not touch an output keeps its frames in order.
LEMMA UntouchedOrdered ==
  ASSUME NEW o \in Output, Ordered(o), Untouched(o)
  PROVE  Ordered(o)'
BY DEF Ordered, Untouched, BackBuffer

\* The first frame modeset_draw_dev() renders is frame 1.
LEMMA FirstFrame == (0 + 1) % FrameMod = 1
BY VsyncAssumption

\* Starting a frame: the back buffer is neither shown nor queued, and the
\* frame number is the successor of the front buffer's.
LEMMA BeginDrawOrdered ==
  ASSUME IInv, IInv', Owned, NEW o \in Output, Ordered(o), BeginDraw(o), o \in Allocated,
         flip[o] = NoFlip, UNCHANGED <<crtcVars, phase, modeset_list, closing, front_buf>>,
         ~pflip_pending'[o], ~Quiet(o)', frame[o] = content[o][front_buf[o]],
         scanout[o] = Saved => frame[o] = 0
  PROVE  Ordered(o)'
<1> USE DEF IInv, TypeOK, CrtcTypeOK, Buf, crtcVars
<1>1. front_buf'[o] = front_buf[o] /\ content'[o][front_buf[o]] = content[o][front_buf[o]]
  BY DEF BeginDraw, BackBuffer
<1>2. frame'[o] = (frame[o] + 1) % FrameMod
  BY DEF BeginDraw
<1>3. frame[o] = 0 => frame'[o] = 1
  BY <1>2, FirstFrame
<1>4. flip'[o] = NoFlip /\ scanout'[o] = scanout[o] /\ o \in Allocated' /\ scanout[o] # Off
  BY DEF Allocated, Ordered
<1>5. ~(phase' = "modeset")
  BY DEF Quiet
<1>6. QED
  BY <1>1, <1>2, <1>3, <1>4, <1>5 DEF Ordered, Succeeds

\* Every step keeps the frames in order.
LEMMA FramesStep == NoReadFault /\ IInv /\ Owned /\ FramesInOrder /\ [Next]_vars
                    => FramesInOrder'
<1> SUFFICES ASSUME NoReadFault, IInv, Owned, FramesInOrder, [Next]_vars, NEW p \in Output
             PROVE  Ordered(p)'
  BY DEF FramesInOrder
<1>0. Ordered(p) /\ IInv' /\ Owned' /\ TypeOK /\ TypeOK'
  BY IInvStep, OwnedStep DEF FramesInOrder, IInv
<1>u. SUFFICES ASSUME ~Untouched(p)
               PROVE  Ordered(p)'
  BY <1>0, UntouchedOrdered
<1>1. ASSUME NEW o \in Output, ModesetOutput(o)
      PROVE  Ordered(p)'
  <2>1. p = o
    BY <1>0, <1>1, <1>u DEF ModesetOutput, SetCrtc, Untouched, Quiet, Allocated, devVars,
                      TypeOK, CrtcTypeOK
  <2>2. ~pflip_pending[o] /\ flip[o] = NoFlip /\ o \notin painting
    BY <1>0, <1>1 DEF ModesetOutput, IInv, QuietBeforeFirstDraw, Quiet, FlipTracked,
                      InFlight, TypeOK, CrtcTypeOK
  <2>3. o \in Allocated' /\ scanout'[o] # Off
    BY <1>0, <1>1, <2>1 DEF ModesetOutput, SetCrtc, Owned, Allocated, Ordered, TypeOK,
                      CrtcTypeOK, Buf, Off
  <2>4. o \notin todo'
    BY <1>1 DEF ModesetOutput
  <2>5. Quiet(o)
    BY <1>1 DEF ModesetOutput, Quiet
  <2>6. QED
    BY <1>0, <1>1, <2>1, <2>2, <2>3, <2>4, <2>5 DEF ModesetOutput, devVars, Ordered
<1>2. CASE StartDraw \/ EnterLoop \/ LoopTest \/ SelectTimeout \/ SelectEvents \/ Exit
           \/ SelectStop \/ Expire \/ UNCHANGED vars
  <2>1. Untouched(p)
    BY <1>0, <1>2 DEF StartDraw, EnterLoop, LoopTest, SelectTimeout, SelectEvents, Exit,
              SelectStop, Expire, vars, Untouched, Quiet, Allocated, devVars, crtcVars
  <2>2. QED
    BY <1>u, <2>1
<1>3. ASSUME NEW o \in Output, FirstDraw(o)
      PROVE  Ordered(p)'
  <2>1. p = o
    BY <1>0, <1>3, <1>u DEF FirstDraw, BeginDraw, Untouched, Quiet, Allocated, crtcVars,
                            TypeOK
  <2>2. Quiet(o) /\ ~Quiet(o)' /\ o \in Allocated
    BY <1>3 DEF FirstDraw, Quiet, Owned, Allocated
  <2>3. ~pflip_pending[o] /\ flip[o] = NoFlip
    BY <1>0, <2>2 DEF IInv, QuietBeforeFirstDraw, FlipTracked, InFlight, TypeOK, CrtcTypeOK
  <2>4. frame[o] = 0 /\ frame[o] = content[o][front_buf[o]]
    BY <1>0, <2>1, <2>2 DEF Ordered
  <2>5. QED
    BY <1>0, <1>3, <2>1, <2>2, <2>3, <2>4, BeginDrawOrdered DEF FirstDraw
<1>4. ASSUME NEW o \in Output, PageFlipEvent(o)
      PROVE  Ordered(p)'
  <2>1. p = o
    <3> SUFFICES ASSUME p # o
                 PROVE  Untouched(p)
      BY <1>u
    <3>1. /\ content'[p] = content[p] /\ frame'[p] = frame[p]
          /\ p \in painting' => p \in painting
      BY <1>0, <1>4 DEF PageFlipEvent, BeginDraw, TypeOK
    <3>2. QED
      BY <1>0, <1>4, <3>1 DEF PageFlipEvent, ClearPending, Untouched, Quiet, Allocated,
                              crtcVars, TypeOK
  <2>2. pflip_pending[o] /\ ~pflip_pending'[o] /\ flip[o] = NoFlip
    BY <1>0, <1>4 DEF PageFlipEvent, ClearPending, IInv, FlipTracked, InFlight, TypeOK,
                      CrtcTypeOK
  <2>3. o \in Allocated /\ ~Quiet(o) /\ ~Quiet(o)'
    BY <1>4, <2>2 DEF PageFlipEvent, Owned, Quiet, IInv, QuietBeforeFirstDraw
  <2>4. scanout[o] # Saved /\ frame[o] = content[o][front_buf[o]]
    BY <1>0, <2>1, <2>2, <2>3 DEF Ordered
  <2>5. CASE Redraw(o)
    BY <1>0, <1>4, <2>1, <2>2, <2>3, <2>4, <2>5, BeginDrawOrdered DEF PageFlipEvent
  <2>6. CASE ~Redraw(o)
    BY <1>0, <1>4, <2>1, <2>2, <2>3, <2>6
       DEF PageFlipEvent, Ordered, Allocated, crtcVars, BackBuffer, Quiet
  <2>7. QED
    BY <2>5, <2>6
<1>5. ASSUME NEW o \in Output, FinishDraw(o)
      PROVE  Ordered(p)'
  <2>1. p = o
    BY <1>0, <1>5, <1>u DEF FinishDraw, PageFlip, FlipQueued, FlipRefused, Untouched,
                            Quiet, Allocated, TypeOK, CrtcTypeOK
  <2>2. ~pflip_pending[o] /\ flip[o] = NoFlip /\ ~Quiet(o) /\ o \in Allocated
    BY <1>0, <1>5 DEF FinishDraw, IInv, PaintingAlone, QuietBeforeFirstDraw, FlipTracked,
                      InFlight, TypeOK, CrtcTypeOK, Owned
  <2>3. BackBuffer(o) \in Buf /\ BackBuffer(o) # front_buf[o] /\ BackBuffer(o) # NoFlip
        /\ 1 - BackBuffer(o) = front_buf[o]
    BY <1>0 DEF BackBuffer, TypeOK, Buf, NoFlip
  <2>4. /\ content'[o][BackBuffer(o)] = frame[o] /\ frame'[o] = frame[o]
        /\ content'[o][front_buf[o]] = content[o][front_buf[o]]
    BY <1>0, <1>5, <2>3 DEF FinishDraw, TypeOK
  <2>5. /\ scanout'[o] = scanout[o] /\ o \notin painting' /\ ~Quiet(o)' /\ o \in Allocated'
        /\ ~(phase' = "modeset")
    BY <1>5, <2>2 DEF FinishDraw, Quiet, Allocated
  <2>6. CASE PageFlip(o, BackBuffer(o)) /\ FlipQueued(o)
    <3>1. front_buf'[o] = BackBuffer(o) /\ pflip_pending'[o] /\ flip'[o] # NoFlip
      BY <1>0, <2>3, <2>6 DEF PageFlip, FlipQueued, TypeOK, CrtcTypeOK
    <3>2. scanout[o] \in Buf => scanout[o] = front_buf[o]
      BY <2>2 DEF IInv, FrontBufferShown
    <3>3. BackBuffer(o)' = front_buf[o]
      BY <2>3, <3>1 DEF BackBuffer
    <3>4. frame[o] \in Frame
      BY <1>0 DEF TypeOK
    <3>5. QED
      BY <1>0, <1>5, <2>1, <2>2, <2>3, <2>4, <2>5, <3>1, <3>2, <3>3, <3>4
         DEF Ordered, FinishDraw
  <2>7. CASE FlipRefused(o) /\ UNCHANGED flip
    BY <1>0, <2>1, <2>2, <2>4, <2>5, <2>7 DEF FlipRefused, Ordered
  <2>8. QED
    BY <1>5, <2>6, <2>7 DEF FinishDraw
<1>6. ASSUME NEW o \in Output, TakeOutput(o)
      PROVE  Ordered(p)'
  <2>1. Untouched(p)
    BY <1>6 DEF TakeOutput, Untouched, Quiet, Allocated, crtcVars
  <2>2. QED
    BY <1>u, <2>1
<1>7. ASSUME NEW o \in Output, WaitFlip(o)
      PROVE  Ordered(p)'
  <2>1. Untouched(p)
    BY <1>7 DEF WaitFlip, Untouched, Quiet, Allocated, devVars
  <2>2. QED
    BY <1>u, <2>1
<1>8. ASSUME NEW o \in Output, CloseOutput(o)
      PROVE  Ordered(p)'
  <2>1. closing = {o} /\ ~pflip_pending[o] /\ painting = {}
    BY <1>8 DEF CloseOutput, Idle, MayClose, NoReadFault, Owned
  <2>2. p = o \/ p \notin closing
    BY <2>1
  <2>3. CASE p # o
    <3>1. Untouched(p)
      BY <1>0, <1>8, <2>1, <2>3 DEF CloseOutput, SetCrtc, Untouched, Quiet, Allocated,
                                    devVars, TypeOK, CrtcTypeOK
    <3>2. QED
      BY <1>u, <3>1
  <2>4. CASE p = o
    <3>1. flip[o] = NoFlip /\ scanout'[o] \in {Saved, Off}
      BY <1>0, <1>8, <2>1, <2>4 DEF CloseOutput, SetCrtc, FinalScanout, Disabled, IInv,
         FlipTracked, InFlight, TypeOK, CrtcTypeOK, Buf, Saved, Off, Ordered
    <3>2. o \notin Allocated'
      BY <1>8, <2>1 DEF CloseOutput, Allocated, Owned
    <3>3. QED
      BY <1>0, <1>8, <2>1, <2>4, <3>1, <3>2
         DEF CloseOutput, Ordered, devVars, Buf, Saved, Off, Quiet
  <2>5. QED
    BY <2>3, <2>4
<1>9. ASSUME NEW o \in Output, OutputVblank(o)
      PROVE  Ordered(p)'
  <2>1. p = o
    BY <1>0, <1>9, <1>u DEF OutputVblank, Vblank, Untouched, Quiet, Allocated, devVars,
                            TypeOK, CrtcTypeOK
  <2>2. pflip_pending[o]
    BY <1>0, <1>9 DEF OutputVblank, Vblank, IInv, FlipTracked, InFlight, TypeOK, CrtcTypeOK
  <2>3. o \in Allocated /\ o \notin painting /\ ~Quiet(o)
    BY <2>2 DEF Owned, IInv, PaintingAlone, QuietBeforeFirstDraw
  <2>4. flip'[o] = NoFlip /\ scanout'[o] = flip[o] /\ flip[o] \in Buf
    BY <1>0, <1>9, <2>1, <2>3 DEF OutputVblank, Vblank, Ordered, TypeOK, CrtcTypeOK
  <2>5. QED
    BY <1>0, <1>9, <2>1, <2>2, <2>3, <2>4
       DEF OutputVblank, Ordered, devVars, Allocated, Buf, Saved, Off, Quiet
<1>10. QED
  BY <1>1, <1>2, <1>3, <1>4, <1>5, <1>6, <1>7, <1>8, <1>9 DEF Next, Program, OutputStep

\* The frames are in order in every state modeset-vsync.c can reach.
LEMMA FramesInvariant == NoReadFault /\ Spec => []FramesInOrder
<1> SUFFICES ASSUME NoReadFault
             PROVE  Spec => []FramesInOrder
  OBVIOUS
<1>1. IInv /\ Owned /\ FramesInOrder /\ [Next]_vars => FramesInOrder'
  BY FramesStep
<1>2. QED
  BY InitFrames, InductiveInvariant, OwnedInvariant, <1>1, PTL DEF Spec

----------------------------------------------------------------------------
(* Refinement *)

\* At the start no output shows a frame of the program.
LEMMA InitRefines == Init => Screen!Init
<1> SUFFICES ASSUME Init
             PROVE  Screen!Init
  OBVIOUS
<1>1. \A o \in Output : Visible(o) = FrameMod /\ flip[o] = NoFlip
  BY DEF Init, CrtcInit, Visible, Allocated, Buf, Saved
<1>2. QED
  BY <1>1 DEF Screen!Init, Screen!Unset, Queued

\* A step that neither changes the CRTC of o nor writes to the buffer it shows
\* or has queued is not seen on the screen.
LEMMA Invisible ==
  ASSUME NEW o \in Output, scanout'[o] = scanout[o], flip'[o] = flip[o],
         o \in Allocated' <=> o \in Allocated,
         scanout[o] \in Buf => content'[o][scanout[o]] = content[o][scanout[o]],
         flip[o] # NoFlip => content'[o][flip[o]] = content[o][flip[o]]
  PROVE  Visible(o)' = Visible(o) /\ Queued(o)' = Queued(o)
BY DEF Visible, Queued

\* The queue's variables, and the effects on one output that it allows.
Shown == <<[o \in Output |-> Visible(o)], [o \in Output |-> Queued(o)]>>
Effect(o) ==
  \/ Visible(o)' = Visible(o) /\ Queued(o)' = Queued(o)
  \/ Visible(o) = FrameMod /\ Visible(o)' = 0 /\ Queued(o)' = Queued(o)
  \/ /\ Queued(o) = FrameMod /\ Visible(o) # FrameMod + 1
     /\ Visible(o)' = Visible(o) /\ Queued(o)' = Screen!Succ(Visible(o))
  \/ /\ Queued(o) # FrameMod
     /\ Visible(o)' = Queued(o) /\ Queued(o)' = FrameMod
  \/ Queued(o) = FrameMod /\ Visible(o)' = FrameMod + 1 /\ Queued(o)' = Queued(o)

\* A step that all outputs but o do not see is a step of the queue, or none,
\* if its effect on o is one of these.
LEMMA OneOutput ==
  ASSUME NEW o \in Output, Effect(o),
         \A p \in Output \ {o} : Visible(p)' = Visible(p) /\ Queued(p)' = Queued(p)
  PROVE  [Screen!Next]_Shown
<1> DEFINE vis == [p \in Output |-> Visible(p)]
           que == [p \in Output |-> Queued(p)]
<1>1. vis' = [vis EXCEPT ![o] = Visible(o)'] /\ vis[o] = Visible(o)
  OBVIOUS
<1>2. que' = [que EXCEPT ![o] = Queued(o)'] /\ que[o] = Queued(o)
  OBVIOUS
<1>3. CASE Visible(o)' = Visible(o) /\ Queued(o)' = Queued(o)
  BY <1>3 DEF Shown
<1>4. CASE Visible(o) = FrameMod /\ Visible(o)' = 0 /\ Queued(o)' = Queued(o)
  <2>1. Screen!Show(o)
    BY <1>1, <1>2, <1>4 DEF Screen!Show, Screen!Unset
  <2>2. QED
    BY <2>1 DEF Screen!Next
<1>5. CASE /\ Queued(o) = FrameMod /\ Visible(o) # FrameMod + 1
           /\ Visible(o)' = Visible(o) /\ Queued(o)' = Screen!Succ(Visible(o))
  <2>1. Screen!Queue(o)
    BY <1>1, <1>2, <1>5 DEF Screen!Queue, Screen!Unset, Screen!Gone
  <2>2. QED
    BY <2>1 DEF Screen!Next
<1>6. CASE /\ Queued(o) # FrameMod
           /\ Visible(o)' = Queued(o) /\ Queued(o)' = FrameMod
  <2>1. Screen!Latch(o)
    BY <1>1, <1>2, <1>6 DEF Screen!Latch, Screen!Unset
  <2>2. QED
    BY <2>1 DEF Screen!Next
<1>7. CASE Queued(o) = FrameMod /\ Visible(o)' = FrameMod + 1 /\ Queued(o)' = Queued(o)
  <2>1. Screen!Hide(o)
    BY <1>1, <1>2, <1>7 DEF Screen!Hide, Screen!Unset, Screen!Gone
  <2>2. QED
    BY <2>1 DEF Screen!Next
<1>8. QED
  BY <1>3, <1>4, <1>5, <1>6, <1>7 DEF Effect

\* Every step of modeset-vsync.c and of its CRTCs is a step of the frame queue,
\* or leaves what is seen as it is.
LEMMA StepRefines ==
  NoReadFault /\ IInv /\ Owned /\ FramesInOrder /\ [Next]_vars => [Screen!Next]_Shown
<1> SUFFICES ASSUME NoReadFault, IInv, Owned, FramesInOrder, [Next]_vars
             PROVE  [Screen!Next]_Shown
  OBVIOUS
<1>0. TypeOK /\ TypeOK' /\ \A p \in Output : Ordered(p)
  BY TypeOKStep DEF IInv, FramesInOrder
<1>1. ASSUME NEW o \in Output, ModesetOutput(o)
      PROVE  [Screen!Next]_Shown
  <2>1. \A p \in Output \ {o} : Visible(p)' = Visible(p) /\ Queued(p)' = Queued(p)
    BY <1>0, <1>1, Invisible DEF ModesetOutput, SetCrtc, devVars, Allocated, TypeOK, CrtcTypeOK
  <2>2. Queued(o)' = Queued(o)
    BY <1>1 DEF ModesetOutput, devVars, Queued
  <2>3. scanout[o] = Saved /\ o \in Allocated /\ content[o][front_buf[o]] = 0
    BY <1>0, <1>1 DEF ModesetOutput, Ordered, Quiet, Owned, Allocated
  <2>4. Visible(o) = FrameMod
    BY <2>3 DEF Visible, Buf, Saved
  <2>5. Visible(o)' = 0 \/ Visible(o)' = Visible(o)
    BY <1>0, <1>1, <2>3 DEF ModesetOutput, SetCrtc, devVars, Visible, Allocated, TypeOK,
                            CrtcTypeOK
  <2>6. QED
    BY <2>1, <2>2, <2>4, <2>5, OneOutput DEF Effect
<1>2. ASSUME \A p \in Output : Visible(p)' = Visible(p) /\ Queued(p)' = Queued(p)
      PROVE  [Screen!Next]_Shown
  BY <1>2 DEF Shown
<1>3. CASE StartDraw \/ EnterLoop \/ LoopTest \/ SelectTimeout \/ SelectEvents \/ Exit
           \/ SelectStop \/ Expire \/ UNCHANGED vars
  BY <1>2, <1>3 DEF StartDraw, EnterLoop, LoopTest, SelectTimeout, SelectEvents, Exit,
              SelectStop, Expire, vars, Visible, Queued, Allocated, devVars, crtcVars
<1>4. ASSUME NEW o \in Output, TakeOutput(o) \/ WaitFlip(o)
      PROVE  [Screen!Next]_Shown
  BY <1>2, <1>4 DEF TakeOutput, WaitFlip, Visible, Queued, Allocated, devVars, crtcVars
<1>5. ASSUME NEW o \in Output, BeginDraw(o), UNCHANGED <<crtcVars, modeset_list, closing>>,
             flip[o] = NoFlip
      PROVE  [Screen!Next]_Shown
  <2>1. scanout[o] # BackBuffer(o)
    <3>1. front_buf[o] \in {0, 1} /\ scanout[o] \in {0, 1, 2, 3}
      BY <1>0 DEF TypeOK, CrtcTypeOK, Buf, Saved, Off
    <3>2. scanout[o] \in {0, 1} => scanout[o] = front_buf[o]
      BY <1>5 DEF IInv, FrontBufferShown, Buf
    <3>3. QED
      BY <3>1, <3>2 DEF BackBuffer
  <2>2. ASSUME NEW p \in Output
        PROVE  Visible(p)' = Visible(p) /\ Queued(p)' = Queued(p)
    <3>1. \A b \in Buf : p # o \/ b # BackBuffer(o) => content'[p][b] = content[p][b]
      BY <1>0, <1>5 DEF BeginDraw, TypeOK
    <3>2. flip[p] # NoFlip => p # o /\ flip[p] \in Buf
      BY <1>0, <1>5 DEF TypeOK, CrtcTypeOK
    <3>3. QED
      BY <1>5, <2>1, <3>1, <3>2, Invisible DEF crtcVars, Allocated
  <2>3. QED
    BY <1>2, <2>2
<1>6. ASSUME NEW o \in Output, FirstDraw(o)
      PROVE  [Screen!Next]_Shown
  <2>1. flip[o] = NoFlip
    BY <1>0, <1>6 DEF FirstDraw, IInv, QuietBeforeFirstDraw, Quiet, FlipTracked, InFlight,
                      TypeOK, CrtcTypeOK
  <2>2. QED
    BY <1>5, <1>6, <2>1 DEF FirstDraw, crtcVars
<1>7. ASSUME NEW o \in Output, PageFlipEvent(o)
      PROVE  [Screen!Next]_Shown
  <2>0. inbox[o] > 0 /\ InFlight(o) <= 1
    BY <1>0, <1>7 DEF PageFlipEvent, IInv, FlipTracked
  <2>1. flip[o] = NoFlip
    BY <1>0, <2>0 DEF InFlight, TypeOK, CrtcTypeOK
  <2>2. CASE Redraw(o)
    BY <1>5, <1>7, <2>1, <2>2 DEF PageFlipEvent, crtcVars
  <2>3. CASE ~Redraw(o)
    BY <1>2, <1>7, <2>3 DEF PageFlipEvent, Visible, Queued, Allocated, crtcVars
  <2>4. QED
    BY <2>2, <2>3
<1>8. ASSUME NEW o \in Output, FinishDraw(o)
      PROVE  [Screen!Next]_Shown
  <2>1. flip[o] = NoFlip /\ o \in Allocated /\ scanout[o] # Off
    BY <1>0, <1>8 DEF FinishDraw, IInv, PaintingAlone, FlipTracked, InFlight, TypeOK,
                      CrtcTypeOK, Owned, Ordered
  <2>2. scanout[o] \in Buf => scanout[o] = front_buf[o]
    BY <2>1 DEF IInv, FrontBufferShown
  <2>3. /\ BackBuffer(o) \in Buf /\ BackBuffer(o) # front_buf[o]
        /\ BackBuffer(o) # NoFlip /\ BackBuffer(o) # scanout[o]
    <3>1. front_buf[o] \in {0, 1} /\ scanout[o] \in {0, 1, 2, 3}
      BY <1>0 DEF TypeOK, CrtcTypeOK, Buf, Saved, Off
    <3>2. QED
      BY <2>2, <3>1 DEF BackBuffer, Buf, NoFlip
  <2>4. /\ content'[o][BackBuffer(o)] = frame[o]
        /\ \A b \in Buf \ {BackBuffer(o)} : content'[o][b] = content[o][b]
        /\ \A p \in Output \ {o} : content'[p] = content[p]
    BY <1>0, <1>8, <2>3 DEF FinishDraw, TypeOK
  <2>5. \A p \in Output \ {o} : flip'[p] = flip[p]
    BY <1>0, <1>8 DEF FinishDraw, PageFlip, TypeOK, CrtcTypeOK
  <2>6. \A p \in Output \ {o} : Visible(p)' = Visible(p) /\ Queued(p)' = Queued(p)
    BY <1>8, <2>4, <2>5, Invisible DEF FinishDraw, Allocated
  <2>7. Visible(o)' = Visible(o)
    BY <1>8, <2>3, <2>4 DEF FinishDraw, Visible, Allocated
  <2>8. Queued(o) = FrameMod
    BY <2>1 DEF Queued
  <2>9. CASE PageFlip(o, BackBuffer(o)) /\ FlipQueued(o)
    <3>1. Queued(o)' = frame[o]
      BY <1>0, <2>3, <2>4, <2>9 DEF PageFlip, Queued, TypeOK, CrtcTypeOK
    <3>2. frame[o] = Screen!Succ(Visible(o)) /\ Visible(o) # FrameMod + 1
      <4>1. CASE scanout[o] \in Buf
        <5>1. Visible(o) = content[o][front_buf[o]] /\ Visible(o) \in Frame
          BY <1>0, <2>2, <4>1 DEF Visible, Ordered
        <5>2. frame[o] = (Visible(o) + 1) % FrameMod
          BY <1>0, <1>8, <5>1 DEF FinishDraw, Ordered, Succeeds
        <5>3. QED
          BY <5>1, <5>2, VsyncAssumption DEF Screen!Succ, Screen!Frame, Frame
      <4>2. CASE scanout[o] = Saved
        <5>1. Visible(o) = FrameMod /\ frame[o] = 1
          BY <1>0, <1>8, <2>1, <4>2 DEF FinishDraw, Visible, Ordered, Buf, Saved
        <5>2. QED
          BY <5>1, VsyncAssumption DEF Screen!Succ, Screen!Frame
      <4>3. QED
        BY <1>0, <2>1, <4>1, <4>2 DEF TypeOK, CrtcTypeOK
    <3>3. QED
      BY <2>6, <2>7, <2>8, <3>1, <3>2, OneOutput DEF Effect
  <2>10. CASE FlipRefused(o) /\ UNCHANGED flip
    <3>1. Queued(o)' = Queued(o)
      BY <2>1, <2>10 DEF Queued
    <3>2. QED
      BY <2>6, <2>7, <3>1, OneOutput DEF Effect
  <2>11. QED
    BY <1>8, <2>9, <2>10 DEF FinishDraw
<1>9. ASSUME NEW o \in Output, CloseOutput(o)
      PROVE  [Screen!Next]_Shown
  <2>1. closing = {o} /\ ~pflip_pending[o]
    BY <1>9 DEF CloseOutput, MayClose, NoReadFault, Owned
  <2>2. flip[o] = NoFlip
    BY <1>0, <2>1 DEF IInv, FlipTracked, InFlight, TypeOK, CrtcTypeOK
  <2>3. scanout'[o] \notin Buf /\ o \notin Allocated'
    BY <1>0, <1>9, <2>1, <2>2 DEF CloseOutput, SetCrtc, FinalScanout, Disabled, Allocated,
       Owned, TypeOK, CrtcTypeOK, Buf, Saved, Off
  <2>4. Queued(o) = FrameMod /\ Queued(o)' = FrameMod /\ Visible(o)' = FrameMod + 1
    BY <1>9, <2>2, <2>3 DEF CloseOutput, Queued, Visible
  <2>5. \A p \in Output \ {o} : Visible(p)' = Visible(p) /\ Queued(p)' = Queued(p)
    BY <1>0, <1>9, <2>1, Invisible DEF CloseOutput, SetCrtc, devVars, Allocated, TypeOK,
                                       CrtcTypeOK
  <2>6. QED
    BY <2>4, <2>5, OneOutput DEF Effect
<1>10. ASSUME NEW o \in Output, OutputVblank(o)
       PROVE  [Screen!Next]_Shown
  <2>1. flip[o] # NoFlip /\ flip[o] \in Buf
    BY <1>0, <1>10 DEF OutputVblank, Vblank, TypeOK, CrtcTypeOK
  <2>2. pflip_pending[o] /\ o \in Allocated
    BY <1>0, <2>1 DEF IInv, FlipTracked, InFlight, TypeOK, CrtcTypeOK, Owned
  <2>3. flip[o] = front_buf[o] /\ scanout[o] # Off /\ content[o][front_buf[o]] \in Frame
    BY <1>0, <2>1, <2>2 DEF IInv, FrontBufferShown, Ordered
  <2>4. Queued(o) = content[o][flip[o]] /\ Queued(o) # FrameMod
    BY <2>1, <2>3, VsyncAssumption DEF Queued, Frame
  <2>5. Visible(o)' = content[o][flip[o]] /\ Queued(o)' = FrameMod
    BY <1>0, <1>10, <2>1, <2>3 DEF OutputVblank, Vblank, devVars, Visible, Queued, TypeOK,
                                   CrtcTypeOK
  <2>6. \A p \in Output \ {o} : Visible(p)' = Visible(p) /\ Queued(p)' = Queued(p)
    BY <1>0, <1>10, Invisible DEF OutputVblank, Vblank, devVars, Allocated, TypeOK, CrtcTypeOK
  <2>7. QED
    BY <2>4, <2>5, <2>6, OneOutput DEF Effect
<1>11. QED
  BY <1>1, <1>3, <1>4, <1>6, <1>7, <1>8, <1>9, <1>10 DEF Next, Program, OutputStep

\* modeset-vsync.c implements the frame queue: only complete frames are shown,
\* every one of them and in the order in which they were drawn.
THEOREM ImplementsQueue == NoReadFault /\ Spec => ImplementsFrameQueue
<1> SUFFICES ASSUME NoReadFault
             PROVE  Spec => Screen!Spec
  BY DEF ImplementsFrameQueue
<1>1. IInv /\ Owned /\ FramesInOrder /\ [Next]_vars => [Screen!Next]_Shown
  BY StepRefines
<1>2. Spec => Screen!Init /\ [][Screen!Next]_Shown
  BY InitRefines, InductiveInvariant, OwnedInvariant, FramesInvariant, <1>1, PTL DEF Spec
<1>3. QED
  BY <1>2, PTL DEF Screen!Spec, Shown

=============================================================================
