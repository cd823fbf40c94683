SPECIFICATION FairSpec
CONSTANTS
  o1 = o1
  o2 = o2
  Output <- TwoOutputs
  FrameMod = 2
  Faults <- AllFaults
INVARIANT TypeOK
INVARIANT FlipTracked
INVARIANT DestroyedQuiet
PROPERTY ShowsCompleteFrames
PROPERTY StopsTearing
PROPERTY KeepsDrawing
PROPERTY Terminates
\* the program stops after main() has returned
CHECK_DEADLOCK FALSE
