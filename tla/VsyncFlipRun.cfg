SPECIFICATION FairSpec
CONSTANTS
  o1 = o1
  o2 = o2
  Output <- TwoOutputs
  FrameMod = 3
  Faults <- CallFaults
INVARIANT TypeOK
INVARIANT NoTearing
INVARIANT FlipTracked
INVARIANT NoStaleEvent
PROPERTY ImplementsFrameQueue
PROPERTY KeepsDrawing
PROPERTY Terminates
\* the program stops after main() has returned
CHECK_DEADLOCK FALSE
