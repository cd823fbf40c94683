SPECIFICATION Spec
CONSTANTS
  o1 = o1
  o2 = o2
  Output <- TwoOutputs
  FrameMod = 2
  Faults <- NoFaults
SYMMETRY Symmetry
INVARIANT NoTearing
\* the program stops after main() has returned
CHECK_DEADLOCK FALSE
