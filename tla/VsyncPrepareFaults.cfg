SPECIFICATION Spec
CONSTANTS
  NumCrtc = 2
  NumConnector = 3
  Encoders <- Lists
INVARIANT TypeOK
INVARIANT CrtcsDistinct
INVARIANT CrtcsFit
INVARIANT NothingLeaks
PROPERTY SearchComplete
\* the program stops after main() has returned
CHECK_DEADLOCK FALSE
