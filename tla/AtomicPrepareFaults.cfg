SPECIFICATION Spec
CONSTANTS
  NumCrtc = 2
  NumConnector = 3
  Encoders <- OneEncoder
  Planes <- UsualPlanes
  CallsFail = TRUE
INVARIANT TypeOK
INVARIANT NothingLeaks
INVARIANT FitUnlessBound
INVARIANT DistinctUnlessBound
\* the program stops after main() has returned
CHECK_DEADLOCK FALSE
