SPECIFICATION Spec
CONSTANTS
  NumCrtc = 2
  NumConnector = 2
  Encoders <- OneEncoder
  Planes <- UsualPlanes
  CallsFail = FALSE
INVARIANT PlanesFit
\* the program stops after main() has returned
CHECK_DEADLOCK FALSE
