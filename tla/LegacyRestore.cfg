SPECIFICATION Spec
CONSTANTS
  NumCrtc = 2
  NumConnector = 2
  Encoders <- OneEncoder
  ModeCounts = {1, 2}
  Heights = {1, 7}
  Rounds = 2
CHECK_DEADLOCK FALSE
INVARIANTS
  CrtcsRestored
