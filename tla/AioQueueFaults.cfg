SPECIFICATION FairSpec
CONSTANTS
  Depth = 3
  Count = 4
  MaxErrors = 3
INVARIANT TypeOK
INVARIANT OneUse
INVARIANT DepthKept
INVARIANT CountReached
PROPERTY Terminates
\* the program waits for ever when every submission has failed
CHECK_DEADLOCK FALSE
