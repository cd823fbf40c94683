SPECIFICATION Spec
CONSTANTS
  NApic = 3
  MaxCpus = 5
  Polls = 2
  Fps <- MCFps
CHECK_DEADLOCK FALSE
INVARIANTS
  NumCpusStarted
