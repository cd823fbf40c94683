SPECIFICATION Spec
CONSTANTS
  f1 = f1
  f2 = f2
  File <- TwoFiles
INVARIANT TypeOK
INVARIANT CodeResident
INVARIANT NothingLeft
\* an unloaded module is not loaded again
CHECK_DEADLOCK FALSE
