SPECIFICATION Spec
CONSTANTS
  Procs = {s1, s2, s3}
  NoFile = NoFile
  Leftover = Leftover
  Foreign = Foreign
  Unlocked = Unlocked
INVARIANT ServingIsReachable
PROPERTY RemovesOnlyStale
CHECK_DEADLOCK FALSE
