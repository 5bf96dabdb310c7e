SPECIFICATION Spec
CONSTANTS
  MinInt <- Lowest
  MaxInt = 3
  kMaxFrames = 4
  kMaxStack = 4
  MAX_U8 = 3
  MAX_U16 = 5
  Received = {"observation"}
  MaxCalls = 5
  MaxLoops = 4
  MaxOutput = 6
INVARIANTS FetchesAreValid CheckedNeverFaults ComputesSource
PROPERTIES CallerOperandsKept LoopsKeepStack
CHECK_DEADLOCK FALSE
