SPECIFICATION Spec
CONSTANTS
  Procs = {p1, p2, p3}
  Programs = {"runtime", "detector"}
  NoFile = NoFile
  Leftover = Leftover
  Foreign = Foreign
INVARIANT LoneGetsSocket
CHECK_DEADLOCK FALSE
