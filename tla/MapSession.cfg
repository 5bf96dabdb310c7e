SPECIFICATION FairSpec
CONSTANTS
  Clients = {m1, m2}
  NoWindow = NoWindow
  Backends = {"sdl"}
  Bounds <- McBounds
  FeedLines <- McLines
  MaxLines = 2
  Observations = 1
  UpdatesCap = 1
  NoticesCap = 1
  Fed = m1
  Demo <- McDemo
  Overlap = FALSE
  Cancellable = {"subscribe", "create", "draw", "show", "main", "redraw", "await"}
  TimesOut = {"create", "draw", "show", "redraw", "close"}
  WmMayStop = TRUE
INVARIANTS FrontIsWhole NoDuplicateClose NoOrphanWindow NoStaleClose FeedLinesHarmless
PROPERTIES SessionEnds LatestShown
CHECK_DEADLOCK FALSE
