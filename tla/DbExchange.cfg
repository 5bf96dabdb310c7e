SPECIFICATION Spec
CONSTANTS
  c1 = c1
  c2 = c2
  d1 = d1
  Callers = {c1, c2}
  Clients = {d1}
  ClientOf <- Shared
  MaxCalls = 2
  MaxConns = 2
  Free = Free
INVARIANTS ResponseMatches OutcomeIsTrue StoppedIsQuiet
PROPERTIES ExecReturns ServeStops
CHECK_DEADLOCK FALSE
