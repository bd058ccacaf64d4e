SPECIFICATION FairSpec
CONSTANTS
  N = 2
  Conn = {q1, q2}
  Caller = {c1, c2}
  HasDeadline = TRUE
INVARIANTS HooksAfterDrain ServedByReadyApp OkMeansShutDown
PROPERTIES ShutdownReturns ListenReturns
