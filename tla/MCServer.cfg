\* From the command line to the end of the process; a tick is 2.5 seconds.
SPECIFICATION FairSpec
CONSTANTS
  Flags <- MCFlags
  Requests = {q1, q2}
  ShutdownTimeout = 2
  WriteTimeout = 4
INVARIANTS
  TypeOK TransportFollowsFlags StallLeavesBudget VerifiersAsAsked
  ShutdownKeepsRequests PanicOnlyAtShutdown
PROPERTY EndsWhenTold
