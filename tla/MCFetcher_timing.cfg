\* Attempts, delays, timeouts and a caller that gives up.
SPECIFICATION FairSpec
CONSTANTS
  RetryThrottled = TRUE
  MaxAttempts = 3
  Timeout = 2
  Delay = 1
  NoDigest = "none"
  Digests = {"d1"}
  Referrers <- MCFewReferrers
  Subject <- MCFewSubject
  Content <- MCFewContent
  CallErrors <- MCCallErrors
  MaxMoves = 0
INVARIANTS TrailComplete ContextBlame OneLateAttempt WithinBudget
PROPERTY Termination
