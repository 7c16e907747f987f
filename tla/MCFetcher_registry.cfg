\* The registry changes under the conversation; every kind of referrer.
SPECIFICATION Spec
CONSTANTS
  RetryThrottled = FALSE
  MaxAttempts = 2
  Timeout = 1
  Delay = 0
  NoDigest = "none"
  Digests <- MCDigests
  Referrers <- MCReferrers
  Subject <- MCSubject
  Content <- MCContent
  CallErrors <- MCFewErrors
  MaxMoves = 2
INVARIANTS TypeOK OneReading TellsTheImage NoEarlyGiveUp
PROPERTY ImplementsContract
