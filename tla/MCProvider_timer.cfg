\* One request for an image whose referrer has no layers.
SPECIFICATION Spec
CONSTANTS
  RetryThrottled = FALSE
  MaxAttempts = 2
  NoDigest = "none"
  Digests <- MCDigests
  Referrers <- MCReferrers
  Subject <- MCSubject
  Content <- MCContent
  Attests <- MCAttests
  Roots <- MCRoots
  Trusts <- MCTrusts
  Keys <- MCKeys
  Resolves <- MCResolves
  FetchFailures <- MCFetchFailures
  Requests <- MCRequests
  Handlers = {"h1"}
  FaultyKeyChain = TRUE
  FaultyVerifier = TRUE
  MaxRequests = 1
INVARIANT SuccessMeansComplete
