\* Two handlers at once, three requests, every kind of image and of failure.
SPECIFICATION Spec
CONSTANTS
  RetryThrottled = FALSE
  MaxAttempts = 2
  NoDigest = "none"
  Digests <- MCDigests
  Referrers <- MCReferrers
  Subject <- MCSubject
  Content <- MCContent
  Attests <- MCAttests
  Roots <- MCRoots
  Trusts <- MCTrusts
  Keys <- MCKeys
  Resolves <- MCResolves
  FetchFailures <- MCFetchFailures
  Requests <- MCRequests
  Handlers = {"h1", "h2"}
  FaultyKeyChain = TRUE
  FaultyVerifier = TRUE
  MaxRequests = 3
INVARIANTS TypeOK ItemsAreVerdicts BundlesAccounted
