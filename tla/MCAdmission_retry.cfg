\* Faults, missed responses and expiries are finite: every pod is decided on
\* but the one with an image whose fetch panics.
SPECIFICATION AdmFairSpec
CONSTANTS
  RetryThrottled = FALSE
  MaxAttempts = 2
  NoDigest = "none"
  Digests <- MCDigests
  Referrers <- MCReferrers
  Subject <- MCSubject
  Content <- MCContent
  Attests <- MCSubject
  Roots <- MCRoots
  Trusts <- MCTrusts
  Keys <- MCKeys
  Resolves <- MCResolves
  FetchFailures <- MCFetchFailures
  Requests <- MCRequests
  Handlers = {"h1", "h2"}
  FaultyKeyChain = TRUE
  FaultyVerifier = TRUE
  MaxRequests = 6
  MaxAsks = 3
  Pods <- MCPods
  NoPod = "nobody"
  Images <- MCImages
  MaxFaults = 1
  MaxLosses = 1
INVARIANT AdmTypeOK
PROPERTY EveryPodDecided
