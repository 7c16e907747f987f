\* A handler can panic, and the keychain, the verifier and the registry can fail.
SPECIFICATION AdmSpec
CONSTANTS
  RetryThrottled = FALSE
  MaxAttempts = 2
  NoDigest = "none"
  Digests <- MCDigests
  Referrers <- MCReferrers
  Subject <- MCSubject
  Content <- MCContent
  Attests <- MCSubject
  Roots <- MCRoots
  Trusts <- MCTrusts
  Keys <- MCKeys
  Resolves <- MCResolves
  FetchFailures <- MCFetchFailures
  Requests <- MCRequests
  Handlers = {"h1", "h2"}
  FaultyKeyChain = TRUE
  FaultyVerifier = TRUE
  MaxRequests = 6
  MaxAsks = 3
  Pods <- MCPods
  NoPod = "nobody"
  Images <- MCCrashImages
  MaxFaults = 1
  MaxLosses = 1
INVARIANTS CacheSound OnlyMissingRefetched
