------------------------------- MODULE Config -------------------------------
(***************************************************************************)
(* What the flags of aaop configure: the fetcher's package variables and   *)
(* the registry transport built from them (cmd/aaop/aaop.go,               *)
(* pkg/fetcher/bundle.go), and the verifiers, one per trust root           *)
(* (internal/app/verifier.go, pkg/verifier/verifier.go).                   *)
(*                                                                         *)
(* Durations are milliseconds, and switches 0 or 1.  A list flag is the    *)
(* sequence of its parts after Split and TrimSpace.                        *)
(***************************************************************************)
EXTENDS Collections

FetchVars == {"MaxAttempts", "Timeout", "Delay", "RetryThrottled"}
PhaseVars == {"DialTimeout", "TLSHandshakeTimeout", "ResponseHeaderTimeout"}
PoolVars  == {"DialKeepAlive", "IdleConnTimeout", "MaxIdleConns", "MaxIdleConnsPerHost"}
Setting   == FetchVars \cup PhaseVars \cup PoolVars

\* The package variables before the flags are applied; an override of 0 means
\* that the phase is derived.
Defaults ==
  [s \in Setting |->
     CASE s = "MaxAttempts" -> 3 [] s = "Timeout" -> 3000
       [] s \in {"Delay", "RetryThrottled"} \cup PhaseVars -> 0
       [] s \in {"DialKeepAlive", "IdleConnTimeout"} -> 10000
       [] s \in {"MaxIdleConns", "MaxIdleConnsPerHost"} -> 25]

\* The phases' fractions of the attempt's budget, in fifths.
fraction == [p \in PhaseVars |-> IF p = "ResponseHeaderTimeout" THEN 4 ELSE 3]

minPhaseTimeout == 250

\* The floor takes the budget's place.
BugPickPhaseTimeout(override, bundleTimeout, fifths) ==
  LET derived == (bundleTimeout * fifths) \div 5
  IN  IF override > 0 THEN override
      ELSE IF derived < minPhaseTimeout THEN bundleTimeout ELSE derived

pickPhaseTimeout(override, bundleTimeout, fifths) ==
  LET derived == (bundleTimeout * fifths) \div 5
  IN  IF override > 0 THEN override
      ELSE IF derived < minPhaseTimeout THEN minPhaseTimeout ELSE derived

newRegistryTransport(vars) ==
  [s \in PhaseVars \cup PoolVars |->
     IF s \in PoolVars THEN vars[s]
     ELSE pickPhaseTimeout(vars[s], vars["Timeout"], fraction[s])]

\* What configureRegistryPool and configureBundleFetcher accept.
ValidPool(settings) == \A s \in PoolVars : settings[s] >= 0

ValidFetch(settings) ==
  /\ settings["MaxAttempts"] >= 1 /\ settings["Timeout"] > 0 /\ settings["Delay"] >= 0
  /\ \A s \in PhaseVars : settings[s] >= 0

Apply(vars, settings, S) == [s \in Setting |-> IF s \in S THEN settings[s] ELSE vars[s]]

-----------------------------------------------------------------------------
\* The parts of a list flag that are not blank.
Candidates(list) == Picked(list, {i \in DOMAIN list : list[i] # ""})

defaultTR == "trusted_root.json"

\* New: the trust root at a target of a TUF repository, and what it requires.
New(repo, target, requires) == [repo |-> repo, target |-> target, requires |-> requires]

PGIVerifier == New("sigstore", <<defaultTR>>, {"sct", "tlog", "observed timestamp"})

GHVerifier(td) ==
  New("github", IF td \in {"", "dotcom"} THEN <<defaultTR>> ELSE <<td, defaultTR>>,
      {"signed timestamp"})

LoadCustomVerifier(targets) ==
  [i \in DOMAIN targets |-> New("custom", <<targets[i]>>, {"signed timestamp"})]

\* The default domain is there to have some verifier.
BugLoadVerifiers(pgi, tds) ==
  LET domains == IF tds = <<>> /\ ~pgi THEN <<"dotcom">> ELSE tds
  IN  (IF pgi THEN <<PGIVerifier>> ELSE <<>>) \o
      [i \in DOMAIN domains |-> GHVerifier(domains[i])]

LoadVerifiers(pgi, tds) ==
  LET domains == IF tds = <<>> THEN <<"dotcom">> ELSE tds
  IN  (IF pgi THEN <<PGIVerifier>> ELSE <<>>) \o
      [i \in DOMAIN domains |-> GHVerifier(domains[i])]

\* The verifiers CreateVerifier loads, in order.
CreateVerifier(flags) ==
  LET targets == Candidates(flags.tufTargets)
      custom  == flags.tufRepo # "" /\ flags.tufRoot # "" /\ targets # <<>>
  IN  (IF custom THEN LoadCustomVerifier(targets) ELSE <<>>) \o
      LoadVerifiers(~flags.noPGI, Candidates(flags.trustDomains))
=============================================================================
