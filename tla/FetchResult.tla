---------------------------- MODULE FetchResult ----------------------------
(***************************************************************************)
(* What a call of fetcher.BundleFromName returns: the values the fetcher,  *)
(* its contract and its caller share.                                      *)
(***************************************************************************)
EXTENDS FetchErrors

CONSTANTS
  MaxAttempts,   \* package variable of the same name
  Digests,       \* image digests
  NoDigest,      \* the nil *v1.Hash
  Referrers,     \* referrer manifests the registry can hold
  Subject        \* the digest each referrer refers to

ASSUME MaxAttemptsAssumption == MaxAttempts \in Nat \ {0}
ASSUME DigestAssumption == NoDigest \notin Digests
ASSUME SubjectAssumption == Subject \in [Referrers -> Digests]

(***************************************************************************)
(* BundleResult and *FetchError in one record; outcome says which one the  *)
(* caller gets.                                                            *)
(***************************************************************************)
Result ==
  [outcome  : {"pending", "success", "failure", "panic"},
   attempts : Nat,
   trail    : Seq(AttemptOutcome),
   bundles  : SUBSET Referrers,
   hash     : Digests \cup {NoDigest},
   kind     : FailureKind \cup {NoKind},
   step     : Step \cup {NoStep},
   status   : Nat]

NoResult ==
  [outcome |-> "pending", attempts |-> 0, trail |-> <<>>, bundles |-> {},
   hash |-> NoDigest, kind |-> NoKind, step |-> NoStep, status |-> 0]

Panicked ==
  [outcome |-> "panic", attempts |-> 0, trail |-> <<>>, bundles |-> {},
   hash |-> NoDigest, kind |-> NoKind, step |-> NoStep, status |-> 0]

Success(bs, h, n, t) ==
  [outcome |-> "success", attempts |-> n, trail |-> t, bundles |-> bs,
   hash |-> h, kind |-> NoKind, step |-> NoStep, status |-> 0]

Failure(kind, step, status, n, t) ==
  [outcome |-> "failure", attempts |-> n, trail |-> t, bundles |-> {},
   hash |-> NoDigest, kind |-> kind, step |-> step, status |-> status]
=============================================================================
