--------------------------- MODULE FetchContract ---------------------------
(***************************************************************************)
(* What one call of fetcher.BundleFromName promises its caller, without    *)
(* the registry, the context or the timers: failed attempts are recorded   *)
(* one by one, only a retryable failure with attempts left is followed by  *)
(* another attempt, and the call ends once, with one of                    *)
(*   - a success, whose bundles all attest the digest that is returned,    *)
(*   - the failure of its last attempt, when a retry cannot help or none   *)
(*     is left,                                                            *)
(*   - the caller's own cancellation or deadline,                          *)
(*   - a panic.                                                            *)
(* Fetcher implements this specification, and Admission uses its set of    *)
(* results in place of the fetcher.                                        *)
(***************************************************************************)
EXTENDS FetchResult

VARIABLES
  trail,   \* outcomes: one AttemptOutcome per failed attempt, oldest first
  ret      \* what the call has returned

\* The caller gave up: the kinds a done context is reported with.
ContextKind == {"timeout", "canceled"}

-----------------------------------------------------------------------------
Init == trail = <<>> /\ ret = NoResult

Retry ==
  /\ ret = NoResult
  /\ Len(trail) + 1 < MaxAttempts
  /\ \E o \in AttemptOutcome :
       trail' = Append(trail, o) /\ Retryable(o.reason)
  /\ UNCHANGED ret

Succeed ==
  /\ ret = NoResult
  /\ \E bs \in SUBSET Referrers, h \in Digests \cup {NoDigest} :
       /\ bs = {} <=> h = NoDigest
       /\ \A r \in bs : Subject[r] = h
       /\ ret' = Success(bs, h, Len(trail) + 1, trail)
  /\ UNCHANGED trail

\* The last attempt's failure is final, or a done context takes its place.
Fail ==
  /\ ret = NoResult
  /\ ret'.status \in Nat
  /\ \E o \in AttemptOutcome :
       /\ trail' = Append(trail, o)
       /\ \E kind \in FailureKind :
            /\ \/ kind = o.reason /\ (~Retryable(o.reason) \/ Len(trail) + 1 = MaxAttempts)
               \/ kind \in ContextKind /\ Retryable(o.reason)
            /\ ret' = Failure(kind, o.step, ret'.status, Len(trail) + 1, trail')

\* The context is done between two attempts.
Abandon ==
  /\ ret = NoResult
  /\ Len(trail) \in 1..(MaxAttempts - 1)
  /\ \E kind \in ContextKind :
       ret' = Failure(kind, NoStep, 0, Len(trail), trail)
  /\ UNCHANGED trail

Panic == ret = NoResult /\ ret' = Panicked /\ UNCHANGED trail

Next == Retry \/ Succeed \/ Fail \/ Abandon \/ Panic

Spec == Init /\ [][Next]_<<trail, ret>>
=============================================================================
