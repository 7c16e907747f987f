------------------------------ MODULE Fetcher ------------------------------
(***************************************************************************)
(* One call of fetcher.BundleFromName (pkg/fetcher/bundle.go): the retry   *)
(* loop retryBundle around the registry conversation DoBundleFromName,     *)
(* against a registry that changes while it is read, and under a caller    *)
(* that may cancel.                                                        *)
(*                                                                         *)
(* Every registry call of an attempt (the manifest GET, the referrers      *)
(* lookup, the fetch of one referrer's layer) is one action, taken when    *)
(* the call returns.  Time passes (Tick) while a call or the delay between *)
(* attempts is pending; what the code does between two calls takes none.   *)
(***************************************************************************)
EXTENDS FetchResult

CONSTANTS
  Timeout,       \* ticks one attempt may take
  Delay,         \* ticks between two attempts; 0 is "no delay"
  Content,       \* what each referrer manifest holds
  CallErrors,    \* errors the registry's answers can produce
  MaxMoves       \* bound: changes other parties make to the registry

ASSUME TimeAssumption == Timeout \in Nat \ {0} /\ Delay \in Nat
ASSUME MovesAssumption == MaxMoves \in Nat
ASSUME ContentAssumption ==
  Content \in [Referrers -> {"bundle", "malformed", "nolayers", "foreign"}]
ASSUME CallErrorsAssumption ==
  CallErrors \in SUBSET [is : {"deadline", "transport", "other"},
                         status : Nat, diags : Seq(STRING)]

VARIABLES
  tag,       \* registry: the digest the image reference resolves to
  present,   \* registry: the referrer manifests it holds
  moves,     \* registry: changes made so far
  ctx,       \* the caller's context: "live", or its ctx.Err()
  pc,        \* where the call is
  attempts,  \* retryBundle: attempts
  outcomes,  \* retryBundle: outcomes
  digest,    \* DoBundleFromName: desc.Digest
  listed,    \* DoBundleFromName: the manifests of the referrers index
  bundles,   \* DoBundleFromName: bundles
  left,      \* ticks before the attempt's deadline or the delay's end
  elapsed,   \* history: ticks since the call was made
  doneAt,    \* history: attempts when the context was done
  ret        \* what the call has returned

registry == <<tag, present, moves>>
attempt  == <<digest, listed, bundles>>
vars     == <<tag, present, moves, ctx, pc, attempts, outcomes, digest,
              listed, bundles, left, elapsed, doneAt, ret>>

\* The referrers of the index whose artifact type is a sigstore bundle and
\* that the loop has still to fetch.  The index lists them in the registry's
\* own order, which is any order.
Unread == {r \in listed : Content[r] # "foreign"} \ bundles

Calling == pc \in {"descriptor", "referrers", "blob"}
Running == pc \notin {"done", "panic"}

Init ==
  /\ tag \in Digests
  /\ present \in SUBSET Referrers
  /\ moves = 0
  /\ ctx = "live" /\ doneAt = 0
  /\ pc = "loop" /\ attempts = 0 /\ outcomes = <<>>
  /\ digest = NoDigest /\ listed = {} /\ bundles = {}
  /\ left = 0 /\ elapsed = 0
  /\ ret = NoResult

-----------------------------------------------------------------------------
(***************************************************************************)
(* The environment: the registry's other clients, the caller and time.     *)
(***************************************************************************)
RegistryMoves ==
  /\ Running
  /\ moves < MaxMoves
  /\ moves' = moves + 1
  /\ \/ \E d \in Digests \ {tag} : tag' = d /\ UNCHANGED present
     \/ \E r \in Referrers \ present :
          present' = present \cup {r} /\ UNCHANGED tag
     \/ \E r \in present : present' = present \ {r} /\ UNCHANGED tag
  /\ UNCHANGED <<ctx, pc, attempts, outcomes, attempt, left, elapsed, doneAt, ret>>

CtxDone ==
  /\ Running
  /\ ctx = "live"
  /\ ctx' \in {"canceled", "deadline"}
  /\ doneAt' = attempts
  /\ UNCHANGED <<registry, pc, attempts, outcomes, attempt, left, elapsed, ret>>

Tick ==
  /\ pc = "delay" \/ Calling
  /\ left > 0
  /\ left' = left - 1
  /\ elapsed' = elapsed + 1
  /\ UNCHANGED <<registry, ctx, pc, attempts, outcomes, attempt, doneAt, ret>>

-----------------------------------------------------------------------------
(***************************************************************************)
(* retryBundle.                                                            *)
(***************************************************************************)
Return(result) ==
  /\ ret' = result
  /\ pc' = "done"
  /\ left' = 0

\* ctx.Err() # nil
BugCtxErr == FALSE
CtxErr == ctx # "live"

\* An attempt that goes on collecting where the last one stopped.
BugNextAttempt ==
  /\ pc = "loop"
  /\ attempts' = attempts + 1
  /\ left' = Timeout
  /\ digest' = NoDigest /\ listed' = {} /\ UNCHANGED bundles
  /\ pc' = "descriptor"
  /\ UNCHANGED <<registry, ctx, outcomes, elapsed, doneAt, ret>>

\* The head of an iteration: the attempt's context and its first call.
NextAttempt ==
  /\ pc = "loop"
  /\ attempts' = attempts + 1
  /\ left' = Timeout
  /\ digest' = NoDigest /\ listed' = {} /\ bundles' = {}
  /\ pc' = "descriptor"
  /\ UNCHANGED <<registry, ctx, outcomes, elapsed, doneAt, ret>>

\* The select on the delay.  When both channels are ready Go picks either.
DelayOver ==
  /\ pc = "delay"
  /\ left = 0
  /\ pc' = "loop"
  /\ UNCHANGED <<registry, ctx, attempts, outcomes, attempt, left, elapsed, doneAt, ret>>

\* Counts the attempt that was not made.
BugDelayInterrupted ==
  /\ pc = "delay"
  /\ CtxErr
  /\ Return(Failure(kindFromContext(ctx), NoStep, 0, attempts + 1, outcomes))
  /\ UNCHANGED <<registry, ctx, attempts, outcomes, attempt, elapsed, doneAt>>

DelayInterrupted ==
  /\ pc = "delay"
  /\ CtxErr
  /\ Return(Failure(kindFromContext(ctx), NoStep, 0, attempts, outcomes))
  /\ UNCHANGED <<registry, ctx, attempts, outcomes, attempt, elapsed, doneAt>>

\* The loop's bound.
BugLastAttemptEarly == attempts + 1 >= MaxAttempts
BugLastAttemptLate == attempts > MaxAttempts
LastAttempt == attempts = MaxAttempts

\* finalizeFetchError: the last attempt's error, with the whole trail.
finalizeFetchError(fe, n, t) ==
  Failure(fe.kind, fe.step, fe.status, n, t)

(***************************************************************************)
(* What retryBundle does with a failed attempt, in the code's order: the   *)
(* outcome is recorded, an error a retry cannot fix is returned, then a    *)
(* done context is, and then the loop goes on or ends.                     *)
(***************************************************************************)
AttemptFails(fe) ==
  LET trail == Append(outcomes, classifyAttempt(fe))
  IN  /\ outcomes' = trail
      /\ \/ /\ ~fe.recoverable
            /\ Return(Failure(fe.kind, fe.step, fe.status, attempts, trail))
         \/ /\ fe.recoverable /\ CtxErr
            /\ Return(Failure(kindFromContext(ctx), fe.step, 0, attempts, trail))
         \/ /\ fe.recoverable /\ ~CtxErr /\ LastAttempt
            /\ Return(finalizeFetchError(fe, attempts, trail))
         \/ /\ fe.recoverable /\ ~CtxErr /\ ~LastAttempt
            /\ pc' = IF Delay > 0 THEN "delay" ELSE "loop"
            /\ left' = Delay
            /\ UNCHANGED ret
      /\ UNCHANGED <<registry, ctx, attempts, attempt, elapsed, doneAt>>

-----------------------------------------------------------------------------
(***************************************************************************)
(* DoBundleFromName: one attempt.                                          *)
(***************************************************************************)
GetDescriptor ==
  /\ pc = "descriptor"
  /\ digest' = tag
  /\ pc' = "referrers"
  /\ UNCHANGED <<registry, ctx, attempts, outcomes, listed, bundles, left, elapsed, doneAt, ret>>

\* Takes what the first page of the index has.
BugListReferrers ==
  /\ pc = "referrers"
  /\ listed' \in {{}} \cup {{r} : r \in {q \in present : Subject[q] = digest}}
  /\ pc' = "blob"
  /\ UNCHANGED <<registry, ctx, attempts, outcomes, digest, bundles, left, elapsed, doneAt, ret>>

ListReferrers ==
  /\ pc = "referrers"
  /\ listed' = {r \in present : Subject[r] = digest}
  /\ pc' = "blob"
  /\ UNCHANGED <<registry, ctx, attempts, outcomes, digest, bundles, left, elapsed, doneAt, ret>>

FetchBundle ==
  /\ pc = "blob"
  /\ \E r \in Unread \cap present :
       /\ Content[r] = "bundle"
       /\ bundles' = bundles \cup {r}
  /\ UNCHANGED <<registry, ctx, pc, attempts, outcomes, digest, listed, left, elapsed, doneAt, ret>>

DecodeFails ==
  /\ pc = "blob"
  /\ \E r \in Unread \cap present : Content[r] = "malformed"
  /\ AttemptFails(decodeError)

\* layers[0] of a referrer image without layers.
IndexLayers ==
  /\ pc = "blob"
  /\ \E r \in Unread \cap present : Content[r] = "nolayers"
  /\ ret' = Panicked
  /\ pc' = "panic"
  /\ left' = 0
  /\ UNCHANGED <<registry, ctx, attempts, outcomes, attempt, elapsed, doneAt>>

\* A call fails with what the registry, or the transport's own connection
\* phase timeouts, answered.
CallFails ==
  /\ Calling
  /\ pc = "blob" => Unread # {}
  /\ \E err \in CallErrors : AttemptFails(newStepError(pc, err))

\* A call fails because its context is done: the attempt's deadline has
\* passed, or the caller's context is done and the attempt's with it.
BugContextErrors == {ctx} \ {"live"}     \* no deadline of its own
ContextErrors ==
  {e \in {"deadline", "canceled"} : ctx = e \/ (e = "deadline" /\ left = 0)}

ContextFails ==
  /\ Calling
  /\ pc = "blob" => Unread # {}
  /\ \E e \in ContextErrors :
       AttemptFails(newStepError(pc, [is |-> e, status |-> 0, diags |-> <<>>]))

\* The end of the loop over the index, and retryBundle's success return:
\* taken even when the context is done by now.
AttemptSucceeds ==
  /\ pc = "blob"
  /\ Unread = {}
  /\ Return(Success(bundles, IF bundles = {} THEN NoDigest ELSE digest,
                             attempts, outcomes))
  /\ UNCHANGED <<registry, ctx, attempts, outcomes, attempt, elapsed, doneAt>>

-----------------------------------------------------------------------------
Call ==
  \/ NextAttempt \/ DelayOver \/ DelayInterrupted
  \/ GetDescriptor \/ ListReferrers \/ FetchBundle \/ DecodeFails
  \/ IndexLayers \/ CallFails \/ ContextFails \/ AttemptSucceeds

Environment == RegistryMoves \/ CtxDone \/ Tick

\* The call has returned, or its goroutine has panicked.
Done == ~Running /\ UNCHANGED vars

Next == Call \/ Environment \/ Done

Spec == Init /\ [][Next]_vars

(***************************************************************************)
(* Fairness: the runtime schedules the goroutine and its timers run, and   *)
(* a call whose context is done returns.  Nothing is assumed of the        *)
(* registry: it may leave every call without an answer.                    *)
(***************************************************************************)
Fairness ==
  /\ WF_vars(Tick)
  /\ WF_vars(NextAttempt)
  /\ WF_vars(DelayOver)
  /\ WF_vars(ContextFails)
  /\ WF_vars(AttemptSucceeds)

FairSpec == Spec /\ Fairness

-----------------------------------------------------------------------------
(***************************************************************************)
(* Properties.                                                             *)
(***************************************************************************)
\* Types: in particular every failure returned has a reason of FailureKind
\* (bundle.go:195-225).
TypeOK ==
  /\ tag \in Digests /\ present \in SUBSET Referrers /\ moves \in 0..MaxMoves
  /\ ctx \in {"live", "canceled", "deadline"}
  /\ pc \in {"loop", "delay", "descriptor", "referrers", "blob", "done", "panic"}
  /\ attempts \in 0..MaxAttempts
  /\ outcomes \in Seq(AttemptOutcome)
  /\ digest \in Digests \cup {NoDigest}
  /\ listed \in SUBSET Referrers /\ bundles \in SUBSET Referrers
  /\ left \in Nat /\ elapsed \in Nat /\ doneAt \in 0..MaxAttempts
  /\ ret \in Result

Failed == ret.outcome = "failure"
Succeeded == ret.outcome = "success"

(***************************************************************************)
(* The trail of a failed fetch has one entry per attempt made, also when   *)
(* the caller gave up during the delay between two attempts, and that of a *)
(* rescued fetch one per attempt before the one that won (bundle.go:261    *)
(* and :288).                                                              *)
(***************************************************************************)
TrailComplete ==
  /\ Failed => Len(ret.trail) = ret.attempts
  /\ Succeeded => Len(ret.trail) + 1 = ret.attempts

(***************************************************************************)
(* A success is all of one consistent reading: the bundles are those of    *)
(* every sigstore referrer the index listed for the digest the tag had     *)
(* when it was resolved, and that digest is the one returned, although the *)
(* tag and the referrers change under the conversation and earlier         *)
(* attempts stopped half way (bundle.go:414-490).                          *)
(***************************************************************************)
OneReading ==
  Succeeded =>
    /\ ret.bundles = {r \in listed : Content[r] # "foreign"}
    /\ \A r \in ret.bundles : Content[r] = "bundle" /\ Subject[r] = ret.hash
    /\ ret.hash = NoDigest <=> ret.bundles = {}

(***************************************************************************)
(* As long as nobody changes the registry, what a fetch says of the image  *)
(* is what the registry holds for it, however many attempts it takes: a    *)
(* success has every bundle attached to the image, and the image is called *)
(* undecodable, or the call panics, only for a referrer that is attached   *)
(* (bundle.go:414-490).  Provider's FetchResults rests on this.            *)
(***************************************************************************)
AttachedToTag == {r \in present : Subject[r] = tag /\ Content[r] # "foreign"}

TellsTheImage ==
  moves = 0 =>
    /\ Succeeded =>
         /\ ret.bundles = AttachedToTag
         /\ ret.hash = IF AttachedToTag = {} THEN NoDigest ELSE tag
         /\ \A r \in AttachedToTag : Content[r] = "bundle"
    /\ Failed /\ ret.kind = "bundle_invalid" =>
         \E r \in AttachedToTag : Content[r] = "malformed"
    /\ ret.outcome = "panic" => \E r \in AttachedToTag : Content[r] = "nolayers"

(***************************************************************************)
(* A failure is blamed on the caller only when the caller's context is     *)
(* done, with the reason that context has; a timeout without a step is the *)
(* caller's deadline, not an attempt's (bundle.go:334-342 and :382-397).   *)
(***************************************************************************)
ContextBlame ==
  Failed =>
    /\ ret.kind = "canceled" => ctx = "canceled"
    /\ ret.step = NoStep => kindFromContext(ctx) = ret.kind /\ ctx # "live"

(***************************************************************************)
(* The loop gives up before its last attempt only for a failure a retry    *)
(* cannot fix, or because the caller is gone (bundle.go:371-397).          *)
(***************************************************************************)
NoEarlyGiveUp ==
  Failed /\ ret.attempts < MaxAttempts =>
    \/ ctx # "live"
    \/ ret.trail[ret.attempts].reason \in
         {"unauthorized", "forbidden", "not_found", "bundle_invalid", "throttled"}

(***************************************************************************)
(* Once the caller's context is done at most one more attempt is started:  *)
(* the one whose start raced with it (bundle.go:330-349).                  *)
(***************************************************************************)
OneLateAttempt == ctx # "live" => attempts <= doneAt + 1

(***************************************************************************)
(* Whatever the registry does, the call is over within MaxAttempts         *)
(* attempts of Timeout and the delays between them, the budget the         *)
(* admission request is planned with (bundle.go:330-349).                  *)
(***************************************************************************)
Budget == MaxAttempts * Timeout + (MaxAttempts - 1) * Delay

WithinBudget == elapsed <= Budget

(***************************************************************************)
(* The call returns, even from a registry that never answers: every call   *)
(* it makes hangs on a context that expires (bundle.go:350-351).           *)
(***************************************************************************)
Termination == <>(pc \in {"done", "panic"})

(***************************************************************************)
(* The detailed retry loop implements the contract its caller relies on.   *)
(***************************************************************************)
Contract == INSTANCE FetchContract WITH trail <- outcomes

ImplementsContract == Contract!Spec
=============================================================================
