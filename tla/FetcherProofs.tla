--------------------------- MODULE FetcherProofs ---------------------------
(***************************************************************************)
(* Proofs about Fetcher, for every number of attempts, every timeout and   *)
(* delay, every registry content and every set of call errors.             *)
(***************************************************************************)
EXTENDS Fetcher, TLAPS

(***************************************************************************)
(* Lemmas on the operators of FetchErrors and FetchResult.                 *)
(***************************************************************************)
AnyCallError == [is : {"deadline", "canceled", "transport", "other"},
                 status : Nat, diags : Seq(STRING)]

\* The classification of a call error is a known kind and a status, and it is
\* "canceled" only for an error that says so (classifyTransport).
LEMMA ClassifyTransportType ==
  ASSUME NEW err \in AnyCallError
  PROVE  /\ classifyTransport(err).kind \in FailureKind
         /\ classifyTransport(err).status \in Nat
         /\ classifyTransport(err).kind = "canceled" => err.is = "canceled"
<1>1. \A code : DiagnosticKind(code) \in {"unauthorized", "forbidden", "throttled", "unknown"}
  BY DEF DiagnosticKind
<1>2. DiagnosticsKind(err.diags) \in {"unauthorized", "forbidden", "throttled", "unknown"}
  BY <1>1 DEF DiagnosticsKind
<1>3. StatusKind(err.status) \in {"unauthorized", "forbidden", "not_found", "throttled", "unknown"}
  BY DEF StatusKind
<1>4. TransportKind(err) \in {"unauthorized", "forbidden", "not_found", "throttled", "unknown"}
  BY <1>2, <1>3 DEF TransportKind
<1>5. err.status \in Nat /\ err.is \in {"deadline", "canceled", "transport", "other"}
  BY DEF AnyCallError
<1> QED
  BY <1>4, <1>5 DEF classifyTransport, FailureKind

\* The error built for a failed call is a FetchError of the failing step that
\* is retried exactly when its kind may be (newFetchError).
LEMMA NewStepErrorType ==
  ASSUME NEW err \in AnyCallError, NEW s \in {"descriptor", "referrers", "blob"}
  PROVE  /\ newStepError(s, err) \in FetchError
         /\ newStepError(s, err).recoverable = Retryable(newStepError(s, err).kind)
         /\ newStepError(s, err).kind = "canceled" => err.is = "canceled"
<1>1. Fallback(s) \in FailureKind \ {"canceled"}
  BY DEF Fallback, FailureKind
<1>2. Retryable(newStepError(s, err).kind) \in BOOLEAN
  BY RetryThrottledAssumption DEF Retryable
<1> QED
  BY <1>1, <1>2, ClassifyTransportType
  DEF newStepError, newFetchError, FetchError, Step

LEMMA DecodeErrorType ==
  /\ decodeError \in FetchError
  /\ decodeError.recoverable = Retryable(decodeError.kind)
  /\ decodeError.kind # "canceled"
BY DEF decodeError, FetchError, Step, FailureKind, Retryable

LEMMA KindFromContextType ==
  ASSUME NEW c \in {"canceled", "deadline"}
  PROVE  /\ kindFromContext(c) \in {"timeout", "canceled"}
         /\ kindFromContext(c) = "canceled" => c = "canceled"
BY DEF kindFromContext

\* Every return hands the caller a well-formed result.
LEMMA ResultTypes ==
  /\ \A k \in FailureKind, st \in Step \cup {NoStep}, code \in Nat, n \in Nat,
        t \in Seq(AttemptOutcome) : Failure(k, st, code, n, t) \in Result
  /\ \A bs \in SUBSET Referrers, h \in Digests \cup {NoDigest}, n \in Nat,
        t \in Seq(AttemptOutcome) : Success(bs, h, n, t) \in Result
  /\ NoResult \in Result
  /\ Panicked \in Result
BY DEF Failure, Success, NoResult, Panicked, Result

-----------------------------------------------------------------------------
(***************************************************************************)
(* The inductive invariant.                                                *)
(***************************************************************************)

\* Where the call is determines how many attempts are in the trail.
Shape ==
  /\ Running <=> ret.outcome = "pending"
  /\ Running => ret = NoResult
  /\ pc = "panic" <=> ret.outcome = "panic"
  /\ pc \in {"loop", "delay"} => Len(outcomes) = attempts /\ attempts < MaxAttempts
  /\ pc = "delay" => attempts >= 1
  /\ Calling => Len(outcomes) + 1 = attempts

\* What the attempt has read so far belongs to the digest it resolved.
Reading ==
  /\ pc \in {"referrers", "blob"} => digest \in Digests
  /\ pc = "referrers" => bundles = {}
  /\ pc = "descriptor" => bundles = {}
  /\ pc = "blob" => /\ \A r \in listed : Subject[r] = digest
                    /\ bundles \subseteq {r \in listed : Content[r] = "bundle"}

\* Only an attempt whose start raced with the context's end can be late.
Lateness ==
  /\ ctx # "live" => attempts <= doneAt + 1
  /\ ctx # "live" /\ pc \in {"loop", "delay"} => attempts <= doneAt

\* The time spent so far, by where the call is.
Clock ==
  /\ pc = "loop" => elapsed <= attempts * (Timeout + Delay)
  /\ pc = "delay" => elapsed + left <= attempts * (Timeout + Delay)
  /\ Calling => elapsed + left <= (attempts - 1) * (Timeout + Delay) + Timeout
  /\ ~Running => elapsed <= Budget

IInv ==
  /\ TypeOK /\ Shape /\ Reading /\ Lateness /\ Clock
  /\ TrailComplete /\ OneReading /\ ContextBlame /\ NoEarlyGiveUp

-----------------------------------------------------------------------------
(***************************************************************************)
(* Arithmetic of the budget.                                               *)
(***************************************************************************)
LEMMA TimesMonotone ==
  ASSUME NEW a \in Nat, NEW b \in Nat, NEW c \in Nat, a <= b
  PROVE  a * c <= b * c
<1>1. PICK k \in Nat : b = a + k
  BY b - a \in Nat
<1>2. b * c = a * c + k * c
  BY <1>1
<1>3. k * c \in Nat /\ a * c \in Nat
  OBVIOUS
<1> QED
  BY <1>2, <1>3

\* An attempt that ends in time ends within the budget, and so does a delay.
LEMMA BudgetBounds ==
  ASSUME NEW n \in Nat
  PROVE  /\ n \in 1..MaxAttempts => (n - 1) * (Timeout + Delay) + Timeout <= Budget
         /\ n < MaxAttempts => n * (Timeout + Delay) <= Budget
         /\ n \in 1..MaxAttempts =>
              (n - 1) * (Timeout + Delay) + Timeout + Delay = n * (Timeout + Delay)
<1> DEFINE S == Timeout + Delay
           M == MaxAttempts - 1
<1>1. S \in Nat /\ M \in Nat /\ Timeout \in Nat /\ Delay \in Nat /\ MaxAttempts = M + 1
  BY TimeAssumption, MaxAttemptsAssumption
<1>2. Budget = M * S + Timeout
  <2>1. MaxAttempts * Timeout = M * Timeout + Timeout
    BY <1>1
  <2>2. M * S = M * Timeout + M * Delay
    BY <1>1
  <2> QED
    BY <1>1, <2>1, <2>2 DEF Budget
<1>3. ASSUME n \in 1..MaxAttempts PROVE (n - 1) * S + Timeout <= Budget
  <2>1. (n - 1) * S <= M * S
    BY <1>1, <1>3, TimesMonotone
  <2>2. (n - 1) * S \in Int /\ M * S \in Int
    BY <1>1
  <2> QED
    BY <1>1, <1>2, <2>1, <2>2
<1>4. ASSUME n < MaxAttempts PROVE n * S <= Budget
  <2>1. n * S <= M * S
    BY <1>1, <1>4, TimesMonotone
  <2>2. n * S \in Int /\ M * S \in Int
    BY <1>1
  <2> QED
    BY <1>1, <1>2, <2>1, <2>2
<1>5. (n - 1) * S + S = n * S
  BY <1>1
<1>6. (n - 1) * S \in Int
  BY <1>1
<1> QED
  BY <1>1, <1>3, <1>4, <1>5, <1>6

-----------------------------------------------------------------------------
(***************************************************************************)
(* retryBundle's handling of a failed attempt preserves the invariant.     *)
(***************************************************************************)
LEMMA FailedAttempt ==
  ASSUME IInv, Calling, NEW fe \in FetchError,
         fe.recoverable = Retryable(fe.kind),
         fe.kind = "canceled" => ctx = "canceled",
         AttemptFails(fe)
  PROVE  IInv'
<1> DEFINE trail == Append(outcomes, classifyAttempt(fe))
<1>1. /\ classifyAttempt(fe) \in AttemptOutcome
      /\ fe.kind \in FailureKind /\ fe.step \in Step /\ fe.status \in Nat
  BY DEF classifyAttempt, AttemptOutcome, FetchError
<1>2. /\ trail \in Seq(AttemptOutcome) /\ Len(trail) = attempts
      /\ trail[attempts].reason = fe.kind
      /\ attempts \in 1..MaxAttempts /\ Running
  BY <1>1, MaxAttemptsAssumption
  DEF IInv, TypeOK, Shape, Calling, Running, classifyAttempt
<1>3. /\ outcomes' = trail
      /\ UNCHANGED <<tag, present, moves, ctx, attempts, digest, listed, bundles, elapsed, doneAt>>
  BY DEF AttemptFails, registry, attempt
<1>4. elapsed <= Budget /\ elapsed + Delay <= attempts * (Timeout + Delay)
  <2>1. elapsed + left <= (attempts - 1) * (Timeout + Delay) + Timeout
    BY DEF IInv, Clock
  <2>2. /\ elapsed \in Nat /\ left \in Nat /\ attempts \in Nat
        /\ Budget \in Int /\ (attempts - 1) * (Timeout + Delay) \in Int
    BY <1>2, TimeAssumption, MaxAttemptsAssumption DEF IInv, TypeOK, Budget
  <2> QED
    BY <1>2, <2>1, <2>2, BudgetBounds, TimeAssumption
<1>5. CASE ~fe.recoverable
  <2>1. /\ ret' = Failure(fe.kind, fe.step, fe.status, attempts, trail)
        /\ pc' = "done" /\ left' = 0
    BY <1>5 DEF AttemptFails, Return
  <2>2. ret' \in Result
    BY <1>1, <1>2, <2>1, MaxAttemptsAssumption DEF Failure, Result
  <2>3. fe.kind \in {"unauthorized", "forbidden", "not_found", "bundle_invalid", "throttled"}
    BY <1>1, <1>5 DEF Retryable, FailureKind
  <2> QED
    BY <1>1, <1>2, <1>3, <1>4, <2>1, <2>2, <2>3
    DEF IInv, TypeOK, Shape, Reading, Lateness, Clock, TrailComplete, OneReading,
        ContextBlame, NoEarlyGiveUp, Failed, Succeeded, Running, Calling, Failure,
        Step, NoStep, Budget
<1>6. CASE fe.recoverable /\ CtxErr
  <2>1. /\ ret' = Failure(kindFromContext(ctx), fe.step, 0, attempts, trail)
        /\ pc' = "done" /\ left' = 0
    BY <1>6 DEF AttemptFails, Return
  <2>2. ctx \in {"canceled", "deadline"}
    BY <1>6 DEF IInv, TypeOK, CtxErr
  <2>3. /\ kindFromContext(ctx) \in FailureKind
        /\ kindFromContext(ctx) = "canceled" => ctx = "canceled"
    BY <2>2, KindFromContextType DEF FailureKind
  <2>4. ret' \in Result
    BY <1>1, <1>2, <2>1, <2>3, MaxAttemptsAssumption DEF Failure, Result
  <2> QED
    BY <1>1, <1>2, <1>3, <1>4, <2>1, <2>2, <2>3, <2>4
    DEF IInv, TypeOK, Shape, Reading, Lateness, Clock, TrailComplete, OneReading,
        ContextBlame, NoEarlyGiveUp, Failed, Succeeded, Running, Calling, Failure,
        Step, NoStep, Budget
<1>7. CASE fe.recoverable /\ ~CtxErr /\ LastAttempt
  <2>1. /\ ret' = Failure(fe.kind, fe.step, fe.status, attempts, trail)
        /\ pc' = "done" /\ left' = 0
    BY <1>7 DEF AttemptFails, Return, finalizeFetchError
  <2>2. ret' \in Result
    BY <1>1, <1>2, <2>1, MaxAttemptsAssumption DEF Failure, Result
  <2>3. attempts' = MaxAttempts /\ ret'.attempts = MaxAttempts /\ ret'.outcome = "failure"
    BY <1>3, <1>7, <2>1 DEF LastAttempt, Failure
  <2>4. TrailComplete' /\ OneReading'
    BY <1>2, <2>1, <2>3 DEF TrailComplete, OneReading, Failed, Succeeded, Failure
  <2>5. ContextBlame'
    BY <1>1, <1>3, <2>1, <2>3 DEF ContextBlame, Failed, Failure, Step, NoStep
  <2>6. NoEarlyGiveUp'
    BY <2>3, MaxAttemptsAssumption DEF NoEarlyGiveUp, Failed
  <2> QED
    BY <1>2, <1>3, <1>4, <2>1, <2>2, <2>3, <2>4, <2>5, <2>6
    DEF IInv, TypeOK, Shape, Reading, Lateness, Clock, Running, Calling, Budget
<1>8. CASE fe.recoverable /\ ~CtxErr /\ ~LastAttempt
  <2>1. /\ pc' = IF Delay > 0 THEN "delay" ELSE "loop"
        /\ left' = Delay
        /\ ret' = ret
    BY <1>8 DEF AttemptFails
  <2>2. attempts < MaxAttempts /\ ctx = "live" /\ ret = NoResult
    BY <1>2, <1>8, MaxAttemptsAssumption DEF LastAttempt, CtxErr, IInv, Shape
  <2>3. attempts * (Timeout + Delay) \in Nat
    BY <1>2, TimeAssumption
  <2> QED
    BY <1>2, <1>3, <1>4, <2>1, <2>2, <2>3, TimeAssumption
    DEF IInv, TypeOK, Shape, Reading, Lateness, Clock, TrailComplete, OneReading,
        ContextBlame, NoEarlyGiveUp, Failed, Succeeded, Running, Calling, NoResult
<1> QED
  BY <1>5, <1>6, <1>7, <1>8 DEF FetchError

\* The error of every failing call meets the premises of FailedAttempt.
LEMMA CallErrorsClassified ==
  ASSUME IInv, Calling
  PROVE  /\ \A err \in CallErrors :
              LET fe == newStepError(pc, err)
              IN  /\ fe \in FetchError /\ fe.recoverable = Retryable(fe.kind)
                  /\ fe.kind # "canceled"
         /\ \A e \in ContextErrors :
              LET fe == newStepError(pc, [is |-> e, status |-> 0, diags |-> <<>>])
              IN  /\ fe \in FetchError /\ fe.recoverable = Retryable(fe.kind)
                  /\ fe.kind = "canceled" => ctx = "canceled"
<1>1. pc \in {"descriptor", "referrers", "blob"}
  BY DEF Calling
<1>2. ASSUME NEW err \in CallErrors PROVE err \in AnyCallError /\ err.is # "canceled"
  BY <1>2, CallErrorsAssumption DEF AnyCallError
<1>3. ASSUME NEW e \in ContextErrors
      PROVE  /\ [is |-> e, status |-> 0, diags |-> <<>>] \in AnyCallError
             /\ e = "canceled" => ctx = "canceled"
  BY <1>3 DEF AnyCallError, ContextErrors
<1> QED
  BY <1>1, <1>2, <1>3, NewStepErrorType

LEMMA InitInv == Init => IInv
<1> SUFFICES ASSUME Init PROVE IInv
  OBVIOUS
<1>1. TypeOK
  BY ResultTypes, MaxAttemptsAssumption, MovesAssumption DEF Init, TypeOK
<1>2. 0 * (Timeout + Delay) = 0
  BY TimeAssumption
<1> QED
  BY <1>1, <1>2, MaxAttemptsAssumption
  DEF Init, IInv, Shape, Reading, Lateness, Clock, TrailComplete, OneReading,
      ContextBlame, NoEarlyGiveUp, Failed, Succeeded, Running, Calling, NoResult

LEMMA StepInv == IInv /\ [Next]_vars => IInv'
<1> SUFFICES ASSUME IInv, [Next]_vars PROVE IInv'
  OBVIOUS
<1> USE DEF registry, attempt
<1>0. /\ MaxAttempts \in Nat \ {0} /\ Timeout \in Nat \ {0} /\ Delay \in Nat
      /\ MaxMoves \in Nat
  BY MaxAttemptsAssumption, TimeAssumption, MovesAssumption
<1>1. CASE RegistryMoves
  BY <1>0, <1>1
  DEF RegistryMoves, IInv, TypeOK, Shape, Reading, Lateness, Clock, TrailComplete,
      OneReading, ContextBlame, NoEarlyGiveUp, Failed, Succeeded, Running, Calling
<1>2. CASE CtxDone
  <2>1. ret = NoResult /\ NoResult.outcome = "pending"
    BY <1>2 DEF CtxDone, IInv, Shape, NoResult
  <2> QED
    BY <1>0, <1>2, <2>1
    DEF CtxDone, IInv, TypeOK, Shape, Reading, Lateness, Clock, TrailComplete,
        OneReading, ContextBlame, NoEarlyGiveUp, Failed, Succeeded, Running, Calling
<1>3. CASE Tick
  <2>1. left' \in Nat /\ elapsed' \in Nat /\ elapsed' + left' = elapsed + left
    BY <1>3 DEF Tick, IInv, TypeOK
  <2> QED
    BY <1>0, <1>3, <2>1
    DEF Tick, IInv, TypeOK, Shape, Reading, Lateness, Clock, TrailComplete,
        OneReading, ContextBlame, NoEarlyGiveUp, Failed, Succeeded, Running, Calling
<1>4. CASE NextAttempt
  <2>1. /\ attempts' = attempts + 1 /\ left' = Timeout /\ elapsed' = elapsed
        /\ attempts \in Nat /\ attempts < MaxAttempts
        /\ elapsed <= attempts * (Timeout + Delay) /\ elapsed \in Nat
    BY <1>0, <1>4 DEF NextAttempt, IInv, TypeOK, Shape, Clock
  <2>2. elapsed' + left' <= (attempts' - 1) * (Timeout + Delay) + Timeout
    <3>1. attempts' - 1 = attempts
      BY <2>1
    <3>2. attempts * (Timeout + Delay) \in Nat
      BY <1>0, <2>1
    <3> QED
      BY <1>0, <2>1, <3>1, <3>2
  <2>3. ret = NoResult /\ NoResult.outcome = "pending"
    BY <1>4 DEF NextAttempt, IInv, Shape, Running, NoResult
  <2> QED
    BY <1>0, <1>4, <2>1, <2>2, <2>3
    DEF NextAttempt, IInv, TypeOK, Shape, Reading, Lateness, Clock, TrailComplete,
        OneReading, ContextBlame, NoEarlyGiveUp, Failed, Succeeded, Running, Calling
<1>5. CASE DelayOver
  <2>1. ret = NoResult /\ NoResult.outcome = "pending"
    BY <1>5 DEF DelayOver, IInv, Shape, Running, NoResult
  <2>2. elapsed <= attempts * (Timeout + Delay)
    BY <1>5 DEF DelayOver, IInv, TypeOK, Clock
  <2> QED
    BY <1>0, <1>5, <2>1, <2>2
    DEF DelayOver, IInv, TypeOK, Shape, Reading, Lateness, Clock, TrailComplete,
        OneReading, ContextBlame, NoEarlyGiveUp, Failed, Succeeded, Running, Calling
<1>6. CASE DelayInterrupted
  <2>1. /\ ret' = Failure(kindFromContext(ctx), NoStep, 0, attempts, outcomes)
        /\ pc' = "done" /\ left' = 0
        /\ UNCHANGED <<tag, present, moves, ctx, attempts, outcomes, digest, listed,
                       bundles, elapsed, doneAt>>
    BY <1>6 DEF DelayInterrupted, Return
  <2>2. ctx \in {"canceled", "deadline"}
    BY <1>6 DEF DelayInterrupted, CtxErr, IInv, TypeOK
  <2>3. /\ kindFromContext(ctx) \in FailureKind
        /\ kindFromContext(ctx) = "canceled" => ctx = "canceled"
    BY <2>2, KindFromContextType DEF FailureKind
  <2>4. /\ outcomes \in Seq(AttemptOutcome) /\ Len(outcomes) = attempts
        /\ attempts \in Nat /\ attempts < MaxAttempts
    BY <1>0, <1>6 DEF DelayInterrupted, IInv, TypeOK, Shape
  <2>5. ret' \in Result
    BY <2>1, <2>3, <2>4 DEF Failure, Result
  <2>6. elapsed <= Budget
    <3>1. /\ elapsed + left <= attempts * (Timeout + Delay)
          /\ elapsed \in Nat /\ left \in Nat
      BY <1>6 DEF DelayInterrupted, IInv, TypeOK, Clock
    <3>2. attempts * (Timeout + Delay) <= Budget
      BY <2>4, BudgetBounds
    <3>3. attempts * (Timeout + Delay) \in Nat /\ Budget \in Int
      BY <1>0, <2>4 DEF Budget
    <3> QED
      BY <3>1, <3>2, <3>3
  <2> QED
    BY <1>0, <2>1, <2>2, <2>3, <2>4, <2>5, <2>6
    DEF IInv, TypeOK, Shape, Reading, Lateness, Clock, TrailComplete, OneReading,
        ContextBlame, NoEarlyGiveUp, Failed, Succeeded, Running, Calling, Failure, Budget
<1>7. CASE GetDescriptor
  BY <1>0, <1>7
  DEF GetDescriptor, IInv, TypeOK, Shape, Reading, Lateness, Clock, TrailComplete,
      OneReading, ContextBlame, NoEarlyGiveUp, Failed, Succeeded, Running, Calling, NoResult
<1>8. CASE ListReferrers
  BY <1>0, <1>8
  DEF ListReferrers, IInv, TypeOK, Shape, Reading, Lateness, Clock, TrailComplete,
      OneReading, ContextBlame, NoEarlyGiveUp, Failed, Succeeded, Running, Calling, NoResult
<1>9. CASE FetchBundle
  BY <1>0, <1>9
  DEF FetchBundle, IInv, TypeOK, Shape, Reading, Lateness, Clock, TrailComplete,
      OneReading, ContextBlame, NoEarlyGiveUp, Failed, Succeeded, Running, Calling,
      NoResult, Unread
<1>10. CASE DecodeFails
  BY <1>10, FailedAttempt, DecodeErrorType DEF DecodeFails, Calling
<1>11. CASE IndexLayers
  <2>1. elapsed <= Budget
    <3>1. /\ elapsed + left <= (attempts - 1) * (Timeout + Delay) + Timeout
          /\ elapsed \in Nat /\ left \in Nat /\ attempts \in Nat
          /\ attempts \in 1..MaxAttempts
      BY <1>0, <1>11 DEF IndexLayers, IInv, TypeOK, Clock, Calling, Shape
    <3>2. (attempts - 1) * (Timeout + Delay) \in Int /\ Budget \in Int
      BY <1>0, <3>1 DEF Budget
    <3> QED
      BY <1>0, <3>1, <3>2, BudgetBounds
  <2> QED
    BY <1>0, <1>11, <2>1, ResultTypes
    DEF IndexLayers, IInv, TypeOK, Shape, Reading, Lateness, Clock, TrailComplete,
        OneReading, ContextBlame, NoEarlyGiveUp, Failed, Succeeded, Running, Calling,
        Panicked, Budget
<1>12. CASE CallFails
  BY <1>12, FailedAttempt, CallErrorsClassified DEF CallFails
<1>13. CASE ContextFails
  BY <1>13, FailedAttempt, CallErrorsClassified DEF ContextFails
<1>14. CASE AttemptSucceeds
  <2> DEFINE h == IF bundles = {} THEN NoDigest ELSE digest
  <2>1. /\ ret' = Success(bundles, h, attempts, outcomes)
        /\ pc' = "done" /\ left' = 0
        /\ UNCHANGED <<tag, present, moves, ctx, attempts, outcomes, digest, listed,
                       bundles, elapsed, doneAt>>
    BY <1>14 DEF AttemptSucceeds, Return
  <2>2. /\ Len(outcomes) + 1 = attempts /\ outcomes \in Seq(AttemptOutcome)
        /\ attempts \in 1..MaxAttempts /\ h \in Digests \cup {NoDigest}
        /\ bundles \in SUBSET Referrers
    BY <1>0, <1>14 DEF AttemptSucceeds, IInv, TypeOK, Shape, Calling, Reading
  <2>3. ret' \in Result
    BY <1>0, <2>1, <2>2 DEF Success, Result
  <2>4. OneReading'
    <3>1. bundles = {r \in listed : Content[r] # "foreign"}
      BY <1>14 DEF AttemptSucceeds, Unread, IInv, Reading
    <3>2. \A r \in bundles : Content[r] = "bundle" /\ Subject[r] = digest
      BY <1>14 DEF AttemptSucceeds, IInv, Reading
    <3>3. digest # NoDigest
      BY <1>14, DigestAssumption DEF AttemptSucceeds, IInv, Reading
    <3> QED
      BY <2>1, <3>1, <3>2, <3>3 DEF OneReading, Success
  <2>5. elapsed <= Budget
    <3>1. /\ elapsed + left <= (attempts - 1) * (Timeout + Delay) + Timeout
          /\ elapsed \in Nat /\ left \in Nat
      BY <1>14 DEF AttemptSucceeds, IInv, TypeOK, Clock, Calling
    <3>2. (attempts - 1) * (Timeout + Delay) \in Int /\ Budget \in Int
      BY <1>0, <2>2 DEF Budget
    <3> QED
      BY <1>0, <2>2, <3>1, <3>2, BudgetBounds
  <2> QED
    BY <1>0, <1>14, <2>1, <2>2, <2>3, <2>4, <2>5
    DEF AttemptSucceeds, IInv, TypeOK, Shape, Reading, Lateness, Clock, TrailComplete,
        ContextBlame, NoEarlyGiveUp, Failed, Succeeded, Running, Calling, Success, Budget
<1>15. CASE UNCHANGED vars
  BY <1>15
  DEF vars, IInv, TypeOK, Shape, Reading, Lateness, Clock, TrailComplete, OneReading,
      ContextBlame, NoEarlyGiveUp, Failed, Succeeded, Running, Calling
<1> QED
  BY <1>1, <1>2, <1>3, <1>4, <1>5, <1>6, <1>7, <1>8, <1>9, <1>10, <1>11, <1>12,
     <1>13, <1>14, <1>15
  DEF Next, Call, Environment, Done

LEMMA Invariance == Spec => []IInv
BY InitInv, StepInv, PTL DEF Spec

-----------------------------------------------------------------------------
(***************************************************************************)
(* The fetch call keeps every variable of its types: in particular its     *)
(* attempts never exceed MaxAttempts, and whatever the registry answers it *)
(* returns a classified failure of a known kind (bundle.go:322-410).       *)
(***************************************************************************)
THEOREM TypeCorrect == Spec => []TypeOK
<1>1. IInv => TypeOK
  BY DEF IInv
<1> QED
  BY <1>1, Invariance, PTL

(***************************************************************************)
(* The trail of a returned result has an entry for each failed attempt.    *)
(***************************************************************************)
THEOREM TrailIsComplete == Spec => []TrailComplete
<1>1. IInv => TrailComplete
  BY DEF IInv
<1> QED
  BY <1>1, Invariance, PTL

(***************************************************************************)
(* A success is one consistent and complete reading of the registry, for   *)
(* every history of tag moves and referrer changes.                        *)
(***************************************************************************)
THEOREM SuccessIsOneReading == Spec => []OneReading
<1>1. IInv => OneReading
  BY DEF IInv
<1> QED
  BY <1>1, Invariance, PTL

(***************************************************************************)
(* Failures are blamed on the caller's context only when it is done, and   *)
(* with the kind that it was done by.                                      *)
(***************************************************************************)
THEOREM ContextBlameIsJustified == Spec => []ContextBlame
<1>1. IInv => ContextBlame
  BY DEF IInv
<1> QED
  BY <1>1, Invariance, PTL

(***************************************************************************)
(* A fetch with attempts left is given up only for a failure that a retry  *)
(* cannot fix or because the caller is gone.                               *)
(***************************************************************************)
THEOREM GivesUpLate == Spec => []NoEarlyGiveUp
<1>1. IInv => NoEarlyGiveUp
  BY DEF IInv
<1> QED
  BY <1>1, Invariance, PTL

(***************************************************************************)
(* No more than one attempt starts after the caller is gone.               *)
(***************************************************************************)
THEOREM AtMostOneLateAttempt == Spec => []OneLateAttempt
<1>1. IInv => OneLateAttempt
  BY DEF IInv, Lateness, OneLateAttempt
<1> QED
  BY <1>1, Invariance, PTL

(***************************************************************************)
(* The call never takes longer than its attempts and delays allow.         *)
(***************************************************************************)
THEOREM TimeIsBounded == Spec => []WithinBudget
<1>1. IInv => WithinBudget
  <2> SUFFICES ASSUME IInv PROVE elapsed <= Budget
    BY DEF WithinBudget
  <2>0. /\ MaxAttempts \in Nat \ {0} /\ Timeout \in Nat \ {0} /\ Delay \in Nat
        /\ elapsed \in Nat /\ left \in Nat /\ attempts \in Nat /\ attempts <= MaxAttempts
    BY MaxAttemptsAssumption, TimeAssumption DEF IInv, TypeOK
  <2>1. /\ attempts * (Timeout + Delay) \in Int /\ Budget \in Int
        /\ (attempts - 1) * (Timeout + Delay) \in Int
    BY <2>0 DEF Budget
  <2>2. CASE pc \in {"loop", "delay"}
    <3>1. attempts < MaxAttempts /\ elapsed <= attempts * (Timeout + Delay)
      BY <2>0, <2>1, <2>2 DEF IInv, Shape, Clock
    <3> QED
      BY <2>0, <2>1, <3>1, BudgetBounds
  <2>3. CASE Calling
    <3>1. /\ attempts \in 1..MaxAttempts
          /\ elapsed + left <= (attempts - 1) * (Timeout + Delay) + Timeout
      BY <2>0, <2>3 DEF IInv, TypeOK, Shape, Clock
    <3> QED
      BY <2>0, <2>1, <3>1, BudgetBounds
  <2>4. CASE ~Running
    BY <2>4 DEF IInv, Clock
  <2> QED
    BY <2>2, <2>3, <2>4 DEF Running, Calling, IInv, TypeOK
<1> QED
  BY <1>1, Invariance, PTL

-----------------------------------------------------------------------------
(***************************************************************************)
(* Fetcher implements FetchContract.  The contract's values are Fetcher's. *)
(***************************************************************************)
LEMMA SameValues ==
  /\ Contract!NoResult = NoResult
  /\ Contract!Panicked = Panicked
  /\ Contract!AttemptOutcome = AttemptOutcome
  /\ Contract!FailureKind = FailureKind
  /\ Contract!NoStep = NoStep
  /\ \A k : Contract!Retryable(k) <=> Retryable(k)
  /\ \A k, st, code, n, t :
       Contract!Failure(k, st, code, n, t) = Failure(k, st, code, n, t)
  /\ \A bs, h, n, t : Contract!Success(bs, h, n, t) = Success(bs, h, n, t)
BY DEF Contract!NoResult, NoResult, Contract!Panicked, Panicked,
       Contract!AttemptOutcome, AttemptOutcome, Contract!FailureKind, FailureKind,
       Contract!Step, Step, Contract!NoKind, NoKind, Contract!NoStep, NoStep,
       Contract!Retryable, Retryable, Contract!Failure, Failure, Contract!Success, Success

\* A failed attempt is a Retry or a Fail of the contract.
LEMMA FailedAttemptContract ==
  ASSUME IInv, Calling, NEW fe \in FetchError,
         fe.recoverable = Retryable(fe.kind), AttemptFails(fe)
  PROVE  Contract!Next
<1> DEFINE o == classifyAttempt(fe)
<1>1. /\ o \in AttemptOutcome /\ o.reason = fe.kind /\ o.step = fe.step
      /\ fe.kind \in FailureKind /\ fe.status \in Nat
  BY DEF classifyAttempt, AttemptOutcome, FetchError
<1>2. /\ ret = NoResult /\ Len(outcomes) + 1 = attempts
      /\ attempts \in 1..MaxAttempts /\ outcomes' = Append(outcomes, o)
  BY MaxAttemptsAssumption
  DEF IInv, TypeOK, Shape, Calling, Running, AttemptFails
<1>3. ASSUME NEW kind \in FailureKind, NEW status \in Nat,
             \/ kind = fe.kind /\ (~Retryable(fe.kind) \/ attempts = MaxAttempts)
             \/ kind \in {"timeout", "canceled"} /\ Retryable(fe.kind),
             ret' = Failure(kind, fe.step, status, attempts, outcomes')
      PROVE  Contract!Fail
  <2>1. ret'.status \in Nat /\ ret'.status = status
    BY <1>3 DEF Failure
  <2>2. ret' = Contract!Failure(kind, o.step, ret'.status, Len(outcomes) + 1, outcomes')
    BY <1>1, <1>2, <1>3, <2>1, SameValues
  <2>3. \/ kind = o.reason /\ (~Contract!Retryable(o.reason) \/ Len(outcomes) + 1 = MaxAttempts)
        \/ kind \in Contract!ContextKind /\ Contract!Retryable(o.reason)
    BY <1>1, <1>2, <1>3, SameValues DEF Contract!ContextKind
  <2>4. ret = Contract!NoResult /\ o \in Contract!AttemptOutcome /\ kind \in Contract!FailureKind
    BY <1>1, <1>2, SameValues
  <2> HIDE DEF o
  <2> QED
    BY <1>2, <2>1, <2>2, <2>3, <2>4 DEF Contract!Fail
<1>4. CASE ~fe.recoverable
  BY <1>1, <1>3, <1>4 DEF AttemptFails, Return, Contract!Next
<1>5. CASE fe.recoverable /\ CtxErr
  <2>1. ctx \in {"canceled", "deadline"}
    BY <1>5 DEF IInv, TypeOK, CtxErr
  <2>2. kindFromContext(ctx) \in {"timeout", "canceled"}
    BY <2>1, KindFromContextType
  <2>3. kindFromContext(ctx) \in FailureKind
    BY <2>2 DEF FailureKind
  <2> QED
    BY <1>3, <1>5, <2>2, <2>3 DEF AttemptFails, Return, Contract!Next
<1>6. CASE fe.recoverable /\ ~CtxErr /\ LastAttempt
  BY <1>1, <1>3, <1>6
  DEF AttemptFails, Return, finalizeFetchError, LastAttempt, Contract!Next
<1>7. CASE fe.recoverable /\ ~CtxErr /\ ~LastAttempt
  <2>1. Len(outcomes) + 1 < MaxAttempts /\ ret' = ret
    BY <1>2, <1>7, MaxAttemptsAssumption DEF AttemptFails, LastAttempt
  <2>2. o \in Contract!AttemptOutcome /\ Contract!Retryable(o.reason) /\ ret = Contract!NoResult
    BY <1>1, <1>2, <1>7, SameValues
  <2> HIDE DEF o
  <2> QED
    BY <1>2, <2>1, <2>2 DEF Contract!Retry, Contract!Next
<1> QED
  BY <1>4, <1>5, <1>6, <1>7 DEF FetchError

LEMMA StepContract ==
  IInv /\ [Next]_vars => [Contract!Next]_<<outcomes, ret>>
<1> SUFFICES ASSUME IInv, [Next]_vars PROVE [Contract!Next]_<<outcomes, ret>>
  OBVIOUS
<1>1. CASE \/ RegistryMoves \/ CtxDone \/ Tick \/ NextAttempt \/ DelayOver
           \/ GetDescriptor \/ ListReferrers \/ FetchBundle \/ UNCHANGED vars
  BY <1>1
  DEF RegistryMoves, CtxDone, Tick, NextAttempt, DelayOver, GetDescriptor,
      ListReferrers, FetchBundle, vars
<1>2. CASE DelayInterrupted
  <2>1. /\ ret' = Contract!Failure(kindFromContext(ctx), NoStep, 0, Len(outcomes), outcomes)
        /\ UNCHANGED outcomes /\ ret = Contract!NoResult
        /\ Len(outcomes) \in 1..(MaxAttempts - 1)
    BY <1>2, SameValues, MaxAttemptsAssumption
    DEF DelayInterrupted, Return, IInv, TypeOK, Shape, Running
  <2>2. kindFromContext(ctx) \in Contract!ContextKind
    BY <1>2, KindFromContextType
    DEF DelayInterrupted, CtxErr, IInv, TypeOK, Contract!ContextKind
  <2> QED
    BY <2>1, <2>2, SameValues DEF Contract!Abandon, Contract!Next
<1>3. CASE DecodeFails
  BY <1>3, FailedAttemptContract, DecodeErrorType DEF DecodeFails, Calling
<1>4. CASE IndexLayers
  BY <1>4, SameValues
  DEF IndexLayers, IInv, Shape, Running, Contract!Panic, Contract!Next
<1>5. CASE CallFails
  BY <1>5, FailedAttemptContract, CallErrorsClassified DEF CallFails
<1>6. CASE ContextFails
  BY <1>6, FailedAttemptContract, CallErrorsClassified DEF ContextFails
<1>7. CASE AttemptSucceeds
  <2> DEFINE h == IF bundles = {} THEN NoDigest ELSE digest
  <2>1. /\ ret' = Contract!Success(bundles, h, Len(outcomes) + 1, outcomes)
        /\ UNCHANGED outcomes /\ ret = Contract!NoResult
    BY <1>7, SameValues
    DEF AttemptSucceeds, Return, IInv, Shape, Running, Calling
  <2>2. /\ bundles \in SUBSET Referrers /\ h \in Digests \cup {NoDigest}
        /\ bundles = {} <=> h = NoDigest
        /\ \A r \in bundles : Subject[r] = h
    BY <1>7, DigestAssumption DEF AttemptSucceeds, IInv, TypeOK, Reading
  <2> HIDE DEF h
  <2> QED
    BY <2>1, <2>2 DEF Contract!Succeed, Contract!Next
<1> QED
  BY <1>1, <1>2, <1>3, <1>4, <1>5, <1>6, <1>7 DEF Next, Call, Environment, Done

(***************************************************************************)
(* Every behaviour of the retry loop is one its caller's contract allows.  *)
(***************************************************************************)
THEOREM FetcherImplementsContract == Spec => ImplementsContract
<1>1. Init => Contract!Init
  BY SameValues DEF Init, Contract!Init
<1> QED
  BY <1>1, StepContract, Invariance, PTL DEF Spec, ImplementsContract, Contract!Spec
-----------------------------------------------------------------------------
(***************************************************************************)
(* What a fetch says of the image.  While the registry stands still, what  *)
(* the attempt has read is what the registry holds.                        *)
(***************************************************************************)
Current ==
  moves = 0 =>
    /\ pc \in {"referrers", "blob"} => digest = tag
    /\ pc = "blob" => listed = {r \in present : Subject[r] = tag}

\* Only the decoder calls a bundle invalid.
LEMMA CallsBlameNoBundle ==
  ASSUME NEW err \in AnyCallError, NEW s \in {"descriptor", "referrers", "blob"}
  PROVE  newStepError(s, err).kind # "bundle_invalid"
<1>1. \A code : DiagnosticKind(code) # "bundle_invalid"
  BY DEF DiagnosticKind
<1>2. DiagnosticsKind(err.diags) # "bundle_invalid"
  BY <1>1 DEF DiagnosticsKind
<1>3. StatusKind(err.status) # "bundle_invalid"
  BY DEF StatusKind
<1>4. TransportKind(err) # "bundle_invalid"
  BY <1>2, <1>3 DEF TransportKind
<1>5. classifyTransport(err).kind # "bundle_invalid"
  BY <1>4 DEF classifyTransport, AnyCallError
<1>6. Fallback(s) # "bundle_invalid"
  BY DEF Fallback
<1> QED
  BY <1>5, <1>6 DEF newStepError, newFetchError

\* What retryBundle makes of a failed attempt.
LEMMA FailureReported ==
  ASSUME IInv, Current, Calling, NEW fe \in FetchError, AttemptFails(fe),
         fe.kind = "bundle_invalid" /\ moves = 0 =>
           \E r \in AttachedToTag : Content[r] = "malformed"
  PROVE  Current' /\ TellsTheImage'
<1>1. /\ UNCHANGED <<tag, present, moves>>
      /\ pc' \in {"done", "delay", "loop"}
      /\ \/ ret' = ret
         \/ \E st, code, n, t : ret' = Failure(fe.kind, st, code, n, t)
         \/ CtxErr /\ \E st, code, n, t : ret' = Failure(kindFromContext(ctx), st, code, n, t)
  BY DEF AttemptFails, Return, finalizeFetchError, registry
<1>2. ret = NoResult /\ NoResult.outcome = "pending"
  BY DEF IInv, Shape, Calling, Running, NoResult
<1>3. CtxErr => kindFromContext(ctx) # "bundle_invalid"
  BY KindFromContextType DEF IInv, TypeOK, CtxErr
<1>4. Current'
  BY <1>1 DEF Current
<1>5. AttachedToTag' = AttachedToTag
  BY <1>1 DEF AttachedToTag
<1>6. CASE ret' = ret
  BY <1>2, <1>4, <1>6 DEF TellsTheImage, Succeeded, Failed
<1>7. CASE \E st, code, n, t : ret' = Failure(fe.kind, st, code, n, t)
  <2>1. ret'.outcome = "failure" /\ ret'.kind = fe.kind
    BY <1>7 DEF Failure
  <2> QED
    BY <1>1, <1>4, <1>5, <2>1 DEF TellsTheImage, Succeeded, Failed
<1>8. CASE CtxErr /\ \E st, code, n, t : ret' = Failure(kindFromContext(ctx), st, code, n, t)
  <2>1. ret'.outcome = "failure" /\ ret'.kind # "bundle_invalid"
    BY <1>3, <1>8 DEF Failure
  <2> QED
    BY <1>4, <2>1 DEF TellsTheImage, Succeeded, Failed
<1> QED
  BY <1>1, <1>6, <1>7, <1>8

LEMMA TellsStep ==
  ASSUME IInv, Current, TellsTheImage, [Next]_vars
  PROVE  Current' /\ TellsTheImage'
<1> USE DEF registry, attempt
<1>1. ASSUME Running, ret' = ret PROVE TellsTheImage'
  <2>1. ret' = NoResult /\ NoResult.outcome = "pending"
    BY <1>1 DEF IInv, Shape, NoResult
  <2> QED
    BY <2>1 DEF TellsTheImage, Succeeded, Failed
<1>2. CASE RegistryMoves
  <2>1. moves' # 0 /\ ret' = ret /\ Running
    BY <1>2 DEF RegistryMoves, IInv, TypeOK
  <2> QED
    BY <1>1, <2>1 DEF Current
<1>3. CASE CtxDone \/ Tick \/ NextAttempt \/ DelayOver
  <2>1. /\ Running /\ ret' = ret /\ UNCHANGED <<tag, present, moves>>
        /\ pc' # pc => pc' \in {"loop", "descriptor"}
        /\ pc' = pc => UNCHANGED <<digest, listed>>
    BY <1>3 DEF CtxDone, Tick, NextAttempt, DelayOver, Running, Calling
  <2>2. Current'
    BY <2>1 DEF Current
  <2> QED
    BY <1>1, <2>1, <2>2
<1>4. CASE GetDescriptor \/ ListReferrers \/ FetchBundle
  <2>1. Running /\ ret' = ret
    BY <1>4 DEF GetDescriptor, ListReferrers, FetchBundle, Running
  <2>2. Current'
    BY <1>4 DEF GetDescriptor, ListReferrers, FetchBundle, Current
  <2> QED
    BY <1>1, <2>1, <2>2
<1>5. CASE DelayInterrupted
  <2>1. kindFromContext(ctx) # "bundle_invalid"
    BY <1>5, KindFromContextType DEF DelayInterrupted, CtxErr, IInv, TypeOK
  <2>2. ret'.outcome = "failure" /\ ret'.kind # "bundle_invalid" /\ pc' = "done"
    BY <1>5, <2>1 DEF DelayInterrupted, Return, Failure
  <2> QED
    BY <2>2 DEF Current, TellsTheImage, Succeeded, Failed
<1>6. CASE DecodeFails
  <2>1. PICK r \in Unread \cap present : Content[r] = "malformed"
    BY <1>6 DEF DecodeFails
  <2>2. moves = 0 => r \in AttachedToTag
    BY <1>6, <2>1 DEF DecodeFails, Unread, Current, AttachedToTag
  <2> QED
    BY <1>6, <2>1, <2>2, FailureReported, DecodeErrorType DEF DecodeFails, Calling
<1>7. CASE IndexLayers
  <2>1. PICK r \in Unread \cap present : Content[r] = "nolayers"
    BY <1>7 DEF IndexLayers
  <2>2. moves = 0 => r \in AttachedToTag
    BY <1>7, <2>1 DEF IndexLayers, Unread, Current, AttachedToTag
  <2>3. /\ ret'.outcome = "panic" /\ pc' = "panic" /\ moves' = moves
        /\ AttachedToTag' = AttachedToTag
    BY <1>7 DEF IndexLayers, Panicked, AttachedToTag
  <2> QED
    BY <2>1, <2>2, <2>3 DEF Current, TellsTheImage, Succeeded, Failed
<1>8. CASE CallFails
  <2>1. PICK err \in CallErrors : AttemptFails(newStepError(pc, err))
    BY <1>8 DEF CallFails
  <2>2. Calling /\ pc \in {"descriptor", "referrers", "blob"} /\ err \in AnyCallError
    BY <1>8, CallErrorsAssumption DEF CallFails, Calling, AnyCallError
  <2> QED
    BY <2>1, <2>2, CallsBlameNoBundle, CallErrorsClassified, FailureReported
<1>9. CASE ContextFails
  <2>1. PICK e \in ContextErrors :
          AttemptFails(newStepError(pc, [is |-> e, status |-> 0, diags |-> <<>>]))
    BY <1>9 DEF ContextFails
  <2>2. /\ Calling /\ pc \in {"descriptor", "referrers", "blob"}
        /\ [is |-> e, status |-> 0, diags |-> <<>>] \in AnyCallError
    BY <1>9 DEF ContextFails, Calling, AnyCallError, ContextErrors
  <2> QED
    BY <2>1, <2>2, CallsBlameNoBundle, CallErrorsClassified, FailureReported
<1>10. CASE AttemptSucceeds
  <2>1. /\ ret' = Success(bundles, IF bundles = {} THEN NoDigest ELSE digest, attempts, outcomes)
        /\ pc' = "done" /\ moves' = moves /\ tag' = tag /\ AttachedToTag' = AttachedToTag
    BY <1>10 DEF AttemptSucceeds, Return, AttachedToTag
  <2>2. moves = 0 => AttachedToTag = bundles /\ digest = tag
    BY <1>10 DEF AttemptSucceeds, AttachedToTag, Current, Unread, IInv, Reading
  <2>3. \A r \in bundles : Content[r] = "bundle"
    BY <1>10 DEF AttemptSucceeds, IInv, Reading
  <2>4. /\ ret'.outcome = "success" /\ ret'.bundles = bundles
        /\ ret'.hash = IF bundles = {} THEN NoDigest ELSE digest
    BY <2>1 DEF Success
  <2> QED
    BY <2>1, <2>2, <2>3, <2>4 DEF Current, TellsTheImage, Succeeded, Failed
<1>11. CASE UNCHANGED vars
  BY <1>11 DEF vars, Current, TellsTheImage, AttachedToTag, Succeeded, Failed
<1> QED
  BY <1>2, <1>3, <1>4, <1>5, <1>6, <1>7, <1>8, <1>9, <1>10, <1>11
  DEF Next, Call, Environment, Done

(***************************************************************************)
(* Of a registry that stands still a fetch tells the truth about the       *)
(* image, after any number of attempts and failures: the results Provider  *)
(* takes for granted are those the retry loop can return                   *)
(* (bundle.go:322-490).                                                    *)
(***************************************************************************)
THEOREM AlwaysTellsTheImage == Spec => []TellsTheImage
<1>1. Init => Current /\ TellsTheImage
  BY DEF Init, Current, TellsTheImage, Succeeded, Failed, NoResult
<1>2. IInv /\ Current /\ TellsTheImage /\ [Next]_vars => (Current /\ TellsTheImage)'
  BY TellsStep
<1> QED
  BY <1>1, <1>2, Invariance, PTL DEF Spec
=============================================================================
