---------------------------- MODULE FetchErrors ----------------------------
(***************************************************************************)
(* The failure taxonomy of pkg/fetcher/bundle.go: what a failed registry   *)
(* call is turned into (kind, step, HTTP status, may it be retried), and   *)
(* how the errors of the retry loop are classified.  Pure operators; the   *)
(* state machine that uses them is Fetcher.                                *)
(*                                                                         *)
(* An error of a registry call is abstracted to what the code tells apart: *)
(* whether errors.Is finds a deadline or a cancellation in it, whether it  *)
(* holds an OCI transport error, and that error's status and diagnostics.  *)
(* The zero value "" of the Go string types is NoKind and NoStep.          *)
(***************************************************************************)
EXTENDS Integers, Sequences

CONSTANT RetryThrottled     \* package variable: retry a 429 in line

ASSUME RetryThrottledAssumption == RetryThrottled \in BOOLEAN

FailureKind == {"timeout", "canceled", "unauthorized", "forbidden",
                "throttled", "not_found", "referrers_unavailable",
                "descriptor_error", "blob_error", "bundle_invalid", "unknown"}

Step == {"descriptor", "referrers", "blob", "decode"}

NoKind == ""
NoStep == ""

(***************************************************************************)
(* The errors a registry call (go-containerregistry) can return.           *)
(***************************************************************************)
CallError == [is     : {"deadline", "canceled", "transport", "other"},
              status : Nat,
              diags  : Seq(STRING)]

AttemptOutcome == [reason : FailureKind, step : Step]

FetchError == [step : Step, kind : FailureKind, status : Nat,
               recoverable : BOOLEAN]

(***************************************************************************)
(* classifyTransport: a context error first, then the HTTP status, then    *)
(* the first diagnostic whose code is known.                               *)
(***************************************************************************)
StatusKind(status) ==
  CASE status = 401 -> "unauthorized"
    [] status = 403 -> "forbidden"
    [] status = 404 -> "not_found"
    [] status = 429 -> "throttled"
    [] OTHER        -> "unknown"

DiagnosticKind(code) ==
  CASE code = "UNAUTHORIZED"    -> "unauthorized"
    [] code = "DENIED"          -> "forbidden"
    [] code = "TOOMANYREQUESTS" -> "throttled"
    [] OTHER                    -> "unknown"

KnownDiagnostic(code) == DiagnosticKind(code) # "unknown"

DiagnosticsKind(diags) ==
  LET known == SelectSeq(diags, KnownDiagnostic)
  IN  IF known = <<>> THEN "unknown" ELSE DiagnosticKind(Head(known))

TransportKind(err) ==
  IF StatusKind(err.status) # "unknown"
  THEN StatusKind(err.status)
  ELSE DiagnosticsKind(err.diags)

classifyTransport(err) ==
  CASE err.is = "deadline"  -> [kind |-> "timeout",  status |-> 0]
    [] err.is = "canceled"  -> [kind |-> "canceled", status |-> 0]
    [] err.is = "transport" -> [kind |-> TransportKind(err), status |-> err.status]
    [] OTHER                -> [kind |-> "unknown",  status |-> 0]

(***************************************************************************)
(* newFetchError and the three constructors that fix its step and fallback.*)
(***************************************************************************)
BugRetryable(kind) ==
  /\ kind \notin {"unauthorized", "forbidden", "bundle_invalid"}
  /\ RetryThrottled \/ kind # "throttled"

Retryable(kind) ==
  /\ kind \notin {"unauthorized", "forbidden", "bundle_invalid", "not_found"}
  /\ RetryThrottled \/ kind # "throttled"

newFetchError(step, fallback, err) ==
  LET class == classifyTransport(err)
      kind  == IF class.kind = "unknown" THEN fallback ELSE class.kind
  IN  [step        |-> step,
       kind        |-> kind,
       status      |-> class.status,
       recoverable |-> Retryable(kind)]

Fallback(step) ==
  CASE step = "descriptor" -> "descriptor_error"
    [] step = "referrers"  -> "referrers_unavailable"
    [] OTHER               -> "blob_error"

newStepError(step, err) == newFetchError(step, Fallback(step), err)

\* The literal *FetchError DoBundleFromName builds when UnmarshalJSON fails.
decodeError ==
  [step |-> "decode", kind |-> "bundle_invalid", status |-> 0,
   recoverable |-> FALSE]

(***************************************************************************)
(* classifyAttempt.  DoBundleFromName returns no error other than a        *)
(* *FetchError with its Kind set, so only that branch can be taken.        *)
(***************************************************************************)
classifyAttempt(fe) == [reason |-> fe.kind, step |-> fe.step]

\* ctx is "live", or what ctx.Err() says once the context is done.
BugRawContextKind(ctx) == ctx
BugSwappedContextKind(ctx) == IF ctx = "deadline" THEN "canceled" ELSE "timeout"

kindFromContext(ctx) ==
  CASE ctx = "deadline" -> "timeout"
    [] ctx = "canceled" -> "canceled"
    [] OTHER            -> "unknown"
=============================================================================
