------------------------------ MODULE Provider ------------------------------
(***************************************************************************)
(* The external data provider: the HTTP handlers transport.validate        *)
(* (cmd/aaop/aaop.go) and Provider.Validate (pkg/provider/provider.go),    *)
(* one goroutine per request, with the metrics they share and the verifier *)
(* they call (pkg/verifier).                                               *)
(*                                                                         *)
(* A fetch returns one of the results of FetchContract that the image in   *)
(* the registry allows.  Images do not change here: a fetch against a      *)
(* changing registry is the subject of Fetcher.                            *)
(***************************************************************************)
EXTENDS FetchResult, Collections

CONSTANTS
  Handlers,        \* requests that can be in progress at once
  Keys,            \* image references
  Resolves,        \* the digest a key names; NoDigest for an unparsable key
  Content,         \* what each referrer manifest holds
  Attests,         \* the digest the statement in a bundle is about
  Roots,           \* the verifiers, one per trust root
  Trusts,          \* the bundles whose signature a trust root accepts
  FetchFailures,   \* failures of a fetch that say nothing of the image
  FaultyKeyChain,  \* whether the KeyChainProvider can return an error
  FaultyVerifier,  \* whether the verifier can return an error
  Requests,        \* the key lists callers send
  MaxRequests      \* bound: requests made

ASSUME ImageAssumption ==
  /\ Resolves \in [Keys -> Digests \cup {NoDigest}]
  /\ Content \in [Referrers -> {"bundle", "malformed", "nolayers", "foreign"}]
  /\ Attests \in [Referrers -> Digests]
  /\ IsFiniteSet(Referrers)
ASSUME VerifierAssumption == Trusts \in [Roots -> SUBSET Referrers]
ASSUME FetchFailuresAssumption ==
  /\ FetchFailures \subseteq Result
  /\ \A f \in FetchFailures : f.outcome = "failure" /\ f.kind # "bundle_invalid"
ASSUME RequestsAssumption ==
  /\ IsFiniteSet(Handlers)
  /\ Requests \subseteq Seq(Keys)
  /\ MaxRequests \in Nat
  /\ FaultyKeyChain \in BOOLEAN /\ FaultyVerifier \in BOOLEAN

VARIABLES
  pc,        \* where each handler is
  keys,      \* r.Request.Keys
  next,      \* index of the key in work
  items,     \* results
  fetched,   \* result.Bundles of the key in work
  resp,      \* the response being written, or last written
  requests,  \* requests made so far
  metrics,   \* the counters of pkg/metrics
  unjudged,  \* history: bundles retrieved whose verification errored
  completed  \* history: responses made with a verdict for every key

handlers == <<pc, keys, next, items, fetched, resp>>
provars  == <<pc, keys, next, items, fetched, resp, requests, metrics,
              unjudged, completed>>
history  == <<unjudged, completed>>

Counter == {"retrieved", "retrieveFail", "missing", "verOk", "verFail",
            "reqSuccess", "reqFailure"}
Metrics == [Counter -> Nat]

\* externaldata.Item: a per-image error, or the results of verification.
ItemError == {"", "invalid_reference", "error_fetching_bundle_bundle_invalid",
              "image_unsigned", "invalid_signature"}
Item == [key : Keys, error : ItemError, value : SUBSET Referrers]

ErrorItem(k, error) == [key |-> k, error |-> error, value |-> {}]
ValueItem(k, value) == [key |-> k, error |-> "", value |-> value]

Response == [items : Seq(Item), systemError : BOOLEAN]

ErrorResponse == [items |-> <<>>, systemError |-> TRUE]

-----------------------------------------------------------------------------
(***************************************************************************)
(* What a fetch of key k can return: the sigstore referrers of its digest, *)
(* the verdict that one of them cannot be decoded, a panic on one without  *)
(* layers, or a failure that does not depend on the image.                 *)
(***************************************************************************)
Attached(k) == {r \in Referrers : Subject[r] = Resolves[k] /\ Content[r] # "foreign"}

Holds(k, content) == \E r \in Attached(k) : Content[r] = content

FetchResults(k) ==
  UNION {FetchFailures,
         IF \A r \in Attached(k) : Content[r] = "bundle"
         THEN {Success(Attached(k), IF Attached(k) = {} THEN NoDigest ELSE Resolves[k],
                       1, <<>>)}
         ELSE {},
         IF Holds(k, "malformed")
         THEN {Failure("bundle_invalid", "decode", 0, 1,
                       <<[reason |-> "bundle_invalid", step |-> "decode"]>>)}
         ELSE {},
         IF Holds(k, "nolayers") THEN {Panicked} ELSE {}}

(***************************************************************************)
(* Verifier.VerifyOne: the trust root accepts the signature and the signed *)
(* statement is about the digest.  Multi.Verify: each bundle is verified   *)
(* by the first trust root that accepts it.                                *)
(***************************************************************************)
BugVerifyOne(root, b, h) == b \in Trusts[root]
VerifyOne(root, b, h) == b \in Trusts[root] /\ Attests[b] = h

Verify(bs, h) == {b \in bs : \E root \in Roots : VerifyOne(root, b, h)}

-----------------------------------------------------------------------------
Init ==
  /\ pc = [h \in Handlers |-> "idle"]
  /\ keys = [h \in Handlers |-> <<>>]
  /\ next = [h \in Handlers |-> 1]
  /\ items = [h \in Handlers |-> <<>>]
  /\ fetched = [h \in Handlers |-> {}]
  /\ resp = [h \in Handlers |-> ErrorResponse]
  /\ requests = 0
  /\ metrics = [c \in Counter |-> 0]
  /\ unjudged = 0 /\ completed = 0

(***************************************************************************)
(* transport.validate up to the call of Validate.                          *)
(***************************************************************************)
Arrives(h) ==
  /\ pc[h] \in {"idle", "sent", "panicked"}
  /\ requests < MaxRequests
  /\ requests' = requests + 1

Receive(h, ks) ==
  /\ Arrives(h)
  /\ keys' = [keys EXCEPT ![h] = ks]
  /\ next' = [next EXCEPT ![h] = 1]
  /\ items' = [items EXCEPT ![h] = <<>>]
  /\ pc' = [pc EXCEPT ![h] = "received"]
  /\ UNCHANGED <<fetched, resp, metrics, history>>

\* Not a POST, or a body that cannot be read or decoded.
BadRequest(h) ==
  /\ Arrives(h)
  /\ keys' = [keys EXCEPT ![h] = <<>>]
  /\ resp' = [resp EXCEPT ![h] = ErrorResponse]
  /\ pc' = [pc EXCEPT ![h] = "reply"]
  /\ UNCHANGED <<next, items, fetched, metrics, history>>

\* sendResponse.
SendResponse(h) ==
  /\ pc[h] = "reply"
  /\ pc' = [pc EXCEPT ![h] = "sent"]
  /\ UNCHANGED <<keys, next, items, fetched, resp, requests, metrics, history>>

-----------------------------------------------------------------------------
(***************************************************************************)
(* Provider.Validate.  Return is a return statement with the deferred      *)
(* observation of the request timer; m is what the action has counted.     *)
(***************************************************************************)
Observe(m, systemErr) ==
  IF systemErr THEN [m EXCEPT !["reqFailure"] = @ + 1] ELSE [m EXCEPT !["reqSuccess"] = @ + 1]

Return(h, response, systemErr, m) ==
  /\ resp' = [resp EXCEPT ![h] = response]
  /\ metrics' = Observe(m, systemErr)
  /\ pc' = [pc EXCEPT ![h] = "reply"]

KeyChainFails(h) ==
  /\ pc[h] = "received"
  /\ FaultyKeyChain
  /\ Return(h, ErrorResponse, TRUE, metrics)
  /\ UNCHANGED <<keys, next, items, fetched, requests, history>>

KeyChainReady(h) ==
  /\ pc[h] = "received"
  /\ pc' = [pc EXCEPT ![h] = "image"]
  /\ UNCHANGED <<keys, next, items, fetched, resp, requests, metrics, history>>

InWork(h) == pc[h] = "image" /\ next[h] <= Len(keys[h])

Key(h) == keys[h][next[h]]

\* The end of an iteration: the item is appended and the loop goes on.
AppendItem(h, item) ==
  /\ items' = [items EXCEPT ![h] = Append(@, item)]
  /\ next' = [next EXCEPT ![h] = @ + 1]

\* One key that cannot be parsed fails the request.
BugInvalidReference(h) ==
  /\ InWork(h)
  /\ Resolves[Key(h)] = NoDigest
  /\ Return(h, ErrorResponse, TRUE, metrics)
  /\ UNCHANGED <<keys, next, items, fetched, requests, history>>

InvalidReference(h) ==
  /\ InWork(h)
  /\ Resolves[Key(h)] = NoDigest
  /\ AppendItem(h, ErrorItem(Key(h), "invalid_reference"))
  /\ UNCHANGED <<pc, keys, fetched, resp, requests, metrics, history>>

\* The fetch of a key that parses has returned res.
Fetched(h, res) ==
  /\ InWork(h)
  /\ Resolves[Key(h)] # NoDigest
  /\ res \in FetchResults(Key(h))

\* fe.Kind == KindBundleInvalid: reported as the image's verdict.
BundleInvalid(h, res) ==
  /\ Fetched(h, res)
  /\ res.outcome = "failure"
  /\ res.kind = "bundle_invalid"
  /\ AppendItem(h, ErrorItem(Key(h), "error_fetching_bundle_bundle_invalid"))
  /\ metrics' = [metrics EXCEPT !["retrieveFail"] = @ + 1]
  /\ UNCHANGED <<pc, keys, fetched, resp, requests, history>>

\* Every failure is reported as the image's, with its kind.
BugFetchAborts(h, res) ==
  /\ Fetched(h, res)
  /\ res.outcome = "failure"
  /\ res.kind # "bundle_invalid"
  /\ AppendItem(h, ErrorItem(Key(h), res.kind))
  /\ metrics' = [metrics EXCEPT !["retrieveFail"] = @ + 1]
  /\ UNCHANGED <<pc, keys, fetched, resp, requests, history>>

\* The verdicts reached before the failure are thrown away.
BugFetchDiscards(h, res) ==
  /\ Fetched(h, res)
  /\ res.outcome = "failure"
  /\ res.kind # "bundle_invalid"
  /\ Return(h, ErrorResponse, TRUE, [metrics EXCEPT !["retrieveFail"] = @ + 1])
  /\ UNCHANGED <<keys, next, items, fetched, requests, history>>

\* Every other failure: the request ends with the items it has.
FetchAborts(h, res) ==
  /\ Fetched(h, res)
  /\ res.outcome = "failure"
  /\ res.kind # "bundle_invalid"
  /\ Return(h, [items |-> items[h], systemError |-> TRUE], TRUE,
            [metrics EXCEPT !["retrieveFail"] = @ + 1])
  /\ UNCHANGED <<keys, next, items, fetched, requests, history>>

\* The panic runs the deferred observation, with systemErr still false, and
\* net/http drops the connection.
FetchPanics(h, res) ==
  /\ Fetched(h, res)
  /\ res.outcome = "panic"
  /\ metrics' = Observe(metrics, FALSE)
  /\ pc' = [pc EXCEPT ![h] = "panicked"]
  /\ UNCHANGED <<keys, next, items, fetched, resp, requests, history>>

NoBundles(h, res) ==
  /\ Fetched(h, res)
  /\ res.outcome = "success" /\ res.bundles = {}
  /\ AppendItem(h, ErrorItem(Key(h), "image_unsigned"))
  /\ metrics' = [metrics EXCEPT !["missing"] = @ + 1]
  /\ UNCHANGED <<pc, keys, fetched, resp, requests, history>>

FetchedBundles(h, res) ==
  /\ Fetched(h, res)
  /\ res.outcome = "success" /\ res.bundles # {}
  /\ fetched' = [fetched EXCEPT ![h] = res.bundles]
  /\ metrics' = [metrics EXCEPT !["retrieved"] = @ + Cardinality(res.bundles)]
  /\ pc' = [pc EXCEPT ![h] = "verify"]
  /\ UNCHANGED <<keys, next, items, resp, requests, history>>

\* The bundles are counted before the error is ruled out.
BugVerifyErrors(h) ==
  /\ pc[h] = "verify"
  /\ FaultyVerifier
  /\ unjudged' = unjudged + Cardinality(fetched[h])
  /\ Return(h, ErrorResponse, TRUE,
            [metrics EXCEPT !["verFail"] = @ + Cardinality(fetched[h])])
  /\ UNCHANGED <<keys, next, items, fetched, requests, completed>>

VerifyErrors(h) ==
  /\ pc[h] = "verify"
  /\ FaultyVerifier
  /\ unjudged' = unjudged + Cardinality(fetched[h])
  /\ Return(h, ErrorResponse, TRUE, metrics)
  /\ UNCHANGED <<keys, next, items, fetched, requests, completed>>

\* What is added to the failures: nothing unless fail > 0.
FailedCount(bs, res) ==
  LET fail == Cardinality(bs) - Cardinality(res)
  IN  IF fail > 0 THEN fail ELSE 0

\* The digest handed to Verify is the one the bundles were fetched for.
VerifyDone(h) ==
  LET res == Verify(fetched[h], Resolves[Key(h)])
  IN  /\ pc[h] = "verify"
      /\ metrics' = [metrics EXCEPT
           !["verOk"]   = @ + Cardinality(res),
           !["verFail"] = @ + FailedCount(fetched[h], res)]
      /\ AppendItem(h, IF res # {} THEN ValueItem(Key(h), res)
                       ELSE ErrorItem(Key(h), "invalid_signature"))
      /\ pc' = [pc EXCEPT ![h] = "image"]
      /\ UNCHANGED <<keys, fetched, resp, requests, history>>

\* The end of the loop over the keys.
Complete(h) ==
  /\ pc[h] = "image"
  /\ next[h] > Len(keys[h])
  /\ Return(h, [items |-> items[h], systemError |-> FALSE], FALSE, metrics)
  /\ completed' = completed + 1
  /\ UNCHANGED <<keys, next, items, fetched, requests, unjudged>>

-----------------------------------------------------------------------------
FetchReturns(h) ==
  \E res \in UNION {FetchResults(k) : k \in Keys} :
    \/ BundleInvalid(h, res) \/ FetchAborts(h, res) \/ FetchPanics(h, res)
    \/ NoBundles(h, res) \/ FetchedBundles(h, res)

Validate(h) ==
  \/ KeyChainFails(h) \/ KeyChainReady(h) \/ InvalidReference(h)
  \/ FetchReturns(h) \/ VerifyErrors(h) \/ VerifyDone(h) \/ Complete(h)

\* Every request of the bound has been made and answered.
Rest ==
  /\ requests = MaxRequests
  /\ \A h \in Handlers : pc[h] \in {"idle", "sent", "panicked"}
  /\ UNCHANGED provars

Next ==
  \/ \E h \in Handlers :
       \/ \E ks \in Requests : Receive(h, ks)
       \/ BadRequest(h) \/ SendResponse(h) \/ Validate(h)
  \/ Rest

Spec == Init /\ [][Next]_provars

-----------------------------------------------------------------------------
(***************************************************************************)
(* Properties.                                                             *)
(***************************************************************************)
\* Types: no item's error is another than those the provider has for an image
\* (provider.go:136, :196, :248 and :288), and the counters only count up.
TypeOK ==
  /\ pc \in [Handlers -> {"idle", "received", "image", "verify", "reply", "sent", "panicked"}]
  /\ keys \in [Handlers -> Seq(Keys)]
  /\ next \in [Handlers -> Nat \ {0}]
  /\ items \in [Handlers -> Seq(Item)]
  /\ fetched \in [Handlers -> SUBSET Referrers]
  /\ resp \in [Handlers -> Response]
  /\ requests \in 0..MaxRequests
  /\ metrics \in Metrics
  /\ unjudged \in Nat /\ completed \in Nat

(***************************************************************************)
(* What is true of the image a key names, whatever happens to requests.    *)
(***************************************************************************)
Verdict(k) ==
  LET accepted == {b \in Attached(k) : /\ Attests[b] = Resolves[k]
                                       /\ \E root \in Roots : b \in Trusts[root]}
  IN  CASE Resolves[k] = NoDigest -> ErrorItem(k, "invalid_reference")
        [] Resolves[k] # NoDigest /\ Holds(k, "malformed") ->
             ErrorItem(k, "error_fetching_bundle_bundle_invalid")
        [] Resolves[k] # NoDigest /\ Attached(k) = {} -> ErrorItem(k, "image_unsigned")
        [] Resolves[k] # NoDigest /\ Attached(k) # {} /\ ~Holds(k, "malformed") ->
             IF accepted = {} THEN ErrorItem(k, "invalid_signature")
             ELSE ValueItem(k, accepted)

(***************************************************************************)
(* The items of a response are the verdicts of the request's first keys,   *)
(* in order, and of all its keys unless it carries a system error.  No     *)
(* transient failure is ever made a verdict, none is skipped, and no item  *)
(* of another request or key gets in (provider.go:121-295).                *)
(***************************************************************************)
ItemsAreVerdicts ==
  \A h \in Handlers : pc[h] \in {"reply", "sent"} =>
    LET r == resp[h] IN
      /\ Len(r.items) <= Len(keys[h])
      /\ \A j \in 1..Len(r.items) : r.items[j] = Verdict(keys[h][j])
      /\ ~r.systemError => Len(r.items) = Len(keys[h])

(***************************************************************************)
(* Every bundle retrieved is counted once as verified or as failed, except *)
(* those being verified and those whose verification could not be carried  *)
(* out (provider.go:228 and :266-274), under any interleaving of handlers. *)
(***************************************************************************)
InVerification ==
  Total(Handlers, [h \in Handlers |-> IF pc[h] = "verify" THEN fetched[h] ELSE {}])

BundlesAccounted ==
  metrics["retrieved"] =
    metrics["verOk"] + metrics["verFail"] + unjudged + InVerification

(***************************************************************************)
(* The request timer's outcome "success" is observed for exactly the       *)
(* requests answered with a verdict for every key, as its help text says   *)
(* (metrics/prom.go:67).                                                   *)
(***************************************************************************)
SuccessMeansComplete == metrics["reqSuccess"] = completed
=============================================================================
