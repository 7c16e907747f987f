--------------------------- MODULE ProviderProofs ---------------------------
(***************************************************************************)
(* Proofs about Provider, for any number of concurrent handlers, any       *)
(* images, trust roots and requests.                                       *)
(***************************************************************************)
EXTENDS Provider, CollectionProofs

(***************************************************************************)
(* Each way an iteration of Validate ends yields the verdict of its key.   *)
(***************************************************************************)
LEMMA VerdictOfUnparsable ==
  ASSUME NEW k \in Keys, Resolves[k] = NoDigest
  PROVE  Verdict(k) = ErrorItem(k, "invalid_reference")
BY DEF Verdict

\* Results that are failures of the image, and those that are bundles.
LEMMA ResultsOfImage ==
  ASSUME NEW k \in Keys, NEW res \in FetchResults(k)
  PROVE  /\ res.outcome = "failure" /\ res.kind = "bundle_invalid" => Holds(k, "malformed")
         /\ res.outcome = "success" =>
              /\ res.bundles = Attached(k)
              /\ \A r \in Attached(k) : Content[r] = "bundle"
BY FetchFailuresAssumption DEF FetchResults, Success, Failure, Panicked

LEMMA VerdictOfUndecodable ==
  ASSUME NEW k \in Keys, Resolves[k] # NoDigest, Holds(k, "malformed")
  PROVE  Verdict(k) = ErrorItem(k, "error_fetching_bundle_bundle_invalid")
<1>1. Attached(k) # {}
  BY DEF Holds
<1> QED
  BY <1>1 DEF Verdict

LEMMA VerdictOfUnsigned ==
  ASSUME NEW k \in Keys, Resolves[k] # NoDigest, Attached(k) = {}
  PROVE  Verdict(k) = ErrorItem(k, "image_unsigned")
<1>1. ~Holds(k, "malformed")
  BY DEF Holds
<1> QED
  BY <1>1 DEF Verdict

LEMMA VerdictOfBundles ==
  ASSUME NEW k \in Keys, Resolves[k] # NoDigest, Attached(k) # {},
         \A r \in Attached(k) : Content[r] = "bundle"
  PROVE  Verdict(k) = IF Verify(Attached(k), Resolves[k]) # {}
                      THEN ValueItem(k, Verify(Attached(k), Resolves[k]))
                      ELSE ErrorItem(k, "invalid_signature")
<1>1. ~Holds(k, "malformed")
  BY DEF Holds
<1>2. Verify(Attached(k), Resolves[k]) =
        {b \in Attached(k) : /\ Attests[b] = Resolves[k]
                             /\ \E root \in Roots : b \in Trusts[root]}
  BY DEF Verify, VerifyOne
<1> QED
  BY <1>1, <1>2 DEF Verdict

LEMMA VerdictIsItem ==
  ASSUME NEW k \in Keys
  PROVE  /\ \A e \in ItemError : ErrorItem(k, e) \in Item
         /\ \A v \in SUBSET Referrers : ValueItem(k, v) \in Item
BY DEF Item, ItemError, ErrorItem, ValueItem

-----------------------------------------------------------------------------
(***************************************************************************)
(* The inductive invariant: the items a handler has collected are the      *)
(* verdicts of the keys it has passed, and a verification in progress is   *)
(* of all the bundles attached to the key in work.                         *)
(***************************************************************************)
Passed(h) ==
  /\ next[h] = Len(items[h]) + 1
  /\ Len(items[h]) <= Len(keys[h])
  /\ \A j \in 1..Len(items[h]) : items[h][j] = Verdict(keys[h][j])

Verifying(h) ==
  /\ next[h] <= Len(keys[h])
  /\ Resolves[Key(h)] # NoDigest
  /\ fetched[h] = Attached(Key(h)) /\ fetched[h] # {}
  /\ \A r \in Attached(Key(h)) : Content[r] = "bundle"

Answered(h) ==
  /\ Len(resp[h].items) <= Len(keys[h])
  /\ \A j \in 1..Len(resp[h].items) : resp[h].items[j] = Verdict(keys[h][j])
  /\ ~resp[h].systemError => Len(resp[h].items) = Len(keys[h])

Progress(h) ==
  /\ pc[h] = "received" => next[h] = 1 /\ items[h] = <<>>
  /\ pc[h] \in {"image", "verify"} => Passed(h)
  /\ pc[h] = "verify" => Verifying(h)
  /\ pc[h] \in {"reply", "sent"} => Answered(h)

PInv == TypeOK /\ \A h \in Handlers : Progress(h)

LEMMA PInvImplies == PInv => ItemsAreVerdicts
BY DEF PInv, Progress, Answered, ItemsAreVerdicts

\* A step of handler h that leaves the others alone keeps their part.
LEMMA OtherHandlers ==
  ASSUME NEW h \in Handlers, NEW g \in Handlers, Progress(g),
         UNCHANGED <<pc[g], keys[g], next[g], items[g], fetched[g], resp[g]>>
  PROVE  Progress(g)'
BY DEF Progress, Passed, Verifying, Answered, Key

\* The end of an iteration with the verdict of its key.
LEMMA IterationEnds ==
  ASSUME PInv, NEW h \in Handlers, pc[h] \in {"image", "verify"},
         next[h] <= Len(keys[h]),
         NEW item \in Item, item = Verdict(Key(h)),
         AppendItem(h, item), keys' = keys, fetched' = fetched, resp' = resp,
         pc' = [pc EXCEPT ![h] = "image"],
         requests' = requests, metrics' \in Metrics, unjudged' = unjudged,
         completed' = completed
  PROVE  PInv'
<1>1. /\ items' = [items EXCEPT ![h] = Append(items[h], item)]
      /\ next' = [next EXCEPT ![h] = next[h] + 1]
  BY DEF AppendItem
<1>2. TypeOK'
  BY <1>1 DEF PInv, TypeOK
<1>3. ASSUME NEW g \in Handlers, g # h PROVE Progress(g)'
  <2>1. UNCHANGED <<pc[g], keys[g], next[g], items[g], fetched[g], resp[g]>>
    BY <1>1, <1>3 DEF PInv, TypeOK
  <2> QED
    BY <2>1, OtherHandlers DEF PInv
<1>4. Progress(h)'
  <2>1. /\ items[h] \in Seq(Item) /\ next[h] = Len(items[h]) + 1 /\ keys[h] \in Seq(Keys)
        /\ \A j \in 1..Len(items[h]) : items[h][j] = Verdict(keys[h][j])
    BY DEF PInv, Progress, Passed, TypeOK
  <2>2. /\ items'[h] = Append(items[h], item) /\ next'[h] = next[h] + 1
        /\ pc'[h] = "image"
    BY <1>1 DEF PInv, TypeOK
  <2>3. /\ Len(items'[h]) = Len(items[h]) + 1
        /\ \A j \in 1..Len(items[h]) : items'[h][j] = items[h][j]
        /\ items'[h][next[h]] = Verdict(keys[h][next[h]])
    BY <2>1, <2>2 DEF Key
  <2>4. Passed(h)'
    <3>1. \A j \in 1..(Len(items[h]) + 1) : items'[h][j] = Verdict(keys[h][j])
      BY <2>1, <2>3
    <3> QED
      BY <2>1, <2>2, <2>3, <3>1 DEF Passed
  <2> QED
    BY <2>2, <2>4 DEF Progress
<1> QED
  BY <1>2, <1>3, <1>4 DEF PInv

\* A return of Validate whose response is right.
LEMMA Returns ==
  ASSUME PInv, NEW h \in Handlers, NEW response \in Response, NEW systemErr, NEW m \in Metrics,
         Len(response.items) <= Len(keys[h]),
         \A j \in 1..Len(response.items) : response.items[j] = Verdict(keys[h][j]),
         ~response.systemError => Len(response.items) = Len(keys[h]),
         Return(h, response, systemErr, m),
         UNCHANGED <<keys, next, items, fetched, requests>>,
         unjudged' \in Nat, completed' \in Nat
  PROVE  PInv'
<1>1. metrics' \in Metrics
  <2>1. /\ [m EXCEPT !["reqFailure"] = m["reqFailure"] + 1] \in Metrics
        /\ [m EXCEPT !["reqSuccess"] = m["reqSuccess"] + 1] \in Metrics
    BY DEF Metrics, Counter
  <2> QED
    BY <2>1 DEF Return, Observe
<1>2. /\ resp' = [resp EXCEPT ![h] = response]
      /\ pc' = [pc EXCEPT ![h] = "reply"]
  BY DEF Return
<1>3. TypeOK'
  BY <1>1, <1>2 DEF PInv, TypeOK
<1>4. ASSUME NEW g \in Handlers, g # h PROVE Progress(g)'
  <2>1. UNCHANGED <<pc[g], keys[g], next[g], items[g], fetched[g], resp[g]>>
    BY <1>2, <1>4 DEF PInv, TypeOK
  <2> QED
    BY <2>1, OtherHandlers DEF PInv
<1>5. Progress(h)'
  BY <1>2 DEF PInv, TypeOK, Progress, Answered
<1> QED
  BY <1>3, <1>4, <1>5 DEF PInv

\* The responses with no items.
LEMMA ErrorResponseRight ==
  /\ ErrorResponse \in Response /\ ErrorResponse.items = <<>> /\ ErrorResponse.systemError
  /\ \A ks \in Seq(Keys) :
       /\ Len(ErrorResponse.items) <= Len(ks)
       /\ \A j \in 1..Len(ErrorResponse.items) : ErrorResponse.items[j] = Verdict(ks[j])
BY DEF ErrorResponse, Response

-----------------------------------------------------------------------------
\* A fetch that has returned was of the key in work.
LEMMA FetchResultIsOfKey ==
  ASSUME PInv, NEW h \in Handlers, NEW res, Fetched(h, res)
  PROVE  /\ Key(h) \in Keys /\ Resolves[Key(h)] # NoDigest
         /\ pc[h] = "image" /\ next[h] <= Len(keys[h])
         /\ res \in FetchResults(Key(h))
         /\ Attached(Key(h)) \subseteq Referrers
<1>1. keys[h] \in Seq(Keys) /\ next[h] \in Nat \ {0}
  BY DEF PInv, TypeOK
<1>2. pc[h] = "image" /\ next[h] <= Len(keys[h])
  BY DEF Fetched, InWork
<1>3. Key(h) \in Keys
  BY <1>1, <1>2 DEF Key
<1> QED
  BY <1>2, <1>3 DEF Fetched, Attached

\* Counting keeps the metrics natural numbers.
LEMMA Counting ==
  ASSUME NEW m \in Metrics, NEW c \in Counter, NEW n \in Nat
  PROVE  [m EXCEPT ![c] = @ + n] \in Metrics
BY DEF Metrics

LEMMA CountingTwice ==
  ASSUME NEW m \in Metrics, NEW n \in Nat, NEW f \in Nat
  PROVE  [m EXCEPT !["verOk"] = @ + n, !["verFail"] = @ + f] \in Metrics
<1> DEFINE m1 == [m EXCEPT !["verOk"] = @ + n]
<1>1. m1 \in Metrics
  BY Counting DEF Counter
<1>2. [m EXCEPT !["verOk"] = @ + n, !["verFail"] = @ + f] = [m1 EXCEPT !["verFail"] = @ + f]
  OBVIOUS
<1> HIDE DEF m1
<1>3. [m1 EXCEPT !["verFail"] = @ + f] \in Metrics
  BY <1>1, Counting DEF Counter
<1> QED
  BY <1>2, <1>3

LEMMA ReceiveKeeps ==
  ASSUME PInv, NEW h \in Handlers, NEW ks \in Seq(Keys), Receive(h, ks)
  PROVE  PInv'
<1>1. TypeOK'
  BY RequestsAssumption DEF PInv, TypeOK, Receive, Arrives, history
<1>2. ASSUME NEW g \in Handlers, g # h PROVE Progress(g)'
  <2>1. UNCHANGED <<pc[g], keys[g], next[g], items[g], fetched[g], resp[g]>>
    BY <1>2 DEF PInv, TypeOK, Receive
  <2> QED
    BY <2>1, OtherHandlers DEF PInv
<1>3. Progress(h)'
  BY DEF PInv, TypeOK, Receive, Progress
<1> QED
  BY <1>1, <1>2, <1>3 DEF PInv

LEMMA BadRequestKeeps ==
  ASSUME PInv, NEW h \in Handlers, BadRequest(h)
  PROVE  PInv'
<1>1. TypeOK'
  BY RequestsAssumption, ErrorResponseRight DEF PInv, TypeOK, BadRequest, Arrives, history
<1>2. ASSUME NEW g \in Handlers, g # h PROVE Progress(g)'
  <2>1. UNCHANGED <<pc[g], keys[g], next[g], items[g], fetched[g], resp[g]>>
    BY <1>2 DEF PInv, TypeOK, BadRequest
  <2> QED
    BY <2>1, OtherHandlers DEF PInv
<1>3. Progress(h)'
  <2>1. pc'[h] = "reply" /\ resp'[h] = ErrorResponse /\ keys'[h] = <<>>
    BY DEF PInv, TypeOK, BadRequest
  <2> QED
    BY <2>1, ErrorResponseRight DEF Progress, Answered
<1> QED
  BY <1>1, <1>2, <1>3 DEF PInv

\* Steps that change nothing but the handler's place and the metrics.
LEMMA MoveKeeps ==
  ASSUME PInv, NEW h \in Handlers, NEW to, pc' = [pc EXCEPT ![h] = to],
         \/ pc[h] = "reply" /\ to = "sent"
         \/ pc[h] = "received" /\ to = "image"
         \/ to = "panicked",
         UNCHANGED <<keys, next, items, fetched, resp, requests, history>>,
         metrics' \in Metrics
  PROVE  PInv'
<1>1. TypeOK'
  BY DEF PInv, TypeOK, history
<1>2. ASSUME NEW g \in Handlers, g # h PROVE Progress(g)'
  <2>1. UNCHANGED <<pc[g], keys[g], next[g], items[g], fetched[g], resp[g]>>
    BY <1>2 DEF PInv, TypeOK
  <2> QED
    BY <2>1, OtherHandlers DEF PInv
<1>3. Progress(h)'
  <2>1. pc'[h] = to /\ Progress(h) /\ keys[h] \in Seq(Keys)
    BY DEF PInv, TypeOK
  <2> QED
    BY <2>1 DEF Progress, Passed, Answered
<1> QED
  BY <1>1, <1>2, <1>3 DEF PInv

LEMMA FetchKeeps ==
  ASSUME PInv, NEW h \in Handlers, FetchReturns(h)
  PROVE  PInv'
<1>1. PICK res : \/ BundleInvalid(h, res) \/ FetchAborts(h, res) \/ FetchPanics(h, res)
                 \/ NoBundles(h, res) \/ FetchedBundles(h, res)
  BY DEF FetchReturns
<1>2. Fetched(h, res)
  BY <1>1 DEF BundleInvalid, FetchAborts, FetchPanics, NoBundles, FetchedBundles
<1>3. /\ Key(h) \in Keys /\ Resolves[Key(h)] # NoDigest
      /\ pc[h] = "image" /\ next[h] <= Len(keys[h])
      /\ res \in FetchResults(Key(h))
      /\ Attached(Key(h)) \subseteq Referrers
  BY <1>2, FetchResultIsOfKey
<1>4. metrics \in Metrics /\ pc \in [Handlers -> {"idle", "received", "image", "verify",
                                                "reply", "sent", "panicked"}]
      /\ unjudged \in Nat /\ completed \in Nat
  BY DEF PInv, TypeOK
<1>5. [pc EXCEPT ![h] = "image"] = pc
  BY <1>3, <1>4
<1>6. CASE BundleInvalid(h, res)
  <2>1. Verdict(Key(h)) = ErrorItem(Key(h), "error_fetching_bundle_bundle_invalid")
    BY <1>3, <1>6, ResultsOfImage, VerdictOfUndecodable DEF BundleInvalid
  <2>2. Verdict(Key(h)) \in Item
    BY <1>3, <2>1, VerdictIsItem DEF ItemError
  <2>3. metrics' \in Metrics
    BY <1>4, <1>6, Counting DEF BundleInvalid, Counter
  <2> QED
    BY <1>3, <1>5, <1>6, <2>1, <2>2, <2>3, IterationEnds DEF BundleInvalid, history
<1>7. CASE FetchAborts(h, res)
  <2> DEFINE r == [items |-> items[h], systemError |-> TRUE]
             m == [metrics EXCEPT !["retrieveFail"] = @ + 1]
  <2>1. Return(h, r, TRUE, m) /\ UNCHANGED <<keys, next, items, fetched, requests, history>>
    BY <1>7 DEF FetchAborts
  <2>2. m \in Metrics
    BY <1>4, Counting DEF Counter
  <2>3. r \in Response /\ r.systemError /\ r.items = items[h]
    BY DEF PInv, TypeOK, Response
  <2>4. Passed(h)
    BY <1>3 DEF PInv, Progress
  <2> HIDE DEF r, m
  <2> QED
    BY <1>4, <2>1, <2>2, <2>3, <2>4, Returns DEF Passed, history
<1>8. CASE FetchPanics(h, res)
  <2>1. metrics' \in Metrics
    BY <1>4, <1>8, Counting DEF FetchPanics, Observe, Counter
  <2> QED
    BY <1>8, <2>1, MoveKeeps DEF FetchPanics
<1>9. CASE NoBundles(h, res)
  <2>1. Verdict(Key(h)) = ErrorItem(Key(h), "image_unsigned")
    BY <1>3, <1>9, ResultsOfImage, VerdictOfUnsigned DEF NoBundles
  <2>2. Verdict(Key(h)) \in Item
    BY <1>3, <2>1, VerdictIsItem DEF ItemError
  <2>3. metrics' \in Metrics
    BY <1>4, <1>9, Counting DEF NoBundles, Counter
  <2> QED
    BY <1>3, <1>5, <1>9, <2>1, <2>2, <2>3, IterationEnds DEF NoBundles, history
<1>10. CASE FetchedBundles(h, res)
  <2>1. /\ res.bundles = Attached(Key(h)) /\ res.bundles # {}
        /\ \A r \in Attached(Key(h)) : Content[r] = "bundle"
    BY <1>3, <1>10, ResultsOfImage DEF FetchedBundles
  <2>2. Cardinality(res.bundles) \in Nat
    BY <1>3, <2>1, ImageAssumption, FS_Subset, FS_CardinalityType
  <2>3. metrics' \in Metrics
    BY <1>4, <1>10, <2>2, Counting DEF FetchedBundles, Counter
  <2>4. TypeOK'
    BY <1>3, <1>10, <2>1, <2>3 DEF PInv, TypeOK, FetchedBundles, history
  <2>5. ASSUME NEW g \in Handlers, g # h PROVE Progress(g)'
    <3>1. UNCHANGED <<pc[g], keys[g], next[g], items[g], fetched[g], resp[g]>>
      BY <1>10, <2>5 DEF PInv, TypeOK, FetchedBundles
    <3> QED
      BY <3>1, OtherHandlers DEF PInv
  <2>6. Progress(h)'
    <3>1. /\ pc'[h] = "verify" /\ fetched'[h] = Attached(Key(h))
          /\ UNCHANGED <<keys, next, items>>
      BY <1>10, <2>1 DEF PInv, TypeOK, FetchedBundles
    <3>2. Passed(h)'
      BY <1>3, <3>1 DEF PInv, Progress, Passed
    <3>3. Verifying(h)'
      BY <1>3, <2>1, <3>1 DEF Verifying, Key
    <3> QED
      BY <3>1, <3>2, <3>3 DEF Progress
  <2> QED
    BY <2>4, <2>5, <2>6 DEF PInv
<1> QED
  BY <1>1, <1>6, <1>7, <1>8, <1>9, <1>10

LEMMA VerifyKeeps ==
  ASSUME PInv, NEW h \in Handlers, VerifyErrors(h) \/ VerifyDone(h)
  PROVE  PInv'
<1>1. /\ metrics \in Metrics /\ unjudged \in Nat /\ completed \in Nat
      /\ keys[h] \in Seq(Keys) /\ next[h] \in Nat \ {0} /\ fetched[h] \subseteq Referrers
      /\ pc[h] = "verify" /\ Verifying(h)
  BY DEF PInv, TypeOK, Progress, VerifyErrors, VerifyDone
<1>2. IsFiniteSet(fetched[h]) /\ Cardinality(fetched[h]) \in Nat
  BY <1>1, ImageAssumption, FS_Subset, FS_CardinalityType
<1>3. Key(h) \in Keys
  BY <1>1 DEF Verifying, Key
<1>4. CASE VerifyErrors(h)
  <2>1. Return(h, ErrorResponse, TRUE, metrics)
    BY <1>4 DEF VerifyErrors
  <2>2. /\ UNCHANGED <<keys, next, items, fetched, requests>>
        /\ unjudged' \in Nat /\ completed' \in Nat
    BY <1>1, <1>2, <1>4 DEF VerifyErrors
  <2> QED
    BY <1>1, <2>1, <2>2, ErrorResponseRight, Returns
<1>5. CASE VerifyDone(h)
  <2> DEFINE res == Verify(fetched[h], Resolves[Key(h)])
  <2>1. res \subseteq fetched[h]
    BY DEF Verify
  <2>2. Cardinality(res) \in Nat /\ Cardinality(fetched[h]) - Cardinality(res) \in Nat
    BY <1>2, <2>1, FS_Subset, FS_CardinalityType
  <2>3. metrics' \in Metrics
    <3>1. metrics' = [metrics EXCEPT
             !["verOk"]   = @ + Cardinality(res),
             !["verFail"] = @ + FailedCount(fetched[h], res)]
      BY <1>5 DEF VerifyDone
    <3>2. FailedCount(fetched[h], res) \in Nat
      BY <1>2, <2>2 DEF FailedCount
    <3> HIDE DEF res
    <3> QED
      BY <1>1, <2>2, <3>1, <3>2, CountingTwice
  <2>4. Verdict(Key(h)) = IF res # {} THEN ValueItem(Key(h), res)
                          ELSE ErrorItem(Key(h), "invalid_signature")
    BY <1>1, <1>3, VerdictOfBundles DEF Verifying
  <2>5. Verdict(Key(h)) \in Item
    BY <1>1, <1>3, <2>1, <2>4, VerdictIsItem DEF ItemError
  <2>6. AppendItem(h, Verdict(Key(h)))
    BY <1>5, <2>4 DEF VerifyDone
  <2>7. /\ pc' = [pc EXCEPT ![h] = "image"]
        /\ keys' = keys /\ fetched' = fetched /\ resp' = resp /\ requests' = requests
        /\ unjudged' = unjudged /\ completed' = completed
    BY <1>5 DEF VerifyDone, history
  <2> HIDE DEF res
  <2> QED
    BY <1>1, <2>3, <2>5, <2>6, <2>7, IterationEnds DEF Verifying
<1> QED
  BY <1>4, <1>5

\* Every step of a handler keeps the invariant, whatever keys it is sent.
LEMMA HandlerKeeps ==
  ASSUME PInv, NEW h \in Handlers,
         \/ \E ks \in Seq(Keys) : Receive(h, ks)
         \/ BadRequest(h) \/ SendResponse(h) \/ Validate(h)
  PROVE  PInv'
<1>1. /\ metrics \in Metrics /\ unjudged \in Nat /\ completed \in Nat
      /\ keys[h] \in Seq(Keys) /\ next[h] \in Nat \ {0} /\ items[h] \in Seq(Item)
      /\ pc \in [Handlers -> {"idle", "received", "image", "verify",
                             "reply", "sent", "panicked"}]
  BY DEF PInv, TypeOK
<1>2. CASE SendResponse(h)
  BY <1>1, <1>2, MoveKeeps DEF SendResponse
<1>3. CASE KeyChainFails(h)
  BY <1>1, <1>3, ErrorResponseRight, Returns DEF KeyChainFails, history
<1>4. CASE KeyChainReady(h)
  BY <1>1, <1>4, MoveKeeps DEF KeyChainReady
<1>5. CASE InvalidReference(h)
  <2>1. pc[h] = "image" /\ next[h] <= Len(keys[h]) /\ Resolves[Key(h)] = NoDigest
    BY <1>5 DEF InvalidReference, InWork
  <2>2. Key(h) \in Keys /\ [pc EXCEPT ![h] = "image"] = pc
    BY <1>1, <2>1 DEF Key
  <2>3. Verdict(Key(h)) = ErrorItem(Key(h), "invalid_reference")
    BY <2>1, <2>2, VerdictOfUnparsable
  <2>4. Verdict(Key(h)) \in Item
    BY <2>2, <2>3, VerdictIsItem DEF ItemError
  <2> QED
    BY <1>1, <1>5, <2>1, <2>2, <2>3, <2>4, IterationEnds DEF InvalidReference, history
<1>6. CASE Complete(h)
  <2> DEFINE r == [items |-> items[h], systemError |-> FALSE]
  <2>1. Return(h, r, FALSE, metrics)
    BY <1>6 DEF Complete
  <2>5. /\ UNCHANGED <<keys, next, items, fetched, requests>>
        /\ unjudged' \in Nat /\ completed' \in Nat
    BY <1>1, <1>6 DEF Complete
  <2>2. r \in Response /\ r.items = items[h]
    BY <1>1 DEF Response
  <2>3. Passed(h) /\ next[h] > Len(keys[h])
    BY <1>6 DEF PInv, Progress, Complete
  <2>4. Len(items[h]) = Len(keys[h])
    BY <1>1, <2>3 DEF Passed
  <2> HIDE DEF r
  <2> QED
    BY <1>1, <2>1, <2>2, <2>3, <2>4, <2>5, Returns DEF Passed
<1> QED
  BY <1>2, <1>3, <1>4, <1>5, <1>6, ReceiveKeeps, BadRequestKeeps, FetchKeeps, VerifyKeeps
  DEF Validate

LEMMA PInvInit == Init => PInv
<1> SUFFICES ASSUME Init PROVE PInv
  OBVIOUS
<1>1. TypeOK
  BY RequestsAssumption, ErrorResponseRight DEF Init, TypeOK, Metrics
<1> QED
  BY <1>1 DEF PInv, Progress, Init

LEMMA PInvStep == PInv /\ [Next]_provars => PInv'
<1> SUFFICES ASSUME PInv, [Next]_provars PROVE PInv'
  OBVIOUS
<1>1. CASE UNCHANGED provars
  BY <1>1 DEF PInv, TypeOK, Progress, Passed, Verifying, Answered, Key, provars
<1>2. CASE Rest
  BY <1>1, <1>2 DEF Rest
<1>3. ASSUME NEW h \in Handlers,
             \/ \E ks \in Requests : Receive(h, ks)
             \/ BadRequest(h) \/ SendResponse(h) \/ Validate(h)
      PROVE  PInv'
  BY <1>3, HandlerKeeps, RequestsAssumption
<1> QED
  BY <1>1, <1>2, <1>3 DEF Next

(***************************************************************************)
(* TypeOK holds in every state: in particular no metric is ever counted    *)
(* down, the count of failed verifications included (provider.go:266-274). *)
(***************************************************************************)
THEOREM TypeCorrect == Spec => []TypeOK
<1>1. PInv => TypeOK
  BY DEF PInv
<1> QED
  BY <1>1, PInvInit, PInvStep, PTL DEF Spec

(***************************************************************************)
(* The items of every response are the verdicts of the request's first     *)
(* keys, and of all of them without a system error (provider.go:121-295).  *)
(***************************************************************************)
THEOREM ResponsesAreVerdicts == Spec => []ItemsAreVerdicts
BY PInvInit, PInvStep, PInvImplies, PTL DEF Spec

-----------------------------------------------------------------------------
(***************************************************************************)
(* The bundles being verified, by handler, and how a step of one handler   *)
(* changes their number.                                                   *)
(***************************************************************************)
Held == [h \in Handlers |-> IF pc[h] = "verify" THEN fetched[h] ELSE {}]

LEMMA BundlesFinite ==
  ASSUME NEW B \in SUBSET Referrers
  PROVE  IsFiniteSet(B) /\ Cardinality(B) \in Nat
BY ImageAssumption, FS_Subset, FS_CardinalityType

LEMMA HeldFinite ==
  ASSUME fetched \in [Handlers -> SUBSET Referrers]
  PROVE  FiniteParts(Handlers, Held) /\ InVerification = Total(Handlers, Held)
         /\ InVerification \in Nat
<1>1. \A h \in Handlers : IsFiniteSet(Held[h])
  BY BundlesFinite, FS_EmptySet DEF Held
<1>2. FiniteParts(Handlers, Held)
  BY <1>1, RequestsAssumption DEF FiniteParts
<1> QED
  BY <1>2, TaggedFinite DEF InVerification, Held

\* Only the handler that moves gains or loses bundles.
LEMMA VerificationMoves ==
  ASSUME TypeOK, NEW h \in Handlers, NEW to, pc' = [pc EXCEPT ![h] = to],
         NEW B \in SUBSET Referrers, fetched' = [fetched EXCEPT ![h] = B]
  PROVE  /\ InVerification \in Nat /\ InVerification' \in Nat
         /\ InVerification' + (IF pc[h] = "verify" THEN Cardinality(fetched[h]) ELSE 0) =
              InVerification + (IF to = "verify" THEN Cardinality(B) ELSE 0)
<1> DEFINE F == Held
           G == [g \in Handlers |-> IF pc'[g] = "verify" THEN fetched'[g] ELSE {}]
<1>1. FiniteParts(Handlers, F) /\ InVerification = Total(Handlers, F)
  BY HeldFinite DEF TypeOK
<1>2. fetched' \in [Handlers -> SUBSET Referrers]
  BY DEF TypeOK
<1>3. FiniteParts(Handlers, G) /\ InVerification' = Total(Handlers, G)
  <2>1. \A g \in Handlers : IsFiniteSet(G[g])
    BY <1>2, BundlesFinite, FS_EmptySet
  <2> QED
    BY <2>1, RequestsAssumption DEF FiniteParts, InVerification
<1>4. /\ \A g \in Handlers : g # h => G[g] = F[g]
      /\ F[h] = IF pc[h] = "verify" THEN fetched[h] ELSE {}
      /\ G[h] = IF to = "verify" THEN B ELSE {}
  BY DEF TypeOK, Held
<1> HIDE DEF F, G
<1>5. /\ Total(Handlers, F) \in Nat /\ Total(Handlers, G) \in Nat
      /\ Total(Handlers, G) + Cardinality(F[h]) = Total(Handlers, F) + Cardinality(G[h])
  BY <1>1, <1>3, <1>4, TotalChange
<1>6. Cardinality({}) = 0
  BY FS_EmptySet
<1> QED
  BY <1>1, <1>3, <1>4, <1>5, <1>6

LEMMA VerificationStarts ==
  ASSUME TypeOK, NEW h \in Handlers, pc[h] # "verify", NEW B \in SUBSET Referrers,
         pc' = [pc EXCEPT ![h] = "verify"], fetched' = [fetched EXCEPT ![h] = B]
  PROVE  InVerification' = InVerification + Cardinality(B) /\ InVerification \in Nat
<1>1. /\ InVerification \in Nat /\ InVerification' \in Nat
      /\ InVerification' + 0 = InVerification + Cardinality(B)
  BY VerificationMoves
<1>2. Cardinality(B) \in Nat
  BY BundlesFinite
<1> QED
  BY <1>1, <1>2

LEMMA VerificationStays ==
  ASSUME TypeOK, NEW h \in Handlers, NEW to, to # "verify",
         pc' = [pc EXCEPT ![h] = to], fetched' = fetched
  PROVE  /\ InVerification \in Nat /\ InVerification' \in Nat
         /\ pc[h] = "verify" => InVerification = InVerification' + Cardinality(fetched[h])
         /\ pc[h] # "verify" => InVerification' = InVerification
<1>1. fetched[h] \in SUBSET Referrers /\ fetched' = [fetched EXCEPT ![h] = fetched[h]]
  BY DEF TypeOK
<1>2. /\ InVerification \in Nat /\ InVerification' \in Nat
      /\ InVerification' + (IF pc[h] = "verify" THEN Cardinality(fetched[h]) ELSE 0) =
           InVerification + 0
  BY <1>1, VerificationMoves
<1>3. Cardinality(fetched[h]) \in Nat
  BY <1>1, BundlesFinite
<1> QED
  BY <1>2, <1>3

\* A return observes the request and touches no count of bundles.
LEMMA ObservesOnly ==
  ASSUME NEW m \in Metrics, NEW systemErr
  PROVE  LET r == Observe(m, systemErr)
         IN  r["retrieved"] = m["retrieved"] /\ r["verOk"] = m["verOk"]
             /\ r["verFail"] = m["verFail"]
BY DEF Observe, Metrics, Counter

\* Steps that neither fetch nor verify leave every part of the account alone.
LEMMA ElsewhereAccounted ==
  ASSUME PInv, BundlesAccounted, NEW h \in Handlers, pc[h] # "verify",
         NEW to, to # "verify", pc' = [pc EXCEPT ![h] = to],
         UNCHANGED <<fetched, unjudged>>,
         metrics'["retrieved"] = metrics["retrieved"],
         metrics'["verOk"] = metrics["verOk"], metrics'["verFail"] = metrics["verFail"]
  PROVE  BundlesAccounted'
<1>1. InVerification' = InVerification
  BY VerificationStays DEF PInv
<1> QED
  BY <1>1 DEF BundlesAccounted

LEMMA FetchAccounted ==
  ASSUME PInv, BundlesAccounted, NEW h \in Handlers, FetchReturns(h)
  PROVE  BundlesAccounted'
<1>1. PICK res : \/ BundleInvalid(h, res) \/ FetchAborts(h, res) \/ FetchPanics(h, res)
                 \/ NoBundles(h, res) \/ FetchedBundles(h, res)
  BY DEF FetchReturns
<1>2. Fetched(h, res)
  BY <1>1 DEF BundleInvalid, FetchAborts, FetchPanics, NoBundles, FetchedBundles
<1>3. /\ Key(h) \in Keys /\ pc[h] = "image" /\ res \in FetchResults(Key(h))
      /\ Attached(Key(h)) \subseteq Referrers
  BY <1>2, FetchResultIsOfKey
<1>4. metrics \in Metrics /\ pc \in [Handlers -> {"idle", "received", "image", "verify",
                                                "reply", "sent", "panicked"}]
      /\ unjudged \in Nat
  BY DEF PInv, TypeOK
<1>5. [pc EXCEPT ![h] = "image"] = pc
  BY <1>3, <1>4
<1>6. CASE BundleInvalid(h, res) \/ NoBundles(h, res)
  <2>1. /\ metrics'["retrieved"] = metrics["retrieved"]
        /\ metrics'["verOk"] = metrics["verOk"] /\ metrics'["verFail"] = metrics["verFail"]
    BY <1>4, <1>6 DEF BundleInvalid, NoBundles, Metrics, Counter
  <2> QED
    BY <1>3, <1>5, <1>6, <2>1, ElsewhereAccounted DEF BundleInvalid, NoBundles, history
<1>7. CASE FetchAborts(h, res)
  <2> DEFINE m == [metrics EXCEPT !["retrieveFail"] = @ + 1]
  <2>1. /\ m \in Metrics /\ m["retrieved"] = metrics["retrieved"]
        /\ m["verOk"] = metrics["verOk"] /\ m["verFail"] = metrics["verFail"]
    BY <1>4 DEF Metrics, Counter
  <2>2. /\ metrics' = Observe(m, TRUE) /\ pc' = [pc EXCEPT ![h] = "reply"]
        /\ UNCHANGED <<fetched, unjudged>>
    BY <1>7 DEF FetchAborts, Return, history
  <2> HIDE DEF m
  <2> QED
    BY <1>3, <2>1, <2>2, ObservesOnly, ElsewhereAccounted
<1>8. CASE FetchPanics(h, res)
  BY <1>3, <1>4, <1>8, ObservesOnly, ElsewhereAccounted DEF FetchPanics, history
<1>9. CASE FetchedBundles(h, res)
  <2>1. res.bundles \in SUBSET Referrers
    BY <1>3, <1>9, ResultsOfImage DEF FetchedBundles
  <2>2. InVerification' = InVerification + Cardinality(res.bundles) /\ InVerification \in Nat
    BY <1>3, <1>9, <2>1, VerificationStarts DEF FetchedBundles, PInv
  <2>3. Cardinality(res.bundles) \in Nat 
    BY <2>1, BundlesFinite
  <2>4. /\ metrics'["retrieved"] = metrics["retrieved"] + Cardinality(res.bundles)
        /\ metrics'["verOk"] = metrics["verOk"] /\ metrics'["verFail"] = metrics["verFail"]
        /\ unjudged' = unjudged
    BY <1>4, <1>9 DEF FetchedBundles, Metrics, Counter, history
  <2>5. metrics["retrieved"] \in Nat /\ metrics["verOk"] \in Nat /\ metrics["verFail"] \in Nat
    BY <1>4 DEF Metrics, Counter
  <2> QED
    BY <1>4, <2>2, <2>3, <2>4, <2>5 DEF BundlesAccounted
<1> QED
  BY <1>1, <1>6, <1>7, <1>8, <1>9

LEMMA VerifyAccounted ==
  ASSUME PInv, BundlesAccounted, NEW h \in Handlers, VerifyErrors(h) \/ VerifyDone(h)
  PROVE  BundlesAccounted'
<1>1. /\ metrics \in Metrics /\ unjudged \in Nat /\ TypeOK
      /\ fetched[h] \in SUBSET Referrers /\ pc[h] = "verify"
  BY DEF PInv, TypeOK, VerifyErrors, VerifyDone
<1>2. IsFiniteSet(fetched[h]) /\ Cardinality(fetched[h]) \in Nat
  BY <1>1, BundlesFinite
<1>3. metrics["retrieved"] \in Nat /\ metrics["verOk"] \in Nat /\ metrics["verFail"] \in Nat
  BY <1>1 DEF Metrics, Counter
<1>4. /\ InVerification \in Nat /\ InVerification' \in Nat
      /\ InVerification = InVerification' + Cardinality(fetched[h])
  <2>1. CASE VerifyErrors(h)
    BY <1>1, <2>1, VerificationStays DEF VerifyErrors, Return
  <2>2. CASE VerifyDone(h)
    BY <1>1, <2>2, VerificationStays DEF VerifyDone
  <2> QED
    BY <2>1, <2>2
<1>6. CASE VerifyErrors(h)
  <2>1. /\ metrics'["retrieved"] = metrics["retrieved"]
        /\ metrics'["verOk"] = metrics["verOk"] /\ metrics'["verFail"] = metrics["verFail"]
    BY <1>1, <1>6, ObservesOnly DEF VerifyErrors, Return
  <2>2. unjudged' = unjudged + Cardinality(fetched[h])
    BY <1>6 DEF VerifyErrors
  <2> QED
    BY <1>1, <1>2, <1>3, <1>4, <2>1, <2>2 DEF BundlesAccounted
<1>7. CASE VerifyDone(h)
  <2> DEFINE res == Verify(fetched[h], Resolves[Key(h)])
  <2>1. res \subseteq fetched[h]
    BY DEF Verify
  <2>2. /\ Cardinality(res) \in Nat /\ Cardinality(fetched[h]) \in Nat
        /\ Cardinality(res) <= Cardinality(fetched[h])
    BY <1>2, <2>1, FS_Subset, FS_CardinalityType
  <2>3. metrics' = [metrics EXCEPT
             !["verOk"]   = @ + Cardinality(res),
             !["verFail"] = @ + FailedCount(fetched[h], res)]
        /\ unjudged' = unjudged
    BY <1>7 DEF VerifyDone, history
  <2> HIDE DEF res
  <2>4. FailedCount(fetched[h], res) = Cardinality(fetched[h]) - Cardinality(res)
    BY <2>2 DEF FailedCount
  <2>5. /\ metrics'["retrieved"] = metrics["retrieved"]
        /\ metrics'["verOk"] = metrics["verOk"] + Cardinality(res)
        /\ metrics'["verFail"] = metrics["verFail"] + (Cardinality(fetched[h]) - Cardinality(res))
    BY <1>1, <2>3, <2>4 DEF Metrics, Counter
  <2> QED
    BY <1>1, <1>2, <1>3, <1>4, <2>2, <2>3, <2>5 DEF BundlesAccounted
<1> QED
  BY <1>6, <1>7

LEMMA AccountedStep ==
  ASSUME PInv, BundlesAccounted, [Next]_provars
  PROVE  BundlesAccounted'
<1>1. metrics \in Metrics
  BY DEF PInv, TypeOK
<1>2. CASE UNCHANGED provars
  BY <1>2 DEF provars, BundlesAccounted, InVerification
<1>3. ASSUME NEW h \in Handlers, NEW ks, Receive(h, ks) PROVE BundlesAccounted'
  BY <1>3, ElsewhereAccounted DEF Receive, Arrives, history
<1>4. ASSUME NEW h \in Handlers, BadRequest(h) \/ SendResponse(h) \/ KeyChainReady(h)
      PROVE  BundlesAccounted'
  BY <1>4, ElsewhereAccounted DEF BadRequest, SendResponse, KeyChainReady, Arrives, history
<1>5. ASSUME NEW h \in Handlers, KeyChainFails(h) \/ Complete(h) PROVE BundlesAccounted'
  <2>1. /\ pc[h] # "verify" /\ pc' = [pc EXCEPT ![h] = "reply"]
        /\ UNCHANGED <<fetched, unjudged>>
        /\ metrics' = Observe(metrics, TRUE) \/ metrics' = Observe(metrics, FALSE)
    BY <1>5 DEF KeyChainFails, Complete, Return, history
  <2> QED
    BY <1>1, <2>1, ObservesOnly, ElsewhereAccounted
<1>6. ASSUME NEW h \in Handlers, InvalidReference(h) PROVE BundlesAccounted'
  <2>1. pc' = [pc EXCEPT ![h] = "image"] /\ pc[h] = "image"
    BY <1>6 DEF InvalidReference, InWork, PInv, TypeOK
  <2> QED
    BY <1>6, <2>1, ElsewhereAccounted DEF InvalidReference, history
<1> QED
  BY <1>2, <1>3, <1>4, <1>5, <1>6, FetchAccounted, VerifyAccounted DEF Next, Validate, Rest

(***************************************************************************)
(* Every bundle retrieved is counted exactly once as verified or failed,   *)
(* is in some handler's hands, or was lost to an error of the verifier,    *)
(* for any number of handlers at work on the shared counters               *)
(* (provider.go:228 and :266-274).                                         *)
(***************************************************************************)
THEOREM EveryBundleAccounted == Spec => []BundlesAccounted
<1>1. Init => PInv /\ BundlesAccounted
  <2> SUFFICES ASSUME Init PROVE PInv /\ BundlesAccounted
    OBVIOUS
  <2>1. Tagged(Handlers, Held) = {}
    BY DEF Init, Held, Tagged
  <2>2. InVerification = 0
    BY <2>1, FS_EmptySet DEF InVerification, Held, Total
  <2> QED
    BY <2>2, PInvInit DEF Init, BundlesAccounted, Counter
<1>2. PInv /\ BundlesAccounted /\ [Next]_provars => (PInv /\ BundlesAccounted)'
  BY PInvStep, AccountedStep
<1> QED
  BY <1>1, <1>2, PTL DEF Spec
-----------------------------------------------------------------------------
(***************************************************************************)
(* The request timer.  Only a panic is observed as a success that is none, *)
(* and only a referrer without layers makes the fetcher panic.             *)
(***************************************************************************)
AllHaveLayers == \A r \in Referrers : Content[r] # "nolayers"

\* What an observation does to the successes.
LEMMA ObservesSuccess ==
  ASSUME NEW m \in Metrics
  PROVE  /\ Observe(m, TRUE)["reqSuccess"] = m["reqSuccess"]
         /\ Observe(m, FALSE)["reqSuccess"] = m["reqSuccess"] + 1
BY DEF Observe, Metrics, Counter

LEMMA NothingPanics ==
  ASSUME AllHaveLayers, NEW k, NEW res \in FetchResults(k)
  PROVE  res.outcome # "panic"
<1>1. ~Holds(k, "nolayers")
  BY DEF AllHaveLayers, Holds, Attached
<1> QED
  BY <1>1, FetchFailuresAssumption DEF FetchResults, Success, Failure

LEMMA TimerStep ==
  ASSUME AllHaveLayers, PInv, SuccessMeansComplete, [Next]_provars
  PROVE  SuccessMeansComplete'
<1> USE DEF SuccessMeansComplete
<1>1. metrics \in Metrics /\ completed \in Nat
  BY DEF PInv, TypeOK
<1>2. ASSUME UNCHANGED <<metrics, completed>> PROVE SuccessMeansComplete'
  BY <1>2
<1>3. CASE UNCHANGED provars
  BY <1>2, <1>3 DEF provars
<1>4. ASSUME NEW h \in Handlers,
             \/ \E ks \in Requests : Receive(h, ks)
             \/ BadRequest(h) \/ SendResponse(h) \/ KeyChainReady(h) \/ InvalidReference(h)
      PROVE  SuccessMeansComplete'
  BY <1>2, <1>4 DEF Receive, BadRequest, SendResponse, KeyChainReady, InvalidReference, history
<1>5. ASSUME NEW h \in Handlers, KeyChainFails(h) \/ VerifyErrors(h)
      PROVE  SuccessMeansComplete'
  BY <1>1, <1>5, ObservesSuccess DEF KeyChainFails, VerifyErrors, Return, history
<1>6. ASSUME NEW h \in Handlers, Complete(h) PROVE SuccessMeansComplete'
  BY <1>1, <1>6, ObservesSuccess DEF Complete, Return
<1>7. ASSUME NEW h \in Handlers, VerifyDone(h) PROVE SuccessMeansComplete'
  BY <1>1, <1>7 DEF VerifyDone, Metrics, Counter, history
<1>8. ASSUME NEW h \in Handlers, FetchReturns(h) PROVE SuccessMeansComplete'
  <2>1. PICK res : \/ BundleInvalid(h, res) \/ FetchAborts(h, res) \/ FetchPanics(h, res)
                   \/ NoBundles(h, res) \/ FetchedBundles(h, res)
    BY <1>8 DEF FetchReturns
  <2>2. CASE BundleInvalid(h, res) \/ NoBundles(h, res) \/ FetchedBundles(h, res)
    BY <1>1, <2>2 DEF BundleInvalid, NoBundles, FetchedBundles, Metrics, Counter, history
  <2>3. CASE FetchAborts(h, res)
    <3> DEFINE m == [metrics EXCEPT !["retrieveFail"] = @ + 1]
    <3>1. m \in Metrics /\ m["reqSuccess"] = metrics["reqSuccess"]
      BY <1>1 DEF Metrics, Counter
    <3>2. metrics' = Observe(m, TRUE) /\ completed' = completed
      BY <2>3 DEF FetchAborts, Return, history
    <3> HIDE DEF m
    <3> QED
      BY <3>1, <3>2, ObservesSuccess
  <2>4. CASE FetchPanics(h, res)
    BY <2>4, NothingPanics DEF FetchPanics, Fetched
  <2> QED
    BY <2>1, <2>2, <2>3, <2>4
<1> QED
  BY <1>3, <1>4, <1>5, <1>6, <1>7, <1>8 DEF Next, Validate, Rest

(***************************************************************************)
(* The help text of the request timer (metrics/prom.go:67) is right        *)
(* wherever no referrer lacks layers: then "success" is observed for       *)
(* exactly the requests answered with a verdict for every key, whatever    *)
(* fails and however the handlers interleave (provider.go:93-102).         *)
(***************************************************************************)
THEOREM TimerRightUnlessPanic ==
  ASSUME AllHaveLayers
  PROVE  Spec => []SuccessMeansComplete
<1>1. Init => PInv /\ SuccessMeansComplete
  BY PInvInit DEF Init, SuccessMeansComplete, Counter
<1>2. PInv /\ SuccessMeansComplete /\ [Next]_provars => (PInv /\ SuccessMeansComplete)'
  BY PInvStep, TimerStep
<1> QED
  BY <1>1, <1>2, PTL DEF Spec
=============================================================================
