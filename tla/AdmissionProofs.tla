-------------------------- MODULE AdmissionProofs --------------------------
(***************************************************************************)
(* Proofs that Gatekeeper's cache stays sound, that only what is missing   *)
(* is fetched again, and that the composition implements Provider, for any *)
(* pods, images, trust roots and failures and any number of handlers,      *)
(* requests, faults, losses and crashes.  The handlers' part is the        *)
(* invariant of ProviderProofs.                                            *)
(***************************************************************************)
EXTENDS Admission, ProviderProofs

AInv ==
  /\ PInv
  /\ cache \in [Keys -> SUBSET Item]
  /\ serving \in [Handlers -> Pods \cup {NoPod}]
  /\ CacheSound

\* What a response adds to the cache are verdicts: its items are those of the
\* keys at their places, and an item bears the key it is about.
LEMMA VerdictBearsKey ==
  ASSUME NEW k \in Keys
  PROVE  Verdict(k).key = k
<1>1. \A e, v : ErrorItem(k, e).key = k /\ ValueItem(k, v).key = k
  BY DEF ErrorItem, ValueItem
<1>2. CASE Resolves[k] = NoDigest
  BY <1>1, <1>2, VerdictOfUnparsable
<1>3. CASE Resolves[k] # NoDigest /\ Holds(k, "malformed")
  BY <1>1, <1>3, VerdictOfUndecodable
<1>4. CASE Resolves[k] # NoDigest /\ Attached(k) = {}
  BY <1>1, <1>4, VerdictOfUnsigned
<1>5. CASE Resolves[k] # NoDigest /\ ~Holds(k, "malformed") /\ Attached(k) # {}
  BY <1>1, <1>5 DEF Verdict
<1> QED
  BY <1>2, <1>3, <1>4, <1>5

LEMMA DeliveredItems ==
  ASSUME PInv, NEW h \in Handlers, pc[h] = "reply",
         NEW j \in 1..Len(resp[h].items)
  PROVE  /\ resp[h].items[j] \in Item
         /\ resp[h].items[j] = Verdict(resp[h].items[j].key)
<1>1. /\ resp[h].items \in Seq(Item) /\ keys[h] \in Seq(Keys)
      /\ Answered(h)
  BY DEF PInv, TypeOK, Response, Progress
<1>2. /\ keys[h][j] \in Keys
      /\ resp[h].items[j] = Verdict(keys[h][j])
  BY <1>1 DEF Answered
<1> QED
  BY <1>1, <1>2, VerdictBearsKey

LEMMA DeliverKeeps ==
  ASSUME AInv, NEW h \in Handlers, Deliver(h)
  PROVE  AInv'
<1>1. PInv'
  BY HandlerKeeps DEF AInv, Deliver
<1>2. serving' \in [Handlers -> Pods \cup {NoPod}]
  BY DEF AInv, Deliver
<1>3. cache' \in [Keys -> SUBSET Item] /\ CacheSound'
  <2>1. CASE serving[h] = NoPod
    BY <2>1 DEF AInv, Deliver, CacheSound
  <2>2. CASE serving[h] # NoPod
    <3> DEFINE new(k) == {j \in 1..Len(resp[h].items) : resp[h].items[j].key = k}
    <3>1. cache' = [k \in Keys |-> IF new(k) = {} THEN cache[k]
                                   ELSE {resp[h].items[j] : j \in new(k)}]
      BY <2>2 DEF Deliver
    <3>2. ASSUME NEW k \in Keys
          PROVE  {resp[h].items[j] : j \in new(k)} \subseteq {Verdict(k)} \cap Item
      BY <3>2, DeliveredItems DEF AInv, Deliver, SendResponse
    <3> HIDE DEF new
    <3> QED
      BY <3>1, <3>2 DEF AInv, CacheSound
  <2> QED
    BY <2>1, <2>2
<1> QED
  BY <1>1, <1>2, <1>3 DEF AInv

\* The list Gatekeeper asks for is one of the requests.
LEMMA AskedKeys ==
  ASSUME NEW p \in Pods
  PROVE  Missing(p) \in Seq(Keys)
BY PodsAssumption, RequestsAssumption DEF Missing

LEMMA AInvInit == AdmInit => AInv
<1> SUFFICES ASSUME AdmInit PROVE AInv
  OBVIOUS
<1> QED
  BY PInvInit DEF AInv, AdmInit, CacheSound

LEMMA AInvStep == AInv /\ [AdmNext]_vars => AInv'
<1> SUFFICES ASSUME AInv, [AdmNext]_vars PROVE AInv'
  OBVIOUS
<1>1. ASSUME UNCHANGED provars PROVE PInv'
  BY <1>1, PInvStep DEF AInv
<1>2. CASE UNCHANGED vars
  BY <1>1, <1>2 DEF vars, client, AInv, CacheSound
<1>3. ASSUME NEW p \in Pods, NEW h \in Handlers, Ask(p, h) PROVE AInv'
  <2>1. PInv'
    BY <1>3, AskedKeys, HandlerKeeps DEF AInv, Ask
  <2> QED
    BY <1>3, <2>1 DEF AInv, Ask, CacheSound
<1>4. ASSUME NEW p \in Pods, DecideFromCache(p) PROVE AInv'
  BY <1>1, <1>4 DEF DecideFromCache, AInv, CacheSound
<1>5. ASSUME NEW h \in Handlers, Dropped(h) \/ GiveUp(h) PROVE AInv'
  BY <1>1, <1>5 DEF Dropped, GiveUp, AInv, CacheSound
<1>6. ASSUME NEW k \in Keys, Expire(k) PROVE AInv'
  BY <1>1, <1>6 DEF Expire, AInv, CacheSound
<1>7. ASSUME NEW h \in Handlers,
             Local(h) \/ ConclusiveFetch(h) \/ Fails(h) \/ Crashed(h)
      PROVE  AInv'
  <2>1. Validate(h)
    BY <1>7 DEF Local, ConclusiveFetch, Fails, Crashed, Validate, FetchReturns, Results
  <2>2. UNCHANGED client
    BY <1>7 DEF Local, ConclusiveFetch, Fails, Crashed
  <2>3. PInv'
    BY <2>1, HandlerKeeps DEF AInv
  <2> QED
    BY <2>2, <2>3 DEF client, AInv, CacheSound
<1>8. CASE Settled
  BY <1>2, <1>8 DEF Settled
<1> QED
  BY <1>2, <1>3, <1>4, <1>5, <1>6, <1>7, <1>8, DeliverKeeps DEF AdmNext, Handle

(***************************************************************************)
(* Gatekeeper's cache holds verdicts of the images and nothing else,       *)
(* whichever requests fail, are answered late or are not answered at all   *)
(* (provider.go:201-226).                                                  *)
(***************************************************************************)
THEOREM CacheStaysSound == AdmSpec => []CacheSound
<1>1. AInv => CacheSound
  BY DEF AInv
<1> QED
  BY <1>1, AInvInit, AInvStep, PTL DEF AdmSpec

\* Gatekeeper's and the bookkeeping's own types.
ClientType ==
  /\ decided \in SUBSET Pods /\ asked \in [Pods -> 0..MaxAsks]
  /\ faults \in 0..MaxFaults /\ losses \in 0..MaxLosses
  /\ fetches \in [Keys -> Nat] /\ crashes \in Nat

LEMMA ClientTypeStep ==
  ASSUME AInv, ClientType, [AdmNext]_vars
  PROVE  ClientType'
<1> USE PodsAssumption DEF ClientType
<1>1. CASE UNCHANGED vars
  BY <1>1 DEF vars, client
<1>2. ASSUME NEW p \in Pods, NEW h \in Handlers, Ask(p, h) PROVE ClientType'
  BY <1>2 DEF Ask
<1>3. ASSUME NEW p \in Pods, DecideFromCache(p) PROVE ClientType'
  BY <1>3 DEF DecideFromCache
<1>4. ASSUME NEW h \in Handlers, Deliver(h) PROVE ClientType'
  <2>1. serving[h] # NoPod => serving[h] \in Pods
    BY DEF AInv
  <2>2. decided' \in SUBSET Pods
    BY <1>4, <2>1 DEF Deliver
  <2> QED
    BY <1>4, <2>2 DEF Deliver
<1>5. ASSUME NEW h \in Handlers, Dropped(h) \/ GiveUp(h) PROVE ClientType'
  BY <1>5 DEF Dropped, GiveUp
<1>6. ASSUME NEW k \in Keys, Expire(k) PROVE ClientType'
  BY <1>6 DEF Expire
<1>7. ASSUME NEW h \in Handlers, Local(h) \/ Fails(h) \/ Crashed(h) PROVE ClientType'
  BY <1>7 DEF Local, Fails, Crashed, Fault, client
<1>8. ASSUME NEW h \in Handlers, ConclusiveFetch(h) PROVE ClientType'
  <2>1. fetches' = [fetches EXCEPT ![Key(h)] = fetches[Key(h)] + 1] /\ UNCHANGED <<client, faults, crashes>>
    BY <1>8 DEF ConclusiveFetch
  <2>2. fetches' \in [Keys -> Nat]
    <3> DEFINE k == Key(h)
    <3> HIDE DEF k
    <3>1. fetches' = [fetches EXCEPT ![k] = fetches[k] + 1]
      BY <2>1 DEF k
    <3>2. CASE k \in Keys
      BY <3>1, <3>2
    <3>3. CASE k \notin Keys
      BY <3>1, <3>3
    <3> QED
      BY <3>2, <3>3
  <2> QED
    BY <2>1, <2>2 DEF client
<1> QED
  BY <1>1, <1>2, <1>3, <1>4, <1>5, <1>6, <1>7, <1>8 DEF AdmNext, Handle, Settled

(***************************************************************************)
(* Types of the provider's and Gatekeeper's state together: what is cached *)
(* are items and whoever is decided on is a pod (provider.go:201-226).     *)
(***************************************************************************)
THEOREM AdmTypeCorrect == AdmSpec => []AdmTypeOK
<1>1. AdmInit => AInv /\ ClientType
  BY AInvInit, PodsAssumption DEF AdmInit, ClientType
<1>2. AInv /\ ClientType /\ [AdmNext]_vars => (AInv /\ ClientType)'
  BY AInvStep, ClientTypeStep
<1>3. AInv /\ ClientType => AdmTypeOK
  BY DEF AInv, PInv, ClientType, AdmTypeOK
<1> QED
  BY <1>1, <1>2, <1>3, PTL DEF AdmSpec

-----------------------------------------------------------------------------
(***************************************************************************)
(* Only what is missing is fetched again.  The argument is a budget: each  *)
(* place of a key in a pod is worth one fetch, which the pod holds until   *)
(* it asks, the handler that is asked until it fetches, and the pod again  *)
(* if the response comes back without the key.  A key in the cache and a   *)
(* pod decided on need none.  A loss or a crash renews every place.        *)
(***************************************************************************)
Working == {"received", "image", "verify"}

First(h) == IF pc[h] = "verify" THEN next[h] + 1 ELSE next[h]

\* The fetches of k still to be made by each handler.
ToFetch(k) ==
  [h \in Handlers |-> IF pc[h] \in Working
                      THEN {j \in PlacesOf(k, keys[h]) : j >= First(h)} ELSE {}]

\* The response of h has k, or may yet have it.
Covers(h, k) ==
  \/ pc[h] \in Working /\ PlacesOf(k, keys[h]) # {}
  \/ pc[h] = "reply" /\ \E j \in DOMAIN resp[h].items : resp[h].items[j].key = k

\* The places for which k is still to be asked for, by pod.
ToAsk(k) ==
  [p \in Pods |->
     IF p \in decided \/ Cached(k) \/ \E h \in Handlers : serving[h] = p /\ Covers(h, k)
     THEN {} ELSE PlacesOf(k, Images[p])]

Spent(k) == fetches[k] + Total(Handlers, ToFetch(k)) + Total(Pods, ToAsk(k))

\* A key that is asked for is asked for at all its places.
Alike(h) ==
  pc[h] \in Working /\ serving[h] # NoPod =>
    \A k \in Keys : \/ PlacesOf(k, keys[h]) = {}
                    \/ Cardinality(PlacesOf(k, keys[h])) =
                         Cardinality(PlacesOf(k, Images[serving[h]]))

InBudget(k) == Spent(k) <= (1 + losses + crashes) * Occurrences(k)

BInv ==
  /\ AInv /\ ClientType
  /\ \A h \in Handlers : Alike(h)
  /\ \A k \in Keys : InBudget(k)

-----------------------------------------------------------------------------
\* All these sums are finite.
LEMMA FetchesFinite ==
  ASSUME NEW k, NEW ks \in [Handlers -> Seq(Keys)], NEW F,
         \A h \in Handlers : F[h] \subseteq PlacesOf(k, ks[h])
  PROVE  FiniteParts(Handlers, F) /\ Total(Handlers, F) \in Nat
<1>1. \A h \in Handlers : IsFiniteSet(PlacesOf(k, ks[h]))
  BY PlacesFinite
<1>2. \A h \in Handlers : IsFiniteSet(F[h])
  BY <1>1, FS_Subset
<1>3. FiniteParts(Handlers, F)
  BY <1>2, RequestsAssumption DEF FiniteParts
<1> QED
  BY <1>3, TaggedFinite

LEMMA PlacesInPods ==
  ASSUME NEW k, NEW F, \A p \in Pods : F[p] \subseteq PlacesOf(k, Images[p])
  PROVE  /\ FiniteParts(Pods, F) /\ Total(Pods, F) \in Nat
         /\ Occurrences(k) \in Nat /\ Total(Pods, F) <= Occurrences(k)
<1> DEFINE G == [p \in Pods |-> PlacesOf(k, Images[p])]
<1>1. \A p \in Pods : IsFiniteSet(PlacesOf(k, Images[p]))
  BY PodsAssumption, PlacesFinite
<1>2. FiniteParts(Pods, G)
  BY <1>1, PodsAssumption DEF FiniteParts
<1>3. \A p \in Pods : F[p] \subseteq G[p]
  OBVIOUS
<1>4. Occurrences(k) = Total(Pods, G)
  BY DEF Occurrences
<1> HIDE DEF G
<1> QED
  BY <1>2, <1>3, <1>4, TotalWithin, TaggedFinite

LEMMA SumsFinite ==
  ASSUME NEW k \in Keys, AInv, ClientType
  PROVE  /\ FiniteParts(Handlers, ToFetch(k)) /\ Total(Handlers, ToFetch(k)) \in Nat
         /\ FiniteParts(Pods, ToAsk(k)) /\ Total(Pods, ToAsk(k)) \in Nat
         /\ Total(Pods, ToAsk(k)) <= Occurrences(k) /\ Occurrences(k) \in Nat
         /\ fetches[k] \in Nat
<1>1. keys \in [Handlers -> Seq(Keys)]
  BY DEF AInv, PInv, TypeOK
<1>2. \A h \in Handlers : ToFetch(k)[h] \subseteq PlacesOf(k, keys[h])
  BY DEF ToFetch
<1>3. \A p \in Pods : ToAsk(k)[p] \subseteq PlacesOf(k, Images[p])
  BY DEF ToAsk
<1> QED
  BY <1>1, <1>2, <1>3, FetchesFinite, PlacesInPods DEF ClientType

LEMMA SumsFiniteNext ==
  ASSUME NEW k \in Keys, AInv', ClientType'
  PROVE  /\ FiniteParts(Handlers, ToFetch(k)') /\ Total(Handlers, ToFetch(k)') \in Nat
         /\ FiniteParts(Pods, ToAsk(k)') /\ Total(Pods, ToAsk(k)') \in Nat
         /\ Total(Pods, ToAsk(k)') <= Occurrences(k) /\ fetches'[k] \in Nat
<1>1. keys' \in [Handlers -> Seq(Keys)]
  BY DEF AInv, PInv, TypeOK
<1>2. \A h \in Handlers : ToFetch(k)'[h] \subseteq PlacesOf(k, keys'[h])
  BY DEF ToFetch
<1>3. \A p \in Pods : ToAsk(k)'[p] \subseteq PlacesOf(k, Images[p])
  BY DEF ToAsk
<1> QED
  BY <1>1, <1>2, <1>3, FetchesFinite, PlacesInPods DEF ClientType

\* Spent(k) after a step, in terms of the step's sums.
LEMMA SpentNext ==
  ASSUME NEW k
  PROVE  Spent(k)' = fetches'[k] + Total(Handlers, ToFetch(k)') + Total(Pods, ToAsk(k)')
BY DEF Spent, Total, Tagged

\* A step that makes no fetch of k and hands none out.
LEMMA NothingSpent ==
  ASSUME NEW k \in Keys, AInv, ClientType, AInv', ClientType', fetches'[k] = fetches[k],
         \A h \in Handlers : ToFetch(k)'[h] \subseteq ToFetch(k)[h],
         \A p \in Pods : ToAsk(k)'[p] \subseteq ToAsk(k)[p]
  PROVE  Spent(k)' <= Spent(k)
<1>1. Total(Handlers, ToFetch(k)') <= Total(Handlers, ToFetch(k))
  BY SumsFinite, TotalWithin
<1>2. Total(Pods, ToAsk(k)') <= Total(Pods, ToAsk(k))
  BY SumsFinite, TotalWithin
<1> QED
  BY <1>1, <1>2, SumsFinite, SumsFiniteNext, SpentNext DEF Spent

\* What a step of another handler leaves alone.
LEMMA OtherHandlersKeep ==
  ASSUME NEW k, NEW g \in Handlers, UNCHANGED <<pc[g], keys[g], next[g], resp[g]>>
  PROVE  /\ ToFetch(k)'[g] = ToFetch(k)[g]
         /\ Covers(g, k)' <=> Covers(g, k)
BY DEF ToFetch, First, Covers

\* A step of h alone, Gatekeeper looking on, that keeps what its response has.
LEMMA HandlerSpendsNothing ==
  ASSUME NEW k \in Keys, AInv, ClientType, AInv', ClientType', fetches'[k] = fetches[k],
         NEW h \in Handlers, UNCHANGED client,
         \A g \in Handlers : g # h => UNCHANGED <<pc[g], keys[g], next[g], resp[g]>>,
         Covers(h, k) => Covers(h, k)',
         ToFetch(k)'[h] \subseteq ToFetch(k)[h]
  PROVE  Spent(k)' <= Spent(k)
<1>1. \A g \in Handlers : ToFetch(k)'[g] \subseteq ToFetch(k)[g]
  BY OtherHandlersKeep
<1>2. \A g \in Handlers : Covers(g, k) => Covers(g, k)'
  BY OtherHandlersKeep
<1>3. \A p \in Pods : ToAsk(k)'[p] \subseteq ToAsk(k)[p]
  BY <1>2 DEF ToAsk, client, Cached
<1> QED
  BY <1>1, <1>3, NothingSpent

\* The handler's part of the state, at the places the sums read.
LEMMA HandlerTypes ==
  ASSUME AInv, NEW h \in Handlers
  PROVE  /\ keys[h] \in Seq(Keys) /\ next[h] \in Nat \ {0} /\ items[h] \in Seq(Item)
         /\ pc \in [Handlers -> {"idle", "received", "image", "verify", "reply", "sent", "panicked"}]
         /\ resp \in [Handlers -> Response] /\ next \in [Handlers -> Nat \ {0}]
         /\ items \in [Handlers -> Seq(Item)] /\ keys \in [Handlers -> Seq(Keys)]
         /\ Progress(h)
BY DEF AInv, PInv, TypeOK

\* The keys of the items a handler has collected are those it has passed.
LEMMA PassedKeys ==
  ASSUME AInv, NEW h \in Handlers, pc[h] \in {"image", "verify"}, NEW k \in Keys
  PROVE  (\E j \in DOMAIN items[h] : items[h][j].key = k) <=>
           \E j \in PlacesOf(k, keys[h]) : j < next[h]
<1>1. /\ keys[h] \in Seq(Keys) /\ items[h] \in Seq(Item)
      /\ next[h] = Len(items[h]) + 1 /\ Len(items[h]) <= Len(keys[h])
      /\ \A j \in 1..Len(items[h]) : items[h][j] = Verdict(keys[h][j])
  BY HandlerTypes DEF Progress, Passed
<1>2. \A j \in 1..Len(items[h]) : items[h][j].key = keys[h][j] /\ j \in DOMAIN keys[h]
  BY <1>1, VerdictBearsKey
<1> QED
  BY <1>1, <1>2 DEF PlacesOf

\* The handler goes on to the next place, or on to the images.
LEMMA HandlerGoesOn ==
  ASSUME NEW k \in Keys, AInv, ClientType, AInv', ClientType', fetches'[k] = fetches[k],
         NEW h \in Handlers, UNCHANGED <<client, keys, resp>>,
         pc[h] \in Working, NEW to \in Working, pc' = [pc EXCEPT ![h] = to],
         \A g \in Handlers : g # h => next'[g] = next[g],
         First(h)' >= First(h)
  PROVE  Spent(k)' <= Spent(k)
<1>1. pc'[h] = to /\ \A g \in Handlers : g # h => pc'[g] = pc[g]
  BY HandlerTypes
<1>2. Covers(h, k)'
      \/ ~Covers(h, k)
  BY <1>1 DEF Covers, Working
<1>3. First(h) \in Nat /\ First(h)' \in Nat
  <2>1. next[h] \in Nat /\ next'[h] \in Nat
    BY DEF AInv, PInv, TypeOK
  <2> QED
    BY <2>1 DEF First
<1>4. keys[h] \in Seq(Keys)
  BY HandlerTypes
<1>5. \A j \in PlacesOf(k, keys[h]) : j \in Nat
  BY <1>4 DEF PlacesOf
<1>6. ToFetch(k)[h] = {j \in PlacesOf(k, keys[h]) : j >= First(h)}
  BY DEF ToFetch
<1>7. ToFetch(k)'[h] = {j \in PlacesOf(k, keys[h]) : j >= First(h)'}
  BY <1>1 DEF ToFetch
<1>8. ToFetch(k)'[h] \subseteq ToFetch(k)[h]
  <2>1. \A j \in PlacesOf(k, keys[h]) : j >= First(h)' => j >= First(h)
    BY <1>3, <1>5
  <2> QED
    BY <1>6, <1>7, <2>1
<1> QED
  BY <1>1, <1>2, <1>8, HandlerSpendsNothing

\* A fetch of k to a result spends one of the handler's.
LEMMA FetchSpends ==
  ASSUME NEW k \in Keys, AInv, ClientType, AInv', ClientType', fetches'[k] = fetches[k] + 1,
         NEW h \in Handlers, UNCHANGED <<client, keys, resp>>,
         pc[h] = "image", next[h] \in PlacesOf(k, keys[h]),
         NEW to \in Working, pc' = [pc EXCEPT ![h] = to],
         \A g \in Handlers : g # h => next'[g] = next[g],
         First(h)' = next[h] + 1
  PROVE  Spent(k)' <= Spent(k)
<1>1. pc'[h] = to /\ \A g \in Handlers : g # h => pc'[g] = pc[g]
  BY HandlerTypes
<1>2. keys[h] \in Seq(Keys) /\ next[h] \in Nat
  BY HandlerTypes
<1>3. \A j \in PlacesOf(k, keys[h]) : j \in Nat
  BY <1>2 DEF PlacesOf
<1>4. ToFetch(k)[h] = {j \in PlacesOf(k, keys[h]) : j >= next[h]}
  BY DEF ToFetch, First, Working
<1>5. ToFetch(k)'[h] = {j \in PlacesOf(k, keys[h]) : j >= next[h] + 1}
  BY <1>1 DEF ToFetch
<1>6. next[h] \in ToFetch(k)[h] /\ ToFetch(k)'[h] = ToFetch(k)[h] \ {next[h]}
  BY <1>2, <1>3, <1>4, <1>5
<1>7. \A g \in Handlers : g # h => ToFetch(k)'[g] = ToFetch(k)[g]
  BY <1>1, OtherHandlersKeep
<1>8. \A g \in Handlers : Covers(g, k) <=> Covers(g, k)'
  BY <1>1 DEF Covers, Working
<1>9. \A p \in Pods : ToAsk(k)'[p] = ToAsk(k)[p]
  BY <1>8 DEF ToAsk, client, Cached
<1>10. IsFiniteSet(ToFetch(k)[h])
  BY SumsFinite DEF FiniteParts
<1>11. Cardinality(ToFetch(k)'[h]) = Cardinality(ToFetch(k)[h]) - 1
  BY <1>6, <1>10, FS_RemoveElement
<1>12. /\ Cardinality(ToFetch(k)[h]) \in Nat
       /\ Total(Handlers, ToFetch(k)') + Cardinality(ToFetch(k)[h]) =
            Total(Handlers, ToFetch(k)) + Cardinality(ToFetch(k)'[h])
  BY <1>7, SumsFinite, SumsFiniteNext, TotalChange
<1>13. Total(Pods, ToAsk(k)') <= Total(Pods, ToAsk(k))
  BY <1>9, SumsFinite, TotalWithin
<1> QED
  BY <1>11, <1>12, <1>13, SumsFinite, SumsFiniteNext, SpentNext DEF Spent

\* The response has the items so far: the places not reached go back to the pod.
LEMMA HandlerGivesBack ==
  ASSUME NEW k \in Keys, AInv, ClientType, AInv', ClientType', fetches'[k] = fetches[k],
         NEW h \in Handlers, Alike(h), UNCHANGED <<client, keys, next>>,
         pc[h] \in {"received", "image"}, pc' = [pc EXCEPT ![h] = "reply"],
         NEW response, resp' = [resp EXCEPT ![h] = response],
         (\E j \in PlacesOf(k, keys[h]) : j < next[h]) =>
           \E j \in DOMAIN response.items : response.items[j].key = k
  PROVE  Spent(k)' <= Spent(k)
<1>1. /\ pc'[h] = "reply" /\ resp'[h] = response
      /\ \A g \in Handlers : g # h => pc'[g] = pc[g] /\ resp'[g] = resp[g]
  BY HandlerTypes
<1>2. keys[h] \in Seq(Keys) /\ next[h] \in Nat
  BY HandlerTypes
<1>3. \A j \in PlacesOf(k, keys[h]) : j \in Nat
  BY <1>2 DEF PlacesOf
<1>4. ToFetch(k)'[h] = {}
  BY <1>1 DEF ToFetch, Working
<1>5. \A g \in Handlers : g # h =>
        ToFetch(k)'[g] = ToFetch(k)[g] /\ (Covers(g, k)' <=> Covers(g, k))
  BY <1>1, OtherHandlersKeep
<1>6. CASE \/ serving[h] = NoPod \/ PlacesOf(k, keys[h]) = {}
           \/ \E j \in PlacesOf(k, keys[h]) : j < next[h]
  <2>1. Covers(h, k) /\ serving[h] # NoPod => Covers(h, k)'
    BY <1>1, <1>6 DEF Covers, Working
  <2>2. \A g \in Handlers : ToFetch(k)'[g] \subseteq ToFetch(k)[g]
    BY <1>4, <1>5
  <2>3. \A g \in Handlers : serving[g] # NoPod /\ Covers(g, k) => Covers(g, k)'
    BY <1>5, <2>1
  <2>4. \A p \in Pods : p # NoPod
    BY PodsAssumption
  <2>5. \A p \in Pods : ToAsk(k)'[p] \subseteq ToAsk(k)[p]
    BY <2>3, <2>4 DEF ToAsk, client, Cached
  <2> QED
    BY <2>2, <2>5, NothingSpent
<1>7. CASE /\ serving[h] # NoPod /\ PlacesOf(k, keys[h]) # {}
           /\ ~\E j \in PlacesOf(k, keys[h]) : j < next[h]
  <2> DEFINE p == serving[h]
  <2>1. p \in Pods
    BY <1>7 DEF AInv
  <2>2. ToFetch(k)[h] = PlacesOf(k, keys[h])
    <3>1. \A j \in PlacesOf(k, keys[h]) : j >= next[h]
      BY <1>2, <1>3, <1>7
    <3>2. ToFetch(k)[h] = {j \in PlacesOf(k, keys[h]) : j >= next[h]}
      BY DEF ToFetch, First, Working
    <3> QED
      BY <3>1, <3>2
  <2>3. Cardinality(PlacesOf(k, keys[h])) = Cardinality(PlacesOf(k, Images[p]))
    BY <1>7 DEF Alike, Working
  <2>4. ToAsk(k)[p] = {}
    <3>1. serving[h] = p /\ Covers(h, k)
      BY <1>7 DEF Covers, Working
    <3> QED
      BY <2>1, <3>1 DEF ToAsk
  <2>5. ToAsk(k)'[p] \subseteq PlacesOf(k, Images[p])
    BY <2>1 DEF ToAsk
  <2>6. \A q \in Pods : q # p => ToAsk(k)'[q] = ToAsk(k)[q]
    <3>1. \A q \in Pods, g \in Handlers : q # p /\ serving[g] = q => g # h
      OBVIOUS
    <3>2. \A q \in Pods : q # p =>
            ((\E g \in Handlers : serving[g] = q /\ Covers(g, k)') <=>
               \E g \in Handlers : serving[g] = q /\ Covers(g, k))
      BY <1>5, <3>1
    <3>3. serving' = serving /\ decided' = decided /\ (Cached(k)' <=> Cached(k))
      BY DEF client, Cached
    <3> QED
      BY <3>2, <3>3 DEF ToAsk
  <2> HIDE DEF p
  <2>7. /\ IsFiniteSet(PlacesOf(k, Images[p])) /\ Cardinality(PlacesOf(k, Images[p])) \in Nat
    BY <2>1, PodsAssumption, PlacesFinite
  <2>8. Cardinality(ToAsk(k)'[p]) <= Cardinality(PlacesOf(k, Images[p]))
    BY <2>5, <2>7, FS_Subset
  <2>9. Cardinality({}) = 0
    BY FS_EmptySet
  <2>10. /\ Cardinality(ToAsk(k)'[p]) \in Nat
         /\ Total(Pods, ToAsk(k)') + Cardinality(ToAsk(k)[p]) =
              Total(Pods, ToAsk(k)) + Cardinality(ToAsk(k)'[p])
    BY <2>1, <2>6, SumsFinite, SumsFiniteNext, TotalChange
  <2>11. Total(Handlers, ToFetch(k)') + Cardinality(ToFetch(k)[h]) =
           Total(Handlers, ToFetch(k)) + Cardinality(ToFetch(k)'[h])
    BY <1>5, SumsFinite, SumsFiniteNext, TotalChange
  <2>12. /\ Total(Pods, ToAsk(k)') <= Total(Pods, ToAsk(k)) + Cardinality(PlacesOf(k, Images[p]))
         /\ Total(Handlers, ToFetch(k)') + Cardinality(PlacesOf(k, Images[p])) =
              Total(Handlers, ToFetch(k))
    BY <1>4, <2>2, <2>3, <2>4, <2>7, <2>8, <2>9, <2>10, <2>11, SumsFinite, SumsFiniteNext
  <2> QED
    BY <2>7, <2>12, SumsFinite, SumsFiniteNext, SpentNext DEF Spent
<1> QED
  BY <1>6, <1>7

\* The places of a key in what is asked for on behalf of a pod.
LEMMA AskedPlaces ==
  ASSUME NEW p \in Pods, NEW k \in Keys
  PROVE  /\ Cached(k) => PlacesOf(k, Missing(p)) = {}
         /\ ~Cached(k) => Cardinality(PlacesOf(k, Missing(p))) =
                            Cardinality(PlacesOf(k, Images[p]))
         /\ IsFiniteSet(PlacesOf(k, Missing(p)))
<1> DEFINE s == Images[p]
           K == {i \in DOMAIN s : s[i] \in {c \in Keys : ~Cached(c)}}
<1>1. s \in Seq(Keys)
  BY PodsAssumption
<1>2. Missing(p) = Picked(s, K)
  BY DEF Missing, Among
<1>3. K \in SUBSET DOMAIN s /\ \A i \in K : ~Cached(s[i])
  OBVIOUS
<1>4. ~Cached(k) => {i \in K : s[i] = k} = PlacesOf(k, s)
  BY DEF PlacesOf
<1> HIDE DEF s, K
<1>5. /\ IsFiniteSet(PlacesOf(k, Picked(s, K)))
      /\ Cardinality({i \in K : s[i] = k}) = Cardinality(PlacesOf(k, Picked(s, K)))
  BY <1>1, <1>3, PickedAlike
<1>6. Cached(k) => PlacesOf(k, Picked(s, K)) = {}
  <2>1. \A j \in DOMAIN Picked(s, K) : \E i \in K : Picked(s, K)[j] = s[i]
    BY <1>1, <1>3, PickedSeq
  <2> QED
    BY <1>3, <2>1 DEF PlacesOf
<1> QED
  BY <1>2, <1>4, <1>5, <1>6 DEF s

LEMMA AskMovesOver ==
  ASSUME NEW k \in Keys, AInv, ClientType, AInv', ClientType',
         NEW p \in Pods, NEW h \in Handlers, Ask(p, h)
  PROVE  Spent(k)' <= Spent(k)
<1> DEFINE wanted == PlacesOf(k, Missing(p))
           have == PlacesOf(k, Images[p])
<1>1. /\ pc[h] \notin Working /\ pc[h] # "reply" /\ serving[h] = NoPod
      /\ p \notin decided /\ \A g \in Handlers : serving[g] # p
      /\ serving' = [serving EXCEPT ![h] = p]
      /\ UNCHANGED <<cache, decided, fetches, resp>>
  BY DEF Ask, Receive, Arrives, Waiting, Working
<1>2. /\ pc'[h] = "received" /\ keys'[h] = Missing(p) /\ next'[h] = 1 /\ serving'[h] = p
      /\ \A g \in Handlers : g # h => /\ UNCHANGED <<pc[g], keys[g], next[g], resp[g]>>
                                     /\ serving'[g] = serving[g]
  <2>1. serving \in [Handlers -> Pods \cup {NoPod}]
    BY DEF AInv
  <2>2. Receive(h, Missing(p))
    BY DEF Ask
  <2> QED
    BY <1>1, <2>1, <2>2, HandlerTypes DEF Receive
<1>3. Missing(p) \in Seq(Keys)
  BY AskedKeys
<1>4. ToFetch(k)[h] = {} /\ ToFetch(k)'[h] = wanted
  <2>1. \A j \in wanted : j >= 1
    BY <1>3 DEF PlacesOf
  <2>2. ToFetch(k)'[h] = {j \in wanted : j >= 1}
    BY <1>2 DEF ToFetch, First, Working
  <2>3. ToFetch(k)[h] = {}
    BY <1>1 DEF ToFetch
  <2> HIDE DEF wanted
  <2> QED
    BY <2>1, <2>2, <2>3
<1>5. \A g \in Handlers : g # h =>
        ToFetch(k)'[g] = ToFetch(k)[g] /\ (Covers(g, k)' <=> Covers(g, k))
  BY <1>2, OtherHandlersKeep
<1>6. Cached(k)' <=> Cached(k)
  BY <1>1 DEF Cached
<1>7. Covers(h, k)' <=> wanted # {}
  BY <1>2 DEF Covers, Working
<1>8. \A q \in Pods : q # p => ToAsk(k)'[q] = ToAsk(k)[q]
  <2>1. \A q \in Pods : q # NoPod
    BY PodsAssumption
  <2>2. \A q \in Pods : q # p =>
          ((\E g \in Handlers : serving'[g] = q /\ Covers(g, k)') <=>
             \E g \in Handlers : serving[g] = q /\ Covers(g, k))
    BY <1>1, <1>2, <1>5, <2>1
  <2> QED
    BY <1>1, <1>6, <2>2 DEF ToAsk
<1> HIDE DEF wanted, have
<1>9. /\ IsFiniteSet(wanted) /\ Cardinality(wanted) \in Nat
      /\ IsFiniteSet(have) /\ Cardinality(have) \in Nat
      /\ Cached(k) => wanted = {} /\ Cardinality(wanted) = 0
      /\ ~Cached(k) => Cardinality(wanted) = Cardinality(have)
  <2>1. IsFiniteSet(have) /\ Cardinality(have) \in Nat
    BY PodsAssumption, PlacesFinite DEF have
  <2>2. /\ IsFiniteSet(wanted) /\ (Cached(k) => wanted = {})
        /\ ~Cached(k) => Cardinality(wanted) = Cardinality(have)
    BY AskedPlaces DEF wanted, have
  <2> QED
    BY <2>1, <2>2, FS_CardinalityType, FS_EmptySet
<1>10. Cardinality({}) = 0
  BY FS_EmptySet
<1>11. Cardinality(ToAsk(k)[p]) = Cardinality(wanted) /\ Cardinality(ToAsk(k)'[p]) = 0
  <2>1. CASE Cached(k)
    <3>1. ToAsk(k)[p] = {} /\ ToAsk(k)'[p] = {}
      BY <1>6, <2>1 DEF ToAsk
    <3> QED
      BY <1>9, <1>10, <2>1, <3>1
  <2>2. CASE ~Cached(k)
    <3>1. ToAsk(k)[p] = have
      BY <1>1, <2>2 DEF ToAsk, have
    <3>2. ToAsk(k)'[p] = {}
      <4>1. CASE wanted # {}
        BY <1>2, <1>7, <4>1 DEF ToAsk
      <4>2. CASE wanted = {}
        <5>1. have = {}
          BY <1>9, <1>10, <2>2, <4>2, FS_EmptySet
        <5> QED
          BY <5>1 DEF ToAsk, have
      <4> QED
        BY <4>1, <4>2
    <3> QED
      BY <1>9, <1>10, <2>2, <3>1, <3>2
  <2> QED
    BY <2>1, <2>2
<1>12. Total(Pods, ToAsk(k)') + Cardinality(ToAsk(k)[p]) =
         Total(Pods, ToAsk(k)) + Cardinality(ToAsk(k)'[p])
  BY <1>8, SumsFinite, SumsFiniteNext, TotalChange
<1>13. Total(Handlers, ToFetch(k)') + Cardinality(ToFetch(k)[h]) =
         Total(Handlers, ToFetch(k)) + Cardinality(ToFetch(k)'[h])
  BY <1>5, SumsFinite, SumsFiniteNext, TotalChange
<1>14. /\ Total(Pods, ToAsk(k)') + Cardinality(wanted) = Total(Pods, ToAsk(k))
       /\ Total(Handlers, ToFetch(k)') = Total(Handlers, ToFetch(k)) + Cardinality(wanted)
  BY <1>4, <1>9, <1>10, <1>11, <1>12, <1>13, SumsFinite, SumsFiniteNext
<1> QED
  BY <1>1, <1>9, <1>14, SumsFinite, SumsFiniteNext, SpentNext DEF Spent

\* What a response has is in the cache once it is read.
LEMMA DeliverSpendsNothing ==
  ASSUME NEW k \in Keys, AInv, ClientType, AInv', ClientType',
         NEW h \in Handlers, Deliver(h)
  PROVE  Spent(k)' <= Spent(k)
<1>1. /\ pc[h] = "reply" /\ fetches' = fetches
      /\ serving' = [serving EXCEPT ![h] = NoPod]
      /\ decided \subseteq decided'
      /\ pc' = [pc EXCEPT ![h] = "sent"] /\ UNCHANGED <<keys, next, resp>>
  BY DEF Deliver, SendResponse
<1>2. /\ pc'[h] = "sent" /\ serving'[h] = NoPod
      /\ \A g \in Handlers : g # h => pc'[g] = pc[g] /\ serving'[g] = serving[g]
  <2>1. serving \in [Handlers -> Pods \cup {NoPod}]
    BY DEF AInv
  <2> QED
    BY <1>1, <2>1, HandlerTypes
<1>3. \A g \in Handlers : ToFetch(k)'[g] \subseteq ToFetch(k)[g]
  <2>1. ToFetch(k)'[h] = {}
    BY <1>2 DEF ToFetch, Working
  <2> QED
    BY <1>1, <1>2, <2>1, OtherHandlersKeep
<1>4. \A g \in Handlers : g # h => (Covers(g, k)' <=> Covers(g, k))
  BY <1>1, <1>2, OtherHandlersKeep
<1>5. Cached(k) => Cached(k)'
  <2>1. CASE serving[h] = NoPod
    BY <2>1 DEF Deliver, Cached
  <2>2. CASE serving[h] # NoPod
    <3> DEFINE new == {j \in 1..Len(resp[h].items) : resp[h].items[j].key = k}
    <3>1. cache'[k] = IF new = {} THEN cache[k] ELSE {resp[h].items[j] : j \in new}
      BY <2>2 DEF Deliver
    <3> HIDE DEF new
    <3> QED
      BY <3>1 DEF Cached
  <2> QED
    BY <2>1, <2>2
<1>6. serving[h] # NoPod /\ Covers(h, k) => Cached(k)'
  <2> SUFFICES ASSUME serving[h] # NoPod, Covers(h, k) PROVE Cached(k)'
    OBVIOUS
  <2> DEFINE new == {j \in 1..Len(resp[h].items) : resp[h].items[j].key = k}
  <2>1. cache'[k] = IF new = {} THEN cache[k] ELSE {resp[h].items[j] : j \in new}
    BY DEF Deliver
  <2>2. resp[h].items \in Seq(Item)
    BY HandlerTypes DEF Response
  <2>3. \E j \in DOMAIN resp[h].items : resp[h].items[j].key = k
    BY <1>1 DEF Covers, Working
  <2>4. new # {}
    BY <2>2, <2>3
  <2> HIDE DEF new
  <2> QED
    BY <2>1, <2>4 DEF Cached
<1>7. \A p \in Pods : ToAsk(k)'[p] \subseteq ToAsk(k)[p]
  <2> SUFFICES ASSUME NEW p \in Pods PROVE ToAsk(k)'[p] \subseteq ToAsk(k)[p]
    OBVIOUS
  <2>1. p # NoPod
    BY PodsAssumption
  <2>2. CASE Cached(k)'
    BY <2>2 DEF ToAsk
  <2>3. CASE ~Cached(k)'
    <3>1. \A g \in Handlers : serving[g] = p /\ Covers(g, k) => serving'[g] = p /\ Covers(g, k)'
      BY <1>2, <1>4, <1>6, <2>1, <2>3
    <3> QED
      BY <1>1, <1>5, <2>3, <3>1 DEF ToAsk
  <2> QED
    BY <2>2, <2>3
<1> QED
  BY <1>1, <1>3, <1>7, NothingSpent

\* The steps of the handlers that decide about no image: getting ready, a key
\* that cannot be parsed, a judgement of bundles fetched before.
LEMMA GoingOnSpendsNothing ==
  ASSUME NEW k \in Keys, AInv, ClientType, AInv', ClientType', fetches' = fetches,
         UNCHANGED client, NEW h \in Handlers,
         KeyChainReady(h) \/ InvalidReference(h) \/ VerifyDone(h)
  PROVE  Spent(k)' <= Spent(k)
<1> USE DEF Working
<1>1. CASE KeyChainReady(h)
  <2>1. /\ pc[h] = "received" /\ pc' = [pc EXCEPT ![h] = "image"]
        /\ UNCHANGED <<keys, next, resp>>
    BY <1>1 DEF KeyChainReady
  <2>2. First(h)' >= First(h)
    BY <2>1, HandlerTypes DEF First
  <2> QED
    BY <2>1, <2>2, HandlerGoesOn
<1>2. CASE InvalidReference(h)
  <2>1. /\ pc[h] = "image" /\ pc' = [pc EXCEPT ![h] = "image"]
        /\ next' = [next EXCEPT ![h] = next[h] + 1] /\ UNCHANGED <<keys, resp>>
    BY <1>2, HandlerTypes DEF InvalidReference, InWork, AppendItem
  <2>2. First(h)' >= First(h) /\ \A g \in Handlers : g # h => next'[g] = next[g]
    BY <2>1, HandlerTypes DEF First
  <2> QED
    BY <2>1, <2>2, HandlerGoesOn
<1>3. CASE VerifyDone(h)
  <2>1. /\ pc[h] = "verify" /\ pc' = [pc EXCEPT ![h] = "image"]
        /\ next' = [next EXCEPT ![h] = next[h] + 1] /\ UNCHANGED <<keys, resp>>
    BY <1>3 DEF VerifyDone, AppendItem
  <2>2. First(h)' >= First(h) /\ \A g \in Handlers : g # h => next'[g] = next[g]
    BY <2>1, HandlerTypes DEF First
  <2> QED
    BY <2>1, <2>2, HandlerGoesOn
<1> QED
  BY <1>1, <1>2, <1>3

\* The steps that end a request with the items it has.
LEMMA RepliesSpendNothing ==
  ASSUME NEW k \in Keys, AInv, ClientType, AInv', ClientType', fetches' = fetches,
         UNCHANGED client, NEW h \in Handlers, Alike(h),
         KeyChainFails(h) \/ Complete(h) \/ \E res \in Results : FetchAborts(h, res)
  PROVE  Spent(k)' <= Spent(k)
<1>1. CASE KeyChainFails(h)
  <2>1. /\ pc[h] = "received" /\ pc' = [pc EXCEPT ![h] = "reply"]
        /\ resp' = [resp EXCEPT ![h] = ErrorResponse] /\ UNCHANGED <<keys, next>>
    BY <1>1 DEF KeyChainFails, Return
  <2>2. next[h] = 1
    BY <2>1, HandlerTypes DEF Progress, Passed
  <2>3. ~\E j \in PlacesOf(k, keys[h]) : j < next[h]
    BY <2>2, HandlerTypes DEF PlacesOf
  <2> QED
    BY <2>1, <2>3, HandlerGivesBack
<1>2. CASE Complete(h) \/ \E res \in Results : FetchAborts(h, res)
  <2>1. PICK failed \in BOOLEAN :
          /\ pc[h] = "image" /\ pc' = [pc EXCEPT ![h] = "reply"]
          /\ resp' = [resp EXCEPT ![h] = [items |-> items[h], systemError |-> failed]]
          /\ UNCHANGED <<keys, next>>
    BY <1>2 DEF Complete, FetchAborts, Fetched, InWork, Return
  <2>2. (\E j \in PlacesOf(k, keys[h]) : j < next[h]) =>
          \E j \in DOMAIN items[h] : items[h][j].key = k
    BY <2>1, PassedKeys
  <2> DEFINE response == [items |-> items[h], systemError |-> failed]
  <2>3. response.items = items[h] /\ resp' = [resp EXCEPT ![h] = response]
    BY <2>1
  <2> HIDE DEF response
  <2> QED
    BY <2>1, <2>2, <2>3, HandlerGivesBack
<1> QED
  BY <1>1, <1>2

LEMMA ConclusiveFetchSpends ==
  ASSUME NEW k \in Keys, AInv, ClientType, AInv', ClientType',
         NEW h \in Handlers, ConclusiveFetch(h)
  PROVE  Spent(k)' <= Spent(k)
<1>1. PICK res \in Results :
        BundleInvalid(h, res) \/ NoBundles(h, res) \/ FetchedBundles(h, res)
  BY DEF ConclusiveFetch
<1>2. /\ fetches' = [fetches EXCEPT ![Key(h)] = fetches[Key(h)] + 1]
      /\ UNCHANGED client
  BY DEF ConclusiveFetch
<1>3. Fetched(h, res)
  BY <1>1 DEF BundleInvalid, NoBundles, FetchedBundles
<1>4. /\ pc[h] = "image" /\ next[h] \in DOMAIN keys[h] /\ Key(h) \in Keys
      /\ next[h] \in PlacesOf(Key(h), keys[h])
  BY <1>3, HandlerTypes DEF Fetched, InWork, Key, PlacesOf
<1>5. /\ UNCHANGED <<keys, resp>>
      /\ \/ pc' = [pc EXCEPT ![h] = "image"] /\ next' = [next EXCEPT ![h] = next[h] + 1]
         \/ pc' = [pc EXCEPT ![h] = "verify"] /\ next' = next
  BY <1>1, <1>4, HandlerTypes DEF BundleInvalid, NoBundles, FetchedBundles, AppendItem
<1>6. PICK to \in {"image", "verify"} :
        /\ pc' = [pc EXCEPT ![h] = to] /\ First(h)' = next[h] + 1
        /\ \A g \in Handlers : g # h => next'[g] = next[g]
  BY <1>5, HandlerTypes DEF First
<1>7. to \in Working /\ pc[h] \in Working /\ First(h)' >= First(h)
  BY <1>4, <1>6, HandlerTypes DEF Working, First
<1>8. CASE k = Key(h)
  <2>1. fetches'[k] = fetches[k] + 1
    BY <1>2, <1>8 DEF ClientType
  <2> QED
    BY <1>2, <1>4, <1>5, <1>6, <1>7, <1>8, <2>1, FetchSpends
<1>9. CASE k # Key(h)
  <2>1. fetches'[k] = fetches[k]
    BY <1>2, <1>9 DEF ClientType
  <2> QED
    BY <1>2, <1>5, <1>6, <1>7, <2>1, HandlerGoesOn
<1> QED
  BY <1>8, <1>9

\* Gatekeeper's own steps: deciding from the cache, and the end of a
\* connection whose response would have had nothing.
LEMMA GatekeeperSpendsNothing ==
  ASSUME NEW k \in Keys, AInv, ClientType, AInv', ClientType',
         \/ \E p \in Pods : DecideFromCache(p)
         \/ \E h \in Handlers : Dropped(h)
         \/ UNCHANGED vars
  PROVE  Spent(k)' <= Spent(k)
<1>1. UNCHANGED <<pc, keys, next, resp, cache, fetches>> /\ decided \subseteq decided'
  BY DEF DecideFromCache, Dropped, vars, provars, client
<1>2. \A g \in Handlers : ToFetch(k)'[g] = ToFetch(k)[g] /\ (Covers(g, k)' <=> Covers(g, k))
  BY <1>1, OtherHandlersKeep
<1>3. \A g \in Handlers : Covers(g, k) => serving'[g] = serving[g]
  <2>1. serving \in [Handlers -> Pods \cup {NoPod}]
    BY DEF AInv
  <2>2. CASE \E h \in Handlers : Dropped(h)
    <3>1. PICK h \in Handlers : Dropped(h)
      BY <2>2
    <3>2. ~Covers(h, k)
      BY <3>1 DEF Dropped, Covers, Working
    <3> QED
      BY <2>1, <3>1, <3>2 DEF Dropped
  <2> QED
    BY <2>2 DEF DecideFromCache, vars, client
<1>4. \A p \in Pods : ToAsk(k)'[p] \subseteq ToAsk(k)[p]
  BY <1>1, <1>2, <1>3 DEF ToAsk, Cached
<1> QED
  BY <1>1, <1>2, <1>4, NothingSpent

\* What a step has to keep of the budget, as long as nothing is lost.
LEMMA BudgetKept ==
  ASSUME NEW k \in Keys, InBudget(k), UNCHANGED <<losses, crashes>>, Spent(k)' <= Spent(k),
         AInv, ClientType, AInv', ClientType'
  PROVE  InBudget(k)'
<1>1. Spent(k) \in Nat /\ Spent(k)' \in Nat
  BY SumsFinite, SumsFiniteNext, SpentNext DEF Spent
<1>2. Occurrences(k)' = Occurrences(k)
  BY DEF Occurrences, Total, Tagged
<1> DEFINE B == (1 + losses + crashes) * Occurrences(k)
<1>3. B \in Nat
  BY SumsFinite, PodsAssumption DEF ClientType
<1>4. InBudget(k) <=> Spent(k) <= B
  BY DEF InBudget
<1>5. InBudget(k)' <=> Spent(k)' <= B
  BY <1>2 DEF InBudget
<1> HIDE DEF B
<1> QED
  BY <1>1, <1>3, <1>4, <1>5

\* A response Gatekeeper misses, an expired entry, a panic or an error of the
\* verifier may take back every place of every pod: the budget grows by all.
LEMMA BudgetRenewed ==
  ASSUME NEW k \in Keys, InBudget(k), fetches' = fetches,
         losses' + crashes' = losses + crashes + 1,
         \A h \in Handlers : ToFetch(k)'[h] \subseteq ToFetch(k)[h],
         AInv, ClientType, AInv', ClientType'
  PROVE  InBudget(k)'
<1> DEFINE N == Occurrences(k)
           b == 1 + losses + crashes
<1>1. Total(Handlers, ToFetch(k)') <= Total(Handlers, ToFetch(k))
  BY SumsFinite, TotalWithin
<1>2. N \in Nat /\ b \in Nat /\ 1 + losses' + crashes' = b + 1
  <2>1. N \in Nat
    BY SumsFinite
  <2>2. losses \in Nat /\ crashes \in Nat /\ losses' \in Nat /\ crashes' \in Nat
    BY PodsAssumption DEF ClientType
  <2> QED
    BY <2>1, <2>2
<1>3. InBudget(k) <=> fetches[k] + Total(Handlers, ToFetch(k)) + Total(Pods, ToAsk(k)) <= b * N
  BY DEF InBudget, Spent
<1>4. Occurrences(k)' = N
  BY DEF Occurrences, Total, Tagged
<1>5. InBudget(k)' <=> Spent(k)' <= (b + 1) * N
  BY <1>2, <1>4 DEF InBudget
<1>6. Spent(k)' = fetches[k] + Total(Handlers, ToFetch(k)') + Total(Pods, ToAsk(k)')
  BY SpentNext
<1>7. /\ Total(Handlers, ToFetch(k)) \in Nat /\ Total(Pods, ToAsk(k)) \in Nat /\ fetches[k] \in Nat
      /\ Total(Handlers, ToFetch(k)') \in Nat /\ Total(Pods, ToAsk(k)') \in Nat
      /\ Total(Pods, ToAsk(k)') <= N
  BY SumsFinite, SumsFiniteNext
<1> HIDE DEF N, b
<1>8. (b + 1) * N = b * N + N /\ b * N \in Nat
  BY <1>2
<1> DEFINE B == b * N
<1>9. /\ fetches[k] + Total(Handlers, ToFetch(k)) + Total(Pods, ToAsk(k)) <= B
      /\ B \in Nat /\ (InBudget(k)' <=> Spent(k)' <= B + N)
  BY <1>3, <1>5, <1>8
<1> HIDE DEF B
<1> QED
  BY <1>1, <1>2, <1>6, <1>7, <1>9

LEMMA LossRenews ==
  ASSUME NEW k \in Keys, InBudget(k), AInv, ClientType, AInv', ClientType',
         \/ \E h \in Handlers : GiveUp(h) \/ Crashed(h)
         \/ \E c \in Keys : Expire(c)
  PROVE  InBudget(k)'
<1>1. CASE \/ \E h \in Handlers : GiveUp(h)
           \/ \E c \in Keys : Expire(c)
  <2>1. /\ UNCHANGED <<pc, keys, next, resp, fetches, crashes>> /\ losses' = losses + 1
    BY <1>1 DEF GiveUp, Expire, provars
  <2>2. \A g \in Handlers : ToFetch(k)'[g] = ToFetch(k)[g]
    BY <2>1, OtherHandlersKeep
  <2>3. losses' + crashes' = losses + crashes + 1
    BY <2>1, PodsAssumption DEF ClientType
  <2> QED
    BY <2>1, <2>2, <2>3, BudgetRenewed
<1>2. ASSUME NEW h \in Handlers, Crashed(h) PROVE InBudget(k)'
  <2>1. /\ UNCHANGED <<keys, next, fetches, losses>> /\ crashes' = crashes + 1
        /\ \/ pc' = [pc EXCEPT ![h] = "reply"] /\ resp' = [resp EXCEPT ![h] = ErrorResponse]
           \/ pc' = [pc EXCEPT ![h] = "panicked"] /\ UNCHANGED resp
    BY <1>2 DEF Crashed, VerifyErrors, FetchPanics, Return, client
  <2>2. /\ pc'[h] \notin Working
        /\ \A g \in Handlers : g # h => UNCHANGED <<pc[g], keys[g], next[g], resp[g]>>
    BY <2>1, HandlerTypes DEF Working
  <2>3. \A g \in Handlers : ToFetch(k)'[g] \subseteq ToFetch(k)[g]
    <3>1. ToFetch(k)'[h] = {}
      BY <2>2 DEF ToFetch
    <3> QED
      BY <2>2, <3>1, OtherHandlersKeep
  <2>4. losses' + crashes' = losses + crashes + 1
    BY <2>1, PodsAssumption DEF ClientType
  <2> QED
    BY <2>1, <2>3, <2>4, BudgetRenewed
<1> QED
  BY <1>1, <1>2

\* The pod a handler works for, and the keys it was sent, change together.
LEMMA AlikeStep ==
  ASSUME AInv, \A g \in Handlers : Alike(g), [AdmNext]_vars, NEW g \in Handlers
  PROVE  Alike(g)'
<1>1. ASSUME pc'[g] \in Working => pc[g] \in Working, keys'[g] = keys[g],
             serving'[g] \in {serving[g], NoPod}
      PROVE  Alike(g)'
  BY <1>1 DEF Alike
<1>2. serving \in [Handlers -> Pods \cup {NoPod}]
  BY DEF AInv
<1>3. CASE UNCHANGED vars
  BY <1>1, <1>3 DEF vars, provars, client
<1>4. ASSUME NEW p \in Pods, NEW h \in Handlers, Ask(p, h) PROVE Alike(g)'
  <2>1. /\ pc' = [pc EXCEPT ![h] = "received"] /\ keys' = [keys EXCEPT ![h] = Missing(p)]
        /\ serving' = [serving EXCEPT ![h] = p]
    BY <1>4 DEF Ask, Receive
  <2>2. CASE g # h
    BY <1>1, <1>2, <2>1, <2>2, HandlerTypes
  <2>3. CASE g = h
    <3>1. keys'[g] = Missing(p) /\ serving'[g] = p
      BY <1>2, <2>1, <2>3, HandlerTypes
    <3>2. \A k \in Keys : \/ PlacesOf(k, Missing(p)) = {}
                          \/ Cardinality(PlacesOf(k, Missing(p))) =
                               Cardinality(PlacesOf(k, Images[p]))
      BY AskedPlaces
    <3> QED
      BY <3>1, <3>2 DEF Alike
  <2> QED
    BY <2>2, <2>3
<1>5. ASSUME NEW h \in Handlers, Deliver(h) PROVE Alike(g)'
  <2>1. /\ pc' = [pc EXCEPT ![h] = "sent"] /\ keys' = keys
        /\ serving' = [serving EXCEPT ![h] = NoPod]
    BY <1>5 DEF Deliver, SendResponse
  <2> QED
    BY <1>1, <1>2, <2>1, HandlerTypes DEF Working
<1>6. ASSUME NEW h \in Handlers, Dropped(h) \/ GiveUp(h) PROVE Alike(g)'
  <2>1. UNCHANGED <<pc, keys>> /\ serving' = [serving EXCEPT ![h] = NoPod]
    BY <1>6 DEF Dropped, GiveUp, provars
  <2> QED
    BY <1>1, <1>2, <2>1
<1>7. ASSUME NEW p \in Pods, DecideFromCache(p) PROVE Alike(g)'
  BY <1>1, <1>7 DEF DecideFromCache, provars
<1>8. ASSUME NEW c \in Keys, Expire(c) PROVE Alike(g)'
  BY <1>1, <1>8 DEF Expire, provars
<1>9. ASSUME NEW h \in Handlers,
             Local(h) \/ ConclusiveFetch(h) \/ Fails(h) \/ Crashed(h)
      PROVE  Alike(g)'
  <2>1. keys' = keys /\ serving' = serving
    BY <1>9 DEF Local, ConclusiveFetch, Fails, Crashed, client, KeyChainFails,
       KeyChainReady, InvalidReference, VerifyErrors, VerifyDone, Complete, BundleInvalid,
       NoBundles, FetchedBundles, FetchAborts, FetchPanics
  <2>2. /\ pc[h] \in Working
        /\ \A f \in Handlers : f # h => pc'[f] = pc[f]
    <3>1. \E to : pc' = [pc EXCEPT ![h] = to] \/ pc' = pc
      BY <1>9 DEF Local, ConclusiveFetch, Fails, Crashed, Return, KeyChainFails,
         KeyChainReady, InvalidReference, VerifyErrors, VerifyDone, Complete, BundleInvalid,
         NoBundles, FetchedBundles, FetchAborts, FetchPanics
    <3>2. pc[h] \in Working
      BY <1>9 DEF Local, ConclusiveFetch, Fails, Crashed, Fetched, InWork, KeyChainFails,
         KeyChainReady, InvalidReference, VerifyErrors, VerifyDone, Complete, BundleInvalid,
         NoBundles, FetchedBundles, FetchAborts, FetchPanics, Working
    <3> QED
      BY <3>1, <3>2, HandlerTypes
  <2> QED
    BY <1>1, <2>1, <2>2
<1> QED
  BY <1>3, <1>4, <1>5, <1>6, <1>7, <1>8, <1>9 DEF AdmNext, Handle, Settled

LEMMA BInvInit == AdmInit => BInv
<1> SUFFICES ASSUME AdmInit PROVE BInv
  OBVIOUS
<1>1. AInv /\ ClientType
  BY AInvInit, PodsAssumption DEF AdmInit, ClientType
<1>2. \A h \in Handlers : pc[h] = "idle"
  BY DEF AdmInit, Init
<1>3. ASSUME NEW k \in Keys PROVE InBudget(k)
  <2>1. \A h \in Handlers : ToFetch(k)[h] = {}
    BY <1>2 DEF ToFetch, Working
  <2>2. Tagged(Handlers, ToFetch(k)) = {}
    BY <2>1 DEF Tagged
  <2>3. Total(Handlers, ToFetch(k)) = 0
    BY <2>2, FS_EmptySet DEF Total
  <2>4. fetches[k] = 0 /\ losses = 0 /\ crashes = 0
    BY DEF AdmInit
  <2>5. (1 + losses + crashes) * Occurrences(k) = Occurrences(k)
    BY <1>1, <2>4, SumsFinite
  <2> QED
    BY <1>1, <2>3, <2>4, <2>5, SumsFinite DEF InBudget, Spent
<1> QED
  BY <1>1, <1>2, <1>3 DEF BInv, Alike, Working

LEMMA BInvStep == BInv /\ [AdmNext]_vars => BInv'
<1> SUFFICES ASSUME BInv, [AdmNext]_vars PROVE BInv'
  OBVIOUS
<1>1. AInv /\ ClientType /\ \A h \in Handlers : Alike(h)
  BY DEF BInv
<1>2. AInv' /\ ClientType'
  BY <1>1, AInvStep, ClientTypeStep
<1>3. \A h \in Handlers : Alike(h)'
  BY <1>1, AlikeStep
<1>4. ASSUME NEW k \in Keys PROVE InBudget(k)'
  <2>1. InBudget(k)
    BY DEF BInv
  <2>2. ASSUME NEW p \in Pods, NEW h \in Handlers, Ask(p, h) PROVE InBudget(k)'
    <3>1. Spent(k)' <= Spent(k)
      BY <1>1, <1>2, <2>2, AskMovesOver
    <3> QED
      BY <1>1, <1>2, <2>1, <2>2, <3>1, BudgetKept DEF Ask
  <2>3. ASSUME NEW h \in Handlers, Deliver(h) PROVE InBudget(k)'
    <3>1. Spent(k)' <= Spent(k)
      BY <1>1, <1>2, <2>3, DeliverSpendsNothing
    <3> QED
      BY <1>1, <1>2, <2>1, <2>3, <3>1, BudgetKept DEF Deliver
  <2>4. ASSUME NEW h \in Handlers, Local(h) PROVE InBudget(k)'
    <3>1. UNCHANGED <<client, fetches, losses, crashes>>
      BY <2>4 DEF Local, client
    <3>2. Spent(k)' <= Spent(k)
      BY <1>1, <1>2, <2>4, <3>1, GoingOnSpendsNothing, RepliesSpendNothing DEF Local
    <3> QED
      BY <1>1, <1>2, <2>1, <3>1, <3>2, BudgetKept
  <2>5. ASSUME NEW h \in Handlers, ConclusiveFetch(h) PROVE InBudget(k)'
    <3>1. Spent(k)' <= Spent(k)
      BY <1>1, <1>2, <2>5, ConclusiveFetchSpends
    <3> QED
      BY <1>1, <1>2, <2>1, <2>5, <3>1, BudgetKept DEF ConclusiveFetch, client
  <2>6. ASSUME NEW h \in Handlers, Fails(h) PROVE InBudget(k)'
    <3>1. UNCHANGED <<client, fetches, losses, crashes>>
      BY <2>6 DEF Fails, client
    <3>2. Spent(k)' <= Spent(k)
      BY <1>1, <1>2, <2>6, <3>1, RepliesSpendNothing DEF Fails
    <3> QED
      BY <1>1, <1>2, <2>1, <3>1, <3>2, BudgetKept
  <2>7. CASE \/ \E h \in Handlers : GiveUp(h) \/ Crashed(h)
             \/ \E c \in Keys : Expire(c)
    BY <1>1, <1>2, <2>1, <2>7, LossRenews
  <2>8. CASE \/ \E p \in Pods : DecideFromCache(p)
             \/ \E h \in Handlers : Dropped(h)
             \/ UNCHANGED vars
    <3>1. Spent(k)' <= Spent(k)
      BY <1>1, <1>2, <2>8, GatekeeperSpendsNothing
    <3>2. UNCHANGED <<losses, crashes>>
      BY <2>8 DEF DecideFromCache, Dropped, vars, client
    <3> QED
      BY <1>1, <1>2, <2>1, <3>1, <3>2, BudgetKept
  <2> QED
    BY <2>2, <2>3, <2>4, <2>5, <2>6, <2>7, <2>8 DEF AdmNext, Handle, Settled
<1> QED
  BY <1>1, <1>2, <1>3, <1>4 DEF BInv

(***************************************************************************)
(* "A retry re-fetches only what is genuinely missing" (provider.go:221),  *)
(* for any pods and any number of handlers, faults, losses and crashes: an *)
(* image is fetched to a result once for each place it has in a pod, and   *)
(* once more at most for each loss and each crash, however often the       *)
(* fetches of other images fail.                                           *)
(***************************************************************************)
THEOREM OnlyMissingIsRefetched == AdmSpec => []OnlyMissingRefetched
<1>1. BInv => OnlyMissingRefetched
  <2> SUFFICES ASSUME BInv, NEW k \in Keys
               PROVE  fetches[k] <= (1 + losses + crashes) * Occurrences(k)
    BY DEF OnlyMissingRefetched
  <2> DEFINE B == (1 + losses + crashes) * Occurrences(k)
  <2>1. AInv /\ ClientType /\ fetches[k] + Total(Handlers, ToFetch(k)) + Total(Pods, ToAsk(k)) <= B
    BY DEF BInv, InBudget, Spent
  <2>2. B \in Nat
    BY <2>1, SumsFinite, PodsAssumption DEF ClientType
  <2> HIDE DEF B
  <2>3. fetches[k] <= B
    BY <2>1, <2>2, SumsFinite
  <2> QED
    BY <2>3 DEF B
<1> QED
  BY <1>1, BInvInit, BInvStep, PTL DEF AdmSpec
-----------------------------------------------------------------------------
(***************************************************************************)
(* The composition is a use of the provider: whatever Gatekeeper does, the *)
(* provider's part makes the steps of Provider and no others, and what is  *)
(* proved of every provider holds of this one.                             *)
(***************************************************************************)
LEMMA AdmissionStep ==
  ASSUME [AdmNext]_vars
  PROVE  [Next]_provars
<1>1. ASSUME NEW p \in Pods, NEW h \in Handlers, Ask(p, h) PROVE Next
  <2>1. Missing(p) \in Requests /\ Receive(h, Missing(p))
    BY <1>1, PodsAssumption DEF Ask, Missing
  <2> QED
    BY <2>1 DEF Next
<1>2. ASSUME NEW h \in Handlers, Deliver(h) PROVE Next
  BY <1>2 DEF Deliver, Next
<1>3. ASSUME NEW h \in Handlers,
             Local(h) \/ ConclusiveFetch(h) \/ Fails(h) \/ Crashed(h)
      PROVE  Next
  <2>1. Validate(h)
    BY <1>3 DEF Local, ConclusiveFetch, Fails, Crashed, Validate, FetchReturns, Results
  <2> QED
    BY <2>1 DEF Next
<1>4. CASE \/ \E h \in Handlers : Dropped(h) \/ GiveUp(h)
           \/ \E p \in Pods : DecideFromCache(p)
           \/ \E k \in Keys : Expire(k)
           \/ UNCHANGED vars
  BY <1>4 DEF Dropped, GiveUp, DecideFromCache, Expire, vars
<1> QED
  BY <1>1, <1>2, <1>3, <1>4 DEF AdmNext, Handle, Settled

(***************************************************************************)
(* Gatekeeper and the provider together implement the provider alone, with *)
(* Gatekeeper as one of its callers: a request is for images of a pod, and *)
(* missed responses, expiries and retries are invisible to the handlers    *)
(* (provider.go:76-300).                                                   *)
(***************************************************************************)
THEOREM AdmissionImplementsProvider == AdmSpec => Spec
<1>1. AdmInit => Init
  BY DEF AdmInit
<1> QED
  BY <1>1, AdmissionStep, PTL DEF AdmSpec, Spec

(***************************************************************************)
(* The responses Gatekeeper is given have the verdicts of the images, and  *)
(* the bundles fetched for it are accounted for (provider.go:121-295).     *)
(***************************************************************************)
COROLLARY AdmissionAnswersRight == AdmSpec => [](ItemsAreVerdicts /\ BundlesAccounted)
BY AdmissionImplementsProvider, ResponsesAreVerdicts, EveryBundleAccounted, PTL
=============================================================================
