----------------------------- MODULE Admission -----------------------------
(***************************************************************************)
(* The provider at work: pods to admit, OPA Gatekeeper asking the provider *)
(* about their images, and Gatekeeper's cache of the answers.              *)
(*                                                                         *)
(* Gatekeeper is external and is modelled from how the provider relies on  *)
(* it (provider.go:219-221): it asks for the images of a pod that are not  *)
(* in its cache, caches every item of the response it gets, whether or not *)
(* the response carries a system error, decides on a pod once it has an    *)
(* answer for every image, and tries again otherwise.  It waits for the    *)
(* response no longer than the Provider resource's timeout, and its cache  *)
(* entries expire.                                                         *)
(***************************************************************************)
EXTENDS Provider

CONSTANTS
  Pods,       \* pods to be admitted
  NoPod,      \* nobody is waiting for this handler
  Images,     \* the images of each pod, in order
  MaxAsks,    \* bound: times Gatekeeper asks for a pod
  MaxFaults,  \* bound: failures of keychain, registry and verifier
  MaxLosses   \* bound: responses Gatekeeper misses, and cache expiries

\* The keys of a list that are in S, in order.
Among(ks, S) == Picked(ks, {i \in DOMAIN ks : ks[i] \in S})

\* Requests has every part of a pod's list, for the cache may hold the rest.
ASSUME PodsAssumption ==
  /\ NoPod \notin Pods /\ IsFiniteSet(Pods)
  /\ Images \in [Pods -> Seq(Keys)]
  /\ \A p \in Pods, S \in SUBSET Keys : Among(Images[p], S) \in Requests
  /\ MaxAsks \in Nat /\ MaxFaults \in Nat /\ MaxLosses \in Nat
  /\ MaxRequests >= MaxAsks * Cardinality(Pods)

VARIABLES
  cache,    \* Gatekeeper: the items it has, by key
  serving,  \* the pod each handler's response is awaited for
  decided,  \* the pods Gatekeeper has an answer for
  asked,    \* how often it has asked for each pod
  faults,   \* failures so far of what the provider depends on
  losses,   \* missed responses and expiries so far
  fetches,  \* history: conclusive fetches of each key
  crashes   \* history: requests that lost the verdicts they had reached

client == <<cache, serving, decided, asked, losses>>
vars   == <<provars, client, faults, fetches, crashes>>

Cached(k) == cache[k] # {}

Missing(p) == Among(Images[p], {k \in Keys : ~Cached(k)})

Waiting(p) == \E h \in Handlers : serving[h] = p

AdmInit ==
  /\ Init
  /\ cache = [k \in Keys |-> {}]
  /\ serving = [h \in Handlers |-> NoPod]
  /\ decided = {} /\ asked = [p \in Pods |-> 0]
  /\ faults = 0 /\ losses = 0
  /\ fetches = [k \in Keys |-> 0] /\ crashes = 0

-----------------------------------------------------------------------------
(***************************************************************************)
(* Gatekeeper.                                                             *)
(***************************************************************************)
Ask(p, h) ==
  /\ p \notin decided /\ ~Waiting(p) /\ serving[h] = NoPod
  /\ Missing(p) # <<>>
  /\ asked[p] < MaxAsks
  /\ asked' = [asked EXCEPT ![p] = @ + 1]
  /\ Receive(h, Missing(p))
  /\ serving' = [serving EXCEPT ![h] = p]
  /\ UNCHANGED <<cache, decided, losses, faults, fetches, crashes>>

DecideFromCache(p) ==
  /\ p \notin decided /\ ~Waiting(p)
  /\ Missing(p) = <<>>
  /\ decided' = decided \cup {p}
  /\ UNCHANGED <<provars, cache, serving, asked, losses, faults, fetches, crashes>>

\* A response nobody waits for any more is taken for an answer.
BugDeliver(h) ==
  /\ SendResponse(h)
  /\ cache' = [k \in Keys |->
       LET new == {j \in 1..Len(resp[h].items) : resp[h].items[j].key = k}
       IN  IF new = {} THEN cache[k] ELSE {resp[h].items[j] : j \in new}]
  /\ decided' = IF resp[h].systemError THEN decided ELSE decided \cup {serving[h]}
  /\ serving' = [serving EXCEPT ![h] = NoPod]
  /\ UNCHANGED <<asked, losses, faults, fetches, crashes>>

\* The response is written, and read by whoever still waits for it.
Deliver(h) ==
  /\ SendResponse(h)
  /\ IF serving[h] = NoPod
     THEN UNCHANGED <<cache, decided>>
     ELSE /\ cache' = [k \in Keys |->
               LET new == {j \in 1..Len(resp[h].items) : resp[h].items[j].key = k}
               IN  IF new = {} THEN cache[k] ELSE {resp[h].items[j] : j \in new}]
          /\ decided' = IF resp[h].systemError THEN decided ELSE decided \cup {serving[h]}
  /\ serving' = [serving EXCEPT ![h] = NoPod]
  /\ UNCHANGED <<asked, losses, faults, fetches, crashes>>

\* net/http drops the connection of a handler that panicked.
Dropped(h) ==
  /\ pc[h] = "panicked" /\ serving[h] # NoPod
  /\ serving' = [serving EXCEPT ![h] = NoPod]
  /\ UNCHANGED <<provars, cache, decided, asked, losses, faults, fetches, crashes>>

\* Gatekeeper's timeout; the handler goes on.
GiveUp(h) ==
  /\ serving[h] # NoPod /\ pc[h] # "panicked"
  /\ losses < MaxLosses
  /\ losses' = losses + 1
  /\ serving' = [serving EXCEPT ![h] = NoPod]
  /\ UNCHANGED <<provars, cache, decided, asked, faults, fetches, crashes>>

Expire(k) ==
  /\ Cached(k)
  /\ losses < MaxLosses
  /\ losses' = losses + 1
  /\ cache' = [cache EXCEPT ![k] = {}]
  /\ UNCHANGED <<provars, serving, decided, asked, faults, fetches, crashes>>

-----------------------------------------------------------------------------
(***************************************************************************)
(* The provider's steps, with what they mean for the bookkeeping here.     *)
(***************************************************************************)
Local(h) ==
  /\ KeyChainReady(h) \/ InvalidReference(h) \/ VerifyDone(h) \/ Complete(h)
  /\ UNCHANGED <<client, faults, fetches, crashes>>

Results == UNION {FetchResults(k) : k \in Keys}

ConclusiveFetch(h) ==
  /\ \E res \in Results :
       BundleInvalid(h, res) \/ NoBundles(h, res) \/ FetchedBundles(h, res)
  /\ fetches' = [fetches EXCEPT ![Key(h)] = @ + 1]
  /\ UNCHANGED <<client, faults, crashes>>

Fault ==
  /\ faults < MaxFaults
  /\ faults' = faults + 1

\* The keychain or the registry fails: the response keeps the verdicts so far.
Fails(h) ==
  /\ Fault
  /\ KeyChainFails(h) \/ \E res \in Results : FetchAborts(h, res)
  /\ UNCHANGED <<client, fetches, crashes>>

\* An error of the verifier, or a panic: the verdicts so far are lost.
Crashed(h) ==
  /\ \/ Fault /\ VerifyErrors(h)
     \/ UNCHANGED faults /\ \E res \in Results : FetchPanics(h, res)
  /\ crashes' = crashes + 1
  /\ UNCHANGED <<client, fetches>>

\* Every pod is decided on, or has been asked for as often as the bound allows.
Settled ==
  /\ \A p \in Pods : p \in decided \/ asked[p] = MaxAsks
  /\ \A h \in Handlers : serving[h] = NoPod /\ pc[h] \in {"idle", "sent", "panicked"}
  /\ UNCHANGED vars

Handle(h) == Local(h) \/ ConclusiveFetch(h) \/ Fails(h) \/ Crashed(h) \/ Deliver(h)

AdmNext ==
  \/ \E h \in Handlers :
       \/ \E p \in Pods : Ask(p, h)
       \/ Handle(h) \/ Dropped(h) \/ GiveUp(h)
  \/ \E p \in Pods : DecideFromCache(p)
  \/ \E k \in Keys : Expire(k)
  \/ Settled

AdmSpec == AdmInit /\ [][AdmNext]_vars

(***************************************************************************)
(* Fairness: the runtime schedules every handler and every call it makes   *)
(* returns (Fetcher's Termination), with whatever result; net/http drops   *)
(* the connection of one that panicked; Gatekeeper retries a pod it has    *)
(* not decided on.                                                         *)
(***************************************************************************)
Fairness ==
  /\ \A h \in Handlers : WF_vars(Handle(h)) /\ WF_vars(Dropped(h))
  /\ \A p \in Pods :
       WF_vars(DecideFromCache(p) \/ \E h \in Handlers : Ask(p, h))

AdmFairSpec == AdmSpec /\ Fairness

-----------------------------------------------------------------------------
\* Types of the provider's and Gatekeeper's state together.
AdmTypeOK ==
  /\ TypeOK
  /\ cache \in [Keys -> SUBSET Item]
  /\ serving \in [Handlers -> Pods \cup {NoPod}]
  /\ decided \in SUBSET Pods /\ asked \in [Pods -> 0..MaxAsks]
  /\ faults \in 0..MaxFaults /\ losses \in 0..MaxLosses
  /\ fetches \in [Keys -> Nat] /\ crashes \in Nat

(***************************************************************************)
(* Gatekeeper's cache holds verdicts of the images and nothing else: a     *)
(* failure of the registry or of the provider never becomes a cached       *)
(* denial, and no key gets another's answer (provider.go:201-206).         *)
(***************************************************************************)
CacheSound == \A k \in Keys : cache[k] \subseteq {Verdict(k)}

(***************************************************************************)
(* "A retry re-fetches only what is genuinely missing" (provider.go:221):  *)
(* however often other images of a pod fail, an image is fetched to a      *)
(* result once for each place it has in a pod, and once more only after a  *)
(* response was missed, an entry expired or a request crashed.             *)
(***************************************************************************)
Occurrences(k) == Total(Pods, [p \in Pods |-> PlacesOf(k, Images[p])])

OnlyMissingRefetched ==
  \A k \in Keys : fetches[k] <= (1 + losses + crashes) * Occurrences(k)

(***************************************************************************)
(* A pod is decided on in the end, if the faults and losses do, because    *)
(* every image of it ends in an item (provider.go:134-138, :194-198 and    *)
(* :246-292) and partial answers are kept, however often another pod's     *)
(* requests panic.  The exception is a pod with an image one of whose      *)
(* referrers has no layers: every fetch of it may panic (bundle.go:463).   *)
(***************************************************************************)
Decidable(p) == \A i \in DOMAIN Images[p] : ~Holds(Images[p][i], "nolayers")

EveryPodDecided == \A p \in Pods : Decidable(p) => <>(p \in decided)
=============================================================================
