# TLA+ models of the Artifact Attestations OPA Provider

This directory specifies and verifies the provider: the service OPA Gatekeeper
asks, while it admits pods, whether container images carry valid sigstore
attestations. TLC checks the modules on small instances; TLAPS proves the
theorems listed below for every value of the constants.

    tlc -config MCFetcher_timing.cfg MCFetcher     # one run
    tlapm FetcherProofs.tla                        # one module of proofs

`PROJECT.json` lists the components, the runs, the hazards the properties are
for, a mutated definition for every property (with which the property must
fail), the theorems, and for each definition the source lines it models.

## The system

| Component | State | Operations | Interacts with |
|---|---|---|---|
| Validation handler (`pkg/provider`, `cmd/aaop` `validate`) | per request: keys, index, results; shared: Prometheus counters | `Validate`, `sendResponse` | Gatekeeper (HTTP), keychain, fetcher, verifier |
| Bundle fetcher (`pkg/fetcher/bundle.go`) | per call: attempts, trail, digest, index, bundles; package variables `Timeout`, `MaxAttempts`, `Delay`, `RetryThrottled` | `BundleFromName` = `retryBundle` over `DoBundleFromName`; classification functions | the registry (three kinds of call), the request's context |
| Verifiers (`pkg/verifier`, `internal/app`) | trust roots, loaded at startup | `Verify`, `VerifyOne` | called by the handler |
| Keychain provider (`pkg/authn`) | an atomically swapped snapshot | `Start`, `refreshLoop`, `KeyChain` | the cluster's secrets; read by every request |
| CA injector (`pkg/cainjector`) | none of its own: the `Provider` object's `caBundle` | `Start`, `refreshLoop`, `UpdateCABundle` | API server, mounted `ca.crt`, the injectors of other replicas |
| Server (`cmd/aaop` `main`, `run`) | listener, signal context, error channel | start, serve, shut down | everything above |
| Configuration (`cmd/aaop`, `pkg/fetcher`, `internal/app`) | the fetcher's package variables, the shared registry transport, the list of verifiers | `configureRegistryPool`, `configureBundleFetcher`, `CreateVerifier` | run once by `main`, read by every request |
| Trace collector (`pkg/fetcher/trace.go`) | phases of a connection, under a mutex | httptrace hooks, `Fields` | net/http goroutines; feeds log fields |
| Gatekeeper (external) | cache of items by key | asks, caches, retries | the handler |
| `cver`, Rego policies, Helm chart | none | | |

What is hard here: a fetch is a conversation of several calls with a registry
that changes meanwhile, under two nested deadlines and a caller that may go at
any moment; one image of several fails and the rest of the answer must neither
be lost nor be wrong, because Gatekeeper caches it; handlers share counters;
background refreshers race with shutdown and fail part way; several replicas
read, merge and write one Kubernetes object that Gatekeeper follows with a
delay; the listener, the metrics server, signals and requests in progress race
when the process ends; connection hooks of an abandoned request run during the
next one.

What makes each part correct:

* fetcher: a result is one consistent reading of the registry; failures are
  classified and justified; the trail is complete; the call ends in time;
* handler: items are verdicts of the images and nothing else, in order; partial
  answers only together with a system error; the counters add up;
* with Gatekeeper: nothing but verdicts is ever cached; retries fetch only what
  is missing; every pod whose images can be fetched without a panic is decided
  on in the end;
* keychain: requests never get a worse keychain than before; rotated secrets
  are picked up; the refresher stops;
* CA injector: no unexpired CA is dropped; a serving replica's CA is trusted;
  replicas do not fight over the object; new CAs get in and expired ones out;
* server: it serves with the configuration its flags ask for; shutdown drops no
  request before its deadline; it ends when told to or when it cannot listen;
* trace collector: what is logged of a request is that request's.

## Modules

    FetchErrors -- FetchResult --+-- FetchContract ..(refined by).. Fetcher -- FetcherProofs
                                 +-- Provider --+-- ProviderProofs --+
                                                +-- Admission -------+-- AdmissionProofs
    TrustedCAs ..(refined by).. CAInjector -- CAInjectorProofs
    Config -- Server -- ServerProofs    TraceCollector -- TraceProofs
    KeyChain -- KeyChainProofs          Collections -- CollectionProofs

`Provider`, `CAInjector` and `Config` extend `Collections`, and their proofs
`CollectionProofs`.

| Module | Models |
|---|---|
| `FetchErrors` | the failure taxonomy: `classifyTransport`, `newFetchError`, `kindFromContext`, ... as pure operators |
| `FetchResult` | `BundleResult` and `*FetchError` as one record |
| `FetchContract` | abstract specification of a fetch: a trail grows by retryable failures until a success, a justified failure or the caller's departure |
| `Fetcher` | `retryBundle` and `DoBundleFromName`, one action per registry call, with the registry, the caller's context and the clock as environment |
| `Provider` | `transport.validate` and `Provider.Validate`, one action per way an iteration or the request can end, for concurrent handlers; the counters; `Multi.Verify` |
| `Admission` | `Provider` composed with Gatekeeper: its cache, its timeout, expiry, retries |
| `KeyChain` | `KeyChainProvider`: `buildKeychain` authenticator by authenticator, the refresh loop, shutdown |
| `CAInjector` | `UpdateCABundle` of several replicas against the API server's optimistic concurrency; `mergeAndEncode`; what Gatekeeper trusts meanwhile |
| `TrustedCAs` | abstract specification of the injectors: the Provider holds a set of certificates, and an update is one step |
| `Collections` | the part of a list a loop keeps, and sums over a set, defined without recursion |
| `Config` | flag validation, derived phase timeouts, the registry transport and the selection of trust roots, as pure operators |
| `Server` | `main` and `run`, one action per step that can fail or race, with the listener's and the metrics server's goroutines, signals, requests and time |
| `TraceCollector` | the hooks of `Trace` and `Fields`, one action per hook, for the requests of one fetch |
| `MC*` | instances for TLC |
| `*Proofs` | theorems and their proofs |

### How the state corresponds to the code

`Fetcher`. `pc` is the place in `retryBundle` or the registry call in progress;
`attempts`, `outcomes`, `digest`, `bundles` are the variables of those names,
`listed` is the referrers index. `left` counts the ticks before the attempt's
deadline or the delay timer fires. A referrer is a manifest with a subject
digest and a content: a decodable bundle, a malformed one, one without layers,
or something that is not a sigstore bundle. Calls are separate steps, so the
tag may move and referrers may come and go between them. Errors are records of
what the code tells apart (context error, transport status, diagnostics).

`Provider`. `pc`, `keys`, `next`, `items` per handler are the position in
`Validate`'s loop and its `results`; `Return` is a `return` with the deferred
observation of the request timer. A fetch returns any result the image allows
or any of `FetchFailures`; that a fetch which succeeds, finds an undecodable
bundle or panics does so because of what is attached to the image is
`TellsTheImage` of `Fetcher`. `KeyChain` and `Verify` can fail through their
interfaces (`FaultyKeyChain`, `FaultyVerifier`); the implementations in this
repository never do, the handler's error paths are checked all the same. A
bundle is verified if some trust root accepts its signature and its statement
is about the digest; the cryptography behind it is the parameters `Trusts` and
`Attests`. `unjudged` and `completed` are history variables.

`Admission`. Gatekeeper is not in this repository. It is modelled from what the
provider's comments and response rely on: it asks for a pod's images that are
not cached, in order; caches every item of a response, with or without a system
error; retries a pod it could not decide on. `faults` counts the failures of
keychain, registry and verifier, and `asked` how often Gatekeeper has asked for
a pod. A panic is not a fault, for it comes from the image: a pod with an image
one of whose referrers has no layers may lose every request to it, and
`EveryPodDecided` is about the others (`Decidable`). `losses` counts answers Gatekeeper
misses or forgets, and the history variable `crashes` the requests that lost the
verdicts they had reached, by a panic or an error of the verifier. These are
what a conclusive fetch may be repeated for; a fetch that fails is not among
them, since its request answers with the verdicts reached before it.

`KeyChain`. A keychain is the version of the secrets each authenticator was
built from, 0 if it is missing. The ticker's channel holds one tick.

`CAInjector`. A `caBundle` is the list of its certificates and whether its text
is `canonical`. One certificate has many PEM texts (line width, headers,
comments around it, a missing last newline) and `mergeAndEncode` writes one of
them, while `UpdateCABundle` compares texts (`injector.go:92`); so a bundle the
operator installed in another text is rewritten, once, though its certificates
are those of the merge (`UpToDate`). `version` is the object's
`resourceVersion`, which the typed round trip of `getProvider` and
`updateProvider` preserves, so that a stale write conflicts. `injected` is a
history variable: the `ca.crt` of the last update that returned nil. A process
whose `Start` failed is down (`log.Fatalf`) and restarted by Kubernetes.
`trusted` and `picked` are Gatekeeper's copy of the object and its version, and
`lag` the ticks since it first missed a write. The wait after a write is the
code's fixed timer: `age` counts its ticks, and it is over at
`PropagationDelay` whatever Gatekeeper has seen (`Propagated`). That the delay
is long enough is an assumption of the code, and a named one here:
`GatekeeperLag < PropagationDelay` (`DelayAssumption`), where `TimePasses` lets
Gatekeeper fall behind by no more than `GatekeeperLag`. `waited` tells an update
that waited from one that found the bundle up to date. The merge is defined by position instead of by a loop: the
first occurrence of every unexpired certificate is kept, and goes to the place
given by the number of those kept before it (`Kept`, and `Rank` and `Picked` of
`Collections`, which also serve for the list flags of `Config` and for the
images of a pod that `Admission` has to ask for).

`Config` and `Server`. `flags` is the command line, a setting per package
variable of the fetcher (durations in milliseconds; 0.6 and 0.8 are 3 and 4
fifths) and the lists of trust roots; `fetcher`, `transport`, `configInfo` are
the package variables, `registryTransport` and the config-info gauge. `pc` is
the place in `main`; `errChan` and `closed` are `run`'s channel and its deferred
close. `net/http` is external: `Shutdown` closes the listener and waits for the
requests in progress, and a listener that starts during it returns
`ErrServerClosed`, while one that fails between its check and its first
`Accept` (no port, no certificate) returns its own error. `log.Fatal`, a panic and the return of `main`
end the process and drop what is in progress (`End`). A signal before
`signal.NotifyContext` kills the process. What the injector and the keychain do
once started is in `CAInjector` and `KeyChain`; to `main` they return or fail.

`TraceCollector`. A duration or timestamp is the set of requests whose events
it was taken from, so that mixing two requests shows. An unset duration is the
set of -1, `durationUnset` in the code, and an unset timestamp the empty set;
what is the empty set where a duration should be is Go's zero value.
The request's own goroutine calls `GetConn` and `GotConn`; the dial, write and
read goroutines of the transport call the other hooks, during the request or,
since a request that times out does not wait for them, after it.

## Runs

| Run | Shows | Distinct states |
|---|---|---|
| `fetcher_registry` | a success is one attempt's reading of one digest though the registry changes twice during the call; if it does not change, the result tells what it holds; the loop gives up early only for a reason; `Fetcher` implements `FetchContract` | 721k |
| `fetcher_timing` | trail, blame, at most one attempt after the caller has gone, the time budget, termination with a registry that never answers | 297k |
| `provider` | responses hold verdicts only; retrieved bundles are accounted for at every moment | 84k |
| `provider_timer` | **violation**, see Findings | |
| `admission_retry` | every pod without a layerless image is decided on, whichever of keychain, registry and verifier fails, whatever is missed or expires, and though another pod's requests all panic | 61k |
| `admission_crash` | sound cache and no needless fetches when handlers panic, the keychain, the verifier or the registry fails and answers are missed or expire | 90k |
| `keychain` | the cached keychain only improves, catches up with the secrets, and the refresher stops | 9k |
| `ca_race` | no lost CA, no idle write but the one that puts the operator's text into canonical form, serving replicas in the bundle, and trusted by Gatekeeper once they have waited, under every interleaving of two replicas; `CAInjector` implements `TrustedCAs` | 1.0M |
| `ca_live` | a new CA gets in and an expired one out | 56k |
| `server` | the configuration in force is the one asked for; requests survive a shutdown that has time for them; the error channel's panic needs a signal; the process ends | 453k |
| `trace` | a reuse is the current request's; a first byte is recorded only once the current request has a connection; without late hooks all fields are the current request's | 225k |
| `trace_late` | **violation**, see Findings | |

Bounds, and why they are enough. Attempts: 2 where the registry changes, 3
where time matters (a first, a middle and a last attempt). Registry changes: 2,
so that the tag can move and a referrer come or go within one call, or move and
move back. Referrers: one of each content, two bundles where the loop over them
matters. Call errors: one of each class the code distinguishes. Handlers: 2
with 3 requests, so that one handler is reused while the other is in the middle
of a request; requests of up to three keys, with a key of each kind in front
of, between and after others. Pods: 2 that share an image, one of them with an
image whose fetch panics, with 1 fault and 1 loss, either of which can fall on
either pod. Gatekeeper asks for a pod 3 times at most: once, and once more for
each of these, so that the bound stops no pod but the one that panics
(`EveryPodDecided` would fail if it stopped another); the 6 requests are those
of both pods, so that neither takes the other's. Where handlers crash: the same
bounds, a pod that names one image twice and one whose second image panics, so
that a verdict is lost on the way. Keychain: 2 rotations and 3 authenticator
failures, so that a rotation falls into a build and both authenticators fail in
one build and one in another. Replicas: 2, as in the chart; 1 rotation, 1
expiry, 1 failed call (with or without effect), 1 kill or shutdown; the
operator's bundle has a duplicate or a text of its own. The propagation delay is
2 ticks and Gatekeeper's lag 1, so that a write can be picked up before, during
and after a tick of another's wait. A second rotation would add nothing to the
merges: the replicas already see different files, and the theorems hold for any
number. `ca_live` starts from a bundle of one certificate and has no kill: a
call that fails in `Start` brings the restart. The replicas are interchangeable,
so `ca_race` uses symmetry; `ca_live` does not, for it checks liveness. Command
lines: 56, each setting at -1, 0, 1 and a large value, the attempt's budget
around the floor and around what it is the fraction of (249 to 251, 416 to 420),
trust root lists with blanks, default and other domains, complete and incomplete
custom repositories. Requests to the server: 2, so that one is done and one not
when the deadline passes; a tick is half of the shutdown's 5 seconds. Requests
of a traced fetch: 2, an abandoned one and its successor.

Fairness. `Fetcher`: the goroutine runs, timers run, and a call whose context
is done returns; nothing is assumed of the registry. The clock stands still
between a deadline and the return it causes, so `WithinBudget` is about the
timers, not about scheduling latency. `Admission`: handlers are
scheduled and their calls return (for a fetch that is `Fetcher`'s
`Termination`), with whatever result, as long as failures that are not of the
image come to an end (`MaxFaults`); `net/http` drops the connection of a handler
that panicked; Gatekeeper retries. `KeyChain`: the
ticker ticks, a build ends (it is bounded by `keychainBuildTimeout`), and Go's
`select`, which picks a ready case at random, does not pass over shutdown for
ever (strong fairness). `CAInjector`: goroutines and tickers run, Kubernetes
restarts pods and projects the secret, Gatekeeper watches the Provider, time
passes.
`Server`: `main` and the goroutine that sends the error run, the calls made at
startup return, time passes; nothing is assumed of the handlers, which may last
for ever. No run turns the deadlock check off.

## Findings

`provider_timer`. The help text of `aaop_attestations_request_timer` says
"success means the provider produced a complete response of per-image verdicts"
(`src/pkg/metrics/prom.go:67`). `DoBundleFromName` indexes `layers[0]` of a
referrer image that may have none (`src/pkg/fetcher/bundle.go:463`). The panic
runs the deferred function of `Validate` with `systemErr` still false
(`src/pkg/provider/provider.go:93-102`): the request is observed as a success
though no response was produced. `TimerRightUnlessPanic` proves that nothing
else breaks the promise: if every referrer has a layer, a request observed as a
success has produced a complete response. `admission_crash` shows that the cache stays
sound all the same.

`trace_late`. The comment in `GetConn` says "Reset every per-request field so a
stall in this request is never described with a prior request's connection
state" (`src/pkg/fetcher/trace.go:78`). The hooks do not know whose they are. A
request whose deadline has passed does not wait for the goroutines that dial,
write and read for it, and when one of their hooks runs after the next request's
`GetConn`, it is recorded as that request's. TLC's shortest traces need no dial:
a late `WroteRequest` of request 1, on a reused connection, sets `wrote_request`
of request 2. A late `DNSDone`, `ConnectDone` or `TLSHandshakeDone` does the same
to a phase, and a late first byte to `ttfb_ms` once request 2 has a connection.
So the black-hole signature (`wrote_request=true` with `ttfb_ms=-1`) can be
reported of a request that was never written, or hidden by an earlier request's
first byte. What holds with late hooks too: `conn_reused` is the current
request's (`ReuseIsOwn`), and no first byte is recorded before the current
request has a connection (`FirstByteNeedsConn`), which does not say that the
byte is its own. Without them the whole record is right (`FaithfulUnlessLate`).

Three behaviours that contradict no document, which the properties delimit:

* `run` closes `errChan` when it returns on a signal (`aaop.go:313`). A listener
  that fails at that moment, with anything but `ErrServerClosed`, sends on the
  closed channel, and the process panics instead of shutting down.
  `PanicOnlyAtShutdown` shows that it takes a signal before the failure.
* An update that finds the bundle up to date does not wait (`injector.go:92`).
  If another replica, or the same one before a restart, wrote it a moment ago,
  the replica serves before Gatekeeper trusts its CA. `GatekeeperTrusts` shows
  that this is the only such case, and that it ends when Gatekeeper has picked
  up the write, provided `propagationDelay` is longer than Gatekeeper takes.
* A pod with an image one of whose referrers has no layers need never be decided
  on: Gatekeeper retries, and each request may panic at `bundle.go:463`.
  `EveryPodDecided` shows that it keeps no other pod waiting.

## Proofs

All for any number of handlers, images, referrers, attempts and so on, from the
named assumptions on the constants. Every invariant and every action property
that a passing run checks is a theorem.

* `CollectionProofs`. `Rank` numbers a finite set of places without gaps
  (`RankCounts`), so `Picked` holds exactly the elements at those places, in
  order; no induction over the list is needed, since it is defined by position.
  A sum is the size of a set of tagged elements (`Total`), so what a step of one
  handler does to it follows from what it does to that handler's part.
* `FetcherProofs`. The inductive invariant `IInv` adds to the properties what a
  step needs to know of the loop: `Shape` (how `pc`, `attempts`, the trail and
  the result hang together), `Reading` (what the attempt in progress has read),
  `Lateness` (where the loop was when the context was done) and `Clock` (ticks
  used so far, against the attempts made; the property alone is not inductive,
  for it does not say what is left). From it: `TypeCorrect`, `TrailIsComplete`,
  `SuccessIsOneReading`, `ContextBlameIsJustified`, `GivesUpLate`,
  `AtMostOneLateAttempt`, `TimeIsBounded`. `FetcherImplementsContract` shows
  that every step of the detailed loop is a step of `FetchContract` or leaves
  its variables alone. `AlwaysTellsTheImage` needs `Current` besides: until the
  registry moves, the digest, the index and the bundles read so far are the
  registry's, and only the bundles themselves make a fetch blame them.
* `ProviderProofs`. `PInv`: the items a handler has collected are the verdicts
  of the keys it has passed, and a verification in progress is of all bundles
  of the key in work. One lemma per way a key gets its verdict, one per action.
  From it: `TypeCorrect`, `ResponsesAreVerdicts`. `EveryBundleAccounted`: a step
  that retrieves, judges or abandons bundles changes one handler's part of the
  sum and one counter by the same number. `TimerRightUnlessPanic` has the
  hypothesis `AllHaveLayers`, under which no handler panics.
* `AdmissionProofs`. `AInv` adds the cache to `PInv`; the handlers' steps are
  covered by the lemmas of `ProviderProofs`, so only Gatekeeper's are new. From
  it: `CacheStaysSound`, `AdmTypeCorrect`. `OnlyMissingIsRefetched` counts, which
  needs to know what may still be fetched: `BInv` bounds, for each key, the
  conclusive fetches made together with those the requests in progress and the
  pods not decided on can still cause (`ToFetch`, `ToAsk`) by the places of the
  key, once more for every loss and crash (`Spent`, `InBudget`). A request moves
  its share from one term to the other, and only a loss or a crash allows for
  another round. `AdmissionImplementsProvider`: the composition behaves like the
  handlers alone, so their theorems hold in it (`AdmissionAnswersRight`).
* `KeyChainProofs`. `IInv` orders the ages of what is cached, under
  construction and in the cluster. From it: `TypeCorrect`,
  `KeychainOnlyImproves`.
* `CAInjectorProofs`. First what the merge computes, for all bundles: it has
  exactly the unexpired certificates of both (`MergeIsUnion`), and if these are
  the Provider's, it is shorter than the Provider's list or equal to it
  (`MergeThins`). Then `CInv`: a copy is of a version the object has had and, if
  that is still its version, is the object with its text (`CopyInv`); a bundle
  about to be written is the merge of such a copy up to certificates that have
  expired since, and worth writing instead of that copy (`WriteInv`); what has been written stays,
  and while Gatekeeper has not picked it up, the writer's timer is not ahead of
  Gatekeeper's lag and so has not run out (`WaitInv`, `Serves`); it is in
  Gatekeeper's copy once picked up (`PickedInv`, `Trusts`). From it:
  `TypeCorrect`, `AlwaysServingTrusted`, `AlwaysGatekeeperTrusts`,
  `AlwaysUnexpiredRetained`, `AlwaysEveryWriteCounts`.
  `InjectorsImplementTrustedCAs` refines `TrustedCAs`: the write of a merge is
  the abstract `Update`, everything else a replica does is a stutter. `MergeInv`
  remembers which version of the secret went into a merge and which certificates
  it left out, all expired. On the way from it, `OnlyBroughtIsTrusted`:
  Gatekeeper trusts no certificate but the operator's and those of a `ca.crt`.
* `ServerProofs`. `SInv`: how far the configuration has got at each place in
  `main` (`ConfigInv`), that the channel is closed only after a signal and the
  listener sends once (`ChannelInv`), and that a request's age is at least the
  part of the shutdown's timeout that has passed (`RequestInv`). From it:
  `TypeCorrect`, `AlwaysTransportFollowsFlags`, `AlwaysStallLeavesBudget`,
  `AlwaysShutdownKeepsRequests`, `AlwaysPanicOnlyAtShutdown`. For
  `AlwaysVerifiersAsAsked`, `LoadedInv`: the verifiers loaded so far are the
  first of those `CreateVerifier` makes of the flags, and all of them past the
  place where they are loaded.
* `TraceProofs`. `TInv`: only requests made so far have a dial, a connection, a
  write or an answer (`HttpInv`), `gotConnAt` is set exactly while the current
  request has a connection (`ConnInv`), and without late hooks every field is
  the current request's (`OwnInv`). From it: `TypeCorrect`, `AlwaysReuseIsOwn`,
  `AlwaysFirstByteNeedsConn`, `AlwaysFaithfulUnlessLate`.

The assumptions on the constants say what they are; those with content: the
handlers (goroutines), the pods and the referrers are finite sets, every part of
a pod's list of images may be requested, the requests
are no fewer than Gatekeeper may make for all pods, Gatekeeper picks a write up
within `propagationDelay` (`DelayAssumption`), attempts and the attempt's timeout are
at least one, the shutdown's timeout is less than the server's write timeout (5
and 10 seconds, literals in `aaop.go`), and bounds are natural numbers.

Only model-checked: the liveness properties (`Termination`, `EveryPodDecided`,
`CatchesUp`, `RefresherStops`, `InjectedInTheEnd`, `ExpiredPruned`,
`EndsWhenTold`), since fairness and ENABLED are beyond this prover.

## Not modelled

* The TUF client and signature verification (sigstore-go): libraries; which
  roots are asked for, and that a load may fail, is modelled.
* `bundleSubjects`, `AttemptTrail`, logging, histogram values and labels: text.
* `CABundleRefreshFail`: a counter no property is about.
* `TraceEnabled`: whether the collector of `TraceCollector` is attached at all.
* `cver`: a sequential program that reads one bundle, verifies it and prints;
  what it calls is modelled with the service.
* The Rego policies and the chart: stateless policy text that Gatekeeper
  evaluates, and deployment data; the number of replicas and the Provider's
  timeout are taken from the chart.

## Plan

1. Done: fetcher, its contract and proofs; handler, Gatekeeper and proofs;
   keychain and proofs; CA injector with Gatekeeper's view, its abstract
   specification and proofs; server, configuration, trace collector and proofs.
2. Left: `TellsTheImage` stated of `Provider`'s own `FetchResults`, so that the
   two modules meet in a theorem; an abstract specification of the keychain
   snapshot; the safety parts on which the liveness properties rest (what is
   never undone while waiting) as theorems.
