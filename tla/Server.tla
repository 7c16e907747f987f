------------------------------- MODULE Server -------------------------------
(***************************************************************************)
(* The life of the aaop process (cmd/aaop/aaop.go): main configures the    *)
(* fetcher, loads the verifiers, starts the metrics server, the CA         *)
(* injector and the keychain, and runs the HTTPS server until a signal or  *)
(* a failure of the listener; then it shuts down with a deadline.          *)
(*                                                                         *)
(* net/http's Server is external: Shutdown closes the listener and returns *)
(* when no request is in progress or its context is done, and a listener   *)
(* that starts or fails while it shuts down returns ErrServerClosed.       *)
(* log.Fatal, a panic and the return of main end the process at once,      *)
(* whatever requests are in progress.                                      *)
(***************************************************************************)
EXTENDS Config

CONSTANTS
  Flags,            \* command lines
  Requests,         \* requests made to the process
  ShutdownTimeout,  \* ticks of Shutdown's context (5 seconds)
  WriteTimeout      \* ticks in which a response can be written (10 seconds)

FlagType ==
  [settings : [Setting -> Int], tufRepo : STRING, tufRoot : STRING,
   tufTargets : Seq(STRING), trustDomains : Seq(STRING), noPGI : BOOLEAN,
   updateCABundle : BOOLEAN, caBundleRefreshInterval : Int]

ASSUME FlagsAssumption == Flags \subseteq FlagType
ASSUME TimeoutsAssumption ==
  ShutdownTimeout \in Nat \ {0} /\ WriteTimeout \in Nat /\ ShutdownTimeout < WriteTimeout

VARIABLES
  flags,       \* the command line
  fetcher,     \* the fetcher's package variables
  transport,   \* registryTransport
  configInfo,  \* the config-info gauge
  verifiers,   \* the verifiers loaded
  pc,          \* where main is
  ctx,         \* "live", or "done" after a signal
  prom,        \* the metrics server
  listener,    \* the goroutine in ListenAndServeTLS
  errChan,     \* run's error channel, of capacity 1
  closed,      \* errChan is closed
  inShutdown,  \* Shutdown has been called
  left,        \* ticks left of Shutdown's context
  request,     \* the state of each request
  age,         \* ticks since it was accepted, at most WriteTimeout
  exit         \* "running", or why the process has ended

config == <<flags, fetcher, transport, configInfo, verifiers>>
net    == <<listener, errChan, closed, inShutdown>>
reqs   == <<request, age>>
vars   == <<config, pc, ctx, prom, net, left, reqs, exit>>

Running == exit = "running"
InProgress == {q \in Requests : request[q] = "active"}

Init ==
  /\ flags \in Flags
  /\ fetcher = Defaults /\ transport = newRegistryTransport(Defaults)
  /\ configInfo = [s \in FetchVars |-> 0]
  /\ verifiers = <<>>
  /\ pc = "pool" /\ ctx = "live" /\ prom = "off"
  /\ listener = "none" /\ errChan = <<>> /\ closed = FALSE /\ inShutdown = FALSE
  /\ left = 0
  /\ request = [q \in Requests |-> "none"] /\ age = [q \in Requests |-> 0]
  /\ exit = "running"

\* The process ends; requests in progress lose their connection.
End(why) ==
  /\ exit' = why
  /\ pc' = "ended"
  /\ request' = [q \in Requests |-> IF request[q] = "active" THEN "dropped" ELSE request[q]]
  /\ UNCHANGED <<config, ctx, prom, net, left, age>>

-----------------------------------------------------------------------------
(***************************************************************************)
(* main, up to run.                                                        *)
(***************************************************************************)
ConfigureRegistryPool ==
  /\ pc = "pool"
  /\ \/ ~ValidPool(flags.settings) /\ End("config")
     \/ /\ ValidPool(flags.settings)
        /\ fetcher' = Apply(fetcher, flags.settings, PoolVars)
        /\ pc' = "fetcher"
        /\ UNCHANGED <<flags, transport, configInfo, verifiers, ctx, prom, net, left, reqs, exit>>

\* The transport is rebuilt before the variables are set.
BugRebuild(new) == newRegistryTransport(fetcher)
Rebuild(new) == newRegistryTransport(new)

\* configureBundleFetcher with ConfigureTransport, RetryThrottled, SetConfigInfo.
ConfigureBundleFetcher ==
  LET new == Apply(fetcher, flags.settings, FetchVars \cup PhaseVars)
  IN  /\ pc = "fetcher"
      /\ \/ ~ValidFetch(flags.settings) /\ End("config")
         \/ /\ ValidFetch(flags.settings)
            /\ fetcher' = new
            /\ transport' = Rebuild(new)
            /\ configInfo' = [s \in FetchVars |-> new[s]]
            /\ pc' = "verifiers"
            /\ UNCHANGED <<flags, verifiers, ctx, prom, net, left, reqs, exit>>

\* One trust root after the other is loaded; each load can fail.
LoadVerifier ==
  /\ pc = "verifiers" /\ Len(verifiers) < Len(CreateVerifier(flags))
  /\ \/ End("verifiers")
     \/ /\ verifiers' = Append(verifiers, CreateVerifier(flags)[Len(verifiers) + 1])
        /\ UNCHANGED <<flags, fetcher, transport, configInfo, pc, ctx, prom, net, left, reqs, exit>>

\* The metrics server's goroutine, and signal.NotifyContext.
StartMetrics ==
  /\ pc = "verifiers" /\ Len(verifiers) = Len(CreateVerifier(flags))
  /\ prom' = "starting"
  /\ pc' = "ca"
  /\ UNCHANGED <<config, ctx, net, left, reqs, exit>>

\* cainjector.Start is called with a context that is not done: its first call
\* of the API server fails otherwise.
CallInjector ==
  /\ pc = "ca"
  /\ \/ ~flags.updateCABundle /\ pc' = "keychain"
     \/ flags.updateCABundle /\ flags.caBundleRefreshInterval > 0 /\ ctx = "live"
        /\ pc' = "injecting"
  /\ UNCHANGED <<config, ctx, prom, net, left, reqs, exit>>

InjectorStarted ==
  /\ pc = "injecting"
  /\ pc' = "keychain"
  /\ UNCHANGED <<config, ctx, prom, net, left, reqs, exit>>

\* No client, a bad interval, or an update that failed or was interrupted.
InjectorFails ==
  /\ pc = "injecting" \/ (pc = "ca" /\ flags.updateCABundle)
  /\ End("ca")

\* run closes the channel before it selects.
BugStartKeyChain ==
  /\ pc = "keychain"
  /\ pc' = "run"
  /\ listener' = "started"
  /\ closed' = TRUE
  /\ UNCHANGED <<config, ctx, prom, errChan, inShutdown, left, reqs, exit>>

\* kc.Start always returns; then run starts the listener's goroutine.
StartKeyChain ==
  /\ pc = "keychain"
  /\ pc' = "run"
  /\ listener' = "started"
  /\ UNCHANGED <<config, ctx, prom, errChan, closed, inShutdown, left, reqs, exit>>

-----------------------------------------------------------------------------
(***************************************************************************)
(* run's select, with the deferred close, and the shutdown.                *)
(***************************************************************************)
RunSelectsError ==
  /\ pc = "run" /\ errChan # <<>>
  /\ End("listen")

RunSelectsDone ==
  /\ pc = "run" /\ ctx = "done"
  /\ closed' = TRUE
  /\ pc' = "shutdown"
  /\ UNCHANGED <<config, ctx, prom, listener, errChan, inShutdown, left, reqs, exit>>

\* The shutdown's context is made from the one that is done.
BugBeginShutdown ==
  /\ pc = "shutdown"
  /\ inShutdown' = TRUE
  /\ listener' = IF listener = "accepting" THEN "closed" ELSE listener
  /\ left' = 0
  /\ pc' = "draining"
  /\ UNCHANGED <<config, ctx, prom, errChan, closed, reqs, exit>>

BeginShutdown ==
  /\ pc = "shutdown"
  /\ inShutdown' = TRUE
  /\ listener' = IF listener = "accepting" THEN "closed" ELSE listener
  /\ left' = ShutdownTimeout
  /\ pc' = "draining"
  /\ UNCHANGED <<config, ctx, prom, errChan, closed, reqs, exit>>

ShutdownDone ==
  /\ pc = "draining" /\ InProgress = {}
  /\ End("graceful")

ShutdownTimesOut ==
  /\ pc = "draining" /\ left = 0
  /\ End("deadline")

-----------------------------------------------------------------------------
(***************************************************************************)
(* The listener's goroutine: ListenAndServeTLS binds the port and loads    *)
(* the certificate, then accepts.                                          *)
(***************************************************************************)
Listens(state) ==
  /\ listener' = state
  /\ UNCHANGED <<config, pc, ctx, prom, errChan, closed, inShutdown, left, reqs, exit>>

ListenAndServeTLS ==
  /\ Running /\ listener = "started"
  /\ Listens(IF inShutdown THEN "closed" ELSE "binding")

Bind ==
  /\ Running /\ listener = "binding"
  /\ Listens(IF inShutdown THEN "closed" ELSE "accepting")

\* No port, no certificate, or an error of Accept.
ListenerFails ==
  /\ Running /\ listener \in {"binding", "accepting"}
  /\ Listens("failed")

\* The error is only logged.
BugSendError ==
  /\ Running /\ listener = "failed"
  /\ listener' = "sent"
  /\ UNCHANGED <<config, pc, ctx, prom, errChan, closed, inShutdown, left, reqs, exit>>

\* The goroutine tries to listen again.
BugSendErrors ==
  /\ Running /\ listener = "failed"
  /\ \/ closed /\ End("panic")
     \/ /\ ~closed
        /\ errChan' = Append(errChan, "error")
        /\ listener' = "started"
        /\ UNCHANGED <<config, pc, ctx, prom, closed, inShutdown, left, reqs, exit>>

\* A send on a closed channel panics.
SendError ==
  /\ Running /\ listener = "failed"
  /\ \/ closed /\ End("panic")
     \/ /\ ~closed
        /\ errChan' = Append(errChan, "error")
        /\ listener' = "sent"
        /\ UNCHANGED <<config, pc, ctx, prom, closed, inShutdown, left, reqs, exit>>

-----------------------------------------------------------------------------
(***************************************************************************)
(* Around them: the metrics server, signals, requests and time.            *)
(***************************************************************************)
PromListens ==
  /\ Running /\ prom = "starting"
  /\ prom' = "up"
  /\ UNCHANGED <<config, pc, ctx, net, left, reqs, exit>>

PromFails ==
  /\ Running /\ prom # "off"
  /\ End("metrics")

Notified == pc \notin {"pool", "fetcher", "verifiers"}

Signal ==
  /\ Running /\ ctx = "live" /\ Notified
  /\ ctx' = "done"
  /\ UNCHANGED <<config, pc, prom, net, left, reqs, exit>>

SignalKills ==
  /\ Running /\ ~Notified
  /\ End("killed")

Accept(q) ==
  /\ Running /\ listener = "accepting" /\ request[q] = "none"
  /\ request' = [request EXCEPT ![q] = "active"]
  /\ UNCHANGED <<config, pc, ctx, prom, net, left, age, exit>>

\* The handler returns; after WriteTimeout its response cannot be written.
Finish(q) ==
  /\ Running /\ request[q] = "active"
  /\ request' = [request EXCEPT ![q] = IF age[q] < WriteTimeout THEN "answered" ELSE "unwritten"]
  /\ UNCHANGED <<config, pc, ctx, prom, net, left, age, exit>>

Tick ==
  /\ Running /\ (pc = "draining" => left > 0)
  /\ left' = IF pc = "draining" THEN left - 1 ELSE left
  /\ age' = [q \in Requests |-> IF request[q] = "active" /\ age[q] < WriteTimeout
                                THEN age[q] + 1 ELSE age[q]]
  /\ UNCHANGED <<config, pc, ctx, prom, net, request, exit>>

Main ==
  \/ ConfigureRegistryPool \/ ConfigureBundleFetcher \/ LoadVerifier \/ StartMetrics
  \/ CallInjector \/ InjectorStarted \/ InjectorFails \/ StartKeyChain
  \/ RunSelectsError \/ RunSelectsDone \/ BeginShutdown \/ ShutdownDone \/ ShutdownTimesOut

Ended == ~Running /\ UNCHANGED vars

Next ==
  \/ Main
  \/ ListenAndServeTLS \/ Bind \/ ListenerFails \/ SendError
  \/ PromListens \/ PromFails \/ Signal \/ SignalKills
  \/ \E q \in Requests : Accept(q) \/ Finish(q)
  \/ Tick \/ Ended

Spec == Init /\ [][Next]_vars

(***************************************************************************)
(* Fairness: goroutines are scheduled, calls made at startup return and    *)
(* time passes.  Nothing is assumed of the handlers: a request may last.   *)
(***************************************************************************)
FairSpec == Spec /\ WF_vars(Main) /\ WF_vars(SendError) /\ WF_vars(Tick)

-----------------------------------------------------------------------------
Exits == {"running", "config", "verifiers", "ca", "listen", "metrics", "killed",
          "graceful", "deadline", "panic"}

\* Types; the error channel never holds more than it has room for, so the
\* listener's goroutine never blocks on it (aaop.go:313-321).
TypeOK ==
  /\ flags \in Flags
  /\ fetcher \in [Setting -> Int]
  /\ transport \in [PhaseVars \cup PoolVars -> Int]
  /\ configInfo \in [FetchVars -> Int]
  /\ pc \in {"pool", "fetcher", "verifiers", "ca", "injecting", "keychain", "run",
             "shutdown", "draining", "ended"}
  /\ ctx \in {"live", "done"} /\ prom \in {"off", "starting", "up"}
  /\ listener \in {"none", "started", "binding", "accepting", "failed", "sent", "closed"}
  /\ errChan \in {<<>>, <<"error">>}
  /\ closed \in BOOLEAN /\ inShutdown \in BOOLEAN
  /\ left \in 0..ShutdownTimeout
  /\ request \in [Requests -> {"none", "active", "answered", "unwritten", "dropped"}]
  /\ age \in [Requests -> 0..WriteTimeout]
  /\ exit \in Exits

(***************************************************************************)
(* Requests are served with the transport the flags ask for, pool and      *)
(* timeouts, and the gauge shows "what is actually in force" (aaop.go:105, *)
(* :273), though two functions set the variables and one builds from them. *)
(***************************************************************************)
TransportFollowsFlags ==
  listener = "accepting" =>
    /\ transport = newRegistryTransport(flags.settings)
    /\ \A s \in FetchVars : configInfo[s] = flags.settings[s]

(***************************************************************************)
(* "Each phase is instead bounded below Timeout so a stall is abandoned    *)
(* early" (bundle.go:96), unless it is overridden or the budget is below   *)
(* the floor; and none is bounded by so little that it fails by itself.    *)
(***************************************************************************)
StallLeavesBudget ==
  listener = "accepting" =>
    \A p \in PhaseVars : flags.settings[p] = 0 =>
      /\ transport[p] >= minPhaseTimeout
      /\ flags.settings["Timeout"] > minPhaseTimeout => transport[p] < flags.settings["Timeout"]

(***************************************************************************)
(* Requests are judged by exactly the trust roots asked for: every custom  *)
(* target, the public good instance unless disabled, and every trust       *)
(* domain or else the default one (internal/app/verifier.go:28-123).       *)
(***************************************************************************)
VerifiersAsAsked ==
  listener = "accepting" =>
    LET Loaded(repo)  == {verifiers[i].target : i \in {j \in DOMAIN verifiers :
                                                         verifiers[j].repo = repo}}
        Named(list)   == {list[i] : i \in DOMAIN list} \ {""}
        Target(td)    == IF td = "dotcom" THEN <<defaultTR>> ELSE <<td, defaultTR>>
    IN  /\ Loaded("custom") = IF flags.tufRepo = "" \/ flags.tufRoot = "" THEN {}
                              ELSE {<<t>> : t \in Named(flags.tufTargets)}
        /\ Loaded("sigstore") = IF flags.noPGI THEN {} ELSE {<<defaultTR>>}
        /\ Loaded("github") = {Target(td) : td \in IF Named(flags.trustDomains) = {}
                                                   THEN {"dotcom"} ELSE Named(flags.trustDomains)}

(***************************************************************************)
(* "Handle signals gracefully to avoid dropping requests during Pod        *)
(* shutdown" (aaop.go:164): a request is dropped only by a failure, or if  *)
(* it has held up the shutdown for the whole of its timeout.  Gatekeeper,  *)
(* which waits as long (values.yaml, provider.timeout), has given up on    *)
(* such a request (aaop.go:212-218).                                       *)
(***************************************************************************)
ShutdownKeepsRequests ==
  \A q \in Requests : request[q] = "dropped" =>
    \/ exit \in {"metrics", "listen", "panic"}
    \/ exit = "deadline" /\ age[q] >= ShutdownTimeout

(***************************************************************************)
(* The listener's error finds errChan closed, and the process panics, only *)
(* if a signal has come before it (aaop.go:313-330).                       *)
(***************************************************************************)
PanicOnlyAtShutdown == exit = "panic" => ctx = "done"

(***************************************************************************)
(* Told to stop, or without a listener, the process ends, however long its *)
(* handlers take.                                                          *)
(***************************************************************************)
EndsWhenTold == (ctx = "done" \/ listener = "failed") ~> ~Running
=============================================================================
