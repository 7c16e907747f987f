---------------------------- MODULE ServerProofs ----------------------------
(***************************************************************************)
(* Proofs that the process serves with what its flags ask for and ends     *)
(* without dropping requests it could have answered, for any command       *)
(* lines, requests and timeouts.                                           *)
(***************************************************************************)
EXTENDS Server, CollectionProofs, SequenceTheorems

Early == {"pool", "fetcher", "verifiers", "ca", "injecting", "keychain"}

Configured ==
  /\ ValidFetch(flags.settings)
  /\ transport = newRegistryTransport(flags.settings)
  /\ \A s \in FetchVars : configInfo[s] = flags.settings[s]

\* The transport is built before anything listens.
ConfigInv ==
  /\ pc = "fetcher" => \A s \in PoolVars : fetcher[s] = flags.settings[s]
  /\ pc \notin {"pool", "fetcher", "ended"} => Configured
  /\ listener # "none" => Configured
  /\ pc \in Early => listener = "none"

\* The error is sent once, and the channel closed after a signal only.
ChannelInv ==
  /\ listener # "sent" => errChan = <<>>
  /\ closed => ctx = "done"

\* A request is in progress only behind a listener that has accepted it, and
\* one that holds up the shutdown has done so since the shutdown began.
RequestInv ==
  /\ pc = "ended" <=> exit # "running"
  /\ pc \in Early => \A q \in Requests : request[q] = "none"
  /\ inShutdown => listener # "accepting"
  /\ pc = "draining" =>
       /\ inShutdown
       /\ \A q \in Requests : request[q] = "active" => age[q] >= ShutdownTimeout - left
  /\ exit = "running" => \A q \in Requests : request[q] # "dropped"

SInv == TypeOK /\ ConfigInv /\ ChannelInv /\ RequestInv /\ ShutdownKeepsRequests /\ PanicOnlyAtShutdown

-----------------------------------------------------------------------------
(***************************************************************************)
(* The registry transport.                                                 *)
(***************************************************************************)
LEMMA SettingNames ==
  /\ FetchVars \subseteq Setting /\ PhaseVars \subseteq Setting /\ PoolVars \subseteq Setting
  /\ "Timeout" \in FetchVars /\ PhaseVars \cap PoolVars = {} /\ FetchVars \cap PoolVars = {}
  /\ FetchVars \cap PhaseVars = {}
BY DEF Setting, FetchVars, PhaseVars, PoolVars

LEMMA SettingsType ==
  ASSUME NEW f \in Flags
  PROVE  f.settings \in [Setting -> Int]
BY FlagsAssumption DEF FlagType

LEMMA PickType ==
  ASSUME NEW override \in Int, NEW budget \in Int, NEW fifths \in 3..4
  PROVE  /\ pickPhaseTimeout(override, budget, fifths) \in Int
         /\ override = 0 => /\ pickPhaseTimeout(override, budget, fifths) >= minPhaseTimeout
                            /\ budget > minPhaseTimeout =>
                                 pickPhaseTimeout(override, budget, fifths) < budget
<1>1. CASE fifths = 3
  BY <1>1 DEF pickPhaseTimeout, minPhaseTimeout
<1>2. CASE fifths = 4
  BY <1>2 DEF pickPhaseTimeout, minPhaseTimeout
<1> QED
  BY <1>1, <1>2

LEMMA TransportType ==
  ASSUME NEW v \in [Setting -> Int]
  PROVE  /\ newRegistryTransport(v) \in [PhaseVars \cup PoolVars -> Int]
         /\ \A p \in PhaseVars : v[p] = 0 =>
              /\ newRegistryTransport(v)[p] >= minPhaseTimeout
              /\ v["Timeout"] > minPhaseTimeout => newRegistryTransport(v)[p] < v["Timeout"]
<1>1. \A p \in PhaseVars : fraction[p] \in 3..4
  BY DEF fraction
<1>2. v["Timeout"] \in Int /\ \A s \in PhaseVars \cup PoolVars : v[s] \in Int
  BY SettingNames
<1>3. \A p \in PhaseVars : p \notin PoolVars
  BY SettingNames
<1>4. ASSUME NEW s \in PhaseVars \cup PoolVars
      PROVE  newRegistryTransport(v)[s] = IF s \in PoolVars THEN v[s]
               ELSE pickPhaseTimeout(v[s], v["Timeout"], fraction[s])
  BY DEF newRegistryTransport
<1>5. ASSUME NEW s \in PhaseVars \cup PoolVars PROVE newRegistryTransport(v)[s] \in Int
  BY <1>1, <1>2, <1>4, PickType
<1>6. newRegistryTransport(v) = [s \in PhaseVars \cup PoolVars |-> newRegistryTransport(v)[s]]
  BY DEF newRegistryTransport
<1>7. newRegistryTransport(v) \in [PhaseVars \cup PoolVars -> Int]
  BY <1>5, <1>6
<1>8. ASSUME NEW p \in PhaseVars, v[p] = 0
      PROVE  /\ newRegistryTransport(v)[p] >= minPhaseTimeout
             /\ v["Timeout"] > minPhaseTimeout => newRegistryTransport(v)[p] < v["Timeout"]
  <2>1. newRegistryTransport(v)[p] = pickPhaseTimeout(v[p], v["Timeout"], fraction[p])
    BY <1>3, <1>4
  <2> QED
    BY <1>1, <1>2, <1>8, <2>1, PickType
<1> QED
  BY <1>7, <1>8

-----------------------------------------------------------------------------
(***************************************************************************)
(* The process.                                                            *)
(***************************************************************************)
LEMMA Base == Init => SInv
<1> SUFFICES ASSUME Init PROVE SInv
  OBVIOUS
<1>1. Defaults \in [Setting -> Int]
  BY DEF Defaults, Setting, FetchVars, PhaseVars, PoolVars
<1>2. newRegistryTransport(Defaults) \in [PhaseVars \cup PoolVars -> Int]
  BY <1>1, TransportType
<1>3. TypeOK
  <2>1. /\ flags \in Flags /\ fetcher \in [Setting -> Int]
        /\ transport \in [PhaseVars \cup PoolVars -> Int] /\ configInfo \in [FetchVars -> Int]
    BY <1>1, <1>2 DEF Init
  <2>2. left \in 0..ShutdownTimeout /\ age \in [Requests -> 0..WriteTimeout]
    BY TimeoutsAssumption DEF Init
  <2>3. closed \in BOOLEAN /\ inShutdown \in BOOLEAN
    BY DEF Init
  <2> QED
    BY <2>1, <2>2, <2>3 DEF Init, TypeOK, Exits
<1>4. ConfigInv /\ RequestInv
  BY DEF Init, ConfigInv, RequestInv, Early
<1>5. ChannelInv
  BY DEF Init, ChannelInv
<1>6. ShutdownKeepsRequests /\ PanicOnlyAtShutdown
  BY DEF Init, ShutdownKeepsRequests, PanicOnlyAtShutdown
<1> QED
  BY <1>3, <1>4, <1>5, <1>6 DEF SInv

\* The end of the process, for a reason that explains what is dropped.
LEMMA EndStep ==
  ASSUME SInv, exit = "running", NEW why \in Exits \ {"running"}, End(why),
         why = "panic" => ctx = "done",
         why \notin {"metrics", "listen", "panic"} =>
           \A q \in Requests : request[q] = "active" => why = "deadline" /\ age[q] >= ShutdownTimeout
  PROVE  SInv'
<1>1. /\ exit' = why /\ pc' = "ended" /\ age' = age /\ left' = left
      /\ config' = config /\ net' = net /\ ctx' = ctx /\ prom' = prom
      /\ request' = [q \in Requests |-> IF request[q] = "active" THEN "dropped" ELSE request[q]]
  BY DEF End
<1>2. TypeOK'
  BY <1>1 DEF SInv, TypeOK, config, net
<1>3. ConfigInv'
  BY <1>1 DEF SInv, ConfigInv, Configured, config, net, Early
<1>4. ChannelInv'
  BY <1>1 DEF SInv, ChannelInv, net
<1>5. RequestInv'
  BY <1>1 DEF SInv, RequestInv, net, Early
<1>6. ShutdownKeepsRequests'
  <2>1. ASSUME NEW q \in Requests, request'[q] = "dropped" PROVE request[q] = "active"
    BY <1>1, <2>1 DEF SInv, RequestInv
  <2> QED
    BY <1>1, <2>1 DEF ShutdownKeepsRequests
<1>7. PanicOnlyAtShutdown'
  BY <1>1 DEF PanicOnlyAtShutdown
<1> QED
  BY <1>2, <1>3, <1>4, <1>5, <1>6, <1>7 DEF SInv

\* Where no request has been accepted the process may end for any reason.
LEMMA EarlyEnd ==
  ASSUME SInv, pc \in Early, NEW why \in {"config", "verifiers", "ca", "killed"}, End(why)
  PROVE  SInv'
<1>1. exit = "running" /\ \A q \in Requests : request[q] # "active"
  BY DEF SInv, RequestInv, Early
<1> QED
  BY <1>1, EndStep DEF Exits

LEMMA PoolStep ==
  ASSUME SInv, ConfigureRegistryPool
  PROVE  SInv'
<1>1. CASE End("config")
  BY <1>1, EarlyEnd DEF ConfigureRegistryPool, Early
<1>2. CASE /\ fetcher' = Apply(fetcher, flags.settings, PoolVars)
           /\ pc' = "fetcher"
           /\ UNCHANGED <<flags, transport, configInfo, verifiers, ctx, prom, net, left, reqs, exit>>
  <2>1. /\ fetcher' \in [Setting -> Int] /\ \A s \in PoolVars : fetcher'[s] = flags.settings[s]
    BY <1>2, SettingsType, SettingNames DEF Apply, SInv, TypeOK
  <2>2. TypeOK'
    BY <1>2, <2>1 DEF SInv, TypeOK, net, reqs
  <2>3. ConfigInv'
    BY <1>2, <2>1 DEF SInv, ConfigInv, net, ConfigureRegistryPool, Early, Configured
  <2>4. ChannelInv' /\ RequestInv'
    BY <1>2 DEF SInv, ChannelInv, RequestInv, net, reqs, ConfigureRegistryPool, Early
  <2>5. ShutdownKeepsRequests' /\ PanicOnlyAtShutdown'
    BY <1>2 DEF SInv, ShutdownKeepsRequests, PanicOnlyAtShutdown, reqs
  <2> QED
    BY <2>2, <2>3, <2>4, <2>5 DEF SInv
<1> QED
  BY <1>1, <1>2 DEF ConfigureRegistryPool

LEMMA FetcherStep ==
  ASSUME SInv, ConfigureBundleFetcher
  PROVE  SInv'
<1> DEFINE new == Apply(fetcher, flags.settings, FetchVars \cup PhaseVars)
<1>1. CASE End("config")
  BY <1>1, EarlyEnd DEF ConfigureBundleFetcher, Early
<1>2. CASE /\ ValidFetch(flags.settings)
           /\ fetcher' = new
           /\ transport' = Rebuild(new)
           /\ configInfo' = [s \in FetchVars |-> new[s]]
           /\ pc' = "verifiers"
           /\ UNCHANGED <<flags, verifiers, ctx, prom, net, left, reqs, exit>>
  <2>1. flags.settings \in [Setting -> Int]
    BY SettingsType DEF SInv, TypeOK
  <2>2. \A s \in PoolVars : fetcher[s] = flags.settings[s]
    BY DEF SInv, ConfigInv, ConfigureBundleFetcher
  <2>3. new = flags.settings
    <3>1. \A s \in Setting : s \notin FetchVars \cup PhaseVars => s \in PoolVars
      BY DEF Setting
    <3>2. new = [s \in Setting |-> flags.settings[s]]
      BY <2>2, <3>1 DEF Apply
    <3> QED
      BY <2>1, <3>2
  <2> HIDE DEF new
  <2>4. /\ fetcher' \in [Setting -> Int] /\ transport' = newRegistryTransport(flags.settings)
        /\ transport' \in [PhaseVars \cup PoolVars -> Int]
        /\ configInfo' \in [FetchVars -> Int]
        /\ \A s \in FetchVars : configInfo'[s] = flags.settings[s]
    BY <1>2, <2>1, <2>3, TransportType, SettingNames DEF Rebuild
  <2>5. TypeOK'
    BY <1>2, <2>4 DEF SInv, TypeOK, net, reqs
  <2>6. Configured'
    BY <1>2, <2>4 DEF Configured
  <2>7. ConfigInv'
    BY <1>2, <2>6 DEF SInv, ConfigInv, net, ConfigureBundleFetcher, Early
  <2>8. ChannelInv' /\ RequestInv'
    BY <1>2 DEF SInv, ChannelInv, RequestInv, net, reqs, ConfigureBundleFetcher, Early
  <2>9. ShutdownKeepsRequests' /\ PanicOnlyAtShutdown'
    BY <1>2 DEF SInv, ShutdownKeepsRequests, PanicOnlyAtShutdown, reqs
  <2> QED
    BY <2>5, <2>7, <2>8, <2>9 DEF SInv
<1> QED
  BY <1>1, <1>2 DEF ConfigureBundleFetcher

\* A step of main between two early places that touches nothing else.
LEMMA QuietStep ==
  ASSUME SInv, pc \in Early \ {"pool", "fetcher"}, pc' \in Early \ {"pool", "fetcher"},
         prom' \in {"off", "starting", "up"},
         UNCHANGED <<flags, fetcher, transport, configInfo, ctx, net, left, reqs, exit>>
  PROVE  SInv'
<1>1. TypeOK'
  BY DEF SInv, TypeOK, net, reqs, Early
<1>2. ConfigInv'
  BY DEF SInv, ConfigInv, Configured, net, Early
<1>3. ChannelInv' /\ RequestInv'
  BY DEF SInv, ChannelInv, RequestInv, net, reqs, Early
<1>4. ShutdownKeepsRequests' /\ PanicOnlyAtShutdown'
  BY DEF SInv, ShutdownKeepsRequests, PanicOnlyAtShutdown, reqs
<1> QED
  BY <1>1, <1>2, <1>3, <1>4 DEF SInv

LEMMA StartupStep ==
  ASSUME SInv,
         LoadVerifier \/ StartMetrics \/ CallInjector \/ InjectorStarted \/ InjectorFails
  PROVE  SInv'
<1>1. CASE LoadVerifier
  <2>1. CASE End("verifiers")
    BY <1>1, <2>1, EarlyEnd DEF LoadVerifier, Early
  <2>2. CASE UNCHANGED <<flags, fetcher, transport, configInfo, pc, ctx, prom, net, left, reqs, exit>>
    <3>1. pc = "verifiers" /\ prom' \in {"off", "starting", "up"}
      BY <1>1, <2>2 DEF LoadVerifier, SInv, TypeOK
    <3> QED
      BY <2>2, <3>1, QuietStep DEF Early
  <2> QED
    BY <1>1, <2>1, <2>2 DEF LoadVerifier
<1>2. CASE StartMetrics \/ CallInjector \/ InjectorStarted
  <2>1. /\ pc \in {"verifiers", "ca", "injecting"} /\ pc' \in {"ca", "injecting", "keychain"}
        /\ UNCHANGED <<config, ctx, net, left, reqs, exit>>
    BY <1>2 DEF StartMetrics, CallInjector, InjectorStarted
  <2>2. prom' \in {"off", "starting", "up"}
    BY <1>2 DEF StartMetrics, CallInjector, InjectorStarted, SInv, TypeOK
  <2> QED
    BY <2>1, <2>2, QuietStep DEF Early, config
<1>3. CASE InjectorFails
  BY <1>3, EarlyEnd DEF InjectorFails, Early
<1> QED
  BY <1>1, <1>2, <1>3
LEMMA RunStep ==
  ASSUME SInv, StartKeyChain \/ RunSelectsError \/ RunSelectsDone
  PROVE  SInv'
<1>1. CASE StartKeyChain
  <2>1. /\ pc = "keychain" /\ pc' = "run" /\ listener' = "started" /\ listener = "none"
        /\ UNCHANGED <<config, ctx, prom, errChan, closed, inShutdown, left, reqs, exit>>
    BY <1>1 DEF StartKeyChain, SInv, ConfigInv, Early
  <2>2. TypeOK'
    BY <2>1 DEF SInv, TypeOK, config, reqs
  <2>3. ConfigInv'
    BY <2>1 DEF SInv, ConfigInv, Configured, config, Early
  <2>4. ChannelInv' /\ RequestInv'
    BY <2>1 DEF SInv, ChannelInv, RequestInv, reqs, Early
  <2>5. ShutdownKeepsRequests' /\ PanicOnlyAtShutdown'
    BY <2>1 DEF SInv, ShutdownKeepsRequests, PanicOnlyAtShutdown, reqs
  <2> QED
    BY <2>2, <2>3, <2>4, <2>5 DEF SInv
<1>2. CASE RunSelectsError
  <2>1. exit = "running"
    BY <1>2 DEF RunSelectsError, SInv, RequestInv
  <2> QED
    BY <1>2, <2>1, EndStep DEF RunSelectsError, Exits
<1>3. CASE RunSelectsDone
  <2>1. /\ pc = "run" /\ ctx = "done" /\ closed' = TRUE /\ pc' = "shutdown"
        /\ UNCHANGED <<config, ctx, prom, listener, errChan, inShutdown, left, reqs, exit>>
    BY <1>3 DEF RunSelectsDone
  <2>2. TypeOK'
    BY <2>1 DEF SInv, TypeOK, config, reqs
  <2>3. ConfigInv'
    BY <2>1 DEF SInv, ConfigInv, Configured, config, Early
  <2>4. ChannelInv' /\ RequestInv'
    BY <2>1 DEF SInv, ChannelInv, RequestInv, reqs, Early
  <2>5. ShutdownKeepsRequests' /\ PanicOnlyAtShutdown'
    BY <2>1 DEF SInv, ShutdownKeepsRequests, PanicOnlyAtShutdown, reqs
  <2> QED
    BY <2>2, <2>3, <2>4, <2>5 DEF SInv
<1> QED
  BY <1>1, <1>2, <1>3

LEMMA ShutdownStep ==
  ASSUME SInv, BeginShutdown \/ ShutdownDone \/ ShutdownTimesOut
  PROVE  SInv'
<1>1. CASE BeginShutdown
  <2>1. /\ pc = "shutdown" /\ inShutdown' = TRUE /\ left' = ShutdownTimeout /\ pc' = "draining"
        /\ listener' = IF listener = "accepting" THEN "closed" ELSE listener
        /\ UNCHANGED <<config, ctx, prom, errChan, closed, reqs, exit>>
    BY <1>1 DEF BeginShutdown
  <2>2. TypeOK'
    BY <2>1, TimeoutsAssumption DEF SInv, TypeOK, config, reqs
  <2>3. ConfigInv'
    BY <2>1 DEF SInv, ConfigInv, Configured, config, Early
  <2>4. ChannelInv'
    BY <2>1 DEF SInv, ChannelInv
  <2>5. RequestInv'
    <3>1. \A q \in Requests : age[q] >= 0 /\ age[q] \in Int
      BY DEF SInv, TypeOK
    <3>2. age' = age /\ request' = request /\ exit' = exit /\ listener' # "accepting"
      BY <2>1 DEF reqs
    <3>3. \A q \in Requests : age'[q] >= ShutdownTimeout - left'
      BY <2>1, <3>1, <3>2, TimeoutsAssumption
    <3> QED
      BY <2>1, <3>2, <3>3 DEF SInv, RequestInv, Early
  <2>6. ShutdownKeepsRequests' /\ PanicOnlyAtShutdown'
    BY <2>1 DEF SInv, ShutdownKeepsRequests, PanicOnlyAtShutdown, reqs
  <2> QED
    BY <2>2, <2>3, <2>4, <2>5, <2>6 DEF SInv
<1>2. CASE ShutdownDone
  <2>1. exit = "running" /\ \A q \in Requests : request[q] # "active"
    BY <1>2 DEF ShutdownDone, InProgress, SInv, RequestInv
  <2> QED
    BY <1>2, <2>1, EndStep DEF ShutdownDone, Exits
<1>3. CASE ShutdownTimesOut
  <2>1. exit = "running" /\ left = 0
    BY <1>3 DEF ShutdownTimesOut, SInv, RequestInv
  <2>2. \A q \in Requests : request[q] = "active" => age[q] >= ShutdownTimeout
    BY <1>3, <2>1, TimeoutsAssumption DEF ShutdownTimesOut, SInv, RequestInv
  <2> QED
    BY <1>3, <2>1, <2>2, EndStep DEF ShutdownTimesOut, Exits
<1> QED
  BY <1>1, <1>2, <1>3

LEMMA ListenerStep ==
  ASSUME SInv, ListenAndServeTLS \/ Bind \/ ListenerFails
  PROVE  SInv'
<1>1. /\ listener' \in {"binding", "accepting", "failed", "closed"} /\ listener # "none"
      /\ listener # "sent" /\ (inShutdown => listener' # "accepting")
      /\ UNCHANGED <<config, pc, ctx, prom, errChan, closed, inShutdown, left, reqs, exit>>
  BY DEF ListenAndServeTLS, Bind, ListenerFails, Listens
<1>2. TypeOK'
  BY <1>1 DEF SInv, TypeOK, config, reqs
<1>3. ConfigInv'
  BY <1>1 DEF SInv, ConfigInv, Configured, config, Early
<1>4. ChannelInv' /\ RequestInv'
  BY <1>1 DEF SInv, ChannelInv, RequestInv, reqs, Early
<1>5. ShutdownKeepsRequests' /\ PanicOnlyAtShutdown'
  BY <1>1 DEF SInv, ShutdownKeepsRequests, PanicOnlyAtShutdown, reqs
<1> QED
  BY <1>2, <1>3, <1>4, <1>5 DEF SInv

LEMMA SendStep ==
  ASSUME SInv, SendError
  PROVE  SInv'
<1>1. exit = "running" /\ listener = "failed"
  BY DEF SendError, Running
<1>2. CASE closed /\ End("panic")
  <2>1. ctx = "done"
    BY <1>2 DEF SInv, ChannelInv
  <2> QED
    BY <1>1, <1>2, <2>1, EndStep DEF Exits
<1>3. CASE /\ errChan' = Append(errChan, "error")
           /\ listener' = "sent"
           /\ UNCHANGED <<config, pc, ctx, prom, closed, inShutdown, left, reqs, exit>>
  <2>1. errChan' = <<"error">>
    BY <1>1, <1>3 DEF SInv, ChannelInv
  <2>2. TypeOK'
    BY <1>3, <2>1 DEF SInv, TypeOK, config, reqs
  <2>3. ConfigInv'
    BY <1>1, <1>3 DEF SInv, ConfigInv, Configured, config, Early
  <2>4. ChannelInv' /\ RequestInv'
    BY <1>3 DEF SInv, ChannelInv, RequestInv, reqs, Early
  <2>5. ShutdownKeepsRequests' /\ PanicOnlyAtShutdown'
    BY <1>3 DEF SInv, ShutdownKeepsRequests, PanicOnlyAtShutdown, reqs
  <2> QED
    BY <2>2, <2>3, <2>4, <2>5 DEF SInv
<1> QED
  BY <1>2, <1>3 DEF SendError

LEMMA AroundStep ==
  ASSUME SInv, PromListens \/ PromFails \/ Signal \/ SignalKills
  PROVE  SInv'
<1>1. CASE PromListens \/ Signal
  <2>1. /\ ctx' \in {"live", "done"} /\ prom' \in {"off", "starting", "up"}
        /\ (ctx = "done" => ctx' = "done")
        /\ UNCHANGED <<config, pc, net, left, reqs, exit>>
    BY <1>1 DEF PromListens, Signal, SInv, TypeOK
  <2>2. TypeOK'
    BY <2>1 DEF SInv, TypeOK, config, net, reqs
  <2>3. ConfigInv'
    BY <2>1 DEF SInv, ConfigInv, Configured, config, net, Early
  <2>4. ChannelInv' /\ RequestInv'
    BY <2>1 DEF SInv, ChannelInv, RequestInv, net, reqs, Early
  <2>5. ShutdownKeepsRequests' /\ PanicOnlyAtShutdown'
    BY <2>1 DEF SInv, ShutdownKeepsRequests, PanicOnlyAtShutdown, reqs
  <2> QED
    BY <2>2, <2>3, <2>4, <2>5 DEF SInv
<1>2. CASE PromFails
  BY <1>2, EndStep DEF PromFails, Running, Exits
<1>3. CASE SignalKills
  BY <1>3, EarlyEnd DEF SignalKills, Notified, Early
<1> QED
  BY <1>1, <1>2, <1>3

LEMMA RequestStep ==
  ASSUME SInv, NEW q \in Requests, Accept(q) \/ Finish(q)
  PROVE  SInv'
<1>1. /\ exit = "running" /\ UNCHANGED <<config, pc, ctx, prom, net, left, age, exit>>
  BY DEF Accept, Finish, Running
<1>2. /\ request' \in [Requests -> {"none", "active", "answered", "unwritten", "dropped"}]
      /\ \A p \in Requests : request'[p] # "dropped"
  BY <1>1 DEF Accept, Finish, SInv, TypeOK, RequestInv
<1>3. TypeOK'
  BY <1>1, <1>2 DEF SInv, TypeOK, config, net
<1>4. ConfigInv' /\ ChannelInv'
  BY <1>1 DEF SInv, ConfigInv, ChannelInv, Configured, config, net, Early
<1>5. RequestInv'
  <2>1. pc \notin Early
    BY DEF Accept, Finish, SInv, RequestInv, ConfigInv
  <2>2. pc = "draining" => \A p \in Requests : request'[p] = "active" => request[p] = "active"
    <3>1. CASE Accept(q)
      BY <3>1 DEF Accept, SInv, RequestInv
    <3>2. CASE Finish(q)
      BY <3>2 DEF Finish, SInv, TypeOK
    <3> QED
      BY <3>1, <3>2
  <2> QED
    BY <1>1, <1>2, <2>1, <2>2 DEF SInv, RequestInv, net
<1>6. ShutdownKeepsRequests' /\ PanicOnlyAtShutdown'
  BY <1>1, <1>2 DEF SInv, ShutdownKeepsRequests, PanicOnlyAtShutdown
<1> QED
  BY <1>3, <1>4, <1>5, <1>6 DEF SInv

LEMMA TickStep ==
  ASSUME SInv, Tick
  PROVE  SInv'
<1>1. /\ exit = "running" /\ UNCHANGED <<config, pc, ctx, prom, net, request, exit>>
      /\ left' = IF pc = "draining" THEN left - 1 ELSE left
      /\ (pc = "draining" => left > 0)
      /\ age' = [q \in Requests |-> IF request[q] = "active" /\ age[q] < WriteTimeout
                                    THEN age[q] + 1 ELSE age[q]]
  BY DEF Tick, Running
<1>2. left \in 0..ShutdownTimeout /\ age \in [Requests -> 0..WriteTimeout]
  BY DEF SInv, TypeOK
<1>3. left' \in 0..ShutdownTimeout /\ age' \in [Requests -> 0..WriteTimeout]
  BY <1>1, <1>2, TimeoutsAssumption
<1>4. TypeOK'
  BY <1>1, <1>3 DEF SInv, TypeOK, config, net
<1>5. ConfigInv' /\ ChannelInv'
  BY <1>1 DEF SInv, ConfigInv, ChannelInv, Configured, config, net, Early
<1>6. RequestInv'
  <2>1. ASSUME pc = "draining", NEW q \in Requests, request[q] = "active"
        PROVE  age'[q] >= ShutdownTimeout - left'
    <3>1. age[q] >= ShutdownTimeout - left /\ age[q] \in 0..WriteTimeout
      BY <1>2, <2>1 DEF SInv, RequestInv
    <3>2. left' = left - 1 /\ age'[q] = IF age[q] < WriteTimeout THEN age[q] + 1 ELSE age[q]
      BY <1>1, <2>1
    <3>3. CASE age[q] < WriteTimeout
      BY <1>2, <3>1, <3>2, <3>3, TimeoutsAssumption
    <3>4. CASE age[q] = WriteTimeout
      BY <1>2, <1>3, <3>1, <3>2, <3>4, TimeoutsAssumption
    <3> QED
      BY <3>1, <3>3, <3>4, TimeoutsAssumption
  <2> QED
    BY <1>1, <2>1 DEF SInv, RequestInv, net
<1>7. ShutdownKeepsRequests' /\ PanicOnlyAtShutdown'
  BY <1>1 DEF SInv, RequestInv, ShutdownKeepsRequests, PanicOnlyAtShutdown
<1> QED
  BY <1>4, <1>5, <1>6, <1>7 DEF SInv

LEMMA Inductive ==
  ASSUME SInv, [Next]_vars
  PROVE  SInv'
<1>1. CASE UNCHANGED vars
  <2>1. UNCHANGED <<config, pc, ctx, prom, net, left, reqs, exit>>
    BY <1>1 DEF vars
  <2>2. TypeOK'
    BY <2>1 DEF SInv, TypeOK, config, net, reqs
  <2>3. ConfigInv' /\ ChannelInv' /\ RequestInv'
    BY <2>1 DEF SInv, ConfigInv, ChannelInv, RequestInv, Configured, config, net, reqs, Early
  <2>4. ShutdownKeepsRequests' /\ PanicOnlyAtShutdown'
    BY <2>1 DEF SInv, ShutdownKeepsRequests, PanicOnlyAtShutdown, reqs
  <2> QED
    BY <2>2, <2>3, <2>4 DEF SInv
<1>2. CASE Main
  BY <1>2, PoolStep, FetcherStep, StartupStep, RunStep, ShutdownStep DEF Main
<1>3. CASE ~Main /\ Next
  BY <1>1, <1>3, ListenerStep, SendStep, AroundStep, RequestStep, TickStep DEF Next, Ended
<1> QED
  BY <1>1, <1>2, <1>3

LEMMA SInvHolds == Spec => []SInv
BY Base, Inductive, PTL DEF Spec

-----------------------------------------------------------------------------
\* Types; the listener's goroutine never blocks on the error channel, which has
\* room for one error (aaop.go:312-320).
THEOREM TypeCorrect == Spec => []TypeOK
<1>1. SInv => TypeOK
  BY DEF SInv
<1> QED
  BY <1>1, SInvHolds, PTL

\* Requests are served with the transport the flags ask for, and the gauge
\* shows what is in force (aaop.go:88-105 and :255-263).
THEOREM AlwaysTransportFollowsFlags == Spec => []TransportFollowsFlags
<1>1. SInv => TransportFollowsFlags
  BY DEF SInv, ConfigInv, Configured, TransportFollowsFlags
<1> QED
  BY <1>1, SInvHolds, PTL

\* A derived phase timeout is below the attempt's budget and never below the
\* floor, for every budget above the floor (bundle.go:91-164).
THEOREM AlwaysStallLeavesBudget == Spec => []StallLeavesBudget
<1>1. ASSUME SInv, listener = "accepting", NEW p \in PhaseVars, flags.settings[p] = 0
      PROVE  /\ transport[p] >= minPhaseTimeout
             /\ flags.settings["Timeout"] > minPhaseTimeout =>
                  transport[p] < flags.settings["Timeout"]
  <2>1. flags.settings \in [Setting -> Int]
    BY <1>1, SettingsType DEF SInv, TypeOK
  <2>2. transport = newRegistryTransport(flags.settings)
    BY <1>1 DEF SInv, ConfigInv, Configured
  <2> QED
    BY <1>1, <2>1, <2>2, TransportType
<1>2. SInv => StallLeavesBudget
  BY <1>1 DEF StallLeavesBudget
<1> QED
  BY <1>2, SInvHolds, PTL

\* A request is dropped only by a failure, or after it has held up the shutdown
\* for the whole of its timeout (aaop.go:212-218).
THEOREM AlwaysShutdownKeepsRequests == Spec => []ShutdownKeepsRequests
<1>1. SInv => ShutdownKeepsRequests
  BY DEF SInv
<1> QED
  BY <1>1, SInvHolds, PTL

\* The send on the closed channel needs a signal before it (aaop.go:312-330).
THEOREM AlwaysPanicOnlyAtShutdown == Spec => []PanicOnlyAtShutdown
<1>1. SInv => PanicOnlyAtShutdown
  BY DEF SInv
<1> QED
  BY <1>1, SInvHolds, PTL

-----------------------------------------------------------------------------
(***************************************************************************)
(* The verifiers.  First what CreateVerifier returns: a list of trust      *)
(* roots, told apart by the repository they are from.                      *)
(***************************************************************************)
Repos == {"custom", "sigstore", "github"}
Text == STRING \cup {"dotcom", defaultTR}
Requirement == {"sct", "tlog", "observed timestamp", "signed timestamp"}
Root == [repo : Repos, target : Seq(Text), requires : SUBSET Requirement]

TargetsOf(s, repo) == {s[i].target : i \in {j \in DOMAIN s : s[j].repo = repo}}

NoBlanks(list) == \A i \in DOMAIN list : list[i] # ""

Named(list) == {list[i] : i \in DOMAIN list} \ {""}

LEMMA TargetsOfBoth ==
  ASSUME NEW s \in Seq(Root), NEW t \in Seq(Root), NEW repo
  PROVE  /\ s \o t \in Seq(Root)
         /\ TargetsOf(s \o t, repo) = TargetsOf(s, repo) \cup TargetsOf(t, repo)
<1> DEFINE u == s \o t
<1>1. /\ u \in Seq(Root) /\ DOMAIN u = 1..(Len(s) + Len(t))
      /\ DOMAIN s = 1..Len(s) /\ DOMAIN t = 1..Len(t) /\ Len(s) \in Nat /\ Len(t) \in Nat
      /\ \A i \in DOMAIN s : u[i] = s[i]
      /\ \A i \in DOMAIN t : u[Len(s) + i] = t[i]
  OBVIOUS
<1> HIDE DEF u
<1>2. /\ \A i \in DOMAIN s : i \in DOMAIN u
      /\ \A i \in DOMAIN t : Len(s) + i \in DOMAIN u
      /\ \A i \in DOMAIN u : i \notin DOMAIN s => i - Len(s) \in DOMAIN t
                                                  /\ Len(s) + (i - Len(s)) = i
  BY <1>1
<1>3. ASSUME NEW i \in DOMAIN u, u[i].repo = repo
      PROVE  u[i].target \in TargetsOf(s, repo) \cup TargetsOf(t, repo)
  <2>1. CASE i \in DOMAIN s
    BY <1>1, <1>3, <2>1 DEF TargetsOf
  <2>2. CASE i \notin DOMAIN s
    <3>1. i - Len(s) \in DOMAIN t /\ u[i] = t[i - Len(s)]
      BY <1>1, <1>2, <2>2
    <3> QED
      BY <1>3, <3>1 DEF TargetsOf
  <2> QED
    BY <2>1, <2>2
<1>4. ASSUME NEW i \in DOMAIN s, s[i].repo = repo PROVE s[i].target \in TargetsOf(u, repo)
  BY <1>1, <1>2, <1>4 DEF TargetsOf
<1>5. ASSUME NEW i \in DOMAIN t, t[i].repo = repo PROVE t[i].target \in TargetsOf(u, repo)
  BY <1>1, <1>2, <1>5 DEF TargetsOf
<1>6. TargetsOf(u, repo) \subseteq TargetsOf(s, repo) \cup TargetsOf(t, repo)
  <2> DEFINE both == TargetsOf(s, repo) \cup TargetsOf(t, repo)
  <2>1. \A i \in DOMAIN u : u[i].repo = repo => u[i].target \in both
    BY <1>3
  <2> HIDE DEF both
  <2>2. TargetsOf(u, repo) \subseteq both
    BY <2>1 DEF TargetsOf
  <2> QED
    BY <2>2 DEF both
<1>7. TargetsOf(s, repo) \subseteq TargetsOf(u, repo)
  <2> DEFINE all == TargetsOf(u, repo)
  <2>1. \A i \in DOMAIN s : s[i].repo = repo => s[i].target \in all
    BY <1>4
  <2> HIDE DEF all
  <2>2. TargetsOf(s, repo) \subseteq all
    BY <2>1 DEF TargetsOf
  <2> QED
    BY <2>2 DEF all
<1>8. TargetsOf(t, repo) \subseteq TargetsOf(u, repo)
  <2> DEFINE all == TargetsOf(u, repo)
  <2>1. \A i \in DOMAIN t : t[i].repo = repo => t[i].target \in all
    BY <1>5
  <2> HIDE DEF all
  <2>2. TargetsOf(t, repo) \subseteq all
    BY <2>1 DEF TargetsOf
  <2> QED
    BY <2>2 DEF all
<1> QED
  BY <1>1, <1>6, <1>7, <1>8 DEF u

\* The candidates of a list flag are its parts that are not blank.
LEMMA CandidatesNamed ==
  ASSUME NEW list \in Seq(STRING)
  PROVE  /\ Candidates(list) \in Seq(Text)
         /\ {Candidates(list)[i] : i \in DOMAIN Candidates(list)} = Named(list)
         /\ Candidates(list) = <<>> <=> Named(list) = {}
<1> DEFINE K == {i \in DOMAIN list : list[i] # ""}
           t == Candidates(list)
<1>1. /\ t \in Seq(STRING)
      /\ \A j \in DOMAIN t : \E i \in K : t[j] = list[i]
      /\ \A i \in K : \E j \in DOMAIN t : t[j] = list[i]
  <2>1. K \in SUBSET DOMAIN list /\ t = Picked(list, K)
    BY DEF Candidates
  <2> HIDE DEF K, t
  <2> QED
    BY <2>1, PickedSeq
<1> HIDE DEF t
<1>2. ASSUME NEW j \in DOMAIN t PROVE t[j] \in Named(list)
  <2>1. PICK i \in K : t[j] = list[i]
    BY <1>1
  <2> QED
    BY <2>1 DEF Named
<1>3. ASSUME NEW v \in Named(list) PROVE \E j \in DOMAIN t : t[j] = v
  <2>1. PICK i \in DOMAIN list : list[i] = v /\ v # ""
    BY DEF Named
  <2> QED
    BY <1>1, <2>1
<1> HIDE DEF K
<1>4. {t[i] : i \in DOMAIN t} = Named(list)
  BY <1>2, <1>3
<1>5. t = <<>> <=> Len(t) = 0
  BY <1>1, EmptySeq
<1>6. Len(t) = 0 <=> DOMAIN t = {}
  BY <1>1
<1>8. t \in Seq(Text)
  BY <1>1 DEF Text
<1>7. Named(list) = {} <=> DOMAIN t = {}
  BY <1>2, <1>3
<1> QED
  BY <1>1, <1>4, <1>5, <1>6, <1>7, <1>8 DEF t

LEMMA NewRoot ==
  ASSUME NEW repo \in Repos, NEW target \in Seq(Text), NEW requires \in SUBSET Requirement
  PROVE  /\ New(repo, target, requires) \in Root
         /\ New(repo, target, requires).repo = repo
         /\ New(repo, target, requires).target = target
BY DEF New, Root

LEMMA ShortSeqs ==
  ASSUME NEW S, NEW x \in S, NEW y \in S
  PROVE  /\ <<>> \in Seq(S) /\ <<x>> \in Seq(S) /\ <<x, y>> \in Seq(S)
         /\ DOMAIN <<x>> = {1} /\ <<x>>[1] = x
OBVIOUS

LEMMA SeqParts ==
  ASSUME NEW S, NEW s \in Seq(S)
  PROVE  Len(s) \in Nat /\ DOMAIN s = 1..Len(s) /\ \A i \in 1..Len(s) : s[i] \in S
OBVIOUS

LEMMA CustomLoads ==
  ASSUME NEW ts \in Seq(Text)
  PROVE  LET s == LoadCustomVerifier(ts)
         IN  /\ s \in Seq(Root)
             /\ TargetsOf(s, "custom") = {<<t>> : t \in {ts[i] : i \in DOMAIN ts}}
             /\ TargetsOf(s, "sigstore") = {} /\ TargetsOf(s, "github") = {}
<1> DEFINE s == LoadCustomVerifier(ts)
           n == Len(ts)
           f == [i \in 1..n |-> <<ts[i]>>]
           requires == {"signed timestamp"}
           home == "custom"
<1>1. n \in Nat /\ DOMAIN ts = 1..n /\ \A i \in 1..n : ts[i] \in Text
  OBVIOUS
<1> HIDE DEF n
<1>2. /\ DOMAIN s = 1..n /\ s = [i \in 1..n |-> s[i]]
      /\ \A i \in 1..n : s[i] = New(home, f[i], requires)
  BY <1>1 DEF LoadCustomVerifier
<1>3. \A i \in 1..n : f[i] = <<ts[i]>>
  OBVIOUS
<1>4. requires \in SUBSET Requirement /\ home \in Repos
  BY DEF Requirement, Repos
<1> HIDE DEF s, f, requires, home
<1>5. \A i \in 1..n : f[i] \in Seq(Text)
  BY <1>1, <1>3, ShortSeqs
<1>6. \A i \in 1..n : f[i] \in Seq(Text) /\ s[i] = New(home, f[i], requires)
  BY <1>2, <1>5
<1>7. /\ s \in Seq(Root) /\ TargetsOf(s, home) = {f[i] : i \in 1..n}
      /\ \A repo : repo # home => TargetsOf(s, repo) = {}
  <2>1. \A i \in 1..n : s[i] \in Root /\ s[i].repo = home /\ s[i].target = f[i]
    BY <1>4, <1>6, NewRoot
  <2>2. s \in [1..n -> Root]
    BY <1>2, <2>1
  <2> QED
    BY <1>1, <2>1, <2>2 DEF TargetsOf
<1>8. TargetsOf(s, "sigstore") = {} /\ TargetsOf(s, "github") = {}
  BY <1>7 DEF home
<1>9. {f[i] : i \in 1..n} = {<<t>> : t \in {ts[i] : i \in DOMAIN ts}}
  BY <1>1, <1>3
<1> QED
  BY <1>7, <1>8, <1>9 DEF s, home

\* The target of a trust domain at GitHub.
GHTarget(td) == IF td = "dotcom" THEN <<defaultTR>> ELSE <<td, defaultTR>>

LEMMA GHLoads ==
  ASSUME NEW domains \in Seq(Text), NoBlanks(domains)
  PROVE  LET s == [i \in DOMAIN domains |-> GHVerifier(domains[i])]
         IN  /\ s \in Seq(Root)
             /\ TargetsOf(s, "github") =
                  {GHTarget(td) : td \in {domains[i] : i \in DOMAIN domains}}
             /\ TargetsOf(s, "sigstore") = {} /\ TargetsOf(s, "custom") = {}
<1> DEFINE s == [i \in DOMAIN domains |-> GHVerifier(domains[i])]
           n == Len(domains)
           f == [i \in 1..n |-> GHTarget(domains[i])]
           requires == {"signed timestamp"}
           home == "github"
<1>1. n \in Nat /\ DOMAIN domains = 1..n /\ \A i \in 1..n : domains[i] \in Text
  BY SeqParts
<1> HIDE DEF n
<1>2. /\ DOMAIN s = 1..n /\ s = [i \in 1..n |-> s[i]]
      /\ \A i \in 1..n : s[i] = GHVerifier(domains[i])
  BY <1>1
<1>3. \A i \in 1..n : f[i] = GHTarget(domains[i])
  OBVIOUS
<1> HIDE DEF s, f
<1>4. \A i \in 1..n : s[i] = New(home, f[i], requires)
  BY <1>1, <1>2, <1>3 DEF GHVerifier, GHTarget, NoBlanks
<1>5. requires \in SUBSET Requirement /\ home \in Repos
  BY DEF Requirement, Repos
<1> HIDE DEF requires, home
<1>6. \A i \in 1..n : f[i] \in Seq(Text)
  <2>1. \A td \in Text : <<td, defaultTR>> \in Seq(Text) /\ <<defaultTR>> \in Seq(Text)
    <3>1. defaultTR \in Text
      BY DEF Text
    <3> QED
      BY <3>1, ShortSeqs
  <2> QED
    BY <1>1, <1>3, <2>1 DEF GHTarget
<1>7. \A i \in 1..n : f[i] \in Seq(Text) /\ s[i] = New(home, f[i], requires)
  BY <1>4, <1>6
<1>8. /\ s \in Seq(Root) /\ TargetsOf(s, home) = {f[i] : i \in 1..n}
      /\ \A repo : repo # home => TargetsOf(s, repo) = {}
  <2>1. \A i \in 1..n : s[i] \in Root /\ s[i].repo = home /\ s[i].target = f[i]
    BY <1>5, <1>7, NewRoot
  <2>2. s \in [1..n -> Root]
    BY <1>2, <2>1
  <2> QED
    BY <1>1, <2>1, <2>2 DEF TargetsOf
<1>9. TargetsOf(s, "sigstore") = {} /\ TargetsOf(s, "custom") = {}
  BY <1>8 DEF home
<1>10. {f[i] : i \in 1..n} = {GHTarget(td) : td \in {domains[i] : i \in DOMAIN domains}}
  BY <1>1, <1>3
<1> QED
  BY <1>8, <1>9, <1>10 DEF s, home

LEMMA PGILoads ==
  ASSUME NEW pgi \in BOOLEAN
  PROVE  LET s == IF pgi THEN <<PGIVerifier>> ELSE <<>>
         IN  /\ s \in Seq(Root) /\ TargetsOf(s, "github") = {} /\ TargetsOf(s, "custom") = {}
             /\ TargetsOf(s, "sigstore") = IF pgi THEN {<<defaultTR>>} ELSE {}
<1>1. /\ PGIVerifier \in Root /\ PGIVerifier.repo = "sigstore"
      /\ PGIVerifier.target = <<defaultTR>>
  <2>1. defaultTR \in Text
    BY DEF Text
  <2>2. <<defaultTR>> \in Seq(Text)
    BY <2>1, ShortSeqs
  <2> DEFINE requires == {"sct", "tlog", "observed timestamp"}
             home == "sigstore"
  <2>3. requires \in SUBSET Requirement /\ home \in Repos
    BY DEF Requirement, Repos
  <2>4. PGIVerifier = New(home, <<defaultTR>>, requires)
    BY DEF PGIVerifier
  <2> HIDE DEF requires, home
  <2>5. PGIVerifier \in Root /\ PGIVerifier.repo = home /\ PGIVerifier.target = <<defaultTR>>
    BY <2>2, <2>3, <2>4, NewRoot
  <2> QED
    BY <2>5 DEF home
<1>2. /\ <<PGIVerifier>> \in Seq(Root) /\ DOMAIN <<PGIVerifier>> = {1}
      /\ <<PGIVerifier>>[1] = PGIVerifier /\ <<>> \in Seq(Root)
  BY <1>1, ShortSeqs
<1>3. \A repo : TargetsOf(<<PGIVerifier>>, repo) = IF repo = "sigstore" THEN {<<defaultTR>>} ELSE {}
  BY <1>1, <1>2 DEF TargetsOf
<1>4. \A repo : TargetsOf(<<>>, repo) = {}
  BY DEF TargetsOf
<1>5. CASE pgi
  BY <1>2, <1>3, <1>5
<1>6. CASE ~pgi
  BY <1>2, <1>4, <1>6
<1> QED
  BY <1>5, <1>6

LEMMA DomainsLoad ==
  ASSUME NEW pgi \in BOOLEAN, NEW tds \in Seq(Text), NoBlanks(tds)
  PROVE  LET s == LoadVerifiers(pgi, tds)
             names == {tds[i] : i \in DOMAIN tds}
         IN  /\ s \in Seq(Root)
             /\ TargetsOf(s, "custom") = {}
             /\ TargetsOf(s, "sigstore") = IF pgi THEN {<<defaultTR>>} ELSE {}
             /\ TargetsOf(s, "github") =
                  {GHTarget(td) : td \in IF tds = <<>> THEN {"dotcom"} ELSE names}
<1> DEFINE domains == IF tds = <<>> THEN <<"dotcom">> ELSE tds
           g == [i \in DOMAIN domains |-> GHVerifier(domains[i])]
           p == IF pgi THEN <<PGIVerifier>> ELSE <<>>
<1>1. /\ domains \in Seq(Text) /\ NoBlanks(domains)
      /\ {domains[i] : i \in DOMAIN domains} =
           IF tds = <<>> THEN {"dotcom"} ELSE {tds[i] : i \in DOMAIN tds}
  <2>1. CASE tds = <<>>
    <3>1. "dotcom" \in Text
      BY DEF Text
    <3>2. <<"dotcom">> \in Seq(Text) /\ DOMAIN <<"dotcom">> = {1} /\ <<"dotcom">>[1] = "dotcom"
      BY <3>1, ShortSeqs
    <3> QED
      BY <2>1, <3>2 DEF NoBlanks
  <2>2. CASE tds # <<>>
    BY <2>2
  <2> QED
    BY <2>1, <2>2
<1>2. LoadVerifiers(pgi, tds) = p \o g
  BY DEF LoadVerifiers
<1> HIDE DEF domains
<1>3. /\ g \in Seq(Root) /\ TargetsOf(g, "sigstore") = {} /\ TargetsOf(g, "custom") = {}
      /\ TargetsOf(g, "github") = {GHTarget(td) : td \in {domains[i] : i \in DOMAIN domains}}
  BY <1>1, GHLoads
<1>4. /\ p \in Seq(Root) /\ TargetsOf(p, "github") = {} /\ TargetsOf(p, "custom") = {}
      /\ TargetsOf(p, "sigstore") = IF pgi THEN {<<defaultTR>>} ELSE {}
  BY PGILoads
<1> HIDE DEF p, g
<1>5. /\ p \o g \in Seq(Root)
      /\ \A repo : TargetsOf(p \o g, repo) = TargetsOf(p, repo) \cup TargetsOf(g, repo)
  BY <1>3, <1>4, TargetsOfBoth
<1> QED
  BY <1>1, <1>2, <1>3, <1>4, <1>5

LEMMA VerifiersCreated ==
  ASSUME NEW f \in Flags
  PROVE  LET s == CreateVerifier(f)
         IN  /\ s \in Seq(Root)
             /\ TargetsOf(s, "custom") = IF f.tufRepo = "" \/ f.tufRoot = "" THEN {}
                                         ELSE {<<t>> : t \in Named(f.tufTargets)}
             /\ TargetsOf(s, "sigstore") = IF f.noPGI THEN {} ELSE {<<defaultTR>>}
             /\ TargetsOf(s, "github") =
                  {GHTarget(td) : td \in IF Named(f.trustDomains) = {} THEN {"dotcom"}
                                         ELSE Named(f.trustDomains)}
<1> DEFINE targets == Candidates(f.tufTargets)
           tds == Candidates(f.trustDomains)
           custom == f.tufRepo # "" /\ f.tufRoot # "" /\ targets # <<>>
           c == IF custom THEN LoadCustomVerifier(targets) ELSE <<>>
           d == LoadVerifiers(~f.noPGI, tds)
<1>1. /\ f.tufTargets \in Seq(STRING) /\ f.trustDomains \in Seq(STRING) /\ f.noPGI \in BOOLEAN
  BY FlagsAssumption DEF FlagType
<1>2. CreateVerifier(f) = c \o d
  BY DEF CreateVerifier
<1>3. /\ targets \in Seq(Text) /\ tds \in Seq(Text)
      /\ {targets[i] : i \in DOMAIN targets} = Named(f.tufTargets)
      /\ {tds[i] : i \in DOMAIN tds} = Named(f.trustDomains)
      /\ targets = <<>> <=> Named(f.tufTargets) = {}
      /\ tds = <<>> <=> Named(f.trustDomains) = {}
  BY <1>1, CandidatesNamed
<1> HIDE DEF targets, tds
<1>4. NoBlanks(tds)
  BY <1>3 DEF Named, NoBlanks
<1>5. /\ d \in Seq(Root) /\ TargetsOf(d, "custom") = {}
      /\ TargetsOf(d, "sigstore") = IF ~f.noPGI THEN {<<defaultTR>>} ELSE {}
      /\ TargetsOf(d, "github") =
           {GHTarget(td) : td \in IF tds = <<>> THEN {"dotcom"} ELSE {tds[i] : i \in DOMAIN tds}}
  BY <1>1, <1>3, <1>4, DomainsLoad
<1> HIDE DEF d
<1>6. /\ c \in Seq(Root) /\ TargetsOf(c, "sigstore") = {} /\ TargetsOf(c, "github") = {}
      /\ TargetsOf(c, "custom") = IF f.tufRepo = "" \/ f.tufRoot = "" THEN {}
                                  ELSE {<<t>> : t \in Named(f.tufTargets)}
  <2>1. CASE custom
    BY <1>3, <2>1, CustomLoads
  <2>2. CASE ~custom
    <3>1. c = <<>>
      BY <2>2
    <3>4. <<>> \in Seq(Root)
      OBVIOUS
    <3>2. \A repo : TargetsOf(<<>>, repo) = {}
      BY DEF TargetsOf
    <3>3. f.tufRepo = "" \/ f.tufRoot = "" \/ {<<t>> : t \in Named(f.tufTargets)} = {}
      BY <1>3, <2>2
    <3> HIDE DEF c
    <3> QED
      BY <3>1, <3>2, <3>3, <3>4
  <2> QED
    BY <2>1, <2>2
<1> HIDE DEF c
<1>7. c \o d \in Seq(Root) /\ \A repo : TargetsOf(c \o d, repo) = TargetsOf(c, repo) \cup TargetsOf(d, repo)
  BY <1>5, <1>6, TargetsOfBoth
<1>8. (IF ~f.noPGI THEN {<<defaultTR>>} ELSE {}) = IF f.noPGI THEN {} ELSE {<<defaultTR>>}
  OBVIOUS
<1> QED
  BY <1>2, <1>3, <1>5, <1>6, <1>7, <1>8

(***************************************************************************)
(* The invariant: the verifiers loaded so far are the first ones of those  *)
(* the flags ask for, and all of them once main is past loading.           *)
(***************************************************************************)
LoadedInv ==
  LET asked == CreateVerifier(flags)
  IN  /\ verifiers \in Seq(Root) /\ Len(verifiers) <= Len(asked)
      /\ \A i \in 1..Len(verifiers) : verifiers[i] = asked[i]
      /\ pc \notin {"pool", "fetcher", "verifiers", "ended"} \/ listener # "none" =>
           Len(verifiers) = Len(asked)

LEMMA LoadedStep ==
  ASSUME SInv, LoadedInv, [Next]_vars
  PROVE  LoadedInv'
<1> DEFINE asked == CreateVerifier(flags)
           loading == {"pool", "fetcher", "verifiers", "ended"}
<1>1. asked \in Seq(Root) /\ Len(asked) \in Nat
  <2>1. asked \in Seq(Root)
    BY VerifiersCreated DEF SInv, TypeOK
  <2> HIDE DEF asked
  <2> QED
    BY <2>1
<1>2. /\ verifiers \in Seq(Root) /\ Len(verifiers) <= Len(asked)
      /\ \A i \in 1..Len(verifiers) : verifiers[i] = asked[i]
      /\ pc \notin loading \/ listener # "none" => Len(verifiers) = Len(asked)
  BY DEF LoadedInv
<1>3. ASSUME UNCHANGED <<flags, verifiers>>,
             pc' \notin loading \/ listener' # "none" =>
               pc \notin loading \/ listener # "none" \/ Len(verifiers) = Len(asked)
      PROVE  LoadedInv'
  <2>1. asked' = asked
    BY <1>3
  <2> HIDE DEF asked
  <2> QED
    BY <1>2, <1>3, <2>1 DEF LoadedInv, asked
<1>4. CASE UNCHANGED vars
  BY <1>3, <1>4 DEF vars, config, net
<1>5. ASSUME NEW why, End(why) PROVE LoadedInv'
  BY <1>3, <1>5 DEF End, config, net
<1>6. CASE LoadVerifier
  <2>1. CASE End("verifiers")
    BY <1>5, <2>1
  <2>2. CASE ~End("verifiers")
    <3>1. /\ Len(verifiers) < Len(asked) /\ pc = "verifiers"
          /\ verifiers' = Append(verifiers, asked[Len(verifiers) + 1])
          /\ UNCHANGED <<flags, pc, listener>>
      BY <1>6, <2>2 DEF LoadVerifier, net
    <3>2. asked' = asked
      BY <3>1
    <3>3. listener = "none"
      BY <3>1 DEF SInv, ConfigInv, Early
    <3> HIDE DEF asked
    <3>4. asked[Len(verifiers) + 1] \in Root
      BY <1>1, <1>2, <3>1
    <3>5. /\ verifiers' \in Seq(Root) /\ Len(verifiers') = Len(verifiers) + 1
          /\ \A i \in 1..Len(verifiers) : verifiers'[i] = verifiers[i]
          /\ verifiers'[Len(verifiers) + 1] = asked[Len(verifiers) + 1]
      BY <1>2, <3>1, <3>4
    <3>6. \A i \in 1..Len(verifiers') : verifiers'[i] = asked[i]
      BY <1>2, <3>5
    <3> QED
      BY <1>1, <1>2, <3>1, <3>2, <3>3, <3>5, <3>6 DEF LoadedInv, asked
  <2> QED
    BY <2>1, <2>2
<1>7. CASE ConfigureRegistryPool \/ ConfigureBundleFetcher
  BY <1>3, <1>5, <1>7 DEF ConfigureRegistryPool, ConfigureBundleFetcher, net
<1>8. CASE StartMetrics
  BY <1>3, <1>8 DEF StartMetrics, config, net
<1>9. CASE CallInjector \/ InjectorStarted \/ StartKeyChain \/ RunSelectsDone \/ BeginShutdown
  BY <1>3, <1>9 DEF CallInjector, InjectorStarted, StartKeyChain, RunSelectsDone, BeginShutdown,
     config, net
<1>10. CASE InjectorFails \/ RunSelectsError \/ ShutdownDone \/ ShutdownTimesOut
            \/ PromFails \/ SignalKills
  BY <1>5, <1>10 DEF InjectorFails, RunSelectsError, ShutdownDone, ShutdownTimesOut,
     PromFails, SignalKills
<1>11. CASE ListenAndServeTLS \/ Bind \/ ListenerFails
  BY <1>3, <1>11 DEF ListenAndServeTLS, Bind, ListenerFails, Listens, config
<1>12. CASE SendError
  BY <1>3, <1>5, <1>12 DEF SendError, config
<1>13. CASE PromListens \/ Signal \/ Tick
  BY <1>3, <1>13 DEF PromListens, Signal, Tick, config, net
<1>14. ASSUME NEW q \in Requests, Accept(q) \/ Finish(q) PROVE LoadedInv'
  BY <1>3, <1>14 DEF Accept, Finish, config, net
<1>15. CASE Ended
  BY <1>4, <1>15 DEF Ended
<1> QED
  BY <1>4, <1>6, <1>7, <1>8, <1>9, <1>10, <1>11, <1>12, <1>13, <1>14, <1>15 DEF Next, Main

LEMMA LoadedIsAsked ==
  ASSUME SInv, LoadedInv
  PROVE  VerifiersAsAsked
<1> DEFINE asked == CreateVerifier(flags)
<1> SUFFICES ASSUME listener = "accepting" PROVE VerifiersAsAsked
  BY DEF VerifiersAsAsked
<1>1. flags \in Flags
  BY DEF SInv, TypeOK
<1>2. asked \in Seq(Root)
  BY <1>1, VerifiersCreated
<1>3. verifiers = asked
  <2>1. /\ verifiers \in Seq(Root) /\ Len(verifiers) = Len(asked)
        /\ \A i \in 1..Len(verifiers) : verifiers[i] = asked[i]
    BY DEF LoadedInv
  <2> HIDE DEF asked
  <2> QED
    BY <1>2, <2>1
<1>4. /\ TargetsOf(verifiers, "custom") =
           IF flags.tufRepo = "" \/ flags.tufRoot = "" THEN {}
           ELSE {<<t>> : t \in Named(flags.tufTargets)}
      /\ TargetsOf(verifiers, "sigstore") = IF flags.noPGI THEN {} ELSE {<<defaultTR>>}
      /\ TargetsOf(verifiers, "github") =
           {GHTarget(td) : td \in IF Named(flags.trustDomains) = {} THEN {"dotcom"}
                                  ELSE Named(flags.trustDomains)}
  BY <1>1, <1>3, VerifiersCreated
<1> QED
  BY <1>4 DEF VerifiersAsAsked, TargetsOf, Named, GHTarget

(***************************************************************************)
(* Whatever the flags, and however far loading had come when it failed,    *)
(* requests are accepted only with exactly the trust roots asked for       *)
(* (internal/app/verifier.go:28-123).                                      *)
(***************************************************************************)
THEOREM AlwaysVerifiersAsAsked == Spec => []VerifiersAsAsked
<1>1. Init => LoadedInv
  <2> SUFFICES ASSUME Init PROVE LoadedInv
    OBVIOUS
  <2>1. CreateVerifier(flags) \in Seq(Root)
    BY VerifiersCreated DEF Init
  <2>2. verifiers \in Seq(Root) /\ Len(verifiers) = 0
    BY DEF Init
  <2>3. Len(CreateVerifier(flags)) \in Nat
    BY <2>1
  <2> QED
    BY <2>2, <2>3 DEF Init, LoadedInv
<1> QED
  BY <1>1, SInvHolds, LoadedStep, LoadedIsAsked, PTL DEF Spec
=============================================================================
