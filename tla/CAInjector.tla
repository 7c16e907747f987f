----------------------------- MODULE CAInjector -----------------------------
(***************************************************************************)
(* The CA injector (pkg/cainjector/injector.go) of every replica of the    *)
(* provider, updating one Provider object of the API server: Start updates *)
(* it once, before the server listens, and a background goroutine on every *)
(* tick.  The replicas' mounted ca.crt are rotated under them.  Gatekeeper *)
(* picks the bundle up some time after a write, and UpdateCABundle waits   *)
(* for a fixed time in the hope that it has.                               *)
(*                                                                         *)
(* A caBundle is the list of its certificates and whether its text is      *)
(* canonical: one certificate has many PEM texts (line width, headers,     *)
(* comments, a missing last newline), mergeAndEncode always writes the     *)
(* same one, and two bundles are compared as text.                         *)
(***************************************************************************)
EXTENDS Collections, SequencesExt

CONSTANTS
  Replicas,
  Certs,             \* CA certificates
  FirstBundles,      \* the caBundles the operator may have installed
  Mounts,            \* what a ca.crt may hold; the first is Mounts[1]
  PropagationDelay,  \* what UpdateCABundle waits after a write, in ticks
  GatekeeperLag,     \* the ticks in which Gatekeeper picks up a write
  MaxRotations,      \* bound: rotations, Mounts[2] on
  MaxExpiries,       \* bound: certificates that expire
  MaxFaults,         \* bound: calls that fail or time out
  MaxStops           \* bound: shutdown signals and killed replicas

ASSUME CAAssumption ==
  /\ FirstBundles \subseteq [bundle : Seq(Certs), canonical : BOOLEAN]
  /\ Mounts \in Seq(Seq(Certs)) /\ MaxRotations \in Nat /\ Len(Mounts) > MaxRotations
  /\ MaxExpiries \in Nat /\ MaxFaults \in Nat /\ MaxStops \in Nat

\* "Sleeping to allow Gatekeeper to pick up the changes" (injector.go:102).
ASSUME DelayAssumption ==
  PropagationDelay \in Nat /\ GatekeeperLag \in Nat /\ GatekeeperLag < PropagationDelay

VARIABLES
  bundle, version,  \* API server: the Provider's caBundle and resourceVersion
  canonical,        \* API server: caBundle is the text mergeAndEncode writes
  trusted, picked,  \* Gatekeeper: the CAs it trusts, and of which version
  lag,              \* Gatekeeper: ticks since it first missed a write
  expired,          \* the certificates whose NotAfter has passed
  rotation,         \* which of Mounts the secret holds
  mount,            \* which of Mounts each replica sees as ca.crt
  pc,               \* where each replica's injector is
  phase,            \* "start": in Start's own update; "refresh": in the loop
  ctx,              \* "live", or "done" after the shutdown signal
  tick,             \* the ticker's channel holds a tick
  copy,             \* the Provider object as last read
  newBundle,        \* the merged bundle about to be written
  merged,           \* history: ca.crt as it was merged
  age,              \* ticks the propagation timer has run
  injected,         \* history: ca.crt of the last update that returned nil
  waited,           \* history: that update has waited for Gatekeeper
  faults, stops

local      == <<pc, phase, ctx, tick, copy, newBundle, merged, age, injected, waited>>
object     == <<bundle, version, canonical>>
gatekeeper == <<trusted, picked, lag>>
cluster    == <<object, gatekeeper, expired, rotation, mount>>
bounds     == <<faults, stops>>
vars       == <<local, cluster, bounds>>

NoCopy == [bundle |-> <<>>, canonical |-> TRUE, version |-> 0]

Init ==
  /\ \E b \in FirstBundles : bundle = b.bundle /\ canonical = b.canonical
  /\ version = 0
  /\ trusted = ToSet(bundle) /\ picked = 0 /\ lag = 0
  /\ expired = {}
  /\ rotation = 1 /\ mount = [r \in Replicas |-> 1]
  /\ pc = [r \in Replicas |-> "get"]
  /\ phase = [r \in Replicas |-> "start"]
  /\ ctx = [r \in Replicas |-> "live"]
  /\ tick = [r \in Replicas |-> FALSE]
  /\ copy = [r \in Replicas |-> NoCopy]
  /\ newBundle = [r \in Replicas |-> <<>>]
  /\ merged = [r \in Replicas |-> {}] /\ injected = [r \in Replicas |-> {}]
  /\ age = [r \in Replicas |-> 0] /\ waited = [r \in Replicas |-> FALSE]
  /\ faults = 0 /\ stops = 0

-----------------------------------------------------------------------------
(***************************************************************************)
(* The world around the injectors.                                         *)
(***************************************************************************)
Rotate ==
  /\ rotation <= MaxRotations
  /\ rotation' = rotation + 1
  /\ UNCHANGED <<local, object, gatekeeper, expired, mount, bounds>>

\* The kubelet projects the secret into the pod.
Project(r) ==
  /\ mount[r] # rotation
  /\ mount' = [mount EXCEPT ![r] = rotation]
  /\ UNCHANGED <<local, object, gatekeeper, expired, rotation, bounds>>

ExpireCert(c) ==
  /\ c \notin expired
  /\ Cardinality(expired) < MaxExpiries
  /\ expired' = expired \cup {c}
  /\ UNCHANGED <<local, object, gatekeeper, rotation, mount, bounds>>

GatekeeperPicksUp ==
  /\ picked # version
  /\ trusted' = ToSet(bundle) /\ picked' = version /\ lag' = 0
  /\ UNCHANGED <<local, object, expired, rotation, mount, bounds>>

\* Time passes, as far as anyone waits for it, and not past the moment at which
\* Gatekeeper has picked up a write.
Waiting(r) == pc[r] = "propagate" /\ age[r] < PropagationDelay

TimePasses ==
  /\ \E r \in Replicas : Waiting(r)
  /\ picked = version \/ lag < GatekeeperLag
  /\ age' = [r \in Replicas |-> IF Waiting(r) THEN age[r] + 1 ELSE age[r]]
  /\ lag' = IF picked = version THEN 0 ELSE lag + 1
  /\ UNCHANGED <<pc, phase, ctx, tick, copy, newBundle, merged, injected, waited,
                 object, trusted, picked, expired, rotation, mount, bounds>>

Shutdown(r) ==
  /\ pc[r] # "down" /\ ctx[r] = "live"
  /\ stops < MaxStops
  /\ stops' = stops + 1
  /\ ctx' = [ctx EXCEPT ![r] = "done"]
  /\ UNCHANGED <<pc, phase, tick, copy, newBundle, merged, age, injected, waited, cluster, faults>>

\* UpdateCABundle's variables go out of scope.
Forget(r) ==
  /\ copy' = [copy EXCEPT ![r] = NoCopy]
  /\ newBundle' = [newBundle EXCEPT ![r] = <<>>]
  /\ merged' = [merged EXCEPT ![r] = {}]
  /\ age' = [age EXCEPT ![r] = 0]

\* A process that has ended, for whatever reason, is replaced.
Down(r) ==
  /\ pc' = [pc EXCEPT ![r] = "down"]
  /\ injected' = [injected EXCEPT ![r] = {}]
  /\ waited' = [waited EXCEPT ![r] = FALSE]

Kill(r) ==
  /\ pc[r] # "down"
  /\ stops < MaxStops
  /\ stops' = stops + 1
  /\ Down(r)
  /\ Forget(r)
  /\ UNCHANGED <<phase, ctx, tick, cluster, faults>>

Restart(r) ==
  /\ pc[r] = "down"
  /\ pc' = [pc EXCEPT ![r] = "get"]
  /\ phase' = [phase EXCEPT ![r] = "start"]
  /\ ctx' = [ctx EXCEPT ![r] = "live"]
  /\ tick' = [tick EXCEPT ![r] = FALSE]
  /\ UNCHANGED <<copy, newBundle, merged, age, injected, waited, cluster, bounds>>

Tick(r) ==
  /\ pc[r] # "down" /\ phase[r] = "refresh" /\ ~tick[r]
  /\ tick' = [tick EXCEPT ![r] = TRUE]
  /\ UNCHANGED <<pc, phase, ctx, copy, newBundle, merged, age, injected, waited, cluster, bounds>>

-----------------------------------------------------------------------------
(***************************************************************************)
(* mergeAndEncode: the unexpired certificates of both, the Provider's      *)
(* first, each once.                                                       *)
(***************************************************************************)
\* The places of the certificates that are kept.
Kept(s) == {i \in DOMAIN s : s[i] \notin expired /\ \A j \in 1..(i - 1) : s[j] # s[i]}
Thinned(s) == Picked(s, Kept(s))

\* The mounted certificates are put first.
BugMergeAndEncode(old, additional) == Thinned(additional \o old)
mergeAndEncode(old, additional) == Thinned(old \o additional)

\* A bundle that has all the certificates is left alone.
BugUpToDate(old, new) == ToSet(new) \subseteq ToSet(old.bundle)
UpToDate(old, new) == old.canonical /\ old.bundle = new

(***************************************************************************)
(* UpdateCABundle returns: with nil, or with an error, which is fatal in   *)
(* Start (log.Fatalf in main) and ends the refresh loop only on shutdown.  *)
(***************************************************************************)
ReturnNil(r, ca) ==
  /\ pc' = [pc EXCEPT ![r] = "select"]
  /\ phase' = [phase EXCEPT ![r] = "refresh"]
  /\ injected' = [injected EXCEPT ![r] = ca]
  /\ waited' = [waited EXCEPT ![r] = pc[r] = "propagate"]
  /\ Forget(r)
  /\ UNCHANGED <<ctx, tick>>

ReturnError(r) ==
  /\ IF phase[r] = "start" \/ ctx[r] = "done" THEN Down(r)
     ELSE pc' = [pc EXCEPT ![r] = "select"] /\ UNCHANGED <<injected, waited>>
  /\ Forget(r)
  /\ UNCHANGED <<phase, ctx, tick>>

\* The object loses its metadata in the conversion.
BugGetProvider(r) ==
  /\ pc[r] = "get"
  /\ copy' = [copy EXCEPT ![r] = [bundle |-> bundle, canonical |-> canonical]]
  /\ pc' = [pc EXCEPT ![r] = "merge"]
  /\ UNCHANGED <<phase, ctx, tick, newBundle, merged, age, injected, waited, cluster, bounds>>

GetProvider(r) ==
  /\ pc[r] = "get"
  /\ copy' = [copy EXCEPT ![r] = [bundle |-> bundle, canonical |-> canonical,
                                      version |-> version]]
  /\ pc' = [pc EXCEPT ![r] = "merge"]
  /\ UNCHANGED <<phase, ctx, tick, newBundle, merged, age, injected, waited, cluster, bounds>>

\* The file is read once, before the loop.
BugReadFile(r) == Mounts[1]
ReadFile(r) == Mounts[mount[r]]

\* ReadFile and mergeAndEncode, up to the write if there is one.
Merge(r) ==
  LET ca  == ReadFile(r)
      new == mergeAndEncode(copy[r].bundle, ca)
  IN  /\ pc[r] = "merge"
      /\ \/ new = <<>> /\ ReturnError(r)
         \/ new # <<>> /\ UpToDate(copy[r], new) /\ ReturnNil(r, ToSet(ca))
         \/ /\ new # <<>> /\ ~UpToDate(copy[r], new)
            /\ merged' = [merged EXCEPT ![r] = ToSet(ca)]
            /\ newBundle' = [newBundle EXCEPT ![r] = new]
            /\ pc' = [pc EXCEPT ![r] = "update"]
            /\ UNCHANGED <<phase, ctx, tick, copy, age, injected, waited>>
      /\ UNCHANGED <<cluster, bounds>>

Write(r) ==
  /\ bundle' = newBundle[r] /\ canonical' = TRUE
  /\ version' = version + 1
  /\ UNCHANGED <<gatekeeper, expired, rotation, mount>>

\* The API server ignores the version it is given.
BugUnchanged(r) == TRUE
Unchanged(r) == copy[r].version = version

UpdateProvider(r) ==
  /\ pc[r] = "update"
  /\ Unchanged(r)
  /\ Write(r)
  /\ pc' = [pc EXCEPT ![r] = "propagate"]
  /\ age' = [age EXCEPT ![r] = 0]
  /\ UNCHANGED <<phase, ctx, tick, copy, newBundle, merged, injected, waited, bounds>>

\* A conflict is taken for an update that has been made.
BugUpdateConflicts(r) ==
  /\ pc[r] = "update"
  /\ ~Unchanged(r)
  /\ ReturnNil(r, merged[r])
  /\ UNCHANGED <<cluster, bounds>>

UpdateConflicts(r) ==
  /\ pc[r] = "update"
  /\ ~Unchanged(r)
  /\ ReturnError(r)
  /\ UNCHANGED <<cluster, bounds>>

\* The wait is left out.
BugPropagated(r) == TRUE
Propagated(r) == age[r] = PropagationDelay

PropagationOver(r) ==
  /\ pc[r] = "propagate"
  /\ Propagated(r)
  /\ ReturnNil(r, merged[r])
  /\ UNCHANGED <<cluster, bounds>>

\* A call fails or the 30 seconds are over, for no fault of this code, or the
\* context is done; the write may have been made all the same.
CallFails(r) ==
  /\ pc[r] \in {"get", "merge", "update", "propagate"}
  /\ \/ ctx[r] = "done" /\ pc[r] # "merge" /\ UNCHANGED faults
     \/ faults < MaxFaults /\ faults' = faults + 1
  /\ \/ UNCHANGED cluster
     \/ pc[r] = "update" /\ Unchanged(r) /\ Write(r)
  /\ ReturnError(r)
  /\ UNCHANGED stops

-----------------------------------------------------------------------------
(***************************************************************************)
(* refreshLoop's select.                                                   *)
(***************************************************************************)
TakeTick(r) ==
  /\ pc[r] = "select" /\ tick[r]
  /\ tick' = [tick EXCEPT ![r] = FALSE]
  /\ pc' = [pc EXCEPT ![r] = "get"]
  /\ UNCHANGED <<phase, ctx, copy, newBundle, merged, age, injected, waited, cluster, bounds>>

TakeDone(r) ==
  /\ pc[r] = "select" /\ ctx[r] = "done"
  /\ Down(r)
  /\ UNCHANGED <<phase, ctx, tick, copy, newBundle, merged, age, cluster, bounds>>

Step(r) ==
  \/ GetProvider(r) \/ Merge(r) \/ UpdateProvider(r) \/ UpdateConflicts(r)
  \/ PropagationOver(r) \/ TakeTick(r) \/ TakeDone(r)

Next ==
  \/ Rotate \/ GatekeeperPicksUp \/ TimePasses
  \/ \E c \in Certs : ExpireCert(c)
  \/ \E r \in Replicas :
       Step(r) \/ CallFails(r) \/ Tick(r) \/ Project(r) \/ Shutdown(r) \/ Kill(r) \/ Restart(r)

Spec == Init /\ [][Next]_vars

(***************************************************************************)
(* Fairness: goroutines are scheduled, tickers tick, Kubernetes restarts   *)
(* replicas and projects the secret, Gatekeeper watches the Provider, and  *)
(* time passes.                                                            *)
(***************************************************************************)
Fairness ==
  /\ WF_vars(GatekeeperPicksUp) /\ WF_vars(TimePasses)
  /\ \A r \in Replicas :
       WF_vars(Step(r)) /\ WF_vars(Tick(r)) /\ WF_vars(Restart(r)) /\ WF_vars(Project(r))

FairSpec == Spec /\ Fairness

-----------------------------------------------------------------------------
\* Types: the bundle stays a list of certificates and a copy of the Provider
\* keeps the version its update is checked against (injector.go:191-227).
TypeOK ==
  /\ bundle \in Seq(Certs) /\ canonical \in BOOLEAN /\ version \in Nat
  /\ trusted \in SUBSET Certs /\ picked \in Nat /\ lag \in 0..GatekeeperLag
  /\ expired \in SUBSET Certs
  /\ rotation \in DOMAIN Mounts /\ mount \in [Replicas -> DOMAIN Mounts]
  /\ pc \in [Replicas -> {"get", "merge", "update", "propagate", "select", "down"}]
  /\ phase \in [Replicas -> {"start", "refresh"}]
  /\ ctx \in [Replicas -> {"live", "done"}]
  /\ tick \in [Replicas -> BOOLEAN]
  /\ copy \in [Replicas -> [bundle : Seq(Certs), canonical : BOOLEAN, version : Nat]]
  /\ newBundle \in [Replicas -> Seq(Certs)]
  /\ merged \in [Replicas -> SUBSET Certs] /\ injected \in [Replicas -> SUBSET Certs]
  /\ age \in [Replicas -> 0..PropagationDelay] /\ waited \in [Replicas -> BOOLEAN]
  /\ faults \in 0..MaxFaults /\ stops \in 0..MaxStops

(***************************************************************************)
(* "Unexpired certificates already in the Provider are retained"           *)
(* (README.md:102), though replicas with different ca.crt read, merge and  *)
(* write the object at the same time (injector.go:77-96).                  *)
(***************************************************************************)
UnexpiredRetained == [][ToSet(bundle) \ expired' \subseteq ToSet(bundle')]_vars

(***************************************************************************)
(* A replica serves only while the CA it injected last is in the Provider  *)
(* or has expired: Start returns nil for no other (aaop.go:173), and no    *)
(* later step of any replica takes it out.                                 *)
(***************************************************************************)
ServingTrusted ==
  \A r \in Replicas : injected[r] \subseteq ToSet(bundle) \cup expired

(***************************************************************************)
(* A replica whose update wrote the Provider and returned is trusted by    *)
(* Gatekeeper from then on; one that found its CA there, because another   *)
(* replica or its own process before a restart had just written it, does   *)
(* not wait, and serves untrusted until Gatekeeper has picked the write up *)
(* (injector.go:91-94 and :99-110).                                        *)
(***************************************************************************)
GatekeeperTrusts ==
  \A r \in Replicas :
    \/ injected[r] \subseteq trusted \cup expired
    \/ ~waited[r] /\ picked < version

(***************************************************************************)
(* Every write changes which certificates the Provider holds, takes        *)
(* duplicates out, or puts the operator's text into canonical form, once:  *)
(* replicas never write the object to and fro, each undoing the other's    *)
(* order (injector.go:92 and :139).                                        *)
(***************************************************************************)
EveryWriteCounts ==
  [][version' # version =>
       \/ ToSet(bundle') # ToSet(bundle)
       \/ Len(bundle') < Len(bundle)
       \/ ~canonical /\ canonical']_vars

(***************************************************************************)
(* The replicas' updates are as if each were made in one step: whatever is *)
(* read, merged and written at the same time, the Provider and Gatekeeper  *)
(* have the certificates the operator or a ca.crt brought, and no others,  *)
(* and lose none but expired ones (injector.go:72-114).                    *)
(***************************************************************************)
TrustStore == INSTANCE TrustedCAs WITH
  Certificates <- Certs,
  Installed <- {ToSet(b.bundle) : b \in FirstBundles},
  Secrets <- [i \in DOMAIN Mounts |-> ToSet(Mounts[i])],
  held <- ToSet(bundle)

UpdatesAsIfAtomic == TrustStore!Spec

(***************************************************************************)
(* What ca.crt holds gets into the Provider, whatever conflicts, faults    *)
(* and restarts happen before: "Failed periodic updates are retried on the *)
(* next interval" (README.md:97).                                          *)
(***************************************************************************)
InjectedInTheEnd ==
  \A i \in DOMAIN Mounts : \A c \in ToSet(Mounts[i]) :
    (rotation = i) ~> (c \in ToSet(bundle) \/ c \in expired \/ rotation # i)

(***************************************************************************)
(* "UpdateCABundle removes expired certificates to prevent the bundle from *)
(* growing indefinitely" (injector.go:75), unless nothing else is left.    *)
(***************************************************************************)
ExpiredPruned ==
  \A c \in Certs :
    (c \in expired) ~> (c \notin ToSet(bundle) \/
                        ToSet(bundle) \cup ToSet(Mounts[rotation]) \subseteq expired)
=============================================================================
