------------------------------ MODULE KeyChain ------------------------------
(***************************************************************************)
(* KeyChainProvider (pkg/authn/provider.go): the cached registry keychain, *)
(* built once by Start and then rebuilt by a background goroutine on every *)
(* tick until shutdown, from authenticators that read the cluster's image  *)
(* pull secrets and may fail one by one.                                   *)
(*                                                                         *)
(* A keychain is the version of the secrets each authenticator in it was   *)
(* built from, 0 for an authenticator it lacks.  The default keychain has  *)
(* none, and it is also what KeyChain hands out while nothing is cached,   *)
(* so the nil snapshot and the default keychain are one value.             *)
(***************************************************************************)
EXTENDS Integers

CONSTANTS
  MaxRotations,  \* bound: changes of the secrets in the cluster
  MaxFails,      \* bound: authenticators that fail or time out
  MaxCounted     \* bound: the failure counter stays there

ASSUME KeyChainAssumption == MaxRotations \in Nat /\ MaxFails \in Nat /\ MaxCounted \in Nat

\* Built in this order (buildKeychain).
Authenticators == {"kubernetes", "cloud"}

BugDefaultKeychain == [a \in {"kubernetes"} |-> 0]
DefaultKeychain == [a \in Authenticators |-> 0]

VARIABLES
  secret,   \* cluster: version of the secrets
  ctx,      \* "live", or "done" after the shutdown signal
  phase,    \* "start": in Start's own build; "refresh": in the refresh loop
  pc,       \* the authenticator being built, "built", "select" or "stopped"
  tick,     \* the ticker's channel holds a tick
  kc,       \* the keychain under construction
  cached,   \* the cached snapshot, what KeyChain returns
  broken,   \* authenticator failures so far
  fails     \* metrics.KeychainRefreshFail

vars == <<secret, ctx, phase, pc, tick, kc, cached, broken, fails>>

Init ==
  /\ secret = 1
  /\ ctx = "live"
  /\ phase = "start" /\ pc = "kubernetes"
  /\ tick = FALSE
  /\ kc = DefaultKeychain /\ cached = DefaultKeychain
  /\ broken = 0 /\ fails = 0

-----------------------------------------------------------------------------
\* The cluster, the signal handler and the ticker, whose channel holds one
\* tick and drops the ones that find it full.
Rotate ==
  /\ secret <= MaxRotations
  /\ secret' = secret + 1
  /\ UNCHANGED <<ctx, phase, pc, tick, kc, cached, broken, fails>>

Shutdown ==
  /\ ctx = "live"
  /\ ctx' = "done"
  /\ UNCHANGED <<secret, phase, pc, tick, kc, cached, broken, fails>>

Tick ==
  /\ phase = "refresh" /\ pc # "stopped"
  /\ ~tick
  /\ tick' = TRUE
  /\ UNCHANGED <<secret, ctx, phase, pc, kc, cached, broken, fails>>

-----------------------------------------------------------------------------
\* buildKeychain: one authenticator after the other, each read from the
\* cluster under the build's context.
After(a) == IF a = "kubernetes" THEN "cloud" ELSE "built"

BuildOk(a) ==
  /\ pc = a
  /\ ctx = "live"
  /\ kc' = [kc EXCEPT ![a] = secret]
  /\ pc' = After(a)
  /\ UNCHANGED <<secret, ctx, phase, tick, cached, broken, fails>>

\* The API server fails, the build's timeout passes, or the process stops.
BuildFails(a) ==
  /\ pc = a
  /\ \/ ctx = "live" /\ broken < MaxFails /\ broken' = broken + 1
     \/ ctx = "done" /\ UNCHANGED broken
  /\ pc' = After(a)
  /\ UNCHANGED <<secret, ctx, phase, tick, kc, cached, fails>>

\* Start: the first build is cached whatever it holds.
StartDone ==
  /\ phase = "start" /\ pc = "built"
  /\ cached' = kc
  /\ phase' = "refresh" /\ pc' = "select"
  /\ UNCHANGED <<secret, ctx, tick, kc, broken, fails>>

\* refreshLoop.  The select takes either branch when both are ready.
TakeTick ==
  /\ pc = "select"
  /\ tick
  /\ tick' = FALSE
  /\ kc' = DefaultKeychain
  /\ pc' = "kubernetes"
  /\ UNCHANGED <<secret, ctx, phase, cached, broken, fails>>

\* Shutdown is looked at only when no tick is waiting.
BugTakeDone ==
  /\ pc = "select"
  /\ ctx = "done" /\ ~tick
  /\ pc' = "stopped"
  /\ UNCHANGED <<secret, ctx, phase, tick, kc, cached, broken, fails>>

TakeDone ==
  /\ pc = "select"
  /\ ctx = "done"
  /\ pc' = "stopped"
  /\ UNCHANGED <<secret, ctx, phase, tick, kc, cached, broken, fails>>

\* The ok of buildKeychain.
BugComplete(k) == k # DefaultKeychain
Complete(k) == \A a \in Authenticators : k[a] # 0

\* A failed rebuild ends the loop.
BugRefreshDone ==
  /\ phase = "refresh" /\ pc = "built"
  /\ \/ Complete(kc) /\ cached' = kc /\ pc' = "select" /\ UNCHANGED fails
     \/ /\ ~Complete(kc)
        /\ fails' = IF fails < MaxCounted THEN fails + 1 ELSE fails
        /\ pc' = "stopped"
        /\ UNCHANGED cached
  /\ UNCHANGED <<secret, ctx, phase, tick, kc, broken>>

RefreshDone ==
  /\ phase = "refresh" /\ pc = "built"
  /\ \/ Complete(kc) /\ cached' = kc /\ UNCHANGED fails
     \/ /\ ~Complete(kc)
        /\ fails' = IF fails < MaxCounted THEN fails + 1 ELSE fails
        /\ UNCHANGED cached
  /\ pc' = "select"
  /\ UNCHANGED <<secret, ctx, phase, tick, kc, broken>>

-----------------------------------------------------------------------------
Step ==
  \/ \E a \in Authenticators : BuildOk(a) \/ BuildFails(a)
  \/ StartDone \/ TakeTick \/ TakeDone \/ RefreshDone

Stopped == pc = "stopped" /\ UNCHANGED vars

Next == Step \/ Rotate \/ Shutdown \/ Tick \/ Stopped

Spec == Init /\ [][Next]_vars

(***************************************************************************)
(* Fairness: the ticker ticks, the goroutine runs, a build ends, and the   *)
(* select, which picks a ready branch at random, does not pass over the    *)
(* shutdown branch for ever.                                               *)
(***************************************************************************)
Fairness == WF_vars(Tick) /\ WF_vars(Step) /\ SF_vars(TakeDone)

FairSpec == Spec /\ Fairness

-----------------------------------------------------------------------------
\* Types: a keychain says of every authenticator whether and how it was built
\* (authn/provider.go:88-125).
TypeOK ==
  /\ secret \in 1..(MaxRotations + 1)
  /\ ctx \in {"live", "done"}
  /\ phase \in {"start", "refresh"}
  /\ pc \in Authenticators \cup {"built", "select", "stopped"}
  /\ tick \in BOOLEAN
  /\ kc \in [Authenticators -> Nat] /\ cached \in [Authenticators -> Nat]
  /\ broken \in 0..MaxFails
  /\ fails \in 0..MaxCounted

(***************************************************************************)
(* The keychain requests get only improves: no authenticator it has is     *)
(* lost or taken back to older secrets, whatever rebuilds fail, time out   *)
(* or are cut short by shutdown ("a degraded rebuild never replaces a good *)
(* keychain", authn/provider.go:87).                                       *)
(***************************************************************************)
OnlyImproves == [][\A a \in Authenticators : cached'[a] >= cached[a]]_vars

(***************************************************************************)
(* A rotated secret reaches the requests, unless the process is stopped    *)
(* first: the ticker's dropped ticks and failed rebuilds delay it but do   *)
(* not prevent it (authn/provider.go:146-169).                             *)
(***************************************************************************)
CatchesUp ==
  \A v \in 1..(MaxRotations + 1) :
    secret >= v ~> (ctx = "done" \/ \A a \in Authenticators : cached[a] >= v)

(***************************************************************************)
(* After the shutdown signal the refresher ends, although ticks keep       *)
(* coming and compete with the signal in its select.                       *)
(***************************************************************************)
RefresherStops == ctx = "done" ~> pc = "stopped"
=============================================================================
