--------------------------- MODULE KeyChainProofs ---------------------------
(***************************************************************************)
(* Proofs about KeyChain, for any number of rotations and failures.        *)
(***************************************************************************)
EXTENDS KeyChain, TLAPS

(***************************************************************************)
(* What is cached is no newer than the cluster, and what the refresher has *)
(* built so far is no older than what is cached: its authenticators were   *)
(* read after the cached ones.                                             *)
(***************************************************************************)
Ages ==
  /\ \A a \in Authenticators : cached[a] <= secret
  /\ phase = "start" => cached = DefaultKeychain
  /\ phase = "refresh" /\ pc \in Authenticators \cup {"built"} =>
       \A a \in Authenticators : kc[a] = 0 \/ kc[a] >= cached[a]
  /\ \A a \in Authenticators : kc[a] <= secret

IInv == TypeOK /\ Ages

LEMMA InitInv == Init => IInv
<1> SUFFICES ASSUME Init PROVE IInv
  OBVIOUS
<1>1. /\ DefaultKeychain \in [Authenticators -> Nat]
      /\ \A a \in Authenticators : DefaultKeychain[a] = 0
  BY DEF DefaultKeychain
<1>2. TypeOK
  <2>1. tick \in BOOLEAN
    BY DEF Init
  <2>2. 1 \in 1..(MaxRotations + 1) /\ 0 \in 0..MaxFails /\ 0 \in 0..MaxCounted
    BY KeyChainAssumption
  <2> QED
    BY <1>1, <2>1, <2>2, Zenon DEF Init, TypeOK, Authenticators
<1>3. Ages
  BY <1>1 DEF Init, Ages
<1> QED
  BY <1>2, <1>3 DEF IInv

LEMMA StepInv == IInv /\ [Next]_vars => IInv'
<1> SUFFICES ASSUME IInv, [Next]_vars PROVE IInv'
  OBVIOUS
<1> USE KeyChainAssumption DEF IInv, TypeOK, Ages, Authenticators
<1>1. CASE Rotate
  BY <1>1 DEF Rotate
<1>2. CASE Shutdown
  BY <1>2 DEF Shutdown
<1>3. CASE Tick
  BY <1>3 DEF Tick
<1>4. ASSUME NEW a \in Authenticators, BuildOk(a) PROVE IInv'
  BY <1>4 DEF BuildOk, After
<1>5. ASSUME NEW a \in Authenticators, BuildFails(a) PROVE IInv'
  BY <1>5 DEF BuildFails, After
<1>6. CASE StartDone
  BY <1>6 DEF StartDone
<1>7. CASE TakeTick
  <2>1. /\ DefaultKeychain \in [Authenticators -> Nat]
        /\ \A a \in Authenticators : DefaultKeychain[a] = 0
    BY DEF DefaultKeychain
  <2>2. tick' \in BOOLEAN
    BY <1>7, Zenon DEF TakeTick
  <2>3. /\ kc' = DefaultKeychain /\ pc' = "kubernetes"
        /\ UNCHANGED <<secret, ctx, phase, cached, broken, fails>>
    BY <1>7 DEF TakeTick
  <2> QED
    BY <2>1, <2>2, <2>3
<1>8. CASE TakeDone
  BY <1>8 DEF TakeDone
<1>9. CASE RefreshDone
  BY <1>9 DEF RefreshDone
<1>10. CASE UNCHANGED vars
  BY <1>10 DEF vars
<1> QED
  BY <1>1, <1>2, <1>3, <1>4, <1>5, <1>6, <1>7, <1>8, <1>9, <1>10
  DEF Next, Step, Stopped

LEMMA Invariance == Spec => []IInv
BY InitInv, StepInv, PTL DEF Spec

(***************************************************************************)
(* The keychain provider keeps its state well typed.                       *)
(***************************************************************************)
THEOREM TypeCorrect == Spec => []TypeOK
<1>1. IInv => TypeOK
  BY DEF IInv
<1> QED
  BY <1>1, Invariance, PTL

(***************************************************************************)
(* No sequence of rotations, failing authenticators, timeouts and shutdown *)
(* takes from the requests an authenticator they had, or gives them older  *)
(* secrets than they had (refreshLoop's adoption rule).                    *)
(***************************************************************************)
THEOREM KeychainOnlyImproves == Spec => OnlyImproves
<1>1. IInv /\ [Next]_vars => [\A a \in Authenticators : cached'[a] >= cached[a]]_vars
  <2> SUFFICES ASSUME IInv, [Next]_vars, NEW a \in Authenticators
               PROVE  cached'[a] >= cached[a]
    OBVIOUS
  <2>1. cached[a] \in Nat
    BY DEF IInv, TypeOK
  <2>2. CASE StartDone
    BY <2>1, <2>2 DEF StartDone, IInv, TypeOK, Ages, DefaultKeychain
  <2>3. CASE RefreshDone
    BY <2>1, <2>3 DEF RefreshDone, Complete, IInv, TypeOK, Ages
  <2>4. CASE UNCHANGED cached
    BY <2>1, <2>4
  <2> QED
    BY <2>2, <2>3, <2>4
    DEF Next, Step, Stopped, vars, Rotate, Shutdown, Tick, BuildOk, BuildFails,
        TakeTick, TakeDone
<1> QED
  BY <1>1, Invariance, PTL DEF Spec, OnlyImproves
=============================================================================
