-------------------------- MODULE CAInjectorProofs --------------------------
(***************************************************************************)
(* Proofs that no replica loses another's CA, that a replica serves only   *)
(* with its CA in the Provider, and, once it has waited, with a CA that    *)
(* Gatekeeper trusts, for any replicas, certificates, bundles, rotations,  *)
(* expiries, faults and stops.                                             *)
(***************************************************************************)
EXTENDS CAInjector, CollectionProofs

USE DEF object, gatekeeper

-----------------------------------------------------------------------------
(***************************************************************************)
(* What mergeAndEncode returns.                                            *)
(***************************************************************************)
\* Every unexpired certificate is kept at one place.
LEMMA KeptOnce ==
  ASSUME NEW s \in Seq(Certs), NEW i \in DOMAIN s, s[i] \notin expired
  PROVE  \E j \in Kept(s) : s[j] = s[i]
<1> DEFINE T == {j \in DOMAIN s : s[j] = s[i]}
<1>1. PICK j \in T : \A y \in T : j <= y
  <2>1. T \subseteq Nat /\ i \in T
    OBVIOUS
  <2> HIDE DEF T
  <2> QED
    BY <2>1, FirstPlace
<1>2. \A y \in 1..(j - 1) : s[y] # s[j]
  BY <1>1
<1> QED
  BY <1>1, <1>2 DEF Kept

\* The k-th of the thinned list is the certificate at the k-th place kept.
LEMMA ThinnedAt ==
  ASSUME NEW s \in Seq(Certs)
  PROVE  /\ Cardinality(Kept(s)) \in Nat
         /\ Kept(s) \in SUBSET (1..Len(s))
         /\ DOMAIN Thinned(s) = 1..Cardinality(Kept(s))
         /\ \A k \in 1..Cardinality(Kept(s)) :
              \E i \in Kept(s) : Rank(Kept(s), i) = k /\ Thinned(s)[k] = s[i]
         /\ \A i \in Kept(s) : /\ Rank(Kept(s), i) \in 1..Cardinality(Kept(s))
                               /\ Thinned(s)[Rank(Kept(s), i)] = s[i]
<1>1. Kept(s) \in SUBSET (1..Len(s)) /\ Len(s) \in Nat
  BY DEF Kept
<1> QED
  BY <1>1, PickedAt DEF Thinned

\* The thinned list has the unexpired certificates, all of them and no other.
LEMMA ThinnedHolds ==
  ASSUME NEW s \in Seq(Certs)
  PROVE  Thinned(s) \in Seq(Certs) /\ ToSet(Thinned(s)) = ToSet(s) \ expired
<1>1. /\ Thinned(s) \in Seq(Certs)
      /\ \A j \in DOMAIN Thinned(s) : \E i \in Kept(s) : Thinned(s)[j] = s[i]
      /\ \A i \in Kept(s) : \E j \in DOMAIN Thinned(s) : Thinned(s)[j] = s[i]
  <2>1. Kept(s) \in SUBSET DOMAIN s
    BY DEF Kept
  <2> QED
    BY <2>1, PickedSeq DEF Thinned
<1>2. \A i \in Kept(s) : i \in DOMAIN s /\ s[i] \notin expired
  BY DEF Kept
<1>3. ToSet(Thinned(s)) \subseteq ToSet(s) \ expired
  BY <1>1, <1>2 DEF ToSet
<1>4. ASSUME NEW c \in ToSet(s) \ expired PROVE c \in ToSet(Thinned(s))
  <2>1. PICK i \in DOMAIN s : s[i] = c
    BY DEF ToSet
  <2>2. PICK j \in Kept(s) : s[j] = c
    BY <2>1, KeptOnce
  <2> QED
    BY <1>1, <2>2 DEF ToSet
<1> QED
  BY <1>1, <1>3, <1>4

\* mergeAndEncode keeps every unexpired certificate of both and adds no other.
LEMMA MergeIsUnion ==
  ASSUME NEW old \in Seq(Certs), NEW additional \in Seq(Certs)
  PROVE  /\ mergeAndEncode(old, additional) \in Seq(Certs)
         /\ ToSet(mergeAndEncode(old, additional)) =
              (ToSet(old) \cup ToSet(additional)) \ expired
<1>1. old \o additional \in Seq(Certs)
  OBVIOUS
<1>2. ToSet(old \o additional) = ToSet(old) \cup ToSet(additional)
  <2>1. DOMAIN (old \o additional) = 1..(Len(old) + Len(additional))
    OBVIOUS
  <2>2. \A i \in DOMAIN old : i \in DOMAIN (old \o additional) /\ (old \o additional)[i] = old[i]
    OBVIOUS
  <2>3. \A i \in DOMAIN additional :
          /\ Len(old) + i \in DOMAIN (old \o additional)
          /\ (old \o additional)[Len(old) + i] = additional[i]
    OBVIOUS
  <2>4. ASSUME NEW i \in DOMAIN (old \o additional)
        PROVE  (old \o additional)[i] \in ToSet(old) \cup ToSet(additional)
    <3>1. CASE i \in DOMAIN old
      BY <2>2, <3>1 DEF ToSet
    <3>2. CASE i \notin DOMAIN old
      <4>1. i - Len(old) \in DOMAIN additional /\ Len(old) + (i - Len(old)) = i
        BY <2>1, <3>2
      <4> QED
        BY <2>3, <4>1 DEF ToSet
    <3> QED
      BY <3>1, <3>2
  <2>5. ToSet(old \o additional) \subseteq ToSet(old) \cup ToSet(additional)
    <3> DEFINE U == ToSet(old) \cup ToSet(additional)
    <3> HIDE DEF U
    <3>1. ToSet(old \o additional) \subseteq U
      BY <2>4 DEF ToSet, U
    <3> QED
      BY <3>1 DEF U
  <2>6. ToSet(old) \subseteq ToSet(old \o additional)
    BY <2>2 DEF ToSet
  <2>7. ToSet(additional) \subseteq ToSet(old \o additional)
    BY <2>3 DEF ToSet
  <2> QED
    BY <2>5, <2>6, <2>7
<1> QED
  BY <1>1, <1>2, ThinnedHolds DEF mergeAndEncode

\* A merge that changes the list without changing what is in it shortens it.
LEMMA MergeThins ==
  ASSUME NEW old \in Seq(Certs), NEW additional \in Seq(Certs),
         ToSet(mergeAndEncode(old, additional)) = ToSet(old),
         ~(Len(mergeAndEncode(old, additional)) < Len(old))
  PROVE  mergeAndEncode(old, additional) = old
<1> DEFINE s == old \o additional
           n == Len(old)
           K == Kept(s)
<1>1. s \in Seq(Certs) /\ n \in Nat /\ DOMAIN s = 1..(n + Len(additional))
  OBVIOUS
<1>2. \A i \in 1..n : i \in DOMAIN s /\ s[i] = old[i]
  OBVIOUS
<1> HIDE DEF s
<1>3. /\ Cardinality(K) \in Nat /\ K \in SUBSET (1..Len(s))
      /\ \A i \in K : /\ Rank(K, i) \in 1..Cardinality(K)
                     /\ Thinned(s)[Rank(K, i)] = s[i]
  BY <1>1, ThinnedAt
<1>4. Thinned(s) = mergeAndEncode(old, additional) /\ Len(Thinned(s)) = Cardinality(K)
      /\ DOMAIN Thinned(s) = 1..Cardinality(K)
  <2>1. DOMAIN Thinned(s) = 1..Cardinality(K)
    BY <1>1, ThinnedAt
  <2>2. Thinned(s) \in Seq(Certs)
    BY <1>1, ThinnedHolds
  <2>3. Len(Thinned(s)) = Cardinality(K)
    BY <1>3, <2>1, <2>2
  <2> QED
    BY <2>1, <2>3 DEF mergeAndEncode, s
<1>5. K \in SUBSET (1..n)
  <2>1. SUFFICES ASSUME NEW i \in K, i \notin 1..n PROVE FALSE
    OBVIOUS
  <2>2. i \in DOMAIN s /\ \A j \in 1..(i - 1) : s[j] # s[i]
    BY DEF Kept
  <2>3. s[i] \in ToSet(old)
    BY <1>3, <1>4 DEF ToSet
  <2>4. PICK j \in 1..n : old[j] = s[i]
    BY <2>3 DEF ToSet
  <2>5. j \in 1..(i - 1)
    BY <1>1, <2>1, <2>2
  <2> QED
    BY <1>2, <2>2, <2>4, <2>5
<1>6. IsFiniteSet(1..n) /\ Cardinality(1..n) = n
  <2>1. n \in Nat
    BY <1>1
  <2> HIDE DEF n
  <2>2. IsFiniteSet(1..n) /\ Cardinality(1..n) = IF 1 > n THEN 0 ELSE n - 1 + 1
    BY <2>1, FS_Interval
  <2> QED
    BY <2>1, <2>2
<1>7. K = 1..n /\ Cardinality(K) = n
  <2>1. Cardinality(K) <= n /\ (n = Cardinality(K) => K = 1..n)
    BY <1>5, <1>6, FS_Subset
  <2> QED
    BY <1>1, <1>3, <1>4, <2>1
<1> HIDE DEF K
<1>8. ASSUME NEW i \in 1..n PROVE Rank(K, i) = i
  <2>1. {j \in K : j <= i} = 1..i
    BY <1>7
  <2>2. Cardinality(1..i) = i
    BY FS_Interval
  <2> QED
    BY <2>1, <2>2 DEF Rank
<1>9. \A i \in 1..n : Thinned(s)[i] = old[i]
  BY <1>2, <1>3, <1>7, <1>8
<1>10. Thinned(s) \in Seq(Certs)
  BY <1>1, ThinnedHolds
<1> QED
  BY <1>1, <1>4, <1>7, <1>9, <1>10
-----------------------------------------------------------------------------
(***************************************************************************)
(* Types.                                                                  *)
(***************************************************************************)
PCs == {"get", "merge", "update", "propagate", "select", "down"}
Copies == [bundle : Seq(Certs), canonical : BOOLEAN, version : Nat]

\* What UpdateCABundle and its callers leave behind when it returns.
LEMMA ForgetType ==
  ASSUME TypeOK, NEW r \in Replicas, Forget(r)
  PROVE  /\ copy' \in [Replicas -> Copies] /\ newBundle' \in [Replicas -> Seq(Certs)]
         /\ merged' \in [Replicas -> SUBSET Certs]
         /\ age' \in [Replicas -> 0..PropagationDelay]
<1>1. /\ NoCopy \in Copies /\ <<>> \in Seq(Certs) /\ {} \in SUBSET Certs
      /\ 0 \in 0..PropagationDelay
  BY DelayAssumption DEF NoCopy, Copies
<1>2. /\ copy \in [Replicas -> Copies] /\ newBundle \in [Replicas -> Seq(Certs)]
      /\ merged \in [Replicas -> SUBSET Certs]
      /\ age \in [Replicas -> 0..PropagationDelay]
  BY DEF TypeOK, Copies
<1> QED
  BY <1>1, <1>2 DEF Forget

LEMMA DownType ==
  ASSUME TypeOK, NEW r \in Replicas, Down(r)
  PROVE  /\ pc' \in [Replicas -> PCs] /\ injected' \in [Replicas -> SUBSET Certs]
         /\ waited' \in [Replicas -> BOOLEAN]
BY DEF TypeOK, Down, PCs

LocalType ==
  /\ pc \in [Replicas -> PCs] /\ phase \in [Replicas -> {"start", "refresh"}]
  /\ ctx \in [Replicas -> {"live", "done"}] /\ tick \in [Replicas -> BOOLEAN]
  /\ copy \in [Replicas -> Copies] /\ newBundle \in [Replicas -> Seq(Certs)]
  /\ merged \in [Replicas -> SUBSET Certs] /\ injected \in [Replicas -> SUBSET Certs]
  /\ age \in [Replicas -> 0..PropagationDelay] /\ waited \in [Replicas -> BOOLEAN]

ClusterType ==
  /\ bundle \in Seq(Certs) /\ canonical \in BOOLEAN /\ version \in Nat
  /\ trusted \in SUBSET Certs /\ picked \in Nat /\ lag \in 0..GatekeeperLag
  /\ expired \in SUBSET Certs
  /\ rotation \in DOMAIN Mounts /\ mount \in [Replicas -> DOMAIN Mounts]

BoundsType == faults \in 0..MaxFaults /\ stops \in 0..MaxStops

LEMMA TypeParts == TypeOK <=> LocalType /\ ClusterType /\ BoundsType
BY DEF TypeOK, LocalType, ClusterType, BoundsType, PCs, Copies

LEMMA ReturnNilType ==
  ASSUME TypeOK, NEW r \in Replicas, NEW ca \in SUBSET Certs, ReturnNil(r, ca)
  PROVE  LocalType'
<1>1. /\ copy' \in [Replicas -> Copies] /\ newBundle' \in [Replicas -> Seq(Certs)]
      /\ merged' \in [Replicas -> SUBSET Certs] /\ age' \in [Replicas -> 0..PropagationDelay]
  BY ForgetType DEF ReturnNil
<1>2. /\ pc' \in [Replicas -> PCs] /\ phase' \in [Replicas -> {"start", "refresh"}]
      /\ injected' \in [Replicas -> SUBSET Certs]
  BY DEF TypeOK, ReturnNil, PCs
<1>3. waited' \in [Replicas -> BOOLEAN] /\ ctx' = ctx /\ tick' = tick
  <2>1. (pc[r] = "propagate") \in BOOLEAN
    OBVIOUS
  <2> QED
    BY <2>1 DEF TypeOK, ReturnNil
<1> QED
  BY <1>1, <1>2, <1>3 DEF TypeOK, LocalType

LEMMA ReturnErrorType ==
  ASSUME TypeOK, NEW r \in Replicas, ReturnError(r)
  PROVE  LocalType'
<1>1. /\ copy' \in [Replicas -> Copies] /\ newBundle' \in [Replicas -> Seq(Certs)]
      /\ merged' \in [Replicas -> SUBSET Certs] /\ age' \in [Replicas -> 0..PropagationDelay]
  BY ForgetType DEF ReturnError
<1>2. /\ pc' \in [Replicas -> PCs] /\ injected' \in [Replicas -> SUBSET Certs]
      /\ waited' \in [Replicas -> BOOLEAN]
  <2>1. CASE Down(r)
    BY <2>1, DownType
  <2>2. CASE pc' = [pc EXCEPT ![r] = "select"] /\ UNCHANGED <<injected, waited>>
    BY <2>2 DEF TypeOK, PCs
  <2> QED
    BY <2>1, <2>2 DEF ReturnError
<1> QED
  BY <1>1, <1>2 DEF TypeOK, LocalType, ReturnError

LEMMA WriteType ==
  ASSUME TypeOK, NEW r \in Replicas, Write(r)
  PROVE  ClusterType'
BY DEF TypeOK, ClusterType, Write

LEMMA MountType ==
  ASSUME TypeOK, NEW r \in Replicas
  PROVE  ReadFile(r) \in Seq(Certs) /\ ToSet(ReadFile(r)) \in SUBSET Certs
<1>1. ReadFile(r) \in Seq(Certs)
  BY CAAssumption DEF TypeOK, ReadFile
<1> QED
  BY <1>1 DEF ToSet

LEMMA TypeStep ==
  ASSUME TypeOK, [Next]_vars
  PROVE  TypeOK'
<1> USE TypeParts
<1>1. SUFFICES LocalType' /\ ClusterType' /\ BoundsType'
  <2>1. TypeOK' <=> LocalType' /\ ClusterType' /\ BoundsType'
    BY DEF TypeOK, LocalType, ClusterType, BoundsType, PCs, Copies
  <2> QED
    BY <2>1
<1>2. UNCHANGED local => LocalType'
  BY DEF local, LocalType
<1>3. UNCHANGED cluster => ClusterType'
  BY DEF cluster, ClusterType
<1>4. UNCHANGED bounds => BoundsType'
  BY DEF bounds, BoundsType
<1>5. CASE Rotate
  <2>1. ClusterType'
    <3>1. rotation + 1 \in DOMAIN Mounts
      BY <1>5, CAAssumption DEF Rotate, ClusterType
    <3> QED
      BY <1>5, <3>1 DEF Rotate, ClusterType
  <2> QED
    BY <1>2, <1>4, <1>5, <2>1 DEF Rotate
<1>6. CASE GatekeeperPicksUp
  <2>1. ToSet(bundle) \in SUBSET Certs
    BY DEF ToSet, ClusterType
  <2>2. ClusterType'
    BY <1>6, <2>1, DelayAssumption DEF GatekeeperPicksUp, ClusterType
  <2> QED
    BY <1>2, <1>4, <1>6, <2>2 DEF GatekeeperPicksUp
<1>7. ASSUME NEW c \in Certs, ExpireCert(c) PROVE LocalType' /\ ClusterType' /\ BoundsType'
  <2>1. ClusterType'
    BY <1>7 DEF ExpireCert, ClusterType
  <2> QED
    BY <1>2, <1>4, <1>7, <2>1 DEF ExpireCert
<1>8. ASSUME NEW r \in Replicas, Project(r) PROVE LocalType' /\ ClusterType' /\ BoundsType'
  <2>1. ClusterType'
    BY <1>8 DEF Project, ClusterType
  <2> QED
    BY <1>2, <1>4, <1>8, <2>1 DEF Project
<1>9. ASSUME NEW r \in Replicas, Shutdown(r) PROVE LocalType' /\ ClusterType' /\ BoundsType'
  <2>1. LocalType' /\ UNCHANGED cluster
    BY <1>9 DEF Shutdown, LocalType
  <2>2. BoundsType'
    BY <1>9, CAAssumption DEF Shutdown, BoundsType
  <2> QED
    BY <1>3, <2>1, <2>2
<1>10. ASSUME NEW r \in Replicas, Kill(r) PROVE LocalType' /\ ClusterType' /\ BoundsType'
  <2>1. LocalType' /\ UNCHANGED cluster
    BY <1>10, ForgetType, DownType DEF Kill, LocalType
  <2>2. BoundsType'
    BY <1>10, CAAssumption DEF Kill, BoundsType
  <2> QED
    BY <1>3, <2>1, <2>2
<1>11. ASSUME NEW r \in Replicas, Restart(r) \/ Tick(r) PROVE LocalType' /\ ClusterType' /\ BoundsType'
  <2>1. LocalType' /\ UNCHANGED <<cluster, bounds>>
    <3>1. CASE Restart(r)
      BY <3>1 DEF Restart, LocalType, PCs
    <3>2. CASE Tick(r)
      BY <3>2 DEF Tick, LocalType
    <3> QED
      BY <1>11, <3>1, <3>2
  <2> QED
    BY <1>3, <1>4, <2>1
<1>12. ASSUME NEW r \in Replicas, GetProvider(r) PROVE LocalType' /\ ClusterType' /\ BoundsType'
  <2>1. [bundle |-> bundle, canonical |-> canonical, version |-> version] \in Copies
    BY DEF ClusterType, Copies
  <2>2. LocalType' /\ UNCHANGED <<cluster, bounds>>
    BY <1>12, <2>1 DEF GetProvider, LocalType, PCs
  <2> QED
    BY <1>3, <1>4, <2>2
<1>13. ASSUME NEW r \in Replicas, Merge(r) PROVE LocalType' /\ ClusterType' /\ BoundsType'
  <2> DEFINE ca == ReadFile(r)
             new == mergeAndEncode(copy[r].bundle, ca)
  <2>1. ca \in Seq(Certs) /\ ToSet(ca) \in SUBSET Certs
    BY MountType
  <2>2. copy[r].bundle \in Seq(Certs)
    BY DEF LocalType, Copies
  <2>3. new \in Seq(Certs)
    BY <2>1, <2>2, MergeIsUnion
  <2> HIDE DEF ca, new
  <2>4. ReturnError(r) => LocalType'
    BY ReturnErrorType
  <2>5. ReturnNil(r, ToSet(ca)) => LocalType'
    BY <2>1, ReturnNilType
  <2>6. ASSUME merged' = [merged EXCEPT ![r] = ToSet(ca)],
               newBundle' = [newBundle EXCEPT ![r] = new],
               pc' = [pc EXCEPT ![r] = "update"],
               UNCHANGED <<phase, ctx, tick, copy, age, injected, waited>>
        PROVE  LocalType'
    BY <2>1, <2>3, <2>6 DEF LocalType, PCs
  <2>7. LocalType' /\ UNCHANGED <<cluster, bounds>>
    BY <1>13, <2>4, <2>5, <2>6 DEF Merge, ca, new
  <2> QED
    BY <1>3, <1>4, <2>7
<1>14. ASSUME NEW r \in Replicas, UpdateProvider(r) PROVE LocalType' /\ ClusterType' /\ BoundsType'
  <2>1. LocalType' /\ UNCHANGED bounds
    BY <1>14, DelayAssumption DEF UpdateProvider, LocalType, PCs
  <2> QED
    BY <1>4, <1>14, <2>1, WriteType DEF UpdateProvider
<1>15. ASSUME NEW r \in Replicas, UpdateConflicts(r) PROVE LocalType' /\ ClusterType' /\ BoundsType'
  BY <1>3, <1>4, <1>15, ReturnErrorType DEF UpdateConflicts
<1>16. ASSUME NEW r \in Replicas, PropagationOver(r) PROVE LocalType' /\ ClusterType' /\ BoundsType'
  <2>1. merged[r] \in SUBSET Certs
    BY DEF LocalType
  <2> QED
    BY <1>3, <1>4, <1>16, <2>1, ReturnNilType DEF PropagationOver
<1>17. ASSUME NEW r \in Replicas, CallFails(r) PROVE LocalType' /\ ClusterType' /\ BoundsType'
  <2>1. BoundsType'
    BY <1>17, CAAssumption DEF CallFails, BoundsType
  <2>2. ClusterType'
    BY <1>3, <1>17, WriteType DEF CallFails
  <2> QED
    BY <1>17, <2>1, <2>2, ReturnErrorType DEF CallFails
<1>18. ASSUME NEW r \in Replicas, TakeTick(r) PROVE LocalType' /\ ClusterType' /\ BoundsType'
  <2>1. LocalType' /\ UNCHANGED <<cluster, bounds>>
    BY <1>18 DEF TakeTick, LocalType, PCs
  <2> QED
    BY <1>3, <1>4, <2>1
<1>19. ASSUME NEW r \in Replicas, TakeDone(r) PROVE LocalType' /\ ClusterType' /\ BoundsType'
  <2>1. LocalType' /\ UNCHANGED <<cluster, bounds>>
    BY <1>19, DownType DEF TakeDone, LocalType
  <2> QED
    BY <1>3, <1>4, <2>1
<1>20. CASE UNCHANGED vars
  BY <1>2, <1>3, <1>4, <1>20 DEF vars
<1>21. CASE TimePasses
  <2>1. age' \in [Replicas -> 0..PropagationDelay] /\ lag' \in 0..GatekeeperLag
    BY <1>21, DelayAssumption DEF TimePasses, Waiting, LocalType, ClusterType
  <2>2. LocalType'
    BY <1>21, <2>1 DEF TimePasses, LocalType
  <2>3. ClusterType'
    BY <1>21, <2>1 DEF TimePasses, ClusterType
  <2> QED
    BY <1>4, <1>21, <2>2, <2>3 DEF TimePasses
<1> QED
  BY <1>5, <1>6, <1>7, <1>8, <1>9, <1>10, <1>11, <1>12, <1>13, <1>14, <1>15, <1>16,
     <1>17, <1>18, <1>19, <1>20, <1>21 DEF Next, Step

LEMMA TypeInit == Init => TypeOK
<1> SUFFICES ASSUME Init PROVE TypeOK
  OBVIOUS
<1>1. 1 \in DOMAIN Mounts /\ NoCopy \in Copies /\ <<>> \in Seq(Certs)
  BY CAAssumption DEF NoCopy, Copies
<1>2. bundle \in Seq(Certs) /\ canonical \in BOOLEAN
  BY CAAssumption DEF Init
<1>3. LocalType
  BY <1>1, DelayAssumption DEF Init, LocalType, PCs
<1>4. ClusterType
  <2>1. ToSet(bundle) \in SUBSET Certs
    BY <1>2 DEF ToSet
  <2> QED
    BY <1>1, <1>2, <2>1, CAAssumption, DelayAssumption DEF Init, ClusterType
<1>5. BoundsType
  BY CAAssumption DEF Init, BoundsType
<1> QED
  BY <1>3, <1>4, <1>5, TypeParts

\* Types: the Provider's bundle stays a list of certificates, and every copy
\* an injector holds keeps the version its update is checked against.
THEOREM TypeCorrect == Spec => []TypeOK
BY TypeInit, TypeStep, PTL DEF Spec
-----------------------------------------------------------------------------
(***************************************************************************)
(* The inductive invariant.  A copy is at most as new as the Provider, is  *)
(* the Provider when the versions agree, and holds nothing unexpired that  *)
(* the Provider has lost; a merge about to be written holds all of its     *)
(* copy and of ca.crt; what has been written stays.                        *)
(***************************************************************************)
CopyInv(r) == pc[r] \in {"merge", "update", "propagate"} =>
  /\ copy[r].version <= version
  /\ ToSet(copy[r].bundle) \subseteq ToSet(bundle) \cup expired
  /\ copy[r].version = version => copy[r].bundle = bundle /\ copy[r].canonical = canonical

Counts(old, form, new) == ToSet(new) # ToSet(old) \/ Len(new) < Len(old) \/ ~form

WriteInv(r) == pc[r] = "update" =>
  /\ ToSet(copy[r].bundle) \subseteq ToSet(newBundle[r]) \cup expired
  /\ merged[r] \subseteq ToSet(newBundle[r]) \cup expired
  /\ Counts(copy[r].bundle, copy[r].canonical, newBundle[r])

WaitInv(r) == pc[r] = "propagate" =>
  /\ copy[r].version < version
  /\ merged[r] \subseteq ToSet(bundle) \cup expired
  /\ picked > copy[r].version => merged[r] \subseteq trusted \cup expired
  /\ picked > copy[r].version \/ age[r] <= lag

Serves(r) == injected[r] \subseteq ToSet(bundle) \cup expired
Trusts(r) ==
  \/ injected[r] \subseteq trusted \cup expired
  \/ ~waited[r] /\ picked < version

RInv(r) == CopyInv(r) /\ WriteInv(r) /\ WaitInv(r) /\ Serves(r) /\ Trusts(r)

PickedInv == picked <= version /\ (picked = version => trusted = ToSet(bundle))

CInv == TypeOK /\ PickedInv /\ \A r \in Replicas : RInv(r)

\* What any step may do to the cluster.
Grows ==
  /\ expired \subseteq expired'
  /\ \/ /\ bundle' = bundle /\ version' = version /\ canonical' = canonical
        /\ \/ trusted' = trusted /\ picked' = picked
           \/ trusted' = ToSet(bundle) /\ picked' = version
     \/ /\ version' = version + 1
        /\ ToSet(bundle) \subseteq ToSet(bundle') \cup expired
        /\ trusted' = trusted /\ picked' = picked

\* What a step of another replica leaves alone.
Same(q) ==
  /\ pc'[q] = pc[q] /\ copy'[q] = copy[q] /\ newBundle'[q] = newBundle[q]
  /\ merged'[q] = merged[q] /\ injected'[q] = injected[q] /\ waited'[q] = waited[q]

\* Its timer does not gain on the ticks Gatekeeper is behind.
Timely(q) ==
  \/ age'[q] = age[q] /\ lag' = lag
  \/ age'[q] <= age[q] + 1 /\ lag' = lag + 1
  \/ picked' = version /\ version' = version

LEMMA PickedStep ==
  ASSUME CInv, Grows
  PROVE  PickedInv'
BY DEF CInv, TypeOK, Grows, PickedInv

\* The CA of a replica that goes on serving stays in the Provider and trusted.
LEMMA KeepsServing ==
  ASSUME CInv, Grows, NEW q \in Replicas,
         injected'[q] = {} \/ (injected'[q] = injected[q] /\ waited'[q] = waited[q])
  PROVE  Serves(q)' /\ Trusts(q)'
<1>1. version \in Nat /\ picked \in Nat
  BY DEF CInv, TypeOK
<1>2. Serves(q) /\ Trusts(q)
  BY DEF CInv, RInv
<1>3. CASE injected'[q] = {}
  BY <1>3 DEF Serves, Trusts
<1>4. CASE injected'[q] = injected[q] /\ waited'[q] = waited[q]
  <2>1. Serves(q)'
    BY <1>2, <1>4 DEF Grows, Serves
  <2>2. CASE trusted' = trusted /\ picked' = picked
    <3>1. expired \subseteq expired' /\ version <= version' /\ version' \in Nat
      BY <1>1 DEF Grows
    <3>2. picked < version => picked' < version'
      BY <1>1, <2>2, <3>1
    <3>3. injected[q] \subseteq trusted \cup expired => injected'[q] \subseteq trusted' \cup expired'
      BY <1>4, <2>2, <3>1
    <3> QED
      BY <1>2, <1>4, <2>1, <3>2, <3>3 DEF Trusts
  <2>3. CASE trusted' = ToSet(bundle)
    BY <1>2, <1>4, <2>1, <2>3 DEF Grows, Trusts, Serves
  <2> QED
    BY <2>2, <2>3 DEF Grows
<1> QED
  BY <1>3, <1>4

LEMMA OthersStep ==
  ASSUME CInv, Grows, TypeOK', NEW q \in Replicas, Same(q), Timely(q)
  PROVE  RInv(q)'
<1>1. /\ version \in Nat /\ picked \in Nat /\ copy[q].version \in Nat
      /\ age[q] \in Nat /\ lag \in Nat /\ age'[q] \in Nat /\ lag' \in Nat
  BY DelayAssumption DEF CInv, TypeOK
<1>2. PickedInv /\ CopyInv(q) /\ WriteInv(q) /\ WaitInv(q)
  BY DEF CInv, RInv
<1>3. CopyInv(q)'
  BY <1>1, <1>2 DEF Grows, Same, CopyInv
<1>4. WriteInv(q)'
  BY <1>1, <1>2 DEF Grows, Same, WriteInv
<1>5. WaitInv(q)'
  <2> SUFFICES ASSUME pc'[q] = "propagate" PROVE WaitInv(q)'
    BY DEF WaitInv
  <2>1. /\ pc[q] = "propagate" /\ copy'[q] = copy[q] /\ merged'[q] = merged[q]
        /\ WaitInv(q)
    BY <1>2 DEF Same
  <2>2. /\ copy[q].version < version' /\ merged[q] \subseteq ToSet(bundle') \cup expired'
        /\ picked' > copy[q].version => merged[q] \subseteq trusted' \cup expired'
    BY <1>1, <1>2, <2>1 DEF Grows, WaitInv, PickedInv
  <2>3. picked <= picked' /\ picked' \in Nat
    BY <1>1, <1>2 DEF Grows, PickedInv
  <2>4. picked' > copy[q].version \/ age'[q] <= lag'
    BY <1>1, <2>1, <2>2, <2>3 DEF Timely, WaitInv
  <2> QED
    BY <2>1, <2>2, <2>4 DEF WaitInv
<1>6. Serves(q)' /\ Trusts(q)'
  BY KeepsServing DEF Same
<1> QED
  BY <1>3, <1>4, <1>5, <1>6 DEF RInv

\* A replica that is not in the middle of an update, or starts one.
LEMMA IdleStep ==
  ASSUME CInv, Grows, NEW q \in Replicas, pc'[q] \in {"get", "select", "down"},
         injected'[q] = {} \/ (injected'[q] = injected[q] /\ waited'[q] = waited[q])
  PROVE  RInv(q)'
<1>1. CopyInv(q)' /\ WriteInv(q)' /\ WaitInv(q)'
  BY DEF CopyInv, WriteInv, WaitInv
<1> QED
  BY <1>1, KeepsServing DEF RInv

LEMMA ReturnErrorStep ==
  ASSUME CInv, Grows, NEW r \in Replicas, ReturnError(r)
  PROVE  RInv(r)'
<1>1. CASE Down(r)
  <2>1. pc'[r] = "down" /\ injected'[r] = {}
    BY <1>1 DEF CInv, TypeOK, Down
  <2> QED
    BY <2>1, IdleStep
<1>2. CASE pc' = [pc EXCEPT ![r] = "select"] /\ UNCHANGED <<injected, waited>>
  <2>1. pc'[r] = "select"
    BY <1>2 DEF CInv, TypeOK
  <2> QED
    BY <1>2, <2>1, IdleStep
<1> QED
  BY <1>1, <1>2 DEF ReturnError

LEMMA ReturnNilStep ==
  ASSUME CInv, UNCHANGED cluster, NEW r \in Replicas, NEW ca, ReturnNil(r, ca),
         ca \subseteq ToSet(bundle) \cup expired,
         pc[r] = "propagate" => ca \subseteq trusted \cup expired
  PROVE  RInv(r)'
<1>1. pc'[r] = "select" /\ injected'[r] = ca /\ waited'[r] = (pc[r] = "propagate")
  BY DEF CInv, TypeOK, ReturnNil
<1>2. CopyInv(r)' /\ WriteInv(r)' /\ WaitInv(r)'
  BY <1>1 DEF CopyInv, WriteInv, WaitInv
<1>3. Serves(r)'
  BY <1>1 DEF Serves, cluster
<1>4. Trusts(r)'
  <2>1. CASE pc[r] = "propagate"
    BY <1>1, <2>1 DEF Trusts, cluster
  <2>2. CASE pc[r] # "propagate" /\ picked = version
    BY <1>1, <2>2 DEF Trusts, cluster, CInv, PickedInv
  <2>3. CASE pc[r] # "propagate" /\ picked # version
    <3>1. picked < version
      BY <2>3 DEF CInv, PickedInv, TypeOK
    <3> QED
      BY <1>1, <2>3, <3>1 DEF Trusts, cluster
  <2> QED
    BY <2>1, <2>2, <2>3
<1> QED
  BY <1>2, <1>3, <1>4 DEF RInv

\* A replica's step touches no other replica.
ReplicaStep(r) ==
  Step(r) \/ CallFails(r) \/ Tick(r) \/ Project(r) \/ Shutdown(r) \/ Kill(r) \/ Restart(r)

LEMMA OthersSame ==
  ASSUME CInv, NEW r \in Replicas, ReplicaStep(r), NEW q \in Replicas, q # r
  PROVE  Same(q) /\ age'[q] = age[q]
<1> USE DEF CInv, TypeOK, Same
<1>1. Forget(r) => /\ copy'[q] = copy[q] /\ newBundle'[q] = newBundle[q]
                   /\ merged'[q] = merged[q] /\ age'[q] = age[q]
  BY DEF Forget
<1>2. Down(r) => pc'[q] = pc[q] /\ injected'[q] = injected[q] /\ waited'[q] = waited[q]
  BY DEF Down
<1>3. ReturnError(r) => Same(q) /\ age'[q] = age[q]
  <2>1. CASE Down(r)
    BY <1>1, <1>2, <2>1 DEF ReturnError
  <2>2. CASE pc' = [pc EXCEPT ![r] = "select"] /\ UNCHANGED <<injected, waited>>
    BY <1>1, <2>2 DEF ReturnError
  <2> QED
    BY <2>1, <2>2 DEF ReturnError
<1>4. \A ca : ReturnNil(r, ca) => Same(q) /\ age'[q] = age[q]
  BY <1>1 DEF ReturnNil
<1>5. CASE GetProvider(r)
  BY <1>5 DEF GetProvider
<1>6. CASE Merge(r)
  <2>1. ASSUME merged' = [merged EXCEPT ![r] = ToSet(ReadFile(r))],
               newBundle' = [newBundle EXCEPT ![r] = mergeAndEncode(copy[r].bundle, ReadFile(r))],
               pc' = [pc EXCEPT ![r] = "update"],
               UNCHANGED <<phase, ctx, tick, copy, age, injected, waited>>
        PROVE  Same(q) /\ age'[q] = age[q]
    BY <2>1
  <2> QED
    BY <1>3, <1>4, <1>6, <2>1 DEF Merge
<1>7. CASE UpdateProvider(r)
  BY <1>7 DEF UpdateProvider
<1>8. CASE UpdateConflicts(r)
  BY <1>3, <1>8 DEF UpdateConflicts
<1>9. CASE PropagationOver(r)
  BY <1>4, <1>9 DEF PropagationOver
<1>10. CASE TakeTick(r) \/ Tick(r) \/ Project(r) \/ Shutdown(r) \/ Restart(r)
  BY <1>10 DEF TakeTick, Tick, Project, Shutdown, Restart, local
<1>11. CASE TakeDone(r) \/ Kill(r)
  BY <1>1, <1>2, <1>11 DEF TakeDone, Kill
<1>12. CASE CallFails(r)
  BY <1>3, <1>12 DEF CallFails
<1> QED
  BY <1>5, <1>6, <1>7, <1>8, <1>9, <1>10, <1>11, <1>12 DEF ReplicaStep, Step

\* What a replica does takes no time.
LEMMA LagStays ==
  ASSUME NEW r \in Replicas, ReplicaStep(r)
  PROVE  lag' = lag
BY DEF ReplicaStep, Step, GetProvider, Merge, UpdateProvider, UpdateConflicts, PropagationOver,
   TakeTick, TakeDone, CallFails, Tick, Project, Shutdown, Kill, Restart, Write, cluster

\* A write follows the copy it was merged from: nothing came in between.
LEMMA WriteGrows ==
  ASSUME CInv, NEW r \in Replicas, pc[r] = "update", Unchanged(r), Write(r)
  PROVE  /\ Grows /\ Counts(bundle, canonical, bundle') /\ canonical'
         /\ merged[r] \subseteq ToSet(bundle') \cup expired
<1>1. CopyInv(r) /\ WriteInv(r)
  BY DEF CInv, RInv
<1>2. copy[r].bundle = bundle /\ copy[r].canonical = canonical
  BY <1>1 DEF CopyInv, Unchanged
<1> QED
  BY <1>1, <1>2 DEF WriteInv, Write, Grows

LEMMA EveryStepGrows ==
  ASSUME CInv, [Next]_vars
  PROVE  Grows /\ (version' # version => Counts(bundle, canonical, bundle') /\ canonical')
<1>1. UNCHANGED cluster => Grows /\ version' = version
  BY DEF cluster, Grows
<1>2. CASE Rotate \/ GatekeeperPicksUp \/ TimePasses \/ \E c \in Certs : ExpireCert(c)
  BY <1>2 DEF Rotate, GatekeeperPicksUp, TimePasses, ExpireCert, Grows
<1>3. ASSUME NEW r \in Replicas, ReplicaStep(r)
      PROVE  Grows /\ (version' # version => Counts(bundle, canonical, bundle') /\ canonical')
  <2>1. CASE UpdateProvider(r)
    BY <2>1, WriteGrows DEF UpdateProvider
  <2>2. CASE CallFails(r)
    BY <1>1, <2>2, WriteGrows DEF CallFails
  <2>3. CASE Project(r)
    BY <2>3 DEF Project, Grows
  <2>4. CASE GetProvider(r) \/ Merge(r) \/ UpdateConflicts(r) \/ PropagationOver(r)
    BY <1>1, <2>4 DEF GetProvider, Merge, UpdateConflicts, PropagationOver
  <2>5. CASE TakeTick(r) \/ TakeDone(r) \/ Tick(r) \/ Shutdown(r) \/ Kill(r) \/ Restart(r)
    BY <1>1, <2>5 DEF TakeTick, TakeDone, Tick, Shutdown, Kill, Restart
  <2> QED
    BY <1>3, <2>1, <2>2, <2>3, <2>4, <2>5 DEF ReplicaStep, Step
<1>4. CASE UNCHANGED vars
  BY <1>1, <1>4 DEF vars
<1> QED
  BY <1>2, <1>3, <1>4 DEF Next, ReplicaStep

\* The replica that steps keeps its part of the invariant.
LEMMA OwnStep ==
  ASSUME CInv, NEW r \in Replicas, ReplicaStep(r), Grows, TypeOK'
  PROVE  RInv(r)'
<1> USE DEF CInv
<1>1. CopyInv(r) /\ WriteInv(r) /\ WaitInv(r) /\ Serves(r) /\ Trusts(r) /\ PickedInv
  BY DEF RInv
<1>2. CASE GetProvider(r)
  <2>1. /\ pc'[r] = "merge" /\ copy'[r].bundle = bundle
        /\ copy'[r].canonical = canonical /\ copy'[r].version = version
        /\ injected'[r] = injected[r] /\ waited'[r] = waited[r]
        /\ bundle' = bundle /\ version' = version /\ canonical' = canonical
    BY <1>2 DEF GetProvider, TypeOK, cluster
  <2>2. CopyInv(r)' /\ WriteInv(r)' /\ WaitInv(r)'
    BY <2>1 DEF CopyInv, WriteInv, WaitInv, TypeOK
  <2> QED
    BY <2>1, <2>2, KeepsServing DEF RInv
<1>3. CASE Merge(r)
  <2> DEFINE old == copy[r].bundle
             ca  == ReadFile(r)
             new == mergeAndEncode(old, ca)
  <2>1. old \in Seq(Certs) /\ ca \in Seq(Certs)
    BY MountType DEF TypeOK
  <2>2. new \in Seq(Certs) /\ ToSet(new) = (ToSet(old) \cup ToSet(ca)) \ expired
    BY <2>1, MergeIsUnion
  <2>3. ~(copy[r].canonical /\ new = old) => Counts(old, copy[r].canonical, new)
    BY <2>1, MergeThins DEF Counts
  <2> HIDE DEF ca, new
  <2>4. ToSet(old) \subseteq ToSet(bundle) \cup expired /\ pc[r] = "merge" /\ UNCHANGED cluster
    BY <1>1, <1>3 DEF CopyInv, Merge
  <2>5. CASE new = old /\ ReturnNil(r, ToSet(ca))
    <3>1. ToSet(ca) \subseteq ToSet(bundle) \cup expired
      BY <2>2, <2>4, <2>5
    <3> QED
      BY <2>4, <2>5, <3>1, ReturnNilStep
  <2>6. CASE /\ ~(copy[r].canonical /\ new = old)
             /\ merged' = [merged EXCEPT ![r] = ToSet(ca)]
             /\ newBundle' = [newBundle EXCEPT ![r] = new]
             /\ pc' = [pc EXCEPT ![r] = "update"]
             /\ UNCHANGED <<phase, ctx, tick, copy, age, injected, waited>>
    <3>1. /\ pc'[r] = "update" /\ merged'[r] = ToSet(ca) /\ newBundle'[r] = new
          /\ copy'[r] = copy[r] /\ injected'[r] = injected[r] /\ waited'[r] = waited[r]
          /\ bundle' = bundle /\ version' = version /\ expired' = expired
          /\ canonical' = canonical
      BY <2>4, <2>6 DEF TypeOK, cluster
    <3>2. CopyInv(r)'
      BY <1>1, <2>4, <3>1 DEF CopyInv
    <3>3. WriteInv(r)'
      BY <2>2, <2>3, <2>6, <3>1 DEF WriteInv
    <3>4. WaitInv(r)'
      BY <3>1 DEF WaitInv
    <3> QED
      BY <3>1, <3>2, <3>3, <3>4, KeepsServing DEF RInv
  <2> QED
    BY <1>3, <2>5, <2>6, ReturnErrorStep DEF Merge, UpToDate, ca, new
<1>4. CASE UpdateProvider(r)
  <2>1. /\ pc'[r] = "propagate" /\ copy'[r] = copy[r] /\ merged'[r] = merged[r]
        /\ injected'[r] = injected[r] /\ waited'[r] = waited[r]
        /\ copy[r].version = version /\ version' = version + 1
        /\ picked' = picked /\ expired' = expired /\ age'[r] = 0 /\ lag' = lag
    BY <1>4 DEF UpdateProvider, Write, Unchanged, TypeOK
  <2>2. merged[r] \subseteq ToSet(bundle') \cup expired
    BY <1>4, WriteGrows DEF UpdateProvider
  <2>3. version \in Nat /\ picked \in Nat /\ picked <= version /\ lag \in Nat
    BY <1>1, DelayAssumption DEF TypeOK, PickedInv
  <2>4. CopyInv(r)'
    <3>1. copy[r].bundle = bundle /\ ToSet(bundle) \subseteq ToSet(bundle') \cup expired
      BY <1>1, <1>4, <2>1, <2>3 DEF CopyInv, UpdateProvider, Grows
    <3> QED
      BY <2>1, <2>3, <3>1 DEF CopyInv
  <2>5. WriteInv(r)' /\ WaitInv(r)'
    BY <2>1, <2>2, <2>3 DEF WriteInv, WaitInv
  <2> QED
    BY <2>1, <2>4, <2>5, KeepsServing DEF RInv
<1>5. CASE UpdateConflicts(r) \/ CallFails(r)
  BY <1>5, ReturnErrorStep DEF UpdateConflicts, CallFails
<1>6. CASE PropagationOver(r)
  <2>1. ~(age[r] <= lag)
    BY <1>6, DelayAssumption DEF PropagationOver, Propagated, TypeOK
  <2>2. merged[r] \subseteq ToSet(bundle) \cup expired /\ merged[r] \subseteq trusted \cup expired
    BY <1>1, <1>6, <2>1 DEF WaitInv, PropagationOver
  <2> QED
    BY <1>6, <2>2, ReturnNilStep DEF PropagationOver
<1>7. CASE TakeTick(r) \/ Restart(r)
  <2>1. pc'[r] = "get" /\ injected'[r] = injected[r] /\ waited'[r] = waited[r]
    BY <1>7 DEF TakeTick, Restart, TypeOK
  <2> QED
    BY <2>1, IdleStep
<1>8. CASE TakeDone(r) \/ Kill(r)
  <2>1. pc'[r] = "down" /\ injected'[r] = {}
    BY <1>8 DEF TakeDone, Kill, Down, TypeOK
  <2> QED
    BY <2>1, IdleStep
<1>9. CASE Tick(r) \/ Project(r) \/ Shutdown(r)
  <2>1. Same(r) /\ Timely(r)
    BY <1>9, LagStays DEF Tick, Project, Shutdown, Same, Timely, local
  <2> QED
    BY <2>1, OthersStep
<1> QED
  BY <1>2, <1>3, <1>4, <1>5, <1>6, <1>7, <1>8, <1>9 DEF ReplicaStep, Step

LEMMA CInvStep ==
  ASSUME CInv, [Next]_vars
  PROVE  CInv'
<1>1. Grows
  BY EveryStepGrows
<1>2. TypeOK' /\ PickedInv'
  BY <1>1, TypeStep, PickedStep DEF CInv
<1>3. ASSUME NEW q \in Replicas PROVE RInv(q)'
  <2>1. CASE UNCHANGED local /\ (lag' = lag \/ (picked' = version /\ version' = version))
    <3>1. Same(q) /\ Timely(q)
      BY <2>1 DEF local, Same, Timely
    <3> QED
      BY <1>1, <1>2, <3>1, OthersStep
  <2>2. ASSUME NEW r \in Replicas, ReplicaStep(r) PROVE RInv(q)'
    <3>1. CASE q = r
      BY <1>1, <1>2, <2>2, <3>1, OwnStep
    <3>2. CASE q # r
      <4>1. Same(q) /\ Timely(q)
        BY <2>2, <3>2, OthersSame, LagStays DEF Timely
      <4> QED
        BY <1>1, <1>2, <4>1, OthersStep
    <3> QED
      BY <3>1, <3>2
  <2>3. CASE Rotate \/ GatekeeperPicksUp \/ \E c \in Certs : ExpireCert(c)
    BY <2>1, <2>3 DEF Rotate, GatekeeperPicksUp, ExpireCert
  <2>4. CASE UNCHANGED vars
    BY <2>1, <2>4 DEF vars, cluster
  <2>5. CASE TimePasses
    <3>1. Same(q)
      BY <2>5 DEF TimePasses, Same
    <3>2. age'[q] = IF Waiting(q) THEN age[q] + 1 ELSE age[q]
      BY <2>5 DEF TimePasses
    <3>3. age[q] \in Nat
      BY DEF CInv, TypeOK
    <3>4. Timely(q)
      BY <2>5, <3>2, <3>3 DEF TimePasses, Timely
    <3> QED
      BY <1>1, <1>2, <3>1, <3>4, OthersStep
  <2> QED
    BY <2>2, <2>3, <2>4, <2>5 DEF Next, ReplicaStep
<1> QED
  BY <1>2, <1>3 DEF CInv

LEMMA CInvInit == Init => CInv
<1> SUFFICES ASSUME Init PROVE CInv
  OBVIOUS
<1>1. PickedInv
  BY DEF Init, PickedInv
<1>2. ASSUME NEW r \in Replicas PROVE RInv(r)
  BY DEF Init, RInv, CopyInv, WriteInv, WaitInv, Serves, Trusts
<1> QED
  BY <1>1, <1>2, TypeInit DEF CInv

LEMMA CInvHolds == Spec => []CInv
BY CInvInit, CInvStep, PTL DEF Spec

-----------------------------------------------------------------------------
\* A replica serves only while the CA it injected last is in the Provider or
\* has expired, whatever the other replicas read, merge and write meanwhile
\* (injector.go:76-114).
THEOREM AlwaysServingTrusted == Spec => []ServingTrusted
<1>1. CInv => ServingTrusted
  BY DEF CInv, RInv, Serves, ServingTrusted
<1> QED
  BY <1>1, CInvHolds, PTL

\* Once an update has waited, Gatekeeper trusts the replica's CA, and one that
\* has not waited is untrusted only until the last write is picked up
\* (injector.go:92-110).
THEOREM AlwaysGatekeeperTrusts == Spec => []GatekeeperTrusts
<1>1. CInv => GatekeeperTrusts
  BY DEF CInv, RInv, Trusts, GatekeeperTrusts
<1> QED
  BY <1>1, CInvHolds, PTL

\* No step of any replica takes an unexpired certificate out of the Provider.
THEOREM AlwaysUnexpiredRetained == Spec => UnexpiredRetained
<1>1. ASSUME CInv, [Next]_vars
      PROVE  [ToSet(bundle) \ expired' \subseteq ToSet(bundle')]_vars
  BY <1>1, EveryStepGrows DEF Grows
<1> QED
  BY <1>1, CInvHolds, PTL DEF Spec, UnexpiredRetained

\* Every write adds, prunes, takes out duplicates or puts a text that is not
\* mergeAndEncode's into its form: replicas never write the same certificates to
\* and fro (injector.go:92 and :139).
THEOREM AlwaysEveryWriteCounts == Spec => EveryWriteCounts
<1>1. ASSUME CInv, [Next]_vars
      PROVE  [version' # version =>
                \/ ToSet(bundle') # ToSet(bundle)
                \/ Len(bundle') < Len(bundle)
                \/ ~canonical /\ canonical']_vars
  BY <1>1, EveryStepGrows DEF Counts
<1> QED
  BY <1>1, CInvHolds, PTL DEF Spec, EveryWriteCounts
-----------------------------------------------------------------------------
(***************************************************************************)
(* CAInjector implements TrustedCAs.  A write is one of the abstract       *)
(* updates because the object it replaces is the copy that was merged, and *)
(* because what the merge left out had expired by then.                    *)
(***************************************************************************)
MergedFrom(r) == pc[r] = "update" =>
  /\ newBundle[r] # <<>>
  /\ \E i \in 1..rotation, gone \in SUBSET expired :
       ToSet(newBundle[r]) = (ToSet(copy[r].bundle) \cup ToSet(Mounts[i])) \ gone

MergeInv == \A r \in Replicas : mount[r] <= rotation /\ MergedFrom(r)

\* Secrets and expiries only come.
LEMMA WorldAdvances ==
  ASSUME CInv, MergeInv, [Next]_vars
  PROVE  /\ expired \subseteq expired' /\ rotation \in Nat /\ rotation' \in Nat
         /\ rotation <= rotation' /\ \A r \in Replicas : mount'[r] <= rotation'
<1>1. /\ rotation \in Nat /\ \A r \in Replicas : mount[r] \in Nat /\ mount[r] <= rotation
      /\ mount \in [Replicas -> DOMAIN Mounts]
  BY CAAssumption DEF CInv, TypeOK, MergeInv
<1>2. expired \subseteq expired'
  BY EveryStepGrows DEF Grows
<1>3. CASE Rotate
  BY <1>1, <1>2, <1>3 DEF Rotate
<1>4. ASSUME NEW r \in Replicas, Project(r)
      PROVE  rotation' = rotation /\ \A q \in Replicas : mount'[q] <= rotation
  BY <1>1, <1>4 DEF Project
<1>5. CASE UNCHANGED <<rotation, mount>>
  BY <1>1, <1>2, <1>5
<1>6. CASE GatekeeperPicksUp \/ TimePasses \/ (\E c \in Certs : ExpireCert(c)) \/ UNCHANGED vars
  BY <1>5, <1>6 DEF GatekeeperPicksUp, TimePasses, ExpireCert, vars, cluster
<1>7. ASSUME NEW r \in Replicas, ReplicaStep(r), ~Project(r) PROVE UNCHANGED <<rotation, mount>>
  BY <1>7 DEF ReplicaStep, Step, GetProvider, Merge, UpdateProvider, UpdateConflicts,
     PropagationOver, TakeTick, TakeDone, CallFails, Tick, Shutdown, Kill, Restart, Write, cluster
<1> QED
  BY <1>1, <1>2, <1>3, <1>4, <1>5, <1>6, <1>7 DEF Next, ReplicaStep

\* A merge stays what it was made from, whatever happens to the cluster.
LEMMA MergeStays ==
  ASSUME CInv, MergeInv, [Next]_vars, NEW q \in Replicas, Same(q)
  PROVE  MergedFrom(q)'
<1> SUFFICES ASSUME pc'[q] = "update" PROVE MergedFrom(q)'
  BY DEF MergedFrom
<1>1. pc[q] = "update" /\ newBundle'[q] = newBundle[q] /\ copy'[q] = copy[q]
  BY DEF Same
<1>2. PICK i \in 1..rotation, gone \in SUBSET expired :
        ToSet(newBundle[q]) = (ToSet(copy[q].bundle) \cup ToSet(Mounts[i])) \ gone
  BY <1>1 DEF MergeInv, MergedFrom
<1>3. i \in 1..rotation' /\ gone \in SUBSET expired'
  BY WorldAdvances
<1>4. newBundle[q] # <<>>
  BY <1>1 DEF MergeInv, MergedFrom
<1> QED
  BY <1>1, <1>2, <1>3, <1>4 DEF MergedFrom

LEMMA MergeMade ==
  ASSUME CInv, MergeInv, NEW r \in Replicas, Merge(r), pc'[r] = "update"
  PROVE  MergedFrom(r)'
<1> DEFINE old == copy[r].bundle
           ca  == ReadFile(r)
           new == mergeAndEncode(old, ca)
<1>1. old \in Seq(Certs) /\ ca \in Seq(Certs) /\ pc \in [Replicas -> PCs]
  BY MountType DEF CInv, TypeOK, PCs
<1>2. ToSet(new) = (ToSet(old) \cup ToSet(ca)) \ expired
  BY <1>1, MergeIsUnion
<1>3. ca = Mounts[mount[r]] /\ mount[r] \in 1..rotation
  BY CAAssumption DEF ReadFile, CInv, TypeOK, MergeInv
<1>4. ~ReturnError(r) /\ ~ReturnNil(r, ToSet(ca))
  BY <1>1 DEF ReturnError, ReturnNil, Down
<1>5. /\ new # <<>> /\ newBundle'[r] = new /\ copy'[r] = copy[r]
      /\ UNCHANGED cluster
  <2> HIDE DEF new
  <2>1. new # <<>> /\ newBundle' = [newBundle EXCEPT ![r] = new] /\ copy' = copy
        /\ UNCHANGED cluster
    BY <1>4 DEF Merge, new
  <2> QED
    BY <2>1 DEF CInv, TypeOK
<1> HIDE DEF ca, new
<1>6. rotation' = rotation /\ expired' = expired
  BY <1>5 DEF cluster
<1> QED
  BY <1>2, <1>3, <1>5, <1>6 DEF MergedFrom

LEMMA MergeInvStep ==
  ASSUME CInv, MergeInv, [Next]_vars
  PROVE  MergeInv'
<1>1. ASSUME NEW q \in Replicas PROVE MergedFrom(q)'
  <2>1. CASE UNCHANGED local \/ TimePasses
    <3>1. Same(q)
      BY <2>1 DEF local, TimePasses, Same
    <3> QED
      BY <3>1, MergeStays
  <2>2. ASSUME NEW r \in Replicas, ReplicaStep(r), q # r PROVE MergedFrom(q)'
    BY <2>2, OthersSame, MergeStays
  <2>3. ASSUME ReplicaStep(q) PROVE MergedFrom(q)'
    <3>1. CASE Tick(q) \/ Project(q) \/ Shutdown(q)
      <4>1. Same(q)
        BY <3>1 DEF Tick, Project, Shutdown, Same, local
      <4> QED
        BY <4>1, MergeStays
    <3>2. CASE Merge(q)
      <4>1. CASE pc'[q] = "update"
        BY <3>2, <4>1, MergeMade
      <4> QED
        BY <4>1 DEF MergedFrom
    <3>3. CASE \/ GetProvider(q) \/ UpdateProvider(q) \/ UpdateConflicts(q) \/ PropagationOver(q)
               \/ TakeTick(q) \/ TakeDone(q) \/ CallFails(q) \/ Kill(q) \/ Restart(q)
      <4>1. pc'[q] # "update"
        BY <3>3 DEF GetProvider, UpdateProvider, UpdateConflicts, PropagationOver, TakeTick,
           TakeDone, CallFails, Kill, Restart, ReturnNil, ReturnError, Down, CInv, TypeOK
      <4> QED
        BY <4>1 DEF MergedFrom
    <3> QED
      BY <2>3, <3>1, <3>2, <3>3 DEF ReplicaStep, Step
  <2>4. CASE Rotate \/ GatekeeperPicksUp \/ (\E c \in Certs : ExpireCert(c)) \/ UNCHANGED vars
    BY <2>1, <2>4 DEF Rotate, GatekeeperPicksUp, ExpireCert, vars
  <2> QED
    BY <2>1, <2>2, <2>3, <2>4 DEF Next, ReplicaStep
<1> QED
  BY <1>1, WorldAdvances DEF MergeInv

LEMMA WriteIsUpdate ==
  ASSUME CInv, MergeInv, NEW r \in Replicas, pc[r] = "update", Unchanged(r), Write(r)
  PROVE  TrustStore!Update
<1>1. copy[r].bundle = bundle
  BY DEF CInv, RInv, CopyInv, Unchanged
<1>2. /\ bundle' = newBundle[r] /\ UNCHANGED <<trusted, expired, rotation>>
  BY DEF Write
<1>3. PICK i \in 1..rotation, gone \in SUBSET expired :
        ToSet(newBundle[r]) = (ToSet(copy[r].bundle) \cup ToSet(Mounts[i])) \ gone
  BY DEF MergeInv, MergedFrom
<1>4. i \in DOMAIN Mounts
  BY CAAssumption DEF CInv, TypeOK
<1>5. ToSet(newBundle[r]) # {}
  <2>1. newBundle[r] \in Seq(Certs) /\ newBundle[r] # <<>>
    BY DEF CInv, TypeOK, MergeInv, MergedFrom
  <2>2. 1 \in DOMAIN newBundle[r]
    BY <2>1
  <2> QED
    BY <2>2 DEF ToSet
<1> QED
  BY <1>1, <1>2, <1>3, <1>4, <1>5 DEF TrustStore!Update

LEMMA StepIsAbstract ==
  ASSUME CInv, MergeInv, [Next]_vars
  PROVE  [TrustStore!Next]_(TrustStore!vars)
<1> USE DEF TrustStore!Next, TrustStore!vars
<1>1. CASE UNCHANGED <<bundle, trusted, expired, rotation>>
  BY <1>1
<1>2. CASE Rotate
  BY <1>2 DEF Rotate, TrustStore!NewSecret
<1>3. CASE GatekeeperPicksUp
  BY <1>3 DEF GatekeeperPicksUp, TrustStore!PickUp
<1>4. CASE \E c \in Certs : ExpireCert(c)
  BY <1>4 DEF ExpireCert, TrustStore!Expires
<1>5. ASSUME NEW r \in Replicas, ReplicaStep(r) PROVE [TrustStore!Next]_(TrustStore!vars)
  <2>1. CASE UpdateProvider(r)
    BY <2>1, WriteIsUpdate DEF UpdateProvider
  <2>2. CASE CallFails(r)
    <3>1. UNCHANGED cluster \/ TrustStore!Update
      BY <2>2, WriteIsUpdate DEF CallFails
    <3> QED
      BY <1>1, <3>1 DEF cluster
  <2>3. CASE Project(r)
    BY <1>1, <2>3 DEF Project
  <2>4. CASE \/ GetProvider(r) \/ Merge(r) \/ UpdateConflicts(r) \/ PropagationOver(r)
             \/ TakeTick(r) \/ TakeDone(r) \/ Tick(r) \/ Shutdown(r) \/ Kill(r) \/ Restart(r)
    <3>1. UNCHANGED cluster
      BY <2>4 DEF GetProvider, Merge, UpdateConflicts, PropagationOver, TakeTick, TakeDone,
         Tick, Shutdown, Kill, Restart
    <3> QED
      BY <1>1, <3>1 DEF cluster
  <2> QED
    BY <1>5, <2>1, <2>2, <2>3, <2>4 DEF ReplicaStep, Step
<1>6. CASE TimePasses \/ UNCHANGED vars
  BY <1>1, <1>6 DEF TimePasses, vars, cluster
<1> QED
  BY <1>2, <1>3, <1>4, <1>5, <1>6 DEF Next, ReplicaStep

LEMMA MergeInvHolds == Spec => []MergeInv
<1>1. Init => MergeInv
  BY DEF Init, MergeInv, MergedFrom
<1>2. CInv /\ MergeInv /\ [Next]_vars => MergeInv'
  BY MergeInvStep
<1> QED
  BY <1>1, <1>2, CInvHolds, PTL DEF Spec

(***************************************************************************)
(* The replicas' reads, merges and writes are as if each update were made  *)
(* in one step, for any number of replicas and whatever conflicts, calls   *)
(* fail or processes die between (injector.go:72-114).                     *)
(***************************************************************************)
THEOREM InjectorsImplementTrustedCAs == Spec => UpdatesAsIfAtomic
<1>1. Init => TrustStore!Init
  BY DEF Init, TrustStore!Init
<1>2. CInv /\ MergeInv /\ [Next]_vars => [TrustStore!Next]_(TrustStore!vars)
  BY StepIsAbstract
<1> QED
  BY <1>1, <1>2, CInvHolds, MergeInvHolds, PTL
  DEF Spec, UpdatesAsIfAtomic, TrustStore!Spec

\* The certificates the operator may have installed or a secret so far has held.
Brought ==
  UNION ({ToSet(b.bundle) : b \in FirstBundles} \cup {ToSet(Mounts[i]) : i \in 1..rotation})

(***************************************************************************)
(* The Provider holds, and Gatekeeper trusts, no certificate but those the *)
(* operator may have installed and those a mounted ca.crt has held         *)
(* (injector.go:82-96 and :134-161).                                       *)
(***************************************************************************)
THEOREM OnlyBroughtIsTrusted ==
  Spec => [](ToSet(bundle) \subseteq Brought /\ trusted \subseteq Brought)
<1> DEFINE Inv == ToSet(bundle) \subseteq Brought /\ trusted \subseteq Brought
<1>1. Init => Inv
  BY DEF Init, Brought
<1>2. CInv /\ MergeInv /\ Inv /\ [Next]_vars => Inv'
  <2> SUFFICES ASSUME CInv, MergeInv, Inv, [Next]_vars PROVE Inv'
    OBVIOUS
  <2>1. Brought \subseteq Brought'
    BY WorldAdvances DEF Brought
  <2>2. \A i \in 1..rotation : i \in DOMAIN Mounts /\ ToSet(Mounts[i]) \subseteq Brought
    BY CAAssumption DEF CInv, TypeOK, Brought
  <2>3. [TrustStore!Next]_(TrustStore!vars)
    BY StepIsAbstract
  <2>4. ToSet(bundle') \subseteq Brought /\ trusted' \subseteq Brought
    BY <2>2, <2>3 DEF TrustStore!Next, TrustStore!vars, TrustStore!NewSecret,
       TrustStore!Expires, TrustStore!Update, TrustStore!PickUp
  <2> QED
    BY <2>1, <2>4
<1> QED
  BY <1>1, <1>2, CInvHolds, MergeInvHolds, PTL DEF Spec
=============================================================================
