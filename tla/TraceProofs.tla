---------------------------- MODULE TraceProofs ----------------------------
(***************************************************************************)
(* Proofs that the trace of a fetch tells of the current request what the  *)
(* log reader takes from it, for any number of requests.                   *)
(***************************************************************************)
EXTENDS TraceCollector, TLAPS

Field == PerRequest \cup Timestamps

\* The transport has no business with a request that has not been made.
HttpInv ==
  /\ conn \subseteq 1..cur
  /\ answered \subseteq conn
  /\ \A i \in Requests : i \notin conn => written[i] = "no"
  /\ \A i \in Requests : i > cur => dial[i] = "none"

\* The connection the record speaks of is the current request's.
ConnInv ==
  /\ c["gotConnAt"] = IF cur \in conn THEN {cur} ELSE {}
  /\ c["lastReused"] \subseteq {cur} \cap conn
  /\ c["lastIdle"] = IF c["lastReused"] = {} THEN durationUnset ELSE c["lastReused"]
  /\ c["ttfb"] # durationUnset => cur \in conn

\* So are the timings, while no earlier request has interfered.
OwnInv == cur > 0 /\ ~late =>
  /\ c["wroteReq"] = IF written[cur] = "ok" THEN {cur} ELSE {}
  /\ c["ttfb"] = IF cur \in answered THEN {cur} ELSE durationUnset
  /\ \A p \in Phase : c[p] \subseteq {cur} \cup durationUnset
  /\ \A p \in Phase : dial[cur] = p => c[started[p]] = {cur}

\* What TypeOK says of the record.
Record ==
  /\ c \in [Field -> (SUBSET Requests) \cup {durationUnset}]
  /\ \A f \in Field : c[f] \in FieldValues(f)

TInv == TypeOK /\ HttpInv /\ ConnInv /\ OwnInv

-----------------------------------------------------------------------------
LEMMA FieldNames ==
  /\ {"ttfb", "dns", "connect", "tls", "wroteReq", "lastReused", "lastIdle", "gotConnAt"}
       \subseteq Field
  /\ \A p \in Phase : p \in Field /\ started[p] \in Field
  /\ \A p, q \in Phase : started[p] # q /\ (started[p] = started[q] => p = q)
  /\ \A p \in Phase : p \notin {"ttfb", "wroteReq", "lastReused", "lastIdle", "gotConnAt"}
  /\ \A p \in Phase : started[p] \notin {"ttfb", "wroteReq", "lastReused", "lastIdle", "gotConnAt"}
BY DEF Field, PerRequest, Timestamps, Phase, started

LEMMA ValueTypes ==
  ASSUME NEW f, NEW v
  PROVE  /\ f \in Durations => (v \in FieldValues(f) <=>
                                (v \subseteq Requests /\ v # {}) \/ v = durationUnset)
         /\ f \notin Durations => (v \in FieldValues(f) <=> v \subseteq Requests)
<1>1. ASSUME f \in Durations
      PROVE  v \in FieldValues(f) <=> (v \subseteq Requests /\ v # {}) \/ v = durationUnset
  <2>1. FieldValues(f) = ((SUBSET Requests) \ {{}}) \cup {durationUnset}
    BY <1>1 DEF FieldValues
  <2> QED
    BY <2>1
<1>2. ASSUME f \notin Durations PROVE v \in FieldValues(f) <=> v \subseteq Requests
  <2>1. FieldValues(f) = SUBSET Requests
    BY <1>2 DEF FieldValues
  <2> QED
    BY <2>1
<1> QED
  BY <1>1, <1>2

\* Which fields are durations, and what may be stored in a field.
LEMMA FieldTypes ==
  /\ Phase \subseteq Durations /\ {"ttfb", "lastIdle"} \subseteq Durations
  /\ \A p \in Phase : started[p] \notin Durations
  /\ {"wroteReq", "lastReused", "gotConnAt"} \cap Durations = {}
  /\ \A f \in Field : Unset(f) \in FieldValues(f)
  /\ \A f : FieldValues(f) \subseteq (SUBSET Requests) \cup {durationUnset}
<1>1. /\ Phase \subseteq Durations /\ {"ttfb", "lastIdle"} \subseteq Durations
      /\ \A p \in Phase : started[p] \notin Durations
      /\ {"wroteReq", "lastReused", "gotConnAt"} \cap Durations = {}
  BY DEF Phase, Durations, started
<1>2. ASSUME NEW f, NEW v \in FieldValues(f) PROVE v \in (SUBSET Requests) \cup {durationUnset}
  BY ValueTypes
<1>3. \A f \in Field : Unset(f) \in FieldValues(f)
  BY DEF FieldValues, Unset
<1> QED
  BY <1>1, <1>2, <1>3

\* -1 stands for no request and is not the zero value.
LEMMA UnsetApart == durationUnset # {} /\ durationUnset \notin SUBSET Requests
BY RequestsAssumption DEF durationUnset, Requests

\* A hook that stores a value of its type in one field keeps the record's.
LEMMA Stored ==
  ASSUME Record, NEW g \in Field, NEW v \in FieldValues(g), c' = [c EXCEPT ![g] = v]
  PROVE  Record' /\ c'[g] = v /\ \A f \in Field : f # g => c'[f] = c[f]
<1>1. v \in (SUBSET Requests) \cup {durationUnset}
  BY FieldTypes
<1> QED
  BY <1>1 DEF Record, FieldValues

LEMMA DialNames ==
  \A p \in Phase : /\ p \in DialState /\ before[p] \in DialState \ {"none"}
                   /\ after[p] \in DialState \ Phase /\ "failed" \in DialState \ Phase
                   /\ p # "none" /\ before[p] \notin Phase
BY DEF DialState, Phase, before, after

LEMMA Base == Init => TInv
<1> SUFFICES ASSUME Init PROVE TInv
  OBVIOUS
<1>1. TypeOK
  <2>1. Record
    BY FieldTypes DEF Init, Record, Field
  <2>2. /\ dial \in [Requests -> DialState] /\ written \in [Requests -> {"no", "ok", "err"}]
        /\ conn \in SUBSET Requests /\ answered \in SUBSET Requests
    BY DEF Init, DialState
  <2>3. reusedConns \in Nat /\ newConns \in Nat /\ cur \in 0..MaxRequests
    BY RequestsAssumption DEF Init
  <2>4. over \in BOOLEAN /\ late \in BOOLEAN
    BY DEF Init
  <2> QED
    BY <2>1, <2>2, <2>3, <2>4 DEF TypeOK, Record, Field
<1>2. HttpInv
  BY DEF Init, HttpInv, Requests
<1>3. ConnInv
  BY FieldNames, FieldTypes DEF Init, ConnInv, Field, Unset
<1>4. OwnInv
  BY DEF Init, OwnInv
<1> QED
  BY <1>1, <1>2, <1>3, <1>4 DEF TInv

LEMMA GetConnStep ==
  ASSUME TInv, GetConn
  PROVE  TInv'
<1> DEFINE n == cur + 1
<1>1. n \in Requests /\ cur \in Nat /\ cur' = n /\ MaxRequests \in Nat
  BY RequestsAssumption DEF TInv, TypeOK, GetConn, Requests
<1>2. n \notin conn
  BY <1>1 DEF TInv, HttpInv
<1>3. Record' /\ \A f \in PerRequest : c'[f] = Unset(f)
  <2>1. c' = [f \in Field |-> IF f \in PerRequest THEN Unset(f) ELSE c[f]]
    BY DEF GetConn, Reset, Field
  <2>2. Record
    BY DEF TInv, TypeOK, Record, Field
  <2>3. \A f \in Field : c'[f] \in FieldValues(f)
    BY <2>1, <2>2, FieldTypes DEF Record
  <2>4. c' \in [Field -> (SUBSET Requests) \cup {durationUnset}]
    BY <2>1, <2>3, FieldTypes
  <2>5. \A f \in PerRequest : c'[f] = Unset(f)
    BY <2>1 DEF Field
  <2> QED
    BY <2>3, <2>4, <2>5 DEF Record, FieldValues
<1>4. /\ dial' \in [Requests -> DialState]
      /\ dial'[n] \in {"dialing", "none"} /\ \A i \in Requests : i # n => dial'[i] = dial[i]
  <2>1. dial[n] = "none" /\ dial \in [Requests -> DialState]
    BY <1>1 DEF TInv, HttpInv, TypeOK
  <2>2. "dialing" \in DialState
    BY DEF DialState
  <2> QED
    BY <1>1, <2>1, <2>2 DEF GetConn
<1>5. TypeOK'
  <2>1. over' \in BOOLEAN /\ late' \in BOOLEAN
    BY DEF GetConn
  <2>2. /\ conn' \in SUBSET Requests /\ answered' \in SUBSET Requests
        /\ written' \in [Requests -> {"no", "ok", "err"}]
        /\ reusedConns' \in Nat /\ newConns' \in Nat
    BY DEF GetConn, counts, TInv, TypeOK
  <2>3. cur' \in 0..MaxRequests
    BY <1>1 DEF Requests
  <2> QED
    BY <1>3, <1>4, <2>1, <2>2, <2>3 DEF TypeOK, Record, Field, FieldValues
<1>6. HttpInv'
  <2>1. /\ conn' = conn /\ answered' = answered /\ written' = written
        /\ conn \subseteq 1..cur /\ answered \subseteq conn
        /\ \A i \in Requests : i \notin conn => written[i] = "no"
        /\ \A i \in Requests : i > cur => dial[i] = "none"
    BY DEF GetConn, TInv, HttpInv
  <2>2. conn \subseteq 1..n
    BY <1>1, <2>1
  <2>3. \A i \in Requests : i > n => i > cur /\ i # n
    BY <1>1 DEF Requests
  <2> QED
    BY <1>1, <1>4, <2>1, <2>2, <2>3 DEF HttpInv
<1>7. ConnInv'
  <2>1. conn' = conn /\ {"gotConnAt", "lastReused", "lastIdle", "ttfb"} \subseteq PerRequest
    BY DEF GetConn, PerRequest
  <2> QED
    BY <1>1, <1>2, <1>3, <2>1, FieldTypes DEF ConnInv, Unset
<1>8. OwnInv'
  <2>1. {"wroteReq", "ttfb"} \subseteq PerRequest /\ Phase \subseteq PerRequest
    BY DEF PerRequest, Phase
  <2>2. written[n] = "no" /\ n \notin answered /\ written' = written /\ answered' = answered
    BY <1>1, <1>2 DEF TInv, HttpInv, GetConn
  <2>3. \A p \in Phase : dial'[n] # p
    BY <1>4 DEF Phase
  <2> QED
    BY <1>1, <1>3, <2>1, <2>2, <2>3, FieldTypes DEF OwnInv, Unset
<1> QED
  BY <1>5, <1>6, <1>7, <1>8 DEF TInv

LEMMA GotConnStep ==
  ASSUME TInv, NEW reused \in BOOLEAN, GotConn(reused)
  PROVE  TInv'
<1>1. /\ cur \in Requests /\ cur \in Nat /\ cur' = cur /\ conn' = conn \cup {cur}
      /\ dial' = dial /\ written' = written /\ answered' = answered
      /\ cur \notin conn /\ over' = over
  BY RequestsAssumption DEF TInv, TypeOK, GotConn, Requests
<1>2. Record /\ c["lastReused"] = {} /\ c["lastIdle"] = durationUnset
  BY <1>1 DEF TInv, TypeOK, Record, Field, ConnInv
<1>3. /\ Record' /\ c'["gotConnAt"] = {cur}
      /\ c'["lastReused"] = IF reused THEN {cur} ELSE {}
      /\ c'["lastIdle"] = IF reused THEN {cur} ELSE durationUnset
      /\ \A f \in Field : f \notin {"gotConnAt", "lastReused", "lastIdle"} => c'[f] = c[f]
  <2> DEFINE idle == IF reused THEN {cur} ELSE durationUnset
             flag == IF reused THEN {cur} ELSE {}
  <2>1. c' = [c EXCEPT !["gotConnAt"] = {cur}, !["lastReused"] = flag, !["lastIdle"] = idle]
    BY <1>2 DEF GotConn
  <2>2. /\ {cur} \in FieldValues("gotConnAt") /\ flag \in FieldValues("lastReused")
        /\ idle \in FieldValues("lastIdle")
    BY <1>1, FieldTypes, ValueTypes
  <2> HIDE DEF idle, flag
  <2>3. /\ c' \in [Field -> (SUBSET Requests) \cup {durationUnset}]
        /\ c'["gotConnAt"] = {cur} /\ c'["lastReused"] = flag /\ c'["lastIdle"] = idle
        /\ \A f \in Field : f \notin {"gotConnAt", "lastReused", "lastIdle"} => c'[f] = c[f]
    BY <1>2, <2>1, <2>2, FieldNames, FieldTypes DEF Record
  <2>4. \A f \in Field : c'[f] \in FieldValues(f)
    BY <1>2, <2>2, <2>3 DEF Record
  <2> QED
    BY <2>3, <2>4 DEF Record, FieldValues, flag, idle
<1>4. late' = late
  BY <1>1 DEF GotConn, Hook, TInv, TypeOK
<1>5. TypeOK'
  <2>1. reusedConns' \in Nat /\ newConns' \in Nat
    BY DEF GotConn, TInv, TypeOK
  <2> QED
    BY <1>1, <1>3, <1>4, <2>1 DEF TInv, TypeOK, Record, Field, FieldValues
<1>6. HttpInv'
  <2>1. /\ conn \subseteq 1..cur /\ answered \subseteq conn
        /\ \A i \in Requests : i \notin conn => written[i] = "no"
        /\ \A i \in Requests : i > cur => dial[i] = "none"
    BY DEF TInv, HttpInv
  <2>2. conn' \subseteq 1..cur
    BY <1>1, <2>1 DEF Requests
  <2> QED
    BY <1>1, <2>1, <2>2 DEF HttpInv
<1>7. ConnInv'
  BY <1>1, <1>3, FieldNames DEF TInv, ConnInv
<1>8. OwnInv'
  BY <1>1, <1>3, <1>4, FieldNames DEF TInv, OwnInv
<1> QED
  BY <1>5, <1>6, <1>7, <1>8 DEF TInv

LEMMA PhaseStartStep ==
  ASSUME TInv, NEW i \in Requests, NEW p \in Phase, PhaseStart(i, p)
  PROVE  TInv'
<1>1. /\ cur' = cur /\ conn' = conn /\ written' = written /\ answered' = answered
      /\ dial' = [dial EXCEPT ![i] = p] /\ dial[i] = before[p] /\ over' = over
      /\ reusedConns' = reusedConns /\ newConns' = newConns /\ cur \in Nat
  BY DEF PhaseStart, counts, TInv, TypeOK
<1>2. /\ Record /\ dial \in [Requests -> DialState]
      /\ late \in BOOLEAN /\ late' = (late \/ i # cur)
  BY DEF TInv, TypeOK, Record, Field, PhaseStart, Hook
<1>3. /\ Record' /\ c'[started[p]] = {i}
      /\ \A f \in Field : f # started[p] => c'[f] = c[f]
  <2>1. {i} \in FieldValues(started[p])
    BY FieldTypes DEF FieldValues
  <2> QED
    BY <1>2, <2>1, Stored, FieldNames DEF PhaseStart
<1>4. dial' \in [Requests -> DialState] /\ \A j \in Requests : dial'[j] = IF j = i THEN p ELSE dial[j]
  BY <1>1, <1>2, DialNames
<1>5. TypeOK'
  BY <1>1, <1>2, <1>3, <1>4 DEF TInv, TypeOK, Record, Field, FieldValues
<1>6. HttpInv'
  <2>1. ~(i > cur)
    BY <1>1, DialNames DEF TInv, HttpInv
  <2> QED
    BY <1>1, <1>4, <2>1 DEF TInv, HttpInv
<1>7. ConnInv'
  BY <1>1, <1>3, FieldNames DEF TInv, ConnInv
<1>8. OwnInv'
  <2>1. SUFFICES ASSUME cur > 0, i = cur, ~late PROVE OwnInv'
    BY <1>1, <1>2 DEF OwnInv
  <2>2. \A q \in Phase : dial'[cur] = q => q = p
    BY <1>4, <2>1
  <2>3. \A q \in Phase : c'[q] = c[q]
    BY <1>3, FieldNames
  <2>4. c'["wroteReq"] = c["wroteReq"] /\ c'["ttfb"] = c["ttfb"]
    BY <1>3, FieldNames
  <2> QED
    BY <1>1, <1>3, <2>1, <2>2, <2>3, <2>4 DEF TInv, OwnInv
<1> QED
  BY <1>5, <1>6, <1>7, <1>8 DEF TInv

LEMMA PhaseDoneStep ==
  ASSUME TInv, NEW i \in Requests, NEW p \in Phase, PhaseDone(i, p)
  PROVE  TInv'
<1>1. /\ cur' = cur /\ conn' = conn /\ written' = written /\ answered' = answered
      /\ dial[i] = p /\ over' = over
      /\ reusedConns' = reusedConns /\ newConns' = newConns /\ cur \in Nat
  BY DEF PhaseDone, counts, TInv, TypeOK
<1>2. /\ Record /\ dial \in [Requests -> DialState]
      /\ late \in BOOLEAN /\ late' = (late \/ i # cur)
  BY DEF TInv, TypeOK, Record, Field, PhaseDone, Hook
<1>3. /\ Record' /\ c'[p] = c[started[p]] \cup {i}
      /\ \A f \in Field : f # p => c'[f] = c[f]
  <2>1. c[started[p]] \in SUBSET Requests
    BY <1>2, FieldNames, FieldTypes DEF Record, FieldValues
  <2>2. c[started[p]] \cup {i} \in FieldValues(p)
    BY <2>1, FieldTypes, ValueTypes
  <2> QED
    BY <1>2, <2>2, Stored, FieldNames DEF PhaseDone
<1>4. /\ dial' \in [Requests -> DialState] /\ dial'[i] \notin Phase
      /\ \A j \in Requests : j # i => dial'[j] = dial[j]
  <2>1. PICK next \in {after[p], "failed"} : dial' = [dial EXCEPT ![i] = next]
    BY DEF PhaseDone
  <2>2. next \in DialState \ Phase
    BY DialNames
  <2> QED
    BY <1>2, <2>1, <2>2
<1>5. TypeOK'
  BY <1>1, <1>2, <1>3, <1>4 DEF TInv, TypeOK, Record, Field, FieldValues
<1>6. HttpInv'
  <2>1. ~(i > cur)
    BY <1>1, DialNames DEF TInv, HttpInv
  <2> QED
    BY <1>1, <1>4, <2>1 DEF TInv, HttpInv
<1>7. ConnInv'
  BY <1>1, <1>3, FieldNames DEF TInv, ConnInv
<1>8. OwnInv'
  <2>1. SUFFICES ASSUME cur > 0, i = cur, ~late PROVE OwnInv'
    BY <1>1, <1>2 DEF OwnInv
  <2>2. \A q \in Phase : c'[q] \subseteq {cur} \cup durationUnset
    BY <1>1, <1>3, <2>1, FieldNames DEF TInv, OwnInv
  <2>3. \A q \in Phase : dial'[cur] # q
    BY <1>4, <2>1
  <2>4. c'["wroteReq"] = c["wroteReq"] /\ c'["ttfb"] = c["ttfb"]
    BY <1>3, FieldNames
  <2> QED
    BY <1>1, <2>1, <2>2, <2>3, <2>4 DEF TInv, OwnInv
<1> QED
  BY <1>5, <1>6, <1>7, <1>8 DEF TInv

LEMMA WroteRequestStep ==
  ASSUME TInv, NEW i \in Requests, NEW result \in {"ok", "err"}, WroteRequest(i, result)
  PROVE  TInv'
<1>1. /\ cur' = cur /\ conn' = conn /\ dial' = dial /\ answered' = answered
      /\ over' = over /\ i \in conn /\ written[i] = "no"
      /\ reusedConns' = reusedConns /\ newConns' = newConns /\ cur \in Nat
  BY DEF WroteRequest, counts, TInv, TypeOK
<1>2. /\ Record /\ written \in [Requests -> {"no", "ok", "err"}]
      /\ late \in BOOLEAN /\ late' = (late \/ i # cur)
  BY DEF TInv, TypeOK, Record, Field, WroteRequest, Hook
<1>3. /\ Record'
      /\ c'["wroteReq"] = IF result = "err" THEN c["wroteReq"] ELSE {i}
      /\ \A f \in Field : f # "wroteReq" => c'[f] = c[f]
  <2>1. {i} \in FieldValues("wroteReq")
    BY FieldTypes DEF FieldValues
  <2>2. CASE result = "err"
    BY <1>2, <2>2 DEF WroteRequest, Record, FieldValues
  <2>3. CASE result # "err"
    BY <1>2, <2>1, <2>3, Stored, FieldNames DEF WroteRequest
  <2> QED
    BY <2>2, <2>3
<1>4. /\ written' \in [Requests -> {"no", "ok", "err"}]
      /\ \A j \in Requests : written'[j] = IF j = i THEN result ELSE written[j]
  BY <1>2 DEF WroteRequest
<1>5. TypeOK'
  BY <1>1, <1>2, <1>3, <1>4 DEF TInv, TypeOK, Record, Field, FieldValues
<1>6. HttpInv'
  BY <1>1, <1>4 DEF TInv, HttpInv
<1>7. ConnInv'
  BY <1>1, <1>3, FieldNames DEF TInv, ConnInv
<1>8. OwnInv'
  <2>1. SUFFICES ASSUME cur > 0, i = cur, ~late PROVE OwnInv'
    BY <1>1, <1>2 DEF OwnInv
  <2>2. c["wroteReq"] = {}
    BY <1>1, <2>1 DEF TInv, OwnInv
  <2>3. c'["wroteReq"] = IF written'[cur] = "ok" THEN {cur} ELSE {}
    BY <1>3, <1>4, <2>1, <2>2
  <2> QED
    BY <1>1, <1>3, <2>1, <2>3, FieldNames DEF TInv, OwnInv
<1> QED
  BY <1>5, <1>6, <1>7, <1>8 DEF TInv

LEMMA FirstByteStep ==
  ASSUME TInv, NEW i \in Requests, GotFirstResponseByte(i)
  PROVE  TInv'
<1>1. /\ cur' = cur /\ conn' = conn /\ dial' = dial /\ written' = written
      /\ over' = over /\ i \in conn /\ i \notin answered /\ answered' = answered \cup {i}
      /\ reusedConns' = reusedConns /\ newConns' = newConns /\ cur \in Nat
  BY DEF GotFirstResponseByte, counts, TInv, TypeOK
<1>2. /\ Record /\ late \in BOOLEAN /\ late' = (late \/ i # cur)
      /\ c["gotConnAt"] = IF cur \in conn THEN {cur} ELSE {}
  BY DEF TInv, TypeOK, Record, Field, GotFirstResponseByte, Hook, ConnInv
<1>3. Ttfb(i) \in FieldValues("ttfb")
  <2>1. c["gotConnAt"] \in SUBSET Requests /\ c["ttfb"] \in FieldValues("ttfb")
    BY <1>2, FieldNames, FieldTypes DEF Record, FieldValues
  <2> QED
    BY <2>1, FieldTypes, ValueTypes DEF Ttfb
<1>4. /\ Record' /\ c'["ttfb"] = Ttfb(i)
      /\ \A f \in Field : f # "ttfb" => c'[f] = c[f]
  BY <1>2, <1>3, Stored, FieldNames DEF GotFirstResponseByte
<1>5. TypeOK'
  BY <1>1, <1>2, <1>4 DEF TInv, TypeOK, Record, Field, FieldValues
<1>6. HttpInv'
  BY <1>1 DEF TInv, HttpInv
<1>7. ConnInv'
  <2>1. Ttfb(i) # durationUnset => cur \in conn
    BY <1>2 DEF Ttfb, TInv, ConnInv
  <2> QED
    BY <1>1, <1>4, <2>1, FieldNames DEF TInv, ConnInv
<1>8. OwnInv'
  <2>1. SUFFICES ASSUME cur > 0, i = cur, ~late PROVE OwnInv'
    BY <1>1, <1>2 DEF OwnInv
  <2>2. c'["ttfb"] = {cur} /\ cur \in answered'
    BY <1>1, <1>2, <1>4, <2>1 DEF Ttfb
  <2> QED
    BY <1>1, <1>4, <2>1, <2>2, FieldNames DEF TInv, OwnInv
<1> QED
  BY <1>5, <1>6, <1>7, <1>8 DEF TInv

LEMMA Inductive ==
  ASSUME TInv, [Next]_vars
  PROVE  TInv'
<1>1. CASE Return
  <2>1. UNCHANGED <<c, counts, cur, dial, conn, written, answered, late>> /\ over' = TRUE
    BY <1>1 DEF Return
  <2>2. TypeOK'
    BY <2>1 DEF TInv, TypeOK, FieldValues, counts
  <2>3. HttpInv' /\ ConnInv' /\ OwnInv'
    BY <2>1 DEF TInv, HttpInv, ConnInv, OwnInv
  <2> QED
    BY <2>2, <2>3 DEF TInv
<1>2. CASE UNCHANGED vars
  BY <1>2 DEF vars, counts, http, TInv, TypeOK, FieldValues, HttpInv, ConnInv, OwnInv
<1> QED
  BY <1>1, <1>2, GetConnStep, GotConnStep, PhaseStartStep, PhaseDoneStep, WroteRequestStep,
     FirstByteStep DEF Next, Transport, Rest

LEMMA TInvHolds == Spec => []TInv
BY Base, Inductive, PTL DEF Spec

-----------------------------------------------------------------------------
\* The fields of the record keep their types (trace.go:32-55).
THEOREM TypeCorrect == Spec => []TypeOK
<1>1. TInv => TypeOK
  BY DEF TInv
<1> QED
  BY <1>1, TInvHolds, PTL

\* What is logged as -1 is exactly what has not been recorded.
LEMMA NotRecorded ==
  \A d : (ms(d) = notRecorded <=> d = durationUnset) /\ (d # durationUnset => ms(d) = d)
BY DEF ms, notRecorded, durationUnset

\* The reuse of a connection, with its idle time, is logged of the current
\* request only, though hooks of earlier requests run late (trace.go:76-105).
THEOREM AlwaysReuseIsOwn == Spec => []ReuseIsOwn
<1>1. ASSUME TInv PROVE ReuseIsOwn
  <2>1. c["lastReused"] # durationUnset
    BY <1>1, FieldNames, FieldTypes, UnsetApart DEF TInv, TypeOK, FieldValues, Field
  <2> QED
    BY <1>1, <2>1, NotRecorded DEF TInv, ConnInv, ReuseIsOwn, Fields
<1> QED
  BY <1>1, TInvHolds, PTL

\* A time to first byte is logged only for a request that got a connection,
\* though an earlier one's first byte may come late (trace.go:155-161).
THEOREM AlwaysFirstByteNeedsConn == Spec => []FirstByteNeedsConn
<1>1. TInv => FirstByteNeedsConn
  BY NotRecorded DEF TInv, ConnInv, FirstByteNeedsConn, Fields
<1> QED
  BY <1>1, TInvHolds, PTL

\* The black-hole signature means what its comment says, and every timing is
\* the current request's, as long as no earlier request's hook ran since its
\* GetConn (trace.go:142-171).
THEOREM AlwaysFaithfulUnlessLate == Spec => []FaithfulUnlessLate
<1>1. ASSUME TInv, cur > 0, ~late
      PROVE  /\ (Fields.wrote_request # {} /\ Fields.ttfb_ms = notRecorded)
                  <=> (written[cur] = "ok" /\ cur \notin answered)
             /\ \A f \in PerRequest : c[f] \subseteq {cur} \cup durationUnset
  <2>1. {cur} # durationUnset
    BY <1>1 DEF TInv, TypeOK, durationUnset
  <2>2. Fields.wrote_request = c["wroteReq"] /\ Fields.ttfb_ms = ms(c["ttfb"])
    BY DEF Fields
  <2>3. /\ c["wroteReq"] = IF written[cur] = "ok" THEN {cur} ELSE {}
        /\ c["ttfb"] = IF cur \in answered THEN {cur} ELSE durationUnset
        /\ \A p \in Phase : c[p] \subseteq {cur} \cup durationUnset
    BY <1>1 DEF TInv, OwnInv
  <2>4. /\ c["gotConnAt"] \subseteq {cur}
        /\ c["lastReused"] \subseteq {cur}
        /\ c["lastIdle"] \subseteq {cur} \cup durationUnset
    BY <1>1 DEF TInv, ConnInv
  <2>5. \A f \in PerRequest : c[f] \subseteq {cur} \cup durationUnset
    BY <2>3, <2>4 DEF PerRequest, Phase
  <2> QED
    BY <2>1, <2>2, <2>3, <2>5, NotRecorded
<1>2. TInv => FaithfulUnlessLate
  BY <1>1 DEF FaithfulUnlessLate
<1> QED
  BY <1>2, TInvHolds, PTL
=============================================================================
