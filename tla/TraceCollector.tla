--------------------------- MODULE TraceCollector ---------------------------
(***************************************************************************)
(* The connection trace of one bundle fetch (pkg/fetcher/trace.go): the    *)
(* hooks net/http calls while the fetch makes its requests, one after the  *)
(* other, all writing one record under a mutex.                            *)
(*                                                                         *)
(* A duration that was taken is abstracted to the set of requests whose    *)
(* events it was taken from; a timestamp or a flag likewise, with the      *)
(* empty set for Go's zero value.  net/http is external and modelled from  *)
(* how the hooks use it: a request whose deadline passes returns at once,  *)
(* but the dial it started, the write and the read of its connection are   *)
(* goroutines of the transport that end later.                             *)
(***************************************************************************)
EXTENDS Integers

CONSTANT MaxRequests  \* bound: requests of one fetch, retries included

ASSUME RequestsAssumption == MaxRequests \in Nat

VARIABLES
  c,                      \* TraceCollector: its fields and timestamps
  reusedConns, newConns,  \* TraceCollector: the counts
  cur,                    \* the request the fetch waits for, 0 before the first
  over,                   \* that request has returned to its caller
  dial,                   \* the dial of each request
  conn,                   \* the requests that were given a connection
  written,                \* the end of each request's write
  answered,               \* the requests whose first response byte came
  late                    \* history: an earlier request's hook ran after GetConn

counts == <<reusedConns, newConns>>
http   == <<cur, over, dial, conn, written, answered>>
vars   == <<c, counts, http, late>>

Requests == 1..MaxRequests

Timestamps == {"dnsStart", "connStart", "tlsStart"}
Durations  == {"ttfb", "dns", "connect", "tls", "lastIdle"}
PerRequest == {"ttfb", "dns", "connect", "tls", "wroteReq", "lastReused", "lastIdle",
               "gotConnAt"}

\* The phases of a dial: what comes before one, after it, and its timestamp.
Phase    == {"dns", "connect", "tls"}
before   == [p \in Phase |-> CASE p = "dns" -> "dialing" [] p = "connect" -> "resolved"
                               [] p = "tls" -> "connected"]
after    == [p \in Phase |-> CASE p = "dns" -> "resolved" [] p = "connect" -> "connected"
                               [] p = "tls" -> "ready"]
started  == [p \in Phase |-> CASE p = "dns" -> "dnsStart" [] p = "connect" -> "connStart"
                               [] p = "tls" -> "tlsStart"]
DialState == {"none", "dialing", "resolved", "connected", "ready", "failed"} \cup Phase

notRecorded   == {-1}  \* what is logged for a timing never taken
durationUnset == {-1}  \* a duration not taken so far

\* What a field starts from; a duration left at Go's zero would pass for one of
\* less than a millisecond.
BugUnset(f) == {}
Unset(f) == IF f \in Durations THEN durationUnset ELSE {}

\* NewTraceCollector, before the first request.
Init ==
  /\ c = [f \in PerRequest \cup Timestamps |-> Unset(f)]
  /\ reusedConns = 0 /\ newConns = 0
  /\ cur = 0 /\ over = TRUE
  /\ dial = [i \in Requests |-> "none"]
  /\ conn = {} /\ answered = {}
  /\ written = [i \in Requests |-> "no"]
  /\ late = FALSE

\* A hook of request i.
Hook(i) == late' = (late \/ i # cur)

-----------------------------------------------------------------------------
(***************************************************************************)
(* The request's own goroutine.                                            *)
(***************************************************************************)
\* Which connection the last request used is not cleared.
BugReset == PerRequest \ {"lastReused", "lastIdle"}
Reset == PerRequest

\* GetConn: the fields are reset; without an idle connection a dial begins.
GetConn ==
  /\ over /\ cur < MaxRequests
  /\ cur' = cur + 1 /\ over' = FALSE
  /\ c' = [f \in PerRequest \cup Timestamps |-> IF f \in Reset THEN Unset(f) ELSE c[f]]
  /\ \/ dial' = [dial EXCEPT ![cur + 1] = "dialing"]
     \/ UNCHANGED dial
  /\ late' = FALSE
  /\ UNCHANGED <<counts, conn, written, answered>>

\* GotConn: a pooled connection, or the one the request dialled.
GotConn(reused) ==
  /\ cur > 0 /\ ~over /\ cur \notin conn
  /\ reused \/ dial[cur] = "ready"
  /\ conn' = conn \cup {cur}
  /\ c' = [c EXCEPT !["gotConnAt"]  = {cur},
                    !["lastReused"] = IF reused THEN {cur} ELSE {},
                    !["lastIdle"]   = IF reused THEN {cur} ELSE @]
  /\ reusedConns' = IF reused THEN reusedConns + 1 ELSE reusedConns
  /\ newConns' = IF reused THEN newConns ELSE newConns + 1
  /\ Hook(cur)
  /\ UNCHANGED <<cur, over, dial, written, answered>>

\* The response has been read, the request failed, or its deadline passed.
Return ==
  /\ ~over
  /\ over' = TRUE
  /\ UNCHANGED <<c, counts, cur, dial, conn, written, answered, late>>

-----------------------------------------------------------------------------
(***************************************************************************)
(* The transport's goroutines, of the current or of an earlier request.    *)
(***************************************************************************)
\* DNSStart, ConnectStart, TLSHandshakeStart.
PhaseStart(i, p) ==
  /\ dial[i] = before[p]
  /\ dial' = [dial EXCEPT ![i] = p]
  /\ c' = [c EXCEPT ![started[p]] = {i}]
  /\ Hook(i)
  /\ UNCHANGED <<counts, cur, over, conn, written, answered>>

\* DNSDone, ConnectDone, TLSHandshakeDone: run for an error too.
PhaseDone(i, p) ==
  /\ dial[i] = p
  /\ \E next \in {after[p], "failed"} : dial' = [dial EXCEPT ![i] = next]
  /\ c' = [c EXCEPT ![p] = c[started[p]] \cup {i}]
  /\ Hook(i)
  /\ UNCHANGED <<counts, cur, over, conn, written, answered>>

\* A failed write is recorded like any other.
BugWroteRequest(i, result) ==
  /\ i \in conn /\ written[i] = "no"
  /\ written' = [written EXCEPT ![i] = result]
  /\ c' = [c EXCEPT !["wroteReq"] = {i}]
  /\ Hook(i)
  /\ UNCHANGED <<counts, cur, over, dial, conn, answered>>

WroteRequest(i, result) ==
  /\ i \in conn /\ written[i] = "no"
  /\ written' = [written EXCEPT ![i] = result]
  /\ c' = IF result = "err" THEN c ELSE [c EXCEPT !["wroteReq"] = {i}]
  /\ Hook(i)
  /\ UNCHANGED <<counts, cur, over, dial, conn, answered>>

\* The first byte is timed whether or not there is a connection.
BugTtfb(i) == c["gotConnAt"] \cup {i}
Ttfb(i) == IF c["gotConnAt"] = {} THEN c["ttfb"] ELSE c["gotConnAt"] \cup {i}

GotFirstResponseByte(i) ==
  /\ i \in conn \ answered
  /\ answered' = answered \cup {i}
  /\ c' = [c EXCEPT !["ttfb"] = Ttfb(i)]
  /\ Hook(i)
  /\ UNCHANGED <<counts, cur, over, dial, conn, written>>

\* Every request of the bound has been made.
Rest == cur = MaxRequests /\ over /\ UNCHANGED vars

Transport(i) ==
  \/ \E p \in Phase : PhaseStart(i, p) \/ PhaseDone(i, p)
  \/ \E result \in {"ok", "err"} : WroteRequest(i, result)
  \/ GotFirstResponseByte(i)

Next ==
  \/ GetConn \/ Return \/ Rest
  \/ \E reused \in BOOLEAN : GotConn(reused)
  \/ \E i \in Requests : Transport(i)

Spec == Init /\ [][Next]_vars

-----------------------------------------------------------------------------
\* Fields: what is logged when the fetch fails.
ms(d) == IF d = durationUnset THEN notRecorded ELSE d

Fields ==
  [last_conn_reused |-> c["lastReused"], last_conn_idle_ms |-> ms(c["lastIdle"]),
   dns_ms |-> ms(c["dns"]), connect_ms |-> ms(c["connect"]), tls_ms |-> ms(c["tls"]),
   wrote_request |-> c["wroteReq"], ttfb_ms |-> ms(c["ttfb"])]

\* A duration is unset or was taken from some request's events.
FieldValues(f) ==
  IF f \in Durations THEN ((SUBSET Requests) \ {{}}) \cup {durationUnset} ELSE SUBSET Requests

\* Types of the record and of the state of net/http: a duration is unset or was
\* taken from some request's events (trace.go:20-24 and :57-70).
TypeOK ==
  /\ c \in [PerRequest \cup Timestamps -> (SUBSET Requests) \cup {durationUnset}]
  /\ \A f \in PerRequest \cup Timestamps : c[f] \in FieldValues(f)
  /\ reusedConns \in Nat /\ newConns \in Nat
  /\ cur \in 0..MaxRequests /\ over \in BOOLEAN
  /\ dial \in [Requests -> DialState]
  /\ conn \in SUBSET Requests /\ answered \in SUBSET Requests
  /\ written \in [Requests -> {"no", "ok", "err"}]
  /\ late \in BOOLEAN

(***************************************************************************)
(* The reuse of a connection is reported of the current request and of no  *)
(* other, whatever hooks of earlier requests run meanwhile: "a fresh dial  *)
(* that fails before GotConn is not reported as a reuse of the previous    *)
(* connection" (trace.go:81-83).                                           *)
(***************************************************************************)
ReuseIsOwn ==
  /\ Fields.last_conn_reused \subseteq {cur} \cap conn
  /\ Fields.last_conn_idle_ms =
       IF Fields.last_conn_reused = {} THEN notRecorded ELSE Fields.last_conn_reused

(***************************************************************************)
(* A time to first byte is reported only once the current request has got  *)
(* a connection (trace.go:156), even if an earlier request's read          *)
(* goroutine sees its byte before that.                                    *)
(***************************************************************************)
FirstByteNeedsConn == Fields.ttfb_ms # notRecorded => cur \in conn

(***************************************************************************)
(* The black-hole signature, wrote_request with no ttfb_ms, is that of a   *)
(* request written to the end and not answered so far (trace.go:143-147    *)
(* and :165-171), and every timing is the current request's, unless a hook *)
(* of an earlier one has run since GetConn.                                *)
(***************************************************************************)
FaithfulUnlessLate ==
  cur > 0 /\ ~late =>
    /\ (Fields.wrote_request # {} /\ Fields.ttfb_ms = notRecorded)
         <=> (written[cur] = "ok" /\ cur \notin answered)
    /\ \A f \in PerRequest : c[f] \subseteq {cur} \cup durationUnset

(***************************************************************************)
(* "Reset every per-request field so a stall in this request is never      *)
(* described with a prior request's connection state" (trace.go:78).       *)
(***************************************************************************)
NeverPrior == \A f \in DOMAIN Fields : Fields[f] \subseteq {cur} \cup notRecorded
=============================================================================
