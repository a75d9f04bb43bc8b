------------------------------ MODULE RequestLog ------------------------------
(***************************************************************************)
(* ProxyService.forward (gateway/src/proxy/) and RequestLoggerService       *)
(* (gateway/src/logging/): a forwarded request is logged on arrival and     *)
(* again with its outcome, both times by an upsert nobody waits for.  The   *)
(* upserts of all requests, and the events of the rate limiter, share the   *)
(* connections of one pool, which hands them out first come first served.   *)
(***************************************************************************)
EXTENDS Integers, Sequences, FiniteSets

CONSTANTS Requests,
          PoolMax,    \* connections of LoggingDbService's pool
          MaxFaults   \* bound: failed queries and gateway crashes

ASSUME PoolAssumption == PoolMax \in Nat \ {0} /\ MaxFaults \in Nat

VARIABLES stage,    \* per request: what it is waiting for
          answer,   \* per request: the status its student was sent, or "none"
          waiting,  \* the writes queued for a connection of the pool
          running,  \* the writes on a connection
          table,    \* request_logs: the status column of each request's row
          body,     \* requests whose row has the request body
          events,   \* requests with a rate_limit_events row
          faults

requestVars == <<stage, answer>>
poolVars == <<waiting, running>>
logVars == <<table, body, events>>
vars == <<requestVars, poolVars, logVars, faults>>

Outcomes == {"backend", "502", "504"}
Writes == [req : Requests, what : {"arrival", "event"} \cup Outcomes]

Init == /\ stage = [r \in Requests |-> "new"]
        /\ answer = [r \in Requests |-> "none"]
        /\ waiting = <<>> /\ running = {}
        /\ table = [r \in Requests |-> "absent"]
        /\ body = {} /\ events = {}
        /\ faults = 0
------------------------------------------------------------------------------
(* The request *)

Log(r, what) == /\ waiting' = Append(waiting, [req |-> r, what |-> what])
                /\ UNCHANGED running

Goto(r, s) == stage' = [stage EXCEPT ![r] = s]
Answer(r, status) == answer' = [answer EXCEPT ![r] = status] /\ Goto(r, "done")
Fault == faults < MaxFaults /\ faults' = faults + 1

\* The rate limiter let the request pass: forward asks for the backend's URL.
Arrive(r) == /\ stage[r] = "new"
             /\ Goto(r, "lookup")
             /\ UNCHANGED <<answer, poolVars, logVars, faults>>

\* The rate limiter refuses the request and awaits the event it logs.
Limit(r) == /\ stage[r] = "new"
            /\ Goto(r, "limited")
            /\ Log(r, "event")
            /\ UNCHANGED <<answer, logVars, faults>>

\* The query fails, or names no backend: 500 before anything is logged.
LookupFails(r) == /\ stage[r] = "lookup"
                  /\ Fault
                  /\ Answer(r, "500")
                  /\ UNCHANGED <<poolVars, logVars>>

\* A gateway that waits for the arrival to be logged before it forwards.
AfterArrival_Awaited == "logging"
AfterArrival == "fetch"

Forward(r) == /\ stage[r] = "lookup"
              /\ Goto(r, AfterArrival)
              /\ Log(r, "arrival")
              /\ UNCHANGED <<answer, logVars, faults>>

\* Timeouts logged as an unreachable backend.
LoggedAs_OneError(outcome) == IF outcome = "504" THEN "502" ELSE outcome
LoggedAs(outcome) == outcome

\* The backend's answer, a broken connection or AbortSignal.timeout, whichever
\* is first; each is logged and answered in one go.
Complete(r) == /\ stage[r] = "fetch"
               /\ \E outcome \in Outcomes : Answer(r, outcome) /\ Log(r, LoggedAs(outcome))
               /\ UNCHANGED <<logVars, faults>>
------------------------------------------------------------------------------
(* The log *)

Dispatch == /\ waiting # <<>> /\ Cardinality(running) < PoolMax
            /\ running' = running \cup {Head(waiting)}
            /\ waiting' = Tail(waiting)
            /\ UNCHANGED <<requestVars, logVars, faults>>

\* The status column is NULL until an outcome is written.
StatusOf(w) == IF w.what = "arrival" THEN "null" ELSE w.what

\* A conflict that is ignored instead of updating the row.
OnConflict_DoNothing(w) == table[w.req]
OnConflict(w) == StatusOf(w)

\* INSERT .. ON CONFLICT DO UPDATE: the columns of the outcome are overwritten,
\* the request body is only ever inserted.
Upsert(w) == IF table[w.req] = "absent"
             THEN /\ table' = [table EXCEPT ![w.req] = StatusOf(w)]
                  /\ body' = IF w.what = "arrival" THEN body \cup {w.req} ELSE body
             ELSE /\ table' = [table EXCEPT ![w.req] = OnConflict(w)]
                  /\ UNCHANGED body

\* The rate limiter goes on, and answers 429, once its event is settled.
Settled(w) == IF w.what = "event" /\ stage[w.req] = "limited"
              THEN Answer(w.req, "429") ELSE UNCHANGED requestVars

Commit(w) == /\ running' = running \ {w}
             /\ IF w.what = "event"
                THEN events' = events \cup {w.req} /\ UNCHANGED <<table, body>>
                ELSE Upsert(w) /\ UNCHANGED events
             /\ Settled(w)
             /\ UNCHANGED <<waiting, faults>>

\* A write fails: the error is caught and forgotten.
WriteFails(w) == /\ Fault
                 /\ running' = running \ {w}
                 /\ Settled(w)
                 /\ UNCHANGED <<waiting, logVars>>

\* The gateway dies: requests and unwritten log entries with it.
Crash == /\ Fault
         /\ stage' = [r \in Requests |-> IF stage[r] = "new" THEN "new" ELSE "done"]
         /\ waiting' = <<>> /\ running' = {}
         /\ UNCHANGED <<answer, logVars>>

Serve(r) == Forward(r) \/ LookupFails(r) \/ Complete(r)
Write == Dispatch \/ \E w \in running : Commit(w) \/ WriteFails(w)

Next == (\E r \in Requests : Arrive(r) \/ Limit(r) \/ Serve(r)) \/ Write \/ Crash

\* The control database and the fetch (or its timeout) answer; the logging
\* database may hang.
Spec == Init /\ [][Next]_vars /\ \A r \in Requests : WF_vars(Serve(r))
------------------------------------------------------------------------------
(* Properties *)

TypeOK == /\ stage \in [Requests -> {"new", "lookup", "limited", "fetch", "done"}]
          /\ answer \in [Requests -> {"none", "429", "500"} \cup Outcomes]
          /\ waiting \in Seq(Writes) /\ running \subseteq Writes
          /\ Cardinality(running) <= PoolMax
          /\ table \in [Requests -> {"absent", "null"} \cup Outcomes]
          /\ body \subseteq Requests /\ events \subseteq Requests
          /\ faults \in 0..MaxFaults

\* A row never shows an outcome other than the one its student was answered
\* with, whatever was written late or twice.
StatusIsAnswer == \A r \in Requests : table[r] \in Outcomes => answer[r] = table[r]

\* The writes of a request that are not settled yet.
Pending(r) == {w \in Writes : w.req = r /\ (w \in running \/ \E i \in DOMAIN waiting : waiting[i] = w)}

\* Once the writes of a forwarded request are settled and none was lost, its row
\* is whole, with the outcome and the request's body, or the two writes crossed
\* and it has neither: no third kind of row reaches the dashboard.
WholeOrReverted ==
  \A r \in Requests :
    answer[r] \in Outcomes /\ Pending(r) = {} /\ faults = 0
      => (table[r] = answer[r] /\ r \in body) \/ (table[r] = "null" /\ r \notin body)

\* What the dashboard reads of a request is what its student was told, or, by
\* the crossing of the two writes, nothing at all; never half of a row.
RowsTellOutcome == StatusIsAnswer /\ WholeOrReverted
==============================================================================
