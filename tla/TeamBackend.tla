------------------------------ MODULE TeamBackend ------------------------------
(***************************************************************************)
(* Behind the gateway: the context token ContextSigningService signs, the   *)
(* teaching backend that verifies it and picks a pool with backend-sdk, and  *)
(* the resets that drop and recreate databases under that pool.  The        *)
(* backend is one process over the SDK as its README wires it; pg's pools    *)
(* and Node's treatment of an 'error' event nobody listens to are external.  *)
(***************************************************************************)
EXTENDS Integers, Sequences, FiniteSets

CONSTANTS Requests, Teams,
          Words,           \* what a segment of a path may be
          PathsOf,         \* per request: what it may ask for, /api/<code><rest> as [code, rest]
          BasePath,        \* of the offering's backendUrl, in segments: "/v1/" is <<"v1", "/">>
          TicksPerSecond,  \* resolution of the clocks; a token's times are whole seconds
          Ttl,             \* DEFAULT_CONTEXT_TOKEN_TTL_SECONDS
          Timeout,         \* DEFAULT_REQUEST_TIMEOUT_MS and the timer's lateness, in ticks
          Skew,            \* ticks by which the backend's clock is ahead
          MaxPool,         \* maxPoolSize of the SDK
          MaxTime, MaxResets,  \* bounds
          NoMessage

\* What a deployment has to see to: a request is given up at least a second
\* before its token ends, since iat is cut to the second.
ASSUME TimingAssumption ==
  /\ TicksPerSecond \in Nat \ {0} /\ Ttl \in Nat \ {0}
  /\ Timeout \in Nat /\ Skew \in Nat
  /\ Timeout + Skew <= TicksPerSecond * (Ttl - 1)
  /\ MaxTime \in Nat

\* An escape is a percent sign and two hexadecimal digits.  The rest is in segments,
\* each with a slash before it, and empty when nothing follows the code; a segment
\* without a character is written "/", as no other segment can be.
Written == [code : Seq({"c", "%", "h"}), rest : Seq(Words)]
Dots == {".", ".."}

ASSUME BackendAssumption ==
  /\ MaxPool \in Nat \ {0} /\ MaxResets \in Nat
  /\ \A r \in Requests : PathsOf[r] \subseteq Written
  /\ \A r \in Requests : \A p \in PathsOf[r] : \A i \in DOMAIN p.code :
       /\ p.code[i] = "h" <=> \E j \in {i - 1, i - 2} \cap DOMAIN p.code : p.code[j] = "%"
       /\ p.code[i] = "%" => i + 2 \in DOMAIN p.code
  /\ Dots \cup {"/", "left"} \subseteq Words
  /\ BasePath \in Seq(Words) /\ BasePath # <<>> /\ \A i \in DOMAIN BasePath : BasePath[i] \notin Dots

VARIABLES now,        \* ticks
          stage,      \* per request: where it is
          message,    \* per request: its token's claims, the path asked for, the URL
          sentAt, answer,  \* per request: the gateway's clock at fetch, the student's answer
          up,         \* the backend process runs
          idle, broken,    \* clients in a team's pool at rest: alive, or terminated
          db, reset,  \* each team's database, and its reset's step, or "failed" after it
          resets,     \* resets so far
          saw, disturbed   \* history: the data the query met; its team's reset overlapped

clockVars == <<now, resets>>
requestVars == <<stage, message, sentAt, answer, saw, disturbed>>
poolVars == <<up, idle, broken>>
dbVars == <<db, reset>>
vars == <<clockVars, requestVars, poolVars, dbVars>>

Init == /\ now = 0 /\ resets = 0 /\ up = TRUE
        /\ stage = [r \in Requests |-> "new"]
        /\ message = [r \in Requests |-> NoMessage]
        /\ sentAt = [r \in Requests |-> 0]
        /\ answer = [r \in Requests |-> 0]
        /\ idle = [t \in Teams |-> 0] /\ broken = [t \in Teams |-> 0]
        /\ db = [t \in Teams |-> "seeded"] /\ reset = [t \in Teams |-> "none"]
        /\ saw = [r \in Requests |-> "none"]
        /\ disturbed = [r \in Requests |-> FALSE]
------------------------------------------------------------------------------
(* The gateway: ProxyService.forward *)

\* decodeURIComponent makes one character of "%hh".
DecodedLength(code) == Cardinality({i \in DOMAIN code : code[i] # "h"})

\* stripOfferingPrefix: as many characters as the decoded code has are cut from the
\* path as it came.  What is left of a code with escapes becomes the first segment of
\* a path without a slash before it.  In a mutation one character less is cut.
Forwarded(left, rest) ==
  IF left = <<>> THEN [rooted |-> TRUE, segments |-> IF rest = <<>> THEN <<"/">> ELSE rest]
                 ELSE [rooted |-> FALSE, segments |-> <<"left">> \o rest]
StripOfferingPrefix_OneLess(p) == Forwarded(SubSeq(p.code, DecodedLength(p.code), Len(p.code)), p.rest)
StripOfferingPrefix(p) == Forwarded(SubSeq(p.code, DecodedLength(p.code) + 1, Len(p.code)), p.rest)

\* Dot segments are removed, each ".." with the segment before it that is left; the
\* others keep the places they were written at.  A dot segment at the end leaves a slash.
Stays(s, i) ==
  /\ s[i] \notin Dots
  /\ \A j \in (i + 1)..Len(s) : Cardinality({k \in (i + 1)..j : s[k] = ".."})
                                  <= Cardinality({k \in (i + 1)..j : s[k] \notin Dots})
Normal(s) == [i \in {k \in DOMAIN s : Stays(s, k) \/ k = Len(s)} |-> IF s[i] \in Dots THEN "/" ELSE s[i]]

\* new URL(forwardPath, backendUrl): two slashes begin another host's name, and
\* without a name there is no URL; one slash replaces the base path; without a slash
\* the last segment of the base path is replaced.
Resolve(f) ==
  LET s == f.segments IN
  IF f.rooted /\ Len(s) > 1 /\ s[1] = "/"
  THEN [to |-> IF \E i \in DOMAIN s : s[i] # "/" THEN "elsewhere" ELSE "nowhere", path |-> <<>>]
  ELSE [to |-> "backend", path |-> Normal(IF f.rooted THEN s ELSE SubSeq(BasePath, 1, Len(BasePath) - 1) \o s)]
Target(p) == Resolve(StripOfferingPrefix(p))

\* sign: iat is now in whole seconds; expiresIn counts from it.  A mutation
\* takes one off.
Expiry_Short(t) == (t \div TicksPerSecond) + Ttl - 1
Expiry(t) == (t \div TicksPerSecond) + Ttl

\* Who answers besides the backend is told apart by these: another host, with any
\* status, and the gateway's 500 when new URL throws.
Foreign == 600
NoUrl == 599

StageFor == [backend |-> "sent", elsewhere |-> "away", nowhere |-> "done"]

\* Resolve the URL, sign and fetch: one turn of the event loop.
Send(r) ==
  /\ stage[r] = "new"
  /\ \E t \in Teams, p \in PathsOf[r] :
       /\ message' = [message EXCEPT ![r] = [team |-> t, exp |-> Expiry(now), asked |-> p, url |-> Target(p)]]
       /\ stage' = [stage EXCEPT ![r] = StageFor[Target(p).to]]
       /\ answer' = [answer EXCEPT ![r] = IF Target(p).to = "nowhere" THEN NoUrl ELSE 0]
       /\ disturbed' = [disturbed EXCEPT ![r] = reset[t] # "none" \/ broken[t] > 0]
  /\ sentAt' = [sentAt EXCEPT ![r] = now]
  /\ UNCHANGED <<clockVars, saw, poolVars, dbVars>>

Waits(r) == stage[r] # "new" /\ answer[r] = 0
Due(r) == now >= sentAt[r] + Timeout

\* AbortSignal.timeout: the student gets 504, the backend goes on.
GiveUp(r) == /\ Waits(r) /\ Due(r)
             /\ answer' = [answer EXCEPT ![r] = 504]
             /\ UNCHANGED <<clockVars, stage, message, sentAt, saw, disturbed, poolVars, dbVars>>

\* No backend to connect to.
FetchFails(r) == /\ stage[r] = "sent" /\ ~up
                 /\ stage' = [stage EXCEPT ![r] = "done"]
                 /\ answer' = [answer EXCEPT ![r] = IF Waits(r) THEN 502 ELSE answer[r]]
                 /\ UNCHANGED <<clockVars, message, sentAt, saw, disturbed, poolVars, dbVars>>
------------------------------------------------------------------------------
(* The backend: verifyStqaContext, getPool, a query on the team's pool *)

TeamOf(r) == message[r].team
Busy(t) == {r \in Requests : stage[r] = "query" /\ TeamOf(r) = t}
Clients(t) == idle[t] + broken[t] + Cardinality(Busy(t))

\* The backend answers; the gateway passes it on if it still waits.
Respond(r, status) == /\ stage' = [stage EXCEPT ![r] = "done"]
                      /\ answer' = [answer EXCEPT ![r] = IF Waits(r) THEN status ELSE answer[r]]

\* Another host answers, or cannot be reached.
AnswerElsewhere(r) == /\ stage[r] = "away"
                      /\ Respond(r, Foreign)
                      /\ UNCHANGED <<clockVars, message, sentAt, saw, disturbed, poolVars, dbVars>>

\* jwt.verify compares whole seconds of the backend's clock.
Expired(r) == (now + Skew) \div TicksPerSecond >= message[r].exp

Verify(r) == /\ up /\ stage[r] = "sent"
             /\ \/ Expired(r) /\ Respond(r, 401)
                \/ /\ ~Expired(r)
                   /\ stage' = [stage EXCEPT ![r] = "verified"]
                   /\ UNCHANGED answer
             /\ UNCHANGED <<clockVars, message, sentAt, saw, disturbed, poolVars, dbVars>>

Query(r) == stage' = [stage EXCEPT ![r] = "query"] /\ UNCHANGED answer

\* A new client, if the pool has room; connecting to a dropped database fails.
\* A full pool makes the request wait: no connectionTimeoutMillis is given.  In
\* mutations it fails the request, or there is no limit.
NewClient_Impatient(r) ==
  IF Clients(TeamOf(r)) < MaxPool /\ db[TeamOf(r)] # "absent" THEN Query(r) ELSE Respond(r, 500)
NewClient_Unlimited(r) == IF db[TeamOf(r)] # "absent" THEN Query(r) ELSE Respond(r, 500)
NewClient(r) == /\ Clients(TeamOf(r)) < MaxPool
                /\ IF db[TeamOf(r)] # "absent" THEN Query(r) ELSE Respond(r, 500)

\* pool.query: a client at rest, which may be a terminated one, or a new one.
CheckOut(r) ==
  LET t == TeamOf(r) IN
  /\ up /\ stage[r] = "verified"
  /\ \/ /\ idle[t] > 0 /\ Query(r)
        /\ idle' = [idle EXCEPT ![t] = idle[t] - 1] /\ UNCHANGED broken
     \/ /\ broken[t] > 0 /\ Respond(r, 500)
        /\ broken' = [broken EXCEPT ![t] = broken[t] - 1] /\ UNCHANGED idle
     \/ /\ idle[t] + broken[t] = 0 /\ NewClient(r)
        /\ UNCHANGED <<idle, broken>>
  /\ UNCHANGED <<clockVars, message, sentAt, saw, disturbed, up, dbVars>>

\* The query has run; the client is released.
Finish(r) == /\ stage[r] = "query"
             /\ saw' = [saw EXCEPT ![r] = db[TeamOf(r)]]
             /\ idle' = [idle EXCEPT ![TeamOf(r)] = idle[TeamOf(r)] + 1]
             /\ Respond(r, 200)
             /\ UNCHANGED <<clockVars, message, sentAt, disturbed, up, broken, dbVars>>

\* idleTimeoutMillis, ten seconds by default.
IdleCloses(t) == /\ idle[t] > 0
                 /\ idle' = [idle EXCEPT ![t] = idle[t] - 1]
                 /\ UNCHANGED <<clockVars, requestVars, up, broken, dbVars>>

\* The pool emits 'error' for a terminated client at rest.  createTeamDatabaseRouter
\* listens to none: the process ends, with every team's requests in it.
PoolError(t) ==
  /\ up /\ broken[t] > 0
  /\ up' = FALSE
  /\ idle' = [u \in Teams |-> 0] /\ broken' = [u \in Teams |-> 0]
  /\ LET lost == {r \in Requests : stage[r] \in {"sent", "verified", "query"}} IN
     /\ stage' = [r \in Requests |-> IF r \in lost THEN "done" ELSE stage[r]]
     /\ answer' = [r \in Requests |-> IF r \in lost /\ Waits(r) THEN 502 ELSE answer[r]]
  /\ UNCHANGED <<clockVars, message, sentAt, saw, disturbed, dbVars>>

Restart == /\ ~up
           /\ up' = TRUE
           /\ UNCHANGED <<clockVars, requestVars, idle, broken, dbVars>>
------------------------------------------------------------------------------
(* The gateway's reset, as far as databases and sessions go; one per team at a *)
(* time, as TeamReset shows                                                  *)

InFlight(r, t) == stage[r] \in {"sent", "verified", "query"} /\ TeamOf(r) = t

\* pg_terminate_backend: queries that run are rejected, clients at rest die.
Terminate(t) ==
  /\ reset[t] \in {"none", "failed"} /\ resets < MaxResets
  /\ resets' = resets + 1
  /\ reset' = [reset EXCEPT ![t] = "drop"]
  /\ disturbed' = [r \in Requests |-> disturbed[r] \/ InFlight(r, t)]
  /\ idle' = [idle EXCEPT ![t] = 0]
  /\ broken' = [broken EXCEPT ![t] = broken[t] + idle[t]]
  /\ stage' = [r \in Requests |-> IF r \in Busy(t) THEN "done" ELSE stage[r]]
  /\ answer' = [r \in Requests |-> IF r \in Busy(t) /\ Waits(r) THEN 500 ELSE answer[r]]
  /\ UNCHANGED <<now, message, sentAt, saw, up, db>>

\* Refused while a session has come back.
Drop(t) == /\ reset[t] = "drop"
           /\ IF idle[t] = 0 /\ Busy(t) = {}
              THEN /\ db' = [db EXCEPT ![t] = "absent"]
                   /\ reset' = [reset EXCEPT ![t] = "create"]
              ELSE reset' = [reset EXCEPT ![t] = "failed"] /\ UNCHANGED db
           /\ UNCHANGED <<clockVars, requestVars, poolVars>>

\* In a mutation the hook is not awaited, and the reset succeeds before it.
CreateFromTemplate_HookUnawaited(t) == /\ reset[t] = "create"
                                       /\ db' = [db EXCEPT ![t] = "template"]
                                       /\ reset' = [reset EXCEPT ![t] = "none"]
                                       /\ UNCHANGED <<clockVars, requestVars, poolVars>>
CreateFromTemplate(t) == /\ reset[t] = "create"
                         /\ db' = [db EXCEPT ![t] = "template"]
                         /\ reset' = [reset EXCEPT ![t] = "seed"]
                         /\ UNCHANGED <<clockVars, requestVars, poolVars>>

Seed(t) == /\ reset[t] = "seed"
           /\ db' = [db EXCEPT ![t] = "seeded"]
           /\ reset' = [reset EXCEPT ![t] = "none"]
           /\ UNCHANGED <<clockVars, requestVars, poolVars>>

\* A step throws: the reset ends as failed, the database stays as it is.
RebuildFails(t) == /\ reset[t] \in {"drop", "create", "seed"}
                   /\ reset' = [reset EXCEPT ![t] = "failed"]
                   /\ UNCHANGED <<clockVars, requestVars, poolVars, db>>
------------------------------------------------------------------------------
\* A timer that is due runs before the clock goes on.
Tick == /\ now < MaxTime
        /\ \A r \in Requests : ~(Waits(r) /\ Due(r))
        /\ now' = now + 1
        /\ UNCHANGED <<resets, requestVars, poolVars, dbVars>>

Next == \/ \E r \in Requests : \/ Send(r) \/ GiveUp(r) \/ FetchFails(r) \/ AnswerElsewhere(r)
                               \/ Verify(r) \/ CheckOut(r) \/ Finish(r)
        \/ \E t \in Teams : \/ IdleCloses(t) \/ PoolError(t) \/ Terminate(t) \/ Drop(t)
                            \/ CreateFromTemplate(t) \/ Seed(t) \/ RebuildFails(t)
        \/ Restart \/ Tick

Spec == Init /\ [][Next]_vars
------------------------------------------------------------------------------
(* Properties *)

Asked == UNION {PathsOf[r] : r \in Requests}
Messages == [team : Teams, exp : Nat, asked : Asked, url : {Target(p) : p \in Asked}]

TypeOK ==
  /\ now \in 0..MaxTime /\ resets \in 0..MaxResets /\ up \in BOOLEAN
  /\ stage \in [Requests -> {"new", "sent", "away", "verified", "query", "done"}]
  /\ message \in [Requests -> Messages \cup {NoMessage}]
  /\ \A r \in Requests : stage[r] # "new" => message[r] \in Messages
  /\ sentAt \in [Requests -> 0..MaxTime]
  /\ answer \in [Requests -> {0, 200, 401, 500, 502, 504, NoUrl, Foreign}]
  /\ idle \in [Teams -> 0..MaxPool] /\ broken \in [Teams -> 0..MaxPool]
  /\ \A t \in Teams : Clients(t) <= MaxPool
  /\ db \in [Teams -> {"absent", "template", "seeded"}]
  /\ reset \in [Teams -> {"none", "drop", "create", "seed", "failed"}]
  /\ saw \in [Requests -> {"none", "template", "seeded"}]
  /\ disturbed \in [Requests -> BOOLEAN]

\* No student is refused for the age of a token: however long his request is
\* queued before the backend verifies it, the gateway has given it up by then.
TokensOutliveWaits == \A r \in Requests : answer[r] # 401

\* A query meets a database that is cloned but not seeded only beside a reset
\* of its own team, or after one that failed.
UnseededOnlyInReset == \A r \in Requests : saw[r] = "template" => disturbed[r]

\* The backend fails a request only because its own team is reset, was left
\* without a database by a failed reset, or has clients in the pool of which the
\* backend has not yet noticed that a reset terminated them: never because others
\* are at work in the pool.
FailuresAreResets == \A r \in Requests : answer[r] = 500 => disturbed[r]

\* A path the URL standard leaves alone after a code without escapes: no dot segments
\* and no two slashes in front.
Plain(p) == /\ \A i \in DOMAIN p.code : p.code[i] # "%"
            /\ \A i \in DOMAIN p.rest : p.rest[i] \notin Dots
            /\ Len(p.rest) > 1 => p.rest[1] # "/"

\* The backend is asked for exactly the path the student wrote after the offering's
\* code if that is plain, whatever the backend's base path; and only then: any other
\* path is changed on its way or reaches another host or none.
PathArrivesWhole ==
  \A r \in Requests : stage[r] # "new" =>
    LET p == message[r].asked IN
    message[r].url = [to |-> "backend", path |-> IF p.rest = <<>> THEN <<"/">> ELSE p.rest] <=> Plain(p)

\* What the backend is sent: whole paths, from no more clients than a pool has.
ForwardingFits == TypeOK /\ PathArrivesWhole

\* Resets "never affect other teams": a request of a team that is not reset is
\* not failed.
NeverAffectOtherTeams ==
  \A r \in Requests : answer[r] \in {500, 502} => disturbed[r]
==============================================================================
