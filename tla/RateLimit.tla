------------------------------ MODULE RateLimit ------------------------------
(***************************************************************************)
(* RateLimitMiddleware and RateLimitService (gateway/src/rate-limit/): two  *)
(* fixed-window counters per request, one for its student and one for its   *)
(* team, each an INCR and, by whoever got 1, an EXPIRE.  The two checks run  *)
(* side by side (Promise.all), many requests do at once, and the Redis       *)
(* client resends a command whose connection broke before the answer.        *)
(* Time is counted in windows of 60 seconds.                                 *)
(***************************************************************************)
EXTENDS Integers, FiniteSets

CONSTANTS Requests,
          Memberships,   \* [student, team, offering]: what stqaContext may hold
          PerStudent, PerTeam,  \* configuration.rateLimit of an offering, or Unset
          MaximumTeamSize,
          DefaultRateLimit,
          Unset, Nobody,
          MaxWindow,     \* bound: the last window
          MaxLag,        \* windows an INCR may wait in the client's queue
          MaxFaults      \* bound: broken connections and gateway crashes

Offerings == {m.offering : m \in Memberships}
Scopes == {"student", "team"}
Windows == 0..MaxWindow
Keys == {<<s, id, w>> : s \in Scopes, id \in {m.student : m \in Memberships} \cup
                                             {m.team : m \in Memberships}, w \in Windows}
\* windowSeconds * 2; a counter living for its own window only.
Ttl_OneWindow == 1
Ttl == 2
Immortal == -1

ASSUME LimitAssumption ==
  /\ IsFiniteSet(Requests)
  /\ DefaultRateLimit \in Nat /\ MaxWindow \in Nat /\ MaxLag \in Nat /\ MaxFaults \in Nat
  /\ MaximumTeamSize \in [Offerings -> Nat]
  /\ PerStudent \in [Offerings -> Nat \cup {Unset}] /\ PerTeam \in [Offerings -> Nat \cup {Unset}]
  /\ Unset \notin Nat /\ Nobody \notin Memberships

\* The client gives a command up after 20 reconnections, some ten seconds: an
\* INCR runs in the window it was stamped with or in the next one.
ASSUME LagAssumption == MaxLag < 2

VARIABLES now,      \* the current window
          counter,  \* Redis: the value of each key, 0 when absent
          expiry,   \* Redis: the window in which a key expires, or Immortal
          who,      \* per request: its membership
          stamp,    \* per request: the window its keys name
          phase,    \* per request and scope: the command it waits for
          ticket,   \* per request and scope: INCR's answer
          faults

redisVars == <<counter, expiry>>
requestVars == <<who, stamp>>
vars == <<now, redisVars, requestVars, phase, ticket, faults>>

Init == /\ now = 0
        /\ counter = [k \in Keys |-> 0]
        /\ expiry = [k \in Keys |-> Immortal]
        /\ who = [r \in Requests |-> Nobody]
        /\ stamp = [r \in Requests |-> 0]
        /\ phase = [r \in Requests |-> [s \in Scopes |-> "idle"]]
        /\ ticket = [r \in Requests |-> [s \in Scopes |-> 0]]
        /\ faults = 0
------------------------------------------------------------------------------
(* The verdict *)

IdentityOf(m, s) == IF s = "student" THEN m.student ELSE m.team

Key(r, s) == <<s, IdentityOf(who[r], s), stamp[r]>>

Limit(o, s) ==
  IF s = "student"
  THEN IF PerStudent[o] # Unset THEN PerStudent[o] ELSE DefaultRateLimit
  ELSE IF PerTeam[o] # Unset THEN PerTeam[o] ELSE DefaultRateLimit * MaximumTeamSize[o]

\* The last request of the limit is refused.
Allowed_Strict(r, s) == ticket[r][s] < Limit(who[r].offering, s)
Allowed(r, s) == ticket[r][s] <= Limit(who[r].offering, s)

\* next(err) as soon as one check is rejected; next() or 429 once both have
\* answered, 429 naming the student's limit if that one is exceeded.
Failed(r) == \E s \in Scopes : phase[r][s] = "failed"
Decided(r) == \A s \in Scopes : phase[r][s] = "counted"
Served(r) == Decided(r) /\ \A s \in Scopes : Allowed(r, s)
Refused(r, s) == Decided(r) /\ ~Allowed(r, s) /\ (s = "team" => Allowed(r, "student"))
------------------------------------------------------------------------------
(* The checks *)

SetPhase(r, s, p) == phase' = [phase EXCEPT ![r][s] = p]

\* LabAuthMiddleware resolved a context; Promise.all calls both checks, which
\* read the clock and hand their INCRs to the client.
Arrive(r) == /\ who[r] = Nobody
             /\ \E m \in Memberships : who' = [who EXCEPT ![r] = m]
             /\ stamp' = [stamp EXCEPT ![r] = now]
             /\ phase' = [phase EXCEPT ![r] = [s \in Scopes |-> "incr"]]
             /\ UNCHANGED <<now, redisVars, ticket, faults>>

\* Who sets the time to live: the request that created the counter; or, in a
\* mutation, every other one.
SetsTtl_NotFirst(count) == count > 1
SetsTtl(count) == count = 1

Incr(r, s) == /\ phase[r][s] = "incr"
              /\ LET count == counter[Key(r, s)] + 1 IN
                 /\ counter' = [counter EXCEPT ![Key(r, s)] = count]
                 /\ ticket' = [ticket EXCEPT ![r][s] = count]
                 /\ SetPhase(r, s, IF SetsTtl(count) THEN "expire" ELSE "counted")
              /\ UNCHANGED <<now, expiry, requestVars, faults>>

Expire(r, s) == /\ phase[r][s] = "expire"
                /\ expiry' = [expiry EXCEPT ![Key(r, s)] = now + Ttl]
                /\ SetPhase(r, s, "counted")
                /\ UNCHANGED <<now, counter, requestVars, ticket, faults>>

Fault == faults < MaxFaults /\ faults' = faults + 1

\* The connection breaks after Redis ran the INCR: the client sends it again.
IncrResent(r, s) == /\ phase[r][s] = "incr"
                    /\ Fault
                    /\ counter' = [counter EXCEPT ![Key(r, s)] = @ + 1]
                    /\ UNCHANGED <<now, expiry, requestVars, phase, ticket>>

\* The client gives up on a command, whether Redis ran it or not: the check's
\* promise is rejected, the other one goes on.
CommandFails(r, s) == /\ phase[r][s] \in {"incr", "expire"}
                      /\ Fault
                      /\ SetPhase(r, s, "failed")
                      /\ UNCHANGED <<now, redisVars, requestVars, ticket>>

\* The gateway dies with its requests and their commands; Redis stays.
Crash == /\ Fault
         /\ phase' = [r \in Requests |-> [s \in Scopes |->
                        IF phase[r][s] \in {"incr", "expire"} THEN "failed" ELSE phase[r][s]]]
         /\ phase' # phase
         /\ UNCHANGED <<now, redisVars, requestVars, ticket>>

\* The next window begins; Redis drops the keys whose time has come.
Tick == /\ now < MaxWindow
        /\ \A r \in Requests, s \in Scopes : phase[r][s] = "incr" => now - stamp[r] < MaxLag
        /\ now' = now + 1
        /\ counter' = [k \in Keys |-> IF expiry[k] = now' THEN 0 ELSE counter[k]]
        /\ expiry' = [k \in Keys |-> IF expiry[k] = now' THEN Immortal ELSE expiry[k]]
        /\ UNCHANGED <<requestVars, phase, ticket, faults>>

Check(r, s) == Incr(r, s) \/ Expire(r, s) \/ IncrResent(r, s) \/ CommandFails(r, s)

Next == \/ \E r \in Requests : Arrive(r) \/ \E s \in Scopes : Check(r, s)
        \/ Crash
        \/ Tick

Spec == Init /\ [][Next]_vars
------------------------------------------------------------------------------
(* Properties *)

TypeOK ==
  /\ now \in Windows
  /\ counter \in [Keys -> Nat] /\ expiry \in [Keys -> Nat \cup {Immortal}]
  /\ who \in [Requests -> Memberships \cup {Nobody}]
  /\ stamp \in [Requests -> Windows]
  /\ phase \in [Requests -> [Scopes -> {"idle", "incr", "expire", "counted", "failed"}]]
  /\ ticket \in [Requests -> [Scopes -> Nat]]
  /\ faults \in 0..MaxFaults

\* The requests of an offering's membership identity stamped with window w.
Of(o, s, id, w) == {r \in Requests : /\ who[r] # Nobody /\ who[r].offering = o
                                     /\ IdentityOf(who[r], s) = id /\ stamp[r] = w}

\* In no window does an offering serve a student, or a team, more requests than
\* its limit, however late an INCR runs and whatever broke: no counter is
\* dropped while a request that names it may still be counted.
Ceiling ==
  \A m \in Memberships, s \in Scopes, w \in Windows :
    Cardinality({r \in Of(m.offering, s, IdentityOf(m, s), w) : Served(r)})
      <= Limit(m.offering, s)

\* The requests that have been counted under the key of r before r.
Rivals(r, s) == {q \in Requests \ {r} : /\ who[q] # Nobody /\ Key(q, s) = Key(r, s)
                                        /\ ticket[q][s] \in 1..(ticket[r][s] - 1)}

\* A request is refused for a scope only if as many others as the limit allows
\* share its identity and its window, but for commands counted twice.
RefusedOnlyWhenFull ==
  \A r \in Requests, s \in Scopes :
    Refused(r, s) => Cardinality(Rivals(r, s)) + faults >= Limit(who[r].offering, s)

\* A counter without a time to live has a request about to set it, unless a
\* fault took that request away: counters do not pile up in Redis.
TtlPending(k) == \E r \in Requests, s \in Scopes :
                   who[r] # Nobody /\ Key(r, s) = k /\ phase[r][s] = "expire"
NoImmortalCounter ==
  \A k \in Keys : counter[k] > 0 /\ expiry[k] = Immortal => TtlPending(k) \/ faults > 0
==============================================================================
