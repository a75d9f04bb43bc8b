--------------------------- MODULE TeamBackendProofs ---------------------------
(***************************************************************************)
(* For any number of requests and teams, any resolution of the clocks,       *)
(* lifetime, timeout and skew that meet TimingAssumption, and whatever resets *)
(* and crashes do meanwhile: no student is refused for the age of a token     *)
(* (TokenInv); what a request suffers from a reset is its own team's          *)
(* (ResetInv); and plain paths arrive whole, from pools that fit (ForwardInv). *)
(***************************************************************************)
EXTENDS TeamBackend, FiniteSetTheorems, SequenceTheorems, TLAPS

\* What the proof needs of the variables' types.
Shape == /\ now \in Nat
         /\ stage \in [Requests -> {"new", "sent", "away", "verified", "query", "done"}]
         /\ DOMAIN message = Requests
         /\ sentAt \in [Requests -> Nat]
         /\ answer \in [Requests -> Nat]

\* A token in the backend's queue ends Ttl seconds after its request was sent; and
\* while the gateway waits, no more than the timeout has passed since.
TokenInv == /\ Shape
            /\ \A r \in Requests : stage[r] = "sent" => message[r].exp = Expiry(sentAt[r])
            /\ \A r \in Requests : Waits(r) => now <= sentAt[r] + Timeout
            /\ TokensOutliveWaits
------------------------------------------------------------------------------
\* Whole seconds, by what they bound.
LEMMA Floor ==
  ASSUME NEW x \in Nat, NEW d \in Nat \ {0}
  PROVE  /\ x \div d \in Nat
         /\ d * (x \div d) <= x
         /\ x < d * (x \div d) + d
BY SMT

\* The backend's clock is still in the token's last second, or before it, when
\* the gateway's timer fires.
LEMMA AliveUntilGivenUp ==
  ASSUME NEW s \in Nat, NEW u \in Nat, u <= s + Timeout
  PROVE  (u + Skew) \div TicksPerSecond < Expiry(s)
<1> DEFINE d == TicksPerSecond
           a == s \div d
           b == (u + Skew) \div d
<1>1. d \in Nat \ {0} /\ Ttl \in Nat /\ Timeout \in Nat /\ Skew \in Nat
      /\ Timeout + Skew <= d * (Ttl - 1)
  BY TimingAssumption
<1>2. a \in Nat /\ s < d * a + d
  BY <1>1, Floor
<1>3. u + Skew \in Nat
  BY <1>1
<1>4. b \in Nat /\ d * b <= u + Skew
  BY <1>1, <1>3, Floor
<1>5. SUFFICES ASSUME b >= a + Ttl PROVE FALSE
  BY <1>1, <1>2, <1>4 DEF Expiry
<1> HIDE DEF a, b, d
<1>6. d * b >= d * (a + Ttl)
  BY <1>1, <1>2, <1>4, <1>5, SMT
<1>7. d * (a + Ttl) = d * a + d * Ttl /\ d * (Ttl - 1) = d * Ttl - d
  BY <1>1, <1>2, SMT
<1>8. d * a \in Nat /\ d * Ttl \in Nat /\ d * b \in Nat
  BY <1>1, <1>2, <1>4, SMT
<1> QED
  BY <1>1, <1>2, <1>4, <1>6, <1>7, <1>8, SMT
------------------------------------------------------------------------------
\* A URL leads to the backend, to another host or nowhere.
LEMMA Destinations ==
  ASSUME NEW p
  PROVE  Target(p).to \in {"backend", "elsewhere", "nowhere"}
BY DEF Target, Resolve

LEMMA TokenInit == Init => TokenInv
BY DEF Init, TokenInv, Shape, Waits, TokensOutliveWaits

\* Steps that leave the requests and the clock alone.
LEMMA TokenIdle ==
  ASSUME TokenInv, UNCHANGED <<now, stage, message, sentAt, answer>>
  PROVE  TokenInv'
BY DEF TokenInv, Shape, Waits, TokensOutliveWaits, Expiry

\* Steps that move some requests on, away from the queue, and answer those that
\* wait by something other than 401.
LEMMA TokenMove ==
  ASSUME TokenInv, UNCHANGED <<now, message, sentAt>>,
         stage' \in [Requests -> {"new", "sent", "away", "verified", "query", "done"}],
         answer' \in [Requests -> Nat],
         \A r \in Requests : stage'[r] # stage[r] => stage[r] # "new" /\ stage'[r] # "sent",
         \A r \in Requests : answer'[r] = answer[r] \/ answer'[r] \notin {0, 401}
  PROVE  TokenInv'
BY DEF TokenInv, Shape, Waits, TokensOutliveWaits, Expiry

\* A response other than 401 is such a step.
LEMMA TokenRespond ==
  ASSUME TokenInv, UNCHANGED <<now, message, sentAt>>,
         NEW r \in Requests, NEW status \in Nat \ {0, 401},
         stage[r] # "new", Respond(r, status)
  PROVE  TokenInv'
<1>1. /\ stage' \in [Requests -> {"new", "sent", "away", "verified", "query", "done"}]
      /\ answer' \in [Requests -> Nat]
      /\ \A q \in Requests : stage'[q] # stage[q] => stage[q] # "new" /\ stage'[q] # "sent"
      /\ \A q \in Requests : answer'[q] = answer[q] \/ answer'[q] \notin {0, 401}
  BY DEF TokenInv, Shape, Respond
<1> QED
  BY <1>1, TokenMove

\* And so is the start of a query.
LEMMA TokenQuery ==
  ASSUME TokenInv, UNCHANGED <<now, message, sentAt>>, NEW r \in Requests,
         stage[r] = "verified", Query(r)
  PROVE  TokenInv'
<1>1. /\ stage' \in [Requests -> {"new", "sent", "away", "verified", "query", "done"}]
      /\ answer' = answer /\ answer \in [Requests -> Nat]
      /\ \A q \in Requests : stage'[q] # stage[q] => stage[q] # "new" /\ stage'[q] # "sent"
  BY DEF TokenInv, Shape, Query
<1> QED
  BY <1>1, TokenMove

LEMMA TokenStep == TokenInv /\ [Next]_vars => TokenInv'
<1> SUFFICES ASSUME TokenInv, [Next]_vars PROVE TokenInv'
  OBVIOUS
<1>1. CASE UNCHANGED vars
  BY <1>1, TokenIdle DEF vars, clockVars, requestVars
<1>2. ASSUME NEW r \in Requests, Send(r) PROVE TokenInv'
  <2>0. PICK t \in Teams, p \in PathsOf[r] :
          /\ message' = [message EXCEPT ![r] = [team |-> t, exp |-> Expiry(now), asked |-> p, url |-> Target(p)]]
          /\ stage' = [stage EXCEPT ![r] = StageFor[Target(p).to]]
          /\ answer' = [answer EXCEPT ![r] = IF Target(p).to = "nowhere" THEN NoUrl ELSE 0]
    BY <1>2 DEF Send
  <2>1. /\ now' = now /\ stage[r] = "new"
        /\ sentAt' = [sentAt EXCEPT ![r] = now]
    BY <1>2 DEF Send, clockVars
  <2>1a. StageFor[Target(p).to] \in {"sent", "away", "done"}
    BY Destinations DEF StageFor
  <2>2. Shape'
    BY <2>0, <2>1, <2>1a DEF TokenInv, Shape, NoUrl
  <2>3. message'[r].exp = Expiry(sentAt'[r])
    BY <2>0, <2>1 DEF TokenInv, Shape
  <2>4. \A q \in Requests \ {r} : /\ stage'[q] = stage[q] /\ message'[q] = message[q]
                                  /\ sentAt'[q] = sentAt[q] /\ answer'[q] = answer[q]
    BY <2>0, <2>1 DEF TokenInv, Shape
  <2>5. \A q \in Requests : stage'[q] = "sent" => message'[q].exp = Expiry(sentAt'[q])
    BY <2>3, <2>4 DEF TokenInv
  <2>6. \A q \in Requests : Waits(q)' => now' <= sentAt'[q] + Timeout
    BY <2>1, <2>4, TimingAssumption DEF TokenInv, Shape, Waits
  <2>7. TokensOutliveWaits'
    BY <2>0, <2>4 DEF TokenInv, Shape, TokensOutliveWaits, NoUrl
  <2> QED
    BY <2>1, <2>2, <2>5, <2>6, <2>7 DEF TokenInv, Expiry
<1>3. ASSUME NEW r \in Requests, GiveUp(r) PROVE TokenInv'
  <2>1. /\ UNCHANGED <<now, message, sentAt, stage>>
        /\ answer' = [answer EXCEPT ![r] = 504]
    BY <1>3 DEF GiveUp, clockVars
  <2>2. /\ stage \in [Requests -> {"new", "sent", "away", "verified", "query", "done"}]
        /\ answer' \in [Requests -> Nat]
        /\ \A q \in Requests : answer'[q] = answer[q] \/ answer'[q] \notin {0, 401}
    BY <2>1 DEF TokenInv, Shape
  <2> QED
    BY <2>1, <2>2, TokenMove
<1>4. ASSUME NEW r \in Requests, FetchFails(r) PROVE TokenInv'
  <2>1. stage[r] # "new" /\ Respond(r, 502) /\ UNCHANGED <<now, message, sentAt>>
    BY <1>4 DEF FetchFails, Respond, clockVars
  <2> QED
    BY <2>1, TokenRespond
<1>5. ASSUME NEW r \in Requests, Verify(r) PROVE TokenInv'
  <2>1. stage[r] = "sent" /\ UNCHANGED <<now, message, sentAt>>
    BY <1>5 DEF Verify, clockVars
  <2>2. CASE Expired(r) /\ Respond(r, 401)
    <3>1. ~Waits(r)
      <4> SUFFICES ASSUME Waits(r) PROVE FALSE
        OBVIOUS
      <4>1. now \in Nat /\ sentAt[r] \in Nat /\ now <= sentAt[r] + Timeout
        BY DEF TokenInv, Shape
      <4>2. (now + Skew) \div TicksPerSecond < Expiry(sentAt[r])
        BY <4>1, AliveUntilGivenUp
      <4>3. message[r].exp = Expiry(sentAt[r]) /\ (now + Skew) \div TicksPerSecond >= message[r].exp
        BY <2>1, <2>2 DEF TokenInv, Expired
      <4>4. (now + Skew) \div TicksPerSecond \in Int /\ Expiry(sentAt[r]) \in Int
        BY <4>1, TimingAssumption, SMT DEF Expiry
      <4> QED
        BY <4>2, <4>3, <4>4
    <3>2. answer' = answer /\ stage' = [stage EXCEPT ![r] = "done"]
      BY <2>2, <3>1 DEF Respond, TokenInv, Shape
    <3>3. /\ stage' \in [Requests -> {"new", "sent", "away", "verified", "query", "done"}]
          /\ answer' \in [Requests -> Nat]
          /\ \A q \in Requests : stage'[q] # stage[q] => stage[q] # "new" /\ stage'[q] # "sent"
      BY <2>1, <3>2 DEF TokenInv, Shape
    <3> QED
      BY <2>1, <3>2, <3>3, TokenMove
  <2>3. CASE stage' = [stage EXCEPT ![r] = "verified"] /\ UNCHANGED answer
    <3>1. /\ stage' \in [Requests -> {"new", "sent", "away", "verified", "query", "done"}]
          /\ answer' \in [Requests -> Nat]
          /\ \A q \in Requests : stage'[q] # stage[q] => stage[q] # "new" /\ stage'[q] # "sent"
      BY <2>1, <2>3 DEF TokenInv, Shape
    <3> QED
      BY <2>1, <2>3, <3>1, TokenMove
  <2> QED
    BY <1>5, <2>2, <2>3 DEF Verify
<1>6. ASSUME NEW r \in Requests, CheckOut(r) PROVE TokenInv'
  <2>1. stage[r] = "verified" /\ UNCHANGED <<now, message, sentAt>>
    BY <1>6 DEF CheckOut, clockVars
  <2>2. Query(r) \/ Respond(r, 500)
    BY <1>6 DEF CheckOut, NewClient
  <2> QED
    BY <2>1, <2>2, TokenQuery, TokenRespond
<1>7. ASSUME NEW r \in Requests, Finish(r) PROVE TokenInv'
  <2>1. stage[r] # "new" /\ Respond(r, 200) /\ UNCHANGED <<now, message, sentAt>>
    BY <1>7 DEF Finish, clockVars
  <2> QED
    BY <2>1, TokenRespond
<1>8. ASSUME NEW t \in Teams, PoolError(t) PROVE TokenInv'
  <2>1. /\ UNCHANGED <<now, message, sentAt>>
        /\ stage' \in [Requests -> {"new", "sent", "away", "verified", "query", "done"}]
        /\ answer' \in [Requests -> Nat]
        /\ \A q \in Requests : stage'[q] # stage[q] => stage[q] # "new" /\ stage'[q] # "sent"
        /\ \A q \in Requests : answer'[q] = answer[q] \/ answer'[q] \notin {0, 401}
    BY <1>8 DEF PoolError, clockVars, TokenInv, Shape
  <2> QED
    BY <2>1, TokenMove
<1>9. ASSUME NEW t \in Teams, Terminate(t) PROVE TokenInv'
  <2>1. /\ UNCHANGED <<now, message, sentAt>>
        /\ stage' \in [Requests -> {"new", "sent", "away", "verified", "query", "done"}]
        /\ answer' \in [Requests -> Nat]
        /\ \A q \in Requests : stage'[q] # stage[q] => stage[q] # "new" /\ stage'[q] # "sent"
        /\ \A q \in Requests : answer'[q] = answer[q] \/ answer'[q] \notin {0, 401}
    BY <1>9 DEF Terminate, Busy, TokenInv, Shape
  <2> QED
    BY <2>1, TokenMove
<1>10. CASE Tick
  <2>1. now' = now + 1 /\ UNCHANGED <<stage, message, sentAt, answer>>
        /\ \A r \in Requests : ~(Waits(r) /\ Due(r))
    BY <1>10 DEF Tick, requestVars
  <2>2. \A r \in Requests : Waits(r)' => now' <= sentAt'[r] + Timeout
    BY <2>1, TimingAssumption DEF TokenInv, Shape, Waits, Due
  <2> QED
    BY <2>1, <2>2 DEF TokenInv, Shape, TokensOutliveWaits, Expiry
<1>11. ASSUME NEW t \in Teams,
              IdleCloses(t) \/ Drop(t) \/ CreateFromTemplate(t) \/ Seed(t) \/ RebuildFails(t)
       PROVE TokenInv'
  BY <1>11, TokenIdle
     DEF IdleCloses, Drop, CreateFromTemplate, Seed, RebuildFails, clockVars, requestVars
<1>12. CASE Restart
  BY <1>12, TokenIdle DEF Restart, clockVars, requestVars
<1>13. ASSUME NEW r \in Requests, AnswerElsewhere(r) PROVE TokenInv'
  <2>1. stage[r] # "new" /\ Respond(r, Foreign) /\ UNCHANGED <<now, message, sentAt>>
    BY <1>13 DEF AnswerElsewhere, clockVars
  <2>2. Foreign \in Nat \ {0, 401}
    BY DEF Foreign
  <2> QED
    BY <2>1, <2>2, TokenRespond
<1> QED
  BY <1>1, <1>2, <1>3, <1>4, <1>5, <1>6, <1>7, <1>8, <1>9, <1>10, <1>11, <1>12, <1>13 DEF Next

\* The backend never refuses a request the gateway still waits for because its
\* context token has expired: the lifetime it is signed with covers the timeout.
THEOREM TokensSuffice == Spec => []TokensOutliveWaits
<1>1. TokenInv => TokensOutliveWaits
  BY DEF TokenInv
<1> QED
  BY <1>1, TokenInit, TokenStep, PTL DEF Spec
------------------------------------------------------------------------------
(* Resets and what requests meet *)

Flight == {"sent", "verified", "query"}

TeamShape == /\ stage \in [Requests -> Flight \cup {"new", "away", "done"}]
             /\ DOMAIN message = Requests
             /\ \A r \in Requests : stage[r] \in Flight => TeamOf(r) \in Teams
             /\ DOMAIN answer = Requests /\ DOMAIN saw = Requests /\ DOMAIN disturbed = Requests
             /\ DOMAIN db = Teams /\ DOMAIN reset = Teams
             /\ DOMAIN idle = Teams /\ DOMAIN broken = Teams

\* A team's database is seeded unless a reset is at work on it or failed; and a
\* request at the backend knows of its team's reset, and of clients that one broke.
Damaged(t) == reset[t] # "none" \/ broken[t] > 0
ResetInv == /\ TeamShape
            /\ \A t \in Teams : db[t] # "seeded" => reset[t] # "none"
            /\ \A r \in Requests : stage[r] \in Flight /\ Damaged(TeamOf(r)) => disturbed[r]
            /\ \A r \in Requests : stage[r] = "new" => answer[r] = 0 /\ saw[r] = "none"
            /\ UnseededOnlyInReset
            /\ FailuresAreResets

LEMMA ResetInit == Init => ResetInv
BY DEF Init, ResetInv, TeamShape, Flight, UnseededOnlyInReset, FailuresAreResets

\* Steps of one request at the backend that leave databases and resets alone and
\* break no client; what fails it or what it sees must be explained.
LEMMA ResetServe ==
  ASSUME ResetInv, UNCHANGED <<message, disturbed, db, reset>>,
         stage' \in [Requests -> Flight \cup {"new", "away", "done"}],
         DOMAIN answer' = Requests, DOMAIN saw' = Requests,
         DOMAIN idle' = Teams, DOMAIN broken' = Teams,
         \A r \in Requests : stage'[r] \in Flight => stage[r] \in Flight,
         \A r \in Requests : stage'[r] = "new" =>
           stage[r] = "new" /\ answer'[r] = answer[r] /\ saw'[r] = saw[r],
         \A t \in Teams : broken'[t] > 0 => broken[t] > 0,
         \A r \in Requests : answer'[r] = 500 => answer[r] = 500 \/ disturbed[r],
         \A r \in Requests : saw'[r] = "template" => saw[r] = "template" \/ disturbed[r]
  PROVE  ResetInv'
<1>1. TeamShape' /\ UnseededOnlyInReset' /\ FailuresAreResets'
  BY DEF ResetInv, TeamShape, TeamOf, UnseededOnlyInReset, FailuresAreResets
<1>2. \A r \in Requests : stage'[r] \in Flight /\ Damaged(TeamOf(r))' => disturbed'[r]
  BY DEF ResetInv, TeamShape, TeamOf, Damaged
<1> QED
  BY <1>1, <1>2 DEF ResetInv

\* Steps of a reset that leave the requests alone.
LEMMA ResetRebuild ==
  ASSUME ResetInv, UNCHANGED <<requestVars, poolVars>>, NEW t \in Teams, reset[t] # "none",
         NEW step, reset' = [reset EXCEPT ![t] = step], DOMAIN db' = Teams,
         \A u \in Teams : db'[u] # "seeded" => reset'[u] # "none"
  PROVE  ResetInv'
<1>1. TeamShape' /\ UnseededOnlyInReset' /\ FailuresAreResets'
  BY DEF ResetInv, TeamShape, TeamOf, UnseededOnlyInReset, FailuresAreResets, requestVars, poolVars
<1>2. \A r \in Requests : stage'[r] = "new" => answer'[r] = 0 /\ saw'[r] = "none"
  BY DEF ResetInv, requestVars
<1>3. \A u \in Teams : Damaged(u)' => Damaged(u)
  BY DEF ResetInv, TeamShape, Damaged, poolVars
<1>4. \A r \in Requests : stage'[r] \in Flight /\ Damaged(TeamOf(r))' => disturbed'[r]
  BY <1>3 DEF ResetInv, TeamShape, TeamOf, requestVars
<1> QED
  BY <1>1, <1>2, <1>4 DEF ResetInv

LEMMA ResetStep == ResetInv /\ [Next]_vars => ResetInv'
<1> SUFFICES ASSUME ResetInv, [Next]_vars PROVE ResetInv'
  OBVIOUS
<1>1. ASSUME UNCHANGED <<requestVars, poolVars, dbVars>> PROVE ResetInv'
  BY <1>1, ResetServe DEF ResetInv, TeamShape, requestVars, poolVars, dbVars
<1>2. ASSUME NEW r \in Requests, Send(r) PROVE ResetInv'
  <2>1. PICK t \in Teams, p \in PathsOf[r] :
          /\ message' = [message EXCEPT ![r] = [team |-> t, exp |-> Expiry(now), asked |-> p, url |-> Target(p)]]
          /\ disturbed' = [disturbed EXCEPT ![r] = Damaged(t)]
          /\ stage' = [stage EXCEPT ![r] = StageFor[Target(p).to]]
          /\ answer' = [answer EXCEPT ![r] = IF Target(p).to = "nowhere" THEN NoUrl ELSE 0]
    BY <1>2 DEF Send, Damaged
  <2>1a. StageFor[Target(p).to] \in {"sent", "away", "done"}
    BY Destinations DEF StageFor
  <2>2. stage[r] = "new" /\ UNCHANGED <<saw, poolVars, dbVars>>
    BY <1>2 DEF Send
  <2>2a. /\ DOMAIN answer' = Requests /\ answer'[r] # 500 /\ stage'[r] # "new"
         /\ \A q \in Requests \ {r} : answer'[q] = answer[q] /\ stage'[q] = stage[q]
    BY <2>1, <2>1a DEF ResetInv, TeamShape, NoUrl
  <2>3. TeamOf(r)' = t /\ \A q \in Requests \ {r} : TeamOf(q)' = TeamOf(q)
    BY <2>1 DEF ResetInv, TeamShape, TeamOf
  <2>4. TeamShape'
    BY <2>1, <2>1a, <2>2, <2>2a, <2>3 DEF ResetInv, TeamShape, Flight, poolVars, dbVars
  <2>5. \A q \in Requests : stage'[q] \in Flight /\ Damaged(TeamOf(q))' => disturbed'[q]
    <3>1. Damaged(t)' = Damaged(t) /\ \A u \in Teams : Damaged(u)' = Damaged(u)
      BY <2>2 DEF Damaged, poolVars, dbVars
    <3>2. Damaged(TeamOf(r))' => disturbed'[r]
      BY <2>1, <2>3, <3>1 DEF ResetInv, TeamShape
    <3>3. \A q \in Requests \ {r} :
            stage'[q] \in Flight /\ Damaged(TeamOf(q))' => disturbed'[q]
      <4> SUFFICES ASSUME NEW q \in Requests \ {r}, stage'[q] \in Flight, Damaged(TeamOf(q))'
                   PROVE  disturbed'[q]
        OBVIOUS
      <4>1. stage[q] \in Flight /\ disturbed'[q] = disturbed[q] /\ TeamOf(q) \in Teams
        BY <2>1, <2>2a DEF ResetInv, TeamShape
      <4>2. Damaged(TeamOf(q))
        BY <2>2, <2>3 DEF Damaged, poolVars, dbVars
      <4> QED
        BY <4>1, <4>2 DEF ResetInv
    <3> QED
      BY <3>2, <3>3
  <2>6. \A t1 \in Teams : db'[t1] # "seeded" => reset'[t1] # "none"
    BY <2>2 DEF ResetInv, dbVars
  <2> QED
    BY <2>1, <2>2, <2>2a, <2>4, <2>5, <2>6
       DEF ResetInv, TeamShape, UnseededOnlyInReset, FailuresAreResets
<1>3. ASSUME NEW r \in Requests, GiveUp(r) PROVE ResetInv'
  <2>1. stage[r] # "new" /\ answer' = [answer EXCEPT ![r] = 504]
        /\ UNCHANGED <<stage, message, saw, disturbed, poolVars, dbVars>>
    BY <1>3 DEF GiveUp, Waits
  <2> QED
    BY <2>1, ResetServe DEF ResetInv, TeamShape, poolVars, dbVars
<1>4. ASSUME NEW r \in Requests, NEW status, stage[r] # "new", Respond(r, status),
             status = 500 => disturbed[r],
             UNCHANGED <<message, saw, disturbed, dbVars>>,
             DOMAIN idle' = Teams, DOMAIN broken' = Teams,
             \A t \in Teams : broken'[t] > 0 => broken[t] > 0
      PROVE  ResetInv'
  <2>1. /\ stage' = [stage EXCEPT ![r] = "done"]
        /\ \/ answer' = [answer EXCEPT ![r] = status]
           \/ answer' = [answer EXCEPT ![r] = answer[r]]
    BY <1>4 DEF Respond
  <2>2. /\ stage' \in [Requests -> Flight \cup {"new", "away", "done"}]
        /\ \A q \in Requests : stage'[q] \in Flight => stage[q] \in Flight
        /\ \A q \in Requests : stage'[q] = "new" => stage[q] = "new" /\ q # r
    BY <2>1 DEF ResetInv, TeamShape, Flight
  <2>3. /\ DOMAIN answer' = Requests
        /\ \A q \in Requests : q # r => answer'[q] = answer[q]
        /\ answer'[r] = status \/ answer'[r] = answer[r]
    BY <2>1 DEF ResetInv, TeamShape
  <2>4. \A q \in Requests : answer'[q] = 500 => answer[q] = 500 \/ disturbed[q]
    BY <1>4, <2>3
  <2> QED
    BY <1>4, <2>2, <2>3, <2>4, ResetServe DEF ResetInv, TeamShape, dbVars
<1>5. ASSUME NEW r \in Requests, FetchFails(r) PROVE ResetInv'
  <2>1. stage[r] # "new" /\ Respond(r, 502) /\ UNCHANGED <<message, saw, disturbed, dbVars, poolVars>>
    BY <1>5 DEF FetchFails, Respond
  <2> QED
    BY <2>1, <1>4 DEF ResetInv, TeamShape, poolVars
<1>6. ASSUME NEW r \in Requests, NEW step \in Flight, stage[r] \in Flight,
             stage' = [stage EXCEPT ![r] = step],
             UNCHANGED <<message, answer, saw, disturbed, dbVars, broken>>, DOMAIN idle' = Teams
      PROVE  ResetInv'
  <2>1. /\ stage' \in [Requests -> Flight \cup {"new", "away", "done"}]
        /\ \A q \in Requests : stage'[q] \in Flight => stage[q] \in Flight
        /\ \A q \in Requests : stage'[q] = "new" => stage[q] = "new"
    BY <1>6 DEF ResetInv, TeamShape, Flight
  <2> QED
    BY <1>6, <2>1, ResetServe DEF ResetInv, TeamShape, dbVars
<1>7. ASSUME NEW r \in Requests, Verify(r) PROVE ResetInv'
  <2>1. stage[r] \in Flight /\ UNCHANGED <<message, saw, disturbed, dbVars, poolVars>>
    BY <1>7 DEF Verify, Flight
  <2>2. Respond(r, 401) \/ (stage' = [stage EXCEPT ![r] = "verified"] /\ UNCHANGED answer)
    BY <1>7 DEF Verify
  <2> QED
    BY <2>1, <2>2, <1>4, <1>6 DEF ResetInv, TeamShape, poolVars, Flight
<1>8. ASSUME NEW r \in Requests, CheckOut(r) PROVE ResetInv'
  <2>1. /\ stage[r] \in Flight /\ stage[r] # "new" /\ TeamOf(r) \in Teams
        /\ UNCHANGED <<message, saw, disturbed, dbVars>>
    BY <1>8 DEF CheckOut, ResetInv, TeamShape, Flight
  <2>2. DOMAIN idle' = Teams /\ DOMAIN broken' = Teams
    BY <1>8 DEF CheckOut, ResetInv, TeamShape
  <2>3. CASE Query(r) /\ UNCHANGED broken
    BY <2>1, <2>2, <2>3, <1>6 DEF Query, Flight
  <2>4. CASE /\ broken[TeamOf(r)] > 0 /\ Respond(r, 500)
             /\ broken' = [broken EXCEPT ![TeamOf(r)] = broken[TeamOf(r)] - 1]
    <3>1. disturbed[r]
      BY <2>1, <2>4 DEF ResetInv, Damaged
    <3>2. \A t \in Teams : broken'[t] > 0 => broken[t] > 0
      BY <2>1, <2>4 DEF ResetInv, TeamShape
    <3> QED
      BY <2>1, <2>2, <2>4, <3>1, <3>2, <1>4
  <2>5. CASE db[TeamOf(r)] = "absent" /\ Respond(r, 500) /\ UNCHANGED broken
    <3>1. disturbed[r]
      BY <2>1, <2>5 DEF ResetInv, Damaged
    <3> QED
      BY <2>1, <2>2, <2>5, <3>1, <1>4
  <2> QED
    BY <1>8, <2>3, <2>4, <2>5 DEF CheckOut, NewClient
<1>9. ASSUME NEW r \in Requests, Finish(r) PROVE ResetInv'
  <2>1. /\ stage[r] \in Flight /\ TeamOf(r) \in Teams
        /\ saw' = [saw EXCEPT ![r] = db[TeamOf(r)]]
        /\ stage' = [stage EXCEPT ![r] = "done"]
        /\ \/ answer' = [answer EXCEPT ![r] = 200]
           \/ answer' = [answer EXCEPT ![r] = answer[r]]
        /\ UNCHANGED <<message, disturbed, dbVars, broken>>
        /\ DOMAIN idle' = Teams
    BY <1>9 DEF Finish, Respond, ResetInv, TeamShape, Flight
  <2>2. db[TeamOf(r)] = "template" => disturbed[r]
    BY <2>1 DEF ResetInv, Damaged
  <2>3. /\ stage' \in [Requests -> Flight \cup {"new", "away", "done"}]
        /\ \A q \in Requests : stage'[q] \in Flight => stage[q] \in Flight
        /\ DOMAIN answer' = Requests /\ DOMAIN saw' = Requests
        /\ \A q \in Requests : stage'[q] = "new" =>
             stage[q] = "new" /\ answer'[q] = answer[q] /\ saw'[q] = saw[q]
        /\ \A q \in Requests : answer'[q] = 500 => answer[q] = 500 \/ disturbed[q]
    BY <2>1 DEF ResetInv, TeamShape, Flight
  <2>4. \A q \in Requests : saw'[q] = "template" => saw[q] = "template" \/ disturbed[q]
    BY <2>1, <2>2 DEF ResetInv, TeamShape
  <2> QED
    BY <2>1, <2>3, <2>4, ResetServe DEF ResetInv, TeamShape, dbVars
<1>10. ASSUME NEW t \in Teams, IdleCloses(t) PROVE ResetInv'
  BY <1>10, ResetServe DEF IdleCloses, ResetInv, TeamShape, requestVars, dbVars
<1>11. ASSUME NEW t \in Teams, PoolError(t) PROVE ResetInv'
  BY <1>11, ResetServe DEF PoolError, ResetInv, TeamShape, Flight, dbVars
<1>12. ASSUME NEW t \in Teams, Terminate(t) PROVE ResetInv'
  <2>1. /\ reset' = [reset EXCEPT ![t] = "drop"] /\ UNCHANGED <<message, saw, db>>
        /\ disturbed' = [r \in Requests |-> disturbed[r] \/ InFlight(r, t)]
        /\ idle' = [idle EXCEPT ![t] = 0]
        /\ broken' = [broken EXCEPT ![t] = broken[t] + idle[t]]
        /\ stage' = [r \in Requests |-> IF r \in Busy(t) THEN "done" ELSE stage[r]]
        /\ answer' = [r \in Requests |-> IF r \in Busy(t) /\ Waits(r) THEN 500 ELSE answer[r]]
    BY <1>12 DEF Terminate
  <2>2. \A r \in Requests : /\ disturbed[r] => disturbed'[r]
                            /\ r \in Busy(t) => disturbed'[r]
                            /\ stage'[r] \in Flight => stage[r] \in Flight
                            /\ stage'[r] \in Flight /\ TeamOf(r) = t => disturbed'[r]
    BY <2>1 DEF InFlight, Busy, Flight
  <2>3. TeamShape'
    BY <2>1, <2>2 DEF ResetInv, TeamShape, TeamOf
  <2>4. \A u \in Teams : db'[u] # "seeded" => reset'[u] # "none"
    BY <2>1 DEF ResetInv, TeamShape
  <2>5. \A u \in Teams \ {t} : Damaged(u)' => Damaged(u)
    BY <2>1 DEF ResetInv, TeamShape, Damaged
  <2>6. \A r \in Requests : stage'[r] \in Flight /\ Damaged(TeamOf(r))' => disturbed'[r]
    <3> SUFFICES ASSUME NEW r \in Requests, stage'[r] \in Flight, Damaged(TeamOf(r))'
                 PROVE  disturbed'[r]
      OBVIOUS
    <3>1. TeamOf(r)' = TeamOf(r) /\ stage[r] \in Flight /\ TeamOf(r) \in Teams
      BY <2>1, <2>2 DEF ResetInv, TeamShape, TeamOf
    <3> QED
      BY <2>2, <2>5, <3>1 DEF ResetInv
  <2>7. UnseededOnlyInReset' /\ FailuresAreResets'
    BY <2>1, <2>2 DEF ResetInv, UnseededOnlyInReset, FailuresAreResets
  <2>8. \A r \in Requests : stage'[r] = "new" => answer'[r] = 0 /\ saw'[r] = "none"
    BY <2>1 DEF ResetInv, Busy
  <2> QED
    BY <2>3, <2>4, <2>6, <2>7, <2>8 DEF ResetInv
<1>13. ASSUME NEW t \in Teams, Drop(t) PROVE ResetInv'
  <2>1. reset[t] # "none" /\ UNCHANGED <<requestVars, poolVars>>
    BY <1>13 DEF Drop
  <2>2. CASE db' = [db EXCEPT ![t] = "absent"] /\ reset' = [reset EXCEPT ![t] = "create"]
    <3>1. DOMAIN db' = Teams /\ \A u \in Teams : db'[u] # "seeded" => reset'[u] # "none"
      BY <2>2 DEF ResetInv, TeamShape
    <3> QED
      BY <2>1, <2>2, <3>1, ResetRebuild
  <2>3. CASE reset' = [reset EXCEPT ![t] = "failed"] /\ UNCHANGED db
    <3>1. DOMAIN db' = Teams /\ \A u \in Teams : db'[u] # "seeded" => reset'[u] # "none"
      BY <2>3 DEF ResetInv, TeamShape
    <3> QED
      BY <2>1, <2>3, <3>1, ResetRebuild
  <2> QED
    BY <1>13, <2>2, <2>3 DEF Drop
<1>14. ASSUME NEW t \in Teams, CreateFromTemplate(t) PROVE ResetInv'
  <2>1. DOMAIN db' = Teams /\ \A u \in Teams : db'[u] # "seeded" => reset'[u] # "none"
    BY <1>14 DEF CreateFromTemplate, ResetInv, TeamShape
  <2> QED
    BY <1>14, <2>1, ResetRebuild DEF CreateFromTemplate
<1>15. ASSUME NEW t \in Teams, Seed(t) PROVE ResetInv'
  <2>1. DOMAIN db' = Teams /\ \A u \in Teams : db'[u] # "seeded" => reset'[u] # "none"
    BY <1>15 DEF Seed, ResetInv, TeamShape
  <2> QED
    BY <1>15, <2>1, ResetRebuild DEF Seed
<1>16. ASSUME NEW t \in Teams, RebuildFails(t) PROVE ResetInv'
  <2>1. DOMAIN db' = Teams /\ \A u \in Teams : db'[u] # "seeded" => reset'[u] # "none"
    BY <1>16 DEF RebuildFails, ResetInv, TeamShape
  <2> QED
    BY <1>16, <2>1, ResetRebuild DEF RebuildFails
<1>17. CASE Restart
  BY <1>17, ResetServe DEF Restart, ResetInv, TeamShape, requestVars, dbVars
<1>18. CASE Tick
  BY <1>18, <1>1 DEF Tick
<1>20. ASSUME NEW r \in Requests, AnswerElsewhere(r) PROVE ResetInv'
  <2>1. /\ stage[r] # "new" /\ Respond(r, Foreign)
        /\ UNCHANGED <<message, saw, disturbed, dbVars, poolVars>>
    BY <1>20 DEF AnswerElsewhere
  <2>2. Foreign # 500
    BY DEF Foreign
  <2> QED
    BY <2>1, <2>2, <1>4 DEF ResetInv, TeamShape, poolVars
<1>19. CASE UNCHANGED vars
  BY <1>19, <1>1 DEF vars
<1> QED
  BY <1>2, <1>3, <1>5, <1>7, <1>8, <1>9, <1>10, <1>11, <1>12, <1>13, <1>14, <1>15, <1>16,
     <1>17, <1>18, <1>19, <1>20 DEF Next

\* A query meets an unseeded database only beside a reset of its team or after
\* one that failed, whichever requests share the pool and however often the
\* backend dies.
THEOREM UnseededIsResets == Spec => []UnseededOnlyInReset
<1>1. ResetInv => UnseededOnlyInReset
  BY DEF ResetInv
<1> QED
  BY <1>1, ResetInit, ResetStep, PTL DEF Spec

\* Only a reset of its own team makes the backend fail a request with 500.
THEOREM FailuresAreOwnResets == Spec => []FailuresAreResets
<1>1. ResetInv => FailuresAreResets
  BY DEF ResetInv
<1> QED
  BY <1>1, ResetInit, ResetStep, PTL DEF Spec
------------------------------------------------------------------------------
(* What is forwarded *)

\* No part of a set of numbers is larger than it.
LEMMA PartOfInterval ==
  ASSUME NEW a \in Int, NEW b \in Int, NEW S, S \subseteq a..b
  PROVE  IsFiniteSet(S) /\ Cardinality(S) \in Nat
<1>1. IsFiniteSet(a..b)
  BY FS_Interval
<1> QED
  BY <1>1, FS_Subset, FS_CardinalityType

\* Segments without dot segments among them are left as they are, and no dot
\* segment is left of any.
LEMMA NormalPlain ==
  ASSUME NEW S, NEW s \in Seq(S)
  PROVE  /\ \A i \in DOMAIN Normal(s) : Normal(s)[i] \notin Dots
         /\ (\A i \in DOMAIN s : s[i] \notin Dots) => Normal(s) = s
<1>1. \A i \in DOMAIN Normal(s) : Normal(s)[i] \notin Dots
  BY DEF Normal, Dots
<1>2. ASSUME \A i \in DOMAIN s : s[i] \notin Dots PROVE Normal(s) = s
  <2>1. DOMAIN s = 1..Len(s) /\ Len(s) \in Nat /\ s = [i \in DOMAIN s |-> s[i]]
    OBVIOUS
  <2>2. ASSUME NEW i \in DOMAIN s PROVE Stays(s, i)
    <3>1. ASSUME NEW j \in (i + 1)..Len(s)
          PROVE  Cardinality({k \in (i + 1)..j : s[k] = ".."})
                   <= Cardinality({k \in (i + 1)..j : s[k] \notin Dots})
      <4>1. i + 1 \in Int /\ j \in Int
        BY <2>1
      <4>2. {k \in (i + 1)..j : s[k] = ".."} = {}
        BY <1>2, <2>1 DEF Dots
      <4>3. Cardinality({k \in (i + 1)..j : s[k] = ".."}) = 0
        BY <4>2, FS_EmptySet
      <4>4. Cardinality({k \in (i + 1)..j : s[k] \notin Dots}) \in Nat
        BY <4>1, PartOfInterval
      <4> QED
        BY <4>3, <4>4
    <3> QED
      BY <1>2, <3>1 DEF Stays
  <2>3. {k \in DOMAIN s : Stays(s, k) \/ k = Len(s)} = DOMAIN s
    BY <2>2
  <2>4. Normal(s) = [i \in DOMAIN s |-> IF s[i] \in Dots THEN "/" ELSE s[i]]
    BY <2>3 DEF Normal
  <2>5. [i \in DOMAIN s |-> IF s[i] \in Dots THEN "/" ELSE s[i]] = [i \in DOMAIN s |-> s[i]]
    BY <1>2
  <2> QED
    BY <2>1, <2>4, <2>5
<1> QED
  BY <1>1, <1>2

\* Cutting as many elements as a sequence has, and only that, leaves nothing.
LEMMA CutAll ==
  ASSUME NEW S, NEW s \in Seq(S), NEW d \in Nat, d <= Len(s)
  PROVE  SubSeq(s, d + 1, Len(s)) = <<>> <=> d = Len(s)
<1>1. d + 1 \in Int /\ Len(s) \in Int /\ Len(s) \in Nat
  OBVIOUS
<1>2. \A i \in (d + 1)..Len(s) : s[i] \in S
  BY <1>1
<1>3. /\ SubSeq(s, d + 1, Len(s)) \in Seq(S)
      /\ Len(SubSeq(s, d + 1, Len(s))) = IF d + 1 <= Len(s) THEN Len(s) - (d + 1) + 1 ELSE 0
  BY <1>1, <1>2, SubSeqProperties
<1>4. SubSeq(s, d + 1, Len(s)) = <<>> <=> Len(SubSeq(s, d + 1, Len(s))) = 0
  BY <1>3, EmptySeq
<1> QED
  BY <1>1, <1>3, <1>4

\* A set of positions of a sequence has as many members as the sequence only if it
\* holds them all.
LEMMA AllPositions ==
  ASSUME NEW n \in Nat, NEW D \in SUBSET (1..n)
  PROVE  Cardinality(D) \in Nat /\ Cardinality(D) <= n /\ (Cardinality(D) = n <=> D = 1..n)
<1>1. 1 \in Int /\ n \in Int
  OBVIOUS
<1>2. Cardinality(1..n) = (IF 1 > n THEN 0 ELSE n - 1 + 1) /\ IsFiniteSet(1..n)
  BY <1>1, FS_Interval
<1>3. Cardinality(1..n) = n
  BY <1>2
<1>4. IsFiniteSet(D) /\ Cardinality(D) <= Cardinality(1..n) /\ (Cardinality(D) = Cardinality(1..n) => D = 1..n)
  BY <1>2, FS_Subset
<1> QED
  BY <1>3, <1>4, FS_CardinalityType

\* A code as requests have it.
WellEscaped(code) ==
  /\ code \in Seq({"c", "%", "h"})
  /\ \A i \in DOMAIN code : /\ code[i] = "h" <=> \E j \in {i - 1, i - 2} \cap DOMAIN code : code[j] = "%"
                            /\ code[i] = "%" => i + 2 \in DOMAIN code

\* Nothing is left of a code without escapes, and something of one with any.
LEMMA CodeCut ==
  ASSUME NEW code, WellEscaped(code)
  PROVE  SubSeq(code, DecodedLength(code) + 1, Len(code)) = <<>>
           <=> \A i \in DOMAIN code : code[i] # "%"
<1> DEFINE D == {i \in DOMAIN code : code[i] # "h"}
<1>1. code \in Seq({"c", "%", "h"}) /\ Len(code) \in Nat /\ DOMAIN code = 1..Len(code)
  BY DEF WellEscaped
<1>2. D \in SUBSET (1..Len(code))
  BY <1>1
<1>3. DecodedLength(code) = Cardinality(D)
  BY DEF DecodedLength
<1> HIDE DEF D
<1>4. /\ DecodedLength(code) \in Nat /\ DecodedLength(code) <= Len(code)
      /\ DecodedLength(code) = Len(code) <=> D = 1..Len(code)
  BY <1>1, <1>2, <1>3, AllPositions
<1>5. SubSeq(code, DecodedLength(code) + 1, Len(code)) = <<>> <=> D = 1..Len(code)
  BY <1>1, <1>4, CutAll
<1>6. ASSUME \A i \in DOMAIN code : code[i] # "%" PROVE D = 1..Len(code)
  <2>1. \A i \in DOMAIN code : code[i] # "h"
    BY <1>6 DEF WellEscaped
  <2> QED
    BY <1>1, <2>1 DEF D
<1>7. ASSUME NEW i \in DOMAIN code, code[i] = "%" PROVE D # 1..Len(code)
  <2>1. i + 2 \in DOMAIN code
    BY <1>7 DEF WellEscaped
  <2>2. i \in {(i + 2) - 1, (i + 2) - 2} \cap DOMAIN code
    BY <1>1, <1>7
  <2>3. code[i + 2] = "h"
    BY <1>7, <2>1, <2>2 DEF WellEscaped
  <2> QED
    BY <1>1, <2>1, <2>3 DEF D
<1> QED
  BY <1>5, <1>6, <1>7

\* A URL at the backend, by its path.
AtBackend(path) == [to |-> "backend", path |-> path]

LEMMA SameUrl ==
  ASSUME NEW a, NEW b
  PROVE  AtBackend(a) = AtBackend(b) <=> a = b
<1>1. AtBackend(a).path = a /\ AtBackend(b).path = b
  BY DEF AtBackend
<1> QED
  BY <1>1

\* What a path looks like with a segment before it, or when nothing is left of it.
LEMMA Segments ==
  ASSUME NEW S, NEW s \in Seq(S), NEW x \in S
  PROVE  /\ <<x>> \in Seq(S) /\ Len(<<x>>) = 1 /\ <<x>>[1] = x /\ <<x>> # <<>>
         /\ <<x>> \o s \in Seq(S) /\ Len(<<x>> \o s) = Len(s) + 1 /\ (<<x>> \o s)[1] = x
         /\ \A i \in 2..(Len(s) + 1) : (<<x>> \o s)[i] = s[i - 1]
<1>1. <<x>> \in Seq(S) /\ Len(<<x>>) = 1 /\ <<x>>[1] = x
  OBVIOUS
<1>2. <<x>> # <<>>
  OBVIOUS
<1>3. /\ <<x>> \o s \in Seq(S) /\ Len(<<x>> \o s) = Len(<<x>>) + Len(s)
      /\ \A i \in 1..(Len(<<x>>) + Len(s)) :
           (<<x>> \o s)[i] = IF i <= Len(<<x>>) THEN <<x>>[i] ELSE s[i - Len(<<x>>)]
  BY <1>1, ConcatProperties
<1>4. Len(s) \in Nat
  OBVIOUS
<1>5. (<<x>> \o s)[1] = x
  BY <1>1, <1>3, <1>4
<1>6. \A i \in 2..(Len(s) + 1) : (<<x>> \o s)[i] = s[i - 1]
  BY <1>1, <1>3, <1>4
<1>7. Len(<<x>> \o s) = Len(s) + 1
  BY <1>1, <1>3, <1>4
<1> QED
  BY <1>1, <1>2, <1>3, <1>5, <1>6, <1>7, Zenon

\* A path whose code is gone is asked for as it was written if and only if the URL
\* standard leaves it alone.
LEMMA RootedArrival ==
  ASSUME NEW S, NEW whole \in Seq(S), whole # <<>>
  PROVE  Resolve([rooted |-> TRUE, segments |-> whole]) = AtBackend(whole)
           <=> /\ \A i \in DOMAIN whole : whole[i] \notin Dots
               /\ Len(whole) > 1 => whole[1] # "/"
<1> DEFINE f == [rooted |-> TRUE, segments |-> whole]
<1>1. CASE Len(whole) > 1 /\ whole[1] = "/"
  <2>1. Resolve(f).to # "backend"
    BY <1>1 DEF Resolve
  <2>2. AtBackend(whole).to = "backend"
    BY DEF AtBackend
  <2>3. Resolve(f) # AtBackend(whole)
    BY <2>1, <2>2
  <2> QED
    BY <1>1, <2>3
<1>2. CASE ~(Len(whole) > 1 /\ whole[1] = "/")
  <2>1. Resolve(f) = AtBackend(Normal(whole))
    BY <1>2 DEF Resolve, AtBackend
  <2>2. Normal(whole) = whole <=> \A i \in DOMAIN whole : whole[i] \notin Dots
    BY NormalPlain
  <2>3. Resolve(f) = AtBackend(whole) <=> Normal(whole) = whole
    BY <2>1, SameUrl
  <2> QED
    BY <1>2, <2>2, <2>3
<1> QED
  BY <1>1, <1>2

\* What replaces the last segment of a base path does not arrive as what was written.
LEMMA RelativeArrival ==
  ASSUME NEW S, "/" \in S, "left" \in S,
         NEW base \in Seq(S), \A i \in DOMAIN base : base[i] \notin Dots,
         NEW rest \in Seq(S)
  PROVE  Normal(base \o (<<"left">> \o rest)) # IF rest = <<>> THEN <<"/">> ELSE rest
<1> DEFINE tail == <<"left">> \o rest
           z == base \o tail
           whole == IF rest = <<>> THEN <<"/">> ELSE rest
<1>1. /\ tail \in Seq(S) /\ Len(tail) = Len(rest) + 1 /\ tail[1] = "left"
      /\ \A i \in 2..Len(tail) : tail[i] = rest[i - 1]
  BY Segments
<1>2. /\ z \in Seq(S) /\ Len(z) = Len(base) + Len(tail)
      /\ \A i \in 1..Len(base) : z[i] = base[i]
      /\ \A i \in (Len(base) + 1)..Len(z) : z[i] = tail[i - Len(base)]
  BY <1>1
<1>3. whole \in Seq(S) /\ (rest = <<>> => whole = <<"/">>) /\ (rest # <<>> => whole = rest)
  BY Segments
<1>4. Len(base) \in Nat /\ Len(rest) \in Nat /\ Len(tail) \in Nat
  BY <1>1
<1> HIDE DEF tail, z, whole
<1>5. SUFFICES ASSUME Normal(z) = whole PROVE FALSE
  BY DEF z, tail, whole
<1>6. \A i \in DOMAIN whole : whole[i] \notin Dots
  BY <1>2, <1>5, NormalPlain
<1>7. \A i \in 1..Len(rest) : rest[i] \notin Dots
  <2>1. CASE rest = <<>>
    BY <2>1
  <2>2. CASE rest # <<>>
    BY <1>3, <1>6, <2>2
  <2> QED
    BY <2>1, <2>2
<1>8. \A i \in 1..Len(tail) : tail[i] \notin Dots
  <2>1. SUFFICES ASSUME NEW i \in 1..Len(tail) PROVE tail[i] \notin Dots
    OBVIOUS
  <2>2. CASE i = 1
    BY <1>1, <2>2 DEF Dots
  <2>3. CASE i # 1
    <3>1. i \in 2..Len(tail) /\ i - 1 \in 1..Len(rest)
      BY <1>1, <1>4, <2>3
    <3> QED
      BY <1>1, <1>7, <3>1
  <2> QED
    BY <2>2, <2>3
<1>9. \A i \in 1..Len(z) : z[i] \notin Dots
  <2>1. SUFFICES ASSUME NEW i \in 1..Len(z) PROVE z[i] \notin Dots
    OBVIOUS
  <2>2. CASE i \in 1..Len(base)
    BY <1>2, <2>2
  <2>3. CASE i \in (Len(base) + 1)..Len(z)
    BY <1>2, <1>4, <1>8, <2>3
  <2> QED
    BY <1>2, <1>4, <2>2, <2>3
<1>10. z = whole
  BY <1>2, <1>5, <1>9, NormalPlain
<1>11. rest = <<>> /\ Len(whole) = 1
  <2>1. CASE rest # <<>>
    BY <1>1, <1>2, <1>3, <1>4, <1>10, <2>1
  <2>2. CASE rest = <<>>
    BY <1>3, <2>2, Segments
  <2> QED
    BY <2>1, <2>2
<1>12. Len(base) = 0 /\ z[1] = tail[1]
  BY <1>1, <1>2, <1>4, <1>10, <1>11
<1> QED
  BY <1>1, <1>3, <1>10, <1>11, <1>12

\* A path arrives as it was written if and only if it is plain.
LEMMA Arrival ==
  ASSUME NEW r \in Requests, NEW p \in PathsOf[r]
  PROVE  Target(p) = AtBackend(IF p.rest = <<>> THEN <<"/">> ELSE p.rest) <=> Plain(p)
<1>1. p \in Written
  BY BackendAssumption
<1>2. p.rest \in Seq(Words) /\ p.code \in Seq({"c", "%", "h"})
  BY <1>1 DEF Written
<1>2a. "/" \in Words /\ "left" \in Words
  BY BackendAssumption
<1>3. WellEscaped(p.code)
  BY <1>2, BackendAssumption DEF WellEscaped
<1> DEFINE left == SubSeq(p.code, DecodedLength(p.code) + 1, Len(p.code))
           whole == IF p.rest = <<>> THEN <<"/">> ELSE p.rest
<1>4. left = <<>> <=> \A i \in DOMAIN p.code : p.code[i] # "%"
  BY <1>3, CodeCut
<1>5. Target(p) = Resolve(Forwarded(left, p.rest))
  BY DEF Target, StripOfferingPrefix
<1> HIDE DEF left
<1>6. CASE left = <<>>
  <2>1. Target(p) = Resolve([rooted |-> TRUE, segments |-> whole])
    BY <1>5, <1>6 DEF Forwarded
  <2>2. whole \in Seq(Words) /\ whole # <<>>
    BY <1>2, <1>2a, Segments
  <2>3. CASE p.rest = <<>>
    <3>1. /\ \A i \in DOMAIN p.rest : p.rest[i] \notin Dots
          /\ ~(Len(p.rest) > 1)
      BY <2>3
    <3>2. Plain(p)
      BY <1>4, <1>6, <3>1 DEF Plain
    <3>3. whole = <<"/">>
      BY <2>3
    <3> HIDE DEF whole
    <3>3a. Len(whole) = 1 /\ whole[1] = "/"
      BY <1>2, <1>2a, <3>3, Segments
    <3>3b. ~(Len(whole) > 1)
      BY <3>3a
    <3>3c. \A i \in DOMAIN whole : whole[i] \notin Dots
      BY <2>2, <3>3a DEF Dots
    <3>4. Target(p) = AtBackend(whole) <=> Plain(p)
      BY <2>1, <2>2, <3>2, <3>3b, <3>3c, RootedArrival
    <3> QED
      BY <3>4 DEF whole
  <2>4. CASE p.rest # <<>>
    <3>1. whole = p.rest
      BY <2>4
    <3>2. Plain(p) <=> /\ \A i \in DOMAIN whole : whole[i] \notin Dots
                       /\ Len(whole) > 1 => whole[1] # "/"
      BY <1>4, <1>6, <3>1 DEF Plain
    <3> HIDE DEF whole
    <3>3. Target(p) = AtBackend(whole) <=> Plain(p)
      BY <2>1, <2>2, <3>2, RootedArrival
    <3> QED
      BY <3>3 DEF whole
  <2> QED
    BY <2>3, <2>4
<1>7. CASE left # <<>>
  <2> DEFINE base == SubSeq(BasePath, 1, Len(BasePath) - 1)
  <2>1. /\ BasePath \in Seq(Words) /\ Len(BasePath) \in Nat \ {0}
        /\ \A i \in DOMAIN BasePath : BasePath[i] \notin Dots
    BY BackendAssumption
  <2>2. \A i \in 1..(Len(BasePath) - 1) : BasePath[i] \in Words
    BY <2>1
  <2>3. 1 \in Int /\ Len(BasePath) - 1 \in Int
    BY <2>1
  <2>4. /\ base \in Seq(Words)
        /\ Len(base) = IF 1 <= Len(BasePath) - 1 THEN Len(BasePath) - 1 - 1 + 1 ELSE 0
        /\ \A i \in 1..(Len(BasePath) - 1 - 1 + 1) : base[i] = BasePath[1 + i - 1]
    BY <2>1, <2>2, <2>3, SubSeqProperties
  <2> HIDE DEF base
  <2>5. \A i \in DOMAIN base : base[i] \notin Dots
    BY <2>1, <2>4
  <2>6. Target(p) = AtBackend(Normal(base \o (<<"left">> \o p.rest)))
    BY <1>5, <1>7 DEF Resolve, Forwarded, base, AtBackend
  <2>7. Normal(base \o (<<"left">> \o p.rest)) # whole
    BY <1>2, <1>2a, <2>4, <2>5, RelativeArrival
  <2>8. ~Plain(p)
    BY <1>4, <1>7 DEF Plain
  <2> QED
    BY <2>6, <2>7, <2>8, SameUrl
<1> QED
  BY <1>6, <1>7

\* TypeOK without the pools; and every message has the URL of a path asked for.
Types ==
  /\ now \in 0..MaxTime /\ resets \in 0..MaxResets /\ up \in BOOLEAN
  /\ stage \in [Requests -> {"new", "sent", "away", "verified", "query", "done"}]
  /\ message \in [Requests -> Messages \cup {NoMessage}]
  /\ sentAt \in [Requests -> 0..MaxTime]
  /\ answer \in [Requests -> {0, 200, 401, 500, 502, 504, NoUrl, Foreign}]
  /\ db \in [Teams -> {"absent", "template", "seeded"}]
  /\ reset \in [Teams -> {"none", "drop", "create", "seed", "failed"}]
  /\ saw \in [Requests -> {"none", "template", "seeded"}]
  /\ disturbed \in [Requests -> BOOLEAN]
Sound == \A r \in Requests : stage[r] # "new" =>
           /\ message[r] \in Messages
           /\ \E p \in PathsOf[r] : message[r].asked = p /\ message[r].url = Target(p)

\* No pool has more clients than it may, and none of a database that is absent.
PoolTypes == idle \in [Teams -> Nat] /\ broken \in [Teams -> Nat]
PoolFits(t) == /\ IsFiniteSet(Busy(t)) /\ Clients(t) <= MaxPool
               /\ idle[t] > 0 \/ Busy(t) # {} => db[t] # "absent"

ForwardInv == Types /\ Sound /\ PoolTypes /\ \A t \in Teams : PoolFits(t)

\* A request that is forwarded has a team.
LEMMA TeamTyped ==
  ASSUME Sound, NEW r \in Requests, stage[r] # "new"
  PROVE  TeamOf(r) \in Teams
BY DEF Sound, Messages, TeamOf

\* Who is busy in a pool, when one request moves.
LEMMA BusyMoves ==
  ASSUME NEW r \in Requests, NEW t \in Teams, \A q \in Requests \ {r} : stage'[q] = stage[q],
         UNCHANGED message
  PROVE  Busy(t)' = IF stage'[r] = "query" /\ TeamOf(r) = t THEN Busy(t) \cup {r} ELSE Busy(t) \ {r}
BY DEF Busy, TeamOf

\* How many they are then.
LEMMA BusyCounts ==
  ASSUME NEW S, IsFiniteSet(S), NEW r
  PROVE  /\ IsFiniteSet(S \cup {r}) /\ IsFiniteSet(S \ {r})
         /\ Cardinality(S) \in Nat
         /\ Cardinality(S \cup {r}) = IF r \in S THEN Cardinality(S) ELSE Cardinality(S) + 1
         /\ Cardinality(S \ {r}) = IF r \in S THEN Cardinality(S) - 1 ELSE Cardinality(S)
BY FS_AddElement, FS_RemoveElement, FS_CardinalityType

\* A pool nobody enters, which gets no client, still fits.
LEMMA PoolShrinks ==
  ASSUME NEW t \in Teams, PoolTypes, PoolTypes', PoolFits(t),
         Busy(t)' \subseteq Busy(t), idle'[t] <= idle[t], idle'[t] + broken'[t] <= idle[t] + broken[t],
         db[t] # "absent" /\ (idle'[t] > 0 \/ Busy(t)' # {}) => db'[t] # "absent"
  PROVE  PoolFits(t)'
<1>1. /\ IsFiniteSet(Busy(t)') /\ Cardinality(Busy(t)') <= Cardinality(Busy(t))
      /\ Cardinality(Busy(t)) \in Nat /\ Cardinality(Busy(t)') \in Nat
  BY FS_Subset, FS_CardinalityType DEF PoolFits
<1>2. idle[t] + broken[t] + Cardinality(Busy(t)) <= MaxPool
  BY DEF PoolFits, Clients
<1>3. /\ idle[t] \in Nat /\ broken[t] \in Nat /\ idle'[t] \in Nat /\ broken'[t] \in Nat
  BY DEF PoolTypes
<1>4. idle'[t] + broken'[t] + Cardinality(Busy(t)') <= MaxPool
  BY <1>1, <1>2, <1>3, BackendAssumption
<1>5. idle'[t] > 0 \/ Busy(t)' # {} => db'[t] # "absent"
  <2>1. idle'[t] > 0 => idle[t] > 0
    BY <1>3
  <2> QED
    BY <2>1 DEF PoolFits
<1>6. Clients(t)' <= MaxPool
  BY <1>4 DEF Clients
<1> QED
  BY <1>1, <1>5, <1>6 DEF PoolFits

\* One request leaves the backend or moves in it, but into no query.
LEMMA PoolLeaves ==
  ASSUME ForwardInv, NEW r \in Requests, \A q \in Requests \ {r} : stage'[q] = stage[q],
         stage'[r] # "query", UNCHANGED <<message, idle, broken, db>>
  PROVE  PoolTypes' /\ \A t \in Teams : PoolFits(t)'
<1>1. PoolTypes'
  BY DEF ForwardInv, PoolTypes
<1>2. ASSUME NEW t \in Teams PROVE PoolFits(t)'
  <2>1. Busy(t)' \subseteq Busy(t)
    BY BusyMoves
  <2>2. idle'[t] <= idle[t] /\ idle'[t] + broken'[t] <= idle[t] + broken[t]
    BY DEF ForwardInv, PoolTypes
  <2> QED
    BY <1>1, <2>1, <2>2, PoolShrinks DEF ForwardInv
<1> QED
  BY <1>1, <1>2

LEMMA ForwardInit == Init => ForwardInv
<1> SUFFICES ASSUME Init PROVE ForwardInv
  OBVIOUS
<1>1. Types /\ Sound /\ PoolTypes
  BY TimingAssumption, BackendAssumption DEF Init, Types, Sound, PoolTypes
<1>2. ASSUME NEW t \in Teams PROVE PoolFits(t)
  <2>1. Busy(t) = {} /\ idle[t] = 0 /\ broken[t] = 0
    BY DEF Init, Busy
  <2>2. IsFiniteSet(Busy(t)) /\ Cardinality(Busy(t)) = 0
    BY <2>1, FS_EmptySet
  <2> QED
    BY <2>1, <2>2, BackendAssumption DEF PoolFits, Clients
<1> QED
  BY <1>1, <1>2 DEF ForwardInv

\* An answer is one of the statuses there are, and ends its request.
LEMMA RespondTypes ==
  ASSUME Types, NEW r \in Requests, stage[r] # "new", NEW status \in {200, 401, 500, 502, Foreign}, Respond(r, status)
  PROVE  /\ stage' \in [Requests -> {"new", "sent", "away", "verified", "query", "done"}]
         /\ answer' \in [Requests -> {0, 200, 401, 500, 502, 504, NoUrl, Foreign}]
         /\ stage'[r] = "done" /\ \A q \in Requests \ {r} : stage'[q] = stage[q]
         /\ \A q \in Requests : stage'[q] # "new" => stage[q] # "new"
BY DEF Types, Respond

\* A request is sent with its team's token.
LEMMA SendFits ==
  ASSUME ForwardInv, NEW r \in Requests, Send(r)
  PROVE  ForwardInv'
<1>1. Types /\ Sound /\ PoolTypes /\ \A t \in Teams : PoolFits(t)
  BY DEF ForwardInv
<1>2. PICK t \in Teams, p \in PathsOf[r] :
        /\ message' = [message EXCEPT ![r] = [team |-> t, exp |-> Expiry(now), asked |-> p, url |-> Target(p)]]
        /\ disturbed' = [disturbed EXCEPT ![r] = reset[t] # "none" \/ broken[t] > 0]
        /\ stage' = [stage EXCEPT ![r] = StageFor[Target(p).to]]
        /\ answer' = [answer EXCEPT ![r] = IF Target(p).to = "nowhere" THEN NoUrl ELSE 0]
  BY DEF Send
<1>3. /\ stage[r] = "new" /\ sentAt' = [sentAt EXCEPT ![r] = now]
      /\ UNCHANGED <<now, resets, saw, up, idle, broken, db, reset>>
  BY DEF Send, clockVars, poolVars, dbVars
<1>3a. StageFor[Target(p).to] \in {"sent", "away", "done"}
  BY Destinations DEF StageFor
<1> DEFINE m == [team |-> t, exp |-> Expiry(now), asked |-> p, url |-> Target(p)]
<1>4. m \in Messages
  <2>1. now \div TicksPerSecond \in Nat
    BY <1>1, Floor, TimingAssumption DEF Types
  <2>2. Expiry(now) \in Nat
    BY <2>1, TimingAssumption DEF Expiry
  <2>3. p \in Asked
    BY DEF Asked
  <2> QED
    BY <2>2, <2>3 DEF Messages
<1>5. m.asked = p /\ m.url = Target(p)
  OBVIOUS
<1> HIDE DEF m
<1>6. /\ message' \in [Requests -> Messages \cup {NoMessage}]
      /\ message'[r] = m /\ \A q \in Requests \ {r} : message'[q] = message[q]
  BY <1>1, <1>2, <1>4 DEF Types, m
<1>7. Types'
  BY <1>1, <1>2, <1>3, <1>3a, <1>6 DEF Types
<1>8. Sound'
  <2>1. \A q \in Requests \ {r} : stage'[q] = stage[q]
    BY <1>1, <1>2 DEF Types
  <2> QED
    BY <1>1, <1>4, <1>5, <1>6, <2>1 DEF Sound
<1>9. PoolTypes' /\ \A u \in Teams : PoolFits(u)'
  <2>1. PoolTypes'
    BY <1>1, <1>3 DEF PoolTypes
  <2>2. ASSUME NEW u \in Teams PROVE PoolFits(u)'
    <3>1. Busy(u)' \subseteq Busy(u)
      BY <1>1, <1>2, <1>3a, <1>6 DEF Types, Busy, TeamOf
    <3>2. idle'[u] <= idle[u] /\ idle'[u] + broken'[u] <= idle[u] + broken[u]
      BY <1>1, <1>3 DEF PoolTypes
    <3> QED
      BY <1>1, <1>3, <2>1, <3>1, <3>2, PoolShrinks
  <2> QED
    BY <2>1, <2>2
<1> QED
  BY <1>7, <1>8, <1>9 DEF ForwardInv

\* Steps that leave the pools alone.
LEMMA QuietFits ==
  ASSUME ForwardInv, NEW r \in Requests, GiveUp(r) \/ FetchFails(r) \/ Verify(r) \/ AnswerElsewhere(r)
  PROVE  ForwardInv'
<1>1. Types /\ Sound /\ PoolTypes /\ \A t \in Teams : PoolFits(t)
  BY DEF ForwardInv
<1>2. UNCHANGED <<now, resets, message, sentAt, saw, disturbed, up, idle, broken, db, reset>>
  BY DEF GiveUp, FetchFails, Verify, AnswerElsewhere, clockVars, poolVars, dbVars
<1>3. CASE GiveUp(r)
  <2>1. stage' = stage /\ answer' \in [Requests -> {0, 200, 401, 500, 502, 504, NoUrl, Foreign}]
    BY <1>1, <1>3 DEF GiveUp, Types
  <2>2. Types' /\ Sound' /\ PoolTypes'
    BY <1>1, <1>2, <2>1 DEF Types, Sound, PoolTypes
  <2>3. \A t \in Teams : PoolFits(t)'
    BY <1>1, <1>2, <2>1 DEF PoolFits, Busy, Clients, TeamOf
  <2> QED
    BY <2>2, <2>3 DEF ForwardInv
<1>4. ASSUME stage' \in [Requests -> {"new", "sent", "away", "verified", "query", "done"}],
             answer' \in [Requests -> {0, 200, 401, 500, 502, 504, NoUrl, Foreign}],
             stage'[r] # "query", \A q \in Requests \ {r} : stage'[q] = stage[q],
             \A q \in Requests : stage'[q] # "new" => stage[q] # "new"
      PROVE  ForwardInv'
  <2>1. Types' /\ Sound'
    BY <1>1, <1>2, <1>4 DEF Types, Sound
  <2>2. PoolTypes' /\ \A t \in Teams : PoolFits(t)'
    BY <1>2, <1>4, PoolLeaves
  <2> QED
    BY <2>1, <2>2 DEF ForwardInv
<1>5. CASE FetchFails(r)
  <2>1. Respond(r, 502) /\ stage[r] # "new"
    BY <1>5 DEF FetchFails, Respond
  <2> QED
    BY <1>1, <1>4, <2>1, RespondTypes
<1>6. CASE Verify(r)
  <2>1. CASE Respond(r, 401)
    BY <1>1, <1>4, <1>6, <2>1, RespondTypes DEF Verify
  <2>2. CASE stage' = [stage EXCEPT ![r] = "verified"] /\ UNCHANGED answer
    BY <1>1, <1>4, <1>6, <2>2 DEF Verify, Types
  <2> QED
    BY <1>6, <2>1, <2>2 DEF Verify
<1>7. CASE AnswerElsewhere(r)
  <2>1. Respond(r, Foreign) /\ stage[r] # "new"
    BY <1>7 DEF AnswerElsewhere
  <2> QED
    BY <1>1, <1>4, <2>1, RespondTypes
<1> QED
  BY <1>3, <1>5, <1>6, <1>7

\* A client taken from rest, or a new one where there is room for it.
LEMMA CheckOutFits ==
  ASSUME ForwardInv, NEW r \in Requests, CheckOut(r)
  PROVE  ForwardInv'
<1>1. Types /\ Sound /\ PoolTypes /\ \A t \in Teams : PoolFits(t)
  BY DEF ForwardInv
<1>2. /\ UNCHANGED <<now, resets, message, sentAt, saw, disturbed, up, db, reset>>
      /\ stage[r] = "verified"
  BY DEF CheckOut, clockVars, dbVars
<1>3. TeamOf(r) \in Teams
  BY <1>1, <1>2, TeamTyped
<1>4. ASSUME Respond(r, 500), broken' \in [Teams -> Nat], UNCHANGED idle,
             \A t \in Teams : broken'[t] <= broken[t]
      PROVE  ForwardInv'
  <2>1. /\ stage' \in [Requests -> {"new", "sent", "away", "verified", "query", "done"}]
        /\ answer' \in [Requests -> {0, 200, 401, 500, 502, 504, NoUrl, Foreign}]
        /\ stage'[r] = "done" /\ \A q \in Requests \ {r} : stage'[q] = stage[q]
        /\ \A q \in Requests : stage'[q] # "new" => stage[q] # "new"
    BY <1>1, <1>2, <1>4, RespondTypes
  <2>2. Types' /\ Sound' /\ PoolTypes'
    BY <1>1, <1>2, <1>4, <2>1 DEF Types, Sound, PoolTypes
  <2>3. ASSUME NEW t \in Teams PROVE PoolFits(t)'
    <3>1. Busy(t)' \subseteq Busy(t)
      BY <1>2, <2>1, BusyMoves
    <3>2. idle'[t] <= idle[t] /\ idle'[t] + broken'[t] <= idle[t] + broken[t]
      BY <1>1, <1>4, <2>2 DEF PoolTypes
    <3> QED
      BY <1>1, <1>2, <2>2, <3>1, <3>2, PoolShrinks
  <2> QED
    BY <2>2, <2>3 DEF ForwardInv
<1>5. ASSUME Query(r), idle' \in [Teams -> Nat], UNCHANGED broken,
             \A t \in Teams \ {TeamOf(r)} : idle'[t] = idle[t], NEW u, u = TeamOf(r),
             db[u] # "absent", idle'[u] + Cardinality(Busy(u)) + 1 + broken[u] <= MaxPool
      PROVE  ForwardInv'
  <2>1. /\ stage' \in [Requests -> {"new", "sent", "away", "verified", "query", "done"}]
        /\ stage'[r] = "query" /\ \A q \in Requests \ {r} : stage'[q] = stage[q]
        /\ \A q \in Requests : stage'[q] # "new" => stage[q] # "new"
        /\ UNCHANGED answer
    BY <1>1, <1>2, <1>5 DEF Query, Types
  <2>2. Types' /\ Sound' /\ PoolTypes'
    BY <1>1, <1>2, <1>5, <2>1 DEF Types, Sound, PoolTypes
  <2>3. ASSUME NEW t \in Teams \ {u} PROVE PoolFits(t)'
    <3>1. Busy(t)' \subseteq Busy(t)
      BY <1>2, <1>5, <2>1, BusyMoves
    <3>2. idle'[t] <= idle[t] /\ idle'[t] + broken'[t] <= idle[t] + broken[t]
      BY <1>1, <1>5, <2>2 DEF PoolTypes
    <3> QED
      BY <1>1, <1>2, <2>2, <3>1, <3>2, PoolShrinks
  <2>4. PoolFits(u)'
    <3>1. Busy(u)' = Busy(u) \cup {r} /\ r \notin Busy(u)
      BY <1>2, <1>3, <1>5, <2>1, BusyMoves DEF Busy
    <3>2. IsFiniteSet(Busy(u)') /\ Cardinality(Busy(u)') = Cardinality(Busy(u)) + 1
          /\ Cardinality(Busy(u)) \in Nat
      <4>1. IsFiniteSet(Busy(u))
        BY <1>1, <1>3, <1>5 DEF PoolFits
      <4>2. /\ IsFiniteSet(Busy(u) \cup {r}) /\ Cardinality(Busy(u)) \in Nat
            /\ Cardinality(Busy(u) \cup {r}) = Cardinality(Busy(u)) + 1
        BY <3>1, <4>1, BusyCounts
      <4> QED
        BY <3>1, <4>2
    <3>3. idle'[u] \in Nat /\ broken'[u] = broken[u] /\ broken[u] \in Nat
      BY <1>1, <1>3, <1>5, <2>2 DEF PoolTypes
    <3>4. idle'[u] + broken'[u] + Cardinality(Busy(u)') <= MaxPool
      BY <1>5, <3>2, <3>3, BackendAssumption
    <3>5. Clients(u)' <= MaxPool
      BY <3>4 DEF Clients
    <3> QED
      BY <1>2, <1>5, <3>2, <3>5 DEF PoolFits
  <2> QED
    BY <2>2, <2>3, <2>4 DEF ForwardInv
<1>6. ASSUME NEW t, t = TeamOf(r) PROVE ForwardInv'
  <2>1. /\ idle[t] \in Nat /\ broken[t] \in Nat /\ Cardinality(Busy(t)) \in Nat
        /\ idle[t] + broken[t] + Cardinality(Busy(t)) <= MaxPool
    BY <1>1, <1>3, <1>6, FS_CardinalityType DEF PoolTypes, PoolFits, Clients
  <2>2. CASE idle[t] > 0 /\ Query(r) /\ idle' = [idle EXCEPT ![t] = idle[t] - 1] /\ UNCHANGED broken
    <3>1. idle' \in [Teams -> Nat] /\ idle'[t] = idle[t] - 1
          /\ \A u \in Teams \ {t} : idle'[u] = idle[u]
      BY <1>1, <1>3, <1>6, <2>1, <2>2 DEF PoolTypes
    <3>2. idle'[t] + Cardinality(Busy(t)) + 1 + broken[t] <= MaxPool
      BY <2>1, <3>1, BackendAssumption
    <3>3. db[t] # "absent"
      BY <1>1, <1>3, <1>6, <2>2 DEF PoolFits
    <3> QED
      BY <1>5, <1>6, <2>2, <3>1, <3>2, <3>3
  <2>3. CASE broken[t] > 0 /\ Respond(r, 500) /\ broken' = [broken EXCEPT ![t] = broken[t] - 1] /\ UNCHANGED idle
    <3>1. broken' \in [Teams -> Nat] /\ \A u \in Teams : broken'[u] <= broken[u]
      BY <1>1, <1>3, <1>6, <2>1, <2>3 DEF PoolTypes
    <3> QED
      BY <1>4, <2>3, <3>1
  <2>4. CASE NewClient(r) /\ UNCHANGED <<idle, broken>>
    <3>1. CASE db[t] # "absent" /\ Query(r)
      <4>1. idle[t] + broken[t] + Cardinality(Busy(t)) < MaxPool
        BY <1>6, <2>4 DEF NewClient, Clients
      <4>2. idle'[t] + Cardinality(Busy(t)) + 1 + broken[t] <= MaxPool
        BY <2>1, <2>4, <4>1, BackendAssumption
      <4> QED
        BY <1>1, <1>5, <1>6, <2>4, <3>1, <4>2 DEF PoolTypes
    <3>2. CASE Respond(r, 500)
      <4>1. \A u \in Teams : broken'[u] <= broken[u]
        BY <1>1, <2>4 DEF PoolTypes
      <4> QED
        BY <1>1, <1>4, <2>4, <3>2, <4>1 DEF PoolTypes
    <3> QED
      BY <1>6, <2>4, <3>1, <3>2 DEF NewClient
  <2> QED
    BY <1>6, <2>2, <2>3, <2>4 DEF CheckOut
<1> QED
  BY <1>6

\* The query is done: its client is at rest again, and it met a database.
LEMMA FinishFits ==
  ASSUME ForwardInv, NEW r \in Requests, Finish(r)
  PROVE  ForwardInv'
<1>1. Types /\ Sound /\ PoolTypes /\ \A t \in Teams : PoolFits(t)
  BY DEF ForwardInv
<1>2. /\ UNCHANGED <<now, resets, message, sentAt, disturbed, up, broken, db, reset>>
      /\ stage[r] = "query" /\ Respond(r, 200)
  BY DEF Finish, clockVars, dbVars
<1>3. PICK u : u = TeamOf(r)
  OBVIOUS
<1>4. u \in Teams
  BY <1>1, <1>2, <1>3, TeamTyped
<1>5. /\ stage' \in [Requests -> {"new", "sent", "away", "verified", "query", "done"}]
      /\ answer' \in [Requests -> {0, 200, 401, 500, 502, 504, NoUrl, Foreign}]
      /\ stage'[r] = "done" /\ \A q \in Requests \ {r} : stage'[q] = stage[q]
      /\ \A q \in Requests : stage'[q] # "new" => stage[q] # "new"
  BY <1>1, <1>2, RespondTypes
<1>6. /\ idle' = [idle EXCEPT ![u] = idle[u] + 1]
      /\ saw' = [saw EXCEPT ![r] = db[u]]
  BY <1>3 DEF Finish
<1>7. /\ idle' \in [Teams -> Nat] /\ idle'[u] = idle[u] + 1 /\ idle[u] \in Nat /\ broken[u] \in Nat
      /\ \A t \in Teams \ {u} : idle'[t] = idle[t]
  BY <1>1, <1>4, <1>6 DEF PoolTypes
<1>8. r \in Busy(u) /\ Busy(u)' = Busy(u) \ {r}
  <2>1. r \in Busy(u)
    BY <1>2, <1>3 DEF Busy
  <2>2. Busy(u)' = Busy(u) \ {r}
    <3>1. stage'[r] # "query"
      BY <1>5
    <3> QED
      BY <1>2, <1>4, <1>5, <3>1, BusyMoves
  <2> QED
    BY <2>1, <2>2
<1>9. db[u] # "absent"
  BY <1>1, <1>4, <1>8 DEF PoolFits
<1>10. Types'
  <2>1. saw' \in [Requests -> {"none", "template", "seeded"}]
    BY <1>1, <1>4, <1>6, <1>9 DEF Types
  <2> QED
    BY <1>1, <1>2, <1>5, <2>1 DEF Types
<1>11. Sound' /\ PoolTypes'
  BY <1>1, <1>2, <1>5, <1>7 DEF Sound, PoolTypes
<1>12. ASSUME NEW t \in Teams \ {u} PROVE PoolFits(t)'
  <2>1. Busy(t)' \subseteq Busy(t)
    BY <1>2, <1>5, BusyMoves
  <2>2. idle'[t] <= idle[t] /\ idle'[t] + broken'[t] <= idle[t] + broken[t]
    BY <1>1, <1>2, <1>7 DEF PoolTypes
  <2> QED
    BY <1>1, <1>2, <1>11, <2>1, <2>2, PoolShrinks
<1>13. PoolFits(u)'
  <2>1. IsFiniteSet(Busy(u)) /\ Clients(u) <= MaxPool
    BY <1>1, <1>4 DEF PoolFits
  <2>2. /\ IsFiniteSet(Busy(u) \ {r}) /\ Cardinality(Busy(u)) \in Nat
        /\ Cardinality(Busy(u) \ {r}) = Cardinality(Busy(u)) - 1
    BY <1>8, <2>1, BusyCounts
  <2>3. IsFiniteSet(Busy(u)') /\ Cardinality(Busy(u)') = Cardinality(Busy(u)) - 1
    BY <1>8, <2>2
  <2>4. idle'[u] + broken'[u] + Cardinality(Busy(u)') <= MaxPool
    BY <1>2, <1>7, <2>1, <2>2, <2>3, BackendAssumption DEF Clients
  <2>5. Clients(u)' <= MaxPool
    BY <2>4 DEF Clients
  <2> QED
    BY <1>2, <1>9, <2>3, <2>5 DEF PoolFits
<1> QED
  BY <1>10, <1>11, <1>12, <1>13 DEF ForwardInv

\* Steps that end some requests, and clients of pools, and nothing else here.
LEMMA LosingFits ==
  ASSUME ForwardInv, Types', UNCHANGED <<message, db>>, PoolTypes',
         \A r \in Requests : stage'[r] = stage[r] \/ (stage'[r] = "done" /\ stage[r] # "new"),
         \A t \in Teams : idle'[t] <= idle[t] /\ idle'[t] + broken'[t] <= idle[t] + broken[t]
  PROVE  ForwardInv'
<1>1. Sound'
  BY DEF ForwardInv, Sound
<1>2. ASSUME NEW t \in Teams PROVE PoolFits(t)'
  <2>1. Busy(t)' \subseteq Busy(t)
    BY DEF Busy, TeamOf
  <2> QED
    BY <2>1, PoolShrinks DEF ForwardInv
<1> QED
  BY <1>1, <1>2 DEF ForwardInv

\* Steps of a reset that leave requests and pools alone.  Only a database in which
\* nobody is at work goes away.
LEMMA RebuildFits ==
  ASSUME ForwardInv, UNCHANGED <<clockVars, requestVars, poolVars>>,
         db' \in [Teams -> {"absent", "template", "seeded"}],
         reset' \in [Teams -> {"none", "drop", "create", "seed", "failed"}],
         \A t \in Teams : db'[t] = "absent" => db[t] = "absent" \/ (idle[t] = 0 /\ Busy(t) = {})
  PROVE  ForwardInv'
<1>1. Types /\ Sound /\ PoolTypes /\ \A t \in Teams : PoolFits(t)
  BY DEF ForwardInv
<1>2. UNCHANGED <<now, resets, stage, message, sentAt, answer, saw, disturbed, up, idle, broken>>
  BY DEF clockVars, requestVars, poolVars
<1>3. Types' /\ Sound' /\ PoolTypes'
  BY <1>1, <1>2 DEF Types, Sound, PoolTypes
<1>4. ASSUME NEW t \in Teams PROVE PoolFits(t)'
  <2>1. Busy(t)' = Busy(t) /\ idle'[t] = idle[t] /\ broken'[t] = broken[t]
    BY <1>2 DEF Busy, TeamOf
  <2>2. IsFiniteSet(Busy(t)') /\ Clients(t)' <= MaxPool
    BY <1>1, <2>1 DEF PoolFits, Clients
  <2>3. idle'[t] > 0 \/ Busy(t)' # {} => db'[t] # "absent"
    BY <1>1, <2>1 DEF PoolFits, PoolTypes
  <2> QED
    BY <2>2, <2>3 DEF PoolFits
<1> QED
  BY <1>3, <1>4 DEF ForwardInv

LEMMA ForwardStep == ForwardInv /\ [Next]_vars => ForwardInv'
<1> SUFFICES ASSUME ForwardInv, [Next]_vars PROVE ForwardInv'
  OBVIOUS
<1>1. Types /\ Sound /\ PoolTypes /\ \A t \in Teams : PoolFits(t)
  BY DEF ForwardInv
<1>2. ASSUME NEW r \in Requests, Send(r) \/ GiveUp(r) \/ FetchFails(r)
                                 \/ AnswerElsewhere(r) \/ Verify(r) \/ CheckOut(r) \/ Finish(r)
      PROVE  ForwardInv'
  BY <1>2, SendFits, QuietFits, CheckOutFits, FinishFits
<1>3. ASSUME NEW t \in Teams, IdleCloses(t) PROVE ForwardInv'
  <2>1. /\ UNCHANGED <<now, resets, stage, message, sentAt, answer, saw, disturbed, up, broken, db, reset>>
        /\ idle[t] > 0 /\ idle' = [idle EXCEPT ![t] = idle[t] - 1]
    BY <1>3 DEF IdleCloses, clockVars, requestVars, dbVars
  <2>2. idle' \in [Teams -> Nat] /\ \A u \in Teams : idle'[u] <= idle[u]
    BY <1>1, <2>1 DEF PoolTypes
  <2>3. Types' /\ PoolTypes'
    BY <1>1, <2>1, <2>2 DEF Types, PoolTypes
  <2>4. \A u \in Teams : idle'[u] + broken'[u] <= idle[u] + broken[u]
    BY <1>1, <2>1, <2>2, <2>3 DEF PoolTypes
  <2> QED
    BY <2>1, <2>2, <2>3, <2>4, LosingFits
<1>4. ASSUME NEW t \in Teams, PoolError(t) PROVE ForwardInv'
  <2>1. /\ UNCHANGED <<now, resets, message, sentAt, saw, disturbed, db, reset>>
        /\ up' = FALSE /\ idle' = [u \in Teams |-> 0] /\ broken' = [u \in Teams |-> 0]
        /\ \A r \in Requests : stage'[r] = stage[r] \/ (stage'[r] = "done" /\ stage[r] # "new")
    BY <1>4 DEF PoolError, clockVars, dbVars
  <2>2. /\ stage' \in [Requests -> {"new", "sent", "away", "verified", "query", "done"}]
        /\ answer' \in [Requests -> {0, 200, 401, 500, 502, 504, NoUrl, Foreign}]
    BY <1>1, <1>4 DEF PoolError, Types
  <2>3. Types'
    BY <1>1, <2>1, <2>2 DEF Types
  <2>4. PoolTypes'
        /\ \A u \in Teams : idle'[u] <= idle[u] /\ idle'[u] + broken'[u] <= idle[u] + broken[u]
    BY <1>1, <2>1 DEF PoolTypes
  <2> QED
    BY <2>1, <2>3, <2>4, LosingFits
<1>5. ASSUME NEW t \in Teams, Terminate(t) PROVE ForwardInv'
  <2>1. /\ UNCHANGED <<now, message, sentAt, saw, up, db>>
        /\ resets < MaxResets /\ resets' = resets + 1
        /\ reset' = [reset EXCEPT ![t] = "drop"]
        /\ disturbed' = [r \in Requests |-> disturbed[r] \/ InFlight(r, t)]
        /\ idle' = [idle EXCEPT ![t] = 0]
        /\ broken' = [broken EXCEPT ![t] = broken[t] + idle[t]]
    BY <1>5 DEF Terminate
  <2>2. \A r \in Requests : stage'[r] = stage[r] \/ (stage'[r] = "done" /\ stage[r] # "new")
    BY <1>5 DEF Terminate, Busy
  <2>3. /\ stage' \in [Requests -> {"new", "sent", "away", "verified", "query", "done"}]
        /\ answer' \in [Requests -> {0, 200, 401, 500, 502, 504, NoUrl, Foreign}]
    BY <1>1, <1>5 DEF Terminate, Types
  <2>4. resets' \in 0..MaxResets
    BY <1>1, <2>1, BackendAssumption DEF Types
  <2>5. disturbed' \in [Requests -> BOOLEAN]
    BY <1>1, <2>1 DEF Types, InFlight
  <2>6. reset' \in [Teams -> {"none", "drop", "create", "seed", "failed"}]
    BY <1>1, <2>1 DEF Types
  <2>7. Types'
    BY <1>1, <2>1, <2>3, <2>4, <2>5, <2>6 DEF Types
  <2>8. PoolTypes'
        /\ \A u \in Teams : idle'[u] <= idle[u] /\ idle'[u] + broken'[u] <= idle[u] + broken[u]
    BY <1>1, <2>1 DEF PoolTypes
  <2> QED
    BY <2>1, <2>2, <2>7, <2>8, LosingFits
<1>6. ASSUME NEW t \in Teams, Drop(t) PROVE ForwardInv'
  <2>1. /\ UNCHANGED <<clockVars, requestVars, poolVars>>
        /\ \/ /\ idle[t] = 0 /\ Busy(t) = {}
              /\ db' = [db EXCEPT ![t] = "absent"] /\ reset' = [reset EXCEPT ![t] = "create"]
           \/ reset' = [reset EXCEPT ![t] = "failed"] /\ UNCHANGED db
    BY <1>6 DEF Drop
  <2>2. /\ db' \in [Teams -> {"absent", "template", "seeded"}]
        /\ reset' \in [Teams -> {"none", "drop", "create", "seed", "failed"}]
        /\ \A u \in Teams : db'[u] = "absent" => db[u] = "absent" \/ (idle[u] = 0 /\ Busy(u) = {})
    BY <1>1, <2>1 DEF Types
  <2> QED
    BY <2>1, <2>2, RebuildFits
<1>7. ASSUME NEW t \in Teams, CreateFromTemplate(t) \/ Seed(t) \/ RebuildFails(t) PROVE ForwardInv'
  <2>1. /\ UNCHANGED <<clockVars, requestVars, poolVars>>
        /\ db' \in [Teams -> {"absent", "template", "seeded"}]
        /\ reset' \in [Teams -> {"none", "drop", "create", "seed", "failed"}]
        /\ \A u \in Teams : db'[u] = "absent" => db[u] = "absent"
    BY <1>1, <1>7 DEF CreateFromTemplate, Seed, RebuildFails, Types
  <2> QED
    BY <2>1, RebuildFits
<1>8. CASE Restart
  <2>1. /\ UNCHANGED <<now, resets, stage, message, sentAt, answer, saw, disturbed, idle, broken, db, reset>>
        /\ up' = TRUE
    BY <1>8 DEF Restart, clockVars, requestVars, dbVars
  <2>2. Types' /\ PoolTypes'
        /\ \A u \in Teams : idle'[u] <= idle[u] /\ idle'[u] + broken'[u] <= idle[u] + broken[u]
    BY <1>1, <2>1 DEF Types, PoolTypes
  <2> QED
    BY <2>1, <2>2, LosingFits
<1>9. CASE Tick
  <2>1. /\ UNCHANGED <<resets, stage, message, sentAt, answer, saw, disturbed, up, idle, broken, db, reset>>
        /\ now < MaxTime /\ now' = now + 1
    BY <1>9 DEF Tick, requestVars, poolVars, dbVars
  <2>2. now' \in 0..MaxTime
    BY <1>1, <2>1, TimingAssumption DEF Types
  <2>3. Types'
    BY <1>1, <2>1, <2>2 DEF Types
  <2>4. PoolTypes'
        /\ \A u \in Teams : idle'[u] <= idle[u] /\ idle'[u] + broken'[u] <= idle[u] + broken[u]
    BY <1>1, <2>1 DEF PoolTypes
  <2> QED
    BY <2>1, <2>3, <2>4, LosingFits
<1>10. CASE UNCHANGED vars
  <2>1. UNCHANGED <<clockVars, requestVars, poolVars, db, reset>>
    BY <1>10 DEF vars, dbVars
  <2> QED
    BY <1>1, <2>1, RebuildFits DEF Types
<1> QED
  BY <1>2, <1>3, <1>4, <1>5, <1>6, <1>7, <1>8, <1>9, <1>10 DEF Next

\* However requests, resets, crashes and the pools' timers interleave, no pool
\* holds more clients than maxPoolSize, no query ends in a database that is gone,
\* and a request reaches the backend with exactly the path its student wrote after
\* the offering's code if and only if that path is plain.
THEOREM ForwardsFit == Spec => []ForwardingFits
<1>1. ForwardInv => ForwardingFits
  <2> SUFFICES ASSUME ForwardInv PROVE ForwardingFits
    OBVIOUS
  <2>1. Types /\ Sound /\ PoolTypes /\ \A t \in Teams : PoolFits(t)
    BY DEF ForwardInv
  <2>2. ASSUME NEW t \in Teams PROVE Clients(t) <= MaxPool /\ idle[t] \in 0..MaxPool /\ broken[t] \in 0..MaxPool
    <3>1. Clients(t) <= MaxPool /\ Cardinality(Busy(t)) \in Nat
      BY <2>1, FS_CardinalityType DEF PoolFits
    <3>2. idle[t] \in Nat /\ broken[t] \in Nat
      BY <2>1 DEF PoolTypes
    <3> QED
      BY <3>1, <3>2, BackendAssumption DEF Clients
  <2>3. idle \in [Teams -> 0..MaxPool] /\ broken \in [Teams -> 0..MaxPool]
    BY <2>1, <2>2 DEF PoolTypes
  <2>4. TypeOK
    BY <2>1, <2>2, <2>3 DEF TypeOK, Types, Sound
  <2>5. PathArrivesWhole
    BY <2>1, Arrival DEF Sound, PathArrivesWhole, AtBackend
  <2> QED
    BY <2>4, <2>5 DEF ForwardingFits
<1> QED
  BY <1>1, ForwardInit, ForwardStep, PTL DEF Spec
==============================================================================
