--------------------------- MODULE RateLimitProofs ---------------------------
(***************************************************************************)
(* Proofs about RateLimit.  No student and no team is served beyond its     *)
(* limit in any window: the INCR answers under one key are distinct, because *)
(* the key outlives every request that names it, so at most limit of them    *)
(* are allowed.  Counters expire, and a request is refused only for what     *)
(* others were counted, but for the faults.                                  *)
(***************************************************************************)
EXTENDS RateLimit, TLAPS, FiniteSetTheorems

Arrived(r) == who[r] # Nobody
Ticketed(r, s) == Arrived(r) /\ ticket[r][s] > 0

\* A waiting INCR names a window at most MaxLag old; nothing is stamped ahead.
LagBounded == \A r \in Requests, s \in Scopes :
                /\ stamp[r] <= now
                /\ phase[r][s] = "incr" => now - stamp[r] <= MaxLag
PhaseMatchesTicket == \A r \in Requests, s \in Scopes :
                        /\ ~Arrived(r) => phase[r][s] = "idle"
                        /\ phase[r][s] \in {"idle", "incr"} => ticket[r][s] = 0
                        /\ phase[r][s] \in {"expire", "counted"} => ticket[r][s] > 0

\* A key's time to live ends two windows after its own at the earliest.
KeysOutlive == \A k \in Keys : expiry[k] # Immortal => expiry[k] >= k[3] + 2

\* While a key may still be incremented its value is at least every answer given.
CounterCovers == \A r \in Requests, s \in Scopes :
                   Ticketed(r, s) /\ now <= stamp[r] + 1 => ticket[r][s] <= counter[Key(r, s)]
TicketsDiffer == \A q, r \in Requests, s \in Scopes :
                   /\ Ticketed(q, s) /\ Ticketed(r, s)
                   /\ Key(q, s) = Key(r, s) /\ ticket[q][s] = ticket[r][s]
                   => q = r

TicketInv == /\ LagBounded
             /\ PhaseMatchesTicket
             /\ KeysOutlive
             /\ CounterCovers
             /\ TicketsDiffer

\* A request's counter is one of the keys, of the window it was stamped with.
LEMMA KeyType ==
  ASSUME TypeOK, NEW r \in Requests, NEW s \in Scopes, Arrived(r)
  PROVE  /\ Key(r, s) \in Keys
         /\ Key(r, s)[3] = stamp[r]
<1>1. /\ who[r] \in Memberships /\ stamp[r] \in Windows
  BY DEF TypeOK, Arrived
<1>2. IdentityOf(who[r], s) \in {m.student : m \in Memberships} \cup {m.team : m \in Memberships}
  BY <1>1 DEF IdentityOf
<1> QED
  BY <1>1, <1>2 DEF Key, Keys

\* Init has the types and no request.
LEMMA InitInv == Init => TypeOK /\ TicketInv
  BY LimitAssumption
  DEF Init, TypeOK, TicketInv, LagBounded, PhaseMatchesTicket, KeysOutlive, CounterCovers,
      TicketsDiffer, Ticketed, Arrived, Windows, Immortal

\* A step keeps the types.
LEMMA TypeStep == TypeOK /\ TicketInv /\ [Next]_vars => TypeOK'
<1> SUFFICES ASSUME TypeOK, TicketInv, [Next]_vars PROVE TypeOK'
  OBVIOUS
<1> USE LimitAssumption DEF TypeOK, Windows, vars, redisVars, requestVars, SetPhase, Fault, Scopes
<1>0. \A r \in Requests, s \in Scopes : phase[r][s] # "idle" => Key(r, s) \in Keys
  BY KeyType DEF TicketInv, PhaseMatchesTicket
<1>1. ASSUME NEW r \in Requests, Arrive(r) PROVE TypeOK'
  BY <1>1 DEF Arrive
<1>2. ASSUME NEW r \in Requests, NEW s \in Scopes, Incr(r, s) PROVE TypeOK'
  <2>1. Key(r, s) \in Keys /\ counter[Key(r, s)] + 1 \in Nat
    BY <1>0, <1>2 DEF Incr
  <2> QED
    BY <1>2, <2>1 DEF Incr
<1>3. ASSUME NEW r \in Requests, NEW s \in Scopes, Expire(r, s) PROVE TypeOK'
  <2>1. expiry' \in [Keys -> Nat \cup {Immortal}]
    <3>1. now + Ttl \in Nat
      BY DEF Ttl
    <3> QED
      BY <1>3, <3>1 DEF Expire
  <2> QED
    BY <1>3, <2>1 DEF Expire
<1>4. ASSUME NEW r \in Requests, NEW s \in Scopes, IncrResent(r, s) PROVE TypeOK'
  <2>1. Key(r, s) \in Keys /\ counter[Key(r, s)] + 1 \in Nat
    BY <1>0, <1>4 DEF IncrResent
  <2> QED
    BY <1>4, <2>1 DEF IncrResent
<1>5. ASSUME NEW r \in Requests, NEW s \in Scopes, CommandFails(r, s) PROVE TypeOK'
  BY <1>5 DEF CommandFails
<1>6. CASE Crash
  BY <1>6 DEF Crash
<1>7. CASE Tick
  BY <1>7 DEF Tick
<1>8. CASE UNCHANGED vars
  BY <1>8
<1> QED
  BY <1>1, <1>2, <1>3, <1>4, <1>5, <1>6, <1>7, <1>8 DEF Next, Check

\* An INCR answers one more than the counter, which covers every earlier answer.
LEMMA IncrStep ==
  ASSUME TypeOK, TicketInv, NEW r \in Requests, NEW s \in Scopes, Incr(r, s)
  PROVE  TicketInv'
<1> DEFINE count == counter[Key(r, s)] + 1
<1>1. /\ phase[r][s] = "incr" /\ Arrived(r) /\ now <= stamp[r] + 1
      /\ Key(r, s) \in Keys /\ count \in Nat \ {0}
  <2>1. phase[r][s] = "incr" /\ Arrived(r) /\ now - stamp[r] <= MaxLag /\ Key(r, s) \in Keys
    BY KeyType DEF Incr, TicketInv, PhaseMatchesTicket, LagBounded
  <2>2. now \in Int /\ stamp[r] \in Int /\ MaxLag \in Int /\ counter[Key(r, s)] \in Nat
    BY <2>1, LimitAssumption DEF TypeOK, Windows
  <2> QED
    BY <2>1, <2>2, LagAssumption
<1>2. /\ now' = now /\ who' = who /\ stamp' = stamp /\ expiry' = expiry
      /\ counter' = [counter EXCEPT ![Key(r, s)] = count]
      /\ ticket' = [ticket EXCEPT ![r][s] = count]
      /\ phase' = [phase EXCEPT ![r][s] = IF SetsTtl(count) THEN "expire" ELSE "counted"]
  BY DEF Incr, requestVars, SetPhase
<1>3. /\ ticket'[r][s] = count
      /\ \A q \in Requests, z \in Scopes : <<q, z>> # <<r, s>> => /\ ticket'[q][z] = ticket[q][z]
                                                                /\ phase'[q][z] = phase[q][z]
      /\ phase'[r][s] \in {"expire", "counted"}
  BY <1>2 DEF TypeOK
<1>4. \A q \in Requests, z \in Scopes : Key(q, z)' = Key(q, z) /\ Arrived(q)' = Arrived(q)
  BY <1>2 DEF Key, Arrived
<1>5. LagBounded'
  BY <1>2, <1>3 DEF TicketInv, LagBounded
<1>6. PhaseMatchesTicket'
  <2> SUFFICES ASSUME NEW q \in Requests, NEW z \in Scopes
               PROVE  /\ ~Arrived(q) => phase'[q][z] = "idle"
                      /\ phase'[q][z] \in {"idle", "incr"} => ticket'[q][z] = 0
                      /\ phase'[q][z] \in {"expire", "counted"} => ticket'[q][z] > 0
    BY <1>4 DEF PhaseMatchesTicket
  <2>1. CASE <<q, z>> = <<r, s>>
    <3>1. count > 0 /\ q = r /\ z = s
      BY <1>1, <2>1
    <3>2. Arrived(q) /\ phase'[q][z] \in {"expire", "counted"} /\ ticket'[q][z] = count
      BY <1>1, <1>3, <3>1
    <3> HIDE DEF count
    <3> QED
      BY <3>1, <3>2
  <2>2. CASE <<q, z>> # <<r, s>>
    BY <1>3, <2>2 DEF TicketInv, PhaseMatchesTicket
  <2> QED
    BY <2>1, <2>2
<1>7. KeysOutlive'
  BY <1>2 DEF TicketInv, KeysOutlive
<1>8. ASSUME NEW q \in Requests, Ticketed(q, s), Key(q, s) = Key(r, s)
      PROVE  ticket[q][s] < count
  <2>1. stamp[q] = stamp[r]
    BY <1>1, <1>8, KeyType DEF Ticketed
  <2>2. ticket[q][s] <= counter[Key(r, s)]
    BY <1>1, <1>8, <2>1 DEF TicketInv, CounterCovers
  <2>3. ticket[q][s] \in Nat /\ counter[Key(r, s)] \in Nat
    BY <1>1 DEF TypeOK
  <2> QED
    BY <2>2, <2>3
<1>9. CounterCovers'
  <2> SUFFICES ASSUME NEW q \in Requests, NEW z \in Scopes, Ticketed(q, z)', now <= stamp[q] + 1
               PROVE  ticket'[q][z] <= counter'[Key(q, z)]
    BY <1>2, <1>4 DEF CounterCovers
  <2>1. Key(q, z) \in Keys /\ counter[Key(q, z)] \in Nat
    BY <1>4, KeyType DEF Ticketed, TypeOK
  <2>2. CASE <<q, z>> = <<r, s>>
    BY <1>1, <1>2, <1>3, <2>2 DEF TypeOK
  <2>3. CASE <<q, z>> # <<r, s>>
    <3>1. ticket[q][z] <= counter[Key(q, z)]
      BY <1>3, <1>4, <2>3 DEF TicketInv, CounterCovers, Ticketed
    <3>2. counter'[Key(q, z)] = counter[Key(q, z)] \/ counter'[Key(q, z)] = counter[Key(q, z)] + 1
      BY <1>1, <1>2, <2>1 DEF TypeOK
    <3>3. ticket'[q][z] = ticket[q][z] /\ ticket[q][z] \in Nat
      BY <1>3, <2>3 DEF TypeOK
    <3> QED
      BY <2>1, <3>1, <3>2, <3>3
  <2> QED
    BY <2>2, <2>3
<1>10. TicketsDiffer'
  <2> SUFFICES ASSUME NEW p \in Requests, NEW q \in Requests, NEW z \in Scopes, p # q,
                      Ticketed(p, z)', Ticketed(q, z)', Key(p, z) = Key(q, z)
               PROVE  ticket'[p][z] # ticket'[q][z]
    BY <1>4 DEF TicketsDiffer
  <2>1. CASE <<p, z>> = <<r, s>>
    <3>1. Ticketed(q, s) /\ ticket'[q][s] = ticket[q][s]
      BY <1>3, <1>4, <2>1 DEF Ticketed
    <3>2. ticket[q][s] < count /\ ticket[q][s] \in Nat
      BY <1>8, <2>1, <3>1 DEF TypeOK
    <3> QED
      BY <1>1, <1>3, <2>1, <3>1, <3>2
  <2>2. CASE <<q, z>> = <<r, s>>
    <3>1. Ticketed(p, s) /\ ticket'[p][s] = ticket[p][s]
      BY <1>3, <1>4, <2>2 DEF Ticketed
    <3>2. ticket[p][s] < count /\ ticket[p][s] \in Nat
      BY <1>8, <2>2, <3>1 DEF TypeOK
    <3> QED
      BY <1>1, <1>3, <2>2, <3>1, <3>2
  <2>3. CASE <<p, z>> # <<r, s>> /\ <<q, z>> # <<r, s>>
    BY <1>3, <1>4, <2>3 DEF TicketInv, TicketsDiffer, Ticketed
  <2> QED
    BY <2>1, <2>2, <2>3
<1> QED
  BY <1>5, <1>6, <1>7, <1>9, <1>10 DEF TicketInv

\* A step that answers no INCR and drops no key.
LEMMA TicketsAlone ==
  ASSUME TypeOK, TicketInv, now' = now, ticket' = ticket, expiry' = expiry,
         \A r \in Requests : Arrived(r) => who'[r] = who[r] /\ stamp'[r] = stamp[r],
         \A k \in Keys : counter'[k] = counter[k] \/ counter'[k] = counter[k] + 1,
         LagBounded', PhaseMatchesTicket'
  PROVE  TicketInv'
<1>1. ASSUME NEW r \in Requests, NEW s \in Scopes, Ticketed(r, s)'
      PROVE  Ticketed(r, s) /\ Key(r, s)' = Key(r, s) /\ stamp'[r] = stamp[r]
  <2>1. ticket[r][s] # 0
    BY <1>1 DEF Ticketed, TypeOK
  <2>2. Arrived(r)
    BY <2>1 DEF TicketInv, PhaseMatchesTicket
  <2> QED
    BY <1>1, <2>2 DEF Ticketed, Key, Arrived
<1>2. CounterCovers'
  <2> SUFFICES ASSUME NEW r \in Requests, NEW s \in Scopes, Ticketed(r, s)', now <= stamp'[r] + 1
               PROVE  ticket[r][s] <= counter'[Key(r, s)']
    BY DEF CounterCovers
  <2>1. ticket[r][s] <= counter[Key(r, s)] /\ Key(r, s) \in Keys
    BY <1>1, KeyType DEF TicketInv, CounterCovers, Ticketed
  <2>2. ticket[r][s] \in Nat /\ counter[Key(r, s)] \in Nat
    BY <2>1 DEF TypeOK
  <2>3. counter'[Key(r, s)] >= counter[Key(r, s)] /\ counter'[Key(r, s)] \in Nat
    BY <2>1, <2>2
  <2> QED
    BY <1>1, <2>1, <2>2, <2>3
<1>3. TicketsDiffer'
  BY <1>1 DEF TicketInv, TicketsDiffer
<1>4. KeysOutlive'
  BY DEF TicketInv, KeysOutlive
<1> QED
  BY <1>2, <1>3, <1>4 DEF TicketInv

\* EXPIRE reaches a key no earlier than the window it is named after.
LEMMA ExpireStep ==
  ASSUME TypeOK, TicketInv, NEW r \in Requests, NEW s \in Scopes, Expire(r, s)
  PROVE  TicketInv'
<1>1. /\ now' = now /\ who' = who /\ stamp' = stamp /\ counter' = counter /\ ticket' = ticket
      /\ expiry' = [expiry EXCEPT ![Key(r, s)] = now + Ttl]
      /\ phase' = [phase EXCEPT ![r][s] = "counted"] /\ phase[r][s] = "expire"
  BY DEF Expire, requestVars, SetPhase
<1>2. Arrived(r) /\ stamp[r] <= now /\ stamp[r] \in Int /\ now \in Int
  BY <1>1, LimitAssumption DEF TicketInv, PhaseMatchesTicket, LagBounded, TypeOK, Windows
<1>3. KeysOutlive'
  <2>1. Key(r, s) \in Keys /\ Key(r, s)[3] = stamp[r]
    BY <1>2, KeyType
  <2>2. now + Ttl >= Key(r, s)[3] + 2
    BY <1>2, <2>1 DEF Ttl
  <2> QED
    BY <1>1, <2>1, <2>2 DEF TicketInv, KeysOutlive, TypeOK
<1>4. LagBounded' /\ PhaseMatchesTicket'
  BY <1>1 DEF TicketInv, LagBounded, PhaseMatchesTicket, TypeOK, Arrived
<1>5. CounterCovers' /\ TicketsDiffer'
  BY <1>1 DEF TicketInv, CounterCovers, TicketsDiffer, Ticketed, Arrived, Key
<1> QED
  BY <1>3, <1>4, <1>5 DEF TicketInv

\* The keys dropped when a window begins are named after windows too old to be
\* incremented again.
LEMMA TickStep == ASSUME TypeOK, TicketInv, Tick PROVE TicketInv'
<1>1. /\ now' = now + 1 /\ who' = who /\ stamp' = stamp /\ phase' = phase /\ ticket' = ticket
      /\ counter' = [k \in Keys |-> IF expiry[k] = now' THEN 0 ELSE counter[k]]
      /\ expiry' = [k \in Keys |-> IF expiry[k] = now' THEN Immortal ELSE expiry[k]]
      /\ now \in Int
  BY LimitAssumption DEF Tick, requestVars, TypeOK, Windows
<1>2. \A r \in Requests : stamp[r] \in Int /\ stamp[r] <= now
  BY LimitAssumption DEF TicketInv, LagBounded, TypeOK, Windows, Scopes
<1>3. LagBounded'
  <2>1. MaxLag \in Int
    BY LimitAssumption
  <2>2. ASSUME NEW r \in Requests, NEW s \in Scopes, phase[r][s] = "incr"
        PROVE  now - stamp[r] < MaxLag
    BY <2>2 DEF Tick
  <2> QED
    BY <1>1, <1>2, <2>1, <2>2 DEF LagBounded
<1>4. KeysOutlive'
  BY <1>1 DEF TicketInv, KeysOutlive
<1>5. PhaseMatchesTicket' /\ TicketsDiffer'
  BY <1>1 DEF TicketInv, PhaseMatchesTicket, TicketsDiffer, Ticketed, Arrived, Key
<1>6. CounterCovers'
  <2> SUFFICES ASSUME NEW r \in Requests, NEW s \in Scopes, Ticketed(r, s), now + 1 <= stamp[r] + 1
               PROVE  ticket[r][s] <= counter'[Key(r, s)]
    BY <1>1 DEF CounterCovers, Ticketed, Arrived, Key
  <2>1. Key(r, s) \in Keys /\ Key(r, s)[3] = stamp[r]
    BY KeyType DEF Ticketed
  <2>2. now <= stamp[r] + 1
    BY <1>1, <1>2
  <2>3. expiry[Key(r, s)] # now + 1
    <3>1. now + 1 # Immortal
      BY DEF TypeOK, Windows, Immortal
    <3>2. ~(now + 1 >= stamp[r] + 2)
      BY <1>1, <1>2
    <3> QED
      BY <2>1, <3>1, <3>2 DEF TicketInv, KeysOutlive
  <2> QED
    BY <1>1, <2>1, <2>2, <2>3 DEF TicketInv, CounterCovers
<1> QED
  BY <1>3, <1>4, <1>5, <1>6 DEF TicketInv

\* A step keeps TicketInv, action by action.
LEMMA TicketStep == TypeOK /\ TicketInv /\ [Next]_vars => TicketInv'
<1> SUFFICES ASSUME TypeOK, TicketInv, [Next]_vars PROVE TicketInv'
  OBVIOUS
<1>0. now \in Nat /\ MaxLag \in Nat
  BY LimitAssumption DEF TypeOK, Windows
<1> USE DEF redisVars, requestVars, SetPhase, Fault
<1>1. ASSUME NEW r \in Requests, Arrive(r) PROVE TicketInv'
  <2>0. /\ now' = now /\ ticket' = ticket /\ ~Arrived(r) /\ Arrived(r)'
        /\ stamp'[r] = now /\ \A s \in Scopes : phase'[r][s] = "incr"
        /\ \A q \in Requests : q # r => /\ stamp'[q] = stamp[q] /\ phase'[q] = phase[q]
                                        /\ Arrived(q)' = Arrived(q)
    BY <1>1, LimitAssumption DEF Arrive, Arrived, TypeOK
  <2>1. LagBounded' /\ PhaseMatchesTicket'
    <3>1. LagBounded'
      BY <1>0, <2>0 DEF TicketInv, LagBounded
    <3>2. PhaseMatchesTicket'
      BY <2>0 DEF TicketInv, PhaseMatchesTicket
    <3> QED
      BY <3>1, <3>2
  <2> QED
    BY <1>1, <2>1, TicketsAlone DEF Arrive, Arrived, TypeOK
<1>2. ASSUME NEW r \in Requests, NEW s \in Scopes, IncrResent(r, s) PROVE TicketInv'
  <2>1. LagBounded' /\ PhaseMatchesTicket'
    BY <1>2 DEF IncrResent, TicketInv, LagBounded, PhaseMatchesTicket, Arrived
  <2> QED
    BY <1>2, <2>1, TicketsAlone DEF IncrResent, TypeOK
<1>3. ASSUME NEW r \in Requests, NEW s \in Scopes, CommandFails(r, s) PROVE TicketInv'
  <2>1. LagBounded' /\ PhaseMatchesTicket'
    BY <1>3 DEF CommandFails, TicketInv, LagBounded, PhaseMatchesTicket, Arrived, TypeOK
  <2> QED
    BY <1>3, <2>1, TicketsAlone DEF CommandFails
<1>4. CASE Crash
  <2>1. LagBounded' /\ PhaseMatchesTicket'
    BY <1>4 DEF Crash, TicketInv, LagBounded, PhaseMatchesTicket, Arrived, TypeOK
  <2> QED
    BY <1>4, <2>1, TicketsAlone DEF Crash
<1>5. CASE UNCHANGED vars
  <2>1. LagBounded' /\ PhaseMatchesTicket'
    BY <1>5 DEF vars, TicketInv, LagBounded, PhaseMatchesTicket, Arrived
  <2> QED
    BY <1>5, <2>1, TicketsAlone DEF vars
<1> QED
  BY <1>1, <1>2, <1>3, <1>4, <1>5, IncrStep, ExpireStep, TickStep DEF Next, Check

\* The served requests of one key got distinct answers, all within the limit.
LEMMA DistinctTicketsFit ==
  ASSUME TypeOK, TicketInv, NEW m \in Memberships, NEW s \in Scopes, NEW w \in Windows
  PROVE  Cardinality({r \in Of(m.offering, s, IdentityOf(m, s), w) : Served(r)})
           <= Limit(m.offering, s)
<1> DEFINE S == {r \in Of(m.offering, s, IdentityOf(m, s), w) : Served(r)}
           L == Limit(m.offering, s)
           f == [r \in S |-> ticket[r][s]]
<1>1. L \in Nat
  BY LimitAssumption DEF Limit, Offerings
<1>2. ASSUME NEW r \in S
      PROVE  /\ r \in Requests /\ Ticketed(r, s) /\ Key(r, s) = <<s, IdentityOf(m, s), w>>
             /\ ticket[r][s] \in 1..L
  <2>1. /\ r \in Requests /\ Arrived(r) /\ phase[r][s] = "counted" /\ ticket[r][s] <= L
        /\ Key(r, s) = <<s, IdentityOf(m, s), w>>
    BY <1>2 DEF Of, Served, Decided, Allowed, Arrived, Key
  <2>2. ticket[r][s] > 0 /\ ticket[r][s] \in Nat
    BY <2>1 DEF TicketInv, PhaseMatchesTicket, TypeOK
  <2> QED
    BY <1>1, <2>1, <2>2 DEF Ticketed
<1>3. f \in Injection(S, 1..L)
  <2>1. f \in [S -> 1..L]
    BY <1>2
  <2>2. \A q, r \in S : f[q] = f[r] => q = r
    BY <1>2 DEF TicketInv, TicketsDiffer
  <2> QED
    BY <2>1, <2>2 DEF Injection, IsInjective
<1>4. IsFiniteSet(1..L) /\ Cardinality(1..L) = L
  BY <1>1, FS_Interval
<1> HIDE DEF S, L, f
<1>5. Cardinality(S) <= Cardinality(1..L)
  BY <1>3, <1>4, FS_Injection
<1> QED
  BY <1>4, <1>5 DEF S, L

\* Every step keeps the variables in their types: no counter is negative, and a
\* request holds a ticket for no key but its own.
THEOREM TypeCorrect == Spec => []TypeOK
<1>1. TypeOK /\ TicketInv /\ [Next]_vars => TypeOK' /\ TicketInv'
  BY TypeStep, TicketStep
<1> QED
  BY InitInv, <1>1, PTL DEF Spec

\* However many requests there are, however their INCRs interleave, lag by up
\* to a window, are sent twice, fail or die with the gateway, no offering serves
\* a student or a team more requests in a window than its limit.
THEOREM CeilingHolds == Spec => []Ceiling
<1>1. TypeOK /\ TicketInv /\ [Next]_vars => TypeOK' /\ TicketInv'
  BY TypeStep, TicketStep
<1>2. TypeOK /\ TicketInv => Ceiling
  BY DistinctTicketsFit DEF Ceiling
<1> QED
  BY InitInv, <1>1, <1>2, PTL DEF Spec

------------------------------------------------------------------------------
(* Counters that expire, and refusals that are deserved *)

\* What every step keeps: a request's membership and stamp once it arrived, the
\* answer of its INCR once given, and the faults that happened.
LEMMA Kept ==
  ASSUME TypeOK, TicketInv, [Next]_vars
  PROVE  /\ faults' \in Nat /\ faults' >= faults
         /\ \A r \in Requests, s \in Scopes : Arrived(r) => Arrived(r)' /\ Key(r, s)' = Key(r, s)
         /\ \A r \in Requests, s \in Scopes : Ticketed(r, s) => ticket'[r][s] = ticket[r][s]
<1> USE LimitAssumption DEF TypeOK, redisVars, requestVars, SetPhase, Fault
<1>0. \A r \in Requests, s \in Scopes : Ticketed(r, s) => phase[r][s] # "incr"
  BY DEF TicketInv, PhaseMatchesTicket, Ticketed
<1>1. ASSUME NEW r \in Requests, Arrive(r)
      PROVE  /\ faults' = faults /\ ticket' = ticket
             /\ \A q \in Requests : Arrived(q) => who'[q] = who[q] /\ stamp'[q] = stamp[q]
  BY <1>1 DEF Arrive, Arrived
<1>2. ASSUME NEW r \in Requests, NEW s \in Scopes, Incr(r, s)
      PROVE  /\ faults' = faults /\ who' = who /\ stamp' = stamp
             /\ \A q \in Requests, z \in Scopes : Ticketed(q, z) => ticket'[q][z] = ticket[q][z]
  BY <1>0, <1>2 DEF Incr
<1>3. ASSUME NEW r \in Requests, NEW s \in Scopes,
             Expire(r, s) \/ IncrResent(r, s) \/ CommandFails(r, s)
      PROVE  (faults' = faults \/ faults' = faults + 1) /\ who' = who /\ stamp' = stamp /\ ticket' = ticket
  BY <1>3 DEF Expire, IncrResent, CommandFails
<1>4. ASSUME Crash \/ Tick \/ UNCHANGED vars
      PROVE  (faults' = faults \/ faults' = faults + 1) /\ who' = who /\ stamp' = stamp /\ ticket' = ticket
  BY <1>4 DEF Crash, Tick, vars
<1>5. /\ faults' = faults \/ faults' = faults + 1
      /\ \A r \in Requests : Arrived(r) => who'[r] = who[r] /\ stamp'[r] = stamp[r]
      /\ \A r \in Requests, s \in Scopes : Ticketed(r, s) => ticket'[r][s] = ticket[r][s]
  BY <1>1, <1>2, <1>3, <1>4 DEF Next, Check
<1> QED
  BY <1>5 DEF Arrived, Key

\* The counter an INCR creates is the business of its request; an EXPIRE takes
\* only its own key off the list; what else could end a wait is a fault.
LEMMA MortalStep == TypeOK /\ TicketInv /\ NoImmortalCounter /\ [Next]_vars => NoImmortalCounter'
<1> SUFFICES ASSUME TypeOK, TicketInv, NoImmortalCounter, [Next]_vars, NEW k \in Keys,
                    counter'[k] > 0, expiry'[k] = Immortal, ~(faults' > 0)
             PROVE  TtlPending(k)'
  BY DEF NoImmortalCounter
<1> USE DEF redisVars, requestVars, SetPhase
<1>0. faults' = faults /\ faults = 0 /\ faults' \in Nat
  BY Kept, LimitAssumption DEF TypeOK
<1>1. counter[k] > 0 /\ expiry[k] = Immortal => TtlPending(k)
  BY <1>0 DEF NoImmortalCounter
<1>2. ASSUME \A r \in Requests, s \in Scopes : phase[r][s] = "expire" => phase'[r][s] = "expire",
             counter'[k] = counter[k], expiry'[k] = expiry[k]
      PROVE  TtlPending(k)'
  BY <1>1, <1>2, Kept DEF TtlPending, Arrived
<1>3. ASSUME NEW r \in Requests, Arrive(r) PROVE TtlPending(k)'
  <2>1. phase[r] = [s \in Scopes |-> "idle"]
    BY <1>3 DEF Arrive, TypeOK, TicketInv, PhaseMatchesTicket, Arrived
  <2> QED
    BY <1>2, <1>3, <2>1 DEF Arrive, TypeOK
<1>4. ASSUME NEW r \in Requests, NEW s \in Scopes, Incr(r, s) PROVE TtlPending(k)'
  <2>1. /\ phase[r][s] = "incr" /\ Arrived(r) /\ Key(r, s) \in Keys
        /\ Arrived(r)' /\ Key(r, s)' = Key(r, s)
    BY <1>4, KeyType, Kept DEF Incr, TicketInv, PhaseMatchesTicket
  <2>2. \A q \in Requests, z \in Scopes : phase[q][z] = "expire" => phase'[q][z] = "expire"
    BY <1>4, <2>1 DEF Incr, TypeOK
  <2>3. CASE k = Key(r, s) /\ counter[k] = 0
    <3>1. phase'[r][s] = "expire"
      BY <1>4, <2>3 DEF Incr, SetsTtl, TypeOK
    <3> QED
      BY <2>1, <2>3, <3>1 DEF TtlPending, Arrived
  <2>4. CASE k = Key(r, s) /\ counter[k] # 0
    <3>1. counter[k] > 0 /\ expiry[k] = Immortal
      BY <1>4, <2>4 DEF Incr, TypeOK
    <3> QED
      BY <1>1, <2>2, <3>1, Kept DEF TtlPending, Arrived
  <2>5. CASE k # Key(r, s)
    BY <1>2, <1>4, <2>2, <2>5 DEF Incr, TypeOK
  <2> QED
    BY <2>3, <2>4, <2>5
<1>5. ASSUME NEW r \in Requests, NEW s \in Scopes, Expire(r, s) PROVE TtlPending(k)'
  <2>1. Arrived(r) /\ Key(r, s) \in Keys
    BY <1>5, KeyType DEF Expire, TicketInv, PhaseMatchesTicket
  <2>2. k # Key(r, s)
    <3>1. now + Ttl # Immortal
      BY LimitAssumption DEF TypeOK, Windows, Ttl, Immortal
    <3> QED
      BY <1>5, <2>1, <3>1 DEF Expire, TypeOK
  <2>3. counter[k] > 0 /\ expiry[k] = Immortal
    BY <1>5, <2>2 DEF Expire, TypeOK
  <2>4. PICK q \in Requests, z \in Scopes : Arrived(q) /\ Key(q, z) = k /\ phase[q][z] = "expire"
    BY <1>1, <2>3 DEF TtlPending, Arrived
  <2>5. phase'[q][z] = "expire"
    BY <1>5, <2>2, <2>4 DEF Expire, TypeOK
  <2> QED
    BY <2>4, <2>5, Kept DEF TtlPending, Arrived
<1>6. ASSUME NEW r \in Requests, NEW s \in Scopes, IncrResent(r, s) \/ CommandFails(r, s) PROVE FALSE
  BY <1>0, <1>6 DEF IncrResent, CommandFails, Fault
<1>7. CASE Crash
  BY <1>0, <1>7 DEF Crash, Fault
<1>8. CASE Tick
  BY <1>2, <1>8 DEF Tick
<1>9. CASE UNCHANGED vars
  BY <1>2, <1>9 DEF vars
<1> QED
  BY <1>3, <1>4, <1>5, <1>6, <1>7, <1>8, <1>9 DEF Next, Check

\* The requests whose answer is one of the values the counter of k went through.
Holders(k) == {r \in Requests : Arrived(r) /\ Key(r, k[1]) = k /\ ticket[r][k[1]] \in 1..counter[k]}

\* A counter, and an answer, is explained by the requests counted so far, but
\* for the INCRs the client sent twice.
CounterExplained == \A k \in Keys : counter[k] <= Cardinality(Holders(k)) + faults
TicketExplained == \A r \in Requests, s \in Scopes :
                     Ticketed(r, s) => ticket[r][s] <= Cardinality(Rivals(r, s)) + faults + 1
Explained == CounterExplained /\ TicketExplained

\* Sets of requests are finite, and grow with what they hold.
LEMMA RequestsCount ==
  ASSUME NEW S \in SUBSET Requests, NEW T \in SUBSET Requests, S \subseteq T
  PROVE  /\ IsFiniteSet(S) /\ Cardinality(S) \in Nat /\ Cardinality(T) \in Nat
         /\ Cardinality(S) <= Cardinality(T)
<1>1. IsFiniteSet(S) /\ IsFiniteSet(T)
  BY LimitAssumption, FS_Subset
<1> QED
  BY <1>1, FS_Subset, FS_CardinalityType

\* A request's rivals stay its rivals.
LEMMA RivalsStay ==
  ASSUME TypeOK, TicketInv, [Next]_vars, NEW r \in Requests, NEW s \in Scopes, Ticketed(r, s)
  PROVE  Rivals(r, s) \subseteq Rivals(r, s)'
<1> SUFFICES ASSUME NEW q \in Rivals(r, s) PROVE q \in Rivals(r, s)'
  OBVIOUS
<1>1. /\ q \in Requests \ {r} /\ Arrived(q) /\ Key(q, s) = Key(r, s)
      /\ ticket[q][s] \in 1..(ticket[r][s] - 1)
  BY DEF Rivals, Arrived
<1>2. Ticketed(q, s)
  BY <1>1 DEF Ticketed
<1> QED
  BY <1>1, <1>2, Kept DEF Rivals, Ticketed, Arrived

\* The holders of a counter that is not dropped stay its holders.
LEMMA HoldersStay ==
  ASSUME TypeOK, TicketInv, [Next]_vars, NEW k \in Keys, counter'[k] \in Nat, counter'[k] >= counter[k]
  PROVE  Holders(k) \subseteq Holders(k)'
<1> SUFFICES ASSUME NEW q \in Holders(k) PROVE q \in Holders(k)'
  OBVIOUS
<1>0. k[1] \in Scopes /\ counter[k] \in Nat
  BY DEF Keys, TypeOK
<1>1. q \in Requests /\ Arrived(q) /\ Key(q, k[1]) = k /\ ticket[q][k[1]] \in 1..counter[k]
  BY DEF Holders
<1>2. Ticketed(q, k[1])
  BY <1>1 DEF Ticketed
<1>3. ticket'[q][k[1]] \in 1..counter'[k]
  BY <1>0, <1>1, <1>2, Kept
<1> QED
  BY <1>0, <1>1, <1>2, <1>3, Kept DEF Holders

\* An INCR adds its request to the holders of the counter it raises, and its
\* rivals are the holders it found.
LEMMA IncrExplained ==
  ASSUME TypeOK, TicketInv, Explained, NEW r \in Requests, NEW s \in Scopes, Incr(r, s)
  PROVE  Explained'
<1> DEFINE k == Key(r, s)
           count == counter[k] + 1
<1>0. [Next]_vars
  BY DEF Next, Check
<1>1. /\ Arrived(r) /\ k \in Keys /\ k[1] = s /\ Arrived(r)' /\ Key(r, s)' = k
      /\ ticket[r][s] = 0 /\ counter[k] \in Nat /\ count \in Nat \ {0} /\ faults \in Nat
  BY <1>0, KeyType, Kept, LimitAssumption
  DEF Incr, TicketInv, PhaseMatchesTicket, Key, TypeOK
<1>2. /\ counter' = [counter EXCEPT ![k] = count] /\ ticket' = [ticket EXCEPT ![r][s] = count]
      /\ faults' = faults /\ who' = who /\ stamp' = stamp
  BY DEF Incr, requestVars
<1>3. counter'[k] = count /\ ticket'[r][s] = count /\ \A c \in Keys : c # k => counter'[c] = counter[c]
  BY <1>1, <1>2 DEF TypeOK
<1> HIDE DEF k, count
<1>4. count = counter[k] + 1 /\ k = Key(r, s)
  BY DEF k, count
<1>5. Cardinality(Holders(k)) \in Nat /\ IsFiniteSet(Holders(k)) /\ r \notin Holders(k)
  <2>1. Holders(k) \in SUBSET Requests
    BY DEF Holders
  <2> QED
    BY <1>1, <2>1, RequestsCount DEF Holders
<1>6. counter[k] <= Cardinality(Holders(k)) + faults
  BY <1>1 DEF Explained, CounterExplained
<1>7. CounterExplained'
  <2> SUFFICES ASSUME NEW c \in Keys PROVE counter'[c] <= Cardinality(Holders(c)') + faults'
    BY DEF CounterExplained
  <2>0. Holders(c) \in SUBSET Requests /\ Holders(c)' \in SUBSET Requests
    BY DEF Holders
  <2>1. counter'[c] \in Nat /\ counter'[c] >= counter[c]
    BY <1>1, <1>3, <1>4 DEF TypeOK
  <2>2. Holders(c) \subseteq Holders(c)'
    BY <1>0, <2>1, HoldersStay
  <2>3. CASE c = k
    <3>1. r \in Holders(c)'
      <4>1. count \in 1..count
        BY <1>1
      <4> QED
        BY <1>1, <1>3, <2>3, <4>1 DEF Holders
    <3>2. Holders(c) \cup {r} \subseteq Holders(c)'
      BY <2>2, <2>3, <3>1
    <3>3. Cardinality(Holders(c) \cup {r}) = Cardinality(Holders(c)) + 1
      BY <1>5, <2>3, FS_AddElement
    <3>4. Cardinality(Holders(c)) + 1 <= Cardinality(Holders(c)') /\ Cardinality(Holders(c)') \in Nat
      BY <2>0, <2>3, <3>2, <3>3, RequestsCount
    <3> QED
      BY <1>1, <1>2, <1>3, <1>4, <1>5, <1>6, <2>3, <3>4
  <2>4. CASE c # k
    <3>1. counter[c] <= Cardinality(Holders(c)) + faults
      BY DEF Explained, CounterExplained
    <3>2. /\ Cardinality(Holders(c)) <= Cardinality(Holders(c)')
          /\ Cardinality(Holders(c)) \in Nat /\ Cardinality(Holders(c)') \in Nat
      BY <2>0, <2>2, RequestsCount
    <3>3. counter[c] \in Nat
      BY DEF TypeOK
    <3> QED
      BY <1>1, <1>2, <1>3, <2>4, <3>1, <3>2, <3>3
  <2> QED
    BY <2>3, <2>4
<1>8. TicketExplained'
  <2> SUFFICES ASSUME NEW q \in Requests, NEW z \in Scopes, Ticketed(q, z)'
               PROVE  ticket'[q][z] <= Cardinality(Rivals(q, z)') + faults' + 1
    BY DEF TicketExplained
  <2>0. Rivals(q, z) \in SUBSET Requests /\ Rivals(q, z)' \in SUBSET Requests
    BY DEF Rivals
  <2>1. CASE q = r /\ z = s
    <3>1. Holders(k) \subseteq Rivals(r, s)'
      <4> SUFFICES ASSUME NEW p \in Holders(k) PROVE p \in Rivals(r, s)'
        OBVIOUS
      <4>1. p \in Requests \ {r} /\ Arrived(p) /\ Key(p, s) = k /\ ticket[p][s] \in 1..counter[k]
        BY <1>1, <1>5 DEF Holders
      <4>2. ticket'[p][s] \in 1..(count - 1) /\ Arrived(p)' /\ Key(p, s)' = k
        BY <1>0, <1>1, <1>4, <4>1, Kept DEF Ticketed
      <4> QED
        BY <1>1, <1>3, <4>1, <4>2 DEF Rivals, Arrived
    <3>2. /\ Cardinality(Holders(k)) <= Cardinality(Rivals(r, s)')
          /\ Cardinality(Rivals(r, s)') \in Nat
      BY <2>0, <2>1, <3>1, RequestsCount DEF Holders
    <3> QED
      BY <1>1, <1>2, <1>3, <1>4, <1>5, <1>6, <2>1, <3>2
  <2>2. CASE ~(q = r /\ z = s)
    <3>1. Ticketed(q, z) /\ ticket'[q][z] = ticket[q][z] /\ ticket[q][z] \in Nat
      BY <1>2, <2>2 DEF Ticketed, Arrived, TypeOK
    <3>2. ticket[q][z] <= Cardinality(Rivals(q, z)) + faults + 1
      BY <3>1 DEF Explained, TicketExplained
    <3>3. /\ Cardinality(Rivals(q, z)) <= Cardinality(Rivals(q, z)')
          /\ Cardinality(Rivals(q, z)) \in Nat /\ Cardinality(Rivals(q, z)') \in Nat
      BY <1>0, <2>0, <3>1, RivalsStay, RequestsCount
    <3> QED
      BY <1>1, <1>2, <3>1, <3>2, <3>3
  <2> QED
    BY <2>1, <2>2
<1> QED
  BY <1>7, <1>8 DEF Explained

\* A step that answers no INCR raises a counter only by a fault.
LEMMA UnansweredExplained ==
  ASSUME TypeOK, TicketInv, Explained, [Next]_vars, ticket' = ticket,
         \A k \in Keys : \/ counter'[k] = counter[k]
                         \/ counter'[k] = counter[k] + 1 /\ faults' = faults + 1
                         \/ counter'[k] = 0
  PROVE  Explained'
<1>0. faults \in Nat /\ faults' \in Nat /\ faults' >= faults
  BY Kept, LimitAssumption DEF TypeOK
<1>1. CounterExplained'
  <2> SUFFICES ASSUME NEW k \in Keys PROVE counter'[k] <= Cardinality(Holders(k)') + faults'
    BY DEF CounterExplained
  <2>0. /\ Holders(k) \in SUBSET Requests /\ Holders(k)' \in SUBSET Requests
        /\ counter[k] \in Nat /\ counter[k] <= Cardinality(Holders(k)) + faults
    BY DEF Holders, TypeOK, Explained, CounterExplained
  <2>1. Cardinality(Holders(k)) \in Nat /\ Cardinality(Holders(k)') \in Nat
    BY <2>0, RequestsCount
  <2>2. CASE counter'[k] = 0
    BY <1>0, <2>1, <2>2
  <2>3. CASE counter'[k] # 0
    <3>1. counter'[k] \in Nat /\ counter'[k] >= counter[k]
      BY <2>0, <2>3
    <3>2. Cardinality(Holders(k)) <= Cardinality(Holders(k)')
      BY <2>0, <3>1, HoldersStay, RequestsCount
    <3> QED
      BY <1>0, <2>0, <2>1, <2>3, <3>1, <3>2
  <2> QED
    BY <2>2, <2>3
<1>2. TicketExplained'
  <2> SUFFICES ASSUME NEW q \in Requests, NEW z \in Scopes, Ticketed(q, z)'
               PROVE  ticket[q][z] <= Cardinality(Rivals(q, z)') + faults' + 1
    BY DEF TicketExplained
  <2>1. Ticketed(q, z) /\ ticket[q][z] \in Nat
    <3>1. ticket[q][z] # 0
      BY DEF Ticketed, TypeOK
    <3> QED
      BY <3>1 DEF Ticketed, TicketInv, PhaseMatchesTicket, TypeOK
  <2>2. ticket[q][z] <= Cardinality(Rivals(q, z)) + faults + 1
    BY <2>1 DEF Explained, TicketExplained
  <2>3. /\ Cardinality(Rivals(q, z)) <= Cardinality(Rivals(q, z)')
        /\ Cardinality(Rivals(q, z)) \in Nat /\ Cardinality(Rivals(q, z)') \in Nat
    <3>1. Rivals(q, z) \in SUBSET Requests /\ Rivals(q, z)' \in SUBSET Requests
      BY DEF Rivals
    <3> QED
      BY <2>1, <3>1, RivalsStay, RequestsCount
  <2> QED
    BY <1>0, <2>1, <2>2, <2>3
<1> QED
  BY <1>1, <1>2 DEF Explained

\* A step keeps every counter and every answer explained.
LEMMA ExplainedStep == TypeOK /\ TicketInv /\ Explained /\ [Next]_vars => Explained'
<1> SUFFICES ASSUME TypeOK, TicketInv, Explained, [Next]_vars PROVE Explained'
  OBVIOUS
<1> USE DEF redisVars, requestVars
<1>1. ASSUME NEW r \in Requests, Arrive(r) PROVE Explained'
  BY <1>1, UnansweredExplained DEF Arrive
<1>2. ASSUME NEW r \in Requests, NEW s \in Scopes, IncrResent(r, s) PROVE Explained'
  BY <1>2, UnansweredExplained DEF IncrResent, Fault, TypeOK
<1>3. ASSUME NEW r \in Requests, NEW s \in Scopes, Expire(r, s) \/ CommandFails(r, s) PROVE Explained'
  BY <1>3, UnansweredExplained DEF Expire, CommandFails
<1>4. CASE Crash
  BY <1>4, UnansweredExplained DEF Crash
<1>5. CASE Tick
  BY <1>5, UnansweredExplained DEF Tick
<1>6. CASE UNCHANGED vars
  BY <1>6, UnansweredExplained DEF vars
<1> QED
  BY <1>1, <1>2, <1>3, <1>4, <1>5, <1>6, IncrExplained DEF Next, Check

\* In the initial state no counter exists.
LEMMA ExplainedInit == Init => NoImmortalCounter /\ Explained
<1> SUFFICES ASSUME Init PROVE NoImmortalCounter /\ Explained
  OBVIOUS
<1>1. NoImmortalCounter /\ TicketExplained
  BY DEF Init, NoImmortalCounter, TicketExplained, Ticketed, Arrived
<1>2. ASSUME NEW k \in Keys PROVE counter[k] <= Cardinality(Holders(k)) + faults
  <2>1. Holders(k) = {}
    BY DEF Init, Holders, Arrived
  <2> QED
    BY <2>1, FS_EmptySet DEF Init
<1> QED
  BY <1>1, <1>2 DEF Explained, CounterExplained

\* Whoever is refused got an answer above the limit, and an answer is explained.
LEMMA RefusalExplained == TypeOK /\ TicketInv /\ Explained => RefusedOnlyWhenFull
<1> SUFFICES ASSUME TypeOK, TicketInv, Explained, NEW r \in Requests, NEW s \in Scopes, Refused(r, s)
             PROVE  Cardinality(Rivals(r, s)) + faults >= Limit(who[r].offering, s)
  BY DEF RefusedOnlyWhenFull
<1>1. Ticketed(r, s) /\ who[r] \in Memberships
  BY DEF Refused, Decided, TicketInv, PhaseMatchesTicket, Ticketed, Arrived, TypeOK
<1>2. /\ Limit(who[r].offering, s) \in Nat /\ ticket[r][s] \in Nat /\ faults \in Nat
      /\ ~(ticket[r][s] <= Limit(who[r].offering, s))
  BY <1>1, LimitAssumption DEF Limit, Offerings, TypeOK, Refused, Allowed
<1>3. ticket[r][s] <= Cardinality(Rivals(r, s)) + faults + 1
  BY <1>1 DEF Explained, TicketExplained
<1>4. Cardinality(Rivals(r, s)) \in Nat
  BY RequestsCount DEF Rivals
<1> QED
  BY <1>2, <1>3, <1>4

\* A counter without a time to live has a request about to set it, or a fault
\* took that request away: counters do not pile up in Redis.
THEOREM CountersExpire == Spec => []NoImmortalCounter
<1>1. TypeOK /\ TicketInv /\ NoImmortalCounter /\ [Next]_vars
      => TypeOK' /\ TicketInv' /\ NoImmortalCounter'
  BY TypeStep, TicketStep, MortalStep
<1> QED
  BY InitInv, ExplainedInit, <1>1, PTL DEF Spec

\* A request is answered 429 for a scope only if, but for the INCRs sent twice,
\* as many other requests as the limit allows were counted in its window.
THEOREM RefusalsAreDeserved == Spec => []RefusedOnlyWhenFull
<1>1. TypeOK /\ TicketInv /\ Explained /\ [Next]_vars => TypeOK' /\ TicketInv' /\ Explained'
  BY TypeStep, TicketStep, ExplainedStep
<1> QED
  BY InitInv, ExplainedInit, RefusalExplained, <1>1, PTL DEF Spec
==============================================================================
