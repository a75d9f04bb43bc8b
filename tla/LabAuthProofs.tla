----------------------------- MODULE LabAuthProofs -----------------------------
(***************************************************************************)
(* Proofs about LabAuth, for any sets of requests, students, offerings,     *)
(* teams and keys: dead keys stay dead, a context needs a key that was live  *)
(* when the request arrived and an offering active since, its parts fit      *)
(* together, and a request entitled throughout is not refused.               *)
(***************************************************************************)
EXTENDS LabAuth, TLAPS

\* TypeOK in three parts: the tables, the requests and their history.
TablesOK == /\ now \in 0..MaxTime
            /\ status \in [Offerings -> {"absent", "draft", "active", "closed"}]
            /\ cred \in [Rows -> [key : Keys \cup {NoKey}, revoked : BOOLEAN]]
            /\ members \in [Teams -> SUBSET Students]
            /\ issued \subseteq Keys
RequestsOK ==
  /\ stage \in [Requests -> {"idle", "byCode", "gotCode", "verify", "gotKey", "byId", "gotId",
                            "team", "done"}]
  /\ req \in [Requests -> [path : Offerings \cup {NoPath}, key : Keys \cup {NoKey}]]
  /\ found \in [Requests -> {"none", "good", "revoked", "absent", "draft", "active", "closed"}]
  /\ who \in [Requests -> Rows \cup {Anonymous}]
  /\ \A r \in Requests :
       /\ stage[r] \in {"byCode", "gotCode"} => req[r].path \in Offerings
       /\ found[r] = "good" \/ stage[r] \in {"byId", "gotId", "team"} => who[r] \in Rows
  /\ context \in [Requests -> Contexts \cup {NoContext}]
  /\ answer \in [Requests -> Refusals \cup {"none"}]
  /\ \A r \in Requests : IF stage[r] = "done" THEN context[r] = NoContext <=> answer[r] # "none"
                                               ELSE context[r] = NoContext /\ answer[r] = "none"
Histories == [live : BOOLEAN, opened : SUBSET Offerings, active : SUBSET Offerings,
              entitled : BOOLEAN]
SeenOK == seen \in [Requests -> Histories]

\* The parts are TypeOK.
LEMMA TypeParts == TypeOK <=> TablesOK /\ RequestsOK /\ SeenOK
BY DEF TypeOK, TablesOK, RequestsOK, SeenOK, Histories

\* The steps of a request leave the tables alone and keep it answered once.
LEMMA QueryTypes ==
  ASSUME TablesOK, RequestsOK, NEW r \in Requests, Arrive(r) \/ Query(r)
  PROVE  UNCHANGED <<now, tableVars>> /\ RequestsOK'
<1> USE TableAssumption DEF TablesOK, RequestsOK, tableVars, Refusals
<1>1. ASSUME NEW code \in Refusals, Refuse(r, code), UNCHANGED req, stage[r] # "done"
      PROVE  RequestsOK'
  BY <1>1 DEF Refuse
<1>2. ASSUME NEW s \in {"verify", "byId", "team"}, Goto(r, s), UNCHANGED req, stage[r] # "done",
             s = "verify" \/ who[r] \in Rows
      PROVE  RequestsOK'
  BY <1>2 DEF Goto
<1>a. ASSUME NEW o \in Offerings, NEW s \in {"gotCode", "gotId"}, ReadOffering(r, o, s), stage[r] # "done",
             IF s = "gotCode" THEN req[r].path \in Offerings ELSE who[r] \in Rows
      PROVE  UNCHANGED <<now, tableVars>> /\ RequestsOK'
  BY <1>a DEF ReadOffering
<1>3. CASE Arrive(r)
  <2>1. PICK path \in Offerings \cup {NoPath}, key \in issued \cup {NoKey} :
          /\ req' = [req EXCEPT ![r] = [path |-> path, key |-> key]]
          /\ IF path = NoPath THEN CheckHeader(r, key) ELSE Goto(r, "byCode")
    BY <1>3 DEF Arrive
  <2>2. req' \in [Requests -> [path : Offerings \cup {NoPath}, key : Keys \cup {NoKey}]]
    BY <2>1
  <2>3. stage[r] = "idle" /\ UNCHANGED <<now, tableVars>>
    BY <1>3 DEF Arrive
  <2>6. req'[r].path = path /\ \A x \in Requests \ {r} : req'[x] = req[x]
    BY <2>1
  <2>4. ASSUME Refuse(r, "401 missing") PROVE RequestsOK'
    <3>1. stage' = [stage EXCEPT ![r] = "done"] /\ UNCHANGED <<found, who, context>>
      BY <2>4 DEF Refuse
    <3>2. answer' = [answer EXCEPT ![r] = "401 missing"]
      BY <2>4 DEF Refuse
    <3>3. /\ stage' \in [Requests -> {"idle", "byCode", "gotCode", "verify", "gotKey", "byId",
                                      "gotId", "team", "done"}]
          /\ answer' \in [Requests -> Refusals \cup {"none"}]
      BY <3>1, <3>2
    <3>4. \A x \in Requests :
            /\ stage'[x] \in {"byCode", "gotCode"} => req'[x].path \in Offerings
            /\ found'[x] = "good" \/ stage'[x] \in {"byId", "gotId", "team"} => who'[x] \in Rows
      BY <2>6, <3>1
    <3>5. \A x \in Requests :
            IF stage'[x] = "done" THEN context'[x] = NoContext <=> answer'[x] # "none"
                                  ELSE context'[x] = NoContext /\ answer'[x] = "none"
      BY <2>3, <3>1, <3>2
    <3>6. /\ found' \in [Requests -> {"none", "good", "revoked", "absent", "draft", "active", "closed"}]
          /\ who' \in [Requests -> Rows \cup {Anonymous}]
          /\ context' \in [Requests -> Contexts \cup {NoContext}]
      BY <3>1
    <3> HIDE DEF Refusals
    <3> QED
      BY <2>2, <3>3, <3>4, <3>5, <3>6
  <2>5. ASSUME NEW s \in {"byCode", "verify"}, Goto(r, s), s = "byCode" => path \in Offerings
        PROVE  RequestsOK'
    <3>1. stage' = [stage EXCEPT ![r] = s] /\ UNCHANGED <<found, who, context, answer>>
      BY <2>5 DEF Goto
    <3>2. \A x \in Requests : stage'[x] = IF x = r THEN s ELSE stage[x]
      BY <3>1
    <3>3. stage' \in [Requests -> {"idle", "byCode", "gotCode", "verify", "gotKey", "byId",
                                   "gotId", "team", "done"}]
      BY <3>1
    <3>4. \A x \in Requests :
            /\ stage'[x] \in {"byCode", "gotCode"} => req'[x].path \in Offerings
            /\ found'[x] = "good" \/ stage'[x] \in {"byId", "gotId", "team"} => who'[x] \in Rows
      <4>1. ASSUME NEW x \in Requests, x # r
            PROVE  /\ stage'[x] \in {"byCode", "gotCode"} => req'[x].path \in Offerings
                   /\ found'[x] = "good" \/ stage'[x] \in {"byId", "gotId", "team"} => who'[x] \in Rows
        BY <2>6, <3>1, <3>2, <4>1
      <4>2. /\ stage'[r] \in {"byCode", "gotCode"} => req'[r].path \in Offerings
            /\ found'[r] = "good" \/ stage'[r] \in {"byId", "gotId", "team"} => who'[r] \in Rows
        BY <2>5, <2>6, <3>1, <3>2
      <4> QED
        BY <4>1, <4>2
    <3>5. \A x \in Requests :
            IF stage'[x] = "done" THEN context'[x] = NoContext <=> answer'[x] # "none"
                                  ELSE context'[x] = NoContext /\ answer'[x] = "none"
      BY <2>3, <3>1, <3>2
    <3> QED
      BY <2>2, <3>1, <3>3, <3>4, <3>5
  <2> QED
    BY <2>1, <2>3, <2>4, <2>5 DEF CheckHeader
<1>4. CASE FindByCode(r)
  BY <1>4, <1>a DEF FindByCode
<1>b. CASE CheckByCode(r)
  BY <1>1, <1>2, <1>b DEF CheckByCode, CheckHeader
<1>5. CASE FindCredential(r)
  <2>1. /\ stage' = [stage EXCEPT ![r] = "gotKey"] /\ stage[r] = "verify"
        /\ UNCHANGED <<now, tableVars, req, context, answer>>
    BY <1>5 DEF FindCredential
  <2>2. ASSUME NEW row \in Rows, NEW f \in {"revoked", "good"},
               found' = [found EXCEPT ![r] = f], who' = [who EXCEPT ![r] = row]
        PROVE  RequestsOK'
    BY <2>1, <2>2
  <2>3. CASE found' = [found EXCEPT ![r] = "none"] /\ UNCHANGED who
    BY <2>1, <2>3
  <2>4. RowsOf(req[r].key) \subseteq Rows
    BY DEF RowsOf
  <2> QED
    BY <1>5, <2>1, <2>2, <2>3, <2>4 DEF FindCredential
<1>c. CASE Verify(r)
  BY <1>1, <1>2, <1>c DEF Verify
<1>6. CASE FindById(r)
  BY <1>6, <1>a DEF FindById, Rows
<1>d. CASE CheckById(r)
  BY <1>1, <1>2, <1>d DEF CheckById
<1>7. CASE FindTeam(r)
  <2>1. stage[r] = "team" /\ UNCHANGED <<now, tableVars>> /\ UNCHANGED req
    BY <1>7 DEF FindTeam
  <2>2. ASSUME NEW t \in TeamsOf(who[r].student, who[r].offering),
               context' = [context EXCEPT ![r] =
                 [offering |-> who[r].offering, student |-> who[r].student, team |-> t]],
               stage' = [stage EXCEPT ![r] = "done"], UNCHANGED <<found, who, answer>>
        PROVE  RequestsOK'
    <3>1. t \in Teams /\ OfferingOf[t] = who[r].offering
      BY <2>2 DEF TeamsOf
    <3>2. OfferingOf[t] \in Offerings
      BY <3>1
    <3>3. who[r] \in Rows
      BY <1>7 DEF FindTeam
    <3>a. who[r].offering \in Offerings /\ who[r].student \in Students
      BY <3>3 DEF Rows
    <3>4. [offering |-> who[r].offering, student |-> who[r].student, team |-> t] \in Contexts
      BY <3>1, <3>a DEF Contexts
    <3>b. NoContext \notin Contexts
      BY DEF Contexts
    <3>5. context' \in [Requests -> Contexts \cup {NoContext}] /\ context'[r] # NoContext
      BY <2>2, <3>4, <3>b
    <3> QED
      BY <2>1, <2>2, <3>5
  <2> QED
    BY <1>1, <1>7, <2>1, <2>2 DEF FindTeam
<1>8. CASE QueryFails(r)
  <2>1. UNCHANGED <<now, tableVars>> /\ UNCHANGED req
    BY <1>8 DEF QueryFails
  <2>2. Refuse(r, "500") /\ stage[r] # "done"
    BY <1>8 DEF QueryFails
  <2>3. RequestsOK'
    BY <2>1, <2>2, <1>1
  <2> QED
    BY <2>1, <2>3
<1> QED
  BY <1>3, <1>4, <1>5, <1>6, <1>7, <1>8, <1>b, <1>c, <1>d DEF Query

\* Every other step leaves the requests alone.
LEMMA AdminTypes ==
  ASSUME TablesOK, Admin \/ Tick
  PROVE  TablesOK' /\ UNCHANGED requestVars
<1> USE TableAssumption DEF TablesOK, requestVars, tableVars
<1>1. ASSUME NEW o \in Offerings, Create(o) PROVE TablesOK' /\ UNCHANGED requestVars
  BY <1>1 DEF Create
<1>2. ASSUME NEW o \in Offerings, NEW s \in {"active", "closed"}, SetStatus(o, s)
      PROVE  TablesOK' /\ UNCHANGED requestVars
  BY <1>2 DEF SetStatus
<1>3. ASSUME NEW row \in Rows, Issue(row) PROVE TablesOK' /\ UNCHANGED requestVars
  BY <1>3 DEF Issue, NewKeys
<1>4. ASSUME NEW row \in Rows, Revoke(row) PROVE TablesOK' /\ UNCHANGED requestVars
  BY <1>4 DEF Revoke
<1>5. ASSUME NEW t \in Teams, NEW s \in Students, AddMember(t, s)
      PROVE  TablesOK' /\ UNCHANGED requestVars
  BY <1>5 DEF AddMember
<1>6. CASE Tick
  BY <1>6 DEF Tick
<1> QED
  BY <1>1, <1>2, <1>3, <1>4, <1>5, <1>6 DEF Admin

\* What Observe takes in: the offerings set active, and those of a set that are
\* in their window.
Opened == {o \in Offerings : status[o] = "active"}
Windows(os) == {o \in os : InWindow(o)}

\* Observe, request by request, in these words.
LEMMA Observed ==
  ASSUME Observe, NEW r \in Requests
  PROVE  seen'[r] = CASE stage[r] = "idle" /\ stage'[r] # "idle" ->
                           [live |-> Live(req[r].key)', opened |-> Opened',
                            active |-> Windows(Opened)', entitled |-> Entitled(r)']
                      [] stage[r] \notin {"idle", "done"} ->
                           [seen[r] EXCEPT !.opened = @ \cup Opened',
                                           !.active = @ \cup {o \in seen[r].opened \cup Opened' : InWindow(o)'},
                                           !.entitled = @ /\ Entitled(r)']
                      [] OTHER -> seen[r]
BY DEF Observe, Opened, Windows

\* A step that observes keeps the history typed.
LEMMA SeenTypes ==
  ASSUME SeenOK, Observe
  PROVE  SeenOK'
<1> DEFINE DoSee(r) == [live |-> Live(req[r].key)', opened |-> Opened',
                        active |-> Windows(Opened)', entitled |-> Entitled(r)']
           DoAdd(r) == [seen[r] EXCEPT !.opened = @ \cup Opened',
                          !.active = @ \cup {o \in seen[r].opened \cup Opened' : InWindow(o)'},
                          !.entitled = @ /\ Entitled(r)']
<1>1. ASSUME NEW r \in Requests PROVE DoSee(r) \in Histories
  BY DEF Live, Opened, Windows, Entitled, Histories
<1>2. ASSUME NEW r \in Requests PROVE DoAdd(r) \in Histories
  <2>1. seen[r] \in Histories
    BY DEF SeenOK
  <2>2. Entitled(r)' \in BOOLEAN
    BY DEF Entitled
  <2>3. seen[r].opened \subseteq Offerings /\ Opened' \subseteq Offerings
    BY <2>1 DEF Opened, Histories
  <2> QED
    BY <2>1, <2>2, <2>3 DEF Histories
<1>3. ASSUME NEW r \in Requests PROVE seen'[r] \in Histories
  <2>1. seen'[r] = DoSee(r) \/ seen'[r] = DoAdd(r) \/ seen'[r] = seen[r]
    BY Observed
  <2>2. seen[r] \in Histories
    BY DEF SeenOK
  <2> HIDE DEF DoSee, DoAdd
  <2> QED
    BY <1>1, <1>2, <2>1, <2>2
<1>4. seen' = [r \in Requests |-> seen'[r]]
  BY DEF Observe
<1> QED
  BY <1>3, <1>4, Zenon DEF SeenOK

\* Init is typed.
LEMMA TypeInit == Init => TypeOK
BY TableAssumption DEF Init, TypeOK, NoRow, Blank, Unseen, Refusals

\* A step keeps the parts, hence TypeOK.
LEMMA TypeStep == TypeOK /\ [Next]_vars => TypeOK'
<1> SUFFICES ASSUME TypeOK, [Next]_vars PROVE TypeOK'
  OBVIOUS
<1>1. CASE UNCHANGED vars
  BY <1>1 DEF TypeOK, vars, requestVars, tableVars
<1>2. CASE Next
  <2>1. TablesOK /\ RequestsOK /\ SeenOK
    BY TypeParts
  <2>2. SeenOK'
    BY <1>2, <2>1, SeenTypes DEF Next
  <2>3. ASSUME NEW r \in Requests, Arrive(r) \/ Query(r) PROVE TablesOK' /\ RequestsOK'
    BY <2>1, <2>3, QueryTypes DEF TablesOK, tableVars
  <2>4. ASSUME Admin \/ Tick PROVE TablesOK' /\ RequestsOK'
    <3>1. TablesOK' /\ UNCHANGED requestVars
      BY <2>1, <2>4, AdminTypes
    <3> QED
      BY <2>1, <3>1 DEF RequestsOK, requestVars
  <2>5. TablesOK' /\ RequestsOK'
    BY <1>2, <2>3, <2>4, Zenon DEF Next
  <2> QED
    BY <2>2, <2>5 DEF TypeOK, TablesOK, RequestsOK, SeenOK, Histories
<1> QED
  BY <1>1, <1>2

\* Every step keeps the variables in their types, and every request is answered
\* once, with a context or with a refusal.
THEOREM TypeCorrect == Spec => []TypeOK
BY TypeInit, TypeStep, PTL DEF Spec
------------------------------------------------------------------------------
(* Keys *)

\* No step brings a key that was handed out back to life: a new credential has a
\* key nobody has seen, and time and revocations only end lives.
LEMMA LiveShrinks ==
  ASSUME TablesOK, NEW key \in issued, Live(key)', UNCHANGED <<now, tableVars>> \/ Admin \/ Tick
  PROVE  Live(key)
<1> USE TableAssumption DEF TablesOK
<1>1. PICK row \in Rows : /\ cred'[row].key = key /\ ~cred'[row].revoked
                          /\ now' <= ActiveUntil[row.offering]
  BY DEF Live, RowsOf
<1>2. key \in Keys /\ key # NoKey /\ ActiveUntil[row.offering] \in Nat
  BY DEF Rows
<1> SUFFICES cred[row].key = key /\ ~cred[row].revoked /\ now <= ActiveUntil[row.offering]
  BY <1>2 DEF Live, RowsOf
<1>3. CASE UNCHANGED <<now, tableVars>>
  BY <1>1, <1>3 DEF tableVars
<1>4. ASSUME NEW o \in Offerings, Create(o) \/ \E s \in {"active", "closed"} : SetStatus(o, s)
      PROVE  UNCHANGED <<now, cred>>
  BY <1>4 DEF Create, SetStatus
<1>5. ASSUME NEW other \in Rows, Issue(other)
      PROVE  cred[row].key = key /\ ~cred[row].revoked /\ now <= ActiveUntil[row.offering]
  <2>1. PICK new \in Keys \ issued : cred' = [cred EXCEPT ![other] = [key |-> new, revoked |-> FALSE]]
    BY <1>5 DEF Issue, NewKeys
  <2>2. now' = now /\ row # other
    BY <1>1, <1>5, <2>1 DEF Issue
  <2> QED
    BY <1>1, <2>1, <2>2
<1>6. ASSUME NEW other \in Rows, Revoke(other)
      PROVE  cred[row].key = key /\ ~cred[row].revoked /\ now <= ActiveUntil[row.offering]
  BY <1>1, <1>6 DEF Revoke
<1>7. ASSUME NEW t \in Teams, NEW s \in Students, AddMember(t, s) PROVE UNCHANGED <<now, cred>>
  BY <1>7 DEF AddMember
<1>8. CASE Tick
  BY <1>1, <1>2, <1>8 DEF Tick, tableVars
<1> QED
  BY <1>1, <1>3, <1>4, <1>5, <1>6, <1>7, <1>8 DEF Admin

\* What every step is, as the lemmas above see it.
LEMMA StepKinds ==
  ASSUME TypeOK, [Next]_vars
  PROVE  /\ TablesOK /\ RequestsOK /\ SeenOK
         /\ UNCHANGED <<now, tableVars>> \/ Admin \/ Tick
<1>1. TablesOK /\ RequestsOK /\ SeenOK
  BY TypeParts
<1>2. ASSUME NEW r \in Requests, Arrive(r) \/ Query(r) PROVE UNCHANGED <<now, tableVars>>
  BY <1>1, <1>2, QueryTypes
<1>3. UNCHANGED vars => UNCHANGED <<now, tableVars>>
  BY DEF vars
<1> QED
  BY <1>1, <1>2, <1>3, Zenon DEF Next

\* A key that stopped working, by expiry, revocation or renewal, never works
\* again, whatever the dashboard and the imports do.
THEOREM DeadKeysNeverRevive == Spec => DeadKeysStayDead
<1>1. TypeOK /\ [Next]_vars => \A key \in issued : ~Live(key) => ~Live(key)'
  BY StepKinds, LiveShrinks
<1>2. TypeOK /\ [Next]_vars => [\A key \in issued : ~Live(key) => ~Live(key)']_vars
  BY <1>1
<1> QED
  BY <1>2, TypeCorrect, PTL DEF Spec, DeadKeysStayDead
------------------------------------------------------------------------------
(* Contexts *)

\* The verification is behind the request.
Verified(q) == stage[q] \in {"byId", "gotId", "team"} \/ Admitted(q)

\* The verification is behind the request, or it will pass if it reads the clock now.
Holds(q) == \/ Verified(q)
            \/ stage[q] = "gotKey" /\ found[q] = "good" /\ now <= ActiveUntil[who[q].offering]

\* One request's view of a step: it waits, it arrives, or it goes on, and only the
\* row of a live key gets it past the verification.
Waits(q) == stage[q] = "idle" /\ stage'[q] = "idle" /\ context'[q] = context[q]
Arrives(q) == /\ stage[q] = "idle" /\ stage'[q] # "idle" /\ ~Holds(q)'
              /\ req'[q].key \in issued' \cup {NoKey}
GoesOn(q) == /\ stage[q] # "idle" /\ stage'[q] # "idle" /\ req'[q] = req[q]
             /\ Holds(q)' => Holds(q) \/ Live(req[q].key)

\* What a step does to one request: it waits, arrives or goes on.
LEMMA RequestView ==
  ASSUME TypeOK, [Next]_vars, NEW q \in Requests
  PROVE  Waits(q) \/ Arrives(q) \/ GoesOn(q)
<1> USE TableAssumption DEF RequestsOK, Holds, Verified, Admitted
<1>0. TablesOK /\ RequestsOK
  BY TypeParts
<1>1. ASSUME UNCHANGED requestVars, UNCHANGED now \/ Tick PROVE Waits(q) \/ GoesOn(q)
  <2>1. found[q] = "good" => ActiveUntil[who[q].offering] \in Nat
    BY <1>0 DEF Rows
  <2>2. now \in Nat /\ now' \in Nat /\ now <= now'
    BY <1>0, <1>1 DEF TablesOK, Tick
  <2> QED
    BY <1>0, <1>1, <2>1, <2>2 DEF requestVars, Waits, GoesOn
<1>2. ASSUME NEW r \in Requests, Arrive(r) PROVE Waits(q) \/ Arrives(q) \/ GoesOn(q)
  <2>1. PICK path \in Offerings \cup {NoPath}, key \in issued \cup {NoKey} :
          /\ req' = [req EXCEPT ![r] = [path |-> path, key |-> key]]
          /\ IF path = NoPath THEN CheckHeader(r, key) ELSE Goto(r, "byCode")
    BY <1>2 DEF Arrive
  <2>2. stage[r] = "idle" /\ issued' = issued
    BY <1>2 DEF Arrive, tableVars
  <2>3. \E s \in {"byCode", "verify", "done"} : stage' = [stage EXCEPT ![r] = s]
    BY <2>1 DEF CheckHeader, Refuse, Goto
  <2>4. context' = context
    BY <2>1 DEF CheckHeader, Refuse, Goto
  <2>5. CASE q = r
    BY <1>0, <2>1, <2>2, <2>3, <2>4, <2>5 DEF Arrives
  <2>7. UNCHANGED <<now, found, who>>
    BY <1>2, <2>1 DEF Arrive, CheckHeader, Refuse, Goto
  <2>6. CASE q # r
    BY <1>0, <2>1, <2>3, <2>4, <2>6, <2>7 DEF Waits, GoesOn
  <2> QED
    BY <2>5, <2>6
<1>3. ASSUME NEW r \in Requests, Query(r) PROVE Waits(q) \/ GoesOn(q)
  <2>1. req' = req /\ stage[r] # "idle"
    BY <1>3 DEF Query, FindByCode, CheckByCode, FindCredential, Verify, FindById, CheckById,
                FindTeam, QueryFails, ReadOffering
  <2>7. now' = now
    BY <1>0, <1>3, QueryTypes
  <2>2. ASSUME NEW code, Refuse(r, code) PROVE Waits(q) \/ GoesOn(q)
    BY <1>0, <2>1, <2>2, <2>7 DEF Refuse, Waits, GoesOn
  <2>3. CASE FindByCode(r) \/ FindById(r)
    BY <1>0, <2>1, <2>3 DEF FindByCode, FindById, ReadOffering, tableVars, Waits, GoesOn
  <2>8. CASE CheckByCode(r)
    BY <1>0, <2>1, <2>2, <2>8 DEF CheckByCode, CheckHeader, Goto, Waits, GoesOn
  <2>4. CASE FindCredential(r)
    <3>1. ASSUME NEW row \in RowsOf(req[r].key), ~Revoked(row), now <= ActiveUntil[row.offering]
          PROVE  Live(req[r].key)
      BY <3>1 DEF Live, Revoked
    <3>2. stage'[q] = (IF q = r THEN "gotKey" ELSE stage[q]) /\ context' = context /\ now' = now
      BY <1>0, <2>4 DEF FindCredential
    <3>3. CASE q # r
      BY <1>0, <2>1, <2>4, <3>2, <3>3 DEF FindCredential, Waits, GoesOn
    <3>4. CASE q = r /\ found'[q] # "good"
      BY <1>0, <2>1, <2>4, <3>2, <3>4 DEF FindCredential, Waits, GoesOn
    <3>5. CASE q = r /\ found'[q] = "good"
      <4>1. PICK row \in RowsOf(req[r].key) : ~Revoked(row) /\ who' = [who EXCEPT ![r] = row]
        BY <1>0, <2>4, <3>5 DEF FindCredential
      <4>2. who'[q] = row
        BY <1>0, <3>5, <4>1
      <4> QED
        BY <1>0, <2>1, <3>1, <3>2, <3>5, <4>1, <4>2 DEF Waits, GoesOn
    <3> QED
      BY <3>3, <3>4, <3>5
  <2>9. CASE Verify(r)
    <3>1. ASSUME NEW s \in {"byId", "team"}, Goto(r, s), found[r] = "good", ~Expired(who[r].offering)
          PROVE  Waits(q) \/ GoesOn(q)
      <4>1. ActiveUntil[who[r].offering] \in Nat /\ now \in Int
        BY <1>0, <3>1 DEF Rows, TablesOK
      <4>2. now <= ActiveUntil[who[r].offering]
        BY <3>1, <4>1 DEF Expired
      <4> QED
        BY <1>0, <2>1, <2>9, <3>1, <4>2 DEF Verify, Goto, Waits, GoesOn
    <3> QED
      BY <2>2, <2>9, <3>1 DEF Verify
  <2>5. CASE CheckById(r)
    BY <1>0, <2>1, <2>2, <2>5 DEF CheckById, Goto, Waits, GoesOn
  <2>6. CASE FindTeam(r)
    BY <1>0, <2>1, <2>2, <2>6, <2>7 DEF FindTeam, Waits, GoesOn
  <2>10. CASE QueryFails(r)
    BY <2>2, <2>10 DEF QueryFails
  <2> QED
    BY <1>3, <2>3, <2>4, <2>5, <2>6, <2>8, <2>9, <2>10 DEF Query
<1>4. Admin \/ Tick => UNCHANGED requestVars /\ (UNCHANGED now \/ Tick)
  BY <1>0, AdminTypes DEF Admin, Create, SetStatus, Issue, Revoke, AddMember
<1> QED
  BY <1>1, <1>2, <1>3, <1>4, Zenon DEF Next, vars

\* Why no dead key is admitted: the history remembers whether the key was live on
\* arrival, keys only die (LiveShrinks), and the key of a request whose row was good
\* and whose time is not over yet was live when the row was read.
KeyInv == \A q \in Requests :
            /\ stage[q] # "idle" => /\ req[q].key \in issued \cup {NoKey}
                                    /\ Live(req[q].key) => seen[q].live
            /\ Holds(q) => seen[q].live

\* A step keeps KeyInv.
LEMMA KeyStep == TypeOK /\ KeyInv /\ [Next]_vars => KeyInv'
<1> SUFFICES ASSUME TypeOK, KeyInv, [Next]_vars, NEW q \in Requests
             PROVE  /\ stage'[q] # "idle" => /\ req'[q].key \in issued' \cup {NoKey}
                                             /\ Live(req[q].key)' => seen'[q].live
                    /\ Holds(q)' => seen'[q].live
  BY DEF KeyInv
<1>1. TablesOK /\ RequestsOK /\ SeenOK /\ (UNCHANGED <<now, tableVars>> \/ Admin \/ Tick)
  BY StepKinds
<1>2. Waits(q) \/ Arrives(q) \/ GoesOn(q)
  BY RequestView
<1>3. seen'[q] = seen[q] \/ Observe
  BY DEF Next, vars
<1>4. issued \subseteq issued'
  <2>1. Admin => issued \subseteq issued'
    BY DEF Admin, Create, SetStatus, Issue, Revoke, AddMember
  <2> QED
    BY <1>1, <2>1 DEF tableVars, Tick
<1>5. ~Live(NoKey)'
  BY DEF Live, RowsOf
<1>6. CASE Waits(q)
  <2>1. stage'[q] = "idle" /\ context'[q] = context[q] /\ context[q] = NoContext
    BY <1>1, <1>6 DEF Waits, RequestsOK
  <2> QED
    BY <2>1 DEF Holds, Verified, Admitted
<1>7. CASE Arrives(q)
  <2>1. ~UNCHANGED vars
    BY <1>7 DEF Arrives, vars, requestVars
  <2>2. Observe
    BY <2>1 DEF Next
  <2>3. seen'[q] = [live |-> Live(req[q].key)', opened |-> Opened',
                    active |-> Windows(Opened)', entitled |-> Entitled(q)']
    BY <1>7, <2>2, Observed DEF Arrives
  <2>4. seen'[q].live = Live(req[q].key)'
    BY <2>3
  <2> QED
    BY <1>7, <2>4 DEF Arrives
<1>8. CASE GoesOn(q)
  <2>1. seen'[q].live = seen[q].live
    BY <1>1, <1>3, <1>8, Observed DEF GoesOn, SeenOK, Histories
  <2>2. req'[q].key = req[q].key /\ req[q].key \in issued \cup {NoKey}
    BY <1>8 DEF GoesOn, KeyInv
  <2>3. Live(req[q].key)' => Live(req[q].key)
    <3>1. CASE req[q].key = NoKey
      BY <1>5, <2>2, <3>1 DEF Live, RowsOf
    <3>2. ASSUME NEW key \in issued, key = req[q].key PROVE Live(req[q].key)' => Live(req[q].key)
      <4>1. Live(key)' => Live(key)
        BY <1>1, LiveShrinks
      <4> QED
        BY <2>2, <3>2, <4>1 DEF Live, RowsOf
    <3> QED
      BY <2>2, <3>1, <3>2
  <2> QED
    BY <1>4, <1>8, <2>1, <2>2, <2>3, Zenon DEF GoesOn, KeyInv
<1> QED
  BY <1>2, <1>6, <1>7, <1>8

\* A context is given only to a request whose key was live, neither revoked nor
\* expired nor replaced, at the moment the request arrived.
THEOREM AdmissionNeedsLiveKey == Spec => []KeyWasLive
<1>1. Init => TypeOK /\ KeyInv
  BY TypeInit DEF Init, KeyInv, Holds, Verified, Admitted
<1>2. KeyInv => KeyWasLive
  BY DEF KeyInv, KeyWasLive, Holds, Verified
<1> QED
  BY <1>1, <1>2, KeyStep, TypeCorrect, PTL DEF Spec

\* What the credential record carries from the verification to the team query,
\* and what the team query leaves behind.
Fits(q) == /\ context[q].student \in members[context[q].team]
           /\ OfferingOf[context[q].team] = context[q].offering
           /\ req[q].path \in {NoPath, context[q].offering}
PieceInv == \A q \in Requests :
              /\ stage[q] \in {"byId", "gotId", "team"} => req[q].path \in {NoPath, who[q].offering}
              /\ Admitted(q) => Fits(q)

\* A step that neither arrives, verifies nor finds a team keeps the invariant.
LEMMA PieceKept ==
  ASSUME TypeOK, PieceInv, UNCHANGED <<req, who, context>>, NEW q \in Requests,
         stage'[q] \in {"byId", "gotId", "team"} => stage[q] \in {"byId", "gotId", "team"},
         \A t \in Teams : members[t] \subseteq members'[t]
  PROVE  /\ stage'[q] \in {"byId", "gotId", "team"} => req'[q].path \in {NoPath, who'[q].offering}
         /\ Admitted(q)' => Fits(q)'
<1>1. Admitted(q) => context[q].team \in Teams
  BY DEF TypeOK, Contexts, Admitted
<1> QED
  BY <1>1 DEF PieceInv, Fits, Admitted

\* A step keeps PieceInv.
LEMMA PieceStep == TypeOK /\ PieceInv /\ [Next]_vars => PieceInv'
<1> SUFFICES ASSUME TypeOK, PieceInv, [Next]_vars, NEW q \in Requests
             PROVE  /\ stage'[q] \in {"byId", "gotId", "team"} => req'[q].path \in {NoPath, who'[q].offering}
                    /\ Admitted(q)' => Fits(q)'
  BY DEF PieceInv
<1> DEFINE Goal == /\ stage'[q] \in {"byId", "gotId", "team"} => req'[q].path \in {NoPath, who'[q].offering}
                   /\ Admitted(q)' => Fits(q)'
<1>0. TablesOK /\ RequestsOK
  BY TypeParts
<1>1. UNCHANGED vars => Goal
  BY PieceKept DEF vars, requestVars, tableVars
<1>2. ASSUME Admin \/ Tick PROVE Goal
  <2>1. UNCHANGED requestVars
    BY <1>0, <1>2, AdminTypes
  <2>2. \A t \in Teams : members[t] \subseteq members'[t]
    BY <1>0, <1>2 DEF TablesOK, Admin, Create, SetStatus, Issue, Revoke, AddMember, Tick, tableVars
  <2> QED
    BY <2>1, <2>2, PieceKept DEF requestVars
<1>3. ASSUME NEW r \in Requests, Arrive(r) PROVE Goal
  <2>2. UNCHANGED <<who, context, members>>
    BY <1>3 DEF Arrive, CheckHeader, Refuse, Goto, tableVars
  <2>3. stage[r] = "idle"
    BY <1>3 DEF Arrive
  <2>4. q # r => req'[q] = req[q] /\ stage'[q] = stage[q]
    BY <1>0, <1>3 DEF RequestsOK, Arrive, CheckHeader, Refuse, Goto
  <2>5. CASE q = r
    <3>1. ~Admitted(q)' /\ stage'[q] \notin {"byId", "gotId", "team"}
      <4>1. context[q] = NoContext
        BY <1>0, <2>3, <2>5 DEF RequestsOK
      <4>2. stage'[r] \in {"byCode", "verify", "done"}
        BY <1>0, <1>3 DEF RequestsOK, Arrive, CheckHeader, Refuse, Goto
      <4> QED
        BY <2>2, <2>5, <4>1, <4>2 DEF Admitted
    <3> QED
      BY <3>1
  <2>6. CASE q # r
    BY <2>2, <2>4, <2>6 DEF PieceInv, Admitted, Fits
  <2> QED
    BY <2>5, <2>6
<1>4. ASSUME NEW r \in Requests, Query(r) PROVE Goal
  <2>1. UNCHANGED <<req, members, now, status, cred>> /\ stage[r] # "idle"
    BY <1>4 DEF Query, FindByCode, CheckByCode, FindCredential, Verify, FindById, CheckById,
                FindTeam, QueryFails, ReadOffering, tableVars
  <2>2. ASSUME NEW code, Refuse(r, code) PROVE Goal
    BY <1>0, <2>1, <2>2, PieceKept DEF RequestsOK, Refuse
  <2>3. CASE FindByCode(r) \/ FindById(r)
    BY <1>0, <2>1, <2>3, PieceKept DEF RequestsOK, FindByCode, FindById, ReadOffering
  <2>8. CASE CheckByCode(r)
    BY <1>0, <2>1, <2>2, <2>8, PieceKept DEF RequestsOK, CheckByCode, CheckHeader, Goto
  <2>9. CASE FindCredential(r)
    <3>1. who'[q] = who[q] \/ stage'[q] = "gotKey"
      BY <1>0, <2>9 DEF RequestsOK, FindCredential
    <3>2. /\ stage'[q] # stage[q] => stage'[q] = "gotKey"
          /\ context' = context
      BY <1>0, <2>9 DEF RequestsOK, FindCredential
    <3> QED
      BY <2>1, <3>1, <3>2 DEF PieceInv, Fits, Admitted
  <2>4. CASE Verify(r)
    <3>1. ASSUME NEW s, Goto(r, s), ~Foreign(r, who[r].offering) PROVE Goal
      <4>1. req[r].path \in {NoPath, who[r].offering}
        BY <3>1 DEF Foreign
      <4>2. who' = who /\ context' = context /\ (q # r => stage'[q] = stage[q])
        BY <1>0, <3>1 DEF RequestsOK, Goto
      <4> QED
        BY <2>1, <4>1, <4>2 DEF PieceInv, Fits, Admitted
    <3> QED
      BY <2>2, <2>4, <3>1 DEF Verify
  <2>5. CASE CheckById(r)
    BY <1>0, <2>1, <2>2, <2>5, PieceKept DEF RequestsOK, CheckById, Goto
  <2>6. CASE FindTeam(r)
    <3>1. ASSUME NEW t \in TeamsOf(who[r].student, who[r].offering),
                 context' = [context EXCEPT ![r] =
                   [offering |-> who[r].offering, student |-> who[r].student, team |-> t]],
                 stage' = [stage EXCEPT ![r] = "done"], UNCHANGED <<found, who, answer>>
          PROVE  Goal
      <4>1. who[r].student \in members[t] /\ OfferingOf[t] = who[r].offering
        BY <3>1 DEF TeamsOf
      <4>2. req[r].path \in {NoPath, who[r].offering}
        BY <2>6 DEF FindTeam, PieceInv
      <4>3. CASE q = r
        <5>1. context'[q] = [offering |-> who[r].offering, student |-> who[r].student, team |-> t]
          BY <1>0, <3>1, <4>3 DEF RequestsOK
        <5>2. /\ context'[q].offering = who[r].offering
              /\ context'[q].student = who[r].student
              /\ context'[q].team = t
          BY <5>1
        <5>3. stage'[q] = "done"
          BY <1>0, <3>1, <4>3 DEF RequestsOK
        <5>4. Fits(q)'
          BY <2>1, <4>1, <4>2, <4>3, <5>2 DEF Fits
        <5> QED
          BY <5>3, <5>4
      <4>4. CASE q # r
        BY <1>0, <2>1, <3>1, <4>4 DEF RequestsOK, PieceInv, Admitted, Fits
      <4> QED
        BY <4>3, <4>4
    <3> QED
      BY <2>2, <2>6, <3>1 DEF FindTeam
  <2>7. CASE QueryFails(r)
    BY <2>2, <2>7 DEF QueryFails
  <2> QED
    BY <1>4, <2>3, <2>4, <2>5, <2>6, <2>7, <2>8, <2>9 DEF Query
<1> QED
  BY <1>1, <1>2, <1>3, <1>4, Zenon DEF Next

\* The student of a context is in its team, its team in its offering, and the
\* offering is the one of the path, although they are read by separate queries.
THEOREM ContextsFit == Spec => []ContextOfOnePiece
<1>1. Init => TypeOK /\ PieceInv
  BY TypeInit DEF Init, PieceInv, Admitted
<1>2. PieceInv => ContextOfOnePiece
  BY DEF PieceInv, ContextOfOnePiece, Fits
<1> QED
  BY <1>1, <1>2, PieceStep, TypeCorrect, PTL DEF Spec
------------------------------------------------------------------------------
(* One request's step *)

\* A step leaves a request alone, or is its arrival or one of its queries.
Untouched(q) == /\ stage'[q] = stage[q] /\ req'[q] = req[q]
                /\ found'[q] = found[q] /\ who'[q] = who[q]
                /\ context'[q] = context[q] /\ answer'[q] = answer[q]

\* The history of an offering read long before the rest: an offering whose row was
\* read active was set active since the request arrived, and one that passed the
\* check was then or later in its window.
ActiveInv == \A q \in Requests :
  /\ seen[q].active \subseteq seen[q].opened
  /\ stage[q] = "gotCode" /\ found[q] = "active" => req[q].path \in seen[q].opened
  /\ stage[q] = "gotId" /\ found[q] = "active" => who[q].offering \in seen[q].opened
  /\ stage[q] \in {"verify", "gotKey"} => req[q].path \in seen[q].active \cup {NoPath}
  /\ stage[q] = "team" => who[q].offering \in seen[q].active
  /\ Admitted(q) => context[q].offering \in seen[q].active

\* A key handed out names at most one credential.
KeysDiffer == /\ \A row \in Rows : cred[row].key \in issued \cup {NoKey}
              /\ \A row, other \in Rows :
                   cred[row].key = cred[other].key /\ cred[row].key # NoKey => row = other

\* While a request has been entitled, what it read so far is what entitles it.
FairInv == \A q \in Requests :
  /\ stage[q] \notin {"idle", "done"} /\ seen[q].entitled => Entitled(q)
  /\ stage[q] \in {"gotKey", "byId", "gotId", "team"} /\ seen[q].entitled =>
       who[q] \in RowsOf(req[q].key)
  /\ stage[q] = "gotKey" /\ seen[q].entitled => found[q] = "good"
  /\ stage[q] \in {"gotCode", "gotId"} /\ seen[q].entitled => found[q] = "active"
  /\ stage[q] = "done" /\ seen[q].entitled => Admitted(q) \/ answer[q] = "500"

\* A step touches at most one request; a request's own step leaves the tables alone.
LEMMA RequestStep ==
  ASSUME TypeOK, [Next]_vars, NEW q \in Requests
  PROVE  Untouched(q) \/ ((Arrive(q) \/ Query(q)) /\ UNCHANGED <<now, tableVars>>)
<1>0. TablesOK /\ RequestsOK
  BY TypeParts
<1> USE DEF RequestsOK, Untouched
<1>1. UNCHANGED requestVars => Untouched(q)
  BY DEF requestVars
<1>2. ASSUME NEW r \in Requests, Arrive(r), r # q PROVE Untouched(q)
  BY <1>0, <1>2 DEF Arrive, CheckHeader, Refuse, Goto
<1>3. ASSUME NEW r \in Requests, Query(r), r # q PROVE Untouched(q)
  <2>1. ASSUME NEW code, Refuse(r, code), req' = req PROVE Untouched(q)
    BY <1>0, <1>3, <2>1 DEF Refuse
  <2>2. ASSUME NEW s, Goto(r, s), req' = req PROVE Untouched(q)
    BY <1>0, <1>3, <2>2 DEF Goto
  <2>3. CASE FindByCode(r) \/ FindById(r)
    BY <1>0, <1>3, <2>3 DEF FindByCode, FindById, ReadOffering
  <2>8. CASE CheckByCode(r)
    BY <2>1, <2>2, <2>8 DEF CheckByCode, CheckHeader
  <2>9. CASE FindCredential(r)
    BY <1>0, <1>3, <2>9 DEF FindCredential
  <2>4. CASE Verify(r)
    BY <2>1, <2>2, <2>4 DEF Verify
  <2>5. CASE CheckById(r)
    BY <2>1, <2>2, <2>5 DEF CheckById
  <2>6. CASE FindTeam(r)
    BY <1>0, <1>3, <2>1, <2>6 DEF FindTeam
  <2>7. CASE QueryFails(r)
    BY <2>1, <2>7 DEF QueryFails
  <2> QED
    BY <1>3, <2>3, <2>4, <2>5, <2>6, <2>7, <2>8, <2>9 DEF Query
<1>4. Arrive(q) \/ Query(q) => UNCHANGED <<now, tableVars>>
  BY <1>0, QueryTypes
<1>5. Admin \/ Tick => UNCHANGED requestVars
  BY <1>0, AdminTypes
<1> QED
  BY <1>1, <1>2, <1>3, <1>4, <1>5, Zenon DEF Next, vars

\* What a step adds to the history of one request.
LEMMA SeenStep ==
  ASSUME TypeOK, [Next]_vars, NEW q \in Requests
  PROVE  /\ stage[q] = "idle" /\ stage'[q] # "idle" =>
              /\ seen'[q].active \subseteq seen'[q].opened
              /\ seen'[q].entitled = Entitled(q)'
         /\ stage[q] \notin {"idle", "done"} =>
              /\ seen[q].opened \subseteq seen'[q].opened
              /\ seen[q].active \subseteq seen'[q].active
              /\ seen'[q].active \subseteq seen[q].active \cup seen'[q].opened
              /\ seen'[q].entitled => seen[q].entitled /\ (Entitled(q)' \/ UNCHANGED vars)
              /\ \/ UNCHANGED vars
                 \/ /\ Opened' \subseteq seen'[q].opened
                    /\ \A o \in seen[q].opened : InWindow(o)' => o \in seen'[q].active
         /\ stage[q] = "done" \/ stage'[q] = "idle" => seen'[q] = seen[q]
<1>0. RequestsOK /\ SeenOK
  BY TypeParts
<1>1. CASE UNCHANGED vars
  BY <1>0, <1>1 DEF vars, requestVars
<1>2. CASE Observe
  <2>1. CASE stage[q] = "idle" /\ stage'[q] # "idle"
    <3>1. seen'[q] = [live |-> Live(req[q].key)', opened |-> Opened',
                      active |-> Windows(Opened)', entitled |-> Entitled(q)']
      BY <1>2, <2>1, Observed
    <3>2. /\ seen'[q].opened = Opened' /\ seen'[q].active = Windows(Opened)'
          /\ seen'[q].entitled = Entitled(q)'
      BY <3>1
    <3> QED
      BY <2>1, <3>2 DEF Windows
  <2>2. CASE stage[q] \notin {"idle", "done"}
    <3>1. seen'[q] = [seen[q] EXCEPT !.opened = @ \cup Opened',
                        !.active = @ \cup {o \in seen[q].opened \cup Opened' : InWindow(o)'},
                        !.entitled = @ /\ Entitled(q)']
      BY <1>2, <2>2, Observed
    <3>2. /\ seen'[q].opened = seen[q].opened \cup Opened'
          /\ seen'[q].active = seen[q].active \cup {o \in seen[q].opened \cup Opened' : InWindow(o)'}
          /\ seen'[q].entitled = (seen[q].entitled /\ Entitled(q)')
      BY <1>0, <3>1 DEF SeenOK, Histories
    <3>3. stage'[q] # "idle"
      <4>1. ~Waits(q)
        BY <2>2 DEF Waits
      <4> QED
        BY <2>2, <4>1, RequestView DEF Arrives, GoesOn
    <3> QED
      BY <2>2, <3>2, <3>3
  <2>3. CASE stage[q] = "done" \/ (stage[q] = "idle" /\ stage'[q] = "idle")
    <3>1. seen'[q] = seen[q]
      BY <1>2, <2>3, Observed
    <3> QED
      BY <2>3, <3>1
  <2> QED
    BY <2>1, <2>2, <2>3
<1> QED
  BY <1>1, <1>2 DEF Next

\* An arriving request is at the first of its queries, or refused for its header.
LEMMA ArriveStep ==
  ASSUME TypeOK, NEW q \in Requests, Arrive(q)
  PROVE  /\ stage[q] = "idle" /\ context'[q] = NoContext
         /\ \/ stage'[q] = "byCode"
            \/ stage'[q] = "verify" /\ req'[q].path = NoPath
            \/ stage'[q] = "done" /\ req'[q].key = NoKey
<1>0. RequestsOK
  BY TypeParts
<1>1. PICK path \in Offerings \cup {NoPath}, key \in issued \cup {NoKey} :
        /\ req' = [req EXCEPT ![q] = [path |-> path, key |-> key]]
        /\ IF path = NoPath THEN CheckHeader(q, key) ELSE Goto(q, "byCode")
  BY DEF Arrive
<1>2. req'[q].path = path /\ req'[q].key = key
  BY <1>0, <1>1 DEF RequestsOK
<1>3. stage[q] = "idle" /\ context' = context /\ context[q] = NoContext
  BY <1>0, <1>1 DEF RequestsOK, Arrive, CheckHeader, Refuse, Goto
<1>4. CASE path = NoPath /\ key = NoKey
  BY <1>0, <1>1, <1>2, <1>3, <1>4 DEF RequestsOK, CheckHeader, Refuse
<1>5. CASE path = NoPath /\ key # NoKey
  BY <1>0, <1>1, <1>2, <1>3, <1>5 DEF RequestsOK, CheckHeader, Goto
<1>6. CASE path # NoPath
  BY <1>0, <1>1, <1>2, <1>3, <1>6 DEF RequestsOK, Goto
<1> QED
  BY <1>4, <1>5, <1>6

\* What a query does to its request: it is refused, or goes on for a reason.
Refused(q) == stage'[q] = "done" /\ context'[q] = NoContext
Keeps == UNCHANGED <<found, who, context>>
QueryView(q) ==
  \/ Refused(q)
  \/ /\ stage[q] = "byCode" /\ stage'[q] = "gotCode" /\ found'[q] = status[req[q].path]
     /\ UNCHANGED <<who, context>>
  \/ /\ stage[q] = "gotCode" /\ stage'[q] = "verify" /\ IsActive(req[q].path, found[q]) /\ Keeps
  \/ stage[q] = "verify" /\ stage'[q] = "gotKey" /\ UNCHANGED context
  \/ /\ stage[q] = "gotKey" /\ Keeps
     /\ IF req[q].path = NoPath THEN stage'[q] = "byId"
                                ELSE stage'[q] = "team" /\ req[q].path = who[q].offering
  \/ /\ stage[q] = "byId" /\ stage'[q] = "gotId" /\ found'[q] = status[who[q].offering]
     /\ UNCHANGED <<who, context>>
  \/ /\ stage[q] = "gotId" /\ stage'[q] = "team" /\ IsActive(who[q].offering, found[q]) /\ Keeps
  \/ stage[q] = "team" /\ stage'[q] = "done" /\ context'[q].offering = who[q].offering

\* Every query does one of these.
LEMMA QueryStep ==
  ASSUME TypeOK, NEW q \in Requests, Query(q)
  PROVE  QueryView(q) /\ req' = req /\ stage[q] \notin {"idle", "done"}
<1>0. RequestsOK
  BY TypeParts
<1> USE DEF RequestsOK, Keeps
<1>1. stage[q] \notin {"idle", "done"} /\ req' = req /\ context[q] = NoContext
  BY <1>0 DEF Query, FindByCode, CheckByCode, FindCredential, Verify, FindById, CheckById,
              FindTeam, QueryFails, ReadOffering
<1>2. ASSUME NEW code, Refuse(q, code) PROVE QueryView(q)
  BY <1>0, <1>1, <1>2 DEF Refuse, QueryView, Refused
<1>3. CASE FindByCode(q) \/ FindById(q)
  BY <1>0, <1>3 DEF FindByCode, FindById, ReadOffering, QueryView
<1>8. CASE CheckByCode(q)
  BY <1>0, <1>2, <1>8 DEF CheckByCode, CheckHeader, Goto, QueryView
<1>9. CASE FindCredential(q)
  BY <1>0, <1>9 DEF FindCredential, QueryView
<1>4. CASE Verify(q)
  BY <1>0, <1>2, <1>4 DEF Verify, Foreign, Goto, QueryView
<1>5. CASE CheckById(q)
  BY <1>0, <1>2, <1>5 DEF CheckById, MayUse, Goto, QueryView
<1>6. CASE FindTeam(q)
  <2>1. ASSUME NEW t,
               context' = [context EXCEPT ![q] =
                 [offering |-> who[q].offering, student |-> who[q].student, team |-> t]],
               stage' = [stage EXCEPT ![q] = "done"]
        PROVE  QueryView(q)
    <3>1. context'[q] = [offering |-> who[q].offering, student |-> who[q].student, team |-> t]
      BY <1>0, <2>1
    <3>2. context'[q].offering = who[q].offering
      BY <3>1
    <3> QED
      BY <1>0, <1>6, <2>1, <3>2 DEF FindTeam, QueryView
  <2> QED
    BY <1>2, <1>6, <2>1 DEF FindTeam
<1>7. CASE QueryFails(q)
  BY <1>2, <1>7 DEF QueryFails
<1> QED
  BY <1>1, <1>3, <1>4, <1>5, <1>6, <1>7, <1>8, <1>9 DEF Query

\* A step keeps ActiveInv: the history takes in the status a query reads, and later
\* the window the code after it sees.
LEMMA ActiveStep == TypeOK /\ ActiveInv /\ [Next]_vars => ActiveInv'
<1> SUFFICES ASSUME TypeOK, ActiveInv, [Next]_vars, NEW q \in Requests
             PROVE  /\ seen'[q].active \subseteq seen'[q].opened
                    /\ stage'[q] = "gotCode" /\ found'[q] = "active" => req'[q].path \in seen'[q].opened
                    /\ stage'[q] = "gotId" /\ found'[q] = "active" => who'[q].offering \in seen'[q].opened
                    /\ stage'[q] \in {"verify", "gotKey"} => req'[q].path \in seen'[q].active \cup {NoPath}
                    /\ stage'[q] = "team" => who'[q].offering \in seen'[q].active
                    /\ Admitted(q)' => context'[q].offering \in seen'[q].active
  BY DEF ActiveInv
<1> USE DEF Admitted
<1>0. RequestsOK /\ SeenOK
  BY TypeParts
<1>1. CASE Untouched(q)
  <2>1. /\ seen[q].active \subseteq seen'[q].active /\ seen[q].opened \subseteq seen'[q].opened
        /\ seen'[q].active \subseteq seen[q].active \cup seen'[q].opened
    BY <1>0, <1>1, SeenStep DEF Untouched, ActiveInv
  <2> QED
    BY <1>1, <2>1 DEF Untouched, ActiveInv
<1>2. CASE Arrive(q)
  <2>1. stage[q] = "idle" /\ stage'[q] # "idle"
    BY <1>2, ArriveStep
  <2>2. stage'[q] \notin {"gotCode", "gotId", "gotKey", "team"}
    BY <1>2, ArriveStep
  <2>3. context'[q] = NoContext /\ (stage'[q] = "verify" => req'[q].path = NoPath)
    BY <1>2, ArriveStep
  <2> QED
    BY <2>1, <2>2, <2>3, SeenStep
<1>3. CASE Query(q) /\ UNCHANGED <<now, tableVars>>
  <2>1. QueryView(q) /\ req' = req /\ stage[q] \notin {"idle", "done"} /\ context[q] = NoContext
    BY <1>0, <1>3, QueryStep DEF RequestsOK
  <2>2. /\ seen[q].active \subseteq seen'[q].active /\ seen[q].opened \subseteq seen'[q].opened
        /\ seen'[q].active \subseteq seen'[q].opened
    BY <2>1, SeenStep DEF ActiveInv
  <2>3. stage'[q] # stage[q] =>
          /\ Opened' \subseteq seen'[q].opened
          /\ \A o \in seen[q].opened : InWindow(o)' => o \in seen'[q].active
    BY <2>1, SeenStep DEF vars, requestVars
  <2>4. ASSUME NEW o \in Offerings, status[o] = "active", stage'[q] # stage[q]
        PROVE  o \in seen'[q].opened
    BY <1>3, <2>3, <2>4 DEF Opened, tableVars
  <2>10. ASSUME NEW o \in seen[q].opened, IsActive(o, found[q]), stage'[q] # stage[q]
         PROVE  o \in seen'[q].active
    BY <1>3, <2>3, <2>10 DEF IsActive, InWindow
  <2>5. CASE Refused(q)
    BY <2>2, <2>5 DEF Refused
  <2>6. CASE /\ stage[q] = "byCode" /\ stage'[q] = "gotCode" /\ found'[q] = status[req[q].path]
             /\ UNCHANGED <<who, context>>
    <3>1. req[q].path \in Offerings
      BY <1>0, <2>6 DEF RequestsOK
    <3> QED
      BY <2>1, <2>2, <2>4, <2>6, <3>1
  <2>7. CASE stage[q] = "gotCode" /\ stage'[q] = "verify" /\ IsActive(req[q].path, found[q]) /\ Keeps
    <3>1. req[q].path \in seen[q].opened
      BY <2>7 DEF ActiveInv, IsActive
    <3>2. req[q].path \in seen'[q].active
      BY <2>7, <2>10, <3>1
    <3> QED
      BY <2>1, <2>2, <2>7, <3>2 DEF Keeps
  <2>8. CASE stage[q] = "verify" /\ stage'[q] = "gotKey" /\ UNCHANGED context
    BY <2>1, <2>2, <2>8 DEF ActiveInv
  <2>9. CASE /\ stage[q] = "gotKey" /\ Keeps
             /\ IF req[q].path = NoPath THEN stage'[q] = "byId"
                                        ELSE stage'[q] = "team" /\ req[q].path = who[q].offering
    BY <2>1, <2>2, <2>9 DEF ActiveInv, Keeps
  <2>11. CASE /\ stage[q] = "byId" /\ stage'[q] = "gotId" /\ found'[q] = status[who[q].offering]
              /\ UNCHANGED <<who, context>>
    <3>1. who[q].offering \in Offerings
      BY <1>0, <2>11 DEF RequestsOK, Rows
    <3> QED
      BY <2>1, <2>2, <2>4, <2>11, <3>1
  <2>12. CASE stage[q] = "gotId" /\ stage'[q] = "team" /\ IsActive(who[q].offering, found[q]) /\ Keeps
    <3>1. who[q].offering \in seen[q].opened
      BY <2>12 DEF ActiveInv, IsActive
    <3>2. who[q].offering \in seen'[q].active
      BY <2>12, <2>10, <3>1
    <3> QED
      BY <2>1, <2>2, <2>12, <3>2 DEF Keeps
  <2>13. CASE stage[q] = "team" /\ stage'[q] = "done" /\ context'[q].offering = who[q].offering
    BY <2>2, <2>13 DEF ActiveInv
  <2> QED
    BY <2>1, <2>5, <2>6, <2>7, <2>8, <2>9, <2>11, <2>12, <2>13 DEF QueryView
<1> QED
  BY <1>1, <1>2, <1>3, RequestStep

\* The offering of every context was set active at some moment since its request
\* arrived and, then or later, in its window: its row is read before the clock is,
\* and up to three other queries run before the answer.
THEOREM ContextsWereActive == Spec => []OfferingWasActive
<1>1. Init => TypeOK /\ ActiveInv
  BY TypeInit DEF Init, ActiveInv, Admitted, Unseen
<1>2. ActiveInv => OfferingWasActive
  BY DEF ActiveInv, OfferingWasActive
<1> QED
  BY <1>1, <1>2, ActiveStep, TypeCorrect, PTL DEF Spec
------------------------------------------------------------------------------
(* Refusals *)

\* Every credential's key was handed out, and to nobody else: a new one is drawn
\* from the keys not handed out yet.
LEMMA KeysStep == TypeOK /\ KeysDiffer /\ [Next]_vars => KeysDiffer'
<1> SUFFICES ASSUME TypeOK, KeysDiffer, [Next]_vars PROVE KeysDiffer'
  OBVIOUS
<1>0. TablesOK /\ (UNCHANGED <<now, tableVars>> \/ Admin \/ Tick)
  BY StepKinds
<1>1. UNCHANGED <<cred, issued>> => KeysDiffer'
  BY DEF KeysDiffer
<1>2. ASSUME NEW row \in Rows, Issue(row) PROVE KeysDiffer'
  <2>1. PICK key \in Keys \ issued : /\ cred' = [cred EXCEPT ![row] = [key |-> key, revoked |-> FALSE]]
                                     /\ issued' = issued \cup {key}
    BY <1>2 DEF Issue, NewKeys
  <2>2. \A other \in Rows : cred'[other].key = IF other = row THEN key ELSE cred[other].key
    BY <1>0, <2>1 DEF TablesOK
  <2>3. key # NoKey
    BY <2>1, TableAssumption
  <2> QED
    BY <2>1, <2>2, <2>3 DEF KeysDiffer
<1>3. ASSUME NEW row \in Rows, Revoke(row) PROVE KeysDiffer'
  <2>1. \A other \in Rows : cred'[other].key = cred[other].key
    BY <1>0, <1>3 DEF Revoke, TablesOK
  <2> QED
    BY <1>3, <2>1 DEF Revoke, KeysDiffer
<1>4. ASSUME NEW o \in Offerings, Create(o) \/ \E s \in {"active", "closed"} : SetStatus(o, s)
      PROVE  UNCHANGED <<cred, issued>>
  BY <1>4 DEF Create, SetStatus
<1>5. ASSUME NEW t \in Teams, NEW s \in Students, AddMember(t, s) PROVE UNCHANGED <<cred, issued>>
  BY <1>5 DEF AddMember
<1>6. Tick \/ UNCHANGED <<now, tableVars>> => UNCHANGED <<cred, issued>>
  BY DEF Tick, tableVars
<1> QED
  BY <1>0, <1>1, <1>2, <1>3, <1>4, <1>5, <1>6, Zenon DEF Admin

\* A key that was handed out gains no credential.
LEMMA RowsShrink ==
  ASSUME TypeOK, [Next]_vars, NEW key \in issued \cup {NoKey}
  PROVE  \A row \in Rows : cred'[row].key = key /\ key # NoKey => cred[row].key = key
<1>0. TablesOK /\ (UNCHANGED <<now, tableVars>> \/ Admin \/ Tick)
  BY StepKinds
<1> SUFFICES ASSUME NEW row \in Rows, cred'[row].key = key, key # NoKey PROVE cred[row].key = key
  OBVIOUS
<1>1. ASSUME NEW other \in Rows, Issue(other) PROVE cred[row].key = key
  <2>1. PICK new \in Keys \ issued : cred' = [cred EXCEPT ![other] = [key |-> new, revoked |-> FALSE]]
    BY <1>1 DEF Issue, NewKeys
  <2>2. row # other
    BY <1>0, <2>1 DEF TablesOK
  <2> QED
    BY <1>0, <2>1, <2>2 DEF TablesOK
<1>2. ASSUME NEW other \in Rows, Revoke(other) PROVE cred[row].key = key
  BY <1>0, <1>2 DEF Revoke, TablesOK
<1>3. ASSUME NEW o \in Offerings, Create(o) \/ \E s \in {"active", "closed"} : SetStatus(o, s)
      PROVE  cred' = cred
  BY <1>3 DEF Create, SetStatus
<1>4. ASSUME NEW t \in Teams, NEW s \in Students, AddMember(t, s) PROVE cred' = cred
  BY <1>4 DEF AddMember
<1>5. Tick \/ UNCHANGED <<now, tableVars>> => cred' = cred
  BY DEF Tick, tableVars
<1> QED
  BY <1>0, <1>1, <1>2, <1>3, <1>4, <1>5 DEF Admin

\* An entitled request is not refused by the query it is at, but for a failure.
LEMMA EntitledQuery ==
  ASSUME TypeOK, KeysDiffer, FairInv, NEW q \in Requests, Query(q), seen[q].entitled
  PROVE  \/ stage'[q] = "verify"
         \/ stage'[q] = "gotCode" /\ found'[q] = "active"
         \/ stage'[q] = "gotKey" /\ found'[q] = "good" /\ who'[q] \in RowsOf(req[q].key)
         \/ stage'[q] \in {"byId", "team"} /\ who'[q] \in RowsOf(req[q].key)
         \/ stage'[q] = "gotId" /\ found'[q] = "active" /\ who'[q] \in RowsOf(req[q].key)
         \/ stage'[q] = "done" /\ (context'[q] # NoContext \/ answer'[q] = "500")
<1>0. RequestsOK /\ TablesOK
  BY TypeParts
<1> USE DEF RequestsOK
<1>1. stage[q] \notin {"idle", "done"}
  BY DEF Query, FindByCode, CheckByCode, FindCredential, Verify, FindById, CheckById, FindTeam,
         QueryFails
<1>2. PICK row \in RowsOf(req[q].key) :
        /\ Live(req[q].key) /\ IsActive(row.offering, status[row.offering])
        /\ req[q].path \in {NoPath, row.offering}
        /\ \E t \in Teams : OfferingOf[t] = row.offering /\ row.student \in members[t]
  BY <1>1 DEF FairInv, Entitled
<1>3. /\ row \in Rows /\ req[q].key # NoKey /\ cred[row].key = req[q].key
      /\ \A other \in RowsOf(req[q].key) : other = row
  BY <1>2 DEF RowsOf, KeysDiffer
<1>4. ~cred[row].revoked /\ ~(ActiveUntil[row.offering] < now)
  <2>1. ~cred[row].revoked /\ now <= ActiveUntil[row.offering]
    BY <1>2, <1>3 DEF Live
  <2>2. now \in Int /\ ActiveUntil[row.offering] \in Int
    BY <1>0, <1>3, TableAssumption DEF TablesOK, Rows
  <2> QED
    BY <2>1, <2>2
<1>10. stage[q] \in {"gotKey", "byId", "gotId", "team"} => who[q] = row
  BY <1>3 DEF FairInv
<1>11. stage[q] \in {"byCode", "gotCode"} => req[q].path = row.offering
  <2>1. stage[q] \in {"byCode", "gotCode"} => req[q].path # NoPath
    BY <1>0, TableAssumption
  <2> QED
    BY <1>2, <2>1
<1>5. CASE FindByCode(q)
  <2>1. req[q].path = row.offering /\ status[row.offering] = "active"
    BY <1>2, <1>5, <1>11 DEF FindByCode, IsActive
  <2> QED
    BY <1>0, <1>5, <2>1 DEF FindByCode, ReadOffering
<1>12. CASE CheckByCode(q)
  <2>1. req[q].path = row.offering /\ found[q] = "active"
    BY <1>11, <1>12 DEF CheckByCode, FairInv
  <2>2. CheckHeader(q, req[q].key)
    BY <1>2, <1>12, <2>1 DEF CheckByCode, IsActive
  <2> QED
    BY <1>0, <1>3, <2>2 DEF CheckHeader, Goto
<1>13. CASE FindCredential(q)
  <2>1. /\ ~Revoked(row) /\ who' = [who EXCEPT ![q] = row]
        /\ found' = [found EXCEPT ![q] = "good"] /\ stage' = [stage EXCEPT ![q] = "gotKey"]
    BY <1>2, <1>3, <1>4, <1>13 DEF FindCredential, Revoked
  <2> QED
    BY <1>0, <1>2, <2>1
<1>6. CASE Verify(q)
  <2>1. who[q] = row /\ found[q] = "good"
    BY <1>6, <1>10 DEF Verify, FairInv
  <2>2. ~Expired(row.offering) /\ ~Foreign(q, row.offering)
    BY <1>2, <1>4 DEF Expired, Foreign
  <2>3. Goto(q, IF req[q].path = NoPath THEN "byId" ELSE "team")
    BY <1>6, <2>1, <2>2 DEF Verify
  <2> QED
    BY <1>0, <1>2, <2>1, <2>3 DEF Goto
<1>7. CASE FindById(q)
  <2>1. who[q] = row /\ status[row.offering] = "active"
    BY <1>2, <1>7, <1>10 DEF FindById, IsActive
  <2> QED
    BY <1>0, <1>2, <1>7, <2>1 DEF FindById, ReadOffering
<1>14. CASE CheckById(q)
  <2>1. who[q] = row /\ found[q] = "active"
    BY <1>10, <1>14 DEF CheckById, FairInv
  <2>2. Goto(q, "team")
    BY <1>2, <1>14, <2>1 DEF CheckById, MayUse, IsActive
  <2> QED
    BY <1>0, <1>2, <2>1, <2>2 DEF Goto
<1>8. CASE FindTeam(q)
  <2>1. who[q] = row
    BY <1>8, <1>10 DEF FindTeam
  <2>2. TeamsOf(row.student, row.offering) # {}
    BY <1>2 DEF TeamsOf
  <2>3. PICK t \in TeamsOf(row.student, row.offering) :
          /\ context' = [context EXCEPT ![q] =
               [offering |-> row.offering, student |-> row.student, team |-> t]]
          /\ stage' = [stage EXCEPT ![q] = "done"]
    BY <1>8, <2>1, <2>2 DEF FindTeam
  <2>4. [offering |-> row.offering, student |-> row.student, team |-> t] \in Contexts
    BY <1>3, <2>3 DEF Rows, TeamsOf, Contexts
  <2>5. context'[q] \in Contexts /\ NoContext \notin Contexts
    BY <1>0, <2>3, <2>4, TableAssumption DEF Contexts
  <2> QED
    BY <1>0, <2>3, <2>5
<1>9. CASE QueryFails(q)
  BY <1>0, <1>9 DEF QueryFails, Refuse, Refusals
<1> QED
  BY <1>5, <1>6, <1>7, <1>8, <1>9, <1>12, <1>13, <1>14 DEF Query

\* A step keeps FairInv: what ends an entitlement ends it for good, and until
\* then the credential that was verified is the one that entitles.
LEMMA FairStep == TypeOK /\ KeyInv /\ KeysDiffer /\ FairInv /\ [Next]_vars => FairInv'
<1> DEFINE Credited == {"gotKey", "byId", "gotId", "team"}
<1> SUFFICES ASSUME TypeOK, KeyInv, KeysDiffer, FairInv, [Next]_vars, NEW q \in Requests
    PROVE  /\ stage'[q] \notin {"idle", "done"} /\ seen'[q].entitled => Entitled(q)'
           /\ stage'[q] \in Credited /\ seen'[q].entitled => who'[q] \in RowsOf(req[q].key)'
           /\ stage'[q] = "gotKey" /\ seen'[q].entitled => found'[q] = "good"
           /\ stage'[q] \in {"gotCode", "gotId"} /\ seen'[q].entitled => found'[q] = "active"
           /\ stage'[q] = "done" /\ seen'[q].entitled => Admitted(q)' \/ answer'[q] = "500"
  BY DEF FairInv
<1>0. RequestsOK /\ SeenOK
  BY TypeParts
<1>1. CASE Untouched(q)
  <2>1. CASE stage[q] = "idle"
    BY <1>1, <2>1 DEF Untouched
  <2>2. CASE stage[q] = "done"
    BY <1>1, <2>2, SeenStep DEF Untouched, FairInv, Admitted
  <2>3. CASE stage[q] \notin {"idle", "done"}
    <3>1. seen'[q].entitled => seen[q].entitled /\ (Entitled(q)' \/ UNCHANGED vars)
      BY <2>3, SeenStep
    <3>2. UNCHANGED vars => (Entitled(q)' <=> Entitled(q))
      BY DEF vars, tableVars, requestVars, Entitled, RowsOf, Live, IsActive, InWindow
    <3>3. seen'[q].entitled => Entitled(q) /\ Entitled(q)'
      BY <2>3, <3>1, <3>2 DEF FairInv
    <3>4. ASSUME stage[q] \in Credited, seen'[q].entitled PROVE who[q] \in RowsOf(req[q].key)'
      <4>1. who[q] \in RowsOf(req[q].key) /\ req'[q].key = req[q].key
        BY <1>1, <3>1, <3>4 DEF FairInv, Untouched
      <4>2. PICK row \in Rows : cred'[row].key = req[q].key /\ req[q].key # NoKey
        BY <3>3, <3>4, <4>1 DEF Entitled, RowsOf
      <4>3. req[q].key \in issued \cup {NoKey}
        BY <2>3 DEF KeyInv
      <4>4. cred[row].key = req[q].key
        BY <4>2, <4>3, RowsShrink
      <4>5. row = who[q]
        BY <4>1, <4>2, <4>4 DEF RowsOf, KeysDiffer
      <4> QED
        BY <4>1, <4>2, <4>5 DEF RowsOf
    <3> QED
      BY <1>1, <2>3, <3>1, <3>3, <3>4 DEF Untouched, FairInv
  <2> QED
    BY <2>1, <2>2, <2>3
<1>2. CASE Arrive(q)
  <2>1. stage[q] = "idle" /\ stage'[q] # "idle" /\ seen'[q].entitled = Entitled(q)'
    BY <1>2, ArriveStep, SeenStep
  <2>2. req'[q].key = NoKey => ~Entitled(q)'
    BY DEF Entitled, RowsOf
  <2>3. stage'[q] \in {"byCode", "verify", "done"}
    BY <1>2, ArriveStep
  <2> QED
    BY <1>2, <2>1, <2>2, <2>3, ArriveStep
<1>3. CASE Query(q) /\ UNCHANGED <<now, tableVars>>
  <2>1. QueryView(q) /\ req' = req /\ stage[q] \notin {"idle", "done"}
    BY <1>3, QueryStep
  <2>3. seen'[q].entitled => seen[q].entitled /\ Entitled(q)
    BY <2>1, SeenStep DEF FairInv
  <2>4. Entitled(q)' <=> Entitled(q)
    BY <1>3, <2>1 DEF tableVars, Entitled, RowsOf, Live, IsActive, InWindow
  <2>5. RowsOf(req[q].key)' = RowsOf(req[q].key)
    BY <1>3, <2>1 DEF tableVars, RowsOf
  <2>6. seen'[q].entitled =>
          \/ stage'[q] = "verify"
          \/ stage'[q] = "gotCode" /\ found'[q] = "active"
          \/ stage'[q] = "gotKey" /\ found'[q] = "good" /\ who'[q] \in RowsOf(req[q].key)
          \/ stage'[q] \in {"byId", "team"} /\ who'[q] \in RowsOf(req[q].key)
          \/ stage'[q] = "gotId" /\ found'[q] = "active" /\ who'[q] \in RowsOf(req[q].key)
          \/ stage'[q] = "done" /\ (context'[q] # NoContext \/ answer'[q] = "500")
    BY <1>3, <2>3, EntitledQuery
  <2> QED
    BY <2>3, <2>4, <2>5, <2>6 DEF Admitted
<1> QED
  BY <1>1, <1>2, <1>3, RequestStep

\* A request that the tables entitle to a context from its arrival to its answer
\* gets one, or 500: no interleaving of its queries with the dashboard, and no
\* boundary of its offering's active window, refuses it.
THEOREM EntitledAreAdmitted == Spec => []NoFalseRefusal
<1>1. Init => TypeOK /\ KeyInv /\ KeysDiffer /\ FairInv
  BY TypeInit DEF Init, KeyInv, Holds, Verified, Admitted, KeysDiffer, NoRow, FairInv, Unseen
<1>2. FairInv => NoFalseRefusal
  BY DEF FairInv, NoFalseRefusal
<1> QED
  BY <1>1, <1>2, KeyStep, KeysStep, FairStep, TypeCorrect, PTL DEF Spec
==============================================================================
