------------------------- MODULE RequestPipelineProofs -------------------------
(***************************************************************************)
(* Proofs about RequestLog, RequestPipeline and PipelineBodies, for any      *)
(* requests, contents, pool and number of faults: what the log shows of a    *)
(* request is what its student was told, its body is redacted, and it is     *)
(* answered once, with its id.                                               *)
(***************************************************************************)
EXTENDS PipelineBodies, FiniteSetTheorems, SequenceTheorems, TLAPS

(* The pool *)

Entry(r, what) == [req |-> r, what |-> what]

\* The writes of the pool, queued or on a connection.
InPool == running \cup {waiting[k] : k \in DOMAIN waiting}

\* Every write is in the pool once, and no more run than there are connections.
PoolOK == /\ waiting \in Seq(Writes) /\ running \subseteq Writes
          /\ IsFiniteSet(running) /\ Cardinality(running) <= PoolMax
          /\ \A k \in DOMAIN waiting : /\ waiting[k] \notin running
                                       /\ \A j \in DOMAIN waiting : waiting[j] = waiting[k] => j = k

\* A write that is new to the pool is queued.
LEMMA LogStep ==
  ASSUME PoolOK, NEW r \in Requests, NEW what \in {"arrival", "event"} \cup Outcomes,
         Log(r, what), Entry(r, what) \notin InPool
  PROVE  PoolOK' /\ InPool' = InPool \cup {Entry(r, what)}
<1> DEFINE e == Entry(r, what)
<1>1. e \in Writes /\ waiting' = Append(waiting, e) /\ running' = running
  BY DEF Log, Writes, Entry
<1> HIDE DEF e
<1>2. /\ waiting' \in Seq(Writes) /\ DOMAIN waiting = 1..Len(waiting) /\ Len(waiting) \in Nat
      /\ DOMAIN waiting' = 1..(Len(waiting) + 1) /\ waiting'[Len(waiting) + 1] = e
      /\ \A k \in DOMAIN waiting : waiting'[k] = waiting[k]
  BY <1>1 DEF PoolOK
<1>3. \A k \in DOMAIN waiting' : k \in DOMAIN waiting \/ k = Len(waiting) + 1
  BY <1>2
<1>4. InPool' = InPool \cup {e}
  BY <1>1, <1>2, <1>3 DEF InPool
<1>5. \A k \in DOMAIN waiting : waiting[k] # e
  BY DEF InPool, e
<1>6. e \notin running
  BY DEF InPool, e
<1>7. PoolOK'
  BY <1>1, <1>2, <1>3, <1>5, <1>6 DEF PoolOK
<1> QED
  BY <1>4, <1>7 DEF e

\* The first write of the queue gets a free connection.
LEMMA DispatchStep ==
  ASSUME PoolOK, Dispatch
  PROVE  PoolOK' /\ InPool' = InPool
<1>1. /\ waiting # <<>> /\ waiting \in Seq(Writes) /\ Cardinality(running) < PoolMax
      /\ running' = running \cup {Head(waiting)} /\ waiting' = Tail(waiting)
  BY DEF Dispatch, PoolOK
<1>2. /\ Len(waiting) \in Nat \ {0} /\ DOMAIN waiting = 1..Len(waiting)
      /\ waiting' \in Seq(Writes) /\ DOMAIN waiting' = 1..(Len(waiting) - 1)
      /\ Head(waiting) = waiting[1]
      /\ \A k \in DOMAIN waiting' : waiting'[k] = waiting[k + 1]
  BY <1>1
<1>3. Head(waiting) \in Writes /\ Head(waiting) \notin running
  BY <1>1, <1>2 DEF PoolOK
<1>4. /\ IsFiniteSet(running') /\ Cardinality(running') = Cardinality(running) + 1
      /\ Cardinality(running) \in Nat
  BY <1>1, <1>3, FS_AddElement, FS_CardinalityType DEF PoolOK
<1>5. Cardinality(running') <= PoolMax
  BY <1>1, <1>4, PoolAssumption
<1>6. \A k \in DOMAIN waiting' : k + 1 \in DOMAIN waiting /\ k + 1 # 1
  BY <1>2
<1>7. \A k \in DOMAIN waiting : k = 1 \/ (k - 1 \in DOMAIN waiting' /\ (k - 1) + 1 = k)
  BY <1>2
<1>8. ASSUME NEW k \in DOMAIN waiting'
      PROVE  /\ waiting'[k] \notin running'
             /\ \A j \in DOMAIN waiting' : waiting'[j] = waiting'[k] => j = k
  <2>1. waiting'[k] = waiting[k + 1] /\ k + 1 \in DOMAIN waiting /\ 1 \in DOMAIN waiting /\ k + 1 # 1
    BY <1>2, <1>6
  <2>2. waiting[k + 1] \notin running /\ waiting[k + 1] # waiting[1]
    BY <2>1 DEF PoolOK
  <2>3. ASSUME NEW j \in DOMAIN waiting', waiting'[j] = waiting'[k] PROVE j = k
    <3>1. waiting[j + 1] = waiting[k + 1] /\ j + 1 \in DOMAIN waiting
      BY <1>2, <1>6, <2>1, <2>3
    <3>2. j + 1 = k + 1
      BY <2>1, <3>1 DEF PoolOK
    <3> QED
      BY <1>2, <3>2
  <2> QED
    BY <1>1, <1>2, <2>1, <2>2, <2>3
<1>9. PoolOK'
  BY <1>1, <1>2, <1>3, <1>4, <1>5, <1>8 DEF PoolOK
<1>10. ASSUME NEW e \in InPool PROVE e \in InPool'
  <2>1. CASE e \in running
    BY <1>1, <2>1 DEF InPool
  <2>2. ASSUME NEW k \in DOMAIN waiting, e = waiting[k] PROVE e \in InPool'
    <3>1. CASE k = 1
      BY <1>1, <1>2, <2>2, <3>1 DEF InPool
    <3>2. CASE k # 1
      BY <1>2, <1>7, <2>2, <3>2 DEF InPool
    <3> QED
      BY <3>1, <3>2
  <2> QED
    BY <2>1, <2>2 DEF InPool
<1>11. ASSUME NEW e \in InPool' PROVE e \in InPool
  BY <1>1, <1>2, <1>6, <1>11 DEF InPool
<1> QED
  BY <1>9, <1>10, <1>11

\* A write that is settled leaves the pool.
LEMMA SettleStep ==
  ASSUME PoolOK, NEW w \in running, running' = running \ {w}, waiting' = waiting
  PROVE  PoolOK' /\ InPool' = InPool \ {w}
<1>1. IsFiniteSet(running') /\ Cardinality(running') <= Cardinality(running)
      /\ Cardinality(running) \in Nat /\ Cardinality(running') \in Nat
  BY FS_Subset, FS_CardinalityType DEF PoolOK
<1>2. PoolOK'
  BY <1>1, PoolAssumption DEF PoolOK
<1>3. \A k \in DOMAIN waiting : waiting[k] # w
  BY DEF PoolOK
<1> QED
  BY <1>2, <1>3 DEF InPool
------------------------------------------------------------------------------
(* The rows *)

\* TypeOK without the pool.
TablesOK == /\ stage \in [Requests -> {"new", "lookup", "limited", "fetch", "done"}]
            /\ answer \in [Requests -> {"none", "429", "500"} \cup Outcomes]
            /\ table \in [Requests -> {"absent", "null"} \cup Outcomes]
            /\ body \subseteq Requests /\ events \subseteq Requests
            /\ faults \in 0..MaxFaults

LEMMA TypeParts == TypeOK /\ PoolOK <=> TablesOK /\ PoolOK
BY DEF TypeOK, TablesOK, PoolOK

\* The row of a request tells which of its two writes are settled, and in
\* which order if both are.
Row(r, status, whole) == table[r] = status /\ (r \in body <=> whole)
Orderly(r) ==
  /\ stage[r] = "fetch" => IF Entry(r, "arrival") \in InPool THEN Row(r, "absent", FALSE)
                                                            ELSE Row(r, "null", TRUE)
  /\ answer[r] \in Outcomes =>
       IF Entry(r, "arrival") \in InPool
       THEN IF Entry(r, answer[r]) \in InPool THEN Row(r, "absent", FALSE)
                                              ELSE Row(r, answer[r], FALSE)
       ELSE IF Entry(r, answer[r]) \in InPool THEN Row(r, "null", TRUE)
                                              ELSE Row(r, answer[r], TRUE) \/ Row(r, "null", FALSE)

\* A request has only written what its stage has reached; outcomes on their way
\* to its row, or in it, are what it was answered; without faults all is Orderly.
RowOK(r) ==
  /\ stage[r] # "done" => answer[r] = "none"
  /\ stage[r] = "new" => r \notin events
  /\ stage[r] \in {"new", "lookup", "limited"} => Row(r, "absent", FALSE)
  /\ stage[r] = "fetch" => table[r] \notin Outcomes
  /\ \A what \in {"arrival", "event"} \cup Outcomes : Entry(r, what) \in InPool =>
       /\ stage[r] \notin {"new", "lookup"}
       /\ stage[r] = "limited" => what = "event"
       /\ stage[r] = "fetch" => what = "arrival"
       /\ what \in Outcomes => answer[r] = what
  /\ table[r] \in Outcomes => answer[r] = table[r]
  /\ faults = 0 => Orderly(r)

LogInv == TablesOK /\ PoolOK /\ \A r \in Requests : RowOK(r)

\* Entries of different requests, or of different kinds, are different.
LEMMA EntriesDiffer ==
  ASSUME NEW r, NEW q, NEW x, NEW y
  PROVE  Entry(r, x) = Entry(q, y) <=> r = q /\ x = y
BY DEF Entry

\* A request none of whose variables and writes change keeps its row.
LEMMA RowStays ==
  ASSUME NEW q \in Requests, RowOK(q), TablesOK,
         stage'[q] = stage[q], answer'[q] = answer[q], table'[q] = table[q],
         q \in body' <=> q \in body, q \in events' <=> q \in events,
         \A what \in {"arrival", "event"} \cup Outcomes : Entry(q, what) \in InPool' <=> Entry(q, what) \in InPool,
         faults' = 0 => faults = 0
  PROVE  RowOK(q)'
<1>1. Orderly(q) => Orderly(q)'
  BY DEF Orderly, Row
<1> QED
  BY <1>1 DEF RowOK, Row

\* Faults do not count down.
LEMMA FaultCounts ==
  ASSUME TablesOK
  PROVE  /\ faults' = faults => (faults' = 0 => faults = 0)
         /\ Fault => faults' # 0 /\ faults' \in 0..MaxFaults
BY PoolAssumption DEF TablesOK, Fault

\* The request that moves keeps its row in order, and so do the others.
LEMMA RequestRows ==
  ASSUME LogInv, NEW r \in Requests, Arrive(r) \/ Limit(r) \/ Serve(r)
  PROVE  LogInv'
<1>1. TablesOK /\ PoolOK /\ \A q \in Requests : RowOK(q)
  BY DEF LogInv
<1>2. UNCHANGED <<table, body, events>>
  BY DEF Arrive, Limit, Serve, Forward, LookupFails, Complete, logVars
<1>3. ASSUME NEW q \in Requests \ {r}, stage'[q] = stage[q], answer'[q] = answer[q],
             faults' = faults \/ Fault, NEW what \in {"arrival", "event"} \cup Outcomes,
             InPool' \in {InPool, InPool \cup {Entry(r, what)}}
      PROVE  RowOK(q)'
  BY <1>1, <1>2, <1>3, RowStays, EntriesDiffer, FaultCounts
<1>4. \A what \in {"arrival", "event"} \cup Outcomes :
        stage[r] \in {"new", "lookup"} => Entry(r, what) \notin InPool
  BY <1>1 DEF RowOK
<1>5. CASE Arrive(r)
  <2>1. /\ stage[r] = "new" /\ stage' = [stage EXCEPT ![r] = "lookup"]
        /\ UNCHANGED <<answer, waiting, running, faults>>
    BY <1>5 DEF Arrive, Goto, poolVars
  <2>2. InPool' = InPool /\ PoolOK'
    BY <1>1, <2>1 DEF InPool, PoolOK
  <2>3. TablesOK' /\ stage'[r] = "lookup" /\ \A q \in Requests \ {r} : stage'[q] = stage[q]
    BY <1>1, <1>2, <2>1 DEF TablesOK
  <2>4. RowOK(r)'
    BY <1>1, <1>2, <2>1, <2>2, <2>3 DEF RowOK, Row, Orderly, Outcomes
  <2> QED
    BY <1>3, <2>1, <2>2, <2>3, <2>4 DEF LogInv
<1>6. CASE Limit(r)
  <2>1. /\ stage[r] = "new" /\ stage' = [stage EXCEPT ![r] = "limited"] /\ Log(r, "event")
        /\ UNCHANGED <<answer, faults>>
    BY <1>6 DEF Limit, Goto
  <2>2. InPool' = InPool \cup {Entry(r, "event")} /\ PoolOK'
    BY <1>1, <1>4, <2>1, LogStep
  <2>3. TablesOK' /\ stage'[r] = "limited" /\ \A q \in Requests \ {r} : stage'[q] = stage[q]
    BY <1>1, <1>2, <2>1 DEF TablesOK
  <2>4. RowOK(r)'
    BY <1>1, <1>2, <1>4, <2>1, <2>2, <2>3, EntriesDiffer DEF RowOK, Row, Orderly, Outcomes
  <2> QED
    BY <1>3, <2>1, <2>2, <2>3, <2>4 DEF LogInv
<1>7. CASE LookupFails(r)
  <2>1. /\ stage[r] = "lookup" /\ stage' = [stage EXCEPT ![r] = "done"] /\ Fault
        /\ answer' = [answer EXCEPT ![r] = "500"] /\ UNCHANGED <<waiting, running>>
    BY <1>7 DEF LookupFails, Answer, Goto, poolVars
  <2>2. InPool' = InPool /\ PoolOK'
    BY <1>1, <2>1 DEF InPool, PoolOK
  <2>3. /\ stage'[r] = "done" /\ \A q \in Requests \ {r} : stage'[q] = stage[q]
        /\ answer'[r] = "500" /\ \A q \in Requests \ {r} : answer'[q] = answer[q]
    BY <1>1, <2>1 DEF TablesOK
  <2>4. faults' # 0 /\ faults' \in 0..MaxFaults
    BY <1>1, <2>1, FaultCounts
  <2>5. TablesOK'
    BY <1>1, <1>2, <2>1, <2>4 DEF TablesOK
  <2>6. RowOK(r)'
    BY <1>1, <1>2, <1>4, <2>1, <2>2, <2>3, <2>4 DEF RowOK, Row, Outcomes
  <2> QED
    BY <1>3, <2>1, <2>2, <2>3, <2>5, <2>6 DEF LogInv
<1>8. CASE Forward(r)
  <2>1. /\ stage[r] = "lookup" /\ stage' = [stage EXCEPT ![r] = "fetch"] /\ Log(r, "arrival")
        /\ UNCHANGED <<answer, faults>>
    BY <1>8 DEF Forward, AfterArrival, Goto
  <2>2. InPool' = InPool \cup {Entry(r, "arrival")} /\ PoolOK'
    BY <1>1, <1>4, <2>1, LogStep
  <2>3. TablesOK' /\ stage'[r] = "fetch" /\ \A q \in Requests \ {r} : stage'[q] = stage[q]
    BY <1>1, <1>2, <2>1 DEF TablesOK
  <2>4. RowOK(r)'
    BY <1>1, <1>2, <1>4, <2>1, <2>2, <2>3, EntriesDiffer DEF RowOK, Row, Orderly, Outcomes
  <2> QED
    BY <1>3, <2>1, <2>2, <2>3, <2>4 DEF LogInv
<1>9. CASE Complete(r)
  <2>1. PICK o \in Outcomes :
          /\ stage[r] = "fetch" /\ stage' = [stage EXCEPT ![r] = "done"]
          /\ answer' = [answer EXCEPT ![r] = o] /\ Log(r, o)
          /\ UNCHANGED faults
    BY <1>9 DEF Complete, Answer, Goto, LoggedAs
  <2>2. Entry(r, o) \notin InPool
    BY <1>1, <2>1 DEF RowOK, Outcomes
  <2>3. InPool' = InPool \cup {Entry(r, o)} /\ PoolOK'
    BY <1>1, <2>1, <2>2, LogStep
  <2>4. /\ stage'[r] = "done" /\ \A q \in Requests \ {r} : stage'[q] = stage[q]
        /\ answer'[r] = o /\ \A q \in Requests \ {r} : answer'[q] = answer[q]
    BY <1>1, <2>1 DEF TablesOK
  <2>5. TablesOK'
    BY <1>1, <1>2, <2>1 DEF TablesOK
  <2>6. ASSUME NEW what \in {"arrival", "event"} \cup Outcomes, Entry(r, what) \in InPool'
        PROVE  what = o \/ what = "arrival"
    <3>1. Entry(r, what) \in InPool \/ Entry(r, what) = Entry(r, o)
      BY <2>3, <2>6
    <3>2. Entry(r, what) \in InPool => what = "arrival"
      BY <1>1, <2>1 DEF RowOK
    <3> QED
      BY <3>1, <3>2, EntriesDiffer
  <2>7. Entry(r, "arrival") \in InPool' <=> Entry(r, "arrival") \in InPool
    BY <2>3, EntriesDiffer DEF Outcomes
  <2>8. Orderly(r) => Orderly(r)'
    BY <1>2, <2>1, <2>3, <2>4, <2>7 DEF Orderly, Row
  <2>9. RowOK(r)'
    BY <1>1, <1>2, <2>1, <2>4, <2>6, <2>8 DEF RowOK, Row, Outcomes
  <2> QED
    BY <1>3, <2>1, <2>3, <2>4, <2>5, <2>9 DEF LogInv
<1> QED
  BY <1>5, <1>6, <1>7, <1>8, <1>9 DEF Serve

\* A write that is committed leaves its request's row in order.
LEMMA CommitRow ==
  ASSUME LogInv, NEW w \in running, Commit(w), w.what # "event", RowOK(w.req), w.req \in Requests,
         w.what \in {"arrival"} \cup Outcomes, w = Entry(w.req, w.what),
         InPool' = InPool \ {w}
  PROVE  RowOK(w.req)' /\ TablesOK' /\ UNCHANGED <<stage, answer, events, faults>>
         /\ \A q \in Requests \ {w.req} : table'[q] = table[q] /\ (q \in body' <=> q \in body)
<1> DEFINE r == w.req
<1>1. UNCHANGED <<stage, answer, events, faults>> /\ Upsert(w)
  BY DEF Commit, Settled, requestVars
<1>2. TablesOK /\ w \in InPool
  BY DEF LogInv, InPool
<1>3. StatusOf(w) = IF w.what = "arrival" THEN "null" ELSE w.what
  BY DEF StatusOf
<1>4. /\ table' = [table EXCEPT ![r] = StatusOf(w)]
      /\ body' = IF table[r] = "absent" /\ w.what = "arrival" THEN body \cup {r} ELSE body
  BY <1>1 DEF Upsert, OnConflict
<1>5. /\ table'[r] = StatusOf(w)
      /\ \A q \in Requests \ {r} : table'[q] = table[q] /\ (q \in body' <=> q \in body)
      /\ r \in body' <=> (r \in body \/ (table[r] = "absent" /\ w.what = "arrival"))
  BY <1>2, <1>4 DEF TablesOK
<1>6. TablesOK'
  BY <1>1, <1>2, <1>3, <1>4 DEF TablesOK, Outcomes
<1>7. \A what : Entry(r, what) \in InPool' <=> Entry(r, what) \in InPool /\ what # w.what
  BY EntriesDiffer
<1>8. CASE w.what = "arrival"
  <2>1. stage[r] \in {"fetch", "done"}
    BY <1>2, <1>8 DEF RowOK, TablesOK
  <2>2. Entry(r, "arrival") \in InPool /\ Entry(r, "arrival") \notin InPool'
    BY <1>2, <1>7, <1>8
  <2>3. answer[r] \in Outcomes => (Entry(r, answer[r]) \in InPool' <=> Entry(r, answer[r]) \in InPool)
    BY <1>7, <1>8 DEF Outcomes
  <2>4. table'[r] = "null" /\ (r \in body' <=> (r \in body \/ table[r] = "absent"))
    BY <1>3, <1>5, <1>8
  <2>5. Orderly(r) => Orderly(r)'
    BY <1>1, <2>2, <2>3, <2>4 DEF Orderly, Row, Outcomes
  <2>6. RowOK(r)'
    BY <1>1, <1>7, <2>1, <2>4, <2>5 DEF RowOK, Outcomes
  <2> QED
    BY <1>1, <1>5, <1>6, <2>6
<1>9. CASE w.what \in Outcomes
  <2>1. stage[r] = "done" /\ answer[r] = w.what
    BY <1>2, <1>9 DEF RowOK, TablesOK, Outcomes
  <2>2. Entry(r, answer[r]) \in InPool /\ Entry(r, answer[r]) \notin InPool'
    BY <1>2, <1>7, <2>1
  <2>3. Entry(r, "arrival") \in InPool' <=> Entry(r, "arrival") \in InPool
    BY <1>7, <1>9 DEF Outcomes
  <2>4. table'[r] = answer[r] /\ (r \in body' <=> r \in body)
    BY <1>3, <1>5, <1>9, <2>1 DEF Outcomes
  <2>5. Orderly(r) => Orderly(r)'
    BY <1>1, <1>9, <2>1, <2>2, <2>3, <2>4 DEF Orderly, Row
  <2>6. RowOK(r)'
    BY <1>1, <1>7, <2>1, <2>4, <2>5 DEF RowOK
  <2> QED
    BY <1>1, <1>5, <1>6, <2>6
<1> QED
  BY <1>8, <1>9

\* The rows stay in order while the pool works, whatever fails.
LEMMA PoolRows ==
  ASSUME LogInv, Write \/ Crash
  PROVE  LogInv'
<1>1. TablesOK /\ PoolOK /\ \A q \in Requests : RowOK(q)
  BY DEF LogInv
<1>2. CASE Dispatch
  <2>1. UNCHANGED <<stage, answer, table, body, events, faults>>
    BY <1>2 DEF Dispatch, requestVars, logVars
  <2>2. PoolOK' /\ InPool' = InPool
    BY <1>1, <1>2, DispatchStep
  <2>3. TablesOK'
    BY <1>1, <2>1 DEF TablesOK
  <2> QED
    BY <1>1, <2>1, <2>2, <2>3, RowStays DEF LogInv
<1>3. ASSUME NEW w \in running, Commit(w) \/ WriteFails(w) PROVE LogInv'
  <2>1. /\ w.req \in Requests /\ w.what \in {"arrival", "event"} \cup Outcomes
        /\ w = Entry(w.req, w.what)
    BY <1>1 DEF PoolOK, Writes, Entry
  <2>2. PoolOK' /\ InPool' = InPool \ {w} /\ w \in InPool
    BY <1>1, <1>3, SettleStep DEF Commit, WriteFails, InPool
  <2>3. \A q, what : Entry(q, what) \in InPool' <=>
                       Entry(q, what) \in InPool /\ ~(q = w.req /\ what = w.what)
    BY <2>1, <2>2, EntriesDiffer
  <2>4. ASSUME NEW q \in Requests \ {w.req}, stage'[q] = stage[q], answer'[q] = answer[q],
               table'[q] = table[q], q \in body' <=> q \in body, q \in events' <=> q \in events,
               faults' = faults \/ Fault
        PROVE  RowOK(q)'
    BY <1>1, <2>3, <2>4, RowStays, FaultCounts
  <2>5. CASE w.what # "event" /\ Commit(w)
    <3>1. /\ RowOK(w.req)' /\ TablesOK' /\ UNCHANGED <<stage, answer, events, faults>>
          /\ \A q \in Requests \ {w.req} : table'[q] = table[q] /\ (q \in body' <=> q \in body)
      BY <1>1, <2>1, <2>2, <2>5, CommitRow
    <3> QED
      BY <2>2, <2>4, <3>1 DEF LogInv
  <2>6. CASE w.what # "event" /\ WriteFails(w)
    <3>1. UNCHANGED <<stage, answer, table, body, events>> /\ Fault
      BY <2>6 DEF WriteFails, Settled, requestVars, logVars
    <3>2. faults' # 0 /\ faults' \in 0..MaxFaults
      BY <1>1, <3>1, FaultCounts
    <3>3. TablesOK'
      BY <1>1, <3>1, <3>2 DEF TablesOK
    <3>4. RowOK(w.req)'
      BY <1>1, <2>1, <2>3, <3>1, <3>2 DEF RowOK, Row
    <3> QED
      BY <2>2, <2>4, <3>1, <3>3, <3>4 DEF LogInv
  <2>7. CASE w.what = "event"
    <3>1. UNCHANGED <<table, body>> /\ (faults' = faults \/ Fault)
          /\ events' \in {events, events \cup {w.req}} /\ Settled(w)
      BY <1>3, <2>7 DEF Commit, WriteFails, logVars
    <3>2. faults' \in 0..MaxFaults /\ (faults' = 0 => faults = 0)
      BY <1>1, <3>1, FaultCounts DEF TablesOK
    <3>3. stage[w.req] \in {"limited", "done"}
      <4>1. Entry(w.req, "event") \in InPool /\ "event" # "arrival"
        BY <2>1, <2>2, <2>7
      <4>2. stage[w.req] \notin {"new", "lookup"} /\ stage[w.req] # "fetch"
        BY <1>1, <2>1, <4>1 DEF RowOK
      <4> QED
        BY <1>1, <2>1, <4>2 DEF TablesOK
    <3>4. CASE stage[w.req] = "limited"
      <4>1. answer' = [answer EXCEPT ![w.req] = "429"] /\ stage' = [stage EXCEPT ![w.req] = "done"]
        BY <2>7, <3>1, <3>4 DEF Settled, Answer, Goto
      <4>2. /\ answer'[w.req] = "429" /\ stage'[w.req] = "done"
            /\ \A q \in Requests \ {w.req} : answer'[q] = answer[q] /\ stage'[q] = stage[q]
        BY <1>1, <2>1, <4>1 DEF TablesOK
      <4>3. TablesOK'
        BY <1>1, <2>1, <3>1, <3>2, <4>1 DEF TablesOK
      <4>4. \A what \in {"arrival", "event"} \cup Outcomes : Entry(w.req, what) \notin InPool'
        BY <1>1, <2>1, <2>3, <2>7, <3>4 DEF RowOK
      <4>5. RowOK(w.req)'
        BY <1>1, <2>1, <3>1, <3>4, <4>2, <4>4 DEF RowOK, Row, Orderly, Outcomes
      <4> QED
        BY <2>2, <2>4, <3>1, <4>2, <4>3, <4>5 DEF LogInv
    <3>5. CASE stage[w.req] = "done"
      <4>1. UNCHANGED <<answer, stage>>
        BY <2>7, <3>1, <3>5 DEF Settled, requestVars
      <4>2. TablesOK'
        BY <1>1, <2>1, <3>1, <3>2, <4>1 DEF TablesOK
      <4>3. \A what \in {"arrival"} \cup Outcomes :
              Entry(w.req, what) \in InPool' <=> Entry(w.req, what) \in InPool
        BY <2>3, <2>7 DEF Outcomes
      <4>4. Orderly(w.req) => Orderly(w.req)'
        BY <3>1, <4>1, <4>3 DEF Orderly, Row
      <4>5. RowOK(w.req)'
        BY <1>1, <2>1, <2>3, <3>1, <3>2, <3>5, <4>1, <4>4 DEF RowOK
      <4> QED
        BY <2>2, <2>4, <3>1, <4>1, <4>2, <4>5 DEF LogInv
    <3> QED
      BY <3>3, <3>4, <3>5
  <2> QED
    BY <1>3, <2>5, <2>6, <2>7
<1>4. CASE Crash
  <2>1. /\ stage' = [r \in Requests |-> IF stage[r] = "new" THEN "new" ELSE "done"]
        /\ waiting' = <<>> /\ running' = {} /\ Fault
        /\ UNCHANGED <<answer, table, body, events>>
    BY <1>4 DEF Crash, logVars
  <2>2. InPool' = {}
    BY <2>1 DEF InPool
  <2>3. PoolOK'
    BY <2>1, PoolAssumption, FS_EmptySet DEF PoolOK
  <2>4. faults' # 0 /\ faults' \in 0..MaxFaults
    BY <1>1, <2>1, FaultCounts
  <2>5. TablesOK'
    BY <1>1, <2>1, <2>4 DEF TablesOK
  <2>6. ASSUME NEW q \in Requests PROVE RowOK(q)'
    BY <1>1, <2>1, <2>2, <2>4 DEF RowOK, Row
  <2> QED
    BY <2>3, <2>5, <2>6 DEF LogInv
<1> QED
  BY <1>2, <1>3, <1>4 DEF Write

LEMMA LogInit == Init => LogInv
<1> SUFFICES ASSUME Init PROVE LogInv
  OBVIOUS
<1>1. InPool = {} /\ PoolOK
  BY PoolAssumption, FS_EmptySet DEF Init, InPool, PoolOK
<1>2. TablesOK
  BY PoolAssumption DEF Init, TablesOK
<1> QED
  BY <1>1, <1>2 DEF Init, LogInv, RowOK, Row, Orderly, Outcomes

\* The invariant of the log implies its properties.
LEMMA LogShows == LogInv => TypeOK /\ RowsTellOutcome
<1> SUFFICES ASSUME LogInv PROVE TypeOK /\ RowsTellOutcome
  OBVIOUS
<1>1. TablesOK /\ PoolOK /\ \A r \in Requests : RowOK(r)
  BY DEF LogInv
<1>2. TypeOK
  BY <1>1 DEF TypeOK, TablesOK, PoolOK
<1>3. StatusIsAnswer
  BY <1>1 DEF StatusIsAnswer, RowOK
<1>4. ASSUME NEW r \in Requests, answer[r] \in Outcomes, Pending(r) = {}, faults = 0
      PROVE  (table[r] = answer[r] /\ r \in body) \/ (table[r] = "null" /\ r \notin body)
  <2>1. ASSUME NEW what \in {"arrival"} \cup Outcomes PROVE Entry(r, what) \notin InPool
    <3>1. Entry(r, what) \in Writes /\ Entry(r, what).req = r
      BY DEF Writes, Entry
    <3> QED
      BY <1>4, <3>1 DEF Pending, InPool
  <2> QED
    BY <1>1, <1>4, <2>1 DEF RowOK, Orderly, Row
<1> QED
  BY <1>2, <1>3, <1>4 DEF RowsTellOutcome, WholeOrReverted

\* The log by itself, fed by requests of any kind: what the dashboard reads of
\* a request is what its student was told, or nothing at all.
THEOREM LogTellsOutcome == Spec => []RowsTellOutcome
<1>1. LogInv /\ [Next]_vars => LogInv'
  <2> SUFFICES ASSUME LogInv, [Next]_vars PROVE LogInv'
    OBVIOUS
  <2>1. CASE UNCHANGED vars
    BY <2>1 DEF vars, requestVars, poolVars, logVars, LogInv, TablesOK, PoolOK, InPool, RowOK, Row, Orderly
  <2> QED
    BY <2>1, RequestRows, PoolRows DEF Next
<1> QED
  BY <1>1, LogInit, LogShows, PTL DEF Spec
------------------------------------------------------------------------------
(* The pipeline *)

FrontTypes ==
  /\ front \in [Requests -> {"idle", "body", "auth", "limit", "forward", "lab", "over"}]
  /\ stream \in [Requests -> {"none", "open", "ended", "broken"}]
  /\ total \in [Requests -> 0..MaxBody]
  /\ content \in [Requests -> Contents]
  /\ named \subseteq Requests /\ counted \subseteq Requests
  /\ reply \in [Requests -> {"none", "201", "400", "401", "403", "404", "409", "413", "429", "500"}]

\* Until a request reaches forward it is new to the log, and stays so if it is
\* answered before; its stream is open while it is read or after it was refused;
\* it is named once its body was read.
FrontOK(r) ==
  /\ front[r] \in {"idle", "body", "auth", "limit", "lab"} => stage[r] = "new"
  /\ reply[r] # "none" => stage[r] = "new" /\ front[r] = "over"
  /\ front[r] = "idle" => stream[r] = "none"
  /\ stream[r] = "open" => front[r] = "body" \/ reply[r] # "none"
  /\ front[r] \in {"auth", "limit", "forward", "lab"} => r \in named
  /\ reply[r] # "none" /\ r \notin named => reply[r] = "413" \/ stream[r] \in {"none", "broken"}

\* A step of one request's middlewares or handlers changes that request alone.
Others(r) == \A q \in Requests \ {r} :
               /\ front'[q] = front[q] /\ stream'[q] = stream[q] /\ reply'[q] = reply[q]
               /\ q \in named' <=> q \in named

LEMMA EnterStep ==
  ASSUME FrontTypes, NEW r \in Requests,
         NEW part \in {"body", "auth", "limit", "forward", "lab"}, Enter(r, part)
  PROVE  /\ front' \in [Requests -> {"idle", "body", "auth", "limit", "forward", "lab", "over"}]
         /\ front'[r] = part /\ reply' = reply /\ \A q \in Requests \ {r} : front'[q] = front[q]
BY DEF Enter, FrontTypes

LEMMA ReplyStep ==
  ASSUME FrontTypes, NEW r \in Requests,
         NEW status \in {"201", "400", "401", "403", "404", "409", "413", "429", "500"}, Reply(r, status)
  PROVE  /\ front' \in [Requests -> {"idle", "body", "auth", "limit", "forward", "lab", "over"}]
         /\ reply' \in [Requests -> {"none", "201", "400", "401", "403", "404", "409", "413", "429", "500"}]
         /\ front'[r] = "over" /\ reply'[r] = status
         /\ \A q \in Requests \ {r} : front'[q] = front[q] /\ reply'[q] = reply[q]
BY DEF Reply, FrontTypes

\* A request's step in front of forward keeps it so, whatever forward is given.
LEMMA FrontStep ==
  ASSUME FrontTypes, NEW r \in Requests, FrontOK(r), Receive(r) \/ Data(r) \/ Middleware(r)
  PROVE  FrontTypes' /\ Others(r) /\ FrontOK(r)'
<1>1. CASE Receive(r)
  <2>1. /\ front[r] = "idle" /\ UNCHANGED <<total, content, named, counted, stage>>
        /\ reply[r] = "none" /\ stage[r] = "new" /\ stream[r] = "none"
    BY <1>1 DEF Receive, FrontOK, vars, requestVars
  <2>2. CASE Enter(r, "body") /\ stream' = [stream EXCEPT ![r] = "open"]
    BY <2>1, <2>2, EnterStep DEF FrontTypes, FrontOK, Others
  <2>3. CASE Reply(r, "404") /\ UNCHANGED stream
    BY <2>1, <2>3, ReplyStep DEF FrontTypes, FrontOK, Others
  <2> QED
    BY <1>1, <2>2, <2>3 DEF Receive
<1>2. CASE Data(r)
  <2>1. /\ front[r] = "body" /\ UNCHANGED <<stream, content, named, counted, stage>>
        /\ reply[r] = "none" /\ stage[r] = "new"
    BY <1>2 DEF Data, FrontOK, vars, requestVars
  <2>2. CASE Reply(r, "413") /\ UNCHANGED total
    BY <2>1, <2>2, ReplyStep DEF FrontTypes, FrontOK, Others
  <2>3. CASE ~TooLarge(r) /\ total' = [total EXCEPT ![r] = @ + 1] /\ UNCHANGED <<front, reply>>
    <3>1. total[r] + 1 \in 0..MaxBody
      BY <2>3, BodyAssumption DEF TooLarge, FrontTypes
    <3> QED
      BY <2>1, <2>3, <3>1 DEF FrontTypes, FrontOK, Others
  <2> QED
    BY <1>2, <2>2, <2>3 DEF Data
<1>3. CASE End(r)
  <2>1. /\ stream[r] = "open" /\ stream' = [stream EXCEPT ![r] = "ended"]
        /\ UNCHANGED <<total, counted, stage>>
    BY <1>3 DEF End, vars, requestVars
  <2>2. CASE Rejected(r)
    BY <1>3, <2>1, <2>2 DEF End, Rejected, FrontTypes, FrontOK, Others
  <2>3. CASE ~Rejected(r)
    <3>1. reply[r] = "none" /\ front[r] = "body" /\ stage[r] = "new"
      BY <2>1, <2>3 DEF Rejected, FrontOK
    <3>2. /\ \E c \in Contents : content' = [content EXCEPT ![r] = c]
          /\ Enter(r, "auth") /\ named' = named \cup {r}
      BY <1>3, <2>3 DEF End, FirstOfLabAuth
    <3> QED
      BY <2>1, <3>1, <3>2, EnterStep DEF FrontTypes, FrontOK, Others
  <2> QED
    BY <2>2, <2>3
<1>4. CASE Abort(r)
  <2>1. /\ stream[r] = "open" /\ stream' = [stream EXCEPT ![r] = "broken"]
        /\ UNCHANGED <<total, content, named, counted, stage>>
    BY <1>4 DEF Abort, vars, requestVars
  <2>2. CASE Rejected(r)
    BY <1>4, <2>1, <2>2 DEF Abort, Rejected, FrontTypes, FrontOK, Others
  <2>3. CASE ~Rejected(r)
    <3>1. reply[r] = "none" /\ front[r] = "body" /\ stage[r] = "new" /\ Reply(r, "500")
      BY <1>4, <2>1, <2>3 DEF Abort, Rejected, FrontOK
    <3> QED
      BY <2>1, <3>1, ReplyStep DEF FrontTypes, FrontOK, Others
  <2> QED
    BY <2>2, <2>3
<1>5. CASE Authenticate(r)
  <2>1. /\ front[r] = "auth" /\ UNCHANGED <<stream, total, content, named, counted, stage>>
        /\ reply[r] = "none" /\ stage[r] = "new" /\ r \in named /\ stream[r] # "open"
    BY <1>5 DEF Authenticate, FrontOK, vars, requestVars, streamVars
  <2>2. CASE Enter(r, "limit")
    BY <2>1, <2>2, EnterStep DEF FrontTypes, FrontOK, Others
  <2>3. ASSUME NEW status \in {"400", "401", "403", "404", "500"}, Reply(r, status)
        PROVE  FrontTypes' /\ Others(r) /\ FrontOK(r)'
    BY <2>1, <2>3, ReplyStep DEF FrontTypes, FrontOK, Others
  <2> QED
    BY <1>5, <2>2, <2>3 DEF Authenticate
<1>6. CASE Admit(r)
  <2>1. /\ front[r] = "limit" /\ UNCHANGED <<stream, total, content, named>>
        /\ reply[r] = "none" /\ stage[r] = "new" /\ r \in named /\ stream[r] # "open"
        /\ counted' = counted \cup {r}
    BY <1>6 DEF Admit, FrontOK, streamVars
  <2>2. CASE Enter(r, "forward")
    BY <2>1, <2>2, EnterStep DEF FrontTypes, FrontOK, Others
  <2>3. CASE Enter(r, "lab") /\ UNCHANGED vars
    BY <2>1, <2>3, EnterStep DEF FrontTypes, FrontOK, Others, vars, requestVars
  <2> QED
    BY <1>6, <2>2, <2>3 DEF Admit
<1>7. CASE CountFails(r) \/ Lab(r)
  <2>1. /\ front[r] \in {"limit", "lab"} /\ UNCHANGED <<stream, total, content, named, counted, stage>>
        /\ reply[r] = "none" /\ stage[r] = "new" /\ r \in named /\ stream[r] # "open"
    BY <1>7 DEF CountFails, Lab, FrontOK, vars, requestVars, streamVars
  <2>2. PICK status \in {"201", "404", "409", "429", "500"} : Reply(r, status)
    BY <1>7 DEF CountFails, Lab
  <2> QED
    BY <2>1, <2>2, ReplyStep DEF FrontTypes, FrontOK, Others
<1> QED
  BY <1>1, <1>2, <1>3, <1>4, <1>5, <1>6, <1>7 DEF Middleware

\* The log takes nobody from new to another stage by itself.
LEMMA NewStays ==
  ASSUME LogInv, Write \/ (\E r \in Requests : Serve(r)) \/ Crash, NEW q \in Requests, stage[q] = "new"
  PROVE  stage'[q] = "new"
<1>1. stage \in [Requests -> {"new", "lookup", "limited", "fetch", "done"}] /\ running \subseteq Writes
  BY DEF LogInv, TablesOK, PoolOK
<1>2. ASSUME NEW r \in Requests, Serve(r) PROVE stage'[q] = "new"
  <2>1. r # q
    BY <1>2 DEF Serve, Forward, LookupFails, Complete
  <2> QED
    BY <1>1, <1>2, <2>1 DEF Serve, Forward, LookupFails, Complete, Answer, Goto
<1>3. CASE Dispatch \/ Crash
  BY <1>1, <1>3 DEF Dispatch, Crash, requestVars
<1>4. ASSUME NEW w \in running, Commit(w) \/ WriteFails(w) PROVE stage'[q] = "new"
  <2>1. Settled(w)
    BY <1>4 DEF Commit, WriteFails
  <2> QED
    BY <1>1, <2>1 DEF Settled, Answer, Goto, requestVars, Writes
<1> QED
  BY <1>2, <1>3, <1>4 DEF Write

PipelineInv == LogInv /\ FrontTypes /\ \A r \in Requests : FrontOK(r)

LEMMA PipelineStart == PipelineInit => PipelineInv
<1> SUFFICES ASSUME PipelineInit PROVE PipelineInv
  OBVIOUS
<1>1. FrontTypes
  BY BodyAssumption DEF PipelineInit, FrontTypes
<1>2. \A r \in Requests : FrontOK(r)
  BY DEF PipelineInit, Init, FrontOK
<1> QED
  BY <1>1, <1>2, LogInit DEF PipelineInit, PipelineInv

\* What a middleware does to the log: nothing, an arrival at forward, a refusal
\* of the limiter, or a fault.
LEMMA MiddlewareLogs ==
  ASSUME LogInv, NEW r \in Requests, Receive(r) \/ Data(r) \/ Middleware(r)
  PROVE  LogInv' /\ \A q \in Requests \ {r} : stage'[q] = stage[q]
<1>1. TablesOK /\ PoolOK /\ \A q \in Requests : RowOK(q)
  BY DEF LogInv
<1>2. \/ UNCHANGED vars \/ Arrive(r) \/ Limit(r)
      \/ Fault /\ UNCHANGED <<requestVars, poolVars, logVars>>
  BY DEF Receive, Data, Middleware, End, Abort, Authenticate, Admit, CountFails, Lab
<1>3. CASE UNCHANGED vars
  BY <1>3 DEF vars, requestVars, poolVars, logVars, LogInv, TablesOK, PoolOK, InPool, RowOK, Row, Orderly
<1>4. CASE Arrive(r) \/ Limit(r)
  <2>1. LogInv'
    BY <1>4, RequestRows
  <2>2. \A q \in Requests \ {r} : stage'[q] = stage[q]
    BY <1>1, <1>4 DEF Arrive, Limit, Goto, TablesOK
  <2> QED
    BY <2>1, <2>2
<1>5. CASE Fault /\ UNCHANGED <<requestVars, poolVars, logVars>>
  <2>1. UNCHANGED <<stage, answer, waiting, running, table, body, events>>
    BY <1>5 DEF requestVars, poolVars, logVars
  <2>2. faults' # 0 /\ faults' \in 0..MaxFaults
    BY <1>1, <1>5, FaultCounts
  <2>3. PoolOK' /\ InPool' = InPool
    BY <1>1, <2>1 DEF PoolOK, InPool
  <2>4. TablesOK'
    BY <1>1, <2>1, <2>2 DEF TablesOK
  <2>5. \A q \in Requests : RowOK(q)'
    BY <1>1, <2>1, <2>2, <2>3, RowStays
  <2> QED
    BY <2>1, <2>3, <2>4, <2>5 DEF LogInv
<1> QED
  BY <1>2, <1>3, <1>4, <1>5

\* The pipeline and the log keep each other's promises.
LEMMA PipelineStep == PipelineInv /\ [PipelineNext]_pipelineVars => PipelineInv'
<1> SUFFICES ASSUME PipelineInv, [PipelineNext]_pipelineVars PROVE PipelineInv'
  OBVIOUS
<1>1. LogInv /\ FrontTypes /\ \A r \in Requests : FrontOK(r)
  BY DEF PipelineInv
<1>2. ASSUME NEW r \in Requests, Receive(r) \/ Data(r) \/ Middleware(r) PROVE PipelineInv'
  <2>1. FrontTypes' /\ Others(r) /\ FrontOK(r)'
    BY <1>1, <1>2, FrontStep
  <2>2. LogInv' /\ \A q \in Requests \ {r} : stage'[q] = stage[q]
    BY <1>1, <1>2, MiddlewareLogs
  <2>3. ASSUME NEW q \in Requests \ {r} PROVE FrontOK(q)'
    BY <1>1, <2>1, <2>2 DEF Others, FrontOK
  <2> QED
    BY <2>1, <2>2, <2>3 DEF PipelineInv
<1>3. CASE ((\E r \in Requests : Serve(r)) \/ Write) /\ UNCHANGED frontVars
  <2>1. LogInv'
    BY <1>1, <1>3, RequestRows, PoolRows
  <2>2. UNCHANGED <<front, stream, total, content, named, counted, reply>>
    BY <1>3 DEF frontVars, streamVars
  <2>3. FrontTypes'
    BY <1>1, <2>2 DEF FrontTypes
  <2>4. ASSUME NEW q \in Requests PROVE FrontOK(q)'
    <3>1. stage[q] = "new" => stage'[q] = "new"
      BY <1>1, <1>3, NewStays
    <3> QED
      BY <1>1, <2>2, <3>1 DEF FrontOK
  <2> QED
    BY <2>1, <2>3, <2>4 DEF PipelineInv
<1>4. CASE Die
  <2>1. LogInv'
    BY <1>1, <1>4, PoolRows DEF Die
  <2>2. /\ front' = [r \in Requests |-> IF front[r] = "idle" THEN "idle" ELSE "over"]
        /\ stream' = [r \in Requests |-> IF stream[r] = "open" THEN "broken" ELSE stream[r]]
        /\ UNCHANGED <<total, content, named, counted, reply>>
    BY <1>4 DEF Die
  <2>3. FrontTypes'
    BY <1>1, <2>2 DEF FrontTypes
  <2>4. ASSUME NEW q \in Requests PROVE FrontOK(q)'
    <3>1. stage[q] = "new" => stage'[q] = "new"
      BY <1>1, <1>4, NewStays DEF Die
    <3> QED
      BY <1>1, <2>2, <3>1 DEF FrontOK
  <2> QED
    BY <2>1, <2>3, <2>4 DEF PipelineInv
<1>5. CASE UNCHANGED pipelineVars
  BY <1>1, <1>5 DEF pipelineVars, vars, requestVars, poolVars, logVars, LogInv, TablesOK, PoolOK, InPool,
       RowOK, Row, Orderly, frontVars, streamVars, FrontTypes, FrontOK, PipelineInv
<1> QED
  BY <1>2, <1>3, <1>4, <1>5 DEF PipelineNext

LEMMA PipelineInvariant == PipelineSpec => []PipelineInv
BY PipelineStart, PipelineStep, PTL DEF PipelineSpec

\* Behind the pipeline too, what the dashboard reads of a request is what its
\* student was told, or nothing at all: a faultless row is whole, or the
\* crossing of its two writes left it with neither outcome nor body.
THEOREM RowsAlwaysTellOutcome == PipelineSpec => []RowsTellOutcome
<1>1. PipelineInv => RowsTellOutcome
  BY LogShows DEF PipelineInv
<1> QED
  BY <1>1, PipelineInvariant, PTL

\* Whatever its stream does, and whatever fails, a request gets one answer,
\* which carries its id unless it never came as far as LabAuth.
THEOREM AnswersAreOneAndNamed == PipelineSpec => []OneNamedAnswer
<1>1. PipelineInv => OneNamedAnswer
  <2> SUFFICES ASSUME PipelineInv PROVE OneNamedAnswer
    OBVIOUS
  <2>1. LogInv /\ FrontTypes /\ \A r \in Requests : FrontOK(r) /\ RowOK(r)
    BY DEF PipelineInv, LogInv
  <2>2. PipelineTypeOK
    BY <2>1, LogShows DEF PipelineTypeOK, FrontTypes
  <2>3. AnsweredOnce
    BY <2>1 DEF AnsweredOnce, FrontOK, RowOK, Row
  <2>4. NamelessAnswers
    BY <2>1 DEF NamelessAnswers, FrontOK
  <2> QED
    BY <2>2, <2>3, <2>4 DEF OneNamedAnswer
<1> QED
  BY <1>1, PipelineInvariant, PTL
------------------------------------------------------------------------------
(* Bodies and answers: induction over the depth of a JSON value *)

Less == OpToRel(<, Nat)

\* Induction, over a set: the provers cannot instantiate the library's theorem.
LEMMA SetInduction ==
  ASSUME NEW P, 0 \in P, \A n \in Nat : n \in P => n + 1 \in P
  PROVE  \A n \in Nat : n \in P
<1>1. Less = {ss \in Nat \X Nat : ss[1] < ss[2]}
  BY DEF Less, OpToRel
<1>2. IsWellFoundedOn(Less, Nat)
  BY NatLessThanWellFounded DEF Less
<1> SUFFICES ASSUME NEW m \in Nat \ P PROVE FALSE
  OBVIOUS
<1>3. PICK x \in Nat \ P : \A y \in Nat \ P : ~(<<y, x>> \in Less)
  <2>1. Nat \ P \subseteq Nat /\ Nat \ P # {}
    OBVIOUS
  <2> QED
    BY <2>1, <1>2, WFMin
<1>4. x \in Nat /\ x # 0
  BY <1>3
<1>5. x - 1 \in Nat /\ <<x - 1, x>> \in Less /\ x - 1 + 1 = x
  BY <1>1, <1>4
<1>6. x - 1 \in P
  BY <1>3, <1>5
<1> QED
  BY <1>3, <1>5, <1>6

Wider(parts) == Scalars \cup Compounds(parts)
NodesFrom(before, n) == [t \in Json[n] |->
  {[path |-> <<>>, label |-> Label(t)]} \cup UNION {Under(c.step, before[c.tree]) : c \in Children(t)}]
RedactFrom(before, n) == [t \in Json[n] |->
  IF t.kind = "scalar" THEN t
  ELSE [kind |-> t.kind, fields |-> [name \in Names |-> RedactField(name, t.fields[name], before)]]]

\* What a recursive function of LoggedBody is at n, from what it is at n - 1.
FromParts(what, before, n) == IF what = "json" THEN IF n = 0 THEN Scalars ELSE Wider(before)
                              ELSE IF what = "nodes" THEN NodesFrom(before, n) ELSE RedactFrom(before, n)

\* The function exists: one that agrees with the recursion up to n for every n,
\* of which any two agree.
LEMMA RecursionIs ==
  ASSUME NEW what, \A g, h : FromParts(what, g, 0) = FromParts(what, h, 0)
  PROVE  \E f : f = [n \in Nat |-> FromParts(what, f[n - 1], n)]
<1> DEFINE Agrees(g, n) == \A m \in 0..n : g[m] = FromParts(what, g[m - 1], m)
           P == {n \in Nat : \E g : Agrees(g, n)}
<1>1. 0 \in P
  <2> DEFINE g == [m \in {0} |-> FromParts(what, 0, 0)]
  <2>1. g[0] = FromParts(what, 0, 0) /\ FromParts(what, g[0 - 1], 0) = FromParts(what, 0, 0)
    OBVIOUS
  <2>2. Agrees(g, 0)
    BY <2>1
  <2> HIDE DEF g, Agrees
  <2> QED
    BY <2>2
<1>2. ASSUME NEW n \in Nat, n \in P PROVE n + 1 \in P
  <2>1. PICK g : Agrees(g, n)
    BY <1>2
  <2> DEFINE h == [m \in 0..n + 1 |-> IF m = n + 1 THEN FromParts(what, g[n], n + 1) ELSE g[m]]
  <2>2. ASSUME NEW m \in 0..n + 1 PROVE h[m] = FromParts(what, h[m - 1], m)
    <3>1. m # 0 => m - 1 \in 0..n + 1 /\ m - 1 # n + 1 /\ h[m - 1] = g[m - 1]
      OBVIOUS
    <3>2. CASE m = n + 1
      BY <3>1, <3>2
    <3>3. CASE m # n + 1 /\ m # 0
      BY <2>1, <3>1, <3>3
    <3>4. CASE m # n + 1 /\ m = 0
      BY <2>1, <3>4
    <3> QED
      BY <3>2, <3>3, <3>4
  <2>3. Agrees(h, n + 1)
    BY <2>2
  <2> HIDE DEF h, Agrees
  <2> QED
    BY <2>3
<1>3. \A n \in Nat : n \in P
  <2> HIDE DEF P
  <2> QED
    BY <1>1, <1>2, SetInduction
<1>4. ASSUME NEW n \in Nat, NEW g, NEW h, Agrees(g, n), Agrees(h, n + 1) PROVE g[n] = h[n]
  <2> DEFINE A == {m \in Nat : m <= n => g[m] = h[m]}
  <2>1. 0 \in A
    BY <1>4
  <2>2. ASSUME NEW m \in Nat, m \in A PROVE m + 1 \in A
    <3>1. m + 1 <= n => m \in 0..n /\ m + 1 \in 0..n /\ m + 1 \in 0..n + 1 /\ m + 1 - 1 = m
      OBVIOUS
    <3> QED
      BY <1>4, <2>2, <3>1
  <2> HIDE DEF A
  <2>3. n \in A
    BY <2>1, <2>2, SetInduction
  <2> QED
    BY <2>3 DEF A
<1> DEFINE upTo == [n \in Nat |-> CHOOSE g : Agrees(g, n)]
           f == [n \in Nat |-> upTo[n][n]]
<1>5. ASSUME NEW n \in Nat PROVE Agrees(upTo[n], n)
  <2>1. \E g : Agrees(g, n)
    BY <1>3
  <2> HIDE DEF Agrees
  <2> QED
    BY <2>1
<1> HIDE DEF upTo
<1>6. ASSUME NEW n \in Nat PROVE f[n] = FromParts(what, f[n - 1], n)
  <2>1. upTo[n][n] = FromParts(what, upTo[n][n - 1], n)
    BY <1>5
  <2>2. CASE n = 0
    BY <2>1, <2>2
  <2>3. CASE n # 0
    <3>1. n - 1 \in Nat /\ n - 1 + 1 = n
      BY <2>3
    <3>2. upTo[n - 1][n - 1] = upTo[n][n - 1]
      <4> HIDE DEF Agrees
      <4> QED
        BY <1>4, <1>5, <3>1
    <3> QED
      BY <2>1, <3>1, <3>2
  <2> QED
    BY <2>2, <2>3
<1>7. f = [n \in Nat |-> FromParts(what, f[n - 1], n)]
  BY <1>6
<1> QED
  BY <1>7

LEMMA JsonIs == Json[0] = Scalars /\ \A n \in Nat : Json[n + 1] = Wider(Json[n])
<1>1. \A g, h : FromParts("json", g, 0) = FromParts("json", h, 0)
  BY DEF FromParts
<1>2. \E f : f = [n \in Nat |-> FromParts("json", f[n - 1], n)]
  BY <1>1, RecursionIs
<1>3. \A before, n : FromParts("json", before, n) = IF n = 0 THEN Scalars ELSE Wider(before)
  BY DEF FromParts
<1>4. Json = [n \in Nat |-> IF n = 0 THEN Scalars ELSE Wider(Json[n - 1])]
  <2>1. \E f : f = [n \in Nat |-> IF n = 0 THEN Scalars ELSE Wider(f[n - 1])]
    BY <1>2, <1>3
  <2> QED
    BY <2>1 DEF Json, Wider
<1>5. \A n \in Nat : n + 1 \in Nat /\ n + 1 # 0 /\ n + 1 - 1 = n
  OBVIOUS
<1> QED
  BY <1>4, <1>5

LEMMA NodesAre == \A n \in Nat : NodesOf[n] = NodesFrom(NodesOf[n - 1], n)
<1>1. \A before, n : FromParts("nodes", before, n) = NodesFrom(before, n)
  BY DEF FromParts
<1>2. \A g, h : NodesFrom(g, 0) = NodesFrom(h, 0)
  BY JsonIs DEF NodesFrom, Scalars, Children
<1>3. \E f : f = [n \in Nat |-> FromParts("nodes", f[n - 1], n)]
  BY <1>1, <1>2, RecursionIs
<1>4. NodesOf = [n \in Nat |-> NodesFrom(NodesOf[n - 1], n)]
  <2>1. \E f : f = [n \in Nat |-> NodesFrom(f[n - 1], n)]
    BY <1>1, <1>3
  <2> QED
    BY <2>1 DEF NodesOf, NodesFrom
<1> QED
  BY <1>4

LEMMA RedactIs == \A n \in Nat : Redact[n] = RedactFrom(Redact[n - 1], n)
<1>1. \A before, n : FromParts("redact", before, n) = RedactFrom(before, n)
  BY DEF FromParts
<1>2. \A g, h : RedactFrom(g, 0) = RedactFrom(h, 0)
  BY JsonIs DEF RedactFrom, Scalars
<1>3. \E f : f = [n \in Nat |-> FromParts("redact", f[n - 1], n)]
  BY <1>1, <1>2, RecursionIs
<1>4. Redact = [n \in Nat |-> RedactFrom(Redact[n - 1], n)]
  <2>1. \E f : f = [n \in Nat |-> RedactFrom(f[n - 1], n)]
    BY <1>1, <1>3
  <2> QED
    BY <2>1 DEF Redact, RedactFrom
<1> QED
  BY <1>4
------------------------------------------------------------------------------
(* JSON values *)

LEMMA ValueKinds ==
  ASSUME NEW n \in Nat
  PROVE  /\ Scalars \subseteq Json[n] /\ Undefined \notin Json[n]
         /\ \A t \in Json[0] : t.kind = "scalar"
         /\ \A t \in Json[n + 1] : \/ t.kind = "scalar" /\ t \in Scalars
                                   \/ t.kind \in {"array", "object"} /\ t \in Compounds(Json[n])
<1>1. \A parts : /\ \A t \in Scalars : t.kind = "scalar"
                 /\ \A t \in Compounds(parts) : t.kind \in {"array", "object"}
                 /\ Undefined.kind = "undefined"
  BY DEF Scalars, Compounds, Undefined
<1>2. n # 0 => n - 1 \in Nat /\ n - 1 + 1 = n
  OBVIOUS
<1>3. Json[n] = Scalars \/ \E parts : Json[n] = Wider(parts)
  BY <1>2, JsonIs
<1>4. Scalars \subseteq Json[n] /\ Undefined \notin Json[n]
  BY <1>1, <1>3 DEF Wider
<1>5. Json[n + 1] = Wider(Json[n]) /\ Json[0] = Scalars
  BY JsonIs
<1> QED
  BY <1>1, <1>4, <1>5 DEF Wider

LEMMA ScalarLeaf == \A t \in Scalars : t.kind = "scalar" /\ Children(t) = {}
BY DEF Scalars, Children

Child(name, t) == [step |-> name, tree |-> t]

LEMMA CompoundParts ==
  ASSUME NEW parts, NEW t \in Compounds(parts)
  PROVE  /\ t.kind \in {"array", "object"} /\ t.fields \in [Names -> parts \cup {Undefined}]
         /\ t = [kind |-> t.kind, fields |-> t.fields]
         /\ Children(t) = {Child(name, t.fields[name]) : name \in {name \in Names : t.fields[name] # Undefined}}
<1>1. /\ t.kind \in {"array", "object"} /\ t.fields \in [Names -> parts \cup {Undefined}]
      /\ t = [kind |-> t.kind, fields |-> t.fields]
  BY DEF Compounds
<1> QED
  BY <1>1 DEF Children, Child

LEMMA ChildrenFit ==
  ASSUME NEW n \in Nat, NEW t \in Json[n + 1], NEW c \in Children(t)
  PROVE  c = [step |-> c.step, tree |-> c.tree] /\ c.step \in Names /\ c.tree \in Json[n]
<1>1. CASE t \in Scalars
  BY <1>1, ScalarLeaf
<1>2. CASE t \in Compounds(Json[n])
  <2>1. t.fields \in [Names -> Json[n] \cup {Undefined}]
    BY <1>2, CompoundParts
  <2>2. PICK name \in Names : t.fields[name] # Undefined /\ c = Child(name, t.fields[name])
    BY <1>2, CompoundParts
  <2> QED
    BY <2>1, <2>2 DEF Child
<1> QED
  BY <1>1, <1>2, ValueKinds

\* x is a node of the child c, seen from its parent.
Within(x, c, n) == \E y \in NodesOf[n][c.tree] : x = [path |-> <<c.step>> \o y.path, label |-> y.label]

LEMMA NodesUnfold ==
  ASSUME NEW n \in Nat, NEW t \in Json[n + 1], NEW x
  PROVE  x \in NodesOf[n + 1][t] <=> \/ x = [path |-> <<>>, label |-> Label(t)]
                                     \/ \E c \in Children(t) : Within(x, c, n)
<1>1. n + 1 \in Nat /\ n + 1 - 1 = n
  OBVIOUS
<1>2. NodesOf[n + 1] = NodesFrom(NodesOf[n], n + 1)
  BY <1>1, NodesAre
<1>3. NodesOf[n + 1][t] = {[path |-> <<>>, label |-> Label(t)]}
                          \cup UNION {Under(c.step, NodesOf[n][c.tree]) : c \in Children(t)}
  BY <1>2 DEF NodesFrom
<1>4. \A c \in Children(t) : x \in Under(c.step, NodesOf[n][c.tree]) <=> Within(x, c, n)
  BY DEF Under, Within
<1> QED
  BY <1>3, <1>4

LEMMA ScalarNodes ==
  ASSUME NEW n \in Nat, NEW t \in Scalars
  PROVE  NodesOf[n][t] = {[path |-> <<>>, label |-> t]}
<1>1. t \in Json[n] /\ t.kind = "scalar" /\ Children(t) = {}
  BY ValueKinds, ScalarLeaf
<1>2. NodesOf[n] = NodesFrom(NodesOf[n - 1], n)
  BY NodesAre
<1> QED
  BY <1>1, <1>2 DEF NodesFrom, Label

LEMMA NodeTypes ==
  \A n \in Nat : \A t \in Json[n] : \A x \in NodesOf[n][t] :
    /\ x = [path |-> x.path, label |-> x.label] /\ x.path \in Seq(Names)
    /\ x.label.kind = "scalar" => x.label \in Scalars
<1> DEFINE Typed(x) == /\ x = [path |-> x.path, label |-> x.label] /\ x.path \in Seq(Names)
                       /\ x.label.kind = "scalar" => x.label \in Scalars
           P == {n \in Nat : \A t \in Json[n] : \A x \in NodesOf[n][t] : Typed(x)}
<1>1. 0 \in P
  <2>1. ASSUME NEW t \in Json[0], NEW x \in NodesOf[0][t] PROVE Typed(x)
    <3>1. t \in Scalars
      BY JsonIs
    <3>2. x = [path |-> <<>>, label |-> t]
      BY <3>1, ScalarNodes
    <3> QED
      BY <3>1, <3>2
  <2> QED
    BY <2>1
<1>2. ASSUME NEW n \in Nat, n \in P PROVE n + 1 \in P
  <2>1. ASSUME NEW t \in Json[n + 1], NEW x \in NodesOf[n + 1][t] PROVE Typed(x)
    <3>1. CASE x = [path |-> <<>>, label |-> Label(t)]
      <4>1. t.kind = "scalar" => t \in Scalars
        BY ValueKinds
      <4>2. x.label = IF t.kind = "scalar" THEN t ELSE [kind |-> t.kind]
        BY <3>1 DEF Label
      <4>3. x.path \in Seq(Names) /\ x = [path |-> x.path, label |-> x.label]
        BY <3>1
      <4> QED
        BY <4>1, <4>2, <4>3
    <3>2. ASSUME NEW c \in Children(t), Within(x, c, n) PROVE Typed(x)
      <4>1. PICK y \in NodesOf[n][c.tree] : x = [path |-> <<c.step>> \o y.path, label |-> y.label]
        BY <3>2 DEF Within
      <4>2. c.step \in Names /\ c.tree \in Json[n]
        BY ChildrenFit
      <4>3. Typed(y)
        BY <1>2, <4>2
      <4>4. <<c.step>> \o y.path \in Seq(Names)
        BY <4>2, <4>3
      <4>5. x.path \in Seq(Names) /\ x = [path |-> x.path, label |-> x.label] /\ x.label = y.label
        BY <4>1, <4>4
      <4> QED
        BY <4>3, <4>5
    <3>3. x = [path |-> <<>>, label |-> Label(t)] \/ \E c \in Children(t) : Within(x, c, n)
      BY NodesUnfold
    <3> HIDE DEF Typed
    <3> QED
      BY <3>1, <3>2, <3>3
  <2>2. n + 1 \in Nat
    OBVIOUS
  <2> QED
    BY <2>1, <2>2
<1>3. \A n \in Nat : n \in P
  <2> HIDE DEF P
  <2> QED
    BY <1>1, <1>2, SetInduction
<1> QED
  BY <1>3
------------------------------------------------------------------------------
(* Redaction *)

LEMMA RedactUnfold ==
  ASSUME NEW n \in Nat, NEW t \in Json[n + 1]
  PROVE  /\ t \in Scalars => Redact[n + 1][t] = t
         /\ t \in Compounds(Json[n]) =>
              Redact[n + 1][t] = [kind |-> t.kind,
                fields |-> [name \in Names |-> RedactField(name, t.fields[name], Redact[n])]]
<1>1. n + 1 \in Nat /\ n + 1 - 1 = n
  OBVIOUS
<1>2. Redact[n + 1] = RedactFrom(Redact[n], n + 1)
  BY <1>1, RedactIs
<1>3. t \in Scalars => t.kind = "scalar"
  BY ScalarLeaf
<1>4. t \in Compounds(Json[n]) => t.kind # "scalar"
  <2>1. t \in Compounds(Json[n]) => t.kind \in {"array", "object"}
    BY CompoundParts
  <2> QED
    BY <2>1
<1> QED
  BY <1>2, <1>3, <1>4 DEF RedactFrom

Redacting(c, redacted) == Child(c.step, IF IsSensitive(c.step) THEN Redacted ELSE redacted[c.tree])
Stays(c) == c.step # "__proto__"

LEMMA RedactedParts ==
  ASSUME NEW n \in Nat, \A u \in Json[n] : Redact[n][u] \in Json[n],
         NEW t \in Json[n + 1]
  PROVE  LET r == Redact[n + 1][t] IN
         /\ r \in Json[n + 1] /\ Label(r) = Label(t)
         /\ Children(r) = {Redacting(c, Redact[n]) : c \in {c \in Children(t) : Stays(c)}}
<1> DEFINE r == Redact[n + 1][t]
<1>1. Json[n + 1] = Scalars \cup Compounds(Json[n])
  BY JsonIs DEF Wider
<1>2. CASE t \in Scalars
  BY <1>1, <1>2, RedactUnfold, ScalarLeaf
<1>3. CASE t \in Compounds(Json[n])
  <2>1. /\ t.kind \in {"array", "object"} /\ t.fields \in [Names -> Json[n] \cup {Undefined}]
        /\ Children(t) = {Child(name, t.fields[name]) : name \in {name \in Names : t.fields[name] # Undefined}}
    BY <1>3, CompoundParts
  <2>2. r = [kind |-> t.kind, fields |-> [name \in Names |-> RedactField(name, t.fields[name], Redact[n])]]
    BY <1>3, RedactUnfold
  <2>3. ASSUME NEW name \in Names
        PROVE  /\ r.fields[name] = IF t.fields[name] = Undefined \/ name = "__proto__" THEN Undefined
                                   ELSE IF IsSensitive(name) THEN Redacted ELSE Redact[n][t.fields[name]]
               /\ r.fields[name] \in Json[n] \cup {Undefined}
               /\ r.fields[name] = Undefined <=> t.fields[name] = Undefined \/ name = "__proto__"
    <3>1. r.fields[name] = RedactField(name, t.fields[name], Redact[n])
      BY <2>2
    <3>2. r.fields[name] = IF t.fields[name] = Undefined \/ name = "__proto__" THEN Undefined
                           ELSE IF IsSensitive(name) THEN Redacted ELSE Redact[n][t.fields[name]]
      BY <3>1 DEF RedactField
    <3>3. Redacted \in Scalars
      BY DEF Redacted, Scalar, Scalars
    <3>4. Scalars \subseteq Json[n] /\ Undefined \notin Json[n]
      BY ValueKinds
    <3>5. t.fields[name] # Undefined => t.fields[name] \in Json[n] /\ Redact[n][t.fields[name]] \in Json[n]
      BY <2>1
    <3> QED
      BY <3>2, <3>3, <3>4, <3>5
  <2>4. r \in Compounds(Json[n])
    BY <2>1, <2>2, <2>3 DEF Compounds
  <2>5. Children(r) = {Child(name, r.fields[name]) : name \in {name \in Names : r.fields[name] # Undefined}}
    BY <2>4, CompoundParts
  <2>6. ASSUME NEW name \in Names
        PROVE  /\ Child(name, t.fields[name]).step = name /\ Child(name, t.fields[name]).tree = t.fields[name]
               /\ Stays(Child(name, t.fields[name])) <=> name # "__proto__"
    BY DEF Child, Stays
  <2>7. ASSUME NEW name \in Names, t.fields[name] # Undefined, name # "__proto__"
        PROVE  Redacting(Child(name, t.fields[name]), Redact[n]) = Child(name, r.fields[name])
    BY <2>3, <2>6, <2>7 DEF Redacting
  <2>8. Children(r) = {Redacting(c, Redact[n]) : c \in {c \in Children(t) : Stays(c)}}
    <3>1. ASSUME NEW c \in Children(t), Stays(c) PROVE Redacting(c, Redact[n]) \in Children(r)
      <4>1. PICK name \in Names : t.fields[name] # Undefined /\ c = Child(name, t.fields[name])
        BY <2>1
      <4>2. name # "__proto__"
        BY <2>6, <3>1, <4>1
      <4> QED
        BY <2>3, <2>5, <2>7, <4>1, <4>2
    <3>2. ASSUME NEW c \in Children(r) PROVE \E d \in {d \in Children(t) : Stays(d)} : c = Redacting(d, Redact[n])
      <4>1. PICK name \in Names : r.fields[name] # Undefined /\ c = Child(name, r.fields[name])
        BY <2>5
      <4>2. t.fields[name] # Undefined /\ name # "__proto__"
        BY <2>3, <4>1
      <4>3. Child(name, t.fields[name]) \in {d \in Children(t) : Stays(d)}
        BY <2>1, <2>6, <4>2
      <4> QED
        BY <2>7, <4>1, <4>2, <4>3
    <3> HIDE DEF r
    <3> QED
      BY <3>1, <3>2
  <2>9. Label(r) = Label(t)
    BY <2>1, <2>2 DEF Label
  <2> QED
    BY <1>1, <2>4, <2>8, <2>9
<1> QED
  BY <1>1, <1>2, <1>3

\* A path that begins with s and goes on as q.
LEMMA PathUnder ==
  ASSUME NEW s \in Names, NEW q \in Seq(Names), NEW S
  PROVE  (\E i \in DOMAIN (<<s>> \o q) : (<<s>> \o q)[i] \in S) <=> s \in S \/ \E i \in DOMAIN q : q[i] \in S
<1> DEFINE p == <<s>> \o q
<1>1. /\ DOMAIN q = 1..Len(q) /\ Len(q) \in Nat /\ DOMAIN p = 1..Len(q) + 1 /\ p[1] = s
      /\ \A i \in 1..Len(q) : i + 1 \in 1..Len(q) + 1 /\ p[i + 1] = q[i]
  OBVIOUS
<1>2. \A i \in 1..Len(q) + 1 : i = 1 \/ (i - 1 \in 1..Len(q) /\ i - 1 + 1 = i)
  BY <1>1
<1> HIDE DEF p
<1>3. ASSUME NEW i \in DOMAIN p, p[i] \in S PROVE s \in S \/ \E j \in DOMAIN q : q[j] \in S
  <2>1. CASE i = 1
    BY <1>1, <1>3, <2>1
  <2>2. CASE i - 1 \in 1..Len(q) /\ i - 1 + 1 = i
    <3>1. p[i] = q[i - 1]
      BY <1>1, <2>2
    <3> QED
      BY <1>1, <1>3, <2>2, <3>1
  <2> QED
    BY <1>1, <1>2, <1>3, <2>1, <2>2
<1>4. ASSUME s \in S PROVE \E i \in DOMAIN p : p[i] \in S
  <2>1. 1 \in DOMAIN p
    BY <1>1
  <2> QED
    BY <1>1, <1>4, <2>1
<1>5. ASSUME NEW j \in DOMAIN q, q[j] \in S PROVE \E i \in DOMAIN p : p[i] \in S
  <2>1. j + 1 \in DOMAIN p /\ p[j + 1] = q[j]
    BY <1>1
  <2> QED
    BY <1>5, <2>1
<1> QED
  BY <1>3, <1>4, <1>5 DEF p

LEMMA LostUnder ==
  ASSUME NEW s \in Names, NEW q \in Seq(Names)
  PROVE  Lost(<<s>> \o q) <=> s = "__proto__" \/ Lost(q)
<1>1. \A p : Lost(p) <=> \E i \in DOMAIN p : p[i] \in {"__proto__"}
  BY DEF Lost
<1>2. (\E i \in DOMAIN (<<s>> \o q) : (<<s>> \o q)[i] \in {"__proto__"})
        <=> s \in {"__proto__"} \/ \E i \in DOMAIN q : q[i] \in {"__proto__"}
  BY PathUnder
<1> QED
  BY <1>1, <1>2

Topmost(path) == Hidden(path) /\ ~Hidden(Front(path))

LEMMA HiddenUnder ==
  ASSUME NEW s \in Names, NEW q \in Seq(Names)
  PROVE  Hidden(<<s>> \o q) <=> IsSensitive(s) \/ Hidden(q)
<1> DEFINE S == {name \in Names : IsSensitive(name)}
<1>1. ASSUME NEW p \in Seq(Names) PROVE Hidden(p) <=> \E i \in DOMAIN p : p[i] \in S
  <2>1. \A i \in DOMAIN p : p[i] \in Names
    OBVIOUS
  <2> QED
    BY <2>1 DEF Hidden, IsSensitive
<1>2. <<s>> \o q \in Seq(Names) /\ (s \in S <=> IsSensitive(s))
  OBVIOUS
<1> HIDE DEF S
<1>3. (\E i \in DOMAIN (<<s>> \o q) : (<<s>> \o q)[i] \in S) <=> s \in S \/ \E i \in DOMAIN q : q[i] \in S
  BY PathUnder
<1>4. /\ Hidden(<<s>> \o q) <=> \E i \in DOMAIN (<<s>> \o q) : (<<s>> \o q)[i] \in S
      /\ Hidden(q) <=> \E i \in DOMAIN q : q[i] \in S
  BY <1>1, <1>2
<1> QED
  BY <1>2, <1>3, <1>4

LEMMA NothingHidden == ~Hidden(<<>>) /\ ~Lost(<<>>)
BY DEF Hidden, Lost

LEMMA TopmostUnder ==
  ASSUME NEW s \in Names, NEW q \in Seq(Names)
  PROVE  Topmost(<<s>> \o q) <=> IF IsSensitive(s) THEN q = <<>> ELSE Topmost(q)
<1>1. CASE q = <<>>
  <2>1. <<s>> \o q = <<s>> /\ Front(<<s>>) = <<>>
    BY <1>1 DEF Front
  <2> QED
    BY <1>1, <2>1, HiddenUnder, NothingHidden DEF Topmost
<1>2. CASE q # <<>>
  <2> DEFINE m == Len(q)
             p == <<s>> \o q
  <2>1. /\ m \in Nat \ {0} /\ Len(p) = m + 1 /\ p \in Seq(Names) /\ p[1] = s
        /\ \A i \in 1..m : p[i + 1] = q[i]
    BY <1>2
  <2>2. /\ Front(q) = SubSeq(q, 1, m - 1) /\ Front(p) = SubSeq(p, 1, m)
    BY <2>1 DEF Front
  <2>3. /\ Front(q) \in Seq(Names) /\ Len(Front(q)) = m - 1 /\ \A i \in 1..m - 1 : Front(q)[i] = q[i]
    BY <2>1, <2>2
  <2>4. /\ Front(p) \in Seq(Names) /\ Len(Front(p)) = m /\ \A i \in 1..m : Front(p)[i] = p[i]
    <3> HIDE DEF p
    <3> QED
      BY <2>1, <2>2
  <2>5. Front(p) = <<s>> \o Front(q)
    <3> DEFINE w == <<s>> \o Front(q)
    <3>1. /\ w \in Seq(Names) /\ Len(w) = m /\ w[1] = s
          /\ \A i \in 1..m - 1 : w[i + 1] = Front(q)[i]
      BY <2>1, <2>3
    <3> HIDE DEF w, p
    <3>2. ASSUME NEW i \in 1..m PROVE Front(p)[i] = w[i]
      <4>1. CASE i = 1
        BY <2>1, <2>4, <3>1, <4>1
      <4>2. CASE i # 1
        <5>1. i - 1 \in 1..m - 1 /\ i - 1 \in 1..m /\ i - 1 + 1 = i
          BY <2>1, <4>2
        <5>2. w[i] = q[i - 1]
          BY <2>3, <3>1, <5>1
        <5>3. p[i] = q[i - 1]
          BY <2>1, <5>1
        <5> QED
          BY <2>4, <5>2, <5>3
      <4> QED
        BY <4>1, <4>2
    <3> QED
      BY <2>4, <3>1, <3>2, SeqEqual DEF w
  <2>6. Hidden(p) <=> IsSensitive(s) \/ Hidden(q)
    BY HiddenUnder
  <2>7. Hidden(Front(p)) <=> IsSensitive(s) \/ Hidden(Front(q))
    BY <2>3, <2>5, HiddenUnder
  <2>8. Topmost(p) <=> Hidden(p) /\ ~Hidden(Front(p))
    BY DEF Topmost
  <2>9. Topmost(q) <=> Hidden(q) /\ ~Hidden(Front(q))
    BY DEF Topmost
  <2> HIDE DEF p
  <2>10. Topmost(p) <=> ~IsSensitive(s) /\ Topmost(q)
    BY <2>6, <2>7, <2>8, <2>9
  <2> QED
    BY <1>2, <2>10 DEF p
<1> QED
  BY <1>1, <1>2

Root(t) == [path |-> <<>>, label |-> Label(t)]

LEMMA RootIsNode == ASSUME NEW n \in Nat, NEW t \in Json[n] PROVE Root(t) \in NodesOf[n][t]
<1>1. NodesOf[n] = NodesFrom(NodesOf[n - 1], n)
  BY NodesAre
<1> QED
  BY <1>1 DEF NodesFrom, Root

\* What the redacted value has to have, of the nodes of the value.
Open(path) == ~Hidden(path) /\ ~Lost(path)
Marks(x, y) == Topmost(y.path) /\ ~Lost(y.path) /\ x = [path |-> y.path, label |-> Redacted]
Kept(x, nodes) == (x \in nodes /\ Open(x.path)) \/ \E y \in nodes : Marks(x, y)
KeptWithin(x, c, n) == \/ Within(x, c, n) /\ Open(x.path)
                       \/ \E y : Within(y, c, n) /\ Marks(x, y)

LEMMA KeptUnfold ==
  ASSUME NEW n \in Nat, NEW t \in Json[n + 1], NEW x
  PROVE  Kept(x, NodesOf[n + 1][t]) <=> x = Root(t) \/ \E c \in Children(t) : KeptWithin(x, c, n)
<1>1. \A y : y \in NodesOf[n + 1][t] <=> y = Root(t) \/ \E c \in Children(t) : Within(y, c, n)
  BY NodesUnfold DEF Root
<1>2. Open(Root(t).path) /\ ~Hidden(Root(t).path)
  BY NothingHidden DEF Root, Open
<1>3. \A y : Marks(x, y) => Hidden(y.path)
  BY DEF Marks, Topmost
<1> QED
  BY <1>1, <1>2, <1>3 DEF Kept, KeptWithin

\* What is in __proto__ is not kept.
LEMMA LostChild ==
  ASSUME NEW n \in Nat, NEW c, c.step \in Names, c.tree \in Json[n], ~Stays(c), NEW x
  PROVE  ~KeptWithin(x, c, n)
<1>1. ASSUME NEW y, Within(y, c, n) PROVE Lost(y.path)
  <2>1. PICK z \in NodesOf[n][c.tree] : y = [path |-> <<c.step>> \o z.path, label |-> z.label]
    BY <1>1 DEF Within
  <2>2. z.path \in Seq(Names) /\ y.path = <<c.step>> \o z.path
    BY <2>1, NodeTypes
  <2> QED
    BY <2>2, LostUnder DEF Stays
<1> QED
  BY <1>1 DEF KeptWithin, Open, Marks

LEMMA SensitiveChild ==
  ASSUME NEW n \in Nat, NEW c, c.step \in Names, c.tree \in Json[n], Stays(c), IsSensitive(c.step),
         NEW d, d = [step |-> c.step, tree |-> Redacted], NEW x
  PROVE  Within(x, d, n) <=> KeptWithin(x, c, n)
<1> DEFINE mark == [path |-> <<c.step>> \o <<>>, label |-> Redacted]
<1>1. Within(x, d, n) <=> x = mark
  <2>1. Redacted \in Scalars
    BY DEF Redacted, Scalar, Scalars
  <2>2. NodesOf[n][d.tree] = {[path |-> <<>>, label |-> Redacted]}
    BY <2>1, ScalarNodes
  <2> QED
    BY <2>2 DEF Within
<1>2. ASSUME NEW y, Within(y, c, n) PROVE Hidden(y.path) /\ (Marks(x, y) => x = mark)
  <2>1. PICK z \in NodesOf[n][c.tree] : y = [path |-> <<c.step>> \o z.path, label |-> z.label]
    BY <1>2 DEF Within
  <2>2. z.path \in Seq(Names)
    BY NodeTypes
  <2>3. y.path = <<c.step>> \o z.path
    BY <2>1
  <2>4. Hidden(y.path)
    BY <2>2, <2>3, HiddenUnder
  <2>5. Topmost(y.path) <=> z.path = <<>>
    BY <2>2, <2>3, TopmostUnder
  <2> QED
    BY <2>3, <2>4, <2>5 DEF Marks
<1>3. \E y : Within(y, c, n) /\ Marks(mark, y)
  <2> DEFINE y == [path |-> <<c.step>> \o Root(c.tree).path, label |-> Root(c.tree).label]
  <2>1. Within(y, c, n)
    BY RootIsNode DEF Within
  <2>2. y.path = <<c.step>> \o <<>>
    BY DEF Root
  <2>3. <<>> \in Seq(Names)
    OBVIOUS
  <2>4. Topmost(<<c.step>> \o <<>>) /\ ~Lost(<<c.step>> \o <<>>)
    BY <2>3, TopmostUnder, LostUnder, NothingHidden DEF Stays
  <2> QED
    BY <2>1, <2>2, <2>4 DEF Marks
<1> HIDE DEF mark
<1> QED
  BY <1>1, <1>2, <1>3 DEF KeptWithin, Open

LEMMA OtherChild ==
  ASSUME NEW n \in Nat, NEW c, c.step \in Names, c.tree \in Json[n], Stays(c), ~IsSensitive(c.step),
         NEW d, d = [step |-> c.step, tree |-> Redact[n][c.tree]],
         \A z : z \in NodesOf[n][Redact[n][c.tree]] <=> Kept(z, NodesOf[n][c.tree]), NEW x
  PROVE  Within(x, d, n) <=> KeptWithin(x, c, n)
<1> DEFINE nodes == NodesOf[n][c.tree]
<1>1. \A q \in Seq(Names) : /\ Open(<<c.step>> \o q) <=> Open(q)
                            /\ Topmost(<<c.step>> \o q) <=> Topmost(q)
                            /\ Lost(<<c.step>> \o q) <=> Lost(q)
  BY HiddenUnder, TopmostUnder, LostUnder DEF Stays, Open
<1>2. \A z \in nodes : z.path \in Seq(Names) /\ z = [path |-> z.path, label |-> z.label]
  BY NodeTypes
<1>3. ASSUME Within(x, d, n) PROVE KeptWithin(x, c, n)
  <2>1. PICK z : Kept(z, nodes) /\ x = [path |-> <<c.step>> \o z.path, label |-> z.label]
    BY <1>3 DEF Within
  <2>2. CASE z \in nodes /\ Open(z.path)
    <3>1. Within(x, c, n)
      BY <2>1, <2>2 DEF Within
    <3>2. x.path = <<c.step>> \o z.path
      BY <2>1
    <3> QED
      BY <1>1, <1>2, <2>2, <3>1, <3>2 DEF KeptWithin
  <2>3. ASSUME NEW u \in nodes, Marks(z, u) PROVE KeptWithin(x, c, n)
    <3> DEFINE y == [path |-> <<c.step>> \o u.path, label |-> u.label]
    <3>1. Within(y, c, n)
      BY DEF Within
    <3>2. Topmost(u.path) /\ ~Lost(u.path) /\ z.path = u.path /\ z.label = Redacted
      BY <2>3 DEF Marks
    <3>3. Topmost(y.path) /\ ~Lost(y.path)
      BY <1>1, <1>2, <3>2
    <3>4. x = [path |-> y.path, label |-> Redacted]
      BY <2>1, <3>2
    <3> QED
      BY <3>1, <3>3, <3>4 DEF KeptWithin, Marks
  <2> QED
    BY <2>1, <2>2, <2>3 DEF Kept
<1>4. ASSUME Within(x, c, n), Open(x.path) PROVE Within(x, d, n)
  <2>1. PICK z \in nodes : x = [path |-> <<c.step>> \o z.path, label |-> z.label]
    BY <1>4 DEF Within
  <2>2. x.path = <<c.step>> \o z.path
    BY <2>1
  <2>3. Open(z.path)
    BY <1>1, <1>2, <1>4, <2>2
  <2>4. z \in NodesOf[n][Redact[n][c.tree]]
    BY <2>3 DEF Kept
  <2> QED
    BY <2>1, <2>4 DEF Within
<1>5. ASSUME NEW y, Within(y, c, n), Marks(x, y) PROVE Within(x, d, n)
  <2>1. PICK u \in nodes : y = [path |-> <<c.step>> \o u.path, label |-> u.label]
    BY <1>5 DEF Within
  <2>2. /\ y.path = <<c.step>> \o u.path /\ Topmost(y.path) /\ ~Lost(y.path)
        /\ x = [path |-> y.path, label |-> Redacted]
    BY <1>5, <2>1 DEF Marks
  <2>3. Topmost(u.path) /\ ~Lost(u.path)
    BY <1>1, <1>2, <2>2
  <2> DEFINE z == [path |-> u.path, label |-> Redacted]
  <2>4. z \in NodesOf[n][Redact[n][c.tree]]
    BY <2>3 DEF Kept, Marks
  <2>5. x = [path |-> <<c.step>> \o z.path, label |-> z.label]
    BY <2>2
  <2> HIDE DEF z
  <2> QED
    BY <2>4, <2>5 DEF Within
<1> QED
  BY <1>3, <1>4, <1>5 DEF KeptWithin

\* Redaction is right at every depth.
LEMMA RedactKeeps ==
  \A n \in Nat : \A t \in Json[n] :
    Redact[n][t] \in Json[n] /\ \A x : x \in NodesOf[n][Redact[n][t]] <=> Kept(x, NodesOf[n][t])
<1> DEFINE Fine(n, t) == Redact[n][t] \in Json[n] /\ \A x : x \in NodesOf[n][Redact[n][t]] <=> Kept(x, NodesOf[n][t])
           P == {n \in Nat : \A t \in Json[n] : Fine(n, t)}
<1>1. 0 \in P
  <2>1. ASSUME NEW t \in Json[0] PROVE Fine(0, t)
    <3>1. t \in Scalars /\ t.kind = "scalar" /\ 0 \in Nat
      BY JsonIs, ScalarLeaf
    <3>2. Redact[0][t] = t
      <4>1. Redact[0] = RedactFrom(Redact[0 - 1], 0)
        BY RedactIs
      <4> QED
        BY <3>1, <4>1 DEF RedactFrom
    <3>3. NodesOf[0][t] = {[path |-> <<>>, label |-> t]}
      BY <3>1, ScalarNodes
    <3>4. \A x : Kept(x, NodesOf[0][t]) <=> x \in NodesOf[0][t]
      BY <3>3, NothingHidden DEF Kept, Marks, Topmost, Open
    <3> QED
      BY <3>2, <3>4
  <2> QED
    BY <2>1
<1>2. ASSUME NEW n \in Nat, n \in P PROVE n + 1 \in P
  <2>1. ASSUME NEW t \in Json[n + 1] PROVE Fine(n + 1, t)
    <3> DEFINE r == Redact[n + 1][t]
    <3>1. \A u \in Json[n] : Redact[n][u] \in Json[n]
      BY <1>2
    <3>2. /\ r \in Json[n + 1] /\ Label(r) = Label(t)
          /\ Children(r) = {Redacting(c, Redact[n]) : c \in {c \in Children(t) : Stays(c)}}
      BY <3>1, RedactedParts
    <3>3. ASSUME NEW c \in Children(t), Stays(c), NEW x
          PROVE  Within(x, Redacting(c, Redact[n]), n) <=> KeptWithin(x, c, n)
      <4>1. c.step \in Names /\ c.tree \in Json[n]
        BY ChildrenFit
      <4>2. \A z : z \in NodesOf[n][Redact[n][c.tree]] <=> Kept(z, NodesOf[n][c.tree])
        BY <1>2, <4>1
      <4>3. CASE IsSensitive(c.step)
        <5>1. Redacting(c, Redact[n]) = [step |-> c.step, tree |-> Redacted]
          BY <4>3 DEF Redacting, Child
        <5> HIDE DEF P, Fine
        <5> QED
          BY <3>3, <4>1, <4>3, <5>1, SensitiveChild
      <4>4. CASE ~IsSensitive(c.step)
        <5>1. Redacting(c, Redact[n]) = [step |-> c.step, tree |-> Redact[n][c.tree]]
          BY <4>4 DEF Redacting, Child
        <5> HIDE DEF P, Fine
        <5> QED
          BY <3>3, <4>1, <4>2, <4>4, <5>1, OtherChild
      <4> QED
        BY <4>3, <4>4
    <3>4. ASSUME NEW x PROVE x \in NodesOf[n + 1][r] <=> Kept(x, NodesOf[n + 1][t])
      <4> HIDE DEF r
      <4>1. x \in NodesOf[n + 1][r] <=> x = Root(r) \/ \E d \in Children(r) : Within(x, d, n)
        BY <3>2, NodesUnfold DEF Root
      <4>2. Root(r) = Root(t)
        BY <3>2 DEF Root
      <4>3. \A c \in Children(t) : ~Stays(c) => ~KeptWithin(x, c, n)
        BY LostChild, ChildrenFit
      <4>4. (\E d \in Children(r) : Within(x, d, n)) <=> \E c \in Children(t) : KeptWithin(x, c, n)
        BY <3>2, <3>3, <4>3
      <4> QED
        BY <4>1, <4>2, <4>4, KeptUnfold
    <3> QED
      BY <3>2, <3>4
  <2>2. n + 1 \in Nat
    OBVIOUS
  <2> HIDE DEF Fine
  <2> QED
    BY <2>1, <2>2
<1>3. \A n \in Nat : n \in P
  <2> HIDE DEF P
  <2> QED
    BY <1>1, <1>2, SetInduction
<1> QED
  BY <1>3

LEMMA ScalarRedacted == ASSUME NEW n \in Nat, NEW t \in Scalars PROVE Redact[n][t] = t
<1>1. t \in Json[n] /\ t.kind = "scalar"
  BY ValueKinds, ScalarLeaf
<1>2. Redact[n] = RedactFrom(Redact[n - 1], n)
  BY RedactIs
<1> QED
  BY <1>1, <1>2 DEF RedactFrom

LEMMA ScalarShows == ASSUME NEW t \in Scalars PROVE Shows(Nodes(t)) = t.shows
<1>1. Nodes(t) = {[path |-> <<>>, label |-> t]} /\ t.kind = "scalar"
  BY ScalarNodes, ScalarLeaf, NamesAssumption DEF Nodes
<1>2. {x \in Nodes(t) : x.label.kind = "scalar"} = {[path |-> <<>>, label |-> t]}
  BY <1>1
<1>3. Shows(Nodes(t)) = UNION {x.label.shows : x \in {[path |-> <<>>, label |-> t]}}
  BY <1>2 DEF Shows
<1> QED
  BY <1>3

LEMMA JsonColumn ==
  ASSUME NEW c, Message(c), c.type = "json"
  PROVE  RightlyRedacted(Surviving(c.text), Column(c))
<1>1. c.value \in Json[Depth] /\ Depth \in Nat /\ Nodes(c.value) = Surviving(c.text)
  BY NamesAssumption DEF Message
<1>2. Column(c) = Redact[Depth][c.value]
  BY DEF Column, Parsed
<1>3. \A x : x \in Nodes(Column(c)) <=> Kept(x, Nodes(c.value))
  BY <1>1, <1>2, RedactKeeps DEF Nodes
<1>4. RightlyRedacted(Nodes(c.value), Column(c))
  BY <1>3 DEF RightlyRedacted, Kept, Marks, Topmost, Open
<1> QED
  BY <1>1, <1>4

LEMMA NothingColumn ==
  ASSUME NEW c, Message(c), c.type \in {"binary", "empty"}
  PROVE  Shows(Nodes(Column(c))) = {}
<1>1. Parsed(c) = Scalar({})
  BY DEF Parsed
<1>2. Scalar({}) \in Scalars /\ Scalar({}).shows = {}
  BY DEF Scalar, Scalars
<1> QED
  BY <1>1, <1>2, ScalarRedacted, ScalarShows, NamesAssumption DEF Column
------------------------------------------------------------------------------
(* The id in an answer *)

Starts(path, name) == path # <<>> /\ path[1] = name

\* The nodes of a child, and of a value but its root, are below.
LEMMA WithinBelow ==
  ASSUME NEW n \in Nat, NEW c, c.step \in Names, c.tree \in Json[n], NEW x, Within(x, c, n)
  PROVE  x.path # <<>> /\ x.path \in Seq(Names) /\ x.path[1] = c.step
<1>1. PICK y \in NodesOf[n][c.tree] : x = [path |-> <<c.step>> \o y.path, label |-> y.label]
  BY DEF Within
<1>2. y.path \in Seq(Names)
  BY NodeTypes
<1>3. x.path = <<c.step>> \o y.path
  BY <1>1
<1>4. <<c.step>> \o y.path # <<>> /\ (<<c.step>> \o y.path)[1] = c.step /\ <<c.step>> \o y.path \in Seq(Names)
  BY <1>2
<1> QED
  BY <1>3, <1>4

LEMMA RootOnly ==
  ASSUME NEW n \in Nat, NEW t \in Json[n + 1], NEW x
  PROVE  x \in NodesOf[n + 1][t] /\ x.path # <<>> <=> \E c \in Children(t) : Within(x, c, n)
<1>1. x \in NodesOf[n + 1][t] <=> x = Root(t) \/ \E c \in Children(t) : Within(x, c, n)
  BY NodesUnfold DEF Root
<1>2. Root(t).path = <<>>
  BY DEF Root
<1>3. ASSUME NEW c \in Children(t), Within(x, c, n) PROVE x.path # <<>>
  BY <1>3, ChildrenFit, WithinBelow
<1> QED
  BY <1>1, <1>2, <1>3

\* The nodes below a field of an object.
LEMMA FieldNodes ==
  ASSUME NEW n \in Nat, NEW t \in Compounds(Json[n]), NEW name \in Names, NEW x
  PROVE  x \in NodesOf[n + 1][t] /\ Starts(x.path, name)
           <=> t.fields[name] # Undefined /\ Within(x, Child(name, t.fields[name]), n)
<1>1. t \in Json[n + 1]
  BY JsonIs DEF Wider
<1>2. Children(t) = {Child(nm, t.fields[nm]) : nm \in {nm \in Names : t.fields[nm] # Undefined}}
  BY CompoundParts
<1>3. ASSUME NEW c \in Children(t), Within(x, c, n) PROVE Starts(x.path, name) <=> c.step = name
  <2>1. c.step \in Names /\ c.tree \in Json[n]
    BY <1>1, ChildrenFit
  <2> QED
    BY <1>3, <2>1, WithinBelow DEF Starts
<1>4. ~Starts(Root(t).path, name)
  BY DEF Starts, Root
<1>5. x \in NodesOf[n + 1][t] <=> x = Root(t) \/ \E c \in Children(t) : Within(x, c, n)
  BY <1>1, NodesUnfold DEF Root
<1>6. \A c \in Children(t) : c.step = name => c = Child(name, t.fields[name]) /\ t.fields[name] # Undefined
  BY <1>2 DEF Child
<1>7. t.fields[name] # Undefined => Child(name, t.fields[name]) \in Children(t) /\ Child(name, t.fields[name]).step = name
  BY <1>2 DEF Child
<1> QED
  BY <1>3, <1>4, <1>5, <1>6, <1>7

\* Another value in a field changes the nodes below it.
LEMMA SetField ==
  ASSUME NEW n \in Nat, NEW t \in Compounds(Json[n]), NEW name \in Names, NEW v \in Json[n], NEW u,
         u = [t EXCEPT !.fields[name] = v]
  PROVE  /\ u \in Compounds(Json[n]) /\ Compounds(Json[n]) \subseteq Json[n + 1]
         /\ \A x : x \in NodesOf[n + 1][u] <=> \/ Within(x, Child(name, v), n)
                                               \/ x \in NodesOf[n + 1][t] /\ ~Starts(x.path, name)
<1>1. Compounds(Json[n]) \subseteq Json[n + 1] /\ Undefined \notin Json[n]
  BY JsonIs, ValueKinds DEF Wider
<1>2. /\ t.kind \in {"array", "object"} /\ t.fields \in [Names -> Json[n] \cup {Undefined}]
      /\ t = [kind |-> t.kind, fields |-> t.fields]
  BY CompoundParts
<1>3. u = [kind |-> t.kind, fields |-> [t.fields EXCEPT ![name] = v]]
  BY <1>2
<1>4. u \in Compounds(Json[n]) /\ u.kind = t.kind /\ u.fields[name] = v /\ v # Undefined
      /\ \A nm \in Names \ {name} : u.fields[nm] = t.fields[nm]
  BY <1>1, <1>2, <1>3 DEF Compounds
<1>5. ASSUME NEW x PROVE x \in NodesOf[n + 1][u] <=> \/ Within(x, Child(name, v), n)
                                                     \/ x \in NodesOf[n + 1][t] /\ ~Starts(x.path, name)
  <2>1. x \in NodesOf[n + 1][u] /\ Starts(x.path, name) <=> Within(x, Child(name, v), n)
    BY <1>4, FieldNodes
  <2>2. ASSUME NEW a \in Compounds(Json[n]), NEW b \in Compounds(Json[n]),
               a.kind = b.kind, \A nm \in Names \ {name} : a.fields[nm] = b.fields[nm],
               x \in NodesOf[n + 1][a], ~Starts(x.path, name)
        PROVE  x \in NodesOf[n + 1][b]
    <3>1. a \in Json[n + 1] /\ b \in Json[n + 1] /\ a.kind \in {"array", "object"} /\ a.kind = b.kind
      BY <1>1, <2>2, CompoundParts
    <3>2. CASE x = Root(a)
      <4>1. Root(a) = Root(b)
        BY <3>1 DEF Root, Label
      <4> QED
        BY <3>1, <3>2, <4>1, RootIsNode
    <3>3. ASSUME NEW c \in Children(a), Within(x, c, n) PROVE x \in NodesOf[n + 1][b]
      <4>1. PICK nm \in Names : c = Child(nm, a.fields[nm]) /\ a.fields[nm] # Undefined
        BY CompoundParts
      <4>2. x \in NodesOf[n + 1][a] /\ Starts(x.path, nm)
        BY <3>3, <4>1, FieldNodes
      <4>3. nm # name
        BY <2>2, <4>2
      <4>4. Within(x, Child(nm, b.fields[nm]), n) /\ b.fields[nm] # Undefined
        BY <2>2, <3>3, <4>1, <4>3
      <4> QED
        BY <4>4, FieldNodes
    <3>4. x = Root(a) \/ \E c \in Children(a) : Within(x, c, n)
      BY <2>2, <3>1, NodesUnfold DEF Root
    <3> QED
      BY <3>2, <3>3, <3>4
  <2>3. ~Starts(x.path, name) => (x \in NodesOf[n + 1][u] <=> x \in NodesOf[n + 1][t])
    BY <1>4, <2>2
  <2> QED
    BY <2>1, <2>3
<1> QED
  BY <1>1, <1>4, <1>5

LEMMA IdPathStarts ==
  /\ \A q \in Seq(Names) : IsPrefix(IdPath, <<"_lab">> \o q) <=> Starts(q, "requestId")
  /\ \A p \in Seq(Names) : IsPrefix(IdPath, p) => Starts(p, "_lab")
<1>1. ASSUME NEW p \in Seq(Names)
      PROVE  IsPrefix(IdPath, p) <=> Len(p) >= 2 /\ p[1] = "_lab" /\ p[2] = "requestId"
  <2>1. /\ IdPath \in Seq(Names) /\ Len(IdPath) = 2 /\ IdPath[1] = "_lab" /\ IdPath[2] = "requestId"
        /\ Len(p) \in Nat
    BY NamesAssumption DEF IdPath
  <2> DEFINE i == SubSeq(IdPath, 1, 2)
             j == SubSeq(p, 1, 2)
  <2>0. ASSUME NEW w \in Seq(Names), Len(w) >= 2
        PROVE  /\ SubSeq(w, 1, 2) \in Seq(Names) /\ Len(SubSeq(w, 1, 2)) = 2
               /\ SubSeq(w, 1, 2)[1] = w[1] /\ SubSeq(w, 1, 2)[2] = w[2]
    BY <2>0
  <2>2. i \in Seq(Names) /\ Len(i) = 2 /\ i[1] = "_lab" /\ i[2] = "requestId"
    <3>1. IdPath \in Seq(Names) /\ Len(IdPath) >= 2
      BY <2>1
    <3>2. i \in Seq(Names) /\ Len(i) = 2 /\ i[1] = IdPath[1] /\ i[2] = IdPath[2]
      BY <2>0, <3>1
    <3> QED
      BY <2>1, <3>2
  <2>3. Len(p) >= 2 => j \in Seq(Names) /\ Len(j) = 2 /\ j[1] = p[1] /\ j[2] = p[2]
    BY <2>0
  <2>4. IsPrefix(IdPath, p) <=> Len(p) >= 2 /\ i = j
    BY <2>1 DEF IsPrefix
  <2> HIDE DEF i, j
  <2>5. ASSUME Len(p) >= 2, i[1] = j[1], i[2] = j[2] PROVE i = j
    <3>1. \A k \in 1..Len(i) : i[k] = j[k]
      <4>1. \A k \in 1..2 : k = 1 \/ k = 2
        OBVIOUS
      <4> QED
        BY <2>2, <2>5, <4>1
    <3> QED
      BY <2>2, <2>3, <2>5, <3>1, SeqEqual
  <2> QED
    BY <2>2, <2>3, <2>4, <2>5
<1>2. ASSUME NEW q \in Seq(Names)
      PROVE  IsPrefix(IdPath, <<"_lab">> \o q) <=> Starts(q, "requestId")
  <2> DEFINE p == <<"_lab">> \o q
  <2>1. /\ p \in Seq(Names) /\ Len(p) = Len(q) + 1 /\ p[1] = "_lab" /\ Len(q) \in Nat
        /\ Len(q) >= 1 => p[2] = q[1]
    BY NamesAssumption
  <2>2. q # <<>> <=> Len(q) >= 1
    BY EmptySeq
  <2> HIDE DEF p
  <2>3. IsPrefix(IdPath, p) <=> Len(p) >= 2 /\ p[1] = "_lab" /\ p[2] = "requestId"
    BY <1>1, <2>1
  <2>4. IsPrefix(IdPath, p) <=> Starts(q, "requestId")
    BY <2>1, <2>2, <2>3 DEF Starts
  <2> QED
    BY <2>4 DEF p
<1>3. ASSUME NEW p \in Seq(Names), IsPrefix(IdPath, p) PROVE Starts(p, "_lab")
  <2>1. Len(p) >= 2 /\ p[1] = "_lab"
    BY <1>1, <1>3
  <2> QED
    BY <2>1, EmptySeq DEF Starts
<1> QED
  BY <1>2, <1>3

ObjectRoot == [path |-> <<>>, label |-> [kind |-> "object"]]

\* What a _lab of the backend's brings along, seen from the new _lab.
Spells(name, s, y) == Letters[s][name] # Undefined /\ y = [path |-> <<name>>, label |-> Letters[s][name]]
Brings(old, y, n) ==
  IF old = Undefined THEN FALSE
  ELSE IF old.kind = "scalar" THEN \E name \in Names : Spells(name, old, y)
  ELSE y \in NodesOf[n][old] /\ y.path # <<>>

LEMMA TwoSteps == ASSUME NEW a, NEW b PROVE <<a>> \o <<b>> = <<a, b>> /\ <<b>>[1] = b
<1> DEFINE S == {a, b}
           p == <<a>> \o <<b>>
           q == <<a, b>>
<1>1. p \in Seq(S) /\ Len(p) = 2 /\ p[1] = a /\ p[2] = b
  <2>1. <<a>> \in Seq(S) /\ <<b>> \in Seq(S)
    OBVIOUS
  <2> QED
    BY <2>1, ConcatProperties
<1>2. q \in Seq(S) /\ Len(q) = 2 /\ q[1] = a /\ q[2] = b
  OBVIOUS
<1>3. \A i \in 1..2 : i = 1 \/ i = 2
  OBVIOUS
<1> HIDE DEF p, q
<1>4. p = q
  BY <1>1, <1>2, <1>3, SeqEqual
<1> QED
  BY <1>4 DEF p, q

LEMMA LeafWithin ==
  ASSUME NEW n \in Nat, NEW s \in Scalars, NEW name, NEW y
  PROVE  Within(y, Child(name, s), n) <=> y = [path |-> <<name>>, label |-> s]
<1>1. Child(name, s).tree = s /\ Child(name, s).step = name
  BY DEF Child
<1> DEFINE z == [path |-> <<>>, label |-> s]
<1>2. z.path = <<>> /\ z.label = s
  OBVIOUS
<1>3. NodesOf[n][s] = {z}
  BY ScalarNodes
<1> HIDE DEF z
<1>4. Within(y, Child(name, s), n) <=> y = [path |-> <<name>> \o z.path, label |-> z.label]
  BY <1>1, <1>3 DEF Within
<1>5. <<name>> \o <<>> = <<name>>
  OBVIOUS
<1> QED
  BY <1>2, <1>4, <1>5

LEMMA SpreadNodes ==
  ASSUME NEW n \in Nat, NEW old \in Json[n + 1] \cup {Undefined}, NEW base,
         base = [kind |-> "object", fields |-> Spread(old)]
  PROVE  /\ base \in Compounds(Json[n])
         /\ \A y : y \in NodesOf[n + 1][base] <=> y = ObjectRoot \/ Brings(old, y, n + 1)
<1>1. Scalars \subseteq Json[n] /\ Undefined.kind = "undefined"
  BY ValueKinds DEF Undefined
<1>2. ASSUME Spread(old) \in [Names -> Json[n] \cup {Undefined}],
             \A y : Brings(old, y, n + 1) <=>
                      \E name \in Names : Spread(old)[name] # Undefined /\ Within(y, Child(name, Spread(old)[name]), n)
      PROVE  /\ base \in Compounds(Json[n])
             /\ \A y : y \in NodesOf[n + 1][base] <=> y = ObjectRoot \/ Brings(old, y, n + 1)
  <2>1. base \in Compounds(Json[n]) /\ base.kind = "object" /\ base.fields = Spread(old)
    BY <1>2 DEF Compounds
  <2>2. base \in Json[n + 1]
    BY <2>1, JsonIs DEF Wider
  <2>3. Children(base) = {Child(name, Spread(old)[name]) : name \in {name \in Names : Spread(old)[name] # Undefined}}
    BY <2>1, CompoundParts
  <2>4. [path |-> <<>>, label |-> Label(base)] = ObjectRoot
    BY <2>1 DEF Label, ObjectRoot
  <2>5. \A y : y \in NodesOf[n + 1][base] <=> y = ObjectRoot \/ \E c \in Children(base) : Within(y, c, n)
    BY <2>2, <2>4, NodesUnfold
  <2> QED
    BY <1>2, <2>1, <2>3, <2>5
<1>3. CASE old = Undefined
  <2>1. Spread(old) = [name \in Names |-> Undefined]
    BY <1>3 DEF Spread, Fields
  <2> QED
    BY <1>2, <1>3, <2>1 DEF Brings
<1>4. CASE old # Undefined /\ old.kind = "scalar"
  <2>1. old \in Scalars
    BY <1>4, ValueKinds
  <2>2. Spread(old) = Letters[old] /\ Letters[old] \in [Names -> Scalars \cup {Undefined}]
    BY <1>4, <2>1, NamesAssumption DEF Spread
  <2>3. ASSUME NEW y, NEW name \in Names
        PROVE  Spells(name, old, y) <=> Spread(old)[name] # Undefined /\ Within(y, Child(name, Spread(old)[name]), n)
    <3>1. Letters[old][name] # Undefined => Letters[old][name] \in Scalars
      BY <2>2
    <3> QED
      BY <2>2, <3>1, LeafWithin DEF Spells
  <2>4. \A y : Brings(old, y, n + 1) <=> \E name \in Names : Spells(name, old, y)
    BY <1>4 DEF Brings
  <2>5. Spread(old) \in [Names -> Json[n] \cup {Undefined}]
    BY <1>1, <2>2
  <2> QED
    BY <1>2, <2>3, <2>4, <2>5
<1>5. CASE old # Undefined /\ old.kind # "scalar"
  <2>1. old \in Json[n + 1] /\ old \in Compounds(Json[n])
    BY <1>5, ValueKinds
  <2>2. Spread(old) = old.fields /\ old.fields \in [Names -> Json[n] \cup {Undefined}]
    BY <1>5, <2>1, CompoundParts DEF Spread
  <2>3. Children(old) = {Child(name, old.fields[name]) : name \in {name \in Names : old.fields[name] # Undefined}}
    BY <2>1, CompoundParts
  <2>4. \A y : Brings(old, y, n + 1) <=> \E c \in Children(old) : Within(y, c, n)
    BY <1>5, <2>1, RootOnly DEF Brings
  <2> QED
    BY <1>2, <2>2, <2>3, <2>4
<1> QED
  BY <1>3, <1>4, <1>5

IdLeaf == [path |-> <<"requestId">>, label |-> Scalar({"id"})]

\* The field _lab with the id: what the backend put there, and the id.
LEMMA LabNodes ==
  ASSUME NEW n \in Nat, NEW t \in Compounds(Json[n + 1])
  PROVE  LET lab == LabField(t.fields, "id") IN
         /\ lab \in Json[n + 1]
         /\ \A y : y \in NodesOf[n + 1][lab] <=>
                     \/ y = ObjectRoot
                     \/ y = IdLeaf
                     \/ Brings(t.fields["_lab"], y, n + 1) /\ ~Starts(y.path, "requestId")
<1> DEFINE base == [kind |-> "object", fields |-> Spread(t.fields["_lab"])]
           lab == LabField(t.fields, "id")
<1>1. t.fields["_lab"] \in Json[n + 1] \cup {Undefined} /\ "requestId" \in Names
  BY CompoundParts, NamesAssumption
<1>2. /\ base \in Compounds(Json[n])
      /\ \A y : y \in NodesOf[n + 1][base] <=> y = ObjectRoot \/ Brings(t.fields["_lab"], y, n + 1)
  BY <1>1, SpreadNodes
<1>3. Scalar({"id"}) \in Scalars /\ Scalar({"id"}) \in Json[n]
  <2>1. Scalar({"id"}) \in Scalars
    BY NamesAssumption DEF Scalar, Scalars
  <2> QED
    BY <2>1, ValueKinds
<1>4. lab = [base EXCEPT !.fields["requestId"] = Scalar({"id"})]
  BY DEF LabField
<1> HIDE DEF base, lab
<1>5. /\ lab \in Json[n + 1]
      /\ \A y : y \in NodesOf[n + 1][lab] <=> \/ Within(y, Child("requestId", Scalar({"id"})), n)
                                              \/ y \in NodesOf[n + 1][base] /\ ~Starts(y.path, "requestId")
  <2>1. base \in Compounds(Json[n])
    BY <1>2
  <2>2. lab \in Compounds(Json[n]) /\ Compounds(Json[n]) \subseteq Json[n + 1]
    BY <1>1, <1>3, <1>4, <2>1, SetField
  <2>3. \A y : y \in NodesOf[n + 1][lab] <=> \/ Within(y, Child("requestId", Scalar({"id"})), n)
                                             \/ y \in NodesOf[n + 1][base] /\ ~Starts(y.path, "requestId")
    BY <1>1, <1>3, <1>4, <2>1, SetField
  <2> QED
    BY <2>2, <2>3
<1>6. \A y : Within(y, Child("requestId", Scalar({"id"})), n) <=> y = IdLeaf
  BY <1>3, LeafWithin DEF IdLeaf
<1>7. ~Starts(ObjectRoot.path, "requestId")
  BY DEF Starts, ObjectRoot
<1> QED
  BY <1>2, <1>5, <1>6, <1>7 DEF lab

\* What the _lab of an object brings along is what the object has there, but for
\* its root, or the spelling of that.
Along(x, t, n) == \E y : /\ Brings(t.fields["_lab"], y, n) /\ ~Starts(y.path, "requestId")
                         /\ x = [path |-> <<"_lab">> \o y.path, label |-> y.label]
Remains(x, nodes) == \/ x \in nodes /\ Starts(x.path, "_lab") /\ x.path # <<"_lab">> /\ ~IsPrefix(IdPath, x.path)
                     \/ x \in Spelt(nodes)

LEMMA BroughtAlong ==
  ASSUME NEW n \in Nat \ {0}, NEW t \in Compounds(Json[n]), "_lab" \in Names, NEW x,
         NEW S, S = NodesOf[n + 1][t]
  PROVE  Along(x, t, n) <=> Remains(x, S)
<1> DEFINE old == t.fields["_lab"]
           In(y) == [path |-> <<"_lab">> \o y.path, label |-> y.label]
<1>0. PICK m \in Nat : n = m + 1
  <2>1. n - 1 \in Nat /\ n = n - 1 + 1
    OBVIOUS
  <2> QED
    BY <2>1
<1>1. old \in Json[n] \cup {Undefined} /\ t \in Json[n + 1]
  BY CompoundParts, JsonIs DEF Wider
<1>2. ASSUME NEW z PROVE z \in S /\ Starts(z.path, "_lab") <=> old # Undefined /\ \E y \in NodesOf[n][old] : z = In(y)
  <2>1. z \in S /\ Starts(z.path, "_lab") <=> old # Undefined /\ Within(z, Child("_lab", old), n)
    BY FieldNodes
  <2> QED
    BY <2>1 DEF Within, Child
<1>3. \A y : In(y).path = <<"_lab">> \o y.path /\ In(y).label = y.label
  OBVIOUS
<1>4. /\ Starts(<<"_lab">>, "_lab")
      /\ \A q \in Seq(Names) : <<"_lab">> \o q = <<"_lab">> <=> q = <<>>
  <2>1. \A q \in Seq(Names) : Len(<<"_lab">> \o q) = 1 + Len(q) /\ Len(q) \in Nat
    OBVIOUS
  <2>2. Len(<<"_lab">>) = 1 /\ <<"_lab">> \o <<>> = <<"_lab">>
    OBVIOUS
  <2>3. ASSUME NEW q \in Seq(Names), <<"_lab">> \o q = <<"_lab">> PROVE q = <<>>
    <3>1. Len(<<"_lab">> \o q) = 1
      BY <2>2, <2>3
    <3>2. Len(q) = 0
      BY <2>1, <3>1
    <3> QED
      BY <3>2, EmptySeq
  <2>4. Starts(<<"_lab">>, "_lab")
    <3>1. \A a : <<a>> # <<>> /\ <<a>>[1] = a
      OBVIOUS
    <3> QED
      BY <3>1 DEF Starts
  <2> QED
    BY <2>2, <2>3, <2>4
<1>5. x \in Spelt(S) <=> \E w \in S : w.path = <<"_lab">> /\ w.label.kind = "scalar" /\ x \in Spelling(w.label)
  BY DEF Spelt
<1> HIDE DEF In
<1>6. CASE old = Undefined
  BY <1>2, <1>4, <1>5, <1>6 DEF Brings, Along, Remains
<1>7. CASE old # Undefined /\ old.kind = "scalar"
  <2>1. old \in Scalars
    <3>1. old \in Json[m + 1]
      BY <1>0, <1>1, <1>7
    <3> QED
      BY <1>7, <3>1, ValueKinds
  <2>2. NodesOf[n][old] = {[path |-> <<>>, label |-> old]}
    BY <2>1, ScalarNodes
  <2> DEFINE lab == [path |-> <<"_lab">>, label |-> old]
  <2>3. In([path |-> <<>>, label |-> old]) = lab
    BY DEF In
  <2>4. \A z : z \in S /\ Starts(z.path, "_lab") <=> z = lab
    BY <1>2, <1>7, <2>2, <2>3
  <2>5. lab.path = <<"_lab">> /\ lab.label = old
    OBVIOUS
  <2> HIDE DEF lab
  <2>6. x \in Spelt(S) <=> x \in Spelling(old)
    BY <1>4, <1>5, <1>7, <2>4, <2>5
  <2>7. ASSUME NEW name \in Names, NEW y, Spells(name, old, y)
        PROVE  ~Starts(y.path, "requestId") /\ In(y) = [path |-> <<"_lab", name>>, label |-> Letters[old][name]]
    <3>1. y.path = <<name>> /\ y.label = Letters[old][name] /\ Letters[old][name] # Undefined
      BY <2>7 DEF Spells
    <3>2. name # "requestId"
      <4>1. PICK i \in DOMAIN Index : name = Index[i]
        BY <2>1, <3>1, NamesAssumption
      <4> QED
        BY <4>1, NamesAssumption
    <3>3. <<"_lab">> \o <<name>> = <<"_lab", name>> /\ <<name>>[1] = name
      BY TwoSteps
    <3> QED
      BY <3>1, <3>2, <3>3 DEF In, Starts
  <2>8. (\E y : Brings(old, y, n) /\ ~Starts(y.path, "requestId") /\ x = In(y)) <=> x \in Spelling(old)
    <3>1. \A y : Brings(old, y, n) <=> \E name \in Names : Spells(name, old, y)
      BY <1>7 DEF Brings
    <3>2. x \in Spelling(old) <=>
            \E name \in Names : Letters[old][name] # Undefined /\ x = [path |-> <<"_lab", name>>, label |-> Letters[old][name]]
      BY DEF Spelling
    <3>3. ASSUME NEW name \in Names, Letters[old][name] # Undefined
          PROVE  \E y : Spells(name, old, y)
      BY <3>3 DEF Spells
    <3>4. \A name \in Names : \A y : Spells(name, old, y) => Letters[old][name] # Undefined
      BY DEF Spells
    <3> QED
      BY <2>7, <3>1, <3>2, <3>3, <3>4
  <2>9. ~(x \in S /\ Starts(x.path, "_lab") /\ x.path # <<"_lab">>)
    BY <2>4, <2>5
  <2> QED
    BY <2>6, <2>8, <2>9 DEF In, Along, Remains
<1>8. CASE old # Undefined /\ old.kind # "scalar"
  <2>1. n = m + 1
    BY <1>0
  <2>2. old \in Json[m + 1]
    BY <1>1, <1>8, <2>1
  <2>3. ASSUME NEW y \in NodesOf[n][old]
        PROVE  /\ y.path \in Seq(Names) /\ (y.path = <<>> => y.label.kind # "scalar")
               /\ IsPrefix(IdPath, In(y).path) <=> Starts(y.path, "requestId")
               /\ In(y).path = <<"_lab">> <=> y.path = <<>>
    <3>1. y.path \in Seq(Names)
      BY <2>1, <2>2, NodeTypes
    <3>2. y.path = <<>> => y = Root(old)
      BY <2>1, <2>2, <2>3, NodesUnfold, RootOnly DEF Root
    <3>3. Root(old).label.kind # "scalar"
      BY <1>8 DEF Root, Label
    <3> QED
      BY <1>3, <1>4, <3>1, <3>2, <3>3, IdPathStarts
  <2>4. ASSUME NEW w \in S, w.path = <<"_lab">> PROVE w.label.kind # "scalar"
    <3>1. PICK y \in NodesOf[n][old] : w = In(y)
      BY <1>2, <1>4, <2>4
    <3> QED
      BY <1>3, <2>3, <2>4, <3>1
  <2>5. x \notin Spelt(S)
    BY <1>5, <2>4
  <2>6. \A y : Brings(old, y, n) <=> y \in NodesOf[n][old] /\ y.path # <<>>
    BY <1>8 DEF Brings
  <2>7. (\E y : Brings(old, y, n) /\ ~Starts(y.path, "requestId") /\ x = In(y))
          <=> x \in S /\ Starts(x.path, "_lab") /\ x.path # <<"_lab">> /\ ~IsPrefix(IdPath, x.path)
    BY <1>2, <1>8, <2>3, <2>6
  <2> QED
    BY <2>5, <2>7 DEF In, Along, Remains
<1> QED
  BY <1>6, <1>7, <1>8

LEMMA AnswerCarries == ASSUME NEW c, Message(c) PROVE CarriesId(Injected(c, "id"), c, "id")
<1>1. CASE ~IsObject(c)
  BY <1>1 DEF Injected, CarriesId
<1>2. CASE IsObject(c)
  <2> DEFINE t == c.value
             lab == LabField(t.fields, "id")
             u == [t EXCEPT !.fields["_lab"] = lab]
             S == Nodes(t)
             object == [path |-> <<"_lab">>, label |-> [kind |-> "object"]]
             id == [path |-> IdPath, label |-> Scalar({"id"})]
  <2>1. PICK n \in Nat : Depth = n + 1 + 1
    <3>1. Depth - 2 \in Nat /\ Depth = (Depth - 2) + 1 + 1
      BY NamesAssumption
    <3> QED
      BY <3>1
  <2>2. t \in Json[Depth] /\ t.kind = "object" /\ S = Surviving(c.text) /\ Injected(c, "id") = Nodes(u)
    BY <1>2 DEF Message, IsObject, Injected
  <2>3. n + 1 \in Nat /\ t \in Json[n + 1 + 1] /\ t \in Compounds(Json[n + 1]) /\ "_lab" \in Names /\ n + 1 # 0
    <3>1. n + 1 \in Nat /\ t \in Json[n + 1 + 1] /\ "_lab" \in Names /\ n + 1 # 0
      BY <2>1, <2>2, NamesAssumption
    <3> QED
      BY <2>2, <3>1, ValueKinds
  <2>4. S = NodesOf[n + 1 + 1][t] /\ Nodes(u) = NodesOf[n + 1 + 1][u]
    BY <2>1 DEF Nodes
  <2>5. u = [t EXCEPT !.fields["_lab"] = lab]
    OBVIOUS
  <2> HIDE DEF t, lab, u, S
  <2>6. /\ lab \in Json[n + 1]
        /\ \A y : y \in NodesOf[n + 1][lab] <=>
                    \/ y = ObjectRoot
                    \/ y = IdLeaf
                    \/ Brings(t.fields["_lab"], y, n + 1) /\ ~Starts(y.path, "requestId")
    BY <2>3, LabNodes DEF lab
  <2>7. \A x : x \in Nodes(u) <=> \/ Within(x, Child("_lab", lab), n + 1)
                                  \/ x \in S /\ ~Starts(x.path, "_lab")
    BY <2>3, <2>4, <2>5, <2>6, SetField
  <2>8. ASSUME NEW x
        PROVE  Within(x, Child("_lab", lab), n + 1) <=>
                 \/ x = object
                 \/ x = id
                 \/ Remains(x, S)
    <3> DEFINE In(y) == [path |-> <<"_lab">> \o y.path, label |-> y.label]
    <3>1. Within(x, Child("_lab", lab), n + 1) <=> \E y \in NodesOf[n + 1][lab] : x = In(y)
      BY DEF Within, Child
    <3>2. In(ObjectRoot) = object
      BY DEF ObjectRoot
    <3>3. In(IdLeaf) = id
      BY DEF IdLeaf, IdPath
    <3>4. Along(x, t, n + 1) <=> Remains(x, S)
      <4>1. n + 1 \in Nat \ {0}
        OBVIOUS
      <4> QED
        BY <2>3, <2>4, <4>1, BroughtAlong
    <3>5. Along(x, t, n + 1) <=> \E y : Brings(t.fields["_lab"], y, n + 1) /\ ~Starts(y.path, "requestId") /\ x = In(y)
      BY DEF Along
    <3> HIDE DEF In, object, id
    <3> QED
      BY <2>6, <3>1, <3>2, <3>3, <3>4, <3>5
  <2>9. ASSUME NEW x \in S
        PROVE  ~Starts(x.path, "_lab") => x.path # <<"_lab">> /\ ~IsPrefix(IdPath, x.path)
    <3>1. x.path \in Seq(Names)
      BY <2>3, <2>4, NodeTypes
    <3> QED
      BY <3>1, IdPathStarts DEF Starts
  <2>10. ASSUME NEW x
         PROVE  x \in Nodes(u) <=> \/ x \in S /\ x.path # <<"_lab">> /\ ~IsPrefix(IdPath, x.path)
                                   \/ x \in {object, id}
                                   \/ x \in Spelt(S)
    <3> HIDE DEF object, id
    <3> QED
      BY <2>7, <2>8, <2>9 DEF Remains
  <2> QED
    BY <1>2, <2>2, <2>10 DEF CarriesId
<1> QED
  BY <1>1, <1>2

\* parseBodyForLogging and redactBody: for any names, bodies and depth of
\* nesting, the logged body of a request that is JSON shows all that JSON.parse
\* reads in it but what is at or below a sensitive field, where one marker
\* stands, and __proto__, which is lost; of content that is neither JSON nor text
\* nothing is shown.
THEOREM LoggedBodiesAreRedacted == PipelineSpec => []BodiesRedacted
<1>1. PipelineInv => BodiesRedacted
  <2> SUFFICES ASSUME PipelineInv, NEW r \in body PROVE content[r] \in LoggedRightly
    BY DEF BodiesRedacted
  <2>1. content \in [Requests -> Contents] /\ body \subseteq Requests
    BY DEF PipelineInv, FrontTypes, LogInv, TablesOK
  <2>2. content[r] \in Contents /\ Message(Carried[content[r]])
    BY <2>1, ContentAssumption
  <2> QED
    BY <2>2, JsonColumn, NothingColumn DEF LoggedRightly
<1> QED
  BY <1>1, PipelineInvariant, PTL

\* injectRequestIdIfJson: an answer that is a JSON object reaches the student
\* with its request id and all else JSON.parse reads in the backend's text, a
\* _lab that is none made an object; any other answer is the text that came.
THEOREM AnswersAlwaysCarryId == PipelineSpec => []AnswersCarryId
<1>1. PipelineInv => AnswersCarryId
  <2> SUFFICES ASSUME PipelineInv, NEW r \in Requests PROVE content[r] \in AnsweredRightly
    BY DEF AnswersCarryId
  <2>1. content \in [Requests -> Contents]
    BY DEF PipelineInv, FrontTypes
  <2>2. content[r] \in Contents /\ Message(Carried[content[r]])
    BY <2>1, ContentAssumption
  <2> QED
    BY <2>2, AnswerCarries DEF AnsweredRightly
<1> QED
  BY <1>1, PipelineInvariant, PTL
==============================================================================
