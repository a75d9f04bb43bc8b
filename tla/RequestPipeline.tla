---------------------------- MODULE RequestPipeline ----------------------------
(***************************************************************************)
(* AppModule.configure: RawBodyMiddleware, LabAuthMiddleware and            *)
(* RateLimitMiddleware one after the other, then a handler, and             *)
(* GatewayExceptionFilter for whatever they throw.  The stream events of a  *)
(* request go on after RawBodyMiddleware has refused it.  The rate limiter  *)
(* and the handler of api/* are RequestLog; of LabAuth only its verdict is  *)
(* seen here, of _lab/* only the answer.                                    *)
(***************************************************************************)
EXTENDS RequestLog

CONSTANTS Contents,  \* what a request may carry
          NoContent, \* an empty body, and what a request has before it is read
          MaxBody    \* MAX_BODY_SIZE, counted in chunks

ASSUME BodyAssumption == MaxBody \in Nat /\ NoContent \in Contents

VARIABLES front,    \* per request: the part of the pipeline it is in
          stream,   \* per request: its body is "open", has "ended" or is "broken"
          total,    \* per request: the chunks RawBodyMiddleware has kept
          content,  \* per request: req.rawBody
          named,    \* the requests with an id
          counted,  \* the requests the limiter has counted
          reply     \* per request: the status of an answer not given by forward

streamVars == <<stream, total, content>>
frontVars == <<front, streamVars, named, counted, reply>>

PipelineInit == /\ Init
                /\ front = [r \in Requests |-> "idle"]
                /\ stream = [r \in Requests |-> "none"]
                /\ total = [r \in Requests |-> 0]
                /\ content = [r \in Requests |-> NoContent]
                /\ named = {} /\ counted = {}
                /\ reply = [r \in Requests |-> "none"]
------------------------------------------------------------------------------
Enter(r, part) == front' = [front EXCEPT ![r] = part] /\ UNCHANGED reply

\* GatewayExceptionFilter, or a controller: the request is answered.
Reply(r, status) == /\ front' = [front EXCEPT ![r] = "over"]
                    /\ reply' = [reply EXCEPT ![r] = status]

\* The middlewares are for api/* and _lab/*; anything else is 404 at once.
Receive(r) == /\ front[r] = "idle"
              /\ \/ Enter(r, "body") /\ stream' = [stream EXCEPT ![r] = "open"]
                 \/ Reply(r, "404") /\ UNCHANGED stream
              /\ UNCHANGED <<total, content, named, counted, vars>>

\* The limit compared before the chunk is added, in a mutation.
TooLarge_Before(r) == total[r] > MaxBody
TooLarge(r) == total[r] + 1 > MaxBody

\* One more chunk of the body; after a refusal it is dropped.
Data(r) == /\ front[r] = "body" /\ stream[r] = "open"
           /\ IF TooLarge(r) THEN Reply(r, "413") /\ UNCHANGED total
                             ELSE total' = [total EXCEPT ![r] = @ + 1] /\ UNCHANGED <<front, reply>>
           /\ UNCHANGED <<stream, content, named, counted, vars>>

\* A listener that forgets that the request has been refused.
Rejected_Forgotten(r) == FALSE
Rejected(r) == reply[r] # "none"

\* next(): LabAuthMiddleware draws the id before it does anything else; after
\* the first checks in a mutation.
FirstOfLabAuth_Late(r) == UNCHANGED named
FirstOfLabAuth(r) == named' = named \cup {r}

End(r) == /\ stream[r] = "open"
          /\ stream' = [stream EXCEPT ![r] = "ended"]
          /\ IF Rejected(r) THEN UNCHANGED <<front, content, named, reply>>
             ELSE /\ \E c \in Contents : /\ (c = NoContent) = (total[r] = 0)
                                         /\ content' = [content EXCEPT ![r] = c]
                  /\ Enter(r, "auth") /\ FirstOfLabAuth(r)
          /\ UNCHANGED <<total, counted, vars>>

\* The client goes away, or node gives it up after its request timeout.
Abort(r) == /\ stream[r] = "open"
            /\ stream' = [stream EXCEPT ![r] = "broken"]
            /\ IF Rejected(r) THEN UNCHANGED <<front, reply>> ELSE Reply(r, "500")
            /\ UNCHANGED <<total, content, named, counted, vars>>

\* LabAuth's verdict.
Authenticate(r) == /\ front[r] = "auth"
                   /\ \/ Enter(r, "limit")
                      \/ \E status \in {"400", "401", "403", "404", "500"} : Reply(r, status)
                   /\ UNCHANGED <<streamVars, named, counted, vars>>

\* Both counters are up: the request goes to its handler, or waits to be refused.
Admit(r) == /\ front[r] = "limit"
            /\ counted' = counted \cup {r}
            /\ \/ Enter(r, "forward") /\ Arrive(r)
               \/ Enter(r, "forward") /\ Limit(r)
               \/ Enter(r, "lab") /\ UNCHANGED vars
            /\ UNCHANGED <<streamVars, named>>

\* Redis does not answer.
CountFails(r) == /\ front[r] = "limit" /\ Fault
                 /\ Reply(r, "500")
                 /\ UNCHANGED <<streamVars, named, counted, requestVars, poolVars, logVars>>

\* ResetController, or no controller at all.
Lab(r) == /\ front[r] = "lab"
          /\ \E status \in {"201", "404", "409", "429", "500"} : Reply(r, status)
          /\ UNCHANGED <<streamVars, named, counted, vars>>

\* The connections of all requests go with the process.
Die == /\ Crash
       /\ front' = [r \in Requests |-> IF front[r] = "idle" THEN "idle" ELSE "over"]
       /\ stream' = [r \in Requests |-> IF stream[r] = "open" THEN "broken" ELSE stream[r]]
       /\ UNCHANGED <<total, content, named, counted, reply>>

Middleware(r) == End(r) \/ Abort(r) \/ Authenticate(r) \/ Admit(r) \/ CountFails(r) \/ Lab(r)

PipelineNext == \/ \E r \in Requests : Receive(r) \/ Data(r) \/ Middleware(r)
                \/ ((\E r \in Requests : Serve(r)) \/ Write) /\ UNCHANGED frontVars
                \/ Die

pipelineVars == <<vars, frontVars>>

\* Clients end or abort their requests, the control database, Redis and the
\* fetch answer; the logging database may hang.
PipelineSpec == /\ PipelineInit /\ [][PipelineNext]_pipelineVars
                /\ \A r \in Requests : /\ WF_pipelineVars(Middleware(r))
                                       /\ WF_pipelineVars(Serve(r) /\ UNCHANGED frontVars)
------------------------------------------------------------------------------
(* Properties *)

PipelineTypeOK ==
  /\ TypeOK
  /\ front \in [Requests -> {"idle", "body", "auth", "limit", "forward", "lab", "over"}]
  /\ stream \in [Requests -> {"none", "open", "ended", "broken"}]
  /\ total \in [Requests -> 0..MaxBody]
  /\ content \in [Requests -> Contents]
  /\ named \subseteq Requests /\ counted \subseteq Requests
  /\ reply \in [Requests -> {"none", "201", "400", "401", "403", "404", "409", "413", "429", "500"}]

\* A request answered before its handler stays out of it: it is answered once,
\* and neither its remaining stream events nor anything else forwards or logs it.
AnsweredOnce == \A r \in Requests : reply[r] # "none" => /\ stage[r] = "new" /\ answer[r] = "none"
                                                          /\ front[r] = "over"
                                                          /\ r \notin body \cup events

\* The answers without a request id are those to a body that was too large or
\* broke off, and to paths outside of the pipeline; nothing else is nameless.
NamelessAnswers == \A r \in Requests : reply[r] # "none" /\ r \notin named
                                         => reply[r] = "413" \/ stream[r] \in {"none", "broken"}

\* Whatever its stream does, a request gets one answer, which carries its id
\* unless it never came as far as LabAuth.
OneNamedAnswer == PipelineTypeOK /\ AnsweredOnce /\ NamelessAnswers

\* Every request whose body ends or breaks off is answered, even if the logging
\* database hangs, unless the limiter refuses it: that answer waits for the
\* database.
EveryRequestAnswered ==
  \A r \in Requests : stream[r] = "open" ~> front[r] = "over" \/ stage[r] \in {"limited", "done"}
==============================================================================
