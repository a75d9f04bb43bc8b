# Verification of the STQA testing gateway

A TLA+ development kept beside the gateway of `ezmata-101/stqa-system-testing-gateway`.
Paths below are relative to the repository root.

## 1. The system

Students of a course test a teaching backend (an HTTP application with planted
bugs) through a *gateway*. Each team of students works on a PostgreSQL database
of its own, cloned from a template; the gateway authenticates the student,
finds the team, limits the request rate, signs a context naming the team's
database and forwards the request to the backend, which runs it against that
database. Teams can ask the gateway to restore their database.

### 1.1 Components

| component | code | state | operations | what makes it correct |
|---|---|---|---|---|
| Team database reset | `gateway/src/reset/`, `gateway/src/db/db-admin.service.ts`, `gateway/src/provisioning/seed-hook.service.ts` | `reset_requests` rows, team databases | reset (student endpoint, dashboard) | rebuilds of one team never overlap, other teams untouched, outcome recorded, daily limit |
| Rate limiting | `gateway/src/rate-limit/` | Redis counters per student/team and minute | check and increment, reject with 429 | ceilings per minute, no lost or immortal counter |
| Forwarding and request log | `gateway/src/proxy/`, `gateway/src/logging/` | `request_logs` rows, the pool of logging connections | forward, log on arrival, log on completion | every forwarded request logged, redacted, and the row says what the client was told |
| Lab authentication | `gateway/src/auth/`, `gateway/src/credentials/`, `gateway/src/teams/`, `gateway/src/offerings/` | credentials, memberships, offerings | middleware, issue, verify, revoke, activate, close | a context is only built from a live credential, an active offering and a member team |
| Request pipeline | `gateway/src/app.module.ts`, `gateway/src/common/` | per-request fields | raw body, auth, rate limit, handler, exception filter | exactly one answer per request, with its id |
| Provisioning | `gateway/src/provisioning/` | offerings, teams, members, credentials, databases, the exported roster | import of a roster, from the dashboard or the CLI, rerun after a failure | students grouped without loss, one database per team, keys that work |
| Team database registry | `gateway/src/db/team-db-registry.service.ts` | pools by database name | get, evict LRU, sweep idle, close (exported, but no code calls `getPool`) | pool budget |
| Context signing | `gateway/src/context/`, `backend-sdk/src/context-verification.js` | none (a token) | sign, verify | a token outlives the wait for its request |
| Backend routing | `backend-sdk/src/database-routing.js`, `gateway/src/auth/path.util.ts` | a pool of clients per database | get pool, query, strip the offering from the path | a query reaches its team's database, seeded; a reset disturbs its own team only |
| Admin dashboard | `gateway/src/admin/`, `gateway/src/health/` | none of its own | pages made of many queries, a CSV export; forms calling the services above | the numbers of one page fit each other |
| Submission download | `check_reports/prepare_directories.py` | one directory per team: reports, collections, a Drive folder | a run over a CSV, rerun after failures | what is there is whole, nothing is replaced, exit status 0 means complete |
| Report tools | `generate_report/`, `check_reports/generate_reports.py` | an exported CSV, the server's copy of it, the form | export, serve, fill in the form, generate | the report is of the file and of the form, and adds up |
| Key mailing | `send_keys/` | the send log | mail every student's key | a key is mailed once |

### 1.2 How they interact

`RawBodyMiddleware`, `LabAuthMiddleware` and `RateLimitMiddleware` run in this
order on `api/*` and `_lab/*` (`gateway/src/app.module.ts:40`), each awaiting a
store (Postgres control database, Redis); the handler is the proxy or the reset
service. Admin actions change the same control tables at any time. Log writes
of forwarded requests are fire and forget; a 429 waits for its event. Node
interleaves all requests at their awaits, and nothing but Postgres constraints
serialises them.

The proxy passes the team's database to the backend in a signed context; the
backend's SDK verifies it and takes a client from the pool of that database,
the same database a reset terminates the sessions of, drops and clones. The
dashboard reads what all the others write, and its exported CSV is the input of
the report tools.

### 1.3 What is hard

* *Awaits.* A reset awaits the control database seven times, LabAuth up to four
  times. Whatever is read before an await can be stale after it: the daily
  count, the offering's status, the credential, the list of existing teams.
* *Nothing is transactional.* Neither a reset nor an import runs in a
  transaction. What remains are single statements, the unique constraints and
  one partial unique index.
* *Two stores that outlive the process.* A crash leaves `running` rows, counters
  without a time to live, half imported rosters.
* *Unawaited writes.* Both log entries of a request are upserts nobody awaits, on
  a pool whose connections may overtake each other.
* *Processes that share a database.* A reset terminates the sessions of a
  backend that knows nothing of resets; an import may create the database that
  the reset has just dropped.
* *Retries below the code.* The Redis client resends commands; the reset, the
  import and the dashboard's forms are repeated by people.
* *Boundaries.* Limits and windows (`>=`, `<=`), the last instant of an offering,
  a token's whole seconds, days of Dhaka and of UTC, the numbers given to
  automatic teams.

`PROJECT.json` lists these hazards one by one, each at its line, with the
properties that would catch it going wrong.

## 2. Modules

| module | models | extends / instantiates |
|---|---|---|
| `TeamReset` | `ResetService.resetTeamDatabase` and the database work under it | instantiates `RestoreLedger` |
| `RestoreLedger` | what a reset promises, abstractly | |
| `RateLimit` | `RateLimitMiddleware`, `RateLimitService`, the Redis keys | |
| `RequestLog` | `ProxyService.forward`, `RequestLoggerService`, the logging pool | |
| `RequestPipeline` | the middlewares, the handlers and the exception filter around `forward` | extends `RequestLog` |
| `LoggedBody` | parsing, redacting and adding an id to a message's content (recursive functions) | |
| `PipelineBodies` | what the pipeline logs of a body and answers with | extends `RequestPipeline`, `LoggedBody` |
| `LabAuth` | `LabAuthMiddleware` and the control tables it reads, with the writers of these tables | |
| `TeamBackend` | context tokens, the backend with its SDK, resets under its pools | |
| `Provisioning` | `ProvisioningService.provision`, with resets beside it | |
| `AdminDashboard` | `AdminDashboardService`, query by query, and the health check | |
| `ReportServer` | `generate_report/server.js` and the export it reads | |
| `ActivityReport` | `generate_report/Report.jsx` | extends `ReportServer` |
| `DriveFetch` | `check_reports/prepare_directories.py` over the file system | |
| `*MC` | the instance of each for TLC | the module |
| `TeamResetProofs`, `RateLimitProofs`, `LabAuthProofs`, `ProvisioningProofs`, `TeamBackendProofs`, `DriveFetchProofs` | theorems | the module |
| `RequestPipelineProofs` | theorems about the log, the pipeline and the bodies | `PipelineBodies` |
| `PageProofs` | theorems about the dashboard and the report, and about the sums both are made of | `AdminDashboard`, `ActivityReport` |

Every component of the gateway is a set of handlers of one Node process over
stores, so a module is the handlers of one component run any number of times
at once, with the stores as variables and one step per await. Components that
meet in a store are composed: `RequestPipeline` is `forward` and its log inside
the middlewares, `TeamBackend` has the resets and the requests of a team's
database, `Provisioning` the imports and the resets, `ActivityReport` the server
and its page.
An operator whose name ends in `_Something` is a mutated form of the one after
it (`AtLimit_OffByOne` of `AtLimit`). The specification never uses it; a check
replaces the original by it and must then find a property violated.

### 2.1 TeamReset

*State.* `rows` is the `reset_requests` table (team, day, status), `db` each
team's database: which row's rebuild cloned it and whether it is a bare template
or seeded. `sessions` are the teams whose database the backend is connected to.
Per request, `pc` is the await it is at, `req` its offering and team, `row` its
`resetRequestId`.

*Actions.* One per await of `reset.service.ts:33-131`, in the code's order:
`FindOffering`, `CountResetsToday`, `FindRunning`, `FindTeam`, `InsertRunning`
(or `InsertRefused` by the partial unique index
`reset_requests_one_running_per_team_idx`), `TerminateSessions`, `DropDatabase`,
`CreateDatabaseFromTemplate`, `RunSeedHook`, `MarkSucceeded`; `StepThrows` goes
to the catch block, `MarkFailed`. Every early return is a branch of its action.
`FindTeam` takes the reads of the team and of its backend in one step, since no action
changes either row. The environment: `Midnight`, the backend (dis)connecting (a session makes `DROP
DATABASE` throw), `QueryLost` (the control database fails, or runs an `INSERT`
and its answer is lost), `MarkSucceededLost`, `MarkFailedLost`, `Crash`.

*Abstract specification.* `RestoreLedger` knows entries and contents only: an
entry is open, succeeded or failed; a team has at most one open entry; only an
open entry rebuilds, only its own team's database; an entry succeeds only over
a database it rebuilt completely. `ImplementsLedger` is the refinement: rows are
entries, and a database is its row's work once it is whole.

### 2.2 RateLimit

*State.* `counter` and `expiry` are the Redis keys `stqa:ratelimit:{student,team}:id:window`
and their time to live. Per request and scope, `phase` is the command it waits
for and `ticket` what INCR returned; `stamp` is the window the keys name.

*Actions.* `Arrive` (both checks of `Promise.all` read the clock and send their
INCR), `Incr`, `Expire` (only the request that got 1 sends it), `IncrResent` (the
connection broke after Redis ran the command, and ioredis sends it again),
`CommandFails`, `Crash`, `Tick` (the next window; expired keys go). `Served` and
`Refused` are the middleware's verdict over the answers.

### 2.3 RequestLog, RequestPipeline, LoggedBody, PipelineBodies

*State.* `RequestLog` has, per request, `stage` and `answer` (the status its student
was sent). The pool of `LoggingDbService` is `waiting`, its queue, and `running`,
the statements on its connections; `table`, `body` and `events` are what the logging
database holds. `RequestPipeline` adds where a request is (`front`), its `stream`, the
chunks kept (`total`) and their `content`, whether it has an id (`named`), whether it
was `counted`, and the `reply` of a request that is not forwarded.

*Actions.* `Receive`, `Data`, `End`, `Abort` are the stream events of
`RawBodyMiddleware`, which go on after a body was refused for its size (`TooLarge`,
`Rejected`). `Authenticate` is `LabAuth` by its verdict, `Admit` and `CountFails` the
rate limiter's, `Lab` the reset controller by its status. Then `RequestLog`'s own:
`Arrive`/`Limit`, `LookupFails`, `Forward` (log the arrival, do not wait, fetch), `Complete`
(the backend, a broken connection or the timeout, whichever is first: answered
and logged in one go), `Dispatch`, `Commit`, `WriteFails`, and `Die` for the process.
Two statements on two connections commit in any order.

*Data.* `LoggedBody` has JSON values as trees: a scalar with the set of `Words` that can be
read in it, or an array or an object with a value or `Undefined` for each of `Names` (an
array's are its indices). `Json[n]` are those nested at most `n` deep. A *content* is its
type, its text and, if that parses, the value it stands for. A text is a sequence of nodes as
they are written, each with its path, and `Surviving` is what `JSON.parse` leaves of it: of a
field written twice only the last, and numbers and characters as JavaScript prints them
(`Reprint`: a long integer is rounded, `1.0` is `1`). `Message` ties the value to the text:
its nodes are those that survive.

`Parsed` and `Redact` are `parseBodyForLogging` and `redactBody`; an assignment to
`__proto__` makes no field, so the redaction loses what a body has there. `Injected` is
`injectRequestIdIfJson`: an object is printed anew from its value, with `_lab` spread
(`Spread`) before the id is put in; a `_lab` that is a string is spread into its characters
(`Letters`), an array's indices become fields, a number gives nothing. What is no object
goes out as the text that came. The references these are checked against
(`RightlyRedacted`, `CarriesId`) do not recurse: they compare sets of nodes, the ones that
survive of the text with the ones logged or sent. So an object or an array that is
lost, added or turned into a scalar counts as much as a lost word. `PipelineBodies` says what each
content of the pipeline is (`Carried`), and which are logged and answered as they
should be.

### 2.4 LabAuth

*State.* `status`, `cred`, `members` are the tables `assignment_offerings`,
`student_credentials` and `team_members`; `issued` the keys handed out. Per
request, `stage` is the query it waits for, `req` its path and key, `who` the
credential row found, `found` what the query now answered has told, `context` and `answer`
its end. `seen` is history: what was so on arrival and since; no action reads it.

*Actions.* `Arrive`, `FindByCode`, `CheckByCode`, `FindCredential`, `Verify`, `FindById`,
`CheckById`, `FindTeam`, `QueryFails` follow `lab-auth.middleware.ts:26-142`, refusals in the
code's order. A row is read in the database and the clock after the await, in `isActive`
and in the test of the expiry, so the two are separate steps: the row may have
changed, or the clock passed a limit, in between. The dashboard and the import
act through `Create`, `SetStatus`, `Issue`, `Revoke`, `AddMember`, one statement
each, at any time.

### 2.5 Provisioning

*State.* `teams`, `db`, `students`, `members`, `cred` are the tables and databases, `exported`
what finished imports handed out. Per import, `existing` are the maps of teams
read once at the start, `todo` the groups left, `group` the one in hand, `left`
what is left to write of it, `result` the keys generated. `reset` says of every
database which step of a reset is next, or that the last one failed.

*Actions.* `Begin`, `ListTeams`, `NextGroup`, `DatabaseExists`, `CreateDatabase`,
`CreateTeam`, `UpsertStudent`, `AddMember`, `SeedTeam`, `Issue`, `Finish`, one per statement of
`provisioning.service.ts:33-115`; `Conflict` (another import was faster: `CREATE
DATABASE` or a unique constraint fails; a reset has dropped the database that
is to be seeded; or a key is to be issued to a student without a row in `students`, which
the foreign key of `student_credentials` refuses) and `Fail`. `ResetDrops`, `ResetCreates`,
`ResetSeeds` are the three database steps of a reset. The DROP may fail within
`ResetDrops`, and a CREATE or a hook that fails, or a process that dies before either, is
`ResetFails`: the database is then absent, or unseeded, until the next reset. `TeamReset`
has a reset's other steps. Initially any of the students `Registered` may have a row from
another offering.
`groupIntoTeams` is the operators `Explicit`, `Loose` (the rows without a code, by their
numbers), `ChunkCode`, `GroupCodes`, `GroupMembers`, with `Map.set` as in the code: an automatic team replaces an
explicit one of its code.

### 2.6 DriveFetch

*State.* `files` and `folders` are what the team directories hold: per file its
link and whether it is whole, per folder which entries are on disk (`kept`),
which are unfinished (`torn`) and the names taken. `csv`, `row`, `item`, `entry` are
the run's place in its loops, `failures` and `exit` its count and status. `created`
and `broken` are history.

*Actions.* `Begin` (any version of the CSV: it is exported anew between runs),
`Skip` (no link, or the destination exists), `Fetch`, `WriteTemporary`, `Rename` for
a report or collection; `MakeFolder`, `PassEntry`, `OpenEntry`, `WriteEntry`,
`CloseFolder` for a folder, from its archive or entry by entry; `Fail` (caught,
counted, next item), `Exit`, `Killed`. An entry's name is computed as in the code:
`Occurrence` numbers repeated names, `FileName` adds `.txt` to a document.

### 2.7 TeamBackend

*State.* `now` is a clock of `TicksPerSecond`; a token's times are whole seconds.
Per request, `stage`, `message` (the claims of its token, the path asked for and the URL
made of it) and `answer`. `up` is the backend process, `idle` and `broken` the clients at rest in its
pool of each team, alive or terminated by a reset it has not noticed; `db` and
`reset` are the databases and the step of their reset. `saw` and `disturbed` are
history: which data a query met, and whether a reset of its own team overlapped.

*Actions.* `Send` signs and forwards. `StripOfferingPrefix` cuts the offering's code, written
in characters and escapes, from the path, whose rest is a sequence of segments. `Resolve`
is `new URL(forwardPath, backendUrl)` (`proxy.service.ts:67`): a rest with two slashes in
front names another host, or makes the constructor throw when no name follows; one with a slash
replaces the base path of the backend's URL, one without a slash its last segment; and dot segments
are removed (`Normal`). A request for another host is `AnswerElsewhere`'s. `GiveUp` is the
timeout, `FetchFails` a connection refused or broken.
`Verify`, `CheckOut`, `Finish` are the backend's middlewares and handler, a query
waiting while all clients are busy; `IdleCloses`, `PoolError`, `Restart` its pool and
process. `Terminate`, `Drop`, `CreateFromTemplate`, `Seed`, `RebuildFails` are the
reset, as in `TeamReset`. The backend is not in the repository: it is taken to
use `backend-sdk` as that package's README wires it, and `pg`'s pool is external.

### 2.8 AdminDashboard

*State.* `teams`, `members` and `log` are the tables; `page` is what was asked,
`ahead` per task of the page the groups of queries to come (a group is a
`Promise.all`), `got` their answers; `since` counts what came after the page was
asked. The list of teams is answered as a set; that the code goes through it in the
order of the codes shows in `ListedThen` and in `ShownTeam`, the last team that lists
a student.

*Actions.* `Home`, `OfferingDetail`, `ExportCsv` begin a page; `Activities` begins the two
tasks of its second half; `Query` is one answer, computed from the tables as they are
then. Rows have no age in the model, so those of the last day, which the number of active
teams is about, are any of the log's rows. `CreateTeam`, `AddMember`, `FirstWrite`, `SecondWrite` change the tables
meanwhile. The query about the backend's health is answered even if the backend
hangs, by its timeout of five seconds.

### 2.9 ReportServer, ActivityReport

*State.* `file`, `mtime` and `unsaved` are the export while it is written, `clock` the
ticks of time stamps; `cache`, `statted` and `served` the server's copy, the time stamp
it has just read and its last answer. The page has `activities`, `form`, the search
field's `text`, `error` and `report`.

*Actions.* `Export`, `WriteBlock`, `Tick`; `Stat` and `Read`, the server's two looks at
the file; `Load`; then the form: `ChangeType`, `ChooseDates`, `Type`, `Pick`,
`GenerateReport`. `Buckets`, `CountIn`, `Peak` are the pure part; `ReportAdds` compares
the result with a count over the rows. Times are hours, moved to the days of Dhaka
as the code moves them.

## 3. Runs

The runs that pass:

| run | instance | shows |
|---|---|---|
| `reset` | 2 requests at once, 2 teams of 2 offerings (one with a seeding hook), 3 rows, limit 1, one fault | `OneRebuildPerTeam`, `DailyLimitSlack`, `LossIsRecorded`, `OrphansAreFaults`, `ImplementsLedger` |
| `reset_settles` | 2 requests, 1 team, 2 days, one fault, no symmetry | `ResetSettles` (liveness) |
| `rate` | 3 requests, 2 students in one team, 3 windows, INCRs up to one window late, one fault | `Ceiling`, `RefusedOnlyWhenFull`, `NoImmortalCounter` |
| `pipeline` | 2 requests, 14 contents (no body, text, malformed and binary ones, 10 of JSON with a depth of up to 3: a sensitive name at two depths, a `_lab` of every kind, a field written twice, a number too long for JavaScript, `__proto__`), bodies up to one chunk over the limit, 2 connections, one fault | `OneNamedAnswer`, `RowsTellOutcome`, `BodiesRedacted`, `AnswersCarryId`, `EveryRequestAnswered` (liveness) |
| `auth` | 1 request, 2 students, 2 offerings active at different instants, a team in each, 2 keys | `KeyWasLive`, `OfferingWasActive`, `ContextOfOnePiece`, `NoFalseRefusal`, `DeadKeysStayDead` |
| `import` | 3 imports of 2 rosters (two codes that sanitise to one database name; a code that looks automatic, beside a row without one), 2 students, one of them registered before or not, 6 keys, one failure or reset | `TablesFit` (`OneDatabasePerTeam`), `FinishedIsComplete`, `UnseededIsExplained`, `WorkingKeyIsKnown` |
| `backend` | 2 requests, 2 teams, pools of one client, 2 resets, a token of 2 seconds and a timeout of half a second, the backend's clock half a second ahead, 5 ticks; a path with an escape in the code, with two slashes in front, with `..`, and a base path | `TokensOutliveWaits`, `UnseededOnlyInReset`, `FailuresAreResets`, `ForwardingFits` (`PathArrivesWhole`) |
| `dashboard` | 2 teams, 1 student, 2 requests, 2 changes while a page is made | `PagesAdd`, `StudentsHaveTeams`, `PageShown` (liveness) |
| `report` | 2 exports (1 and 4 rows, on both sides of a day boundary), 2 ticks, 3 days, a guard of 2 days | `PageFits` (`CacheIsFile`), `ReportIsTheForms`, `ReportAdds` |
| `fetch` | 2 runs, 2 CSVs of rows for 2 directories, folders of 4 entries with repeated and meeting names | `FilesAreWhole`, `ShortFoldersWereBroken`, `CleanExitIsComplete`, `NothingIsReplaced` |

`RowsTellOutcome`, `OneNamedAnswer`, `TablesFit`, `ForwardingFits`, `PagesAdd` and
`PageFits` are conjunctions of named parts, a type invariant among them where it
is not checked alone; each part has a mutant of its own.

*Why the bounds are enough to be interesting.* Two resets are what a race needs,
and a third row lets one caller reset again after a failure. Three requests pass
a limit of two, and three windows let a key expire that a late INCR could still
name. Two connections are the least that lets two writes overtake. Requests
never read each other's state in `LabAuth`, so one request against all writers
is every interleaving that matters; in `RequestPipeline` they meet only in the
pool. Two imports race; the third is the rerun, or meets a reset. A pool of one client is
full with one query, and has the next one wait; two teams are one that is reset
and one that must not notice. Five ticks of half a second are the lifetime of a token
and one tick more. A page reads before and after two changes at most, which is
more than any pair of its queries can tell apart. A
second run of the download finds whatever the first can leave.
One fault hits any single step; several faults are left to the proofs where
there are any. The bounds are the constants `MaxDay`, `MaxFaults`, `MaxWindow`,
`MaxLag`, `MaxTime`, `MaxBody`, `Depth`, `MaxPool`, `MaxResets`, `MaxChanges`, `MaxClock`,
`Guard`, `MaxRuns`, and the sizes of `RowId`, `Keys`.

*Deadlock* is checked for `TeamReset` and `LabAuth`, where the environment can
always act. The others serve a fixed set of requests, imports, pages or runs, and
stop when they are through.

*Symmetry* is used for safety runs only, over values no definition tells apart.

### 3.1 Fairness

`Spec` of `TeamReset` assumes `WF(~InHook(c) /\ Serve(c))`: a request's next await
returns, with a result or an error, because the control database and `CREATE`/`DROP
DATABASE` answer or the driver reports a broken connection. It assumes nothing of
a running seeding command, which `execFile` starts without a time limit
(`seed-hook.service.ts:31`): `ResetSettles` has "hooks end" as an explicit
premise, `HooksEnd`, and a hook that hangs does block its team. Nothing is assumed
of the backend, of midnight or of crashes.

`EveryRequestAnswered` is checked under `PipelineSpec`: a middleware whose turn it
is goes on, which covers a client that ends its body or goes away, the control
database and Redis that answer or fail; and `forward` goes on, because the fetch
ends by `AbortSignal.timeout` at the latest (`proxy.service.ts:121`). Nothing is
assumed of the logging database: neither `Dispatch` nor `Commit` is fair.
`PageShown` assumes that the two databases answer, not that the backend does.

### 3.2 Where the code and its documents disagree

Each of these runs checks one sentence of the repository and finds it violated.

* `secrets_logged`: a body of type `application/json` that does not parse is logged as its
  text, and `redactBody` leaves a string alone (`proxy.service.ts:203`); a form sent as
  text goes the same way. What stands in its sensitive fields is then in `request_logs`,
  where such fields "must never be persisted in plaintext" (`redact.ts:4`) and "sensitive
  body fields must be redacted" (`specification.md:565`). `BodiesRedacted` therefore
  promises a redacted row for bodies that parse, and no content at all for binary and empty ones;
  of text and malformed JSON it says nothing.
* `reset_spills`: a reset terminates an idle client of the backend's pool, nobody
  listens to the pool's `error` event, and the process of all teams ends
  (`database-routing.js:25`), where resets must "never affect other teams"
  (`specification.md:686`).

Met while modelling; a property says what is true instead, where one is named:

* An automatic team may take the code of an explicit one, because `Map.set` does not look
  whether the number is taken (`provisioning.service.ts:133`). The students of the explicit team are then
  in no team: for one registered already, keys are issued and every request is
  answered 404; for one new to the gateway the foreign key of `student_credentials`
  makes the import fail. `FinishedIsComplete` excepts them by name (`Displaced`).
* An offering is found active by a row read before and a clock read after the await
  (`offerings.service.ts:87`): a request may be admitted to an offering that was closed
  before its window began, and was active at no single moment. `OfferingWasActive` says what
  is left: set active at some moment since the request arrived, and in its window then or
  later.
* The log loses a body's fields named `__proto__` (`redact.ts:42` assigns to the prototype).
* An answer that is a JSON object is printed anew (`proxy.service.ts:224`): numbers beyond
  JavaScript's precision are rounded, of a field written twice the last remains, and a
  `_lab` that is no object becomes one. `AnswersCarryId` says exactly that.
* The limit of resets a day is not enforced against concurrent requests
  (`reset.service.ts:39` counts, `:76` inserts; the doc comment `:17` promises an
  advisory lock, and none is taken). `DailyLimitSlack`, proved, says by how much.
* A crash or a lost answer leaves a `running` row for good, and the team is
  answered 409 ever after, where the outcome must be recorded
  (`specification.md:685`): `OrphansAreFaults`.
* The arrival's upsert, run after the outcome's, sets the outcome to NULL
  (`specification.md:1079`). `RowsTellOutcome` says that this is the only damage.
* A 429 waits for the logging database (`rate-limit.middleware.ts:44`), though the
  logger's comment says that logging is never waited for
  (`request-logger.service.ts:36`): the exception in `EveryRequestAnswered`.
* Only forwarded requests get a row in `request_logs`, though the same comment says every
  request is logged (`request-logger.service.ts:34`).
* A body over the limit or broken off, and a path outside of the pipeline, are
  answered with `requestId` null, although the filter promises one
  (`gateway-exception.filter.ts:11`): `NamelessAnswers` names all such cases.
* A request refused for its student still counts against its team.
* An import that fails loses the keys it generated, and its rerun does not seed
  the team it created: `UnseededIsExplained` and `WorkingKeyIsKnown` state that.
* A student whom a second roster puts in another team is in both, and
  `findByStudentAndOffering` routes each request to either (`teams.service.ts:21`,
  no `ORDER BY`): `FindTeam` chooses.
* The prefix cut from a path is measured on the decoded offering code
  (`path.util.ts:28`): a code written with escapes leaves a wrong path.
  Also, the rest of a path is resolved as a URL (`proxy.service.ts:67`): dot segments are
  worked off, the base path of a backend's URL is replaced, and a rest with two slashes in front
  names a host. `PathArrivesWhole` says that a path arrives as it was asked for if, and only
  if, it is none of these.
* A request answered 504 may still be at work in the backend: its query can run
  after the student was told.
* A reset limit of 0 entered in the dashboard becomes 3
  (`parseInt(..) || 3`, `admin-actions.controller.ts:54`).
* `activityReportData` selects a column `dedup_hash`
  (`admin-dashboard.service.ts:210`) that no migration creates: the query fails
  unless the column was added by hand. The page that asks for it does not cancel a
  load when another offering is chosen, and labels the rows of whichever
  answer comes last with the offering chosen last
  (`gateway/public/activity-report.html:1339`).
* Of several `Set-Cookie` headers of a backend only the last reaches the student
  (`proxy.service.ts:130`).
* A report pressed for rows of which one has no time throws half way and leaves
  the report before in place: `ReportIsTheForms` names the case.
* A Drive folder that a failed download left short is skipped by every later run,
  which then exits with 0 (`prepare_directories.py:216`): `CleanExitIsComplete`
  promises completeness only for folders the run itself made.

## 4. Theorems

For every value of the constants that meets the modules' `ASSUME`s:

| theorem | says | argument |
|---|---|---|
| `TeamResetProofs!TypeCorrect` | `[]TypeOK` | with `OwnersHoldRows`: a request past its INSERT has a row |
| `TeamResetProofs!RebuildsExclude` | `[]OneRebuildPerTeam` | `OwnInv`: rows of rebuilding requests are running rows of their team, no two requests own one row, no two running rows are of one team (the index). The property alone is not inductive: it does not say what the row of a rebuilding request looks like |
| `TeamResetProofs!LossesAreRecorded`, `OrphansNeedFaults` | `[]LossIsRecorded`, `[]OrphansAreFaults` | `WorkInv`: from the clone to the last UPDATE the database is the work of the request's own row. A row is closed by its owner or by nobody, so the row of a lost database is running or failed |
| `TeamResetProofs!LedgerIsImplemented` | `ImplementsLedger` | under `OwnInv` and `WorkInv` a step is classified by what it does to a row or a database, and each kind maps to one action of `RestoreLedger` or a stutter; success needs `WorkIsOwn` |
| `TeamResetProofs!LimitExceededByLess` | `[]DailyLimitSlack` | `SlackInv`: today's resets of a team plus its requests between check and INSERT stay under limit + callers - 1; past days no longer change |
| `RateLimitProofs!TypeCorrect` | `[]TypeOK` | a counter that expires is no longer anyone's ticket: with `TicketInv` |
| `RateLimitProofs!CeilingHolds` | `[]Ceiling` | `TicketInv`: requests of one key have different tickets, because a counter is at least every ticket it gave while it may still be incremented, because a key outlives its own window by one. Served requests are then an injection into 1..limit |
| `RateLimitProofs!CountersExpire` | `[]NoImmortalCounter` | with `TicketInv`, inductive: whoever makes a key holds the ticket 1 and sends its EXPIRE next |
| `RateLimitProofs!RefusalsAreDeserved` | `[]RefusedOnlyWhenFull` | `Explained`: a counter is no more than its holders plus the INCRs sent twice; a ticket no more than the requests that could have been counted before it. The counter's part is needed because a ticket is read off it |
| `RequestPipelineProofs!LogTellsOutcome`, `RowsAlwaysTellOutcome` | `[]RowsTellOutcome`, of `RequestLog` alone and inside the pipeline | `LogInv`: which of a request's two writes are still in the pool decides what its row may hold (`Orderly`); an outcome in the pool or the row is what the student was answered |
| `RequestPipelineProofs!AnswersAreOneAndNamed` | `[]OneNamedAnswer` | `PipelineInv`: a request before `forward` is new to the log and stays so if it is answered there; its stream is open only while it is read or after a refusal |
| `LabAuthProofs!TypeCorrect` | `[]TypeOK`, with one answer per request | per query |
| `LabAuthProofs!DeadKeysNeverRevive` | `DeadKeysStayDead` | `LiveShrinks`: a new credential has a key that was never issued; every other step only ends lives |
| `LabAuthProofs!AdmissionNeedsLiveKey` | `[]KeyWasLive` | `KeyInv`: a key that is live now was live on arrival (by `LiveShrinks`), and a request past its verification was verified with a live key |
| `LabAuthProofs!ContextsFit` | `[]ContextOfOnePiece` | `PieceInv`: the record carried from `Verify` to `FindTeam` fits the path; memberships only grow |
| `LabAuthProofs!ContextsWereActive` | `[]OfferingWasActive` | `ActiveInv`: a row read as active is of an offering that was set active since the request arrived (`opened`), and one that has passed `isActive` was in its window then or later. Row and clock need two histories, because the row may change before the clock is read |
| `LabAuthProofs!EntitledAreAdmitted` | `[]NoFalseRefusal` | `FairInv`: a request entitled throughout is entitled now, and its record is a row of its key; with `KeysDiffer`, no other row is |
| `ProvisioningProofs!TablesAlwaysFit` | `[]TablesFit` | `Inv`: the teams an import knows exist; past `CREATE DATABASE` its group has a database, unless a reset has dropped it or failed to create it; codes of one database are of one team (the unique constraint) |
| `ProvisioningProofs!UnseededAlwaysExplained` | `[]UnseededIsExplained` | inductive with `Inv`: a step that leaves a database unseeded leaves an import or a reset at work or failed |
| `ProvisioningProofs!WorkingKeysAreKnown` | `[]WorkingKeyIsKnown` | inductive: a key is in its import's result when it is written, and the results of finished imports are exported |
| `ProvisioningProofs!FinishedAreComplete` | `[]FinishedIsComplete` | `GroupsServed`: a group of the roster is to come, or at hand with what is written of it, or served; teams and memberships only grow |
| `TeamBackendProofs!TokensSuffice` | `[]TokensOutliveWaits` | `TokenInv`: a queued token ends `Ttl` seconds after its request was sent, and a request still waited for is no older than the timeout; `AliveUntilGivenUp` compares the two in whole seconds |
| `TeamBackendProofs!UnseededIsResets` | `[]UnseededOnlyInReset` | `ResetInv`: a database that is not seeded is being reset or was left so by a reset that failed |
| `TeamBackendProofs!FailuresAreOwnResets` | `[]FailuresAreResets` | `ResetInv`: terminated clients and missing databases mark the requests of their own team |
| `TeamBackendProofs!ForwardsFit` | `[]ForwardingFits` | `ForwardInv`: a pool's clients, at rest, broken or busy, are within its size and none is of an absent database. `Arrival` is about paths alone: the prefix cut is as long as the code if and only if there are no escapes (`CutAll`, `CodeCut`), and what is left is unchanged by the resolution if and only if it is plain |
| `RequestPipelineProofs!LoggedBodiesAreRedacted` | `[]BodiesRedacted` | `NodeTypes`, `RedactKeeps`, below; a body that is logged is one of the contents |
| `RequestPipelineProofs!AnswersAlwaysCarryId` | `[]AnswersCarryId` | `SetField`: exchanging one field of an object exchanges the nodes under its name and no others; `LabNodes`, `SpreadNodes`: the nodes of the new `_lab` are the id and those the old one brings along (`BroughtAlong`), by cases over what it was; the nodes of the value are those that survive of the text |
| `PageProofs!PagesAlwaysAdd` | `[]PagesAdd` | `DashboardInv`, below |
| `PageProofs!ShownStudentsHaveTeams` | `[]StudentsHaveTeams` | `DashboardInv`: `StudentsCameFirst` keeps for every student a row of his that came before the teams were listed, whose team is in the list and lists him once it is read |
| `PageProofs!PageAlwaysFits` | `[]PageFits`, with `CacheIsFile` | `ServerInv`: time stamps are in the order file, `stat`, copy, read, and the file is there when it has rows to come or was looked at. `CacheIsFile` needs it because the copy is marked with a time taken before it was read |
| `PageProofs!ReportsAreTheForms` | `[]ReportIsTheForms` | `FormInv`: a form has an id, and there is a report, only once rows are loaded, and these never change |
| `PageProofs!ReportsAlwaysAdd` | `[]ReportAdds` | `FormInv`, below |
| `DriveFetchProofs!TypeCorrect` | `[]TypeOK` | with `PlaceInv`, below; a name given to an entry is a name because an entry's occurrence is a number up to its position |
| `DriveFetchProofs!FilesStayWhole` | `[]FilesAreWhole` | `FilesChange`: the only step that changes a file is a rename, and it adds a whole one |
| `DriveFetchProofs!NothingLost` | `NothingIsReplaced` | `PlaceInv`: between looking and writing the run stays at one row of its CSV, what it writes was absent when it looked and still is, and the folder it fills is there with its entry at hand open and unfinished |
| `DriveFetchProofs!OnlyBrokenFoldersAreShort` | `[]ShortFoldersWereBroken` | `FolderInv`: the entries passed are kept and the names taken are theirs, so a later entry of the same name gets another (`NamesDiffer`) |
| `DriveFetchProofs!CleanExitsAreComplete` | `[]CleanExitIsComplete` | `RunInv`: a run without failures has got what it has passed |

*The dashboard's invariant.* A page's answers are of different moments, and sums of
them are compared; yet `DashboardInv` contains no sum of answers. It says instead
that there are two sets, the rows and the teams that were there as the page was asked
(`Dated`), such that every answer is between what those give and what the
present tables give (`True`). Both ends are monotone, so each step keeps it query by
query, and the sets are the same from `Ask` to the end. Sums are formed only when the
page is complete: grouped counts of a set of rows add up to its size, for the set of
then (a lower bound) and of now (an upper one), and these differ by what came since.
That needs the queries to be complete and in order, the other half of the
invariant (`Asks`), and facts about sums over sets and flattened sequences that no
library module states. They are proved by induction over a *set* of numbers
(`SetInduction`, from the well-foundedness of `<`), since the provers cannot be given
the predicate the library's induction rule takes.

*The report.* `ReportAdds` is about the report shown, which may be of a form since edited;
`FormInv` therefore says that the report is the one made of its own form (`Truthful`),
which a step that leaves report and rows alone keeps. That a report adds up when
it is made is arithmetic: bucket `i` is the hour `24 * start + i - 1`, so buckets are different
hours, and the bars add up to the rows whose hour is a bucket's
(the sums are those of the dashboard). The guard shows as the smaller of two ends.

*Bodies.* TLAPS proves nothing of a `RECURSIVE` operator, and it may not assume that a
recursive function exists. `Json`, `NodesOf` and `Redact` are recursive over a depth,
not over trees: `RecursionIs` builds such a function as the union of its
finite beginnings, by induction over a set of numbers (`SetInduction`); `NodesAre` and
`RedactIs` are the equations it gives. What is proved of a tree of depth
`n` is then a set of numbers again: `NodeTypes` (nodes have paths of names) and `RedactKeeps`
(the nodes of the redacted tree are those not below a sensitive name or `__proto__`, and a
marker for each topmost sensitive one) hold at 0, and at `n` if they hold at `n - 1`, by cases over
scalar and compound. The statement over paths is what makes the step go through:
a path below a field is hidden, or lost, if the field is or the rest is. Nothing is proved of
`JSON.parse` itself: that a value has the nodes its text leaves is an assumption (`Message`).

*Assumptions worth knowing.* `LagAssumption` (`MaxLag < 2`): an INCR runs in the window
it was stamped with or the next. The Redis client gives a command up after 20
reconnection attempts, about ten seconds. With a lag of two windows the counter could be
gone when a late INCR names it, and the ceiling would not hold.
`RequestsAssumption`: a request for a known team names the team's offering, which
credentials and the dashboard's pages give. `TableAssumption`: sentinels are not
data. `SubmissionAssumption`: the same, and numbering a name or adding `.txt` gives a
name. `NumberingAssumption`: two entries of a Drive folder with one name are
numbered differently, and stay different when `.txt` is added
(`prepare_directories.py:173`). `BackendAssumption`: `%` in an offering's code begins an escape of
two characters, as in every URL a client can send, and the backend's URL has no dot
segments. `BodyAssumption`: the empty content
is one of the contents. `NamesAssumption`: array indices are different, are no sensitive names and
are not `_lab`, `requestId` or `__proto__`; a string's characters are at indices; and a value
may be two deep, as an answer with `_lab.requestId` is.
`ContentAssumption`: each content is a `Message` of section 2.3, empty if it is `NoContent`. `ReportAssumption` and
`ExportAssumption`: dates are days since the epoch, sentinels are not data, and `psql`
exports no row without a time. `RosterAssumption`: there are as many automatic codes as a
roster can need. `DashboardAssumption`: teams are listed once, by code.
`TimingAssumption`: the proxy's timeout, the lateness of its timer and the
skew between the two clocks stay a second below a token's lifetime; the defaults are 15
and 60 seconds.

*Only model-checked:* liveness (`ResetSettles`, `EveryRequestAnswered`, `PageShown`),
which is out of the prover's reach under fairness. Every other property of the passing
runs, the action properties and the refinement included, is one of the theorems above.
The two properties that the code violates (section 3.2) are refuted by their runs.

## 5. What the models leave out

* Of `TeamReset`: a statement or a hook process that goes on in the database
  server after the gateway crashed; the wording of answers.
* Of `RateLimit`: loss of Redis' data, and gateways that share one Redis. Both keys
  of a request are stamped in one step, though the code reads the clock twice.
* Of `RequestLog` and `RequestPipeline`: the columns other than status and body; a
  statement that commits although its connection broke; the hash of the body, which
  is of the unredacted one; the headers forwarded, which two sets of names
  decide; the truncation of long bodies.
* Of `LabAuth`: percent-decoding of the path, header stripping,
  `last_used_at`.
* Of `Provisioning`: parsing and parking of the uploaded CSV, names and e-mails of
  students. The groups are taken in any order where the code follows the file.
* Of `TeamBackend`: what the teaching backend does with a query, `closeAll`, tokens
  the gateway did not sign; which host another host is; the forms of a path that
  `new URL` treats like those modelled or spells anew (escaped dots, backslashes, control characters, a scheme).
* Of `AdminDashboard`: queries that fail, which end the page; the lookup of one request, the search in the log and its
  pages, which are one query each; `activityReportData`, which fails; sessions and
  the login of the instructor; the forms, whose services are in the other modules;
  `gateway/public/activity-report.html`, which gets no rows as long as
  `activityReportData` fails, and whose form and report are those of `Report.jsx`
  with other figures beside them.
* Of the report tools: the drawing of the chart, opening and closing the search
  menu, the host page, and `generate_reports.py`, which reads its inputs once and
  writes tables.
* Of `DriveFetch`: the forms of URLs, Drive's pages and confirmation tokens,
  cookies, names that differ in case or replaced characters only.
* Not modelled: `TeamDbRegistry`, which no code asks for a pool, so that its state
  never leaves the initial one; configuration, environment variables read once;
  the mailing of keys, a single loop that writes its log at the end, so that a
  crash mails everyone again, which a model would only repeat.

## 6. Plan

Done, in the order of importance: resets, rate limits, forwarding and logging,
authentication, imports, the download of submissions; then the pipeline around
`forward` and the logged bodies, the backend behind tokens, pools and resets,
imports beside resets, the dashboard's pages, the report tools; then the proofs of all
their safety properties. Worth adding when the code changes:

1. `TeamDbRegistry`, once code asks it for a pool.
2. Gateways that share one Redis and one logging database.
