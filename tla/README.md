# Verification of the approval service

TLA+ models of the approval service in this repository, checked with TLC and,
where it matters most, proved with TLAPS.

The service is a FastAPI application over async SQLAlchemy and PostgreSQL. It
keeps *approval requests*: created once, then approved, rejected or cancelled at
most once, with an audit entry and an outbox event for each change. What is hard
about it is not any single handler but what several calls in flight do to each
other: decisions that race for one request, retries that overlap the call they
repeat, pages of a list that shift under the client that reads them, containers
that migrate one database together, and failures between any two statements.

## 1. The system

| Component | Code | State | Operations | Interacts through |
|---|---|---|---|---|
| Approval requests | `app/domain/service.py`, `app/db/repository.py` | tables `approval_requests` (+ reviewers), `audit_log_entries`, `outbox_events` | create, get, approve, reject, cancel | the call's session |
| Idempotency keys | `app/api/idempotency.py` | table `idempotency_keys` | look up, replay, refuse reuse, store | same session, wraps the handler |
| Transactions and connections | `app/db/session.py` | one session per call, a pool of connections | begin, commit, roll back | FastAPI's dependency exit |
| Tables and schema | `app/db/models.py`, `migrations/` | primary keys, composite foreign keys | upgrade at start | constraints on every statement |
| Routes and error responses | `app/api/v1/approval_requests.py`, `app/api/errors.py`, `app/schemas/` | none | parse, validate, map exceptions to problem documents | calls the service, raises through `get_db` |
| Listing | `service.list_requests`, `repository.list` | none | count, then one page | two statements of one session |
| Authentication, workspace check | `app/auth/` | none | authenticate, compare workspace, require action | dependencies that run before the handler |
| Observability | `app/observability/` | a context variable | request id, JSON logs, redaction | middleware around everything |
| Application, start-up | `app/main.py`, `app/config.py`, `docker-entrypoint.sh` | cached engine and settings | wiring, `/health`, `/ready`, migration | - |
| Outbox publisher | not in the code, described in `DESIGN.md` | `published_at` | poll, publish, stamp | the outbox table |
| Test harness | `tests/conftest.py` | one in-memory SQLite connection | - | shared by all sessions |

What makes each component correct:

* **Requests**: a final state is final; of concurrent decisions exactly one
  happens; only somebody entitled decides, although the check precedes the
  UPDATE; a change and its two trail entries are one.
* **Keys**: one effect per key, however retries overlap; key and effect commit
  together; every success under one key is the same answer; a refusal has a
  reason that is really in the database.
* **Transactions**: all or nothing under every failure; no two transactions wait
  for each other; every call ends; what a client is told is durable.
* **Workspaces**: nothing crosses from one to another.
* **Listing**: what is missed and what is shown twice is bounded by what changed
  meanwhile; a page is never shorter than its total says without a reason.
* **Pipeline** (middleware, authentication, validation): callers who may not make
  a call learn nothing from the answer; refusals need no database; one call's
  request id never ends up on another's response or log line.
* **Pool and readiness**: `/ready` neither lies nor hangs; an outage costs a
  bounded number of calls once the database is back.
* **Start-up**: the schema appears once and whole, and nobody serves before.

`PROJECT.json` lists every hazard with its line and the properties on it.

## 2. Modules

| Module | Models | Composition |
|---|---|---|
| `ApprovalDomain` | rows, trail entries, who may decide | |
| `ApprovalLedger` | abstract specification: indivisible creates and decisions, each with one audit entry and one outbox event | |
| `ApprovalService` | the service: calls in flight, one SQL statement per action | implements `ApprovalLedger` |
| `ApprovalInvariant` | the inductive invariant `IInv` of `ApprovalService` | |
| `ExactlyOnce` | abstract specification: what a client that retries may rely on | |
| `RetryingClient` | clients that time out and repeat their call with its key | runs `ApprovalService`, implements `ExactlyOnce` |
| `RequestIndex` | abstract specification: the columns of a request that a list reads | |
| `LedgerIndex` | the refinement mapping from the ledger to the index | `ApprovalLedger` implements `RequestIndex` |
| `Listing` | the two statements of a list, and a client that pages | runs beside `RequestIndex` |
| `RequestPipeline` | middleware, credentials, workspace, action, validation, exception handlers, log lines | the handler returns or raises |
| `SchemaMigration` | abstract specification: the schema appears whole, then containers serve | |
| `Startup` | `docker-entrypoint.sh` and the migration, in several containers | implements `SchemaMigration` |
| `ConnectionPool` | the engine's pool, `/ready`, a database that goes away | |
| `...Proofs` | the theorems about the module of that name; `ApprovalAnswerProofs` those about the answers of `ApprovalService` | |
| `MC...` | its instances for TLC | |

The chain `ApprovalService` => `ApprovalLedger` => `RequestIndex` is what makes
`Listing` a statement about the service: its writers are all that the service can
do to the columns that a list reads. Both links are proved.

### From code to model

One action of `ApprovalService` is what a call does between two `await`s that
reach the database, that is, one statement with the Python around it:

| Code | Action |
|---|---|
| request arrives; the session's first statement takes a connection | `Receive`, `Begin` |
| `session.get(IdempotencyKey, ...)` | `KeyIsNew`, `KeyReused`, `Replay` |
| `repository.create` and the trail entries added after it | `InsertRequest` |
| `_get_or_raise`, then `_require_reviewer` or the creator check | `RequestMissing`, `NotAuthorised`, `Authorise`, `GetRequest` |
| the conditional `UPDATE`, rowcount 1, the re-read, the trail entries | `WinTransition` |
| the conditional `UPDATE`, rowcount 0; the second read; `InvalidTransitionError` | `LoseTransition`, `ReportConflict` |
| `session.flush()` of the key row | `StoreKey`, `KeyBusy` |
| return through FastAPI and `session.begin()` | `Respond`, `Commit` |
| an exception through `get_db`: rollback, problem document | `Refuse` (in the refusing actions), `Fail` |
| lost connection at COMMIT, process death | `LoseCommitAck`, `LoseCommit`, `Crash` |

The other modules:

| Code | Action |
|---|---|
| `list`: `select(func.count())`, then the SELECT with LIMIT and OFFSET | `Listing!Count`, `Select` |
| a create or a decision that commits between any two of these | `Write` |
| `RequestIdMiddleware.dispatch` before and after `call_next` | `RequestPipeline!Enter`, `Leave`; its `finally` on an exception: `Raise` |
| FastAPI's body parsing, before any dependency | `BadJson`, `BodyRead` |
| `get_principal`; the two checks of `require_action`, in their order | `NoCredentials`, `CredentialsGood`; `OtherWorkspace`, `WorkspaceGood`; `ActionMissing`, `ActionHeld` |
| `RequestValidationError` once all dependencies are resolved | `Invalid` |
| the handler: its first statement, its `logger.info`, its end | `Connect`, `Report`, `Return`, `DomainError`, `Raise` |
| `get_db`'s exit after the response; the handler for `Exception` | `Close`, `ServerError` |
| `JSONFormatter.format`, its merge of the line's context | `Log` |
| `alembic upgrade head`: read the version, ensure its table, each operation, commit | `Startup!AtHead`, `NotAtHead`, `EnsureVersionTable`, `Create`, `Duplicate`, `Commit` |
| `set -e`; a killed container; a lost acknowledgement | `StopBecause`, `Break`, `LoseCommitAck` |
| `engine.connect()`: pooled, new, refused, timed out | `ConnectionPool!TakePooled`, `Connect`, `ConnectFails`, `PoolTimeout` |
| `SELECT 1` or a call's statements; on a dead connection | `Succeed`, `MeetLost` |

A session's writes are kept in `session[c]` until `Publish` moves them to the
tables. That a session re-reads the row it has just updated (repository.py:103)
is part of `WinTransition`: nobody else can change the row in between.

The calls share no state inside the process, so a process that dies is one
`Crash` (or `LoseCommit`) for each call in it; that the model may also lose one
call and keep another covers several workers.

The database is PostgreSQL at READ COMMITTED, its default (`session.py` sets
none). A statement sees what is committed when it starts and its own session's
writes. An UPDATE waits for another session's uncommitted update of its row and
then re-evaluates its WHERE; an INSERT waits for an uncommitted row of the same
primary key. Waiting is an action that is not enabled. Reads never wait, and
neither do the foreign keys of the trails: the key-share lock that their check
takes does not conflict with an UPDATE that leaves the row's keys alone. A
SQLite file, which serialises writers, has a subset of these behaviours.

`ExitAfterResponse` chooses when `get_db`'s exit runs. FastAPI from 0.118 on,
and so the 0.139.0 of `uv.lock`, ends dependencies with `yield` after the
response was sent; 0.115 to 0.117, which `pyproject.toml` also allows, before.
The proofs hold for both.

### Abstractions

* `generate_id` is random; the identifiers that call `c` mints are written `c`.
* Texts are a small set with `Strip`; `fingerprint` is the validated body itself
  (a collision-free hash). Titles and reasons are stripped before fingerprint and
  storage, comments are not, as in `app/schemas/approval_request.py`.
* Reviewers are a set. Validation refuses duplicates; the real fingerprint also
  distinguishes their order, which is one more way of sending a different body.
* `source_type`, `source_id`, `description` and timestamps are left out: no guard
  reads them. A call of `ApprovalService` has passed authentication, the workspace
  check and validation, which are `RequestPipeline`'s.
* Nothing deletes a request, so the second 404 (repository.py:110) and the
  RuntimeError (repository.py:105) have no action.
* The re-read that reports a conflict returns what is committed. This relies on
  the ORM row of the first read having been dropped: the session's identity map
  is weak, and `get` hands out an entity, not the row.
* In `Listing` an identifier stands for the pair (`created_at`, `id`) of the ORDER
  BY. Identifiers become visible in any order, because `created_at` is taken
  before the INSERT and the row is seen from the COMMIT on. The third statement,
  which loads reviewers, reads what never changes. Paging is a client's doing:
  `limit` is constant, `offset` grows by it, and the client stops when `total` is
  reached or at a short page.
* In `RequestPipeline` a header is a principal, garbage or missing, a body is JSON,
  other text (FastAPI reports a 422) or bytes that cannot be decoded (a 400, before
  any check of the caller, like the 422), and the parameters are valid or not. The two tasks of a call, which
  Starlette's `BaseHTTPMiddleware` makes, each have a copy of the context variable.
  What the handler does to the tables is left to `ApprovalService`.
* In `Startup` an object is a table with its indexes or the row that names the
  revision. PostgreSQL's DDL is transactional. With SQLite, where Alembic commits
  every statement by itself, `Create` would be `Create_Autocommit`, and a
  container killed in the middle leaves a part of the schema that no later start
  completes; docker-compose.yml runs PostgreSQL.
* In `ConnectionPool` the database answers, refuses or has dropped a session. That
  it keeps silent, behind a partition that drops packets, is not modelled. The
  30 seconds of the pool's timeout are a choice whenever all is taken.

## 3. What is checked

| Run | Distinct states | Shows |
|---|---|---|
| `ledger` | 3 thousand | `LogExplainsState`, `LogSaysNothingElse`, `TrailsAgree`, `DecidersEntitled` of the abstract ledger; it implements `RequestIndex` |
| `race` | 195 thousand | with the commit after the response: `ApprovalService` implements `ApprovalLedger`, the safety properties that do not depend on when the commit happens, `IInv`, and `EveryCallEnds`, with three connections for four calls |
| `commit_first` | 361 thousand | with the commit before the response: `AcknowledgedIsDurable`, `SameKeySameAnswer`, `ReadsFollowAnswers` |
| `retries` | 238 thousand | clients that retry get exactly-once, and an answer |
| `listing` | 9.3 million | what a client that pages can rely on |
| `pipeline` | 112 thousand | tags, refusals, what outsiders learn |
| `startup` | 50 thousand | containers that migrate together implement `SchemaMigration` |
| `pool` | 86 thousand | readiness and dead connections |
| `ack_before_commit` | violated | `AcknowledgedIsDurable` fails with the commit after the response |
| `retry_conflicts` | violated | `SameKeyIsReplayed` fails in either order |
| `response_ids` | violated | `EveryResponseCarriesId` fails for the 500 |
| `handler_lines` | violated | `HandlerLinesAreTagged` fails for every create and decision |

The properties:

* `ImplementsLedger`: transactions, retries and failures together look like
  indivisible changes; it is the strongest statement about state, and the
  properties of the ledger carry over to the service through it.
* `FinalIsForever`: no decision overwrites another.
* `OneEffectPerKey`, `KeyStoredWithEffect`, `SameKeySameAnswer`: idempotency.
* `RefusalsAreReal`: a 409 or a 403 names something that is committed and stays,
  so no call is turned away because of a change that was rolled back.
* `OnlyCreatesRaceOnKeys`: a decision is never told that its key is busy; the
  row's lock makes it lose earlier.
* `WaitersAreNotWaitedFor`: no chain of waiting, so no deadlock in the database.
* `AcknowledgedIsDurable`, `ReadsFollowAnswers`: what a client may conclude from
  a success.
* `TenantIsolation`: neither answers nor trails cross workspaces.
* `EveryCallEnds`: the pool drains and nobody waits for ever. It says that the
  service comes to rest with every call ended, which is the same thing, as no
  call returns to where it was (`CallsOnlyGoForward`); `EveryClientIsTold` is put
  in the same way.
* `ImplementsExactlyOnce`, `EveryClientIsTold`: a client that repeats a call with
  its key after a 500, a lost connection, its own timeout or a first 409 has its
  wish carried out at most once, is told "done" only when it was, "refused" only
  when it never will be, and is told one of the two. This is with the commit
  before the response. A client that believes the *first* 409 can be told
  "refused" for what its own earlier attempt then does.
* `FullListing`, `GapsBounded`, `RepeatsBounded`, `TotalCoversPage`: reading to the
  first short page misses nothing from a list that only grows; otherwise each
  request passed over is paid for by one that left the list. A client that stops
  when `offset` reaches `total` can also lose one for each arrival, because the
  total is older than the page it comes with. Each repetition is paid for by an
  arrival. A page is no shorter than its total says, but for the requests that left
  the list between its own count and its own SELECT: two history variables,
  `counted` and `gone`, keep these apart from earlier and later departures.
* `TagsMatch`: no call's request id on another's refusal, line or response, and
  exactly which lines have another tag. `OutsidersLearnNothing`,
  `RefusalsNeedNoDatabase`: the order of the checks.
* `ImplementsMigration`, `TurnedAwayByAWholeSchema`,
  `WaitingContainersHoldNothing`, `EveryStartEnds`: concurrent and broken starts.
  A container that loses the race to create the version table fails, and then
  the schema is there; the others wait and hold nothing.
* `ReadyMeansReachable`, `LostConnectionsFailOnce`, `EveryProbeIsAnswered`: the
  probe uses the calls' pool and connections that may be dead.

### Bounds

Four calls: a create, its retry (same body with other blanks, or a different
body) or a decision, and two more that decide or read. With four, two rivals can
race while a third holds a lock and a fourth observes or retries; a chain of
three transactions, which `WaitersAreNotWaitedFor` is about, needs three. Two
users give a creator and a reviewer; two workspaces a stranger; two keys a key
for the create and a shared one for decisions, and calls without a key. The
inputs are listed in `MCApprovalService`; identities are fixed by role, so no
symmetry is used. `race` has one connection less than calls: three transactions
can still meet, and a fourth waits for the pool. The ledger run has three
changes, so a request can be created and decided beside another.

Deadlock is checked in every run of the service: the only state without a step
is the one in which every call has ended (`AllEnded`).

The other runs: three clients with four attempts each, more than two faults and
a conflict use up, so that every client can be told; the create's id is that of
its first or second attempt, and one that comes from a later attempt is decided
by nobody. Four requests in two workspaces, pages of one and two: a list shifts
by more than a page. (The list of pending requests is read to its first short page
in pages of two only, which halves the run.) Three calls of eleven shapes through the pipeline with one
connection, so that a refusal can meet a taken pool and two calls can log between
a third one's steps. Three containers with two starts and two failures: one
migrates, one waits, a third one comes when the first has broken. Two calls, two
probes and two connections through two outages: a probe can find all connections
taken, or one of each age.

`CHECK_DEADLOCK` is off where the system really comes to rest: a listing that is
done, containers that serve or have stopped for good, a ledger whose identifiers
are used up.

### Fairness

`FairSpec` assumes weak fairness of `Step(c)`: the event loop and the database
go on serving a call that can be served. It assumes nothing of `Receive` (a
client need not call) and nothing of the failures. A call in a queue, for a
connection or for a lock, is served eventually: SQLAlchemy's pool and
PostgreSQL's lock queues are first-in first-out; weak fairness is enough here
because calls are finite and a connection or a lock that is given back stays
free for those who wait. A 30 s pool timeout and a lost connection are covered by
`Fail`.

`FairClientSpec` adds that a client goes on: weak fairness of trying, hearing an
answer and noticing a lost connection, none of giving up. `LocalSpec` is only
about the event loop: weak fairness of the steps that need no database, so
`RefusalsNeedNoDatabase` holds with a pool that never gives a connection back.
`Startup`'s `FairSpec` is about containers that were started; nobody has to start
one. `ProbeSpec` is about probes only: their steps and the pool's timeout; calls
may keep their connections for ever and the database may stay away.

### Where code and documentation differ

1. `session.py:47` says that the transaction "commits when the route handler
   returns normally". With the pinned FastAPI it commits after the response was
   sent, so a failed COMMIT or a crash leaves a client with a 201 for a request
   that does not exist, and a read that follows a success at once can miss it
   (`ack_before_commit`).
2. `README.md:201` promises that the same key and body replay the original
   response. A retry that overlaps the original gets 409: a create at the key,
   a decision at the row. `DESIGN.md:95-106` describes the former for SQLite and
   expects PostgreSQL to resolve it; duplicates are excluded there too, but the
   loser is still refused (`retry_conflicts`). A retry after the 409 replays.
3. `README.md:223`: "Every response carries an `X-Request-Id` header". The 500 of
   the handler for `Exception` does not: Starlette runs it outside
   `RequestIdMiddleware` (`response_ids`).
4. `README.md:224`: log lines are tagged with the request id. The line about the
   unhandled exception is written when the variable has been reset (also in the
   counterexample of `response_ids`).
5. The lines "approval request created", "approved" and so on have a context with
   a `request_id` of their own, the approval request's, which
   `JSONFormatter.format` writes over the correlation id (`handler_lines`): no
   create or decision can be found by its `X-Request-Id`.

## 4. What is proved

For every number of calls, workspaces, users, texts, keys and connections, under
every failure, in both orders of commit and response:

| Theorem | States |
|---|---|
| `Invariant` | `Spec => []IInv` |
| `TypeCorrect` | `[]TypeOK` |
| `ServiceImplementsLedger` | `ImplementsLedger` |
| `CreatesAreIdempotent` | `[]OneEffectPerKey` |
| `KeysAndEffectsTogether` | `[]KeyStoredWithEffect` |
| `DecidedForGood` | `FinalIsForever` |
| `NoWaitingChains` | `[]WaitersAreNotWaitedFor` |
| `DecisionsNeverBusy` | `[]OnlyCreatesRaceOnKeys` |
| `RefusalsNameTheTruth` | `[]RefusalsAreReal` |
| `TenantsIsolated` | `[]TenantIsolation` |
| `SuccessesAreDurable`, `OneAnswerPerKey`, `ReadsSeeSuccesses` | `[]AcknowledgedIsDurable`, `[]SameKeySameAnswer`, `ReadsFollowAnswers`, when the commit precedes the response |
| `LedgerInvariant`, `LedgerTyped`, `LogComplete`, `LogExact`, `TrailsNeverDrift`, `OnlyTheEntitledDecide` | the ledger's properties, hence the service's |
| `LedgerImplementsIndex` | `ImplementsIndex` |
| `ClientsRunTheService` | `ClientSpec => Spec`: what is proved of the service holds with clients that retry; `RetriedCreatesHappenOnce` is an instance |
| `ClientsTyped` | `[]ClientTypeOK` |
| `EffectsExactlyOnce` | `ClientSpec => ImplementsExactlyOnce`, when the commit precedes the response and every intention has its own key |
| `CallsOnlyGoForward`, `NobodyIsStuck` | `CallsGoForward`, `[]SomebodyCanStep`: the safety half of `EveryCallEnds` |

For every number of requests, page size and query; of calls, shapes and
connections; of containers, starts and failures; of probes, calls, connections
and outages:

| Theorem | States |
|---|---|
| `ListingTyped`, `PagingIsComplete`, `TotalsAreCovered` | `ListingTypeOK`, `FullListing`, `TotalCoversPage` |
| `GapsAreBounded`, `RepeatsAreBounded` | `GapsBounded`, `RepeatsBounded` |
| `PipelineTyped`, `TagsNeverCross`, `NothingForOutsiders` | `PipelineTypeOK`, `TagsMatch`, `OutsidersLearnNothing` |
| `StartupTyped`, `TurnedAwayOnlyWhenDone`, `MigrationsDoNotDeadlock` | `StartupTypeOK`, `TurnedAwayByAWholeSchema`, `WaitingContainersHoldNothing` |
| `StartupImplementsMigration` | `ImplementsMigration` |
| `RefusalsNeverWait`, `LayersOnlyGoForward` | `[]RefusalsStayLocal`, `LayersGoForward`: the safety half of `RefusalsNeedNoDatabase` |
| `SomeMigrationGoesOn`, `MigrationsOnlyGoForward` | `[]SomebodyMigrates`, `MigrationsGoForward`: that of `EveryStartEnds` |
| `NoUserHangs` | `[]NobodyHangs`: that of `EveryProbeIsAnswered` |
| `PoolTyped`, `ReadinessIsHonest`, `OutagesCostAtMostThePool` | `PoolTypeOK`, `ReadyMeansReachable`, `LostConnectionsFailOnce` |

Assumptions, all in the modules and evaluated by TLC: `None` is no call, user,
text or key (`NoneAssumption`, `InputsAssumption`); calls ask for what validation
lets through (`InputsAssumption`); there is at least one connection
(`PoolAssumption`). Each attempt of a client is a call of its own, and every call
somebody's (`ClientsAssumption`). `EffectsExactlyOnce` alone also assumes
`KeysPerIntention`: every intention has an Idempotency-Key, and clients do not
share one for the same operation on the same request. This is what README.md:189-206
asks of them (for decisions the key is optional; one that is repeated without a
key is outside the theorem). It is a premise of the theorem and not of the module;
`MCRetryingClient` states it as an ASSUME of its own, so TLC shows that clients
can satisfy it. Identifiers are numbers, in the order of the
list, and there are finitely many requests at any time, which is not assumed
but part of the invariant (`ListingAssumption`). Request ids that the service
mints are not those that callers send, and none is `None` (`PipelineAssumption`). The upgrade creates at
least two objects, none twice (`StartupAssumption`). The pool is finite
(`ConnectionPool`'s `PoolAssumption`).

None of the safety properties is inductive by itself. That a commit is one step of the ledger
needs to know that the row in the session is still pending for everybody else.
This holds because (`IInv`)

* the sessions own what they write: no two hold one row or one key, and no
  session holds a committed key (`LocksExclusive`, `KeysNotTaken`);
* what a session holds is exactly what its call computed from a row that is
  still committed and pending (`SessionsOK`);
* creator and reviewers never change, so a check made before the UPDATE is good
  when it is made (`AuthorisationStands`);
* nothing carries a call's name before that call commits (`NothingEarly`);
* every request was created under a key that names it, and the key of a decision
  names a decided request (`KeysNameRequests`), which is why a decision cannot
  meet a committed rival at its key.

The proof of `StepInvariant` has a step per action; actions that only move a
call, that end one, that write a session and that publish one are each covered
by a lemma (`Moved`, `Dropped`, `Inserted`, `Won`, `KeyStored`, `Published`).
`KeysAndEffectsTogether` is an invariant of its own kept by commits
(`TablesStep`: every other step leaves the tables alone), and
`ServiceImplementsLedger` maps a commit to the ledger's create or decision
(`CommitCreates`, `CommitDecides`) and every other step to a stutter.

`ApprovalAnswerProofs` is about answers. A reason that a refusal names cannot go
away, because rows are continued (`RowsContinue`) and keys stay (`KeysStay`); a call
on its way to its 409 has seen a final status (`HasLost`). What a session writes
belongs to the workspace of its call (`SessionInWorkspace`), and so does what a key
replays (`KeysInWorkspace`). With the commit first, an answer of a call that has
nothing left to commit is backed by a row and, if it has a key, by that key's row
(`SuccessInv`, `AnswerStep`), from which the three promises follow.

Two kinds of theorem together are the safety half of a liveness property: that
nothing goes back (`CallsOnlyGoForward`, `LayersOnlyGoForward`,
`MigrationsOnlyGoForward`; a user of the pool has two steps, to take a connection
and to use it), so only finitely many steps are left, and that while
something is unfinished a step is possible. The latter is said with the guards of
the actions, spelled out as `CanStep`, `CanUpgrade`, `CanProceed` and `CanGoOn`,
because ENABLED is outside the prover. `NobodyIsStuck` follows from
`WaitersAreNotWaitedFor`: who holds what another waits for waits for nobody
(`WhoCannotStepWaits`), and when nobody holds a connection there is one to be had.
`SomeMigrationGoesOn` follows from `WaitingContainersHoldNothing` in the same way.
`NoUserHangs` needs that a connection in use is open and that all are lost while
the database is away (`ConnectionsReal`), `RefusalsNeverWait` that the database
is behind every check (`DatabaseIsBehindChecks`). What weak fairness makes of it
is TLC's to check.

The invariant behind `EffectsExactlyOnce` (`OnceInv`, in `RetryingClientProofs`)
says what a client may conclude from an answer. Of an intention, which all its
attempts share, two things never go away: that it *happened* (its key is taken) and
that it is *shut* (its request is decided, in another workspace or not the user's
to decide). An attempt that is about to commit is neither (`WriterIsFirst`), so
what is shut and has not happened is *hopeless* for good (`HopelessStays`): a commit
counts as the first effect of somebody who was told nothing (`CommitCounts`,
`ServiceStepIsOnce`). A 403 or 404 is given only to the hopeless, which needs that
a client only decides requests that it knows to exist (`Known`). A first 409 says
shut or happened, possibly by the client's own earlier attempt; the next attempt
starts after that, so it replays or is hopeless from the lookup of its key on
(`ContestStep`), and a second 409 can be believed.

The other inductive invariants are in their proof modules:

* `ListInv`: as long as the list only grows, what was there at the start and has
  not been seen ranks at or beyond the offset (`PagesOK`). The total of a page whose
  SELECT is to come is the number of requests that were counted (`CountOK`): each of
  them is in the list that the SELECT reads, or is one of those it does not find.
  `EverOK` ties the list to the history of what has matched. Counting is what makes
  it hard: a page is a rank interval of a finite set that grows while it is read.
* `AccountInv`: for a list that also shrinks. A request passed over is one that
  stayed, is unseen and ranks before the place that the listing has reached
  (`FewPassed`); one that will come again is seen and ranks at or behind it
  (`FewAgain`). A departure moves at most one request ahead over the place, an
  arrival at most one back (`DepartureShifts`, `ArrivalShifts`), and reading a page
  moves none. The last page adds what it does not reach: nothing after a short
  page (`ShortPageEnds`), and at most the arrivals where the client believes a
  total that is older than they are (`TotalIsRecent`).
* `PipelineInv`: each layer knows what the layers before it have let through
  (`ChecksPassed`); the context variable of a call's tasks is its own or reset
  (`ContextOK`); an answer by anything but a check means an entitled caller
  (`AnswerOK`).
* `StartupInv`: a transaction holds exactly the first objects of the fixed order
  (`HoldingOK`), and no two hold one (`Exclusive`), so all but one have none; hence
  `CommitIsWhole`, the step that maps to `Migrate`.
* `PoolInv`: `met + Cardinality(lost)` can only grow when the database goes down,
  when it starts at the number of open connections.

Only model-checked: the liveness properties `EveryCallEnds`, `EveryClientIsTold`,
`RefusalsNeedNoDatabase`, `EveryStartEnds` and `EveryProbeIsAnswered`, because
liveness under fairness is outside the prover; their safety halves, but for that
of `EveryClientIsTold`, are proved. Every invariant, action property and
refinement of the passing runs is proved.

## 5. Not modelled, and what is left

Not modelled:

* The outbox publisher: it does not exist. What it could rely on, one event for
  each change and none without, is `TrailsAgree` through `ImplementsLedger`. (A poll
  ordered by `created_at`, as `DESIGN.md` sketches, would find events in another
  order than they are committed, since the time is taken before the COMMIT.)
* The test harness, which runs all sessions on one in-memory SQLite connection:
  what sessions do to each other's transaction there is the driver's doing.
* The other fields of a log line, redaction, which field failed validation, how a
  bearer token decodes, OpenAPI and settings: functions of one input, without
  state, for which unit tests are the better tool.
* `downgrade` and offline migration, which nothing runs; SQLite's locking, which
  allows a subset of the behaviours.
* A database that neither answers nor refuses. `ping` has no timeout of its own,
  and nothing says how long it may take.

Left to prove: that a client always has a next step of its own or waits for a call
that has one, the safety half of `EveryClientIsTold`.
