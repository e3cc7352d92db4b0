--------------------------- MODULE ApprovalService ---------------------------
(***************************************************************************)
(* The service as it runs: any number of HTTP calls in flight, each inside *)
(* the one transaction that get_db opens for it (app/db/session.py), each  *)
(* going through run_idempotent (app/api/idempotency.py), ApprovalService  *)
(* (app/domain/service.py) and SqlApprovalRequestRepository                *)
(* (app/db/repository.py), one SQL statement at a time.                    *)
(*                                                                         *)
(* The database is PostgreSQL at its default isolation, READ COMMITTED:    *)
(*   - a statement reads the committed tables and its own session;         *)
(*   - an UPDATE waits for another session's uncommitted update of the row *)
(*     and then evaluates its WHERE on what that session left;             *)
(*   - an INSERT waits for another session's uncommitted row of the same   *)
(*     primary key, and fails if that row was committed.                   *)
(* A wait is an action that is not enabled.                                *)
(***************************************************************************)
EXTENDS ApprovalDomain, Naturals, FiniteSets

CONSTANTS
    Keys,              \* the values of the Idempotency-Key header
    Strip,             \* str.strip, as a function on Texts
    Inputs,            \* what each call may ask for
    PoolSize,          \* connections the engine hands out
    ExitAfterResponse  \* does FastAPI run get_db's exit after the response?

VARIABLES
    requests, audit, outbox,  \* the committed tables
    keys,                     \* table idempotency_keys, committed
    input,                    \* what call c asks for, chosen once
    pc,                       \* where call c is
    session,                  \* what call c has written and not committed
    answer                    \* the response call c has produced

tables == <<requests, audit, outbox, keys>>
vars == <<requests, audit, outbox, keys, input, pc, session, answer>>

-----------------------------------------------------------------------------
(* Requests, responses and sessions.                                       *)

Op == {"create", "get", "approve", "reject", "cancel"}

\* A call that passed authentication, the workspace check and validation.
Input ==
    [ op           : Op,
      workspace_id : Workspaces,
      user         : Users,
      target       : Calls \cup {None},   \* request_id in the path
      key          : Keys \cup {None},    \* Idempotency-Key
      text         : Texts \cup {None},   \* title, comment or reason
      reviewers    : SUBSET Users ]

\* create requires a key and a title, reject and cancel a reason; the other
\* operations name a request; get has neither a key nor a body.
WellFormed(i) ==
    /\ (i.op = "create") <=> (i.target = None)
    /\ i.op = "create" => i.key # None
    /\ i.op \in {"create", "reject", "cancel"} => i.text # None
    /\ i.op = "get" => i.key = None /\ i.text = None

ASSUME InputsAssumption ==
    /\ None \notin Keys
    /\ Strip \in [Texts -> Texts]
    /\ Inputs \in [Calls -> SUBSET Input]
    /\ \A c \in Calls : \A i \in Inputs[c] : WellFormed(i)

ASSUME PoolAssumption ==
    /\ PoolSize \in Nat \ {0}
    /\ ExitAfterResponse \in BOOLEAN

\* Validators strip the title and the reasons; a comment is kept as it came.
StoredText(i) == IF i.op \in {"create", "reject", "cancel"}
                 THEN Strip[i.text] ELSE i.text

Body == [text : Texts \cup {None}, reviewers : SUBSET Users]

\* fingerprint: a collision-free digest of the validated body (a decision
\* carries no reviewers).
Fingerprint(i) == [text |-> StoredText(i), reviewers |-> i.reviewers]

\* The primary key of idempotency_keys; its column route, "create" or
\* "<op>:<id>", is the pair of op and target.
Scope == [ workspace_id : Workspaces, op : Op,
           target : Calls \cup {None}, key : Keys \cup {None} ]

ScopeOf(i) == [ workspace_id |-> i.workspace_id, op |-> i.op,
                target |-> i.target, key |-> i.key ]

KeyRow == [scope : Scope, fingerprint : Body, code : {200, 201}, body : Row]

\* why: "ok", or what the problem document's detail says ("is already
\* <status>" is written as that status).
Answer ==
    [ code : {0, 200, 201, 403, 404, 409, 500},
      why  : Status \cup {"none", "ok", "not_found", "forbidden", "reused",
                          "busy", "error"},
      body : Row \cup {None} ]

NoAnswer == [code |-> 0, why |-> "none", body |-> None]

Session == [ requests : SUBSET Row, audit : SUBSET AuditLogEntry,
             outbox : SUBSET OutboxEvent, keys : SUBSET KeyRow ]

EmptySession == [requests |-> {}, audit |-> {}, outbox |-> {}, keys |-> {}]

-----------------------------------------------------------------------------
(* What a call sees.                                                       *)

\* Mutant of Addressed: a query that forgets the workspace.
Addressed_AnyWorkspace(c) == {r \in requests : r.id = input[c].target}

\* _get_or_raise and the WHERE of the UPDATE: id AND workspace_id.
Addressed(c) ==
    {r \in requests : /\ r.id = input[c].target
                      /\ r.workspace_id = input[c].workspace_id}

\* The committed row of the call's idempotency key.
Stored(c) == {k \in keys : k.scope = ScopeOf(input[c])}

\* Does another session hold the addressed row, or the call's key?
RowHeldBy(d, c) ==
    d # c /\ \E r \in session[d].requests : r.id = input[c].target

KeyHeldBy(d, c) ==
    d # c /\ \E k \in session[d].keys : k.scope = ScopeOf(input[c])

Action(op) == CASE op = "create"  -> "created"
                [] op = "approve" -> "approved"
                [] op = "reject"  -> "rejected"
                [] op = "cancel"  -> "cancelled"

\* Mutant of Change: a decision that forgets its outbox event.
Change_NoDecisionEvent(c, row) ==
    LET action == Action(input[c].op)
    IN  [ requests |-> {row},
          audit  |-> {AuditEntryOf(c, row, input[c].user, action,
                                   StoredText(input[c]))},
          outbox |-> IF action = "created" THEN {OutboxEventOf(c, row, action)}
                                           ELSE {},
          keys   |-> {} ]

\* The uncommitted writes of call c that leave the request as row.
Change(c, row) ==
    LET action == Action(input[c].op)
    IN  [ requests |-> {row},
          audit  |-> {AuditEntryOf(c, row, input[c].user, action,
                                   StoredText(input[c]))},
          outbox |-> {OutboxEventOf(c, row, action)},
          keys   |-> {} ]

Ok(code, row) == [code |-> code, why |-> "ok", body |-> row]

Connected == {c \in Calls : pc[c] \notin {"idle", "waiting", "committed",
                                          "done", "lost"}}

-----------------------------------------------------------------------------
(* Ways for a call to move on.                                             *)

Goto(c, label) == pc' = [pc EXCEPT ![c] = label]

\* Mutant of Refuse: the exception is answered and the transaction left open.
Refuse_NoRollback(c, code, why) ==
    /\ Goto(c, "done")
    /\ answer' = [answer EXCEPT ![c] = [code |-> code, why |-> why,
                                        body |-> None]]
    /\ UNCHANGED <<tables, input, session>>

\* An exception leaves get_db: roll back, then send the problem document.
Refuse(c, code, why) ==
    /\ Goto(c, "done")
    /\ session' = [session EXCEPT ![c] = EmptySession]
    /\ answer' = [answer EXCEPT ![c] = [code |-> code, why |-> why,
                                        body |-> None]]
    /\ UNCHANGED <<tables, input>>

\* COMMIT: the session's rows replace or join those of the tables.
Publish(c) ==
    LET s == session[c]
    IN  /\ requests' = {r \in requests : \A n \in s.requests : n.id # r.id}
                         \cup s.requests
        /\ audit' = audit \cup s.audit
        /\ outbox' = outbox \cup s.outbox
        /\ keys' = keys \cup s.keys
        /\ session' = [session EXCEPT ![c] = EmptySession]

Discard(c) ==
    /\ session' = [session EXCEPT ![c] = EmptySession]
    /\ UNCHANGED <<tables, input, answer>>

-----------------------------------------------------------------------------
(* run_idempotent.                                                         *)

Receive(c) ==
    /\ pc[c] = "idle"
    /\ Goto(c, "waiting")
    /\ UNCHANGED <<tables, input, session, answer>>

FirstStep(op) == IF op = "create" THEN "insert" ELSE "read"

\* The session's first statement takes a connection from the pool.  Without
\* a key the handler runs at once; with one, the key is looked up first.
Begin(c) ==
    /\ pc[c] = "waiting"
    /\ Cardinality(Connected) < PoolSize
    /\ Goto(c, IF input[c].key = None THEN FirstStep(input[c].op)
                                      ELSE "lookup")
    /\ UNCHANGED <<tables, input, session, answer>>

\* The row that records the call's answer under its key.
KeyRowOf(c) ==
    [ scope |-> ScopeOf(input[c]), fingerprint |-> Fingerprint(input[c]),
      code |-> answer[c].code, body |-> answer[c].body ]

\* Mutant of KeyIsNew: the key is reserved before the handler runs.
KeyIsNew_Reserve(c) ==
    /\ pc[c] = "lookup"
    /\ Stored(c) = {}
    /\ session' = [session EXCEPT ![c].keys = {KeyRowOf(c)}]
    /\ Goto(c, FirstStep(input[c].op))
    /\ UNCHANGED <<tables, input, answer>>

KeyIsNew(c) ==
    /\ pc[c] = "lookup"
    /\ Stored(c) = {}
    /\ Goto(c, FirstStep(input[c].op))
    /\ UNCHANGED <<tables, input, session, answer>>

KeyReused(c) ==
    /\ pc[c] = "lookup"
    /\ \E k \in Stored(c) : k.fingerprint # Fingerprint(input[c])
    /\ Refuse(c, 409, "reused")

\* Mutant of Replay: the request as it is now, not the stored response.
Replay_LiveRow(c) ==
    /\ pc[c] = "lookup"
    /\ \E k \in Stored(c), r \in requests :
         /\ k.fingerprint = Fingerprint(input[c])
         /\ r.id = k.body.id
         /\ answer' = [answer EXCEPT ![c] = Ok(k.code, r)]
    /\ Goto(c, "returned")
    /\ UNCHANGED <<tables, input, session>>

Replay(c) ==
    /\ pc[c] = "lookup"
    /\ \E k \in Stored(c) :
         /\ k.fingerprint = Fingerprint(input[c])
         /\ answer' = [answer EXCEPT ![c] = Ok(k.code, k.body)]
    /\ Goto(c, "returned")
    /\ UNCHANGED <<tables, input, session>>

\* Mutants of StoreKey: no unique key; a transaction of its own.
StoreKey_NotUnique(c) ==
    /\ pc[c] = "flush"
    /\ session' = [session EXCEPT ![c].keys = {KeyRowOf(c)}]
    /\ Goto(c, "returned")
    /\ UNCHANGED <<tables, input, answer>>

StoreKey_Apart(c) ==
    /\ pc[c] = "flush"
    /\ Stored(c) = {}
    /\ keys' = keys \cup {KeyRowOf(c)}
    /\ Goto(c, "returned")
    /\ UNCHANGED <<requests, audit, outbox, input, session, answer>>

\* The flush after the handler: the INSERT of the key row waits for another
\* session's uncommitted row of the same key, then succeeds or fails.
StoreKey(c) ==
    /\ pc[c] = "flush"
    /\ \A d \in Calls : ~KeyHeldBy(d, c)
    /\ Stored(c) = {}
    /\ session' = [session EXCEPT ![c].keys = {KeyRowOf(c)}]
    /\ Goto(c, "returned")
    /\ UNCHANGED <<tables, input, answer>>

\* Mutant of KeyBusy: the insert fails at once instead of waiting.
KeyBusy_NoWait(c) ==
    /\ pc[c] = "flush"
    /\ \E d \in Calls : KeyHeldBy(d, c)
    /\ Refuse(c, 409, "busy")

KeyBusy(c) ==
    /\ pc[c] = "flush"
    /\ \A d \in Calls : ~KeyHeldBy(d, c)
    /\ Stored(c) # {}
    /\ Refuse(c, 409, "busy")

-----------------------------------------------------------------------------
(* The handlers of ApprovalService.                                        *)

\* create_request: the row and its reviewers are flushed, the trail's
\* entries wait in the session for the next flush.
InsertRequest(c) ==
    LET row == NewRow(c, input[c].workspace_id, input[c].user,
                      input[c].reviewers, StoredText(input[c]))
    IN  /\ pc[c] = "insert"
        /\ session' = [session EXCEPT ![c] = Change(c, row)]
        /\ answer' = [answer EXCEPT ![c] = Ok(201, row)]
        /\ Goto(c, "flush")
        /\ UNCHANGED <<tables, input>>

RequestMissing(c) ==
    /\ pc[c] = "read"
    /\ Addressed(c) = {}
    /\ Refuse(c, 404, "not_found")

GetRequest(c) ==
    /\ pc[c] = "read"
    /\ input[c].op = "get"
    /\ \E row \in Addressed(c) : answer' = [answer EXCEPT ![c] = Ok(200, row)]
    /\ Goto(c, "returned")
    /\ UNCHANGED <<tables, input, session>>

NotAuthorised(c) ==
    /\ pc[c] = "read"
    /\ input[c].op # "get"
    /\ \E row \in Addressed(c) :
         ~MayDecide(row, Action(input[c].op), input[c].user)
    /\ Refuse(c, 403, "forbidden")

Authorise(c) ==
    /\ pc[c] = "read"
    /\ input[c].op # "get"
    /\ \E row \in Addressed(c) :
         MayDecide(row, Action(input[c].op), input[c].user)
    /\ Goto(c, "update")
    /\ UNCHANGED <<tables, input, session, answer>>

\* The row that a decision of call c makes of row.
DecidedBy(c, row) == DecidedRow(row, Action(input[c].op), input[c].user,
                                StoredText(input[c]))

\* Mutants of WinTransition: the status checked when the request was read and
\* not by the UPDATE; an UPDATE that does not wait for the row.
WinTransition_NoStatus(c) ==
    /\ pc[c] = "update"
    /\ \A d \in Calls : ~RowHeldBy(d, c)
    /\ \E row \in Addressed(c) :
         /\ session' = [session EXCEPT ![c] = Change(c, DecidedBy(c, row))]
         /\ answer' = [answer EXCEPT ![c] = Ok(200, DecidedBy(c, row))]
    /\ Goto(c, IF input[c].key = None THEN "returned" ELSE "flush")
    /\ UNCHANGED <<tables, input>>

WinTransition_NoLock(c) ==
    /\ pc[c] = "update"
    /\ \E row \in Addressed(c) :
         /\ row.status = "pending"
         /\ session' = [session EXCEPT ![c] = Change(c, DecidedBy(c, row))]
         /\ answer' = [answer EXCEPT ![c] = Ok(200, DecidedBy(c, row))]
    /\ Goto(c, IF input[c].key = None THEN "returned" ELSE "flush")
    /\ UNCHANGED <<tables, input>>

\* transition: UPDATE ... WHERE id AND workspace_id AND status = 'pending'.
WinTransition(c) ==
    /\ pc[c] = "update"
    /\ \A d \in Calls : ~RowHeldBy(d, c)
    /\ \E row \in Addressed(c) :
         /\ row.status = "pending"
         /\ session' = [session EXCEPT ![c] = Change(c, DecidedBy(c, row))]
         /\ answer' = [answer EXCEPT ![c] = Ok(200, DecidedBy(c, row))]
    /\ Goto(c, IF input[c].key = None THEN "returned" ELSE "flush")
    /\ UNCHANGED <<tables, input>>

LoseTransition(c) ==
    /\ pc[c] = "update"
    /\ \A d \in Calls : ~RowHeldBy(d, c)
    /\ \A row \in Addressed(c) : row.status # "pending"
    /\ Goto(c, "conflict")
    /\ UNCHANGED <<tables, input, session, answer>>

\* The row is read again for the status that the 409 reports.  It is there:
\* nothing deletes a request, so the code's second 404 has no action here.
ReportConflict(c) ==
    /\ pc[c] = "conflict"
    /\ \E row \in Addressed(c) : Refuse(c, 409, row.status)

-----------------------------------------------------------------------------
(* The end of the transaction, on either side of the response.             *)

\* Mutant of Respond: the answer leaves before the commit after all.
Respond_BeforeCommit(c) ==
    /\ pc[c] = "returned"
    /\ Goto(c, "responded")
    /\ UNCHANGED <<tables, input, session, answer>>

Respond(c) ==
    /\ pc[c] = IF ExitAfterResponse THEN "returned" ELSE "committed"
    /\ Goto(c, IF ExitAfterResponse THEN "responded" ELSE "done")
    /\ UNCHANGED <<tables, input, session, answer>>

Commit(c) ==
    /\ pc[c] = IF ExitAfterResponse THEN "responded" ELSE "returned"
    /\ Publish(c)
    /\ Goto(c, IF ExitAfterResponse THEN "done" ELSE "committed")
    /\ UNCHANGED <<input, answer>>

-----------------------------------------------------------------------------
(* Failures.                                                               *)

Working == {"waiting", "lookup", "read", "insert", "update", "conflict",
            "flush"}

\* An unexpected exception (no connection in time, the database gone, a COMMIT
\* that fails) while the response is still to be sent: 500, nothing applied.
Fail(c) ==
    /\ \/ pc[c] \in Working
       \/ pc[c] = "returned" /\ ~ExitAfterResponse
    /\ Refuse(c, 500, "error")

\* The COMMIT was applied and its acknowledgement lost: 500, all applied.
LoseCommitAck(c) ==
    /\ pc[c] = "returned"
    /\ ~ExitAfterResponse
    /\ Publish(c)
    /\ Goto(c, "done")
    /\ answer' = [answer EXCEPT ![c] = [code |-> 500, why |-> "error",
                                        body |-> None]]
    /\ UNCHANGED input

\* The process dies with the call in it and the database rolls back.
Crash(c) ==
    /\ pc[c] \in Working \cup {"returned", "committed"}
    /\ Goto(c, "lost")
    /\ Discard(c)

\* The response is out and its transaction is then lost, to a COMMIT that
\* fails or to a crash.
LoseCommit(c) ==
    /\ pc[c] = "responded"
    /\ Goto(c, "done")
    /\ Discard(c)

-----------------------------------------------------------------------------

\* Empty tables and nobody has called.
Blank ==
    /\ requests = {} /\ audit = {} /\ outbox = {} /\ keys = {}
    /\ pc = [c \in Calls |-> "idle"]
    /\ session = [c \in Calls |-> EmptySession]
    /\ answer = [c \in Calls |-> NoAnswer]

Init ==
    /\ Blank
    /\ input \in {f \in [Calls -> UNION {Inputs[c] : c \in Calls}] :
                    \A c \in Calls : f[c] \in Inputs[c]}

\* What the service does with a call it has received, failures aside.
Step(c) ==
    \/ Begin(c) \/ KeyIsNew(c) \/ KeyReused(c) \/ Replay(c)
    \/ StoreKey(c) \/ KeyBusy(c)
    \/ InsertRequest(c) \/ RequestMissing(c) \/ GetRequest(c)
    \/ NotAuthorised(c) \/ Authorise(c)
    \/ WinTransition(c) \/ LoseTransition(c) \/ ReportConflict(c)
    \/ Respond(c) \/ Commit(c)

Failure(c) == Fail(c) \/ LoseCommitAck(c) \/ Crash(c) \/ LoseCommit(c)

\* Every call has ended: the only state in which nothing happens.
AllEnded ==
    /\ \A c \in Calls : pc[c] \in {"done", "lost"}
    /\ UNCHANGED vars

Next == (\E c \in Calls : Receive(c) \/ Step(c) \/ Failure(c)) \/ AllEnded

Spec == Init /\ [][Next]_vars

\* The event loop and the database keep serving the calls they have; nothing
\* says that a client calls, or that anything fails.
FairSpec == Spec /\ \A c \in Calls : WF_vars(Step(c))

-----------------------------------------------------------------------------
(* Properties.                                                             *)

\* The types of the variables.
TypeOK ==
    /\ requests \subseteq Row
    /\ audit \subseteq AuditLogEntry
    /\ outbox \subseteq OutboxEvent
    /\ keys \subseteq KeyRow
    /\ input \in [Calls -> Input]
    /\ pc \in [Calls -> Working \cup {"idle", "returned", "responded",
                                      "committed", "done", "lost"}]
    /\ session \in [Calls -> Session]
    /\ answer \in [Calls -> Answer]

\* Concurrent transactions, retries and failures together look like a ledger
\* in which every change is indivisible, decides only a pending request, is
\* made by somebody entitled to, and leaves one entry in each trail.
L == INSTANCE ApprovalLedger
ImplementsLedger == L!LedgerSpec

\* A request that reached a final state keeps that state, its decider, its
\* comment and its reason for ever, and no request disappears ("a request
\* must never move from one final state to another", InvalidTransitionError).
RequestsStay ==
    \A r \in requests : \E n \in requests' :
        /\ n.id = r.id
        /\ r.status # "pending" => n = r

FinalIsForever == [][RequestsStay]_vars

\* However often a create is retried with one key, and however the retries
\* overlap, they create at most one request.
OneEffectPerKey ==
    \A r, s \in requests :
        ScopeOf(input[r.id]) = ScopeOf(input[s.id]) => r = s

\* An idempotency row and the change it answers for are committed together:
\* no key without its change, no keyed change without its key.
KeyStoredWithEffect ==
    /\ \A k \in keys : \E e \in audit :
         /\ e.request = k.body.id
         /\ k.scope = ScopeOf(input[e.id])
         /\ k.fingerprint = Fingerprint(input[e.id])
    /\ \A e \in audit : input[e.id].key # None =>
         \E k \in keys : /\ k.scope = ScopeOf(input[e.id])
                         /\ k.body.id = e.request

\* A call writes to, and is shown, requests of the workspace in its URL only,
\* and so does whatever it left in the trails.
TenantIsolation ==
    /\ \A c \in Calls : answer[c].body # None =>
         answer[c].body.workspace_id = input[c].workspace_id
    /\ \A e \in audit \cup outbox : \E r \in requests :
         /\ r.id = e.request
         /\ r.workspace_id = e.workspace_id
         /\ r.workspace_id = input[e.id].workspace_id

\* Call c waits for a lock that call d holds.
Waits(c, d) == \/ pc[c] = "update" /\ RowHeldBy(d, c)
               \/ pc[c] = "flush" /\ KeyHeldBy(d, c)

\* Who waits for the row or the key of another transaction is not waited for
\* in turn, so two transactions never wait for each other: the row is always
\* taken before the key, and a key is only contended by creates.
WaitersAreNotWaitedFor ==
    \A c, d, e \in Calls : ~(Waits(c, d) /\ Waits(d, e))

\* The client has the answer.
Delivered(c) == pc[c] \in {"responded", "done"}

\* A refusal names a reason that is committed and stays: a final status, a
\* key with another body, a key that was taken, a request that the user may
\* not decide.  No call is turned away for a change that was rolled back.
RefusalsAreReal ==
    \A c \in Calls : Delivered(c) =>
        /\ answer[c].why \in Status =>
             \E r \in Addressed(c) : /\ r.status = answer[c].why
                                     /\ r.status # "pending"
        /\ answer[c].why = "reused" =>
             \E k \in Stored(c) : k.fingerprint # Fingerprint(input[c])
        /\ answer[c].why = "busy" => Stored(c) # {}
        /\ answer[c].why = "forbidden" =>
             \E r \in Addressed(c) :
               ~MayDecide(r, Action(input[c].op), input[c].user)

\* Only two creates can meet at a key: a decision has taken the row first, and
\* who loses the row is told so before it gets to the key.
OnlyCreatesRaceOnKeys ==
    \A c \in Calls : answer[c].why = "busy" => input[c].op = "create"

Succeeded(c) == Delivered(c) /\ answer[c].why = "ok"

\* Row r is body b, or what a decision has made of it since.
Follows(r, b) ==
    /\ r.id = b.id
    /\ b.status # "pending" => r = b
    /\ [r EXCEPT !.status = b.status, !.decided_by = b.decided_by,
                 !.comment = b.comment, !.reason = b.reason] = b

\* What a client was told happened is in the database.
AcknowledgedIsDurable ==
    \A c \in Calls : Succeeded(c) =>
        \E r \in requests : Follows(r, answer[c].body)

\* All successful answers under one key are the same answer.
SameKeySameAnswer ==
    \A c, d \in Calls :
        /\ Succeeded(c) /\ Succeeded(d)
        /\ input[c].key # None
        /\ ScopeOf(input[c]) = ScopeOf(input[d])
        => answer[c] = answer[d]

\* Once a success was delivered, no call that reads the request afterwards
\* misses it or is shown it as it was before.
ReadsFollowAnswers ==
    [][\A c, d \in Calls :
         /\ pc[c] = "read" /\ answer'[c].why \in {"ok", "not_found"}
         /\ Succeeded(d)
         /\ answer[d].body.id = input[c].target
         /\ answer[d].body.workspace_id = input[c].workspace_id
         => /\ answer'[c].why = "ok"
            /\ Follows(answer'[c].body, answer[d].body)]_vars

\* A call that has been received is answered, or dies with its process: no
\* call comes back to "idle", so when the service rests all of them have ended.
EveryCallEnds == <>[](\A c \in Calls : pc[c] \in {"idle", "done", "lost"})

\* "Same key + same request body -> the original response is replayed"
\* (README.md): next to a successful call of the same key and body, no call
\* is answered with a conflict.
SameKeyIsReplayed ==
    \A c, d \in Calls :
        /\ Succeeded(d) /\ Delivered(c)
        /\ input[c].key # None
        /\ ScopeOf(input[c]) = ScopeOf(input[d])
        /\ Fingerprint(input[c]) = Fingerprint(input[d])
        => answer[c].code # 409

=============================================================================
