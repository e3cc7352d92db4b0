--------------------------- MODULE ApprovalLedger ---------------------------
(***************************************************************************)
(* What the service promises about its durable state, with no calls,       *)
(* transactions or keys in sight: a request is created once, is decided at *)
(* most once by somebody entitled to, and each of those two changes is     *)
(* atomic with exactly one audit entry and exactly one outbox event        *)
(* (DESIGN.md, "Data model" and "Events & integration readiness").         *)
(***************************************************************************)
EXTENDS ApprovalDomain

VARIABLES
    requests,   \* table approval_requests (with approval_request_reviewers)
    audit,      \* table audit_log_entries
    outbox      \* table outbox_events

ledger == <<requests, audit, outbox>>

LedgerTypeOK ==
    /\ requests \subseteq Row
    /\ audit \subseteq AuditLogEntry
    /\ outbox \subseteq OutboxEvent

LedgerInit ==
    /\ requests = {}
    /\ audit = {}
    /\ outbox = {}

-----------------------------------------------------------------------------

\* Mutants of Record: no event for a decision without a comment; a log that
\* names the creator for every action.
Record_NoEventIfSilent(n, row, actor, action, details) ==
    /\ \A e \in audit \cup outbox : e.id # n
    /\ audit' = audit \cup {AuditEntryOf(n, row, actor, action, details)}
    /\ outbox' = outbox \cup
         (IF details = None THEN {} ELSE {OutboxEventOf(n, row, action)})

Record_CreatorActs(n, row, actor, action, details) ==
    /\ \A e \in audit \cup outbox : e.id # n
    /\ audit' = audit \cup
         {AuditEntryOf(n, row, row.created_by, action, details)}
    /\ outbox' = outbox \cup {OutboxEventOf(n, row, action)}

\* Change n, by actor, left the request as row: one entry in each trail,
\* under an identifier that no entry has had before.
Record(n, row, actor, action, details) ==
    /\ \A e \in audit \cup outbox : e.id # n
    /\ audit' = audit \cup {AuditEntryOf(n, row, actor, action, details)}
    /\ outbox' = outbox \cup {OutboxEventOf(n, row, action)}

\* create_request, as one indivisible change.
CreateRequest(n, workspace, user, reviewers, title) ==
    LET row == NewRow(n, workspace, user, reviewers, title)
    IN  /\ \A r \in requests : r.id # n
        /\ requests' = requests \cup {row}
        /\ Record(n, row, user, "created", title)

\* Mutants of DecideRequest: whatever the status; whoever asks.
DecideRequest_AnyStatus(n, row, decision, user, text) ==
    LET decided == DecidedRow(row, decision, user, text)
    IN  /\ MayDecide(row, decision, user)
        /\ decision # "approved" => text # None
        /\ requests' = (requests \ {row}) \cup {decided}
        /\ Record(n, decided, user, decision, text)

DecideRequest_AnyUser(n, row, decision, user, text) ==
    LET decided == DecidedRow(row, decision, user, text)
    IN  /\ row.status = "pending"
        /\ IsReviewer(row, user)
        /\ decision # "approved" => text # None
        /\ requests' = (requests \ {row}) \cup {decided}
        /\ Record(n, decided, user, decision, text)

\* approve_request and reject_request (by a reviewer) and cancel_request
\* (by the creator), as one indivisible change of a pending request.
DecideRequest(n, row, decision, user, text) ==
    LET decided == DecidedRow(row, decision, user, text)
    IN  /\ row.status = "pending"
        /\ MayDecide(row, decision, user)
        /\ decision # "approved" => text # None
        /\ requests' = (requests \ {row}) \cup {decided}
        /\ Record(n, decided, user, decision, text)

CreateSome ==
    \E n \in Calls, workspace \in Workspaces, user \in Users,
       reviewers \in SUBSET Users, title \in Texts :
         CreateRequest(n, workspace, user, reviewers, title)

DecideSome ==
    \E n \in Calls, row \in requests, decision \in Decisions, user \in Users,
       text \in Texts \cup {None} :
         DecideRequest(n, row, decision, user, text)

LedgerNext == CreateSome \/ DecideSome

LedgerSpec == LedgerInit /\ [][LedgerNext]_ledger

-----------------------------------------------------------------------------
(* Properties.                                                             *)

\* The audit entry, if row is decided, of its decision.
Explains(e, row) ==
    /\ e.request = row.id
    /\ e.workspace_id = row.workspace_id
    /\ e.action = row.status
    /\ e.actor = row.decided_by
    /\ e.details = IF row.status = "approved" THEN row.comment ELSE row.reason

\* The audit log explains the table: who created each request, and who took
\* it to its final state with which comment or reason.
LogExplainsState ==
    \A row \in requests :
        /\ \E e \in audit : /\ e.request = row.id
                            /\ e.workspace_id = row.workspace_id
                            /\ e.action = "created"
                            /\ e.actor = row.created_by
        /\ row.status # "pending" => \E e \in audit : Explains(e, row)

\* The audit log says nothing else: an entry for a decision describes the
\* state of an existing request, and no request was created or decided twice.
LogSaysNothingElse ==
    /\ \A e \in audit : \E row \in requests :
         /\ e.request = row.id
         /\ e.action # "created" => Explains(e, row)
    /\ \A e, f \in audit :
         /\ e.request = f.request
         /\ (e.action = "created") <=> (f.action = "created")
         => e = f

\* "A change is never recorded without its event, or vice versa": audit log
\* and outbox tell one story.
TrailsAgree ==
    /\ \A e \in audit : \E o \in outbox :
         o.id = e.id /\ o.request = e.request /\ o.event_type = e.action
    /\ \A o \in outbox : \E e \in audit :
         /\ o.id = e.id /\ o.request = e.request /\ o.event_type = e.action
         /\ o.event_type # "created" => o.decided_by = e.actor

\* Each final state was reached by somebody entitled to it: a listed reviewer
\* (anybody, if none is listed), or the creator for a cancellation.
DecidersEntitled ==
    \A row \in requests :
        row.status # "pending" => MayDecide(row, row.status, row.decided_by)

=============================================================================
