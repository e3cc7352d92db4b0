--------------------------- MODULE ApprovalDomain ---------------------------
(***************************************************************************)
(* The vocabulary of the approval service: the rows of its tables, the     *)
(* entries of its two trails, and the rule that says who may decide.       *)
(*                                                                         *)
(* Identifiers.  generate_id (app/domain/ids.py) mints an opaque random    *)
(* value.  A call mints at most one identifier of each kind (request,      *)
(* audit entry, outbox event), so the identifier minted by call c is       *)
(* written c: never repeated, and carrying no other information.           *)
(*                                                                         *)
(* Timestamps, source_type, source_id and description are left out: no     *)
(* guard of the service reads them.                                        *)
(***************************************************************************)

CONSTANTS
    Calls,       \* the HTTP calls the clients make, retries being new calls
    Workspaces,  \* external workspace ids
    Users,       \* external user ids
    Texts,       \* titles, comments and reasons
    None         \* Python's None / SQL NULL

ASSUME NoneAssumption ==
    /\ None \notin Calls
    /\ None \notin Users
    /\ None \notin Texts

-----------------------------------------------------------------------------

Decisions == {"approved", "rejected", "cancelled"}

Status == {"pending"} \cup Decisions

\* AuditAction, and the part of OutboxEventType after "approval_request.".
AuditAction == {"created"} \cup Decisions

\* A row of approval_requests together with its reviewer rows, which are
\* inserted in the same flush and never change afterwards.
Row ==
    [ id           : Calls,
      workspace_id : Workspaces,
      created_by   : Users,
      reviewers    : SUBSET Users,
      title        : Texts,
      status       : Status,
      decided_by   : Users \cup {None},
      comment      : Texts \cup {None},
      reason       : Texts \cup {None} ]

AuditLogEntry ==
    [ id           : Calls,
      workspace_id : Workspaces,
      request      : Calls,
      actor        : Users,
      action       : AuditAction,
      details      : Texts \cup {None} ]

\* The payload of a "created" event names no user; that of a decision does.
OutboxEvent ==
    [ id           : Calls,
      workspace_id : Workspaces,
      request      : Calls,
      event_type   : AuditAction,
      status       : Status,
      decided_by   : Users \cup {None} ]

-----------------------------------------------------------------------------

\* Mutant of NewRow: the status left to a default that the table lacks.
NewRow_NoStatus(id, workspace, user, reviewers, title) ==
    [ id |-> id, workspace_id |-> workspace, created_by |-> user,
      reviewers |-> reviewers, title |-> title, status |-> None,
      decided_by |-> None, comment |-> None, reason |-> None ]

\* The row SqlApprovalRequestRepository.create inserts.
NewRow(id, workspace, user, reviewers, title) ==
    [ id |-> id, workspace_id |-> workspace, created_by |-> user,
      reviewers |-> reviewers, title |-> title, status |-> "pending",
      decided_by |-> None, comment |-> None, reason |-> None ]

\* What the UPDATE of SqlApprovalRequestRepository.transition makes of a row:
\* text is the comment of an approval and the reason of anything else.
DecidedRow(row, decision, user, text) ==
    [ row EXCEPT !.status = decision, !.decided_by = user,
                 !.comment = IF decision = "approved" THEN text ELSE None,
                 !.reason = IF decision = "approved" THEN None ELSE text ]

\* What record_audit_entry and record_outbox_event add for a change of row.
AuditEntryOf(id, row, actor, action, details) ==
    [ id |-> id, workspace_id |-> row.workspace_id, request |-> row.id,
      actor |-> actor, action |-> action, details |-> details ]

OutboxEventOf(id, row, action) ==
    [ id |-> id, workspace_id |-> row.workspace_id, request |-> row.id,
      event_type |-> action, status |-> row.status,
      decided_by |-> row.decided_by ]

\* _require_reviewer: no reviewers means that anyone in the workspace may.
IsReviewer(row, user) == row.reviewers = {} \/ user \in row.reviewers

\* Who may take a request to a final state, per decision.
MayDecide(row, decision, user) ==
    IF decision = "cancelled" THEN user = row.created_by
                              ELSE IsReviewer(row, user)

=============================================================================
