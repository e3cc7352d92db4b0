------------------------ MODULE ApprovalLedgerProofs ------------------------
(***************************************************************************)
(* The ledger keeps an exact record of itself, for any number of changes.  *)
(* ApprovalServiceProofs shows that the service implements the ledger.     *)
(***************************************************************************)
EXTENDS LedgerIndex, TLAPS

UniqueIds == \A r, s \in requests : r.id = s.id => r = s

\* No property of the ledger is inductive without the primary key of the
\* table and the types: an entry names its request by id.
LedgerInv ==
    /\ LedgerTypeOK
    /\ UniqueIds
    /\ LogExplainsState
    /\ LogSaysNothingElse
    /\ TrailsAgree
    /\ DecidersEntitled

-----------------------------------------------------------------------------

\* A new row is a pending row of the table, by its creator.
LEMMA NewRowFields ==
    ASSUME NEW n \in Calls, NEW w \in Workspaces, NEW u \in Users,
           NEW reviewers \in SUBSET Users, NEW title \in Texts,
           NEW row, row = NewRow(n, w, u, reviewers, title)
    PROVE  /\ row \in Row /\ row.id = n /\ row.status = "pending"
           /\ row.created_by = u /\ row.decided_by = None
  BY DEF NewRow, Row, Status

\* A decision changes the status, the decider and the text, and nothing else.
LEMMA DecidedRowFields ==
    ASSUME NEW row \in Row, NEW decision \in Decisions, NEW user \in Users,
           NEW text \in Texts \cup {None},
           NEW decided, decided = DecidedRow(row, decision, user, text)
    PROVE  /\ decided \in Row
           /\ decided.id = row.id
           /\ decided.workspace_id = row.workspace_id
           /\ decided.created_by = row.created_by
           /\ decided.reviewers = row.reviewers
           /\ decided.status = decision
           /\ decided.decided_by = user
           /\ text = IF decided.status = "approved" THEN decided.comment
                                                    ELSE decided.reason
  BY DEF DecidedRow, Row, Status

\* The two trail entries of a change name the request, the actor and the
\* action.
LEMMA EntryFields ==
    ASSUME NEW n \in Calls, NEW row \in Row, NEW actor \in Users,
           NEW action \in AuditAction, NEW details \in Texts \cup {None},
           NEW e, e = AuditEntryOf(n, row, actor, action, details),
           NEW o, o = OutboxEventOf(n, row, action)
    PROVE  /\ e \in AuditLogEntry /\ o \in OutboxEvent
           /\ e.id = n /\ e.request = row.id /\ e.actor = actor
           /\ e.workspace_id = row.workspace_id
           /\ e.action = action /\ e.details = details
           /\ o.id = n /\ o.request = row.id /\ o.event_type = action
           /\ o.decided_by = row.decided_by
  BY DEF AuditEntryOf, OutboxEventOf, AuditLogEntry, OutboxEvent, Row

-----------------------------------------------------------------------------

\* create_request keeps the audit log exact: the identifier is new, so no
\* entry can have named it before.
LEMMA CreatePreserves ==
    ASSUME LedgerInv, CreateSome
    PROVE  LedgerInv'
  <1> USE DEF LedgerInv
  <1>1. PICK n \in Calls, w \in Workspaces, u \in Users,
             reviewers \in SUBSET Users, title \in Texts :
               CreateRequest(n, w, u, reviewers, title)
    BY DEF CreateSome
  <1>2. PICK row, e, o :
          /\ row = NewRow(n, w, u, reviewers, title)
          /\ e = AuditEntryOf(n, row, u, "created", title)
          /\ o = OutboxEventOf(n, row, "created")
    OBVIOUS
  <1>3. /\ row \in Row /\ row.id = n /\ row.status = "pending"
        /\ row.created_by = u
    BY <1>2, NewRowFields
  <1>4. /\ e \in AuditLogEntry /\ o \in OutboxEvent
        /\ e.id = n /\ e.request = n /\ e.actor = u
        /\ e.workspace_id = row.workspace_id /\ e.action = "created"
        /\ o.id = n /\ o.request = n /\ o.event_type = "created"
    BY <1>2, <1>3, EntryFields DEF AuditAction
  <1>5. /\ \A r \in requests : r.id # n
        /\ requests' = requests \cup {row}
        /\ audit' = audit \cup {e}
        /\ outbox' = outbox \cup {o}
    BY <1>1, <1>2 DEF CreateRequest, Record
  <1>6. \A f \in audit : f.request # n
    BY <1>5 DEF LogSaysNothingElse
  <1>7. LedgerTypeOK' /\ UniqueIds'
    BY <1>3, <1>4, <1>5 DEF LedgerTypeOK, UniqueIds
  <1>8. LogExplainsState'
    BY <1>3, <1>4, <1>5 DEF LogExplainsState
  <1>9. LogSaysNothingElse'
    BY <1>3, <1>4, <1>5, <1>6 DEF LogSaysNothingElse
  <1>10. TrailsAgree' /\ DecidersEntitled'
    BY <1>3, <1>4, <1>5 DEF TrailsAgree, DecidersEntitled
  <1> QED
    BY <1>7, <1>8, <1>9, <1>10

\* A decision keeps the audit log exact: the request was pending, so the log
\* had its creation and nothing more.
LEMMA DecidePreserves ==
    ASSUME LedgerInv, DecideSome
    PROVE  LedgerInv'
  <1> USE DEF LedgerInv
  <1>1. PICK n \in Calls, row \in requests, decision \in Decisions,
             user \in Users, text \in Texts \cup {None} :
               DecideRequest(n, row, decision, user, text)
    BY DEF DecideSome
  <1>2. PICK decided, e, o :
          /\ decided = DecidedRow(row, decision, user, text)
          /\ e = AuditEntryOf(n, decided, user, decision, text)
          /\ o = OutboxEventOf(n, decided, decision)
    OBVIOUS
  <1>3. /\ decided \in Row /\ decided.id = row.id
        /\ decided.workspace_id = row.workspace_id
        /\ decided.created_by = row.created_by
        /\ decided.reviewers = row.reviewers
        /\ decided.status = decision
        /\ decided.decided_by = user
        /\ text = IF decided.status = "approved" THEN decided.comment
                                                 ELSE decided.reason
    <2>1. row \in Row
      BY DEF LedgerTypeOK
    <2>2. decided = DecidedRow(row, decision, user, text)
      BY <1>2
    <2> QED
      BY <2>1, <2>2, DecidedRowFields
  <1>4. /\ e \in AuditLogEntry /\ o \in OutboxEvent
        /\ e.id = n /\ e.request = row.id /\ e.actor = user
        /\ e.workspace_id = row.workspace_id
        /\ e.action = decision /\ e.details = text
        /\ o.id = n /\ o.request = row.id /\ o.event_type = decision
        /\ o.decided_by = user
    <2>1. decision \in AuditAction
      BY DEF AuditAction
    <2>2. /\ e = AuditEntryOf(n, decided, user, decision, text)
          /\ o = OutboxEventOf(n, decided, decision)
      BY <1>2
    <2> QED
      BY <1>3, <2>1, <2>2, EntryFields
  <1>5. /\ row.status = "pending"
        /\ MayDecide(row, decision, user)
        /\ requests' = (requests \ {row}) \cup {decided}
        /\ audit' = audit \cup {e}
        /\ outbox' = outbox \cup {o}
    BY <1>1, <1>2 DEF DecideRequest, Record
  <1>6. decision \notin {"pending", "created"}
    BY DEF Decisions
  <1>7. \A f \in audit : f.request = row.id => f.action = "created"
    <2> SUFFICES ASSUME NEW f \in audit, f.request = row.id,
                        f.action # "created"
                 PROVE  FALSE
      OBVIOUS
    <2>1. PICK r \in requests : f.request = r.id /\ Explains(f, r)
      BY DEF LogSaysNothingElse
    <2>2. f.action = "pending"
      BY <1>5, <2>1 DEF UniqueIds, Explains
    <2> QED
      BY <2>2 DEF LedgerTypeOK, AuditLogEntry, AuditAction, Decisions
  <1>8. LedgerTypeOK' /\ UniqueIds'
    BY <1>3, <1>4, <1>5 DEF LedgerTypeOK, UniqueIds
  <1>9. Explains(e, decided)
    BY <1>3, <1>4 DEF Explains
  <1>10. LogExplainsState'
    <2> SUFFICES ASSUME NEW r \in requests'
                 PROVE  /\ \E f \in audit' : /\ f.request = r.id
                                             /\ f.workspace_id = r.workspace_id
                                             /\ f.action = "created"
                                             /\ f.actor = r.created_by
                        /\ r.status # "pending" =>
                             \E f \in audit' : Explains(f, r)
      BY DEF LogExplainsState, Explains
    <2>1. CASE r = decided
      BY <1>3, <1>5, <1>9, <2>1 DEF LogExplainsState
    <2>2. CASE r # decided
      BY <1>5, <2>2 DEF LogExplainsState
    <2> QED
      BY <2>1, <2>2
  <1>11. LogSaysNothingElse'
    <2>1. ASSUME NEW f \in audit'
          PROVE  \E r \in requests' :
                   f.request = r.id /\ (f.action # "created" => Explains(f, r))
      <3>1. CASE f = e
        BY <1>3, <1>4, <1>5, <1>9, <3>1
      <3>2. CASE f # e /\ f.request = row.id
        BY <1>3, <1>5, <1>7, <3>2
      <3>3. CASE f # e /\ f.request # row.id
        BY <1>5, <3>3 DEF LogSaysNothingElse
      <3> QED
        BY <3>1, <3>2, <3>3
    <2>2. ASSUME NEW f \in audit', NEW g \in audit', f.request = g.request,
                 (f.action = "created") <=> (g.action = "created")
          PROVE  f = g
      BY <1>4, <1>5, <1>6, <1>7, <2>2 DEF LogSaysNothingElse
    <2> QED
      BY <2>1, <2>2 DEF LogSaysNothingElse, Explains
  <1>12. TrailsAgree'
    BY <1>4, <1>5 DEF TrailsAgree
  <1>13. DecidersEntitled'
    BY <1>3, <1>5 DEF DecidersEntitled, MayDecide, IsReviewer
  <1> QED
    BY <1>8, <1>10, <1>11, <1>12, <1>13

\* The audit log is an exact record of the requests, the outbox agrees with
\* it, and every decision was made by somebody entitled to it.
THEOREM LedgerInvariant == LedgerSpec => []LedgerInv
  <1>1. LedgerInit => LedgerInv
    BY DEF LedgerInit, LedgerInv, LedgerTypeOK, UniqueIds, LogExplainsState,
       LogSaysNothingElse, TrailsAgree, DecidersEntitled
  <1>2. LedgerInv /\ [LedgerNext]_ledger => LedgerInv'
    <2> SUFFICES ASSUME LedgerInv, [LedgerNext]_ledger
                 PROVE  LedgerInv'
      OBVIOUS
    <2>1. CASE LedgerNext
      BY <2>1, CreatePreserves, DecidePreserves DEF LedgerNext
    <2>2. CASE UNCHANGED ledger
      BY <2>2 DEF ledger, LedgerInv, LedgerTypeOK, UniqueIds, LogExplainsState,
         LogSaysNothingElse, TrailsAgree, DecidersEntitled, Explains
    <2> QED
      BY <2>1, <2>2
  <1> QED
    BY <1>1, <1>2, PTL DEF LedgerSpec

\* The audit log explains every request's state.
THEOREM LogComplete == LedgerSpec => []LogExplainsState
  <1>1. LedgerInv => LogExplainsState
    BY DEF LedgerInv
  <1> QED
    BY <1>1, LedgerInvariant, PTL

\* The audit log says nothing that did not happen, and nothing twice.
THEOREM LogExact == LedgerSpec => []LogSaysNothingElse
  <1>1. LedgerInv => LogSaysNothingElse
    BY DEF LedgerInv
  <1> QED
    BY <1>1, LedgerInvariant, PTL

\* Audit log and outbox tell one story.
THEOREM TrailsNeverDrift == LedgerSpec => []TrailsAgree
  <1>1. LedgerInv => TrailsAgree
    BY DEF LedgerInv
  <1> QED
    BY <1>1, LedgerInvariant, PTL

\* Every decision was made by a listed reviewer (anybody, if none is listed),
\* every cancellation by the creator.
THEOREM OnlyTheEntitledDecide == LedgerSpec => []DecidersEntitled
  <1>1. LedgerInv => DecidersEntitled
    BY DEF LedgerInv
  <1> QED
    BY <1>1, LedgerInvariant, PTL

\* The tables of the ledger keep their types.
THEOREM LedgerTyped == LedgerSpec => []LedgerTypeOK
  BY LedgerInvariant, PTL DEF LedgerInv

-----------------------------------------------------------------------------
(* What a list reads of the ledger.                                        *)

\* A create makes one request appear, pending.
LEMMA CreateAppears ==
    ASSUME CreateSome
    PROVE  I!IndexNext
  <1>1. PICK n \in Calls, w \in Workspaces, u \in Users,
             reviewers \in SUBSET Users, title \in Texts :
               CreateRequest(n, w, u, reviewers, title)
    BY DEF CreateSome
  <1>2. PICK row : row = NewRow(n, w, u, reviewers, title)
    OBVIOUS
  <1>3. /\ \A r \in requests : r.id # n
        /\ requests' = requests \cup {row}
    BY <1>1, <1>2 DEF CreateRequest
  <1>4. Listed(row) = [id |-> n, workspace_id |-> w, status |-> "pending"]
    BY <1>2 DEF Listed, NewRow
  <1>5. \A e \in listed : e.id # n
    BY <1>3 DEF listed, Listed
  <1>6. I!Appear(n, w)
    BY <1>3, <1>4, <1>5 DEF I!Appear, listed
  <1> QED
    BY <1>6 DEF I!IndexNext

\* A decision changes the status of one pending request; that it changes no
\* other entry of the list is the primary key.
LEMMA DecideInIndex ==
    ASSUME LedgerInv, DecideSome
    PROVE  I!IndexNext
  <1>1. PICK n \in Calls, row \in requests, decision \in Decisions,
             user \in Users, text \in Texts \cup {None} :
               DecideRequest(n, row, decision, user, text)
    BY DEF DecideSome
  <1>2. PICK decided : decided = DecidedRow(row, decision, user, text)
    OBVIOUS
  <1>3. /\ row.status = "pending"
        /\ requests' = (requests \ {row}) \cup {decided}
    BY <1>1, <1>2 DEF DecideRequest
  <1>4. row \in Row
    BY DEF LedgerInv, LedgerTypeOK
  <1>5. Listed(decided) = [Listed(row) EXCEPT !.status = decision]
    BY <1>2, <1>4, DecidedRowFields DEF Listed
  <1>6. \A r \in requests : Listed(r) = Listed(row) => r = row
    BY DEF LedgerInv, UniqueIds, Listed
  <1>7. listed' = (listed \ {Listed(row)}) \cup {Listed(decided)}
    BY <1>3, <1>6 DEF listed
  <1>8. Listed(row).status = "pending"
    BY <1>3 DEF Listed
  <1>9. I!Decide(Listed(row), decision)
    BY <1>5, <1>7, <1>8 DEF I!Decide
  <1> QED
    BY <1>9 DEF I!IndexNext, I!Decisions, Decisions, listed

\* The ledger, and so the service, implements the index that Listing reads.
THEOREM LedgerImplementsIndex == LedgerSpec => ImplementsIndex
  <1>1. LedgerInit => I!IndexInit
    BY DEF LedgerInit, I!IndexInit, listed
  <1>2. LedgerInv /\ [LedgerNext]_ledger
          => [I!IndexNext]_listed
    BY CreateAppears, DecideInIndex DEF LedgerNext, ledger, listed
  <1> QED
    BY <1>1, <1>2, LedgerInvariant, PTL
       DEF LedgerSpec, ImplementsIndex, I!IndexSpec

=============================================================================
