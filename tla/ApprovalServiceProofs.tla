------------------------ MODULE ApprovalServiceProofs ------------------------
(***************************************************************************)
(* Proofs about ApprovalService for any number of calls, workspaces, users *)
(* and keys, any pool, and either order of response and commit.            *)
(***************************************************************************)
EXTENDS ApprovalInvariant, TLAPS

-----------------------------------------------------------------------------
(* What the helpers return.                                                *)

\* Calls that passed validation ask for a text where one is required.
LEMMA StoredTextType ==
    ASSUME NEW i \in Input, WellFormed(i)
    PROVE  /\ StoredText(i) \in Texts \cup {None}
           /\ i.op \in {"create", "reject", "cancel"} => StoredText(i) \in Texts
           /\ Fingerprint(i) \in Body
           /\ ScopeOf(i) \in Scope
  BY InputsAssumption DEF StoredText, WellFormed, Input, Op, Fingerprint,
     Body, Scope, ScopeOf

\* A decision leads to a final status, and create is logged as created.
LEMMA ActionType ==
    ASSUME NEW op \in Op, op # "get"
    PROVE  /\ Action(op) \in AuditAction
           /\ op # "create" => Action(op) \in Decisions
           /\ op = "create" => Action(op) = "created"
  BY DEF Op, Action, AuditAction, Decisions

\* The row that create inserts fits its table.
LEMMA NewRowType ==
    ASSUME NEW id \in Calls, NEW w \in Workspaces, NEW u \in Users,
           NEW reviewers \in SUBSET Users, NEW title \in Texts
    PROVE  NewRow(id, w, u, reviewers, title) \in Row
  BY DEF NewRow, Row, Status

\* A decided row fits its table, and keeps its identity, its workspace, its
\* creator and its reviewers.
LEMMA DecidedRowType ==
    ASSUME NEW row \in Row, NEW decision \in Decisions, NEW u \in Users,
           NEW text \in Texts \cup {None}
    PROVE  /\ DecidedRow(row, decision, u, text) \in Row
           /\ DecidedRow(row, decision, u, text).id = row.id
           /\ DecidedRow(row, decision, u, text).status = decision
           /\ DecidedRow(row, decision, u, text).workspace_id
                = row.workspace_id
           /\ DecidedRow(row, decision, u, text).created_by = row.created_by
           /\ DecidedRow(row, decision, u, text).reviewers = row.reviewers
  BY DEF DecidedRow, Row, Status

\* A change of one request writes that row and one entry per trail.
LEMMA ChangeType ==
    ASSUME TypeOK, NEW c \in Calls, WellFormed(input[c]),
           input[c].op # "get", NEW row \in Row
    PROVE  /\ Change(c, row) \in Session
           /\ Change(c, row).requests = {row}
           /\ Change(c, row).keys = {}
           /\ \A e \in Change(c, row).audit : e.id = c
           /\ \A e \in Change(c, row).outbox : e.id = c
  <1>1. input[c] \in Input
    BY DEF TypeOK
  <1>2. /\ StoredText(input[c]) \in Texts \cup {None}
        /\ Action(input[c].op) \in AuditAction
    BY <1>1, StoredTextType, ActionType DEF Input
  <1>3. AuditEntryOf(c, row, input[c].user, Action(input[c].op),
                     StoredText(input[c])) \in AuditLogEntry
    BY <1>1, <1>2 DEF AuditEntryOf, AuditLogEntry, Row, Input
  <1>4. OutboxEventOf(c, row, Action(input[c].op)) \in OutboxEvent
    BY <1>1, <1>2 DEF OutboxEventOf, OutboxEvent, Row
  <1> QED
    BY <1>3, <1>4 DEF Change, Session, AuditEntryOf, OutboxEventOf

\* What a call wrote stands as long as its session, its answer and, for a
\* decision, the pending row stand.
LEMMA WroteKept ==
    ASSUME NEW d \in Calls, NEW r, Wrote(d, r),
           input' = input,
           answer'[d] = answer[d],
           session'[d] = session[d],
           pc'[d] = "flush" <=> pc[d] = "flush",
           requests' = requests \/ (Decided(d, r) => Decided(d, r)')
    PROVE  Wrote(d, r)'
  <1>1. Created(d, r) => Created(d, r)'
    BY DEF Created
  <1>2. Decided(d, r) => Decided(d, r)'
    BY DEF Decided, Addressed, Authorised, DecidedBy
  <1>3. Change(d, r)' = Change(d, r) /\ KeyRowOf(d)' = KeyRowOf(d)
    BY DEF Change, KeyRowOf
  <1> QED
    BY <1>1, <1>2, <1>3 DEF Wrote

\* What a handler leaves in the session, before any key.
LEMMA WroteNow ==
    ASSUME NEW c \in Calls, NEW row,
           input' = input,
           Created(c, row)' \/ Decided(c, row)',
           answer'[c] = Ok(IF input[c].op = "create" THEN 201 ELSE 200, row),
           session'[c] = Change(c, row),
           pc'[c] = "flush" \/ input[c].key = None
    PROVE  Wrote(c, row)'
  <1>1. Change(c, row)' = Change(c, row)
    BY DEF Change
  <1>2. [Change(c, row) EXCEPT !.keys = {}] = Change(c, row)
    BY DEF Change
  <1> QED
    BY <1>1, <1>2 DEF Wrote

-----------------------------------------------------------------------------
(* Steps that write nothing: they only move the call on, or empty its      *)
(* session.                                                                *)

\* A step of call c that leaves tables and sessions alone, and does not
\* disturb an answer that c has already written about.
LEMMA Moved ==
    ASSUME IInv, NEW c \in Calls,
           UNCHANGED <<tables, input, session>>,
           TypeOK', ControlOK', AuthorisationStands',
           \A d \in Calls \ {c} : pc'[d] = pc[d] /\ answer'[d] = answer[d],
           session[c] # EmptySession =>
             answer' = answer /\ pc[c] # "flush" /\ pc'[c] # "flush",
           NotYet(c)' => NotYet(c)
    PROVE  IInv'
  <1>1. SessionsOK'
    <2> SUFFICES ASSUME NEW d \in Calls, session[d] # EmptySession
                 PROVE  \E row \in session[d].requests : Wrote(d, row)'
      BY DEF SessionsOK
    <2>1. PICK row \in session[d].requests : Wrote(d, row)
      BY DEF IInv, SessionsOK
    <2>2. /\ answer'[d] = answer[d]
          /\ pc'[d] = "flush" <=> pc[d] = "flush"
      OBVIOUS
    <2>3. Wrote(d, row)'
      BY <2>1, <2>2, WroteKept DEF tables
    <2> QED
      BY <2>3
  <1>2. NothingEarly'
    <2>1. \A d \in Calls : NotYet(d)' => NotYet(d)
      BY DEF NotYet
    <2>2. /\ \A r \in requests : r.id \in Calls
          /\ \A e \in audit \cup outbox : e.id \in Calls
      BY DEF IInv, TypeOK, Row, AuditLogEntry, OutboxEvent
    <2> QED
      BY <2>1, <2>2 DEF IInv, NothingEarly, tables
  <1>3. LocksExclusive' /\ KeysNotTaken' /\ PrimaryKeys' /\ KeysNameRequests'
    BY DEF IInv, LocksExclusive, KeysNotTaken, PrimaryKeys, KeysNameRequests,
       tables
  <1> QED
    BY <1>1, <1>2, <1>3 DEF IInv

\* A step that ends the transaction of call c and gives up what it has written.
LEMMA Dropped ==
    ASSUME IInv, NEW c \in Calls,
           UNCHANGED <<tables, input>>,
           NEW l \in {"committed", "done", "lost"}, pc' = [pc EXCEPT ![c] = l],
           session' = [session EXCEPT ![c] = EmptySession],
           answer' \in [Calls -> Answer],
           \A d \in Calls \ {c} : answer'[d] = answer[d]
    PROVE  IInv'
  <1> USE DEF IInv
  <1>0. /\ \A d \in Calls \ {c} : session'[d] = session[d] /\ pc'[d] = pc[d]
        /\ session'[c] = EmptySession
        /\ pc'[c] \in {"committed", "done", "lost"}
        /\ EmptySession \in Session
    BY DEF TypeOK, EmptySession, Session
  <1>1. TypeOK'
    BY <1>0 DEF TypeOK, tables
  <1>2. ControlOK' /\ AuthorisationStands'
    BY <1>0 DEF ControlOK, AuthorisationStands, Addressed, Authorised, tables
  <1>3. SessionsOK'
    <2> SUFFICES ASSUME NEW d \in Calls, session'[d] # EmptySession
                 PROVE  \E row \in session'[d].requests : Wrote(d, row)'
      BY DEF SessionsOK
    <2>1. d # c /\ session[d] # EmptySession
      BY <1>0
    <2>2. PICK row \in session[d].requests : Wrote(d, row)
      BY <2>1 DEF SessionsOK
    <2>3. /\ answer'[d] = answer[d]
          /\ pc'[d] = pc[d]
          /\ session'[d] = session[d]
      BY <1>0, <2>1
    <2>4. Wrote(d, row)'
      BY <2>2, <2>3, WroteKept DEF tables
    <2> QED
      BY <2>2, <2>3, <2>4
  <1>4. NothingEarly'
    <2>1. \A d \in Calls : NotYet(d)' => NotYet(d)
      BY <1>0 DEF NotYet
    <2>2. /\ \A r \in requests : r.id \in Calls
          /\ \A e \in audit \cup outbox : e.id \in Calls
      BY DEF TypeOK, Row, AuditLogEntry, OutboxEvent
    <2> QED
      BY <2>1, <2>2 DEF NothingEarly, tables
  <1>5. LocksExclusive' /\ KeysNotTaken'
    BY <1>0 DEF LocksExclusive, KeysNotTaken, EmptySession, tables
  <1>6. PrimaryKeys' /\ KeysNameRequests'
    BY DEF PrimaryKeys, KeysNameRequests, tables
  <1> QED
    BY <1>1, <1>2, <1>3, <1>4, <1>5, <1>6

-----------------------------------------------------------------------------
(* Steps that write to the session.                                        *)

\* The row that a session holds: a new one that carries the call's own name,
\* or one that is committed and pending.
LEMMA SessionRow ==
    ASSUME IInv, NEW d \in Calls, NEW r \in session[d].requests
    PROVE  /\ session[d].requests = {r}
           /\ r \in Row
           /\ Wrote(d, r)
           /\ \/ r.id = d /\ Created(d, r)
              \/ /\ r.id = input[d].target
                 /\ Decided(d, r)
                 /\ \E old \in requests : /\ old.id = r.id
                                          /\ old.status = "pending"
  <1> USE DEF IInv
  <1>1. session[d] # EmptySession
    BY DEF EmptySession
  <1>2. PICK row \in session[d].requests : Wrote(d, row)
    BY <1>1 DEF SessionsOK
  <1>3. row \in Row /\ input[d] \in Input /\ WellFormed(input[d])
    BY DEF TypeOK, Session, ControlOK
  <1>4. input[d].op # "get"
    BY <1>2 DEF Wrote, Created, Decided
  <1>5. session[d].requests = {row}
    BY <1>2, <1>3, <1>4, ChangeType DEF Wrote, Change
  <1>6. row = r
    BY <1>5
  <1>7. CASE Created(d, row)
    BY <1>2, <1>3, <1>5, <1>6, <1>7 DEF Created, NewRow
  <1>8. CASE Decided(d, row)
    <2>1. PICK old \in Addressed(d) :
            old.status = "pending" /\ row = DecidedBy(d, old)
      BY <1>8 DEF Decided
    <2>2. old \in requests /\ old \in Row /\ old.id = input[d].target
      BY DEF Addressed, TypeOK
    <2>3. row.id = old.id
      BY <2>1, <2>2 DEF DecidedBy, DecidedRow, Row
    <2> QED
      BY <1>2, <1>3, <1>5, <1>6, <1>8, <2>1, <2>2, <2>3
  <1> QED
    BY <1>2, <1>7, <1>8 DEF Wrote

\* The key that a session holds is that of its call.
LEMMA SessionKey ==
    ASSUME IInv, NEW d \in Calls, NEW k \in session[d].keys
    PROVE  \E r \in session[d].requests :
             /\ Wrote(d, r)
             /\ pc[d] # "flush"
             /\ input[d].key # None
             /\ k = KeyRowOf(d)
             /\ k.body = r
             /\ k.scope = ScopeOf(input[d])
  <1>1. session[d] # EmptySession
    BY DEF EmptySession
  <1>2. PICK r \in session[d].requests : Wrote(d, r)
    BY <1>1 DEF IInv, SessionsOK
  <1>3. /\ pc[d] # "flush"
        /\ input[d].key # None
        /\ k = KeyRowOf(d)
    BY <1>2 DEF Wrote, Change
  <1> QED
    BY <1>2, <1>3 DEF Wrote, KeyRowOf, Ok

\* The create handler's flush keeps the invariant.
LEMMA Inserted ==
    ASSUME IInv, NEW c \in Calls, InsertRequest(c)
    PROVE  IInv'
  <1> USE DEF IInv
  <1>0. PICK row : row = NewRow(c, input[c].workspace_id, input[c].user,
                               input[c].reviewers, StoredText(input[c]))
    OBVIOUS
  <1>1. /\ pc[c] = "insert" /\ pc' = [pc EXCEPT ![c] = "flush"]
        /\ session' = [session EXCEPT ![c] = Change(c, row)]
        /\ answer' = [answer EXCEPT ![c] = Ok(201, row)]
        /\ UNCHANGED <<requests, audit, outbox, keys, input>>
    BY <1>0 DEF InsertRequest, Goto, tables
  <1>2. /\ input[c] \in Input /\ WellFormed(input[c])
        /\ input[c].op = "create" /\ session[c] = EmptySession
        /\ input[c].key # None
    BY <1>1 DEF TypeOK, ControlOK, WellFormed
  <1>3. row \in Row /\ row.id = c
    BY <1>0, <1>2, NewRowType, StoredTextType DEF Input, NewRow
  <1>4. /\ Change(c, row) \in Session
        /\ Change(c, row).requests = {row}
        /\ Change(c, row).keys = {}
    BY <1>2, <1>3, ChangeType
  <1>5. /\ session'[c] = Change(c, row)
        /\ pc'[c] = "flush"
        /\ answer'[c] = Ok(201, row)
        /\ \A d \in Calls \ {c} : /\ session'[d] = session[d]
                                  /\ pc'[d] = pc[d]
                                  /\ answer'[d] = answer[d]
    BY <1>1 DEF TypeOK
  <1>6. TypeOK'
    BY <1>1, <1>3, <1>4 DEF TypeOK, Ok, Answer, Working
  <1>7. ControlOK'
    BY <1>1, <1>2, <1>4, <1>5 DEF ControlOK, EmptySession
  <1>8. AuthorisationStands'
    BY <1>1, <1>5 DEF AuthorisationStands, Addressed, Authorised
  <1>9. SessionsOK'
    <2> SUFFICES ASSUME NEW d \in Calls, session'[d] # EmptySession
                 PROVE  \E r \in session'[d].requests : Wrote(d, r)'
      BY DEF SessionsOK
    <2>1. CASE d = c
      <3>1. Wrote(c, row)'
        <4>1. Created(c, row)'
          BY <1>0, <1>1, <1>2 DEF Created
        <4> QED
          BY <1>1, <1>2, <1>5, <4>1, WroteNow
      <3> QED
        BY <2>1, <3>1, <1>4, <1>5
    <2>2. CASE d # c
      <3>1. PICK r \in session[d].requests : Wrote(d, r)
        BY <1>5, <2>2 DEF SessionsOK
      <3>2. Wrote(d, r)'
        BY <1>1, <1>5, <2>2, <3>1, WroteKept
      <3> QED
        BY <1>5, <2>2, <3>1, <3>2
    <2> QED
      BY <2>1, <2>2
  <1>10. NothingEarly'
    <2>1. \A d \in Calls : NotYet(d)' <=> NotYet(d)
      BY <1>1, <1>5 DEF NotYet
    <2>2. /\ \A r \in requests : r.id \in Calls
          /\ \A e \in audit \cup outbox : e.id \in Calls
      BY DEF TypeOK, Row, AuditLogEntry, OutboxEvent
    <2> QED
      BY <1>1, <2>1, <2>2 DEF NothingEarly
  <1>11. LocksExclusive'
    <2>1. \A d \in Calls \ {c} : \A r \in session[d].requests : r.id # c
      BY <1>1, SessionRow DEF NothingEarly, NotYet
    <2> QED
      BY <1>3, <1>4, <1>5, <2>1 DEF LocksExclusive
  <1>12. KeysNotTaken'
    BY <1>1, <1>4, <1>5 DEF KeysNotTaken
  <1>13. PrimaryKeys' /\ KeysNameRequests'
    BY <1>1 DEF PrimaryKeys, KeysNameRequests
  <1> QED
    BY <1>6, <1>7, <1>8, <1>9, <1>10, <1>11, <1>12, <1>13

\* The UPDATE that wins a pending request keeps the invariant.
LEMMA Won ==
    ASSUME IInv, NEW c \in Calls, WinTransition(c)
    PROVE  IInv'
  <1> USE DEF IInv
  <1>1. PICK old, row :
          /\ old \in Addressed(c)
          /\ old.status = "pending"
          /\ row = DecidedBy(c, old)
          /\ session' = [session EXCEPT ![c] = Change(c, row)]
          /\ answer' = [answer EXCEPT ![c] = Ok(200, row)]
    BY DEF WinTransition
  <1>2. /\ pc[c] = "update"
        /\ pc' = [pc EXCEPT ![c] = IF input[c].key = None THEN "returned"
                                                          ELSE "flush"]
        /\ \A d \in Calls : ~RowHeldBy(d, c)
        /\ UNCHANGED <<requests, audit, outbox, keys, input>>
    BY DEF WinTransition, Goto, tables
  <1>3. /\ input[c] \in Input /\ WellFormed(input[c])
        /\ input[c].op \in Op \ {"create", "get"}
        /\ session[c] = EmptySession
    BY <1>2 DEF TypeOK, ControlOK, Input
  <1>4. /\ old \in Row /\ old \in requests /\ old.id = input[c].target
        /\ row \in Row /\ row.id = old.id
    BY <1>1, <1>3, ActionType, StoredTextType, DecidedRowType
       DEF Addressed, TypeOK, DecidedBy, Input
  <1>5. Authorised(c, old)
    <2>1. PICK o \in Addressed(c) : Authorised(c, o)
      BY <1>2 DEF AuthorisationStands
    <2>2. o = old
      BY <1>1 DEF Addressed, PrimaryKeys
    <2> QED
      BY <2>1, <2>2
  <1>6. /\ Change(c, row) \in Session
        /\ Change(c, row).requests = {row}
        /\ Change(c, row).keys = {}
    BY <1>3, <1>4, ChangeType
  <1>7. /\ session'[c] = Change(c, row)
        /\ pc'[c] = IF input[c].key = None THEN "returned" ELSE "flush"
        /\ answer'[c] = Ok(200, row)
        /\ \A d \in Calls \ {c} : /\ session'[d] = session[d]
                                  /\ pc'[d] = pc[d]
                                  /\ answer'[d] = answer[d]
    BY <1>1, <1>2 DEF TypeOK
  <1>8. TypeOK'
    BY <1>1, <1>2, <1>4, <1>6 DEF TypeOK, Ok, Answer, Working
  <1>9. ControlOK'
    BY <1>2, <1>3, <1>6, <1>7 DEF ControlOK, EmptySession
  <1>10. AuthorisationStands'
    BY <1>2, <1>7 DEF AuthorisationStands, Addressed, Authorised
  <1>11. SessionsOK'
    <2> SUFFICES ASSUME NEW d \in Calls, session'[d] # EmptySession
                 PROVE  \E r \in session'[d].requests : Wrote(d, r)'
      BY DEF SessionsOK
    <2>1. CASE d = c
      <3>1. Decided(c, row)'
        BY <1>1, <1>2, <1>3, <1>5 DEF Decided, Addressed, Authorised, DecidedBy
      <3>2. Wrote(c, row)'
        BY <1>2, <1>3, <1>7, <3>1, WroteNow
      <3> QED
        BY <2>1, <3>2, <1>6, <1>7
    <2>2. CASE d # c
      <3>1. PICK r \in session[d].requests : Wrote(d, r)
        BY <1>7, <2>2 DEF SessionsOK
      <3>2. Wrote(d, r)'
        BY <1>2, <1>7, <2>2, <3>1, WroteKept
      <3> QED
        BY <1>7, <2>2, <3>1, <3>2
    <2> QED
      BY <2>1, <2>2
  <1>12. NothingEarly'
    <2>1. \A d \in Calls : NotYet(d)' <=> NotYet(d)
      BY <1>2, <1>7 DEF NotYet
    <2>2. /\ \A r \in requests : r.id \in Calls
          /\ \A e \in audit \cup outbox : e.id \in Calls
      BY DEF TypeOK, Row, AuditLogEntry, OutboxEvent
    <2> QED
      BY <1>2, <2>1, <2>2 DEF NothingEarly
  <1>13. LocksExclusive'
    <2>1. \A d \in Calls \ {c} : \A r \in session[d].requests : r.id # row.id
      BY <1>2, <1>4 DEF RowHeldBy
    <2> QED
      BY <1>6, <1>7, <2>1 DEF LocksExclusive
  <1>14. KeysNotTaken'
    BY <1>2, <1>6, <1>7 DEF KeysNotTaken
  <1>15. PrimaryKeys' /\ KeysNameRequests'
    BY <1>2 DEF PrimaryKeys, KeysNameRequests
  <1> QED
    BY <1>8, <1>9, <1>10, <1>11, <1>12, <1>13, <1>14, <1>15

\* The key joins the session's change.
LEMMA KeyStored ==
    ASSUME IInv, NEW c \in Calls, StoreKey(c)
    PROVE  IInv'
  <1> USE DEF IInv
  <1>1. /\ pc[c] = "flush" /\ pc' = [pc EXCEPT ![c] = "returned"]
        /\ session' = [session EXCEPT ![c].keys = {KeyRowOf(c)}]
        /\ \A d \in Calls : ~KeyHeldBy(d, c)
        /\ Stored(c) = {}
        /\ UNCHANGED <<requests, audit, outbox, keys, input, answer>>
    BY DEF StoreKey, Goto, tables
  <1>2. /\ input[c] \in Input /\ WellFormed(input[c])
        /\ input[c].key # None /\ session[c] # EmptySession
    BY <1>1 DEF TypeOK, ControlOK
  <1>3. PICK row \in session[c].requests : Wrote(c, row)
    BY <1>2 DEF SessionsOK
  <1>4. /\ row \in Row
        /\ input[c].op # "get"
        /\ answer[c] = Ok(IF input[c].op = "create" THEN 201 ELSE 200, row)
    BY <1>3 DEF TypeOK, Session, Wrote, Created, Decided
  <1>5. KeyRowOf(c) \in KeyRow /\ KeyRowOf(c).scope = ScopeOf(input[c])
    BY <1>2, <1>4, StoredTextType DEF KeyRowOf, KeyRow, Ok
  <1>6. /\ session'[c] = [session[c] EXCEPT !.keys = {KeyRowOf(c)}]
        /\ session'[c].keys = {KeyRowOf(c)}
        /\ session'[c].requests = session[c].requests
        /\ session'[c] \in Session
        /\ pc'[c] = "returned"
        /\ \A d \in Calls \ {c} : session'[d] = session[d] /\ pc'[d] = pc[d]
    BY <1>1, <1>5 DEF TypeOK, Session
  <1>7. TypeOK'
    BY <1>1, <1>6 DEF TypeOK
  <1>8. ControlOK'
    BY <1>1, <1>6 DEF ControlOK
  <1>9. AuthorisationStands'
    BY <1>1, <1>6 DEF AuthorisationStands, Addressed, Authorised
  <1>10. SessionsOK'
    <2> SUFFICES ASSUME NEW d \in Calls, session'[d] # EmptySession
                 PROVE  \E r \in session'[d].requests : Wrote(d, r)'
      BY DEF SessionsOK
    <2>1. CASE d = c
      <3>1. session[c] = [Change(c, row) EXCEPT !.keys = {}]
        BY <1>1, <1>3 DEF Wrote
      <3>2. session'[c] = [Change(c, row) EXCEPT !.keys = {KeyRowOf(c)}]
        BY <1>6, <3>1 DEF Change
      <3>3. Change(c, row)' = Change(c, row) /\ KeyRowOf(c)' = KeyRowOf(c)
        BY <1>1 DEF Change, KeyRowOf
      <3>4. Created(c, row)' \/ Decided(c, row)'
        BY <1>1, <1>3 DEF Wrote, Created, Decided, Addressed, Authorised,
           DecidedBy
      <3>5. Wrote(c, row)'
        BY <1>1, <1>2, <1>4, <1>6, <3>2, <3>3, <3>4 DEF Wrote
      <3> QED
        BY <1>6, <2>1, <3>5
    <2>2. CASE d # c
      <3>1. PICK r \in session[d].requests : Wrote(d, r)
        BY <1>6, <2>2 DEF SessionsOK
      <3>2. Wrote(d, r)'
        BY <1>1, <1>6, <2>2, <3>1, WroteKept
      <3> QED
        BY <1>6, <2>2, <3>1, <3>2
    <2> QED
      BY <2>1, <2>2
  <1>11. NothingEarly'
    <2>1. \A d \in Calls : NotYet(d)' <=> NotYet(d)
      BY <1>1, <1>6 DEF NotYet
    <2>2. /\ \A r \in requests : r.id \in Calls
          /\ \A e \in audit \cup outbox : e.id \in Calls
      BY DEF TypeOK, Row, AuditLogEntry, OutboxEvent
    <2> QED
      BY <1>1, <2>1, <2>2 DEF NothingEarly
  <1>12. LocksExclusive'
    BY <1>1, <1>5, <1>6 DEF LocksExclusive, KeyHeldBy
  <1>13. KeysNotTaken'
    BY <1>1, <1>5, <1>6 DEF KeysNotTaken, Stored
  <1>14. PrimaryKeys' /\ KeysNameRequests'
    BY <1>1 DEF PrimaryKeys, KeysNameRequests
  <1> QED
    BY <1>7, <1>8, <1>9, <1>10, <1>11, <1>12, <1>13, <1>14

-----------------------------------------------------------------------------
(* COMMIT.                                                                 *)

\* What a commit with something to write does to the tables: every request
\* survives, with the creator and the reviewers it had, and unchanged if it
\* was final; the row joins them or replaces its pending self.
LEMMA PublishedTables ==
    ASSUME IInv, NEW c \in Calls, NotYet(c),
           NEW row \in session[c].requests, Publish(c)
    PROVE  /\ row \in requests'
           /\ \A r \in requests' : r = row \/ (r \in requests /\ r.id # row.id)
           /\ \A r \in requests : r.id # row.id => r \in requests'
           /\ \A r \in requests : r.id = row.id =>
                /\ r.status = "pending"
                /\ Decided(c, row)
                /\ row.workspace_id = r.workspace_id
                /\ row.created_by = r.created_by
                /\ row.reviewers = r.reviewers
  <1> USE DEF IInv
  <1>1. /\ session[c].requests = {row} /\ row \in Row
        /\ \/ row.id = c
           \/ Decided(c, row)
    BY SessionRow
  <1>2. requests' = {r \in requests : r.id # row.id} \cup {row}
    BY <1>1 DEF Publish
  <1>3. ASSUME NEW r \in requests, r.id = row.id
        PROVE  /\ r.status = "pending"
               /\ Decided(c, row)
               /\ row.workspace_id = r.workspace_id
               /\ row.created_by = r.created_by
               /\ row.reviewers = r.reviewers
    <2>1. Decided(c, row)
      BY <1>1, <1>3 DEF NothingEarly
    <2>2. PICK old \in Addressed(c) :
            old.status = "pending" /\ row = DecidedBy(c, old)
      BY <2>1 DEF Decided
    <2>3. /\ old \in requests /\ old \in Row
          /\ input[c] \in Input /\ WellFormed(input[c])
          /\ input[c].op \in Op \ {"create", "get"}
      BY <2>1 DEF Addressed, TypeOK, ControlOK, Decided, Input
    <2>4. /\ row.id = old.id
          /\ row.workspace_id = old.workspace_id
          /\ row.created_by = old.created_by
          /\ row.reviewers = old.reviewers
      BY <2>2, <2>3, ActionType, StoredTextType, DecidedRowType
         DEF DecidedBy, Input
    <2>5. old = r
      BY <1>3, <2>3, <2>4 DEF PrimaryKeys
    <2> QED
      BY <2>1, <2>2, <2>4, <2>5
  <1> QED
    BY <1>2, <1>3

\* COMMIT keeps the invariant, whatever label the call moves on to.
LEMMA Published ==
    ASSUME IInv, NEW c \in Calls, pc[c] \in {"returned", "responded"},
           Publish(c), UNCHANGED input,
           NEW l \in {"committed", "done"}, pc' = [pc EXCEPT ![c] = l],
           answer' \in [Calls -> Answer],
           \A d \in Calls \ {c} : answer'[d] = answer[d]
    PROVE  IInv'
  <1> USE DEF IInv
  <1>1. CASE session[c] = EmptySession
    <2>1. /\ UNCHANGED <<tables, input>>
          /\ session' = [session EXCEPT ![c] = EmptySession]
      BY <1>1 DEF Publish, EmptySession, tables
    <2> QED
      BY <2>1, Dropped
  <1>2. CASE session[c] # EmptySession
    <2>1. PICK row \in session[c].requests : Wrote(c, row)
      BY <1>2 DEF SessionsOK
    <2>2. /\ session[c].requests = {row} /\ row \in Row
          /\ \/ row.id = c /\ Created(c, row)
             \/ row.id = input[c].target /\ Decided(c, row)
      BY SessionRow
    <2>3. /\ row \in requests'
          /\ \A r \in requests' : r = row \/ (r \in requests /\ r.id # row.id)
          /\ \A r \in requests : r.id # row.id => r \in requests'
          /\ \A r \in requests : r.id = row.id =>
               /\ r.status = "pending"
               /\ Decided(c, row)
               /\ row.workspace_id = r.workspace_id
               /\ row.created_by = r.created_by
               /\ row.reviewers = r.reviewers
      BY PublishedTables DEF NotYet
    <2>4. /\ input[c] \in Input /\ WellFormed(input[c])
          /\ input[c].op \in Op \ {"get"}
      BY <2>2 DEF TypeOK, ControlOK, Input, Created, Decided
    <2>5. /\ \A k \in keys' : k \in keys \/ k \in session[c].keys
          /\ keys \subseteq keys'
          /\ \A k \in session[c].keys : k \in keys' /\ k \in KeyRow
                                        /\ k.scope = ScopeOf(input[c])
                                        /\ k.body = row
          /\ input[c].key # None => \E k \in keys' : /\ k.body = row
                                                     /\ k.scope = ScopeOf(input[c])
      <3>1. \A k \in session[c].keys : k.scope = ScopeOf(input[c]) /\ k.body = row
        BY <2>2, SessionKey
      <3>2. session[c].keys \subseteq KeyRow
        BY DEF TypeOK, Session
      <3>3. input[c].key # None => KeyRowOf(c) \in session[c].keys
        BY <2>1 DEF Wrote, Change
      <3> QED
        BY <3>1, <3>2, <3>3 DEF Publish
    <2>6. /\ \A e \in session[c].audit \cup session[c].outbox : e.id = c
          /\ session[c].audit \subseteq AuditLogEntry
          /\ session[c].outbox \subseteq OutboxEvent
      <3>1. /\ session[c].audit = Change(c, row).audit
            /\ session[c].outbox = Change(c, row).outbox
        BY <2>1 DEF Wrote, Change
      <3> QED
        BY <2>2, <2>4, <3>1, ChangeType DEF TypeOK, Session, ControlOK
    <2>7. /\ session'[c] = EmptySession /\ EmptySession \in Session
          /\ pc'[c] \in {"committed", "done"}
          /\ \A d \in Calls \ {c} : session'[d] = session[d] /\ pc'[d] = pc[d]
      BY DEF Publish, TypeOK, EmptySession, Session
    <2>8. TypeOK'
      <3>1. requests' \subseteq Row /\ keys' \subseteq KeyRow
        BY <2>2, <2>3, <2>5 DEF TypeOK
      <3>2. audit' \subseteq AuditLogEntry /\ outbox' \subseteq OutboxEvent
        BY <2>6 DEF TypeOK, Publish
      <3>3. session' \in [Calls -> Session]
        BY <2>7 DEF TypeOK, Publish
      <3> QED
        BY <3>1, <3>2, <3>3 DEF TypeOK
    <2>9. ControlOK'
      BY <2>7 DEF ControlOK
    <2>10. AuthorisationStands'
      <3> SUFFICES ASSUME NEW d \in Calls, pc'[d] \in {"update", "conflict"}
                   PROVE  \E r \in Addressed(d)' : Authorised(d, r)'
        BY DEF AuthorisationStands
      <3>1. PICK r \in Addressed(d) : Authorised(d, r)
        BY <2>7 DEF AuthorisationStands
      <3>2. CASE r.id # row.id
        BY <2>3, <3>1, <3>2 DEF Addressed, Authorised
      <3>3. CASE r.id = row.id
        BY <2>3, <3>1, <3>3 DEF Addressed, Authorised, MayDecide, IsReviewer
      <3> QED
        BY <3>2, <3>3
    <2>11. SessionsOK'
      <3> SUFFICES ASSUME NEW d \in Calls, session'[d] # EmptySession
                   PROVE  \E r \in session'[d].requests : Wrote(d, r)'
        BY DEF SessionsOK
      <3>1. d # c /\ session'[d] = session[d] /\ pc'[d] = pc[d]
        BY <2>7
      <3>2. PICK r \in session[d].requests : Wrote(d, r)
        BY <3>1 DEF SessionsOK
      <3>3. r.id # row.id
        BY <2>1, <3>1, <3>2 DEF LocksExclusive
      <3>4. r.id = input[d].target \/ ~Decided(d, r)
        BY SessionRow, <3>2 DEF Created, Decided
      <3>5. Decided(d, r) => Decided(d, r)'
        BY <2>3, <3>3, <3>4 DEF Decided, Addressed, Authorised, DecidedBy
      <3>6. Wrote(d, r)'
        BY <3>1, <3>2, <3>5, WroteKept
      <3> QED
        BY <3>1, <3>2, <3>6
    <2>12. NothingEarly'
      <3>1. \A d \in Calls : NotYet(d)' => NotYet(d) /\ d # c
        BY <2>7 DEF NotYet
      <3>2. \A r \in requests' : r.id = c \/ \E old \in requests : old.id = r.id
        BY <2>2, <2>3 DEF Decided, Addressed
      <3>3. \A e \in (audit \cup outbox)' : e.id = c \/ e \in audit \cup outbox
        BY <2>6 DEF Publish
      <3>4. /\ \A r \in requests : r.id \in Calls
            /\ \A e \in audit \cup outbox : e.id \in Calls
        BY DEF TypeOK, Row, AuditLogEntry, OutboxEvent
      <3> QED
        BY <3>1, <3>2, <3>3, <3>4 DEF NothingEarly
    <2>13. LocksExclusive'
      BY <2>7 DEF LocksExclusive, EmptySession
    <2>14. KeysNotTaken'
      BY <2>5, <2>7 DEF KeysNotTaken, LocksExclusive, EmptySession
    <2>15. PrimaryKeys'
      <3>1. \A r, s \in requests' : r.id = s.id => r = s
        BY <2>3 DEF PrimaryKeys
      <3>2. \A k, m \in session[c].keys : k = m
        BY SessionKey
      <3>3. \A k, m \in keys' : k.scope = m.scope => k = m
        BY <2>5, <3>2 DEF PrimaryKeys, KeysNotTaken
      <3> QED
        BY <3>1, <3>3 DEF PrimaryKeys
    <2>16. KeysNameRequests'
      <3>1. ASSUME NEW r \in requests'
            PROVE  /\ input[r.id].op = "create"
                   /\ \E k \in keys' : /\ k.scope = ScopeOf(input[r.id])
                                       /\ k.body.id = r.id
        <4>1. CASE \E old \in requests : old.id = r.id
          BY <2>5, <4>1 DEF KeysNameRequests
        <4>2. CASE r = row /\ r.id = c /\ Created(c, row)
          <5>1. input[c].op = "create" /\ input[c].key # None
            BY <2>4, <4>2 DEF Created, WellFormed
          <5> QED
            BY <2>5, <4>2, <5>1
        <4> QED
          BY <2>2, <2>3, <4>1, <4>2 DEF Decided, Addressed
      <3>2. ASSUME NEW k \in keys', k.scope.op # "create"
            PROVE  \E r \in requests' : /\ r.id = k.scope.target
                                        /\ r.status # "pending"
        <4>1. CASE k \in keys
          <5>1. PICK r \in requests : r.id = k.scope.target /\ r.status # "pending"
            BY <3>2, <4>1 DEF KeysNameRequests
          <5> QED
            BY <2>3, <5>1
        <4>2. CASE k \in session[c].keys
          <5>1. /\ k.scope.op = input[c].op
                /\ k.scope.target = input[c].target
            BY <2>5, <4>2 DEF ScopeOf
          <5>2. row.id = input[c].target /\ Decided(c, row)
            BY <2>2, <3>2, <5>1 DEF Created
          <5>3. PICK old \in Addressed(c) : row = DecidedBy(c, old)
            BY <5>2 DEF Decided
          <5>4. row.status # "pending"
            BY <2>4, <3>2, <5>1, <5>3, ActionType, StoredTextType,
               DecidedRowType DEF DecidedBy, Input, Addressed, TypeOK, Decisions
          <5> QED
            BY <2>3, <5>1, <5>2, <5>4
        <4> QED
          BY <2>5, <4>1, <4>2
      <3> QED
        BY <3>1, <3>2 DEF KeysNameRequests
    <2> QED
      BY <2>8, <2>9, <2>10, <2>11, <2>12, <2>13, <2>14, <2>15, <2>16
  <1> QED
    BY <1>1, <1>2

-----------------------------------------------------------------------------
(* The invariant.                                                          *)

\* A refusal, from wherever the call is.
LEMMA Refused ==
    ASSUME IInv, NEW c \in Calls,
           NEW code \in {403, 404, 409, 500},
           NEW why \in Status \cup {"not_found", "forbidden", "reused",
                                    "busy", "error"},
           Refuse(c, code, why)
    PROVE  IInv'
  <1>1. /\ UNCHANGED <<tables, input>>
        /\ pc' = [pc EXCEPT ![c] = "done"]
        /\ session' = [session EXCEPT ![c] = EmptySession]
        /\ answer' = [answer EXCEPT ![c] = [code |-> code, why |-> why,
                                            body |-> None]]
    BY DEF Refuse, Goto
  <1>2. answer' \in [Calls -> Answer]
    BY <1>1 DEF IInv, TypeOK, Answer
  <1>3. \A d \in Calls \ {c} : answer'[d] = answer[d]
    BY <1>1 DEF IInv, TypeOK
  <1> QED
    BY <1>1, <1>2, <1>3, Dropped

\* A step that only moves call c to label l, perhaps with an answer in hand.
LEMMA MovedTo ==
    ASSUME IInv, NEW c \in Calls,
           NEW l \in {"waiting", "lookup", "insert", "read", "update",
                      "conflict", "returned", "responded", "done"},
           pc' = [pc EXCEPT ![c] = l],
           UNCHANGED <<tables, input, session>>,
           answer' = answer
             \/ \E a \in Answer : answer' = [answer EXCEPT ![c] = a],
           session[c] # EmptySession =>
             /\ answer' = answer
             /\ l \in {"returned", "responded"}
             /\ pc[c] # "flush",
           NotYet(c) \/ l = "done",
           l = "lookup" => input[c].key # None,
           l = "insert" => input[c].op = "create",
           l = "read" => input[c].op # "create",
           l \in {"update", "conflict"} =>
             /\ input[c].op \notin {"create", "get"}
             /\ \E row \in Addressed(c) : Authorised(c, row)
    PROVE  IInv'
  <1>1. /\ pc'[c] = l
        /\ \A d \in Calls \ {c} : pc'[d] = pc[d] /\ answer'[d] = answer[d]
    BY DEF IInv, TypeOK
  <1>2. TypeOK'
    BY DEF IInv, TypeOK, Working, tables
  <1>3. ControlOK'
    BY <1>1 DEF IInv, ControlOK
  <1>4. AuthorisationStands'
    BY <1>1 DEF IInv, AuthorisationStands, Addressed, Authorised, tables
  <1>5. NotYet(c)' => NotYet(c)
    BY <1>1 DEF NotYet
  <1> QED
    BY <1>1, <1>2, <1>3, <1>4, <1>5, Moved

\* The invariant holds of an empty database with no call received.
THEOREM InitInvariant == Init => IInv
  <1> SUFFICES ASSUME Init PROVE IInv
    OBVIOUS
  <1> USE DEF Init, Blank
  <1>1. /\ input \in [Calls -> Input]
        /\ \A c \in Calls : WellFormed(input[c])
    <2>1. PICK f \in [Calls -> UNION {Inputs[c] : c \in Calls}] :
            input = f /\ \A c \in Calls : f[c] \in Inputs[c]
      OBVIOUS
    <2>2. \A c \in Calls : f[c] \in Input /\ WellFormed(f[c])
      BY <2>1, InputsAssumption
    <2> QED
      BY <2>1, <2>2
  <1>2. TypeOK
    BY <1>1 DEF TypeOK, Session, EmptySession, Answer, NoAnswer
  <1>3. ControlOK
    BY <1>1 DEF ControlOK
  <1>4. AuthorisationStands /\ SessionsOK
    BY DEF AuthorisationStands, SessionsOK
  <1>5. NothingEarly /\ KeysNotTaken /\ PrimaryKeys /\ KeysNameRequests
    BY DEF NothingEarly, KeysNotTaken, PrimaryKeys, KeysNameRequests
  <1>6. LocksExclusive
    BY DEF LocksExclusive, EmptySession
  <1> QED
    BY <1>2, <1>3, <1>4, <1>5, <1>6 DEF IInv

\* Every step of every call, failures included, keeps the invariant.
THEOREM StepInvariant == IInv /\ [Next]_vars => IInv'
  <1> SUFFICES ASSUME IInv, [Next]_vars PROVE IInv'
    OBVIOUS
  <1>1. CASE UNCHANGED vars
    <2>1. TypeOK' /\ ControlOK' /\ AuthorisationStands'
      BY <1>1 DEF vars, IInv, TypeOK, ControlOK, AuthorisationStands,
         Addressed, Authorised
    <2>2. SessionsOK'
      <3> SUFFICES ASSUME NEW d \in Calls, session[d] # EmptySession
                   PROVE  \E row \in session[d].requests : Wrote(d, row)'
        BY <1>1 DEF vars, SessionsOK
      <3>1. PICK row \in session[d].requests : Wrote(d, row)
        BY DEF IInv, SessionsOK
      <3> QED
        BY <1>1, <3>1, WroteKept DEF vars
    <2>3. NothingEarly' /\ LocksExclusive' /\ KeysNotTaken' /\ PrimaryKeys'
            /\ KeysNameRequests'
      BY <1>1 DEF vars, IInv, NothingEarly, NotYet, LocksExclusive,
         KeysNotTaken, PrimaryKeys, KeysNameRequests
    <2> QED
      BY <2>1, <2>2, <2>3 DEF IInv
  <1>2. ASSUME NEW c \in Calls, Receive(c) \/ Step(c) \/ Failure(c)
        PROVE  IInv'
    <2> USE DEF IInv
    <2>0. /\ input[c] \in Input /\ WellFormed(input[c]) /\ answer[c] \in Answer
          /\ pc[c] \notin {"flush", "returned", "responded"} =>
               session[c] = EmptySession
          /\ \A r \in Addressed(c) : r \in Row
      BY DEF TypeOK, ControlOK, Addressed
    <2>1. CASE Receive(c)
      BY <2>0, <2>1, MovedTo DEF Receive, Goto, NotYet
    <2>2. CASE Begin(c)
      <3>1. FirstStep(input[c].op) = IF input[c].op = "create" THEN "insert"
                                                               ELSE "read"
        BY DEF FirstStep
      <3> QED
        BY <2>0, <2>2, <3>1, MovedTo DEF Begin, Goto, NotYet
    <2>3. CASE KeyIsNew(c)
      <3>1. FirstStep(input[c].op) = IF input[c].op = "create" THEN "insert"
                                                               ELSE "read"
        BY DEF FirstStep
      <3> QED
        BY <2>0, <2>3, <3>1, MovedTo DEF KeyIsNew, Goto, NotYet
    <2>4. CASE KeyReused(c)
      BY <2>4, Refused DEF KeyReused
    <2>5. CASE Replay(c)
      <3>1. PICK k \in Stored(c) : answer' = [answer EXCEPT ![c] = Ok(k.code, k.body)]
        BY <2>5 DEF Replay
      <3>2. Ok(k.code, k.body) \in Answer
        BY DEF Stored, TypeOK, KeyRow, Ok, Answer
      <3> QED
        BY <2>0, <2>5, <3>1, <3>2, MovedTo DEF Replay, Goto, NotYet
    <2>6. CASE StoreKey(c)
      BY <2>6, KeyStored
    <2>7. CASE KeyBusy(c)
      BY <2>7, Refused DEF KeyBusy
    <2>8. CASE InsertRequest(c)
      BY <2>8, Inserted
    <2>9. CASE RequestMissing(c)
      BY <2>9, Refused DEF RequestMissing
    <2>10. CASE GetRequest(c)
      <3>1. PICK row \in Addressed(c) : answer' = [answer EXCEPT ![c] = Ok(200, row)]
        BY <2>10 DEF GetRequest
      <3>2. Ok(200, row) \in Answer
        BY <2>0 DEF Ok, Answer
      <3> QED
        BY <2>0, <2>10, <3>1, <3>2, MovedTo DEF GetRequest, Goto, NotYet
    <2>11. CASE NotAuthorised(c)
      BY <2>11, Refused DEF NotAuthorised
    <2>12. CASE Authorise(c)
      <3>1. /\ input[c].op \notin {"create", "get"}
            /\ \E row \in Addressed(c) : Authorised(c, row)
        BY <2>12 DEF Authorise, Authorised, ControlOK
      <3> QED
        BY <2>0, <2>12, <3>1, MovedTo DEF Authorise, Goto, NotYet
    <2>13. CASE WinTransition(c)
      BY <2>13, Won
    <2>14. CASE LoseTransition(c)
      <3>1. /\ input[c].op \notin {"create", "get"}
            /\ \E row \in Addressed(c) : Authorised(c, row)
        BY <2>14 DEF LoseTransition, AuthorisationStands, ControlOK
      <3> QED
        BY <2>0, <2>14, <3>1, MovedTo DEF LoseTransition, Goto, NotYet
    <2>15. CASE ReportConflict(c)
      <3>1. PICK row \in Addressed(c) : Refuse(c, 409, row.status)
        BY <2>15 DEF ReportConflict
      <3>2. row.status \in Status
        BY <2>0 DEF Row
      <3> QED
        BY <3>1, <3>2, Refused
    <2>16. CASE Respond(c)
      <3>1. CASE ExitAfterResponse
        BY <2>16, <3>1, MovedTo DEF Respond, Goto, NotYet
      <3>2. CASE ~ExitAfterResponse
        BY <2>0, <2>16, <3>2, MovedTo DEF Respond, Goto
      <3> QED
        BY <3>1, <3>2
    <2>17. CASE Commit(c)
      <3>1. CASE ExitAfterResponse
        BY <2>17, <3>1, Published DEF Commit, Goto, TypeOK
      <3>2. CASE ~ExitAfterResponse
        BY <2>17, <3>2, Published DEF Commit, Goto, TypeOK
      <3> QED
        BY <3>1, <3>2
    <2>18. CASE Fail(c)
      BY <2>18, Refused DEF Fail
    <2>19. CASE LoseCommitAck(c)
      <3>1. [code |-> 500, why |-> "error", body |-> None] \in Answer
        BY DEF Answer
      <3>2. /\ answer' \in [Calls -> Answer]
            /\ \A d \in Calls \ {c} : answer'[d] = answer[d]
        BY <2>19, <3>1 DEF LoseCommitAck, TypeOK
      <3> QED
        BY <2>19, <3>2, Published DEF LoseCommitAck, Goto
    <2>20. CASE Crash(c)
      BY <2>20, Dropped DEF Crash, Goto, Discard, TypeOK
    <2>21. CASE LoseCommit(c)
      BY <2>21, Dropped DEF LoseCommit, Goto, Discard, TypeOK
    <2> QED
      BY <1>2, <2>1, <2>2, <2>3, <2>4, <2>5, <2>6, <2>7, <2>8, <2>9, <2>10,
         <2>11, <2>12, <2>13, <2>14, <2>15, <2>16, <2>17, <2>18, <2>19, <2>20,
         <2>21 DEF Step, Failure
  <1> QED
    BY <1>1, <1>2 DEF Next, AllEnded

\* Whatever the calls do and whatever fails, the inductive invariant holds:
\* ownership of rows and keys by the sessions, and the shape of what they
\* hold (ApprovalInvariant).
THEOREM Invariant == Spec => []IInv
  BY InitInvariant, StepInvariant, PTL DEF Spec

\* The variables keep their types.
THEOREM TypeCorrect == Spec => []TypeOK
  <1>1. IInv => TypeOK
    BY DEF IInv
  <1> QED
    BY <1>1, Invariant, PTL

\* A create is carried out at most once per key, however its retries overlap.
THEOREM CreatesAreIdempotent == Spec => []OneEffectPerKey
  <1>1. IInv => OneEffectPerKey
    BY DEF IInv, OneEffectPerKey, KeysNameRequests, PrimaryKeys
  <1> QED
    BY <1>1, Invariant, PTL

\* Two transactions never wait for each other, whatever locks they need: the
\* one that is waited for is not waiting.
THEOREM NoWaitingChains == Spec => []WaitersAreNotWaitedFor
  <1>1. IInv => WaitersAreNotWaitedFor
    <2> SUFFICES ASSUME IInv, NEW c \in Calls, NEW d \in Calls, NEW e \in Calls,
                        Waits(c, d), Waits(d, e)
                 PROVE  FALSE
      BY DEF WaitersAreNotWaitedFor
    <2> USE DEF IInv
    <2>1. session[d] # EmptySession
      BY DEF Waits, RowHeldBy, KeyHeldBy, EmptySession
    <2>2. pc[d] = "flush" /\ KeyHeldBy(e, d)
      BY <2>1 DEF Waits, ControlOK
    <2>3. PICK s \in session[d].requests : Wrote(d, s)
      BY <2>1 DEF SessionsOK
    <2>4. session[d].keys = {}
      BY <2>2, <2>3 DEF Wrote, Change
    <2>5. pc[c] = "update" /\ RowHeldBy(d, c)
      BY <2>4 DEF Waits, KeyHeldBy
    <2>6. PICK r \in Addressed(c) : Authorised(c, r)
      BY <2>5 DEF AuthorisationStands
    <2>7. s.id = input[c].target /\ r \in requests /\ r.id = s.id
      <3>1. session[d].requests = {s}
        BY SessionRow
      <3> QED
        BY <2>5, <2>6, <3>1 DEF RowHeldBy, Addressed
    <2>8. s.id = input[d].target /\ Decided(d, s)
      BY <2>2, <2>7, SessionRow DEF NothingEarly, NotYet
    <2>9. PICK k \in session[e].keys : k.scope = ScopeOf(input[d])
      BY <2>2 DEF KeyHeldBy
    <2>10. PICK t \in session[e].requests :
             Wrote(e, t) /\ k.scope = ScopeOf(input[e])
      BY SessionKey
    <2>11. input[e].op = input[d].op /\ input[e].target = input[d].target
      BY <2>9, <2>10 DEF ScopeOf
    <2>12. t.id = input[e].target
      BY <2>8, <2>11, SessionRow DEF Created, Decided
    <2>13. e # d
      BY <2>2 DEF KeyHeldBy
    <2> QED
      BY <2>8, <2>11, <2>12, <2>13 DEF LocksExclusive
  <1> QED
    BY <1>1, Invariant, PTL

-----------------------------------------------------------------------------
(* What a step does to the tables.                                         *)

\* A step either leaves the tables alone or commits one session that has
\* something to write.
LEMMA TablesStep ==
    ASSUME IInv, [Next]_vars
    PROVE  /\ input' = input
           /\ \/ UNCHANGED <<requests, audit, outbox, keys>>
              \/ \E c \in Calls : /\ NotYet(c) /\ pc[c] # "flush"
                                  /\ session[c] # EmptySession
                                  /\ Publish(c)
  <1>1. ASSUME NEW c \in Calls, Publish(c), pc[c] \in {"returned", "responded"}
        PROVE  \/ UNCHANGED <<requests, audit, outbox, keys>>
               \/ /\ NotYet(c) /\ pc[c] # "flush"
                  /\ session[c] # EmptySession
                  /\ Publish(c)
    <2>1. NotYet(c) /\ pc[c] # "flush"
      BY <1>1 DEF NotYet
    <2>2. CASE session[c] = EmptySession
      <3>1. UNCHANGED <<requests, audit, outbox, keys>>
        BY <1>1, <2>2 DEF Publish, EmptySession, tables
      <3> QED
        BY <3>1
    <2> QED
      BY <1>1, <2>1, <2>2
  <1>2. ASSUME NEW c \in Calls, Receive(c) \/ Step(c) \/ Failure(c)
        PROVE  /\ input' = input
               /\ \/ UNCHANGED <<requests, audit, outbox, keys>>
                  \/ /\ Publish(c)
                     /\ pc[c] \in {"returned", "responded"}
    <2>1. CASE Commit(c) \/ LoseCommitAck(c)
      BY <2>1 DEF Commit, LoseCommitAck
    <2>2. CASE KeyReused(c) \/ KeyBusy(c) \/ RequestMissing(c)
                 \/ NotAuthorised(c) \/ ReportConflict(c) \/ Fail(c)
      <3>1. UNCHANGED <<requests, audit, outbox, keys, input>>
        BY <2>2 DEF KeyReused, KeyBusy, RequestMissing, NotAuthorised,
           ReportConflict, Fail, Refuse, tables
      <3> QED
        BY <3>1
    <2>3. CASE Crash(c) \/ LoseCommit(c)
      <3>1. UNCHANGED <<requests, audit, outbox, keys, input>>
        BY <2>3 DEF Crash, LoseCommit, Discard, tables
      <3> QED
        BY <3>1
    <2>4. CASE Receive(c) \/ Begin(c) \/ KeyIsNew(c) \/ Authorise(c)
                 \/ LoseTransition(c) \/ Respond(c)
      <3>1. UNCHANGED <<requests, audit, outbox, keys, input>>
        BY <2>4 DEF Receive, Begin, KeyIsNew, Authorise, LoseTransition, Respond,
           tables
      <3> QED
        BY <3>1
    <2>5. CASE Replay(c) \/ StoreKey(c) \/ InsertRequest(c) \/ GetRequest(c)
                 \/ WinTransition(c)
      <3>1. UNCHANGED <<requests, audit, outbox, keys, input>>
        BY <2>5 DEF Replay, StoreKey, InsertRequest, GetRequest, WinTransition,
           tables
      <3> QED
        BY <3>1
    <2> QED
      BY <1>2, <2>1, <2>2, <2>3, <2>4, <2>5 DEF Step, Failure
  <1>3. CASE UNCHANGED vars
    BY <1>3 DEF vars, tables
  <1> QED
    BY <1>1, <1>2, <1>3 DEF Next, AllEnded

\* A decision is final: status, decider, comment and reason stay, whoever
\* decides again at the same time, and no request is lost.
THEOREM DecidedForGood == Spec => FinalIsForever
  <1>1. ASSUME IInv, [Next]_vars
        PROVE  RequestsStay
    <2>1. CASE UNCHANGED <<requests, audit, outbox, keys>>
      BY <2>1 DEF RequestsStay
    <2>2. ASSUME NEW c \in Calls, NotYet(c), session[c] # EmptySession,
                 Publish(c)
          PROVE  RequestsStay
      <3>1. PICK row \in session[c].requests : Wrote(c, row)
        BY <1>1, <2>2 DEF IInv, SessionsOK
      <3> QED
        BY <1>1, <2>2, <3>1, PublishedTables DEF RequestsStay
    <2> QED
      BY <1>1, <2>1, <2>2, TablesStep
  <1> QED
    BY <1>1, Invariant, PTL DEF Spec, FinalIsForever

-----------------------------------------------------------------------------
(* The service implements the ledger.                                      *)

\* The commit of a create is the ledger's CreateRequest, named by the call.
LEMMA CommitCreates ==
    ASSUME IInv, NEW c \in Calls, NotYet(c), Publish(c),
           NEW row \in session[c].requests, Wrote(c, row), Created(c, row)
    PROVE  L!CreateSome
  <1> USE DEF IInv
  <1>1. /\ input[c] \in Input /\ WellFormed(input[c])
        /\ input[c].op = "create" /\ Action(input[c].op) = "created"
        /\ StoredText(input[c]) \in Texts
    BY StoredTextType, ActionType DEF TypeOK, ControlOK, Created, Input
  <1>2. /\ row = L!NewRow(c, input[c].workspace_id, input[c].user,
                          input[c].reviewers, StoredText(input[c]))
        /\ row.id = c
    BY DEF Created, NewRow, L!NewRow
  <1>3. session[c].requests = {row}
    BY SessionRow
  <1>4. \A r \in requests : r.id # c
    BY DEF NothingEarly
  <1>5. requests' = requests \cup {row}
    BY <1>2, <1>3, <1>4 DEF Publish
  <1>6. /\ session[c].audit = {L!AuditEntryOf(c, row, input[c].user, "created",
                                              StoredText(input[c]))}
        /\ session[c].outbox = {L!OutboxEventOf(c, row, "created")}
    BY <1>1 DEF Wrote, Change, AuditEntryOf, OutboxEventOf, L!AuditEntryOf,
       L!OutboxEventOf
  <1>7. L!Record(c, row, input[c].user, "created", StoredText(input[c]))
    BY <1>6 DEF L!Record, Publish, NothingEarly
  <1>8. L!CreateRequest(c, input[c].workspace_id, input[c].user,
                        input[c].reviewers, StoredText(input[c]))
    BY <1>2, <1>4, <1>5, <1>7 DEF L!CreateRequest
  <1> QED
    BY <1>1, <1>8 DEF L!CreateSome, Input

\* The commit of a decision is the ledger's DecideRequest.
LEMMA CommitDecides ==
    ASSUME IInv, NEW c \in Calls, NotYet(c), Publish(c),
           NEW row \in session[c].requests, Wrote(c, row), Decided(c, row)
    PROVE  L!DecideSome
  <1> USE DEF IInv
  <1>1. PICK old \in Addressed(c) : /\ old.status = "pending"
                                    /\ Authorised(c, old)
                                    /\ row = DecidedBy(c, old)
    BY DEF Decided
  <1>2. /\ input[c] \in Input /\ WellFormed(input[c])
        /\ input[c].op \in Op \ {"create", "get"}
        /\ Action(input[c].op) \in Decisions
        /\ StoredText(input[c]) \in Texts \cup {None}
        /\ Action(input[c].op) # "approved" => StoredText(input[c]) # None
    <2>1. input[c] \in Input /\ WellFormed(input[c])
      BY DEF TypeOK, ControlOK
    <2>2. input[c].op \in Op \ {"create", "get"}
      BY <2>1 DEF Decided, Input
    <2>3. Action(input[c].op) # "approved" => input[c].op \in {"reject", "cancel"}
      BY <2>2 DEF Op, Action
    <2> QED
      BY <2>1, <2>2, <2>3, ActionType, StoredTextType, NoneAssumption
  <1>3. old \in requests /\ old \in Row
    BY DEF Addressed, TypeOK
  <1>4. /\ row = L!DecidedRow(old, Action(input[c].op), input[c].user,
                              StoredText(input[c]))
        /\ row.id = old.id
        /\ L!MayDecide(old, Action(input[c].op), input[c].user)
    <2>1. input[c].user \in Users
      BY <1>2 DEF Input
    <2>2. row.id = old.id
      BY <1>1, <1>2, <1>3, <2>1, DecidedRowType DEF DecidedBy
    <2>3. row = L!DecidedRow(old, Action(input[c].op), input[c].user,
                             StoredText(input[c]))
      BY <1>1 DEF DecidedBy, DecidedRow, L!DecidedRow
    <2>4. L!MayDecide(old, Action(input[c].op), input[c].user)
      BY <1>1 DEF Authorised, MayDecide, IsReviewer, L!MayDecide, L!IsReviewer
    <2> QED
      BY <2>2, <2>3, <2>4
  <1>5. session[c].requests = {row}
    BY SessionRow
  <1>6. requests' = (requests \ {old}) \cup {row}
    <2>1. \A r \in requests : r.id # row.id <=> r # old
      BY <1>3, <1>4 DEF PrimaryKeys
    <2> QED
      BY <1>5, <2>1 DEF Publish
  <1>7. /\ session[c].audit = {L!AuditEntryOf(c, row, input[c].user,
                                 Action(input[c].op), StoredText(input[c]))}
        /\ session[c].outbox = {L!OutboxEventOf(c, row, Action(input[c].op))}
    BY DEF Wrote, Change, AuditEntryOf, OutboxEventOf, L!AuditEntryOf,
       L!OutboxEventOf
  <1>8. L!Record(c, row, input[c].user, Action(input[c].op),
                 StoredText(input[c]))
    BY <1>7 DEF L!Record, Publish, NothingEarly
  <1>9. L!DecideRequest(c, old, Action(input[c].op), input[c].user,
                        StoredText(input[c]))
    BY <1>1, <1>2, <1>4, <1>6, <1>8 DEF L!DecideRequest
  <1> QED
    BY <1>2, <1>3, <1>9 DEF L!DecideSome, L!Decisions, Decisions, Input

\* Every behaviour of the service, seen through its committed tables, is a
\* behaviour of the ledger: a decision and its two trail entries, or a create
\* and its two, appear in one step, and nothing else ever appears.
THEOREM ServiceImplementsLedger == Spec => ImplementsLedger
  <1>1. Init => L!LedgerInit
    BY DEF Init, Blank, L!LedgerInit
  <1>2. IInv /\ [Next]_vars => [L!LedgerNext]_(L!ledger)
    <2> SUFFICES ASSUME IInv, [Next]_vars
                 PROVE  [L!LedgerNext]_(L!ledger)
      OBVIOUS
    <2>1. CASE UNCHANGED <<requests, audit, outbox, keys>>
      BY <2>1 DEF L!ledger
    <2>2. ASSUME NEW c \in Calls, NotYet(c), session[c] # EmptySession,
                 Publish(c)
          PROVE  L!LedgerNext
      <3>1. PICK row \in session[c].requests : Wrote(c, row)
        BY <2>2 DEF IInv, SessionsOK
      <3>2. CASE Created(c, row)
        BY <2>2, <3>1, <3>2, CommitCreates DEF L!LedgerNext
      <3>3. CASE Decided(c, row)
        BY <2>2, <3>1, <3>3, CommitDecides DEF L!LedgerNext
      <3> QED
        BY <3>1, <3>2, <3>3 DEF Wrote
    <2> QED
      BY <2>1, <2>2, TablesStep
  <1> QED
    BY <1>1, <1>2, Invariant, PTL DEF Spec, ImplementsLedger, L!LedgerSpec

-----------------------------------------------------------------------------
(* Idempotency keys.                                                       *)

\* An idempotency row and the change it answers for are never one without
\* the other: "the two can never disagree" (DESIGN.md).
THEOREM KeysAndEffectsTogether == Spec => []KeyStoredWithEffect
  <1>1. Init => KeyStoredWithEffect
    BY DEF Init, Blank, KeyStoredWithEffect
  <1>2. IInv /\ KeyStoredWithEffect /\ [Next]_vars => KeyStoredWithEffect'
    <2> SUFFICES ASSUME IInv, KeyStoredWithEffect, [Next]_vars
                 PROVE  KeyStoredWithEffect'
      OBVIOUS
    <2>0. input' = input
      BY TablesStep
    <2>1. CASE UNCHANGED <<requests, audit, outbox, keys>>
      BY <2>0, <2>1 DEF KeyStoredWithEffect
    <2>2. ASSUME NEW c \in Calls, NotYet(c), pc[c] # "flush",
                 session[c] # EmptySession, Publish(c)
          PROVE  KeyStoredWithEffect'
      <3>1. PICK row \in session[c].requests : Wrote(c, row)
        BY <2>2 DEF IInv, SessionsOK
      <3>2. PICK entry : /\ session[c].audit = {entry}
                         /\ entry.id = c /\ entry.request = row.id
        <4>1. session[c].audit = {AuditEntryOf(c, row, input[c].user,
                                    Action(input[c].op), StoredText(input[c]))}
          BY <3>1 DEF Wrote, Change
        <4>2. /\ AuditEntryOf(c, row, input[c].user, Action(input[c].op),
                              StoredText(input[c])).id = c
              /\ AuditEntryOf(c, row, input[c].user, Action(input[c].op),
                              StoredText(input[c])).request = row.id
          BY DEF AuditEntryOf
        <4> QED
          BY <4>1, <4>2
      <3>3. \A k \in session[c].keys : /\ k.scope = ScopeOf(input[c])
                                       /\ k.fingerprint = Fingerprint(input[c])
                                       /\ k.body.id = row.id
        <4>1. session[c].requests = {row}
          BY <3>1, SessionRow
        <4> QED
          BY <4>1, SessionKey DEF KeyRowOf
      <3>4. input[c].key # None => session[c].keys # {} \/ pc[c] = "flush"
        BY <3>1 DEF Wrote, Change
      <3> QED
        BY <2>0, <2>2, <3>2, <3>3, <3>4 DEF KeyStoredWithEffect, Publish
    <2> QED
      BY <2>1, <2>2, TablesStep
  <1> QED
    BY <1>1, <1>2, Invariant, PTL DEF Spec

\* Only creates collide at a key: of two decisions under one key, the second
\* finds the request decided before it gets there.
THEOREM DecisionsNeverBusy == Spec => []OnlyCreatesRaceOnKeys
  <1>1. Init => OnlyCreatesRaceOnKeys
    BY DEF Init, Blank, OnlyCreatesRaceOnKeys, NoAnswer
  <1>2. ASSUME IInv, NEW c \in Calls, KeyBusy(c)
        PROVE  input[c].op = "create"
    <2> USE DEF IInv
    <2> SUFFICES ASSUME input[c].op # "create" PROVE FALSE
      OBVIOUS
    <2>1. PICK k \in keys : k.scope = ScopeOf(input[c])
      BY <1>2 DEF KeyBusy, Stored
    <2>2. PICK r \in requests : r.id = input[c].target /\ r.status # "pending"
      BY <2>1, <1>2 DEF KeysNameRequests, ScopeOf
    <2>3. session[c] # EmptySession
      BY <1>2 DEF KeyBusy, ControlOK
    <2>4. PICK row \in session[c].requests : Wrote(c, row)
      BY <1>2, <2>3 DEF SessionsOK
    <2>5. PICK old \in Addressed(c) : old.status = "pending"
      BY <2>4 DEF Wrote, Created, Decided
    <2> QED
      BY <1>2, <2>2, <2>5 DEF Addressed, PrimaryKeys
  <1>3. IInv /\ OnlyCreatesRaceOnKeys /\ [Next]_vars => OnlyCreatesRaceOnKeys'
    <2> SUFFICES ASSUME IInv, OnlyCreatesRaceOnKeys, [Next]_vars,
                        NEW d \in Calls, answer'[d].why = "busy"
                 PROVE  input'[d].op = "create"
      BY DEF OnlyCreatesRaceOnKeys
    <2>0. input' = input /\ answer \in [Calls -> Answer]
      BY TablesStep DEF IInv, TypeOK
    <2>1. CASE answer'[d] = answer[d]
      BY <2>0, <2>1 DEF OnlyCreatesRaceOnKeys
    <2>2. CASE KeyBusy(d)
      BY <1>2, <2>0, <2>2
    <2>3. ASSUME NEW c \in Calls, Receive(c) \/ Step(c) \/ Failure(c)
          PROVE  answer'[d] = answer[d] \/ KeyBusy(d) \/ answer'[d].why # "busy"
      <3>1. CASE Replay(c) \/ InsertRequest(c) \/ GetRequest(c)
                   \/ WinTransition(c)
        BY <2>0, <3>1 DEF Replay, InsertRequest, GetRequest, WinTransition, Ok
      <3>2. CASE KeyReused(c) \/ KeyBusy(c) \/ RequestMissing(c)
                   \/ NotAuthorised(c) \/ Fail(c)
        BY <2>0, <3>2 DEF KeyReused, RequestMissing, NotAuthorised, Fail,
           Refuse, KeyBusy
      <3>3. CASE ReportConflict(c)
        <4>1. PICK row \in Addressed(c) : Refuse(c, 409, row.status)
          BY <3>3 DEF ReportConflict
        <4>2. row.status \in Status
          BY DEF Addressed, IInv, TypeOK, Row
        <4> QED
          BY <2>0, <4>1, <4>2 DEF Refuse, Status, Decisions
      <3>4. CASE LoseCommitAck(c)
        BY <2>0, <3>4 DEF LoseCommitAck
      <3>5. CASE Receive(c) \/ Begin(c) \/ KeyIsNew(c) \/ StoreKey(c)
                   \/ Authorise(c) \/ LoseTransition(c) \/ Respond(c)
                   \/ Commit(c)
        BY <3>5 DEF Receive, Begin, KeyIsNew, StoreKey, Authorise,
           LoseTransition, Respond, Commit
      <3>6. CASE Crash(c) \/ LoseCommit(c)
        BY <3>6 DEF Crash, LoseCommit, Discard
      <3> QED
        BY <2>3, <3>1, <3>2, <3>3, <3>4, <3>5, <3>6 DEF Step, Failure
    <2>4. UNCHANGED vars => answer' = answer
      BY DEF vars
    <2> QED
      BY <2>1, <2>2, <2>3, <2>4 DEF Next, AllEnded
  <1> QED
    BY <1>1, <1>3, Invariant, PTL DEF Spec

=============================================================================
