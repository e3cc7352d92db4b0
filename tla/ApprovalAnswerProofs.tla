------------------------- MODULE ApprovalAnswerProofs -------------------------
(***************************************************************************)
(* Proofs about what the answers of ApprovalService mean: which workspace  *)
(* they come from, what a refusal names, and, when the commit precedes the *)
(* response, what a success promises; and about why every call gets one.   *)
(***************************************************************************)
EXTENDS ApprovalServiceProofs, FiniteSetTheorems

-----------------------------------------------------------------------------
(* What a step leaves behind.                                              *)

\* A step belongs to one call; the others stay where they are.
LEMMA OthersStand ==
    ASSUME IInv, [Next]_vars, NEW d \in Calls
    PROVE  \/ /\ pc'[d] = pc[d]
              /\ session'[d] = session[d]
              /\ answer'[d] = answer[d]
           \/ Receive(d) \/ Step(d) \/ Failure(d)
  <1>1. CASE UNCHANGED vars
    BY <1>1 DEF vars
  <1>2. ASSUME NEW c \in Calls, c # d, Receive(c) \/ Step(c) \/ Failure(c)
        PROVE  /\ pc'[d] = pc[d]
               /\ session'[d] = session[d]
               /\ answer'[d] = answer[d]
    <2> USE DEF IInv, TypeOK, Goto, Refuse, Discard
    <2>1. CASE Receive(c) \/ Begin(c) \/ KeyIsNew(c) \/ Authorise(c)
                 \/ LoseTransition(c) \/ Respond(c)
      BY <1>2, <2>1 DEF Receive, Begin, KeyIsNew, Authorise, LoseTransition,
         Respond
    <2>2. CASE KeyReused(c) \/ KeyBusy(c) \/ RequestMissing(c)
                 \/ NotAuthorised(c) \/ ReportConflict(c) \/ Fail(c)
      BY <1>2, <2>2 DEF KeyReused, KeyBusy, RequestMissing, NotAuthorised,
         ReportConflict, Fail
    <2>3. CASE Crash(c) \/ LoseCommit(c) \/ Replay(c) \/ GetRequest(c)
      BY <1>2, <2>3 DEF Crash, LoseCommit, Replay, GetRequest
    <2>4. CASE StoreKey(c) \/ InsertRequest(c) \/ WinTransition(c)
      BY <1>2, <2>4 DEF StoreKey, InsertRequest, WinTransition
    <2>5. CASE Commit(c) \/ LoseCommitAck(c)
      BY <1>2, <2>5 DEF Commit, LoseCommitAck, Publish
    <2> QED
      BY <1>2, <2>1, <2>2, <2>3, <2>4, <2>5 DEF Step, Failure
  <1> QED
    BY <1>1, <1>2 DEF Next, AllEnded

\* Row n is what became of row r: the same request in the same workspace,
\* with the same creator and reviewers, and r itself if r was final.
Continues(n, r) ==
    /\ n.id = r.id
    /\ n.workspace_id = r.workspace_id
    /\ n.created_by = r.created_by
    /\ n.reviewers = r.reviewers
    /\ r.status # "pending" => n = r
    /\ \A b : Follows(r, b) => Follows(n, b)

\* A decision follows the pending row that it decides.
LEMMA DecisionFollows ==
    ASSUME NEW r \in Row, NEW decision, NEW u, NEW text,
           r.status = "pending", NEW b, Follows(r, b)
    PROVE  Follows(DecidedRow(r, decision, u, text), b)
  <1> DEFINE n == DecidedRow(r, decision, u, text)
  <1>1. n.id = r.id
    BY DEF DecidedRow, Row
  <1>2. b.status = "pending"
    BY DEF Follows
  <1>3. [n EXCEPT !.status = b.status, !.decided_by = b.decided_by,
                  !.comment = b.comment, !.reason = b.reason]
        = [r EXCEPT !.status = b.status, !.decided_by = b.decided_by,
                    !.comment = b.comment, !.reason = b.reason]
    BY DEF DecidedRow, Row
  <1> QED
    BY <1>1, <1>2, <1>3 DEF Follows

\* Every row is continued by every step.
LEMMA RowsContinue ==
    ASSUME IInv, [Next]_vars, NEW r \in requests
    PROVE  \E n \in requests' : Continues(n, r)
  <1> USE DEF IInv
  <1>0. Continues(r, r)
    BY DEF Continues
  <1>1. CASE UNCHANGED <<requests, audit, outbox, keys>>
    BY <1>0, <1>1
  <1>2. ASSUME NEW c \in Calls, NotYet(c), session[c] # EmptySession,
               Publish(c)
        PROVE  \E n \in requests' : Continues(n, r)
    <2>1. PICK row \in session[c].requests : Wrote(c, row)
      BY <1>2 DEF SessionsOK
    <2>2. CASE r.id # row.id
      BY <1>0, <1>2, <2>1, <2>2, PublishedTables
    <2>3. CASE r.id = row.id
      <3>1. /\ row \in requests' /\ r.status = "pending" /\ Decided(c, row)
            /\ row.workspace_id = r.workspace_id
            /\ row.created_by = r.created_by
            /\ row.reviewers = r.reviewers
        BY <1>2, <2>1, <2>3, PublishedTables
      <3>2. PICK old \in Addressed(c) : row = DecidedBy(c, old)
        BY <3>1 DEF Decided
      <3>3. old \in requests /\ old \in Row
        BY DEF Addressed, TypeOK
      <3>4. row.id = old.id
        BY <3>2, <3>3 DEF DecidedBy, DecidedRow, Row
      <3>5. old = r
        BY <2>3, <3>3, <3>4 DEF PrimaryKeys
      <3>6. \A b : Follows(r, b) => Follows(row, b)
        BY <3>1, <3>2, <3>3, <3>5, DecisionFollows DEF DecidedBy
      <3> QED
        BY <2>3, <3>1, <3>6 DEF Continues
    <2> QED
      BY <2>2, <2>3
  <1> QED
    BY <1>1, <1>2, TablesStep

\* Idempotency rows are never changed or removed.
LEMMA KeysStay ==
    ASSUME IInv, [Next]_vars
    PROVE  keys \subseteq keys'
  <1>1. ASSUME NEW c \in Calls, Publish(c)
        PROVE  keys \subseteq keys'
    BY <1>1 DEF Publish
  <1> QED
    BY <1>1, TablesStep

-----------------------------------------------------------------------------
(* Refusals.                                                               *)

\* What a refusal names is in the tables, and a lost UPDATE has seen a final
\* status.
NamesReason(c) ==
    /\ answer[c].why \in Status =>
         \E r \in Addressed(c) : r.status = answer[c].why /\ r.status # "pending"
    /\ answer[c].why = "reused" =>
         \E k \in Stored(c) : k.fingerprint # Fingerprint(input[c])
    /\ answer[c].why = "busy" => Stored(c) # {}
    /\ answer[c].why = "forbidden" =>
         \E r \in Addressed(c) :
           ~MayDecide(r, Action(input[c].op), input[c].user)

HasLost(c) ==
    pc[c] = "conflict" => \E r \in Addressed(c) : r.status # "pending"

RefusalsInv == \A c \in Calls : NamesReason(c) /\ HasLost(c)

\* A reason that a refusal can name stays.
LEMMA ReasonsStay ==
    ASSUME IInv, [Next]_vars, NEW c \in Calls
    PROVE  /\ \A s \in Decisions :
                (\E r \in Addressed(c) : r.status = s)
                  => \E r \in Addressed(c)' : r.status = s
           /\ (\E r \in Addressed(c) : r.status # "pending")
                => \E r \in Addressed(c)' : r.status # "pending"
           /\ (\E k \in Stored(c) : k.fingerprint # Fingerprint(input[c]))
                => \E k \in Stored(c)' :
                     k.fingerprint # Fingerprint(input'[c])
           /\ Stored(c) # {} => Stored(c)' # {}
           /\ (\E r \in Addressed(c) :
                 ~MayDecide(r, Action(input[c].op), input[c].user))
                => \E r \in Addressed(c)' :
                     ~MayDecide(r, Action(input'[c].op), input'[c].user)
  <1>0. input' = input
    BY TablesStep
  <1>1. Stored(c) \subseteq Stored(c)'
    BY <1>0, KeysStay DEF Stored
  <1>2. ASSUME NEW r \in Addressed(c)
        PROVE  \E n \in Addressed(c)' : Continues(n, r)
    <2>1. PICK n \in requests' : Continues(n, r)
      BY RowsContinue DEF Addressed
    <2> QED
      BY <1>0, <2>1 DEF Addressed, Continues
  <1>3. ASSUME NEW r, NEW n, Continues(n, r)
        PROVE  /\ r.status # "pending" => n = r
               /\ \A decision, u :
                    MayDecide(n, decision, u) <=> MayDecide(r, decision, u)
    BY <1>3 DEF Continues, MayDecide, IsReviewer
  <1>4. \A s \in Decisions : s # "pending"
    BY DEF Decisions
  <1>5. ASSUME NEW s \in Decisions, NEW r \in Addressed(c), r.status = s
        PROVE  \E n \in Addressed(c)' : n.status = s
    BY <1>2, <1>3, <1>4, <1>5
  <1>6. ASSUME NEW r \in Addressed(c), r.status # "pending"
        PROVE  \E n \in Addressed(c)' : n.status # "pending"
    BY <1>2, <1>3, <1>6
  <1>7. ASSUME NEW r \in Addressed(c),
               ~MayDecide(r, Action(input[c].op), input[c].user)
        PROVE  \E n \in Addressed(c)' :
                 ~MayDecide(n, Action(input'[c].op), input'[c].user)
    BY <1>0, <1>2, <1>3, <1>7
  <1> QED
    BY <1>0, <1>1, <1>5, <1>6, <1>7

\* What an answer names stays as long as the answer does.
LEMMA NamesReasonKept ==
    ASSUME IInv, [Next]_vars, NEW c \in Calls, NamesReason(c),
           answer'[c] = answer[c]
    PROVE  NamesReason(c)'
  <1>1. answer[c].why \in Status /\ answer[c].why # "pending"
        => answer[c].why \in Decisions
    BY DEF Status
  <1> QED
    BY <1>1, ReasonsStay DEF NamesReason

\* No call is turned away for a change that was never committed: whatever a
\* refusal names is in the tables, and stays there.
THEOREM RefusalsNameTheTruth == Spec => []RefusalsAreReal
  <1>1. Init => RefusalsInv
    <2> SUFFICES ASSUME Init, NEW c \in Calls
                 PROVE  NamesReason(c) /\ HasLost(c)
      BY DEF RefusalsInv
    <2>1. answer[c].why = "none" /\ pc[c] = "idle"
      BY DEF Init, Blank, NoAnswer
    <2> QED
      BY <2>1 DEF NamesReason, HasLost, Status, Decisions
  <1>2. ASSUME IInv, [Next]_vars, NEW c \in Calls, NamesReason(c), HasLost(c)
        PROVE  NamesReason(c)' /\ HasLost(c)'
    <2> USE DEF Goto, Refuse, Discard
    <2>0. /\ input' = input
          /\ answer \in [Calls -> Answer]
          /\ \E Labels : pc \in [Calls -> Labels]
      BY <1>2, TablesStep DEF IInv, TypeOK
    <2>1. CASE /\ pc'[c] = pc[c]
               /\ session'[c] = session[c]
               /\ answer'[c] = answer[c]
      BY <1>2, <2>1, NamesReasonKept, ReasonsStay DEF HasLost
    <2>2. CASE Receive(c) \/ Begin(c) \/ KeyIsNew(c) \/ StoreKey(c)
                 \/ Authorise(c) \/ Respond(c) \/ Commit(c) \/ Crash(c)
                 \/ LoseCommit(c)
      <3>1. answer'[c] = answer[c]
        BY <2>2 DEF Receive, Begin, KeyIsNew, StoreKey, Authorise, Respond,
           Commit, Crash, LoseCommit
      <3>2. pc'[c] # "conflict"
        BY <2>0, <2>2 DEF Receive, Begin, KeyIsNew, StoreKey, Authorise, Respond,
           Commit, Crash, LoseCommit, FirstStep
      <3> QED
        BY <1>2, <3>1, <3>2, NamesReasonKept DEF HasLost
    <2>3. CASE Replay(c) \/ InsertRequest(c) \/ GetRequest(c)
                 \/ WinTransition(c) \/ RequestMissing(c) \/ Fail(c)
                 \/ LoseCommitAck(c)
      <3>1. answer'[c].why \in {"ok", "not_found", "error"}
        <4>1. CASE Replay(c) \/ InsertRequest(c) \/ GetRequest(c)
                     \/ WinTransition(c)
          BY <2>0, <4>1 DEF Replay, InsertRequest, GetRequest, WinTransition, Ok
        <4>2. CASE RequestMissing(c) \/ Fail(c) \/ LoseCommitAck(c)
          BY <2>0, <4>2 DEF RequestMissing, Fail, LoseCommitAck
        <4> QED
          BY <2>3, <4>1, <4>2
      <3>2. pc'[c] # "conflict"
        BY <2>0, <2>3 DEF Replay, InsertRequest, GetRequest, WinTransition,
           RequestMissing, Fail, LoseCommitAck
      <3>3. NamesReason(c)'
        BY <3>1 DEF NamesReason, Status, Decisions
      <3> QED
        BY <3>2, <3>3 DEF HasLost
    <2>4. CASE LoseTransition(c)
      <3>1. \E r \in Addressed(c) : r.status # "pending"
        BY <1>2, <2>4 DEF IInv, AuthorisationStands, LoseTransition
      <3>2. answer'[c] = answer[c]
        BY <2>4 DEF LoseTransition
      <3> QED
        BY <1>2, <3>1, <3>2, NamesReasonKept, ReasonsStay DEF HasLost
    <2>5. CASE KeyReused(c)
      <3>1. /\ \E k \in Stored(c) : k.fingerprint # Fingerprint(input[c])
            /\ answer'[c].why = "reused" /\ pc'[c] = "done"
        BY <2>0, <2>5 DEF KeyReused
      <3> QED
        BY <1>2, <3>1, ReasonsStay DEF NamesReason, HasLost, Status, Decisions
    <2>6. CASE KeyBusy(c)
      <3>1. /\ Stored(c) # {}
            /\ answer'[c].why = "busy" /\ pc'[c] = "done"
        BY <2>0, <2>6 DEF KeyBusy
      <3> QED
        BY <1>2, <3>1, ReasonsStay DEF NamesReason, HasLost, Status, Decisions
    <2>7. CASE NotAuthorised(c)
      <3>1. /\ \E r \in Addressed(c) :
                 ~MayDecide(r, Action(input[c].op), input[c].user)
            /\ answer'[c].why = "forbidden" /\ pc'[c] = "done"
        BY <2>0, <2>7 DEF NotAuthorised
      <3> QED
        BY <1>2, <3>1, ReasonsStay DEF NamesReason, HasLost, Status, Decisions
    <2>8. CASE ReportConflict(c)
      <3>1. PICK row \in Addressed(c) : /\ pc[c] = "conflict"
                                        /\ answer'[c].why = row.status
                                        /\ pc'[c] = "done"
        BY <2>0, <2>8 DEF ReportConflict
      <3>2. row.status # "pending"
        BY <1>2, <3>1 DEF HasLost, Addressed, IInv, PrimaryKeys
      <3>3. row.status \in Decisions
        BY <1>2, <3>2 DEF Addressed, IInv, TypeOK, Row, Status
      <3>4. \E r \in Addressed(c)' : r.status = answer'[c].why
        BY <1>2, <3>1, <3>3, ReasonsStay
      <3>5. answer'[c].why \in Decisions
        BY <3>1, <3>3
      <3>6. answer'[c].why \notin {"pending", "reused", "busy", "forbidden"}
        BY <3>5 DEF Decisions
      <3> QED
        BY <3>1, <3>4, <3>6 DEF NamesReason, HasLost
    <2> QED
      BY <1>2, <2>1, <2>2, <2>3, <2>4, <2>5, <2>6, <2>7, <2>8, OthersStand
         DEF Step, Failure
  <1>3. IInv /\ RefusalsInv /\ [Next]_vars => RefusalsInv'
    BY <1>2 DEF RefusalsInv
  <1>4. RefusalsInv => RefusalsAreReal
    BY DEF RefusalsInv, NamesReason, RefusalsAreReal
  <1> QED
    BY <1>1, <1>3, <1>4, Invariant, PTL DEF Spec

-----------------------------------------------------------------------------
(* Workspaces.                                                             *)

\* What a session writes belongs to the workspace in the call's URL.
LEMMA SessionInWorkspace ==
    ASSUME IInv, NEW c \in Calls, NEW row \in session[c].requests
    PROVE  /\ row.workspace_id = input[c].workspace_id
           /\ \A e \in session[c].audit \cup session[c].outbox :
                /\ e.id = c
                /\ e.request = row.id
                /\ e.workspace_id = row.workspace_id
           /\ \A k \in session[c].keys :
                k.body.workspace_id = k.scope.workspace_id
  <1> USE DEF IInv
  <1>1. Wrote(c, row) /\ (Created(c, row) \/ Decided(c, row))
    BY SessionRow
  <1>2. ASSUME Created(c, row)
        PROVE  row.workspace_id = input[c].workspace_id
    BY <1>2 DEF Created, NewRow
  <1>3. ASSUME Decided(c, row)
        PROVE  row.workspace_id = input[c].workspace_id
    <2>1. PICK old \in Addressed(c) : row = DecidedBy(c, old)
      BY <1>3 DEF Decided
    <2>2. old \in Row /\ old.workspace_id = input[c].workspace_id
      BY DEF Addressed, TypeOK
    <2> QED
      BY <2>1, <2>2 DEF DecidedBy, DecidedRow, Row
  <1>4. row.workspace_id = input[c].workspace_id
    BY <1>1, <1>2, <1>3
  <1>5. \A e \in session[c].audit \cup session[c].outbox :
          /\ e.id = c
          /\ e.request = row.id
          /\ e.workspace_id = row.workspace_id
    BY <1>1 DEF Wrote, Change, AuditEntryOf, OutboxEventOf
  <1>6. \A k \in session[c].keys : /\ k.body = row
                                   /\ k.scope = ScopeOf(input[c])
    <2>1. session[c].requests = {row}
      BY SessionRow
    <2> QED
      BY <2>1, SessionKey
  <1> QED
    BY <1>4, <1>5, <1>6 DEF ScopeOf

ShownInWorkspace(c) ==
    answer[c].body # None =>
        answer[c].body.workspace_id = input[c].workspace_id

KeysInWorkspace ==
    \A k \in keys : k.body.workspace_id = k.scope.workspace_id

\* Neither an answer nor a trail crosses a workspace: no call, replay or
\* retry is shown a request of another workspace or writes about one.
THEOREM TenantsIsolated == Spec => []TenantIsolation
  <1> DEFINE Inv == TenantIsolation /\ KeysInWorkspace
  <1>1. Init => Inv
    BY DEF Init, Blank, NoAnswer, TenantIsolation, KeysInWorkspace
  <1>2. ASSUME IInv, Inv, [Next]_vars
        PROVE  KeysInWorkspace'
    <2>1. ASSUME NEW c \in Calls, session[c] # EmptySession, Publish(c)
          PROVE  KeysInWorkspace'
      <3>1. PICK row \in session[c].requests : Wrote(c, row)
        BY <1>2, <2>1 DEF IInv, SessionsOK
      <3> QED
        BY <1>2, <2>1, <3>1, SessionInWorkspace DEF KeysInWorkspace, Publish
    <2> QED
      BY <1>2, <2>1, TablesStep DEF KeysInWorkspace
  <1>3. ASSUME IInv, Inv, [Next]_vars, NEW e \in audit' \cup outbox'
        PROVE  \E r \in requests' :
                 /\ r.id = e.request
                 /\ r.workspace_id = e.workspace_id
                 /\ r.workspace_id = input'[e.id].workspace_id
    <2>0. input' = input
      BY <1>3, TablesStep
    <2>1. CASE e \in audit \cup outbox
      <3>1. PICK r \in requests : /\ r.id = e.request
                                  /\ r.workspace_id = e.workspace_id
                                  /\ r.workspace_id = input[e.id].workspace_id
        BY <1>3, <2>1 DEF TenantIsolation
      <3>2. PICK n \in requests' : Continues(n, r)
        BY <1>3, RowsContinue
      <3> QED
        BY <2>0, <3>1, <3>2 DEF Continues
    <2>2. ASSUME NEW c \in Calls, NotYet(c), session[c] # EmptySession,
                 Publish(c), e \in session[c].audit \cup session[c].outbox
          PROVE  \E r \in requests' :
                   /\ r.id = e.request
                   /\ r.workspace_id = e.workspace_id
                   /\ r.workspace_id = input'[e.id].workspace_id
      <3>1. PICK row \in session[c].requests : Wrote(c, row)
        BY <1>3, <2>2 DEF IInv, SessionsOK
      <3>2. row \in requests'
        BY <2>2, <3>1 DEF Publish
      <3> QED
        BY <1>3, <2>0, <2>2, <3>2, SessionInWorkspace
    <2>3. CASE UNCHANGED <<requests, audit, outbox, keys>>
      BY <2>1, <2>3
    <2> QED
      BY <1>3, <2>1, <2>2, <2>3, TablesStep DEF Publish
  <1>4. ASSUME IInv, Inv, [Next]_vars, NEW c \in Calls
        PROVE  ShownInWorkspace(c)'
    <2> USE DEF Goto, Refuse, Discard
    <2>0. /\ input' = input
          /\ answer \in [Calls -> Answer]
          /\ input[c] \in Input
      BY <1>4, TablesStep DEF IInv, TypeOK
    <2>1. ASSUME answer'[c] = answer[c]
          PROVE  ShownInWorkspace(c)'
      BY <1>4, <2>0, <2>1 DEF TenantIsolation, ShownInWorkspace
    <2>2. CASE Receive(c) \/ Begin(c) \/ KeyIsNew(c) \/ StoreKey(c)
                 \/ Authorise(c) \/ LoseTransition(c) \/ Respond(c)
                 \/ Commit(c) \/ Crash(c) \/ LoseCommit(c)
      <3>1. answer' = answer
        BY <2>2 DEF Receive, Begin, KeyIsNew, StoreKey, Authorise,
           LoseTransition, Respond, Commit, Crash, LoseCommit
      <3> QED
        BY <2>1, <3>1
    <2>3. CASE KeyReused(c) \/ KeyBusy(c) \/ RequestMissing(c)
                 \/ NotAuthorised(c) \/ ReportConflict(c) \/ Fail(c)
                 \/ LoseCommitAck(c)
      <3>1. answer'[c].body = None
        BY <2>0, <2>3 DEF KeyReused, KeyBusy, RequestMissing, NotAuthorised,
           ReportConflict, Fail, LoseCommitAck
      <3> QED
        BY <3>1 DEF ShownInWorkspace
    <2>4. CASE Replay(c)
      <3>1. PICK k \in Stored(c) : answer'[c].body = k.body
        BY <2>0, <2>4 DEF Replay, Ok
      <3>2. k.scope = ScopeOf(input[c])
        BY DEF Stored
      <3>3. k.body.workspace_id = k.scope.workspace_id
        BY <1>4 DEF Stored, KeysInWorkspace
      <3> QED
        BY <2>0, <3>1, <3>2, <3>3 DEF ShownInWorkspace, ScopeOf
    <2>5. CASE InsertRequest(c)
      BY <2>0, <2>5 DEF InsertRequest, Ok, NewRow, ShownInWorkspace
    <2>6. CASE GetRequest(c)
      BY <2>0, <2>6 DEF GetRequest, Addressed, Ok, ShownInWorkspace
    <2>7. CASE WinTransition(c)
      <3>1. PICK old \in Addressed(c) : answer'[c].body = DecidedBy(c, old)
        BY <2>0, <2>7 DEF WinTransition, Ok
      <3>2. old \in Row /\ old.workspace_id = input[c].workspace_id
        BY <1>4 DEF Addressed, IInv, TypeOK
      <3> QED
        BY <2>0, <3>1, <3>2 DEF DecidedBy, DecidedRow, Row, ShownInWorkspace
    <2> QED
      BY <1>4, <2>1, <2>2, <2>3, <2>4, <2>5, <2>6, <2>7, OthersStand
         DEF Step, Failure
  <1>5. IInv /\ Inv /\ [Next]_vars => Inv'
    BY <1>2, <1>3, <1>4 DEF TenantIsolation, ShownInWorkspace
  <1>6. Inv => TenantIsolation
    OBVIOUS
  <1> QED
    BY <1>1, <1>5, <1>6, Invariant, PTL DEF Spec

-----------------------------------------------------------------------------
(* Successes, when the commit precedes the response.                       *)

\* A success that nothing can take back: the call has nothing to commit.
Settled(c) == /\ answer[c].why = "ok"
              /\ session[c] = EmptySession
              /\ pc[c] # "lost"

\* The answer's request is in the database, and so is the key's row.
Backed(c) ==
    /\ \E r \in requests : Follows(r, answer[c].body)
    /\ input[c].key # None =>
         \E k \in Stored(c) : answer[c] = Ok(k.code, k.body)

AnswerInv(c) ==
    /\ pc[c] # "responded"
    /\ pc[c] \in {"idle", "waiting", "lookup", "read"} => answer[c].why = "none"
    /\ Settled(c) => Backed(c)

KeysFollowed == \A k \in keys : \E r \in requests : Follows(r, k.body)

SuccessInv == KeysFollowed /\ \A c \in Calls : AnswerInv(c)

\* A row follows itself.
LEMMA FollowsItself ==
    ASSUME NEW r \in Row
    PROVE  Follows(r, r)
  BY DEF Follows, Row

\* What backs an answer is continued by every step.
LEMMA BackedStays ==
    ASSUME IInv, [Next]_vars
    PROVE  /\ \A b : (\E r \in requests : Follows(r, b))
                       => \E r \in requests' : Follows(r, b)
           /\ \A c \in Calls : Backed(c) /\ answer'[c] = answer[c] => Backed(c)'
  <1>1. ASSUME NEW b, NEW r \in requests, Follows(r, b)
        PROVE  \E n \in requests' : Follows(n, b)
    BY <1>1, RowsContinue DEF Continues
  <1>2. \A c \in Calls : Stored(c) \subseteq Stored(c)'
    BY KeysStay, TablesStep DEF Stored
  <1>3. input' = input
    BY TablesStep
  <1> QED
    BY <1>1, <1>2, <1>3 DEF Backed

\* A commit backs the answer of its call.
LEMMA CommitBacks ==
    ASSUME IInv, NEW c \in Calls, NotYet(c), pc[c] # "flush",
           session[c] # EmptySession, Publish(c), UNCHANGED input,
           answer'[c] = answer[c]
    PROVE  /\ Backed(c)'
           /\ \A k \in keys' \ keys : \E r \in requests' : Follows(r, k.body)
  <1> USE DEF IInv
  <1>1. PICK row \in session[c].requests : Wrote(c, row)
    BY DEF SessionsOK
  <1>2. /\ row \in requests' /\ Follows(row, row)
        /\ session[c].requests = {row}
    BY <1>1, SessionRow, FollowsItself DEF Publish
  <1>3. answer[c].body = row /\ answer[c] = Ok(answer[c].code, answer[c].body)
    BY <1>1 DEF Wrote, Ok
  <1>4. input[c].key # None => session[c].keys = {KeyRowOf(c)}
    BY <1>1 DEF Wrote, Change
  <1>5. \A k \in session[c].keys : k.body = row
    BY <1>2, SessionKey
  <1>6. input[c].key # None => KeyRowOf(c) \in Stored(c)'
    BY <1>4 DEF Stored, KeyRowOf, Publish
  <1>7. /\ KeyRowOf(c).code = answer[c].code
        /\ KeyRowOf(c).body = answer[c].body
    BY DEF KeyRowOf
  <1> QED
    BY <1>2, <1>3, <1>5, <1>6, <1>7 DEF Backed, Publish

\* A step of a call keeps its own answer backed.
LEMMA AnswerStep ==
    ASSUME ~ExitAfterResponse, IInv, KeysFollowed, [Next]_vars,
           NEW c \in Calls, AnswerInv(c)
    PROVE  AnswerInv(c)'
  <1> USE DEF Goto, Refuse, Discard
  <1>0. /\ input' = input
        /\ answer \in [Calls -> Answer]
        /\ session \in [Calls -> Session]
        /\ \E Labels : pc \in [Calls -> Labels]
    BY TablesStep DEF IInv, TypeOK
  <1>1. ASSUME Settled(c) \/ ~Settled(c)', answer'[c] = answer[c]
        PROVE  Settled(c)' => Backed(c)'
    BY <1>1, BackedStays DEF AnswerInv
  <1>2. CASE /\ pc'[c] = pc[c]
             /\ session'[c] = session[c]
             /\ answer'[c] = answer[c]
    BY <1>1, <1>2 DEF AnswerInv, Settled
  <1>3. CASE Receive(c) \/ Begin(c) \/ KeyIsNew(c) \/ Authorise(c)
               \/ LoseTransition(c) \/ Respond(c)
    <2>1. /\ session' = session /\ answer' = answer /\ pc[c] # "lost"
      BY <1>3 DEF Receive, Begin, KeyIsNew, Authorise, LoseTransition, Respond
    <2>2. pc'[c] # "responded"
      BY <1>0, <1>3 DEF Receive, Begin, KeyIsNew, Authorise, LoseTransition,
         Respond, FirstStep
    <2>3. \/ pc[c] \in {"idle", "waiting", "lookup", "read"}
          \/ pc'[c] \notin {"idle", "waiting", "lookup", "read"}
      BY <1>0, <1>3 DEF Receive, Begin, KeyIsNew, Authorise, LoseTransition,
         Respond
    <2> QED
      BY <1>1, <2>1, <2>2, <2>3 DEF AnswerInv, Settled
  <1>4. CASE KeyReused(c) \/ KeyBusy(c) \/ RequestMissing(c)
               \/ NotAuthorised(c) \/ Fail(c) \/ LoseCommitAck(c)
    <2>1. pc'[c] = "done"
      BY <1>0, <1>4 DEF KeyReused, KeyBusy, RequestMissing, NotAuthorised, Fail,
         LoseCommitAck
    <2>2. answer'[c].why # "ok"
      BY <1>0, <1>4 DEF KeyReused, KeyBusy, RequestMissing, NotAuthorised, Fail,
         LoseCommitAck
    <2> QED
      BY <2>1, <2>2 DEF AnswerInv, Settled
  <1>5. CASE ReportConflict(c)
    <2>1. PICK row \in Addressed(c) : /\ answer'[c].why = row.status
                                      /\ pc'[c] = "done"
      BY <1>0, <1>5 DEF ReportConflict
    <2>2. row.status \in Status
      BY DEF Addressed, IInv, TypeOK, Row
    <2>3. answer'[c].why # "ok"
      BY <2>1, <2>2 DEF Status, Decisions
    <2> QED
      BY <2>1, <2>3 DEF AnswerInv, Settled
  <1>6. CASE Crash(c) \/ LoseCommit(c)
    <2>1. pc'[c] = "lost"
      BY <1>0, <1>6 DEF Crash, LoseCommit, AnswerInv
    <2> QED
      BY <2>1 DEF AnswerInv, Settled
  <1>7. CASE Replay(c)
    <2>1. PICK k \in Stored(c) : answer'[c] = Ok(k.code, k.body)
      BY <1>0, <1>7 DEF Replay
    <2>2. pc'[c] = "returned" /\ UNCHANGED <<requests, keys>>
      BY <1>0, <1>7 DEF Replay, tables
    <2>3. Backed(c)'
      BY <1>0, <2>1, <2>2 DEF Backed, Stored, KeysFollowed, Ok
    <2> QED
      BY <2>2, <2>3 DEF AnswerInv
  <1>8. CASE GetRequest(c)
    <2>1. PICK row \in Addressed(c) : answer'[c].body = row
      BY <1>0, <1>8 DEF GetRequest, Ok
    <2>2. row \in requests /\ Follows(row, row)
      BY FollowsItself DEF Addressed, IInv, TypeOK
    <2>3. pc'[c] = "returned" /\ UNCHANGED <<requests, keys>>
      BY <1>0, <1>8 DEF GetRequest, tables
    <2>4. input[c].key = None
      BY <1>8 DEF GetRequest, IInv, ControlOK, WellFormed
    <2>5. Backed(c)'
      BY <1>0, <2>1, <2>2, <2>3, <2>4 DEF Backed
    <2> QED
      BY <2>3, <2>5 DEF AnswerInv
  <1>9. CASE InsertRequest(c) \/ WinTransition(c) \/ StoreKey(c)
    <2>1. session'[c] # EmptySession
      <3>1. CASE InsertRequest(c) \/ WinTransition(c)
        BY <1>0, <3>1 DEF InsertRequest, WinTransition, Change, EmptySession
      <3>2. CASE StoreKey(c)
        BY <1>0, <3>2 DEF StoreKey, EmptySession, Session
      <3> QED
        BY <1>9, <3>1, <3>2
    <2>2. pc'[c] \in {"flush", "returned"}
      BY <1>0, <1>9 DEF InsertRequest, WinTransition, StoreKey
    <2> QED
      BY <2>1, <2>2 DEF AnswerInv, Settled
  <1>10. CASE Commit(c)
    <2>1. /\ pc[c] = "returned" /\ pc'[c] = "committed"
          /\ answer' = answer /\ Publish(c)
      BY <1>0, <1>10 DEF Commit
    <2>2. CASE session[c] = EmptySession
      BY <1>1, <2>1, <2>2 DEF AnswerInv, Settled
    <2>3. CASE session[c] # EmptySession
      <3>1. Backed(c)'
        BY <1>0, <2>1, <2>3, CommitBacks DEF NotYet
      <3> QED
        BY <2>1, <3>1 DEF AnswerInv
    <2> QED
      BY <2>2, <2>3
  <1> QED
    BY <1>2, <1>3, <1>4, <1>5, <1>6, <1>7, <1>8, <1>9, <1>10, OthersStand
       DEF Step, Failure

\* Keys name rows that are there.
LEMMA KeysFollowedStep ==
    ASSUME IInv, KeysFollowed, [Next]_vars
    PROVE  KeysFollowed'
  <1>1. ASSUME NEW c \in Calls, session[c] # EmptySession, Publish(c)
        PROVE  \A k \in keys' \ keys : \E r \in requests' : Follows(r, k.body)
    <2>1. PICK row \in session[c].requests : Wrote(c, row)
      BY <1>1 DEF IInv, SessionsOK
    <2>2. row \in requests' /\ Follows(row, row)
      BY <1>1, SessionRow, FollowsItself DEF Publish
    <2>3. \A k \in session[c].keys : k.body = row
      <3>1. session[c].requests = {row}
        BY SessionRow
      <3> QED
        BY <3>1, SessionKey
    <2> QED
      BY <1>1, <2>2, <2>3 DEF Publish
  <1>2. \A k \in keys' \ keys : \E r \in requests' : Follows(r, k.body)
    BY <1>1, TablesStep
  <1>3. \A k \in keys : \E r \in requests' : Follows(r, k.body)
    BY BackedStays DEF KeysFollowed
  <1> QED
    BY <1>2, <1>3 DEF KeysFollowed

\* The commit of a call precedes its answer, so whatever was answered with a
\* success is in the tables from then on.
THEOREM SuccessInvariant ==
    ASSUME ~ExitAfterResponse
    PROVE  Spec => [](IInv /\ SuccessInv)
  <1>1. Init => SuccessInv
    BY DEF Init, Blank, NoAnswer, SuccessInv, KeysFollowed, AnswerInv, Settled
  <1>2. IInv /\ SuccessInv /\ [Next]_vars => SuccessInv'
    BY AnswerStep, KeysFollowedStep DEF SuccessInv
  <1> QED
    BY <1>1, <1>2, Invariant, PTL DEF Spec

\* An answered success is settled.
LEMMA SucceededSettled ==
    ASSUME IInv, SuccessInv, NEW c \in Calls, Succeeded(c)
    PROVE  pc[c] = "done" /\ Settled(c) /\ Backed(c)
  <1>1. pc[c] = "done" /\ answer[c].why = "ok"
    BY DEF Succeeded, Delivered, SuccessInv, AnswerInv
  <1>2. session[c] = EmptySession
    BY <1>1 DEF IInv, ControlOK
  <1> QED
    BY <1>1, <1>2 DEF Settled, SuccessInv, AnswerInv

\* With the commit before the response, what a client was told is in the
\* database for ever.
THEOREM SuccessesAreDurable ==
    ASSUME ~ExitAfterResponse
    PROVE  Spec => []AcknowledgedIsDurable
  <1>1. IInv /\ SuccessInv => AcknowledgedIsDurable
    BY SucceededSettled DEF AcknowledgedIsDurable, Backed
  <1> QED
    BY <1>1, SuccessInvariant, PTL

\* With the commit before the response, all successful answers under a key
\* are one answer.
THEOREM OneAnswerPerKey ==
    ASSUME ~ExitAfterResponse
    PROVE  Spec => []SameKeySameAnswer
  <1>1. ASSUME IInv, SuccessInv, NEW c \in Calls, NEW d \in Calls,
               Succeeded(c), Succeeded(d), input[c].key # None,
               ScopeOf(input[c]) = ScopeOf(input[d])
        PROVE  answer[c] = answer[d]
    <2>1. input[d].key # None
      BY <1>1 DEF ScopeOf
    <2>2. PICK k \in Stored(c) : answer[c] = Ok(k.code, k.body)
      BY <1>1, SucceededSettled DEF Backed
    <2>3. PICK m \in Stored(d) : answer[d] = Ok(m.code, m.body)
      BY <1>1, <2>1, SucceededSettled DEF Backed
    <2>4. k = m
      BY <1>1 DEF Stored, IInv, PrimaryKeys
    <2> QED
      BY <2>2, <2>3, <2>4
  <1>2. IInv /\ SuccessInv => SameKeySameAnswer
    BY <1>1 DEF SameKeySameAnswer
  <1> QED
    BY <1>2, SuccessInvariant, PTL

\* With the commit before the response, a call that reads a request after a
\* success about it was delivered sees it, as it was then or later.
THEOREM ReadsSeeSuccesses ==
    ASSUME ~ExitAfterResponse
    PROVE  Spec => ReadsFollowAnswers
  <1>1. ASSUME IInv, SuccessInv, [Next]_vars, NEW c \in Calls, NEW d \in Calls,
               pc[c] = "read", answer'[c].why \in {"ok", "not_found"},
               Succeeded(d),
               answer[d].body.id = input[c].target,
               answer[d].body.workspace_id = input[c].workspace_id
        PROVE  /\ answer'[c].why = "ok"
               /\ Follows(answer'[c].body, answer[d].body)
    <2> USE DEF Goto, Refuse, Discard
    <2>0. /\ answer \in [Calls -> Answer]
          /\ answer[c].why = "none"
      BY <1>1 DEF IInv, TypeOK, SuccessInv, AnswerInv
    <2>1. PICK r \in requests : Follows(r, answer[d].body)
      BY <1>1, SucceededSettled DEF Backed
    <2>2. r \in Addressed(c)
      <3>1. r \in Row
        BY <1>1 DEF IInv, TypeOK
      <3>2. r.id = answer[d].body.id
        BY <2>1 DEF Follows
      <3>3. r.workspace_id = answer[d].body.workspace_id
        BY <2>1, <3>1 DEF Follows, Row
      <3> QED
        BY <1>1, <3>2, <3>3 DEF Addressed
    <2>3. answer'[c] # answer[c]
      BY <1>1, <2>0
    <2>4. CASE GetRequest(c)
      <3>1. PICK row \in Addressed(c) : answer'[c] = Ok(200, row)
        BY <2>0, <2>4 DEF GetRequest
      <3>2. row = r
        BY <1>1, <2>2 DEF Addressed, IInv, PrimaryKeys
      <3> QED
        BY <2>1, <3>1, <3>2 DEF Ok
    <2>5. CASE RequestMissing(c)
      BY <2>2, <2>5 DEF RequestMissing
    <2>6. CASE NotAuthorised(c) \/ Fail(c) \/ Authorise(c) \/ Crash(c)
      BY <1>1, <2>0, <2>6 DEF NotAuthorised, Fail, Authorise, Crash
    <2> QED
      BY <1>1, <2>3, <2>4, <2>5, <2>6, OthersStand
         DEF Step, Failure, Receive, Begin, KeyIsNew, KeyReused, Replay,
         StoreKey, KeyBusy, InsertRequest, WinTransition, LoseTransition,
         ReportConflict, Respond, Commit, LoseCommitAck, LoseCommit
  <1>2. ASSUME IInv, SuccessInv, [Next]_vars
        PROVE  \A c, d \in Calls :
                 /\ pc[c] = "read" /\ answer'[c].why \in {"ok", "not_found"}
                 /\ Succeeded(d)
                 /\ answer[d].body.id = input[c].target
                 /\ answer[d].body.workspace_id = input[c].workspace_id
                 => /\ answer'[c].why = "ok"
                    /\ Follows(answer'[c].body, answer[d].body)
    BY <1>1, <1>2
  <1> QED
    BY <1>2, SuccessInvariant, PTL DEF Spec, ReadsFollowAnswers

-----------------------------------------------------------------------------
(* Why calls end.                                                          *)

\* Received, and neither answered for good nor lost.
InFlight(c) == pc[c] \notin {"idle", "done", "lost"}

\* The guards of Step(c), action by action.
CanStep(c) ==
    \/ pc[c] = "waiting" /\ Cardinality(Connected) < PoolSize
    \/ /\ pc[c] = "lookup"
       /\ \/ Stored(c) = {}
          \/ \E k \in Stored(c) : k.fingerprint # Fingerprint(input[c])
          \/ \E k \in Stored(c) : k.fingerprint = Fingerprint(input[c])
    \/ pc[c] = "flush" /\ \A d \in Calls : ~KeyHeldBy(d, c)
    \/ pc[c] = "insert"
    \/ /\ pc[c] = "read"
       /\ \/ Addressed(c) = {}
          \/ input[c].op = "get" /\ Addressed(c) # {}
          \/ input[c].op # "get" /\ \E row \in Addressed(c) :
               ~MayDecide(row, Action(input[c].op), input[c].user)
          \/ input[c].op # "get" /\ \E row \in Addressed(c) :
               MayDecide(row, Action(input[c].op), input[c].user)
    \/ /\ pc[c] = "update"
       /\ \A d \in Calls : ~RowHeldBy(d, c)
       /\ \/ \E row \in Addressed(c) : row.status = "pending"
          \/ \A row \in Addressed(c) : row.status # "pending"
    \/ pc[c] = "conflict" /\ Addressed(c) # {}
    \/ pc[c] = IF ExitAfterResponse THEN "returned" ELSE "committed"
    \/ pc[c] = IF ExitAfterResponse THEN "responded" ELSE "returned"

\* While a call is in flight, one of those in flight can be served.
SomebodyCanStep ==
    (\E c \in Calls : InFlight(c)) =>
        \E c \in Calls : InFlight(c) /\ CanStep(c)

\* How far a call has come that is at label.
Stage(label) ==
    CASE label = "idle" -> 0
      [] label = "waiting" -> 1
      [] label = "lookup" -> 2
      [] label \in {"insert", "read"} -> 3
      [] label = "update" -> 4
      [] label \in {"conflict", "flush"} -> 5
      [] label = "returned" -> 6
      [] label \in {"responded", "committed"} -> 7
      [] label \in {"done", "lost"} -> 8

CallsGoForward ==
    [][\A c \in Calls : \/ pc'[c] = pc[c]
                        \/ Stage(pc'[c]) > Stage(pc[c])]_vars

\* The order of commit and response is the build's.
OrderKept ==
    \A c \in Calls : pc[c] # IF ExitAfterResponse THEN "committed"
                                                  ELSE "responded"

\* Where a step takes a call.
LEMMA StepLabels ==
    ASSUME TypeOK, NEW c \in Calls, Receive(c) \/ Step(c) \/ Failure(c)
    PROVE  \/ pc[c] = "idle" /\ pc'[c] = "waiting"
           \/ pc[c] = "waiting" /\ pc'[c] \in {"lookup", "insert", "read"}
           \/ pc[c] = "lookup" /\ pc'[c] \in {"insert", "read", "returned"}
           \/ pc[c] = "insert" /\ pc'[c] = "flush"
           \/ pc[c] = "read" /\ pc'[c] \in {"returned", "update"}
           \/ pc[c] = "update" /\ pc'[c] \in {"returned", "flush", "conflict"}
           \/ pc[c] = "flush" /\ pc'[c] = "returned"
           \/ /\ pc[c] = "returned"
              /\ pc'[c] = IF ExitAfterResponse THEN "responded" ELSE "committed"
           \/ pc[c] \notin {"idle", "done", "lost"} /\ pc'[c] \in {"done", "lost"}
  <1> USE DEF Goto, Refuse
  <1>0. \E Labels : pc \in [Calls -> Labels]
    BY DEF TypeOK
  <1>1. CASE Receive(c) \/ Begin(c) \/ KeyIsNew(c)
    BY <1>0, <1>1 DEF Receive, Begin, KeyIsNew, FirstStep
  <1>2. CASE KeyReused(c) \/ Replay(c) \/ StoreKey(c) \/ KeyBusy(c)
    BY <1>0, <1>2 DEF KeyReused, Replay, StoreKey, KeyBusy
  <1>3. CASE InsertRequest(c) \/ RequestMissing(c) \/ GetRequest(c)
    BY <1>0, <1>3 DEF InsertRequest, RequestMissing, GetRequest
  <1>4. CASE NotAuthorised(c) \/ Authorise(c) \/ ReportConflict(c)
    BY <1>0, <1>4 DEF NotAuthorised, Authorise, ReportConflict
  <1>5. CASE WinTransition(c) \/ LoseTransition(c)
    BY <1>0, <1>5 DEF WinTransition, LoseTransition
  <1>6. CASE Respond(c) \/ Commit(c)
    BY <1>0, <1>6 DEF Respond, Commit
  <1>7. CASE Fail(c) \/ LoseCommitAck(c) \/ Crash(c) \/ LoseCommit(c)
    BY <1>0, <1>7 DEF Fail, LoseCommitAck, Crash, LoseCommit, Working
  <1> QED
    BY <1>1, <1>2, <1>3, <1>4, <1>5, <1>6, <1>7 DEF Step, Failure

\* The labels that a call in flight can have.
LEMMA InFlightLabels ==
    ASSUME TypeOK, NEW c \in Calls, InFlight(c)
    PROVE  \/ pc[c] \in {"waiting", "lookup", "insert", "read", "update"}
           \/ pc[c] \in {"conflict", "flush", "returned", "responded",
                         "committed"}
  BY DEF InFlight, TypeOK, Working

\* A call in flight that can not be served waits: for a connection while all
\* are taken, or for the lock of another.
LEMMA WhoCannotStepWaits ==
    ASSUME IInv, OrderKept, NEW c \in Calls, InFlight(c), ~CanStep(c)
    PROVE  \/ pc[c] = "waiting" /\ ~(Cardinality(Connected) < PoolSize)
           \/ \E d \in Calls : Waits(c, d)
  <1> USE DEF IInv
  <1>1. CASE pc[c] \in {"waiting", "insert"}
    BY <1>1 DEF CanStep
  <1>2. CASE pc[c] = "lookup" \/ pc[c] = "read"
    BY <1>2 DEF CanStep
  <1>3. CASE pc[c] = "update" \/ pc[c] = "flush"
    BY <1>3 DEF CanStep, Waits
  <1>4. CASE pc[c] = "conflict"
    BY <1>4 DEF CanStep, AuthorisationStands
  <1>5. CASE pc[c] \in {"returned", "responded", "committed"}
    BY <1>5 DEF CanStep, OrderKept
  <1> QED
    BY <1>1, <1>2, <1>3, <1>4, <1>5, InFlightLabels

\* No call comes back to a statement it has left, so each has ended after at
\* most eight steps of its own: run_idempotent and the handlers never loop.
THEOREM CallsOnlyGoForward == Spec => CallsGoForward
  <1>1. ASSUME IInv, [Next]_vars, NEW c \in Calls
        PROVE  pc'[c] = pc[c] \/ Stage(pc'[c]) > Stage(pc[c])
    <2>1. CASE Receive(c) \/ Step(c) \/ Failure(c)
      <3>1. TypeOK
        BY <1>1 DEF IInv
      <3>2. /\ Stage("idle") = 0 /\ Stage("waiting") = 1 /\ Stage("lookup") = 2
            /\ Stage("insert") = 3 /\ Stage("read") = 3 /\ Stage("update") = 4
            /\ Stage("conflict") = 5 /\ Stage("flush") = 5
            /\ Stage("returned") = 6 /\ Stage("responded") = 7
            /\ Stage("committed") = 7 /\ Stage("done") = 8 /\ Stage("lost") = 8
        BY DEF Stage
      <3>3. pc[c] \notin {"idle", "done", "lost"} => Stage(pc[c]) \in 1..7
        BY <3>1, <3>2, InFlightLabels DEF InFlight
      <3> QED
        BY <2>1, <3>1, <3>2, <3>3, StepLabels
    <2> QED
      BY <1>1, <2>1, OthersStand
  <1>2. ASSUME IInv, [Next]_vars
        PROVE  \A c \in Calls : \/ pc'[c] = pc[c]
                                \/ Stage(pc'[c]) > Stage(pc[c])
    BY <1>1, <1>2
  <1> QED
    BY <1>2, Invariant, PTL DEF Spec, CallsGoForward

\* While a call is in flight some call can be served: neither the pool nor the
\* locks of the database ever leave everybody waiting for each other.
THEOREM NobodyIsStuck == Spec => []SomebodyCanStep
  <1>1. Init => OrderKept
    BY DEF Init, Blank, OrderKept
  <1>2. IInv /\ OrderKept /\ [Next]_vars => OrderKept'
    <2> SUFFICES ASSUME IInv, OrderKept, [Next]_vars, NEW c \in Calls
                 PROVE  pc'[c] # IF ExitAfterResponse THEN "committed"
                                                      ELSE "responded"
      BY DEF OrderKept
    <2> QED
      BY StepLabels, OthersStand DEF OrderKept, IInv
  <1>3. ASSUME IInv, WaitersAreNotWaitedFor, OrderKept,
               NEW c \in Calls, InFlight(c)
        PROVE  \E d \in Calls : InFlight(d) /\ CanStep(d)
    <2>1. ASSUME NEW d \in Calls, NEW e \in Calls, Waits(d, e)
          PROVE  InFlight(e) /\ CanStep(e)
      <3>1. session[e] # EmptySession
        BY <2>1 DEF Waits, RowHeldBy, KeyHeldBy, EmptySession
      <3>2. pc[e] \in {"flush", "returned", "responded"}
        BY <1>3, <3>1 DEF IInv, ControlOK
      <3>3. InFlight(e) /\ pc[e] # "waiting"
        BY <3>2 DEF InFlight
      <3> QED
        BY <1>3, <2>1, <3>3, WhoCannotStepWaits DEF WaitersAreNotWaitedFor
    <2>2. ASSUME NEW d \in Calls, InFlight(d), pc[d] # "waiting"
          PROVE  \E e \in Calls : InFlight(e) /\ CanStep(e)
      BY <1>3, <2>1, <2>2, WhoCannotStepWaits
    <2>3. CASE Connected = {}
      <3>1. Cardinality(Connected) < PoolSize
        BY <2>3, FS_EmptySet, PoolAssumption
      <3> QED
        BY <1>3, <2>2, <3>1 DEF CanStep
    <2>4. CASE Connected # {}
      <3>1. PICK d \in Calls : d \in Connected
        BY <2>4 DEF Connected
      <3>2. InFlight(d) /\ pc[d] # "waiting"
        BY <3>1 DEF Connected, InFlight
      <3> QED
        BY <2>2, <3>2
    <2> QED
      BY <2>3, <2>4
  <1>4. IInv /\ WaitersAreNotWaitedFor /\ OrderKept => SomebodyCanStep
    BY <1>3 DEF SomebodyCanStep
  <1> QED
    BY <1>1, <1>2, <1>4, Invariant, NoWaitingChains, PTL DEF Spec

=============================================================================
