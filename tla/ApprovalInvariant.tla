-------------------------- MODULE ApprovalInvariant --------------------------
(***************************************************************************)
(* The inductive invariant of ApprovalService: what is true between any    *)
(* two statements of any calls, and is strong enough to prove the safety   *)
(* properties (ApprovalServiceProofs).                                     *)
(***************************************************************************)
EXTENDS ApprovalService

\* Where the code of each operation can be.
ControlOK ==
    \A c \in Calls :
        /\ WellFormed(input[c])
        /\ pc[c] \in {"lookup", "flush"} => input[c].key # None
        /\ pc[c] = "insert" => input[c].op = "create"
        /\ pc[c] = "read" => input[c].op # "create"
        /\ pc[c] \in {"update", "conflict"} =>
             input[c].op \notin {"create", "get"}
        /\ pc[c] = "flush" => session[c] # EmptySession
        /\ pc[c] \notin {"flush", "returned", "responded"} =>
             session[c] = EmptySession

\* The check that let a decision through still stands: neither the creator
\* nor the reviewers of a request ever change.
Authorised(c, row) == MayDecide(row, Action(input[c].op), input[c].user)

AuthorisationStands ==
    \A c \in Calls : pc[c] \in {"update", "conflict"} =>
        \E row \in Addressed(c) : Authorised(c, row)

\* What a call that has written something has written: either the request it
\* creates, or its decision of a request that is pending for everybody else.
Created(c, row) ==
    /\ input[c].op = "create"
    /\ row = NewRow(c, input[c].workspace_id, input[c].user,
                    input[c].reviewers, StoredText(input[c]))

Decided(c, row) ==
    /\ input[c].op \notin {"create", "get"}
    /\ \E old \in Addressed(c) :
         /\ old.status = "pending"
         /\ Authorised(c, old)
         /\ row = DecidedBy(c, old)

Wrote(c, row) ==
    /\ Created(c, row) \/ Decided(c, row)
    /\ answer[c] = Ok(IF input[c].op = "create" THEN 201 ELSE 200, row)
    /\ session[c] = [Change(c, row) EXCEPT !.keys =
         IF pc[c] = "flush" \/ input[c].key = None THEN {} ELSE {KeyRowOf(c)}]

SessionsOK ==
    \A c \in Calls :
        session[c] # EmptySession =>
            \E row \in session[c].requests : Wrote(c, row)

\* Nothing is published under the name of a call before that call commits.
NotYet(c) == pc[c] \notin {"committed", "done", "lost"}

NothingEarly ==
    /\ \A r \in requests : ~NotYet(r.id)
    /\ \A e \in audit \cup outbox : ~NotYet(e.id)

\* Two sessions never hold the same row or the same key, and a session holds
\* no key that is committed.
LocksExclusive ==
    \A c, d \in Calls : c # d =>
        /\ \A r \in session[c].requests, s \in session[d].requests :
             r.id # s.id
        /\ \A k \in session[c].keys, m \in session[d].keys :
             k.scope # m.scope

KeysNotTaken ==
    \A c \in Calls : \A k \in session[c].keys, m \in keys : k.scope # m.scope

\* The primary keys of the two tables.
PrimaryKeys ==
    /\ \A r, s \in requests : r.id = s.id => r = s
    /\ \A k, m \in keys : k.scope = m.scope => k = m

\* Every request was created under a key that names it, and the key of a
\* decision names a request that is decided.
KeysNameRequests ==
    /\ \A r \in requests :
         /\ input[r.id].op = "create"
         /\ \E k \in keys : k.scope = ScopeOf(input[r.id]) /\ k.body.id = r.id
    /\ \A k \in keys : k.scope.op # "create" =>
         \E r \in requests : r.id = k.scope.target /\ r.status # "pending"

IInv ==
    /\ TypeOK
    /\ ControlOK
    /\ AuthorisationStands
    /\ SessionsOK
    /\ NothingEarly
    /\ LocksExclusive
    /\ KeysNotTaken
    /\ PrimaryKeys
    /\ KeysNameRequests

=============================================================================
