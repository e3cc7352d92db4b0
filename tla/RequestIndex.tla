----------------------------- MODULE RequestIndex -----------------------------
(***************************************************************************)
(* The part of approval_requests that a list reads: who owns a request and *)
(* what its status is.  A request appears pending and is decided at most   *)
(* once.  LedgerIndex shows that ApprovalLedger implements this, so that   *)
(* a reader composed with it is composed with the service.                 *)
(***************************************************************************)
EXTENDS ApprovalDomain

VARIABLE index

Entry == [id : Calls, workspace_id : Workspaces, status : Status]

IndexInit == index = {}

\* create_request committed a request.
Appear(n, workspace) ==
    /\ \A e \in index : e.id # n
    /\ index' = index \cup
         {[id |-> n, workspace_id |-> workspace, status |-> "pending"]}

\* A decision committed.
Decide(e, decision) ==
    /\ e.status = "pending"
    /\ index' = (index \ {e}) \cup {[e EXCEPT !.status = decision]}

IndexNext ==
    \/ \E n \in Calls, workspace \in Workspaces : Appear(n, workspace)
    \/ \E e \in index, decision \in Decisions : Decide(e, decision)

IndexSpec == IndexInit /\ [][IndexNext]_index

=============================================================================
