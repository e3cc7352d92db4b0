----------------------------- MODULE LedgerIndex -----------------------------
(***************************************************************************)
(* The ledger as a list sees it: ApprovalLedger implements RequestIndex.   *)
(***************************************************************************)
EXTENDS ApprovalLedger

\* What a list reads of a row.
Listed(row) == [ id |-> row.id, workspace_id |-> row.workspace_id,
                 status |-> row.status ]

listed == {Listed(row) : row \in requests}

I == INSTANCE RequestIndex WITH index <- listed

\* Seen through the columns that a list reads, requests appear pending, one by
\* one, and leave that status once and for good.
ImplementsIndex == I!IndexSpec

=============================================================================
