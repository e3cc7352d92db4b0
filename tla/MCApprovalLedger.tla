--------------------------- MODULE MCApprovalLedger ---------------------------
(***************************************************************************)
(* An instance of ApprovalLedger for TLC: three changes, so that one       *)
(* request can be created and decided next to another one.                 *)
(***************************************************************************)
EXTENDS LedgerIndex

CONSTANTS n1, n2, n3, w1, alice, bob, t1

=============================================================================
