------------------------------ MODULE MCStartup ------------------------------
(***************************************************************************)
(* An instance of Startup for TLC: the revision 1fe27f129dda.              *)
(***************************************************************************)
EXTENDS Startup

MCObjects == << "alembic_version", "approval_requests", "idempotency_keys",
                "approval_request_reviewers", "audit_log_entries",
                "outbox_events", "1fe27f129dda" >>

=============================================================================
