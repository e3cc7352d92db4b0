--------------------------- MODULE SchemaMigration ---------------------------
(***************************************************************************)
(* What starting containers promises: the schema appears once and whole,   *)
(* and nobody serves before it is there.                                   *)
(***************************************************************************)

CONSTANTS
    Containers,
    Whole        \* the schema after the last revision

VARIABLES
    schema,      \* what the database has
    serving      \* the containers that run uvicorn

\* The volume of an earlier installation may be there already.
MigrationInit == schema \in {{}, Whole} /\ serving = {}

\* One container migrates; it serves, unless it does not hear of its success.
Migrate(c) ==
    /\ schema = {}
    /\ schema' = Whole
    /\ serving' \in {serving, serving \cup {c}}

Serve(c) ==
    /\ schema = Whole
    /\ serving' = serving \cup {c}
    /\ UNCHANGED schema

Stop(c) ==
    /\ serving' = serving \ {c}
    /\ UNCHANGED schema

MigrationSpec ==
    /\ MigrationInit
    /\ [][\E c \in Containers : Migrate(c) \/ Serve(c) \/ Stop(c)]_<<schema, serving>>

=============================================================================
