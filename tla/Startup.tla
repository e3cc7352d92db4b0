------------------------------- MODULE Startup -------------------------------
(***************************************************************************)
(* Containers that start on one database: docker-entrypoint.sh runs        *)
(* "alembic upgrade head" and then, if that succeeded (set -e), uvicorn.   *)
(*                                                                         *)
(* Alembic runs what migrations/env.py asks for in one transaction, since  *)
(* PostgreSQL's DDL is transactional: it reads the version, makes sure of  *)
(* its version table, runs the operations of the revision, records it, and *)
(* commits.  CREATE of a name that another transaction has created and not *)
(* yet committed waits for that transaction.                               *)
(***************************************************************************)
EXTENDS Naturals, Sequences, FiniteSets

CONSTANTS
    Containers,
    Objects,       \* what the upgrade creates, in its order
    None,
    MaxStarts,     \* bound: starts of a container
    MaxFailures    \* bound: containers and connections that break

ASSUME StartupAssumption ==
    /\ Objects \in Seq(STRING)
    /\ Len(Objects) > 1
    /\ \A i, j \in DOMAIN Objects : Objects[i] = Objects[j] => i = j
    /\ None \notin {"duplicate", "failure"}
    /\ MaxStarts \in Nat
    /\ MaxFailures \in Nat

VARIABLES
    schema,        \* the objects that are committed
    created,       \* the objects that a container's transaction has created
    next,          \* the index of the object it creates next
    pc,            \* where a container is
    stopped,       \* why it stopped
    starts,
    failures

vars == <<schema, created, next, pc, stopped, starts, failures>>

-----------------------------------------------------------------------------

\* The version table comes first, the row that names the revision last.
VersionTable == Objects[1]
Revision == Objects[Len(Objects)]
Whole == {Objects[i] : i \in DOMAIN Objects}

HeldByAnother(c, object) == \E d \in Containers \ {c} : object \in created[d]

\* The container's process ends; PostgreSQL rolls its transaction back.
StopBecause(c, reason) ==
    /\ pc' = [pc EXCEPT ![c] = "stopped"]
    /\ stopped' = [stopped EXCEPT ![c] = reason]
    /\ created' = [created EXCEPT ![c] = {}]

Init ==
    /\ schema \in {{}, Whole}
    /\ created = [c \in Containers |-> {}]
    /\ next = [c \in Containers |-> 1]
    /\ pc = [c \in Containers |-> "stopped"]
    /\ stopped = [c \in Containers |-> None]
    /\ starts = [c \in Containers |-> 0]
    /\ failures = 0

\* docker compose up, once db reports healthy, or the operator again.
Start(c) ==
    /\ pc[c] = "stopped"
    /\ starts[c] < MaxStarts
    /\ pc' = [pc EXCEPT ![c] = "reading"]
    /\ starts' = [starts EXCEPT ![c] = @ + 1]
    /\ stopped' = [stopped EXCEPT ![c] = None]
    /\ UNCHANGED <<schema, created, next, failures>>

\* The database is at the head: nothing to do, and uvicorn takes over.
AtHead(c) ==
    /\ pc[c] = "reading"
    /\ Revision \in schema
    /\ pc' = [pc EXCEPT ![c] = "serving"]
    /\ UNCHANGED <<schema, created, next, stopped, starts, failures>>

NotAtHead(c) ==
    /\ pc[c] = "reading"
    /\ Revision \notin schema
    /\ pc' = [pc EXCEPT ![c] = "ensuring"]
    /\ UNCHANGED <<schema, created, next, stopped, starts, failures>>

\* Mutant of EnsureVersionTable: the operations counted from zero.
EnsureVersionTable_FromZero(c) ==
    /\ pc[c] = "ensuring"
    /\ next' = [next EXCEPT ![c] = IF VersionTable \in schema THEN 1 ELSE 0]
    /\ pc' = [pc EXCEPT ![c] = "creating"]
    /\ UNCHANGED <<schema, created, stopped, starts, failures>>

\* The version table is created if it is not there; a second look.
EnsureVersionTable(c) ==
    /\ pc[c] = "ensuring"
    /\ next' = [next EXCEPT ![c] = IF VersionTable \in schema THEN 2 ELSE 1]
    /\ pc' = [pc EXCEPT ![c] = "creating"]
    /\ UNCHANGED <<schema, created, stopped, starts, failures>>

Creating(c) == pc[c] = "creating" /\ next[c] <= Len(Objects)

\* Mutant of Create: every statement is its own transaction, as on SQLite.
Create_Autocommit(c) ==
    /\ Creating(c)
    /\ Objects[next[c]] \notin schema
    /\ schema' = schema \cup {Objects[next[c]]}
    /\ next' = [next EXCEPT ![c] = @ + 1]
    /\ UNCHANGED <<created, pc, stopped, starts, failures>>

\* Mutant of Create: the order of creation is not fixed.
Create_AnyOrder(c) ==
    /\ Creating(c)
    /\ \E object \in Whole \ (schema \cup created[c]) :
         /\ ~HeldByAnother(c, object)
         /\ created' = [created EXCEPT ![c] = @ \cup {object}]
    /\ next' = [next EXCEPT ![c] = @ + 1]
    /\ UNCHANGED <<schema, pc, stopped, starts, failures>>

\* op.create_table with its indexes, or the INSERT of the revision: waits for
\* a transaction that is creating the same.
Create(c) ==
    /\ Creating(c)
    /\ Objects[next[c]] \notin schema
    /\ ~HeldByAnother(c, Objects[next[c]])
    /\ created' = [created EXCEPT ![c] = @ \cup {Objects[next[c]]}]
    /\ next' = [next EXCEPT ![c] = @ + 1]
    /\ UNCHANGED <<schema, pc, stopped, starts, failures>>

\* Mutant of Duplicate: a held name fails as a committed one does.
Duplicate_NoWait(c) ==
    /\ Creating(c)
    /\ \/ Objects[next[c]] \in schema
       \/ HeldByAnother(c, Objects[next[c]])
    /\ StopBecause(c, "duplicate")
    /\ UNCHANGED <<schema, next, starts, failures>>

\* Somebody else has committed it meanwhile: an error, and the entrypoint ends.
Duplicate(c) ==
    /\ Creating(c)
    /\ Objects[next[c]] \in schema
    /\ StopBecause(c, "duplicate")
    /\ UNCHANGED <<schema, next, starts, failures>>

\* The transaction's end; then uvicorn.
Commit(c) ==
    /\ pc[c] = "creating" /\ next[c] > Len(Objects)
    /\ schema' = schema \cup created[c]
    /\ created' = [created EXCEPT ![c] = {}]
    /\ pc' = [pc EXCEPT ![c] = "serving"]
    /\ UNCHANGED <<next, stopped, starts, failures>>

\* The COMMIT is made and its acknowledgement lost.
LoseCommitAck(c) ==
    /\ pc[c] = "creating" /\ next[c] > Len(Objects)
    /\ failures < MaxFailures
    /\ schema' = schema \cup created[c]
    /\ StopBecause(c, "failure")
    /\ failures' = failures + 1
    /\ UNCHANGED <<next, starts>>

\* Mutant of Break: the database does not notice that the client is gone.
Break_KeepsTransaction(c) ==
    /\ pc[c] # "stopped"
    /\ failures < MaxFailures
    /\ pc' = [pc EXCEPT ![c] = "stopped"]
    /\ stopped' = [stopped EXCEPT ![c] = "failure"]
    /\ failures' = failures + 1
    /\ UNCHANGED <<schema, created, next, starts>>

\* The container is killed, or its statement or its connection fails.
Break(c) ==
    /\ pc[c] # "stopped"
    /\ failures < MaxFailures
    /\ StopBecause(c, "failure")
    /\ failures' = failures + 1
    /\ UNCHANGED <<schema, next, starts>>

-----------------------------------------------------------------------------

\* What runs by itself once a container is started.
Upgrade(c) ==
    \/ AtHead(c) \/ NotAtHead(c) \/ EnsureVersionTable(c)
    \/ Create(c) \/ Duplicate(c) \/ Commit(c)

Next ==
    \E c \in Containers :
        Start(c) \/ Upgrade(c) \/ LoseCommitAck(c) \/ Break(c)

Spec == Init /\ [][Next]_vars

\* A started container runs; nobody has to start one.
FairSpec == Spec /\ \A c \in Containers : WF_vars(Upgrade(c))

-----------------------------------------------------------------------------
(* Properties.                                                             *)

\* The types of the variables.
StartupTypeOK ==
    /\ schema \subseteq Whole
    /\ created \in [Containers -> SUBSET Whole]
    /\ next \in [Containers -> 1..Len(Objects) + 1]
    /\ pc \in [Containers -> {"stopped", "reading", "ensuring", "creating",
                              "serving"}]
    /\ stopped \in [Containers -> {None, "duplicate", "failure"}]
    /\ starts \in [Containers -> Nat]
    /\ failures \in Nat

\* A container that another one's migration turned away finds that migration
\* finished: when it is started again, it serves.
TurnedAwayByAWholeSchema ==
    \A c \in Containers : stopped[c] = "duplicate" => schema = Whole

\* A container that waits for another's transaction has created nothing that
\* a third could wait for, so the migrations never deadlock.
WaitingContainersHoldNothing ==
    \A c \in Containers :
        Creating(c) /\ HeldByAnother(c, Objects[next[c]]) => created[c] = {}

\* A started container comes to serve or stops; no migration that died keeps
\* it waiting.
EveryStartEnds ==
    \A c \in Containers :
        pc[c] = "reading" ~> pc[c] \in {"serving", "stopped"}

\* However many containers start at once, break and start again, the schema
\* appears once and whole, and "every container start is guaranteed to be
\* running against an up-to-date schema" (README.md).
M == INSTANCE SchemaMigration WITH
         serving <- {c \in Containers : pc[c] = "serving"}

ImplementsMigration == M!MigrationSpec

=============================================================================
