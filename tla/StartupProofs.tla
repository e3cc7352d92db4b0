---------------------------- MODULE StartupProofs ----------------------------
(***************************************************************************)
(* Theorems about Startup, for any number of containers and any upgrade of *)
(* two objects or more.                                                    *)
(***************************************************************************)
EXTENDS Startup, TLAPS

\* What a transaction has created when it comes to object n.
Made(n) == {Objects[i] : i \in 1..(n - 1)}

\* On an empty database a transaction holds a prefix of the objects; on a
\* migrated one it holds nothing and will be turned away.
Holding(c) ==
    IF pc[c] # "creating" THEN created[c] = {}
    ELSE IF schema = {} THEN created[c] = Made(next[c])
    ELSE created[c] = {} /\ next[c] <= 2

SchemaIsWhole == schema \in {{}, Whole}

HoldingOK == \A c \in Containers : Holding(c)

Exclusive ==
    \A c, d \in Containers : c # d => created[c] \cap created[d] = {}

StartupInv ==
    /\ StartupTypeOK
    /\ SchemaIsWhole
    /\ HoldingOK
    /\ Exclusive
    /\ TurnedAwayByAWholeSchema

-----------------------------------------------------------------------------

\* The sequence of objects as a function.
LEMMA ObjectsFacts ==
    /\ Len(Objects) \in Nat /\ Len(Objects) > 1
    /\ DOMAIN Objects = 1..Len(Objects)
    /\ Whole # {}
    /\ VersionTable \in Whole
    /\ Revision \in Whole
    /\ Made(Len(Objects) + 1) = Whole
  <1>1. /\ Len(Objects) \in Nat /\ Len(Objects) > 1
        /\ DOMAIN Objects = 1..Len(Objects)
    BY StartupAssumption
  <1>2. 1 \in DOMAIN Objects /\ Len(Objects) \in DOMAIN Objects
    BY <1>1
  <1>3. Made(Len(Objects) + 1) = Whole
    BY <1>1 DEF Made, Whole
  <1> QED
    BY <1>1, <1>2, <1>3 DEF Whole, VersionTable, Revision

\* Each object has one place in the order.
LEMMA Distinct ==
    ASSUME NEW i \in 1..Len(Objects), NEW j \in 1..Len(Objects), i # j
    PROVE  Objects[i] # Objects[j]
  BY StartupAssumption

\* Who holds anything on an empty database holds the version table.
LEMMA HoldersHoldTheFirst ==
    ASSUME StartupInv, schema = {}, NEW c \in Containers,
           pc[c] = "creating", next[c] # 1
    PROVE  VersionTable \in created[c]
  <1>1. created[c] = Made(next[c]) /\ next[c] \in 2..Len(Objects) + 1
    BY ObjectsFacts DEF StartupInv, HoldingOK, Holding, StartupTypeOK
  <1>2. 1 \in 1..(next[c] - 1)
    BY <1>1, ObjectsFacts
  <1> QED
    BY <1>1, <1>2 DEF Made, VersionTable

\* The commit is that of the whole upgrade, on an empty database, and nobody
\* else holds anything then.
LEMMA CommitIsWhole ==
    ASSUME StartupInv, NEW c \in Containers,
           pc[c] = "creating", next[c] > Len(Objects)
    PROVE  /\ schema = {}
           /\ created[c] = Whole
           /\ \A d \in Containers \ {c} :
                /\ created[d] = {}
                /\ pc[d] = "creating" => next[d] = 1
  <1>1. next[c] = Len(Objects) + 1 /\ next[c] > 2
    BY ObjectsFacts DEF StartupInv, StartupTypeOK
  <1>2. schema = {}
    BY <1>1 DEF StartupInv, HoldingOK, Holding
  <1>3. created[c] = Whole
    BY <1>1, <1>2, ObjectsFacts DEF StartupInv, HoldingOK, Holding
  <1>4. ASSUME NEW d \in Containers \ {c}, pc[d] = "creating"
        PROVE  next[d] = 1
    <2>1. VersionTable \in created[c]
      BY <1>3, ObjectsFacts
    <2>2. created[c] \cap created[d] = {}
      BY DEF StartupInv, Exclusive
    <2>3. VersionTable \notin created[d]
      BY <2>1, <2>2
    <2> QED
      BY <1>2, <1>4, <2>3, HoldersHoldTheFirst
  <1>5. ASSUME NEW d \in Containers \ {c}
        PROVE  created[d] = {}
    <2>1. CASE pc[d] = "creating"
      <3>1. created[d] = Made(1)
        BY <1>2, <1>4, <2>1 DEF StartupInv, HoldingOK, Holding
      <3>2. Made(1) = {}
        BY DEF Made
      <3> QED BY <3>1, <3>2
    <2>2. CASE pc[d] # "creating"
      BY <2>2 DEF StartupInv, HoldingOK, Holding
    <2> QED BY <2>1, <2>2
  <1> QED
    BY <1>2, <1>3, <1>4, <1>5

-----------------------------------------------------------------------------

\* The invariant holds at the start.
LEMMA StartupInitInv == Init => StartupInv
  <1> SUFFICES ASSUME Init PROVE StartupInv OBVIOUS
  <1>1. StartupTypeOK
    BY ObjectsFacts, StartupAssumption DEF Init, StartupTypeOK
  <1>2. TurnedAwayByAWholeSchema
    BY StartupAssumption DEF Init, TurnedAwayByAWholeSchema
  <1> QED
    BY <1>1, <1>2 DEF Init, StartupInv, SchemaIsWhole, HoldingOK, Holding, Exclusive

\* An end of a container, its transaction rolled back, for whatever reason.
LEMMA StopInv ==
    ASSUME StartupInv, NEW c \in Containers, NEW reason \in {"duplicate", "failure"},
           reason = "duplicate" => schema = Whole,
           StopBecause(c, reason), UNCHANGED <<schema, next, starts>>,
           failures' \in Nat
    PROVE  StartupInv'
  <1>1. StartupTypeOK'
    BY DEF StartupInv, StartupTypeOK, StopBecause
  <1>2. SchemaIsWhole'
    BY DEF StartupInv, SchemaIsWhole
  <1>3. HoldingOK'
    BY DEF StartupInv, StartupTypeOK, HoldingOK, Holding, StopBecause, Made
  <1>4. Exclusive'
    BY DEF StartupInv, StartupTypeOK, Exclusive, StopBecause
  <1>5. TurnedAwayByAWholeSchema'
    BY StartupAssumption
    DEF StartupInv, StartupTypeOK, TurnedAwayByAWholeSchema, StopBecause
  <1> QED
    BY <1>1, <1>2, <1>3, <1>4, <1>5 DEF StartupInv

\* A commit, whether its container goes on to serve or not.
LEMMA CommitInv ==
    ASSUME StartupInv, NEW c \in Containers,
           pc[c] = "creating", next[c] > Len(Objects),
           schema' = schema \cup created[c],
           created' = [created EXCEPT ![c] = {}],
           NEW layer \in {"serving", "stopped"}, pc' = [pc EXCEPT ![c] = layer],
           stopped' \in {stopped, [stopped EXCEPT ![c] = "failure"]},
           UNCHANGED <<next, starts>>, failures' \in Nat
    PROVE  StartupInv' /\ schema = {} /\ schema' = Whole
  <1>1. /\ schema = {} /\ schema' = Whole
        /\ \A d \in Containers : created'[d] = {}
        /\ \A d \in Containers : pc'[d] = "creating" => next[d] = 1
    BY CommitIsWhole DEF StartupInv, StartupTypeOK
  <1>2. StartupTypeOK'
    BY <1>1 DEF StartupInv, StartupTypeOK
  <1>3. SchemaIsWhole' /\ Exclusive' /\ TurnedAwayByAWholeSchema'
    BY <1>1 DEF SchemaIsWhole, Exclusive, TurnedAwayByAWholeSchema
  <1>4. HoldingOK'
    BY <1>1, ObjectsFacts DEF HoldingOK, Holding
  <1> QED
    BY <1>1, <1>2, <1>3, <1>4 DEF StartupInv

\* One more object in a transaction.
LEMMA CreateInv ==
    ASSUME StartupInv, NEW c \in Containers, Create(c)
    PROVE  StartupInv'
  <1> DEFINE n == next[c]
  <1>1. n \in 1..Len(Objects) /\ Objects[n] \in Whole
    BY ObjectsFacts DEF StartupInv, StartupTypeOK, Create, Creating, Whole
  <1>2. schema = {} /\ created[c] = Made(n)
    BY <1>1, ObjectsFacts
    DEF StartupInv, SchemaIsWhole, HoldingOK, Holding, Create, Creating
  <1>3. created'[c] = Made(n + 1)
    <2>1. 1..(n + 1 - 1) = (1..(n - 1)) \cup {n}
      BY <1>1
    <2>2. Made(n + 1) = Made(n) \cup {Objects[n]}
      BY <2>1 DEF Made
    <2> QED
      BY <1>2, <2>2 DEF StartupInv, StartupTypeOK, Create
  <1>4. StartupTypeOK'
    BY <1>1, ObjectsFacts DEF StartupInv, StartupTypeOK, Create
  <1>5. SchemaIsWhole' /\ TurnedAwayByAWholeSchema'
    BY DEF StartupInv, SchemaIsWhole, TurnedAwayByAWholeSchema, Create
  <1>6. HoldingOK'
    <2> SUFFICES ASSUME NEW d \in Containers PROVE Holding(d)'
      BY DEF HoldingOK
    <2>1. CASE d = c
      BY <2>1, <1>2, <1>3 DEF StartupInv, StartupTypeOK, Holding, Create, Creating, Made
    <2>2. CASE d # c
      BY <2>2 DEF StartupInv, StartupTypeOK, HoldingOK, Holding, Create, Made
    <2> QED BY <2>1, <2>2
  <1>7. Exclusive'
    <2> SUFFICES ASSUME NEW d \in Containers, NEW e \in Containers, d # e
                 PROVE  created'[d] \cap created'[e] = {}
      BY DEF Exclusive
    <2>1. created[d] \cap created[e] = {}
      BY DEF StartupInv, Exclusive
    <2>2. \A f \in Containers \ {c} : Objects[n] \notin created[f]
      BY DEF Create, HeldByAnother
    <2> QED
      BY <2>1, <2>2 DEF StartupInv, StartupTypeOK, Create
  <1> QED
    BY <1>4, <1>5, <1>6, <1>7 DEF StartupInv

\* Every step keeps the invariant.
LEMMA StartupStepInv == StartupInv /\ [Next]_vars => StartupInv'
  <1> SUFFICES ASSUME StartupInv, [Next]_vars PROVE StartupInv' OBVIOUS
  <1>1. ASSUME NEW c \in Containers, Start(c) PROVE StartupInv'
    <2>1. StartupTypeOK'
      BY <1>1 DEF StartupInv, StartupTypeOK, Start
    <2>2. HoldingOK'
      BY <1>1 DEF StartupInv, StartupTypeOK, HoldingOK, Holding, Start, Made
    <2>3. TurnedAwayByAWholeSchema'
      BY <1>1, StartupAssumption
      DEF StartupInv, StartupTypeOK, TurnedAwayByAWholeSchema, Start
    <2> QED
      BY <1>1, <2>1, <2>2, <2>3 DEF StartupInv, SchemaIsWhole, Exclusive, Start
  <1>2. ASSUME NEW c \in Containers, AtHead(c) \/ NotAtHead(c) PROVE StartupInv'
    <2>1. StartupTypeOK'
      BY <1>2 DEF StartupInv, StartupTypeOK, AtHead, NotAtHead
    <2>2. HoldingOK'
      BY <1>2 DEF StartupInv, StartupTypeOK, HoldingOK, Holding, AtHead, NotAtHead, Made
    <2> QED
      BY <1>2, <2>1, <2>2
      DEF StartupInv, SchemaIsWhole, Exclusive, TurnedAwayByAWholeSchema, AtHead, NotAtHead
  <1>3. ASSUME NEW c \in Containers, EnsureVersionTable(c) PROVE StartupInv'
    <2>1. StartupTypeOK'
      BY <1>3, ObjectsFacts DEF StartupInv, StartupTypeOK, EnsureVersionTable
    <2>2. HoldingOK'
      <3> SUFFICES ASSUME NEW d \in Containers PROVE Holding(d)'
        BY DEF HoldingOK
      <3>1. CASE d = c
        <4>1. created'[c] = {} /\ pc'[c] = "creating" /\ next'[c] <= 2
          BY <1>3 DEF StartupInv, StartupTypeOK, HoldingOK, Holding, EnsureVersionTable
        <4>2. schema' = {} => next'[c] = 1
          BY <1>3 DEF StartupInv, StartupTypeOK, EnsureVersionTable
        <4>3. Made(1) = {}
          BY DEF Made
        <4> QED BY <3>1, <4>1, <4>2, <4>3 DEF Holding, Made
      <3>2. CASE d # c
        BY <1>3, <3>2
        DEF StartupInv, StartupTypeOK, HoldingOK, Holding, EnsureVersionTable, Made
      <3> QED BY <3>1, <3>2
    <2> QED
      BY <1>3, <2>1, <2>2
      DEF StartupInv, SchemaIsWhole, Exclusive, TurnedAwayByAWholeSchema, EnsureVersionTable
  <1>4. ASSUME NEW c \in Containers, Create(c) PROVE StartupInv'
    BY <1>4, CreateInv
  <1>5. ASSUME NEW c \in Containers, Duplicate(c) PROVE StartupInv'
    <2>1. schema = Whole
      BY <1>5 DEF StartupInv, SchemaIsWhole, Duplicate
    <2>2. failures' \in Nat
      BY <1>5 DEF StartupInv, StartupTypeOK, Duplicate
    <2> QED
      BY <1>5, <2>1, <2>2, StopInv DEF Duplicate
  <1>6. ASSUME NEW c \in Containers, Commit(c) PROVE StartupInv'
    <2>1. failures' \in Nat
      BY <1>6 DEF StartupInv, StartupTypeOK, Commit
    <2> QED
      BY <1>6, <2>1, CommitInv DEF Commit
  <1>7. ASSUME NEW c \in Containers, LoseCommitAck(c) PROVE StartupInv'
    <2>1. failures' \in Nat
      BY <1>7 DEF StartupInv, StartupTypeOK, LoseCommitAck
    <2>2. created' = [created EXCEPT ![c] = {}]
      BY <1>7 DEF LoseCommitAck, StopBecause
    <2> QED
      BY <1>7, <2>1, <2>2, CommitInv DEF LoseCommitAck, StopBecause
  <1>8. ASSUME NEW c \in Containers, Break(c) PROVE StartupInv'
    BY <1>8, StopInv DEF Break, StartupInv, StartupTypeOK
  <1>9. CASE UNCHANGED vars
    BY <1>9 DEF vars, StartupInv, StartupTypeOK, SchemaIsWhole, HoldingOK, Holding,
                Exclusive, TurnedAwayByAWholeSchema, Made
  <1> QED
    BY <1>1, <1>2, <1>3, <1>4, <1>5, <1>6, <1>7, <1>8, <1>9 DEF Next, Upgrade

-----------------------------------------------------------------------------

\* The invariant holds for any number of containers, starts and failures.
THEOREM StartupInvariant == Spec => []StartupInv
  BY StartupInitInv, StartupStepInv, PTL DEF Spec

\* The variables keep their types.
THEOREM StartupTyped == Spec => []StartupTypeOK
  <1>1. StartupInv => StartupTypeOK
    BY DEF StartupInv
  <1> QED BY <1>1, StartupInvariant, PTL

\* Whoever was turned away by another container's migration finds it whole.
THEOREM TurnedAwayOnlyWhenDone == Spec => []TurnedAwayByAWholeSchema
  <1>1. StartupInv => TurnedAwayByAWholeSchema
    BY DEF StartupInv
  <1> QED BY <1>1, StartupInvariant, PTL

\* A container that waits holds nothing, so migrations do not deadlock.
THEOREM MigrationsDoNotDeadlock == Spec => []WaitingContainersHoldNothing
  <1>1. StartupInv => WaitingContainersHoldNothing
    <2> SUFFICES ASSUME StartupInv, NEW c \in Containers, Creating(c),
                        NEW d \in Containers \ {c},
                        Objects[next[c]] \in created[d]
                 PROVE  created[c] = {}
      BY DEF WaitingContainersHoldNothing, HeldByAnother
    <2>1. CASE schema # {}
      BY <2>1 DEF StartupInv, HoldingOK, Holding, Creating
    <2>2. CASE schema = {}
      <3>1. Holding(d) /\ pc[d] = "creating" /\ created[d] = Made(next[d])
        BY <2>2 DEF StartupInv, HoldingOK, Holding
      <3>2. next[d] # 1
        BY <3>1 DEF Made
      <3>3. VersionTable \in created[d]
        BY <2>2, <3>1, <3>2, HoldersHoldTheFirst
      <3>4. VersionTable \notin created[c]
        BY <3>3 DEF StartupInv, Exclusive
      <3>5. next[c] = 1
        BY <2>2, <3>4, HoldersHoldTheFirst DEF Creating
      <3>6. created[c] = Made(1)
        BY <2>2, <3>5 DEF StartupInv, HoldingOK, Holding, Creating
      <3> QED BY <3>6 DEF Made
    <2> QED BY <2>1, <2>2
  <1> QED BY <1>1, StartupInvariant, PTL

\* Starting containers are an indivisible migration and servers on its schema.
THEOREM StartupImplementsMigration == Spec => ImplementsMigration
  <1> DEFINE serving == {c \in Containers : pc[c] = "serving"}
  <1>1. Init => M!MigrationInit
    BY DEF Init, M!MigrationInit
  <1>2. ASSUME StartupInv, [Next]_vars
        PROVE  [\E c \in Containers : M!Migrate(c) \/ M!Serve(c) \/ M!Stop(c)]_<<schema, serving>>
    <2> USE <1>2
    <2>1. ASSUME NEW c \in Containers,
                 \/ Start(c) \/ NotAtHead(c) \/ EnsureVersionTable(c)
                 \/ Create(c) \/ Duplicate(c)
          PROVE  UNCHANGED <<schema, serving>>
      BY <2>1 DEF StartupInv, StartupTypeOK, Start, NotAtHead, EnsureVersionTable,
                  Create, Creating, Duplicate, StopBecause
    <2>2. ASSUME NEW c \in Containers, AtHead(c) PROVE M!Serve(c)
      <3>1. schema = Whole
        BY <2>2 DEF StartupInv, SchemaIsWhole, AtHead
      <3>2. serving' = serving \cup {c}
        BY <2>2 DEF StartupInv, StartupTypeOK, AtHead
      <3> QED BY <2>2, <3>1, <3>2 DEF M!Serve, AtHead
    <2>3. ASSUME NEW c \in Containers, Commit(c) PROVE M!Migrate(c)
      <3>1. schema = {} /\ schema' = Whole
        BY <2>3, CommitIsWhole DEF Commit
      <3>2. serving' = serving \cup {c}
        BY <2>3 DEF StartupInv, StartupTypeOK, Commit
      <3> QED BY <3>1, <3>2 DEF M!Migrate
    <2>4. ASSUME NEW c \in Containers, LoseCommitAck(c) PROVE M!Migrate(c)
      <3>1. schema = {} /\ schema' = Whole
        BY <2>4, CommitIsWhole DEF LoseCommitAck
      <3>2. serving' = serving
        BY <2>4 DEF StartupInv, StartupTypeOK, LoseCommitAck, StopBecause
      <3> QED BY <3>1, <3>2 DEF M!Migrate
    <2>5. ASSUME NEW c \in Containers, Break(c) PROVE M!Stop(c)
      <3>1. serving' = serving \ {c}
        BY <2>5 DEF StartupInv, StartupTypeOK, Break, StopBecause
      <3> QED BY <2>5, <3>1 DEF M!Stop, Break
    <2>6. CASE UNCHANGED vars
      BY <2>6 DEF vars
    <2> QED
      BY <2>1, <2>2, <2>3, <2>4, <2>5, <2>6 DEF Next, Upgrade
  <1> QED
    BY <1>1, <1>2, StartupInvariant, PTL
    DEF Spec, ImplementsMigration, M!MigrationSpec

-----------------------------------------------------------------------------
(* Why starts end.                                                         *)

\* Started, and neither serving nor stopped.
Migrating(c) == pc[c] \in {"reading", "ensuring", "creating"}

\* The guards of Upgrade(c), action by action.
CanUpgrade(c) ==
    \/ pc[c] \in {"reading", "ensuring"}
    \/ /\ Creating(c)
       /\ Objects[next[c]] \in schema \/ ~HeldByAnother(c, Objects[next[c]])
    \/ pc[c] = "creating" /\ next[c] > Len(Objects)

SomebodyMigrates ==
    (\E c \in Containers : Migrating(c)) =>
        \E c \in Containers : Migrating(c) /\ CanUpgrade(c)

\* How far a started container has come.
Progress(c) ==
    CASE pc[c] = "reading" -> 0
      [] pc[c] = "ensuring" -> 1
      [] pc[c] = "creating" -> next[c] + 1
      [] pc[c] \in {"serving", "stopped"} -> Len(Objects) + 3

MigrationsGoForward ==
    [][\A c \in Containers : Migrating(c) =>
          \/ pc'[c] = pc[c] /\ next'[c] = next[c]
          \/ Progress(c)' > Progress(c)]_vars

\* A container that waits for an object waits for one that waits for nothing.
LEMMA HolderCanUpgrade ==
    ASSUME StartupInv, WaitingContainersHoldNothing,
           NEW d \in Containers, created[d] # {}
    PROVE  Migrating(d) /\ CanUpgrade(d)
  <1>1. pc[d] = "creating"
    BY DEF StartupInv, HoldingOK, Holding
  <1>2. next[d] \in Nat /\ Len(Objects) \in Nat
    BY <1>1, ObjectsFacts DEF StartupInv, StartupTypeOK
  <1>3. CASE next[d] > Len(Objects)
    BY <1>1, <1>3 DEF Migrating, CanUpgrade
  <1>4. CASE next[d] <= Len(Objects)
    BY <1>1, <1>4 DEF Migrating, CanUpgrade, Creating,
       WaitingContainersHoldNothing
  <1> QED
    BY <1>2, <1>3, <1>4

\* While a container migrates, some container can go on: no set of containers
\* waits for each other's transactions, whatever broke before.
THEOREM SomeMigrationGoesOn == Spec => []SomebodyMigrates
  <1>1. ASSUME StartupInv, WaitingContainersHoldNothing,
               NEW c \in Containers, Migrating(c)
        PROVE  \E d \in Containers : Migrating(d) /\ CanUpgrade(d)
    <2> SUFFICES ASSUME ~CanUpgrade(c)
                 PROVE  \E d \in Containers : Migrating(d) /\ CanUpgrade(d)
      BY <1>1
    <2>1. pc[c] = "creating" /\ next[c] \in Nat /\ Len(Objects) \in Nat
      BY <1>1, ObjectsFacts DEF Migrating, CanUpgrade, StartupInv, StartupTypeOK
    <2>2. HeldByAnother(c, Objects[next[c]])
      BY <2>1 DEF CanUpgrade, Creating
    <2> QED
      BY <1>1, <2>2, HolderCanUpgrade DEF HeldByAnother
  <1>2. StartupInv /\ WaitingContainersHoldNothing => SomebodyMigrates
    BY <1>1 DEF SomebodyMigrates
  <1> QED
    BY <1>2, StartupInvariant, MigrationsDoNotDeadlock, PTL

\* A migration only goes forward, object by object, so a start has come to
\* serve or stop within three steps more than there are objects.
THEOREM MigrationsOnlyGoForward == Spec => MigrationsGoForward
  <1>1. ASSUME StartupInv, [Next]_vars, NEW c \in Containers, Migrating(c)
        PROVE  \/ pc'[c] = pc[c] /\ next'[c] = next[c]
               \/ Progress(c)' > Progress(c)
    <2>0. /\ Len(Objects) \in Nat /\ Len(Objects) > 1
          /\ next \in [Containers -> 1..Len(Objects) + 1]
          /\ \E Labels : pc \in [Containers -> Labels]
      BY <1>1, ObjectsFacts DEF StartupInv, StartupTypeOK
    <2>1. Progress(c) \in 0..Len(Objects) + 2
      BY <1>1, <2>0 DEF Progress, Migrating
    <2>2. pc'[c] \in {"serving", "stopped"} => Progress(c)' = Len(Objects) + 3
      BY DEF Progress
    <2>3. CASE NotAtHead(c)
      BY <2>0, <2>3 DEF NotAtHead, Progress
    <2>4. CASE EnsureVersionTable(c)
      BY <2>0, <2>4 DEF EnsureVersionTable, Progress
    <2>5. CASE Create(c)
      BY <2>0, <2>5 DEF Create, Creating, Progress
    <2>6. CASE AtHead(c) \/ Duplicate(c) \/ Commit(c) \/ LoseCommitAck(c)
               \/ Break(c)
      <3>1. pc'[c] \in {"serving", "stopped"}
        BY <2>0, <2>6 DEF AtHead, Duplicate, Commit, LoseCommitAck, Break,
           StopBecause
      <3> QED
        BY <2>0, <2>1, <2>2, <3>1
    <2>7. CASE Start(c)
      BY <1>1, <2>7 DEF Start, Migrating
    <2>8. ASSUME NEW d \in Containers, d # c,
                 Start(d) \/ Upgrade(d) \/ LoseCommitAck(d) \/ Break(d)
          PROVE  pc'[c] = pc[c] /\ next'[c] = next[c]
      BY <2>0, <2>8 DEF Start, Upgrade, AtHead, NotAtHead, EnsureVersionTable,
         Create, Creating, Duplicate, Commit, LoseCommitAck, Break, StopBecause
    <2>9. CASE UNCHANGED vars
      BY <2>9 DEF vars
    <2> QED
      BY <1>1, <2>3, <2>4, <2>5, <2>6, <2>7, <2>8, <2>9 DEF Next, Upgrade
  <1>2. ASSUME StartupInv, [Next]_vars
        PROVE  \A c \in Containers : Migrating(c) =>
                  \/ pc'[c] = pc[c] /\ next'[c] = next[c]
                  \/ Progress(c)' > Progress(c)
    BY <1>1, <1>2
  <1> QED
    BY <1>2, StartupInvariant, PTL DEF Spec, MigrationsGoForward

=============================================================================
