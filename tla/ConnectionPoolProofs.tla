------------------------- MODULE ConnectionPoolProofs -------------------------
(***************************************************************************)
(* Theorems about ConnectionPool, for any number of calls, probes,         *)
(* connections and outages.                                                *)
(***************************************************************************)
EXTENDS ConnectionPool, FiniteSetTheorems, TLAPS

\* While the database is up, it is up in the sight of all that are under way.
UpIsSeen == up => \A u \in Users : pc[u] # "idle" => u \in seen

PoolInv ==
    /\ PoolTypeOK
    /\ UpIsSeen
    /\ ReadyMeansReachable
    /\ LostConnectionsFailOnce

-----------------------------------------------------------------------------

\* A set of slots can be counted.
LEMMA SlotSets ==
    ASSUME NEW S \in SUBSET Slots
    PROVE  /\ IsFiniteSet(S)
           /\ Cardinality(S) \in Nat
           /\ Cardinality(Slots) \in Nat
           /\ Cardinality(S) <= Cardinality(Slots)
           /\ \A s : /\ s \in S => Cardinality(S \ {s}) = Cardinality(S) - 1
                     /\ Cardinality(S \ {s}) \in Nat
                     /\ Cardinality(S \ {s}) <= Cardinality(S)
  <1>1. IsFiniteSet(S) /\ Cardinality(S) \in Nat /\ Cardinality(Slots) \in Nat
        /\ Cardinality(S) <= Cardinality(Slots)
    BY PoolAssumption, FS_Subset, FS_CardinalityType
  <1>2. ASSUME NEW s
        PROVE  /\ s \in S => Cardinality(S \ {s}) = Cardinality(S) - 1
               /\ Cardinality(S \ {s}) \in Nat
               /\ Cardinality(S \ {s}) <= Cardinality(S)
    <2>1. CASE s \in S
      BY <1>1, <2>1, FS_RemoveElement, FS_Subset, FS_CardinalityType
    <2>2. CASE s \notin S
      <3>1. S \ {s} = S
        BY <2>2
      <3> QED BY <1>1, <2>2, <3>1
    <2> QED BY <2>1, <2>2
  <1> QED BY <1>1, <1>2

\* The invariant holds at the start.
LEMMA PoolInitInv == Init => PoolInv
  <1> SUFFICES ASSUME Init PROVE PoolInv OBVIOUS
  <1>1. PoolTypeOK /\ UpIsSeen
    BY DEF Init, PoolTypeOK, UpIsSeen
  <1>2. ReadyMeansReachable
    BY PoolAssumption DEF Init, ReadyMeansReachable, Users
  <1>3. LostConnectionsFailOnce
    BY SlotSets DEF Init, LostConnectionsFailOnce
  <1> QED BY <1>1, <1>2, <1>3 DEF PoolInv

\* Losing count of lost connections, but no meeting, keeps the bound.
LEMMA FewerLost ==
    ASSUME PoolInv, met' = met, NEW s, lost' = lost \/ lost' = lost \ {s}
    PROVE  LostConnectionsFailOnce'
  <1>1. lost \in SUBSET Slots /\ met \in Nat
    BY DEF PoolInv, PoolTypeOK
  <1> QED
    BY <1>1, SlotSets DEF PoolInv, LostConnectionsFailOnce

\* Every step keeps the invariant.
LEMMA PoolStepInv == PoolInv /\ [Next]_vars => PoolInv'
  <1> SUFFICES ASSUME PoolInv, [Next]_vars PROVE PoolInv' OBVIOUS
  <1>1. ASSUME NEW u \in Users, Ask(u) PROVE PoolInv'
    <2>1. PoolTypeOK'
      BY <1>1 DEF PoolInv, PoolTypeOK, Ask
    <2>2. UpIsSeen'
      BY <1>1 DEF PoolInv, PoolTypeOK, UpIsSeen, Ask
    <2>3. ReadyMeansReachable'
      BY <1>1, PoolAssumption DEF PoolInv, PoolTypeOK, ReadyMeansReachable, Ask, Users
    <2>4. LostConnectionsFailOnce'
      BY <1>1, FewerLost DEF Ask
    <2> QED BY <2>1, <2>2, <2>3, <2>4 DEF PoolInv
  <1>2. ASSUME NEW u \in Users, TakePooled(u) PROVE PoolInv'
    <2>1. PoolTypeOK'
      BY <1>2 DEF PoolInv, PoolTypeOK, TakePooled, Take, Pooled, Free
    <2>2. UpIsSeen'
      BY <1>2 DEF PoolInv, PoolTypeOK, UpIsSeen, TakePooled, Take
    <2>3. ReadyMeansReachable'
      BY <1>2 DEF PoolInv, ReadyMeansReachable, TakePooled, Take
    <2>4. LostConnectionsFailOnce'
      BY <1>2, FewerLost DEF TakePooled, Take
    <2> QED BY <2>1, <2>2, <2>3, <2>4 DEF PoolInv
  <1>3. ASSUME NEW u \in Users, Connect(u) PROVE PoolInv'
    <2>1. PoolTypeOK'
      BY <1>3 DEF PoolInv, PoolTypeOK, Connect, Take, Openable, Free
    <2>2. UpIsSeen'
      BY <1>3 DEF PoolInv, PoolTypeOK, UpIsSeen, Connect, Take
    <2>3. ReadyMeansReachable'
      BY <1>3 DEF PoolInv, ReadyMeansReachable, Connect, Take
    <2>4. LostConnectionsFailOnce'
      BY <1>3, FewerLost DEF Connect, Take
    <2> QED BY <2>1, <2>2, <2>3, <2>4 DEF PoolInv
  <1>4. ASSUME NEW u \in Users, ConnectFails(u) PROVE PoolInv'
    <2>1. PoolTypeOK'
      BY <1>4 DEF PoolInv, PoolTypeOK, ConnectFails, End, Failed
    <2>2. UpIsSeen'
      BY <1>4 DEF PoolInv, PoolTypeOK, UpIsSeen, ConnectFails, End
    <2>3. ReadyMeansReachable'
      BY <1>4 DEF PoolInv, PoolTypeOK, ReadyMeansReachable, ConnectFails, End, Failed, Users
    <2>4. LostConnectionsFailOnce'
      BY <1>4, FewerLost DEF ConnectFails
    <2> QED BY <2>1, <2>2, <2>3, <2>4 DEF PoolInv
  <1>5. ASSUME NEW u \in Users, PoolTimeout(u) PROVE PoolInv'
    <2>1. PoolTypeOK'
      BY <1>5 DEF PoolInv, PoolTypeOK, PoolTimeout, End, Failed
    <2>2. UpIsSeen'
      BY <1>5 DEF PoolInv, PoolTypeOK, UpIsSeen, PoolTimeout, End
    <2>3. ReadyMeansReachable'
      BY <1>5 DEF PoolInv, PoolTypeOK, ReadyMeansReachable, PoolTimeout, End, Failed, Users
    <2>4. LostConnectionsFailOnce'
      BY <1>5, FewerLost DEF PoolTimeout
    <2> QED BY <2>1, <2>2, <2>3, <2>4 DEF PoolInv
  <1>6. ASSUME NEW u \in Users, Succeed(u) PROVE PoolInv'
    <2>1. PoolTypeOK'
      BY <1>6 DEF PoolInv, PoolTypeOK, Succeed, End
    <2>2. UpIsSeen'
      BY <1>6 DEF PoolInv, PoolTypeOK, UpIsSeen, Succeed, End
    <2>3. u \in seen
      BY <1>6 DEF PoolInv, UpIsSeen, Succeed
    <2>4. ReadyMeansReachable'
      BY <1>6, <2>3 DEF PoolInv, PoolTypeOK, ReadyMeansReachable, Succeed, End, Users
    <2>5. LostConnectionsFailOnce'
      BY <1>6, FewerLost DEF Succeed
    <2> QED BY <2>1, <2>2, <2>4, <2>5 DEF PoolInv
  <1>7. ASSUME NEW u \in Users, MeetLost(u) PROVE PoolInv'
    <2>1. PoolTypeOK'
      BY <1>7 DEF PoolInv, PoolTypeOK, MeetLost, End, Failed
    <2>2. UpIsSeen'
      BY <1>7 DEF PoolInv, PoolTypeOK, UpIsSeen, MeetLost, End
    <2>3. ReadyMeansReachable'
      BY <1>7 DEF PoolInv, PoolTypeOK, ReadyMeansReachable, MeetLost, End, Failed, Users
    <2>4. LostConnectionsFailOnce'
      <3>1. /\ lost \in SUBSET Slots /\ met \in Nat
            /\ holds[u] \in lost /\ lost' = lost \ {holds[u]}
            /\ met' \in {met, met + 1}
        BY <1>7 DEF PoolInv, PoolTypeOK, MeetLost
      <3>2. /\ Cardinality(lost') = Cardinality(lost) - 1
            /\ Cardinality(lost) \in Nat /\ Cardinality(Slots) \in Nat
        BY <3>1, SlotSets
      <3> QED
        BY <3>1, <3>2 DEF PoolInv, LostConnectionsFailOnce
    <2> QED BY <2>1, <2>2, <2>3, <2>4 DEF PoolInv
  <1>8. CASE GoDown
    <2>1. PoolTypeOK' /\ UpIsSeen'
      <3>1. PoolTypeOK'
        <4>1. outages' \in Nat /\ met' \in Nat
          BY <1>8 DEF PoolInv, PoolTypeOK, GoDown
        <4>2. up' \in BOOLEAN
          BY <1>8 DEF GoDown
        <4> QED
          BY <1>8, <4>1, <4>2 DEF PoolInv, PoolTypeOK, GoDown
      <3>2. UpIsSeen'
        BY <1>8 DEF UpIsSeen, GoDown
      <3> QED BY <3>1, <3>2
    <2>2. ReadyMeansReachable'
      BY <1>8 DEF PoolInv, ReadyMeansReachable, GoDown
    <2>3. LostConnectionsFailOnce'
      <3>1. lost' \in SUBSET Slots /\ met' = 0
        BY <1>8 DEF PoolInv, PoolTypeOK, GoDown
      <3> QED
        BY <3>1, SlotSets DEF LostConnectionsFailOnce
    <2> QED BY <2>1, <2>2, <2>3 DEF PoolInv
  <1>9. CASE ComeUp
    <2>1. PoolTypeOK' /\ UpIsSeen'
      BY <1>9 DEF PoolInv, PoolTypeOK, UpIsSeen, ComeUp
    <2>2. ReadyMeansReachable'
      BY <1>9 DEF ReadyMeansReachable, ComeUp, Users
    <2>3. LostConnectionsFailOnce'
      BY <1>9, FewerLost DEF ComeUp
    <2> QED BY <2>1, <2>2, <2>3 DEF PoolInv
  <1>10. CASE UNCHANGED vars
    <2>1. PoolTypeOK' /\ UpIsSeen' /\ ReadyMeansReachable'
      BY <1>10 DEF PoolInv, PoolTypeOK, UpIsSeen, ReadyMeansReachable, vars
    <2>2. LostConnectionsFailOnce'
      BY <1>10, FewerLost DEF vars
    <2> QED BY <2>1, <2>2 DEF PoolInv
  <1> QED
    BY <1>1, <1>2, <1>3, <1>4, <1>5, <1>6, <1>7, <1>8, <1>9, <1>10
    DEF Next, Proceed

-----------------------------------------------------------------------------

\* The invariant holds for pools and outages of any number.
THEOREM PoolInvariant == Spec => []PoolInv
  BY PoolInitInv, PoolStepInv, PTL DEF Spec

\* The variables keep their types, and no connection has two users.
THEOREM PoolTyped == Spec => []PoolTypeOK
  <1>1. PoolInv => PoolTypeOK
    BY DEF PoolInv
  <1> QED BY <1>1, PoolInvariant, PTL

\* /ready never says ok of a database that did not answer meanwhile.
THEOREM ReadinessIsHonest == Spec => []ReadyMeansReachable
  <1>1. PoolInv => ReadyMeansReachable
    BY DEF PoolInv
  <1> QED BY <1>1, PoolInvariant, PTL

\* A return of the database costs at most one answer per connection.
THEOREM OutagesCostAtMostThePool == Spec => []LostConnectionsFailOnce
  <1>1. PoolInv => LostConnectionsFailOnce
    BY DEF PoolInv
  <1> QED BY <1>1, PoolInvariant, PTL

-----------------------------------------------------------------------------
(* Why users do not hang.                                                  *)

\* The guards of Proceed(u) and PoolTimeout(u), action by action.
CanProceed(u) ==
    \/ pc[u] = "waiting" /\ (Pooled # {} \/ Openable # {})
    \/ pc[u] = "using" /\ ((up /\ holds[u] \notin lost) \/ holds[u] \in lost)

CanTimeOut(u) == pc[u] = "waiting" /\ Free = {}

NobodyHangs ==
    \A u \in Users : pc[u] # "idle" => CanProceed(u) \/ CanTimeOut(u)

\* Who uses a connection has one, and none outlives the database.
ConnectionsReal ==
    /\ \A u \in Users : pc[u] = "using" => holds[u] \in open
    /\ ~up => lost = open

LEMMA ConnectionsStep ==
    ASSUME PoolTypeOK, ConnectionsReal, [Next]_vars
    PROVE  ConnectionsReal'
  <1> USE DEF PoolTypeOK, ConnectionsReal
  <1>1. ASSUME NEW u \in Users, Ask(u) PROVE ConnectionsReal'
    BY <1>1 DEF Ask
  <1>2. ASSUME NEW u \in Users, TakePooled(u) PROVE ConnectionsReal'
    BY <1>2 DEF TakePooled, Take, Pooled, Free
  <1>3. ASSUME NEW u \in Users, Connect(u) PROVE ConnectionsReal'
    BY <1>3 DEF Connect, Take
  <1>4. ASSUME NEW u \in Users, ConnectFails(u) PROVE ConnectionsReal'
    BY <1>4 DEF ConnectFails, End, Openable, Free
  <1>5. ASSUME NEW u \in Users, PoolTimeout(u) \/ Succeed(u)
        PROVE  ConnectionsReal'
    BY <1>5 DEF PoolTimeout, Succeed, End
  <1>6. ASSUME NEW u \in Users, MeetLost(u) PROVE ConnectionsReal'
    <2>1. \A v \in Users : v # u => pc'[v] = pc[v] /\ holds'[v] = holds[v]
      BY <1>6 DEF MeetLost, End
    <2>2. pc'[u] = "idle" /\ open' = open \ {holds[u]}
          /\ lost' = lost \ {holds[u]} /\ up' = up
      BY <1>6 DEF MeetLost, End
    <2>3. \A v \in Users : v # u => holds[v] # holds[u] \/ holds[u] = None
      OBVIOUS
    <2>4. holds[u] # None
      BY <1>6, PoolAssumption DEF MeetLost
    <2> QED
      BY <2>1, <2>2, <2>3, <2>4
  <1>7. CASE GoDown \/ ComeUp
    BY <1>7 DEF GoDown, ComeUp
  <1>8. CASE UNCHANGED vars
    BY <1>8 DEF vars
  <1> QED
    BY <1>1, <1>2, <1>3, <1>4, <1>5, <1>6, <1>7, <1>8 DEF Next, Proceed

\* A user of the pool, probe or call, always has a next step of its own, be the
\* pool exhausted or the database away: a slot is pooled, open to be filled or
\* worth the wait of the timeout, and a statement is answered or fails.
THEOREM NoUserHangs == Spec => []NobodyHangs
  <1>1. Init => ConnectionsReal
    BY DEF Init, ConnectionsReal
  <1>2. PoolTypeOK /\ ConnectionsReal /\ [Next]_vars => ConnectionsReal'
    BY ConnectionsStep
  <1>3. PoolTypeOK /\ ConnectionsReal => NobodyHangs
    <2> SUFFICES ASSUME PoolTypeOK, ConnectionsReal, NEW u \in Users,
                        pc[u] # "idle"
                 PROVE  CanProceed(u) \/ CanTimeOut(u)
      BY DEF NobodyHangs
    <2>1. CASE pc[u] = "waiting"
      BY <2>1 DEF CanProceed, CanTimeOut, Openable
    <2>2. CASE pc[u] = "using"
      BY <2>2 DEF CanProceed, ConnectionsReal
    <2> QED
      BY <2>1, <2>2 DEF PoolTypeOK
  <1> QED
    BY <1>1, <1>2, <1>3, PoolTyped, PTL DEF Spec

=============================================================================
