---------------------------- MODULE ConnectionPool ----------------------------
(***************************************************************************)
(* The connections of app/db/session.py: calls that run their transaction  *)
(* through get_db, /ready probes that ping, the pool they share, and a     *)
(* database that goes away and comes back.                                 *)
(*                                                                         *)
(* get_engine sets neither pool_pre_ping nor pool_recycle: a connection    *)
(* that the database has dropped is found out by the statement that meets  *)
(* it.  SQLAlchemy then drops it, and has every connection of the pool     *)
(* that was opened before that moment reopened when it is next taken.      *)
(***************************************************************************)
EXTENDS Naturals, FiniteSets

CONSTANTS
    Calls,         \* what uses get_db
    Probes,        \* GET /ready
    Slots,         \* pool_size + max_overflow connections
    None,
    MaxOutages     \* bound: how often the database goes away

Users == Calls \cup Probes

ASSUME PoolAssumption ==
    /\ Calls \cap Probes = {}
    /\ None \notin Slots \cup {"ok"}
    /\ IsFiniteSet(Slots)
    /\ MaxOutages \in Nat

VARIABLES
    up,            \* the database answers
    open,          \* the slots that have a connection
    lost,          \* those of them whose session the database has dropped
    old,           \* those opened before the pool last met a lost connection
    holds,         \* the slot that a user has taken
    pc,            \* "idle", "waiting", "using"
    answer,        \* the last answer to each user
    seen,          \* the users during whose wait or use the database answered
    outages,
    met            \* history: lost connections met since the last outage began

vars == <<up, open, lost, old, holds, pc, answer, seen, outages, met>>

-----------------------------------------------------------------------------

Free == {s \in Slots : \A u \in Users : holds[u] # s}

\* What the pool hands out as it is.
Pooled == (Free \cap open) \ old

Init ==
    /\ up = TRUE
    /\ open = {} /\ lost = {} /\ old = {}
    /\ holds = [u \in Users |-> None]
    /\ pc = [u \in Users |-> "idle"]
    /\ answer = [u \in Users |-> None]
    /\ seen = {}
    /\ outages = 0
    /\ met = 0

\* A request; /ready and every call alike take a connection first.
Ask(u) ==
    /\ pc[u] = "idle"
    /\ pc' = [pc EXCEPT ![u] = "waiting"]
    /\ answer' = [answer EXCEPT ![u] = None]
    /\ seen' = IF up THEN seen \cup {u} ELSE seen \ {u}
    /\ UNCHANGED <<up, open, lost, old, holds, outages, met>>

\* What the user gets: 503 for a probe, whose ping catches every exception,
\* and 500 for a call.
Failed(u) == IF u \in Probes THEN "unavailable" ELSE "error"

End(u, outcome) ==
    /\ pc' = [pc EXCEPT ![u] = "idle"]
    /\ answer' = [answer EXCEPT ![u] = outcome]
    /\ holds' = [holds EXCEPT ![u] = None]

Take(u, s) ==
    /\ holds' = [holds EXCEPT ![u] = s]
    /\ pc' = [pc EXCEPT ![u] = "using"]
    /\ UNCHANGED <<up, answer, seen, outages, met>>

\* A pooled connection is taken as it is.
TakePooled(u) ==
    /\ pc[u] = "waiting"
    /\ \E s \in Pooled : Take(u, s)
    /\ UNCHANGED <<open, lost, old>>

\* A connection is opened, in an empty slot or in place of an old one.  (The
\* order in which the pool offers its slots is left open.)
Openable == Free \ Pooled

Connect(u) ==
    /\ pc[u] = "waiting"
    /\ up
    /\ \E s \in Openable :
         /\ Take(u, s)
         /\ open' = open \cup {s}
         /\ lost' = lost \ {s}
         /\ old' = old \ {s}

\* Mutant of ConnectFails: the pool goes on counting the connection.
ConnectFails_StillLost(u) ==
    /\ pc[u] = "waiting"
    /\ ~up
    /\ \E s \in Openable : open' = open \ {s} /\ old' = old \ {s}
    /\ End(u, Failed(u))
    /\ UNCHANGED <<up, lost, seen, outages, met>>

\* No connection can be opened; the slot is empty.
ConnectFails(u) ==
    /\ pc[u] = "waiting"
    /\ ~up
    /\ \E s \in Openable :
         /\ open' = open \ {s} /\ lost' = lost \ {s} /\ old' = old \ {s}
    /\ End(u, Failed(u))
    /\ UNCHANGED <<up, seen, outages, met>>

\* Mutant of PoolTimeout: pool_timeout=None.
PoolTimeout_Never(u) == FALSE /\ UNCHANGED vars

\* Nothing was given back within the pool's 30 seconds.
PoolTimeout(u) ==
    /\ pc[u] = "waiting"
    /\ Free = {}
    /\ End(u, Failed(u))
    /\ UNCHANGED <<up, open, lost, old, seen, outages, met>>

\* Mutant of Succeed: the ping only takes a connection.
Succeed_NoStatement(u) ==
    /\ pc[u] = "using"
    /\ u \in Probes \/ (up /\ holds[u] \notin lost)
    /\ End(u, "ok")
    /\ UNCHANGED <<up, open, lost, old, seen, outages, met>>

\* SELECT 1, or the statements of a call, whatever it makes of them; the
\* connection goes back.
Succeed(u) ==
    /\ pc[u] = "using"
    /\ up /\ holds[u] \notin lost
    /\ End(u, "ok")
    /\ UNCHANGED <<up, open, lost, old, seen, outages, met>>

\* Mutant of MeetLost: the connection goes back into the pool as it is.
MeetLost_Kept(u) ==
    /\ pc[u] = "using"
    /\ holds[u] \in lost
    /\ End(u, Failed(u))
    /\ met' = IF up /\ met <= Cardinality(Slots) THEN met + 1 ELSE met
    /\ UNCHANGED <<up, open, lost, old, seen, outages>>

\* A statement on a lost connection.  If that connection was not old already,
\* the pool takes every connection that is open now for old.
MeetLost(u) ==
    LET s == holds[u] IN
    /\ pc[u] = "using"
    /\ s \in lost
    /\ open' = open \ {s}
    /\ lost' = lost \ {s}
    /\ old' = (IF s \in old THEN old ELSE open) \ {s}
    /\ End(u, Failed(u))
    /\ met' = IF up THEN met + 1 ELSE met
    /\ UNCHANGED <<up, seen, outages>>

\* The database stops, and with it every session.
GoDown ==
    /\ up
    /\ outages < MaxOutages
    /\ up' = FALSE
    /\ lost' = open
    /\ outages' = outages + 1
    /\ met' = 0
    /\ UNCHANGED <<open, old, holds, pc, answer, seen>>

ComeUp ==
    /\ ~up
    /\ up' = TRUE
    /\ seen' = Users
    /\ UNCHANGED <<open, lost, old, holds, pc, answer, outages, met>>

-----------------------------------------------------------------------------

\* What the application and the pool do without being asked.
Proceed(u) ==
    \/ TakePooled(u) \/ Connect(u) \/ ConnectFails(u)
    \/ Succeed(u) \/ MeetLost(u)

Next ==
    \/ \E u \in Users : Ask(u) \/ Proceed(u) \/ PoolTimeout(u)
    \/ GoDown \/ ComeUp

Spec == Init /\ [][Next]_vars

\* A probe runs, and the pool's clock too; a call may keep its connection for
\* ever, and the database may stay away.
ProbeSpec ==
    Spec /\ \A p \in Probes : WF_vars(Proceed(p) \/ PoolTimeout(p))

-----------------------------------------------------------------------------
(* Properties.                                                             *)

\* The types of the variables; a slot is taken by one user.
PoolTypeOK ==
    /\ up \in BOOLEAN
    /\ open \subseteq Slots
    /\ lost \subseteq open
    /\ old \subseteq open
    /\ holds \in [Users -> Slots \cup {None}]
    /\ pc \in [Users -> {"idle", "waiting", "using"}]
    /\ answer \in [Users -> {"ok", "unavailable", "error", None}]
    /\ seen \subseteq Users
    /\ outages \in Nat
    /\ met \in Nat
    /\ \A u, v \in Users : holds[u] = holds[v] => u = v \/ holds[u] = None

\* /ready says ok only if the database answered while the probe was under way,
\* although connections outlive the database that made them.
ReadyMeansReachable ==
    \A p \in Probes : answer[p] = "ok" => p \in seen

\* After the database has come back, every connection of the pool costs at
\* most one call its answer: without pool_pre_ping, that is all one may ask.
LostConnectionsFailOnce == met + Cardinality(lost) <= Cardinality(Slots)

\* A probe is answered, be the pool exhausted for ever or the database gone:
\* "must never raise" (ping), and does not hang.
EveryProbeIsAnswered ==
    \A p \in Probes : pc[p] = "waiting" ~> pc[p] = "idle"

=============================================================================
