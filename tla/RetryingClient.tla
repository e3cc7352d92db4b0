---------------------------- MODULE RetryingClient ----------------------------
(***************************************************************************)
(* Clients that each want one thing done, a create or a decision, and      *)
(* repeat the call with its Idempotency-Key until they know: after a 500,  *)
(* a lost connection or a timeout of their own they try again, while the   *)
(* earlier attempt may still be running.  A 409 is asked about once more,  *)
(* because it may be about the client's own earlier attempt (the comment   *)
(* at app/api/v1/approval_requests.py:25, "the key upgrades that into a    *)
(* clean replay"); the second one is believed.                             *)
(*                                                                         *)
(* The service is ApprovalService, action by action.                       *)
(***************************************************************************)
EXTENDS ApprovalService, Sequences

CONSTANTS
    Clients,
    Attempts,   \* the calls of each client, in the order it makes them
    MaxFaults   \* bound on failures and timeouts together

VARIABLES
    tries,      \* how many calls the client has made
    waits,      \* is it waiting for the last of them?
    conflicts,  \* how often it was answered 409
    told,       \* "nothing", or what it was told for good
    faults      \* failures and timeouts so far

patience == <<tries, waits, conflicts, told>>
allVars == <<vars, patience, faults>>

ASSUME ClientsAssumption ==
    /\ Attempts \in [Clients -> Seq(Calls)]
    /\ MaxFaults \in Nat
    /\ \A k, l \in Clients : \A m \in DOMAIN Attempts[k], n \in DOMAIN Attempts[l] :
         Attempts[k][m] = Attempts[l][n] => k = l /\ m = n
    /\ \A c \in Calls : \E k \in Clients : \E n \in DOMAIN Attempts[k] :
         Attempts[k][n] = c

CallsOf(k) == {Attempts[k][n] : n \in DOMAIN Attempts[k]}

Owner(c) == CHOOSE k \in Clients : c \in CallsOf(k)

\* What a client may want: the same of every call.
Wishes(k) == {i \in UNION {Inputs[c] : c \in Calls} :
                \A c \in CallsOf(k) : i \in Inputs[c]}

\* Every intention has an Idempotency-Key, and no two are repeated under the
\* same one: what the README asks of a client.
KeysPerIntention ==
    \A k, l \in Clients : \A i \in Wishes(k), j \in Wishes(l) :
        /\ i.key # None
        /\ ScopeOf(i) = ScopeOf(j) => k = l

\* The call the client made last.
Current(k) == Attempts[k][tries[k]]

Tell(k, news) ==
    /\ told' = [told EXCEPT ![k] = news]
    /\ waits' = [waits EXCEPT ![k] = FALSE]
    /\ UNCHANGED <<tries, conflicts>>

TryAgain(k) ==
    /\ waits' = [waits EXCEPT ![k] = FALSE]
    /\ UNCHANGED <<tries, conflicts, told>>

-----------------------------------------------------------------------------

\* Who decides has the request's id from the answer to a create.
KnowsRequest(c) ==
    \/ input[c].op = "create"
    \/ \E l \in Clients : /\ told[l] = "done"
                          /\ answer[Current(l)].body.id = input[c].target

\* Mutant of CanTry: a call that failed is not repeated.
CanTry_Once(k) ==
    /\ told[k] = "nothing" /\ ~waits[k]
    /\ tries[k] = 0
    /\ KnowsRequest(Attempts[k][tries[k] + 1])

CanTry(k) ==
    /\ told[k] = "nothing" /\ ~waits[k]
    /\ tries[k] < Len(Attempts[k])
    /\ KnowsRequest(Attempts[k][tries[k] + 1])

\* The first call, or the next one with the same key and body.
Try(k) ==
    /\ CanTry(k)
    /\ Receive(Attempts[k][tries[k] + 1])
    /\ tries' = [tries EXCEPT ![k] = @ + 1]
    /\ waits' = [waits EXCEPT ![k] = TRUE]
    /\ UNCHANGED <<conflicts, told, faults>>

\* Mutant of HearConflict: no 409 is ever believed.
HearConflict_Persist(k) ==
    /\ answer[Current(k)].code = 409
    /\ conflicts' = [conflicts EXCEPT ![k] = @ + 1]
    /\ waits' = [waits EXCEPT ![k] = FALSE]
    /\ UNCHANGED <<tries, told>>

HearConflict(k) ==
    /\ answer[Current(k)].code = 409
    /\ IF conflicts[k] > 0
       THEN Tell(k, "refused")
       ELSE /\ conflicts' = [conflicts EXCEPT ![k] = 1]
            /\ waits' = [waits EXCEPT ![k] = FALSE]
            /\ UNCHANGED <<tries, told>>

\* The answer arrives.
Hear(k) ==
    /\ waits[k]
    /\ Delivered(Current(k))
    /\ \/ answer[Current(k)].code \in {200, 201} /\ Tell(k, "done")
       \/ answer[Current(k)].code \in {403, 404} /\ Tell(k, "refused")
       \/ answer[Current(k)].code = 500 /\ TryAgain(k)
       \/ HearConflict(k)
    /\ UNCHANGED <<vars, faults>>

\* The process that ran the call is gone and the connection with it.
HearLoss(k) ==
    /\ waits[k]
    /\ pc[Current(k)] = "lost"
    /\ TryAgain(k)
    /\ UNCHANGED <<vars, faults>>

\* The client gives the call up; the service does not know.
TimeOut(k) ==
    /\ waits[k]
    /\ pc[Current(k)] # "lost" /\ ~Delivered(Current(k))
    /\ faults < MaxFaults /\ faults' = faults + 1
    /\ TryAgain(k)
    /\ UNCHANGED vars

Serve(c) == Step(c) /\ UNCHANGED <<patience, faults>>

Break(c) ==
    /\ faults < MaxFaults /\ faults' = faults + 1
    /\ Failure(c)
    /\ UNCHANGED patience

ClientStep(k) == Try(k) \/ Hear(k) \/ HearLoss(k)

\* Nobody waits, nobody can try, and no call is running.
AllTold ==
    /\ \A k \in Clients : ~waits[k] /\ ~CanTry(k)
    /\ \A c \in Calls : pc[c] \in {"idle", "done", "lost"}
    /\ UNCHANGED allVars

ClientInit ==
    /\ Blank
    /\ \E wish \in [Clients -> UNION {Inputs[c] : c \in Calls}] :
         /\ \A k \in Clients : wish[k] \in Wishes(k)
         /\ input = [c \in Calls |-> wish[Owner(c)]]
    /\ tries = [k \in Clients |-> 0]
    /\ waits = [k \in Clients |-> FALSE]
    /\ conflicts = [k \in Clients |-> 0]
    /\ told = [k \in Clients |-> "nothing"]
    /\ faults = 0

ClientNext ==
    \/ \E k \in Clients : ClientStep(k) \/ TimeOut(k)
    \/ \E c \in Calls : Serve(c) \/ Break(c)
    \/ AllTold

ClientSpec == ClientInit /\ [][ClientNext]_allVars

\* Clients go on trying and the service goes on serving.
FairClientSpec ==
    /\ ClientSpec
    /\ \A k \in Clients : WF_allVars(ClientStep(k))
    /\ \A c \in Calls : WF_allVars(Serve(c))

-----------------------------------------------------------------------------
(* Properties.                                                             *)

\* The types of the client's variables.
ClientTypeOK ==
    /\ tries \in [Clients -> Nat]
    /\ waits \in [Clients -> BOOLEAN]
    /\ conflicts \in [Clients -> 0..1]
    /\ told \in [Clients -> {"nothing", "done", "refused"}]
    /\ faults \in 0..MaxFaults

\* How often an intention took effect: once per audit entry of its attempts.
Effects == [k \in Clients |->
              Cardinality({e \in audit : e.id \in CallsOf(k)})]

O == INSTANCE ExactlyOnce WITH Intentions <- Clients, effects <- Effects

\* Retries, overlaps, timeouts and failures notwithstanding, what each client
\* wanted happens at most once, has happened when it is told so, and never
\* happens after it was told that it was refused.
ImplementsExactlyOnce == O!OnceSpec

\* With more attempts than faults and conflicts can use up, every client that
\* has begun gets to know, for good.
EveryClientIsTold ==
    <>[](\A k \in Clients : tries[k] > 0 => told[k] # "nothing")

=============================================================================
