------------------------- MODULE RetryingClientProofs -------------------------
(***************************************************************************)
(* What clients that retry do to the service is among what the service is  *)
(* proved for, whatever they want and however often they try; and what     *)
(* they are told of it is true: with the commit before the response and a  *)
(* key for every intention, each intention has its effect exactly as often *)
(* as its client may believe (EffectsExactlyOnce).                         *)
(***************************************************************************)
EXTENDS RetryingClient, ApprovalAnswerProofs

\* The next attempt is a call.
LEMMA NextAttemptIsACall ==
    ASSUME ClientTypeOK, NEW k \in Clients, CanTry(k)
    PROVE  Attempts[k][tries[k] + 1] \in Calls
  <1>1. Attempts[k] \in Seq(Calls) /\ tries[k] \in Nat
    BY ClientsAssumption DEF ClientTypeOK
  <1>2. tries[k] + 1 \in 1..Len(Attempts[k])
    BY <1>1 DEF CanTry
  <1> QED BY <1>1, <1>2

\* Every call is somebody's attempt.
LEMMA Owned ==
    ASSUME NEW c \in Calls
    PROVE  Owner(c) \in Clients /\ c \in CallsOf(Owner(c))
  <1>1. \E k \in Clients : c \in CallsOf(k)
    <2>1. PICK k \in Clients : \E n \in DOMAIN Attempts[k] : Attempts[k][n] = c
      BY ClientsAssumption
    <2> QED BY <2>1 DEF CallsOf
  <1> QED BY <1>1 DEF Owner

\* What clients want is what a call may ask for.
LEMMA ClientInitIsInit == ClientInit => Init
  <1> SUFFICES ASSUME ClientInit PROVE Init OBVIOUS
  <1>1. PICK wish \in [Clients -> UNION {Inputs[c] : c \in Calls}] :
          /\ \A k \in Clients : wish[k] \in Wishes(k)
          /\ input = [c \in Calls |-> wish[Owner(c)]]
    BY DEF ClientInit
  <1>2. ASSUME NEW c \in Calls PROVE input[c] \in Inputs[c]
    <2>1. input[c] = wish[Owner(c)] /\ wish[Owner(c)] \in Wishes(Owner(c))
      BY <1>1, Owned
    <2> QED BY <2>1, Owned DEF Wishes
  <1>3. input \in [Calls -> UNION {Inputs[c] : c \in Calls}]
    BY <1>1, <1>2
  <1> QED
    BY <1>2, <1>3 DEF ClientInit, Init

\* The clients' variables keep their types.
LEMMA ClientTypesInit == ClientInit => ClientTypeOK
  BY ClientsAssumption DEF ClientInit, ClientTypeOK

LEMMA ClientTypesStep == ClientTypeOK /\ [ClientNext]_allVars => ClientTypeOK'
  <1> SUFFICES ASSUME ClientTypeOK, [ClientNext]_allVars PROVE ClientTypeOK' OBVIOUS
  <1> USE ClientsAssumption
  <1>1. ASSUME NEW k \in Clients, Try(k) PROVE ClientTypeOK'
    BY <1>1 DEF ClientTypeOK, Try
  <1>2. ASSUME NEW k \in Clients, Hear(k) PROVE ClientTypeOK'
    <2>1. /\ tries' = tries /\ faults' = faults
          /\ waits' = [waits EXCEPT ![k] = FALSE]
      BY <1>2 DEF Hear, HearConflict, Tell, TryAgain
    <2>2. conflicts' \in {conflicts, [conflicts EXCEPT ![k] = 1]}
      BY <1>2 DEF Hear, HearConflict, Tell, TryAgain
    <2>3. told' \in {told, [told EXCEPT ![k] = "done"], [told EXCEPT ![k] = "refused"]}
      BY <1>2 DEF Hear, HearConflict, Tell, TryAgain
    <2>4. waits' \in [Clients -> BOOLEAN]
      BY <2>1 DEF ClientTypeOK
    <2>5. conflicts' \in [Clients -> 0..1]
      <3>1. conflicts \in [Clients -> 0..1] /\ 1 \in 0..1
        BY DEF ClientTypeOK
      <3> DEFINE small == 0..1
      <3>3. conflicts \in [Clients -> small] /\ 1 \in small
        BY <3>1
      <3> HIDE DEF small
      <3>4. [conflicts EXCEPT ![k] = 1] \in [Clients -> small]
        BY <3>3
      <3>5. conflicts' \in [Clients -> small]
        BY <2>2, <3>3, <3>4
      <3> QED BY <3>5 DEF small
    <2>6. told' \in [Clients -> {"nothing", "done", "refused"}]
      BY <2>3 DEF ClientTypeOK
    <2> QED BY <2>1, <2>4, <2>5, <2>6 DEF ClientTypeOK
  <1>3. ASSUME NEW k \in Clients, HearLoss(k) PROVE ClientTypeOK'
    BY <1>3 DEF ClientTypeOK, HearLoss, TryAgain
  <1>4. ASSUME NEW k \in Clients, TimeOut(k) PROVE ClientTypeOK'
    BY <1>4 DEF ClientTypeOK, TimeOut, TryAgain
  <1>5. ASSUME NEW c \in Calls, Serve(c) \/ Break(c) PROVE ClientTypeOK'
    BY <1>5 DEF ClientTypeOK, Serve, Break, patience
  <1>6. CASE UNCHANGED allVars
    BY <1>6 DEF ClientTypeOK, allVars, patience
  <1> QED
    BY <1>1, <1>2, <1>3, <1>4, <1>5, <1>6 DEF ClientNext, ClientStep, AllTold

\* A step of the clients and the service together is one of the service.
LEMMA ClientStepIsServiceStep ==
    ClientTypeOK /\ [ClientNext]_allVars => [Next]_vars
  <1> SUFFICES ASSUME ClientTypeOK, [ClientNext]_allVars PROVE [Next]_vars OBVIOUS
  <1>1. ASSUME NEW k \in Clients, Try(k) PROVE Next
    BY <1>1, NextAttemptIsACall DEF Try, Next
  <1>2. ASSUME NEW k \in Clients, Hear(k) \/ HearLoss(k) \/ TimeOut(k)
        PROVE  UNCHANGED vars
    BY <1>2 DEF Hear, HearLoss, TimeOut
  <1>3. ASSUME NEW c \in Calls, Serve(c) \/ Break(c) PROVE Next
    BY <1>3 DEF Serve, Break, Next
  <1>4. CASE UNCHANGED allVars
    BY <1>4 DEF allVars
  <1> QED
    BY <1>1, <1>2, <1>3, <1>4 DEF ClientNext, ClientStep, AllTold

-----------------------------------------------------------------------------

\* The clients' variables keep their types, for any number of attempts.
THEOREM ClientsTyped == ClientSpec => []ClientTypeOK
  BY ClientTypesInit, ClientTypesStep, PTL DEF ClientSpec

\* Clients that time out and retry run the service as it is specified, so all
\* that is proved of it holds in their presence.
THEOREM ClientsRunTheService == ClientSpec => Spec
  BY ClientInitIsInit, ClientStepIsServiceStep, ClientsTyped, PTL
  DEF ClientSpec, Spec

\* In particular a create that is retried takes effect at most once.
THEOREM RetriedCreatesHappenOnce == ClientSpec => []OneEffectPerKey
  BY ClientsRunTheService, CreatesAreIdempotent, PTL

-----------------------------------------------------------------------------
(* The inductive invariant behind ImplementsExactlyOnce.                   *)

\* Each intention has a key of its own: what ClientInit chooses under
\* KeysPerIntention.
InputsOK ==
    /\ \A c \in Calls : input[c].key # None
    /\ \A c, d \in Calls :
         /\ ScopeOf(input[c]) = ScopeOf(input[d]) => Owner(c) = Owner(d)
         /\ Owner(c) = Owner(d) => input[c] = input[d]

\* What the call asks for took effect, by this attempt or another.
Happened(c) == Stored(c) # {}

\* The request that the call decides is not for it to decide (any more).
Shut(c) ==
    \E r \in requests :
        /\ r.id = input[c].target
        /\ \/ r.workspace_id # input[c].workspace_id
           \/ r.status # "pending"
           \/ ~Authorised(c, r)

\* It did not take effect and never will.
Hopeless(c) == Shut(c) /\ ~Happened(c)

\* A decision is called for only when the request is there.
Known(c) ==
    pc[c] # "idle" /\ input[c].op # "create" =>
        \E r \in requests : r.id = input[c].target

\* What the client goes by is the code.
CodeSaysWhy(c) ==
    /\ answer[c].code \in {200, 201} => answer[c].why = "ok"
    /\ answer[c].code = 409 => answer[c].why \in Status \cup {"reused", "busy"}

\* A decision that took effect was of a request that the user may decide.
RightlyDecided(c) ==
    Happened(c) /\ input[c].op # "create" =>
        \E r \in Addressed(c) : r.status # "pending" /\ Authorised(c, r)

RightlyRefused(c) == answer[c].code \in {403, 404} => Hopeless(c)

CallOK(c) ==
    /\ Known(c) /\ CodeSaysWhy(c)
    /\ RightlyDecided(c) /\ RightlyRefused(c)

\* Who waits, or was told that it is done, has made a call; who waits has
\* been told nothing.
HasCalled(k) ==
    /\ waits[k] \/ told[k] = "done" => tries[k] \in DOMAIN Attempts[k]
    /\ waits[k] => told[k] = "nothing"

EffectCounted(k) ==
    Effects[k] = IF \E c \in CallsOf(k) : Happened(c) THEN 1 ELSE 0

ToldTruth(k) ==
    /\ told[k] = "done" => Succeeded(Current(k))
    /\ told[k] = "refused" => \A c \in CallsOf(k) : Hopeless(c)

\* Between the lookup of its key and the answer, or answered with a conflict.
Contesting(c) ==
    \/ pc[c] \in {"read", "insert", "update", "conflict", "flush"}
    \/ answer[c].code = 409

\* A 409 is about a request that is shut, or about the effect of an earlier
\* attempt, which the next one will find when it looks its key up.
ConflictExplained(k) ==
    /\ conflicts[k] > 0 => \A c \in CallsOf(k) : Shut(c) \/ Happened(c)
    /\ conflicts[k] > 0 /\ waits[k] /\ Contesting(Current(k)) =>
         Hopeless(Current(k))

ClientOK(k) ==
    /\ HasCalled(k)
    /\ EffectCounted(k)
    /\ ToldTruth(k)
    /\ ConflictExplained(k)

OnceInv ==
    /\ InputsOK
    /\ \A c \in Calls : CallOK(c)
    /\ \A k \in Clients : ClientOK(k)

-----------------------------------------------------------------------------
(* Calls and the clients that make them.                                   *)

\* An attempt belongs to one client.
LEMMA OwnerIs ==
    ASSUME NEW k \in Clients, NEW c \in CallsOf(k)
    PROVE  c \in Calls /\ Owner(c) = k
  <1>1. PICK n \in DOMAIN Attempts[k] : Attempts[k][n] = c
    BY DEF CallsOf
  <1>2. Attempts[k] \in Seq(Calls)
    BY ClientsAssumption
  <1>3. c \in Calls
    BY <1>1, <1>2
  <1>4. Owner(c) \in Clients /\ c \in CallsOf(Owner(c))
    BY <1>3, Owned
  <1>5. PICK m \in DOMAIN Attempts[Owner(c)] : Attempts[Owner(c)][m] = c
    BY <1>4 DEF CallsOf
  <1> QED
    BY <1>1, <1>3, <1>4, <1>5, ClientsAssumption

\* All attempts at one intention ask for the same, under a key of their own.
LEMMA InputsInit ==
    ASSUME KeysPerIntention, ClientInit
    PROVE  InputsOK
  <1>1. PICK wish \in [Clients -> UNION {Inputs[c] : c \in Calls}] :
          /\ \A k \in Clients : wish[k] \in Wishes(k)
          /\ input = [c \in Calls |-> wish[Owner(c)]]
    BY DEF ClientInit
  <1>2. \A c \in Calls : /\ input[c] = wish[Owner(c)]
                         /\ Owner(c) \in Clients
                         /\ wish[Owner(c)] \in Wishes(Owner(c))
    BY <1>1, Owned
  <1> QED
    BY <1>2 DEF InputsOK, KeysPerIntention

\* What is true of one attempt's request and key is true of all.
LEMMA SameIntention ==
    ASSUME InputsOK, NEW c \in Calls, NEW d \in Calls, Owner(c) = Owner(d)
    PROVE  /\ Shut(c) <=> Shut(d)
           /\ Happened(c) <=> Happened(d)
  <1>1. input[c] = input[d]
    BY DEF InputsOK
  <1> QED
    BY <1>1 DEF Shut, Happened, Stored, Authorised

-----------------------------------------------------------------------------
(* What no step of the service takes back.                                 *)

\* Who may decide a request does not change with it.
LEMMA AuthorisedStays ==
    ASSUME input' = input, NEW c \in Calls, NEW n, NEW r, Continues(n, r)
    PROVE  Authorised(c, n)' <=> Authorised(c, r)
  BY DEF Authorised, Continues, MayDecide, IsReviewer

\* A request that is shut to a call stays shut to it.
LEMMA ShutStays ==
    ASSUME IInv, [Next]_vars, NEW c \in Calls, Shut(c)
    PROVE  Shut(c)'
  <1>1. input' = input
    BY TablesStep
  <1>2. PICK r \in requests :
          /\ r.id = input[c].target
          /\ \/ r.workspace_id # input[c].workspace_id
             \/ r.status # "pending"
             \/ ~Authorised(c, r)
    BY DEF Shut
  <1>3. PICK n \in requests' : Continues(n, r)
    BY RowsContinue
  <1>4. Authorised(c, n)' <=> Authorised(c, r)
    BY <1>1, <1>3, AuthorisedStays
  <1> QED
    BY <1>1, <1>2, <1>3, <1>4 DEF Shut, Continues

LEMMA HappenedStays ==
    ASSUME IInv, [Next]_vars, NEW c \in Calls, Happened(c)
    PROVE  Happened(c)'
  BY KeysStay, TablesStep DEF Happened, Stored

\* The attempt that is about to commit a change is the first: nobody has
\* decided its request, and its key is free.
LEMMA WriterIsFirst ==
    ASSUME IInv, InputsOK, NEW d \in Calls, session[d] # EmptySession,
           pc[d] # "flush", NEW c \in Calls, Owner(c) = Owner(d)
    PROVE  ~Shut(c) /\ ~Happened(c)
  <1> USE DEF IInv
  <1>1. PICK row \in session[d].requests : Wrote(d, row)
    BY DEF SessionsOK
  <1>2. input[d].key # None /\ input[c] = input[d]
    BY DEF InputsOK
  <1>3. ~Happened(d)
    <2>1. session[d].keys = {KeyRowOf(d)}
      BY <1>1, <1>2 DEF Wrote, Change
    <2>2. KeyRowOf(d).scope = ScopeOf(input[d])
      BY DEF KeyRowOf
    <2> QED
      BY <2>1, <2>2 DEF KeysNotTaken, Happened, Stored
  <1>4. ~Shut(d)
    <2> SUFFICES ASSUME NEW r \in requests, r.id = input[d].target
                 PROVE  /\ r.workspace_id = input[d].workspace_id
                        /\ r.status = "pending"
                        /\ Authorised(d, r)
      BY DEF Shut
    <2>1. CASE Created(d, row)
      <3>1. input[d].target = None
        BY <2>1 DEF Created, ControlOK, WellFormed
      <3> QED
        BY <3>1, NoneAssumption DEF TypeOK, Row
    <2>2. CASE Decided(d, row)
      <3>1. PICK old \in Addressed(d) : old.status = "pending" /\ Authorised(d, old)
        BY <2>2 DEF Decided
      <3>2. old = r
        BY DEF Addressed, PrimaryKeys
      <3> QED
        BY <3>1, <3>2 DEF Addressed
    <2> QED
      BY <1>1, <2>1, <2>2 DEF Wrote
  <1> QED
    BY <1>3, <1>4, SameIntention

\* A key is taken by the commit of an attempt that has changed something.
LEMMA TakenByCommit ==
    ASSUME IInv, InputsOK, [Next]_vars, NEW c \in Calls,
           ~Happened(c), Happened(c)'
    PROVE  \E d \in Calls : /\ Owner(d) = Owner(c)
                            /\ NotYet(d) /\ pc[d] # "flush"
                            /\ session[d] # EmptySession
                            /\ Publish(d)
  <1>1. PICK m \in keys' : m.scope = ScopeOf(input[c]) /\ m \notin keys
    BY TablesStep DEF Happened, Stored
  <1>2. PICK d \in Calls : /\ NotYet(d) /\ pc[d] # "flush"
                           /\ session[d] # EmptySession
                           /\ Publish(d)
    BY <1>1, TablesStep
  <1>3. m \in session[d].keys
    BY <1>1, <1>2 DEF Publish
  <1>4. m.scope = ScopeOf(input[d])
    BY <1>3, SessionKey
  <1> QED
    BY <1>1, <1>2, <1>4 DEF InputsOK

\* What can never happen any more never does.
LEMMA HopelessStays ==
    ASSUME IInv, InputsOK, [Next]_vars, NEW c \in Calls, Hopeless(c)
    PROVE  Hopeless(c)'
  <1>1. Shut(c)' /\ Shut(c) /\ ~Happened(c)
    BY ShutStays DEF Hopeless
  <1>2. ~Happened(c)'
    BY <1>1, TakenByCommit, WriterIsFirst
  <1> QED
    BY <1>1, <1>2 DEF Hopeless

-----------------------------------------------------------------------------
(* What calls know and are told.                                           *)

\* What the service is proved for, in the clients' presence.
Base ==
    /\ IInv /\ SuccessInv
    /\ RefusalsAreReal /\ KeyStoredWithEffect
    /\ ClientTypeOK

LEMMA KnownStep ==
    ASSUME IInv, [Next]_vars, NEW c \in Calls, Known(c),
           pc[c] = "idle" /\ pc'[c] # "idle" => Known(c)'
    PROVE  Known(c)'
  <1>1. CASE pc[c] = "idle"
    BY <1>1 DEF Known
  <1>2. CASE pc[c] # "idle"
    <2> SUFFICES ASSUME input'[c].op # "create"
                 PROVE  \E n \in requests' : n.id = input'[c].target
      BY DEF Known
    <2>1. input' = input
      BY TablesStep
    <2>2. PICK r \in requests : r.id = input[c].target
      BY <1>2, <2>1 DEF Known
    <2>3. PICK n \in requests' : Continues(n, r)
      BY RowsContinue
    <2> QED
      BY <2>1, <2>2, <2>3 DEF Continues
  <1> QED
    BY <1>1, <1>2

\* An answer is as it was, or one of the kinds that the service gives.
LEMMA AnswerKinds ==
    ASSUME IInv, [Next]_vars, NEW c \in Calls
    PROVE  \/ answer'[c] = answer[c]
           \/ /\ answer'[c].why = "ok"
              /\ answer'[c].code \in {200, 201}
           \/ answer'[c].code = 500
           \/ /\ answer'[c].code = 404 /\ RequestMissing(c)
           \/ /\ answer'[c].code = 403 /\ NotAuthorised(c)
           \/ /\ answer'[c].code = 409
              /\ answer'[c].why \in Status \cup {"reused", "busy"}
              /\ \/ KeyReused(c)
                 \/ pc[c] \in {"conflict", "flush"}
  <1> USE DEF Goto, Refuse, Discard
  <1>0. answer \in [Calls -> Answer]
    BY DEF IInv, TypeOK
  <1>1. CASE Receive(c) \/ Begin(c) \/ KeyIsNew(c) \/ StoreKey(c)
               \/ Authorise(c) \/ LoseTransition(c) \/ Respond(c)
               \/ Commit(c) \/ Crash(c) \/ LoseCommit(c)
    BY <1>1 DEF Receive, Begin, KeyIsNew, StoreKey, Authorise, LoseTransition,
       Respond, Commit, Crash, LoseCommit
  <1>2. CASE Replay(c)
    <2>1. PICK m \in Stored(c) : answer'[c] = Ok(m.code, m.body)
      BY <1>0, <1>2 DEF Replay
    <2>2. m.code \in {200, 201}
      BY DEF Stored, IInv, TypeOK, KeyRow
    <2> QED
      BY <2>1, <2>2 DEF Ok
  <1>3. CASE InsertRequest(c) \/ GetRequest(c) \/ WinTransition(c)
    BY <1>0, <1>3 DEF InsertRequest, GetRequest, WinTransition, Ok
  <1>4. CASE Fail(c) \/ LoseCommitAck(c)
    BY <1>0, <1>4 DEF Fail, LoseCommitAck
  <1>5. CASE RequestMissing(c)
    BY <1>0, <1>5 DEF RequestMissing
  <1>6. CASE NotAuthorised(c)
    BY <1>0, <1>6 DEF NotAuthorised
  <1>7. CASE KeyReused(c) \/ KeyBusy(c)
    BY <1>0, <1>7 DEF KeyReused, KeyBusy
  <1>8. CASE ReportConflict(c)
    <2>1. PICK row \in Addressed(c) : /\ answer'[c].why = row.status
                                      /\ answer'[c].code = 409
                                      /\ pc[c] = "conflict"
      BY <1>0, <1>8 DEF ReportConflict
    <2>2. row.status \in Status
      BY DEF Addressed, IInv, TypeOK, Row
    <2> QED
      BY <2>1, <2>2
  <1> QED
    BY <1>1, <1>2, <1>3, <1>4, <1>5, <1>6, <1>7, <1>8, OthersStand
       DEF Step, Failure

LEMMA CodeSaysWhyStep ==
    ASSUME IInv, [Next]_vars, NEW c \in Calls, CodeSaysWhy(c)
    PROVE  CodeSaysWhy(c)'
  BY AnswerKinds DEF CodeSaysWhy

\* The commit of a decision leaves the request with the user's authority.
LEMMA RightlyDecidedStep ==
    ASSUME IInv, InputsOK, [Next]_vars, NEW c \in Calls, RightlyDecided(c)
    PROVE  RightlyDecided(c)'
  <1>0. input' = input
    BY TablesStep
  <1> SUFFICES ASSUME Happened(c)', input[c].op # "create"
               PROVE  \E n \in Addressed(c)' :
                        n.status # "pending" /\ Authorised(c, n)'
    BY <1>0 DEF RightlyDecided
  <1>1. CASE Happened(c)
    <2>1. PICK r \in Addressed(c) : r.status # "pending" /\ Authorised(c, r)
      BY <1>1 DEF RightlyDecided
    <2>2. PICK n \in requests' : Continues(n, r)
      BY RowsContinue DEF Addressed
    <2>3. n \in Addressed(c)' /\ n.status # "pending"
      BY <1>0, <2>1, <2>2 DEF Addressed, Continues
    <2>4. Authorised(c, n)'
      BY <1>0, <2>1, <2>2, AuthorisedStays
    <2> QED
      BY <2>3, <2>4
  <1>2. CASE ~Happened(c)
    <2>1. PICK d \in Calls : /\ Owner(d) = Owner(c)
                             /\ NotYet(d) /\ pc[d] # "flush"
                             /\ session[d] # EmptySession
                             /\ Publish(d)
      BY <1>2, TakenByCommit
    <2>2. input[d] = input[c]
      BY <2>1 DEF InputsOK
    <2>3. PICK row \in session[d].requests : Wrote(d, row)
      BY <2>1 DEF IInv, SessionsOK
    <2>4. Decided(d, row)
      BY <2>2, <2>3 DEF Wrote, Created
    <2>5. PICK old \in Addressed(d) : /\ Authorised(d, old)
                                      /\ row = DecidedBy(d, old)
      BY <2>4 DEF Decided
    <2>6. /\ old \in Row /\ old.id = input[d].target
          /\ old.workspace_id = input[d].workspace_id
          /\ input[d].op \in Op \ {"create", "get"}
      BY <2>4 DEF Addressed, IInv, TypeOK, Input, Decided
    <2>7. /\ row.id = old.id /\ row.workspace_id = old.workspace_id
          /\ row.created_by = old.created_by /\ row.reviewers = old.reviewers
          /\ row.status = Action(input[d].op)
      BY <2>5, <2>6 DEF DecidedBy, DecidedRow, Row
    <2>8. row.status # "pending"
      BY <2>6, <2>7 DEF Op, Action
    <2>9. row \in requests'
      BY <2>1, <2>3 DEF Publish
    <2>10. Authorised(c, row)'
      BY <1>0, <2>2, <2>5, <2>7 DEF Authorised, MayDecide, IsReviewer
    <2>11. row \in Addressed(c)'
      BY <1>0, <2>2, <2>6, <2>7, <2>9 DEF Addressed
    <2> QED
      BY <2>8, <2>10, <2>11
  <1> QED
    BY <1>1, <1>2

\* A call that is refused for its user or its request has no effect, now or
\* later, and neither has any other attempt.
LEMMA RightlyRefusedStep ==
    ASSUME IInv, InputsOK, [Next]_vars, NEW c \in Calls, CallOK(c)
    PROVE  RightlyRefused(c)'
  <1> USE DEF IInv
  <1>1. CASE answer'[c] = answer[c]
    BY <1>1, HopelessStays DEF CallOK, RightlyRefused
  <1>2. CASE RequestMissing(c)
    <2>1. pc[c] = "read" /\ Addressed(c) = {} /\ input[c].op # "create"
      BY <1>2 DEF RequestMissing, ControlOK
    <2>2. PICK r \in requests : r.id = input[c].target
      BY <2>1 DEF CallOK, Known
    <2>3. Shut(c)
      BY <2>1, <2>2 DEF Shut, Addressed
    <2>4. ~Happened(c)
      BY <2>1 DEF CallOK, RightlyDecided
    <2> QED
      BY <2>3, <2>4, HopelessStays DEF Hopeless, RightlyRefused
  <1>3. CASE NotAuthorised(c)
    <2>1. pc[c] = "read" /\ input[c].op # "create"
      BY <1>3 DEF NotAuthorised, ControlOK
    <2>2. PICK row \in Addressed(c) : ~Authorised(c, row)
      BY <1>3 DEF NotAuthorised, Authorised
    <2>3. Shut(c)
      BY <2>2 DEF Shut, Addressed
    <2>4. ~Happened(c)
      BY <2>1, <2>2 DEF CallOK, RightlyDecided, Addressed, PrimaryKeys
    <2> QED
      BY <2>3, <2>4, HopelessStays DEF Hopeless, RightlyRefused
  <1> QED
    BY <1>1, <1>2, <1>3, AnswerKinds DEF RightlyRefused

LEMMA CallStep ==
    ASSUME IInv, InputsOK, [Next]_vars, NEW c \in Calls, CallOK(c),
           pc[c] = "idle" /\ pc'[c] # "idle" => Known(c)'
    PROVE  CallOK(c)'
  <1>1. Known(c) /\ CodeSaysWhy(c) /\ RightlyDecided(c) /\ RightlyRefused(c)
    BY DEF CallOK
  <1>2. Known(c)'
    BY <1>1, KnownStep
  <1>3. CodeSaysWhy(c)'
    BY <1>1, CodeSaysWhyStep
  <1>4. RightlyDecided(c)'
    BY <1>1, RightlyDecidedStep
  <1>5. RightlyRefused(c)'
    BY <1>1, RightlyRefusedStep
  <1> QED
    BY <1>2, <1>3, <1>4, <1>5 DEF CallOK

-----------------------------------------------------------------------------
(* What clients make of it.                                                *)

\* A delivered success is for ever, and the key's row is behind it.
LEMMA DoneStays ==
    ASSUME IInv, [Next]_vars, NEW c \in Calls, pc[c] = "done"
    PROVE  pc'[c] = "done" /\ answer'[c] = answer[c]
  <1>1. /\ ~Receive(c) /\ ~Failure(c)
    BY DEF Receive, Failure, Fail, LoseCommitAck, Crash, LoseCommit, Working
  <1>2. ~Step(c)
    BY DEF Step, Begin, KeyIsNew, KeyReused, Replay, StoreKey, KeyBusy,
       InsertRequest, RequestMissing, GetRequest, NotAuthorised, Authorise,
       WinTransition, LoseTransition, ReportConflict, Respond, Commit
  <1> QED
    BY <1>1, <1>2, OthersStand

LEMMA SucceededStays ==
    ASSUME IInv, SuccessInv, [Next]_vars, NEW c \in Calls, Succeeded(c)
    PROVE  Succeeded(c)'
  BY SucceededSettled, DoneStays DEF Succeeded, Delivered

LEMMA SucceededHappened ==
    ASSUME IInv, SuccessInv, InputsOK, NEW c \in Calls, Succeeded(c)
    PROVE  Happened(c)
  BY SucceededSettled DEF Backed, Happened, InputsOK

\* A key is only ever taken by an attempt with the same body, so no attempt is
\* told that its key was used for something else.
LEMMA NeverReused ==
    ASSUME IInv, KeyStoredWithEffect, InputsOK, NEW c \in Calls
    PROVE  ~KeyReused(c)
  <1> SUFFICES ASSUME NEW m \in Stored(c) 
               PROVE  m.fingerprint = Fingerprint(input[c])
    BY DEF KeyReused
  <1>1. PICK e \in audit : /\ m.scope = ScopeOf(input[e.id])
                           /\ m.fingerprint = Fingerprint(input[e.id])
    BY DEF KeyStoredWithEffect, Stored
  <1>2. e.id \in Calls
    BY DEF IInv, TypeOK, AuditLogEntry
  <1>3. input[e.id] = input[c]
    BY <1>1, <1>2 DEF Stored, InputsOK
  <1> QED
    BY <1>1, <1>3

\* A call that starts when the outcome is settled learns of it at the lookup,
\* or it is hopeless from there on.
LEMMA ContestStep ==
    ASSUME IInv, KeyStoredWithEffect, InputsOK, [Next]_vars, NEW c \in Calls,
           Shut(c) \/ Happened(c),
           Contesting(c) => Hopeless(c)
    PROVE  Contesting(c)' => Hopeless(c)'
  <1> USE DEF Goto, Refuse, Discard
  <1>0. /\ answer \in [Calls -> Answer]
        /\ \E Labels : pc \in [Calls -> Labels]
        /\ input[c].key # None
    BY DEF IInv, TypeOK, InputsOK
  <1>1. CASE Contesting(c)
    BY <1>1, HopelessStays
  <1>2. CASE ~Contesting(c)
    <2>1. pc[c] \notin {"read", "insert", "update", "conflict", "flush"}
      BY <1>2 DEF Contesting
    <2>2. answer'[c].code # 409
      <3>1. answer'[c] = answer[c] => answer'[c].code # 409
        BY <1>2 DEF Contesting
      <3> QED
        BY <2>1, <3>1, NeverReused, AnswerKinds
    <2>3. CASE KeyIsNew(c)
      <3>1. Hopeless(c)
        BY <2>3 DEF KeyIsNew, Happened, Hopeless
      <3> QED
        BY <3>1, HopelessStays
    <2>4. ASSUME ~KeyIsNew(c)
          PROVE  pc'[c] \notin {"read", "insert", "update", "conflict", "flush"}
      <3>1. CASE pc'[c] = pc[c]
        BY <2>1, <3>1
      <3>2. CASE Receive(c) \/ Begin(c) \/ Replay(c) \/ Respond(c) \/ Commit(c)
        BY <1>0, <3>2 DEF Receive, Begin, Replay, Respond, Commit
      <3>3. CASE Fail(c) \/ LoseCommitAck(c) \/ Crash(c) \/ LoseCommit(c)
                   \/ KeyReused(c)
        BY <1>0, <3>3 DEF Fail, LoseCommitAck, Crash, LoseCommit, KeyReused
      <3>4. /\ ~StoreKey(c) /\ ~KeyBusy(c) /\ ~InsertRequest(c)
            /\ ~RequestMissing(c) /\ ~GetRequest(c) /\ ~NotAuthorised(c)
            /\ ~Authorise(c) /\ ~WinTransition(c) /\ ~LoseTransition(c)
            /\ ~ReportConflict(c)
        BY <2>1 DEF StoreKey, KeyBusy, InsertRequest, RequestMissing,
           GetRequest, NotAuthorised, Authorise, WinTransition, LoseTransition,
           ReportConflict
      <3> QED
        BY <2>4, <3>1, <3>2, <3>3, <3>4, OthersStand DEF Step, Failure
    <2> QED
      BY <2>2, <2>3, <2>4 DEF Contesting
  <1> QED
    BY <1>1, <1>2

-----------------------------------------------------------------------------
(* Effects.                                                                *)

EffectsOf(k) == {e \in audit : e.id \in CallsOf(k)}

\* An intention whose key is free has had no effect.
LEMMA NoEffectYet ==
    ASSUME IInv, KeyStoredWithEffect, InputsOK, NEW d \in Calls, ~Happened(d)
    PROVE  EffectsOf(Owner(d)) = {}
  <1> SUFFICES ASSUME NEW e \in audit, e.id \in CallsOf(Owner(d))
               PROVE  FALSE
    BY DEF EffectsOf
  <1>1. e.id \in Calls /\ Owner(e.id) = Owner(d)
    BY Owned, OwnerIs
  <1>2. \E m \in keys : m.scope = ScopeOf(input[e.id])
    BY <1>1 DEF KeyStoredWithEffect, InputsOK
  <1>3. input[e.id] = input[d]
    BY <1>1 DEF InputsOK
  <1> QED
    BY <1>2, <1>3 DEF Happened, Stored

\* The commit of an attempt is its client's first effect, and nobody else's.
LEMMA CommitCounts ==
    ASSUME IInv, KeyStoredWithEffect, InputsOK, NEW d \in Calls,
           NotYet(d), pc[d] # "flush", session[d] # EmptySession, Publish(d)
    PROVE  /\ Effects[Owner(d)] = 0
           /\ Effects' = [Effects EXCEPT ![Owner(d)] = 1]
  <1>1. PICK row \in session[d].requests : Wrote(d, row)
    BY DEF IInv, SessionsOK
  <1>2. PICK entry : session[d].audit = {entry} /\ entry.id = d
    <2>1. session[d].audit = Change(d, row).audit
      BY <1>1 DEF Wrote, Change
    <2> DEFINE made == AuditEntryOf(d, row, input[d].user,
                                    Action(input[d].op), StoredText(input[d]))
    <2>2. Change(d, row).audit = {made}
      BY DEF Change
    <2>3. made.id = d
      BY DEF AuditEntryOf
    <2> HIDE DEF made
    <2> QED
      BY <2>1, <2>2, <2>3
  <1>3. audit' = audit \cup {entry}
    BY <1>2 DEF Publish
  <1>4. Owner(d) \in Clients /\ d \in CallsOf(Owner(d))
    BY Owned
  <1>5. EffectsOf(Owner(d)) = {}
    BY WriterIsFirst, NoEffectYet
  <1>6. EffectsOf(Owner(d))' = {entry}
    BY <1>2, <1>3, <1>4, <1>5 DEF EffectsOf
  <1>7. ASSUME NEW k \in Clients, k # Owner(d)
        PROVE  EffectsOf(k)' = EffectsOf(k)
    <2>1. d \notin CallsOf(k)
      BY <1>7, OwnerIs
    <2> QED
      BY <1>2, <1>3, <2>1 DEF EffectsOf
  <1>8. Cardinality({}) = 0 /\ Cardinality({entry}) = 1
    BY FS_EmptySet, FS_Singleton
  <1>9. /\ Effects = [k \in Clients |-> Cardinality(EffectsOf(k))]
        /\ Effects' = [k \in Clients |-> Cardinality(EffectsOf(k)')]
    BY DEF Effects, EffectsOf
  <1> QED
    BY <1>4, <1>5, <1>6, <1>7, <1>8, <1>9

\* Every other step leaves the effects alone.
LEMMA EffectsStep ==
    ASSUME IInv, KeyStoredWithEffect, InputsOK, [Next]_vars
    PROVE  \/ Effects' = Effects /\ UNCHANGED keys
           \/ \E d \in Calls : /\ NotYet(d) /\ pc[d] # "flush"
                               /\ session[d] # EmptySession /\ Publish(d)
                               /\ Effects[Owner(d)] = 0
                               /\ Effects' = [Effects EXCEPT ![Owner(d)] = 1]
  <1>1. CASE UNCHANGED <<requests, audit, outbox, keys>>
    BY <1>1 DEF Effects
  <1>2. ASSUME NEW d \in Calls, NotYet(d), pc[d] # "flush",
               session[d] # EmptySession, Publish(d)
        PROVE  /\ Effects[Owner(d)] = 0
               /\ Effects' = [Effects EXCEPT ![Owner(d)] = 1]
    BY <1>2, CommitCounts
  <1> QED
    BY <1>1, <1>2, TablesStep

\* One effect where the key is taken, none where it is free.
LEMMA EffectCountedStep ==
    ASSUME IInv, KeyStoredWithEffect, InputsOK, [Next]_vars,
           NEW k \in Clients, EffectCounted(k)
    PROVE  EffectCounted(k)'
  <1>0. /\ input' = input
        /\ \A c \in CallsOf(k) : c \in Calls /\ Owner(c) = k
    BY TablesStep, OwnerIs
  <1>1. CASE Effects' = Effects /\ UNCHANGED keys
    BY <1>0, <1>1 DEF EffectCounted, Happened, Stored
  <1>2. ASSUME NEW d \in Calls, NotYet(d), pc[d] # "flush",
               session[d] # EmptySession, Publish(d),
               Effects' = [Effects EXCEPT ![Owner(d)] = 1]
        PROVE  EffectCounted(k)'
    <2>1. PICK m : m = KeyRowOf(d) /\ m \in keys'
      <3>1. PICK row \in session[d].requests : Wrote(d, row)
        BY <1>2 DEF IInv, SessionsOK
      <3>2. session[d].keys = {KeyRowOf(d)}
        BY <1>2, <3>1 DEF Wrote, Change, InputsOK
      <3> QED
        BY <1>2, <3>2 DEF Publish
    <2>2. Happened(d)'
      BY <1>0, <2>1 DEF Happened, Stored, KeyRowOf
    <2>3. CASE k = Owner(d)
      <3>1. d \in CallsOf(k)
        BY <2>3, Owned
      <3>2. Effects'[k] = 1
        BY <1>2, <2>3 DEF Effects
      <3> QED
        BY <2>2, <3>1, <3>2 DEF EffectCounted
    <2>4. CASE k # Owner(d)
      <3>1. Effects'[k] = Effects[k]
        BY <1>2, <2>4 DEF Effects
      <3>2. ASSUME NEW c \in CallsOf(k)
            PROVE  Happened(c)' <=> Happened(c)
        <4>1. c \in Calls /\ Owner(c) = k
          BY <1>0
        <4>2. Happened(c) => Happened(c)'
          BY <4>1, HappenedStays
        <4>3. ASSUME NEW n \in keys', n.scope = ScopeOf(input[c])
              PROVE  n \in keys
          <5>1. n \in session[d].keys => n.scope = ScopeOf(input[d])
            BY <1>2, SessionKey
          <5>2. ScopeOf(input[c]) # ScopeOf(input[d])
            BY <2>4, <4>1 DEF InputsOK
          <5> QED
            BY <1>2, <4>3, <5>1, <5>2 DEF Publish
        <4> QED
          BY <1>0, <4>2, <4>3 DEF Happened, Stored
      <3> QED
        BY <3>1, <3>2 DEF EffectCounted
    <2> QED
      BY <2>3, <2>4
  <1> QED
    BY <1>1, <1>2, EffectsStep


-----------------------------------------------------------------------------
(* The steps of the clients.                                               *)

LEMMA CurrentIs ==
    ASSUME NEW k \in Clients, tries[k] \in DOMAIN Attempts[k]
    PROVE  /\ Current(k) \in CallsOf(k) /\ Current(k) \in Calls
           /\ Owner(Current(k)) = k
  BY OwnerIs DEF Current, CallsOf

\* A client that goes on as it was, or only stops waiting.
LEMMA ClientStands ==
    ASSUME Base, OnceInv, [Next]_vars, NEW k \in Clients,
           tries'[k] = tries[k], told'[k] = told[k],
           conflicts'[k] = conflicts[k], waits'[k] => waits[k]
    PROVE  ClientOK(k)'
  <1> USE DEF Base, OnceInv
  <1>0. /\ HasCalled(k) /\ EffectCounted(k)
        /\ ToldTruth(k) /\ ConflictExplained(k)
    BY DEF ClientOK
  <1>1. HasCalled(k)'
    BY <1>0 DEF HasCalled
  <1>2. EffectCounted(k)'
    BY <1>0, EffectCountedStep
  <1>3. Current(k)' = Current(k)
    BY DEF Current
  <1>4. \A c \in CallsOf(k) : c \in Calls
    BY OwnerIs
  <1>5. PICK c : c = Current(k)
    OBVIOUS
  <1>6. ToldTruth(k)'
    <2>1. ASSUME told[k] = "done"
          PROVE  Succeeded(Current(k))'
      <3>1. c \in Calls /\ Succeeded(c)
        BY <1>0, <1>5, <2>1, CurrentIs DEF HasCalled, ToldTruth
      <3>2. Succeeded(c)'
        BY <3>1, SucceededStays
      <3> QED
        BY <1>3, <1>5, <3>2 DEF Succeeded, Delivered
    <2>2. told[k] = "refused" => \A d \in CallsOf(k) : Hopeless(d)'
      BY <1>0, <1>4, HopelessStays DEF ToldTruth
    <2> QED
      BY <2>1, <2>2 DEF ToldTruth, CallsOf
  <1>7. ConflictExplained(k)'
    <2>1. ASSUME conflicts[k] > 0, NEW d \in CallsOf(k)
          PROVE  Shut(d)' \/ Happened(d)'
      BY <1>0, <1>4, <2>1, ShutStays, HappenedStays DEF ConflictExplained
    <2>2. ASSUME conflicts[k] > 0, waits[k], Contesting(Current(k))'
          PROVE  Hopeless(Current(k))'
      <3>1. c \in Calls /\ c \in CallsOf(k)
        BY <1>0, <1>5, <2>2, CurrentIs DEF HasCalled
      <3>2. Contesting(c) => Hopeless(c)
        BY <1>0, <1>5, <2>2 DEF ConflictExplained
      <3>3. Shut(c) \/ Happened(c)
        BY <1>0, <2>2, <3>1 DEF ConflictExplained
      <3>4. Contesting(c)' => Hopeless(c)'
        BY <3>1, <3>2, <3>3, ContestStep
      <3>5. Contesting(c)'
        BY <1>3, <1>5, <2>2 DEF Contesting
      <3>6. Hopeless(c)'
        BY <3>4, <3>5
      <3> QED
        BY <1>3, <1>5, <3>6
           DEF Hopeless, Shut, Happened, Stored, Authorised
    <2> QED
      BY <2>1, <2>2 DEF ConflictExplained, CallsOf
  <1> QED
    BY <1>1, <1>2, <1>6, <1>7 DEF ClientOK

\* A client that makes its next call: the call starts afresh.
LEMMA TryOK ==
    ASSUME Base, OnceInv, NEW k \in Clients, Try(k)
    PROVE  /\ ClientOK(k)'
           /\ \A d \in Calls : pc[d] = "idle" /\ pc'[d] # "idle" => Known(d)'
  <1> USE DEF Base, OnceInv
  <1>0. PICK c : c = Attempts[k][tries[k] + 1]
    OBVIOUS
  <1>1. CanTry(k) /\ c \in Calls /\ Receive(c) /\ input' = input
    BY <1>0, NextAttemptIsACall DEF Try, Receive
  <1>2. [Next]_vars
    BY <1>1 DEF Next
  <1>3. /\ tries'[k] = tries[k] + 1 /\ tries[k] + 1 \in DOMAIN Attempts[k]
        /\ waits'[k] /\ conflicts'[k] = conflicts[k]
        /\ told'[k] = told[k] /\ told[k] = "nothing"
    BY ClientsAssumption DEF Try, CanTry, ClientTypeOK
  <1>4. Current(k)' = c
    BY <1>0, <1>3 DEF Current
  <1>5. /\ pc[c] = "idle" /\ pc'[c] = "waiting" /\ answer' = answer
        /\ requests' = requests
        /\ \A d \in Calls : d # c => pc'[d] = pc[d]
    BY <1>1 DEF Receive, Goto, IInv, TypeOK, tables
  <1>6. HasCalled(k)'
    BY <1>3 DEF HasCalled
  <1>7. EffectCounted(k)'
    BY <1>2, EffectCountedStep DEF ClientOK
  <1>8. ToldTruth(k)'
    BY <1>3 DEF ToldTruth
  <1>9. ConflictExplained(k)'
    <2>1. ASSUME conflicts[k] > 0, NEW d \in CallsOf(k)
          PROVE  Shut(d)' \/ Happened(d)'
      BY <1>2, <2>1, OwnerIs, ShutStays, HappenedStays
         DEF ConflictExplained, ClientOK
    <2>2. answer[c].code # 409
      <3>1. answer[c].why = "none"
        BY <1>1, <1>5 DEF SuccessInv, AnswerInv
      <3>2. CodeSaysWhy(c)
        BY <1>1 DEF CallOK
      <3> QED
        BY <3>1, <3>2 DEF CodeSaysWhy, Status, Decisions
    <2>3. ~Contesting(Current(k))'
      BY <1>4, <1>5, <2>2 DEF Contesting
    <2> QED
      BY <1>3, <2>1, <2>3 DEF ConflictExplained, CallsOf
  <1>10. Known(c)'
    <2> SUFFICES ASSUME input[c].op # "create"
                 PROVE  \E r \in requests : r.id = input[c].target
      BY <1>1, <1>5 DEF Known
    <2>1. PICK l \in Clients : /\ told[l] = "done"
                               /\ answer[Current(l)].body.id = input[c].target
      BY <1>0, <1>1 DEF CanTry, KnowsRequest
    <2>2. Current(l) \in Calls /\ Succeeded(Current(l))
      BY <2>1, CurrentIs DEF ClientOK, HasCalled, ToldTruth
    <2>3. PICK r \in requests : Follows(r, answer[Current(l)].body)
      BY <2>2, SucceededSettled DEF Backed
    <2> QED
      BY <2>1, <2>3 DEF Follows
  <1> QED
    BY <1>5, <1>6, <1>7, <1>8, <1>9, <1>10 DEF ClientOK

\* What the answer is worth that a client hears.
LEMMA Heard ==
    ASSUME Base, OnceInv, NEW k \in Clients, waits[k], Delivered(Current(k))
    PROVE  LET c == Current(k)
           IN  /\ answer[c].code \in {200, 201} => Succeeded(c)
               /\ answer[c].code \in {403, 404} =>
                    \A d \in CallsOf(k) : Hopeless(d)
               /\ answer[c].code = 409 =>
                    \A d \in CallsOf(k) : Shut(d) \/ Happened(d)
               /\ answer[c].code = 409 /\ conflicts[k] > 0 =>
                    \A d \in CallsOf(k) : Hopeless(d)
  <1> USE DEF Base, OnceInv
  <1>1. PICK c : c = Current(k)
    OBVIOUS
  <1>2. c \in Calls /\ Owner(c) = k
    BY <1>1, CurrentIs DEF ClientOK, HasCalled
  <1>3. CodeSaysWhy(c) /\ RightlyRefused(c)
    BY <1>2 DEF CallOK
  <1>4. ASSUME NEW d \in CallsOf(k)
        PROVE  /\ Shut(c) <=> Shut(d)
               /\ Happened(c) <=> Happened(d)
    <2>1. d \in Calls /\ Owner(d) = k
      BY OwnerIs
    <2> QED
      BY <1>2, <2>1, SameIntention
  <1>5. answer[c].code \in {200, 201} => Succeeded(c)
    BY <1>1, <1>3 DEF CodeSaysWhy, Succeeded
  <1>6. answer[c].code \in {403, 404} => Hopeless(c)
    BY <1>3 DEF RightlyRefused
  <1>7. ASSUME answer[c].code = 409
        PROVE  Shut(c) \/ Happened(c)
    <2>1. CASE answer[c].why \in Status
      <3>1. PICK r \in Addressed(c) : r.status # "pending"
        BY <1>1, <1>2, <2>1 DEF RefusalsAreReal
      <3> QED
        BY <3>1 DEF Shut, Addressed
    <2>2. CASE answer[c].why \in {"reused", "busy"}
      BY <1>1, <1>2, <2>2 DEF RefusalsAreReal, Happened
    <2> QED
      BY <1>3, <1>7, <2>1, <2>2 DEF CodeSaysWhy
  <1>8. answer[c].code = 409 /\ conflicts[k] > 0 => Hopeless(c)
    BY <1>1 DEF ClientOK, ConflictExplained, Contesting
  <1> QED
    BY <1>1, <1>4, <1>5, <1>6, <1>7, <1>8 DEF Hopeless

\* A client that hears an answer is told the truth, or asks again.
LEMMA HearOK ==
    ASSUME Base, OnceInv, NEW k \in Clients, Hear(k)
    PROVE  ClientOK(k)'
  <1> USE DEF Base, OnceInv
  <1>0. /\ waits[k] /\ Delivered(Current(k)) /\ UNCHANGED vars
        /\ tries' = tries /\ waits' = [waits EXCEPT ![k] = FALSE]
    BY DEF Hear, HearConflict, Tell, TryAgain
  <1>1. /\ [Next]_vars
        /\ tries'[k] = tries[k] /\ ~waits'[k] /\ told[k] = "nothing"
    BY <1>0 DEF ClientTypeOK, ClientOK, HasCalled
  <1>2. CASE told'[k] = told[k] /\ conflicts'[k] = conflicts[k]
    BY <1>1, <1>2, ClientStands
  <1>3. EffectCounted(k)'
    BY <1>1, EffectCountedStep DEF ClientOK
  <1>4. PICK c : c = Current(k)
    OBVIOUS
  <1>5. /\ tries[k] \in DOMAIN Attempts[k]
        /\ c \in Calls
        /\ Current(k)' = c
    BY <1>0, <1>1, <1>4, CurrentIs DEF ClientOK, HasCalled, Current
  <1>6. HasCalled(k)'
    BY <1>1, <1>5 DEF HasCalled
  <1>7. \A d \in CallsOf(k) : /\ Shut(d) => Shut(d)'
                              /\ Happened(d) => Happened(d)'
                              /\ Hopeless(d) => Hopeless(d)'
    BY <1>1, OwnerIs, ShutStays, HappenedStays, HopelessStays
  <1>8. CASE answer[c].code \in {200, 201} /\ Tell(k, "done")
    <2>1. told'[k] = "done" /\ conflicts'[k] = conflicts[k]
      BY <1>8 DEF Tell, ClientTypeOK
    <2>2. Succeeded(c)'
      BY <1>0, <1>1, <1>4, <1>5, <1>8, Heard, SucceededStays
    <2>3. ToldTruth(k)'
      BY <1>5, <2>1, <2>2 DEF ToldTruth, Succeeded, Delivered
    <2>4. ConflictExplained(k)'
      BY <1>1, <1>7, <2>1 DEF ConflictExplained, ClientOK, CallsOf
    <2> QED
      BY <1>3, <1>6, <2>3, <2>4 DEF ClientOK
  <1>9. CASE /\ \/ answer[c].code \in {403, 404}
                \/ answer[c].code = 409 /\ conflicts[k] > 0
             /\ Tell(k, "refused")
    <2>1. told'[k] = "refused" /\ conflicts'[k] = conflicts[k]
      BY <1>9 DEF Tell, ClientTypeOK
    <2>2. \A d \in CallsOf(k) : Hopeless(d)'
      BY <1>0, <1>4, <1>7, <1>9, Heard
    <2>3. ToldTruth(k)'
      BY <2>1, <2>2 DEF ToldTruth, CallsOf
    <2>4. ConflictExplained(k)'
      BY <1>1, <1>7, <2>1 DEF ConflictExplained, ClientOK, CallsOf
    <2> QED
      BY <1>3, <1>6, <2>3, <2>4 DEF ClientOK
  <1>10. CASE answer[c].code = 409 /\ told' = told
    <2>1. \A d \in CallsOf(k) : Shut(d)' \/ Happened(d)'
      BY <1>0, <1>4, <1>7, <1>10, Heard
    <2>2. ToldTruth(k)'
      BY <1>1, <1>10 DEF ToldTruth
    <2>3. ConflictExplained(k)'
      BY <1>1, <2>1 DEF ConflictExplained, CallsOf
    <2> QED
      BY <1>3, <1>6, <2>2, <2>3 DEF ClientOK
  <1>11. CASE TryAgain(k)
    BY <1>2, <1>11 DEF TryAgain
  <1>12. HearConflict(k) =>
           \/ answer[c].code = 409 /\ conflicts[k] > 0 /\ Tell(k, "refused")
           \/ answer[c].code = 409 /\ told' = told
    BY <1>4 DEF HearConflict
  <1> QED
    BY <1>4, <1>8, <1>9, <1>10, <1>11, <1>12 DEF Hear

\* A call that works or fails wakes no other.
LEMMA OneCallMoves ==
    ASSUME TypeOK, NEW c \in Calls, Step(c) \/ Failure(c),
           NEW d \in Calls, pc[d] = "idle"
    PROVE  pc'[d] = "idle"
  <1> USE DEF Goto, Refuse
  <1>0. \E Labels : pc \in [Calls -> Labels]
    BY DEF TypeOK
  <1>1. \E label : pc[c] # "idle" /\ pc' = [pc EXCEPT ![c] = label]
    <2>1. CASE Begin(c) \/ KeyIsNew(c) \/ KeyReused(c) \/ Replay(c)
      BY <2>1 DEF Begin, KeyIsNew, KeyReused, Replay
    <2>2. CASE StoreKey(c) \/ KeyBusy(c) \/ InsertRequest(c) \/ RequestMissing(c)
      BY <2>2 DEF StoreKey, KeyBusy, InsertRequest, RequestMissing
    <2>3. CASE GetRequest(c) \/ NotAuthorised(c) \/ Authorise(c)
      BY <2>3 DEF GetRequest, NotAuthorised, Authorise
    <2>4. CASE WinTransition(c) \/ LoseTransition(c) \/ ReportConflict(c)
      BY <2>4 DEF WinTransition, LoseTransition, ReportConflict
    <2>5. CASE Respond(c) \/ Commit(c)
      BY <2>5 DEF Respond, Commit
    <2>6. CASE Failure(c)
      BY <2>6 DEF Failure, Fail, LoseCommitAck, Crash, LoseCommit, Working
    <2> QED
      BY <2>1, <2>2, <2>3, <2>4, <2>5, <2>6 DEF Step
  <1> QED
    BY <1>0, <1>1

-----------------------------------------------------------------------------
(* The invariant.                                                          *)

LEMMA OnceInit ==
    ASSUME KeysPerIntention, ClientInit
    PROVE  OnceInv
  <1>1. InputsOK
    BY InputsInit
  <1>2. \A c \in Calls : CallOK(c)
    <2>1. \A c \in Calls : pc[c] = "idle" /\ answer[c].code = 0
      BY DEF ClientInit, Blank, NoAnswer
    <2>2. keys = {}
      BY DEF ClientInit, Blank
    <2> TAKE c \in Calls
    <2>3. Known(c) /\ CodeSaysWhy(c) /\ RightlyRefused(c)
      BY <2>1 DEF Known, CodeSaysWhy, RightlyRefused
    <2>4. RightlyDecided(c)
      BY <2>2 DEF RightlyDecided, Happened, Stored
    <2> QED
      BY <2>3, <2>4 DEF CallOK
  <1>3. \A k \in Clients : ClientOK(k)
    <2> TAKE k \in Clients
    <2>1. HasCalled(k) /\ ToldTruth(k) /\ ConflictExplained(k)
      BY DEF ClientInit, HasCalled, ToldTruth, ConflictExplained
    <2>2. Effects[k] = 0
      <3>1. {e \in audit : e.id \in CallsOf(k)} = {}
        BY DEF ClientInit, Blank
      <3> QED
        BY <3>1, FS_EmptySet DEF Effects
    <2>3. \A c \in CallsOf(k) : ~Happened(c)
      BY DEF ClientInit, Blank, Happened, Stored
    <2> QED
      BY <2>1, <2>2, <2>3 DEF ClientOK, EffectCounted
  <1> QED
    BY <1>1, <1>2, <1>3 DEF OnceInv

LEMMA OnceStep ==
    ASSUME Base, OnceInv, [ClientNext]_allVars
    PROVE  OnceInv'
  <1> USE DEF Base
  <1>0. [Next]_vars /\ input' = input
    BY ClientStepIsServiceStep, TablesStep
  <1>1. InputsOK'
    BY <1>0 DEF OnceInv, InputsOK
  <1>2. ASSUME \A d \in Calls : pc[d] = "idle" /\ pc'[d] # "idle" => Known(d)'
        PROVE  \A d \in Calls : CallOK(d)'
    BY <1>0, <1>2, CallStep DEF OnceInv
  <1>3. ASSUME NEW k \in Clients, Try(k) PROVE OnceInv'
    <2>1. \A d \in Calls : CallOK(d)'
      BY <1>2, <1>3, TryOK
    <2>2. ASSUME NEW l \in Clients PROVE ClientOK(l)'
      <3>1. CASE l = k
        BY <1>3, <3>1, TryOK
      <3>2. CASE l # k
        BY <1>0, <1>3, <3>2, ClientStands DEF Try, ClientTypeOK
      <3> QED BY <3>1, <3>2
    <2> QED
      BY <1>1, <2>1, <2>2 DEF OnceInv
  <1>4. ASSUME NEW k \in Clients, Hear(k) PROVE OnceInv'
    <2>1. \A d \in Calls : CallOK(d)'
      BY <1>2, <1>4 DEF Hear, vars
    <2>2. ASSUME NEW l \in Clients PROVE ClientOK(l)'
      <3>1. CASE l = k
        BY <1>4, <3>1, HearOK
      <3>2. CASE l # k
        BY <1>0, <1>4, <3>2, ClientStands
           DEF Hear, HearConflict, Tell, TryAgain, ClientTypeOK
      <3> QED BY <3>1, <3>2
    <2> QED
      BY <1>1, <2>1, <2>2 DEF OnceInv
  <1>5. ASSUME \A d \in Calls : pc[d] = "idle" => pc'[d] = "idle",
               tries' = tries, told' = told, conflicts' = conflicts,
               \A l \in Clients : waits'[l] => waits[l]
        PROVE  OnceInv'
    <2>1. \A d \in Calls : CallOK(d)'
      BY <1>2, <1>5
    <2>2. \A l \in Clients : ClientOK(l)'
      BY <1>0, <1>5, ClientStands
    <2> QED
      BY <1>1, <2>1, <2>2 DEF OnceInv
  <1>6. ASSUME NEW k \in Clients, HearLoss(k) \/ TimeOut(k) PROVE OnceInv'
    BY <1>5, <1>6 DEF HearLoss, TimeOut, TryAgain, ClientTypeOK, vars
  <1>7. ASSUME NEW c \in Calls, Serve(c) \/ Break(c) PROVE OnceInv'
    <2>1. Step(c) \/ Failure(c)
      BY <1>7 DEF Serve, Break
    <2> QED
      BY <1>5, <1>7, <2>1, OneCallMoves DEF IInv, Serve, Break, patience
  <1>8. CASE UNCHANGED allVars
    BY <1>5, <1>8 DEF allVars, patience, vars
  <1> QED
    BY <1>3, <1>4, <1>6, <1>7, <1>8 DEF ClientNext, ClientStep, AllTold

-----------------------------------------------------------------------------
(* The refinement.                                                         *)

\* A step of the service is the one effect of an intention that was told
\* nothing yet, or no step at all.
LEMMA ServiceStepIsOnce ==
    ASSUME Base, OnceInv, [Next]_vars, told' = told
    PROVE  [O!OnceNext]_(O!once)
  <1> USE DEF Base, OnceInv
  <1>1. CASE Effects' = Effects
    BY <1>1 DEF O!once
  <1>2. ASSUME NEW d \in Calls, NotYet(d), pc[d] # "flush",
               session[d] # EmptySession, Publish(d),
               Effects[Owner(d)] = 0,
               Effects' = [Effects EXCEPT ![Owner(d)] = 1]
        PROVE  O!OnceNext
    <2> DEFINE k == Owner(d)
    <2>1. k \in Clients /\ d \in CallsOf(k)
      BY Owned
    <2>2. ~Shut(d)
      BY <1>2, WriterIsFirst
    <2>3. told[k] # "refused"
      BY <2>1, <2>2 DEF ClientOK, ToldTruth, Hopeless
    <2>4. told[k] # "done"
      <3> SUFFICES ASSUME told[k] = "done" PROVE FALSE
        OBVIOUS
      <3>1. PICK c \in Calls : Owner(c) = k /\ Succeeded(c)
        BY <2>1, CurrentIs DEF ClientOK, HasCalled, ToldTruth
      <3> QED
        BY <1>2, <3>1, SucceededHappened, WriterIsFirst
    <2>5. told[k] = "nothing"
      BY <2>1, <2>3, <2>4 DEF ClientTypeOK
    <2>6. O!TakeEffect(k)
      BY <1>2, <2>5 DEF O!TakeEffect
    <2> QED
      BY <2>1, <2>6 DEF O!OnceNext
  <1> QED
    BY <1>1, <1>2, EffectsStep

\* A client that is told something is told so once and for all.
LEMMA HearIsOnce ==
    ASSUME Base, OnceInv, NEW k \in Clients, Hear(k)
    PROVE  [O!OnceNext]_(O!once)
  <1> USE DEF Base, OnceInv
  <1>0. /\ waits[k] /\ Delivered(Current(k)) /\ UNCHANGED vars
        /\ told[k] = "nothing"
    BY DEF Hear, ClientOK, HasCalled
  <1>1. Effects' = Effects
    BY <1>0 DEF vars, Effects
  <1>2. Current(k) \in Calls /\ Current(k) \in CallsOf(k)
    BY <1>0, CurrentIs DEF ClientOK, HasCalled
  <1>3. CASE answer[Current(k)].code \in {200, 201} /\ Tell(k, "done")
    <2>1. Happened(Current(k))
      BY <1>0, <1>2, <1>3, Heard, SucceededHappened
    <2>2. Effects[k] = 1
      BY <1>2, <2>1 DEF ClientOK, EffectCounted
    <2>3. O!Tell(k, "done")
      BY <1>0, <1>1, <1>3, <2>2 DEF O!Tell, Tell
    <2> QED
      BY <2>3 DEF O!OnceNext
  <1>4. CASE /\ \/ answer[Current(k)].code \in {403, 404}
                \/ answer[Current(k)].code = 409 /\ conflicts[k] > 0
             /\ Tell(k, "refused")
    <2>1. \A c \in CallsOf(k) : ~Happened(c)
      BY <1>0, <1>4, Heard DEF Hopeless
    <2>2. Effects[k] = 0
      BY <2>1 DEF ClientOK, EffectCounted
    <2>3. O!Tell(k, "refused")
      BY <1>0, <1>1, <1>4, <2>2 DEF O!Tell, Tell
    <2> QED
      BY <2>3 DEF O!OnceNext
  <1>5. CASE told' = told
    BY <1>1, <1>5 DEF O!once
  <1> QED
    BY <1>3, <1>4, <1>5 DEF Hear, HearConflict, TryAgain

LEMMA StepIsOnce ==
    ASSUME Base, OnceInv, [ClientNext]_allVars
    PROVE  [O!OnceNext]_(O!once)
  <1> USE DEF Base
  <1>1. [Next]_vars
    BY ClientStepIsServiceStep
  <1>2. told' = told \/ \E k \in Clients : Hear(k)
    BY DEF ClientNext, ClientStep, AllTold, Try, HearLoss, TimeOut, TryAgain,
       Serve, Break, patience, allVars
  <1> QED
    BY <1>1, <1>2, ServiceStepIsOnce, HearIsOnce

\* With the commit before the response and a key for every intention, as the
\* README asks of clients: however calls are retried, overlap, time out, fail
\* and are answered, each intention takes effect at most once, has taken effect
\* when its client is told so, and never does once it is told to be refused.
THEOREM EffectsExactlyOnce ==
    ASSUME ~ExitAfterResponse, KeysPerIntention
    PROVE  ClientSpec => ImplementsExactlyOnce
  <1>1. ClientInit => OnceInv
    BY OnceInit
  <1>2. Base /\ OnceInv /\ [ClientNext]_allVars => OnceInv'
    BY OnceStep
  <1>3. OnceInv /\ ClientInit => O!OnceInit
    <2> SUFFICES ASSUME OnceInv, ClientInit PROVE O!OnceInit
      OBVIOUS
    <2>1. \A k \in Clients : Effects[k] = 0
      <3> TAKE k \in Clients
      <3>1. \A c \in CallsOf(k) : ~Happened(c)
        BY DEF ClientInit, Blank, Happened, Stored
      <3> QED
        BY <3>1 DEF OnceInv, ClientOK, EffectCounted
    <2>2. Effects = [k \in Clients |-> 0]
      BY <2>1 DEF Effects
    <2> QED
      BY <2>2 DEF O!OnceInit, ClientInit
  <1>4. Base /\ OnceInv /\ [ClientNext]_allVars => [O!OnceNext]_(O!once)
    BY StepIsOnce
  <1>5. ClientSpec => []Base
    <2>1. IInv /\ SuccessInv /\ RefusalsAreReal /\ KeyStoredWithEffect
            /\ ClientTypeOK => Base
      BY DEF Base
    <2> QED
      BY <2>1, SuccessInvariant, RefusalsNameTheTruth, KeysAndEffectsTogether,
         ClientsTyped, ClientsRunTheService, PTL
  <1> QED
    BY <1>1, <1>2, <1>3, <1>4, <1>5, PTL
       DEF ClientSpec, ImplementsExactlyOnce, O!OnceSpec

=============================================================================
