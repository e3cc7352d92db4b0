------------------------ MODULE RequestPipelineProofs ------------------------
(***************************************************************************)
(* Theorems about RequestPipeline, for any number of calls of any shape    *)
(* and any size of the pool.                                               *)
(***************************************************************************)
EXTENDS RequestPipeline, TLAPS

\* Each layer knows what the layers before it have let through.
ChecksPassed(c) ==
    /\ pc[c] \in {"workspace", "action", "validation", "handler"} => Authenticated(c)
    /\ pc[c] \in {"action", "validation", "handler"} => OwnWorkspace(c)
    /\ pc[c] \in {"validation", "handler"} => HasAction(c)
    /\ pc[c] = "closing" => c \in connected
    /\ pc[c] = "raised" \/ c \in connected => Entitled(c)

\* The context variable in the two tasks of a call.
ContextOK(c) ==
    /\ pc[c] # "sent" => inner[c] = RequestId(c)
    /\ pc[c] \in {"closing", "raised"} => outer[c] = None

Tagged(c) == answer[c].request_id = IF answer[c].code = 500
                                    THEN None ELSE RequestId(c)

Check(layer) == layer \in {"body", "auth", "workspace", "action"}

ToldByACheck(c) == Check(answer[c].by)

\* An answer on its way out, sent, or, before an exception, not given.
AnswerOK(c) ==
    /\ pc[c] \notin {"leaving", "closing", "done", "raised"} => answer[c] = None
    /\ pc[c] = "leaving" => answer[c] \in Answer /\ answer[c].code # 500
    /\ pc[c] \in {"closing", "done"} => answer[c] \in Answer /\ Tagged(c)
    /\ pc[c] = "raised" => answer[c] = None \/ (answer[c] \in Answer /\ Tagged(c))
    /\ pc[c] \in {"leaving", "closing", "done"} /\ ~Entitled(c) => ToldByACheck(c)

CallOK(c) == ChecksPassed(c) /\ ContextOK(c) /\ AnswerOK(c)

LinesOK ==
    \A l \in lines :
        l.request_id = IF l.message = "Unhandled exception" THEN None
                       ELSE IF l.message = "approval request"
                            THEN http[l.call].target
                            ELSE RequestId(l.call)

PipelineInv ==
    /\ PipelineTypeOK
    /\ \A c \in Calls : CallOK(c)
    /\ LinesOK

-----------------------------------------------------------------------------

AnswerOf(k, layer) == [code |-> k, by |-> layer, request_id |-> None]

HandlerAnswers == {AnswerOf(200, "handler"), AnswerOf(403, "handler"),
                   AnswerOf(404, "handler"), AnswerOf(409, "handler")}

LineOf(c, message, tag) == [call |-> c, message |-> message, request_id |-> tag]

\* A call's id is its own or the one it sent.
LEMMA RequestIdType ==
    ASSUME http \in [Calls -> Http], NEW c \in Calls
    PROVE  RequestId(c) \in Calls \cup Given
  BY DEF RequestId, Http

\* What a call is does not change.
LEMMA SameCall ==
    ASSUME http' = http, NEW c \in Calls
    PROVE  /\ RequestId(c)' = RequestId(c)
           /\ Authenticated(c)' = Authenticated(c)
           /\ OwnWorkspace(c)' = OwnWorkspace(c)
           /\ HasAction(c)' = HasAction(c)
           /\ Entitled(c)' = Entitled(c)
  BY DEF RequestId, Authenticated, OwnWorkspace, HasAction, Entitled

\* A call that takes no part in a step keeps what is true of it.
LEMMA OthersKeep ==
    ASSUME NEW c \in Calls, CallOK(c), http' = http,
           pc'[c] = pc[c], inner'[c] = inner[c], outer'[c] = outer[c],
           answer'[c] = answer[c], c \in connected' <=> c \in connected
    PROVE  CallOK(c)'
  BY SameCall
  DEF CallOK, ChecksPassed, ContextOK, AnswerOK, Tagged, ToldByACheck

\* The invariant holds at the start.
LEMMA PipelineInitInv == Init => PipelineInv
  <1> SUFFICES ASSUME Init PROVE PipelineInv OBVIOUS
  <1>1. http \in [Calls -> Http]
    <2>1. PICK f \in [Calls -> UNION {Shapes[c] : c \in Calls}] :
            f = http /\ \A c \in Calls : f[c] \in Shapes[c]
      BY DEF Init
    <2>2. \A c \in Calls : http[c] \in Http
      BY <2>1, PipelineAssumption
    <2> QED BY <2>1, <2>2
  <1>2. PipelineTypeOK
    BY <1>1 DEF Init, PipelineTypeOK
  <1> QED
    BY <1>2 DEF Init, PipelineInv, CallOK, ChecksPassed, ContextOK, AnswerOK, LinesOK

-----------------------------------------------------------------------------

\* A call that passes a check.
LEMMA PassInv ==
    ASSUME PipelineInv, NEW c \in Calls,
           \/ BodyRead(c) \/ CredentialsGood(c) \/ WorkspaceGood(c) \/ ActionHeld(c)
    PROVE  PipelineInv'
  <1>1. PipelineTypeOK'
    BY DEF PipelineInv, PipelineTypeOK, BodyRead, CredentialsGood, WorkspaceGood,
           ActionHeld, Pass, Goto
  <1>2. /\ http' = http /\ inner' = inner /\ outer' = outer
        /\ answer' = answer /\ connected' = connected /\ lines' = lines
        /\ \A d \in Calls \ {c} : pc'[d] = pc[d]
    BY DEF PipelineInv, PipelineTypeOK, BodyRead, CredentialsGood, WorkspaceGood,
           ActionHeld, Pass, Goto
  <1>3. CallOK(c)'
    <2>1. /\ pc[c] \in {"body", "credentials", "workspace", "action"}
          /\ pc'[c] \in {"credentials", "workspace", "action", "validation"}
          /\ pc'[c] \in {"workspace", "action", "validation"} => Authenticated(c)
          /\ pc'[c] \in {"action", "validation"} => OwnWorkspace(c)
          /\ pc'[c] = "validation" => HasAction(c)
      BY DEF PipelineInv, PipelineTypeOK, CallOK, ChecksPassed, BodyRead,
             CredentialsGood, WorkspaceGood, ActionHeld, Pass, Goto
    <2> QED
      BY <1>2, <2>1, SameCall
      DEF PipelineInv, CallOK, ChecksPassed, ContextOK, AnswerOK, Entitled
  <1>4. \A d \in Calls \ {c} : CallOK(d)'
    BY <1>2, OthersKeep DEF PipelineInv
  <1>5. LinesOK'
    BY <1>2, SameCall DEF PipelineInv, PipelineTypeOK, LinesOK, Line
  <1> QED
    BY <1>1, <1>3, <1>4, <1>5 DEF PipelineInv

\* A call that enters: the id is set in both tasks.
LEMMA EnterInv ==
    ASSUME PipelineInv, NEW c \in Calls, Enter(c)
    PROVE  PipelineInv'
  <1>1. PipelineTypeOK'
    BY RequestIdType DEF PipelineInv, PipelineTypeOK, Enter, Goto
  <1>2. /\ http' = http /\ answer' = answer /\ connected' = connected /\ lines' = lines
        /\ \A d \in Calls \ {c} :
             pc'[d] = pc[d] /\ inner'[d] = inner[d] /\ outer'[d] = outer[d]
        /\ pc[c] = "sent" /\ pc'[c] = "body" /\ inner'[c] = RequestId(c)
    BY DEF PipelineInv, PipelineTypeOK, Enter, Goto
  <1>3. CallOK(c)'
    BY <1>2, SameCall
    DEF PipelineInv, CallOK, ChecksPassed, ContextOK, AnswerOK
  <1>4. \A d \in Calls \ {c} : CallOK(d)'
    BY <1>2, OthersKeep DEF PipelineInv
  <1>5. LinesOK'
    BY <1>2, SameCall DEF PipelineInv, PipelineTypeOK, LinesOK, Line
  <1> QED
    BY <1>1, <1>3, <1>4, <1>5 DEF PipelineInv

\* The answers and lines that the layers make.
LEMMA AnswerTypes ==
    /\ \A a \in HandlerAnswers : a \in Answer /\ a.code # 500
    /\ AnswerOf(422, "validation") \in Answer /\ AnswerOf(422, "validation").code # 500
    /\ \A b \in {<<400, "body">>, <<422, "body">>, <<401, "auth">>,
                 <<403, "workspace">>, <<403, "action">>} :
         LET a == AnswerOf(b[1], b[2]) IN
           a \in Answer /\ a.code # 500 /\ Check(a.by)
  BY DEF Answer, Codes, AnswerOf, HandlerAnswers, Check

LEMMA LineTypes ==
    ASSUME PipelineInv, NEW c \in Calls
    PROVE  /\ LineOf(c, "authentication failed", inner[c]) \in Line
           /\ LineOf(c, "workspace mismatch", inner[c]) \in Line
           /\ LineOf(c, "missing required action", inner[c]) \in Line
  <1>1. inner[c] \in Calls \cup Given \cup {None}
    BY DEF PipelineInv, PipelineTypeOK
  <1> QED
    BY <1>1 DEF Line, LineOf

\* A line that a call writes with the id in its own task.
LEMMA LogInv ==
    ASSUME PipelineInv, NEW c \in Calls, pc[c] # "sent", http' = http,
           NEW text, text # "Unhandled exception", text # "approval request",
           LineOf(c, text, inner[c]) \in Line,
           lines' = lines \cup {LineOf(c, text, inner[c])}
    PROVE  lines' \subseteq Line /\ LinesOK'
  <1>1. lines' \subseteq Line
    BY DEF PipelineInv, PipelineTypeOK
  <1>2. \A l \in lines' : RequestId(l.call)' = RequestId(l.call)
    BY <1>1, SameCall DEF Line
  <1>3. LET l == LineOf(c, text, inner[c]) IN
          l.call = c /\ l.message = text /\ l.request_id = inner[c]
    BY DEF LineOf
  <1>4. inner[c] = RequestId(c)
    BY DEF PipelineInv, CallOK, ContextOK
  <1>5. \A l \in lines' :
          l.request_id = IF l.message = "Unhandled exception" THEN None
                         ELSE IF l.message = "approval request"
                              THEN http[l.call].target
                              ELSE RequestId(l.call)
    BY <1>3, <1>4 DEF PipelineInv, LinesOK
  <1> QED
    BY <1>1, <1>2, <1>5 DEF LinesOK

\* Nothing is logged.
LEMMA SilentInv ==
    ASSUME PipelineInv, http' = http, lines' = lines
    PROVE  lines' \subseteq Line /\ LinesOK'
  BY SameCall DEF PipelineInv, PipelineTypeOK, LinesOK, Line

\* An answer made inside the application, by whatever layer.
LEMMA ProduceInv ==
    ASSUME PipelineInv, NEW c \in Calls, pc[c] # "sent",
           NEW a \in Answer, a.code # 500, Entitled(c) \/ Check(a.by),
           pc' = [pc EXCEPT ![c] = "leaving"],
           answer' = [answer EXCEPT ![c] = a],
           connected' = connected \/ connected' = connected \ {c},
           http' = http, outer' = outer, inner' = inner,
           lines' \subseteq Line, LinesOK'
    PROVE  PipelineInv'
  <1>2. inner[c] = RequestId(c)
    BY DEF PipelineInv, CallOK, ContextOK
  <1>3. PipelineTypeOK'
    BY DEF PipelineInv, PipelineTypeOK
  <1>4. /\ \A d \in Calls \ {c} : pc'[d] = pc[d] /\ answer'[d] = answer[d]
                                /\ (d \in connected' <=> d \in connected)
        /\ pc'[c] = "leaving" /\ answer'[c] = a
    BY DEF PipelineInv, PipelineTypeOK
  <1>5. CallOK(c)'
    <2>1. ChecksPassed(c)'
      BY <1>4, SameCall DEF PipelineInv, CallOK, ChecksPassed
    <2>2. ContextOK(c)'
      BY <1>2, <1>4, SameCall DEF ContextOK
    <2>3. AnswerOK(c)'
      <3>1. Check(answer'[c].by) \/ Entitled(c)
        BY <1>4
      <3>2. ToldByACheck(c)' <=> Check(answer'[c].by)
        BY DEF ToldByACheck, Check
      <3> QED
        BY <1>4, <3>1, <3>2, SameCall DEF AnswerOK
    <2> QED BY <2>1, <2>2, <2>3 DEF CallOK
  <1>6. \A d \in Calls \ {c} : CallOK(d)'
    BY <1>4, OthersKeep DEF PipelineInv
  <1> QED
    BY <1>3, <1>5, <1>6 DEF PipelineInv

\* A refusal by one of the checks, or of the body or the parameters.
LEMMA RefuseInv ==
    ASSUME PipelineInv, NEW c \in Calls,
           \/ BadJson(c) \/ BadBody(c) \/ NoCredentials(c)
           \/ OtherWorkspace(c) \/ ActionMissing(c) \/ Invalid(c)
    PROVE  PipelineInv'
  <1>1. CASE BadJson(c)
    <2> DEFINE a == AnswerOf(422, "body")
    <2>1. /\ pc[c] # "sent"
          /\ pc' = [pc EXCEPT ![c] = "leaving"]
          /\ answer' = [answer EXCEPT ![c] = a]
          /\ lines' = lines
          /\ connected' = connected
          /\ http' = http /\ outer' = outer /\ inner' = inner
      BY <1>1 DEF BadJson, Refuse, Produce, Goto, AnswerOf
    <2>2. lines' \subseteq Line /\ LinesOK'
      BY <2>1, SilentInv
    <2>3. a \in Answer /\ a.code # 500 /\ Check(a.by)
      BY AnswerTypes
    <2> HIDE DEF a
    <2> QED BY <2>1, <2>2, <2>3, ProduceInv
  <1>2. CASE NoCredentials(c)
    <2> DEFINE a == AnswerOf(401, "auth")
    <2>1. /\ pc[c] # "sent"
          /\ pc' = [pc EXCEPT ![c] = "leaving"]
          /\ answer' = [answer EXCEPT ![c] = a]
          /\ lines' = lines \cup {LineOf(c, "authentication failed", inner[c])}
          /\ connected' = connected
          /\ http' = http /\ outer' = outer /\ inner' = inner
      BY <1>2 DEF NoCredentials, RefuseAndLog, Log, LineOf, Produce, Goto, AnswerOf
    <2>2. lines' \subseteq Line /\ LinesOK'
      BY <2>1, LineTypes, LogInv
    <2>3. a \in Answer /\ a.code # 500 /\ Check(a.by)
      BY AnswerTypes
    <2> HIDE DEF a
    <2> QED BY <2>1, <2>2, <2>3, ProduceInv
  <1>3. CASE OtherWorkspace(c)
    <2> DEFINE a == AnswerOf(403, "workspace")
    <2>1. /\ pc[c] # "sent"
          /\ pc' = [pc EXCEPT ![c] = "leaving"]
          /\ answer' = [answer EXCEPT ![c] = a]
          /\ lines' = lines \cup {LineOf(c, "workspace mismatch", inner[c])}
          /\ connected' = connected
          /\ http' = http /\ outer' = outer /\ inner' = inner
      BY <1>3 DEF OtherWorkspace, RefuseAndLog, Log, LineOf, Produce, Goto, AnswerOf
    <2>2. lines' \subseteq Line /\ LinesOK'
      BY <2>1, LineTypes, LogInv
    <2>3. a \in Answer /\ a.code # 500 /\ Check(a.by)
      BY AnswerTypes
    <2> HIDE DEF a
    <2> QED BY <2>1, <2>2, <2>3, ProduceInv
  <1>4. CASE ActionMissing(c)
    <2> DEFINE a == AnswerOf(403, "action")
    <2>1. /\ pc[c] # "sent"
          /\ pc' = [pc EXCEPT ![c] = "leaving"]
          /\ answer' = [answer EXCEPT ![c] = a]
          /\ lines' = lines \cup {LineOf(c, "missing required action", inner[c])}
          /\ connected' = connected
          /\ http' = http /\ outer' = outer /\ inner' = inner
      BY <1>4 DEF ActionMissing, RefuseAndLog, Log, LineOf, Produce, Goto, AnswerOf
    <2>2. lines' \subseteq Line /\ LinesOK'
      BY <2>1, LineTypes, LogInv
    <2>3. a \in Answer /\ a.code # 500 /\ Check(a.by)
      BY AnswerTypes
    <2> HIDE DEF a
    <2> QED BY <2>1, <2>2, <2>3, ProduceInv
  <1>5. CASE Invalid(c)
    <2> DEFINE a == AnswerOf(422, "validation")
    <2>1. /\ pc[c] # "sent"
          /\ pc' = [pc EXCEPT ![c] = "leaving"]
          /\ answer' = [answer EXCEPT ![c] = a]
          /\ lines' = lines
          /\ connected' = connected
          /\ http' = http /\ outer' = outer /\ inner' = inner
      BY <1>5 DEF Invalid, Refuse, Produce, Goto, AnswerOf
    <2>2. lines' \subseteq Line /\ LinesOK'
      BY <2>1, SilentInv
    <2>3. Entitled(c)
      BY <1>5 DEF PipelineInv, CallOK, ChecksPassed, Invalid, Entitled
    <2>4. a \in Answer /\ a.code # 500
      BY AnswerTypes
    <2> HIDE DEF a
    <2> QED BY <2>1, <2>2, <2>3, <2>4, ProduceInv
  <1>6. CASE BadBody(c)
    <2> DEFINE a == AnswerOf(400, "body")
    <2>1. /\ pc[c] # "sent"
          /\ pc' = [pc EXCEPT ![c] = "leaving"]
          /\ answer' = [answer EXCEPT ![c] = a]
          /\ lines' = lines
          /\ connected' = connected
          /\ http' = http /\ outer' = outer /\ inner' = inner
      BY <1>6 DEF BadBody, Refuse, Produce, Goto, AnswerOf
    <2>2. lines' \subseteq Line /\ LinesOK'
      BY <2>1, SilentInv
    <2>3. a \in Answer /\ a.code # 500 /\ Check(a.by)
      BY AnswerTypes
    <2> HIDE DEF a
    <2> QED BY <2>1, <2>2, <2>3, ProduceInv
  <1> QED
    BY <1>1, <1>2, <1>3, <1>4, <1>5, <1>6

\* An answer of the handler.
LEMMA HandlerInv ==
    ASSUME PipelineInv, NEW c \in Calls, Return(c) \/ DomainError(c)
    PROVE  PipelineInv'
  <1>1. pc[c] # "sent" /\ Entitled(c)
    BY DEF PipelineInv, CallOK, ChecksPassed, Return, DomainError, Entitled
  <1>2. /\ pc' = [pc EXCEPT ![c] = "leaving"]
        /\ \E a \in HandlerAnswers : answer' = [answer EXCEPT ![c] = a]
    BY DEF Return, DomainError, Produce, Goto, AnswerOf, HandlerAnswers
  <1>3. PICK a \in HandlerAnswers : answer' = [answer EXCEPT ![c] = a]
    BY <1>2
  <1>4. a \in Answer /\ a.code # 500
    BY AnswerTypes
  <1>5. lines' = lines /\ http' = http /\ outer' = outer /\ inner' = inner
    BY DEF Return, DomainError
  <1>6. connected' = connected \/ connected' = connected \ {c}
    BY DEF Return, DomainError
  <1>7. lines' \subseteq Line /\ LinesOK'
    BY <1>5, SilentInv
  <1> QED
    BY <1>1, <1>2, <1>3, <1>4, <1>5, <1>6, <1>7, ProduceInv

-----------------------------------------------------------------------------

\* The handler takes a connection, or logs what it did.
LEMMA ConnectInv ==
    ASSUME PipelineInv, NEW c \in Calls, Connect(c) \/ Report(c)
    PROVE  PipelineInv'
  <1>1. /\ http' = http /\ inner' = inner /\ outer' = outer /\ answer' = answer
        /\ \A d \in Calls \ {c} : pc'[d] = pc[d] /\ (d \in connected' <=> d \in connected)
        /\ pc[c] \in {"validation", "handler"} /\ pc'[c] = "handler"
    BY DEF PipelineInv, PipelineTypeOK, Connect, Report, Goto
  <1>2. inner[c] = RequestId(c) /\ Entitled(c)
    BY <1>1 DEF PipelineInv, CallOK, ChecksPassed, ContextOK, Entitled
  <1>3. PipelineTypeOK'
    <2>1. CASE Connect(c)
      BY <2>1 DEF PipelineInv, PipelineTypeOK, Connect, Goto
    <2>2. CASE Report(c)
      <3>1. http[c].target \in Requests
        BY DEF PipelineInv, PipelineTypeOK, Http
      <3>2. LineOf(c, "approval request", http[c].target) \in Line
        BY <3>1 DEF Line, LineOf
      <3>3. http[c].target # None
        BY <3>1, PipelineAssumption
      <3> QED
        BY <2>2, <3>2, <3>3 DEF PipelineInv, PipelineTypeOK, Report, Log, LineOf
    <2> QED BY <2>1, <2>2
  <1>4. CallOK(c)'
    BY <1>1, <1>2, SameCall
    DEF PipelineInv, CallOK, ChecksPassed, ContextOK, AnswerOK, Entitled
  <1>5. \A d \in Calls \ {c} : CallOK(d)'
    BY <1>1, OthersKeep DEF PipelineInv
  <1>6. LinesOK'
    <2>1. \A l \in lines' : RequestId(l.call)' = RequestId(l.call)
      BY <1>1, <1>3, SameCall DEF PipelineTypeOK, Line
    <2>2. \/ lines' = lines
          \/ lines' = lines \cup {LineOf(c, "approval request", http[c].target)}
      <3>1. http[c].target # None
        BY PipelineAssumption DEF PipelineInv, PipelineTypeOK, Http
      <3> QED BY <3>1 DEF Connect, Report, Log, LineOf
    <2>3. LET l == LineOf(c, "approval request", http[c].target) IN
            /\ l.call = c /\ l.message = "approval request"
            /\ l.request_id = http[c].target
      BY DEF LineOf
    <2> QED
      BY <1>1, <2>1, <2>2, <2>3 DEF PipelineInv, LinesOK
  <1> QED
    BY <1>3, <1>4, <1>5, <1>6 DEF PipelineInv

\* The middleware sends the response and its header.
LEMMA LeaveInv ==
    ASSUME PipelineInv, NEW c \in Calls, Leave(c)
    PROVE  PipelineInv'
  <1>1. /\ http' = http /\ inner' = inner /\ connected' = connected /\ lines' = lines
        /\ \A d \in Calls \ {c} :
             pc'[d] = pc[d] /\ outer'[d] = outer[d] /\ answer'[d] = answer[d]
        /\ pc[c] = "leaving" /\ pc'[c] \in {"closing", "done"} /\ outer'[c] = None
        /\ pc'[c] = "closing" => c \in connected
        /\ answer'[c] = [answer[c] EXCEPT !.request_id = RequestId(c)]
    BY DEF PipelineInv, PipelineTypeOK, Leave, Goto
  <1>2. answer[c] \in Answer /\ answer[c].code # 500
    BY <1>1 DEF PipelineInv, CallOK, AnswerOK
  <1>3. RequestId(c) \in Calls \cup Given
    BY RequestIdType DEF PipelineInv, PipelineTypeOK
  <1>4. /\ answer'[c] \in Answer
        /\ answer'[c].code = answer[c].code /\ answer'[c].by = answer[c].by
        /\ answer'[c].request_id = RequestId(c)
    BY <1>1, <1>2, <1>3 DEF Answer, Codes
  <1>5. PipelineTypeOK'
    BY <1>1, <1>4 DEF PipelineInv, PipelineTypeOK, Leave, Goto
  <1>6. CallOK(c)'
    <2>1. ChecksPassed(c)'
      BY <1>1, SameCall DEF PipelineInv, CallOK, ChecksPassed
    <2>2. ContextOK(c)'
      BY <1>1, SameCall DEF PipelineInv, CallOK, ContextOK
    <2>3. ~Entitled(c) => Check(answer'[c].by)
      BY <1>1, <1>4 DEF PipelineInv, CallOK, AnswerOK, ToldByACheck
    <2>4. Tagged(c)'
      <3>1. RequestId(c)' = RequestId(c)
        BY <1>1, SameCall
      <3>2. answer'[c].request_id = RequestId(c)' /\ answer'[c].code # 500
        BY <1>2, <1>4, <3>1
      <3> QED BY <3>2 DEF Tagged
    <2>5. ToldByACheck(c)' <=> Check(answer'[c].by)
      BY DEF ToldByACheck, Check
    <2>6. AnswerOK(c)'
      BY <1>1, <1>4, <2>3, <2>4, <2>5, SameCall DEF AnswerOK
    <2> QED BY <2>1, <2>2, <2>6 DEF CallOK
  <1>7. \A d \in Calls \ {c} : CallOK(d)'
    BY <1>1, OthersKeep DEF PipelineInv
  <1>8. LinesOK'
    BY <1>1, SameCall DEF PipelineInv, PipelineTypeOK, LinesOK, Line
  <1> QED
    BY <1>5, <1>6, <1>7, <1>8 DEF PipelineInv

\* The session's end, or an exception on the way out.
LEMMA EndInv ==
    ASSUME PipelineInv, NEW c \in Calls, Raise(c) \/ Close(c)
    PROVE  PipelineInv'
  <1>1. /\ http' = http /\ inner' = inner /\ answer' = answer /\ lines' = lines
        /\ \A d \in Calls \ {c} : pc'[d] = pc[d] /\ outer'[d] = outer[d]
                                /\ (d \in connected' <=> d \in connected)
        /\ c \notin connected'
    BY DEF PipelineInv, PipelineTypeOK, Raise, Close, Goto
  <1>2. PipelineTypeOK'
    BY DEF PipelineInv, PipelineTypeOK, Raise, Close, Goto
  <1>3. CallOK(c)'
    <2>1. CASE Raise(c)
      <3>1. /\ pc[c] \in {"validation", "handler"} /\ pc'[c] = "raised"
            /\ outer'[c] = None
        BY <2>1 DEF PipelineInv, PipelineTypeOK, Raise, Goto
      <3>2. answer[c] = None
        BY <3>1 DEF PipelineInv, CallOK, AnswerOK
      <3> QED
        BY <1>1, <3>1, <3>2, SameCall
        DEF PipelineInv, CallOK, ChecksPassed, ContextOK, AnswerOK, Entitled
    <2>2. CASE Close(c)
      <3>1. /\ pc[c] = "closing" /\ pc'[c] \in {"raised", "done"}
            /\ outer'[c] = outer[c]
        BY <2>2 DEF PipelineInv, PipelineTypeOK, Close, Goto
      <3>2. outer[c] = None /\ Entitled(c) /\ answer[c] \in Answer /\ Tagged(c)
        BY <3>1 DEF PipelineInv, CallOK, ChecksPassed, ContextOK, AnswerOK
      <3> QED
        BY <1>1, <3>1, <3>2, SameCall
        DEF PipelineInv, CallOK, ChecksPassed, ContextOK, AnswerOK, Tagged
    <2> QED BY <2>1, <2>2
  <1>4. \A d \in Calls \ {c} : CallOK(d)'
    BY <1>1, OthersKeep DEF PipelineInv
  <1>5. LinesOK'
    BY <1>1, SameCall DEF PipelineInv, PipelineTypeOK, LinesOK, Line
  <1> QED
    BY <1>2, <1>3, <1>4, <1>5 DEF PipelineInv

\* The handler of last resort.
LEMMA ServerErrorInv ==
    ASSUME PipelineInv, NEW c \in Calls, ServerError(c)
    PROVE  PipelineInv'
  <1> DEFINE a == [code |-> 500, by |-> "server", request_id |-> None]
  <1>1. /\ http' = http /\ inner' = inner /\ outer' = outer /\ connected' = connected
        /\ \A d \in Calls \ {c} : pc'[d] = pc[d] /\ answer'[d] = answer[d]
        /\ pc[c] = "raised" /\ pc'[c] = "done"
        /\ answer'[c] = IF answer[c] = None THEN a ELSE answer[c]
    BY DEF PipelineInv, PipelineTypeOK, ServerError, Goto
  <1>2. Entitled(c) /\ outer[c] = None
    BY <1>1 DEF PipelineInv, CallOK, ChecksPassed, ContextOK
  <1>3. a \in Answer
    BY DEF Answer, Codes
  <1>4. LineOf(c, "Unhandled exception", None) \in Line
    BY DEF LineOf, Line
  <1>5. lines' = lines \cup {LineOf(c, "Unhandled exception", None)}
    BY <1>2 DEF ServerError, Log, LineOf
  <1>6. PipelineTypeOK'
    <2>1. lines' \subseteq Line
      BY <1>4, <1>5 DEF PipelineInv, PipelineTypeOK
    <2> QED
      BY <1>3, <2>1 DEF PipelineInv, PipelineTypeOK, ServerError, Goto
  <1>7. CallOK(c)'
    <2>1. ChecksPassed(c)' /\ ContextOK(c)'
      BY <1>1, <1>2, SameCall DEF PipelineInv, CallOK, ChecksPassed, ContextOK
    <2>2. AnswerOK(c)'
      BY <1>1, <1>2, <1>3, SameCall DEF PipelineInv, CallOK, AnswerOK, Tagged
    <2> QED BY <2>1, <2>2 DEF CallOK
  <1>8. \A d \in Calls \ {c} : CallOK(d)'
    BY <1>1, OthersKeep DEF PipelineInv
  <1>9. LinesOK'
    <2>1. \A l \in lines' : RequestId(l.call)' = RequestId(l.call)
      BY <1>1, <1>6, SameCall DEF PipelineTypeOK, Line
    <2>2. LET l == LineOf(c, "Unhandled exception", None) IN
            l.message = "Unhandled exception" /\ l.request_id = None
      BY DEF LineOf
    <2> QED
      BY <1>1, <1>5, <2>1, <2>2 DEF PipelineInv, LinesOK
  <1> QED
    BY <1>6, <1>7, <1>8, <1>9 DEF PipelineInv

\* Every step keeps the invariant.
LEMMA PipelineStepInv == PipelineInv /\ [Next]_vars => PipelineInv'
  <1> SUFFICES ASSUME PipelineInv, [Next]_vars PROVE PipelineInv' OBVIOUS
  <1>1. ASSUME NEW c \in Calls, Local(c) PROVE PipelineInv'
    BY <1>1, EnterInv, PassInv, RefuseInv, LeaveInv, ServerErrorInv DEF Local
  <1>2. ASSUME NEW c \in Calls, Database(c) PROVE PipelineInv'
    BY <1>2, ConnectInv, HandlerInv, EndInv DEF Database
  <1>3. CASE UNCHANGED vars
    <2>1. \A c \in Calls : CallOK(c)'
      BY <1>3, OthersKeep DEF PipelineInv, vars
    <2>2. PipelineTypeOK' /\ LinesOK'
      BY <1>3, SameCall DEF PipelineInv, PipelineTypeOK, LinesOK, Line, vars
    <2> QED BY <2>1, <2>2 DEF PipelineInv
  <1> QED
    BY <1>1, <1>2, <1>3 DEF Next, AllDone

-----------------------------------------------------------------------------

\* The invariant holds for any number of calls, of any shape.
THEOREM PipelineInvariant == Spec => []PipelineInv
  BY PipelineInitInv, PipelineStepInv, PTL DEF Spec

\* The variables keep their types.
THEOREM PipelineTyped == Spec => []PipelineTypeOK
  <1>1. PipelineInv => PipelineTypeOK
    BY DEF PipelineInv
  <1> QED BY <1>1, PipelineInvariant, PTL

\* The context variable never carries one call's id into another's lines.
THEOREM TagsNeverCross == Spec => []TagsMatch
  <1>1. PipelineInv => TagsMatch
    BY DEF PipelineInv, CallOK, AnswerOK, Tagged, LinesOK, TagsMatch, Answered
  <1> QED BY <1>1, PipelineInvariant, PTL

\* Who may not make a call is answered by a check of the caller.
THEOREM NothingForOutsiders == Spec => []OutsidersLearnNothing
  <1>1. PipelineInv => OutsidersLearnNothing
    BY DEF PipelineInv, CallOK, AnswerOK, ToldByACheck, Check,
           OutsidersLearnNothing, Answered
  <1> QED BY <1>1, PipelineInvariant, PTL

-----------------------------------------------------------------------------
(* Why refusals are answered.                                              *)

\* The guards of Local(c): each check refuses or passes, the last one refuses
\* what is not valid.
CanGoOn(c) ==
    \/ pc[c] \in {"sent", "body", "credentials", "workspace", "action",
                  "leaving", "raised"}
    \/ pc[c] = "validation" /\ ~http[c].valid

RefusalsStayLocal ==
    \A c \in Calls : Refused(c) => /\ c \notin connected
                                   /\ Answered(c) \/ CanGoOn(c)

BodyGood(c) == HasBody(http[c].op) => http[c].body = "json"

\* The database is for calls that have passed everything.
DatabaseIsBehindChecks ==
    \A c \in Calls :
        /\ pc[c] \in {"credentials", "workspace", "action", "validation"} =>
             BodyGood(c)
        /\ pc[c] \in {"handler", "closing", "raised"} \/ c \in connected =>
             ~Refused(c)

\* The layers in the order in which a call comes to them.
Depth(layer) ==
    CASE layer = "sent" -> 0
      [] layer = "body" -> 1
      [] layer = "credentials" -> 2
      [] layer = "workspace" -> 3
      [] layer = "action" -> 4
      [] layer = "validation" -> 5
      [] layer = "handler" -> 6
      [] layer = "leaving" -> 7
      [] layer = "closing" -> 8
      [] layer = "raised" -> 9
      [] layer = "done" -> 10

LayersGoForward ==
    [][\A c \in Calls : \/ pc'[c] = pc[c]
                        \/ Depth(pc'[c]) > Depth(pc[c])]_vars

\* Where a step takes a call through the layers, and the others nowhere.
LEMMA LayerStep ==
    ASSUME PipelineTypeOK, NEW c \in Calls, Local(c) \/ Database(c)
    PROVE  /\ http' = http
           /\ \A d \in Calls : d # c => /\ pc'[d] = pc[d]
                                        /\ d \in connected' => d \in connected
           /\ \/ pc[c] = "sent" /\ pc'[c] = "body"
              \/ pc[c] = "body" /\ pc'[c] = "credentials" /\ BodyGood(c)
              \/ pc[c] = "credentials" /\ pc'[c] = "workspace"
              \/ pc[c] = "workspace" /\ pc'[c] = "action"
              \/ pc[c] = "action" /\ pc'[c] = "validation"
              \/ /\ pc[c] \in {"body", "credentials", "workspace", "action"}
                 /\ pc'[c] = "leaving"
              \/ pc[c] = "validation" /\ pc'[c] = "leaving"
              \/ /\ pc[c] = "validation" /\ http[c].valid
                 /\ pc'[c] \in {"handler", "raised"}
              \/ /\ pc[c] = "handler"
                 /\ pc'[c] \in {"handler", "leaving", "raised"}
              \/ pc[c] = "leaving" /\ pc'[c] = "closing" /\ c \in connected
              \/ pc[c] = "closing" /\ pc'[c] = "raised"
              \/ pc[c] \in {"leaving", "closing", "raised"} /\ pc'[c] = "done"
           /\ \/ c \in connected' => c \in connected
              \/ pc'[c] = "handler"
  <1> USE DEF PipelineTypeOK, Goto
  <1>1. CASE Enter(c)
    BY <1>1 DEF Enter
  <1>2. CASE BodyRead(c) \/ CredentialsGood(c) \/ WorkspaceGood(c)
               \/ ActionHeld(c)
    BY <1>2 DEF BodyRead, CredentialsGood, WorkspaceGood, ActionHeld, Pass,
       BodyGood
  <1>3. CASE BadJson(c) \/ BadBody(c) \/ Invalid(c)
    BY <1>3 DEF BadJson, BadBody, Invalid, Refuse, Produce
  <1>4. CASE NoCredentials(c) \/ OtherWorkspace(c) \/ ActionMissing(c)
    BY <1>4 DEF NoCredentials, OtherWorkspace, ActionMissing, RefuseAndLog,
       Produce
  <1>5. CASE Leave(c) \/ ServerError(c)
    BY <1>5 DEF Leave, ServerError
  <1>6. CASE Connect(c) \/ Report(c) \/ Raise(c)
    BY <1>6 DEF Connect, Report, Raise
  <1>7. CASE Return(c) \/ DomainError(c)
    BY <1>7 DEF Return, DomainError, Produce
  <1>8. CASE Close(c)
    BY <1>8 DEF Close
  <1> QED
    BY <1>1, <1>2, <1>3, <1>4, <1>5, <1>6, <1>7, <1>8 DEF Local, Database

\* Only what every check has let through comes to the database.
LEMMA DatabaseStep ==
    ASSUME PipelineInv, DatabaseIsBehindChecks, [Next]_vars
    PROVE  DatabaseIsBehindChecks'
  <1>1. ASSUME NEW c \in Calls, Local(c) \/ Database(c)
        PROVE  DatabaseIsBehindChecks'
    <2>1. PipelineTypeOK /\ http' = http
      BY <1>1, LayerStep DEF PipelineInv
    <2>2. \A d \in Calls : /\ BodyGood(d)' <=> BodyGood(d)
                           /\ Refused(d)' <=> Refused(d)
      BY <2>1, SameCall DEF BodyGood, Refused
    <2>3. pc[c] = "validation" /\ http[c].valid => ~Refused(c)
      BY DEF PipelineInv, CallOK, ChecksPassed, DatabaseIsBehindChecks,
         Refused, BodyGood, Entitled
    <2>4. \A d \in Calls : d # c => /\ pc'[d] = pc[d]
                                    /\ d \in connected' => d \in connected
      BY <1>1, <2>1, LayerStep
    <2>5. pc'[c] \in {"credentials", "workspace", "action", "validation"}
          => BodyGood(c)
      BY <1>1, <2>1, LayerStep DEF DatabaseIsBehindChecks
    <2>6. pc'[c] \in {"handler", "closing", "raised"} => ~Refused(c)
      BY <1>1, <2>1, <2>3, LayerStep DEF DatabaseIsBehindChecks
    <2>7. c \in connected' => ~Refused(c)
      BY <1>1, <2>1, <2>6, LayerStep DEF DatabaseIsBehindChecks
    <2> QED
      BY <2>2, <2>4, <2>5, <2>6, <2>7 DEF DatabaseIsBehindChecks
  <1>2. CASE UNCHANGED vars
    BY <1>2, SameCall DEF vars, DatabaseIsBehindChecks, BodyGood, Refused
  <1> QED
    BY <1>1, <1>2 DEF Next, AllDone

\* A call that no handler will see never takes a connection, and until it is
\* answered its next step is one that needs none: so a pool that never gives a
\* connection back cannot hold a refusal up.
THEOREM RefusalsNeverWait == Spec => []RefusalsStayLocal
  <1>1. Init => DatabaseIsBehindChecks
    BY DEF Init, DatabaseIsBehindChecks
  <1>2. PipelineInv /\ DatabaseIsBehindChecks /\ [Next]_vars
        => DatabaseIsBehindChecks'
    BY DatabaseStep
  <1>3. PipelineInv /\ DatabaseIsBehindChecks => RefusalsStayLocal
    <2> SUFFICES ASSUME PipelineInv, DatabaseIsBehindChecks,
                        NEW c \in Calls, Refused(c)
                 PROVE  c \notin connected /\ (Answered(c) \/ CanGoOn(c))
      BY DEF RefusalsStayLocal
    <2>1. c \notin connected
          /\ pc[c] \notin {"handler", "closing", "raised"}
      BY DEF DatabaseIsBehindChecks
    <2>2. pc[c] = "validation" => ~http[c].valid
      BY DEF PipelineInv, CallOK, ChecksPassed, DatabaseIsBehindChecks,
         Refused, BodyGood, Entitled
    <2> QED
      BY <2>1, <2>2 DEF PipelineInv, PipelineTypeOK, Answered, CanGoOn
  <1> QED
    BY <1>1, <1>2, <1>3, PipelineInvariant, PTL DEF Spec

\* No call comes back to a layer it has left: no layer retries.
THEOREM LayersOnlyGoForward == Spec => LayersGoForward
  <1>1. ASSUME PipelineInv, [Next]_vars, NEW c \in Calls
        PROVE  pc'[c] = pc[c] \/ Depth(pc'[c]) > Depth(pc[c])
    <2>0. /\ Depth("sent") = 0 /\ Depth("body") = 1 /\ Depth("credentials") = 2
          /\ Depth("workspace") = 3 /\ Depth("action") = 4
          /\ Depth("validation") = 5 /\ Depth("handler") = 6
          /\ Depth("leaving") = 7 /\ Depth("closing") = 8
          /\ Depth("raised") = 9 /\ Depth("done") = 10
      BY DEF Depth
    <2>1. CASE Local(c) \/ Database(c)
      BY <1>1, <2>0, <2>1, LayerStep DEF PipelineInv
    <2>2. ASSUME NEW d \in Calls, d # c, Local(d) \/ Database(d)
          PROVE  pc'[c] = pc[c]
      BY <1>1, <2>2, LayerStep DEF PipelineInv
    <2>3. CASE UNCHANGED vars
      BY <2>3 DEF vars
    <2> QED
      BY <1>1, <2>1, <2>2, <2>3 DEF Next, AllDone
  <1>2. ASSUME PipelineInv, [Next]_vars
        PROVE  \A c \in Calls : \/ pc'[c] = pc[c]
                                \/ Depth(pc'[c]) > Depth(pc[c])
    BY <1>1, <1>2
  <1> QED
    BY <1>2, PipelineInvariant, PTL DEF Spec, LayersGoForward

=============================================================================
