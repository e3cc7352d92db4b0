--------------------------- MODULE RequestPipeline ---------------------------
(***************************************************************************)
(* The way of a call through the layers around its handler: Starlette's    *)
(* ServerErrorMiddleware, then RequestIdMiddleware, then the exception     *)
(* handlers, then FastAPI, which decodes the body, resolves the            *)
(* dependencies (credentials, workspace, action), reports what failed      *)
(* validation, and runs the handler.  What the handler does is             *)
(* ApprovalService's matter: here it returns or raises.                    *)
(*                                                                         *)
(* request_id_var is a context variable.  The middleware sets it in the    *)
(* task of the connection; the application runs in a task of its own, with *)
(* a copy of the context as it was when that task was created.             *)
(***************************************************************************)
EXTENDS Naturals, FiniteSets

CONSTANTS
    Calls,
    Workspaces,
    None,        \* no header, no context variable, no answer
    Garbage,     \* an Authorization header that is no principal's
    Given,       \* values of X-Request-Id that callers send
    Requests,    \* identifiers of approval requests
    Shapes,      \* what each call may look like
    PoolSize

VARIABLES
    http,        \* what call c sends, chosen once
    pc,          \* which layer call c is in
    outer,       \* request_id_var in the task of the connection
    inner,       \* request_id_var in the task of the application
    connected,   \* the calls that hold a connection
    answer,      \* the response: its code, who gave it, its X-Request-Id
    lines        \* the log: call, message and tag

vars == <<http, pc, outer, inner, connected, answer, lines>>

-----------------------------------------------------------------------------
(* Calls and principals.                                                   *)

Op == {"list", "get", "create", "approve", "reject", "cancel"}

Action == {"read", "create", "decide", "cancel"}

Principal == [workspace_id : Workspaces, actions : SUBSET Action]

\* A body that is JSON, text that is not, or bytes that are no text at all.
Body == {"json", "malformed", "undecodable"}

Http ==
    [ op            : Op,
      workspace_id  : Workspaces,                       \* in the path
      target        : Requests,           \* in the path, or made by a create
      authorization : Principal \cup {None, Garbage},
      body          : Body,
      valid         : BOOLEAN,              \* the body's fields and parameters
      request_id    : Given \cup {None} ]               \* X-Request-Id

ASSUME PipelineAssumption ==
    /\ PoolSize \in Nat \ {0}
    /\ Shapes \in [Calls -> SUBSET Http]
    /\ None \notin Calls \cup Given \cup Requests
    /\ Calls \cap Given = {}

\* request.headers.get(_HEADER) or str(uuid.uuid4()): what is minted for c is
\* written c.
RequestId(c) == IF http[c].request_id = None THEN c ELSE http[c].request_id

HasBody(op) == op \notin {"list", "get"}

\* The dependency that each route names: require_read, require_create, ...
RequiredAction(op) == CASE op \in {"list", "get"}       -> "read"
                        [] op = "create"                -> "create"
                        [] op \in {"approve", "reject"} -> "decide"
                        [] op = "cancel"                -> "cancel"

\* StubAuthProvider.authenticate: missing, of another scheme, undecodable or
\* without the fields of a Principal is all the same InvalidCredentialsError.
Authenticated(c) == http[c].authorization \in Principal

OwnWorkspace(c) == http[c].authorization.workspace_id = http[c].workspace_id

HasAction(c) == RequiredAction(http[c].op) \in http[c].authorization.actions

\* Which layer answers what.
Codes == [ body       |-> {400, 422},
           auth       |-> {401},
           workspace  |-> {403},
           action     |-> {403},
           validation |-> {422},
           handler    |-> {200, 403, 404, 409},
           server     |-> {500} ]

Answer == { a \in [ code : Nat, by : DOMAIN Codes,
                    request_id : Calls \cup Given \cup {None} ] :
              a.code \in Codes[a.by] }

Line == [ call : Calls,
          message : {"authentication failed", "workspace mismatch",
                     "missing required action", "approval request",
                     "Unhandled exception"},
          request_id : Calls \cup Given \cup Requests \cup {None} ]

-----------------------------------------------------------------------------
(* What the layers do.                                                     *)

Goto(c, layer) == pc' = [pc EXCEPT ![c] = layer]

\* JSONFormatter.format: request_id is the context variable of the task that
\* logs, unless the line's own context has a field of that name, which is
\* written over it (payload.update).
Log(c, message, variable, context) ==
    lines' = lines \cup
        {[call |-> c, message |-> message,
          request_id |-> IF context = None THEN variable ELSE context]}

\* A response inside the application, on its way out through the middleware.
Produce(c, code, by) ==
    /\ Goto(c, "leaving")
    /\ answer' = [answer EXCEPT ![c] = [code |-> code, by |-> by,
                                        request_id |-> None]]

\* An HTTPException or RequestValidationError of a dependency: a problem
\* document by its exception handler.
Refuse(c, code, by) ==
    /\ Produce(c, code, by)
    /\ UNCHANGED <<http, outer, inner, connected, lines>>

RefuseAndLog(c, code, by, message) ==
    /\ Produce(c, code, by)
    /\ Log(c, message, inner[c], None)
    /\ UNCHANGED <<http, outer, inner, connected>>

Pass(c, from, to) ==
    /\ pc[c] = from
    /\ Goto(c, to)
    /\ UNCHANGED <<http, outer, inner, connected, answer, lines>>

-----------------------------------------------------------------------------

\* Mutant of Enter: the request id in a global variable.
Enter_Global(c) ==
    /\ pc[c] = "sent"
    /\ outer' = [d \in Calls |-> RequestId(c)]
    /\ inner' = [d \in Calls |-> RequestId(c)]
    /\ Goto(c, "body")
    /\ UNCHANGED <<http, connected, answer, lines>>

\* RequestIdMiddleware.dispatch up to call_next, which starts the task of the
\* application.
Enter(c) ==
    /\ pc[c] = "sent"
    /\ outer' = [outer EXCEPT ![c] = RequestId(c)]
    /\ inner' = [inner EXCEPT ![c] = RequestId(c)]
    /\ Goto(c, "body")
    /\ UNCHANGED <<http, connected, answer, lines>>

\* FastAPI decodes the body before it looks at any dependency.  What is no JSON
\* is a validation error.
BadJson(c) ==
    /\ pc[c] = "body"
    /\ HasBody(http[c].op) /\ http[c].body = "malformed"
    /\ Refuse(c, 422, "body")

\* Any other failure to read it is an HTTPException.
BadBody(c) ==
    /\ pc[c] = "body"
    /\ HasBody(http[c].op) /\ http[c].body = "undecodable"
    /\ Refuse(c, 400, "body")

BodyRead(c) ==
    /\ Pass(c, "body", "credentials")
    /\ HasBody(http[c].op) => http[c].body = "json"

\* Mutant of NoCredentials: the session's connection is opened first.
NoCredentials_Connected(c) ==
    /\ pc[c] = "credentials"
    /\ ~Authenticated(c)
    /\ Cardinality(connected) < PoolSize
    /\ RefuseAndLog(c, 401, "auth", "authentication failed")

\* get_principal.
NoCredentials(c) ==
    /\ pc[c] = "credentials"
    /\ ~Authenticated(c)
    /\ RefuseAndLog(c, 401, "auth", "authentication failed")

CredentialsGood(c) ==
    /\ Pass(c, "credentials", "workspace")
    /\ Authenticated(c)

\* require_action: the workspace in the path first, then the action.
OtherWorkspace(c) ==
    /\ pc[c] = "workspace"
    /\ ~OwnWorkspace(c)
    /\ RefuseAndLog(c, 403, "workspace", "workspace mismatch")

\* Mutant of WorkspaceGood: the action is all that is checked.
WorkspaceGood_Any(c) == Pass(c, "workspace", "action")

WorkspaceGood(c) ==
    /\ Pass(c, "workspace", "action")
    /\ OwnWorkspace(c)

ActionMissing(c) ==
    /\ pc[c] = "action"
    /\ ~HasAction(c)
    /\ RefuseAndLog(c, 403, "action", "missing required action")

\* get_db opens a session, which takes no connection yet.
ActionHeld(c) ==
    /\ Pass(c, "action", "validation")
    /\ HasAction(c)

\* What failed validation was collected along the way and is reported now.
Invalid(c) ==
    /\ pc[c] = "validation"
    /\ ~http[c].valid
    /\ Refuse(c, 422, "validation")

\* The handler's first statement takes a connection.
Connect(c) ==
    /\ pc[c] = "validation"
    /\ http[c].valid
    /\ Cardinality(connected) < PoolSize
    /\ connected' = connected \cup {c}
    /\ Goto(c, "handler")
    /\ UNCHANGED <<http, outer, inner, answer, lines>>

\* The handler of a create or a decision, once it has made its change, logs it
\* with the approval request's id, under the name request_id.
Report(c) ==
    /\ pc[c] = "handler"
    /\ HasBody(http[c].op)
    /\ Log(c, "approval request", inner[c], http[c].target)
    /\ UNCHANGED <<http, pc, outer, inner, connected, answer>>

\* The handler returns; its session is closed after the response was sent.
Return(c) ==
    /\ pc[c] = "handler"
    /\ Produce(c, 200, "handler")
    /\ UNCHANGED <<http, outer, inner, connected, lines>>

\* Mutant of DomainError: conflicts by the wrong status.
DomainError_BadRequest(c) ==
    /\ pc[c] = "handler"
    /\ \E code \in {400, 403, 404} : Produce(c, code, "handler")
    /\ connected' = connected \ {c}
    /\ UNCHANGED <<http, outer, inner, lines>>

\* A domain exception: get_db rolls back, then its handler answers.
DomainError(c) ==
    /\ pc[c] = "handler"
    /\ \E code \in {403, 404, 409} : Produce(c, code, "handler")
    /\ connected' = connected \ {c}
    /\ UNCHANGED <<http, outer, inner, lines>>

\* Any other exception, that of a pool that stays empty included, leaves the
\* application, through the finally of the middleware, which resets the
\* variable of the outer task.
Raise(c) ==
    /\ pc[c] = "handler" \/ (pc[c] = "validation" /\ http[c].valid)
    /\ Goto(c, "raised")
    /\ outer' = [outer EXCEPT ![c] = None]
    /\ connected' = connected \ {c}
    /\ UNCHANGED <<http, inner, answer, lines>>

\* Mutant of Leave: the middleware answers with an id of its own.
Leave_NewId(c) ==
    /\ pc[c] = "leaving"
    /\ outer' = [outer EXCEPT ![c] = None]
    /\ answer' = [answer EXCEPT ![c].request_id = c]
    /\ Goto(c, IF c \in connected THEN "closing" ELSE "done")
    /\ UNCHANGED <<http, inner, connected, lines>>

\* The rest of dispatch: reset, set the header, send the response.
Leave(c) ==
    /\ pc[c] = "leaving"
    /\ outer' = [outer EXCEPT ![c] = None]
    /\ answer' = [answer EXCEPT ![c].request_id = RequestId(c)]
    /\ Goto(c, IF c \in connected THEN "closing" ELSE "done")
    /\ UNCHANGED <<http, inner, connected, lines>>

\* get_db's exit, with the response on its way: COMMIT, or an exception of it.
Close(c) ==
    /\ pc[c] = "closing"
    /\ connected' = connected \ {c}
    /\ \/ Goto(c, "done")
       \/ Goto(c, "raised")
    /\ UNCHANGED <<http, outer, inner, answer, lines>>

\* ServerErrorMiddleware runs the handler for Exception: it logs, and answers
\* if no response has been started.
ServerError(c) ==
    /\ pc[c] = "raised"
    /\ Log(c, "Unhandled exception", outer[c], None)
    /\ answer' = IF answer[c] = None
                 THEN [answer EXCEPT ![c] = [code |-> 500, by |-> "server",
                                             request_id |-> None]]
                 ELSE answer
    /\ Goto(c, "done")
    /\ UNCHANGED <<http, outer, inner, connected>>

-----------------------------------------------------------------------------

Init ==
    /\ http \in {f \in [Calls -> UNION {Shapes[c] : c \in Calls}] :
                   \A c \in Calls : f[c] \in Shapes[c]}
    /\ pc = [c \in Calls |-> "sent"]
    /\ outer = [c \in Calls |-> None]
    /\ inner = [c \in Calls |-> None]
    /\ connected = {}
    /\ answer = [c \in Calls |-> None]
    /\ lines = {}

\* What the event loop does without the database.
Local(c) ==
    \/ Enter(c) \/ BadJson(c) \/ BadBody(c) \/ BodyRead(c)
    \/ NoCredentials(c) \/ CredentialsGood(c)
    \/ OtherWorkspace(c) \/ WorkspaceGood(c)
    \/ ActionMissing(c) \/ ActionHeld(c)
    \/ Invalid(c) \/ Leave(c) \/ ServerError(c)

Database(c) ==
    Connect(c) \/ Report(c) \/ Return(c) \/ DomainError(c) \/ Raise(c) \/ Close(c)

AllDone == (\A c \in Calls : pc[c] = "done") /\ UNCHANGED vars

Next == (\E c \in Calls : Local(c) \/ Database(c)) \/ AllDone

Spec == Init /\ [][Next]_vars

\* The event loop runs; the database need not.
LocalSpec == Spec /\ \A c \in Calls : WF_vars(Local(c))

-----------------------------------------------------------------------------
(* Properties.                                                             *)

\* The types of the variables.
PipelineTypeOK ==
    /\ http \in [Calls -> Http]
    /\ pc \in [Calls -> {"sent", "body", "credentials", "workspace", "action",
                         "validation", "handler", "leaving", "raised",
                         "closing", "done"}]
    /\ outer \in [Calls -> Calls \cup Given \cup {None}]
    /\ inner \in [Calls -> Calls \cup Given \cup {None}]
    /\ connected \subseteq Calls
    /\ answer \in [Calls -> Answer \cup {None}]
    /\ lines \subseteq Line

Answered(c) == pc[c] \in {"closing", "done"}

\* However calls interleave, a refusal is logged under the id of the call that
\* was refused, the same that its response carries.  The line about an unhandled
\* exception and the 500 have none, and a handler's line has the id of the
\* approval request in its place.
TagsMatch ==
    /\ \A l \in lines :
         l.request_id = IF l.message = "Unhandled exception" THEN None
                        ELSE IF l.message = "approval request"
                             THEN http[l.call].target
                             ELSE RequestId(l.call)
    /\ \A c \in Calls : Answered(c) =>
         answer[c].request_id = IF answer[c].code = 500
                                THEN None ELSE RequestId(c)

Entitled(c) == Authenticated(c) /\ OwnWorkspace(c) /\ HasAction(c)

\* Who may not make a call learns nothing by it: the answer comes from a check
\* of the caller, or says that the body cannot be read, and is never one that
\* depends on the parameters or on what is in the tables.
OutsidersLearnNothing ==
    \A c \in Calls : Answered(c) /\ ~Entitled(c) =>
        answer[c].by \in {"body", "auth", "workspace", "action"}

Refused(c) == ~Entitled(c) \/ ~http[c].valid
                           \/ (HasBody(http[c].op) /\ http[c].body # "json")

\* A call that no handler will see is answered even if the database never
\* gives back a connection.
RefusalsNeedNoDatabase ==
    \A c \in Calls : Refused(c) ~> Answered(c)

\* "Every response carries an X-Request-Id header" (README.md).
EveryResponseCarriesId ==
    \A c \in Calls : Answered(c) => answer[c].request_id = RequestId(c)

\* "Logs are single-line JSON to stdout, each one tagged with the request_id
\* of the request that produced it" (README.md): the lines about creates and
\* decisions.
HandlerLinesAreTagged ==
    \A l \in lines :
        l.message = "approval request" => l.request_id = RequestId(l.call)

=============================================================================
