--------------------------- MODULE MCRequestPipeline ---------------------------
(***************************************************************************)
(* An instance of RequestPipeline for TLC: three calls of all kinds, one   *)
(* connection.                                                             *)
(***************************************************************************)
EXTENDS RequestPipeline

CONSTANTS c1, c2, c3, w1, w2, x1, r1

Shape(op, auth, body, valid, id) ==
    [ op |-> op, workspace_id |-> w1, target |-> r1, authorization |-> auth,
      body |-> body, valid |-> valid, request_id |-> id ]

Caller(workspace, actions) == [workspace_id |-> workspace, actions |-> actions]

Creator == Caller(w1, {"read", "create", "cancel"})

\* Calls that reach their handler; calls that fail one check or several; a
\* caller's own request id.
MCShapes == [ c \in Calls |->
    CASE c = c1 -> {Shape("create", Creator, "json", TRUE, None),
                    Shape("list", Creator, "malformed", TRUE, x1)}
      [] c = c2 -> {Shape("approve", Creator, "json", FALSE, x1),
                    Shape("cancel", Creator, "json", FALSE, None),
                    Shape("get", Caller(w2, Action), "json", FALSE, None),
                    Shape("reject", Caller(w1, {"decide"}), "json", TRUE, None)}
      [] OTHER  -> {Shape("create", None, "malformed", TRUE, None),
                    Shape("approve", Garbage, "undecodable", TRUE, x1),
                    Shape("create", Garbage, "json", FALSE, None),
                    Shape("cancel", Caller(w2, {}), "json", TRUE, x1),
                    Shape("get", Creator, "json", TRUE, None)} ]

=============================================================================
