-------------------------- MODULE MCApprovalService --------------------------
(***************************************************************************)
(* Instances of ApprovalService for TLC: two workspaces, two users, one    *)
(* text with and without surrounding blanks, and a handful of calls, of    *)
(* which each may ask for one of a few things.                             *)
(***************************************************************************)
EXTENDS ApprovalInvariant

CONSTANTS c1, c2, c3, c4, w1, w2, alice, bob, plain, padded, k1, k2

MCStrip == [t \in Texts |-> plain]

In(op, workspace, user, target, key, text, reviewers) ==
    [ op |-> op, workspace_id |-> workspace, user |-> user, target |-> target,
      key |-> key, text |-> text, reviewers |-> reviewers ]

Create(user, key, text, reviewers) ==
    In("create", w1, user, None, key, text, reviewers)

Decide(op, user, key, text) == In(op, w1, user, c1, key, text, {})

Get(workspace) == In("get", workspace, alice, c1, None, None, {})

\* A create and its retry, decisions that race for the request, with one key,
\* with two, and without; somebody who may not decide; readers at home and in
\* the other workspace.
MCRaceInputs ==
    [c \in Calls |->
      CASE c = c1 -> {Create(alice, k1, padded, {bob})}
        [] c = c2 -> {Create(alice, k1, plain, {bob}),
                      Create(alice, k1, plain, {}),
                      Decide("approve", bob, k2, plain)}
        [] c = c3 -> {Decide("approve", bob, k2, plain),
                      Decide("cancel", alice, k2, plain)}
        [] OTHER  -> {Decide("approve", bob, None, None),
                      Decide("reject", bob, None, padded),
                      Decide("approve", alice, k2, plain),
                      Get(w1),
                      In("cancel", w2, alice, c1, None, plain, {})}]

=============================================================================
