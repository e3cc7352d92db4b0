--------------------------- MODULE MCRetryingClient ---------------------------
(***************************************************************************)
(* Instances of RetryingClient for TLC: somebody creates a request, the    *)
(* reviewer approves it, and the creator wants it cancelled.               *)
(***************************************************************************)
EXTENDS RetryingClient

CONSTANTS a1, a2, a3, a4, b1, b2, b3, b4, d1, d2, d3, d4,   \* calls, by client
          creator, approver, canceller,
          w1, alice, bob, plain, k1, k2, k3

MCAttempts == [ k \in Clients |->
    CASE k = creator  -> <<a1, a2, a3, a4>>
      [] k = approver -> <<b1, b2, b3, b4>>
      [] OTHER        -> <<d1, d2, d3, d4>> ]

MCStrip == [t \in Texts |-> t]

In(op, user, target, key, reviewers) ==
    [ op |-> op, workspace_id |-> w1, user |-> user, target |-> target,
      key |-> key, text |-> plain, reviewers |-> reviewers ]

\* The request is the work of the first attempt or of the second; if it is that
\* of another, nobody decides it.
MCInputs == [ c \in Calls |->
    CASE c \in {a1, a2, a3, a4} -> {In("create", alice, None, k1, {bob})}
      [] c \in {b1, b2, b3, b4} -> {In("approve", bob, a, k2, {}) : a \in {a1, a2}}
      [] OTHER -> {In("cancel", alice, a, k3, {}) : a \in {a1, a2}} ]

\* What EffectsExactlyOnce asks of clients is true of these.
ASSUME MCKeysAssumption == KeysPerIntention

=============================================================================
