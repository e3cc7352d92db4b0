----------------------------- MODULE ExactlyOnce -----------------------------
(***************************************************************************)
(* What a client that retries may rely on: each of its intentions takes    *)
(* effect at most once, is reported done only when it has taken effect,    *)
(* and is reported refused only when it never will.                        *)
(***************************************************************************)
EXTENDS Naturals

CONSTANT Intentions

VARIABLES
    effects,   \* how often the intention took effect
    told       \* what its client was told for good

once == <<effects, told>>

OnceInit ==
    /\ effects = [i \in Intentions |-> 0]
    /\ told = [i \in Intentions |-> "nothing"]

TakeEffect(i) ==
    /\ effects[i] = 0
    /\ told[i] = "nothing"
    /\ effects' = [effects EXCEPT ![i] = 1]
    /\ UNCHANGED told

Tell(i, news) ==
    /\ told[i] = "nothing"
    /\ effects[i] = IF news = "done" THEN 1 ELSE 0
    /\ told' = [told EXCEPT ![i] = news]
    /\ UNCHANGED effects

OnceNext ==
    \E i \in Intentions : TakeEffect(i) \/ Tell(i, "done") \/ Tell(i, "refused")

OnceSpec == OnceInit /\ [][OnceNext]_once

=============================================================================
