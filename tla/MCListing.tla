------------------------------- MODULE MCListing -------------------------------
(***************************************************************************)
(* Instances of Listing for TLC.  The list reads neither users nor texts.   *)
(***************************************************************************)
EXTENDS Listing

CONSTANTS w1, w2, alice, t1

\* A list that shrinks is read to its first short page in pages of two only:
\* with pages of one that alone is half of all states.
MCQueries ==
    { q \in [ workspace_id : {w1}, status : {None, "pending", "approved"},
              limit : {1, 2}, until : {"total", "short"} ] :
        ~(q.status = "pending" /\ q.limit = 1 /\ q.until = "short") }

=============================================================================
