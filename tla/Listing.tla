------------------------------- MODULE Listing -------------------------------
(***************************************************************************)
(* A client that pages through the list of requests, GET ...?limit=&offset=*)
(* (SqlApprovalRequestRepository.list), while others create and decide     *)
(* requests.  One page takes two statements, a count and a SELECT, and at  *)
(* READ COMMITTED each sees what is committed when it starts.              *)
(*                                                                         *)
(* The writers are those of RequestIndex, which ApprovalLedger and so the  *)
(* service implement.  An identifier stands for the pair (created_at, id)  *)
(* that the list is ordered by.  created_at is taken before the INSERT and *)
(* the row becomes visible with the COMMIT, so identifiers appear in any   *)
(* order.                                                                  *)
(***************************************************************************)
EXTENDS RequestIndex, Naturals, FiniteSets

CONSTANT Queries    \* what the client may list

VARIABLES
    query,     \* what the client lists, chosen once
    pc,        \* "count", "select", "listed" or "done"
    offset,    \* the query parameter offset
    total,     \* total of the response, 0 until the count
    page,      \* the requests in items of the response, none until the SELECT
    seen,      \* the requests in any response so far
    views,     \* how many items the responses had, repetitions included
    start,     \* history: the requests that matched at the first count
    counted,   \* history: those of this page's count, until its SELECT
    gone,      \* history: those of the count that the SELECT did not find
    ever       \* history: those that matched at the first count or since

client == <<query, pc, offset, total, page, seen, views, start, counted, gone>>
vars == <<index, client, ever>>

\* until says how the client knows the last page: by total, or by a page
\* with less than limit items.
Query == [ workspace_id : Workspaces,
           status       : Status \cup {None},
           limit        : Nat \ {0},
           until        : {"total", "short"} ]

ASSUME ListingAssumption ==
    /\ Calls \subseteq Nat
    /\ Queries \subseteq Query

-----------------------------------------------------------------------------
(* The two statements.                                                     *)

Ids(S) == {r.id : r \in S}

\* The WHERE of both statements.
Conditions(r) ==
    /\ r.workspace_id = query.workspace_id
    /\ query.status # None => r.status = query.status

Matching == {r \in index : Conditions(r)}

\* Mutant of Before: what was decided last comes first (updated_at DESC).
Before_Updated(q, r) ==
    \/ q.status # "pending" /\ r.status = "pending"
    \/ (q.status = "pending" <=> r.status = "pending") /\ q.id > r.id

\* ORDER BY created_at DESC, id DESC.
Before(q, r) == q.id > r.id

Rank(r) == Cardinality(Ids({q \in Matching : Before(q, r)}))

\* Mutant of PageRows: the status is looked at after LIMIT and OFFSET.
PageRows_FilterLast ==
    LET Newer(r) == {q \in index : /\ q.workspace_id = query.workspace_id
                                   /\ Before(q, r)}
        Place(r) == Cardinality(Ids(Newer(r)))
    IN {r \in Matching : Place(r) >= offset /\ Place(r) < offset + query.limit}

\* Mutant of PageRows: the offset counts rows from one.
PageRows_FromOne ==
    {r \in Matching : /\ Rank(r) + 1 >= offset
                      /\ Rank(r) + 1 < offset + query.limit}

\* LIMIT limit OFFSET offset.
PageRows ==
    {r \in Matching : Rank(r) >= offset /\ Rank(r) < offset + query.limit}

-----------------------------------------------------------------------------

Init ==
    /\ IndexInit
    /\ query \in Queries
    /\ pc = "count"
    /\ offset = 0 /\ total = 0 /\ views = 0
    /\ page = {} /\ seen = {} /\ start = {} /\ ever = {}
    /\ counted = {} /\ gone = {}

\* Somebody's create or decision is committed.
Write ==
    /\ IndexNext
    /\ UNCHANGED client
    /\ ever' = ever \cup Ids(Matching')

\* SELECT count(*) WHERE conditions.
Count ==
    /\ pc = "count"
    /\ total' = Cardinality(Ids(Matching))
    /\ counted' = Ids(Matching)
    /\ start' = IF offset = 0 THEN Ids(Matching) ELSE start
    /\ ever' = IF offset = 0 THEN Ids(Matching) ELSE ever
    /\ pc' = "select"
    /\ UNCHANGED <<index, query, offset, page, seen, views, gone>>

\* SELECT ... LIMIT OFFSET, and the response.  The reviewers, read by a third
\* statement (selectinload), never change.
Select ==
    /\ pc = "select"
    /\ page' = Ids(PageRows)
    /\ seen' = seen \cup Ids(PageRows)
    /\ views' = views + Cardinality(Ids(PageRows))
    /\ gone' = counted \ Ids(Matching)
    /\ counted' = {}
    /\ pc' = "listed"
    /\ UNCHANGED <<index, query, offset, total, start, ever>>

\* The call fails between its statements and the client asks again.
Fail ==
    /\ pc = "select"
    /\ pc' = "count"
    /\ total' = 0 /\ counted' = {}
    /\ UNCHANGED <<index, query, offset, page, seen, views, start, gone, ever>>

LastPage == IF query.until = "total" THEN offset + query.limit >= total
                                     ELSE Cardinality(page) < query.limit

\* Mutant of NextPage: the pages are read backwards.
NextPage_Back ==
    /\ pc = "listed"
    /\ ~LastPage
    /\ offset' = offset - query.limit
    /\ pc' = "count"
    /\ total' = 0 /\ page' = {} /\ gone' = {}
    /\ UNCHANGED <<index, query, seen, views, start, counted, ever>>

NextPage ==
    /\ pc = "listed"
    /\ ~LastPage
    /\ offset' = offset + query.limit
    /\ pc' = "count"
    /\ total' = 0 /\ page' = {} /\ gone' = {}
    /\ UNCHANGED <<index, query, seen, views, start, counted, ever>>

Finish ==
    /\ pc = "listed"
    /\ LastPage
    /\ pc' = "done"
    /\ gone' = {}
    /\ UNCHANGED <<index, query, offset, total, page, seen, views, start,
                   counted, ever>>

Next == Write \/ Count \/ Select \/ Fail \/ NextPage \/ Finish

Spec == Init /\ [][Next]_vars

-----------------------------------------------------------------------------
(* Properties.                                                             *)

\* The types of the variables.
ListingTypeOK ==
    /\ index \subseteq Entry
    /\ query \in Query
    /\ pc \in {"count", "select", "listed", "done"}
    /\ offset \in Nat /\ total \in Nat /\ views \in Nat
    /\ page \subseteq Calls /\ seen \subseteq Calls
    /\ start \subseteq Calls /\ ever \subseteq Calls
    /\ counted \subseteq Calls /\ gone \subseteq Calls

\* The requests that came into the list, went out of it, and were in it all
\* the time, since the first count.  (Under a filter on "pending" requests
\* only go out; under one on a final status they only come in.)
Joined == ever \ start
Left == ever \ Ids(Matching)
Stayed == start \cap Ids(Matching)

\* A client that reads to the first short page has seen every request that
\* was in the list from the beginning, if none can leave it meanwhile: all
\* requests of a workspace, or those in a final state.
FullListing ==
    /\ pc = "done"
    /\ query.until = "short"
    /\ query.status # "pending"
    => start \subseteq seen

\* In any case no more requests are passed over than others left the list;
\* who stops by total, which is older than the page it came with, may also
\* lose one for each request that joined.
GapsBounded ==
    pc = "done" =>
        Cardinality(Stayed \ seen) <=
            Cardinality(Left) +
            (IF query.until = "total" THEN Cardinality(Joined) ELSE 0)

\* An item is shown again only because a newer one came in: there are no more
\* repetitions than arrivals.
RepeatsBounded == views <= Cardinality(seen) + Cardinality(Joined)

\* items is as long as total promises, but for the requests that left the list
\* between this page's two statements: what left before the count is not in
\* total, and what leaves after the SELECT is still in items.
TotalCoversPage ==
    pc = "listed" =>
        \/ Cardinality(page) >= query.limit
        \/ offset + Cardinality(page) + Cardinality(gone) >= total

=============================================================================
