---------------------------- MODULE ListingProofs ----------------------------
(***************************************************************************)
(* What paging by offset guarantees, for any number of requests, changes   *)
(* and pages: a client that reads to the first short page misses nothing   *)
(* that stayed in the list, what it passes over or sees twice is paid for  *)
(* by what left or joined the list, and no page is shorter than its total  *)
(* promises.                                                               *)
(***************************************************************************)
EXTENDS Listing, FiniteSetTheorems, WellFoundedInduction, TLAPS

-----------------------------------------------------------------------------
(* Ranks in a finite set of numbers, counted from the greatest.            *)

Above(M, n) == {m \in M : m > n}

RankIn(M, n) == Cardinality(Above(M, n))

Top(M, k) == {n \in M : RankIn(M, n) < k}

PageIn(M, o, l) == {n \in M : RankIn(M, n) >= o /\ RankIn(M, n) < o + l}

\* A set of numbers has a least element.
LEMMA HasLeast ==
    ASSUME NEW T, T \subseteq Nat, T # {}
    PROVE  \E x \in T : \A y \in T : x <= y
  <1>1. \E x \in T : \A y \in T : ~(<<y, x>> \in OpToRel(<, Nat))
    BY NatLessThanWellFounded, WFMin
  <1>2. \A x, y \in Nat : y < x => <<y, x>> \in OpToRel(<, Nat)
    BY DEF OpToRel
  <1>3. \E x \in T : \A y \in T : ~(y < x)
    BY <1>1, <1>2, Zenon
  <1> QED
    BY <1>3

\* Ranks are numbers, and a greater element has a smaller rank.
LEMMA RankType ==
    ASSUME NEW M, M \subseteq Nat, IsFiniteSet(M), NEW n
    PROVE  /\ IsFiniteSet(Above(M, n))
           /\ RankIn(M, n) \in Nat
  BY FS_Subset, FS_CardinalityType DEF Above, RankIn

LEMMA RankOrder ==
    ASSUME NEW M, M \subseteq Nat, IsFiniteSet(M),
           NEW m \in M, NEW n \in M, m > n
    PROVE  RankIn(M, m) < RankIn(M, n)
  <1>1. /\ Above(M, m) \subseteq Above(M, n)
        /\ m \in Above(M, n) /\ m \notin Above(M, m)
    <2>1. m \in Nat /\ n \in Nat /\ \A x \in M : x \in Nat
      OBVIOUS
    <2>2. ASSUME NEW x \in M, x > m
          PROVE  x > n
      BY <2>1, <2>2
    <2>3. ~(m > m)
      BY <2>1
    <2> QED
      BY <2>2, <2>3 DEF Above
  <1>2. IsFiniteSet(Above(M, n))
    BY RankType
  <1>3. /\ RankIn(M, m) <= RankIn(M, n)
        /\ RankIn(M, m) # RankIn(M, n)
    BY <1>1, <1>2, FS_Subset DEF RankIn
  <1>4. RankIn(M, m) \in Nat /\ RankIn(M, n) \in Nat
    BY RankType
  <1> QED
    BY <1>3, <1>4

\* At most k elements have a rank below k: the least of them is below all the
\* others.
LEMMA TopAtMost ==
    ASSUME NEW M, M \subseteq Nat, IsFiniteSet(M), NEW k \in Nat
    PROVE  /\ IsFiniteSet(Top(M, k))
           /\ Cardinality(Top(M, k)) \in Nat
           /\ Cardinality(Top(M, k)) <= k
  <1> DEFINE A == Top(M, k)
  <1>1. A \subseteq M /\ A \subseteq Nat
    BY DEF Top
  <1>2. IsFiniteSet(A) /\ Cardinality(A) \in Nat
    BY <1>1, FS_Subset, FS_CardinalityType
  <1>3. CASE A = {}
    BY <1>2, <1>3, FS_EmptySet
  <1>4. CASE A # {}
    <2>1. PICK m \in A : \A y \in A : m <= y
      BY <1>1, <1>4, HasLeast
    <2>2. A \ {m} \subseteq Above(M, m)
      BY <1>1, <2>1 DEF Above
    <2>3. Cardinality(A \ {m}) = Cardinality(A) - 1
      BY <1>2, FS_RemoveElement
    <2>4. Cardinality(A \ {m}) <= RankIn(M, m)
      BY <2>2, RankType, FS_Subset DEF RankIn
    <2>5. RankIn(M, m) < k /\ RankIn(M, m) \in Nat
      BY RankType DEF Top
    <2> QED
      BY <1>2, <2>3, <2>4, <2>5
  <1> QED
    BY <1>2, <1>3, <1>4

\* If some element has rank k or more, at least k elements rank below k:
\* those above the first one that does not.
LEMMA TopAtLeast ==
    ASSUME NEW M, M \subseteq Nat, IsFiniteSet(M), NEW k \in Nat,
           NEW n \in M, RankIn(M, n) >= k
    PROVE  Cardinality(Top(M, k)) >= k
  <1> DEFINE Rest == {x \in M : RankIn(M, x) >= k}
             Ranks == {RankIn(M, x) : x \in Rest}
  <1>1. \A x : RankIn(M, x) \in Nat
    BY RankType
  <1>2. PICK t \in Rest : \A x \in Rest : RankIn(M, t) <= RankIn(M, x)
    <2>1. Ranks \subseteq Nat /\ Ranks # {}
      BY <1>1
    <2>2. PICK least \in Ranks : \A y \in Ranks : least <= y
      BY <2>1, HasLeast
    <2> QED
      BY <2>2
  <1>3. Above(M, t) \subseteq Top(M, k)
    <2> SUFFICES ASSUME NEW x \in M, x > t
                 PROVE  RankIn(M, x) < k
      BY DEF Above, Top
    <2>1. RankIn(M, x) < RankIn(M, t)
      BY RankOrder
    <2> QED
      BY <1>1, <1>2, <2>1
  <1>4. Cardinality(Top(M, k)) \in Nat /\ IsFiniteSet(Top(M, k))
    BY TopAtMost
  <1>5. RankIn(M, t) <= Cardinality(Top(M, k))
    BY <1>3, <1>4, FS_Subset DEF RankIn
  <1>6. RankIn(M, t) \in Nat /\ RankIn(M, t) >= k
    BY <1>1
  <1> QED
    BY <1>4, <1>5, <1>6

\* A page is full, or it reaches the end of the list.
LEMMA PageReaches ==
    ASSUME NEW M, M \subseteq Nat, IsFiniteSet(M),
           NEW o \in Nat, NEW l \in Nat
    PROVE  /\ Cardinality(PageIn(M, o, l)) \in Nat
           /\ \/ Cardinality(PageIn(M, o, l)) >= l
              \/ /\ o + Cardinality(PageIn(M, o, l)) >= Cardinality(M)
                 /\ \A n \in M : RankIn(M, n) < o + l
  <1> DEFINE A == Top(M, o)
             B == Top(M, o + l)
             P == PageIn(M, o, l)
  <1>1. \A x : RankIn(M, x) \in Nat
    BY RankType
  <1>2. A \subseteq B /\ P = B \ A /\ B \cap A = A
    BY <1>1 DEF Top, PageIn
  <1> o + l \in Nat
    OBVIOUS
  <1>3. /\ IsFiniteSet(A) /\ Cardinality(A) \in Nat /\ Cardinality(A) <= o
        /\ IsFiniteSet(B) /\ Cardinality(B) \in Nat
    <2>1. /\ IsFiniteSet(A) /\ Cardinality(A) \in Nat /\ Cardinality(A) <= o
      BY TopAtMost
    <2>2. IsFiniteSet(B) /\ Cardinality(B) \in Nat
      BY TopAtMost
    <2> QED
      BY <2>1, <2>2
  <1>4. Cardinality(P) = Cardinality(B) - Cardinality(A)
    BY <1>2, <1>3, FS_Difference
  <1>5. IsFiniteSet(P) /\ Cardinality(P) \in Nat
    BY <1>2, <1>3, FS_Difference, FS_CardinalityType
  <1>6. CASE \E n \in M : RankIn(M, n) >= o + l
    <2>1. PICK n \in M : RankIn(M, n) >= o + l
      BY <1>6
    <2>2. Cardinality(B) >= o + l
      BY <2>1, TopAtLeast
    <2> QED
      BY <1>3, <1>4, <1>5, <2>2
  <1>7. CASE \A n \in M : RankIn(M, n) < o + l
    <2>1. B = M
      BY <1>7 DEF Top
    <2> QED
      BY <1>3, <1>4, <1>5, <1>7, <2>1
  <1> QED
    BY <1>1, <1>6, <1>7

-----------------------------------------------------------------------------
(* How one change of a list moves its ranks.                               *)

\* The elements of A that the list S has before rank k, and from rank k on.
First(A, S, k) == {n \in A : RankIn(S, n) < k}

Later(A, S, k) == {n \in A : RankIn(S, n) >= k}

\* A longer list gives the same or greater ranks.
LEMMA RankGrows ==
    ASSUME NEW S, S \subseteq Nat, IsFiniteSet(S), NEW R, R \subseteq S, NEW n
    PROVE  /\ RankIn(R, n) \in Nat /\ RankIn(S, n) \in Nat
           /\ RankIn(R, n) <= RankIn(S, n)
  <1>1. R \subseteq Nat /\ IsFiniteSet(R)
    BY FS_Subset
  <1>2. Above(R, n) \subseteq Above(S, n)
    BY DEF Above
  <1> QED
    BY <1>1, <1>2, RankType, FS_Subset DEF RankIn

\* One element more raises a rank by at most one.
LEMMA RankStep ==
    ASSUME NEW S, S \subseteq Nat, IsFiniteSet(S), NEW x \in Nat, NEW n
    PROVE  RankIn(S \cup {x}, n) <= RankIn(S, n) + 1
  <1>1. Above(S \cup {x}, n) \subseteq Above(S, n) \cup {x}
    BY DEF Above
  <1>2. IsFiniteSet(Above(S, n)) /\ RankIn(S, n) \in Nat
    BY RankType
  <1>3. /\ IsFiniteSet(Above(S, n) \cup {x})
        /\ \/ Cardinality(Above(S, n) \cup {x}) = RankIn(S, n)
           \/ Cardinality(Above(S, n) \cup {x}) = RankIn(S, n) + 1
    BY <1>2, FS_AddElement DEF RankIn
  <1>4. /\ Cardinality(Above(S \cup {x}, n))
             <= Cardinality(Above(S, n) \cup {x})
        /\ IsFiniteSet(Above(S \cup {x}, n))
    BY <1>1, <1>3, FS_Subset
  <1> QED
    BY <1>2, <1>3, <1>4, FS_CardinalityType DEF RankIn

\* One element more in a set is at most one more to count.
LEMMA OneMore ==
    ASSUME NEW B, IsFiniteSet(B), NEW y, NEW A, A \subseteq B \cup {y}
    PROVE  /\ IsFiniteSet(A) /\ Cardinality(A) \in Nat /\ Cardinality(B) \in Nat
           /\ Cardinality(A) <= Cardinality(B) + 1
  <1>1. /\ IsFiniteSet(B \cup {y}) /\ Cardinality(B) \in Nat
        /\ \/ Cardinality(B \cup {y}) = Cardinality(B)
           \/ Cardinality(B \cup {y}) = Cardinality(B) + 1
    BY FS_AddElement, FS_CardinalityType
  <1>2. /\ IsFiniteSet(A) /\ Cardinality(A) <= Cardinality(B \cup {y})
        /\ Cardinality(A) \in Nat
    BY <1>1, FS_Subset, FS_CardinalityType
  <1> QED
    BY <1>1, <1>2

\* No two elements have the same rank.
LEMMA OneOfRank ==
    ASSUME NEW S, S \subseteq Nat, IsFiniteSet(S)
    PROVE  \A m, n \in S : RankIn(S, m) = RankIn(S, n) => m = n
  <1> SUFFICES ASSUME NEW m \in S, NEW n \in S,
                      RankIn(S, m) = RankIn(S, n), m # n
               PROVE  FALSE
    OBVIOUS
  <1>1. m \in Nat /\ n \in Nat /\ RankIn(S, m) \in Nat
    BY RankType
  <1>2. /\ m > n => RankIn(S, m) < RankIn(S, n)
        /\ n > m => RankIn(S, n) < RankIn(S, m)
    BY <1>1, RankOrder
  <1>3. m > n \/ n > m
    BY <1>1
  <1> QED
    BY <1>1, <1>2, <1>3

\* What leaves the list moves at most one element from rank k to before it.
LEMMA DepartureShifts ==
    ASSUME NEW S, S \subseteq Nat, IsFiniteSet(S),
           NEW R, NEW x \in S, R = S \ {x},
           NEW A, A \subseteq S, NEW B, B \subseteq A, NEW k \in Nat
    PROVE  Cardinality(First(B, R, k)) <= Cardinality(First(A, S, k)) + 1
  <1>1. \A m, n \in A : RankIn(S, m) = RankIn(S, n) => m = n
    BY OneOfRank
  <1>2. PICK y : \A n \in A : RankIn(S, n) = k => n = y
    BY <1>1
  <1> DEFINE P == First(A, S, k)
             Q == First(B, R, k)
  <1>3. Q \subseteq P \cup {y}
    <2> SUFFICES ASSUME NEW n \in B, RankIn(R, n) < k, ~(RankIn(S, n) < k)
                 PROVE  n = y
      BY DEF First, Later
    <2>1. R \subseteq Nat /\ IsFiniteSet(R) /\ R \cup {x} = S /\ x \in Nat
      BY FS_Subset
    <2>2. RankIn(S, n) <= RankIn(R, n) + 1
      BY <2>1, RankStep
    <2>3. RankIn(S, n) \in Nat /\ RankIn(R, n) \in Nat
      BY <2>1, RankType
    <2>4. RankIn(S, n) = k
      BY <2>2, <2>3
    <2> QED
      BY <1>2, <2>4
  <1>4. IsFiniteSet(P)
    BY FS_Subset DEF First, Later
  <1> QED
    BY <1>3, <1>4, OneMore

\* What comes into the list moves at most one element from before k to rank k.
LEMMA ArrivalShifts ==
    ASSUME NEW S, S \subseteq Nat, IsFiniteSet(S), NEW x \in Nat,
           NEW A, A \subseteq S, NEW k \in Nat
    PROVE  Cardinality(Later(A, S \cup {x}, k)) <= Cardinality(Later(A, S, k)) + 1
  <1> DEFINE P == Later(A, S, k)
             Q == Later(A, S \cup {x}, k)
  <1>1. \A m, n \in A : RankIn(S, m) = RankIn(S, n) => m = n
    BY OneOfRank
  <1>2. PICK y : \A n \in A : RankIn(S, n) = k - 1 => n = y
    BY <1>1
  <1>3. Q \subseteq P \cup {y}
    <2> SUFFICES ASSUME NEW n \in A, RankIn(S \cup {x}, n) >= k,
                        ~(RankIn(S, n) >= k)
                 PROVE  n = y
      BY DEF First, Later
    <2>1. RankIn(S \cup {x}, n) <= RankIn(S, n) + 1
      BY RankStep
    <2>2. /\ S \cup {x} \subseteq Nat /\ IsFiniteSet(S \cup {x})
      BY FS_AddElement
    <2>3. RankIn(S, n) \in Nat /\ RankIn(S \cup {x}, n) \in Nat
      BY <2>2, RankType
    <2>4. RankIn(S, n) = k - 1
      BY <2>1, <2>3
    <2> QED
      BY <1>2, <2>4
  <1>4. IsFiniteSet(P)
    BY FS_Subset DEF First, Later
  <1> QED
    BY <1>3, <1>4, OneMore

\* At most as many elements rank k or more as the list is longer than k.
LEMMA TailAtMost ==
    ASSUME NEW S, S \subseteq Nat, IsFiniteSet(S), NEW k \in Nat
    PROVE  LET T == Later(S, S, k)
           IN  /\ IsFiniteSet(T) /\ Cardinality(T) \in Nat
               /\ T = {} \/ Cardinality(T) + k <= Cardinality(S)
  <1> DEFINE T == Later(S, S, k)
  <1>1. IsFiniteSet(T) /\ Cardinality(T) \in Nat
    BY FS_Subset, FS_CardinalityType DEF Later
  <1>2. ASSUME T # {}
        PROVE  Cardinality(T) + k <= Cardinality(S)
    <2>1. PICK n \in S : RankIn(S, n) >= k
      BY <1>2 DEF Later
    <2>2. Cardinality(Top(S, k)) >= k /\ Cardinality(Top(S, k)) \in Nat
      BY <2>1, TopAtLeast, TopAtMost
    <2>3. T = S \ Top(S, k) /\ S \cap Top(S, k) = Top(S, k)
      <3>1. \A m : RankIn(S, m) \in Nat
        BY RankType
      <3> QED
        BY <3>1 DEF Top, Later
    <2>4. Cardinality(T) = Cardinality(S) - Cardinality(Top(S, k))
      BY <2>3, FS_Difference
    <2>5. Cardinality(S) \in Nat
      BY FS_CardinalityType
    <2> QED
      BY <1>1, <2>2, <2>4, <2>5
  <1> QED
    BY <1>1, <1>2

-----------------------------------------------------------------------------
(* The inductive invariant.                                                *)

M == Ids(Matching)

\* The client has taken its first count.
Begun == pc # "count" \/ offset # 0

\* Requests only come into the list.
Growing == query.status # "pending"

\* What was there at the start and was not shown is still to come: it ranks
\* k or more.
ToCome(k) == \A n \in start \ seen : n \in M /\ RankIn(M, n) >= k

EverOK ==
    /\ ever \subseteq Ids(index)
    /\ Growing => ever \subseteq M
    /\ Begun => M \subseteq ever

CountOK ==
    /\ pc = "select" => total = Cardinality(counted)
    /\ counted \subseteq Ids(index)
    /\ Cardinality(page) \in Nat

PagesOK ==
    Growing /\ query.until = "short" =>
        /\ pc \in {"count", "select"} /\ Begun => ToCome(offset)
        /\ pc = "listed" => /\ ToCome(offset + query.limit)
                            /\ \/ start \subseteq seen
                               \/ Cardinality(page) >= query.limit
        /\ pc = "done" => start \subseteq seen

IndexOK ==
    /\ \A e, f \in index : e.id = f.id => e = f
    /\ IsFiniteSet(Ids(index))

ListInv ==
    /\ ListingTypeOK
    /\ IndexOK
    /\ EverOK
    /\ CountOK
    /\ TotalCoversPage
    /\ PagesOK

-----------------------------------------------------------------------------

\* The list is a finite set of numbers.
LEMMA ListFinite ==
    ASSUME ListingTypeOK, IndexOK
    PROVE  /\ M \subseteq Nat /\ M \subseteq Ids(index)
           /\ IsFiniteSet(M) /\ Cardinality(M) \in Nat
  <1>1. M \subseteq Ids(index)
    BY DEF M, Matching, Ids
  <1>2. Ids(index) \subseteq Nat
    BY ListingAssumption DEF ListingTypeOK, Entry, Ids
  <1> QED
    BY <1>1, <1>2, FS_Subset, FS_CardinalityType DEF IndexOK

\* The SELECT returns the requests of the ranks asked for.
LEMMA PageByRank ==
    ASSUME ListingTypeOK
    PROVE  Ids(PageRows) = PageIn(M, offset, query.limit)
  <1>1. \A r \in Matching :
          Ids({q \in Matching : Before(q, r)}) = Above(M, r.id)
    BY DEF Ids, Before, Above, M
  <1>2. \A r \in Matching : Rank(r) = RankIn(M, r.id)
    BY <1>1 DEF Rank, RankIn
  <1> QED
    BY <1>2 DEF PageRows, PageIn, Ids, M

\* A write keeps the index a finite set with a primary key.
LEMMA WriteKeepsIndex ==
    ASSUME ListInv, IndexNext
    PROVE  /\ (index \subseteq Entry)' /\ IndexOK'
           /\ Ids(index) \subseteq Ids(index)'
  <1> USE DEF ListInv, IndexOK, ListingTypeOK
  <1>1. CASE \E n \in Calls, w \in Workspaces : Appear(n, w)
    <2>1. PICK n \in Calls, w \in Workspaces : Appear(n, w)
      BY <1>1
    <2>2. PICK e : e = [id |-> n, workspace_id |-> w, status |-> "pending"]
      OBVIOUS
    <2>3. /\ e \in Entry /\ e.id = n
          /\ \A f \in index : f.id # n
          /\ index' = index \cup {e}
      BY <2>1, <2>2 DEF Appear, Entry, Status
    <2>4. Ids(index)' = Ids(index) \cup {n}
      BY <2>3 DEF Ids
    <2>5. IsFiniteSet(Ids(index)')
      BY <2>4, FS_AddElement
    <2> QED
      BY <2>3, <2>4, <2>5
  <1>2. CASE \E e \in index, d \in Decisions : Decide(e, d)
    <2>1. PICK e \in index, d \in Decisions : Decide(e, d)
      BY <1>2
    <2>2. PICK f : f = [e EXCEPT !.status = d]
      OBVIOUS
    <2>3. /\ f \in Entry /\ f.id = e.id
          /\ index' = (index \ {e}) \cup {f}
      BY <2>1, <2>2 DEF Decide, Entry, Status
    <2>4. Ids(index)' = Ids(index)
      BY <2>3 DEF Ids
    <2> QED
      BY <2>3, <2>4
  <1> QED
    BY <1>1, <1>2 DEF IndexNext

\* What is not in a growing list now may come; what has left a list of pending
\* requests never comes back.
LEMMA WriteMovesList ==
    ASSUME ListInv, IndexNext, query' = query
    PROVE  /\ Growing => M \subseteq M'
           /\ ~Growing => M' \cap Ids(index) \subseteq M
  <1> USE DEF ListInv, IndexOK, ListingTypeOK, Growing
  <1>1. CASE \E n \in Calls, w \in Workspaces : Appear(n, w)
    <2>1. PICK n \in Calls, w \in Workspaces : Appear(n, w)
      BY <1>1
    <2>2. PICK e : e = [id |-> n, workspace_id |-> w, status |-> "pending"]
      OBVIOUS
    <2>3. /\ index' = index \cup {e} /\ e.id = n
          /\ \A f \in index : f.id # n
      BY <2>1, <2>2 DEF Appear
    <2> QED
      BY <2>3 DEF M, Matching, Conditions, Ids
  <1>2. CASE \E e \in index, d \in Decisions : Decide(e, d)
    <2>1. PICK e \in index, d \in Decisions : Decide(e, d)
      BY <1>2
    <2>2. PICK f : f = [e EXCEPT !.status = d]
      OBVIOUS
    <2>3. /\ f.id = e.id /\ f.workspace_id = e.workspace_id
          /\ f.status = d /\ d # "pending" /\ e.status = "pending"
          /\ index' = (index \ {e}) \cup {f}
      BY <2>1, <2>2 DEF Decide, Entry, Decisions
    <2>4. ASSUME Growing
          PROVE  M \subseteq M'
      BY <2>3, <2>4 DEF M, Matching, Conditions, Ids
    <2>5. ASSUME ~Growing
          PROVE  M' \subseteq M
      BY <2>3, <2>5 DEF M, Matching, Conditions, Ids
    <2> QED
      BY <2>4, <2>5
  <1> QED
    BY <1>1, <1>2 DEF IndexNext

\* A write moves nothing that is still to come before the client's place.
LEMMA WritePreserves ==
    ASSUME ListInv, Write
    PROVE  ListInv'
  <1> USE DEF ListInv
  <1>1. /\ IndexNext /\ ever' = ever \cup M'
        /\ UNCHANGED <<query, pc, offset, total, page, seen, views, start,
                       counted, gone>>
    BY DEF Write, client, M
  <1>2. (index \subseteq Entry)' /\ IndexOK' /\ Ids(index) \subseteq Ids(index)'
    BY <1>1, WriteKeepsIndex
  <1>3. /\ Growing => M \subseteq M'
        /\ ~Growing => M' \cap Ids(index) \subseteq M
    BY <1>1, WriteMovesList
  <1>4. ListingTypeOK'
    <2>1. M' \subseteq Calls
      BY <1>2 DEF M, Matching, Ids, Entry
    <2> QED
      BY <1>1, <1>2, <2>1 DEF ListingTypeOK
  <1>5. /\ M' \subseteq Nat /\ M' \subseteq Ids(index)'
        /\ IsFiniteSet(M') /\ IsFiniteSet(Ids(index)') /\ IsFiniteSet(Ids(index))
    <2>1. M' \subseteq Ids(index)'
      BY DEF M, Matching, Ids
    <2>2. Ids(index)' \subseteq Nat
      BY <1>2, ListingAssumption DEF Entry, Ids
    <2> QED
      BY <1>2, <2>1, <2>2, FS_Subset DEF IndexOK
  <1>6. Growing' <=> Growing
    BY <1>1 DEF Growing
  <1>7. EverOK'
    BY <1>1, <1>2, <1>3, <1>5, <1>6 DEF EverOK, Begun
  <1>8. Cardinality(page)' \in Nat
    BY <1>1 DEF CountOK
  <1>9. CountOK'
    BY <1>1, <1>2, <1>8 DEF CountOK
  <1>10. TotalCoversPage'
    BY <1>1 DEF TotalCoversPage
  <1>11. ASSUME Growing, NEW k \in Nat, ToCome(k)
         PROVE  ToCome(k)'
    <2> SUFFICES ASSUME NEW n \in start \ seen
                 PROVE  n \in M' /\ RankIn(M', n) >= k
      BY <1>1 DEF ToCome
    <2>1. n \in M /\ RankIn(M, n) >= k
      BY <1>11 DEF ToCome
    <2>2. Above(M, n) \subseteq Above(M', n)
      BY <1>3, <1>11 DEF Above
    <2>3. /\ IsFiniteSet(Above(M', n)) /\ RankIn(M', n) \in Nat
      BY <1>5, RankType
    <2>4. RankIn(M, n) <= RankIn(M', n)
      BY <2>2, <2>3, FS_Subset DEF RankIn
    <2>5. RankIn(M, n) \in Nat
      BY ListFinite, RankType
    <2> QED
      BY <1>3, <1>11, <2>1, <2>3, <2>4, <2>5
  <1>12. PagesOK'
    <2>1. offset \in Nat /\ offset + query.limit \in Nat
      BY DEF ListingTypeOK, Query
    <2>2. Growing => /\ ToCome(offset) => ToCome(offset)'
                     /\ ToCome(offset + query.limit)
                          => ToCome(offset + query.limit)'
      BY <1>1, <1>11, <2>1 DEF ToCome
    <2> QED
      BY <1>1, <1>6, <2>2 DEF PagesOK, Begun
  <1> QED
    BY <1>2, <1>4, <1>7, <1>9, <1>10, <1>12

\* The first count starts the account; a later one only renews total.
LEMMA CountPreserves ==
    ASSUME ListInv, Count
    PROVE  ListInv'
  <1> USE DEF ListInv
  <1>1. /\ pc = "count" /\ pc' = "select"
        /\ total' = Cardinality(M)
        /\ start' = IF offset = 0 THEN M ELSE start
        /\ ever' = IF offset = 0 THEN M ELSE ever
        /\ counted' = M
        /\ UNCHANGED <<index, query, offset, page, seen, views, gone>>
    BY DEF Count, M
  <1>2. /\ M' = M /\ (Growing' <=> Growing) /\ Begun'
        /\ IndexOK' /\ TotalCoversPage'
    BY <1>1 DEF M, Matching, Conditions, Growing, Begun, IndexOK,
                TotalCoversPage
  <1>3. /\ M \subseteq Nat /\ M \subseteq Ids(index) /\ IsFiniteSet(M)
        /\ Cardinality(M) \in Nat
    BY ListFinite
  <1>4. EverOK'
    BY <1>1, <1>2, <1>3 DEF EverOK, Begun
  <1>5. CountOK'
    BY <1>1, <1>3 DEF CountOK
  <1>6. ListingTypeOK'
    <2>1. M \subseteq Calls
      BY DEF M, Matching, Ids, Entry, ListingTypeOK
    <2> QED
      BY <1>1, <1>3, <2>1 DEF ListingTypeOK
  <1>7. PagesOK'
    <2>1. CASE offset = 0
      <3>1. \A n : RankIn(M, n) \in Nat
        BY <1>3, RankType
      <3> QED
        BY <1>1, <1>2, <2>1, <3>1 DEF PagesOK, ToCome
    <2>2. CASE offset # 0
      BY <1>1, <1>2, <2>2 DEF PagesOK, ToCome, Begun
    <2> QED
      BY <2>1, <2>2
  <1> QED
    BY <1>2, <1>4, <1>5, <1>6, <1>7

\* The SELECT shows what ranks within the page; what remains is below it, and
\* nothing remains below a short page.
LEMMA SelectPreserves ==
    ASSUME ListInv, Select
    PROVE  ListInv'
  <1> USE DEF ListInv
  <1> DEFINE P == PageIn(M, offset, query.limit)
  <1>1. /\ pc = "select" /\ pc' = "listed"
        /\ page' = P /\ seen' = seen \cup P
        /\ views' = views + Cardinality(P)
        /\ gone' = counted \ M /\ counted' = {}
        /\ UNCHANGED <<index, query, offset, total, start, ever>>
    BY PageByRank DEF Select, M
  <1>2. /\ M' = M /\ (Growing' <=> Growing) /\ IndexOK' /\ EverOK'
    BY <1>1 DEF M, Matching, Conditions, Growing, IndexOK, EverOK, Begun
  <1>3. /\ M \subseteq Nat /\ M \subseteq Ids(index) /\ IsFiniteSet(M)
        /\ Cardinality(M) \in Nat
    BY ListFinite
  <1>4. /\ offset \in Nat /\ query.limit \in Nat /\ total \in Nat
        /\ offset + query.limit \in Nat
    BY DEF ListingTypeOK, Query
  <1>5. /\ Cardinality(P) \in Nat
        /\ \/ Cardinality(P) >= query.limit
           \/ /\ offset + Cardinality(P) >= Cardinality(M)
              /\ \A n \in M : RankIn(M, n) < offset + query.limit
    BY <1>3, <1>4, PageReaches
  <1>6. ListingTypeOK' /\ CountOK'
    <2>1. P \subseteq Calls
      BY DEF PageIn, M, Matching, Ids, Entry, ListingTypeOK
    <2>2. views' \in Nat
      BY <1>1, <1>5 DEF ListingTypeOK
    <2> QED
      BY <1>1, <1>5, <2>1, <2>2 DEF ListingTypeOK, CountOK
  <1>7. TotalCoversPage'
    <2> DEFINE Lost == counted \ M
    <2>1. counted \subseteq Ids(index) /\ IsFiniteSet(Ids(index))
      BY DEF CountOK, IndexOK
    <2>2. /\ IsFiniteSet(counted) /\ IsFiniteSet(Lost)
          /\ Cardinality(counted) \in Nat /\ Cardinality(Lost) \in Nat
      BY <2>1, FS_Subset, FS_CardinalityType
    <2>3. Cardinality(Lost) = Cardinality(counted) - Cardinality(counted \cap M)
      BY <2>2, FS_Difference
    <2>4. /\ Cardinality(counted \cap M) <= Cardinality(M)
          /\ Cardinality(counted \cap M) \in Nat
      <3>1. counted \cap M \subseteq M
        OBVIOUS
      <3> QED
        BY <1>3, <3>1, FS_Subset, FS_CardinalityType
    <2>5. total <= Cardinality(M) + Cardinality(Lost)
      BY <1>1, <1>3, <2>2, <2>3, <2>4 DEF CountOK
    <2>6. gone' = Lost /\ offset' = offset /\ total' = total /\ page' = P
          /\ query' = query
      BY <1>1
    <2> HIDE DEF Lost
    <2> QED
      BY <1>3, <1>4, <1>5, <2>2, <2>5, <2>6 DEF TotalCoversPage
  <1>8. PagesOK'
    <2> SUFFICES ASSUME Growing, query.until = "short"
                 PROVE  /\ ToCome(offset + query.limit)'
                        /\ \/ start \subseteq seen'
                           \/ Cardinality(P) >= query.limit
      BY <1>1, <1>2 DEF PagesOK
    <2>1. ToCome(offset)
      BY <1>1 DEF PagesOK, Begun
    <2>2. \A n : RankIn(M, n) \in Nat
      BY <1>3, RankType
    <2>3. ASSUME NEW n \in start \ seen'
          PROVE  n \in M /\ RankIn(M, n) >= offset + query.limit
      <3>1. n \in M /\ RankIn(M, n) >= offset /\ n \notin P
        BY <1>1, <2>1, <2>3 DEF ToCome
      <3> QED
        BY <1>4, <2>2, <3>1 DEF PageIn
    <2>4. ToCome(offset + query.limit)'
      BY <1>1, <1>2, <2>3 DEF ToCome
    <2>5. \/ start \subseteq seen'
          \/ Cardinality(P) >= query.limit
      BY <1>4, <1>5, <2>2, <2>3
    <2> QED
      BY <2>4, <2>5
  <1> QED
    BY <1>2, <1>6, <1>7, <1>8

\* The client's own steps leave the list alone.
LEMMA ClientPreserves ==
    ASSUME ListInv, Fail \/ NextPage \/ Finish
    PROVE  ListInv'
  <1> USE DEF ListInv
  <1>1. UNCHANGED <<index, query, seen, views, start, ever>>
    BY DEF Fail, NextPage, Finish
  <1>2. /\ M' = M /\ (Growing' <=> Growing) /\ IndexOK'
        /\ offset \in Nat /\ query.limit \in Nat \ {0}
        /\ offset + query.limit \in Nat /\ offset + query.limit # 0
    BY <1>1 DEF M, Matching, Conditions, Growing, IndexOK, ListingTypeOK, Query
  <1>3. Cardinality({}) = 0
    BY FS_EmptySet
  <1>4. CASE Fail
    BY <1>1, <1>2, <1>4 DEF Fail, ListingTypeOK, EverOK, CountOK,
         TotalCoversPage, PagesOK, ToCome, Begun
  <1>5. CASE NextPage
    BY <1>1, <1>2, <1>3, <1>5 DEF NextPage, ListingTypeOK, EverOK, CountOK,
         TotalCoversPage, PagesOK, ToCome, Begun
  <1>6. CASE Finish
    BY <1>1, <1>2, <1>6 DEF Finish, LastPage, ListingTypeOK, EverOK, CountOK,
         TotalCoversPage, PagesOK, ToCome, Begun
  <1> QED
    BY <1>4, <1>5, <1>6

-----------------------------------------------------------------------------

\* The account of what was listed is right from the first call to the last.
THEOREM ListingInvariant == Spec => []ListInv
  <1>1. Init => ListInv
    <2> SUFFICES ASSUME Init
                 PROVE  ListInv
      OBVIOUS
    <2>1. Ids(index) = {} /\ M = {}
      BY DEF Init, IndexInit, Ids, M, Matching
    <2>2. IsFiniteSet({}) /\ Cardinality({}) = 0
      BY FS_EmptySet
    <2> QED
      BY <2>1, <2>2, ListingAssumption
         DEF Init, IndexInit, ListInv, ListingTypeOK, IndexOK, EverOK, CountOK,
             TotalCoversPage, PagesOK, ToCome, Begun
  <1>2. ListInv /\ [Next]_vars => ListInv'
    <2> SUFFICES ASSUME ListInv, [Next]_vars
                 PROVE  ListInv'
      OBVIOUS
    <2>1. CASE UNCHANGED vars
      BY <2>1 DEF vars, client, ListInv, ListingTypeOK, IndexOK, EverOK,
           CountOK, TotalCoversPage, PagesOK, ToCome, Begun, Growing, M,
           Matching, Conditions, Left
    <2>2. CASE Next
      BY <2>2, WritePreserves, CountPreserves, SelectPreserves,
         ClientPreserves DEF Next
    <2> QED
      BY <2>1, <2>2
  <1> QED
    BY <1>1, <1>2, PTL DEF Spec

\* The variables of the listing keep their types.
THEOREM ListingTyped == Spec => []ListingTypeOK
  BY ListingInvariant, PTL DEF ListInv

\* A client that pages to the first short page misses no request that was in
\* the list from the beginning, unless requests can leave the list.
THEOREM PagingIsComplete == Spec => []FullListing
  <1>1. ListInv => FullListing
    BY DEF ListInv, PagesOK, FullListing, Growing
  <1> QED
    BY <1>1, ListingInvariant, PTL

\* No page is shorter than its total promises, but for the requests that left
\* the list between its own count and its own SELECT.
THEOREM TotalsAreCovered == Spec => []TotalCoversPage
  BY ListingInvariant, PTL DEF ListInv

-----------------------------------------------------------------------------
(* Gaps and repetitions.  A departure moves what follows one place towards *)
(* the front, past the client's place; an arrival moves it one place back, *)
(* behind it again.  The invariant counts what was moved so.               *)

\* The client has been shown the ranks before this one.
Place == IF pc \in {"listed", "done"} THEN offset + query.limit ELSE offset

\* Never shown, and now before the client's place.
Passed == First(Stayed \ seen, M, Place)

\* Shown before, and still to come.
Again == Later(seen \cap M, M, Place)

HistoryOK ==
    /\ start \subseteq ever /\ seen \subseteq ever
    /\ pc \in {"count", "select"} /\ offset = 0 => seen = {} /\ views = 0

FewPassed == Cardinality(Passed) <= Cardinality(Left)

FewAgain == views + Cardinality(Again) <= Cardinality(seen) + Cardinality(Joined)

\* total is older than the list by at most the arrivals.
TotalIsRecent ==
    pc \in {"select", "listed"} => Cardinality(M) <= total + Cardinality(Joined)

\* A short page was the end of the list, so what it lacks was passed over.
ShortPageEnds ==
    pc = "listed" /\ Cardinality(page) < query.limit =>
        Cardinality(Stayed \ seen) <= Cardinality(Left)

AccountInv ==
    /\ HistoryOK
    /\ FewPassed /\ FewAgain
    /\ TotalIsRecent /\ ShortPageEnds
    /\ GapsBounded

-----------------------------------------------------------------------------

\* What is counted is finite.
LEMMA AccountFinite ==
    ASSUME NEW I, IsFiniteSet(I), NEW E, E \subseteq I
    PROVE  \A S \in SUBSET E : IsFiniteSet(S) /\ Cardinality(S) \in Nat
  BY FS_Subset, FS_CardinalityType

\* A write adds a request the list never had, or takes one from a list of
\* pending requests, or leaves the list as it is.
LEMMA WriteSteps ==
    ASSUME ListInv, IndexNext, query' = query
    PROVE  \/ M' = M
           \/ \E x \in Calls : x \notin M /\ x \notin ever /\ M' = M \cup {x}
           \/ ~Growing /\ \E x \in M : M' = M \ {x}
  <1> USE DEF ListInv, IndexOK, ListingTypeOK, EverOK
  <1>1. CASE \E n \in Calls, w \in Workspaces : Appear(n, w)
    <2>1. PICK n \in Calls, w \in Workspaces : Appear(n, w)
      BY <1>1
    <2>2. PICK e : e = [id |-> n, workspace_id |-> w, status |-> "pending"]
      OBVIOUS
    <2>3. index' = index \cup {e} /\ e.id = n /\ n \notin Ids(index)
      BY <2>1, <2>2 DEF Appear, Ids
    <2>4. n \notin M /\ n \notin ever
      BY <2>3, ListFinite
    <2>5. M' = M \/ M' = M \cup {n}
      BY <2>3 DEF M, Matching, Conditions, Ids
    <2> QED
      BY <2>4, <2>5
  <1>2. CASE \E e \in index, d \in Decisions : Decide(e, d)
    <2>1. PICK e \in index, d \in Decisions : Decide(e, d)
      BY <1>2
    <2>2. PICK f : f = [e EXCEPT !.status = d]
      OBVIOUS
    <2>3. /\ f.id = e.id /\ f.workspace_id = e.workspace_id
          /\ f.status = d /\ d # "pending" /\ e.status = "pending"
          /\ index' = (index \ {e}) \cup {f} /\ e.id \in Calls
      BY <2>1, <2>2 DEF Decide, Entry, Decisions
    <2>4. CASE query.status = None
      BY <2>3, <2>4 DEF M, Matching, Conditions, Ids
    <2>5. CASE query.status # None /\ Growing
      <3>1. ~Conditions(e) /\ e.id \notin M
        BY <2>3, <2>5 DEF M, Matching, Conditions, Ids, Growing
      <3>2. e.id \notin ever
        BY <2>5, <3>1
      <3>3. Matching' = Matching \/ Matching' = Matching \cup {f}
        BY <2>3, <3>1 DEF Matching, Conditions
      <3>4. M' = M \/ M' = M \cup {e.id}
        BY <2>3, <3>3 DEF M, Ids
      <3> QED
        BY <2>3, <3>1, <3>2, <3>4
    <2>6. CASE query.status # None /\ ~Growing
      <3>1. Matching' = Matching \ {e}
        BY <2>3, <2>6 DEF Matching, Conditions, Growing
      <3>2. M' = M \/ (e \in Matching /\ M' = M \ {e.id})
        BY <3>1 DEF M, Matching, Ids
      <3>3. e \in Matching => e.id \in M
        BY DEF M, Ids
      <3> QED
        BY <2>6, <3>2, <3>3
    <2> QED
      BY <2>4, <2>5, <2>6
  <1> QED
    BY <1>1, <1>2 DEF IndexNext

\* The state that the lemmas on one step start from.
LEMMA AccountBase ==
    ASSUME ListInv, AccountInv
    PROVE  /\ M \subseteq Nat /\ IsFiniteSet(M) /\ Cardinality(M) \in Nat
           /\ IsFiniteSet(ever)
           /\ \A S \in SUBSET ever : IsFiniteSet(S) /\ Cardinality(S) \in Nat
           /\ start \subseteq ever /\ seen \subseteq ever
           /\ Place \in Nat
           /\ \A n : RankIn(M, n) \in Nat
  <1> USE DEF ListInv
  <1>1. M \subseteq Nat /\ IsFiniteSet(M) /\ Cardinality(M) \in Nat
    BY ListFinite
  <1>2. /\ IsFiniteSet(ever)
        /\ \A S \in SUBSET ever : IsFiniteSet(S) /\ Cardinality(S) \in Nat
    BY AccountFinite, FS_Subset DEF EverOK, IndexOK
  <1>3. Place \in Nat
    BY DEF Place, ListingTypeOK, Query
  <1> QED
    BY <1>1, <1>2, <1>3, RankType DEF AccountInv, HistoryOK

\* Before the first count there is no account yet.
LEMMA WriteBeforeCount ==
    ASSUME ListInv, ListInv', AccountInv, Write, ~Begun
    PROVE  AccountInv'
  <1> USE DEF ListInv
  <1>1. /\ IndexNext /\ ever' = ever \cup M'
        /\ UNCHANGED <<query, pc, offset, total, page, seen, views, start>>
        /\ pc = "count" /\ offset = 0 /\ seen = {} /\ views = 0
    BY DEF Write, client, M, Begun, AccountInv, HistoryOK
  <1>2. HistoryOK'
    BY <1>1, AccountBase DEF HistoryOK
  <1>3. IsFiniteSet(ever') /\ IsFiniteSet(M')
    BY FS_Subset DEF EverOK, IndexOK, M, Matching, Ids
  <1>4. Cardinality(Left') \in Nat /\ Cardinality(Joined') \in Nat
    BY <1>3, AccountFinite DEF Left, Joined
  <1>5. M' \subseteq Nat
    BY ListingAssumption DEF ListingTypeOK, M, Matching, Ids, Entry
  <1>6. Passed' = {} /\ Again' = {}
    <2>1. \A n : RankIn(M', n) \in Nat
      BY <1>3, <1>5, RankType
    <2> QED
      BY <1>1, <2>1 DEF Passed, First, Again, Later, Place
  <1>7. FewPassed' /\ FewAgain'
    BY <1>1, <1>4, <1>6, FS_EmptySet DEF FewPassed, FewAgain
  <1> QED
    BY <1>1, <1>2, <1>7
       DEF AccountInv, TotalIsRecent, ShortPageEnds, GapsBounded

\* An arrival: at most one shown request moves behind the client's place.
LEMMA ArrivalPreserves ==
    ASSUME ListInv, AccountInv, Write, Begun,
           NEW x \in Calls, x \notin M, x \notin ever, M' = M \cup {x}
    PROVE  AccountInv'
  <1> USE DEF ListInv, AccountInv
  <1>1. /\ ever' = ever \cup {x}
        /\ UNCHANGED <<query, pc, offset, total, page, seen, views, start>>
    BY DEF Write, client, M, EverOK
  <1>2. /\ M \subseteq Nat /\ IsFiniteSet(M) /\ Cardinality(M) \in Nat
        /\ IsFiniteSet(ever)
        /\ \A S \in SUBSET ever : IsFiniteSet(S) /\ Cardinality(S) \in Nat
        /\ start \subseteq ever /\ seen \subseteq ever
        /\ Place \in Nat
    BY AccountBase
  <1>3. x \in Nat
    BY ListingAssumption
  <1>4. /\ Left' = Left /\ Place' = Place /\ (Stayed \ seen)' = Stayed \ seen
        /\ Joined' = Joined \cup {x} /\ x \notin Joined
    BY <1>1, <1>2 DEF Left, Stayed, Joined, Place, M
  <1>5. /\ Joined \subseteq ever /\ Left \subseteq ever
        /\ Stayed \ seen \subseteq ever /\ Stayed \subseteq M
    BY <1>2 DEF Joined, Left, Stayed, M
  <1>6. /\ Cardinality(Joined') = Cardinality(Joined) + 1
        /\ Cardinality(Joined) \in Nat
        /\ Cardinality(M') = Cardinality(M) + 1
    BY <1>2, <1>4, <1>5, FS_AddElement
  <1>7. HistoryOK'
    BY <1>1 DEF HistoryOK
  <1>8. FewPassed'
    <2>1. Passed' \subseteq Passed
      <3>1. M' \subseteq Nat /\ IsFiniteSet(M') /\ M \subseteq M'
        BY <1>2, <1>3, FS_AddElement
      <3>2. \A n : /\ RankIn(M, n) \in Nat /\ RankIn(M', n) \in Nat
                   /\ RankIn(M, n) <= RankIn(M', n)
        BY <3>1, RankGrows
      <3> QED
        BY <1>2, <1>4, <3>2 DEF Passed, First
    <2>2. Passed \subseteq ever
      BY <1>5 DEF Passed, First
    <2>3. /\ Cardinality(Passed') <= Cardinality(Passed)
          /\ Cardinality(Passed') \in Nat /\ Cardinality(Passed) \in Nat
          /\ Cardinality(Left) \in Nat
      BY <1>2, <1>5, <2>1, <2>2, FS_Subset
    <2> QED
      BY <1>4, <2>3 DEF FewPassed
  <1>9. FewAgain'
    <2>1. Again' = Later(seen \cap M, M \cup {x}, Place)
      <3>1. (seen \cap M)' = seen \cap M
        BY <1>1, <1>2
      <3> QED
        BY <1>4, <3>1 DEF Again
    <2>2. Cardinality(Again') <= Cardinality(Again) + 1
      BY <1>2, <1>3, <2>1, ArrivalShifts DEF Again
    <2>3. /\ Cardinality(Again) \in Nat /\ Cardinality(seen) \in Nat
      BY <1>2 DEF Again, Later
    <2>4. Cardinality(Again') \in Nat
      BY <1>2, <2>1 DEF Later
    <2> QED
      BY <1>1, <1>6, <2>2, <2>3, <2>4 DEF FewAgain, ListingTypeOK
  <1>10. TotalIsRecent'
    BY <1>1, <1>2, <1>6 DEF TotalIsRecent, ListingTypeOK
  <1>11. ShortPageEnds'
    BY <1>1, <1>4 DEF ShortPageEnds
  <1>12. GapsBounded'
    <2>1. /\ Cardinality(Stayed \ seen) \in Nat
          /\ Cardinality(Left) \in Nat
      BY <1>2, <1>5
    <2>2. /\ Cardinality(Joined') \in Nat
          /\ Cardinality(Joined) <= Cardinality(Joined')
          /\ Stayed' \ seen' = Stayed \ seen
      BY <1>4, <1>6
    <2> QED
      BY <1>1, <1>4, <1>6, <2>1, <2>2 DEF GapsBounded
  <1> QED
    BY <1>7, <1>8, <1>9, <1>10, <1>11, <1>12

\* A departure: at most one request not shown moves before the client's place.
LEMMA DeparturePreserves ==
    ASSUME ListInv, AccountInv, Write, Begun, NEW x \in M, M' = M \ {x}
    PROVE  AccountInv'
  <1> USE DEF ListInv, AccountInv
  <1>1. /\ ever' = ever
        /\ UNCHANGED <<query, pc, offset, total, page, seen, views, start>>
    BY DEF Write, client, M, EverOK
  <1>2. /\ M \subseteq Nat /\ IsFiniteSet(M) /\ Cardinality(M) \in Nat
        /\ IsFiniteSet(ever)
        /\ \A S \in SUBSET ever : IsFiniteSet(S) /\ Cardinality(S) \in Nat
        /\ start \subseteq ever /\ seen \subseteq ever
        /\ Place \in Nat
    BY AccountBase
  <1>3. x \in ever
    BY DEF EverOK
  <1>4. /\ Left' = Left \cup {x} /\ x \notin Left
        /\ Joined' = Joined /\ Place' = Place
        /\ (Stayed \ seen)' \subseteq (Stayed \ seen) \ {x}
    BY <1>1, <1>3 DEF Left, Stayed, Joined, Place, M
  <1>5. /\ Joined \subseteq ever /\ Left \subseteq ever
        /\ Stayed \ seen \subseteq ever /\ Stayed \subseteq M
    BY <1>2 DEF Joined, Left, Stayed, M
  <1>6. /\ Cardinality(Left') = Cardinality(Left) + 1
        /\ Cardinality(Left) \in Nat /\ Cardinality(Joined) \in Nat
        /\ Cardinality(M') \in Nat /\ Cardinality(M') <= Cardinality(M)
        /\ Cardinality((Stayed \ seen)') \in Nat
        /\ Cardinality(Stayed \ seen) \in Nat
        /\ Cardinality((Stayed \ seen)') <= Cardinality(Stayed \ seen)
    <2>1. /\ Cardinality(Left') = Cardinality(Left) + 1
          /\ Cardinality(Left) \in Nat /\ Cardinality(Joined) \in Nat
      BY <1>2, <1>4, <1>5, FS_AddElement
    <2>2. /\ Cardinality(M') \in Nat /\ Cardinality(M') <= Cardinality(M)
      BY <1>2, FS_Subset, FS_CardinalityType
    <2>3. /\ Cardinality((Stayed \ seen)') \in Nat
          /\ Cardinality(Stayed \ seen) \in Nat
          /\ Cardinality((Stayed \ seen)') <= Cardinality(Stayed \ seen)
      BY <1>2, <1>4, <1>5, FS_Subset, FS_CardinalityType
    <2> QED
      BY <2>1, <2>2, <2>3
  <1>7. HistoryOK'
    BY <1>1 DEF HistoryOK
  <1>8. FewPassed'
    <2>1. Passed' = First((Stayed \ seen)', M', Place)
      BY <1>4 DEF Passed
    <2>2. Stayed \ seen \subseteq M
      BY <1>5
    <2>3. Cardinality(Passed') <= Cardinality(Passed) + 1
      <3> SUFFICES ASSUME NEW A, A \subseteq M, NEW B, B \subseteq A
                   PROVE  Cardinality(First(B, M', Place))
                            <= Cardinality(First(A, M, Place)) + 1
        BY <1>4, <2>1, <2>2 DEF Passed
      <3> QED
        BY <1>2, DepartureShifts
    <2>4. Cardinality(Passed) \in Nat /\ Cardinality(Passed') \in Nat
      BY <1>2, <1>4, <1>5, <2>1 DEF Passed, First
    <2> QED
      BY <1>6, <2>3, <2>4 DEF FewPassed
  <1>9. FewAgain'
    <2>1. Again' \subseteq Again
      <3>1. \A n : /\ RankIn(M, n) \in Nat /\ RankIn(M', n) \in Nat
                   /\ RankIn(M', n) <= RankIn(M, n)
        BY <1>2, RankGrows
      <3> QED
        BY <1>1, <1>2, <1>4, <3>1 DEF Again, Later
    <2>2. Again \subseteq ever
      BY <1>2 DEF Again, Later
    <2>3. /\ Cardinality(Again') <= Cardinality(Again)
          /\ Cardinality(Again') \in Nat /\ Cardinality(Again) \in Nat
          /\ Cardinality(seen) \in Nat
      BY <1>2, <2>1, <2>2, FS_Subset
    <2> QED
      BY <1>1, <1>4, <1>6, <2>3 DEF FewAgain, ListingTypeOK
  <1>10. TotalIsRecent'
    BY <1>1, <1>2, <1>4, <1>6 DEF TotalIsRecent, ListingTypeOK
  <1>11. ShortPageEnds'
    BY <1>1, <1>6 DEF ShortPageEnds
  <1>12. GapsBounded'
    <2>1. Stayed' \ seen' = (Stayed \ seen)'
      OBVIOUS
    <2> QED
      BY <1>1, <1>4, <1>6, <2>1 DEF GapsBounded
  <1> QED
    BY <1>7, <1>8, <1>9, <1>10, <1>11, <1>12

\* Other writes do not touch the list.
LEMMA WriteKeepsAccount ==
    ASSUME ListInv, ListInv', AccountInv, Write
    PROVE  AccountInv'
  <1>1. IndexNext /\ query' = query
    BY DEF Write, client
  <1>2. CASE ~Begun
    BY <1>2, WriteBeforeCount
  <1>3. CASE Begun /\ M' = M
    <2>1. /\ ever' = ever
          /\ UNCHANGED <<query, pc, offset, total, page, seen, views, start>>
      BY <1>3 DEF Write, client, M, ListInv, EverOK
    <2>2. /\ Left' = Left /\ Stayed' = Stayed /\ Joined' = Joined
          /\ Place' = Place
      BY <1>3, <2>1 DEF Left, Stayed, Joined, Place, M
    <2>3. Passed' = Passed /\ Again' = Again
      BY <1>3, <2>1, <2>2 DEF Passed, First, Again, Later
    <2> QED
      BY <1>3, <2>1, <2>2, <2>3
         DEF AccountInv, HistoryOK, FewPassed, FewAgain, TotalIsRecent,
             ShortPageEnds, GapsBounded
  <1>4. CASE Begun /\ \E x \in Calls : x \notin M /\ x \notin ever /\ M' = M \cup {x}
    BY <1>4, ArrivalPreserves
  <1>5. CASE Begun /\ \E x \in M : M' = M \ {x}
    BY <1>5, DeparturePreserves
  <1> QED
    BY <1>1, <1>2, <1>3, <1>4, <1>5, WriteSteps

\* The first count opens the account with nothing in it.
LEMMA CountKeepsAccount ==
    ASSUME ListInv, AccountInv, Count
    PROVE  AccountInv'
  <1> USE DEF AccountInv
  <1>1. /\ pc = "count" /\ pc' = "select"
        /\ total' = Cardinality(M) /\ M' = M
        /\ start' = IF offset = 0 THEN M ELSE start
        /\ ever' = IF offset = 0 THEN M ELSE ever
        /\ UNCHANGED <<index, query, offset, page, seen, views>>
    BY DEF Count, M, Matching, Conditions
  <1>2. /\ Cardinality(M) \in Nat /\ Place' = Place
        /\ start \subseteq ever /\ seen \subseteq ever
        /\ Cardinality(Joined) \in Nat
    BY <1>1, AccountBase DEF Place, Joined
  <1>3. CASE offset = 0
    <2>1. seen = {} /\ views = 0 /\ start' = M /\ ever' = M
      BY <1>1, <1>3 DEF HistoryOK
    <2>2. Joined' = {} /\ Left' = {} /\ Again' = {}
      BY <1>1, <2>1 DEF Joined, Left, Again, Later, M
    <2>3. Passed' = {}
      <3>1. Place' = 0 /\ \A n : RankIn(M, n) \in Nat
        BY <1>1, <1>3, AccountBase DEF Place
      <3> QED
        BY <1>1, <3>1 DEF Passed, First
    <2> QED
      BY <1>1, <1>2, <2>1, <2>2, <2>3, FS_EmptySet
         DEF HistoryOK, FewPassed, FewAgain, TotalIsRecent, ShortPageEnds,
             GapsBounded
  <1>4. CASE offset # 0
    <2>1. start' = start /\ ever' = ever
      BY <1>1, <1>4
    <2>2. /\ Joined' = Joined /\ Left' = Left /\ Again' = Again
          /\ Passed' = Passed
      BY <1>1, <1>2, <2>1 DEF Joined, Left, Again, Later, Passed, First, Stayed, M
    <2> QED
      BY <1>1, <1>2, <1>4, <2>1, <2>2
         DEF HistoryOK, FewPassed, FewAgain, TotalIsRecent, ShortPageEnds,
             GapsBounded
  <1> QED
    BY <1>3, <1>4

\* The SELECT shows again what it shows of Again, and nothing else.
LEMMA SelectKeepsAccount ==
    ASSUME ListInv, AccountInv, Select
    PROVE  AccountInv'
  <1> USE DEF ListInv, AccountInv
  <1> DEFINE P == PageIn(M, offset, query.limit)
             Rest == (Stayed \ seen)'
  <1>1. /\ pc = "select" /\ pc' = "listed"
        /\ page' = P /\ seen' = seen \cup P
        /\ views' = views + Cardinality(P)
        /\ UNCHANGED <<index, query, offset, total, start, ever>>
    BY PageByRank DEF Select
  <1>2. /\ M \subseteq Nat /\ IsFiniteSet(M) /\ Cardinality(M) \in Nat
        /\ IsFiniteSet(ever)
        /\ \A S \in SUBSET ever : IsFiniteSet(S) /\ Cardinality(S) \in Nat
        /\ start \subseteq ever /\ seen \subseteq ever
        /\ \A n : RankIn(M, n) \in Nat
    BY AccountBase
  <1>3. /\ offset \in Nat /\ query.limit \in Nat \ {0} /\ views \in Nat
        /\ offset + query.limit \in Nat
    BY DEF ListingTypeOK, Query
  <1>4. /\ M' = M /\ Left' = Left /\ Joined' = Joined /\ Stayed' = Stayed
        /\ Place = offset /\ Place' = offset + query.limit
        /\ M \subseteq ever /\ P \subseteq M
        /\ Rest = Stayed \ (seen \cup P)
    BY <1>1 DEF M, Matching, Conditions, Left, Joined, Stayed, Place, EverOK,
                Begun, PageIn
  <1>5. /\ Joined \subseteq ever /\ Left \subseteq ever /\ Stayed \subseteq M
    BY <1>2 DEF Joined, Left, Stayed, M
  <1>6. HistoryOK'
    BY <1>1, <1>2, <1>4 DEF HistoryOK
  <1>7. \A n \in Rest : RankIn(M, n) < offset + query.limit => n \in Passed
    <2> SUFFICES ASSUME NEW n \in Rest, RankIn(M, n) < offset + query.limit
                 PROVE  RankIn(M, n) < offset
      BY <1>4 DEF Passed, First
    <2>1. n \in M /\ n \notin P
      BY <1>4, <1>5
    <2> QED
      BY <1>2, <1>3, <2>1 DEF PageIn
  <1>8. /\ IsFiniteSet(Passed) /\ Cardinality(Passed) \in Nat
        /\ \A S \in SUBSET Passed : /\ Cardinality(S) \in Nat
                                    /\ Cardinality(S) <= Cardinality(Passed)
    <2>1. Passed \subseteq ever
      BY <1>4, <1>5 DEF Passed, First
    <2> QED
      BY <1>2, <2>1, FS_Subset
  <1>9. FewPassed'
    <2>1. Passed' \subseteq Passed
      BY <1>4, <1>7 DEF Passed, First
    <2>2. /\ Cardinality(Passed') <= Cardinality(Passed)
          /\ Cardinality(Passed') \in Nat /\ Cardinality(Left) \in Nat
      BY <1>2, <1>5, <1>8, <2>1
    <2> QED
      BY <1>4, <1>8, <2>2 DEF FewPassed
  <1>10. ShortPageEnds'
    <2> SUFFICES ASSUME Cardinality(P) < query.limit
                 PROVE  Cardinality(Rest) <= Cardinality(Left)
      BY <1>1, <1>4 DEF ShortPageEnds
    <2>1. \A n \in M : RankIn(M, n) < offset + query.limit
      <3>1. \/ Cardinality(P) >= query.limit
            \/ \A n \in M : RankIn(M, n) < offset + query.limit
        BY <1>2, <1>3, PageReaches
      <3>2. Cardinality(P) \in Nat
        BY <1>2, <1>4
      <3> QED
        BY <1>3, <3>1, <3>2
    <2>2. Rest \subseteq Passed
      BY <1>4, <1>5, <1>7, <2>1
    <2>3. Cardinality(Rest) <= Cardinality(Passed) /\ Cardinality(Rest) \in Nat
      BY <1>8, <2>2
    <2>4. Cardinality(Left) \in Nat
      BY <1>2, <1>5
    <2> QED
      BY <1>8, <2>3, <2>4 DEF FewPassed
  <1>11. FewAgain'
    <2> DEFINE Twice == seen \cap P
    <2>1. /\ IsFiniteSet(P) /\ Cardinality(P) \in Nat
          /\ IsFiniteSet(Twice) /\ Cardinality(Twice) \in Nat
          /\ IsFiniteSet(seen) /\ Cardinality(seen) \in Nat
          /\ IsFiniteSet(Again) /\ Cardinality(Again) \in Nat
          /\ Cardinality(Joined) \in Nat
      BY <1>2, <1>4, <1>5 DEF Again, Later
    <2>2. Cardinality(seen') =
            Cardinality(seen) + Cardinality(P) - Cardinality(Twice)
      BY <1>1, <2>1, FS_Union
    <2>3. Again' = Again \ Twice /\ Again \cap Twice = Twice
      BY <1>1, <1>2, <1>3, <1>4 DEF Again, Later, PageIn
    <2>4. Cardinality(Again') = Cardinality(Again) - Cardinality(Twice)
      <3> HIDE DEF Twice
      <3> QED
        BY <2>1, <2>3, FS_Difference
    <2> QED
      BY <1>1, <1>3, <1>4, <2>1, <2>2, <2>4 DEF FewAgain
  <1>12. TotalIsRecent' /\ GapsBounded'
    BY <1>1, <1>4 DEF TotalIsRecent, GapsBounded
  <1> QED
    BY <1>6, <1>9, <1>10, <1>11, <1>12

\* To the next page and back to the count: the client's place stays.
LEMMA TurnKeepsAccount ==
    ASSUME ListInv, AccountInv, Fail \/ NextPage
    PROVE  AccountInv'
  <1> USE DEF AccountInv
  <1>1. /\ UNCHANGED <<index, query, seen, views, start, ever>>
        /\ pc' = "count"
        /\ offset' = 0 => offset = 0 /\ pc = "select"
    BY DEF Fail, NextPage, ListInv, ListingTypeOK, Query
  <1>2. Place' = Place
    BY DEF Fail, NextPage, Place
  <1>3. /\ M' = M /\ Left' = Left /\ Joined' = Joined /\ Stayed' = Stayed
    BY <1>1 DEF M, Matching, Conditions, Left, Joined, Stayed
  <1>4. Passed' = Passed /\ Again' = Again
    BY <1>1, <1>2, <1>3 DEF Passed, First, Again, Later
  <1> QED
    BY <1>1, <1>3, <1>4
       DEF HistoryOK, FewPassed, FewAgain, TotalIsRecent, ShortPageEnds,
           GapsBounded

\* Whoever stops at a short page has passed over what he lacks; whoever stops
\* by total lacks besides what lies beyond it, which joined after the count.
LEMMA FinishKeepsAccount ==
    ASSUME ListInv, AccountInv, Finish
    PROVE  AccountInv'
  <1> USE DEF AccountInv
  <1>1. /\ UNCHANGED <<index, query, offset, total, page, seen, views,
                       start, ever>>
        /\ pc = "listed" /\ pc' = "done" /\ LastPage
    BY DEF Finish
  <1>2. /\ M' = M /\ Left' = Left /\ Joined' = Joined /\ Stayed' = Stayed
        /\ Place = offset + query.limit /\ Place' = Place
    BY <1>1 DEF M, Matching, Conditions, Left, Joined, Stayed, Place
  <1>3. Passed' = Passed /\ Again' = Again
    BY <1>1, <1>2 DEF Passed, First, Again, Later
  <1>4. GapsBounded'
    <2>1. CASE query.until = "short"
      <3>1. query.until # "total" /\ Cardinality(page) < query.limit
        BY <1>1, <2>1 DEF LastPage
      <3>2. Cardinality(Stayed \ seen) <= Cardinality(Left)
        BY <1>1, <3>1 DEF ShortPageEnds
      <3>3. Cardinality(Left) \in Nat
        BY AccountBase DEF Left
      <3> QED
        BY <1>1, <1>2, <3>1, <3>2, <3>3 DEF GapsBounded
    <2>2. CASE query.until = "total"
      <3> DEFINE Tail == Later(M, M, Place)
      <3>1. /\ M \subseteq Nat /\ IsFiniteSet(M) /\ Cardinality(M) \in Nat
            /\ \A S \in SUBSET ever : IsFiniteSet(S) /\ Cardinality(S) \in Nat
            /\ start \subseteq ever /\ Place \in Nat
            /\ \A n : RankIn(M, n) \in Nat
        BY AccountBase
      <3>2. /\ IsFiniteSet(Tail) /\ Cardinality(Tail) \in Nat
            /\ Tail = {} \/ Cardinality(Tail) + Place <= Cardinality(M)
        BY <3>1, TailAtMost
      <3>3. /\ Left \subseteq ever /\ Joined \subseteq ever
            /\ Passed \subseteq ever /\ Stayed \subseteq M
        BY <3>1 DEF Left, Joined, Passed, First, Stayed, M
      <3>4. Place >= total /\ total \in Nat
        BY <1>1, <1>2, <2>2 DEF LastPage, ListInv, ListingTypeOK
      <3>5. Cardinality(Tail) <= Cardinality(Joined)
        BY <1>1, <3>1, <3>2, <3>3, <3>4, FS_EmptySet DEF TotalIsRecent
      <3>6. Stayed \ seen \subseteq Passed \cup Tail
        <4> SUFFICES ASSUME NEW n \in Stayed \ seen
                     PROVE  n \in Passed \cup Tail
          OBVIOUS
        <4>1. n \in M /\ RankIn(M, n) \in Nat /\ Place \in Nat
          BY <3>1, <3>3
        <4>2. RankIn(M, n) < Place \/ RankIn(M, n) >= Place
          BY <4>1
        <4> QED
          BY <4>1, <4>2 DEF Passed, First, Later
      <3>7. Passed \cap Tail = {}
        BY <3>1 DEF Passed, First, Later
      <3>8. /\ Cardinality(Passed \cup Tail)
                 = Cardinality(Passed) + Cardinality(Tail)
            /\ IsFiniteSet(Passed \cup Tail)
        <4>1. IsFiniteSet(Passed) /\ Cardinality(Passed) \in Nat
          BY <3>1, <3>3
        <4>2. /\ Cardinality(Passed \cup Tail) = Cardinality(Passed)
                   + Cardinality(Tail) - Cardinality(Passed \cap Tail)
              /\ IsFiniteSet(Passed \cup Tail)
          BY <3>2, <4>1, FS_Union
        <4>3. Cardinality(Passed \cap Tail) = 0
          BY <3>7, FS_EmptySet
        <4> QED
          BY <3>2, <4>1, <4>2, <4>3
      <3>9. /\ Cardinality(Stayed \ seen) <= Cardinality(Passed \cup Tail)
            /\ Cardinality(Stayed \ seen) \in Nat
        BY <3>6, <3>8, FS_Subset, FS_CardinalityType
      <3>10. /\ Cardinality(Left) \in Nat /\ Cardinality(Joined) \in Nat
             /\ Cardinality(Passed) \in Nat
        BY <3>1, <3>3
      <3>11. Cardinality(Stayed \ seen)
               <= Cardinality(Left) + Cardinality(Joined)
        BY <3>2, <3>5, <3>8, <3>9, <3>10 DEF FewPassed
      <3> QED
        BY <1>1, <1>2, <2>2, <3>11 DEF GapsBounded
    <2>3. query.until \in {"total", "short"}
      BY DEF ListInv, ListingTypeOK, Query
    <2> QED
      BY <2>1, <2>2, <2>3
  <1> QED
    BY <1>1, <1>2, <1>3, <1>4
       DEF HistoryOK, FewPassed, FewAgain, TotalIsRecent, ShortPageEnds

-----------------------------------------------------------------------------

\* What was passed over and what is shown again is accounted for, from the
\* first call to the last.
THEOREM AccountInvariant == Spec => []AccountInv
  <1>1. Init => AccountInv
    <2> SUFFICES ASSUME Init
                 PROVE  AccountInv
      OBVIOUS
    <2>1. Passed = {} /\ Again = {} /\ Left = {} /\ Joined = {}
      BY DEF Init, Passed, First, Again, Later, Left, Joined, Stayed
    <2> QED
      BY <2>1, FS_EmptySet
         DEF Init, AccountInv, HistoryOK, FewPassed, FewAgain, TotalIsRecent,
             ShortPageEnds, GapsBounded
  <1>2. ListInv /\ ListInv' /\ AccountInv /\ [Next]_vars => AccountInv'
    <2> SUFFICES ASSUME ListInv, ListInv', AccountInv, [Next]_vars
                 PROVE  AccountInv'
      OBVIOUS
    <2>1. CASE UNCHANGED vars
      BY <2>1 DEF vars, client, AccountInv, HistoryOK, FewPassed, FewAgain,
           TotalIsRecent, ShortPageEnds, GapsBounded, Passed, First, Again, Later, Place,
           Left, Joined, Stayed, M, Matching, Conditions
    <2>2. CASE Next
      BY <2>2, WriteKeepsAccount, CountKeepsAccount, SelectKeepsAccount,
         TurnKeepsAccount, FinishKeepsAccount DEF Next
    <2> QED
      BY <2>1, <2>2
  <1> QED
    BY <1>1, <1>2, ListingInvariant, PTL DEF Spec

\* However the list changes between the pages, a client misses no more of what
\* stayed in it than left it, and by total than joined it besides.
THEOREM GapsAreBounded == Spec => []GapsBounded
  BY AccountInvariant, PTL DEF AccountInv

\* No more requests are shown again than joined the list.
THEOREM RepeatsAreBounded == Spec => []RepeatsBounded
  <1>1. ListInv /\ AccountInv => RepeatsBounded
    <2> SUFFICES ASSUME ListInv, AccountInv
                 PROVE  RepeatsBounded
      OBVIOUS
    <2>1. /\ Cardinality(Again) \in Nat /\ Cardinality(seen) \in Nat
          /\ Cardinality(Joined) \in Nat /\ views \in Nat
      BY AccountBase DEF Again, Later, Joined, ListInv, ListingTypeOK
    <2> QED
      BY <2>1 DEF AccountInv, FewAgain, RepeatsBounded
  <1> QED
    BY <1>1, ListingInvariant, AccountInvariant, PTL

=============================================================================
