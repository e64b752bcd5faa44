---------------------------- MODULE PagingProofs ----------------------------
(***************************************************************************)
(* What a walk over the pages of a changing listing may miss and repeat,   *)
(* for any rows, page sizes and numbers of changes.  The arguments count   *)
(* rows; the lemmas on Position and Page are those of Listing.             *)
(***************************************************************************)
EXTENDS Paging, FiniteSetTheorems, TLAPS

\* A listing: a finite set of numbers.
IsListing(V) == V \subseteq Int /\ IsFiniteSet(V)

-----------------------------------------------------------------------------
(* Positions in a listing *)

\* The rows in front of a row are finitely many.
LEMMA PositionType ==
  ASSUME NEW V, IsListing(V), NEW r \in Int
  PROVE  /\ IsFiniteSet({x \in V : x < r})
         /\ Position(V, r) \in Nat
         /\ Position(V, r) <= Cardinality(V) /\ Cardinality(V) \in Nat
<1>1. {x \in V : x < r} \in SUBSET V /\ IsFiniteSet(V)
  BY DEF IsListing
<1>2. QED
  BY <1>1, FS_Subset, FS_CardinalityType DEF Position

\* A row of the listing is one more in front of every later row.
LEMMA PositionsIncrease ==
  ASSUME NEW V, IsListing(V), NEW r \in V, NEW s \in Int, r < s
  PROVE  Position(V, r) < Position(V, s)
<1> DEFINE R == {x \in V : x < r}
           S == {x \in V : x < s}
<1>1. r \in Int /\ IsFiniteSet(R) /\ IsFiniteSet(S)
  BY PositionType DEF IsListing
<1>2. R \cup {r} \in SUBSET S /\ r \notin R
  <2>1. \A x \in R \cup {r} : x \in V /\ x < s
    BY <1>1 DEF IsListing
  <2>2. r \notin R
    BY <1>1
  <2>3. R \cup {r} \subseteq S
    BY <2>1
  <2>4. QED
    BY <2>2, <2>3
<1>3. IsFiniteSet(R \cup {r}) /\ Cardinality(R \cup {r}) = Cardinality(R) + 1
  BY <1>1, <1>2, FS_AddElement
<1>4. Cardinality(R \cup {r}) <= Cardinality(S)
  BY <1>1, <1>2, FS_Subset
<1>5. Cardinality(R) \in Nat /\ Cardinality(S) \in Nat
  BY <1>1, FS_CardinalityType
<1>6. QED
  BY <1>3, <1>4, <1>5 DEF Position

\* The rows of a listing are at different positions, all below their number.
LEMMA PositionsDiffer ==
  ASSUME NEW V, IsListing(V)
  PROVE  /\ \A r, s \in V : Position(V, r) = Position(V, s) => r = s
         /\ \A r \in V : Position(V, r) \in 0 .. (Cardinality(V) - 1)
<1>1. ASSUME NEW r \in V, NEW s \in V, Position(V, r) = Position(V, s)
      PROVE  r = s
  <2>1. r \in Int /\ s \in Int /\ Position(V, r) \in Nat
    BY PositionType DEF IsListing
  <2>2. ~(r < s) /\ ~(s < r)
    BY <1>1, <2>1, PositionsIncrease
  <2>3. QED
    BY <2>1, <2>2
<1>2. ASSUME NEW r \in V
      PROVE  Position(V, r) \in 0 .. (Cardinality(V) - 1)
  <2>1. {x \in V : x < r} \in SUBSET V /\ r \notin {x \in V : x < r} /\ r \in Int
    BY DEF IsListing
  <2>2. Position(V, r) # Cardinality(V)
    BY <2>1, FS_Subset DEF Position, IsListing
  <2>3. QED
    <3>1. Position(V, r) \in Nat /\ Cardinality(V) \in Nat /\ Position(V, r) <= Cardinality(V)
      BY <2>1, PositionType
    <3>2. QED
      BY <2>2, <3>1
<1>3. QED
  BY <1>1, <1>2

\* Every position below the number of rows has its row.
LEMMA PositionsTaken ==
  ASSUME NEW V, IsListing(V), NEW k \in 0 .. (Cardinality(V) - 1)
  PROVE  \E r \in V : Position(V, r) = k
<1> DEFINE n == Cardinality(V)
           f == [r \in V |-> Position(V, r)]
<1>1. n \in Nat
  BY FS_CardinalityType DEF IsListing
<1>2. IsFiniteSet(0 .. (n - 1)) /\ Cardinality(0 .. (n - 1)) = n
  BY <1>1, FS_Interval
<1>3. f \in Injection(V, 0 .. (n - 1))
  BY PositionsDiffer DEF Injection, IsInjective
<1>4. f \in Surjection(V, 0 .. (n - 1))
  BY <1>2, <1>3, FS_Injection
<1>5. QED
  BY <1>4 DEF Surjection

\* A new row moves the later rows, and only them, by one.
LEMMA PositionAfterJoin ==
  ASSUME NEW V, IsListing(V), NEW n \in Int \ V, NEW r \in Int
  PROVE  Position(V \cup {n}, r) = IF n < r THEN Position(V, r) + 1 ELSE Position(V, r)
<1>1. IsFiniteSet({x \in V : x < r})
  BY PositionType
<1>2. CASE n < r
  <2>1. {x \in V \cup {n} : x < r} = {x \in V : x < r} \cup {n} /\ n \notin {x \in V : x < r}
    BY <1>2
  <2>2. QED
    BY <1>1, <1>2, <2>1, FS_AddElement DEF Position
<1>3. CASE ~(n < r)
  <2>1. {x \in V \cup {n} : x < r} = {x \in V : x < r}
    BY <1>3
  <2>2. QED
    BY <1>3, <2>1 DEF Position
<1>4. QED
  BY <1>2, <1>3

\* A row that leaves moves the later rows, and only them, back by one.
LEMMA PositionAfterLeave ==
  ASSUME NEW V, IsListing(V), NEW n \in V, NEW r \in Int
  PROVE  Position(V \ {n}, r) = IF n < r THEN Position(V, r) - 1 ELSE Position(V, r)
<1> DEFINE W == V \ {n}
<1>1. IsListing(W) /\ n \in Int \ W /\ V = W \cup {n}
  BY FS_RemoveElement DEF IsListing
<1>2. Position(V, r) = IF n < r THEN Position(W, r) + 1 ELSE Position(W, r)
  BY <1>1, PositionAfterJoin
<1>3. Position(W, r) \in Nat
  BY <1>1, PositionType
<1>4. QED
  BY <1>2, <1>3

\* A later place has no fewer rows in front of it.
LEMMA PositionsMonotone ==
  ASSUME NEW V, IsListing(V), NEW r \in Int, NEW s \in Int, r <= s
  PROVE  Position(V, r) <= Position(V, s)
<1>1. \A x \in V : x < r => x < s
  BY DEF IsListing
<1>2. {x \in V : x < r} \in SUBSET {x \in V : x < s}
  BY <1>1
<1>3. QED
  BY <1>2, PositionType, FS_Subset DEF Position

-----------------------------------------------------------------------------
(* Limits, offsets and pages *)

\* A page that is asked for in a valid request has room for a row.
LEMMA LimitType ==
  ASSUME NEW size \in Int, size >= 0
  PROVE  Limit(size) \in Nat \ {0}
BY ListingAssumption DEF Limit

\* A page has at most as many rows as were asked for, and exactly as many if there
\* are rows behind it; a full page lies within the listing.
LEMMA PageIsFull ==
  ASSUME NEW V, IsListing(V), NEW limit \in Nat \ {0}, NEW offset \in Nat
  PROVE  LET page == Page(V, limit, offset) IN
         /\ IsFiniteSet(page) /\ Cardinality(page) \in 0 .. limit
         /\ (\E r \in V : Position(V, r) >= offset + limit) => Cardinality(page) = limit
         /\ Cardinality(page) = limit => offset + limit <= Cardinality(V)
<1> DEFINE page   == Page(V, limit, offset)
           places == offset .. (offset + limit - 1)
           place  == [r \in page |-> Position(V, r)]
<1>1. IsFiniteSet(places) /\ Cardinality(places) = limit
  BY FS_Interval
<1>2. /\ \A r \in page : r \in V /\ Position(V, r) \in places
      /\ \A r \in V : Position(V, r) \in places => r \in page
  BY DEF Page
<1>3. place \in Injection(page, places)
  BY <1>2, PositionsDiffer DEF Injection, IsInjective
<1>4. /\ IsFiniteSet(page) /\ Cardinality(page) <= limit
      /\ Cardinality(page) = limit <=> place \in Surjection(page, places)
  BY <1>1, <1>3, FS_Injection
<1>5. Cardinality(page) \in 0 .. limit
  BY <1>4, FS_CardinalityType
<1>6. Cardinality(V) \in Nat
  BY FS_CardinalityType DEF IsListing
<1>7. ASSUME NEW r \in V, Position(V, r) >= offset + limit
      PROVE  Cardinality(page) = limit
  <2>1. Position(V, r) < Cardinality(V) /\ Position(V, r) \in Nat
    BY <1>6, PositionsDiffer
  <2>2. ASSUME NEW k \in places
        PROVE  \E x \in page : place[x] = k
    <3>1. k \in 0 .. (Cardinality(V) - 1)
      BY <1>6, <1>7, <2>1
    <3>2. PICK x \in V : Position(V, x) = k
      BY <3>1, PositionsTaken
    <3>3. QED
      BY <1>2, <3>2
  <2>3. place \in Surjection(page, places)
    BY <1>3, <2>2 DEF Surjection, Injection
  <2>4. QED
    BY <1>4, <2>3
<1>8. ASSUME Cardinality(page) = limit
      PROVE  offset + limit <= Cardinality(V)
  <2>0. offset + limit - 1 \in places
    OBVIOUS
  <2>1. PICK x \in page : place[x] = offset + limit - 1
    BY <1>4, <1>8, <2>0 DEF Surjection
  <2>2. x \in V /\ Position(V, x) = offset + limit - 1
    BY <1>2, <2>1
  <2>3. Position(V, x) < Cardinality(V)
    BY <1>6, <2>2, PositionsDiffer
  <2>4. QED
    BY <1>6, <2>2, <2>3
<1>9. QED
  BY <1>4, <1>5, <1>7, <1>8

-----------------------------------------------------------------------------
(* The inductive invariant *)

\* Rows that the walk is going to meet a second time.
Ahead == {r \in visible \cap listed : Position(visible, r) >= Offset(token)}

\* The repetitions to come are paid for by arrivals too; a walk that no row has left
\* has listed visible rows only, and while none has come all of them stayed.
IInv == /\ TypeOK
        /\ IsFiniteSet(visible)
        /\ SkippedOnlyForLeavers
        /\ RepeatsOnlyForArrivals
        /\ walk = "walking" => repeats + Cardinality(Ahead) <= joined
        /\ left = 0 => listed \subseteq visible
        /\ left = 0 /\ joined = 0 => stayed = visible

\* What the counts are counts of.
LEMMA Types ==
  ASSUME TypeOK, IsFiniteSet(visible)
  PROVE  /\ IsListing(visible) /\ Offset(token) \in Nat
         /\ IsFiniteSet(Skipped) /\ Cardinality(Skipped) \in Nat
         /\ IsFiniteSet(Ahead) /\ Cardinality(Ahead) \in Nat
         /\ \A r \in visible : r \in Int /\ Position(visible, r) \in Nat
<1>1. IsListing(visible)
  BY PagingAssumption DEF TypeOK, IsListing
<1>2. Offset(token) \in Nat
  BY ListingAssumption DEF TypeOK, Offset
<1>3. Skipped \in SUBSET visible /\ Ahead \in SUBSET visible
  BY DEF Skipped, Passed, TypeOK, Ahead
<1>4. \A r \in visible : r \in Int /\ Position(visible, r) \in Nat
  BY <1>1, PositionType DEF IsListing
<1>5. QED
  BY <1>1, <1>2, <1>3, <1>4, FS_Subset, FS_CardinalityType

\* A set that has at most one element that another one has not.
LEMMA OneMore ==
  ASSUME NEW S, NEW T, IsFiniteSet(S), IsFiniteSet(T),
         \A x, y \in T \ S : x = y
  PROVE  Cardinality(T) <= Cardinality(S) + 1
<1>1. Cardinality(S) \in Nat /\ Cardinality(T) \in Nat
  BY FS_CardinalityType
<1>2. CASE T \subseteq S
  BY <1>1, <1>2, FS_Subset
<1>3. CASE ~(T \subseteq S)
  <2>1. PICK z \in T : z \notin S
    BY <1>3
  <2>2. T \in SUBSET (S \cup {z})
    BY <2>1
  <2>3. IsFiniteSet(S \cup {z}) /\ Cardinality(S \cup {z}) = Cardinality(S) + 1
    BY <2>1, FS_AddElement
  <2>4. QED
    BY <2>2, <2>3, FS_Subset
<1>4. QED
  BY <1>2, <1>3

-----------------------------------------------------------------------------
(* The steps *)

\* The first page of a walk is asked for.
LEMMA StartStep ==
  ASSUME IInv, StartWalk
  PROVE  IInv'
<1>1. /\ TypeOK /\ IsFiniteSet(visible) /\ None \notin Int
      /\ visible' = visible /\ walk' = "walking" /\ token' = None
      /\ listed' = {} /\ stayed' = visible /\ joined' = 0 /\ left' = 0 /\ repeats' = 0
  BY ListingAssumption DEF IInv, StartWalk
<1>2. TypeOK'
  BY <1>1 DEF TypeOK
<1>3. \A r \in visible : Position(visible, r) \in Nat
  BY <1>1, Types
<1>4. Skipped' = {}
  BY <1>1, <1>3 DEF Skipped, Passed, Offset
<1>5. Ahead' = {}
  BY <1>1 DEF Ahead
<1>6. Cardinality({}) = 0
  BY FS_EmptySet
<1>7. QED
  BY <1>1, <1>2, <1>4, <1>5, <1>6 DEF IInv, SkippedOnlyForLeavers, RepeatsOnlyForArrivals

\* A page passes only rows that it lists, and of the rows that were ahead it
\* repeats those that are not ahead any more.
LEMMA FetchStep ==
  ASSUME IInv, NEW size \in PageSizes, Fetch(size)
  PROVE  IInv'
<1> DEFINE limit  == Limit(size)
           offset == Offset(token)
           page   == Page(visible, limit, offset)
           again  == page \cap listed
<1>1. /\ TypeOK /\ IsFiniteSet(visible) /\ IsListing(visible) /\ offset \in Nat
      /\ \A r \in visible : r \in Int /\ Position(visible, r) \in Nat
      /\ IsFiniteSet(Skipped) /\ IsFiniteSet(Ahead)
      /\ Cardinality(Skipped) \in Nat /\ Cardinality(Ahead) \in Nat
  BY Types DEF IInv
<1>2. limit \in Nat \ {0}
  BY LimitType, PagingAssumption DEF Fetch, ValidRequest
<1>3. /\ walk = "walking" /\ UNCHANGED <<visible, stayed, joined, left>>
      /\ listed' = listed \cup page /\ repeats' = repeats + Cardinality(again)
      /\ token' = IF Cardinality(page) < limit THEN None ELSE offset + limit
      /\ walk' = IF token' = None THEN "done" ELSE "walking"
  BY DEF Fetch, NextToken
<1>4. /\ page \subseteq visible /\ Cardinality(page) \in 0 .. limit
      /\ \A r \in visible : r \in page <=> Position(visible, r) \in offset .. (offset + limit - 1)
      /\ \A r \in visible : Position(visible, r) >= offset + limit => Cardinality(page) = limit
      /\ IsFiniteSet(page)
  <2>1. /\ IsFiniteSet(page) /\ Cardinality(page) \in 0 .. limit
        /\ (\E r \in visible : Position(visible, r) >= offset + limit) => Cardinality(page) = limit
    BY <1>1, <1>2, PageIsFull
  <2>2. /\ page \subseteq visible
        /\ \A r \in visible : r \in page <=> Position(visible, r) \in offset .. (offset + limit - 1)
    BY DEF Page
  <2> HIDE DEF page, limit, offset
  <2>3. QED
    BY <2>1, <2>2
<1> HIDE DEF limit, offset, page
<1>5. None \notin Int
  BY ListingAssumption
<1>6. /\ walk' = "walking" => Offset(token)' = offset + limit
      /\ walk' = "done" => \A r \in visible : Position(visible, r) < offset + limit
      /\ walk' \in {"walking", "done"}
  BY <1>1, <1>2, <1>3, <1>4, <1>5 DEF Offset
<1>7. IsFiniteSet(again) /\ Cardinality(again) \in Nat
  BY <1>4, FS_Intersection, FS_CardinalityType
<1>8. TypeOK'
  BY <1>1, <1>2, <1>3, <1>4, <1>7 DEF TypeOK
<1>9. Cardinality(Skipped') <= left'
  <2>1. ASSUME NEW r \in Skipped'
        PROVE  r \in Skipped
    <3>1. r \in stayed /\ r \in visible /\ r \notin listed /\ r \notin page
      BY <1>1, <1>3 DEF Skipped, Passed, TypeOK
    <3>2. Position(visible, r) < offset + limit
      BY <1>3, <1>6, <3>1 DEF Skipped, Passed
    <3>3. Position(visible, r) < offset
      BY <1>1, <1>2, <1>4, <3>1, <3>2
    <3>4. QED
      BY <3>1, <3>3 DEF Skipped, Passed, offset
  <2>2. Skipped' \in SUBSET Skipped
    BY <2>1
  <2>3. Cardinality(Skipped') <= Cardinality(Skipped) /\ Cardinality(Skipped') \in Nat
    BY <1>1, <2>2, FS_Subset, FS_CardinalityType
  <2>4. QED
    BY <1>1, <1>3, <2>3 DEF IInv, SkippedOnlyForLeavers, TypeOK
<1>10. \A r \in again : r \in Ahead
  BY <1>1, <1>4 DEF Ahead, offset
<1>11. repeats + Cardinality(Ahead) <= joined /\ repeats \in Nat /\ joined \in Nat
  BY <1>3 DEF IInv, TypeOK
<1>12. repeats' <= joined'
  <2>1. again \in SUBSET Ahead
    BY <1>10
  <2>2. Cardinality(again) <= Cardinality(Ahead)
    BY <1>1, <2>1, FS_Subset
  <2>3. QED
    BY <1>1, <1>3, <1>7, <1>11, <2>2
<1>13. ASSUME walk' = "walking"
       PROVE  repeats' + Cardinality(Ahead') <= joined'
  <2>1. \A r \in Ahead' : r \in Ahead /\ r \notin again
    BY <1>1, <1>2, <1>3, <1>4, <1>6, <1>13 DEF Ahead, offset
  <2>2. Ahead' \in SUBSET (Ahead \ again) /\ Ahead \cap again = again
    BY <1>10, <2>1
  <2>3. IsFiniteSet(Ahead \ again) /\ Cardinality(Ahead \ again) = Cardinality(Ahead) - Cardinality(again)
    <3>1. /\ IsFiniteSet(Ahead \ again)
          /\ Cardinality(Ahead \ again) = Cardinality(Ahead) - Cardinality(Ahead \cap again)
      BY <1>1, FS_Difference
    <3>2. QED
      BY <2>2, <3>1
  <2>4. Cardinality(Ahead') <= Cardinality(Ahead \ again) /\ Cardinality(Ahead') \in Nat
    BY <2>2, <2>3, FS_Subset, FS_CardinalityType
  <2>5. QED
    BY <1>1, <1>3, <1>7, <1>11, <2>3, <2>4
<1>14. QED
  BY <1>1, <1>3, <1>4, <1>8, <1>9, <1>12, <1>13 DEF IInv, SkippedOnlyForLeavers, RepeatsOnlyForArrivals

\* An arrival moves one row at most from behind the walk to the rows ahead of it.
LEMMA JoinStep ==
  ASSUME IInv, NEW n \in RowIds, Join(n)
  PROVE  IInv'
<1>1. /\ TypeOK /\ IsFiniteSet(visible) /\ IsListing(visible) /\ Offset(token) \in Nat
      /\ \A r \in visible : r \in Int /\ Position(visible, r) \in Nat
      /\ IsFiniteSet(Skipped) /\ IsFiniteSet(Ahead)
      /\ Cardinality(Skipped) \in Nat /\ Cardinality(Ahead) \in Nat
  BY Types DEF IInv
<1>2. /\ visible' = visible \cup {n} /\ joined' = joined + 1
      /\ UNCHANGED <<walk, token, listed, stayed, left, repeats>>
      /\ n \in Int \ visible
  BY PagingAssumption DEF Join
<1>3. TypeOK' /\ IsFiniteSet(visible') /\ Offset(token)' = Offset(token)
  BY <1>1, <1>2, FS_AddElement DEF TypeOK, Offset
<1>4. \A r \in Int : Position(visible', r) =
         IF n < r THEN Position(visible, r) + 1 ELSE Position(visible, r)
  BY <1>1, <1>2, PositionAfterJoin
<1>5. Position(visible, n) \in Nat
  BY <1>1, <1>2, PositionType
<1>6. Cardinality(Skipped') <= left'
  <2>1. \A r \in Skipped' : r \in Skipped
    BY <1>1, <1>2, <1>3, <1>4 DEF Skipped, Passed, TypeOK
  <2>2. Skipped' \in SUBSET Skipped
    BY <2>1
  <2>3. Cardinality(Skipped') <= Cardinality(Skipped) /\ Cardinality(Skipped') \in Nat
    BY <1>1, <2>2, FS_Subset, FS_CardinalityType
  <2>4. QED
    BY <1>1, <1>2, <2>3 DEF IInv, SkippedOnlyForLeavers, TypeOK
<1>7. Cardinality(Ahead') <= Cardinality(Ahead) + 1 /\ Cardinality(Ahead') \in Nat
  <2>1. \A r \in Ahead' : /\ r \in visible' /\ r \in listed /\ r \in Int
                          /\ Position(visible', r) >= Offset(token)
    BY <1>1, <1>2, <1>3 DEF Ahead
  <2>2. ASSUME NEW r \in Ahead' \ Ahead
        PROVE  \/ r = n /\ Position(visible, n) >= Offset(token)
               \/ r \in visible /\ n < r /\ Position(visible, r) = Offset(token) - 1
    <3>1. CASE r = n
      BY <1>2, <1>4, <2>1, <3>1
    <3>2. CASE r # n
      <4>1. r \in visible /\ Position(visible, r) < Offset(token)
        BY <1>1, <1>2, <2>1, <3>2 DEF Ahead
      <4>2. QED
        BY <1>1, <1>4, <2>1, <4>1
    <3>3. QED
      BY <3>1, <3>2
  <2>3. \A r \in visible : n < r => Position(visible, n) <= Position(visible, r)
    BY <1>1, <1>2, PositionsMonotone
  <2>4. ASSUME NEW r \in Ahead' \ Ahead, NEW s \in Ahead' \ Ahead
        PROVE  r = s
    BY <1>1, <1>5, <2>2, <2>3, PositionsDiffer
  <2>5. IsFiniteSet(Ahead')
    <3>1. Ahead' \in SUBSET visible'
      BY DEF Ahead
    <3>2. QED
      BY <1>3, <3>1, FS_Subset
  <2>6. QED
    BY <1>1, <2>4, <2>5, OneMore, FS_CardinalityType
<1>8. QED
  BY <1>1, <1>2, <1>3, <1>6, <1>7 DEF IInv, SkippedOnlyForLeavers, RepeatsOnlyForArrivals, TypeOK

\* A departure moves one row at most from the rows ahead to those that are passed.
LEMMA LeaveStep ==
  ASSUME IInv, NEW n \in RowIds, Leave(n)
  PROVE  IInv'
<1>1. /\ TypeOK /\ IsFiniteSet(visible) /\ IsListing(visible) /\ Offset(token) \in Nat
      /\ \A r \in visible : r \in Int /\ Position(visible, r) \in Nat
      /\ IsFiniteSet(Skipped) /\ IsFiniteSet(Ahead)
      /\ Cardinality(Skipped) \in Nat /\ Cardinality(Ahead) \in Nat
  BY Types DEF IInv
<1>2. /\ visible' = visible \ {n} /\ stayed' = stayed \ {n} /\ left' = left + 1
      /\ UNCHANGED <<walk, token, listed, joined, repeats>>
      /\ n \in visible /\ left \in Nat
  BY <1>1 DEF Leave, TypeOK
<1>3. TypeOK' /\ IsFiniteSet(visible') /\ Offset(token)' = Offset(token)
  BY <1>1, <1>2, FS_RemoveElement DEF TypeOK, Offset
<1>4. \A r \in Int : Position(visible', r) =
         IF n < r THEN Position(visible, r) - 1 ELSE Position(visible, r)
  BY <1>1, <1>2, PositionAfterLeave
<1>5. Cardinality(Skipped') <= Cardinality(Skipped) + 1 /\ Cardinality(Skipped') \in Nat
  <2>1. \A r \in Skipped' : /\ r \in stayed /\ r \in visible /\ r \notin listed
                            /\ walk = "done" \/ Position(visible', r) < Offset(token)
    BY <1>1, <1>2, <1>3 DEF Skipped, Passed, TypeOK
  <2>2. ASSUME NEW r \in Skipped' \ Skipped
        PROVE  r \in visible /\ Position(visible, r) = Offset(token)
    <3>1. walk # "done" /\ ~(Position(visible, r) < Offset(token))
      BY <2>1, <2>2 DEF Skipped, Passed
    <3>2. QED
      BY <1>1, <1>4, <2>1, <3>1
  <2>3. \A r, s \in Skipped' \ Skipped : r = s
    BY <1>1, <2>2, PositionsDiffer
  <2>4. Skipped' \in SUBSET visible
    BY <2>1
  <2>5. IsFiniteSet(Skipped')
    BY <1>1, <2>4, FS_Subset
  <2>6. QED
    BY <1>1, <2>3, <2>5, OneMore, FS_CardinalityType
<1>6. Cardinality(Ahead') <= Cardinality(Ahead) /\ Cardinality(Ahead') \in Nat
  <2>1. \A r \in Ahead' : r \in Ahead
    BY <1>1, <1>2, <1>3, <1>4 DEF Ahead
  <2>2. Ahead' \in SUBSET Ahead
    BY <2>1
  <2>3. QED
    BY <1>1, <2>2, FS_Subset, FS_CardinalityType
<1>7. QED
  BY <1>1, <1>2, <1>3, <1>5, <1>6 DEF IInv, SkippedOnlyForLeavers, RepeatsOnlyForArrivals, TypeOK

\* The invariant holds at the start, and every step keeps it.
LEMMA InitInv == Init => IInv
<1>1. SUFFICES ASSUME Init
               PROVE  IInv
  OBVIOUS
<1>2. TypeOK
  BY <1>1 DEF Init, TypeOK
<1>3. Skipped = {} /\ IsFiniteSet({}) /\ Cardinality({}) = 0
  BY <1>1, FS_EmptySet DEF Init, Skipped, Passed
<1>4. QED
  BY <1>1, <1>2, <1>3 DEF Init, IInv, SkippedOnlyForLeavers, RepeatsOnlyForArrivals

\* Every step of the client and of those who change the listing.
LEMMA StepInv == IInv /\ [Next]_vars => IInv'
<1>1. SUFFICES ASSUME IInv, [Next]_vars
               PROVE  IInv'
  OBVIOUS
<1>2. CASE UNCHANGED vars
  BY <1>1, <1>2 DEF vars, IInv, TypeOK, SkippedOnlyForLeavers, RepeatsOnlyForArrivals,
                    Skipped, Passed, Ahead
<1>3. ASSUME NEW size \in PageSizes, FetchRefused(size)
      PROVE  IInv'
  <2>1. /\ UNCHANGED <<visible, token, listed, stayed, joined, left, repeats>>
        /\ walk = "walking" /\ walk' = "refused"
    BY <1>3 DEF FetchRefused
  <2>2. Skipped' = Skipped
    BY <2>1 DEF Skipped, Passed
  <2>3. QED
    BY <1>1, <2>1, <2>2 DEF IInv, TypeOK, SkippedOnlyForLeavers, RepeatsOnlyForArrivals
<1>4. QED
  BY <1>1, <1>2, <1>3, StartStep, FetchStep, JoinStep, LeaveStep DEF Next

-----------------------------------------------------------------------------
(* The theorems *)

\* What a walk has skipped and repeated, and is still going to repeat, stays accounted
\* for by the rows that left and arrived.
THEOREM Inductive == Spec => []IInv
<1>1. QED
  BY InitInv, StepInv, PTL DEF Spec

\* The tokens of core/pagination.py are offsets, and pages list rows that exist.
THEOREM TypeCorrect == Spec => []TypeOK
<1>1. IInv => TypeOK
  BY DEF IInv
<1>2. QED
  BY <1>1, Inductive, PTL

\* list_books and the others pass over no more rows that match all along than
\* rows that stopped matching meanwhile.
THEOREM SkipsAreLeavers == Spec => []SkippedOnlyForLeavers
<1>1. IInv => SkippedOnlyForLeavers
  BY DEF IInv
<1>2. QED
  BY <1>1, Inductive, PTL

\* They show no more rows twice than rows that came to match meanwhile.
THEOREM RepeatsAreArrivals == Spec => []RepeatsOnlyForArrivals
<1>1. IInv => RepeatsOnlyForArrivals
  BY DEF IInv
<1>2. QED
  BY <1>1, Inductive, PTL

\* A walk that nothing changes under shows every row, and each of them once.
UndisturbedIsExact ==
  walk = "done" /\ joined = 0 /\ left = 0 => listed = visible /\ repeats = 0

\* Following next_page_token to the end of a listing that does not change is
\* listing it, whatever page sizes the client mixes.
THEOREM UndisturbedWalksAreExact == Spec => []UndisturbedIsExact
<1>1. ASSUME IInv, walk = "done", joined = 0, left = 0
      PROVE  listed = visible /\ repeats = 0
  <2>1. TypeOK /\ IsFiniteSet(Skipped) /\ Cardinality(Skipped) <= 0 /\ Cardinality(Skipped) \in Nat
    BY <1>1, Types DEF IInv, SkippedOnlyForLeavers
  <2>2. Skipped = {}
    BY <2>1, FS_EmptySet
  <2>3. visible \subseteq listed
    BY <1>1, <2>2 DEF IInv, Skipped, Passed
  <2>4. QED
    BY <1>1, <2>3 DEF IInv, TypeOK, RepeatsOnlyForArrivals
<1>2. IInv => UndisturbedIsExact
  BY <1>1 DEF UndisturbedIsExact
<1>3. QED
  BY <1>2, Inductive, PTL

\* A token that is given out is ahead of the one that was sent, and not behind the
\* end of the listing.
TokensAdvance ==
  [][\A size \in PageSizes : Fetch(size) /\ walk' = "walking" =>
       token' > Offset(token) /\ token' <= Cardinality(visible)]_vars

\* next_token of core/pagination.py moves a client forward: over a listing that has
\* stopped growing it gives out no more tokens than there are rows.
THEOREM WalksMoveOn == Spec => TokensAdvance
<1>1. ASSUME IInv, NEW size \in PageSizes, Fetch(size), walk' = "walking"
      PROVE  token' > Offset(token) /\ token' <= Cardinality(visible)
  <2> DEFINE limit == Limit(size)
             page  == Page(visible, limit, Offset(token))
  <2>1. IsListing(visible) /\ Offset(token) \in Nat
    BY <1>1, Types DEF IInv
  <2>2. limit \in Nat \ {0}
    BY <1>1, LimitType, PagingAssumption DEF Fetch, ValidRequest
  <2>3. /\ Cardinality(page) \in 0 .. limit
        /\ Cardinality(page) = limit => Offset(token) + limit <= Cardinality(visible)
    BY <2>1, <2>2, PageIsFull
  <2>4. token' = (IF Cardinality(page) < limit THEN None ELSE Offset(token) + limit) /\ token' # None
    BY <1>1 DEF Fetch, NextToken
  <2> HIDE DEF limit, page
  <2>5. QED
    BY <2>1, <2>2, <2>3, <2>4
<1>2. IInv /\ [Next]_vars =>
        [\A size \in PageSizes : Fetch(size) /\ walk' = "walking" =>
           token' > Offset(token) /\ token' <= Cardinality(visible)]_vars
  BY <1>1
<1>3. QED
  BY <1>2, Inductive, PTL DEF Spec, TokensAdvance
=============================================================================
