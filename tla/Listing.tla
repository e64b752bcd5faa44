------------------------------ MODULE Listing ------------------------------
(***************************************************************************)
(* Offset pagination (core/pagination.py) and the page that the four list_ *)
(* statements of the repositories select: ORDER BY id LIMIT n OFFSET m.    *)
(* A page token is None for the empty string, a number for its digits, and *)
(* a negative number for every other text: int() refuses it or it is < 0.  *)
(***************************************************************************)
EXTENDS Integers, FiniteSets

CONSTANTS DefaultPageSize, MaxPageSize,  \* settings.*_page_size
          None                           \* the empty token

ASSUME ListingAssumption ==
  /\ DefaultPageSize \in Nat \ {0}
  /\ MaxPageSize \in Nat \ {0}
  /\ None \notin Int

Limit(size) ==
  LET asked == IF size = 0 THEN DefaultPageSize ELSE size
  IN  IF asked > MaxPageSize THEN MaxPageSize ELSE asked

Offset(token) == IF token = None THEN 0 ELSE token

ValidRequest(size, token) == size >= 0 /\ Offset(token) >= 0

\* How many of the rows come before row r.
Position(rows, r) == Cardinality({x \in rows : x < r})

Page(rows, limit, offset) ==
  {r \in rows : Position(rows, r) \in offset .. (offset + limit - 1)}

\* Mutant: the offset of the previous page.
NextToken_Backwards(offset, limit, returned) ==
  IF returned < limit THEN None ELSE offset - limit

\* Mutant: the next page starts on the last row of this one.
NextToken_Overlaps(offset, limit, returned) ==
  IF returned < limit THEN None ELSE offset + limit - 1

\* Mutant: a full page is taken for the last one.
NextToken_FullIsLast(offset, limit, returned) ==
  IF returned <= limit THEN None ELSE offset + limit

\* Mutant: the rows received are counted on, and an empty page is not the last one.
NextToken_EmptyGoesOn(offset, limit, returned) ==
  IF returned \in 1 .. (limit - 1) THEN None ELSE offset + returned

NextToken(offset, limit, returned) ==
  IF returned < limit THEN None ELSE offset + limit
=============================================================================
