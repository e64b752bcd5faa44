------------------------------- MODULE Paging -------------------------------
(***************************************************************************)
(* A client walks through a listing page by page while other requests add  *)
(* rows to it and take rows out of it.  Rows come in by create_book,       *)
(* create_member, add_copy, borrow_book, by an update that makes a row     *)
(* match the filter, and by the clock (OVERDUE); they go out by an update  *)
(* and by return_book (OUTSTANDING).  Ids are given at INSERT and rows are *)
(* seen at COMMIT, so a row can come in anywhere in the order.  Loans are  *)
(* listed newest first: read the order of the ids backwards.               *)
(***************************************************************************)
EXTENDS Listing

CONSTANTS RowIds,      \* the primary keys of the rows that ever match
          PageSizes,   \* the page sizes the client asks for
          MaxChanges   \* bound on the arrivals and on the departures

ASSUME PagingAssumption ==
  RowIds \subseteq Nat /\ PageSizes \subseteq Int /\ MaxChanges \in Nat

VARIABLES visible,   \* the committed rows that match the filter
          walk,      \* "idle", "walking", "done" or "refused"
          token,     \* the token the client sends next
          listed,    \* the rows on the pages of this walk
          stayed,    \* history: rows that matched ever since the walk began
          joined,    \* history: arrivals since then
          left,      \* history: departures since then
          repeats    \* history: rows received that were listed before

vars == <<visible, walk, token, listed, stayed, joined, left, repeats>>

Init ==
  /\ visible = {} /\ walk = "idle" /\ token = None
  /\ listed = {} /\ stayed = {} /\ joined = 0 /\ left = 0 /\ repeats = 0

StartWalk ==
  /\ walk # "walking"
  /\ walk' = "walking" /\ token' = None
  /\ listed' = {} /\ stayed' = visible
  /\ joined' = 0 /\ left' = 0 /\ repeats' = 0
  /\ UNCHANGED visible

\* One list request.  A reply that is lost is a request that is sent again.
Fetch(size) ==
  /\ walk = "walking"
  /\ ValidRequest(size, token)
  /\ LET page == Page(visible, Limit(size), Offset(token)) IN
       /\ token'   = NextToken(Offset(token), Limit(size), Cardinality(page))
       /\ listed'  = listed \cup page
       /\ repeats' = repeats + Cardinality(page \cap listed)
  /\ walk' = IF token' = None THEN "done" ELSE "walking"
  /\ UNCHANGED <<visible, stayed, joined, left>>

\* INVALID_ARGUMENT, for a bad size or a token that is no offset.
FetchRefused(size) ==
  /\ walk = "walking"
  /\ \E sent \in {token, -1} : ~ValidRequest(size, sent)
  /\ walk' = "refused"
  /\ UNCHANGED <<visible, token, listed, stayed, joined, left, repeats>>

Join(r) ==
  /\ r \notin visible
  /\ joined < MaxChanges
  /\ visible' = visible \cup {r}
  /\ joined' = joined + 1
  /\ UNCHANGED <<walk, token, listed, stayed, left, repeats>>

Leave(r) ==
  /\ r \in visible
  /\ left < MaxChanges
  /\ visible' = visible \ {r}
  /\ stayed' = stayed \ {r}
  /\ left' = left + 1
  /\ UNCHANGED <<walk, token, listed, joined, repeats>>

Next ==
  \/ StartWalk
  \/ \E size \in PageSizes : Fetch(size) \/ FetchRefused(size)
  \/ \E r \in RowIds : Join(r) \/ Leave(r)

Spec == Init /\ [][Next]_vars

\* The client asks for the next page as long as it is given a token.
FairSpec == Spec /\ WF_vars(\E size \in PageSizes : Fetch(size))
-----------------------------------------------------------------------------
\* The walk is at a token it may send, and its history is about real rows.
TypeOK ==
  /\ visible \subseteq RowIds
  /\ walk \in {"idle", "walking", "done", "refused"}
  /\ token \in Nat \cup {None}
  /\ listed \subseteq RowIds
  /\ stayed \subseteq visible
  /\ joined \in Nat /\ left \in Nat /\ repeats \in Nat

\* The rows the walk has gone past although they matched all along.
Passed  == {r \in stayed : walk = "done" \/ Position(visible, r) < Offset(token)}
Skipped == Passed \ listed

\* A row that matches from the first request to the last is missing from every
\* page only if another row left the listing meanwhile; so a walk over books,
\* members or copies without a filter, which lose no row, shows every row.
SkippedOnlyForLeavers == Cardinality(Skipped) <= left

\* A row is shown twice only if another one arrived in between.
RepeatsOnlyForArrivals == repeats <= joined

\* A walk comes to an empty token: the rows, and so the pages, are finitely many.
WalkEnds == walk = "walking" ~> walk # "walking"
=============================================================================
