------------------------------ MODULE Queries ------------------------------
(***************************************************************************)
(* The read RPCs that take more than one look at the database or at the    *)
(* clock, while the service goes on lending: GetBook and ListBooks (the    *)
(* rows, then two COUNTs for each) and ListLoans (the handler's clock, the *)
(* statement's clock).  In READ COMMITTED every statement sees the tables  *)
(* of its own moment.  The writers are LendingAbs, the serial service that *)
(* Lending implements; one reader is enough, readers do not meet.          *)
(***************************************************************************)
EXTENDS Listing, Fines

CONSTANTS MemberIds, BookIds, CopyIds, LoanIds, BookOf, LoanPeriod,
          PageSizes, Tokens,  \* what ListBooks is asked for
          MaxTime             \* bound on the clock

Filters  == {"any", "outstanding", "returned", "overdue"}
Statuses == {"outstanding", "returned", "overdue"}

ASSUME QueriesAssumption ==
  /\ None \notin Filters
  /\ BookIds \subseteq Nat /\ BookOf \in [CopyIds -> BookIds]
  /\ LoanPeriod \in Nat /\ MaxTime \in Nat
  /\ PageSizes \subseteq Int /\ Tokens \subseteq Int \cup {None}

VARIABLES books, members, copies, loans, now,  \* the tables and the clock
          pc,        \* next statement of the request, or its reply
          todo,      \* the books of the page that are still to be counted
          total,     \* the first COUNT, of the book being counted
          counted,   \* the rows of the reply: books with their counts
          filter,    \* the status filter of ListLoans, or None
          clock,     \* "now" of the ListLoans handler
          rows,      \* the rows of the reply: loan ids with their status
          stock,     \* history: copies of each book when the request came
          shelf,     \* history: how many were available at the moments of the request
          late       \* history: loans overdue when the request came

tables  == <<books, members, copies, loans, now>>
request == <<pc, todo, total, counted, filter, clock, rows, stock, shelf, late>>
vars    == <<tables, request>>

Service == INSTANCE LendingAbs

Answered == {"ready", "OK", "NOT_FOUND", "INVALID_ARGUMENT", "INTERNAL"}

CopiesOf(b) == {c \in CopyIds : BookOf[c] = b /\ copies[c] # "absent"}
OnShelf(b)  == {c \in CopiesOf(b) : copies[c] = "available"}

DueAt(r) == r.borrowed + LoanPeriod
Open(r)  == r.returned = None

Overdue(r, t) == Open(r) /\ DueAt(r) < t

Init ==
  /\ Service!Init
  /\ pc = "ready" /\ todo = {} /\ total = 0 /\ counted = {}
  /\ filter = None /\ clock = 0 /\ rows = {}
  /\ stock = [b \in BookIds |-> 0] /\ shelf = [b \in BookIds |-> {}] /\ late = {}

\* A request arrives; the reply of the one before is forgotten.
Begin(f) ==
  /\ pc \in Answered
  /\ filter' = f /\ clock' = now
  /\ counted' = {} /\ rows' = {} /\ total' = 0
  /\ stock' = [b \in BookIds |-> Cardinality(CopiesOf(b))]
  /\ shelf' = [b \in BookIds |-> {Cardinality(OnShelf(b))}]
  /\ late' = {r.id : r \in {x \in loans : Overdue(x, now)}}
  /\ UNCHANGED tables

Count(page) ==
  /\ todo' = page
  /\ pc' = IF page = {} THEN "OK" ELSE "total"

\* UpdateBook ends with the same statements, in a transaction of their own.
GetBook(b) ==
  /\ Begin(None)
  /\ \/ b \in books /\ Count({b})
     \/ b \notin books /\ pc' = "NOT_FOUND" /\ todo' = {}

ListBooks(size, token) ==
  /\ Begin(None)
  /\ \/ /\ ValidRequest(size, token)
        /\ Count(Page(books, Limit(size), Offset(token)))
     \/ /\ ~ValidRequest(size, token)
        /\ pc' = "INVALID_ARGUMENT" /\ todo' = {}

Current(b) == b \in todo /\ \A a \in todo : b <= a

\* Mutant: the condition on the status is in both COUNTs.
CountTotal_OnShelf ==
  /\ pc = "total" /\ pc' = "available"
  /\ \E b \in todo : Current(b) /\ total' = Cardinality(OnShelf(b))
  /\ UNCHANGED <<tables, todo, counted, filter, clock, rows, stock, shelf, late>>

CountTotal ==
  /\ pc = "total" /\ pc' = "available"
  /\ \E b \in todo : Current(b) /\ total' = Cardinality(CopiesOf(b))
  /\ UNCHANGED <<tables, todo, counted, filter, clock, rows, stock, shelf, late>>

\* Mutant: the condition on the status is in neither COUNT.
CountAvailable_AnyStatus ==
  /\ pc = "available"
  /\ \E b \in todo :
       /\ Current(b)
       /\ counted' = counted \cup
            {[book |-> b, total |-> total, available |-> Cardinality(CopiesOf(b))]}
       /\ Count(todo \ {b})
  /\ UNCHANGED <<tables, total, filter, clock, rows, stock, shelf, late>>

CountAvailable ==
  /\ pc = "available"
  /\ \E b \in todo :
       /\ Current(b)
       /\ counted' = counted \cup
            {[book |-> b, total |-> total, available |-> Cardinality(OnShelf(b))]}
       /\ Count(todo \ {b})
  /\ UNCHANGED <<tables, total, filter, clock, rows, stock, shelf, late>>

ListLoans(f) ==
  /\ Begin(f)
  /\ pc' = "select" /\ todo' = {}

\* Mutant: a loan is overdue when a day has gone since it was due.
Matching_DayLater(f, t) ==
  {r \in loans : CASE f = "outstanding" -> Open(r)
                   [] f = "returned"    -> ~Open(r)
                   [] f = "overdue"     -> Overdue(r, t - TicksPerDay)
                   [] OTHER             -> TRUE}

Matching(f, t) ==
  {r \in loans : CASE f = "outstanding" -> Open(r)
                   [] f = "returned"    -> ~Open(r)
                   [] f = "overdue"     -> Overdue(r, t)
                   [] OTHER             -> TRUE}

\* Mutant: the row takes the status that was asked for.
StatusAt_Asked(r, t) == filter

StatusAt(r, t) ==
  CASE ~Open(r)       -> "returned"
    [] Overdue(r, t)  -> "overdue"
    [] OTHER          -> "outstanding"

\* The statement's own _now() was read between the handler's and its execution.
\* All its pages are taken at once here: Paging walks through them.
SelectLoans ==
  /\ pc = "select" /\ pc' = "OK"
  /\ \E t \in clock .. now :
       rows' = {[id |-> r.id, status |-> StatusAt(r, clock)] : r \in Matching(filter, t)}
  /\ UNCHANGED <<tables, todo, total, counted, filter, clock, stock, shelf, late>>

\* The connection, or the server, fails.
Abort ==
  /\ pc \notin Answered
  /\ pc' = "INTERNAL" /\ counted' = {} /\ rows' = {}
  /\ UNCHANGED <<tables, todo, total, filter, clock, stock, shelf, late>>

\* A request does not see a write, which makes a new moment of it.
Watch ==
  /\ shelf' = IF pc \in Answered \/ copies' = copies THEN shelf
              ELSE [b \in BookIds |-> shelf[b] \cup {Cardinality(OnShelf(b)')}]
  /\ UNCHANGED <<pc, todo, total, counted, filter, clock, rows, stock, late>>

Write == Service!Next /\ now' <= MaxTime /\ Watch

\* A request of the reader, or its next statement.
Read ==
  \/ \E b \in BookIds : GetBook(b)
  \/ \E size \in PageSizes, token \in Tokens : ListBooks(size, token)
  \/ \E f \in Filters : ListLoans(f)
  \/ CountTotal \/ CountAvailable \/ SelectLoans \/ Abort

Next == Read \/ Write

Spec == Init /\ [][Next]_vars
-----------------------------------------------------------------------------
\* Replies carry a row per book, with counts, and a row per loan, with a status.
TypeOK ==
  /\ pc \in Answered \cup {"total", "available", "select"}
  /\ todo \subseteq BookIds
  /\ total \in Nat
  /\ counted \subseteq [book : BookIds, total : Nat, available : Nat]
  /\ filter \in Filters \cup {None} /\ clock \in 0 .. now
  /\ rows \subseteq [id : LoanIds, status : Statuses]
  /\ stock \in [BookIds -> Nat] /\ shelf \in [BookIds -> SUBSET Nat]
  /\ late \subseteq LoanIds

\* Each count of a book in a reply is what a COUNT would have given at one moment of
\* the request, although lending goes on between the statements: the total lies
\* between that of the beginning and that of now, and so many copies were on the shelf
\* at once while the request was served.  A reply shows more of them than the total
\* only when copies have been added since.
CountsOfTheRequest ==
  \A k \in counted :
    /\ k.total \in stock[k.book] .. Cardinality(CopiesOf(k.book))
    /\ k.available \in shelf[k.book]
    /\ k.available > k.total => k.total < Cardinality(CopiesOf(k.book))

\* A loan that was overdue when the request came, and is still open, is in
\* the reply to a list of overdue loans, labelled so, whichever clock each part
\* of the request read; a row with another label fell due since.
OverdueNotMissed ==
  pc = "OK" /\ filter = "overdue" =>
    /\ \A r \in loans : r.id \in late /\ Open(r) => \E k \in rows : k.id = r.id
    /\ \A k \in rows : k.id \in late => k.status = "overdue"
=============================================================================
