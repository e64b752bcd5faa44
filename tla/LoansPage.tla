----------------------------- MODULE LoansPage -----------------------------
(***************************************************************************)
(* The Loans tab of the web page (page.tsx, LoansSection) from one mount   *)
(* on.  Every await is two steps: the server answers a call, and the page  *)
(* goes on with the answer.  Calls overlap, and answers come in any order. *)
(* A handler goes on in the closure of the render it was started in: the   *)
(* load() it calls at its end is the load() of that render's filter.       *)
(* Of the rows in the table only the filter they were listed with is kept; *)
(* the members and books of the pickers and the search in the browser are  *)
(* left out, and OVERDUE, a filter like the others, with the clock.        *)
(***************************************************************************)
EXTENDS Integers, FiniteSets, Bags

CONSTANTS LoanIds,     \* ids of the loans, given in order
          Filters,     \* the options of the status dropdown
          PageSize,    \* setPageSize(100)
          MaxCalls,    \* bound on the calls in flight when the user acts
          None,        \* null, no answer yet
          Failed       \* the call ended with an error

ASSUME LoansPageAssumption ==
  /\ LoanIds \subseteq Nat /\ PageSize \in Nat \ {0} /\ MaxCalls \in Nat
  /\ "any" \in Filters /\ None \notin Filters /\ None \notin LoanIds

VARIABLES status,      \* of every loan, at the server
          filter, returnable, borrowPicked, returnLoan,  \* the React state
          table,       \* the filter that the rows on the screen were listed with
          calls,       \* the calls in flight, a bag
          shown,       \* history: filters whose rows came in since filter was set
          returnedHere,  \* history: the loans this page knows it returned
          overlapped,  \* history: when the last picker list was asked for, one was in flight
          failed       \* history: some list call ended with an error

page    == <<filter, table, returnable, borrowPicked, returnLoan>>
history == <<shown, returnedHere, overlapped, failed>>
vars    == <<status, page, calls, history>>

Call(kind, f, loan) == [kind |-> kind, filter |-> f, loan |-> loan, answer |-> None]

\* What load() and loadReturnableLoans() of a render with filter f send.
Reload(f) == SetToBag({Call("load", f, None), Call("returnable", f, None)})

Init ==                              \* mounted: the effect has run
  /\ status = [l \in LoanIds |-> "absent"]
  /\ filter = "any" /\ table = None /\ returnable = {}
  /\ borrowPicked = FALSE /\ returnLoan = None
  /\ calls = Reload("any")
  /\ shown = {} /\ returnedHere = {} /\ overlapped = FALSE /\ failed = FALSE

-----------------------------------------------------------------------------
(* The user *)

Free == BagCardinality(calls) <= MaxCalls

\* The lists for the return picker that have not come in yet.
Lists == {c \in BagToSet(calls) : c.kind = "returnable"}

\* Mutant: load is not among the dependencies of the effect.
SetFilter_NoEffect(f) ==
  /\ Free /\ f # filter
  /\ filter' = f /\ shown' = {}
  /\ UNCHANGED <<status, table, returnable, borrowPicked, returnLoan, calls,
                 returnedHere, overlapped, failed>>

\* Mutant: Number(value) || null, as in the book select of the Books tab.
SetFilter_OrNull(f) ==
  /\ Free /\ f # filter
  /\ filter' = (IF f = "any" THEN None ELSE f) /\ shown' = {}
  /\ calls' = calls (+) Reload(f) /\ overlapped' = (Lists # {})
  /\ UNCHANGED <<status, table, returnable, borrowPicked, returnLoan, returnedHere, failed>>

\* A new filter is a new load(), and the effect that depends on it runs again.
SetFilter(f) ==
  /\ Free /\ f # filter
  /\ filter' = f /\ shown' = {}
  /\ calls' = calls (+) Reload(f) /\ overlapped' = (Lists # {})
  /\ UNCHANGED <<status, table, returnable, borrowPicked, returnLoan, returnedHere, failed>>

PickBorrow ==                        \* a member and a book, or "Change"
  /\ borrowPicked' = ~borrowPicked
  /\ UNCHANGED <<status, filter, table, returnable, returnLoan, calls, history>>

\* The picker offers returnable loans while none is selected; "Change" drops one.
PickReturn(l) ==
  /\ returnLoan' = IF returnLoan = None THEN l ELSE None
  /\ returnLoan = None => l \in returnable
  /\ UNCHANGED <<status, filter, table, returnable, borrowPicked, calls, history>>

\* The button stays enabled while the call is in flight.
Submit(call) ==
  /\ Free
  /\ calls' = calls (+) SetToBag({call})
  /\ UNCHANGED <<status, page, history>>

SubmitBorrow == borrowPicked /\ Submit(Call("borrow", filter, None))
SubmitReturn == returnLoan # None /\ Submit(Call("return", filter, returnLoan))

-----------------------------------------------------------------------------
(* The server: one transaction per call *)

Known   == {l \in LoanIds : status[l] # "absent"}
OpenIds == {l \in LoanIds : status[l] = "outstanding"}

Lend(l) ==
  /\ status[l] = "absent" /\ \A k \in LoanIds : k < l => status[k] # "absent"
  /\ status' = [status EXCEPT ![l] = "outstanding"]

TakeBack(l) ==
  /\ status[l] = "outstanding"
  /\ status' = [status EXCEPT ![l] = "returned"]

\* ORDER BY id DESC LIMIT PageSize, without a page token
Newest(rows) == {r \in rows : Cardinality({x \in rows : x > r}) < PageSize}

Perform(c, result) ==
  CASE c.kind = "load"       -> result = {} /\ UNCHANGED status
    [] c.kind = "returnable" -> result = Newest(Known) \cap OpenIds /\ UNCHANGED status
    [] c.kind = "borrow"     -> \E l \in LoanIds : result = {l} /\ Lend(l)
    [] c.kind = "return"     -> result = {c.loan} /\ TakeBack(c.loan)

Sent     == {c \in BagToSet(calls) : c.answer = None}
Answered == {c \in BagToSet(calls) : c.answer # None}

Answer(c, answer) ==
  calls' = (calls (-) SetToBag({c})) (+) SetToBag({[c EXCEPT !.answer = answer]})

\* The call is served, and its answer gets through or is lost.
Serve(c) ==
  /\ \E result \in SUBSET LoanIds :
       /\ Perform(c, result)
       /\ Answer(c, result) \/ Answer(c, Failed)
  /\ UNCHANGED <<page, history>>

\* The call is refused, or does not reach the server.
Refuse(c) ==
  /\ Answer(c, Failed)
  /\ UNCHANGED <<status, page, history>>

\* Other desks lend and take back too.
OtherDesk ==
  /\ \E l \in LoanIds : Lend(l) \/ TakeBack(l)
  /\ UNCHANGED <<page, calls, history>>
-----------------------------------------------------------------------------
(* The page goes on after an await *)

Done(c) == calls (-) SetToBag({c})

ReceiveLoad(c) ==
  /\ c.kind = "load"
  /\ table' = c.filter /\ shown' = shown \cup {c.filter}
  /\ calls' = Done(c)
  /\ UNCHANGED <<status, filter, returnable, borrowPicked, returnLoan,
                 returnedHere, overlapped, failed>>

ReceiveReturnable(c) ==
  /\ c.kind = "returnable"
  /\ returnable' = c.answer
  /\ calls' = Done(c)
  /\ UNCHANGED <<status, filter, table, borrowPicked, returnLoan, history>>

ReceiveBorrow(c) ==
  /\ c.kind = "borrow"
  /\ borrowPicked' = FALSE
  /\ calls' = Done(c) (+) Reload(c.filter) /\ overlapped' = (Lists # {})
  /\ UNCHANGED <<status, filter, table, returnable, returnLoan, shown, returnedHere, failed>>

\* Mutant: the lists are not loaded again.
ReceiveReturn_NoReload(c) ==
  /\ c.kind = "return"
  /\ returnLoan' = None /\ returnedHere' = returnedHere \cup c.answer
  /\ calls' = Done(c)
  /\ UNCHANGED <<status, filter, table, returnable, borrowPicked, shown, overlapped, failed>>

ReceiveReturn(c) ==
  /\ c.kind = "return"
  /\ returnLoan' = None /\ returnedHere' = returnedHere \cup c.answer
  /\ calls' = Done(c) (+) Reload(c.filter) /\ overlapped' = (Lists # {})
  /\ UNCHANGED <<status, filter, table, returnable, borrowPicked, shown, failed>>

\* catch: the banner shows the error, the rest of the state stays.
ReceiveError(c) ==
  /\ calls' = Done(c)
  /\ failed' = (failed \/ c.kind \in {"load", "returnable"})
  /\ UNCHANGED <<status, page, shown, returnedHere, overlapped>>

Receive(c) ==
  IF c.answer = Failed
    THEN ReceiveError(c)
    ELSE \/ ReceiveLoad(c) \/ ReceiveReturnable(c)
         \/ ReceiveBorrow(c) \/ ReceiveReturn(c)

Next ==
  \/ \E f \in Filters : SetFilter(f)
  \/ PickBorrow \/ SubmitBorrow \/ SubmitReturn
  \/ \E l \in LoanIds : PickReturn(l)
  \/ \E c \in Sent : Serve(c) \/ Refuse(c)
  \/ \E c \in Answered : Receive(c)
  \/ OtherDesk

Spec == Init /\ [][Next]_vars
-----------------------------------------------------------------------------
\* The lists of the page hold loans, whatever the calls behind them came to.
TypeOK ==
  /\ status \in [LoanIds -> {"absent", "outstanding", "returned"}]
  /\ filter \in Filters /\ table \in Filters \cup {None} /\ shown \subseteq Filters
  /\ returnable \subseteq Known /\ returnedHere \subseteq Known
  /\ borrowPicked \in BOOLEAN /\ overlapped \in BOOLEAN /\ failed \in BOOLEAN
  /\ returnLoan \in Known \cup {None}
  /\ IsABag(calls)

Quiet == calls = EmptyBag /\ ~failed

\* However the user switches filters while calls are in flight, the rows of
\* the filter that is set have been on the screen by the time all is quiet.
FilterIsLoaded == Quiet => filter \in shown

\* When all is quiet the return picker offers no loan that was ever returned here,
\* unless the last lists it asked for were in flight together (loadReturnableLoans:
\* then the older may be stored last, and the loan stays on offer until the next one).
ReturnedNotOffered == Quiet /\ ~overlapped => returnable \cap returnedHere = {}

\* When all is quiet the table shows the rows of the filter that is set
\* (page.tsx: "List loans; re-runs when the status filter dropdown changes").
TableMatchesFilter == Quiet => table = filter

\* The list fetched for the return picker has every open loan (page.tsx:
\* "Open loans (outstanding + overdue) for the return picker").
PickerHasEveryOpenLoan ==
  [][\A c \in Sent, answer \in SUBSET LoanIds :
       c.kind = "returnable" /\ Answer(c, answer) => OpenIds \subseteq answer]_vars
=============================================================================
