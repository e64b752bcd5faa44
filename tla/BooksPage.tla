----------------------------- MODULE BooksPage -----------------------------
(***************************************************************************)
(* The Books tab of the web page (page.tsx, BooksSection) and the switch   *)
(* between tabs (Home), which unmounts a section and mounts it again with  *)
(* empty state while calls of the old mount are still in flight.  The      *)
(* Members tab is the same section without copies.  Calls and answers are  *)
(* as in LoansPage: every await is two steps, and answers come in any      *)
(* order.  A pair <<b, n>> stands for "book b has n copies".               *)
(***************************************************************************)
EXTENDS Integers, FiniteSets, Bags

CONSTANTS BookIds, MaxCopies,
          PageSize,     \* setPageSize(100)
          MaxCalls,     \* bound on the calls in flight when the user acts
          MaxMounts,    \* bound on the mounts of the section
          None, Failed

ASSUME BooksPageAssumption ==
  /\ BookIds \subseteq Nat /\ MaxCopies \in Nat /\ PageSize \in Nat \ {0}
  /\ MaxCalls \in Nat /\ MaxMounts \in Nat \ {0} /\ None \notin Int

VARIABLES stock,        \* copies of each book at the server, None before it exists
          mount,        \* the number of the mount that is on the screen
          table, copyBookId,   \* the React state
          calls,        \* the calls in flight, a bag
          unseen,       \* history: writes confirmed in this mount, in no list since
          failed        \* history: some list of this mount ended with an error

page == <<mount, table, copyBookId, unseen, failed>>
vars == <<stock, page, calls>>

Call(kind, m, book) == [kind |-> kind, mount |-> m, book |-> book, answer |-> None]

Load(m) == SetToBag({Call("load", m, None)})

Init ==
  /\ stock = [b \in BookIds |-> None]
  /\ mount = 1 /\ table = {} /\ copyBookId = None /\ unseen = {} /\ failed = FALSE
  /\ calls = Load(1)

-----------------------------------------------------------------------------
(* The user *)

Free == BagCardinality(calls) <= MaxCalls

\* Another tab and back: the section starts anew.
Reopen ==
  /\ mount < MaxMounts
  /\ mount' = mount + 1 /\ table' = {} /\ copyBookId' = None
  /\ unseen' = {} /\ failed' = FALSE
  /\ calls' = calls (+) Load(mount')
  /\ UNCHANGED stock

\* Mutant: "Select..." is the book 0.
PickBook_Zero(b) ==
  /\ b = None \/ \E n \in 0 .. MaxCopies : <<b, n>> \in table
  /\ copyBookId' = IF b = None THEN 0 ELSE b
  /\ UNCHANGED <<stock, mount, table, unseen, failed, calls>>

\* The dropdown offers the books of the table, and "Select...".
PickBook(b) ==
  /\ b = None \/ \E n \in 0 .. MaxCopies : <<b, n>> \in table
  /\ copyBookId' = b
  /\ UNCHANGED <<stock, mount, table, unseen, failed, calls>>

Submit(call) ==
  /\ Free
  /\ calls' = calls (+) SetToBag({call})
  /\ UNCHANGED <<stock, page>>

SubmitBook == Submit(Call("book", mount, None))
SubmitCopy == copyBookId # None /\ Submit(Call("copy", mount, copyBookId))

-----------------------------------------------------------------------------
(* The server: one transaction per call *)

Known == {b \in BookIds : stock[b] # None}

CreateBook(b) ==
  /\ b \notin Known /\ \A a \in BookIds : a < b => a \in Known
  /\ stock' = [stock EXCEPT ![b] = 0]

AddCopy(b) ==
  /\ b \in Known /\ stock[b] < MaxCopies
  /\ stock' = [stock EXCEPT ![b] = @ + 1]

\* ORDER BY id LIMIT PageSize, without a page token
FirstPage == {b \in Known : Cardinality({a \in Known : a < b}) < PageSize}

Sent     == {c \in BagToSet(calls) : c.answer = None}
Answered == {c \in BagToSet(calls) : c.answer # None}

Answer(c, answer) ==
  calls' = (calls (-) SetToBag({c})) (+) SetToBag({[c EXCEPT !.answer = answer]})

\* The answer gets through or is lost; it tells what the table is to show.
Serve(c) ==
  /\ \/ /\ c.kind = "load" /\ UNCHANGED stock
        /\ Answer(c, {<<b, stock[b]>> : b \in FirstPage})
     \/ \E b \in BookIds :
          /\ \/ c.kind = "book" /\ CreateBook(b)
             \/ c.kind = "copy" /\ b = c.book /\ AddCopy(b)
          /\ Answer(c, {<<b, stock'[b]>>}) \/ Answer(c, Failed)
  /\ UNCHANGED page

\* The call is refused, or does not reach the server.
Refuse(c) == Answer(c, Failed) /\ UNCHANGED <<stock, page>>

OtherDesk ==
  /\ \E b \in BookIds : CreateBook(b) \/ AddCopy(b)
  /\ UNCHANGED <<page, calls>>

-----------------------------------------------------------------------------
(* The page goes on after an await *)

Done(c) == calls (-) SetToBag({c})

\* In the state of a section that is gone nothing is set any more, and the list it
\* still asks for after a write goes nowhere.
ReceiveLate(c) ==
  /\ c.mount # mount
  /\ calls' = Done(c)
  /\ UNCHANGED <<stock, page>>

Shows(list, fact) == \E n \in fact[2] .. MaxCopies : <<fact[1], n>> \in list

ReceiveLoad(c) ==
  /\ c.kind = "load"
  /\ table' = c.answer
  /\ unseen' = {fact \in unseen : ~Shows(c.answer, fact)}
  /\ calls' = Done(c)
  /\ UNCHANGED <<stock, mount, copyBookId, failed>>

\* Mutant: the list is loaded again for a book only.
ReceiveWrite_ReloadsForBooks(c) ==
  /\ c.kind \in {"book", "copy"}
  /\ unseen' = unseen \cup c.answer
  /\ calls' = Done(c) (+) (IF c.kind = "book" THEN Load(mount) ELSE EmptyBag)
  /\ UNCHANGED <<stock, mount, table, copyBookId, failed>>

ReceiveWrite(c) ==
  /\ c.kind \in {"book", "copy"}
  /\ unseen' = unseen \cup c.answer
  /\ calls' = Done(c) (+) Load(mount)
  /\ UNCHANGED <<stock, mount, table, copyBookId, failed>>

ReceiveError(c) ==
  /\ failed' = (failed \/ c.kind = "load")
  /\ calls' = Done(c)
  /\ UNCHANGED <<stock, mount, table, copyBookId, unseen>>

Receive(c) ==
  \/ ReceiveLate(c)
  \/ /\ c.mount = mount
     /\ IF c.answer = Failed THEN ReceiveError(c) ELSE ReceiveLoad(c) \/ ReceiveWrite(c)

Next ==
  \/ Reopen \/ SubmitBook \/ SubmitCopy \/ OtherDesk
  \/ \E b \in BookIds \cup {None} : PickBook(b)
  \/ \E c \in Sent : Serve(c) \/ Refuse(c)
  \/ \E c \in Answered : Receive(c)

Spec == Init /\ [][Next]_vars
-----------------------------------------------------------------------------
\* The table and the dropdown hold books that exist, in numbers that were true.
TypeOK ==
  /\ stock \in [BookIds -> 0 .. MaxCopies \cup {None}]
  /\ mount \in 1 .. MaxMounts
  /\ \A fact \in table \cup unseen : fact[1] \in Known /\ fact[2] \in 0 .. stock[fact[1]]
  /\ copyBookId \in Known \cup {None}
  /\ failed \in BOOLEAN /\ IsABag(calls)

Quiet == calls = EmptyBag /\ ~failed

\* What the banner said was created or added has been in the table by the time all
\* is quiet, although older lists may come in later than younger ones and others
\* write too, unless the book is beyond the only page the tab asks for.
CreatedIsShown == Quiet => \A fact \in unseen : fact[1] \notin FirstPage
=============================================================================
