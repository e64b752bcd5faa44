---------------------------- MODULE LendingAbs ----------------------------
(***************************************************************************)
(* What circulation promises to a reader of the database: every borrow,    *)
(* return and status change takes effect at once, as if requests were      *)
(* served one at a time and no row were ever locked.                       *)
(***************************************************************************)
EXTENDS Fines, FiniteSets

CONSTANTS MemberIds, BookIds, CopyIds, LoanIds, BookOf, LoanPeriod, None

VARIABLES books, members, copies, loans, now

tables == <<books, members, copies, loans, now>>

Open(r)     == r.returned = None
OnShelf(c)  == copies[c] = "available"
OpenLoan(c) == \E r \in loans : r.copy = c /\ Open(r)

Init ==
  /\ books = {} /\ loans = {} /\ now = 0
  /\ members = [m \in MemberIds |-> "absent"]
  /\ copies  = [c \in CopyIds |-> "absent"]

\* A copy leaves the shelf and a loan opens; the loan is stamped with a time
\* at which every earlier loan of the copy was closed.
Lend(m, c, id) ==
  /\ members[m] # "absent" /\ OnShelf(c) /\ ~OpenLoan(c)
  /\ \A r \in loans : r.id # id
  /\ copies' = [copies EXCEPT ![c] = "on_loan"]
  /\ \E t \in 0 .. now :
       /\ \A r \in loans : r.copy = c => r.returned <= t
       /\ loans' = loans \cup {[id |-> id, copy |-> c, member |-> m,
                                borrowed |-> t, returned |-> None, fine |-> 0]}
  /\ UNCHANGED <<books, members, now>>

\* An open loan closes, its fine is settled for the time of the return, and
\* its copy, out until now, is back.
TakeBack(r) ==
  /\ Open(r) /\ copies[r.copy] = "on_loan"
  /\ \E t \in r.borrowed .. now :
       loans' = (loans \ {r}) \cup
         {[r EXCEPT !.returned = t, !.fine = ComputeFine(r.borrowed + LoanPeriod, t)]}
  /\ \E status \in {"available", "damaged"} :
       copies' = [copies EXCEPT ![r.copy] = status]
  /\ UNCHANGED <<books, members, now>>

\* Staff relabel a copy, which an open loan only lets be ON_LOAN.
Relabel(c, status) ==
  /\ copies[c] # "absent"
  /\ OpenLoan(c) => status = "on_loan"
  /\ copies' = [copies EXCEPT ![c] = status]
  /\ UNCHANGED <<books, members, loans, now>>

SetMember(m, status) ==
  /\ members[m] # status
  /\ members[m] = "absent" => status = "active"
  /\ members' = [members EXCEPT ![m] = status]
  /\ UNCHANGED <<books, copies, loans, now>>

AddBook(b) ==
  /\ books' = books \cup {b}
  /\ UNCHANGED <<members, copies, loans, now>>

AddCopy(c) ==
  /\ copies[c] = "absent" /\ BookOf[c] \in books
  /\ copies' = [copies EXCEPT ![c] = "available"]
  /\ UNCHANGED <<books, members, loans, now>>

Tick == now' = now + 1 /\ UNCHANGED <<books, members, copies, loans>>

Next ==
  \/ \E m \in MemberIds, c \in CopyIds, id \in LoanIds : Lend(m, c, id)
  \/ \E r \in loans : TakeBack(r)
  \/ \E c \in CopyIds :
       \/ \E status \in {"available", "on_loan", "lost", "damaged", "withdrawn"} :
            Relabel(c, status)
       \/ AddCopy(c)
  \/ \E m \in MemberIds, status \in {"active", "suspended"} : SetMember(m, status)
  \/ \E b \in BookIds : AddBook(b)
  \/ Tick

Spec == Init /\ [][Next]_tables
=============================================================================
