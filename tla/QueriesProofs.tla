--------------------------- MODULE QueriesProofs ---------------------------
(***************************************************************************)
(* What the read RPCs of Queries answer while the service goes on lending, *)
(* for any number of books, copies and loans.  IInv is inductive.          *)
(***************************************************************************)
EXTENDS Queries, FiniteSetTheorems, TLAPS

CopyStatuses == {"absent", "available", "on_loan", "lost", "damaged", "withdrawn"}

LoanRow == [id : LoanIds, copy : CopyIds, member : MemberIds, borrowed : Nat,
            returned : Nat \cup {None}, fine : Int]

Registered == {c \in CopyIds : copies[c] # "absent"}

\* What the readers rely on in the tables: copies are registered one at a time, and
\* a loan is found by its id.
TableInv ==
  /\ books \subseteq BookIds /\ now \in Nat
  /\ copies \in [CopyIds -> CopyStatuses] /\ IsFiniteSet(Registered)
  /\ loans \subseteq LoanRow
  /\ \A r, s \in loans : r.id = s.id => r = s

\* The COUNT of a book in the request, before it is in the reply.
CountingInv ==
  /\ \A b \in BookIds : stock[b] <= Cardinality(CopiesOf(b))
  /\ pc = "available" =>
       \A b \in todo : Current(b) => total \in stock[b] .. Cardinality(CopiesOf(b))
  /\ pc \notin Answered => \A b \in BookIds : Cardinality(OnShelf(b)) \in shelf[b]

\* A late loan that is still open was overdue at the clock of the handler already.
LateInv ==
  /\ \A i \in late : \E r \in loans : r.id = i
  /\ \A r \in loans : r.id \in late /\ Open(r) => Overdue(r, clock)
  /\ pc \in {"total", "available"} => filter = None

IInv == TableInv /\ TypeOK /\ CountingInv /\ LateInv /\ CountsOfTheRequest /\ OverdueNotMissed

-----------------------------------------------------------------------------
(* Counting *)

\* The copies of a book are among those that are registered.
LEMMA CountType ==
  ASSUME TableInv, NEW b
  PROVE  /\ IsFiniteSet(CopiesOf(b)) /\ Cardinality(CopiesOf(b)) \in Nat
         /\ IsFiniteSet(OnShelf(b)) /\ Cardinality(OnShelf(b)) \in Nat
         /\ Cardinality(OnShelf(b)) <= Cardinality(CopiesOf(b))
<1>1. CopiesOf(b) \in SUBSET Registered /\ OnShelf(b) \in SUBSET CopiesOf(b)
  BY DEF CopiesOf, OnShelf, Registered
<1>2. IsFiniteSet(CopiesOf(b))
  BY <1>1, FS_Subset DEF TableInv
<1>3. QED
  BY <1>1, <1>2, FS_Subset, FS_CardinalityType

\* What a write of the service can do to the tables, as far as readers can tell.
Kept(r, s) == s = r \/ (s.id = r.id /\ ~Open(s))

\* A write keeps the copies registered and every loan under its id.
LEMMA ServiceStep ==
  ASSUME TableInv, Service!Next
  PROVE  /\ TableInv' /\ now <= now'
         /\ Registered \subseteq Registered'
         /\ \A r \in loans : \E s \in loans' : Kept(r, s)
         /\ \A s \in loans' : \/ \E r \in loans : Kept(r, s)
                              \/ \A r \in loans : r.id # s.id
<1> USE DEF Service!Next
<1>1. ASSUME NEW m \in MemberIds, NEW c \in CopyIds, NEW id \in LoanIds, Service!Lend(m, c, id)
      PROVE  /\ TableInv' /\ now <= now'
             /\ Registered \subseteq Registered'
             /\ \A r \in loans : \E s \in loans' : Kept(r, s)
             /\ \A s \in loans' : \/ \E r \in loans : Kept(r, s)
                                  \/ \A r \in loans : r.id # s.id
  <2>1. PICK t \in 0 .. now :
          loans' = loans \cup {[id |-> id, copy |-> c, member |-> m,
                                borrowed |-> t, returned |-> None, fine |-> 0]}
    BY <1>1 DEF Service!Lend
  <2>2. /\ copies[c] = "available" /\ copies' = [copies EXCEPT ![c] = "on_loan"]
        /\ books' = books /\ now' = now
        /\ \A r \in loans : r.id # id
    BY <1>1 DEF Service!Lend, Service!OnShelf
  <2>3. Registered' = Registered /\ copies' \in [CopyIds -> CopyStatuses]
    BY <2>2 DEF Registered, TableInv, CopyStatuses
  <2>4. loans' \subseteq LoanRow
    BY <2>1 DEF TableInv, LoanRow
  <2>5. \A r, s \in loans' : r.id = s.id => r = s
    BY <2>1, <2>2 DEF TableInv
  <2>6. TableInv'
    BY <2>2, <2>3, <2>4, <2>5 DEF TableInv
  <2>7. QED
    BY <2>1, <2>2, <2>3, <2>6 DEF Kept, TableInv
<1>2. ASSUME NEW x \in loans, Service!TakeBack(x)
      PROVE  /\ TableInv' /\ now <= now'
             /\ Registered \subseteq Registered'
             /\ \A r \in loans : \E s \in loans' : Kept(r, s)
             /\ \A s \in loans' : \/ \E r \in loans : Kept(r, s)
                                  \/ \A r \in loans : r.id # s.id
  <2>0. x \in LoanRow
    BY DEF TableInv
  <2>1. PICK t \in x.borrowed .. now :
          loans' = (loans \ {x}) \cup
            {[x EXCEPT !.returned = t, !.fine = ComputeFine(x.borrowed + LoanPeriod, t)]}
    BY <1>2 DEF Service!TakeBack, Service!ComputeFine, Service!CeilDays, ComputeFine, CeilDays
  <2>2. PICK y : y = [x EXCEPT !.returned = t, !.fine = ComputeFine(x.borrowed + LoanPeriod, t)]
    OBVIOUS
  <2>3. ComputeFine(x.borrowed + LoanPeriod, t) \in Int
    BY <2>0, FineAssumption, QueriesAssumption DEF ComputeFine, CeilDays, LoanRow, TableInv
  <2>4. t \in Nat /\ t # None
    BY <2>0, ListingAssumption DEF LoanRow, TableInv
  <2>5. y \in LoanRow /\ y.id = x.id /\ y.returned = t
    BY <2>0, <2>2, <2>3, <2>4 DEF LoanRow
  <2>6. loans' = (loans \ {x}) \cup {y}
    BY <2>1, <2>2
  <2>7. PICK status \in {"available", "damaged"} : copies' = [copies EXCEPT ![x.copy] = status]
    BY <1>2 DEF Service!TakeBack
  <2>8. copies[x.copy] = "on_loan" /\ books' = books /\ now' = now /\ x.copy \in CopyIds
    BY <1>2, <2>0 DEF Service!TakeBack, LoanRow
  <2>9. Registered' = Registered /\ copies' \in [CopyIds -> CopyStatuses]
    BY <2>7, <2>8 DEF Registered, TableInv, CopyStatuses
  <2>10. loans' \subseteq LoanRow /\ \A r, s \in loans' : r.id = s.id => r = s
    BY <2>5, <2>6 DEF TableInv
  <2>11. TableInv'
    BY <2>8, <2>9, <2>10 DEF TableInv
  <2>12. ~Open(y) /\ y \in loans' /\ Kept(x, y)
    BY <2>4, <2>5, <2>6 DEF Open, Kept
  <2>13. \A r \in loans : r # x => r \in loans' /\ Kept(r, r)
    BY <2>6 DEF Kept
  <2>14. \A s \in loans' : s = y \/ (s \in loans /\ Kept(s, s))
    BY <2>6 DEF Kept
  <2>15. QED
    BY <2>8, <2>9, <2>11, <2>12, <2>13, <2>14 DEF TableInv
<1>3. ASSUME UNCHANGED loans, books' \subseteq BookIds, now' \in Nat, now <= now',
             \/ copies' = copies
             \/ \E c \in CopyIds, status \in CopyStatuses \ {"absent"} :
                  copies' = [copies EXCEPT ![c] = status]
      PROVE  /\ TableInv' /\ now <= now'
             /\ Registered \subseteq Registered'
             /\ \A r \in loans : \E s \in loans' : Kept(r, s)
             /\ \A s \in loans' : \/ \E r \in loans : Kept(r, s)
                                  \/ \A r \in loans : r.id # s.id
  <2>1. CASE copies' = copies
    BY <1>3, <2>1 DEF TableInv, Registered, Kept
  <2>2. ASSUME NEW c \in CopyIds, NEW status \in CopyStatuses \ {"absent"},
               copies' = [copies EXCEPT ![c] = status]
        PROVE  /\ Registered \subseteq Registered' /\ IsFiniteSet(Registered')
               /\ copies' \in [CopyIds -> CopyStatuses]
    <3>1. Registered' = Registered \cup {c}
      BY <2>2 DEF Registered, TableInv
    <3>2. IsFiniteSet(Registered \cup {c})
      BY FS_AddElement DEF TableInv
    <3>3. QED
      BY <2>2, <3>1, <3>2 DEF TableInv
  <2>3. QED
    BY <1>3, <2>1, <2>2 DEF TableInv, Kept
<1>4. ASSUME NEW c \in CopyIds,
             NEW status \in {"available", "on_loan", "lost", "damaged", "withdrawn"},
             Service!Relabel(c, status) \/ Service!AddCopy(c)
      PROVE  /\ UNCHANGED <<loans, books, now>>
             /\ \E st \in CopyStatuses \ {"absent"} : copies' = [copies EXCEPT ![c] = st]
  BY <1>4 DEF Service!Relabel, Service!AddCopy, CopyStatuses
<1>5. ASSUME NEW m \in MemberIds, NEW status, Service!SetMember(m, status)
      PROVE  UNCHANGED <<loans, books, copies, now>>
  BY <1>5 DEF Service!SetMember
<1>6. ASSUME NEW b \in BookIds, Service!AddBook(b)
      PROVE  books' \subseteq BookIds /\ UNCHANGED <<loans, copies, now>>
  BY <1>6 DEF Service!AddBook, TableInv
<1>7. ASSUME Service!Tick
      PROVE  now' \in Nat /\ now <= now' /\ UNCHANGED <<loans, books, copies>>
  BY <1>7 DEF Service!Tick, TableInv
<1>8. now \in Nat /\ books \subseteq BookIds /\ now <= now
  BY DEF TableInv
<1>9. QED
  BY <1>1, <1>2, <1>3, <1>4, <1>5, <1>6, <1>7, <1>8

\* Registered copies stay registered, so the COUNT of a book never falls.
LEMMA MoreCopies ==
  ASSUME TableInv, TableInv', Registered \subseteq Registered', NEW b
  PROVE  Cardinality(CopiesOf(b)) <= Cardinality(CopiesOf(b)')
<1>1. CopiesOf(b) \in SUBSET (CopiesOf(b)')
  BY DEF CopiesOf, Registered
<1>2. IsFiniteSet(CopiesOf(b)')
  <2>1. CopiesOf(b)' \in SUBSET (Registered')
    BY DEF CopiesOf, Registered
  <2>2. QED
    BY <2>1, FS_Subset DEF TableInv
<1>3. QED
  BY <1>1, <1>2, FS_Subset

-----------------------------------------------------------------------------
(* The steps *)

\* A write of the service in the middle of a request.
LEMMA WriteStep ==
  ASSUME IInv, Service!Next, Watch
  PROVE  IInv'
<1> USE DEF IInv
<1>1. /\ TableInv' /\ now <= now' /\ Registered \subseteq Registered'
      /\ \A r \in loans : \E s \in loans' : Kept(r, s)
      /\ \A s \in loans' : \/ \E r \in loans : Kept(r, s)
                           \/ \A r \in loans : r.id # s.id
  BY ServiceStep
<1>2. \A b : /\ Cardinality(CopiesOf(b)) <= Cardinality(CopiesOf(b)')
             /\ Cardinality(CopiesOf(b)) \in Nat /\ Cardinality(CopiesOf(b)') \in Nat
  <2>1. TAKE b
  <2>2. Cardinality(CopiesOf(b)) <= Cardinality(CopiesOf(b)')
    BY <1>1, MoreCopies
  <2>3. Cardinality(CopiesOf(b)) \in Nat
    BY CountType
  <2>4. IsFiniteSet(CopiesOf(b)')
    <3>1. CopiesOf(b)' \in SUBSET (Registered')
      BY DEF CopiesOf, Registered
    <3>2. QED
      BY <1>1, <3>1, FS_Subset DEF TableInv
  <2>5. QED
    BY <2>2, <2>3, <2>4, FS_CardinalityType
<1>3. UNCHANGED <<pc, todo, total, counted, filter, clock, rows, stock, late>>
  BY DEF Watch
<1>11. /\ shelf' \in [BookIds -> SUBSET Nat]
       /\ \A b \in BookIds : shelf[b] \subseteq shelf'[b]
       /\ pc \notin Answered => \A b \in BookIds : Cardinality(OnShelf(b))' \in shelf'[b]
  <2>1. \A b : Cardinality(OnShelf(b)') \in Nat
    <3>1. TAKE b
    <3>2. OnShelf(b)' \in SUBSET (Registered')
      BY DEF OnShelf, CopiesOf, Registered
    <3>3. QED
      BY <1>1, <3>2, FS_Subset, FS_CardinalityType DEF TableInv
  <2>2. CASE pc \in Answered \/ copies' = copies
    <3>1. shelf' = shelf
      BY <2>2 DEF Watch
    <3>2. copies' = copies => \A b : OnShelf(b)' = OnShelf(b)
      BY DEF OnShelf, CopiesOf
    <3>3. QED
      BY <2>2, <3>1, <3>2 DEF TypeOK, CountingInv
  <2>3. CASE ~(pc \in Answered \/ copies' = copies)
    <3>1. shelf' = [b \in BookIds |-> shelf[b] \cup {Cardinality(OnShelf(b)')}]
      BY <2>3 DEF Watch
    <3>2. shelf \in [BookIds -> SUBSET Nat]
      BY DEF TypeOK
    <3>3. QED
      BY <2>1, <3>1, <3>2
  <2>4. QED
    BY <2>2, <2>3
\* An open late loan after the write was the same loan before it.
<1>4. ASSUME NEW s \in loans', s.id \in late, Open(s)
      PROVE  s \in loans
  <2>1. PICK r \in loans : r.id = s.id
    BY <1>4 DEF LateInv
  <2>2. PICK q \in loans : Kept(q, s)
    BY <1>1, <2>1
  <2>3. QED
    BY <1>4, <2>2 DEF Kept
<1>5. TypeOK'
  BY <1>1, <1>3, <1>11 DEF TypeOK, TableInv
<1>6. CountingInv'
  <2>1. \A b \in BookIds : stock'[b] <= Cardinality(CopiesOf(b)')
    BY <1>2, <1>3 DEF CountingInv, TypeOK
  <2>2. ASSUME pc' = "available", NEW b \in todo', Current(b)'
        PROVE  total' \in stock'[b] .. Cardinality(CopiesOf(b)')
    <3>1. Current(b) /\ b \in todo /\ pc = "available"
      BY <1>3, <2>2 DEF Current
    <3>2. total \in stock[b] .. Cardinality(CopiesOf(b))
      BY <3>1 DEF CountingInv
    <3>3. QED
      BY <1>2, <1>3, <3>1, <3>2 DEF TypeOK
  <2>3. QED
    BY <1>3, <1>11, <2>1, <2>2 DEF CountingInv
<1>7. LateInv'
  <2>1. ASSUME NEW i \in late'
        PROVE  \E s \in loans' : s.id = i
    <3>1. PICK r \in loans : r.id = i
      BY <1>3, <2>1 DEF LateInv
    <3>2. QED
      BY <1>1, <3>1 DEF Kept
  <2>2. ASSUME NEW s \in loans', s.id \in late', Open(s)
        PROVE  Overdue(s, clock')
    BY <1>3, <1>4, <2>2 DEF LateInv
  <2>3. QED
    BY <1>3, <2>1, <2>2 DEF LateInv
<1>8. CountsOfTheRequest'
  <2>1. ASSUME NEW k \in counted'
        PROVE  /\ k.total \in stock'[k.book] .. Cardinality(CopiesOf(k.book)')
               /\ k.available \in shelf'[k.book]
               /\ k.available > k.total => k.total < Cardinality(CopiesOf(k.book)')
    <3>1. k \in counted /\ k \in [book : BookIds, total : Nat, available : Nat]
      BY <1>3, <2>1 DEF TypeOK
    <3>2. /\ k.total \in stock[k.book] .. Cardinality(CopiesOf(k.book))
          /\ k.available \in shelf[k.book]
          /\ k.available > k.total => k.total < Cardinality(CopiesOf(k.book))
      BY <3>1 DEF CountsOfTheRequest
    <3>3. k.total \in Nat /\ k.available \in Nat /\ stock[k.book] \in Nat
      BY <3>1 DEF TypeOK
    <3>4. QED
      BY <1>2, <1>3, <1>11, <3>1, <3>2, <3>3
  <2>2. QED
    BY <2>1 DEF CountsOfTheRequest
<1>9. OverdueNotMissed'
  BY <1>3, <1>4 DEF OverdueNotMissed
<1>10. QED
  BY <1>1, <1>5, <1>6, <1>7, <1>8, <1>9

\* What a request finds when it comes.
LEMMA BeginStep ==
  ASSUME IInv, NEW f \in Filters \cup {None}, Begin(f)
  PROVE  /\ TableInv' /\ UNCHANGED tables /\ filter' = f /\ clock' \in 0 .. now'
         /\ counted' = {} /\ rows' = {} /\ total' = 0
         /\ stock' \in [BookIds -> Nat] /\ late' \subseteq LoanIds
         /\ shelf' \in [BookIds -> SUBSET Nat]
         /\ \A b \in BookIds : stock'[b] = Cardinality(CopiesOf(b)')
         /\ \A b \in BookIds : Cardinality(OnShelf(b)') \in shelf'[b]
         /\ \A i \in late' : \E r \in loans' : r.id = i
         /\ \A r \in loans' : r.id \in late' /\ Open(r) => Overdue(r, clock')
<1> USE DEF IInv
<1>1. UNCHANGED <<books, members, copies, loans, now>>
  BY DEF Begin, tables
<1>2. TableInv'
  BY <1>1 DEF TableInv, Registered
<1>3. \A b \in BookIds : /\ Cardinality(CopiesOf(b)) \in Nat /\ CopiesOf(b)' = CopiesOf(b)
                          /\ Cardinality(OnShelf(b)) \in Nat /\ OnShelf(b)' = OnShelf(b)
  BY <1>1, CountType DEF CopiesOf, OnShelf
<1>4. /\ stock' = [b \in BookIds |-> Cardinality(CopiesOf(b))]
      /\ shelf' = [b \in BookIds |-> {Cardinality(OnShelf(b))}]
      /\ late' = {r.id : r \in {x \in loans : Overdue(x, now)}}
      /\ clock' = now /\ filter' = f /\ counted' = {} /\ rows' = {} /\ total' = 0
  BY DEF Begin
<1>5. /\ stock' \in [BookIds -> Nat] /\ shelf' \in [BookIds -> SUBSET Nat]
      /\ \A b \in BookIds : /\ stock'[b] = Cardinality(CopiesOf(b)')
                            /\ Cardinality(OnShelf(b)') \in shelf'[b]
  BY <1>3, <1>4
<1>6. \A i \in late' : \E r \in loans : r.id = i /\ Overdue(r, now)
  BY <1>4
<1>7. late' \subseteq LoanIds
  BY <1>6 DEF TableInv, LoanRow
<1>8. \A r \in loans : r.id \in late' => Overdue(r, now)
  BY <1>6 DEF TableInv
<1>9. clock' \in 0 .. now'
  BY <1>1, <1>4 DEF TableInv
<1>10. QED
  BY <1>1, <1>2, <1>4, <1>5, <1>6, <1>7, <1>8, <1>9 DEF tables

\* GetBook and ListBooks on their way to the COUNTs, or refused.
LEMMA BooksStep ==
  ASSUME IInv, Begin(None), todo' \subseteq BookIds,
         pc' \in {"OK", "NOT_FOUND", "INVALID_ARGUMENT", "total"}
  PROVE  IInv'
<1>1. /\ TableInv' /\ filter' = None /\ clock' \in 0 .. now'
      /\ counted' = {} /\ rows' = {} /\ total' = 0
      /\ stock' \in [BookIds -> Nat] /\ late' \subseteq LoanIds
      /\ shelf' \in [BookIds -> SUBSET Nat]
      /\ \A b \in BookIds : /\ stock'[b] = Cardinality(CopiesOf(b)')
                            /\ Cardinality(OnShelf(b)') \in shelf'[b]
      /\ \A i \in late' : \E r \in loans' : r.id = i
      /\ \A r \in loans' : r.id \in late' /\ Open(r) => Overdue(r, clock')
  BY BeginStep
<1>2. TypeOK'
  BY <1>1 DEF TypeOK, Answered
<1>3. CountingInv'
  BY <1>1, <1>2 DEF CountingInv, TypeOK
<1>4. LateInv'
  BY <1>1 DEF LateInv
<1>5. CountsOfTheRequest' /\ OverdueNotMissed'
  BY <1>1, QueriesAssumption DEF CountsOfTheRequest, OverdueNotMissed, Filters
<1>6. QED
  BY <1>1, <1>2, <1>3, <1>4, <1>5 DEF IInv

\* ListLoans on its way to the SELECT.
LEMMA LoansStep ==
  ASSUME IInv, NEW f \in Filters, ListLoans(f)
  PROVE  IInv'
<1>1. /\ TableInv' /\ filter' = f /\ clock' \in 0 .. now'
      /\ counted' = {} /\ rows' = {} /\ total' = 0
      /\ stock' \in [BookIds -> Nat] /\ late' \subseteq LoanIds
      /\ shelf' \in [BookIds -> SUBSET Nat]
      /\ \A b \in BookIds : /\ stock'[b] = Cardinality(CopiesOf(b)')
                            /\ Cardinality(OnShelf(b)') \in shelf'[b]
      /\ \A i \in late' : \E r \in loans' : r.id = i
      /\ \A r \in loans' : r.id \in late' /\ Open(r) => Overdue(r, clock')
  BY BeginStep DEF ListLoans
<1>2. pc' = "select" /\ todo' = {}
  BY DEF ListLoans
<1>3. TypeOK'
  BY <1>1, <1>2 DEF TypeOK
<1>4. CountingInv'
  BY <1>1, <1>2, <1>3 DEF CountingInv, TypeOK
<1>5. LateInv'
  BY <1>1, <1>2 DEF LateInv
<1>6. CountsOfTheRequest' /\ OverdueNotMissed'
  BY <1>1, <1>2 DEF CountsOfTheRequest, OverdueNotMissed
<1>7. QED
  BY <1>1, <1>3, <1>4, <1>5, <1>6 DEF IInv


\* The first COUNT is not below the one of the beginning.
LEMMA CountTotalStep ==
  ASSUME IInv, CountTotal
  PROVE  IInv'
<1> USE DEF IInv
<1>1. /\ UNCHANGED <<books, members, copies, loans, now>>
      /\ UNCHANGED <<todo, counted, filter, clock, rows, stock, shelf, late>>
      /\ pc = "total" /\ pc' = "available"
  BY DEF CountTotal, tables
<1>2. PICK b \in todo : Current(b) /\ total' = Cardinality(CopiesOf(b))
  BY DEF CountTotal
<1>3. TableInv' /\ \A x : CopiesOf(x)' = CopiesOf(x) /\ OnShelf(x)' = OnShelf(x)
  BY <1>1 DEF TableInv, Registered, CopiesOf, OnShelf
<1>4. b \in BookIds /\ Cardinality(CopiesOf(b)) \in Nat
  BY CountType DEF TypeOK
<1>5. TypeOK'
  BY <1>1, <1>2, <1>4 DEF TypeOK
<1>6. CountingInv'
  <2>1. \A x \in BookIds : stock'[x] <= Cardinality(CopiesOf(x)')
    BY <1>1, <1>3 DEF CountingInv
  <2>5. \A x \in BookIds : Cardinality(OnShelf(x)') \in shelf'[x]
    BY <1>1, <1>3 DEF CountingInv, Answered
  <2>2. \A x \in todo' : Current(x)' => x = b
    <3>1. todo' = todo /\ \A x \in todo : x \in Nat
      BY <1>1, QueriesAssumption DEF TypeOK
    <3>2. QED
      BY <1>2, <3>1 DEF Current
  <2>3. total' \in stock'[b] .. Cardinality(CopiesOf(b)')
    BY <1>1, <1>2, <1>3, <1>4, <2>1 DEF TypeOK
  <2>4. QED
    BY <2>1, <2>2, <2>3, <2>5 DEF CountingInv
<1>7. LateInv' /\ OverdueNotMissed'
  BY <1>1 DEF LateInv, OverdueNotMissed
<1>8. CountsOfTheRequest'
  BY <1>1, <1>3 DEF CountsOfTheRequest
<1>9. QED
  BY <1>3, <1>5, <1>6, <1>7, <1>8

\* The copies on the shelf are counted after the total, and are not more.
LEMMA CountAvailableStep ==
  ASSUME IInv, CountAvailable
  PROVE  IInv'
<1> USE DEF IInv
<1>1. /\ UNCHANGED <<books, members, copies, loans, now>>
      /\ UNCHANGED <<total, filter, clock, rows, stock, shelf, late>>
      /\ pc = "available" /\ pc' \in {"OK", "total"}
  BY DEF CountAvailable, tables, Count
<1>2. PICK b \in todo : /\ Current(b) /\ todo' = todo \ {b}
                        /\ counted' = counted \cup {[book |-> b, total |-> total,
                                                     available |-> Cardinality(OnShelf(b))]}
  BY DEF CountAvailable, Count
<1>3. TableInv' /\ \A x : CopiesOf(x)' = CopiesOf(x) /\ OnShelf(x)' = OnShelf(x)
  BY <1>1 DEF TableInv, Registered, CopiesOf, OnShelf
<1>4. /\ b \in BookIds /\ Cardinality(OnShelf(b)) \in Nat
      /\ Cardinality(OnShelf(b)) <= Cardinality(CopiesOf(b))
  BY CountType DEF TypeOK
<1>5. TypeOK'
  BY <1>1, <1>2, <1>4 DEF TypeOK, Answered
<1>6. CountingInv' /\ Cardinality(OnShelf(b)) \in shelf[b]
  BY <1>1, <1>3, <1>4 DEF CountingInv, Answered
<1>7. filter' = None
  BY <1>1 DEF LateInv
<1>8. LateInv' /\ OverdueNotMissed'
  BY <1>1, <1>7, QueriesAssumption DEF LateInv, OverdueNotMissed, Filters
<1>9. CountsOfTheRequest'
  <2>1. total \in stock[b] .. Cardinality(CopiesOf(b))
    BY <1>1, <1>2 DEF CountingInv
  <2>4. total \in Nat /\ Cardinality(CopiesOf(b)) \in Nat
    BY CountType DEF TypeOK
  <2>2. ASSUME NEW k \in counted'
        PROVE  /\ k.total \in stock[k.book] .. Cardinality(CopiesOf(k.book))
               /\ k.available \in shelf[k.book]
               /\ k.available > k.total => k.total < Cardinality(CopiesOf(k.book))
    <3>1. CASE k \in counted
      BY <3>1 DEF CountsOfTheRequest
    <3>2. CASE k = [book |-> b, total |-> total, available |-> Cardinality(OnShelf(b))]
      BY <1>4, <1>6, <2>1, <2>4, <3>2
    <3>3. QED
      BY <1>2, <2>2, <3>1, <3>2
  <2>3. QED
    BY <1>1, <1>3, <2>2 DEF CountsOfTheRequest
<1>10. QED
  BY <1>3, <1>5, <1>6, <1>8, <1>9

\* The SELECT runs at a later clock than the handler's, and misses no late loan.
LEMMA SelectLoansStep ==
  ASSUME IInv, SelectLoans
  PROVE  IInv'
<1> USE DEF IInv
<1>1. /\ UNCHANGED <<books, members, copies, loans, now>>
      /\ UNCHANGED <<todo, total, counted, filter, clock, stock, shelf, late>>
      /\ pc = "select" /\ pc' = "OK"
  BY DEF SelectLoans, tables
<1>2. PICK t \in clock .. now :
        rows' = {[id |-> r.id, status |-> StatusAt(r, clock)] : r \in Matching(filter, t)}
  BY DEF SelectLoans
<1>3. TableInv' /\ \A x : CopiesOf(x)' = CopiesOf(x) /\ OnShelf(x)' = OnShelf(x)
  BY <1>1 DEF TableInv, Registered, CopiesOf, OnShelf
<1>4. rows' \subseteq [id : LoanIds, status : Statuses]
  <2>1. \A r \in Matching(filter, t) : r.id \in LoanIds /\ StatusAt(r, clock) \in Statuses
    BY DEF Matching, StatusAt, Statuses, TableInv, LoanRow
  <2>2. QED
    BY <1>2, <2>1
<1>5. TypeOK'
  BY <1>1, <1>4 DEF TypeOK, Answered
<1>6. CountingInv' /\ LateInv' /\ CountsOfTheRequest'
  BY <1>1, <1>3 DEF CountingInv, LateInv, CountsOfTheRequest, Answered
<1>7. ASSUME filter = "overdue"
      PROVE  /\ \A r \in loans : r.id \in late /\ Open(r) => \E k \in rows' : k.id = r.id
             /\ \A k \in rows' : k.id \in late => k.status = "overdue"
  <2>1. Matching(filter, t) = {r \in loans : Overdue(r, t)}
    BY <1>7 DEF Matching
  <2>2. ASSUME NEW r \in loans, r.id \in late, Open(r)
        PROVE  Overdue(r, t) /\ StatusAt(r, clock) = "overdue"
    <3>1. Overdue(r, clock)
      BY <2>2 DEF LateInv
    <3>2. DueAt(r) < t
      BY <3>1, <2>2, QueriesAssumption DEF Overdue, DueAt, TypeOK, TableInv, LoanRow
    <3>3. QED
      BY <2>2, <3>1, <3>2 DEF Overdue, StatusAt
  <2>3. ASSUME NEW r \in loans, r.id \in late, Open(r)
        PROVE  \E k \in rows' : k.id = r.id
    <3>1. r \in Matching(filter, t)
      BY <2>1, <2>2, <2>3
    <3>2. [id |-> r.id, status |-> StatusAt(r, clock)] \in rows'
      BY <1>2, <3>1
    <3>3. QED
      BY <3>2
  <2>4. ASSUME NEW k \in rows', k.id \in late
        PROVE  k.status = "overdue"
    <3>1. PICK r \in loans : Overdue(r, t) /\ k = [id |-> r.id, status |-> StatusAt(r, clock)]
      BY <1>2, <2>1, <2>4
    <3>2. r.id \in late /\ Open(r)
      BY <3>1, <2>4 DEF Overdue
    <3>3. QED
      BY <2>2, <3>1, <3>2
  <2>5. QED
    BY <2>3, <2>4
<1>8. OverdueNotMissed'
  BY <1>1, <1>7 DEF OverdueNotMissed
<1>9. QED
  BY <1>3, <1>5, <1>6, <1>8

\* A request that fails answers nothing.
LEMMA AbortStep ==
  ASSUME IInv, Abort
  PROVE  IInv'
<1> USE DEF IInv
<1>1. /\ UNCHANGED <<books, members, copies, loans, now>>
      /\ UNCHANGED <<todo, total, filter, clock, stock, shelf, late>>
      /\ pc' = "INTERNAL" /\ counted' = {} /\ rows' = {}
  BY DEF Abort, tables
<1>2. TableInv' /\ \A x : CopiesOf(x)' = CopiesOf(x) /\ OnShelf(x)' = OnShelf(x)
  BY <1>1 DEF TableInv, Registered, CopiesOf, OnShelf
<1>3. TypeOK'
  BY <1>1 DEF TypeOK, Answered
<1>4. CountingInv' /\ LateInv' /\ CountsOfTheRequest' /\ OverdueNotMissed'
  BY <1>1, <1>2 DEF CountingInv, LateInv, CountsOfTheRequest, OverdueNotMissed, Answered
<1>5. QED
  BY <1>2, <1>3, <1>4

\* The empty library answers nothing.
LEMMA InitInv == Init => IInv
<1> SUFFICES ASSUME Init PROVE IInv
  OBVIOUS
<1>1. /\ books = {} /\ loans = {} /\ now = 0 /\ copies = [c \in CopyIds |-> "absent"]
      /\ pc = "ready" /\ todo = {} /\ total = 0 /\ counted = {}
      /\ filter = None /\ clock = 0 /\ rows = {}
      /\ stock = [b \in BookIds |-> 0] /\ shelf = [b \in BookIds |-> {}] /\ late = {}
  BY DEF Init, Service!Init
<1>2. Registered = {}
  BY <1>1 DEF Registered
<1>3. TableInv
  BY <1>1, <1>2, FS_EmptySet DEF TableInv, CopyStatuses
<1>4. \A b : Cardinality(CopiesOf(b)) \in Nat
  BY <1>3, CountType
<1>5. TypeOK
  BY <1>1 DEF TypeOK, Answered
<1>6. CountingInv
  BY <1>1, <1>4 DEF CountingInv, Answered
<1>7. LateInv /\ CountsOfTheRequest /\ OverdueNotMissed
  BY <1>1 DEF LateInv, CountsOfTheRequest, OverdueNotMissed
<1>8. QED
  BY <1>3, <1>5, <1>6, <1>7 DEF IInv

\* Every statement of the reader and every write beside it.
LEMMA StepInv == IInv /\ [Next]_vars => IInv'
<1> SUFFICES ASSUME IInv, [Next]_vars PROVE IInv'
  OBVIOUS
<1>1. ASSUME NEW b \in BookIds, GetBook(b)
      PROVE  IInv'
  <2>1. Begin(None) /\ todo' \subseteq BookIds /\ pc' \in {"OK", "NOT_FOUND", "total"}
    BY <1>1 DEF GetBook, Count
  <2>2. QED
    BY <2>1, BooksStep
<1>2. ASSUME NEW size \in PageSizes, NEW token \in Tokens, ListBooks(size, token)
      PROVE  IInv'
  <2>1. Page(books, Limit(size), Offset(token)) \subseteq BookIds
    BY DEF Page, IInv, TableInv
  <2>2. /\ Begin(None) /\ todo' \subseteq BookIds
        /\ pc' \in {"OK", "INVALID_ARGUMENT", "total"}
    BY <1>2, <2>1 DEF ListBooks, Count
  <2>3. QED
    BY <2>2, BooksStep
<1>3. CASE UNCHANGED vars
  <2>1. /\ UNCHANGED <<books, members, copies, loans, now>>
        /\ UNCHANGED <<pc, todo, total, counted, filter, clock, rows, stock, shelf, late>>
    BY <1>3 DEF vars, tables, request
  <2>2. TableInv' /\ \A x : CopiesOf(x)' = CopiesOf(x) /\ OnShelf(x)' = OnShelf(x)
    BY <2>1 DEF IInv, TableInv, Registered, CopiesOf, OnShelf
  <2>3. CountingInv'
    BY <2>1, <2>2 DEF IInv, CountingInv, Current
  <2>4. TypeOK' /\ LateInv' /\ CountsOfTheRequest' /\ OverdueNotMissed'
    BY <2>1, <2>2 DEF IInv, TypeOK, LateInv, CountsOfTheRequest, OverdueNotMissed
  <2>5. QED
    BY <2>2, <2>3, <2>4 DEF IInv
<1>4. CASE \E f \in Filters : ListLoans(f)
  BY <1>4, LoansStep
<1>5. CASE CountTotal
  BY <1>5, CountTotalStep
<1>6. CASE CountAvailable
  BY <1>6, CountAvailableStep
<1>7. CASE SelectLoans
  BY <1>7, SelectLoansStep
<1>8. CASE Abort
  BY <1>8, AbortStep
<1>9. CASE Write
  BY <1>9, WriteStep DEF Write
<1>10. QED
  BY <1>1, <1>2, <1>3, <1>4, <1>5, <1>6, <1>7, <1>8, <1>9 DEF Next, Read

-----------------------------------------------------------------------------
\* What the reply of a read RPC relies on holds in every state.
THEOREM Inductive == Spec => []IInv
<1>1. Init => IInv
  BY InitInv
<1>2. IInv /\ [Next]_vars => IInv'
  BY StepInv
<1>3. QED
  BY <1>1, <1>2, PTL DEF Spec

\* Replies carry a row per book, with counts, and a row per loan, with a status.
THEOREM TypeCorrect == Spec => []TypeOK
<1>1. IInv => TypeOK
  BY DEF IInv
<1>2. QED
  BY <1>1, Inductive, PTL

\* What GetBook and ListBooks give as the available copies of a book was their number
\* at a moment of the request, and so was the total, whatever is lent, returned, edited
\* and added between the statements.
THEOREM CountsAreOfTheRequest == Spec => []CountsOfTheRequest
<1>1. IInv => CountsOfTheRequest
  BY DEF IInv
<1>2. QED
  BY <1>1, Inductive, PTL

\* ListLoans leaves out no loan that was overdue when it was asked, although its
\* label and its filter come from two clocks.
THEOREM OverdueAreFound == Spec => []OverdueNotMissed
<1>1. IInv => OverdueNotMissed
  BY DEF IInv
<1>2. QED
  BY <1>1, Inductive, PTL
=============================================================================
