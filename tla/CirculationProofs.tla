------------------------ MODULE CirculationProofs ------------------------
(***************************************************************************)
(* A reader beside any number of concurrent writers is a reader of Queries,*)
(* beside the serial service.                                              *)
(***************************************************************************)
EXTENDS Circulation, LendingProofs

Answers == INSTANCE QueriesProofs WITH pc <- reading

\* The clock has not run past its bound.
ClockInv == now <= MaxTime

\* The service that the reader sees is the one that the writers implement.
LEMMA SameService ==
  ASSUME ClockInv', [Abs!Next]_(Abs!tables), Reader!Watch
  PROVE  [Reader!Next]_(Reader!vars)
<1>1. CASE UNCHANGED Abs!tables
  BY <1>1 DEF Reader!Watch, Abs!tables, Reader!vars, Reader!tables, Reader!request
<1>2. CASE Abs!Next
  <2>1. Reader!Service!Next
    <3>1. \A m, c, id : Abs!Lend(m, c, id) => Reader!Service!Lend(m, c, id)
      BY DEF Abs!Lend, Abs!OnShelf, Abs!OpenLoan, Abs!Open, Reader!Service!Lend,
         Reader!Service!OnShelf, Reader!Service!OpenLoan, Reader!Service!Open
    <3>2. \A r : Abs!TakeBack(r) => Reader!Service!TakeBack(r)
      BY DEF Abs!TakeBack, Abs!Open, Abs!ComputeFine, Abs!CeilDays, Reader!Service!TakeBack,
         Reader!Service!Open, Reader!Service!ComputeFine, Reader!Service!CeilDays
    <3>3. \A c, status : Abs!Relabel(c, status) => Reader!Service!Relabel(c, status)
      BY DEF Abs!Relabel, Abs!OpenLoan, Abs!Open, Reader!Service!Relabel,
         Reader!Service!OpenLoan, Reader!Service!Open
    <3>4. /\ \A c : Abs!AddCopy(c) => Reader!Service!AddCopy(c)
          /\ \A m, status : Abs!SetMember(m, status) => Reader!Service!SetMember(m, status)
          /\ \A b : Abs!AddBook(b) => Reader!Service!AddBook(b)
          /\ Abs!Tick => Reader!Service!Tick
      BY DEF Abs!AddCopy, Abs!SetMember, Abs!AddBook, Abs!Tick, Reader!Service!AddCopy,
         Reader!Service!SetMember, Reader!Service!AddBook, Reader!Service!Tick
    <3>5. QED
      BY <1>2, <3>1, <3>2, <3>3, <3>4 DEF Abs!Next, Reader!Service!Next
  <2>2. QED
    BY <2>1 DEF ClockInv, Reader!Next, Reader!Write
<1>3. QED
  BY <1>1, <1>2

\* A reader has nothing that a writer looks at.
LEMMA ReadingStep ==
  ASSUME Reading
  PROVE  UNCHANGED vars
<1>1. Reader!Read => UNCHANGED Reader!tables
  BY DEF Reader!Read, Reader!GetBook, Reader!ListBooks, Reader!ListLoans, Reader!Begin,
     Reader!CountTotal, Reader!CountAvailable, Reader!SelectLoans, Reader!Abort
<1>2. QED
  BY <1>1 DEF Reading, Reader!tables, tables, vars, session

\* A step of the system is a step of the writers or none.
LEMMA WritersStep == [CirculationNext]_all => [Next]_vars
  BY ReadingStep DEF CirculationNext, Writing, all

\* The writers, with a reader beside them, are those of Lending.
LEMMA WritersUndisturbed == CirculationSpec => Spec
<1>1. CirculationInit => Init
  BY DEF CirculationInit
<1>2. QED
  BY <1>1, WritersStep, PTL DEF CirculationSpec, Spec

\* Only Tick moves the clock, and not beyond the bound.
LEMMA ClockStep == TypeOK /\ ClockInv /\ [Next]_vars => ClockInv'
<1>1. SUFFICES ASSUME TypeOK, ClockInv, [Next]_vars PROVE ClockInv'
  OBVIOUS
<1>2. Tick => ClockInv'
  BY <1>1, LendingAssumption DEF Tick, TypeOK, ClockInv
<1>3. CASE now' = now
  BY <1>1, <1>3 DEF ClockInv
<1>4. Tick \/ now' = now
  BY <1>1 DEF Next, Accept, Serve, Abort, DeadlockDetected, Rollback, BorrowBegin, ReturnBegin,
     UpdateCopyBegin, UpdateMemberRead, Begin, BorrowReadMember, BorrowLockCopy,
     BorrowLockAvailable, Claim, BorrowFlush, BorrowParent, CommitBorrow, ReturnLockLoan,
     TakeBack, ReturnLockCopy, CommitReturn, UpdateCopyLock, UpdateCopyCheck,
     CommitUpdateCopy, UpdateMemberLock, UpdateMemberKey, CommitUpdateMember,
     CreateBook, CreateMember, AddCopy, vars
<1>5. QED
  BY <1>2, <1>3, <1>4

\* With any number of writers beside it, a reader runs as beside the serial service.
THEOREM ReadersServed == CirculationSpec => ReadersSeeTheService
<1>1. CirculationInit => ClockInv /\ Reader!Init
  BY LendingAssumption DEF CirculationInit, Init, ClockInv
<1>2. IInv /\ TypeOK /\ ClockInv /\ [CirculationNext]_all => ClockInv' /\ [Reader!Next]_(Reader!vars)
  <2>1. SUFFICES ASSUME IInv, TypeOK, ClockInv, [CirculationNext]_all
                 PROVE  ClockInv' /\ [Reader!Next]_(Reader!vars)
    OBVIOUS
  <2>2. ClockInv' /\ [Abs!Next]_(Abs!tables)
    BY <2>1, WritersStep, ClockStep, StepSerial
  <2>3. CASE Writing
    BY <2>2, <2>3, SameService DEF Writing
  <2>4. CASE Reading
    BY <2>2, <2>4 DEF Reading, Reader!Next
  <2>5. CASE UNCHANGED all
    BY <2>2, <2>5 DEF all, vars, tables, request, Reader!vars, Reader!tables, Reader!request
  <2>6. QED
    BY <2>1, <2>3, <2>4, <2>5 DEF CirculationNext
<1>3. IInv => TypeOK
  BY DEF IInv
<1>4. QED
  BY <1>1, <1>2, <1>3, WritersUndisturbed, Inductive, PTL
     DEF CirculationSpec, ReadersSeeTheService, Reader!Spec

-----------------------------------------------------------------------------
(* What readers are told *)

\* The reader of Circulation is the one that QueriesProofs is about.
LEMMA SameReader == Reader!Spec => Answers!Spec
<1>1. Reader!Init => Answers!Init
  BY DEF Reader!Init, Reader!Service!Init, Answers!Init, Answers!Service!Init
<1>2. Reader!Write => Answers!Write
  BY DEF Reader!Write, Reader!Watch, Reader!Answered, Reader!OnShelf, Reader!CopiesOf,
     Reader!Cardinality, Reader!Service!Next, Reader!Service!Lend, Reader!Service!TakeBack,
     Reader!Service!Relabel, Reader!Service!AddCopy, Reader!Service!SetMember,
     Reader!Service!AddBook, Reader!Service!Tick, Reader!Service!OnShelf,
     Reader!Service!OpenLoan, Reader!Service!Open, Reader!Service!ComputeFine,
     Reader!Service!CeilDays, Answers!Write, Answers!Watch, Answers!Answered, Answers!OnShelf,
     Answers!CopiesOf, Answers!Cardinality, Answers!Service!Next, Answers!Service!Lend,
     Answers!Service!TakeBack, Answers!Service!Relabel, Answers!Service!AddCopy,
     Answers!Service!SetMember, Answers!Service!AddBook, Answers!Service!Tick,
     Answers!Service!OnShelf, Answers!Service!OpenLoan, Answers!Service!Open,
     Answers!Service!ComputeFine, Answers!Service!CeilDays
<1>3. Reader!Read => Answers!Read
  BY DEF Reader!Read, Reader!GetBook, Reader!ListBooks, Reader!ListLoans, Reader!Begin,
     Reader!Count, Reader!CountTotal, Reader!CountAvailable, Reader!SelectLoans, Reader!Abort,
     Reader!Answered, Reader!Current, Reader!OnShelf, Reader!CopiesOf, Reader!Cardinality,
     Reader!Overdue, Reader!DueAt, Reader!Open, Reader!Filters, Reader!Matching,
     Reader!StatusAt, Reader!tables, Reader!Page, Reader!Position, Reader!Limit,
     Reader!Offset, Reader!ValidRequest, Answers!Read, Answers!GetBook, Answers!ListBooks,
     Answers!ListLoans, Answers!Begin, Answers!Count, Answers!CountTotal,
     Answers!CountAvailable, Answers!SelectLoans, Answers!Abort, Answers!Answered,
     Answers!Current, Answers!OnShelf, Answers!CopiesOf, Answers!Cardinality, Answers!Overdue,
     Answers!DueAt, Answers!Open, Answers!Filters, Answers!Matching, Answers!StatusAt,
     Answers!tables, Answers!Page, Answers!Position, Answers!Limit, Answers!Offset,
     Answers!ValidRequest
<1>4. [Reader!Next]_(Reader!vars) => [Answers!Next]_(Answers!vars)
  BY <1>2, <1>3 DEF Reader!Next, Answers!Next, Reader!vars, Answers!vars, Reader!tables,
     Answers!tables, Reader!request, Answers!request
<1>5. QED
  BY <1>1, <1>4, PTL DEF Reader!Spec, Answers!Spec

\* Beside any number of transactions in the middle of borrows, returns and edits, each
\* count in a reply was one of the committed tables while it was prepared, and no loan
\* that was overdue is left out: nothing is counted of what is half done.
THEOREM RepliesBesideWriters ==
  ASSUME Reader!QueriesAssumption, Reader!ListingAssumption
  PROVE  CirculationSpec => [](Reader!CountsOfTheRequest /\ Reader!OverdueNotMissed)
<1>1. Answers!QueriesAssumption /\ Answers!ListingAssumption /\ Answers!FineAssumption
  BY FineAssumption DEF Reader!QueriesAssumption, Reader!ListingAssumption, Reader!Filters,
     Answers!QueriesAssumption, Answers!ListingAssumption, Answers!FineAssumption, Answers!Filters
<1>2. Answers!CountsOfTheRequest => Reader!CountsOfTheRequest
  BY DEF Reader!CountsOfTheRequest, Reader!CopiesOf, Reader!Cardinality,
     Answers!CountsOfTheRequest, Answers!CopiesOf, Answers!Cardinality
<1>3. Answers!OverdueNotMissed => Reader!OverdueNotMissed
  BY DEF Reader!OverdueNotMissed, Reader!Open, Answers!OverdueNotMissed, Answers!Open
<1>4. Answers!Spec => []Answers!CountsOfTheRequest /\ []Answers!OverdueNotMissed
  BY <1>1, Answers!CountsAreOfTheRequest, Answers!OverdueAreFound, PTL
<1>5. QED
  BY ReadersServed, SameReader, <1>2, <1>3, <1>4, PTL DEF ReadersSeeTheService
=============================================================================
