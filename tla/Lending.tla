------------------------------ MODULE Lending ------------------------------
(***************************************************************************)
(* Borrowing and returning, with the two staff operations that touch the   *)
(* same rows (UpdateCopy, UpdateMember), as the interleaved transactions   *)
(* of a pool of workers over one PostgreSQL database in READ COMMITTED.    *)
(*                                                                         *)
(* books, members, emails, copies, loans are the committed tables.  A      *)
(* worker runs one request in one unit_of_work(); its uncommitted writes   *)
(* are private (row, req) until its commit step.  The row locks it owns    *)
(* are held[w] (a copy, FOR UPDATE), row[w] (a loan, FOR UPDATE, while     *)
(* returning) and those of members: of the UPDATE of one, and FOR KEY      *)
(* SHARE by the foreign key of a new loan.                                 *)
(* One step is one SQL statement with the Python next to it.               *)
(***************************************************************************)
EXTENDS Fines, FiniteSets

CONSTANTS Workers,      \* the worker threads of the gRPC server(s)
          MemberIds, Emails, BookIds, CopyIds, LoanIds,
          BookOf,       \* book_copies.book_id, immutable
          LoanPeriod,   \* settings.loan_period_days, in ticks
          MaxTime,      \* bound on the clock
          None          \* absent value: NULL, Python None, no lock, no row

CopyStatus   == {"available", "on_loan", "lost", "damaged", "withdrawn"}
MemberStatus == {"active", "suspended"}

\* No row and no lock is None; ids are database keys, ordered as numbers
\* where the code orders by them (copies).  A pool has finitely many threads, and
\* finitely many loans are modelled.
ASSUME LendingAssumption ==
  /\ IsFiniteSet(Workers) /\ IsFiniteSet(LoanIds)
  /\ CopyIds \subseteq Nat
  /\ BookOf \in [CopyIds -> BookIds]
  /\ LoanPeriod \in Nat
  /\ MaxTime \in Nat
  /\ None \notin Nat \cup MemberIds \cup Emails \cup BookIds \cup CopyStatus \cup MemberStatus

VARIABLES books,    \* set of ids in books
          members,  \* status of each member row, or "absent"
          emails,   \* e-mail of each member row, or None
          copies,   \* status of each book_copies row, or "absent"
          loans,    \* the rows of loans
          now,      \* the clock read by _now()
          pc,       \* next statement of each worker, or "ready" for a request
          req,      \* the request being served
          held,     \* the copy row this worker has locked, or None
          row,      \* the loan row this worker is about to write, or None
          barred    \* history: borrows whose member was never active so far

tables  == <<books, members, emails, copies, loans>>
session == <<pc, req, held, row>>
vars    == <<tables, now, session, barred>>

LoanRow == [id : LoanIds, copy : CopyIds, member : MemberIds,
            borrowed : Nat, returned : Nat \cup {None}, fine : Nat]

Open(r)       == r.returned = None
DueAt(r)      == r.borrowed + LoanPeriod
OpenLoan(c)   == \E r \in loans : r.copy = c /\ Open(r)

BorrowRequests ==                      \* the oneof "target" of the request
       [member : MemberIds, book : BookIds, copy : {None}]
  \cup [member : MemberIds, book : {None}, copy : CopyIds]
ReturnRequests       == [loan : LoanIds, damaged : BOOLEAN]
UpdateCopyRequests   == [copy : CopyIds, status : CopyStatus \cup {None}]
\* The columns that the UPDATE will SET, or None.
UpdateMemberRequests == [member : MemberIds, email : Emails \cup {None},
                         status : MemberStatus \cup {None}]

BorrowPCs == {"b_member", "b_copy", "b_flush", "b_parent", "b_commit"}
ReturnPCs == {"r_loan", "r_copy", "r_commit"}
CopyPCs   == {"c_lock", "c_check", "c_commit"}
MemberPCs == {"m_lock", "m_key", "m_commit"}

Init ==                                \* the schema the migration creates
  /\ books = {} /\ loans = {} /\ now = 0 /\ barred = {}
  /\ members = [m \in MemberIds |-> "absent"]
  /\ emails  = [m \in MemberIds |-> None]
  /\ copies  = [c \in CopyIds |-> "absent"]
  /\ pc   = [w \in Workers |-> "ready"]
  /\ req  = [w \in Workers |-> None]
  /\ held = [w \in Workers |-> None]
  /\ row  = [w \in Workers |-> None]

-----------------------------------------------------------------------------
(* Transactions and row locks *)

Running(w) == pc[w] # "ready"

Begin(w, r, first) ==
  /\ ~Running(w)
  /\ pc'  = [pc EXCEPT ![w] = first]
  /\ req' = [req EXCEPT ![w] = r]
  /\ UNCHANGED <<tables, now, held, row>>

Goto(w, label) == pc' = [pc EXCEPT ![w] = label]

\* Mutant: the row lock outlives the session.
Close_LeaksLock(w) ==
  /\ pc'   = [pc EXCEPT ![w] = "ready"]
  /\ req'  = [req EXCEPT ![w] = None]
  /\ row'  = [row EXCEPT ![w] = None]
  /\ held' = held

\* The scope of unit_of_work() closes: locks and private writes are gone.  Replies
\* are not told apart afterwards: that of a COMMIT may be lost with the connection,
\* and the client be told INTERNAL of what is in the tables.
Close(w) ==
  /\ pc'   = [pc EXCEPT ![w] = "ready"]
  /\ req'  = [req EXCEPT ![w] = None]
  /\ held' = [held EXCEPT ![w] = None]
  /\ row'  = [row EXCEPT ![w] = None]

\* raise error: the session is rolled back, the tables stay.
Rollback(w, error) ==
  /\ Close(w)
  /\ barred' = barred \ {w}
  /\ UNCHANGED <<tables, now>>

\* The server, the connection or a statement fails before the commit.
Abort(w) == Running(w) /\ Rollback(w, "INTERNAL")

\* Mutant: the copy is read without FOR UPDATE.
CopyFree_NoLock(w, c) == TRUE

CopyFree(w, c) == \A v \in Workers \ {w} : held[v] # c

\* Mutant: the loan is read without FOR UPDATE.
LoanFree_NoLock(w, id) == TRUE

LocksLoan(v, id) == pc[v] \in {"r_copy", "r_commit"} /\ row[v].id = id

LoanFree(w, id) == \A v \in Workers \ {w} : ~LocksLoan(v, id)

\* The UPDATE that v has sent for member m, whether it changes the e-mail of the row
\* (which nobody else can write), and the loan that v has inserted for m.
Updates(v, m) == pc[v] \in {"m_key", "m_commit"} /\ req[v].member = m
Rekeys(v)     == req[v].email \notin {None, emails[req[v].member]}
Lends(v, m)   == pc[v] = "b_commit" /\ req[v].member = m

Owners(e) == {m \in MemberIds : emails[m] = e}

\* Who has e is open until v ends: v has entered it, or written the row that has it.
Disputes(v, e) ==
  \/ pc[v] = "m_commit" /\ req[v].email = e
  \/ \E m \in Owners(e) : Updates(v, m)

-----------------------------------------------------------------------------
(* borrow_book *)

InFlight == {w \in Workers : pc[w] \in BorrowPCs}

\* Bound: no borrow starts unless its loan will find an id in LoanIds.
BorrowBegin(w) ==
  /\ Cardinality(loans) + Cardinality(InFlight) < Cardinality(LoanIds)
  /\ \E r \in BorrowRequests :
       /\ Begin(w, r, "b_member")
       /\ barred' = IF members[r.member] = "active" THEN barred ELSE barred \cup {w}

\* Mutant: the status of the member is not checked.
BorrowReadMember_AnyStatus(w) ==
  /\ pc[w] = "b_member"
  /\ \/ /\ members[req[w].member] = "absent"
        /\ Rollback(w, "NOT_FOUND")
     \/ /\ members[req[w].member] # "absent"
        /\ Goto(w, "b_copy")
        /\ UNCHANGED <<tables, now, req, held, row, barred>>

\* The member row is read, not locked.
BorrowReadMember(w) ==
  /\ pc[w] = "b_member"
  /\ \/ /\ members[req[w].member] = "absent"
        /\ Rollback(w, "NOT_FOUND")
     \/ /\ members[req[w].member] = "suspended"
        /\ Rollback(w, "FAILED_PRECONDITION")
     \/ /\ members[req[w].member] = "active"
        /\ Goto(w, "b_copy")
        /\ UNCHANGED <<tables, now, req, held, row, barred>>

\* The row lock is taken and the copy will be written ON_LOAN.
Claim(w, c) ==
  /\ held' = [held EXCEPT ![w] = c]
  /\ Goto(w, "b_flush")
  /\ UNCHANGED <<tables, now, req, row, barred>>

\* SELECT ... FOR UPDATE of the requested copy waits for its holder.
BorrowLockCopy(w) ==
  /\ pc[w] = "b_copy"
  /\ req[w].copy # None
  /\ LET c == req[w].copy IN
       \/ copies[c] = "absent" /\ Rollback(w, "NOT_FOUND")
       \/ /\ copies[c] \notin {"absent", "available"} /\ CopyFree(w, c)
          /\ Rollback(w, "FAILED_PRECONDITION")
       \/ copies[c] = "available" /\ CopyFree(w, c) /\ Claim(w, c)

\* ORDER BY id LIMIT 1 FOR UPDATE SKIP LOCKED never waits.
Lendable(w, b) ==
  {c \in CopyIds : BookOf[c] = b /\ copies[c] = "available" /\ CopyFree(w, c)}

BorrowLockAvailable(w) ==
  /\ pc[w] = "b_copy"
  /\ req[w].copy = None
  /\ LET b == req[w].book IN
       \/ \E c \in Lendable(w, b) :
            (\A d \in Lendable(w, b) : c <= d) /\ Claim(w, c)
       \/ /\ Lendable(w, b) = {}
          /\ Rollback(w, IF b \in books THEN "FAILED_PRECONDITION" ELSE "NOT_FOUND")

\* Uncommitted loan rows of the other workers, and the ids in use.
Pending(w)  == {row[v] : v \in {u \in Workers \ {w} : pc[u] \in {"b_parent", "b_commit"}}}
UsedIds(w)  == {r.id : r \in loans \cup Pending(w)}

\* The unique index one_open_loan_per_copy refuses the row when an open loan
\* of the copy is committed, and waits while one is still uncommitted.
BorrowFlush(w) ==
  /\ pc[w] = "b_flush"
  /\ \/ OpenLoan(held[w]) /\ Rollback(w, "FAILED_PRECONDITION")
     \/ /\ ~OpenLoan(held[w])
        /\ \A r \in Pending(w) : r.copy # held[w]
        /\ \E id \in LoanIds \ UsedIds(w) :
             row' = [row EXCEPT ![w] =
                       [id |-> id, copy |-> held[w], member |-> req[w].member,
                        borrowed |-> now, returned |-> None, fine |-> 0]]
        /\ Goto(w, "b_parent")
        /\ UNCHANGED <<tables, now, req, held, barred>>

\* The foreign key check of the INSERT locks the member FOR KEY SHARE: it waits,
\* with the copy in hand, for an UPDATE that changes the e-mail.
BorrowParent(w) ==
  /\ pc[w] = "b_parent"
  /\ \A v \in Workers \ {w} : ~(Updates(v, req[w].member) /\ Rekeys(v))
  /\ Goto(w, "b_commit")
  /\ UNCHANGED <<tables, now, req, held, row, barred>>

CommitBorrow(w) ==
  /\ pc[w] = "b_commit"
  /\ copies' = [copies EXCEPT ![held[w]] = "on_loan"]
  /\ loans' = loans \cup {row[w]}
  /\ Close(w)
  /\ barred' = barred \ {w}
  /\ UNCHANGED <<books, members, emails, now>>

-----------------------------------------------------------------------------
(* return_book *)

ReturnBegin(w) ==
  /\ \E r \in ReturnRequests : Begin(w, r, "r_loan")
  /\ UNCHANGED barred

LoansById(id) == {r \in loans : r.id = id}

Returned(r, t) == [r EXCEPT !.returned = t, !.fine = ComputeFine(DueAt(r), t)]

TakeBack(w, r) ==
  /\ row' = [row EXCEPT ![w] = Returned(r, now)]
  /\ Goto(w, "r_copy")
  /\ UNCHANGED <<tables, now, req, held, barred>>

\* Mutant: returned_at is not looked at again.
ReturnLockLoan_NoRecheck(w) ==
  /\ pc[w] = "r_loan"
  /\ \/ LoansById(req[w].loan) = {} /\ Rollback(w, "NOT_FOUND")
     \/ /\ LoanFree(w, req[w].loan)
        /\ \E r \in LoansById(req[w].loan) : TakeBack(w, r)

\* SELECT ... FOR UPDATE of the loan; its holders are other returns.
ReturnLockLoan(w) ==
  /\ pc[w] = "r_loan"
  /\ \/ LoansById(req[w].loan) = {} /\ Rollback(w, "NOT_FOUND")
     \/ /\ LoanFree(w, req[w].loan)
        /\ \E r \in LoansById(req[w].loan) :
             \/ ~Open(r) /\ Rollback(w, "FAILED_PRECONDITION")
             \/ Open(r) /\ TakeBack(w, r)

ReturnLockCopy(w) ==
  /\ pc[w] = "r_copy"
  /\ CopyFree(w, row[w].copy)
  /\ held' = [held EXCEPT ![w] = row[w].copy]
  /\ Goto(w, "r_commit")
  /\ UNCHANGED <<tables, now, req, row, barred>>

\* Mutant: the copy is written only when it came back damaged.
CommitReturn_KeepsCopy(w) ==
  /\ pc[w] = "r_commit"
  /\ loans' = {r \in loans : r.id # row[w].id} \cup {row[w]}
  /\ copies' = IF req[w].damaged THEN [copies EXCEPT ![held[w]] = "damaged"] ELSE copies
  /\ Close(w)
  /\ UNCHANGED <<books, members, emails, now, barred>>

CommitReturn(w) ==
  /\ pc[w] = "r_commit"
  /\ loans' = {r \in loans : r.id # row[w].id} \cup {row[w]}
  /\ copies' = [copies EXCEPT ![held[w]] =
                  IF req[w].damaged THEN "damaged" ELSE "available"]
  /\ Close(w)
  /\ UNCHANGED <<books, members, emails, now, barred>>

-----------------------------------------------------------------------------
(* update_copy *)

UpdateCopyBegin(w) ==
  /\ \E r \in UpdateCopyRequests : Begin(w, r, "c_lock")
  /\ UNCHANGED barred

UpdateCopyLock(w) ==
  /\ pc[w] = "c_lock"
  /\ LET c == req[w].copy IN
       \/ copies[c] = "absent" /\ Rollback(w, "NOT_FOUND")
       \/ /\ copies[c] # "absent" /\ CopyFree(w, c)
          /\ held' = [held EXCEPT ![w] = c]
          /\ Goto(w, "c_check")
          /\ UNCHANGED <<tables, now, req, row, barred>>

\* Mutant: the open loan is not looked for.
UpdateCopyCheck_Skipped(w) ==
  /\ pc[w] = "c_check"
  /\ Goto(w, "c_commit")
  /\ UNCHANGED <<tables, now, req, held, row, barred>>

\* Mutant: the open loan is read FOR UPDATE.
LookupWaits_ForUpdate(w) ==
  {v \in Workers \ {w} : \E r \in loans : r.copy = held[w] /\ Open(r) /\ LocksLoan(v, r.id)}

\* Whose end the lookup of the open loan of a copy waits for: it takes no lock.
LookupWaits(w) == {}

\* The open loan is looked up unless the new status is ON_LOAN.
UpdateCopyCheck(w) ==
  /\ pc[w] = "c_check"
  /\ LookupWaits(w) = {}
  /\ IF req[w].status \notin {None, "on_loan"} /\ OpenLoan(held[w])
       THEN Rollback(w, "FAILED_PRECONDITION")
       ELSE /\ Goto(w, "c_commit")
            /\ UNCHANGED <<tables, now, req, held, row, barred>>

\* Mutant: "unchanged" is written to the row.
CommitUpdateCopy_WritesNone(w) ==
  /\ pc[w] = "c_commit"
  /\ copies' = [copies EXCEPT ![held[w]] = req[w].status]
  /\ Close(w)
  /\ UNCHANGED <<books, members, emails, loans, now, barred>>

CommitUpdateCopy(w) ==
  /\ pc[w] = "c_commit"
  /\ copies' = IF req[w].status = None THEN copies
               ELSE [copies EXCEPT ![held[w]] = req[w].status]
  /\ Close(w)
  /\ UNCHANGED <<books, members, emails, loans, now, barred>>

-----------------------------------------------------------------------------
(* update_member: read, change, flush what differs from what was read *)

Differs(new, old) == IF new = old THEN None ELSE new

\* The row is read with the first statement and not locked.  Of one that is absent, or
\* already as asked for, nothing more is done; the name and the phone, which are not
\* modelled, may be all that the UPDATE will SET.
UpdateMemberRead(w) ==
  /\ \E m \in MemberIds, email \in Emails, status \in MemberStatus \cup {None} :
       LET set == [member |-> m, email |-> Differs(email, emails[m]),
                   status |-> Differs(status, members[m])] IN
         /\ members[m] # "absent"
         /\ Begin(w, set, "m_lock")
  /\ UNCHANGED barred

\* The UPDATE locks the version of the row that is committed by then.  One that
\* gives it another e-mail also waits for the loans that have share locked it.
UpdateMemberLock(w) ==
  /\ pc[w] = "m_lock"
  /\ \A v \in Workers \ {w} :
       /\ ~Updates(v, req[w].member)
       /\ Rekeys(w) => ~Lends(v, req[w].member)
  /\ Goto(w, IF Rekeys(w) THEN "m_key" ELSE "m_commit")
  /\ UNCHANGED <<tables, now, req, held, row, barred>>

\* The unique check of the e-mail, with the row locked, waits for whoever has
\* entered it and for whoever may be giving it up.
UpdateMemberKey(w) ==
  /\ pc[w] = "m_key"
  /\ \A v \in Workers \ {w} : ~Disputes(v, req[w].email)
  /\ \/ Owners(req[w].email) # {} /\ Rollback(w, "ALREADY_EXISTS")
     \/ /\ Owners(req[w].email) = {}
        /\ Goto(w, "m_commit")
        /\ UNCHANGED <<tables, now, req, held, row, barred>>

\* The borrows that member m has in flight.
BorrowsOf(m) == {w \in InFlight : req[w].member = m}

SetMember(m, status) ==
  /\ members' = [members EXCEPT ![m] = status]
  /\ barred' = IF status = "active" THEN barred \ BorrowsOf(m) ELSE barred

Written(new, old) == IF new = None THEN old ELSE new

CommitUpdateMember(w) ==
  /\ pc[w] = "m_commit"
  /\ LET m == req[w].member IN
       /\ SetMember(m, Written(req[w].status, members[m]))
       /\ emails' = [emails EXCEPT ![m] = Written(req[w].email, @)]
  /\ Close(w)
  /\ UNCHANGED <<books, copies, loans, now>>

-----------------------------------------------------------------------------
(* create_book, create_member, add_copy write one row that no other          *)
(* transaction can see before the commit: they are atomic here.              *)

CreateBook(b) ==
  /\ b \notin books
  /\ books' = books \cup {b}
  /\ UNCHANGED <<members, emails, copies, loans, now, session, barred>>

CreateMember(m) ==
  /\ members[m] = "absent"
  /\ \E e \in Emails :
       /\ Owners(e) = {} /\ \A v \in Workers : ~Disputes(v, e)
       /\ emails' = [emails EXCEPT ![m] = e]
  /\ SetMember(m, "active")
  /\ UNCHANGED <<books, copies, loans, now, session>>

AddCopy(c) ==
  /\ copies[c] = "absent"
  /\ BookOf[c] \in books
  /\ copies' = [copies EXCEPT ![c] = "available"]
  /\ UNCHANGED <<books, members, emails, loans, now, session, barred>>

Tick ==
  /\ now < MaxTime
  /\ now' = now + 1
  /\ UNCHANGED <<tables, session, barred>>

-----------------------------------------------------------------------------

\* The next statement of the request that w is serving.
Serve(w) ==
  \/ BorrowReadMember(w) \/ BorrowLockCopy(w) \/ BorrowLockAvailable(w)
  \/ BorrowFlush(w) \/ BorrowParent(w) \/ CommitBorrow(w)
  \/ ReturnLockLoan(w) \/ ReturnLockCopy(w) \/ CommitReturn(w)
  \/ UpdateCopyLock(w) \/ UpdateCopyCheck(w) \/ CommitUpdateCopy(w)
  \/ UpdateMemberLock(w) \/ UpdateMemberKey(w) \/ CommitUpdateMember(w)

Accept(w) ==
  \/ BorrowBegin(w) \/ ReturnBegin(w) \/ UpdateCopyBegin(w) \/ UpdateMemberRead(w)

\* The transactions whose end the next statement of w waits for.
WaitsFor(w) ==
  {v \in Workers \ {w} :
     \/ pc[w] \in {"b_copy", "c_lock"} /\ held[v] # None /\ held[v] = req[w].copy
     \/ pc[w] = "b_flush" /\ pc[v] \in {"b_parent", "b_commit"} /\ row[v].copy = held[w]
     \/ pc[w] = "b_parent" /\ Updates(v, req[w].member) /\ Rekeys(v)
     \/ pc[w] = "r_loan" /\ LocksLoan(v, req[w].loan)
     \/ pc[w] = "r_copy" /\ held[v] = row[w].copy
     \/ pc[w] = "c_check" /\ v \in LookupWaits(w)
     \/ pc[w] = "m_lock" /\ \/ Updates(v, req[w].member)
                            \/ Rekeys(w) /\ Lends(v, req[w].member)
     \/ pc[w] = "m_key" /\ Disputes(v, req[w].email)}

\* w waits, through others, for itself: no others that it waits for do without it.
InCycle(w) ==
  ~ \E others \in SUBSET (Workers \ {w}) :
      WaitsFor(w) \subseteq others /\ \A v \in others : WaitsFor(v) \subseteq others

\* After deadlock_timeout PostgreSQL ends one of them with an OperationalError.
DeadlockDetected(w) == InCycle(w) /\ Rollback(w, "INTERNAL")

Next ==
  \/ \E w \in Workers : Accept(w) \/ Serve(w) \/ Abort(w) \/ DeadlockDetected(w)
  \/ \E b \in BookIds : CreateBook(b)
  \/ \E m \in MemberIds : CreateMember(m)
  \/ \E c \in CopyIds : AddCopy(c)
  \/ Tick

Spec == Init /\ [][Next]_vars

\* A worker thread goes on with its request, PostgreSQL grants a row lock in the
\* order of arrival, so that a waiter is not passed over for ever, and it looks for
\* a deadlock when a wait lasts.
FairSpec ==
  /\ Spec
  /\ \A w \in Workers : SF_vars(Serve(w))
  /\ WF_vars(\E w \in Workers : DeadlockDetected(w))
-----------------------------------------------------------------------------
(* Properties *)

Processing == BorrowPCs \cup ReturnPCs \cup CopyPCs \cup MemberPCs

Requests == BorrowRequests \cup ReturnRequests \cup UpdateCopyRequests
              \cup UpdateMemberRequests \cup {None}

\* A worker serves a request of the kind its next statement belongs to.
RequestTyped(w) ==
  /\ pc[w] \in BorrowPCs => req[w] \in BorrowRequests
  /\ pc[w] \in ReturnPCs => req[w] \in ReturnRequests
  /\ pc[w] \in CopyPCs   => req[w] \in UpdateCopyRequests
  /\ pc[w] \in MemberPCs => req[w] \in UpdateMemberRequests

\* Every column holds a value of its enumeration (UpdateCopy never stores the
\* "unchanged" it was asked for), and every worker is at a statement of its request.
TypeOK ==
  /\ books \subseteq BookIds
  /\ members \in [MemberIds -> MemberStatus \cup {"absent"}]
  /\ emails \in [MemberIds -> Emails \cup {None}]
  /\ copies \in [CopyIds -> CopyStatus \cup {"absent"}]
  /\ loans \subseteq LoanRow
  /\ now \in Nat
  /\ pc \in [Workers -> {"ready"} \cup Processing]
  /\ req \in [Workers -> Requests] /\ \A w \in Workers : RequestTyped(w)
  /\ held \in [Workers -> CopyIds \cup {None}]
  /\ row \in [Workers -> LoanRow \cup {None}]
  /\ barred \subseteq Workers

\* A copy with an open loan is ON_LOAN in the committed tables, whatever borrows,
\* returns and status changes of it interleave (books/service.py: "you cannot
\* move a copy off ON_LOAN while an open loan row still exists").
OpenLoanIsOnLoan == \A r \in loans : Open(r) => copies[r.copy] = "on_loan"

\* r was back before s went out.
Precedes(r, s) == ~Open(r) /\ r.returned <= s.borrowed

\* The loans of one copy do not overlap in time: no two are open at once, and
\* a borrow never reads a clock older than the return it follows.
LoanPeriodsDisjoint ==
  \A r, s \in loans : r # s /\ r.copy = s.copy => Precedes(r, s) \/ Precedes(s, r)

\* The row locks alone keep borrows of a copy apart: the unique index, "the
\* database backstop against double-borrow races", never has a row to refuse.
BackstopUnused ==
  \A w \in Workers :
    pc[w] = "b_flush" => ~OpenLoan(held[w]) /\ \A r \in Pending(w) : r.copy # held[w]

\* A borrow for a member that was not ACTIVE at any moment since the request
\* arrived does not get past the member check, so it never lends.
SuspendedRefused ==
  \A w \in barred : pc[w] \notin {"b_copy", "b_flush", "b_parent", "b_commit"}

\* Rows of loans are never deleted, and once returned they never change: the
\* fine and the return time of a loan are settled once.
ClosedLoansFinal ==
  [][\A r \in loans : \E s \in loans' :
        IF Open(r) THEN s.id = r.id /\ s.borrowed = r.borrowed ELSE s = r]_vars

\* What a loan has cost in the end: nothing when it came back in time, or else the
\* rate for every day that was started after it fell due.
FineIsDue(r) ==
  IF Open(r) \/ r.returned <= DueAt(r)
  THEN r.fine = 0
  ELSE \E days \in 1 .. r.returned - DueAt(r) :
         /\ r.fine = days * FineCentsPerDay
         /\ (days - 1) * TicksPerDay < r.returned - DueAt(r)
         /\ r.returned - DueAt(r) <= days * TicksPerDay

\* Every fine on record is the one for the return time on record, with "each started
\* day late" counted once, whatever else was going on (lending/service.py).
FinesSettled == \A r \in loans : FineIsDue(r)

\* Requests wait for each other in a cycle only when all of them are giving their
\* members e-mails that others of them are giving up.  However long the chain (a
\* return for the copy of a borrow, the borrow for the e-mail change of its member,
\* that for the e-mail of another member), nobody in it comes to wait for a loan or a
\* copy that is held behind him.
OnlyExchangesDeadlock ==
  \A w \in Workers : InCycle(w) =>
    /\ pc[w] = "m_key"
    /\ \E v \in Workers \ {w} :
         InCycle(v) /\ pc[v] = "m_key" /\ req[w].email = emails[req[v].member]

\* Every request is answered, although it may queue for the lock of a copy
\* that other requests keep taking.
EveryRequestAnswered == \A w \in Workers : Running(w) ~> ~Running(w)

\* A loan is not committed to a member who is suspended at that moment
\* (models/member.py: "SUSPENDED blocks new loans").
LoanOnlyToActive ==
  [][\A r \in loans' \ loans :
       (\A s \in loans : s.id # r.id) => members[r.member] = "active"]_vars

\* A copy that is ON_LOAN to nobody got there in one way, the commit of an
\* UpdateCopy to ON_LOAN: no borrow, return, abort or other edit, nor any order of
\* them, leaves one behind (the status is "kept consistent with the loan state").
Orphan(c) == copies[c] = "on_loan" /\ ~OpenLoan(c)

OrphansAreMadeByHand ==
  [][\A c \in CopyIds : Orphan(c)' /\ ~Orphan(c) =>
       \E w \in Workers :
         pc[w] = "c_commit" /\ held[w] = c /\ req[w].status = "on_loan"]_vars

\* The committed tables and the clock, and nothing else, are the abstract state.
Abs == INSTANCE LendingAbs

\* Every commit is one step of the service that serves one request at a time: no
\* interleaving of requests can be read off the tables.
Serial == Abs!Spec
=============================================================================
