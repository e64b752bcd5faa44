-------------------------- MODULE LendingProofs --------------------------
(***************************************************************************)
(* The safety of Lending for any number of workers, members, copies and    *)
(* loans.  IInv is inductive; the rest follows from it.                    *)
(***************************************************************************)
EXTENDS Lending, FiniteSetTheorems, WellFoundedInduction, TLAPS

HoldingPCs   == {"b_flush", "b_parent", "b_commit", "r_commit", "c_check", "c_commit"}
LentPCs      == {"b_parent", "b_commit"}
WritingPCs   == {"b_parent", "b_commit", "r_copy", "r_commit"}
ReturningPCs == {"r_copy", "r_commit"}

\* Keys are unique and no time lies in the future.
LoanInv ==
  /\ \A r, s \in loans : r.id = s.id => r = s
  /\ \A r \in loans : r.borrowed <= now
  /\ \A r \in loans : ~Open(r) => r.borrowed <= r.returned /\ r.returned <= now

\* Locks and private rows exist exactly while the code that uses them runs.
SessionInv(w) ==
  /\ held[w] # None <=> pc[w] \in HoldingPCs
  /\ pc[w] \in WritingPCs => row[w] \in LoanRow

\* A borrow past the lock has its copy on the shelf with no open loan, and the
\* row it is about to commit follows every loan of the copy.
BorrowInv(w) ==
  /\ pc[w] \in {"b_copy", "b_flush"} \cup LentPCs => members[req[w].member] # "absent"
  /\ pc[w] \in {"b_flush"} \cup LentPCs =>
       copies[held[w]] = "available" /\ ~OpenLoan(held[w])
  /\ pc[w] \in LentPCs =>
       /\ row[w].copy = held[w] /\ row[w].member = req[w].member
       /\ Open(row[w]) /\ row[w].fine = 0 /\ row[w].borrowed <= now
       /\ \A r \in loans : r.id # row[w].id
       /\ \A r \in loans : r.copy = held[w] => Precedes(r, row[w])

\* row closes the open loan r at some time since it went out.
Closes(x, r) == Open(r) /\ \E t \in r.borrowed .. now : x = Returned(r, t)

\* A return past the lock of its loan finds it open in the table to the end.
ReturnInv(w) ==
  /\ pc[w] \in ReturningPCs => \E r \in loans : Closes(row[w], r)
  /\ pc[w] = "r_commit" => held[w] = row[w].copy

\* An update past its check relies on what the check saw.
StaffInv(w) ==
  /\ pc[w] \in {"c_check", "c_commit"} => copies[held[w]] # "absent"
  /\ pc[w] = "c_commit" /\ req[w].status \notin {None, "on_loan"} => ~OpenLoan(held[w])
  /\ pc[w] \in MemberPCs => members[req[w].member] # "absent"

\* A barred borrow has not been past the member check and cannot pass it now.
BarredInv(w) ==
  w \in barred => pc[w] = "b_member" /\ members[req[w].member] # "active"

\* No two workers hold one copy, insert one id, or return one loan.
Apart(v, w) ==
  /\ held[v] # None => held[v] # held[w]
  /\ pc[v] \in LentPCs /\ pc[w] \in LentPCs => row[v].id # row[w].id
  /\ pc[v] \in ReturningPCs /\ pc[w] \in ReturningPCs => row[v].id # row[w].id

TableInv     == LoanInv /\ OpenLoanIsOnLoan /\ LoanPeriodsDisjoint
WorkerInv(w) == SessionInv(w) /\ BorrowInv(w) /\ ReturnInv(w) /\ StaffInv(w) /\ BarredInv(w)

IInv == /\ TypeOK
        /\ TableInv
        /\ \A w \in Workers : WorkerInv(w)
        /\ \A v, w \in Workers : v # w => Apart(v, w)

-----------------------------------------------------------------------------
(* The billing rule of Fines, for days of any length and any rate *)

\* a \div b is the whole number of times b goes into a.
LEMMA DivBounds ==
  ASSUME NEW a \in Nat, NEW b \in Nat \ {0}
  PROVE  (a \div b) \in Nat /\ (a \div b) * b <= a /\ a < ((a \div b) + 1) * b
OBVIOUS

\* math.ceil: enough days, and not one too many.
LEMMA CeilDaysBounds ==
  ASSUME NEW n \in Nat \ {0}
  PROVE  /\ CeilDays(n) \in Nat \ {0}
         /\ (CeilDays(n) - 1) * TicksPerDay < n
         /\ n <= CeilDays(n) * TicksPerDay
<1> DEFINE q == (n + TicksPerDay - 1) \div TicksPerDay
<1>1. n + TicksPerDay - 1 \in Nat /\ TicksPerDay \in Nat \ {0}
  BY FineAssumption
<1>2. q \in Nat /\ q * TicksPerDay <= n + TicksPerDay - 1 /\ n + TicksPerDay - 1 < (q + 1) * TicksPerDay
  BY <1>1, DivBounds
<1> HIDE DEF q
<1>3. /\ (q + 1) * TicksPerDay = q * TicksPerDay + TicksPerDay
      /\ (q - 1) * TicksPerDay = q * TicksPerDay - TicksPerDay
      /\ q * TicksPerDay \in Nat
  BY <1>1, <1>2
<1>4. q # 0
  BY <1>1, <1>2
<1>5. CeilDays(n) = q
  BY DEF CeilDays, q
<1>6. QED
  BY <1>1, <1>2, <1>3, <1>4, <1>5

\* A late return pays for exactly the days that were started: one day fewer
\* would not cover the delay, one day more is not charged.
THEOREM FineCoversDelay ==
  \A due, t \in Nat : t > due =>
    \E days \in Nat \ {0} : /\ ComputeFine(due, t) = days * FineCentsPerDay
                            /\ (days - 1) * TicksPerDay < t - due
                            /\ t - due <= days * TicksPerDay
<1>1. SUFFICES ASSUME NEW due \in Nat, NEW t \in Nat, t > due
               PROVE  \E days \in Nat \ {0} : /\ ComputeFine(due, t) = days * FineCentsPerDay
                                              /\ (days - 1) * TicksPerDay < t - due
                                              /\ t - due <= days * TicksPerDay
  OBVIOUS
<1>2. t - due \in Nat \ {0}
  BY <1>1
<1>3. ComputeFine(due, t) = CeilDays(t - due) * FineCentsPerDay
  BY <1>1 DEF ComputeFine
<1>4. QED
  BY <1>2, <1>3, CeilDaysBounds

\* Fewer ticks of delay never start more days.
LEMMA CeilDaysMonotone ==
  ASSUME NEW m \in Nat \ {0}, NEW n \in Nat \ {0}, m <= n
  PROVE  CeilDays(m) <= CeilDays(n)
<1> DEFINE a == CeilDays(m)
           b == CeilDays(n)
<1>1. a \in Nat /\ b \in Nat /\ (a - 1) * TicksPerDay < m /\ n <= b * TicksPerDay
  BY CeilDaysBounds
<1> HIDE DEF a, b
<1>2. TicksPerDay \in Nat /\ (a - 1) * TicksPerDay < b * TicksPerDay
  BY <1>1, FineAssumption
<1>3. b <= a - 1 => b * TicksPerDay <= (a - 1) * TicksPerDay
  BY <1>1, <1>2
<1>4. a <= b
  BY <1>1, <1>2, <1>3
<1>5. QED
  BY <1>4 DEF a, b

\* A later return never costs less.
THEOREM FineMonotone ==
  \A due, t, u \in Nat : t <= u => ComputeFine(due, t) <= ComputeFine(due, u)
<1>1. SUFFICES ASSUME NEW due \in Nat, NEW t \in Nat, NEW u \in Nat, t <= u
               PROVE  ComputeFine(due, t) <= ComputeFine(due, u)
  OBVIOUS
<1>2. CASE u <= due
  BY <1>1, <1>2 DEF ComputeFine
<1>3. CASE t <= due /\ due < u
  <2>1. u - due \in Nat \ {0}
    BY <1>3
  <2>2. CeilDays(u - due) \in Nat
    BY <2>1, CeilDaysBounds
  <2>3. CeilDays(u - due) * FineCentsPerDay >= 0
    BY <2>2, FineAssumption
  <2>4. QED
    BY <1>1, <1>3, <2>3 DEF ComputeFine
<1>4. CASE due < t
  <2>1. t - due \in Nat \ {0} /\ u - due \in Nat \ {0} /\ t - due <= u - due
    BY <1>1, <1>4
  <2>2. /\ CeilDays(t - due) \in Nat /\ CeilDays(u - due) \in Nat
        /\ CeilDays(t - due) <= CeilDays(u - due)
    BY <2>1, CeilDaysBounds, CeilDaysMonotone
  <2>3. CeilDays(t - due) * FineCentsPerDay <= CeilDays(u - due) * FineCentsPerDay
    BY <2>2, FineAssumption
  <2>4. QED
    BY <1>1, <1>4, <2>3 DEF ComputeFine
<1>5. QED
  BY <1>1, <1>2, <1>3, <1>4

-----------------------------------------------------------------------------
(* What a step leaves alone *)

\* _compute_fine gives a number of cents.
LEMMA FineType ==
  ASSUME NEW due \in Nat, NEW t \in Nat
  PROVE  ComputeFine(due, t) \in Nat
BY FineAssumption DEF ComputeFine, CeilDays

\* What a return writes into the row of its loan, and what it leaves.
LEMMA ReturnedFacts ==
  ASSUME NEW r \in LoanRow, NEW t \in Nat
  PROVE  /\ Returned(r, t) \in LoanRow
         /\ Returned(r, t).id = r.id /\ Returned(r, t).copy = r.copy
         /\ Returned(r, t).borrowed = r.borrowed /\ Returned(r, t).returned = t
         /\ ~Open(Returned(r, t))
<1>1. DueAt(r) \in Nat
  BY LendingAssumption DEF LoanRow, DueAt
<1>2. ComputeFine(DueAt(r), t) \in Nat
  BY <1>1, FineType
<1>3. QED
  BY <1>2, LendingAssumption DEF Returned, LoanRow, Open

\* The session of v is not touched by a step.
Untouched(v) == /\ pc'[v] = pc[v] /\ req'[v] = req[v] /\ held'[v] = held[v]
                /\ row'[v] = row[v] /\ (v \in barred' => v \in barred)

\* What v relies on survives a step of somebody else that keeps the rows v has
\* locked, and neither deletes a member nor activates one v is barred for.
LEMMA OtherWorker ==
  ASSUME NEW v \in Workers, TypeOK, WorkerInv(v), Untouched(v), now' >= now, now' \in Nat,
         \A m \in MemberIds : members[m] # "absent" => members'[m] # "absent",
         v \in barred' => members'[req[v].member] # "active",
         held[v] # None => /\ copies'[held[v]] = copies[held[v]]
                           /\ \A r \in loans' : r.copy = held[v] => r \in loans,
         pc[v] \in LentPCs => \A r \in loans' : r.id # row[v].id,
         pc[v] \in ReturningPCs => \A r \in loans : r.id = row[v].id => r \in loans'
  PROVE  WorkerInv(v)'
<1>1. SessionInv(v)'
  BY DEF WorkerInv, SessionInv, Untouched
<1>2. BorrowInv(v)'
  <2>1. pc[v] \in {"b_copy", "b_flush"} \cup LentPCs => req[v].member \in MemberIds
    BY DEF TypeOK, RequestTyped, BorrowPCs, LentPCs, BorrowRequests
  <2>2. pc[v] \in LentPCs => row[v] \in LoanRow /\ row[v].borrowed <= now'
    BY LendingAssumption DEF TypeOK, WorkerInv, SessionInv, BorrowInv, WritingPCs, LentPCs, LoanRow
  <2>3. pc[v] \in {"b_flush"} \cup LentPCs => held[v] # None
    BY DEF WorkerInv, SessionInv, HoldingPCs, LentPCs
  <2>4. QED
    BY <2>1, <2>2, <2>3 DEF WorkerInv, BorrowInv, LentPCs, Untouched, OpenLoan, Open, Precedes
<1>3. ReturnInv(v)'
  <2>1. ASSUME pc[v] \in ReturningPCs
        PROVE  \E r \in loans' : Closes(row[v], r)'
    <3>1. PICK r \in loans : Closes(row[v], r)
      BY <2>1 DEF WorkerInv, ReturnInv
    <3>2. PICK t \in r.borrowed .. now : row[v] = Returned(r, t)
      BY <3>1 DEF Closes
    <3>3. r \in LoanRow /\ t \in Nat
      BY <3>2 DEF TypeOK, LoanRow
    <3>4. r \in loans'
      BY <2>1, <3>2, <3>3, ReturnedFacts
    <3>5. t \in r.borrowed .. now'
      BY <3>2, <3>3 DEF TypeOK, LoanRow
    <3>6. QED
      BY <3>1, <3>2, <3>4, <3>5 DEF Closes, Untouched, Open, Returned, DueAt
  <2>2. QED
    BY <2>1 DEF WorkerInv, ReturnInv, Untouched
<1>4. StaffInv(v)'
  <2>1. pc[v] \in MemberPCs => req[v].member \in MemberIds
    BY DEF TypeOK, RequestTyped, MemberPCs, UpdateMemberRequests
  <2>2. QED
    BY <2>1 DEF WorkerInv, SessionInv, StaffInv, Untouched, OpenLoan, Open, HoldingPCs
<1>5. BarredInv(v)'
  BY DEF WorkerInv, BarredInv, Untouched
<1>6. QED
  BY <1>1, <1>2, <1>3, <1>4, <1>5 DEF WorkerInv

\* What holds of the tables holds while nobody writes them and time goes on.
LEMMA TablesKept ==
  ASSUME TableInv, UNCHANGED <<copies, loans, now>>
  PROVE  TableInv'
BY DEF TableInv, LoanInv, OpenLoanIsOnLoan, LoanPeriodsDisjoint, Open, Precedes

\* Two workers whose sessions stay as they are stay apart.
LEMMA ApartKept ==
  ASSUME NEW u \in Workers, NEW v \in Workers, Apart(u, v), Untouched(u), Untouched(v)
  PROVE  Apart(u, v)'
BY DEF Apart, Untouched

\* A step that changes only the session of w keeps the invariant when w's own
\* part of it holds afterwards.
LEMMA SessionStep ==
  ASSUME IInv, NEW w \in Workers, UNCHANGED <<tables, now>>,
         \A v \in Workers \ {w} : Untouched(v),
         TypeOK', WorkerInv(w)', \A v \in Workers \ {w} : Apart(v, w)' /\ Apart(w, v)'
  PROVE  IInv'
<1>1. TableInv'
  BY TablesKept DEF IInv, tables
<1>2. ASSUME NEW v \in Workers
      PROVE  WorkerInv(v)'
  <2>1. CASE v = w
    BY <2>1
  <2>2. CASE v # w
    <3>1. Untouched(v) /\ WorkerInv(v) /\ TypeOK /\ v \in Workers
      BY <2>2 DEF IInv
    <3>2. v \in barred' => members'[req[v].member] # "active"
      BY <3>1 DEF WorkerInv, BarredInv, Untouched, tables
    <3>3. now' >= now /\ now' \in Nat
      BY <3>1 DEF TypeOK
    <3>4. pc[v] \in LentPCs => \A r \in loans' : r.id # row[v].id
      BY <3>1 DEF WorkerInv, BorrowInv, tables
    <3>5. QED
      BY <3>1, <3>2, <3>3, <3>4, OtherWorker DEF tables
  <2>3. QED
    BY <2>1, <2>2
<1>3. ASSUME NEW u \in Workers, NEW v \in Workers, u # v
      PROVE  Apart(u, v)'
  <2>1. CASE u = w \/ v = w
    BY <2>1, <1>3
  <2>2. CASE u # w /\ v # w
    BY <2>2, <1>3, ApartKept DEF IInv
  <2>3. QED
    BY <2>1, <2>2
<1>4. QED
  BY <1>1, <1>2, <1>3 DEF IInv

\* An exception leaves unit_of_work() without a write.
LEMMA RollbackStep ==
  ASSUME IInv, NEW w \in Workers, NEW error, Rollback(w, error)
  PROVE  IInv'
<1>1. TypeOK'
  BY DEF IInv, TypeOK, Rollback, Close, tables, RequestTyped,
         Requests, BorrowPCs, ReturnPCs, CopyPCs, MemberPCs
<1>2. pc'[w] = "ready" /\ held'[w] = None /\ row'[w] = None /\ w \notin barred'
  BY DEF IInv, TypeOK, Rollback, Close
<1>3. WorkerInv(w)'
  BY <1>2 DEF WorkerInv, SessionInv, BorrowInv, ReturnInv, StaffInv, BarredInv,
              HoldingPCs, WritingPCs, LentPCs, ReturningPCs, MemberPCs
<1>4. ASSUME NEW v \in Workers \ {w}
      PROVE  Untouched(v) /\ Apart(v, w)' /\ Apart(w, v)'
  BY <1>2 DEF IInv, TypeOK, Rollback, Close, Untouched, Apart, LentPCs, ReturningPCs
<1>5. QED
  BY <1>1, <1>3, <1>4, SessionStep DEF Rollback

\* A handler is called.
LEMMA BeginStep ==
  ASSUME IInv, NEW w \in Workers, Accept(w)
  PROVE  IInv'
<1>1. PICK r, first :
        /\ Begin(w, r, first)
        /\ \/ /\ first = "b_member" /\ r \in BorrowRequests
              /\ barred' = IF members[r.member] = "active" THEN barred ELSE barred \cup {w}
           \/ first = "r_loan" /\ r \in ReturnRequests /\ barred' = barred
           \/ first = "c_lock" /\ r \in UpdateCopyRequests /\ barred' = barred
           \/ /\ first = "m_lock" /\ r \in UpdateMemberRequests /\ barred' = barred
              /\ members[r.member] # "absent"
  <2>1. CASE BorrowBegin(w)
    BY <2>1 DEF BorrowBegin
  <2>2. CASE ReturnBegin(w)
    BY <2>2 DEF ReturnBegin
  <2>3. CASE UpdateCopyBegin(w)
    BY <2>3 DEF UpdateCopyBegin
  <2>4. CASE UpdateMemberRead(w)
    <3>1. PICK m \in MemberIds, email \in Emails, status \in MemberStatus \cup {None} :
            /\ members[m] # "absent"
            /\ Begin(w, [member |-> m, email |-> Differs(email, emails[m]),
                         status |-> Differs(status, members[m])], "m_lock")
      BY <2>4 DEF UpdateMemberRead
    <3>2. [member |-> m, email |-> Differs(email, emails[m]),
           status |-> Differs(status, members[m])] \in UpdateMemberRequests
      BY DEF UpdateMemberRequests, Differs
    <3>3. QED
      BY <2>4, <3>1, <3>2 DEF UpdateMemberRead
  <2>5. QED
    BY <2>1, <2>2, <2>3, <2>4 DEF Accept
<1>2. pc'[w] = first /\ req'[w] = r /\ held'[w] = None
  BY <1>1 DEF IInv, TypeOK, WorkerInv, SessionInv, Begin, Running, HoldingPCs, WritingPCs
<1>3. w \notin barred /\ barred' \in {barred, barred \cup {w}}
  BY <1>1 DEF IInv, WorkerInv, BarredInv, Begin, Running
<1>4. w \in barred' => first = "b_member" /\ members[r.member] # "active"
  BY <1>1, <1>3
<1>5. TypeOK'
  <2>1. r \in Requests /\ first \in Processing
    BY <1>1 DEF Requests, Processing, BorrowPCs, ReturnPCs, CopyPCs, MemberPCs
  <2>2. RequestTyped(w)'
    BY <1>1, <1>2 DEF RequestTyped, BorrowPCs, ReturnPCs, CopyPCs, MemberPCs
  <2>3. QED
    BY <1>1, <1>3, <2>1, <2>2 DEF IInv, TypeOK, Begin, tables, RequestTyped
<1>6. WorkerInv(w)'
  BY <1>1, <1>2, <1>4 DEF WorkerInv, SessionInv, BorrowInv, ReturnInv, StaffInv, BarredInv,
              HoldingPCs, WritingPCs, LentPCs, ReturningPCs, MemberPCs, Begin, tables
<1>7. ASSUME NEW v \in Workers \ {w}
      PROVE  Untouched(v) /\ Apart(v, w)' /\ Apart(w, v)'
  BY <1>1, <1>2, <1>3 DEF IInv, TypeOK, Begin, Untouched, Apart, LentPCs, ReturningPCs
<1>8. QED
  BY <1>1, <1>5, <1>6, <1>7, SessionStep DEF Begin
-----------------------------------------------------------------------------
(* Statements before the commit *)

\* w moves on to a statement of the same request and writes nothing.
LEMMA GotoStep ==
  ASSUME IInv, NEW w \in Workers, NEW label \in Processing,
         label \in WritingPCs => label = "b_commit" /\ pc[w] = "b_parent",
         Goto(w, label), UNCHANGED <<tables, now, req, held, row, barred>>,
         RequestTyped(w)', WorkerInv(w)'
  PROVE  IInv'
<1>1. pc'[w] = label
  BY DEF IInv, TypeOK, Goto
<1>2. TypeOK'
  BY DEF IInv, TypeOK, Goto, tables, RequestTyped, Processing
<1>3. ASSUME NEW v \in Workers \ {w}
      PROVE  Untouched(v) /\ Apart(v, w)' /\ Apart(w, v)'
  BY <1>1 DEF IInv, TypeOK, Goto, Untouched, Apart, WritingPCs, LentPCs, ReturningPCs
<1>4. QED
  BY <1>2, <1>3, SessionStep

\* borrow_book reads the member.
LEMMA BorrowReadMemberStep ==
  ASSUME IInv, NEW w \in Workers, BorrowReadMember(w)
  PROVE  IInv'
<1>1. CASE \E error : Rollback(w, error)
  BY <1>1, RollbackStep
<1>2. CASE /\ members[req[w].member] = "active"
           /\ Goto(w, "b_copy")
           /\ UNCHANGED <<tables, now, req, held, row, barred>>
  <2>1. pc[w] = "b_member" /\ pc'[w] = "b_copy"
    BY <1>2 DEF BorrowReadMember, IInv, TypeOK, Goto
  <2>2. RequestTyped(w)'
    BY <1>2, <2>1 DEF IInv, TypeOK, RequestTyped, BorrowPCs, ReturnPCs, CopyPCs, MemberPCs
  <2>3. WorkerInv(w)'
    BY <1>2, <2>1 DEF IInv, WorkerInv, SessionInv, BorrowInv, ReturnInv, StaffInv, BarredInv,
                      HoldingPCs, WritingPCs, LentPCs, ReturningPCs, MemberPCs, tables
  <2>4. QED
    BY <1>2, <2>2, <2>3, GotoStep DEF Processing, BorrowPCs, WritingPCs
<1>3. QED
  BY <1>1, <1>2 DEF BorrowReadMember

\* Locking copy c for a statement of the request: nobody else holds c, and the
\* rest of the session stays.
LEMMA LockStep ==
  ASSUME IInv, NEW w \in Workers, NEW c \in CopyIds, CopyFree(w, c),
         NEW label \in HoldingPCs \ LentPCs,
         pc[w] \in ReturningPCs \/ label # "r_commit",
         held' = [held EXCEPT ![w] = c], Goto(w, label),
         UNCHANGED <<tables, now, req, row, barred>>,
         RequestTyped(w)', WorkerInv(w)'
  PROVE  IInv'
<1>1. pc'[w] = label /\ held'[w] = c /\ c # None
  BY LendingAssumption DEF IInv, TypeOK, Goto
<1>2. TypeOK'
  BY DEF IInv, TypeOK, Goto, tables, RequestTyped, Processing, HoldingPCs,
         BorrowPCs, ReturnPCs, CopyPCs
<1>3. ASSUME NEW v \in Workers \ {w}
      PROVE  Untouched(v) /\ Apart(v, w)' /\ Apart(w, v)'
  BY <1>1 DEF IInv, TypeOK, Goto, Untouched, Apart, CopyFree, HoldingPCs, ReturningPCs
<1>4. QED
  BY <1>2, <1>3, SessionStep

\* A borrow has locked a copy that is AVAILABLE.
LEMMA ClaimStep ==
  ASSUME IInv, NEW w \in Workers, NEW c \in CopyIds,
         pc[w] = "b_copy", copies[c] = "available", CopyFree(w, c), Claim(w, c)
  PROVE  IInv'
<1>1. pc'[w] = "b_flush" /\ held'[w] = c /\ c # None
  BY LendingAssumption DEF IInv, TypeOK, Claim, Goto
<1>2. RequestTyped(w)'
  BY <1>1 DEF IInv, TypeOK, RequestTyped, BorrowPCs, ReturnPCs, CopyPCs, MemberPCs, Claim
<1>3. ~OpenLoan(c)
  BY DEF IInv, TableInv, OpenLoanIsOnLoan, OpenLoan
<1>4. WorkerInv(w)'
  BY <1>1, <1>3 DEF IInv, WorkerInv, SessionInv, BorrowInv, ReturnInv, StaffInv, BarredInv,
              HoldingPCs, WritingPCs, LentPCs, ReturningPCs, MemberPCs, Claim, tables, OpenLoan, Open
<1>5. QED
  BY <1>2, <1>4, LockStep DEF Claim, HoldingPCs, LentPCs

\* borrow_book asks for its copy, or for any of the book.
LEMMA BorrowLockStep ==
  ASSUME IInv, NEW w \in Workers, BorrowLockCopy(w) \/ BorrowLockAvailable(w)
  PROVE  IInv'
<1>1. pc[w] = "b_copy"
  BY DEF BorrowLockCopy, BorrowLockAvailable
<1>2. req[w].copy # None => req[w].copy \in CopyIds
  BY <1>1 DEF IInv, TypeOK, RequestTyped, BorrowPCs, BorrowRequests
<1>3. CASE \E error : Rollback(w, error)
  BY <1>3, RollbackStep
<1>4. CASE \E c \in CopyIds : copies[c] = "available" /\ CopyFree(w, c) /\ Claim(w, c)
  BY <1>1, <1>4, ClaimStep
<1>5. QED
  BY <1>2, <1>3, <1>4 DEF BorrowLockCopy, BorrowLockAvailable, Lendable

\* The INSERT of a loan that follows every other loan of the copy.
LEMMA BorrowFlushStep ==
  ASSUME IInv, NEW w \in Workers, BorrowFlush(w)
  PROVE  IInv'
<1>1. CASE OpenLoan(held[w]) /\ Rollback(w, "FAILED_PRECONDITION")
  BY <1>1, RollbackStep
<1>2. CASE ~(OpenLoan(held[w]) /\ Rollback(w, "FAILED_PRECONDITION"))
  <2>1. pc[w] = "b_flush" /\ pc'[w] = "b_parent" /\ UNCHANGED <<tables, now, req, held, barred>>
    BY <1>2 DEF BorrowFlush, IInv, TypeOK, Goto
  <2>2. held[w] \in CopyIds /\ req[w] \in BorrowRequests /\ req[w].member \in MemberIds
    BY <2>1 DEF IInv, TypeOK, WorkerInv, SessionInv, HoldingPCs, RequestTyped,
                BorrowPCs, BorrowRequests
  <2>3. PICK id \in LoanIds \ UsedIds(w) :
          row' = [row EXCEPT ![w] = [id |-> id, copy |-> held[w], member |-> req[w].member,
                                     borrowed |-> now, returned |-> None, fine |-> 0]]
    BY <1>2 DEF BorrowFlush
  <2>4. row'[w] = [id |-> id, copy |-> held[w], member |-> req[w].member,
                   borrowed |-> now, returned |-> None, fine |-> 0]
    BY <2>3 DEF IInv, TypeOK
  <2>5. row'[w] \in LoanRow
    BY <2>2, <2>4, LendingAssumption DEF LoanRow, IInv, TypeOK, Open
  <2>6. TypeOK'
    BY <1>2, <2>1, <2>3, <2>4, <2>5 DEF BorrowFlush, Goto, IInv, TypeOK, tables, RequestTyped,
       Processing, BorrowPCs, ReturnPCs, CopyPCs, MemberPCs
  <2>7. WorkerInv(w)'
    <3>1. \A r \in loans : r.id # id
      BY <2>3 DEF UsedIds
    <3>2. \A r \in loans : r.copy = held[w] => ~Open(r) /\ r.returned <= now
      BY <2>1 DEF IInv, WorkerInv, BorrowInv, OpenLoan, TableInv, LoanInv
    <3>3. BorrowInv(w)'
      BY <2>1, <2>4, <3>1, <3>2 DEF IInv, TypeOK, WorkerInv, BorrowInv, LentPCs, tables, Open, OpenLoan, Precedes
    <3>4. QED
      BY <2>1, <2>5, <3>3 DEF IInv, WorkerInv, SessionInv, ReturnInv, StaffInv, BarredInv,
              HoldingPCs, WritingPCs, LentPCs, ReturningPCs, MemberPCs, tables
  <2>8. ASSUME NEW v \in Workers \ {w}
        PROVE  Untouched(v) /\ Apart(v, w)' /\ Apart(w, v)'
    <3>1. Untouched(v)
      BY <1>2, <2>1, <2>3 DEF BorrowFlush, IInv, TypeOK, Goto, Untouched
    <3>2. pc[v] \in LentPCs => row[v].id # id
      BY <2>3 DEF UsedIds, Pending, LentPCs
    <3>3. QED
      BY <2>1, <2>4, <3>1, <3>2 DEF IInv, Apart, Untouched, LentPCs, ReturningPCs
  <2>9. QED
    BY <2>1, <2>6, <2>7, <2>8, SessionStep
<1>3. QED
  BY <1>1, <1>2

\* The foreign key check of the INSERT has share locked the member.
LEMMA BorrowParentStep ==
  ASSUME IInv, NEW w \in Workers, BorrowParent(w)
  PROVE  IInv'
<1>1. /\ pc[w] = "b_parent" /\ pc'[w] = "b_commit" /\ Goto(w, "b_commit")
      /\ UNCHANGED <<tables, now, req, held, row, barred>>
  BY DEF BorrowParent, IInv, TypeOK, Goto
<1>2. RequestTyped(w)'
  BY <1>1 DEF IInv, TypeOK, RequestTyped, BorrowPCs, ReturnPCs, CopyPCs, MemberPCs
<1>3. BorrowInv(w)'
  BY <1>1 DEF IInv, WorkerInv, BorrowInv, LentPCs, tables, OpenLoan, Open, Precedes
<1>4. WorkerInv(w)'
  BY <1>1, <1>3 DEF IInv, WorkerInv, SessionInv, ReturnInv, StaffInv, BarredInv,
              HoldingPCs, WritingPCs, LentPCs, ReturningPCs, MemberPCs, tables
<1>5. QED
  BY <1>1, <1>2, <1>4, GotoStep DEF Processing, BorrowPCs

\* return_book has locked its loan and finds it open, or gives up.
LEMMA ReturnLockLoanStep ==
  ASSUME IInv, NEW w \in Workers, ReturnLockLoan(w)
  PROVE  IInv'
<1>1. CASE \E error : Rollback(w, error)
  BY <1>1, RollbackStep
<1>2. ASSUME NEW r \in loans, r.id = req[w].loan, LoanFree(w, req[w].loan), Open(r), TakeBack(w, r)
      PROVE  IInv'
  <2>1. /\ pc[w] = "r_loan" /\ pc'[w] = "r_copy" /\ row'[w] = Returned(r, now)
        /\ UNCHANGED <<tables, now, req, held, barred>>
    BY <1>2 DEF ReturnLockLoan, TakeBack, IInv, TypeOK, Goto
  <2>2. r \in LoanRow /\ now \in Nat /\ r.borrowed <= now /\ r.borrowed \in Nat
    BY DEF IInv, TypeOK, TableInv, LoanInv, LoanRow
  <2>3. row'[w] \in LoanRow /\ row'[w].id = r.id
    BY <2>1, <2>2, ReturnedFacts
  <2>4. TypeOK'
    BY <1>2, <2>1, <2>3 DEF TakeBack, Goto, IInv, TypeOK, tables, RequestTyped,
       Processing, BorrowPCs, ReturnPCs, CopyPCs, MemberPCs
  <2>5. Closes(row[w], r)'
    <3>1. now \in r.borrowed .. now' /\ row'[w] = Returned(r, now)
      BY <2>1, <2>2 DEF tables
    <3>2. QED
      BY <1>2, <3>1 DEF Closes, Open, Returned, DueAt
  <2>6. WorkerInv(w)'
    BY <2>1, <2>3, <2>5 DEF IInv, WorkerInv, SessionInv, BorrowInv, ReturnInv, StaffInv, BarredInv,
              HoldingPCs, WritingPCs, LentPCs, ReturningPCs, MemberPCs, tables
  <2>7. ASSUME NEW v \in Workers \ {w}
        PROVE  Untouched(v) /\ Apart(v, w)' /\ Apart(w, v)'
    <3>1. Untouched(v)
      BY <1>2, <2>1 DEF TakeBack, IInv, TypeOK, Goto, Untouched
    <3>2. pc[v] \in ReturningPCs => row[v].id # r.id
      BY <1>2 DEF LoanFree, LocksLoan, ReturningPCs
    <3>3. held[w] = None
      BY <2>1 DEF IInv, WorkerInv, SessionInv, HoldingPCs
    <3>4. QED
      BY <2>1, <2>3, <3>1, <3>2, <3>3 DEF IInv, Apart, Untouched, ReturningPCs, LentPCs
  <2>8. QED
    BY <2>1, <2>4, <2>6, <2>7, SessionStep
<1>3. QED
  BY <1>1, <1>2 DEF ReturnLockLoan, LoansById

\* return_book has locked the copy of its loan.
LEMMA ReturnLockCopyStep ==
  ASSUME IInv, NEW w \in Workers, ReturnLockCopy(w)
  PROVE  IInv'
<1>1. pc[w] = "r_copy" /\ pc'[w] = "r_commit" /\ held'[w] = row[w].copy
  BY DEF ReturnLockCopy, IInv, TypeOK, Goto
<1>2. row[w] \in LoanRow /\ row[w].copy \in CopyIds /\ row[w].copy # None
  BY <1>1, LendingAssumption DEF IInv, TypeOK, WorkerInv, SessionInv, WritingPCs, LoanRow
<1>3. RequestTyped(w)'
  BY <1>1 DEF IInv, TypeOK, RequestTyped, BorrowPCs, ReturnPCs, CopyPCs, MemberPCs, ReturnLockCopy
<1>4. ReturnInv(w)'
  BY <1>1 DEF ReturnLockCopy, IInv, WorkerInv, ReturnInv, ReturningPCs, Closes, Open,
              Returned, DueAt, tables
<1>5. WorkerInv(w)'
  BY <1>1, <1>2, <1>4 DEF ReturnLockCopy, IInv, WorkerInv, SessionInv, BorrowInv, StaffInv, BarredInv,
              HoldingPCs, WritingPCs, LentPCs, MemberPCs, tables
<1>6. QED
  BY <1>1, <1>2, <1>3, <1>5, LockStep DEF ReturnLockCopy, HoldingPCs, ReturningPCs, LentPCs

\* update_copy has locked its copy.
LEMMA UpdateCopyLockStep ==
  ASSUME IInv, NEW w \in Workers, UpdateCopyLock(w)
  PROVE  IInv'
<1>1. CASE \E error : Rollback(w, error)
  BY <1>1, RollbackStep
<1>2. CASE /\ copies[req[w].copy] # "absent" /\ CopyFree(w, req[w].copy)
           /\ held' = [held EXCEPT ![w] = req[w].copy]
           /\ Goto(w, "c_check")
           /\ UNCHANGED <<tables, now, req, row, barred>>
  <2>1. pc[w] = "c_lock" /\ pc'[w] = "c_check" /\ held'[w] = req[w].copy
    BY <1>2 DEF UpdateCopyLock, IInv, TypeOK, Goto
  <2>2. req[w].copy \in CopyIds /\ req[w].copy # None
    BY <2>1, LendingAssumption DEF IInv, TypeOK, RequestTyped, CopyPCs, UpdateCopyRequests
  <2>3. RequestTyped(w)'
    BY <1>2, <2>1 DEF IInv, TypeOK, RequestTyped, BorrowPCs, ReturnPCs, CopyPCs, MemberPCs
  <2>4. WorkerInv(w)'
    BY <1>2, <2>1, <2>2 DEF IInv, WorkerInv, SessionInv, BorrowInv, ReturnInv, StaffInv, BarredInv,
              HoldingPCs, WritingPCs, LentPCs, ReturningPCs, MemberPCs, tables
  <2>5. QED
    BY <1>2, <2>2, <2>3, <2>4, LockStep DEF HoldingPCs, LentPCs, ReturningPCs
<1>3. QED
  BY <1>1, <1>2 DEF UpdateCopyLock

\* update_copy looks for an open loan.
LEMMA UpdateCopyCheckStep ==
  ASSUME IInv, NEW w \in Workers, UpdateCopyCheck(w)
  PROVE  IInv'
<1>1. CASE \E error : Rollback(w, error)
  BY <1>1, RollbackStep
<1>2. CASE /\ ~(req[w].status \notin {None, "on_loan"} /\ OpenLoan(held[w]))
           /\ Goto(w, "c_commit")
           /\ UNCHANGED <<tables, now, req, held, row, barred>>
  <2>1. pc[w] = "c_check" /\ pc'[w] = "c_commit"
    BY <1>2 DEF UpdateCopyCheck, IInv, TypeOK, Goto
  <2>2. RequestTyped(w)'
    BY <1>2, <2>1 DEF IInv, TypeOK, RequestTyped, BorrowPCs, ReturnPCs, CopyPCs, MemberPCs
  <2>3. WorkerInv(w)'
    BY <1>2, <2>1 DEF IInv, WorkerInv, SessionInv, BorrowInv, ReturnInv, StaffInv, BarredInv,
              HoldingPCs, WritingPCs, LentPCs, ReturningPCs, MemberPCs, tables, OpenLoan, Open
  <2>4. QED
    BY <1>2, <2>2, <2>3, GotoStep DEF Processing, CopyPCs, WritingPCs
<1>3. QED
  BY <1>1, <1>2 DEF UpdateCopyCheck

\* update_member has locked its row, or found the e-mail free, or gives up.
LEMMA UpdateMemberStep ==
  ASSUME IInv, NEW w \in Workers, UpdateMemberLock(w) \/ UpdateMemberKey(w)
  PROVE  IInv'
<1>1. CASE \E error : Rollback(w, error)
  BY <1>1, RollbackStep
<1>2. ASSUME NEW label \in {"m_key", "m_commit"}, Goto(w, label), pc[w] \in MemberPCs,
             UNCHANGED <<tables, now, req, held, row, barred>>
      PROVE  IInv'
  <2>1. pc'[w] = label
    BY <1>2 DEF IInv, TypeOK, Goto
  <2>2. RequestTyped(w)'
    BY <1>2, <2>1 DEF IInv, TypeOK, RequestTyped, BorrowPCs, ReturnPCs, CopyPCs, MemberPCs
  <2>3. WorkerInv(w)'
    BY <1>2, <2>1 DEF IInv, WorkerInv, SessionInv, BorrowInv, ReturnInv, StaffInv, BarredInv,
              HoldingPCs, WritingPCs, LentPCs, ReturningPCs, MemberPCs, tables
  <2>4. QED
    BY <1>2, <2>2, <2>3, GotoStep DEF Processing, MemberPCs, WritingPCs
<1>3. QED
  BY <1>1, <1>2 DEF UpdateMemberLock, UpdateMemberKey, MemberPCs
-----------------------------------------------------------------------------
(* Commits *)

\* The commit of w changes at most the copy it holds, adds at most its own row,
\* and replaces at most the loan it returns.
LEMMA CommitStep ==
  ASSUME IInv, NEW w \in Workers, Close(w), now' = now, TypeOK', TableInv', w \notin barred',
         \A v \in Workers \ {w} : v \in barred' =>
            v \in barred /\ members'[req[v].member] # "active",
         \A m \in MemberIds : members[m] # "absent" => members'[m] # "absent",
         \A c \in CopyIds : c # held[w] => copies'[c] = copies[c],
         \A r \in loans' : \/ r \in loans
                           \/ /\ pc[w] \in {"b_commit", "r_commit"}
                              /\ r = row[w] /\ r.copy = held[w],
         \A r \in loans : \/ r \in loans'
                          \/ pc[w] = "r_commit" /\ r.id = row[w].id
  PROVE  IInv'
<1>1. pc'[w] = "ready" /\ held'[w] = None
  BY DEF IInv, TypeOK, Close
<1>2. ASSUME NEW v \in Workers \ {w}
      PROVE  Untouched(v)
  BY DEF IInv, TypeOK, Close, Untouched
<1>3. WorkerInv(w)'
  BY <1>1 DEF WorkerInv, SessionInv, BorrowInv, ReturnInv, StaffInv, BarredInv,
              HoldingPCs, WritingPCs, LentPCs, ReturningPCs, MemberPCs
<1>4. pc[w] = "r_commit" => \E r \in loans : r.id = row[w].id
  <2>1. SUFFICES ASSUME pc[w] = "r_commit"
                 PROVE  \E r \in loans : r.id = row[w].id
    OBVIOUS
  <2>2. PICK r \in loans : Closes(row[w], r)
    BY <2>1 DEF IInv, WorkerInv, ReturnInv, ReturningPCs
  <2>3. PICK t \in r.borrowed .. now : row[w] = Returned(r, t)
    BY <2>2 DEF Closes
  <2>4. r \in LoanRow /\ t \in Nat
    BY <2>3 DEF IInv, TypeOK, LoanRow
  <2>5. QED
    BY <2>3, <2>4, ReturnedFacts
<1>5. ASSUME NEW v \in Workers \ {w}
      PROVE  WorkerInv(v)'
  <2>1. TypeOK /\ WorkerInv(v) /\ Untouched(v) /\ v # w /\ Apart(v, w)
    BY <1>2 DEF IInv
  <2>2. now' >= now /\ now' \in Nat
    BY <2>1 DEF TypeOK
  <2>3. held[v] # None => /\ copies'[held[v]] = copies[held[v]]
                          /\ \A r \in loans' : r.copy = held[v] => r \in loans
    BY <2>1 DEF Apart, TypeOK
  <2>4. pc[v] \in LentPCs => \A r \in loans' : r.id # row[v].id
    BY <1>4, <2>1 DEF Apart, WorkerInv, BorrowInv, LentPCs, ReturningPCs
  <2>5. pc[v] \in ReturningPCs => \A r \in loans : r.id = row[v].id => r \in loans'
    BY <2>1 DEF Apart, LentPCs, ReturningPCs
  <2>6. QED
    BY <2>1, <2>2, <2>3, <2>4, <2>5, OtherWorker
<1>6. ASSUME NEW u \in Workers, NEW v \in Workers, u # v
      PROVE  Apart(u, v)'
  <2>1. CASE u = w \/ v = w
    BY <1>1, <2>1, <1>6 DEF Apart, LentPCs, ReturningPCs
  <2>2. CASE u # w /\ v # w
    BY <1>2, <2>2, <1>6, ApartKept DEF IInv
  <2>3. QED
    BY <2>1, <2>2
<1>7. QED
  BY <1>3, <1>5, <1>6 DEF IInv

\* The acknowledgement of a COMMIT may come or be lost: the session is gone.
LEMMA CloseTypes ==
  ASSUME TypeOK, NEW w \in Workers, Close(w)
  PROVE  /\ (pc \in [Workers -> {"ready"} \cup Processing])'
         /\ (req \in [Workers -> Requests])'
         /\ \A v \in Workers : RequestTyped(v)'
         /\ (held \in [Workers -> CopyIds \cup {None}])'
         /\ (row \in [Workers -> LoanRow \cup {None}])'
BY DEF TypeOK, Close, Requests, RequestTyped,
       BorrowPCs, ReturnPCs, CopyPCs, MemberPCs

\* COMMIT of a borrow.
LEMMA CommitBorrowStep ==
  ASSUME IInv, NEW w \in Workers, CommitBorrow(w)
  PROVE  IInv'
<1> DEFINE c == held[w]
           x == row[w]
<1>1. TypeOK /\ WorkerInv(w) /\ TableInv /\ pc[w] = "b_commit"
  BY DEF IInv, CommitBorrow
<1>2. /\ c \in CopyIds /\ x \in LoanRow /\ x.copy = c /\ Open(x) /\ x.borrowed <= now
      /\ \A r \in loans : r.id # x.id
      /\ \A r \in loans : r.copy = c => Precedes(r, x)
  BY <1>1 DEF TypeOK, WorkerInv, SessionInv, BorrowInv, HoldingPCs, WritingPCs, LentPCs
<1>3. /\ loans' = loans \cup {x} /\ copies' = [copies EXCEPT ![c] = "on_loan"]
      /\ Close(w) /\ barred' = barred \ {w} /\ UNCHANGED <<books, members, emails, now>>
  BY DEF CommitBorrow
<1>4. TypeOK'
  BY <1>1, <1>2, <1>3, CloseTypes DEF TypeOK, CopyStatus
<1>5. LoanInv'
  BY <1>1, <1>2, <1>3 DEF TableInv, LoanInv, Open
<1>6. OpenLoanIsOnLoan'
  BY <1>1, <1>2, <1>3 DEF TableInv, OpenLoanIsOnLoan, TypeOK, Open, LoanRow
<1>7. LoanPeriodsDisjoint'
  BY <1>1, <1>2, <1>3 DEF TableInv, LoanPeriodsDisjoint, Precedes, Open
<1>8. \A v \in Workers \ {w} : v \in barred' => v \in barred /\ members'[req[v].member] # "active"
  BY <1>3 DEF IInv, WorkerInv, BarredInv
<1>9. TableInv' /\ w \notin barred' /\ \A d \in CopyIds : d # held[w] => copies'[d] = copies[d]
  BY <1>1, <1>3, <1>5, <1>6, <1>7 DEF TableInv, TypeOK
<1>10. /\ \A s \in loans' : s \in loans \/ (/\ pc[w] \in {"b_commit", "r_commit"}
                                        /\ s = row[w] /\ s.copy = held[w])
       /\ \A s \in loans : s \in loans' \/ (pc[w] = "r_commit" /\ s.id = row[w].id)
  BY <1>1, <1>2, <1>3
<1>11. Close(w) /\ now' = now /\ members' = members
  BY <1>3
<1> HIDE DEF c, x
<1>12. QED
  BY <1>4, <1>8, <1>9, <1>10, <1>11, CommitStep

\* COMMIT of a return.
LEMMA CommitReturnStep ==
  ASSUME IInv, NEW w \in Workers, CommitReturn(w)
  PROVE  IInv'
<1> DEFINE c == held[w]
           x == row[w]
<1>1. TypeOK /\ WorkerInv(w) /\ TableInv /\ pc[w] = "r_commit"
  BY DEF IInv, CommitReturn
<1>2. PICK r \in loans : Closes(x, r)
  BY <1>1 DEF WorkerInv, ReturnInv, ReturningPCs
<1>3. PICK t \in r.borrowed .. now : x = Returned(r, t)
  BY <1>2 DEF Closes
<1>4. Open(r) /\ r \in LoanRow /\ t \in Nat /\ r.borrowed <= t /\ t <= now
  BY <1>1, <1>2, <1>3 DEF TypeOK, LoanRow, Closes
<1>5. /\ x \in LoanRow /\ x.id = r.id /\ x.copy = r.copy /\ x.borrowed = r.borrowed
      /\ x.returned = t /\ ~Open(x)
  BY <1>3, <1>4, ReturnedFacts
<1>6. c = r.copy /\ c \in CopyIds
  BY <1>1, <1>4, <1>5 DEF WorkerInv, ReturnInv, LoanRow
<1>7. PICK status \in {"damaged", "available"} : copies' = [copies EXCEPT ![c] = status]
  BY DEF CommitReturn
<1>8. /\ loans' = {s \in loans : s.id # x.id} \cup {x} /\ Close(w)
      /\ UNCHANGED <<books, members, emails, now, barred>>
  BY DEF CommitReturn
<1>9. TypeOK'
  BY <1>1, <1>5, <1>7, <1>8, CloseTypes DEF TypeOK, CopyStatus
<1>10. LoanInv'
  BY <1>1, <1>4, <1>5, <1>8 DEF TableInv, LoanInv
<1>11. OpenLoanIsOnLoan'
  <2>1. \A s \in loans : s.copy = c /\ Open(s) => s = r
    BY <1>1, <1>4, <1>6 DEF TableInv, LoanPeriodsDisjoint, Precedes
  <2>2. QED
    BY <1>1, <1>5, <1>6, <1>7, <1>8, <2>1 DEF TableInv, OpenLoanIsOnLoan, TypeOK, Open, LoanRow
<1>12. LoanPeriodsDisjoint'
  <2>1. \A s \in loans : s # r /\ s.copy = r.copy => Precedes(s, r)
    BY <1>1, <1>4 DEF TableInv, LoanPeriodsDisjoint, Precedes
  <2>2. \A s \in loans' : s # x => s \in loans /\ s # r
    BY <1>5, <1>8
  <2>3. \A s \in loans' : s # x /\ s.copy = x.copy => Precedes(s, x)
    BY <1>5, <2>1, <2>2 DEF Precedes
  <2>4. QED
    BY <1>1, <2>2, <2>3 DEF TableInv, LoanPeriodsDisjoint, Precedes, Open
<1>13. w \notin barred' /\
       \A v \in Workers \ {w} : v \in barred' => v \in barred /\ members'[req[v].member] # "active"
  BY <1>1, <1>8 DEF IInv, WorkerInv, BarredInv
<1>14. TableInv' /\ \A d \in CopyIds : d # held[w] => copies'[d] = copies[d]
  BY <1>1, <1>7, <1>10, <1>11, <1>12 DEF TableInv, TypeOK
<1>15. /\ \A s \in loans' : s \in loans \/ (/\ pc[w] \in {"b_commit", "r_commit"}
                                        /\ s = row[w] /\ s.copy = held[w])
       /\ \A s \in loans : s \in loans' \/ (pc[w] = "r_commit" /\ s.id = row[w].id)
  BY <1>1, <1>5, <1>6, <1>8
<1>16. Close(w) /\ now' = now /\ members' = members
  BY <1>8
<1> HIDE DEF c, x
<1>17. QED
  BY <1>9, <1>13, <1>14, <1>15, <1>16, CommitStep

\* COMMIT of a status change of a copy.
LEMMA CommitUpdateCopyStep ==
  ASSUME IInv, NEW w \in Workers, CommitUpdateCopy(w)
  PROVE  IInv'
<1>1. TypeOK /\ WorkerInv(w) /\ TableInv /\ pc[w] = "c_commit"
  BY DEF IInv, CommitUpdateCopy
<1>2. held[w] \in CopyIds /\ req[w].status \in CopyStatus \cup {None}
  BY <1>1 DEF TypeOK, WorkerInv, SessionInv, HoldingPCs, RequestTyped, CopyPCs, UpdateCopyRequests
<1>3. Close(w) /\ UNCHANGED <<books, members, emails, loans, now, barred>>
  BY DEF CommitUpdateCopy
<1>4. copies' = copies \/ (/\ copies' = [copies EXCEPT ![held[w]] = req[w].status]
                          /\ req[w].status \in CopyStatus /\ req[w].status # None)
  BY <1>2 DEF CommitUpdateCopy
<1>5. TypeOK'
  BY <1>1, <1>2, <1>3, <1>4, CloseTypes DEF TypeOK
<1>6. LoanInv' /\ LoanPeriodsDisjoint'
  BY <1>1, <1>3 DEF TableInv, LoanInv, LoanPeriodsDisjoint, Open, Precedes
<1>7. OpenLoanIsOnLoan'
  BY <1>1, <1>2, <1>3, <1>4 DEF TypeOK, WorkerInv, StaffInv, TableInv, OpenLoanIsOnLoan, OpenLoan, Open, LoanRow
<1>8. w \notin barred' /\
      \A v \in Workers \ {w} : v \in barred' => v \in barred /\ members'[req[v].member] # "active"
  BY <1>1, <1>3 DEF IInv, WorkerInv, BarredInv
<1>9. \A d \in CopyIds : d # held[w] => copies'[d] = copies[d]
  BY <1>1, <1>4 DEF TypeOK
<1>10. QED
  BY <1>3, <1>5, <1>6, <1>7, <1>8, <1>9, CommitStep DEF TableInv

\* Changing the status of one member keeps every barred borrow barred.
LEMMA SetMemberBarred ==
  ASSUME IInv, NEW m \in MemberIds, NEW status, SetMember(m, status)
  PROVE  \A v \in barred' : v \in barred /\ members'[req[v].member] # "active"
BY DEF IInv, TypeOK, WorkerInv, BarredInv, SetMember, BorrowsOf, InFlight, BorrowPCs

\* COMMIT of a change of a member: every column gets what was asked for or stays.
LEMMA CommitUpdateMemberStep ==
  ASSUME IInv, NEW w \in Workers, CommitUpdateMember(w)
  PROVE  IInv'
<1> DEFINE m      == req[w].member
           status == Written(req[w].status, members[m])
           email  == Written(req[w].email, emails[m])
<1>1. TypeOK /\ WorkerInv(w) /\ TableInv /\ pc[w] = "m_commit"
  BY DEF IInv, CommitUpdateMember
<1>2. /\ Close(w) /\ SetMember(m, status) /\ UNCHANGED <<books, copies, loans, now>>
      /\ emails' = [emails EXCEPT ![m] = email]
  BY DEF CommitUpdateMember
<1>3. m \in MemberIds /\ members[m] # "absent"
  BY <1>1 DEF TypeOK, WorkerInv, StaffInv, RequestTyped, MemberPCs, UpdateMemberRequests
<1>4. status \in MemberStatus /\ email \in Emails \cup {None}
  BY <1>1, <1>3 DEF TypeOK, RequestTyped, MemberPCs, UpdateMemberRequests, Written
<1> HIDE DEF m, status, email
<1>5. w \notin barred /\ \A v \in barred' : v \in barred /\ members'[req[v].member] # "active"
  BY <1>1, <1>2, <1>3, SetMemberBarred DEF WorkerInv, BarredInv
<1>6. TableInv'
  BY <1>1, <1>2, TablesKept
<1>7. TypeOK'
  BY <1>1, <1>2, <1>3, <1>4, CloseTypes DEF TypeOK, SetMember
<1>8. \A n \in MemberIds : members[n] # "absent" => members'[n] # "absent"
  BY <1>1, <1>2, <1>4 DEF TypeOK, SetMember, MemberStatus
<1>9. QED
  BY <1>1, <1>2, <1>5, <1>6, <1>7, <1>8, CommitStep

\* A row is added, or the clock moves, while every session stays as it is.
LEMMA OutsideStep ==
  ASSUME IInv,
         \/ \E b \in BookIds : CreateBook(b)
         \/ \E m \in MemberIds : CreateMember(m)
         \/ \E c \in CopyIds : AddCopy(c)
         \/ Tick
  PROVE  IInv'
<1>1. TypeOK /\ TableInv /\ now' \in Nat /\ now' >= now /\ UNCHANGED <<loans, session>>
  BY DEF IInv, TypeOK, CreateBook, CreateMember, AddCopy, Tick, tables
<1>2. TypeOK'
  BY <1>1 DEF TypeOK, CreateBook, CreateMember, SetMember, AddCopy, Tick, tables, session,
              RequestTyped, CopyStatus, MemberStatus
<1>3. \A c \in CopyIds : copies[c] # "absent" => copies'[c] = copies[c]
  BY <1>1 DEF TypeOK, CreateBook, CreateMember, AddCopy, Tick, tables
<1>4. \A m \in MemberIds : members[m] # "absent" => members'[m] # "absent"
  BY <1>1 DEF TypeOK, CreateBook, CreateMember, SetMember, AddCopy, Tick, tables
<1>5. \A v \in barred' : v \in barred /\ members'[req[v].member] # "active"
  <2>1. CASE \E m \in MemberIds : CreateMember(m)
    BY <2>1, SetMemberBarred DEF CreateMember
  <2>2. CASE UNCHANGED <<members, barred>>
    BY <1>1, <2>2 DEF IInv, WorkerInv, BarredInv, TypeOK
  <2>3. QED
    BY <2>1, <2>2 DEF CreateBook, AddCopy, Tick, tables
<1>6. TableInv'
  <2>1. LoanInv' /\ LoanPeriodsDisjoint'
    BY <1>1 DEF TableInv, LoanInv, LoanPeriodsDisjoint, Open, Precedes, TypeOK, LoanRow
  <2>2. OpenLoanIsOnLoan'
    BY <1>1, <1>3 DEF TableInv, OpenLoanIsOnLoan, Open, TypeOK, LoanRow
  <2>3. QED
    BY <2>1, <2>2 DEF TableInv
<1>7. ASSUME NEW v \in Workers
      PROVE  Untouched(v) /\ WorkerInv(v)'
  <2>1. Untouched(v) /\ WorkerInv(v)
    BY <1>1, <1>5 DEF Untouched, session, IInv
  <2>2. pc[v] \in LentPCs => \A r \in loans' : r.id # row[v].id
    BY <1>1, <2>1 DEF WorkerInv, BorrowInv
  <2>3. held[v] # None => held[v] \in CopyIds /\ copies[held[v]] # "absent"
    <3>1. SUFFICES ASSUME pc[v] = "r_commit"
                   PROVE  held[v] \in CopyIds /\ copies[held[v]] # "absent"
      BY <1>1, <2>1 DEF TypeOK, WorkerInv, SessionInv, BorrowInv, StaffInv, HoldingPCs, LentPCs
    <3>2. PICK r \in loans : Closes(row[v], r)
      BY <2>1, <3>1 DEF WorkerInv, ReturnInv, ReturningPCs
    <3>3. PICK t \in r.borrowed .. now : row[v] = Returned(r, t)
      BY <3>2 DEF Closes
    <3>4. r \in LoanRow /\ t \in Nat /\ Open(r)
      BY <1>1, <3>2, <3>3 DEF TypeOK, LoanRow, Closes
    <3>5. held[v] = r.copy
      BY <2>1, <3>1, <3>3, <3>4, ReturnedFacts DEF WorkerInv, ReturnInv
    <3>6. QED
      BY <1>1, <3>4, <3>5 DEF TableInv, OpenLoanIsOnLoan, LoanRow
  <2>4. QED
    BY <1>1, <1>3, <1>4, <1>5, <2>1, <2>2, <2>3, OtherWorker
<1>8. \A u, v \in Workers : u # v => Apart(u, v)'
  BY <1>7, ApartKept DEF IInv
<1>9. QED
  BY <1>2, <1>6, <1>7, <1>8 DEF IInv
-----------------------------------------------------------------------------
(* The invariant *)

\* The tables are empty after the migration.
LEMMA InitInv == Init => IInv
<1>1. SUFFICES ASSUME Init PROVE IInv
  OBVIOUS
<1>2. TypeOK
  BY <1>1 DEF Init, TypeOK, RequestTyped, Requests, BorrowPCs, ReturnPCs,
              CopyPCs, MemberPCs
<1>3. TableInv
  BY <1>1 DEF Init, TableInv, LoanInv, OpenLoanIsOnLoan, LoanPeriodsDisjoint
<1>4. \A w \in Workers : WorkerInv(w)
  BY <1>1 DEF Init, WorkerInv, SessionInv, BorrowInv, ReturnInv, StaffInv, BarredInv,
              HoldingPCs, WritingPCs, LentPCs, ReturningPCs, MemberPCs
<1>5. \A v, w \in Workers : v # w => Apart(v, w)
  BY <1>1 DEF Init, Apart, LentPCs, ReturningPCs
<1>6. QED
  BY <1>2, <1>3, <1>4, <1>5 DEF IInv

\* A step that changes nothing.
LEMMA StutterInv ==
  ASSUME IInv, UNCHANGED vars
  PROVE  IInv'
<1>1. TypeOK'
  BY DEF IInv, TypeOK, vars, tables, session, RequestTyped
<1>2. TableInv'
  BY TablesKept DEF IInv, vars, tables, session
<1>3. ASSUME NEW v \in Workers
      PROVE  WorkerInv(v)' /\ Untouched(v)
  <2>1. Untouched(v) /\ WorkerInv(v) /\ TypeOK
    BY DEF Untouched, vars, tables, session, IInv
  <2>2. now' >= now /\ now' \in Nat /\ (v \in barred' => members'[req[v].member] # "active")
    BY <2>1 DEF TypeOK, vars, tables, session, WorkerInv, BarredInv
  <2>3. pc[v] \in LentPCs => \A r \in loans' : r.id # row[v].id
    BY <2>1 DEF WorkerInv, BorrowInv, vars, tables, session
  <2>4. QED
    BY <2>1, <2>2, <2>3, OtherWorker DEF vars, tables, session
<1>4. \A v, w \in Workers : v # w => Apart(v, w)'
  BY <1>3, ApartKept DEF IInv
<1>5. QED
  BY <1>1, <1>2, <1>3, <1>4 DEF IInv

\* Every statement of every worker, and the single writes beside them.
LEMMA StepInv == IInv /\ [Next]_vars => IInv'
<1>1. SUFFICES ASSUME IInv, [Next]_vars PROVE IInv'
  OBVIOUS
<1>2. CASE UNCHANGED vars
  BY <1>1, <1>2, StutterInv
<1>3. ASSUME NEW w \in Workers, Accept(w) PROVE IInv'
  BY <1>1, <1>3, BeginStep
<1>4. ASSUME NEW w \in Workers, Abort(w) \/ DeadlockDetected(w) PROVE IInv'
  BY <1>1, <1>4, RollbackStep DEF Abort, DeadlockDetected
<1>5. ASSUME NEW w \in Workers, Serve(w) PROVE IInv'
  <2>1. CASE BorrowReadMember(w)
    BY <1>1, <2>1, BorrowReadMemberStep
  <2>2. CASE BorrowLockCopy(w) \/ BorrowLockAvailable(w)
    BY <1>1, <2>2, BorrowLockStep
  <2>3. CASE BorrowFlush(w)
    BY <1>1, <2>3, BorrowFlushStep
  <2>4. CASE CommitBorrow(w)
    BY <1>1, <2>4, CommitBorrowStep
  <2>5. CASE ReturnLockLoan(w)
    BY <1>1, <2>5, ReturnLockLoanStep
  <2>6. CASE ReturnLockCopy(w)
    BY <1>1, <2>6, ReturnLockCopyStep
  <2>7. CASE CommitReturn(w)
    BY <1>1, <2>7, CommitReturnStep
  <2>8. CASE UpdateCopyLock(w)
    BY <1>1, <2>8, UpdateCopyLockStep
  <2>9. CASE UpdateCopyCheck(w)
    BY <1>1, <2>9, UpdateCopyCheckStep
  <2>10. CASE CommitUpdateCopy(w)
    BY <1>1, <2>10, CommitUpdateCopyStep
  <2>11. CASE UpdateMemberLock(w) \/ UpdateMemberKey(w)
    BY <1>1, <2>11, UpdateMemberStep
  <2>12. CASE CommitUpdateMember(w)
    BY <1>1, <2>12, CommitUpdateMemberStep
  <2>13. CASE BorrowParent(w)
    BY <1>1, <2>13, BorrowParentStep
  <2>14. QED
    BY <1>5, <2>13, <2>1, <2>2, <2>3, <2>4, <2>5, <2>6, <2>7, <2>8, <2>9, <2>10, <2>11, <2>12 DEF Serve
<1>6. QED
  BY <1>1, <1>2, <1>3, <1>4, <1>5, OutsideStep DEF Next

\* The inductive invariant holds in every reachable state, for any number of
\* workers, members, books, copies and loans.
THEOREM Inductive == Spec => []IInv
  BY InitInv, StepInv, PTL DEF Spec

\* Every column and every session stays in its type.
THEOREM TypeCorrect == Spec => []TypeOK
<1>1. IInv => TypeOK
  BY DEF IInv
<1>2. QED
  BY <1>1, Inductive, PTL

\* A copy with an open loan is ON_LOAN: lock_copy, the open-loan check of
\* update_copy and return_book keep the two tables in step.
THEOREM OpenLoansAreOnLoan == Spec => []OpenLoanIsOnLoan
<1>1. IInv => OpenLoanIsOnLoan
  BY DEF IInv, TableInv
<1>2. QED
  BY <1>1, Inductive, PTL

\* The loans of a copy never overlap in time, so no copy is lent twice.
THEOREM LoansDisjoint == Spec => []LoanPeriodsDisjoint
<1>1. IInv => LoanPeriodsDisjoint
  BY DEF IInv, TableInv
<1>2. QED
  BY <1>1, Inductive, PTL

\* The unique index never refuses a borrow: FOR UPDATE and SKIP LOCKED have
\* already kept every second borrower of the copy out.
THEOREM BackstopNeverUsed == Spec => []BackstopUnused
<1>1. IInv => BackstopUnused
  <2>1. SUFFICES ASSUME IInv, NEW w \in Workers, pc[w] = "b_flush"
                 PROVE  ~OpenLoan(held[w]) /\ \A r \in Pending(w) : r.copy # held[w]
    BY DEF BackstopUnused
  <2>2. ~OpenLoan(held[w])
    BY <2>1 DEF IInv, WorkerInv, BorrowInv
  <2>3. ASSUME NEW u \in Workers \ {w}, pc[u] \in LentPCs
        PROVE  row[u].copy # held[w]
    BY <2>1, <2>3 DEF IInv, WorkerInv, SessionInv, BorrowInv, Apart, HoldingPCs, LentPCs
  <2>4. QED
    BY <2>2, <2>3 DEF Pending, LentPCs
<1>2. QED
  BY <1>1, Inductive, PTL

\* No borrow lends to a member who was not ACTIVE at any moment of the request.
THEOREM SuspendedNeverLent == Spec => []SuspendedRefused
<1>1. IInv => SuspendedRefused
  BY DEF IInv, TypeOK, WorkerInv, BarredInv, SuspendedRefused
<1>2. QED
  BY <1>1, Inductive, PTL

-----------------------------------------------------------------------------
(* Waiting for locks *)

KeyPCs == {"m_key", "m_commit"}

\* Who waits for whom: the wait for a loan is for a request that may still wait for a
\* copy, that for a copy for one that may still wait for an e-mail change, and that for
\* one which only waits for other e-mails.
LEMMA Behind ==
  ASSUME IInv, NEW w \in Workers, NEW v \in WaitsFor(w)
  PROVE  /\ v \in Workers \ {w} /\ Running(v)
         /\ pc[w] \in {"r_loan", "b_copy", "c_lock", "r_copy", "m_lock", "b_parent", "m_key"}
         /\ pc[w] = "r_loan" => pc[v] \in ReturningPCs
         /\ pc[w] \in {"b_copy", "c_lock", "r_copy"} => pc[v] \in HoldingPCs
         /\ pc[w] = "m_lock" => pc[v] \in {"b_commit"} \cup KeyPCs
         /\ pc[w] = "b_parent" => pc[v] \in KeyPCs
         /\ pc[w] = "m_key" => pc[v] \in KeyPCs /\ Disputes(v, req[w].email)
<1>1. v \in Workers \ {w}
  BY DEF WaitsFor
<1>2. CASE pc[w] = "r_loan"
  BY <1>1, <1>2 DEF WaitsFor, LocksLoan, ReturningPCs, Running
<1>3. CASE pc[w] \in {"b_copy", "c_lock", "r_copy"}
  <2>1. pc[w] = "r_copy" => row[w].copy # None
    BY <1>3, LendingAssumption DEF IInv, WorkerInv, SessionInv, WritingPCs, LoanRow
  <2>2. held[v] # None
    BY <1>3, <2>1 DEF WaitsFor
  <2>3. QED
    BY <1>1, <1>3, <2>2 DEF IInv, WorkerInv, SessionInv, HoldingPCs, Running
<1>4. CASE pc[w] = "b_flush"
  <2>1. pc[v] \in LentPCs /\ row[v].copy = held[w]
    BY <1>4 DEF WaitsFor, LentPCs
  <2>2. held[v] = held[w] /\ held[v] # None
    BY <1>1, <1>4, <2>1 DEF IInv, WorkerInv, BorrowInv, SessionInv, HoldingPCs
  <2>3. QED
    BY <1>1, <2>2 DEF IInv, Apart
<1>5. CASE pc[w] = "m_lock"
  BY <1>1, <1>5 DEF WaitsFor, Updates, Lends, KeyPCs, Running
<1>6. CASE pc[w] = "b_parent"
  BY <1>1, <1>6 DEF WaitsFor, Updates, KeyPCs, Running
<1>7. CASE pc[w] = "m_key"
  BY <1>1, <1>7 DEF WaitsFor, Disputes, Updates, KeyPCs, Running
<1>8. pc[w] \in {"r_loan", "b_copy", "c_lock", "r_copy", "b_flush", "m_lock", "b_parent", "m_key"}
  BY DEF WaitsFor, LookupWaits
<1>9. QED
  BY <1>1, <1>2, <1>3, <1>4, <1>5, <1>6, <1>7, <1>8

\* A set of others that wait for each other only, and that w waits for, keeps w out
\* of every cycle.
LEMMA NotInCycle ==
  ASSUME NEW w \in Workers, NEW S \in SUBSET (Workers \ {w}), WaitsFor(w) \subseteq S,
         \A v \in S : WaitsFor(v) \subseteq S
  PROVE  ~InCycle(w)
BY DEF InCycle

\* Whoever is in a cycle is an update_member at the check of its new e-mail.
LEMMA CycleOfKeys ==
  ASSUME IInv, NEW w \in Workers, InCycle(w)
  PROVE  pc[w] = "m_key"
<1> DEFINE KeyChecks == {v \in Workers : pc[v] \in KeyPCs}
           Holders   == {v \in Workers : pc[v] \in KeyPCs \cup HoldingPCs}
           Queueing  == {v \in Workers : pc[v] \in KeyPCs \cup HoldingPCs
                                                    \cup {"m_lock", "b_copy", "c_lock", "r_copy"}}
<1>1. \A v \in KeyChecks : WaitsFor(v) \subseteq KeyChecks
  BY Behind DEF KeyPCs
<1>2. \A v \in Holders : WaitsFor(v) \subseteq KeyChecks
  BY <1>1, Behind DEF KeyPCs, HoldingPCs
<1>3. \A v \in Queueing : WaitsFor(v) \subseteq Holders
  BY Behind DEF KeyPCs, HoldingPCs
<1>4. KeyChecks \subseteq Holders /\ Holders \subseteq Queueing /\ Queueing \subseteq Workers
  OBVIOUS
<1>5. CASE w \notin Queueing
  <2>1. WaitsFor(w) \subseteq Queueing
    BY <1>5, Behind DEF KeyPCs, HoldingPCs, ReturningPCs
  <2>2. QED
    BY <1>3, <1>4, <1>5, <2>1, NotInCycle
<1>6. CASE w \in Queueing /\ w \notin Holders
  BY <1>2, <1>3, <1>4, <1>6, NotInCycle
<1>7. CASE w \in Holders /\ w \notin KeyChecks
  BY <1>1, <1>2, <1>4, <1>7, NotInCycle
<1>8. WaitsFor(w) # {}
  <2>1. {} \in SUBSET (Workers \ {w}) /\ \A v \in {} : WaitsFor(v) \subseteq {}
    OBVIOUS
  <2>2. QED
    BY <2>1 DEF InCycle
<1>9. CASE w \in KeyChecks
  BY <1>8, <1>9, Behind DEF KeyPCs
<1>10. QED
  BY <1>5, <1>6, <1>7, <1>9

\* Among those that w waits for, one is in a cycle too.
LEMMA CycleGoesOn ==
  ASSUME NEW w \in Workers, InCycle(w)
  PROVE  \E v \in WaitsFor(w) : InCycle(v)
<1> DEFINE Avoiding == {O \in SUBSET (Workers \ {w}) : \A u \in O : WaitsFor(u) \subseteq O}
           others == UNION Avoiding
<1>1. SUFFICES ASSUME \A v \in WaitsFor(w) : ~InCycle(v)
               PROVE  FALSE
  OBVIOUS
<1>2. others \in SUBSET (Workers \ {w}) /\ \A u \in others : WaitsFor(u) \subseteq others
  OBVIOUS
<1>3. ASSUME NEW v \in WaitsFor(w)
      PROVE  v \in others
  <2>1. v \in Workers \ {w}
    BY DEF WaitsFor
  <2>2. PICK O \in SUBSET (Workers \ {v}) :
          WaitsFor(v) \subseteq O /\ \A u \in O : WaitsFor(u) \subseteq O
    BY <1>1, <2>1 DEF InCycle
  <2>3. w \notin O
    BY <1>3, <2>2
  <2>4. O \cup {v} \in Avoiding
    BY <2>1, <2>2, <2>3
  <2>5. QED
    BY <2>4
<1>4. QED
  BY <1>2, <1>3 DEF InCycle

\* Borrows, returns and edits of copies and members never wait for each other in a
\* cycle; whatever is ended as a deadlock is an exchange of e-mails.
THEOREM DeadlocksAreExchanges == Spec => []OnlyExchangesDeadlock
<1>1. ASSUME IInv, NEW w \in Workers, InCycle(w)
      PROVE  /\ pc[w] = "m_key"
             /\ \E v \in Workers \ {w} :
                  InCycle(v) /\ pc[v] = "m_key" /\ req[w].email = emails[req[v].member]
  <2>1. PICK v \in WaitsFor(w) : InCycle(v)
    BY <1>1, CycleGoesOn
  <2>2. v \in Workers \ {w}
    BY <1>1, Behind
  <2>3. pc[w] = "m_key" /\ pc[v] = "m_key"
    BY <1>1, <2>1, <2>2, CycleOfKeys
  <2>4. Disputes(v, req[w].email)
    BY <1>1, <2>3, Behind
  <2>5. req[w].email = emails[req[v].member]
    BY <2>3, <2>4 DEF Disputes, Updates, Owners
  <2>6. QED
    BY <2>1, <2>2, <2>3, <2>5
<1>2. IInv => OnlyExchangesDeadlock
  BY <1>1 DEF OnlyExchangesDeadlock
<1>3. QED
  BY <1>2, Inductive, PTL

-----------------------------------------------------------------------------
(* What a step may never do *)

\* Every step but the commit of a return keeps all rows of loans.
LEMMA LoansKept ==
  ASSUME [Next]_vars, \A w \in Workers : ~CommitReturn(w)
  PROVE  loans \subseteq loans'
<1>1. ASSUME NEW w \in Workers, Serve(w)
      PROVE  loans \subseteq loans'
  BY <1>1 DEF Serve, BorrowReadMember, BorrowLockCopy, BorrowLockAvailable, Claim, BorrowFlush,
     CommitBorrow, ReturnLockLoan, TakeBack, ReturnLockCopy, UpdateCopyLock, UpdateCopyCheck,
     CommitUpdateCopy, BorrowParent,
     UpdateMemberLock, UpdateMemberKey, CommitUpdateMember, Rollback, tables
<1>2. ASSUME NEW w \in Workers, Accept(w) \/ Abort(w) \/ DeadlockDetected(w)
      PROVE  loans \subseteq loans'
  BY <1>2 DEF Accept, BorrowBegin, ReturnBegin, UpdateCopyBegin, UpdateMemberRead, Begin,
     Abort, DeadlockDetected, Rollback, tables
<1>3. QED
  BY <1>1, <1>2 DEF Next, CreateBook, CreateMember, AddCopy, Tick, tables, vars

\* Rows of loans are never deleted; a returned loan, its fine included, is final.
THEOREM ClosedLoansStayFinal == Spec => ClosedLoansFinal
<1> DEFINE Kept == \A r \in loans : \E s \in loans' :
                     IF Open(r) THEN s.id = r.id /\ s.borrowed = r.borrowed ELSE s = r
<1>1. IInv /\ [Next]_vars => Kept
  <2>1. SUFFICES ASSUME IInv, [Next]_vars, NEW r \in loans
                 PROVE  \E s \in loans' : IF Open(r) THEN s.id = r.id /\ s.borrowed = r.borrowed
                                                     ELSE s = r
    OBVIOUS
  <2>2. CASE r \in loans'
    BY <2>2
  <2>3. CASE r \notin loans'
    <3>1. PICK w \in Workers : CommitReturn(w)
      BY <2>1, <2>3, LoansKept
    <3>2. PICK q \in loans : Closes(row[w], q)
      BY <2>1, <3>1 DEF CommitReturn, IInv, WorkerInv, ReturnInv, ReturningPCs
    <3>3. PICK t \in q.borrowed .. now : row[w] = Returned(q, t)
      BY <3>2 DEF Closes
    <3>4. q \in LoanRow /\ t \in Nat /\ Open(q)
      BY <2>1, <3>2, <3>3 DEF IInv, TypeOK, LoanRow, Closes
    <3>5. row[w].id = q.id /\ row[w].borrowed = q.borrowed
      BY <3>3, <3>4, ReturnedFacts
    <3>6. r = q
      BY <2>1, <2>3, <3>1, <3>5 DEF CommitReturn, IInv, TableInv, LoanInv
    <3>7. row[w] \in loans'
      BY <3>1 DEF CommitReturn
    <3>8. QED
      BY <3>4, <3>5, <3>6, <3>7
  <2>4. QED
    BY <2>2, <2>3
<1>2. QED
  BY <1>1, Inductive, PTL DEF Spec, ClosedLoansFinal

\* Every step but three commits and the arrival of a copy keeps copies and loans as
\* they are.
LEMMA ShelfKept ==
  ASSUME [Next]_vars,
         \A w \in Workers : ~CommitBorrow(w) /\ ~CommitReturn(w) /\ ~CommitUpdateCopy(w),
         \A c \in CopyIds : ~AddCopy(c)
  PROVE  UNCHANGED <<copies, loans>>
<1>1. ASSUME NEW w \in Workers, Serve(w)
      PROVE  UNCHANGED <<copies, loans>>
  BY <1>1 DEF Serve, BorrowReadMember, BorrowLockCopy, BorrowLockAvailable, Claim, BorrowFlush,
     ReturnLockLoan, TakeBack, ReturnLockCopy, UpdateCopyLock, UpdateCopyCheck, BorrowParent,
     UpdateMemberLock, UpdateMemberKey, CommitUpdateMember, Rollback, tables
<1>2. ASSUME NEW w \in Workers, Accept(w) \/ Abort(w) \/ DeadlockDetected(w)
      PROVE  UNCHANGED <<copies, loans>>
  BY <1>2 DEF Accept, BorrowBegin, ReturnBegin, UpdateCopyBegin, UpdateMemberRead, Begin,
     Abort, DeadlockDetected, Rollback, tables
<1>3. QED
  BY <1>1, <1>2 DEF Next, CreateBook, CreateMember, Tick, tables, vars

\* Only an UpdateCopy to ON_LOAN leaves a copy on loan to nobody.
THEOREM OrphansAreByHand == Spec => OrphansAreMadeByHand
<1> DEFINE ByHand(c) == \E w \in Workers :
                          pc[w] = "c_commit" /\ held[w] = c /\ req[w].status = "on_loan"
<1>1. ASSUME IInv, [Next]_vars, NEW c \in CopyIds, Orphan(c)', ~Orphan(c)
      PROVE  ByHand(c)
  <2>1. ASSUME NEW w \in Workers, CommitBorrow(w)
        PROVE  FALSE
    <3>1. row[w].copy = held[w] /\ Open(row[w])
      BY <1>1, <2>1 DEF CommitBorrow, IInv, WorkerInv, BorrowInv, LentPCs
    <3>2. loans \subseteq loans' /\ row[w] \in loans'
      BY <2>1 DEF CommitBorrow
    <3>3. c # held[w]
      BY <1>1, <3>1, <3>2 DEF Orphan, OpenLoan, Open
    <3>4. copies'[c] = copies[c]
      BY <1>1, <2>1, <3>3 DEF CommitBorrow, IInv, TypeOK
    <3>5. QED
      BY <1>1, <3>2, <3>4 DEF Orphan, OpenLoan, Open
  <2>2. ASSUME NEW w \in Workers, CommitReturn(w)
        PROVE  FALSE
    <3>1. PICK q \in loans : Closes(row[w], q)
      BY <1>1, <2>2 DEF CommitReturn, IInv, WorkerInv, ReturnInv, ReturningPCs
    <3>2. PICK t \in q.borrowed .. now : row[w] = Returned(q, t)
      BY <3>1 DEF Closes
    <3>3. q \in LoanRow /\ t \in Nat
      BY <1>1, <3>1, <3>2 DEF IInv, TypeOK, LoanRow
    <3>4. row[w].id = q.id /\ row[w].copy = q.copy
      BY <3>2, <3>3, ReturnedFacts
    <3>5. held[w] = q.copy /\ held[w] \in CopyIds
      BY <1>1, <2>2, <3>3, <3>4 DEF CommitReturn, IInv, WorkerInv, ReturnInv, LoanRow
    <3>6. copies'[held[w]] # "on_loan"
      BY <1>1, <2>2, <3>5 DEF CommitReturn, IInv, TypeOK
    <3>7. c # held[w]
      BY <1>1, <3>6 DEF Orphan
    <3>8. copies'[c] = copies[c]
      BY <1>1, <2>2, <3>7 DEF CommitReturn, IInv, TypeOK
    <3>9. PICK r \in loans : r.copy = c /\ Open(r)
      BY <1>1, <3>8 DEF Orphan, OpenLoan
    <3>10. r # q
      BY <3>5, <3>7, <3>9
    <3>11. r \in loans'
      BY <1>1, <2>2, <3>1, <3>4, <3>9, <3>10 DEF CommitReturn, IInv, TableInv, LoanInv
    <3>12. QED
      BY <1>1, <3>9, <3>11 DEF Orphan, OpenLoan, Open
  <2>3. ASSUME NEW w \in Workers, CommitUpdateCopy(w)
        PROVE  ByHand(c)
    <3>1. copies'[c] # copies[c]
      BY <1>1, <2>3 DEF CommitUpdateCopy, Orphan, OpenLoan, Open
    <3>2. held[w] = c /\ req[w].status = copies'[c]
      BY <1>1, <2>3, <3>1 DEF CommitUpdateCopy, IInv, TypeOK
    <3>3. QED
      BY <1>1, <2>3, <3>2 DEF CommitUpdateCopy, Orphan
  <2>4. ASSUME NEW d \in CopyIds, AddCopy(d)
        PROVE  FALSE
    <3>1. copies'[d] = "available"
      BY <1>1, <2>4 DEF AddCopy, IInv, TypeOK
    <3>2. copies'[c] = copies[c] /\ loans' = loans
      BY <1>1, <2>4, <3>1 DEF AddCopy, IInv, TypeOK, Orphan
    <3>3. QED
      BY <1>1, <3>2 DEF Orphan, OpenLoan, Open
  <2>5. CASE UNCHANGED <<copies, loans>>
    BY <1>1, <2>5 DEF Orphan, OpenLoan, Open
  <2>6. QED
    BY <1>1, <2>1, <2>2, <2>3, <2>4, <2>5, ShelfKept
<1>2. IInv /\ [Next]_vars => \A c \in CopyIds : Orphan(c)' /\ ~Orphan(c) => ByHand(c)
  BY <1>1
<1>3. QED
  BY <1>2, Inductive, PTL DEF Spec, OrphansAreMadeByHand

-----------------------------------------------------------------------------
(* The fines on record *)

\* What the fine column holds in every reachable table.
FineInv == \A r \in loans :
  r.fine = IF Open(r) THEN 0 ELSE ComputeFine(DueAt(r), r.returned)

\* Every step but the commit of a borrow or a return keeps loans as they are.
LEMMA LoansNotNew ==
  ASSUME [Next]_vars, \A w \in Workers : ~CommitReturn(w) /\ ~CommitBorrow(w)
  PROVE  loans' = loans
<1>1. ASSUME NEW w \in Workers, Serve(w)
      PROVE  loans' = loans
  BY <1>1 DEF Serve, BorrowReadMember, BorrowLockCopy, BorrowLockAvailable, Claim, BorrowFlush,
     ReturnLockLoan, TakeBack, ReturnLockCopy, UpdateCopyLock, UpdateCopyCheck,
     CommitUpdateCopy, BorrowParent,
     UpdateMemberLock, UpdateMemberKey, CommitUpdateMember, Rollback, tables
<1>2. ASSUME NEW w \in Workers, Accept(w) \/ Abort(w) \/ DeadlockDetected(w)
      PROVE  loans' = loans
  BY <1>2 DEF Accept, BorrowBegin, ReturnBegin, UpdateCopyBegin, UpdateMemberRead, Begin,
     Abort, DeadlockDetected, Rollback, tables
<1>3. QED
  BY <1>1, <1>2 DEF Next, CreateBook, CreateMember, AddCopy, Tick, tables, vars

\* Only a return writes a fine, and it writes the one of its two times.
LEMMA FineStep == IInv /\ FineInv /\ [Next]_vars => FineInv'
<1>1. SUFFICES ASSUME IInv, FineInv, [Next]_vars, NEW s \in loans'
               PROVE  s.fine = IF Open(s) THEN 0 ELSE ComputeFine(DueAt(s), s.returned)
  BY DEF FineInv, Open, DueAt, ComputeFine, CeilDays
<1>2. CASE s \in loans
  BY <1>1, <1>2 DEF FineInv
<1>3. ASSUME NEW w \in Workers, CommitBorrow(w), s \notin loans
      PROVE  s.fine = 0 /\ Open(s)
  BY <1>1, <1>3 DEF CommitBorrow, IInv, WorkerInv, BorrowInv, LentPCs
<1>4. ASSUME NEW w \in Workers, CommitReturn(w), s \notin loans
      PROVE  ~Open(s) /\ s.fine = ComputeFine(DueAt(s), s.returned)
  <2>1. s = row[w]
    BY <1>1, <1>4 DEF CommitReturn
  <2>2. PICK r \in loans : Closes(row[w], r)
    BY <1>1, <1>4 DEF CommitReturn, IInv, WorkerInv, ReturnInv, ReturningPCs
  <2>3. PICK t \in r.borrowed .. now : row[w] = Returned(r, t)
    BY <2>2 DEF Closes
  <2>4. r \in LoanRow /\ t \in Nat
    BY <1>1, <2>3 DEF IInv, TypeOK, LoanRow
  <2>5. s.borrowed = r.borrowed /\ s.returned = t /\ ~Open(s)
    BY <2>1, <2>3, <2>4, ReturnedFacts
  <2>6. s.fine = ComputeFine(DueAt(r), t)
    BY <2>1, <2>3, <2>4 DEF Returned, LoanRow
  <2>7. QED
    BY <2>5, <2>6 DEF DueAt
<1>5. QED
  BY <1>1, <1>2, <1>3, <1>4, LoansNotNew

\* A fine computed from the two times is the fine of the started days.
LEMMA FineMeaning == TypeOK /\ FineInv => FinesSettled
<1>1. SUFFICES ASSUME TypeOK, FineInv, NEW r \in loans
               PROVE  FineIsDue(r)
  BY DEF FinesSettled
<1> DEFINE late == r.returned - DueAt(r)
<1>2. /\ r.returned \in Nat \cup {None} /\ DueAt(r) \in Nat
      /\ r.fine = IF Open(r) THEN 0 ELSE ComputeFine(DueAt(r), r.returned)
  BY <1>1, LendingAssumption DEF TypeOK, LoanRow, DueAt, FineInv
<1>3. CASE Open(r) \/ r.returned <= DueAt(r)
  BY <1>2, <1>3 DEF FineIsDue, ComputeFine
<1>4. CASE ~Open(r) /\ ~(r.returned <= DueAt(r))
  <2>1. r.returned \in Nat /\ r.returned > DueAt(r) /\ late \in Nat \ {0}
    BY <1>2, <1>4 DEF Open
  <2>2. PICK days \in Nat \ {0} :
          /\ ComputeFine(DueAt(r), r.returned) = days * FineCentsPerDay
          /\ (days - 1) * TicksPerDay < late
          /\ late <= days * TicksPerDay
    BY <1>2, <2>1, FineCoversDelay
  <2>3. days - 1 <= (days - 1) * TicksPerDay
    BY FineAssumption
  <2>4. days \in 1 .. late
    BY <2>1, <2>2, <2>3, FineAssumption
  <2>5. QED
    BY <1>2, <1>4, <2>2, <2>4 DEF FineIsDue
<1>5. QED
  BY <1>3, <1>4

\* Every fine on record is that of the started days between the due and the
\* return time on record, for days of any length and any rate.
THEOREM FinesAreSettled == Spec => []FinesSettled
<1>1. Init => FineInv
  BY DEF Init, FineInv
<1>2. IInv => TypeOK
  BY DEF IInv
<1>3. QED
  BY <1>1, <1>2, FineStep, FineMeaning, Inductive, PTL DEF Spec

-----------------------------------------------------------------------------
(* Nothing else is waited for *)

\* The guard of the statement that w is at.
CanServe(w) ==
  \/ pc[w] \in {"b_commit", "r_commit", "c_check", "c_commit", "m_commit"}
  \/ pc[w] = "b_member" /\ members[req[w].member] \in MemberStatus \cup {"absent"}
  \/ /\ pc[w] \in {"b_copy", "c_lock"} /\ req[w].copy # None
     /\ copies[req[w].copy] = "absent" \/ CopyFree(w, req[w].copy)
  \/ /\ pc[w] = "b_copy" /\ req[w].copy = None
     /\ LET free == Lendable(w, req[w].book)
        IN  free # {} => \E c \in free : \A d \in free : c <= d
  \/ /\ pc[w] = "b_flush"
     /\ \/ OpenLoan(held[w])
        \/ /\ \A r \in Pending(w) : r.copy # held[w]
           /\ LoanIds \ UsedIds(w) # {}
  \/ /\ pc[w] = "r_loan"
     /\ LoansById(req[w].loan) = {} \/ LoanFree(w, req[w].loan)
  \/ pc[w] = "r_copy" /\ CopyFree(w, row[w].copy)
  \/ /\ pc[w] = "b_parent"
     /\ \A v \in Workers \ {w} : ~(Updates(v, req[w].member) /\ Rekeys(v))
  \/ /\ pc[w] = "m_lock"
     /\ \A v \in Workers \ {w} : /\ ~Updates(v, req[w].member)
                                 /\ Rekeys(w) => ~Lends(v, req[w].member)
  \/ pc[w] = "m_key" /\ \A v \in Workers \ {w} : ~Disputes(v, req[w].email)

\* The ids of the committed loans.
LoanKeys == {r.id : r \in loans}

\* Every borrow in flight will find an id for its loan.
RoomInv == Cardinality(LoanKeys) + Cardinality(InFlight) <= Cardinality(LoanIds)

\* The sets that are counted are finite, and no more ids are used than rows.
LEMMA Counted ==
  ASSUME TypeOK, LoanInv
  PROVE  /\ IsFiniteSet(InFlight) /\ Cardinality(InFlight) \in Nat
         /\ IsFiniteSet(LoanKeys) /\ Cardinality(LoanKeys) \in Nat
         /\ LoanKeys \subseteq LoanIds /\ Cardinality(LoanIds) \in Nat
         /\ Cardinality(loans) \in Nat /\ Cardinality(LoanKeys) <= Cardinality(loans)
<1>1. IsFiniteSet(InFlight) /\ Cardinality(InFlight) \in Nat
  <2>1. InFlight \subseteq Workers
    BY DEF InFlight
  <2>2. QED
    BY <2>1, LendingAssumption, FS_Subset, FS_CardinalityType
<1>2. LoanKeys \subseteq LoanIds
  BY DEF LoanKeys, TypeOK, LoanRow
<1>3. IsFiniteSet(LoanKeys) /\ Cardinality(LoanKeys) \in Nat /\ Cardinality(LoanIds) \in Nat
  BY <1>2, LendingAssumption, FS_Subset, FS_CardinalityType
<1> DEFINE key == [r \in loans |-> r.id]
<1>4. key \in Injection(loans, LoanKeys) /\ key \in Surjection(loans, LoanKeys)
  BY DEF LoanInv, LoanKeys, Injection, Surjection, IsInjective
<1>5. IsFiniteSet(loans)
  BY <1>3, <1>4, FS_Injection
<1>6. Cardinality(loans) \in Nat /\ Cardinality(LoanKeys) <= Cardinality(loans)
  BY <1>4, <1>5, FS_Surjection, FS_CardinalityType
<1>7. QED
  BY <1>1, <1>2, <1>3, <1>6

\* The loan ids that other borrows have taken leave one for w.
LEMMA RoomForOne ==
  ASSUME IInv, RoomInv, NEW w \in Workers, pc[w] = "b_flush"
  PROVE  LoanIds \ UsedIds(w) # {}
<1> DEFINE others == {u \in Workers \ {w} : pc[u] \in LentPCs}
           taken  == {row[u].id : u \in others}
           id     == [u \in others |-> row[u].id]
<1>1. /\ IsFiniteSet(InFlight) /\ Cardinality(InFlight) \in Nat
      /\ IsFiniteSet(LoanKeys) /\ Cardinality(LoanKeys) \in Nat
      /\ Cardinality(LoanIds) \in Nat
  BY Counted DEF IInv, TableInv
<1>2. w \in InFlight /\ others \subseteq InFlight \ {w}
  BY DEF InFlight, BorrowPCs, LentPCs
<1>3. IsFiniteSet(InFlight \ {w}) /\ Cardinality(InFlight \ {w}) = Cardinality(InFlight) - 1
  BY <1>1, <1>2, FS_RemoveElement
<1>4. IsFiniteSet(others) /\ Cardinality(others) <= Cardinality(InFlight) - 1
  BY <1>2, <1>3, FS_Subset
<1>5. id \in Surjection(others, taken)
  BY DEF Surjection
<1>6. IsFiniteSet(taken) /\ Cardinality(taken) <= Cardinality(others)
  BY <1>4, <1>5, FS_Surjection
<1>7. /\ Cardinality(taken) \in Nat /\ Cardinality(others) \in Nat
  BY <1>4, <1>6, FS_CardinalityType
<1>8. /\ IsFiniteSet(LoanKeys \cup taken)
      /\ Cardinality(LoanKeys \cup taken) \in Nat
      /\ Cardinality(LoanKeys \cup taken) <= Cardinality(LoanKeys) + Cardinality(taken)
  <2>1. /\ IsFiniteSet(LoanKeys \cup taken) /\ IsFiniteSet(LoanKeys \cap taken)
        /\ Cardinality(LoanKeys \cup taken) =
             Cardinality(LoanKeys) + Cardinality(taken) - Cardinality(LoanKeys \cap taken)
    BY <1>1, <1>6, FS_Union, FS_Intersection
  <2>2. Cardinality(LoanKeys \cap taken) \in Nat /\ Cardinality(LoanKeys \cup taken) \in Nat
    BY <2>1, FS_CardinalityType
  <2>3. QED
    BY <1>1, <1>7, <2>1, <2>2
<1>9. Cardinality(LoanKeys \cup taken) < Cardinality(LoanIds)
  BY <1>1, <1>4, <1>6, <1>7, <1>8 DEF RoomInv
<1>10. ~(LoanIds \subseteq LoanKeys \cup taken)
  BY <1>1, <1>8, <1>9, FS_Subset
<1>11. UsedIds(w) = LoanKeys \cup taken
  BY DEF UsedIds, Pending, LoanKeys, LentPCs
<1>12. QED
  BY <1>10, <1>11

\* No step but a borrow's first adds a borrow in flight.
LEMMA FlightsLand ==
  ASSUME TypeOK, [Next]_vars, \A w \in Workers : ~BorrowBegin(w)
  PROVE  InFlight' \subseteq InFlight
<1>1. ASSUME NEW w \in Workers, NEW label, Goto(w, label),
             label \in BorrowPCs => pc[w] \in BorrowPCs
      PROVE  InFlight' \subseteq InFlight
  BY <1>1 DEF Goto, TypeOK, InFlight
<1>2. ASSUME NEW w \in Workers, Close(w)
      PROVE  InFlight' \subseteq InFlight
  BY <1>2 DEF Close, TypeOK, InFlight, BorrowPCs
<1>3. ASSUME NEW w \in Workers, Serve(w)
      PROVE  InFlight' \subseteq InFlight
  <2>1. CASE \/ BorrowReadMember(w) \/ BorrowLockCopy(w) \/ BorrowLockAvailable(w)
            \/ BorrowFlush(w) \/ BorrowParent(w)
    BY <1>1, <1>2, <2>1 DEF BorrowReadMember, BorrowLockCopy, BorrowLockAvailable, BorrowFlush,
       BorrowParent, Claim, Rollback, BorrowPCs
  <2>2. CASE CommitBorrow(w) \/ CommitReturn(w) \/ CommitUpdateCopy(w) \/ CommitUpdateMember(w)
    BY <1>2, <2>2 DEF CommitBorrow, CommitReturn, CommitUpdateCopy, CommitUpdateMember
  <2>3. CASE \/ ReturnLockLoan(w) \/ ReturnLockCopy(w) \/ UpdateCopyLock(w) \/ UpdateCopyCheck(w)
            \/ UpdateMemberLock(w) \/ UpdateMemberKey(w)
    BY <1>1, <1>2, <2>3 DEF ReturnLockLoan, TakeBack, ReturnLockCopy, UpdateCopyLock,
       UpdateCopyCheck, UpdateMemberLock, UpdateMemberKey, Rollback, BorrowPCs
  <2>4. QED
    BY <1>3, <2>1, <2>2, <2>3 DEF Serve
<1>4. ASSUME NEW w \in Workers, Abort(w) \/ DeadlockDetected(w)
      PROVE  InFlight' \subseteq InFlight
  BY <1>2, <1>4 DEF Abort, DeadlockDetected, Rollback
<1>5. ASSUME NEW w \in Workers, Accept(w)
      PROVE  InFlight' \subseteq InFlight
  BY <1>5 DEF Accept, ReturnBegin, UpdateCopyBegin, UpdateMemberRead, Begin, TypeOK, InFlight,
     BorrowPCs
<1>6. CASE UNCHANGED pc
  BY <1>6 DEF InFlight
<1>7. QED
  BY <1>3, <1>4, <1>5, <1>6 DEF Next, CreateBook, CreateMember, AddCopy, Tick, session, vars

\* One element more makes a set at most one larger.
LEMMA OneMore ==
  ASSUME NEW S, NEW x, IsFiniteSet(S)
  PROVE  Cardinality(S \cup {x}) \in Nat /\ Cardinality(S \cup {x}) <= Cardinality(S) + 1
<1>1. Cardinality(S) \in Nat
  BY FS_CardinalityType
<1>2. Cardinality(S \cup {x}) = Cardinality(S) \/ Cardinality(S \cup {x}) = Cardinality(S) + 1
  BY FS_AddElement, Zenon
<1>3. QED
  BY <1>1, <1>2

\* The bound in BorrowBegin keeps an id for every borrow in flight.
LEMMA RoomStep == IInv /\ RoomInv /\ [Next]_vars => RoomInv'
<1>1. SUFFICES ASSUME IInv, RoomInv, [Next]_vars
               PROVE  RoomInv'
  OBVIOUS
<1>2. /\ IsFiniteSet(InFlight) /\ Cardinality(InFlight) \in Nat
      /\ IsFiniteSet(LoanKeys) /\ Cardinality(LoanKeys) \in Nat
      /\ Cardinality(LoanIds) \in Nat /\ Cardinality(loans) \in Nat
      /\ Cardinality(LoanKeys) <= Cardinality(loans)
  BY <1>1, Counted DEF IInv, TableInv
<1>3. ASSUME NEW w \in Workers, BorrowBegin(w)
      PROVE  RoomInv'
  <2>1. loans' = loans /\ LoanKeys' = LoanKeys
    BY <1>3 DEF BorrowBegin, Begin, tables, LoanKeys
  <2>2. InFlight' = InFlight \cup {w}
    BY <1>1, <1>3 DEF BorrowBegin, Begin, IInv, TypeOK, InFlight, BorrowPCs
  <2>3. Cardinality(InFlight') <= Cardinality(InFlight) + 1 /\ Cardinality(InFlight') \in Nat
    BY <1>2, <2>2, OneMore
  <2>4. Cardinality(loans) + Cardinality(InFlight) < Cardinality(LoanIds)
    BY <1>3 DEF BorrowBegin
  <2>5. QED
    BY <1>2, <2>1, <2>3, <2>4 DEF RoomInv
<1>4. ASSUME NEW w \in Workers, CommitBorrow(w)
      PROVE  RoomInv'
  <2>1. w \in InFlight
    BY <1>4 DEF CommitBorrow, InFlight, BorrowPCs
  <2>2. InFlight' = InFlight \ {w}
    BY <1>1, <1>4 DEF CommitBorrow, Close, IInv, TypeOK, InFlight, BorrowPCs
  <2>3. LoanKeys' = LoanKeys \cup {row[w].id}
    BY <1>4 DEF CommitBorrow, LoanKeys
  <2>4. Cardinality(InFlight') = Cardinality(InFlight) - 1
    BY <1>2, <2>1, <2>2, FS_RemoveElement
  <2>5. Cardinality(LoanKeys') <= Cardinality(LoanKeys) + 1 /\ Cardinality(LoanKeys') \in Nat
    BY <1>2, <2>3, OneMore
  <2>6. QED
    BY <1>1, <1>2, <2>4, <2>5 DEF RoomInv
<1>5. CASE \A w \in Workers : ~BorrowBegin(w) /\ ~CommitBorrow(w)
  <2>1. InFlight' \subseteq InFlight
    BY <1>1, <1>5, FlightsLand DEF IInv
  <2>2. LoanKeys' \subseteq LoanKeys
    <3>1. ASSUME NEW w \in Workers, CommitReturn(w)
          PROVE  LoanKeys' \subseteq LoanKeys
      <4>1. PICK r \in loans : Closes(row[w], r)
        BY <1>1, <3>1 DEF CommitReturn, IInv, WorkerInv, ReturnInv, ReturningPCs
      <4>2. row[w].id = r.id
        BY <1>1, <4>1, ReturnedFacts DEF Closes, IInv, TypeOK, LoanRow
      <4>3. QED
        BY <3>1, <4>2 DEF CommitReturn, LoanKeys
    <3>2. CASE \A w \in Workers : ~CommitReturn(w)
      BY <1>1, <1>5, <3>2, LoansNotNew DEF LoanKeys
    <3>3. QED
      BY <3>1, <3>2
  <2>3. /\ Cardinality(InFlight') <= Cardinality(InFlight) /\ Cardinality(InFlight') \in Nat
        /\ Cardinality(LoanKeys') <= Cardinality(LoanKeys) /\ Cardinality(LoanKeys') \in Nat
    BY <1>2, <2>1, <2>2, FS_Subset, FS_CardinalityType
  <2>4. QED
    BY <1>1, <1>2, <2>3 DEF RoomInv
<1>6. QED
  BY <1>3, <1>4, <1>5

\* A copy that is locked exists.
LEMMA HeldExists ==
  ASSUME IInv, NEW v \in Workers, held[v] # None
  PROVE  held[v] \in CopyIds /\ copies[held[v]] # "absent"
<1>1. held[v] \in CopyIds /\ pc[v] \in HoldingPCs
  BY DEF IInv, TypeOK, WorkerInv, SessionInv
<1>2. CASE pc[v] = "r_commit"
  <2>1. PICK r \in loans : Closes(row[v], r)
    BY <1>2 DEF IInv, WorkerInv, ReturnInv, ReturningPCs
  <2>2. row[v].copy = r.copy /\ held[v] = row[v].copy
    BY <1>2, <2>1, ReturnedFacts DEF Closes, IInv, TypeOK, LoanRow, WorkerInv, ReturnInv
  <2>3. copies[held[v]] = "on_loan"
    BY <2>1, <2>2 DEF Closes, IInv, TableInv, OpenLoanIsOnLoan
  <2>4. QED
    BY <1>1, <2>3
<1>3. CASE pc[v] # "r_commit"
  BY <1>1, <1>3 DEF HoldingPCs, LentPCs, IInv, WorkerInv, BorrowInv, StaffInv
<1>4. QED
  BY <1>2, <1>3

\* A statement that runs has passed its guard.
LEMMA Guarded ==
  ASSUME TypeOK, NEW w \in Workers, Serve(w)
  PROVE  CanServe(w)
<1>1. CASE BorrowReadMember(w)
  BY <1>1 DEF BorrowReadMember, CanServe, MemberStatus
<1>2. CASE BorrowLockCopy(w)
  BY <1>2 DEF BorrowLockCopy, CanServe
<1>3. CASE BorrowLockAvailable(w)
  BY <1>3 DEF BorrowLockAvailable, CanServe
<1>4. CASE BorrowFlush(w)
  BY <1>4 DEF BorrowFlush, CanServe
<1>5. CASE ReturnLockLoan(w)
  BY <1>5 DEF ReturnLockLoan, CanServe
<1>6. CASE ReturnLockCopy(w)
  BY <1>6 DEF ReturnLockCopy, CanServe
<1>7. CASE UpdateCopyLock(w)
  <2>1. req[w].copy # None
    BY <1>7, LendingAssumption DEF UpdateCopyLock, TypeOK, RequestTyped, CopyPCs, UpdateCopyRequests
  <2>2. QED
    BY <1>7, <2>1 DEF UpdateCopyLock, CanServe
<1>8. CASE \/ CommitBorrow(w) \/ CommitReturn(w) \/ UpdateCopyCheck(w) \/ CommitUpdateCopy(w)
           \/ CommitUpdateMember(w)
  BY <1>8 DEF CommitBorrow, CommitReturn, UpdateCopyCheck, CommitUpdateCopy,
     CommitUpdateMember, CanServe
<1>9. CASE BorrowParent(w) \/ UpdateMemberLock(w) \/ UpdateMemberKey(w)
  BY <1>9 DEF BorrowParent, UpdateMemberLock, UpdateMemberKey, CanServe
<1>10. QED
  BY <1>1, <1>2, <1>3, <1>4, <1>5, <1>6, <1>7, <1>8, <1>9 DEF Serve

\* Whoever may go on waits for nobody: no lock that another request has is passed.
LEMMA ServedWaitForNobody ==
  ASSUME IInv, NEW w \in Workers, CanServe(w)
  PROVE  WaitsFor(w) = {}
<1>1. SUFFICES ASSUME NEW v \in WaitsFor(w)
               PROVE  FALSE
  OBVIOUS
<1>2. v \in Workers \ {w}
  BY <1>1 DEF WaitsFor
<1>3. CASE pc[w] \in {"b_copy", "c_lock"}
  <2>1. held[v] # None /\ held[v] = req[w].copy
    BY <1>1, <1>3 DEF WaitsFor
  <2>2. copies[req[w].copy] # "absent" /\ req[w].copy # None
    BY <1>2, <2>1, HeldExists
  <2>3. CopyFree(w, req[w].copy)
    BY <1>3, <2>2 DEF CanServe
  <2>4. QED
    BY <1>2, <2>1, <2>3 DEF CopyFree
<1>4. CASE pc[w] = "b_flush"
  <2>1. pc[v] \in {"b_parent", "b_commit"} /\ row[v].copy = held[w]
    BY <1>1, <1>4 DEF WaitsFor
  <2>2. row[v] \in Pending(w)
    BY <1>2, <2>1 DEF Pending
  <2>3. \A r \in Pending(w) : r.copy # held[w]
    BY <1>4 DEF CanServe, IInv, WorkerInv, BorrowInv
  <2>4. QED
    BY <2>1, <2>2, <2>3
<1>5. CASE pc[w] = "r_loan"
  <2>1. pc[v] \in ReturningPCs /\ row[v].id = req[w].loan
    BY <1>1, <1>5 DEF WaitsFor, LocksLoan, ReturningPCs
  <2>2. PICK r \in loans : Closes(row[v], r)
    BY <1>2, <2>1 DEF IInv, WorkerInv, ReturnInv
  <2>3. row[v].id = r.id
    BY <2>2, ReturnedFacts DEF Closes, IInv, TypeOK, LoanRow
  <2>4. LoansById(req[w].loan) # {}
    BY <2>1, <2>2, <2>3 DEF LoansById
  <2>5. LoanFree(w, req[w].loan)
    BY <1>5, <2>4 DEF CanServe
  <2>6. QED
    BY <1>2, <2>1, <2>5 DEF LoanFree, LocksLoan, ReturningPCs
<1>6. CASE pc[w] = "r_copy"
  <2>1. held[v] = row[w].copy
    BY <1>1, <1>6 DEF WaitsFor
  <2>2. QED
    BY <1>2, <1>6, <2>1 DEF CanServe, CopyFree
<1>7. CASE pc[w] \in {"b_parent", "m_lock", "m_key"}
  BY <1>1, <1>2, <1>7 DEF WaitsFor, CanServe
<1>8. pc[w] \in {"b_copy", "c_lock", "b_flush", "r_loan", "r_copy", "b_parent", "m_lock", "m_key"}
  BY <1>1 DEF WaitsFor, LookupWaits
<1>9. QED
  BY <1>3, <1>4, <1>5, <1>6, <1>7, <1>8

\* A nonempty set of copies has a first one in the order of their ids.
LEMMA FirstCopy ==
  ASSUME NEW C \in SUBSET CopyIds, C # {}
  PROVE  \E c \in C : \A d \in C : c <= d
<1>1. C \subseteq Nat
  BY LendingAssumption
<1> DEFINE Before == OpToRel(<, Nat)
<1>2. IsWellFoundedOn(Before, Nat)
  BY NatLessThanWellFounded, Zenon
<1>3. \A c, d \in Nat : d < c => <<d, c>> \in Before
  BY DEF OpToRel
<1>4. PICK c \in C : \A d \in C : <<d, c>> \notin Before
  <2> HIDE DEF Before
  <2>1. QED
    BY <1>1, <1>2, WFMin
<1>5. \A d \in C : ~(d < c)
  <2> HIDE DEF Before
  <2>1. QED
    BY <1>1, <1>3, <1>4
<1>6. QED
  BY <1>1, <1>5

\* Whoever waits for nobody may go on: no statement is refused for another reason.
LEMMA FreeToGoOn ==
  ASSUME IInv, RoomInv, NEW w \in Workers, Running(w), WaitsFor(w) = {}
  PROVE  CanServe(w)
<1>1. TypeOK
  BY DEF IInv
<1>2. \A v \in Workers \ {w} : v \notin WaitsFor(w)
  OBVIOUS
<1>3. CASE pc[w] \in {"b_copy", "c_lock"} /\ req[w].copy # None
  BY <1>2, <1>3 DEF WaitsFor, CopyFree, CanServe
<1>4. CASE pc[w] \in {"b_copy", "c_lock"} /\ req[w].copy = None
  <2>1. pc[w] = "b_copy"
    BY <1>1, <1>4, LendingAssumption DEF TypeOK, RequestTyped, CopyPCs, UpdateCopyRequests
  <2>2. Lendable(w, req[w].book) \subseteq CopyIds
    BY DEF Lendable
  <2>3. QED
    BY <1>4, <2>1, <2>2, FirstCopy DEF CanServe
<1>5. CASE pc[w] = "b_flush"
  <2>1. \A r \in Pending(w) : r.copy # held[w]
    BY <1>2, <1>5 DEF Pending, WaitsFor
  <2>2. QED
    BY <1>5, <2>1, RoomForOne DEF CanServe
<1>6. CASE pc[w] = "r_loan"
  BY <1>2, <1>6 DEF WaitsFor, LoanFree, CanServe
<1>7. CASE pc[w] = "r_copy"
  BY <1>2, <1>7 DEF WaitsFor, CopyFree, CanServe
<1>8. CASE pc[w] = "b_member"
  <2>1. req[w].member \in MemberIds
    BY <1>1, <1>8 DEF TypeOK, RequestTyped, BorrowPCs, BorrowRequests
  <2>2. QED
    BY <1>1, <1>8, <2>1 DEF TypeOK, CanServe
<1>9. CASE pc[w] \in {"b_commit", "r_commit", "c_check", "c_commit", "m_commit"}
  BY <1>9 DEF CanServe
<1>12. CASE pc[w] \in {"b_parent", "m_lock", "m_key"}
  BY <1>2, <1>12 DEF WaitsFor, CanServe
<1>10. pc[w] \in Processing
  BY <1>1 DEF TypeOK, Running
<1>11. QED
  BY <1>3, <1>4, <1>5, <1>6, <1>7, <1>8, <1>9, <1>10, <1>12
     DEF Processing, BorrowPCs, ReturnPCs, CopyPCs, MemberPCs

\* Every borrow in flight will find an id for its loan, however many there are: the
\* bound on loans refuses no request that has been accepted.
THEOREM RoomForEveryBorrow == Spec => []RoomInv
<1>1. Init => RoomInv
  <2>1. SUFFICES ASSUME Init
                 PROVE  RoomInv
    OBVIOUS
  <2>2. LoanKeys = {} /\ InFlight = {}
    BY <2>1 DEF Init, LoanKeys, InFlight, BorrowPCs
  <2>3. Cardinality(LoanIds) \in Nat /\ Cardinality({}) = 0
    BY LendingAssumption, FS_CardinalityType, FS_EmptySet
  <2>4. QED
    BY <2>2, <2>3 DEF RoomInv
<1>2. QED
  BY <1>1, RoomStep, Inductive, PTL DEF Spec

\* Of the sets of workers that wait for each other only, and have a worker, one
\* has no smaller one in it.
LEMMA LeastChain ==
  ASSUME NEW chain \in SUBSET Workers, chain # {},
         \A u \in chain : WaitsFor(u) \subseteq chain
  PROVE  \E least \in SUBSET chain :
           /\ least # {} /\ \A u \in least : WaitsFor(u) \subseteq least
           /\ \A C \in SUBSET least :
                C # {} /\ (\A u \in C : WaitsFor(u) \subseteq C) => C = least
<1> DEFINE Chains == {C \in SUBSET chain : C # {} /\ \A u \in C : WaitsFor(u) \subseteq C}
           Smaller == StrictSubsetOrdering(chain)
<1>1. IsFiniteSet(chain)
  BY LendingAssumption, FS_Subset
<1>2. IsWellFoundedOn(Smaller, SUBSET chain)
  BY <1>1, FS_StrictSubsetOrderingWellFounded, FS_FiniteSubsetsOfFinite
<1>3. Chains \subseteq SUBSET chain /\ Chains # {}
  <2>1. chain \in Chains
    OBVIOUS
  <2>2. QED
    BY <2>1
<1>4. PICK least \in Chains : \A C \in Chains : <<C, least>> \notin Smaller
  <2> HIDE DEF Chains, Smaller
  <2>1. QED
    BY <1>2, <1>3, WFMin
<1>5. ASSUME NEW C \in SUBSET least, C # {}, \A u \in C : WaitsFor(u) \subseteq C, C # least
      PROVE  FALSE
  <2>1. C \in Chains
    BY <1>5
  <2>2. <<C, least>> \in Smaller
    BY <1>5 DEF StrictSubsetOrdering
  <2>3. QED
    BY <1>4, <2>1, <2>2
<1>6. QED
  BY <1>4, <1>5

\* In such a set, whoever waits is in a cycle.
LEMMA LeastChainIsCycle ==
  ASSUME NEW least \in SUBSET Workers, \A u \in least : WaitsFor(u) \subseteq least,
         \A C \in SUBSET least :
           C # {} /\ (\A u \in C : WaitsFor(u) \subseteq C) => C = least,
         NEW v \in least, WaitsFor(v) # {}
  PROVE  InCycle(v)
<1>1. SUFFICES ASSUME NEW others \in SUBSET (Workers \ {v}), WaitsFor(v) \subseteq others,
                      \A u \in others : WaitsFor(u) \subseteq others
               PROVE  FALSE
  BY DEF InCycle
<1>2. /\ least \cap others \in SUBSET least /\ least \cap others # {}
      /\ \A u \in least \cap others : WaitsFor(u) \subseteq least \cap others
  BY <1>1
<1>3. least \cap others = least
  BY <1>2
<1>4. QED
  BY <1>1, <1>3

\* Along every chain of waiting there is a request whose next statement can run, or an
\* exchange of e-mails.
EveryChainEnds ==
  \A w \in Workers : Running(w) =>
    \A chain \in SUBSET Workers :
      w \in chain /\ (\A u \in chain : WaitsFor(u) \subseteq chain) =>
        \E v \in chain : Running(v) /\ (CanServe(v) \/ (InCycle(v) /\ pc[v] = "m_key"))

\* However many borrows, returns and edits queue behind each other's loans, copies,
\* members and e-mails, one of those that a request waits for can run its next
\* statement, or is in an exchange of e-mails, which the deadlock detector ends.
THEOREM WaitsEnd == Spec => []EveryChainEnds
<1>1. ASSUME IInv, RoomInv, NEW w \in Workers, Running(w), NEW chain \in SUBSET Workers,
             w \in chain, \A u \in chain : WaitsFor(u) \subseteq chain
      PROVE  \E v \in chain : Running(v) /\ (CanServe(v) \/ (InCycle(v) /\ pc[v] = "m_key"))
  <2> DEFINE busy == {u \in chain : Running(u)}
  <2>1. busy \in SUBSET Workers /\ busy # {} /\ \A u \in busy : WaitsFor(u) \subseteq busy
    BY <1>1, Behind
  <2>2. PICK least \in SUBSET busy :
          /\ least # {} /\ \A u \in least : WaitsFor(u) \subseteq least
          /\ \A C \in SUBSET least :
               C # {} /\ (\A u \in C : WaitsFor(u) \subseteq C) => C = least
    <3> HIDE DEF busy
    <3>1. QED
      BY <2>1, LeastChain
  <2>3. PICK v : v \in least
    BY <2>2
  <2>4. v \in Workers /\ v \in chain /\ Running(v)
    BY <2>1, <2>2, <2>3
  <2>5. WaitsFor(v) = {} \/ InCycle(v)
    BY <2>1, <2>2, <2>3, LeastChainIsCycle
  <2>6. WaitsFor(v) = {} => CanServe(v)
    BY <1>1, <2>4, FreeToGoOn
  <2>7. InCycle(v) => pc[v] = "m_key"
    BY <1>1, <2>4, CycleOfKeys
  <2>8. QED
    BY <2>4, <2>5, <2>6, <2>7
<1>2. IInv /\ RoomInv => EveryChainEnds
  BY <1>1 DEF EveryChainEnds
<1>3. QED
  BY <1>2, Inductive, RoomForEveryBorrow, PTL

\* No statement of a request runs past a lock that another request has.
THEOREM LocksRespected == Spec => [][\A w \in Workers : Serve(w) => WaitsFor(w) = {}]_vars
<1>1. IInv => TypeOK
  BY DEF IInv
<1>2. IInv => \A w \in Workers : Serve(w) => WaitsFor(w) = {}
  BY <1>1, Guarded, ServedWaitForNobody
<1>3. QED
  BY <1>2, Inductive, PTL DEF Spec

-----------------------------------------------------------------------------
(* Refinement of the serial service *)

\* The empty tables are where the serial service starts.
LEMMA InitSerial == Init => Abs!Init
  BY DEF Init, Abs!Init

\* The steps that touch no table are stutters.
LEMMA SilentSerial ==
  ASSUME UNCHANGED <<tables, now>>
  PROVE  [Abs!Next]_(Abs!tables)
BY DEF tables, Abs!tables

\* COMMIT of a borrow is Lend.
LEMMA BorrowSerial ==
  ASSUME IInv, NEW w \in Workers, CommitBorrow(w)
  PROVE  Abs!Next
<1> DEFINE c == held[w]
           x == row[w]
<1>1. TypeOK /\ WorkerInv(w) /\ TableInv /\ pc[w] = "b_commit"
  BY DEF IInv, CommitBorrow
<1>2. /\ c \in CopyIds /\ x \in LoanRow /\ x.copy = c /\ Open(x) /\ x.borrowed <= now /\ x.fine = 0
      /\ \A r \in loans : r.id # x.id
      /\ \A r \in loans : r.copy = c => Precedes(r, x)
      /\ x.member = req[w].member /\ members[x.member] # "absent"
      /\ copies[c] = "available" /\ ~OpenLoan(c)
  BY <1>1 DEF TypeOK, WorkerInv, SessionInv, BorrowInv, HoldingPCs, WritingPCs, LentPCs
<1>3. x = [id |-> x.id, copy |-> c, member |-> x.member, borrowed |-> x.borrowed,
           returned |-> None, fine |-> 0]
  BY <1>2 DEF LoanRow, Open
<1>4. x.member \in MemberIds /\ x.id \in LoanIds /\ x.borrowed \in 0 .. now
  BY <1>1, <1>2 DEF LoanRow, TypeOK
<1>5. /\ loans' = loans \cup {x} /\ copies' = [copies EXCEPT ![c] = "on_loan"]
      /\ UNCHANGED <<books, members, emails, now>>
  BY DEF CommitBorrow
<1>6. \A r \in loans : r.copy = c => r.returned <= x.borrowed
  BY <1>2 DEF Precedes
<1>7. ~Abs!OpenLoan(c) /\ Abs!OnShelf(c)
  BY <1>2 DEF OpenLoan, Open, Abs!OpenLoan, Abs!Open, Abs!OnShelf
<1> HIDE DEF c, x
<1>8. Abs!Lend(x.member, c, x.id)
  BY <1>2, <1>3, <1>4, <1>5, <1>6, <1>7 DEF Abs!Lend
<1>9. QED
  BY <1>2, <1>4, <1>8 DEF Abs!Next

\* COMMIT of a return is TakeBack.
LEMMA ReturnSerial ==
  ASSUME IInv, NEW w \in Workers, CommitReturn(w)
  PROVE  Abs!Next
<1>1. TypeOK /\ WorkerInv(w) /\ TableInv /\ pc[w] = "r_commit"
  BY DEF IInv, CommitReturn
<1>2. PICK r \in loans : Closes(row[w], r)
  BY <1>1 DEF WorkerInv, ReturnInv, ReturningPCs
<1>3. PICK t \in r.borrowed .. now : row[w] = Returned(r, t)
  BY <1>2 DEF Closes
<1>4. Open(r) /\ r \in LoanRow /\ t \in Nat
  BY <1>1, <1>2, <1>3 DEF TypeOK, LoanRow, Closes
<1>5. row[w].id = r.id /\ held[w] = r.copy
  BY <1>1, <1>3, <1>4, ReturnedFacts DEF WorkerInv, ReturnInv
<1>6. loans' = (loans \ {r}) \cup
         {[r EXCEPT !.returned = t, !.fine = ComputeFine(r.borrowed + LoanPeriod, t)]}
  BY <1>1, <1>3, <1>5 DEF CommitReturn, TableInv, LoanInv, Returned, DueAt
<1>7. \E status \in {"available", "damaged"} : copies' = [copies EXCEPT ![r.copy] = status]
  BY <1>5 DEF CommitReturn
<1>8. /\ Open(r) /\ t \in r.borrowed .. now /\ copies[r.copy] = "on_loan"
      /\ UNCHANGED <<books, members, now>>
  BY <1>1, <1>3, <1>4 DEF CommitReturn, TableInv, OpenLoanIsOnLoan
<1>9. Abs!ComputeFine(r.borrowed + LoanPeriod, t) = ComputeFine(r.borrowed + LoanPeriod, t)
  BY DEF ComputeFine, CeilDays, Abs!ComputeFine, Abs!CeilDays
<1>10. Abs!TakeBack(r)
  BY <1>6, <1>7, <1>8, <1>9 DEF Abs!TakeBack, Abs!Open, Open
<1>11. QED
  BY <1>10 DEF Abs!Next

\* COMMIT of a status change of a copy is Relabel.
LEMMA UpdateCopySerial ==
  ASSUME IInv, NEW w \in Workers, CommitUpdateCopy(w)
  PROVE  [Abs!Next]_(Abs!tables)
<1>1. TypeOK /\ WorkerInv(w) /\ pc[w] = "c_commit" /\ UNCHANGED <<books, members, loans, now>>
  BY DEF IInv, CommitUpdateCopy
<1>2. held[w] \in CopyIds /\ req[w].status \in CopyStatus \cup {None} /\ copies[held[w]] # "absent"
  BY <1>1 DEF TypeOK, WorkerInv, SessionInv, StaffInv, HoldingPCs, RequestTyped, CopyPCs,
              UpdateCopyRequests
<1>3. CASE req[w].status = None
  BY <1>1, <1>3 DEF CommitUpdateCopy, Abs!tables
<1>4. CASE req[w].status # None
  <2>1. Abs!OpenLoan(held[w]) => req[w].status = "on_loan"
    BY <1>1, <1>4 DEF WorkerInv, StaffInv, OpenLoan, Open, Abs!OpenLoan, Abs!Open
  <2>2. Abs!Relabel(held[w], req[w].status)
    BY <1>1, <1>2, <1>4, <2>1 DEF CommitUpdateCopy, Abs!Relabel
  <2>3. QED
    BY <1>2, <1>4, <2>2 DEF Abs!Next, CopyStatus
<1>5. QED
  BY <1>3, <1>4

\* COMMIT of an update of a member is SetMember, or nothing that the serial service shows.
LEMMA UpdateMemberSerial ==
  ASSUME IInv, NEW w \in Workers, CommitUpdateMember(w)
  PROVE  [Abs!Next]_(Abs!tables)
<1> DEFINE m == req[w].member
           status == Written(req[w].status, members[m])
<1>1. TypeOK /\ WorkerInv(w) /\ pc[w] = "m_commit"
  BY DEF IInv, CommitUpdateMember
<1>2. m \in MemberIds /\ members[m] \in MemberStatus /\ status \in MemberStatus
  BY <1>1 DEF TypeOK, WorkerInv, StaffInv, RequestTyped, MemberPCs, UpdateMemberRequests, Written
<1>3. members' = [members EXCEPT ![m] = status] /\ UNCHANGED <<books, copies, loans, now>>
  BY DEF CommitUpdateMember, SetMember
<1> HIDE DEF m, status
<1>4. CASE members[m] = status
  BY <1>1, <1>2, <1>3, <1>4 DEF TypeOK, Abs!tables
<1>5. CASE members[m] # status
  <2>1. Abs!SetMember(m, status)
    BY <1>2, <1>3, <1>5 DEF Abs!SetMember, MemberStatus
  <2>2. QED
    BY <1>2, <2>1 DEF Abs!Next, MemberStatus
<1>6. QED
  BY <1>4, <1>5

\* The single writes are steps of their own there too.
LEMMA OutsideSerial ==
  ASSUME \/ \E b \in BookIds : CreateBook(b)
         \/ \E m \in MemberIds : CreateMember(m)
         \/ \E c \in CopyIds : AddCopy(c)
         \/ Tick
  PROVE  Abs!Next
<1>1. CASE \E b \in BookIds : CreateBook(b)
  BY <1>1 DEF CreateBook, Abs!AddBook, Abs!Next
<1>2. CASE \E m \in MemberIds : CreateMember(m)
  BY <1>2 DEF CreateMember, SetMember, Abs!SetMember, Abs!Next
<1>3. CASE \E c \in CopyIds : AddCopy(c)
  BY <1>3 DEF AddCopy, Abs!AddCopy, Abs!Next
<1>4. CASE Tick
  BY <1>4 DEF Tick, tables, Abs!Tick, Abs!Next
<1>5. QED
  BY <1>1, <1>2, <1>3, <1>4

\* Every other step leaves the tables alone.
LEMMA StepSerial == IInv /\ [Next]_vars => [Abs!Next]_(Abs!tables)
<1>1. SUFFICES ASSUME IInv, [Next]_vars PROVE [Abs!Next]_(Abs!tables)
  OBVIOUS
<1>2. ASSUME NEW w \in Workers, Accept(w) \/ Abort(w) \/ DeadlockDetected(w)
      PROVE  [Abs!Next]_(Abs!tables)
  BY <1>2, SilentSerial DEF Accept, BorrowBegin, ReturnBegin, UpdateCopyBegin, UpdateMemberRead,
     Begin, Abort, DeadlockDetected, Rollback
<1>3. ASSUME NEW w \in Workers, Serve(w)
      PROVE  [Abs!Next]_(Abs!tables)
  <2>1. CASE CommitBorrow(w)
    BY <1>1, <2>1, BorrowSerial
  <2>2. CASE CommitReturn(w)
    BY <1>1, <2>2, ReturnSerial
  <2>3. CASE CommitUpdateCopy(w)
    BY <1>1, <2>3, UpdateCopySerial
  <2>4. CASE CommitUpdateMember(w)
    BY <1>1, <2>4, UpdateMemberSerial
  <2>5. CASE UNCHANGED <<tables, now>>
    BY <2>5, SilentSerial
  <2>6. QED
    BY <1>3, <2>1, <2>2, <2>3, <2>4, <2>5 DEF Serve, BorrowReadMember, BorrowLockCopy,
       BorrowLockAvailable, Claim, BorrowFlush, ReturnLockLoan, TakeBack, ReturnLockCopy,
       BorrowParent, UpdateCopyLock, UpdateCopyCheck, UpdateMemberLock, UpdateMemberKey, Rollback
<1>4. CASE UNCHANGED vars
  BY <1>4, SilentSerial DEF vars, tables
<1>5. QED
  BY <1>1, <1>2, <1>3, <1>4, OutsideSerial DEF Next

\* The pool of concurrent transactions implements the serial service: what the
\* tables show could have come from one request after the other.
THEOREM Serializable == Spec => Serial
  BY InitSerial, StepSerial, Inductive, PTL DEF Spec, Serial, Abs!Spec
=============================================================================
