-------------------------- MODULE LoansPageProofs --------------------------
(***************************************************************************)
(* What the Loans tab has shown by the time all is quiet, for any number   *)
(* of loans, filters and calls in flight, answered in any order.  The      *)
(* invariants name the call that will bring what has not been shown yet.   *)
(***************************************************************************)
EXTENDS LoansPage, FiniteSetTheorems, TLAPS

InFlight == BagToSet(calls)

\* A call is about loans of the server, and a return that was served is final there.
CallOK(c) ==
  /\ c = [kind |-> c.kind, filter |-> c.filter, loan |-> c.loan, answer |-> c.answer]
  /\ c.kind \in {"load", "returnable", "borrow", "return"}
  /\ c.filter \in Filters
  /\ c.kind = "return" => c.loan \in Known
  /\ c.answer \notin {None, Failed} =>
       /\ c.answer \subseteq Known
       /\ c.kind = "return" => \A l \in c.answer : status[l] = "returned"

CallsInv == \A c \in InFlight : CallOK(c)

\* The rows of the filter were shown, or they are on their way.
FilterInv ==
  \/ failed \/ filter \in shown
  \/ \E c \in InFlight : c.kind = "load" /\ c.filter = filter

\* A list that will not bring loan l back: it is yet to be made, or came without l.
Leaving(l, c) == c.answer \in {None, Failed} \/ l \notin c.answer

\* At most one picker list is in flight.
OneList == \A c \in Lists : Lists = {c} /\ calls[c] = 1

\* Loan l is off the picker or about to leave it, and nothing will put it back.
StaysOut(l) ==
  /\ \A c \in Lists : Leaving(l, c)
  /\ l \in returnable => Lists # {}

PickerInv ==
  /\ \A l \in returnedHere : status[l] = "returned"
  /\ ~overlapped => OneList /\ (failed \/ \A l \in returnedHere : StaysOut(l))

IInv == TypeOK /\ CallsInv /\ FilterInv /\ PickerInv

-----------------------------------------------------------------------------
(* Bags *)

\* Putting a set of calls in flight, one copy of each.
LEMMA BagAdd ==
  ASSUME NEW B, IsABag(B), NEW S
  PROVE  /\ IsABag(B (+) SetToBag(S))
         /\ BagToSet(B (+) SetToBag(S)) = BagToSet(B) \cup S
         /\ \A x \in BagToSet(B) \ S : (B (+) SetToBag(S))[x] = B[x]
         /\ \A x \in S \ BagToSet(B) : (B (+) SetToBag(S))[x] = 1
  BY DEF IsABag, BagToSet, SetToBag, (+)

\* Taking one copy of a call out leaves every other call in flight.
LEMMA BagTake ==
  ASSUME NEW B, IsABag(B), NEW e
  PROVE  /\ IsABag(B (-) SetToBag({e}))
         /\ BagToSet(B (-) SetToBag({e})) \subseteq BagToSet(B)
         /\ BagToSet(B) \ {e} \subseteq BagToSet(B (-) SetToBag({e}))
         /\ \A x \in BagToSet(B) \ {e} : (B (-) SetToBag({e}))[x] = B[x]
         /\ e \in BagToSet(B) /\ B[e] = 1 => e \notin BagToSet(B (-) SetToBag({e}))
<1> DEFINE One == SetToBag({e})
           D   == [x \in DOMAIN B |-> IF x \in DOMAIN One THEN B[x] - One[x] ELSE B[x]]
           R   == [x \in {d \in DOMAIN D : D[d] > 0} |-> D[x]]
<1>1. B (-) One = R
  BY DEF (-)
<1>2. \A x \in DOMAIN B : B[x] \in Nat /\ B[x] > 0
  BY DEF IsABag
<1>3. DOMAIN One = {e} /\ One[e] = 1
  BY DEF SetToBag
<1>4. DOMAIN D = DOMAIN B /\ \A x \in DOMAIN B : D[x] \in Int /\ (x # e => D[x] = B[x])
  BY <1>2, <1>3
<1>5. \A x \in DOMAIN R : x \in DOMAIN B /\ R[x] \in {n \in Nat : n > 0}
  BY <1>4
<1>6. \A x \in DOMAIN B : x # e => x \in DOMAIN R /\ R[x] = B[x]
  BY <1>2, <1>4
<1>7. IsABag(R)
  BY <1>5 DEF IsABag
<1>8. e \in DOMAIN B /\ B[e] = 1 => e \notin DOMAIN R
  BY <1>3
<1>9. QED
  BY <1>1, <1>5, <1>6, <1>7, <1>8 DEF BagToSet

\* Answering a call changes that call only.
LEMMA AnswerStep ==
  ASSUME IsABag(calls), NEW c \in InFlight, NEW answer, Answer(c, answer)
  PROVE  LET d == [c EXCEPT !.answer = answer]
         IN  /\ IsABag(calls')
             /\ InFlight \ {c} \subseteq InFlight'
             /\ InFlight' \subseteq InFlight \cup {d}
             /\ d \in InFlight'
             /\ \A x \in InFlight \ {c, d} : calls'[x] = calls[x]
             /\ calls[c] = 1 /\ d \notin InFlight \ {c} =>
                  InFlight' \subseteq (InFlight \ {c}) \cup {d} /\ calls'[d] = 1
<1> DEFINE B == calls (-) SetToBag({c})
           d == [c EXCEPT !.answer = answer]
<1>1. /\ IsABag(B) /\ BagToSet(B) \subseteq BagToSet(calls)
      /\ BagToSet(calls) \ {c} \subseteq BagToSet(B)
      /\ \A x \in BagToSet(calls) \ {c} : B[x] = calls[x]
      /\ c \in BagToSet(calls) /\ calls[c] = 1 => c \notin BagToSet(B)
  BY BagTake
<1>2. calls' = B (+) SetToBag({d})
  BY DEF Answer
<1> HIDE DEF B, d
<1>3. /\ IsABag(B (+) SetToBag({d})) /\ BagToSet(B (+) SetToBag({d})) = BagToSet(B) \cup {d}
      /\ \A x \in BagToSet(B) \ {d} : (B (+) SetToBag({d}))[x] = B[x]
      /\ \A x \in {d} \ BagToSet(B) : (B (+) SetToBag({d}))[x] = 1
  BY <1>1, BagAdd
<1>4. /\ IsABag(calls') /\ BagToSet(calls') = BagToSet(B) \cup {d}
      /\ \A x \in BagToSet(B) \ {d} : calls'[x] = B[x]
      /\ d \notin BagToSet(B) => calls'[d] = 1
  BY <1>2, <1>3
<1>5. QED
  BY <1>1, <1>4 DEF InFlight, d

\* Receiving an answer ends that call only, and may send others.
LEMMA ReceiveStep ==
  ASSUME IsABag(calls), NEW c \in InFlight, NEW S, calls' = Done(c) (+) SetToBag(S)
  PROVE  /\ IsABag(calls')
         /\ (InFlight \ {c}) \cup S \subseteq InFlight'
         /\ InFlight' \subseteq InFlight \cup S
         /\ \A x \in S \ InFlight : calls'[x] = 1
<1>1. /\ IsABag(Done(c)) /\ BagToSet(Done(c)) \subseteq BagToSet(calls)
      /\ BagToSet(calls) \ {c} \subseteq BagToSet(Done(c))
  BY BagTake DEF Done
<1>2. /\ IsABag(Done(c) (+) SetToBag(S))
      /\ BagToSet(Done(c) (+) SetToBag(S)) = BagToSet(Done(c)) \cup S
      /\ \A x \in S \ BagToSet(Done(c)) : (Done(c) (+) SetToBag(S))[x] = 1
  BY <1>1, BagAdd
<1>3. /\ IsABag(calls') /\ BagToSet(calls') = BagToSet(Done(c)) \cup S
      /\ \A x \in S \ BagToSet(Done(c)) : calls'[x] = 1
  BY <1>2
<1>4. QED
  BY <1>1, <1>3 DEF InFlight

-----------------------------------------------------------------------------
(* The server *)

\* Loans are never deleted, and a returned loan stays returned.
Grew ==
  /\ status' \in [LoanIds -> {"absent", "outstanding", "returned"}]
  /\ Known \subseteq Known'
  /\ \A l \in LoanIds : status[l] = "returned" => status'[l] = "returned"

\* A borrow adds a loan.
LEMMA LendGrew ==
  ASSUME TypeOK, NEW l \in LoanIds, Lend(l)
  PROVE  Grew /\ l \in Known'
  BY DEF Lend, Grew, TypeOK, Known

\* A return makes a loan returned for good.
LEMMA TakeBackGrew ==
  ASSUME TypeOK, NEW l \in LoanIds, TakeBack(l)
  PROVE  Grew /\ status'[l] = "returned"
  BY DEF TakeBack, Grew, TypeOK, Known

\* A step that writes nothing at the server keeps what holds there.
LEMMA NothingGrew ==
  ASSUME TypeOK, UNCHANGED status
  PROVE  Grew
  BY DEF Grew, TypeOK, Known

\* What is in flight stays true of the server.
LEMMA CallStaysOK ==
  ASSUME NEW c, CallOK(c), Grew
  PROVE  CallOK(c)'
<1>1. c.kind = "return" => c.loan \in Known'
  BY DEF CallOK, Grew
<1>2. ASSUME c.answer \notin {None, Failed}
      PROVE  /\ c.answer \subseteq Known'
             /\ c.kind = "return" => \A l \in c.answer : status'[l] = "returned"
  <2>1. c.answer \subseteq Known /\ c.answer \subseteq Known'
    BY <1>2 DEF CallOK, Grew
  <2>2. \A l \in c.answer : l \in LoanIds
    BY <2>1 DEF Known
  <2>3. QED
    BY <1>2, <2>1, <2>2 DEF CallOK, Grew
<1>3. QED
  BY <1>1, <1>2 DEF CallOK

\* A handler that only waits for its answer is done with the call.
LEMMA EndStep ==
  ASSUME IsABag(calls), NEW c \in InFlight, calls' = Done(c)
  PROVE  /\ IsABag(calls') /\ InFlight \ {c} \subseteq InFlight' /\ InFlight' \subseteq InFlight
         /\ \A x \in InFlight \ {c} : calls'[x] = calls[x]
         /\ calls[c] = 1 => c \notin InFlight'
<1>1. /\ IsABag(Done(c)) /\ BagToSet(Done(c)) \subseteq BagToSet(calls)
      /\ BagToSet(calls) \ {c} \subseteq BagToSet(Done(c))
      /\ \A x \in BagToSet(calls) \ {c} : Done(c)[x] = calls[x]
      /\ c \in BagToSet(calls) /\ calls[c] = 1 => c \notin BagToSet(Done(c))
  BY BagTake DEF Done
<1>2. QED
  BY <1>1 DEF InFlight

\* New calls are sent without an answer.
LEMMA NewCallOK ==
  ASSUME NEW kind \in {"load", "returnable", "borrow", "return"}, NEW f \in Filters, NEW loan,
         kind = "return" => loan \in Known
  PROVE  CallOK(Call(kind, f, loan))
  BY DEF CallOK, Call

\* So are the two calls of a reload.
LEMMA ReloadOK ==
  ASSUME NEW f \in Filters
  PROVE  \A c \in BagToSet(Reload(f)) : CallOK(c)
  BY NewCallOK DEF Reload, BagToSet, SetToBag

\* A step keeps CallsInv when the calls that are new are right.
LEMMA CallsKept ==
  ASSUME CallsInv, Grew, \A c \in InFlight' : c \in InFlight \/ CallOK(c)'
  PROVE  CallsInv'
  BY CallStaysOK DEF CallsInv

\* A step that no picker list takes part in.
LEMMA PickerKept ==
  ASSUME PickerInv, TypeOK, Grew, UNCHANGED <<returnable, returnedHere, overlapped>>,
         failed => failed', Lists' = Lists, \A c \in Lists : calls'[c] = calls[c]
  PROVE  PickerInv'
<1>1. \A l \in returnedHere : status'[l] = "returned"
  BY DEF PickerInv, TypeOK, Known, Grew
<1>2. OneList => OneList'
  BY DEF OneList
<1>3. \A l : StaysOut(l) => StaysOut(l)'
  BY DEF StaysOut, Leaving
<1>4. QED
  BY <1>1, <1>2, <1>3 DEF PickerInv

\* A list that is asked for with none in flight leaves out all that was returned here.
LEMMA PickerSent ==
  ASSUME NEW list, list.answer = None, Lists' = Lists \cup {list},
         Lists = {} => calls'[list] = 1, overlapped' = (Lists # {}),
         \A l \in returnedHere' : status'[l] = "returned"
  PROVE  PickerInv'
<1>1. ASSUME ~overlapped'
      PROVE  OneList' /\ \A l \in returnedHere' : StaysOut(l)'
  <2>1. Lists = {}
    BY <1>1
  <2>2. Lists' = {list} /\ calls'[list] = 1
    BY <2>1
  <2>3. OneList'
    BY <2>2 DEF OneList
  <2>4. \A l : StaysOut(l)'
    BY <2>2 DEF StaysOut, Leaving
  <2>5. QED
    BY <2>3, <2>4
<1>2. QED
  BY <1>1 DEF PickerInv

-----------------------------------------------------------------------------
(* The steps *)

\* The dropdown sets the filter and the effect sends for its rows.
LEMMA SetFilterStep ==
  ASSUME IInv, NEW f \in Filters, SetFilter(f)
  PROVE  IInv'
<1> USE DEF IInv
<1> DEFINE S == {Call("load", f, None), Call("returnable", f, None)}
           list == Call("returnable", f, None)
<1>1. /\ UNCHANGED <<status, table, returnable, borrowPicked, returnLoan, returnedHere, failed>>
      /\ filter' = f /\ shown' = {} /\ calls' = calls (+) SetToBag(S)
      /\ overlapped' = (Lists # {})
  BY DEF SetFilter, Reload
<1>2. IsABag(calls) /\ Grew
  BY <1>1, NothingGrew DEF TypeOK
<1>3. /\ Call("load", f, None) \in S /\ {c \in S : c.kind = "returnable"} = {list}
      /\ list.answer = None
  BY DEF Call
<1>4. \A c \in S : CallOK(c)
  BY NewCallOK
<1> HIDE DEF S, list
<1>5. /\ IsABag(calls') /\ InFlight' = InFlight \cup S
      /\ \A x \in S \ InFlight : calls'[x] = 1
  <2>1. /\ IsABag(calls (+) SetToBag(S)) /\ BagToSet(calls (+) SetToBag(S)) = BagToSet(calls) \cup S
        /\ \A x \in S \ BagToSet(calls) : (calls (+) SetToBag(S))[x] = 1
    BY <1>2, BagAdd
  <2>2. QED
    BY <1>1, <2>1 DEF InFlight
<1>6. TypeOK'
  BY <1>1, <1>5 DEF TypeOK, Known
<1>7. CallsInv'
  <2>1. \A c \in S : CallOK(c)'
    BY <1>2, <1>4, CallStaysOK
  <2>2. QED
    BY <1>2, <1>5, <2>1, CallsKept
<1>8. FilterInv'
  BY <1>1, <1>3, <1>5 DEF FilterInv, Call
<1>9. PickerInv'
  <2>1. Lists' = Lists \cup {list}
    BY <1>3, <1>5 DEF Lists, InFlight
  <2>2. Lists = {} => calls'[list] = 1
    BY <1>3, <1>5 DEF Lists, InFlight
  <2>3. \A l \in returnedHere' : status'[l] = "returned"
    BY <1>1 DEF PickerInv
  <2>4. QED
    BY <1>1, <1>3, <2>1, <2>2, <2>3, PickerSent
<1>10. QED
  BY <1>6, <1>7, <1>8, <1>9

\* Picking and dropping a member, a book or a loan.
LEMMA PickStep ==
  ASSUME IInv, PickBorrow \/ \E l \in LoanIds : PickReturn(l)
  PROVE  IInv'
<1> USE DEF IInv
<1>1. UNCHANGED <<status, filter, table, returnable, calls, shown, returnedHere, overlapped,
                  failed>>
  BY DEF PickBorrow, PickReturn, history
<1>2. borrowPicked' \in BOOLEAN
  BY DEF PickBorrow, PickReturn, TypeOK
<1>3. returnLoan' \in Known \cup {None}
  <2>1. CASE PickBorrow
    BY <2>1 DEF PickBorrow, TypeOK
  <2>2. ASSUME NEW l \in LoanIds, PickReturn(l)
        PROVE  returnLoan' \in Known \cup {None}
    BY <2>2 DEF PickReturn, TypeOK
  <2>3. QED
    BY <2>1, <2>2
<1>4. Grew /\ InFlight' = InFlight /\ Lists' = Lists
  BY <1>1, NothingGrew DEF InFlight, Lists
<1>5. TypeOK'
  BY <1>1, <1>2, <1>3 DEF TypeOK, Known
<1>6. CallsInv'
  BY <1>4, CallsKept
<1>7. FilterInv'
  BY <1>1, <1>4 DEF FilterInv
<1>8. PickerInv'
  BY <1>1, <1>4, PickerKept
<1>9. QED
  BY <1>5, <1>6, <1>7, <1>8

\* A click on a button, also on one whose call is still in flight.
LEMMA SubmitStep ==
  ASSUME IInv, NEW call, CallOK(call), call.kind # "returnable", Submit(call)
  PROVE  IInv'
<1> USE DEF IInv
<1>1. /\ UNCHANGED <<status, filter, table, returnable, borrowPicked, returnLoan>>
      /\ UNCHANGED <<shown, returnedHere, overlapped, failed>>
      /\ calls' = calls (+) SetToBag({call})
  BY DEF Submit, page, history
<1>2. IsABag(calls) /\ Grew
  BY <1>1, NothingGrew DEF TypeOK
<1>3. /\ IsABag(calls') /\ InFlight' = InFlight \cup {call}
      /\ \A x \in InFlight \ {call} : calls'[x] = calls[x]
  <2>1. /\ IsABag(calls (+) SetToBag({call}))
        /\ BagToSet(calls (+) SetToBag({call})) = BagToSet(calls) \cup {call}
        /\ \A x \in BagToSet(calls) \ {call} : (calls (+) SetToBag({call}))[x] = calls[x]
    BY <1>2, BagAdd
  <2>2. QED
    BY <1>1, <2>1 DEF InFlight
<1>4. TypeOK'
  BY <1>1, <1>3 DEF TypeOK, Known
<1>5. CallsInv'
  BY <1>2, <1>3, CallStaysOK, CallsKept
<1>6. FilterInv'
  BY <1>1, <1>3 DEF FilterInv
<1>7. PickerInv'
  <2>1. Lists' = Lists /\ \A x \in Lists : calls'[x] = calls[x]
    BY <1>3 DEF Lists, InFlight
  <2>2. QED
    BY <1>1, <1>2, <2>1, PickerKept
<1>8. QED
  BY <1>4, <1>5, <1>6, <1>7

\* A step of the server or of another desk takes nothing off the page.
LEMMA ServerStep ==
  ASSUME IInv, Grew, UNCHANGED <<page, history>>, IsABag(calls'), CallsInv', PickerInv',
         \A c \in InFlight : \E d \in InFlight' : d.kind = c.kind /\ d.filter = c.filter
  PROVE  IInv'
<1> USE DEF IInv
<1>1. UNCHANGED <<filter, table, returnable, borrowPicked, returnLoan, shown, returnedHere,
                  overlapped, failed>>
  BY DEF page, history
<1>2. TypeOK'
  BY <1>1 DEF TypeOK, Grew
<1>3. FilterInv'
  BY <1>1 DEF FilterInv
<1>4. QED
  BY <1>2, <1>3

\* An answer to c that is an error, or that leaves out what was returned here.
LEMMA AnswerKept ==
  ASSUME IInv, Grew, UNCHANGED <<page, history>>, NEW c \in InFlight, c.answer = None,
         NEW answer, Answer(c, answer), CallOK([c EXCEPT !.answer = answer])',
         \A l \in returnedHere : c.kind = "returnable" => answer = Failed \/ l \notin answer
  PROVE  IInv'
<1> USE DEF IInv
<1> DEFINE d == [c EXCEPT !.answer = answer]
<1>1. /\ IsABag(calls') /\ InFlight \ {c} \subseteq InFlight'
      /\ InFlight' \subseteq InFlight \cup {d} /\ d \in InFlight'
      /\ \A x \in InFlight \ {c, d} : calls'[x] = calls[x]
      /\ calls[c] = 1 /\ d \notin InFlight \ {c} =>
           InFlight' \subseteq (InFlight \ {c}) \cup {d} /\ calls'[d] = 1
  BY AnswerStep DEF TypeOK
<1>2. d.kind = c.kind /\ d.filter = c.filter /\ d.answer = answer
  BY DEF CallsInv, CallOK
<1>3. CallOK(d)'
  OBVIOUS
<1> HIDE DEF d
<1>4. CallsInv'
  BY <1>1, <1>3, CallsKept
<1>5. UNCHANGED <<returnable, returnedHere, overlapped, failed>>
  BY DEF page, history
<1>6. CASE c.kind # "returnable"
  <2>1. Lists' = Lists /\ \A x \in Lists : calls'[x] = calls[x]
    BY <1>1, <1>2, <1>6 DEF Lists, InFlight
  <2>2. PickerInv'
    BY <1>5, <2>1, PickerKept
  <2>3. QED
    BY <1>1, <1>2, <1>4, <2>2, ServerStep
<1>7. CASE c.kind = "returnable"
  <2>1. ASSUME ~overlapped
        PROVE  Lists' = {d} /\ calls'[d] = 1 /\ Lists # {}
    <3>1. c \in Lists
      BY <1>7 DEF Lists, InFlight
    <3>2. Lists = {c} /\ calls[c] = 1
      BY <2>1, <3>1 DEF PickerInv, OneList
    <3>3. d \notin InFlight \ {c}
      BY <1>2, <1>7, <3>2 DEF Lists, InFlight
    <3>4. QED
      BY <1>1, <1>2, <1>7, <3>2, <3>3 DEF Lists, InFlight
  <2>2. \A l \in returnedHere : Leaving(l, d)
    BY <1>2, <1>7 DEF Leaving
  <2>3. \A l \in returnedHere : status'[l] = "returned"
    BY DEF PickerInv, TypeOK, Known, Grew
  <2>4. ASSUME ~overlapped
        PROVE  OneList' /\ \A l \in returnedHere : StaysOut(l)'
    BY <2>1, <2>2, <2>4 DEF OneList, StaysOut, Leaving
  <2>5. PickerInv'
    BY <1>5, <2>3, <2>4 DEF PickerInv
  <2>6. QED
    BY <1>1, <1>2, <1>4, <2>5, ServerStep
<1>8. QED
  BY <1>6, <1>7

\* What a served call did, and what its answer says of it.
LEMMA PerformStep ==
  ASSUME IInv, NEW c \in InFlight, NEW result \in SUBSET LoanIds, Perform(c, result)
  PROVE  /\ Grew /\ result \subseteq Known'
         /\ c.kind = "return" => \A l \in result : status'[l] = "returned"
         /\ \A l \in returnedHere : c.kind = "returnable" => l \notin result
<1> USE DEF IInv
<1>0. CallOK(c)
  BY DEF CallsInv
<1>1. c.kind \in {"load", "returnable", "borrow", "return"}
  BY <1>0 DEF CallOK
<1>2. CASE c.kind = "load"
  <2>1. result = {} /\ UNCHANGED status
    BY <1>2 DEF Perform
  <2>2. QED
    BY <1>2, <2>1, NothingGrew
<1>3. CASE c.kind = "returnable"
  <2>1. result = Newest(Known) \cap OpenIds /\ UNCHANGED status
    BY <1>3 DEF Perform
  <2>2. result \subseteq Known' /\ \A l \in returnedHere : l \notin result
    BY <2>1 DEF OpenIds, Known, PickerInv
  <2>3. QED
    BY <1>3, <2>1, <2>2, NothingGrew
<1>4. CASE c.kind = "borrow"
  <2>1. PICK l \in LoanIds : result = {l} /\ Lend(l)
    BY <1>4 DEF Perform
  <2>2. QED
    BY <1>4, <2>1, LendGrew
<1>5. CASE c.kind = "return"
  <2>1. result = {c.loan} /\ TakeBack(c.loan) /\ c.loan \in LoanIds
    BY <1>0, <1>5 DEF Perform, CallOK, Known
  <2>2. Grew /\ status'[c.loan] = "returned" /\ c.loan \in Known
    BY <1>0, <1>5, <2>1, TakeBackGrew DEF CallOK
  <2>3. QED
    BY <1>5, <2>1, <2>2 DEF Grew
<1>6. QED
  BY <1>1, <1>2, <1>3, <1>4, <1>5

\* A call with an answer is right when the answer is.
LEMMA AnsweredOK ==
  ASSUME NEW c, CallOK(c), Grew, NEW answer,
         answer \notin {None, Failed} =>
           /\ answer \subseteq Known'
           /\ c.kind = "return" => \A l \in answer : status'[l] = "returned"
  PROVE  CallOK([c EXCEPT !.answer = answer])'
<1> DEFINE d == [c EXCEPT !.answer = answer]
<1>1. /\ d = [kind |-> c.kind, filter |-> c.filter, loan |-> c.loan, answer |-> answer]
      /\ d.kind = c.kind /\ d.filter = c.filter /\ d.loan = c.loan /\ d.answer = answer
  BY DEF CallOK
<1>2. /\ c.kind \in {"load", "returnable", "borrow", "return"} /\ c.filter \in Filters
      /\ c.kind = "return" => c.loan \in Known'
  BY DEF CallOK, Grew
<1> HIDE DEF d
<1>3. CallOK(d)'
  BY <1>1, <1>2 DEF CallOK
<1>4. QED
  BY <1>3 DEF d

\* The server answers, or the call fails.
LEMMA ServeStep ==
  ASSUME IInv, NEW c \in Sent, Serve(c) \/ Refuse(c)
  PROVE  IInv'
<1>1. c \in InFlight /\ c.answer = None /\ CallOK(c)
  BY DEF Sent, InFlight, IInv, CallsInv
<1>2. ASSUME NEW result \in SUBSET LoanIds, Perform(c, result), Answer(c, result),
             UNCHANGED <<page, history>>
      PROVE  IInv'
  <2>1. /\ Grew /\ result \subseteq Known'
        /\ c.kind = "return" => \A l \in result : status'[l] = "returned"
        /\ \A l \in returnedHere : c.kind = "returnable" => l \notin result
    BY <1>1, <1>2, PerformStep
  <2>2. CallOK([c EXCEPT !.answer = result])'
    BY <1>1, <2>1, AnsweredOK
  <2>3. QED
    BY <1>1, <1>2, <2>1, <2>2, AnswerKept
<1>3. ASSUME Grew, Answer(c, Failed), UNCHANGED <<page, history>>
      PROVE  IInv'
  <2>1. CallOK([c EXCEPT !.answer = Failed])'
    BY <1>1, <1>3, AnsweredOK
  <2>2. QED
    BY <1>1, <1>3, <2>1, AnswerKept
<1>4. CASE Serve(c)
  <2>1. PICK result \in SUBSET LoanIds : /\ Perform(c, result)
                                         /\ Answer(c, result) \/ Answer(c, Failed)
                                         /\ UNCHANGED <<page, history>>
    BY <1>4 DEF Serve
  <2>2. Grew
    BY <1>1, <2>1, PerformStep
  <2>3. QED
    BY <1>2, <1>3, <2>1, <2>2
<1>5. CASE Refuse(c)
  <2>1. Grew
    BY <1>5, NothingGrew DEF Refuse, IInv
  <2>2. QED
    BY <1>3, <1>5, <2>1 DEF Refuse
<1>6. QED
  BY <1>4, <1>5

\* Another desk lends or takes back while the page waits.
LEMMA OtherDeskStep ==
  ASSUME IInv, OtherDesk
  PROVE  IInv'
<1>1. PICK l \in LoanIds : Lend(l) \/ TakeBack(l)
  BY DEF OtherDesk
<1>2. Grew
  BY <1>1, LendGrew, TakeBackGrew DEF IInv
<1>3. UNCHANGED <<page, calls, history>> /\ InFlight' = InFlight /\ Lists' = Lists
  BY DEF OtherDesk, InFlight, Lists
<1>4. CallsInv'
  BY <1>2, <1>3, CallsKept DEF IInv
<1>5. IsABag(calls') /\ PickerInv'
  <2>1. UNCHANGED <<calls, returnable, returnedHere, overlapped, failed>>
    BY <1>3 DEF page, history
  <2>2. QED
    BY <1>2, <1>3, <2>1, PickerKept DEF IInv, TypeOK
<1>6. QED
  BY <1>2, <1>3, <1>4, <1>5, ServerStep

-----------------------------------------------------------------------------
(* The page goes on after an await *)

\* A handler that sends nothing leaves every other call in flight.
LEMMA EndCalls ==
  ASSUME IInv, NEW c \in Answered, UNCHANGED status, calls' = Done(c)
  PROVE  /\ c \in InFlight /\ c.answer # None /\ CallOK(c) /\ Grew
         /\ IsABag(calls') /\ CallsInv' /\ InFlight \ {c} \subseteq InFlight'
         /\ c.kind # "returnable" => Lists' = Lists /\ \A x \in Lists : calls'[x] = calls[x]
         /\ c.kind = "returnable" /\ ~overlapped => Lists' = {}
<1>1. c \in InFlight /\ c.answer # None /\ CallOK(c)
  BY DEF Answered, InFlight, IInv, CallsInv
<1>2. Grew /\ IsABag(calls)
  BY NothingGrew DEF IInv, TypeOK
<1>3. /\ IsABag(calls') /\ InFlight \ {c} \subseteq InFlight' /\ InFlight' \subseteq InFlight
      /\ \A x \in InFlight \ {c} : calls'[x] = calls[x]
      /\ calls[c] = 1 => c \notin InFlight'
  BY <1>1, <1>2, EndStep
<1>4. c.kind # "returnable" => Lists' = Lists /\ \A x \in Lists : calls'[x] = calls[x]
  BY <1>3 DEF Lists, InFlight
<1>5. ASSUME c.kind = "returnable", ~overlapped
      PROVE  Lists' = {}
  <2>1. c \in Lists
    BY <1>1, <1>5 DEF Lists, InFlight
  <2>2. Lists = {c} /\ calls[c] = 1
    BY <1>5, <2>1 DEF IInv, PickerInv, OneList
  <2>3. QED
    BY <1>3, <2>2 DEF Lists, InFlight
<1>6. QED
  BY <1>1, <1>2, <1>3, <1>4, <1>5, CallsKept DEF IInv

\* So does one that sends the calls S.
LEMMA ReceiveCalls ==
  ASSUME IInv, NEW c \in Answered, NEW S, \A d \in S : CallOK(d), UNCHANGED status,
         calls' = Done(c) (+) SetToBag(S)
  PROVE  /\ c \in InFlight /\ Grew /\ IsABag(calls') /\ CallsInv'
         /\ InFlight \ {c} \subseteq InFlight' /\ S \subseteq InFlight'
         /\ InFlight' \subseteq InFlight \cup S /\ \A x \in S \ InFlight : calls'[x] = 1
<1>1. c \in InFlight
  BY DEF Answered, InFlight
<1>2. Grew /\ IsABag(calls)
  BY NothingGrew DEF IInv, TypeOK
<1>3. \A d \in S : CallOK(d)'
  BY <1>2, CallStaysOK
<1>4. /\ IsABag(calls') /\ (InFlight \ {c}) \cup S \subseteq InFlight'
      /\ InFlight' \subseteq InFlight \cup S
      /\ \A x \in S \ InFlight : calls'[x] = 1
  BY <1>1, <1>2, ReceiveStep
<1>5. CallsInv'
  BY <1>2, <1>3, <1>4, CallsKept DEF IInv
<1>6. QED
  BY <1>1, <1>2, <1>4, <1>5

\* The rows of a filter come in, whichever filter is set by now.
LEMMA ReceiveLoadStep ==
  ASSUME IInv, NEW c \in Answered, c.answer # Failed, ReceiveLoad(c)
  PROVE  IInv'
<1> USE DEF IInv
<1>1. /\ UNCHANGED <<status, filter, returnable, borrowPicked, returnLoan>>
      /\ UNCHANGED <<returnedHere, overlapped, failed>>
      /\ c.kind = "load" /\ table' = c.filter /\ shown' = shown \cup {c.filter}
      /\ calls' = Done(c)
  BY DEF ReceiveLoad
<1>2. /\ c \in InFlight /\ CallOK(c) /\ Grew
      /\ IsABag(calls') /\ CallsInv' /\ InFlight \ {c} \subseteq InFlight'
      /\ Lists' = Lists /\ \A x \in Lists : calls'[x] = calls[x]
  BY <1>1, EndCalls
<1>3. TypeOK'
  BY <1>1, <1>2 DEF TypeOK, Known, CallOK
<1>4. FilterInv'
  BY <1>1, <1>2 DEF FilterInv
<1>5. PickerInv'
  BY <1>1, <1>2, PickerKept
<1>6. QED
  BY <1>2, <1>3, <1>4, <1>5

\* The only list in flight comes in, and without what was returned here.
LEMMA ReceiveReturnableStep ==
  ASSUME IInv, NEW c \in Answered, c.answer # Failed, ReceiveReturnable(c)
  PROVE  IInv'
<1> USE DEF IInv
<1>1. /\ UNCHANGED <<status, filter, table, borrowPicked, returnLoan>>
      /\ UNCHANGED <<shown, returnedHere, overlapped, failed>>
      /\ c.kind = "returnable" /\ returnable' = c.answer /\ calls' = Done(c)
  BY DEF ReceiveReturnable, history
<1>2. /\ c \in InFlight /\ c.answer # None /\ CallOK(c) /\ Grew
      /\ IsABag(calls') /\ CallsInv' /\ InFlight \ {c} \subseteq InFlight'
      /\ ~overlapped => Lists' = {}
  BY <1>1, EndCalls
<1>3. c.answer \subseteq Known
  BY <1>2 DEF CallOK
<1>4. TypeOK'
  BY <1>1, <1>2, <1>3 DEF TypeOK, Known
<1>5. FilterInv'
  BY <1>1, <1>2 DEF FilterInv
<1>6. PickerInv'
  <2>1. \A l \in returnedHere : status'[l] = "returned"
    BY <1>1 DEF PickerInv
  <2>2. ASSUME ~overlapped, ~failed, NEW l \in returnedHere
        PROVE  l \notin c.answer
    <3>1. c \in Lists
      BY <1>1, <1>2 DEF Lists, InFlight
    <3>2. Leaving(l, c)
      BY <2>2, <3>1 DEF PickerInv, StaysOut
    <3>3. QED
      BY <1>2, <3>2 DEF Leaving
  <2>3. ASSUME ~overlapped
        PROVE  OneList' /\ (failed \/ \A l \in returnedHere : StaysOut(l)')
    BY <1>1, <1>2, <2>2, <2>3 DEF OneList, StaysOut
  <2>4. QED
    BY <1>1, <2>1, <2>3 DEF PickerInv
<1>7. QED
  BY <1>2, <1>4, <1>5, <1>6

\* A borrow or a return that was carried out sends for both lists again.
LEMMA ReceiveWriteStep ==
  ASSUME IInv, NEW c \in Answered, c.answer # Failed, ReceiveBorrow(c) \/ ReceiveReturn(c)
  PROVE  IInv'
<1> USE DEF IInv
<1> DEFINE S == {Call("load", c.filter, None), Call("returnable", c.filter, None)}
           list == Call("returnable", c.filter, None)
<1>1. /\ UNCHANGED <<status, filter, table, returnable, shown, failed>>
      /\ calls' = Done(c) (+) SetToBag(S) /\ c.kind \in {"borrow", "return"}
      /\ overlapped' = (Lists # {})
  BY DEF ReceiveBorrow, ReceiveReturn, Reload, history
<1>2. CallOK(c) /\ c.answer # None
  BY DEF Answered, InFlight, CallsInv
<1>3. \A d \in S : CallOK(d)
  BY <1>2, NewCallOK DEF CallOK
<1>4. {d \in S : d.kind = "returnable"} = {list} /\ list.answer = None
  BY DEF Call
<1> HIDE DEF S, list
<1>5. /\ c \in InFlight /\ Grew
      /\ IsABag(calls') /\ CallsInv' /\ InFlight \ {c} \subseteq InFlight'
      /\ S \subseteq InFlight' /\ InFlight' \subseteq InFlight \cup S
      /\ \A x \in S \ InFlight : calls'[x] = 1
  BY <1>1, <1>3, ReceiveCalls
<1>6. borrowPicked' \in BOOLEAN /\ returnLoan' \in Known \cup {None}
  BY DEF ReceiveBorrow, ReceiveReturn, TypeOK
<1>7. \A l \in returnedHere' : l \in returnedHere \/ (c.kind = "return" /\ l \in c.answer)
  BY DEF ReceiveBorrow, ReceiveReturn
<1>8. \A l \in returnedHere' : l \in Known /\ status[l] = "returned"
  BY <1>2, <1>7 DEF CallOK, TypeOK, PickerInv
<1>9. TypeOK'
  BY <1>1, <1>5, <1>6, <1>8 DEF TypeOK, Known
<1>10. FilterInv'
  BY <1>1, <1>5 DEF FilterInv
<1>11. PickerInv'
  <2>1. Lists' = Lists \cup {list}
    BY <1>1, <1>4, <1>5 DEF Lists, InFlight
  <2>2. Lists = {} => calls'[list] = 1
    BY <1>4, <1>5 DEF Lists, InFlight
  <2>3. \A l \in returnedHere' : status'[l] = "returned"
    BY <1>1, <1>8
  <2>4. QED
    BY <1>1, <1>4, <2>1, <2>2, <2>3, PickerSent
<1>12. QED
  BY <1>5, <1>9, <1>10, <1>11

\* A failed list is remembered as such; a failed write closes nothing.
LEMMA ReceiveErrorStep ==
  ASSUME IInv, NEW c \in Answered, ReceiveError(c)
  PROVE  IInv'
<1> USE DEF IInv
<1>1. /\ UNCHANGED <<status, filter, table, returnable, borrowPicked, returnLoan>>
      /\ UNCHANGED <<shown, returnedHere, overlapped>> /\ calls' = Done(c)
      /\ failed' = (failed \/ c.kind \in {"load", "returnable"})
  BY DEF ReceiveError, page
<1>2. /\ c \in InFlight /\ Grew
      /\ IsABag(calls') /\ CallsInv' /\ InFlight \ {c} \subseteq InFlight'
      /\ c.kind # "returnable" => Lists' = Lists /\ \A x \in Lists : calls'[x] = calls[x]
      /\ c.kind = "returnable" /\ ~overlapped => Lists' = {}
  BY <1>1, EndCalls
<1>3. failed' \in BOOLEAN
  BY <1>1
<1>4. TypeOK'
  BY <1>1, <1>2, <1>3 DEF TypeOK, Known
<1>5. FilterInv'
  BY <1>1, <1>2 DEF FilterInv
<1>6. PickerInv'
  <2>1. CASE c.kind # "returnable"
    <3>1. failed => failed'
      BY <1>1
    <3>2. QED
      BY <1>1, <1>2, <2>1, <3>1, PickerKept
  <2>2. CASE c.kind = "returnable"
    <3>1. failed' /\ (~overlapped => OneList')
      BY <1>1, <1>2, <2>2 DEF OneList
    <3>2. QED
      BY <1>1, <3>1 DEF PickerInv
  <2>3. QED
    BY <2>1, <2>2
<1>7. QED
  BY <1>2, <1>4, <1>5, <1>6

\* When the tab is mounted both lists are on their way.
LEMMA InitInv == Init => IInv
<1> SUFFICES ASSUME Init PROVE IInv
  OBVIOUS
<1>1. /\ status = [l \in LoanIds |-> "absent"]
      /\ filter = "any" /\ table = None /\ returnable = {}
      /\ borrowPicked = FALSE /\ returnLoan = None
      /\ shown = {} /\ returnedHere = {} /\ overlapped = FALSE /\ failed = FALSE
      /\ calls = Reload("any")
  BY DEF Init
<1>2. IsABag(calls)
  BY <1>1 DEF Reload, IsABag, SetToBag
<1>3. Call("load", "any", None) \in InFlight
  BY <1>1 DEF InFlight, Reload, BagToSet, SetToBag
<1>4. TypeOK
  BY <1>1, <1>2, LoansPageAssumption DEF TypeOK
<1>5. CallsInv
  BY <1>1, ReloadOK, LoansPageAssumption DEF CallsInv, InFlight
<1>6. FilterInv
  BY <1>1, <1>3 DEF FilterInv, Call
<1>7. PickerInv
  <2>1. Lists = {Call("returnable", "any", None)} /\ calls[Call("returnable", "any", None)] = 1
    BY <1>1 DEF Lists, Reload, BagToSet, SetToBag, Call
  <2>2. QED
    BY <1>1, <2>1 DEF PickerInv, OneList
<1>8. QED
  BY <1>4, <1>5, <1>6, <1>7 DEF IInv

\* Every step of the page, the server and the other desks.
LEMMA StepInv == IInv /\ [Next]_vars => IInv'
<1> SUFFICES ASSUME IInv, [Next]_vars PROVE IInv'
  OBVIOUS
<1>1. CASE SubmitBorrow
  <2>1. CallOK(Call("borrow", filter, None)) /\ Call("borrow", filter, None).kind = "borrow"
    BY NewCallOK DEF IInv, TypeOK, Call
  <2>2. QED
    BY <1>1, <2>1, SubmitStep DEF SubmitBorrow
<1>2. CASE SubmitReturn
  <2>1. CallOK(Call("return", filter, returnLoan)) /\ Call("return", filter, returnLoan).kind = "return"
    BY <1>2, NewCallOK DEF SubmitReturn, IInv, TypeOK, Call
  <2>2. QED
    BY <1>2, <2>1, SubmitStep DEF SubmitReturn
<1>3. ASSUME NEW c \in Answered, Receive(c)
      PROVE  IInv'
  BY <1>3, ReceiveErrorStep, ReceiveLoadStep, ReceiveReturnableStep, ReceiveWriteStep
     DEF Receive
<1>4. CASE UNCHANGED vars
  <2>1. UNCHANGED <<status, filter, table, returnable, borrowPicked, returnLoan, calls,
                    shown, returnedHere, overlapped, failed>>
    BY <1>4 DEF vars, page, history
  <2>2. Grew /\ InFlight' = InFlight /\ Lists' = Lists
    BY <2>1, NothingGrew DEF InFlight, Lists, IInv
  <2>3. TypeOK'
    BY <2>1 DEF IInv, TypeOK, Known
  <2>4. CallsInv'
    BY <2>2, CallsKept DEF IInv
  <2>5. FilterInv'
    BY <2>1, <2>2 DEF IInv, FilterInv
  <2>6. PickerInv'
    BY <2>1, <2>2, PickerKept DEF IInv
  <2>7. QED
    BY <2>3, <2>4, <2>5, <2>6 DEF IInv
<1>5. CASE \E f \in Filters : SetFilter(f)
  BY <1>5, SetFilterStep
<1>6. CASE PickBorrow \/ \E l \in LoanIds : PickReturn(l)
  BY <1>6, PickStep
<1>7. CASE \E c \in Sent : Serve(c) \/ Refuse(c)
  BY <1>7, ServeStep
<1>8. CASE OtherDesk
  BY <1>8, OtherDeskStep
<1>9. QED
  BY <1>1, <1>2, <1>3, <1>4, <1>5, <1>6, <1>7, <1>8 DEF Next

-----------------------------------------------------------------------------
\* For every list that is still owed to the screen there is a call in flight.
THEOREM Inductive == Spec => []IInv
<1>1. Init => IInv
  BY InitInv
<1>2. IInv /\ [Next]_vars => IInv'
  BY StepInv
<1>3. QED
  BY <1>1, <1>2, PTL DEF Spec

\* The lists of the page hold loans, whatever the calls behind them came to.
THEOREM TypeCorrect == Spec => []TypeOK
<1>1. IInv => TypeOK
  BY DEF IInv
<1>2. QED
  BY <1>1, Inductive, PTL

\* No order of clicks and answers leaves the filter that is set without its rows.
THEOREM FilterGetsLoaded == Spec => []FilterIsLoaded
<1>1. IInv => FilterIsLoaded
  BY DEF IInv, FilterInv, FilterIsLoaded, Quiet, InFlight, EmptyBag, SetToBag, BagToSet
<1>2. QED
  BY <1>1, Inductive, PTL

\* Once the page is quiet the return picker offers no loan that was returned here,
\* unless the last lists it asked for overlapped.
THEOREM ReturnedStaysOut == Spec => []ReturnedNotOffered
<1>1. ASSUME IInv, Quiet, ~overlapped
      PROVE  returnable \cap returnedHere = {}
  <2>1. Lists = {} /\ ~failed
    BY <1>1 DEF Quiet, Lists, EmptyBag, SetToBag, BagToSet
  <2>2. \A l \in returnedHere : StaysOut(l)
    BY <1>1, <2>1 DEF IInv, PickerInv
  <2>3. QED
    BY <2>1, <2>2 DEF StaysOut
<1>2. IInv => ReturnedNotOffered
  BY <1>1 DEF ReturnedNotOffered
<1>3. QED
  BY <1>2, Inductive, PTL
=============================================================================
