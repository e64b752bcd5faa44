-------------------------- MODULE BooksPageProofs --------------------------
(***************************************************************************)
(* What the Books tab has shown by the time all is quiet, for any number   *)
(* of books, copies, mounts and calls in flight, answered in any order.    *)
(* As in LoansPageProofs the invariant names the call that will bring what *)
(* has not been shown yet; a call of an older mount brings nothing.        *)
(***************************************************************************)
EXTENDS BooksPage, FiniteSetTheorems, TLAPS

InFlight == BagToSet(calls)

\* Book fact[1] has, or had, fact[2] copies.
True(fact) == fact[1] \in Known /\ fact[2] \in 0 .. stock[fact[1]]

\* A call is of one of three kinds, and its answer was true.
CallOK(c) ==
  /\ c = [kind |-> c.kind, mount |-> c.mount, book |-> c.book, answer |-> c.answer]
  /\ c.kind \in {"load", "book", "copy"}
  /\ c.answer \notin {None, Failed} => \A fact \in c.answer : True(fact)

CallsInv == \A c \in InFlight : CallOK(c)

\* Ids are given in order.
IdsInv == \A a \in Known, b \in BookIds : b < a => b \in Known

\* A list of this mount that will show the fact is on its way, or fails.
Bringing(fact, c) ==
  /\ c.kind = "load" /\ c.mount = mount
  /\ c.answer \in {None, Failed} \/ Shows(c.answer, fact)

ShownInv ==
  \A fact \in unseen :
    \/ failed \/ fact[1] \notin FirstPage
    \/ \E c \in InFlight : Bringing(fact, c)

IInv == TypeOK /\ IdsInv /\ CallsInv /\ ShownInv

-----------------------------------------------------------------------------
(* Bags *)

\* Putting a set of calls in flight.
LEMMA BagAdd ==
  ASSUME NEW B, IsABag(B), NEW S
  PROVE  /\ IsABag(B (+) SetToBag(S))
         /\ BagToSet(B (+) SetToBag(S)) = BagToSet(B) \cup S
  BY DEF IsABag, BagToSet, SetToBag, (+)

\* Taking one copy of a call out leaves every other call in flight.
LEMMA BagTake ==
  ASSUME NEW B, IsABag(B), NEW e
  PROVE  /\ IsABag(B (-) SetToBag({e}))
         /\ BagToSet(B (-) SetToBag({e})) \subseteq BagToSet(B)
         /\ BagToSet(B) \ {e} \subseteq BagToSet(B (-) SetToBag({e}))
<1> DEFINE One == SetToBag({e})
           D   == [x \in DOMAIN B |-> IF x \in DOMAIN One THEN B[x] - One[x] ELSE B[x]]
           R   == [x \in {d \in DOMAIN D : D[d] > 0} |-> D[x]]
<1>1. B (-) One = R
  BY DEF (-)
<1>2. \A x \in DOMAIN B : B[x] \in Nat /\ B[x] > 0
  BY DEF IsABag
<1>3. DOMAIN One = {e} /\ One[e] = 1
  BY DEF SetToBag
<1>4. DOMAIN D = DOMAIN B /\ \A x \in DOMAIN B : D[x] \in Int /\ (x # e => D[x] = B[x])
  BY <1>2, <1>3
<1>5. \A x \in DOMAIN R : x \in DOMAIN B /\ R[x] \in {n \in Nat : n > 0}
  BY <1>4
<1>6. \A x \in DOMAIN B : x # e => x \in DOMAIN R
  BY <1>2, <1>4
<1>7. IsABag(R)
  BY <1>5 DEF IsABag
<1>8. QED
  BY <1>1, <1>5, <1>6, <1>7 DEF BagToSet

\* Answering a call changes that call only.
LEMMA AnswerStep ==
  ASSUME IsABag(calls), NEW c \in InFlight, NEW answer, Answer(c, answer)
  PROVE  /\ IsABag(calls')
         /\ InFlight \ {c} \subseteq InFlight'
         /\ InFlight' \subseteq InFlight \cup {[c EXCEPT !.answer = answer]}
         /\ [c EXCEPT !.answer = answer] \in InFlight'
<1> DEFINE B == calls (-) SetToBag({c})
           d == [c EXCEPT !.answer = answer]
<1>1. /\ IsABag(B) /\ BagToSet(B) \subseteq BagToSet(calls)
      /\ BagToSet(calls) \ {c} \subseteq BagToSet(B)
  BY BagTake
<1>2. calls' = B (+) SetToBag({d})
  BY DEF Answer
<1> HIDE DEF B, d
<1>3. IsABag(B (+) SetToBag({d})) /\ BagToSet(B (+) SetToBag({d})) = BagToSet(B) \cup {d}
  BY <1>1, BagAdd
<1>4. IsABag(calls') /\ BagToSet(calls') = BagToSet(B) \cup {d}
  BY <1>2, <1>3
<1>5. QED
  BY <1>1, <1>4 DEF InFlight, d

\* Receiving an answer ends that call only, and may send others.
LEMMA ReceiveStep ==
  ASSUME IsABag(calls), NEW c \in InFlight, NEW S, calls' = Done(c) (+) SetToBag(S)
  PROVE  /\ IsABag(calls')
         /\ (InFlight \ {c}) \cup S \subseteq InFlight'
         /\ InFlight' \subseteq InFlight \cup S
<1>1. /\ IsABag(Done(c)) /\ BagToSet(Done(c)) \subseteq BagToSet(calls)
      /\ BagToSet(calls) \ {c} \subseteq BagToSet(Done(c))
  BY BagTake DEF Done
<1>2. /\ IsABag(Done(c) (+) SetToBag(S))
      /\ BagToSet(Done(c) (+) SetToBag(S)) = BagToSet(Done(c)) \cup S
  BY <1>1, BagAdd
<1>3. IsABag(calls') /\ BagToSet(calls') = BagToSet(Done(c)) \cup S
  BY <1>2
<1>4. QED
  BY <1>1, <1>3 DEF InFlight

\* A handler that only waits for its answer is done with the call.
LEMMA EndStep ==
  ASSUME IsABag(calls), NEW c \in InFlight, calls' = Done(c)
  PROVE  IsABag(calls') /\ InFlight \ {c} \subseteq InFlight' /\ InFlight' \subseteq InFlight
<1>1. /\ IsABag(Done(c)) /\ BagToSet(Done(c)) \subseteq BagToSet(calls)
      /\ BagToSet(calls) \ {c} \subseteq BagToSet(Done(c))
  BY BagTake DEF Done
<1>2. QED
  BY <1>1 DEF InFlight

-----------------------------------------------------------------------------
(* The server *)

\* Books and copies are only added, and no book moves on or off the page asked for.
Grew ==
  /\ stock' \in [BookIds -> 0 .. MaxCopies \cup {None}]
  /\ IdsInv'
  /\ \A b \in Known : b \in Known' /\ stock[b] \in 0 .. stock'[b]
  /\ \A b \in Known : b \in FirstPage' <=> b \in FirstPage

\* The copies of a book that exists are a number.
LEMMA StockType ==
  ASSUME TypeOK, NEW b \in Known
  PROVE  b \in BookIds /\ b \in Nat /\ stock[b] \in 0 .. MaxCopies /\ stock[b] \in Nat
  BY BooksPageAssumption DEF TypeOK, Known

\* A step that writes nothing at the server is one that only adds.
LEMMA NothingGrew ==
  ASSUME IInv, UNCHANGED stock
  PROVE  Grew
<1>1. \A b \in Known : stock[b] \in 0 .. stock[b]
  BY StockType DEF IInv
<1>2. QED
  BY <1>1 DEF IInv, TypeOK, Grew, IdsInv, Known, FirstPage

\* A new book is behind every other one.
LEMMA CreateBookGrew ==
  ASSUME IInv, NEW b \in BookIds, CreateBook(b)
  PROVE  Grew /\ b \in Known' /\ stock'[b] = 0
<1>1. /\ b \notin Known /\ \A a \in BookIds : a < b => a \in Known
      /\ stock' = [stock EXCEPT ![b] = 0]
  BY DEF CreateBook
<1>2. stock' \in [BookIds -> 0 .. MaxCopies \cup {None}] /\ stock'[b] = 0
  BY <1>1, BooksPageAssumption DEF IInv, TypeOK
<1>3. Known' = Known \cup {b}
  BY <1>1, <1>2, BooksPageAssumption DEF Known, IInv, TypeOK
<1>4. IdsInv'
  BY <1>1, <1>3, BooksPageAssumption DEF IInv, IdsInv
<1>5. ASSUME NEW a \in Known
      PROVE  stock[a] \in 0 .. stock'[a] /\ (a \in FirstPage' <=> a \in FirstPage)
  <2>1. a \in BookIds /\ a \in Nat /\ stock[a] \in Nat
    BY <1>5, StockType DEF IInv
  <2>2. a # b /\ stock'[a] = stock[a]
    BY <1>1, <1>5, <2>1 DEF IInv, TypeOK
  <2>3. ~(b < a)
    BY <1>1, <1>5 DEF IInv, IdsInv
  <2>4. {x \in Known' : x < a} = {x \in Known : x < a}
    BY <1>3, <2>3
  <2>5. a \in FirstPage' <=> a \in FirstPage
    BY <1>3, <2>4 DEF FirstPage
  <2>6. QED
    BY <2>1, <2>2, <2>5
<1>6. QED
  BY <1>2, <1>3, <1>4, <1>5 DEF Grew

\* add_copy adds a copy to a book that stays where it is in the list.
LEMMA AddCopyGrew ==
  ASSUME IInv, NEW b \in BookIds, AddCopy(b)
  PROVE  Grew /\ b \in Known' /\ stock'[b] \in Nat
<1>1. b \in Known /\ stock[b] < MaxCopies /\ stock' = [stock EXCEPT ![b] = @ + 1]
  BY DEF AddCopy
<1>2. stock[b] \in Nat /\ stock'[b] = stock[b] + 1
  BY <1>1, StockType DEF IInv, TypeOK
<1>3. stock' \in [BookIds -> 0 .. MaxCopies \cup {None}]
  BY <1>1, <1>2, BooksPageAssumption DEF IInv, TypeOK
<1>4. Known' = Known
  BY <1>1, <1>2, BooksPageAssumption DEF Known, IInv, TypeOK
<1>5. IdsInv' /\ FirstPage' = FirstPage
  BY <1>4 DEF IInv, IdsInv, FirstPage
<1>6. ASSUME NEW a \in Known
      PROVE  stock[a] \in 0 .. stock'[a]
  <2>1. a \in BookIds /\ stock[a] \in Nat
    BY <1>6, StockType DEF IInv
  <2>2. stock'[a] = IF a = b THEN stock[a] + 1 ELSE stock[a]
    BY <1>1, <2>1 DEF IInv, TypeOK
  <2>3. QED
    BY <2>1, <2>2
<1>7. QED
  BY <1>1, <1>2, <1>3, <1>4, <1>5, <1>6 DEF Grew

\* What was true stays true.
LEMMA FactStaysTrue ==
  ASSUME TypeOK, Grew, NEW fact, True(fact)
  PROVE  True(fact)'
<1>1. fact[1] \in Known /\ fact[2] \in 0 .. stock[fact[1]]
  BY DEF True
<1>2. fact[1] \in Known' /\ stock[fact[1]] \in 0 .. stock'[fact[1]]
  BY <1>1 DEF Grew
<1>3. fact[1] \in BookIds /\ stock[fact[1]] \in Nat
  BY <1>1, StockType
<1>4. stock'[fact[1]] \in Int
  <2>1. stock'[fact[1]] \in 0 .. MaxCopies
    BY <1>2, <1>3 DEF Grew, Known
  <2>2. QED
    BY <2>1
<1>5. fact[2] \in 0 .. stock'[fact[1]]
  BY <1>1, <1>2, <1>3, <1>4
<1>6. QED
  BY <1>2, <1>5 DEF True

\* What is in flight stays true of the server.
LEMMA CallStaysOK ==
  ASSUME TypeOK, Grew, NEW c, CallOK(c)
  PROVE  CallOK(c)'
<1>1. c.answer \notin {None, Failed} => \A fact \in c.answer : True(fact)'
  BY FactStaysTrue DEF CallOK
<1>2. QED
  BY <1>1 DEF CallOK

\* A call that is sent has no answer that could be wrong.
LEMMA NewCallOK ==
  ASSUME NEW kind \in {"load", "book", "copy"}, NEW m, NEW b
  PROVE  CallOK(Call(kind, m, b))
  BY DEF CallOK, Call

\* A step keeps CallsInv when the calls that are new are right.
LEMMA CallsKept ==
  ASSUME CallsInv, TypeOK, Grew, \A c \in InFlight' : c \in InFlight \/ CallOK(c)'
  PROVE  CallsInv'
  BY CallStaysOK DEF CallsInv

\* The facts of the page stay true, and the mount and the picked book in their types.
LEMMA TypeKept ==
  ASSUME TypeOK, Grew, IsABag(calls'), mount' \in 1 .. MaxMounts, failed' \in BOOLEAN,
         copyBookId' \in Known \cup {None},
         \A fact \in table' \cup unseen' : True(fact)
  PROVE  TypeOK'
<1>1. \A fact \in table' \cup unseen' : True(fact)'
  BY FactStaysTrue
<1>2. copyBookId' \in Known' \cup {None}
  BY DEF Grew
<1>3. QED
  BY <1>1, <1>2 DEF TypeOK, Grew, True

\* A step of this mount that ends no call keeps what is on its way.
LEMMA ShownKept ==
  ASSUME ShownInv, TypeOK, Grew, InFlight \subseteq InFlight', UNCHANGED <<mount, unseen, failed>>
  PROVE  ShownInv'
<1>1. \A fact \in unseen : fact[1] \in Known
  BY DEF TypeOK
<1>2. ASSUME NEW fact \in unseen
      PROVE  failed \/ fact[1] \notin FirstPage' \/ \E c \in InFlight' : Bringing(fact, c)
  BY <1>1 DEF ShownInv, Grew
<1>3. QED
  BY <1>2 DEF ShownInv, Bringing, Shows


-----------------------------------------------------------------------------
(* The user *)

\* Sending the calls S, whatever the page does beside.
LEMMA SendCalls ==
  ASSUME IInv, NEW S, \A d \in S : CallOK(d), UNCHANGED stock,
         calls' = calls (+) SetToBag(S)
  PROVE  Grew /\ IsABag(calls') /\ CallsInv' /\ InFlight' = InFlight \cup S
<1>1. Grew /\ IsABag(calls)
  BY NothingGrew DEF IInv, TypeOK
<1>2. /\ IsABag(calls (+) SetToBag(S))
      /\ BagToSet(calls (+) SetToBag(S)) = BagToSet(calls) \cup S
  BY <1>1, BagAdd
<1>3. IsABag(calls') /\ InFlight' = InFlight \cup S
  BY <1>2 DEF InFlight
<1>4. \A d \in S : CallOK(d)'
  BY <1>1, CallStaysOK DEF IInv
<1>5. CallsInv'
  BY <1>1, <1>3, <1>4, CallsKept DEF IInv
<1>6. QED
  BY <1>1, <1>3, <1>5

\* A new mount owes nothing to the one before.
LEMMA ReopenStep ==
  ASSUME IInv, Reopen
  PROVE  IInv'
<1> DEFINE S == {Call("load", mount', None)}
<1>1. /\ mount < MaxMounts /\ mount' = mount + 1 /\ table' = {} /\ copyBookId' = None
      /\ unseen' = {} /\ failed' = FALSE /\ calls' = calls (+) SetToBag(S)
      /\ UNCHANGED stock
  BY DEF Reopen, Load
<1>2. \A d \in S : CallOK(d)
  BY NewCallOK
<1> HIDE DEF S
<1>3. Grew /\ IsABag(calls') /\ CallsInv'
  BY <1>1, <1>2, SendCalls
<1>4. mount' \in 1 .. MaxMounts
  BY <1>1, BooksPageAssumption DEF IInv, TypeOK
<1>5. TypeOK'
  BY <1>1, <1>3, <1>4, TypeKept DEF IInv
<1>6. ShownInv'
  BY <1>1 DEF ShownInv
<1>7. QED
  BY <1>3, <1>5, <1>6 DEF IInv, Grew

\* The dropdown of the Add Copy form.
LEMMA PickBookStep ==
  ASSUME IInv, NEW b \in BookIds \cup {None}, PickBook(b)
  PROVE  IInv'
<1>1. UNCHANGED <<stock, mount, table, unseen, failed, calls>> /\ copyBookId' = b
  BY DEF PickBook
<1>2. b \in Known \cup {None}
  <2>1. ASSUME NEW n \in 0 .. MaxCopies, <<b, n>> \in table
        PROVE  b \in Known
    <3>1. <<b, n>>[1] \in Known
      BY <2>1 DEF IInv, TypeOK
    <3>2. QED
      BY <3>1
  <2>2. QED
    BY <2>1 DEF PickBook
<1>3. Grew /\ InFlight' = InFlight /\ IsABag(calls')
  BY <1>1, NothingGrew DEF InFlight, IInv, TypeOK
<1>4. TypeOK'
  <2>1. \A fact \in table' \cup unseen' : True(fact)
    BY <1>1 DEF IInv, TypeOK, True
  <2>2. mount' \in 1 .. MaxMounts /\ failed' \in BOOLEAN
    BY <1>1 DEF IInv, TypeOK
  <2>3. QED
    BY <1>1, <1>2, <1>3, <2>1, <2>2, TypeKept DEF IInv
<1>5. CallsInv'
  BY <1>3, CallsKept DEF IInv
<1>6. ShownInv'
  BY <1>1, <1>3, ShownKept DEF IInv
<1>7. QED
  BY <1>3, <1>4, <1>5, <1>6 DEF IInv, Grew

\* The types of a page that is as it was.
LEMMA SamePage ==
  ASSUME IInv, Grew, IsABag(calls'), UNCHANGED page
  PROVE  TypeOK'
<1>1. UNCHANGED <<mount, table, copyBookId, unseen, failed>>
  BY DEF page
<1>2. \A fact \in table' \cup unseen' : True(fact)
  BY <1>1 DEF IInv, TypeOK, True
<1>3. mount' \in 1 .. MaxMounts /\ failed' \in BOOLEAN /\ copyBookId' \in Known \cup {None}
  BY <1>1 DEF IInv, TypeOK
<1>4. QED
  BY <1>2, <1>3, TypeKept DEF IInv

\* handleCreateBook and handleAddCopy up to their await.
LEMMA SubmitStep ==
  ASSUME IInv, SubmitBook \/ SubmitCopy
  PROVE  IInv'
<1>1. PICK call : CallOK(call) /\ Submit(call)
  BY NewCallOK DEF SubmitBook, SubmitCopy
<1>2. UNCHANGED stock /\ UNCHANGED page /\ calls' = calls (+) SetToBag({call})
  BY <1>1 DEF Submit
<1>3. Grew /\ IsABag(calls') /\ CallsInv' /\ InFlight' = InFlight \cup {call}
  <2>1. \A d \in {call} : CallOK(d)
    BY <1>1
  <2>2. QED
    BY <1>2, <2>1, SendCalls
<1>4. TypeOK'
  BY <1>2, <1>3, SamePage
<1>5. ShownInv'
  BY <1>2, <1>3, ShownKept DEF IInv, page
<1>6. QED
  BY <1>3, <1>4, <1>5 DEF IInv, Grew

-----------------------------------------------------------------------------
(* The server answers *)

\* An answer that is true, and a list that shows what it has to.
LEMMA AnswerKept ==
  ASSUME IInv, Grew, UNCHANGED page, NEW c \in InFlight, c.answer = None,
         NEW answer, Answer(c, answer),
         answer \notin {None, Failed} => \A fact \in answer : True(fact)',
         \A fact \in unseen :
           c.kind = "load" /\ fact[1] \in FirstPage => answer = Failed \/ Shows(answer, fact)
  PROVE  IInv'
<1> DEFINE d == [c EXCEPT !.answer = answer]
<1>1. /\ IsABag(calls') /\ InFlight \ {c} \subseteq InFlight'
      /\ InFlight' \subseteq InFlight \cup {d} /\ d \in InFlight'
  BY AnswerStep DEF IInv, TypeOK
<1>2. CallOK(c)
  BY DEF IInv, CallsInv
<1>3. /\ d = [kind |-> c.kind, mount |-> c.mount, book |-> c.book, answer |-> answer]
      /\ d.kind = c.kind /\ d.mount = c.mount /\ d.book = c.book /\ d.answer = answer
  BY <1>2 DEF CallOK
<1> HIDE DEF d
<1>4. CallOK(d)'
  BY <1>2, <1>3 DEF CallOK
<1>5. CallsInv'
  BY <1>1, <1>4, CallsKept DEF IInv
<1>6. TypeOK'
  BY <1>1, SamePage
<1>7. ShownInv'
  <2>1. UNCHANGED <<mount, unseen, failed>>
    BY DEF page
  <2>2. ASSUME NEW fact \in unseen
        PROVE  failed \/ fact[1] \notin FirstPage' \/ \E e \in InFlight' : Bringing(fact, e)
    <3>1. fact[1] \in Known
      BY DEF IInv, TypeOK
    <3>2. fact[1] \in FirstPage' => fact[1] \in FirstPage
      BY <3>1 DEF Grew
    <3>3. failed \/ fact[1] \notin FirstPage \/ \E e \in InFlight : Bringing(fact, e)
      BY DEF IInv, ShownInv
    <3>4. fact[1] \in FirstPage /\ Bringing(fact, c) => Bringing(fact, d)
      BY <1>3 DEF Bringing
    <3>5. QED
      BY <1>1, <3>2, <3>3, <3>4
  <2>3. QED
    BY <2>1, <2>2 DEF ShownInv, Bringing, Shows
<1>8. QED
  BY <1>5, <1>6, <1>7 DEF IInv, Grew

\* The server answers, or the call fails.
LEMMA ServeStep ==
  ASSUME IInv, NEW c \in Sent, Serve(c) \/ Refuse(c)
  PROVE  IInv'
<1>1. c \in InFlight /\ c.answer = None /\ UNCHANGED page
  BY DEF Sent, InFlight, Serve, Refuse
<1>2. ASSUME Grew, Answer(c, Failed)
      PROVE  IInv'
  BY <1>1, <1>2, AnswerKept
<1>3. CASE Refuse(c)
  BY <1>2, <1>3, NothingGrew DEF Refuse
<1>4. ASSUME UNCHANGED stock, Answer(c, {<<b, stock[b]>> : b \in FirstPage})
      PROVE  IInv'
  <2> DEFINE list == {<<b, stock[b]>> : b \in FirstPage}
  <2>1. Grew
    BY <1>4, NothingGrew
  <2>2. ASSUME NEW b \in FirstPage
        PROVE  True(<<b, stock[b]>>)
    <3>1. b \in Known
      BY DEF FirstPage
    <3>2. QED
      BY <3>1, StockType DEF True, IInv
  <2>3. \A fact \in list : True(fact)'
    BY <2>1, <2>2, FactStaysTrue DEF IInv
  <2>4. ASSUME NEW fact \in unseen, fact[1] \in FirstPage
        PROVE  Shows(list, fact)
    <3>1. fact[1] \in Known /\ fact[2] \in 0 .. stock[fact[1]]
      BY DEF IInv, TypeOK
    <3>2. stock[fact[1]] \in fact[2] .. MaxCopies
      BY <3>1, StockType DEF IInv
    <3>3. <<fact[1], stock[fact[1]]>> \in list
      BY <2>4
    <3>4. QED
      BY <3>2, <3>3 DEF Shows
  <2>5. Answer(c, list)
    BY <1>4
  <2> HIDE DEF list
  <2>6. QED
    BY <1>1, <2>1, <2>3, <2>4, <2>5, AnswerKept
<1>5. ASSUME NEW b \in BookIds,
             \/ c.kind = "book" /\ CreateBook(b)
             \/ c.kind = "copy" /\ b = c.book /\ AddCopy(b),
             Answer(c, {<<b, stock'[b]>>}) \/ Answer(c, Failed)
      PROVE  IInv'
  <2>1. Grew /\ b \in Known' /\ stock'[b] \in Nat /\ c.kind # "load"
    BY <1>5, CreateBookGrew, AddCopyGrew
  <2>2. \A fact \in {<<b, stock'[b]>>} : True(fact)'
    BY <2>1 DEF True
  <2>3. QED
    BY <1>1, <1>2, <1>5, <2>1, <2>2, AnswerKept
<1>6. QED
  BY <1>3, <1>4, <1>5 DEF Serve

\* Another desk writes while the page waits.
LEMMA OtherDeskStep ==
  ASSUME IInv, OtherDesk
  PROVE  IInv'
<1>1. UNCHANGED page /\ UNCHANGED calls
  BY DEF OtherDesk
<1>2. Grew
  BY CreateBookGrew, AddCopyGrew DEF OtherDesk
<1>3. InFlight' = InFlight /\ IsABag(calls')
  BY <1>1 DEF InFlight, IInv, TypeOK
<1>4. TypeOK'
  BY <1>1, <1>2, <1>3, SamePage
<1>5. CallsInv'
  BY <1>2, <1>3, CallsKept DEF IInv
<1>6. ShownInv'
  BY <1>1, <1>2, <1>3, ShownKept DEF IInv, page
<1>7. QED
  BY <1>2, <1>4, <1>5, <1>6 DEF IInv, Grew


-----------------------------------------------------------------------------
(* The page goes on after an await *)

\* A handler that sends nothing leaves every other call in flight.
LEMMA EndCalls ==
  ASSUME IInv, NEW c \in Answered, UNCHANGED stock, calls' = Done(c)
  PROVE  /\ c \in InFlight /\ c.answer # None /\ CallOK(c) /\ Grew
         /\ IsABag(calls') /\ CallsInv' /\ InFlight \ {c} \subseteq InFlight'
<1>1. c \in InFlight /\ c.answer # None /\ CallOK(c)
  BY DEF Answered, InFlight, IInv, CallsInv
<1>2. Grew /\ IsABag(calls)
  BY NothingGrew DEF IInv, TypeOK
<1>3. IsABag(calls') /\ InFlight \ {c} \subseteq InFlight' /\ InFlight' \subseteq InFlight
  BY <1>1, <1>2, EndStep
<1>4. QED
  BY <1>1, <1>2, <1>3, CallsKept DEF IInv

\* What is owed after a handler without new calls: it was owed before, and the call
\* that ended was not the one to bring it.
LEMMA ShownLeft ==
  ASSUME IInv, Grew, NEW c \in InFlight, InFlight \ {c} \subseteq InFlight', mount' = mount,
         UNCHANGED stock, failed => failed',
         \A fact \in unseen' : fact \in unseen /\ (failed' \/ ~Bringing(fact, c))
  PROVE  ShownInv'
<1>1. FirstPage' = FirstPage
  BY DEF FirstPage, Known
<1>2. ASSUME NEW fact \in unseen'
      PROVE  failed' \/ fact[1] \notin FirstPage \/ \E e \in InFlight' : Bringing(fact, e)
  <2>1. failed \/ fact[1] \notin FirstPage \/ \E e \in InFlight : Bringing(fact, e)
    BY DEF IInv, ShownInv
  <2>2. QED
    BY <2>1
<1>3. QED
  BY <1>1, <1>2 DEF ShownInv, Bringing, Shows

\* An answer for a mount that is gone is owed to nobody.
LEMMA ReceiveLateStep ==
  ASSUME IInv, NEW c \in Answered, ReceiveLate(c)
  PROVE  IInv'
<1>1. c.mount # mount /\ calls' = Done(c) /\ UNCHANGED stock /\ UNCHANGED page
  BY DEF ReceiveLate
<1>2. /\ c \in InFlight /\ Grew
      /\ IsABag(calls') /\ CallsInv' /\ InFlight \ {c} \subseteq InFlight'
  BY <1>1, EndCalls
<1>3. TypeOK'
  BY <1>1, <1>2, SamePage
<1>4. ShownInv'
  <2>1. \A fact \in unseen' : fact \in unseen /\ ~Bringing(fact, c)
    BY <1>1 DEF page, Bringing
  <2>2. UNCHANGED <<mount, failed>>
    BY <1>1 DEF page
  <2>3. QED
    BY <1>1, <1>2, <2>1, <2>2, ShownLeft
<1>5. QED
  BY <1>2, <1>3, <1>4 DEF IInv, Grew

\* A list that was to show a fact shows it.
LEMMA ReceiveLoadStep ==
  ASSUME IInv, NEW c \in Answered, c.answer # Failed, ReceiveLoad(c)
  PROVE  IInv'
<1>1. /\ table' = c.answer /\ unseen' = {fact \in unseen : ~Shows(c.answer, fact)}
      /\ calls' = Done(c) /\ UNCHANGED <<stock, mount, copyBookId, failed>>
  BY DEF ReceiveLoad
<1>2. /\ c \in InFlight /\ c.answer # None /\ CallOK(c) /\ Grew
      /\ IsABag(calls') /\ CallsInv' /\ InFlight \ {c} \subseteq InFlight'
  BY <1>1, EndCalls
<1>3. \A fact \in table' \cup unseen' : True(fact)
  BY <1>1, <1>2 DEF CallOK, IInv, TypeOK, True
<1>4. TypeOK'
  <2>1. mount' \in 1 .. MaxMounts /\ failed' \in BOOLEAN /\ copyBookId' \in Known \cup {None}
    BY <1>1 DEF IInv, TypeOK
  <2>2. QED
    BY <1>2, <1>3, <2>1, TypeKept DEF IInv
<1>5. ShownInv'
  <2>1. \A fact \in unseen' : fact \in unseen /\ ~Bringing(fact, c)
    BY <1>1, <1>2 DEF Bringing
  <2>2. QED
    BY <1>1, <1>2, <2>1, ShownLeft
<1>6. QED
  BY <1>2, <1>4, <1>5 DEF IInv, Grew

\* The list that is loaded again will show what the banner says.
LEMMA ReceiveWriteStep ==
  ASSUME IInv, NEW c \in Answered, c.answer # Failed, ReceiveWrite(c)
  PROVE  IInv'
<1>0. PICK m : m = mount
  OBVIOUS
<1> DEFINE d == Call("load", m, None)
           S == {d}
<1>1. /\ c.kind \in {"book", "copy"} /\ unseen' = unseen \cup c.answer
      /\ calls' = Done(c) (+) SetToBag(S) /\ UNCHANGED <<stock, mount, table, copyBookId, failed>>
  BY <1>0 DEF ReceiveWrite, Load
<1>2. c \in InFlight /\ c.answer # None /\ CallOK(c) /\ Grew /\ IsABag(calls)
  BY <1>1, NothingGrew DEF Answered, InFlight, IInv, CallsInv, TypeOK
<1>3. CallOK(d)
  BY NewCallOK
<1>4. d \in S /\ \A fact : Bringing(fact, d)
  BY <1>0 DEF Bringing, Call
<1>5. \A e \in S : e = d
  OBVIOUS
<1> HIDE DEF d, S
<1>6. /\ IsABag(calls') /\ (InFlight \ {c}) \cup S \subseteq InFlight'
      /\ InFlight' \subseteq InFlight \cup S
  BY <1>1, <1>2, ReceiveStep
<1>7. CallsInv'
  <2>1. CallOK(d)'
    BY <1>2, <1>3, CallStaysOK DEF IInv
  <2>2. QED
    BY <1>2, <1>5, <1>6, <2>1, CallsKept DEF IInv
<1>8. TypeOK'
  <2>1. \A fact \in table' \cup unseen' : True(fact)
    BY <1>1, <1>2 DEF CallOK, IInv, TypeOK, True
  <2>2. mount' \in 1 .. MaxMounts /\ failed' \in BOOLEAN /\ copyBookId' \in Known \cup {None}
    BY <1>1 DEF IInv, TypeOK
  <2>3. QED
    BY <1>2, <1>6, <2>1, <2>2, TypeKept DEF IInv
<1>9. ShownInv'
  BY <1>1, <1>4, <1>6 DEF ShownInv, Bringing, Shows
<1>10. QED
  BY <1>2, <1>7, <1>8, <1>9 DEF IInv, Grew

\* A failed list is remembered as such; a failed write confirms nothing.
LEMMA ReceiveErrorStep ==
  ASSUME IInv, NEW c \in Answered, ReceiveError(c)
  PROVE  IInv'
<1>1. /\ calls' = Done(c) /\ UNCHANGED <<stock, mount, table, copyBookId, unseen>>
      /\ failed' = (failed \/ c.kind = "load")
  BY DEF ReceiveError
<1>2. /\ c \in InFlight /\ Grew
      /\ IsABag(calls') /\ CallsInv' /\ InFlight \ {c} \subseteq InFlight'
  BY <1>1, EndCalls
<1>3. failed' \in BOOLEAN
  BY <1>1
<1>4. TypeOK'
  <2>1. \A fact \in table' \cup unseen' : True(fact)
    BY <1>1 DEF IInv, TypeOK, True
  <2>2. mount' \in 1 .. MaxMounts /\ copyBookId' \in Known \cup {None}
    BY <1>1 DEF IInv, TypeOK
  <2>3. QED
    BY <1>2, <1>3, <2>1, <2>2, TypeKept DEF IInv
<1>5. ShownInv'
  <2>1. c.kind = "load" => failed'
    BY <1>1
  <2>2. \A fact \in unseen' : fact \in unseen /\ (failed' \/ ~Bringing(fact, c))
    BY <1>1, <2>1 DEF Bringing
  <2>3. failed => failed'
    BY <1>1
  <2>4. QED
    BY <1>1, <1>2, <2>2, <2>3, ShownLeft
<1>6. QED
  BY <1>2, <1>4, <1>5 DEF IInv, Grew

-----------------------------------------------------------------------------
\* The first mount asks for its list.
LEMMA InitInv == Init => IInv
<1> SUFFICES ASSUME Init PROVE IInv
  OBVIOUS
<1>1. /\ stock = [b \in BookIds |-> None] /\ mount = 1 /\ table = {} /\ copyBookId = None
      /\ unseen = {} /\ failed = FALSE /\ calls = SetToBag({Call("load", 1, None)})
  BY DEF Init, Load
<1>2. IsABag(calls) /\ InFlight = {Call("load", 1, None)}
  BY <1>1 DEF IsABag, SetToBag, InFlight, BagToSet
<1>3. TypeOK
  <2>1. mount \in 1 .. MaxMounts
    BY <1>1, BooksPageAssumption
  <2>2. failed \in BOOLEAN /\ \A fact \in table \cup unseen : FALSE
    BY <1>1
  <2>3. stock \in [BookIds -> 0 .. MaxCopies \cup {None}]
    BY <1>1
  <2>4. QED
    BY <1>1, <1>2, <2>1, <2>2, <2>3 DEF TypeOK
<1>4. CallsInv
  BY <1>2, NewCallOK DEF CallsInv
<1>5. IdsInv /\ ShownInv
  BY <1>1 DEF IdsInv, ShownInv, Known
<1>6. QED
  BY <1>3, <1>4, <1>5 DEF IInv

\* Every step of the page, the server and the other desks.
LEMMA StepInv == IInv /\ [Next]_vars => IInv'
<1> SUFFICES ASSUME IInv, [Next]_vars PROVE IInv'
  OBVIOUS
<1>1. CASE Reopen
  BY <1>1, ReopenStep
<1>2. CASE SubmitBook \/ SubmitCopy
  BY <1>2, SubmitStep
<1>3. CASE OtherDesk
  BY <1>3, OtherDeskStep
<1>4. CASE \E b \in BookIds \cup {None} : PickBook(b)
  BY <1>4, PickBookStep
<1>5. CASE \E c \in Sent : Serve(c) \/ Refuse(c)
  BY <1>5, ServeStep
<1>6. ASSUME NEW c \in Answered, Receive(c)
      PROVE  IInv'
  BY <1>6, ReceiveLateStep, ReceiveErrorStep, ReceiveLoadStep, ReceiveWriteStep DEF Receive
<1>7. CASE UNCHANGED vars
  <2>1. UNCHANGED stock /\ UNCHANGED page /\ UNCHANGED calls
    BY <1>7 DEF vars
  <2>2. Grew /\ InFlight' = InFlight /\ IsABag(calls')
    BY <2>1, NothingGrew DEF InFlight, IInv, TypeOK
  <2>3. TypeOK'
    BY <2>1, <2>2, SamePage
  <2>4. CallsInv'
    BY <2>2, CallsKept DEF IInv
  <2>5. ShownInv'
    BY <2>1, <2>2, ShownKept DEF IInv, page
  <2>6. QED
    BY <2>2, <2>3, <2>4, <2>5 DEF IInv, Grew
<1>8. QED
  BY <1>1, <1>2, <1>3, <1>4, <1>5, <1>6, <1>7 DEF Next

-----------------------------------------------------------------------------
\* For every confirmed write that the screen still owes, a list is in flight.
THEOREM Inductive == Spec => []IInv
<1>1. Init => IInv
  BY InitInv
<1>2. IInv /\ [Next]_vars => IInv'
  BY StepInv
<1>3. QED
  BY <1>1, <1>2, PTL DEF Spec

\* The table and the dropdown hold books that exist, in numbers that were true.
THEOREM TypeCorrect == Spec => []TypeOK
<1>1. IInv => TypeOK
  BY DEF IInv
<1>2. QED
  BY <1>1, Inductive, PTL

\* Whatever the banner confirmed has been in the table by the time all is quiet, in
\* any order of answers and over any number of mounts, unless it is beyond the page.
THEOREM CreatedGetsShown == Spec => []CreatedIsShown
<1>1. ASSUME IInv, Quiet
      PROVE  \A fact \in unseen : fact[1] \notin FirstPage
  <2>1. InFlight = {} /\ ~failed
    BY <1>1 DEF Quiet, InFlight, EmptyBag, SetToBag, BagToSet
  <2>2. QED
    BY <1>1, <2>1 DEF IInv, ShownInv
<1>2. IInv => CreatedIsShown
  BY <1>1 DEF CreatedIsShown
<1>3. QED
  BY <1>2, Inductive, PTL
=============================================================================
