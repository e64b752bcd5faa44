--------------------------- MODULE StartupProofs ---------------------------
(***************************************************************************)
(* The safety of Startup, for any sample, any number of seedings beside    *)
(* the one of the script, and any number of starts.  IInv is inductive.    *)
(***************************************************************************)
EXTENDS Startup, SequenceTheorems, TLAPS

\* Whatever comes after the migration comes after a committed one.
IInv == /\ TypeOK
        /\ SeedIsWhole
        /\ \A s \in Seeders : book[s] = 0 => tried[s] = 0
        /\ phase \in {"seed", "seeding", "serve"} => schema
        /\ phase = "wait" => attempts < MaxAttempts
        /\ seeding["boot"] # 0 => phase = "seeding"

Sample == [title : Titles, keyed : BOOLEAN, copies : SUBSET (Nat \ {0})]

\* The rows, and the row a seeder is at, are of the sample.
LEMMA Rows ==
  ASSUME TypeOK
  PROVE  /\ \A b \in Ids : books[b] \in Sample /\ Copies[books[b].title] \in Nat
         /\ \A s \in Seeders : book[s] # 0 => book[s] \in Ids /\ seeding[s] \in Titles \ {0}
<1>1. \A b \in Ids : books[b] \in Sample
  <2>1. books \in Seq(Sample)
    BY DEF TypeOK, Sample
  <2>2. QED
    BY <2>1 DEF Ids
<1>2. \A s \in Seeders : book[s] # 0 => book[s] \in Ids /\ books[book[s]].title = seeding[s]
  BY DEF TypeOK
<1>3. \A b \in Ids : Copies[books[b].title] \in Nat
  BY <1>1, StartupAssumption DEF Sample, Titles
<1>4. QED
  BY <1>1, <1>2, <1>3 DEF Sample, Titles

\* A step that leaves the rows alone keeps what is known of them, if no seeder
\* leaves the row it is at before it has tried all its copies, or is cut short there.
LEMMA SameRows ==
  ASSUME IInv, TypeOK', books' = books, taken \subseteq taken', cut \subseteq cut',
         \A s \in Seeders : \/ book'[s] = book[s] /\ tried'[s] = tried[s]
                            \/ book[s] = 0
                            \/ <<book[s], tried[s]>> \in cut'
                            \/ tried[s] >= Copies[books[book[s]].title],
         \A s \in Seeders : book'[s] = 0 => tried'[s] = 0,
         phase' \in {"seed", "seeding", "serve"} => schema',
         phase' = "wait" => attempts' < MaxAttempts,
         seeding'["boot"] # 0 => phase' = "seeding"
  PROVE  IInv'
<1>1. Ids' = Ids /\ TypeOK
  BY DEF Ids, IInv
<1>2. ASSUME NEW b \in Ids, NEW c \in 1 .. Copies[books[b].title]
      PROVE  \/ c \in books'[b].copies \/ <<b, c>> \in taken'
             \/ \E s \in Seeders : book'[s] = b /\ tried'[s] < c
             \/ \E e \in cut' : e[1] = b /\ e[2] < c
  <2>1. b # 0 /\ Copies[books[b].title] \in Nat
    BY <1>1, Rows DEF Ids
  <2>2. c \in books[b].copies \/ <<b, c>> \in taken \/ Ahead(b, c) \/ Lost(b, c)
    BY <1>2 DEF IInv, SeedIsWhole
  <2>3. CASE Ahead(b, c)
    <3>1. PICK s \in Seeders : book[s] = b /\ tried[s] < c
      BY <2>3 DEF Ahead
    <3>2. tried[s] \in Nat
      BY <1>1 DEF TypeOK
    <3>3. CASE <<book[s], tried[s]>> \in cut'
      <4>1. <<b, tried[s]>>[1] = b /\ <<b, tried[s]>>[2] < c
        BY <3>1
      <4>2. QED
        BY <3>1, <3>3, <4>1
    <3>4. QED
      BY <1>2, <2>1, <3>1, <3>2, <3>3
  <2>4. CASE Lost(b, c)
    BY <2>4 DEF Lost
  <2>5. QED
    BY <2>2, <2>3, <2>4
<1>3. SeedIsWhole'
  BY <1>1, <1>2 DEF SeedIsWhole, Ahead, Lost
<1>4. QED
  BY <1>3 DEF IInv

\* Starting, waiting, the database, and a seeding that begins.
LEMMA QuietStep ==
  ASSUME IInv, UNCHANGED <<books, tried, cut>>, taken \subseteq taken', taken' \subseteq Labels,
         up' \in BOOLEAN, schema' \in BOOLEAN, attempts' \in 0 .. MaxAttempts,
         phase' \in {"wait", "migrate", "seed", "seeding", "serve", "stopped"},
         seeding' \in [Seeders -> {0} \cup Titles],
         \A s \in Seeders : book[s] # 0 => seeding'[s] = seeding[s],
         book' = book,
         phase' \in {"seed", "seeding", "serve"} => schema',
         phase' = "wait" => attempts' < MaxAttempts,
         seeding'["boot"] # 0 => phase' = "seeding"
  PROVE  IInv'
<1>1. TypeOK'
  BY DEF IInv, TypeOK, Ids
<1>2. \A s \in Seeders : book'[s] = 0 => tried'[s] = 0
  BY DEF IInv
<1>3. QED
  BY <1>1, <1>2, SameRows

\* The container stops; the rows that seedings were at are cut.
LEMMA StopStep ==
  ASSUME IInv, Stop, UNCHANGED rows,
         up' \in BOOLEAN, schema' \in BOOLEAN, attempts' \in 0 .. MaxAttempts
  PROVE  IInv'
<1>1. /\ TypeOK /\ "boot" \in Seeders
      /\ \A s \in Seeders : seeding'[s] = 0 /\ book'[s] = 0 /\ tried'[s] = 0
  BY StartupAssumption DEF IInv, Stop
<1>2. /\ cut \subseteq cut' /\ cut' \subseteq Ids \X Nat
      /\ \A s \in Seeders : book[s] # 0 => <<book[s], tried[s]>> \in cut'
  BY <1>1, Rows DEF Stop, CutShort, TypeOK
<1>3. TypeOK'
  BY <1>1, <1>2 DEF TypeOK, Stop, Ids, rows
<1>4. QED
  BY <1>1, <1>2, <1>3, SameRows DEF Stop, rows

\* What the script does before the rows, the database, and a crash.
LEMMA BootSteps ==
  ASSUME IInv, \/ Start \/ Wait \/ Migrate \/ Crash \/ Database
               \/ \E s \in Seeders : Seed(s)
               \/ \E l \in Labels : TakeBarcode(l[1], l[2])
  PROVE  IInv'
<1>0. TypeOK /\ MaxAttempts \in Nat \ {0} /\ "boot" \in Seeders
  BY StartupAssumption DEF IInv
<1>1. CASE Start
  <2>1. seeding["boot"] = 0
    BY <1>0, <1>1 DEF Start, IInv, TypeOK
  <2>2. QED
    BY <1>0, <1>1, <2>1, QuietStep DEF Start, TypeOK, rows, seedings
<1>2. CASE Wait
  <2>1. attempts < MaxAttempts /\ attempts' \in 0 .. MaxAttempts
    BY <1>0, <1>2 DEF IInv, Wait, TypeOK
  <2>2. CASE Stop
    BY <1>0, <1>2, <2>1, <2>2, StopStep DEF Wait, TypeOK
  <2>3. CASE ~Stop
    BY <1>0, <1>2, <2>1, <2>3, QuietStep DEF Wait, TypeOK, IInv, rows, seedings
  <2>4. QED
    BY <2>2, <2>3
<1>3. CASE Migrate
  <2>1. CASE Stop
    BY <1>0, <1>3, <2>1, StopStep DEF Migrate, TypeOK
  <2>2. CASE ~Stop
    BY <1>0, <1>3, <2>2, QuietStep DEF Migrate, TypeOK, IInv, rows, seedings
  <2>3. QED
    BY <2>1, <2>2
<1>4. CASE Crash
  BY <1>0, <1>4, StopStep DEF Crash, TypeOK
<1>5. CASE Database
  BY <1>0, <1>5, QuietStep DEF Database, TypeOK, IInv, rows, seedings
<1>6. ASSUME NEW s \in Seeders, Seed(s)
      PROVE  IInv'
  <2>1. book[s] = 0
    BY <1>0, <1>6, Rows DEF Seed, TypeOK
  <2>2. book' = book
    BY <1>6 DEF Seed
  <2>3. /\ seeding' = [seeding EXCEPT ![s] = 1]
        /\ UNCHANGED <<up, schema, attempts, books, taken, tried, cut>>
    BY <1>6 DEF Seed, rows
  <2>4. IF s = "boot" THEN phase = "seed" /\ phase' = "seeding" ELSE phase' = phase
    BY <1>6 DEF Seed
  <2>5. 1 \in Titles
    BY StartupAssumption DEF Titles
  <2>6. \A r \in Seeders : book[r] # 0 => seeding'[r] = seeding[r]
    BY <1>0, <2>1, <2>3 DEF TypeOK
  <2>7. seeding' \in [Seeders -> {0} \cup Titles]
    BY <1>0, <2>3, <2>5 DEF TypeOK
  <2>8. seeding'["boot"] # 0 => phase' = "seeding"
    BY <1>0, <2>3, <2>4 DEF TypeOK, IInv
  <2>9. QED
    BY <1>0, <2>2, <2>3, <2>4, <2>6, <2>7, <2>8, QuietStep DEF TypeOK, IInv
<1>7. ASSUME NEW l \in Labels, TakeBarcode(l[1], l[2])
      PROVE  IInv'
  <2>1. l = <<l[1], l[2]>>
    BY StartupAssumption
  <2>2. taken \subseteq taken' /\ taken' \subseteq Labels
    BY <1>0, <1>7, <2>1 DEF TakeBarcode, TypeOK
  <2>3. QED
    BY <1>0, <1>7, <2>2, QuietStep DEF TakeBarcode, TypeOK, IInv, seedings
<1>8. QED
  BY <1>1, <1>2, <1>3, <1>4, <1>5, <1>6, <1>7

\* On to the next title from a row whose copies have been tried.
LEMMA AdvanceStep ==
  ASSUME IInv, NEW s \in Seeders, seeding[s] # 0, Advance(s),
         UNCHANGED <<up, schema, attempts, books, taken, cut>>,
         book[s] = 0 \/ tried[s] >= Copies[books[book[s]].title]
  PROVE  IInv'
<1>1. TypeOK /\ Len(Copies) \in Nat
  BY StartupAssumption DEF IInv
<1>2. book' = [book EXCEPT ![s] = 0] /\ tried' = [tried EXCEPT ![s] = 0]
  BY DEF Advance
<1>3. seeding' \in [Seeders -> {0} \cup Titles] /\ \A r \in Seeders \ {s} : seeding'[r] = seeding[r]
  <2>1. seeding[s] \in 1 .. Len(Copies) /\ seeding[s] + 1 \in Nat
    BY <1>1 DEF TypeOK, Titles
  <2>2. seeding[s] < Len(Copies) => seeding[s] + 1 \in Titles
    BY <1>1, <2>1 DEF Titles
  <2>3. QED
    BY <1>1, <2>2 DEF Advance, TypeOK
<1>4. /\ phase' = phase \/ (phase' = "serve" /\ phase = "seeding")
      /\ seeding'["boot"] # 0 => phase' = "seeding"
  BY <1>1, StartupAssumption DEF Advance, AfterSeed, IInv, TypeOK
<1>5. TypeOK'
  BY <1>1, <1>2, <1>3, <1>4 DEF TypeOK, Ids
<1>6. QED
  BY <1>1, <1>2, <1>4, <1>5, Rows, SameRows DEF TypeOK, IInv

\* A row is added or changed.  Each row that was there keeps its copies, and the
\* seeder at it goes on by a copy that it has or that cannot be had.
LEMMA RowStep ==
  ASSUME IInv, TypeOK', UNCHANGED <<cut, taken, schema, attempts, phase, seeding>>,
         \A r \in Seeders : book'[r] = book[r] \/ book[r] = 0,
         \A r \in Seeders : book'[r] = 0 => tried'[r] = 0,
         \A b \in Ids' :
           \/ /\ b \in Ids /\ books'[b].title = books[b].title
              /\ books[b].copies \subseteq books'[b].copies
              /\ \A r \in Seeders : book[r] = b =>
                   \/ tried'[r] = tried[r]
                   \/ /\ tried'[r] = tried[r] + 1
                      /\ tried'[r] \in books'[b].copies \/ <<b, tried'[r]>> \in taken
           \/ \E r \in Seeders : book'[r] = b /\ tried'[r] = 0
  PROVE  IInv'
<1>1. TypeOK /\ \A s \in Seeders : tried[s] \in Nat /\ tried'[s] \in Nat
  BY DEF IInv, TypeOK
<1>2. ASSUME NEW b \in Ids', NEW c \in 1 .. Copies[books'[b].title]
      PROVE  \/ c \in books'[b].copies \/ <<b, c>> \in taken'
             \/ \E s \in Seeders : book'[s] = b /\ tried'[s] < c
             \/ \E e \in cut' : e[1] = b /\ e[2] < c
  <2>0. c \in Nat /\ c > 0 /\ b # 0
    BY <1>2 DEF Ids
  <2>1. CASE \E r \in Seeders : book'[r] = b /\ tried'[r] = 0
    BY <2>0, <2>1
  <2>2. CASE /\ b \in Ids /\ books'[b].title = books[b].title
             /\ books[b].copies \subseteq books'[b].copies
             /\ \A r \in Seeders : book[r] = b =>
                  \/ tried'[r] = tried[r]
                  \/ /\ tried'[r] = tried[r] + 1
                     /\ tried'[r] \in books'[b].copies \/ <<b, tried'[r]>> \in taken
    <3>1. c \in books[b].copies \/ <<b, c>> \in taken \/ Ahead(b, c) \/ Lost(b, c)
      BY <1>2, <2>2 DEF IInv, SeedIsWhole
    <3>2. CASE Ahead(b, c)
      <4>1. PICK s \in Seeders : book[s] = b /\ tried[s] < c
        BY <3>2 DEF Ahead
      <4>2. book'[s] = b
        BY <2>0, <4>1
      <4>3. CASE tried'[s] < c
        BY <4>2, <4>3
      <4>4. CASE ~(tried'[s] < c)
        <5>1. tried[s] \in Nat /\ (tried'[s] = tried[s] \/ tried'[s] = tried[s] + 1)
          BY <1>1, <2>2, <4>1
        <5>2. tried'[s] = c
          BY <2>0, <4>1, <4>4, <5>1
        <5>3. tried'[s] # tried[s]
          BY <4>1, <4>4
        <5>4. tried'[s] \in books'[b].copies \/ <<b, tried'[s]>> \in taken
          BY <2>2, <4>1, <5>3
        <5>5. QED
          BY <5>2, <5>4
      <4>5. QED
        BY <4>3, <4>4
    <3>3. CASE Lost(b, c)
      BY <3>3 DEF Lost
    <3>4. QED
      BY <2>2, <3>1, <3>2, <3>3
  <2>3. QED
    BY <1>2, <2>1, <2>2
<1>3. SeedIsWhole'
  BY <1>2 DEF SeedIsWhole, Ahead, Lost
<1>4. QED
  BY <1>3 DEF IInv

\* A sequence has the new element where it was put.
LEMMA ExceptAt ==
  ASSUME NEW S, NEW q \in Seq(S), NEW i \in 1 .. Len(q), NEW e
  PROVE  [q EXCEPT ![i] = e][i] = e
OBVIOUS

\* Another row for the title that s is at, unless one has its key.
LEMMA SeedBookStep ==
  ASSUME IInv, NEW s \in Seeders, SeedBook(s)
  PROVE  IInv'
<1>1. /\ TypeOK /\ seeding[s] \in Titles /\ Copies[seeding[s]] \in Nat
      /\ UNCHANGED <<up, schema, attempts, taken, cut>> /\ book[s] = 0 /\ seeding[s] # 0
  BY StartupAssumption DEF IInv, SeedBook, TypeOK, Titles
<1>2. CASE Advance(s) /\ books' = books
  BY <1>1, <1>2, AdvanceStep
<1>3. CASE ~(Advance(s) /\ books' = books)
  <2>1. /\ books' = Append(books, Row(seeding[s]))
        /\ book' = [book EXCEPT ![s] = Len(books')]
        /\ UNCHANGED <<seeding, tried, phase>>
    BY <1>3 DEF SeedBook
  <2>2. books \in Seq(Sample) /\ Row(seeding[s]) \in Sample
    BY <1>1 DEF TypeOK, Sample, Row
  <2>3. /\ books' \in Seq(Sample) /\ Len(books') = Len(books) + 1
        /\ \A b \in Ids : books'[b] = books[b]
        /\ books'[Len(books')] = Row(seeding[s])
    BY <2>1, <2>2, AppendProperties DEF Ids
  <2>4. /\ Len(books) \in Nat /\ Ids \subseteq Ids' /\ Len(books') \in Ids'
        /\ \A b \in Ids' : b \in Ids \/ b = Len(books')
    BY <2>2, <2>3 DEF Ids
  <2>5. /\ book'[s] = Len(books') /\ \A r \in Seeders \ {s} : book'[r] = book[r]
        /\ book' \in [Seeders -> {0} \cup Ids']
    BY <1>1, <2>1, <2>4 DEF TypeOK
  <2>6. TypeOK'
    <3>1. \A r \in Seeders : book'[r] # 0 => books'[book'[r]].title = seeding'[r]
      <4>1. books'[book'[s]].title = seeding'[s]
        BY <2>1, <2>3, <2>5 DEF Row
      <4>2. ASSUME NEW r \in Seeders \ {s}, book'[r] # 0
            PROVE  books'[book'[r]].title = seeding'[r]
        <5>1. book'[r] = book[r] /\ book[r] \in Ids /\ seeding'[r] = seeding[r]
          BY <1>1, <2>1, <2>5, <4>2, Rows
        <5>2. QED
          BY <1>1, <2>3, <4>2, <5>1 DEF TypeOK
      <4>3. QED
        BY <4>1, <4>2
    <3>2. cut' \subseteq Ids' \X Nat
      BY <1>1, <2>4 DEF TypeOK
    <3>3. QED
      BY <1>1, <2>1, <2>3, <2>5, <3>1, <3>2 DEF TypeOK, Sample
  <2>7. \A r \in Seeders : tried'[r] = tried[r] /\ (book[r] = 0 => tried[r] = 0)
    BY <2>1 DEF IInv
  <2>8. \A b \in Ids' :
          \/ b \in Ids /\ books'[b] = books[b]
          \/ book'[s] = b /\ tried'[s] = 0
    BY <1>1, <2>3, <2>4, <2>5, <2>7
  <2>9. \A r \in Seeders : book'[r] = book[r] \/ book[r] = 0
    BY <1>1, <2>5
  <2>10. \A r \in Seeders : book'[r] = 0 => tried'[r] = 0
    BY <1>1, <2>5, <2>7
  <2>11. QED
    BY <1>1, <2>1, <2>6, <2>7, <2>8, <2>9, <2>10, RowStep
<1>4. QED
  BY <1>2, <1>3

\* The next number of the row that s is at, inserted or passed over.
LEMMA SeedCopyStep ==
  ASSUME IInv, NEW s \in Seeders, SeedCopy(s)
  PROVE  IInv'
<1>1. /\ TypeOK /\ book[s] \in Ids /\ seeding[s] # 0 /\ seeding[s] \in Titles
      /\ books[book[s]].title = seeding[s] /\ books[book[s]] \in Sample
      /\ tried[s] \in Nat /\ UNCHANGED <<up, schema, attempts, taken, cut>>
  <2>1. TypeOK /\ book[s] # 0
    BY DEF IInv, SeedCopy
  <2>2. book[s] \in Ids /\ seeding[s] \in Titles \ {0} /\ books[book[s]] \in Sample
    BY <2>1, Rows
  <2>3. books[book[s]].title = seeding[s] /\ tried[s] \in Nat
    BY <2>1 DEF TypeOK
  <2>4. UNCHANGED <<up, schema, attempts, taken, cut>>
    BY DEF SeedCopy
  <2>5. QED
    BY <2>1, <2>2, <2>3, <2>4
<1>2. CASE LastTried(s) /\ Advance(s) /\ books' = books
  BY <1>1, <1>2, AdvanceStep DEF LastTried
<1>3. CASE TryCopy(s)
  <2> DEFINE c == tried[s] + 1
             B == [books EXCEPT ![book[s]].copies = @ \cup {c}]
  <2>1. /\ books' = IF <<book[s], c>> \in taken THEN books ELSE B
        /\ tried' = [tried EXCEPT ![s] = c]
        /\ UNCHANGED <<seeding, book, phase>>
    BY <1>3 DEF TryCopy
  <2>2. books \in Seq(Sample)
    BY <1>1 DEF TypeOK, Sample
  <2>3. /\ B \in Seq(Sample) /\ Len(B) = Len(books)
        /\ B[book[s]].copies = books[book[s]].copies \cup {c}
        /\ B[book[s]].title = books[book[s]].title
        /\ \A b \in Ids \ {book[s]} : B[b] = books[b]
    <3> DEFINE new == [books[book[s]] EXCEPT !.copies = @ \cup {c}]
    <3>1. new \in Sample /\ new.copies = books[book[s]].copies \cup {c}
          /\ new.title = books[book[s]].title
      BY <1>1 DEF Sample
    <3>2. B = [books EXCEPT ![book[s]] = new]
      OBVIOUS
    <3> HIDE DEF B, new
    <3>3. B \in Seq(Sample) /\ Len(B) = Len(books)
      BY <1>1, <2>2, <3>1, <3>2, ExceptSeq DEF Ids
    <3>4. B[book[s]] = new
      BY <1>1, <2>2, <3>2 DEF Ids
    <3>5. \A b \in Ids \ {book[s]} : B[b] = books[b]
      BY <2>2, <3>2 DEF Ids
    <3>6. QED
      BY <3>1, <3>3, <3>4, <3>5
  <2> HIDE DEF B, c
  <2>4. books' \in Seq(Sample) /\ Ids' = Ids
    BY <2>1, <2>2, <2>3 DEF Ids
  <2>5. \A b \in Ids : books'[b].title = books[b].title /\ books[b].copies \subseteq books'[b].copies
    BY <1>1, <2>1, <2>3
  <2>6. c \in books'[book[s]].copies \/ <<book[s], c>> \in taken
    BY <2>1, <2>3
  <2>7. c = tried[s] + 1 /\ c \in Nat
    BY <1>1 DEF c
  <2>8. tried' \in [Seeders -> Nat] /\ tried'[s] = c /\ \A r \in Seeders \ {s} : tried'[r] = tried[r]
    BY <1>1, <2>1, <2>7 DEF TypeOK
  <2>9. TypeOK'
    <3>1. \A r \in Seeders : book'[r] # 0 => books'[book'[r]].title = seeding'[r]
      BY <1>1, <2>1, <2>5, Rows DEF TypeOK
    <3>2. QED
      BY <1>1, <2>1, <2>4, <2>8, <3>1 DEF TypeOK, Sample
  <2>10. \A b \in Ids' :
           /\ b \in Ids /\ books'[b].title = books[b].title
           /\ books[b].copies \subseteq books'[b].copies
           /\ \A r \in Seeders : book[r] = b =>
                \/ tried'[r] = tried[r]
                \/ /\ tried'[r] = tried[r] + 1
                   /\ tried'[r] \in books'[b].copies \/ <<b, tried'[r]>> \in taken
    BY <2>4, <2>5, <2>6, <2>7, <2>8
  <2>11. \A r \in Seeders : book'[r] = 0 => tried'[r] = 0
    BY <1>1, <2>1, <2>8 DEF IInv, Ids
  <2>12. QED
    BY <1>1, <2>1, <2>9, <2>10, <2>11, RowStep
<1>4. QED
  BY <1>2, <1>3 DEF SeedCopy

\* A seeding fails; the row it was at is cut.
LEMMA SeedFailsStep ==
  ASSUME IInv, NEW s \in Seeders, SeedFails(s)
  PROVE  IInv'
<1>1. TypeOK /\ "boot" \in Seeders
  BY StartupAssumption DEF IInv
<1>2. /\ seeding' = [seeding EXCEPT ![s] = 0] /\ book' = [book EXCEPT ![s] = 0]
      /\ tried' = [tried EXCEPT ![s] = 0] /\ cut' = CutShort({s})
      /\ UNCHANGED <<up, schema, attempts, books, taken>>
  BY DEF SeedFails, rows
<1>3. phase' = phase \/ (phase' = "serve" /\ phase = "seeding")
  BY <1>1 DEF SeedFails, AfterSeed, IInv
<1>4. seeding'["boot"] # 0 => phase' = "seeding"
  BY <1>1, <1>2 DEF SeedFails, AfterSeed, IInv, TypeOK
<1>5. /\ cut \subseteq cut' /\ cut' \subseteq Ids \X Nat
      /\ book[s] # 0 => <<book[s], tried[s]>> \in cut'
  BY <1>1, <1>2, Rows DEF CutShort, TypeOK
<1>6. TypeOK'
  BY <1>1, <1>2, <1>3, <1>5 DEF TypeOK, Ids
<1>7. \A r \in Seeders : \/ book'[r] = book[r] /\ tried'[r] = tried[r]
                         \/ book[r] = 0
                         \/ <<book[r], tried[r]>> \in cut'
  BY <1>1, <1>2, <1>5 DEF TypeOK
<1>8. \A r \in Seeders : book'[r] = 0 => tried'[r] = 0
  BY <1>1, <1>2 DEF TypeOK, IInv
<1>9. phase' \in {"seed", "seeding", "serve"} => schema'
  BY <1>2, <1>3 DEF IInv
<1>10. phase' = "wait" => attempts' < MaxAttempts
  BY <1>2, <1>3 DEF IInv
<1>11. QED
  BY <1>2, <1>4, <1>5, <1>6, <1>7, <1>8, <1>9, <1>10, SameRows

\* Staff correct the key of a row.
LEMMA CorrectKeyStep ==
  ASSUME IInv, NEW k \in Ids, CorrectKey(k)
  PROVE  IInv'
<1>1. /\ TypeOK /\ books \in Seq(Sample) /\ books[k] \in Sample
      /\ books' = [books EXCEPT ![k].keyed = FALSE]
      /\ UNCHANGED <<up, schema, phase, attempts, taken, seeding, book, tried, cut>>
  BY Rows DEF IInv, TypeOK, Sample, CorrectKey, seedings
<1>2. /\ books' \in Seq(Sample) /\ Len(books') = Len(books)
      /\ \A b \in Ids : books'[b].copies = books[b].copies /\ books'[b].title = books[b].title
  <2>1. [books[k] EXCEPT !.keyed = FALSE] \in Sample
    BY <1>1 DEF Sample
  <2>2. books' = [books EXCEPT ![k] = [books[k] EXCEPT !.keyed = FALSE]]
    BY <1>1
  <2>3. books' \in Seq(Sample) /\ Len(books') = Len(books)
    BY <1>1, <2>1, <2>2, ExceptSeq DEF Ids
  <2>4. books'[k] = [books[k] EXCEPT !.keyed = FALSE]
    <3>1. books \in Seq(Sample) /\ k \in 1 .. Len(books)
      BY <1>1 DEF Ids
    <3>2. QED
      BY ONLY <2>2, <3>1, ExceptAt
  <2>5. \A b \in Ids \ {k} : books'[b] = books[b]
    <3>1. books \in Seq(Sample)
      BY <1>1
    <3>2. QED
      BY <2>2, <3>1 DEF Ids
  <2>6. QED
    BY <1>1, <2>3, <2>4, <2>5 DEF Sample
<1>3. Ids' = Ids
  BY <1>2 DEF Ids
<1>4. TypeOK'
  <2>1. \A r \in Seeders : book'[r] # 0 => books'[book'[r]].title = seeding'[r]
    BY <1>1, <1>2, Rows DEF TypeOK
  <2>2. QED
    BY <1>1, <1>2, <1>3, <2>1 DEF TypeOK, Sample
<1>5. \A r \in Seeders : book'[r] = 0 => tried'[r] = 0
  BY <1>1 DEF IInv
<1>6. QED
  BY <1>1, <1>2, <1>3, <1>4, <1>5, RowStep

-----------------------------------------------------------------------------
(* The theorems *)

\* The invariant holds at the start, and every step keeps it.
LEMMA InitInv == Init => IInv
<1>1. SUFFICES ASSUME Init
               PROVE  IInv
  OBVIOUS
<1>2. Ids = {}
  BY <1>1 DEF Init, Ids
<1>3. TypeOK
  <2>1. books = <<>> /\ books \in Seq([title : Titles, keyed : BOOLEAN,
                                       copies : SUBSET (Nat \ {0})])
    BY <1>1, EmptySeq DEF Init
  <2>2. attempts \in 0 .. MaxAttempts
    BY <1>1, StartupAssumption DEF Init
  <2>3. /\ seeding \in [Seeders -> {0} \cup Titles] /\ book \in [Seeders -> {0} \cup Ids]
        /\ tried \in [Seeders -> Nat] /\ \A s \in Seeders : book[s] = 0
    BY <1>1 DEF Init
  <2>4. QED
    BY <1>1, <2>1, <2>2, <2>3 DEF Init, TypeOK
<1>4. QED
  BY <1>1, <1>2, <1>3, StartupAssumption DEF Init, IInv, SeedIsWhole

\* Every step of the script, of the seedings and of the database.
LEMMA StepInv == IInv /\ [Next]_vars => IInv'
<1>1. SUFFICES ASSUME IInv, [Next]_vars
               PROVE  IInv'
  OBVIOUS
<1>2. CASE UNCHANGED vars
  BY <1>1, <1>2 DEF vars, rows, seedings, IInv, TypeOK, SeedIsWhole, Ahead, Lost, Ids
<1>3. CASE Next
  BY <1>1, <1>3, BootSteps, SeedBookStep, SeedCopyStep, SeedFailsStep, CorrectKeyStep DEF Next
<1>4. QED
  BY <1>1, <1>2, <1>3

\* Whatever stops when, the rows and the seedings stay accounted for.
THEOREM Inductive == Spec => []IInv
<1>1. QED
  BY InitInv, StepInv, PTL DEF Spec

\* Every seeder of scripts/seed.py is at a row of the title it is at.
THEOREM TypeCorrect == Spec => []TypeOK
<1>1. IInv => TypeOK
  BY DEF IInv
<1>2. QED
  BY <1>1, Inductive, PTL

\* entrypoint.sh serves on a migrated schema only, for any number of attempts.
THEOREM AlwaysServesMigrated == Spec => []ServesMigrated
<1>1. IInv => ServesMigrated
  BY DEF IInv, ServesMigrated
<1>2. QED
  BY <1>1, Inductive, PTL

\* For a sample of any size and any number of seedings at once, a book lacks a copy only
\* while the seeding that added it is before that copy or was cut short before it, or
\* because its barcode was taken.
THEOREM GapsHaveReasons == Spec => []SeedIsWhole
<1>1. IInv => SeedIsWhole
  BY DEF IInv
<1>2. QED
  BY <1>1, Inductive, PTL

-----------------------------------------------------------------------------
(* Every start moves on *)

\* How many phases are left, at most.
Left == [wait |-> 4, migrate |-> 3, seed |-> 2, seeding |-> 1, serve |-> 0, stopped |-> 0]

Starting == phase \notin {"serve", "stopped"}

\* The attempt, the title, the row and the copy that the script is at.
Place == <<phase, attempts, seeding["boot"], book["boot"], tried["boot"]>>

\* The script is closer to its end: a phase, an attempt, a title, a row or a copy on,
\* of which there are MaxAttempts, Len(Copies), one for each title, and Copies[title].
Closer ==
  \/ Left[phase'] < Left[phase]
  \/ phase = "wait" /\ phase' = "wait" /\ attempts < attempts' /\ attempts' < MaxAttempts
  \/ /\ phase = "seeding" /\ phase' = "seeding"
     /\ LET t == seeding["boot"]  b == book["boot"] IN
          \/ t < seeding'["boot"] /\ seeding'["boot"] <= Len(Copies)
          \/ seeding'["boot"] = t /\ b = 0 /\ book'["boot"] # 0
          \/ /\ seeding'["boot"] = t /\ b # 0 /\ book'["boot"] = b
             /\ tried["boot"] < tried'["boot"] /\ tried'["boot"] <= Copies[t]

\* The script is where it was.
Stays == Place' = Place

\* The script seeds exactly while the container is in that phase.
BootInv == phase = "seeding" <=> seeding["boot"] # 0

\* A seeder that goes on to the next title moves nobody else.
LEMMA AdvanceFacts ==
  ASSUME TypeOK, NEW s \in Seeders, Advance(s), seeding[s] \in Titles
  PROVE  /\ s = "boot" => \/ phase' = "serve" /\ seeding'["boot"] = 0
                          \/ /\ phase' = phase /\ seeding["boot"] < seeding'["boot"]
                             /\ seeding'["boot"] <= Len(Copies)
         /\ s # "boot" => /\ phase' = phase /\ seeding'["boot"] = seeding["boot"]
                          /\ book'["boot"] = book["boot"] /\ tried'["boot"] = tried["boot"]
<1>1. Len(Copies) \in Nat /\ "boot" \in Seeders
  BY StartupAssumption
<1>2. seeding[s] \in 1 .. Len(Copies)
  BY DEF Titles
<1>3. QED
  BY <1>1, <1>2 DEF Advance, AfterSeed, TypeOK

\* The script is in its phase.
LEMMA BootStep == IInv /\ BootInv /\ [Next]_vars => BootInv'
<1>1. SUFFICES ASSUME IInv, BootInv, [Next]_vars
               PROVE  BootInv'
  OBVIOUS
<1>2. TypeOK /\ "boot" \in Seeders /\ Len(Copies) \in Nat \ {0}
  BY <1>1, StartupAssumption DEF IInv
<1>3. CASE Start \/ Wait \/ Migrate \/ Crash
  BY <1>1, <1>2, <1>3 DEF Start, Wait, Migrate, Crash, Stop, seedings, BootInv
<1>4. ASSUME NEW s \in Seeders, Seed(s)
      PROVE  BootInv'
  BY <1>1, <1>2, <1>4 DEF Seed, BootInv, TypeOK
<1>5. ASSUME NEW s \in Seeders, SeedBook(s) \/ SeedCopy(s)
      PROVE  BootInv'
  <2>1. seeding[s] \in Titles
    BY <1>2, <1>5, Rows DEF SeedBook, SeedCopy, TypeOK
  <2>2. \/ Advance(s)
        \/ UNCHANGED <<seeding, phase>>
    BY <1>5 DEF SeedBook, SeedCopy, TryCopy
  <2>3. phase = "seeding" <=> seeding["boot"] # 0
    BY <1>1 DEF BootInv
  <2>4. QED
    BY <1>2, <2>1, <2>2, <2>3, AdvanceFacts DEF BootInv, TypeOK, Titles
<1>6. ASSUME NEW s \in Seeders, SeedFails(s)
      PROVE  BootInv'
  BY <1>1, <1>2, <1>6 DEF SeedFails, AfterSeed, BootInv, TypeOK
<1>7. CASE \/ Database \/ (\E b \in Ids : CorrectKey(b)) \/ UNCHANGED vars
           \/ \E l \in Labels : TakeBarcode(l[1], l[2])
  BY <1>1, <1>7 DEF Database, CorrectKey, TakeBarcode, seedings, vars, BootInv
<1>8. QED
  BY <1>1, <1>3, <1>4, <1>5, <1>6, <1>7 DEF Next

\* What the script does brings it closer to its end.
LEMMA BootCloser ==
  ASSUME IInv, Starting, Boot
  PROVE  Closer
<1>1. /\ TypeOK /\ "boot" \in Seeders /\ Len(Copies) \in Nat \ {0}
      /\ phase \in {"wait", "migrate", "seed", "seeding"}
  BY StartupAssumption DEF IInv, TypeOK, Starting
<1>2. CASE Wait
  BY <1>1, <1>2, StartupAssumption DEF Wait, Stop, Closer, Left, TypeOK
<1>3. CASE Migrate
  BY <1>1, <1>3 DEF Migrate, Stop, Closer, Left
<1>4. CASE Seed("boot")
  BY <1>1, <1>4 DEF Seed, Closer, Left
<1>5. ASSUME seeding["boot"] # 0, Advance("boot")
      PROVE  Closer
  <2>1. phase = "seeding" /\ seeding["boot"] \in Titles
    BY <1>1, <1>5 DEF IInv, TypeOK
  <2>2. QED
    BY <1>1, <1>5, <2>1, AdvanceFacts DEF Closer, Left
<1>6. CASE SeedBook("boot")
  <2>1. phase = "seeding" /\ seeding["boot"] # 0 /\ book["boot"] = 0
    BY <1>6 DEF SeedBook, IInv
  <2>2. CASE Advance("boot")
    BY <1>5, <2>1, <2>2
  <2>3. CASE /\ books' = Append(books, Row(seeding["boot"]))
             /\ book' = [book EXCEPT !["boot"] = Len(books')]
             /\ UNCHANGED <<seeding, tried, phase>>
    <3>1. Len(books') # 0
      BY <1>1, <2>3 DEF TypeOK
    <3>2. book'["boot"] # 0
      BY <1>1, <2>3, <3>1 DEF TypeOK
    <3>3. QED
      BY <2>1, <2>3, <3>2 DEF Closer
  <2>4. QED
    BY <1>6, <2>2, <2>3 DEF SeedBook
<1>7. CASE SeedCopy("boot")
  <2> DEFINE b == book["boot"]  t == seeding["boot"]
  <2>1. b # 0 /\ b \in Ids /\ t \in Titles /\ books[b] \in Sample
    BY <1>1, <1>7, Rows DEF SeedCopy
  <2>2. phase = "seeding" /\ t # 0
    BY <2>1 DEF IInv, Titles
  <2>3. CASE Advance("boot")
    BY <1>5, <2>2, <2>3
  <2>4. CASE TryCopy("boot")
    <3>1. Copies[t] \in Nat /\ tried["boot"] \in Nat
      BY <1>1, <2>1, StartupAssumption DEF Titles, TypeOK
    <3>2. tried'["boot"] = tried["boot"] + 1 /\ tried["boot"] + 1 <= Copies[t]
      BY <1>1, <2>4 DEF TryCopy, TypeOK
    <3>3. UNCHANGED <<seeding, book, phase>>
      BY <2>4 DEF TryCopy
    <3>4. QED
      BY <2>1, <2>2, <3>1, <3>2, <3>3 DEF Closer
  <2>5. QED
    BY <1>7, <2>3, <2>4 DEF SeedCopy
<1>8. CASE SeedFails("boot")
  <2>1. phase = "seeding" /\ phase' = "serve"
    BY <1>8 DEF SeedFails, AfterSeed, IInv
  <2>2. QED
    BY <2>1 DEF Closer, Left
<1>9. QED
  BY <1>2, <1>3, <1>4, <1>6, <1>7, <1>8 DEF Boot

\* What happens beside the script takes nothing from it.
LEMMA OthersStay ==
  ASSUME IInv, Starting, [Next]_vars
  PROVE  Closer \/ Stays
<1>1. /\ TypeOK /\ "boot" \in Seeders
      /\ phase \in {"wait", "migrate", "seed", "seeding"}
  BY StartupAssumption DEF IInv, TypeOK, Starting
<1>2. CASE \/ Start \/ (\E b \in Ids : CorrectKey(b))
           \/ \E l \in Labels : TakeBarcode(l[1], l[2])
  BY <1>1, <1>2 DEF Start, CorrectKey, TakeBarcode
<1>3. CASE Wait \/ Migrate
  BY <1>3, BootCloser DEF Boot
<1>4. CASE Crash
  BY <1>1, <1>4 DEF Crash, Stop, Closer, Left
<1>5. CASE Database \/ UNCHANGED vars
  BY <1>1, <1>5 DEF Database, vars, seedings, Stays, Place
<1>6. ASSUME NEW s \in Seeders, Seed(s) \/ SeedBook(s) \/ SeedCopy(s) \/ SeedFails(s)
      PROVE  Closer \/ Stays
  <2>1. CASE s = "boot" /\ ~SeedFails(s)
    BY <1>6, <2>1, BootCloser DEF Boot
  <2>2. CASE s = "boot" /\ SeedFails(s)
    <3>1. phase = "seeding" /\ phase' = "serve"
      BY <2>2 DEF SeedFails, AfterSeed, IInv
    <3>2. QED
      BY <3>1 DEF Closer, Left
  <2>3. CASE s # "boot" /\ (Seed(s) \/ SeedFails(s))
    BY <1>1, <2>3 DEF Seed, SeedFails, AfterSeed, TypeOK, Stays, Place
  <2>4. CASE s # "boot" /\ (SeedBook(s) \/ SeedCopy(s))
    <3>1. seeding[s] \in Titles
      BY <1>1, <2>4, Rows DEF SeedBook, SeedCopy, TypeOK
    <3>2. Place' = Place
      BY <1>1, <2>4, <3>1, AdvanceFacts DEF SeedBook, SeedCopy, TryCopy, TypeOK, Place
    <3>3. QED
      BY <3>2 DEF Stays
  <2>5. QED
    BY <1>6, <2>1, <2>2, <2>3, <2>4
<1>7. QED
  BY <1>2, <1>3, <1>4, <1>5, <1>6 DEF Next

\* While the container seeds, the script is at a title, so that it has something to do.
THEOREM SeedingIsAtATitle == Spec => []BootInv
<1>1. Init => BootInv
  BY StartupAssumption DEF Init, BootInv
<1>2. QED
  BY <1>1, BootStep, Inductive, PTL DEF Spec

\* What entrypoint.sh does brings every start closer to serving or stopping, and neither
\* the database nor another seeding ever takes it back: a start that goes on ends.
THEOREM StartsMoveOn ==
  Spec => [][Starting => Closer \/ (Stays /\ ~Boot)]_vars
<1>1. IInv /\ [Next]_vars => (Starting => Closer \/ (Stays /\ ~Boot))
  BY BootCloser, OthersStay
<1>2. QED
  BY <1>1, Inductive, PTL DEF Spec
=============================================================================
