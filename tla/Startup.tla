------------------------------ MODULE Startup ------------------------------
(***************************************************************************)
(* One server container from `docker compose up` to serving: wait for the  *)
(* database, migrate, seed, serve (scripts/entrypoint.sh), and the seeding *)
(* that `make seed` runs beside it.  The container and the database can    *)
(* stop at any point; what was committed stays.  Every call of the seed    *)
(* is a transaction of its own.                                            *)
(***************************************************************************)
EXTENDS Integers, FiniteSets, Sequences

CONSTANTS Seeders,      \* "boot", and the seedings started by hand
          Copies,       \* n_copies of the BOOKS in order, then 0 for each of the MEMBERS
          MaxAttempts,  \* 60 attempts to reach the database
          MaxCorrected, \* bound on the sample rows that staff correct
          Labels        \* bound on the barcodes of seed copies that staff put on others

ASSUME StartupAssumption ==
  /\ "boot" \in Seeders
  /\ Copies \in Seq(Nat) \ {<<>>}
  /\ MaxAttempts \in Nat \ {0} /\ MaxCorrected \in Nat
  /\ Labels \subseteq Nat \X Nat

VARIABLES up,        \* the database accepts connections
          schema,    \* the migration is committed
          phase,     \* of the container
          attempts,
          books,     \* the sample rows: of which title, under its key or not, which copies
          taken,     \* barcodes <<row, number>> of the seed that copies of staff have
          seeding,   \* of each seeder: the title it is at, 0 when it is not running
          book,      \* of each seeder: its row for that title, 0 before create_book
          tried,     \* of each seeder: how many copies of its row it has tried
          cut        \* history: the row and the number tried, of each seeding cut short

rows     == <<books, taken>>
seedings == <<seeding, book, tried, cut>>
vars     == <<up, schema, phase, attempts, rows, seedings>>

Titles == 1 .. Len(Copies)
Ids    == 1 .. Len(books)
Alive  == phase # "stopped"

\* A row has the key of its sample (isbn, email) until staff correct it.
Row(t) == [title |-> t, keyed |-> TRUE, copies |-> {}]
Corrected == {b \in Ids : ~books[b].keyed}

Init ==
  /\ up = FALSE /\ schema = FALSE /\ phase = "stopped" /\ attempts = 0
  /\ books = <<>> /\ taken = {}
  /\ seeding = [s \in Seeders |-> 0] /\ book = [s \in Seeders |-> 0]
  /\ tried = [s \in Seeders |-> 0] /\ cut = {}

-----------------------------------------------------------------------------
\* The seeders that are past create_book are cut short at their copies.
CutShort(seeders) == cut \cup {<<book[s], tried[s]>> : s \in {r \in seeders : book[r] # 0}}

\* The container stops, with every process in it.
Stop ==
  /\ phase' = "stopped"
  /\ seeding' = [s \in Seeders |-> 0] /\ book' = [s \in Seeders |-> 0]
  /\ tried' = [s \in Seeders |-> 0] /\ cut' = CutShort(Seeders)

Start ==                                       \* docker compose up
  /\ phase = "stopped"
  /\ phase' = "wait" /\ attempts' = 0
  /\ UNCHANGED <<up, schema, rows, seedings>>

\* Mutant: the attempts are not counted.
Wait_Forever ==
  /\ phase = "wait"
  /\ phase' = IF up THEN "migrate" ELSE "wait"
  /\ UNCHANGED <<up, schema, attempts, rows, seedings>>

Wait ==
  /\ phase = "wait"
  /\ \/ up /\ phase' = "migrate" /\ UNCHANGED <<attempts, seedings>>
     \/ /\ ~up /\ attempts' = attempts + 1
        /\ \/ attempts' < MaxAttempts /\ UNCHANGED <<phase, seedings>>
           \/ attempts' >= MaxAttempts /\ Stop
  /\ UNCHANGED <<up, schema, rows>>

\* Mutant: a migration that fails is no reason to stop.
Migrate_NonFatal ==
  /\ phase = "migrate"
  /\ schema' = (schema \/ up) /\ phase' = "seed"
  /\ UNCHANGED <<up, attempts, rows, seedings>>

\* alembic upgrade head: the whole migration commits, or set -e ends the script.
\* SEED_ON_START says what comes next.
Migrate ==
  /\ phase = "migrate"
  /\ \/ up /\ schema' = TRUE /\ phase' \in {"seed", "serve"} /\ UNCHANGED seedings
     \/ ~up /\ schema' = schema /\ Stop
  /\ UNCHANGED <<up, attempts, rows>>

\* seed.run(), by the script or by `make seed` in the running container.
Seed(s) ==
  /\ seeding[s] = 0 /\ Alive
  /\ IF s = "boot" THEN phase = "seed" /\ phase' = "seeding" ELSE phase' = phase
  /\ seeding' = [seeding EXCEPT ![s] = 1]
  /\ UNCHANGED <<up, schema, attempts, rows, book, tried, cut>>

AfterSeed(s) == IF s = "boot" THEN "serve" ELSE phase

\* Mutant: the row of the title before is kept.
Advance_KeepsRow(s) ==
  /\ book' = book /\ tried' = [tried EXCEPT ![s] = 0]
  /\ IF seeding[s] < Len(Copies)
       THEN /\ seeding' = [seeding EXCEPT ![s] = @ + 1]
            /\ phase' = phase
       ELSE /\ seeding' = [seeding EXCEPT ![s] = 0]
            /\ phase' = AfterSeed(s)

\* On to the next title, or to the end.
Advance(s) ==
  /\ book' = [book EXCEPT ![s] = 0] /\ tried' = [tried EXCEPT ![s] = 0]
  /\ IF seeding[s] < Len(Copies)
       THEN /\ seeding' = [seeding EXCEPT ![s] = @ + 1]
            /\ phase' = phase
       ELSE /\ seeding' = [seeding EXCEPT ![s] = 0]
            /\ phase' = AfterSeed(s)

Usable == up /\ schema

\* create_book, create_member: ALREADY_EXISTS is `continue`, which passes over the copies too.
SeedBook(s) ==
  /\ seeding[s] # 0 /\ book[s] = 0 /\ Usable
  /\ LET t == seeding[s] IN
       IF \E b \in Ids : books[b].title = t /\ books[b].keyed
         THEN Advance(s) /\ books' = books
         ELSE /\ books' = Append(books, Row(t))
              /\ book' = [book EXCEPT ![s] = Len(books')]
              /\ UNCHANGED <<seeding, tried, phase>>
  /\ UNCHANGED <<up, schema, attempts, taken, cut>>

\* add_copy of the next number: inserted, unless a copy of staff has its barcode.
TryCopy(s) ==
  LET b == book[s]  c == tried[s] + 1 IN
  /\ c <= Copies[seeding[s]]
  /\ books' = IF <<b, c>> \in taken THEN books
              ELSE [books EXCEPT ![b].copies = @ \cup {c}]
  /\ tried' = [tried EXCEPT ![s] = c]
  /\ UNCHANGED <<seeding, book, phase>>

LastTried(s) == tried[s] >= Copies[seeding[s]]

\* Mutant: a barcode that is taken ends the row: the `try` is around the loop.
SeedCopy_TryAroundLoop(s) ==
  /\ book[s] # 0 /\ Usable
  /\ \/ TryCopy(s)
     \/ /\ LastTried(s) \/ <<book[s], tried[s] + 1>> \in taken
        /\ Advance(s) /\ books' = books
  /\ UNCHANGED <<up, schema, attempts, taken, cut>>

\* ALREADY_EXISTS is `pass`: the copy is left out and the next number is tried.
SeedCopy(s) ==
  /\ book[s] # 0 /\ Usable
  /\ \/ TryCopy(s)
     \/ LastTried(s) /\ Advance(s) /\ books' = books
  /\ UNCHANGED <<up, schema, attempts, taken, cut>>

\* Any other exception ends the run; entrypoint.sh goes on all the same.
SeedFails(s) ==
  /\ seeding[s] # 0
  /\ seeding' = [seeding EXCEPT ![s] = 0] /\ book' = [book EXCEPT ![s] = 0]
  /\ tried' = [tried EXCEPT ![s] = 0] /\ cut' = CutShort({s})
  /\ phase' = AfterSeed(s)
  /\ UNCHANGED <<up, schema, attempts, rows>>

\* UpdateBook, UpdateMember of a sample row.
CorrectKey(b) ==
  /\ phase = "serve" /\ Usable
  /\ Cardinality(Corrected) < MaxCorrected
  /\ books' = [books EXCEPT ![b].keyed = FALSE]
  /\ UNCHANGED <<up, schema, phase, attempts, taken, seedings>>

\* AddCopy, to any book, of a barcode that the seed has for copy c of row b.
TakeBarcode(b, c) ==
  /\ phase = "serve" /\ Usable
  /\ <<b, c>> \notin taken /\ b \in Ids => c \notin books[b].copies
  /\ taken' = taken \cup {<<b, c>>}
  /\ UNCHANGED <<up, schema, phase, attempts, books, seedings>>

Crash == Alive /\ Stop /\ UNCHANGED <<up, schema, attempts, rows>>

Database ==
  /\ up' = ~up
  /\ UNCHANGED <<schema, phase, attempts, rows, seedings>>

\* What the script does next; without the database the seed fails.
Boot ==
  \/ Wait \/ Migrate \/ Seed("boot") \/ SeedBook("boot") \/ SeedCopy("boot")
  \/ ~Usable /\ SeedFails("boot")

Next ==
  \/ Start \/ Wait \/ Migrate \/ Crash \/ Database
  \/ \E s \in Seeders : Seed(s) \/ SeedBook(s) \/ SeedCopy(s) \/ SeedFails(s)
  \/ \E b \in Ids : CorrectKey(b)
  \/ \E l \in Labels : TakeBarcode(l[1], l[2])

Spec == Init /\ [][Next]_vars

\* The script runs on; nothing is assumed of the database.
FairSpec == Spec /\ WF_vars(Boot)
-----------------------------------------------------------------------------
\* Every seeder that is past create_book is at a row of the title it is at.
TypeOK ==
  /\ up \in BOOLEAN /\ schema \in BOOLEAN
  /\ taken \subseteq Labels /\ cut \subseteq Ids \X Nat
  /\ phase \in {"wait", "migrate", "seed", "seeding", "serve", "stopped"}
  /\ attempts \in 0 .. MaxAttempts
  /\ books \in Seq([title : Titles, keyed : BOOLEAN, copies : SUBSET (Nat \ {0})])
  /\ seeding \in [Seeders -> {0} \cup Titles] /\ book \in [Seeders -> {0} \cup Ids]
  /\ tried \in [Seeders -> Nat]
  /\ \A s \in Seeders : book[s] # 0 => books[book[s]].title = seeding[s]

\* The server serves only on a migrated schema, whatever stopped when.
ServesMigrated == phase = "serve" => schema

\* The reasons for which a book of the sample may be without its copy number c.
Ahead(b, c) == \E s \in Seeders : book[s] = b /\ tried[s] < c
Lost(b, c)  == \E e \in cut : e[1] = b /\ e[2] < c

\* A book of the sample lacks a copy only while the seeding that added the book is
\* still before it, or was cut short before it, or because a copy of staff has its
\* barcode: seedings that overlap, fail or run again leave no other gap.
SeedIsWhole ==
  \A b \in Ids : \A c \in 1 .. Copies[books[b].title] :
    c \in books[b].copies \/ <<b, c>> \in taken \/ Ahead(b, c) \/ Lost(b, c)

\* A seeding that ran to its end, with no other beside it, leaves every title with all
\* its copies (scripts/seed.py: "Insert sample books, copies, and members (safe to
\* re-run).").
SafeToRerun ==
  [][\A s \in Seeders :
       (SeedBook(s) \/ SeedCopy(s)) /\ (\A r \in Seeders : seeding'[r] = 0)
         => \A t \in Titles : \E b \in Ids' :
              books'[b].title = t /\ 1 .. Copies[t] \subseteq books'[b].copies]_vars

\* Every start ends: the server serves or the container has stopped.
StartEnds == phase \notin {"serve", "stopped"} ~> phase \in {"serve", "stopped"}
=============================================================================
