# Neighborhood Library: specification, model checking and proofs

This directory is the formal model of the library service in this repository:
TLA+ modules for its components, TLC configurations that check them on small
instances, and TLAPS proofs about each of them for instances of any size.

Contents: 1 the system, 2 what is hard about it, 3 the modules and how they
correspond to the code, 4 the runs, 5 fairness, 6 the proofs, 7 what the runs
refute, 8 what is abstracted or left out, 9 the plan, 10 how to run it.

## 1. The system

A Python gRPC server over PostgreSQL, a web page that calls it through Envoy,
and a start-up script.

| component | code | state it keeps | operations | what makes it correct |
|---|---|---|---|---|
| lending | `server/app/lending` | rows of `loans`; the status of a `book_copies` row | `borrow_book`, `return_book`, `list_loans`, the late fine | one open loan per copy; status of the copy agrees with its loans; a return is settled once; only active members borrow; the fine is per started day |
| books and copies | `server/app/books` | rows of `books`, `book_copies` | create/update/get/list book, add/update/list copy | the status of a copy is not changed under an open loan; counts are true of the time of the request; keys are unique; an edit keeps what others have edited |
| members | `server/app/members` | rows of `members` | create/update/get/list member | a suspended member gets no loan; e-mails are unique; a refusal names an e-mail that is really taken |
| persistence | `server/app/persistence`, `server/migrations` | connection pool, one session per request, the schema with its indexes | `unit_of_work`, the migration | all of a request or nothing of it is committed; no deadlock but of exchanged keys |
| gRPC adapter | `server/app/api` | a pool of 10 threads | one handler per RPC, error mapping, mappers | every request is answered |
| core | `server/app/core` | settings | pagination tokens, validation, enumerations, errors | a walk over pages misses nothing that stays, and ends |
| start-up | `server/scripts/entrypoint.sh`, `server/app/scripts/seed.py`, `docker-compose.yml` | what an earlier start left in the database | wait for the database, migrate, seed, serve | no service without a schema; the sample is whole but for known reasons; every start ends |
| web page | `web/src/app/page.tsx` | React state: filter, lists, selections; calls in flight | switch tabs, search, create, borrow, return, reload | what is on the screen is what was asked for; what was confirmed gets onto it |
| proxy, example client, protocol, tests | `envoy`, `examples`, `proto`, `server/tests` | none | forwarding, a demonstration, message types | not modelled, see section 8 |

Interactions. A handler of `servicer.py` turns a request into one call of a
service function; the function runs in one `unit_of_work()`, which is one
session and one READ COMMITTED transaction; a `DomainError` becomes a gRPC
status and every other exception INTERNAL. `lending` uses the repositories of
`books` and `members`, and `books.update_copy` looks up open loans: the three
meet in the rows of `book_copies` and `loans`, and row locks (`FOR UPDATE`,
`FOR UPDATE SKIP LOCKED`, and the `FOR KEY SHARE` of a foreign key) are all that orders them. The page talks to the server
with asynchronous calls and goes on in callbacks. The seed calls the service
functions without the server in between, and so does `make seed` while the server
runs.

## 2. What is hard

- Requests of ten threads (and of a second server on the same database)
  interleave at every statement, and what a statement has read may be stale when
  the next one runs: the status of the member, the counts, the clock.
- Locks are taken in different orders: a return locks the loan, then the copy; a
  borrow locks the copy, inserts a loan and then, for the foreign key of that loan, waits
  for whoever changes the e-mail of its member; that update waits for the e-mail of another
  member. So there are chains of four kinds of lock, and two updates that exchange their e-mails
  (or ISBNs) wait for each other.
- A transaction can fail at any statement, and a COMMIT can succeed without the
  client hearing of it.
- Pages are offsets into a listing that changes between the pages.
- Page callbacks come back in any order, in closures of old renders.
- The container or the database can stop in the middle of a start.

`PROJECT.json` lists each hazard with its line and with the properties that
would be violated if it went wrong, or with the reason why no property covers it.

## 3. Modules

| module | models | builds on |
|---|---|---|
| `Fines` | `_compute_fine`, with `CeilDays` for `math.ceil(seconds / 86400)` | |
| `LendingAbs` | what the lending service promises: the tables and operations that each take one step | `Fines` |
| `Lending` | `borrow_book`, `return_book`, `update_copy`, `update_member` as interleaved transactions, one step per SQL statement, with the locks of copies, loans and members, e-mails, and the deadlock detector; `create_book`, `create_member`, `add_copy`, the clock | `Fines`; `Abs == INSTANCE LendingAbs` |
| `CatalogAbs` | what the catalog promises: a directory in which a key leads to one row | |
| `Catalog` | `create_book`, `update_book`, `add_copy` (and `create_member`, `update_member`) as interleaved transactions with unique keys, row locks, the foreign key and the deadlock detector | `Abs == INSTANCE CatalogAbs` |
| `Listing` | `pagination.resolve` (`Limit`, `Offset`, `ValidRequest`), `next_token`, and ORDER BY id LIMIT/OFFSET (`Page`) | |
| `Paging` | a client that walks through a listing while rows arrive and leave | `Listing` |
| `Queries` | `GetBook`, `ListBooks`, `ListLoans`, statement by statement, while lending goes on | `Listing`, `Fines`; `Service == INSTANCE LendingAbs` |
| `Circulation` | a reader and the writers of `Lending` on one database, statement by statement | `Lending`; `Reader == INSTANCE Queries` |
| `Startup` | `entrypoint.sh`, `seed.py`, `make seed`, crashes and restarts | |
| `LoansPage` | `LoansSection` of the web page with its calls in flight | |
| `BooksPage` | `BooksSection` of the web page and the switch between tabs, with its calls in flight | |
| `LendingProofs` (with the billing rule of `Fines`), `CatalogProofs`, `StartupProofs`, `PagingProofs`, `QueriesProofs`, `CirculationProofs`, `LoansPageProofs`, `BooksPageProofs` | theorems | the module of that name, TLAPS |
| `MC_*` | values for the constants | |

How they compose. `Lending` implements `LendingAbs` (checked as `Serial`, proved
as `Serializable`), so `Queries` runs the read RPCs against `LendingAbs`, whose
steps are all that another transaction can see of lending. That this may be done is
proved of `Circulation`, which puts the reader beside `Lending` itself: it implements
`Queries` (`ReadersSeeTheService`). `LoansPage`
keeps of the service one step per call, which is what the same theorem says.
`Catalog` implements `CatalogAbs` in the same way (checked as `Directory`, proved as
`DirectoryRefined`), and `BooksPage` relies on that. `Lending` and `Catalog` share the rows of
`members` and `books`. Where a request of one waits for one of the other, it is the foreign key of
a loan that waits for a change of its member's e-mail, and `Lending` has both; `add_copy`, which
locks its book in the same way, holds no lock that lending takes, and is in `Catalog`.

### Lending

State. `books`, `members`, `emails`, `copies`, `loans` are the committed tables: members
and copies as a status per id (`"absent"` before the row exists), `emails` the unique key of each
member, loans as records. `now` is the clock of `_now()`. A worker `w` is a thread of the gRPC pool:
`pc[w]` names its next statement, or `"ready"`; `req[w]`
is the request; `held[w]` is the copy row it has locked; `row[w]` is the loan row
it has written but not committed, which while a return runs is also the loan it
has locked. The locks on members follow from `pc` and `req`: `Updates(v, m)` is the lock of an
UPDATE, `Lends(v, m)` the `FOR KEY SHARE` of the foreign key of a new loan, and the two exclude each
other only if the UPDATE changes the e-mail (`Rekeys`). `barred` is a history variable: borrows whose
member has not been active at any moment since they arrived. `FinesSettled` reads the fine off the
tables, by counting started days, after whatever sequence of returns and retries.

| action | code |
|---|---|
| `BorrowBegin`, `ReturnBegin`, `UpdateCopyBegin` | the handler is called, the session begins |
| `BorrowReadMember` | `get_member` and the two checks |
| `BorrowLockCopy` | `get_copy_for_update` and the status check; waits for the holder of the lock |
| `BorrowLockAvailable` | `lock_available_copy`; never waits, skips what is locked, takes the lowest id |
| `BorrowFlush` | INSERT of the loan: `one_open_loan_per_copy` refuses or waits |
| `BorrowParent` | the foreign key of that INSERT locks the member; with the copy in hand it waits for a change of the e-mail |
| `CommitBorrow`, `CommitReturn`, `CommitUpdateCopy`, `CommitUpdateMember` | COMMIT: private writes become visible, locks go; the reply is OK or, when the acknowledgement is lost, INTERNAL, which the tables do not show |
| `ReturnLockLoan` | `get_loan_for_update`, the check of `returned_at`, the fine |
| `ReturnLockCopy` | `get_copy_for_update` of the copy of the loan |
| `UpdateCopyLock`, `UpdateCopyCheck` | the lock; the lookup of an open loan, which locks nothing (`LookupWaits`), unless the new status is ON_LOAN or none |
| `UpdateMemberRead` | the unlocked read, with which the session begins; `req[w]` keeps the columns that differ from what was read, which are all that the UPDATE will set |
| `UpdateMemberLock` | the row lock of the UPDATE; for a new e-mail it waits for borrows of the member too |
| `UpdateMemberKey` | the unique check of a new e-mail waits for whoever has entered it or may give it up, then refuses or enters it |
| `DeadlockDetected` | PostgreSQL ends one of the transactions that wait for each other |
| `Abort` | any exception outside the domain errors |

### Catalog

State. `rows[i]` is the committed row of `books` (or `members`), a key and the other
columns; `copies` the committed copies. Of a worker, `pc` and `req` are as in `Lending`,
`dirty[w]` are the attributes that SQLAlchemy finds changed against the row it has
read, and `new[w]` is the row version that is written and not committed.

| action | code |
|---|---|
| `CreateBegin`, `CreateInsert`, `CommitCreate` | the INSERT waits for whoever has entered the key or may give it up, then fails on it or enters it |
| `UpdateRead` | the unlocked read and the comparison; no UPDATE if nothing differs |
| `UpdateLock` | the row lock of the UPDATE, which sets the `dirty` columns of the version committed by then |
| `UpdateKey`, `CommitUpdate` | the unique check of a changed key; COMMIT |
| `AddCopyRead`, `AddCopyInsert`, `AddCopyParent`, `CommitAddCopy` | the book is read, the barcode entered, the book locked against a change of its key |
| `DeadlockDetected` | PostgreSQL ends one of the transactions that wait for each other |
| `Abort` | any exception outside the domain errors |

`WaitsFor(w)` is the set of transactions the next statement of `w` has to wait for.
Deadlock is a property of it (`InCycle`): a worker waits, through others, for itself.

### Queries

One reader is enough: readers write nothing and do not meet. `pc` is the
statement the request is at, `todo` the books of the page that are not counted
yet, `counted` and `rows` the reply. `stock` and `late` are history variables
taken when the request comes; `shelf` collects, for each book, how many copies were available at
each moment of the request, which begins a new one whenever somebody commits a write (`Watch`). `SelectLoans` filters with a clock between the
handler's and its own execution, and labels with the handler's.

### Circulation

The variables are those of `Lending` and of `Queries`, over the same tables; the `pc` of the
reader is called `reading`. A step is one of a writing thread (`Writing`) or the next
statement of the reader (`Reading`, which is `Read` of `Queries`). A SELECT takes no lock and
waits for none, so every statement of the reader may fall into the middle of a borrow, a
return or a status change. `Circulation` is there for its theorem and belongs to no run of
section 4; `MC_Circulation` is an instance to try it on (one copy, one loan, one e-mail, two writers,
a clock that stands still: 772,000 states in a minute).

### Paging

`token` is what the client sends next (`None` for the empty string), `listed`
the rows it has seen. `stayed`, `joined`, `left`, `repeats` are history. Rows are ordered by
id; loans are listed by descending id, which is the same model read backwards.
Since ids are given at INSERT and rows become visible at COMMIT, a row may
arrive anywhere in the order.

### Startup

`phase` is the statement of the script. `seeding[s]`, `book[s]` and `tried[s]` are the title, the
row and the copy number that `run()` is at, in each process that seeds. `books` are the sample rows that
exist, each with the numbers of the copies it has, members being samples without copies. The barcode of
a sample copy is made of the id of its row and its number; `taken` are those that copies of staff have
(`TakeBarcode`), and there `SeedCopy` passes over `AlreadyExists` and goes on to the next number, while
`SeedBook` passes over the title with its copies. The container stops (`Stop`) when it crashes,
when the attempts are used up and when the migration fails, and every process in it
ends; `Database` takes the database up or down; all keep what is committed.
`cut` is history: the row a seeding was at when it was cut short, and how many copies it had tried.

### LoansPage

`filter`, `returnable`, `borrowPicked`, `returnLoan` are the React state, `table`
is the filter the rows in `loans` were listed with, `calls` the bag of calls in
flight. Every `await` is two steps, `Serve` or `Refuse` at the server and `Receive` in
the page. A call carries the filter of the render that made it, because the
`load()` a handler calls at its end is the one of that closure. `returnedHere` is history, the loans
whose return was confirmed here, and so is `overlapped`: when the last list for the picker was asked for,
another one was still in flight (`Lists`).

### BooksPage

`table` and `copyBookId` are the React state, `stock` is what the server has, `mount`
counts how often the section was mounted: switching tabs unmounts it, the calls of the
old mount stay in `calls` and what they set is lost. `unseen` is history: what a
call of this mount has confirmed and no list of this mount has shown since.

## 4. Runs

| run | checks | what it shows |
|---|---|---|
| `lending_safety` | `TypeOK`, `OpenLoanIsOnLoan`, `LoanPeriodsDisjoint`, `BackstopUnused`, `SuspendedRefused`, `FinesSettled`, `OnlyExchangesDeadlock`, `ClosedLoansFinal`, `OrphansAreMadeByHand`, `Serial` | the row locks alone keep loans and copies consistent, whatever interleaves; the unique index never has a row to refuse; requests never wait in a cycle; a copy that is on loan to nobody was put there by staff; a returned loan carries the fine of its started days, at the boundary of a day too; the tables evolve as if requests were served one at a time |
| `lending_answers` | `OnlyExchangesDeadlock`, `EveryRequestAnswered` | with a fair lock queue every request ends, also a borrow that waits with its copy locked for an e-mail change; only an exchange of e-mails is a deadlock, and it ends too |
| `catalog` | `TypeOK`, `KeysUnique`, `OnlyExchangesDeadlock`, `OthersChangesKept`, `AlreadyExistsIsTrue`, `Directory`, `EveryRequestAnswered` | keys stay unique; an edit keeps what others committed since its read; ALREADY_EXISTS is true when it is answered; nothing but an exchange of keys is a deadlock, and a deadlock ends; the commits are those of a directory |
| `paging` | `TypeOK`, `SkippedOnlyForLeavers`, `RepeatsOnlyForArrivals`, `WalkEnds` | a row that stays is missed only for one that left, a row is repeated only for one that arrived, the walk ends |
| `queries` | `TypeOK`, `CountsOfTheRequest`, `OverdueNotMissed` | each count in a reply is true of a moment of its request: the total lies between those of the beginning and the end, and so many copies were available at once; a loan overdue when the request came is in the list and labelled so |
| `loans_page` | `TypeOK`, `FilterIsLoaded`, `ReturnedNotOffered` | once all is quiet the rows of the chosen filter have been shown, and the picker offers no loan that was returned here, unless the last lists for it were in flight together |
| `books_page` | `TypeOK`, `CreatedIsShown` | once all is quiet, what this mount was told is created or added has been in the table, if it is among the first 100 |
| `startup` | `TypeOK`, `ServesMigrated`, `SeedIsWhole`, `StartEnds` | no service without schema; a sample lacks a copy only before its seeding comes to it, after a seeding that was cut short before it, or where staff have used its barcode, even when two seedings overlap or repeat; every start ends |
| `lending_suspended`, `loans_page_filter`, `loans_page_picker`, `startup_rerun` | one property each, violated | section 7 |

Bounds and why they are enough.

- `lending_safety`: three workers, one member, one e-mail, one copy, two loans, a clock of three
  instants with two ticks to the day, and loans that are due at once, so that they come back when
  they are due, within the first day and at its end. The locks are per copy and per loan, and a conflict is
  between requests on one copy; three workers are needed for a holder and two
  waiters of different kinds (a return that holds its loan and waits for the copy,
  behind a status change). Two loans of one copy are needed for
  `LoanPeriodsDisjoint` and for a return of one loan beside a borrow of the next. Loan ids and workers
  are interchangeable, so symmetry is used. With one e-mail nobody changes it; that is in the next
  run. More copies, books, members and loans
  are covered by the proofs of section 6, which assume no bound.
- `lending_answers`: two workers and no symmetry, because of liveness; two members and two e-mails, which
  can be changed, wanted by both and exchanged, one copy and one loan, and a clock that stands still (no
  statement waits for it). Longer chains, from a return over a borrow and an e-mail change to the e-mail of
  another member, need four workers; they are covered by `DeadlocksAreExchanges` and `WaitsEnd` of section 6.
- `catalog`: two workers, two rows, two keys and two values of the other columns, one barcode, no
  symmetry. Two updates are enough for an exchange and for two edits of one row that
  touch different columns; a creation, an edit and a copy can each be one of the two. The proofs
  cover any number. Three workers give longer cycles and waiters behind waiters; the
  liveness of the run is for two (see section 5).
- `Catalog` starts a creation only while an id in `Ids` will be left for it (`CreateBegin`).
- `books_page`: three books and a page of two, so that one can be beyond it; one copy each; the user
  acts while at most one call is in flight (`MaxCalls`); the tab is left and
  reopened once (`MaxMounts`).
- `Lending` starts a borrow only while an id in `LoanIds` will be left for it
  (`BorrowBegin`), and the clock stops at `MaxTime` (`Tick`).
- `paging`: five rows, page sizes -1, 0, 1 and 3 with default 1 and maximum 2:
  refused, defaulted, exact and capped. Up to four arrivals and four departures per
  walk (`MaxChanges`), anywhere in the order.
- `queries`: two books and two copies, both of the first book; one loan; two instants, days of one
  tick and a loan that is due at once, so that it falls due between any two clock
  readings; pages of two books and one with a token.
- `loans_page`: two loans, two filters (a third adds no new overlap: only whether a
  filter is the current one matters), and the user acts while at most one call is in
  flight (`MaxCalls`), so up to four calls overlap. The return
  picker run has three loans and pages of two.
- `startup`: two seedings; two books with two copies and one, and a member; two
  attempts for 60; one corrected key (`MaxCorrected`); staff may use the barcode of the first copy of the
  first row (`Labels`), so that one copy of two is left out and the other must still come.

Deadlock is checked in every run.

## 5. Fairness

- `Lending`: `SF_vars(Serve(w))` for every worker. A thread that can execute its
  next statement does, and PostgreSQL queues the waiters of a row lock, so a
  waiter for whom the lock becomes free again and again is not passed over for
  ever. Weak fairness would not be enough: the lock of a popular copy is taken and
  released infinitely often. And `WF` on the deadlock detector, which runs whenever a wait lasts
  for `deadlock_timeout`. Nothing is assumed of the arrival of requests. PostgreSQL lets a share lock on a
  row be taken while a stronger one is waited for, so with three workers or more a change of an e-mail
  could be held up by borrows of that member that never stop coming; that `EveryRequestAnswered` holds
  for them is not claimed.
- `Catalog`: the same, with the same restriction: with three workers or more a change of an ISBN could be
  held up by new copies of that book that never stop coming.
- `Paging`: `WF` on `Fetch`. The client goes on; arrivals and departures are under no
  obligation. (`WalkEnds` needs a bound on them, `MaxChanges`: a listing that
  grows faster than it is read has no last page.)
- `Startup`: `WF` on `Boot`, the script itself. Nothing is assumed of the database:
  `StartEnds` holds because attempts are counted and a seed without database fails.

## 6. Proofs

All are checked by TLAPS for arbitrary constants under the named assumptions
`FineAssumption`, `LendingAssumption`, `CatalogAssumption` (ids of copies and rows are numbers, `None` is not a
value of a column, times are naturals; the threads of a pool and the modelled loans are finitely
many, any number of them), `StartupAssumption` (the sample is a sequence
of at least one title with its number of copies, one attempt at least is made),
`ListingAssumption` and `PagingAssumption` (page sizes of the settings are positive, ids are
numbers), `QueriesAssumption` (as for lending; no filter is `None`), `LoansPageAssumption` and
`BooksPageAssumption` (ids are numbers and `None` is not, pages are not empty). The bounds
that keep TLC finite (`MaxTime`, `MaxChanges`, `MaxCalls`, `MaxMounts`) are arbitrary in them.

The billing rule comes first in `LendingProofs`: `FineCoversDelay` (the days charged cover the
delay and are the fewest that do, for a day of any length) and `FineMonotone`.

`LendingProofs`: the inductive invariant is

    IInv == TypeOK /\ TableInv /\ (\A w : WorkerInv(w)) /\ Apart

- `TableInv`: loan ids are unique, a loan was returned no earlier than it was
  borrowed and nothing lies in the future; `OpenLoanIsOnLoan`;
  `LoanPeriodsDisjoint`.
- `WorkerInv(w)`: what each statement may rely on because of the statements before
  it, under the lock it holds. A borrow past its lock has a copy that is
  AVAILABLE; its row is open and starts after every loan of that copy has ended. A
  return past its lock has a row that is the committed open loan, closed. A status
  change past its check has no open loan or leaves it alone. A barred borrow is
  not past the member check.
- `Apart`: no two workers hold one copy, or one loan, or an uncommitted loan id.

`OpenLoanIsOnLoan` alone is not inductive: a commit writes a status that was decided
statements earlier, so it stands on `WorkerInv` and `Apart`, and these on
the locks. The proof has one step per action. Three frame lemmas carry the
rest: a step that writes no table and takes no lock disturbs nobody (`SessionStep`), a
commit disturbs only workers on the same copy or loan, and there are none
(`CommitStep`, `OtherWorker`).

What waits for what is `WaitsFor`, the holders of the lock that a statement asks for, and the proofs
about it stand on an order. With `IInv` (`Behind`), a statement waits only for requests that are further on:

| waits | for a request that has locked | which may itself still wait |
|---|---|---|
| `r_loan` | the loan, and so is returning it | at `r_copy` |
| `b_copy`, `c_lock`, `r_copy` | the copy | at `b_parent` |
| `b_parent` | the member, to change its e-mail | at `m_key` |
| `m_lock` | the member, to change it or to lend to it | at `m_key` |
| `m_key` | an e-mail, or the member that has it | at `m_key` |

(At `b_flush` nobody is waited for: whoever has inserted a loan of the copy has locked the copy.)
So a cycle of any length consists of requests at `m_key` (`CycleOfKeys`, by naming for every other
request a set that is closed under waiting and is without it, `NotInCycle`), and each of them wants the
e-mail that the next one gives up: `DeadlocksAreExchanges`.

A cycle is one way for everybody to wait; `WaitsEnd` excludes the others. A chain is a set of
waiting requests that has, with each, all it waits for, and every chain, of whatever length and
branching, holds a request whose next statement can run, or one in an exchange of e-mails, which the
detector ends. That a statement can run is `CanServe(w)`, its guard written out, because ENABLED is out of the
prover's reach; whatever runs has passed it (`Guarded`). The proof takes a least chain within the
chain, which exists because the subsets of a finite set are well-founded (`LeastChain`); either it is one
request that waits for nobody, or each of its members is in a cycle (`LeastChainIsCycle`). And who waits
for nobody can go on (`FreeToGoOn`): a set of lendable copies has a least id (`FirstCopy`), and the bound on
loan ids in `BorrowBegin` leaves one for every borrow in flight (`RoomForEveryBorrow`), which is
counted: `RoomInv`, committed loan ids and borrows in flight together are at most the ids there are.
The converse is `LocksRespected`: nothing runs past a lock of somebody else. It stands on what the holders of
locks know of their rows, since the guard for a row that does not exist waits for nobody.

`CatalogProofs`: the inductive invariant is

    IInv == TypeOK /\ KeysUnique /\ (\A w : WorkerInv(w)) /\ (\A v # w : Apart(v, w))

- `WorkerInv(w)`: a row that is being updated, or is getting a copy, exists; under
  the row lock of an UPDATE, the new version is still what the request makes of the
  committed row; a key or barcode that `w` has entered is on no committed row or copy.
- `Apart(v, w)`: no two have locked one row, or entered one key, or one barcode.

`KeysUnique` alone says nothing of what is entered and not committed; the two-sided wait
(for those who have entered a key and for those who may give it up) is what keeps
`WorkerInv` and `Apart`. `OnlyExchangesDeadlock` needs no invariant: it
follows from the order in which statements take their locks. A statement waits only for
transactions that are further on, and a key check is the only one that can wait for another of its kind, so
a cycle of any length consists of key checks.

`WaitsEnd` of the catalog is the one of lending, with the same argument: every chain of waiting holds a
request that waits for nobody or one in an exchange of keys.

`StartupProofs`: `IInv` adds to the properties of the run that no row has more
copies than its title, that everything behind the migration is behind a committed one,
that attempts are left while the script waits, and that the seeding of the script runs
only inside its step. `SeedIsWhole` is inductive with them: a seeder that leaves a row has tried all of
its numbers, or is cut short, and then the row and the last number tried are in `cut`; a number that was tried
has its copy or a copy of staff has its barcode. What `StartEnds`
rests on is proved as `StartsMoveOn`: every step of the script is `Closer` to its end (a phase, an
attempt, a title, a row or a copy tried, each of them bounded), and no step of the database, of
another seeding or of staff takes it back (`Stays`); and while the container seeds the script
is at a title (`SeedingIsAtATitle`). With weak fairness of `Boot` that gives the end of every start.

`PagingProofs` counts. `Position(rows, r)`, the rows before `r`, is what an offset is
compared with; lemmas say that it grows with the rows, that positions below the number of rows are all
taken, and how a join or a leave shifts it by one. `RepeatsOnlyForArrivals` is not inductive: a row
that arrives early pushes a listed one over the offset, and only the next page repeats it. `IInv`
therefore pays for repetitions before they happen,

    walk = "walking" => repeats + Cardinality(Ahead) <= joined

where `Ahead` are the listed rows that are at the offset or behind it again. `SkippedOnlyForLeavers` is
inductive as it stands. With two more conjuncts of `IInv` (a walk that no row has left has handed out
visible rows only; where none joined and none left, all stayed) both give `UndisturbedWalksAreExact`:
over a listing that stays as it is, every row is handed out once, whatever page sizes are mixed. `WalksMoveOn` is the
step behind `WalkEnds`: tokens grow and stay within the listing.

`QueriesProofs` is about one reader beside all of `LendingAbs`. What a reader may rely on is
little, `ServiceStep`: copies never become unregistered, so the COUNT of a book only grows
(`MoreCopies`); a loan keeps its id, and after a write it is as it was or closed. `IInv` says that
the total that is not yet in the reply lies between the count of the beginning and that of now, that the number
of copies that are available now is in `shelf`, which is what the next COUNT will find (that no write is missed
there is `Watch`), and that every
open loan in `late` is overdue at the clock of the handler, hence at every later clock.

`CirculationProofs` carries this over to readers beside overlapping requests. A step of the writers is a step
of the serial service or of none, by `StepSerial`, which the proof of `Serializable` is built on, and the
service that the reader sees is that one (`SameService`); hence `ReadersServed`. The theorems of
`QueriesProofs` are about every behaviour of `Queries`, so, under `QueriesAssumption`, also about
these readers: instantiating them (`Answers`, with `reading` for `pc`) gives `RepliesBesideWriters`, that the
counts and the overdue loans in a reply are right beside transactions that are in the middle of their work.

`LoansPageProofs` and `BooksPageProofs`: "by the time all is quiet" is turned into an
invariant by naming, for everything the screen still owes, the call that will bring it. For the Loans tab
that is a `load` of the filter that is set, and for every loan in `returnedHere`, unless `overlapped`, the one list
for the picker that is in flight, which is not answered yet, ends in an error, or does not have the loan
(`StaysOut`); that there is only one, counted with multiplicity (`OneList`), is what rules out that an older
one is stored later. For the Books tab, for every fact in `unseen` a list of
this mount that is not answered yet or shows it. The server keeps such a call good: a returned loan stays
returned, copies are only added, and since ids are given in order no book moves on or off
the first page once it exists (`CreateBookGrew`). The lemmas on bags say that answering or ending
one call leaves every other one in flight. The number of calls in flight and their order are not bounded.

| theorem | property | says |
|---|---|---|
| `Inductive` | | `IInv` holds always |
| `TypeCorrect` | `TypeOK` | |
| `OpenLoansAreOnLoan` | `OpenLoanIsOnLoan` | |
| `LoansDisjoint` | `LoanPeriodsDisjoint` | |
| `BackstopNeverUsed` | `BackstopUnused` | |
| `SuspendedNeverLent` | `SuspendedRefused` | |
| `ClosedLoansStayFinal` | `ClosedLoansFinal` | |
| `Serializable` | `Serial` | every step of `Lending` is one step of `LendingAbs` or a stutter, under the identity on the tables and the clock |
| `OrphansAreByHand` | `OrphansAreMadeByHand` | |
| `FinesAreSettled` | `FinesSettled` | with `FineCoversDelay`, for days of any length |
| `DeadlocksAreExchanges` | `OnlyExchangesDeadlock` | |
| `WaitsEnd` | | every chain of waiting leads to a request that can go on or to an exchange of e-mails |
| `LocksRespected` | | no statement runs past a lock of another request |
| `RoomForEveryBorrow` | | the bound on loan ids refuses no borrow that has begun |
| `Inductive` (catalog) | | `IInv` holds always |
| `TypeCorrect` (catalog) | `TypeOK` | |
| `KeysStayUnique` | `KeysUnique` | |
| `UpdatesMerge` | `OthersChangesKept` | |
| `RefusalsAreTrue` | `AlreadyExistsIsTrue` | |
| `DeadlocksAreExchanges` (catalog) | `OnlyExchangesDeadlock` | |
| `DirectoryRefined` | `Directory` | every step of `Catalog` is one step of `CatalogAbs` or a stutter, with the rows listed by key |
| `WaitsEnd` (catalog) | | every chain of waiting leads to a request that goes on or to an exchange of keys |
| `Inductive`, `TypeCorrect` (start-up) | `TypeOK` | |
| `AlwaysServesMigrated` | `ServesMigrated` | |
| `GapsHaveReasons` | `SeedIsWhole` | |
| `StartsMoveOn` | | the script brings every start closer to its end, and nothing takes it back |
| `Inductive`, `TypeCorrect` (paging) | `TypeOK` | |
| `SkipsAreLeavers` | `SkippedOnlyForLeavers` | |
| `RepeatsAreArrivals` | `RepeatsOnlyForArrivals` | |
| `UndisturbedWalksAreExact` | | a walk over a listing that does not change lists every row once |
| `WalksMoveOn` | | every token given out is beyond the one before it and within the listing |
| `Inductive`, `TypeCorrect` (queries) | `TypeOK` | |
| `CountsAreOfTheRequest` | `CountsOfTheRequest` | |
| `OverdueAreFound` | `OverdueNotMissed` | |
| `ReadersServed` | (`ReadersSeeTheService`) | the statements of a reader beside overlapping writers are those of one beside the serial service |
| `RepliesBesideWriters` | (`CountsOfTheRequest`, `OverdueNotMissed`) | both hold of a reader beside overlapping writers |
| `Inductive`, `TypeCorrect` (Loans tab) | `TypeOK` | |
| `FilterGetsLoaded` | `FilterIsLoaded` | |
| `ReturnedStaysOut` | `ReturnedNotOffered` | |
| `Inductive`, `TypeCorrect` (Books tab) | `TypeOK` | |
| `CreatedGetsShown` | `CreatedIsShown` | |

Only model-checked: `EveryRequestAnswered` (of `Lending` and of `Catalog`), `WalkEnds` and `StartEnds`, because
they are liveness under fairness, which is out of the prover's reach; `WaitsEnd`, `WalksMoveOn` and
`StartsMoveOn` are their parts without it. What the four properties of section 7 say is refuted.

## 7. What the runs refute

Four runs check something that a doc or a comment says and that the code does
not do; each ends in a counterexample.

- `lending_suspended`: `borrow_book` reads the member without a lock. A borrow that
  has passed the check commits after a suspension has committed. What does hold is
  `SuspendedRefused`: a member who was suspended all through the request gets no loan.
- `loans_page_filter`: a `load()` that was started under an older filter and is
  answered last leaves its rows under the new filter.
- `loans_page_picker`: the return picker takes one page of the newest loans of any
  status and drops the returned ones; an open loan with a page of newer loans is
  not offered.
- `startup_rerun`: a seed that is cut short between `create_book` and its last copy leaves a book that is
  short of copies, and every later seed passes over it as already there. `seed.py` calls itself "safe to
  re-run", which it is in the sense that nothing is inserted twice; it does not make the sample whole. What does
  hold is `SeedIsWhole`.

Known behaviour that the passing properties bound, rather than refute:

- A book may be refused as sold out while its last copy is only locked for an
  edit or by a borrow that then fails: `SKIP LOCKED` does not wait.
- `UpdateCopy` accepts ON_LOAN as a new status and does not look for a loan then. The copy is on loan to
  nobody: it cannot be borrowed, and there is no loan to return (another `UpdateCopy` brings it
  back). Nothing else does that (`OrphansAreMadeByHand`).
- A borrow can wait, with its copy locked, until a change of its member's e-mail is committed, and a return of
  that copy, or a change of its status, waits behind it.
- `update_book` and `update_member` write the columns that differ from an unlocked read: of two
  updates at once each keeps its columns, and the row may be one that neither
  asked for (`OthersChangesKept`).
- Two updates that exchange ISBNs or e-mails wait for each other; one is ended and
  answered INTERNAL, and nothing else ever is for that reason (`OnlyExchangesDeadlock`).
- `validate_isbn` counts an ISBN without hyphens and spaces and stores it with them: two
  spellings of one ISBN are two keys, and two books.
- A seed leaves out a copy whose barcode is taken, and goes on with the next (`SeedIsWhole`).
- If two lists for the return picker are in flight, and the one asked for before a return is stored last, the
  returned loan stays on offer until the next list. `ReturnedNotOffered` says that nothing else keeps it there;
  returning it again is refused.
- In the Books tab an older list that is answered later overwrites a younger one; a write
  that is answered after the tab was left is not followed by a list of the new mount;
  books beyond the first 100 are not shown (`CreatedIsShown`).
- `GetBook` may show more available copies than copies, if copies were added
  between its two COUNTs (`CountsOfTheRequest`).
- A list of overdue loans may hold a row labelled outstanding, if the loan fell due
  while the request was running (`OverdueNotMissed`).
- A walk over pages may show a row twice, once for every row that arrived
  (`RepeatsOnlyForArrivals`).
- A borrow that is repeated after a lost reply is a second loan.
- The seed runs on every start and knows a sample by its ISBN or e-mail: after a
  correction of that key the sample is inserted again.

## 8. Abstractions and what is left out

- PostgreSQL is modelled by what the code relies on: READ COMMITTED, row locks
  until the end of the transaction, `SKIP LOCKED`, the wait of a unique index for an uncommitted row. The
  clock never runs backwards.
- `borrow_book` with neither id is refused before a transaction begins and is left out. The `get_book` that
  decides between NOT_FOUND and sold out is merged with the locking statement before it.
- Condition, shelf, titles, names, phones and search texts are data no property
  tells apart. Filters by query or member are one listing of matching rows.
- In `Lending`, `create_book`, `create_member` and `add_copy` are single steps: no other
  transaction can see or wait for their row, but for equal keys, and those are in `Catalog`. An UPDATE of a
  member sets at least one column; that may be the name or the phone, which are not modelled. Replies
  are not told apart.
- Ids of books (`CreateBook` of `BooksPage`) and loans (`Lend` of `LoansPage`) become visible in increasing order.
  The database gives them at INSERT and shows them at COMMIT, so that two transactions may be seen the other
  way round; `Paging` has that, where a row may arrive anywhere in the order.
- `Catalog` chooses the id of a new row at its commit, which nobody sees before, and merges the
  first read of an update or a new copy with the arrival of the request. Of the replies only
  ALREADY_EXISTS is told apart afterwards. A commit whose acknowledgement is lost leaves
  the tables of one that is not.
- `fine_cents` has 32 bits: with the default rate it overflows after some 235,000 years.
- `Queries` takes the whole list of loans in one statement, without limit, offset or the member filter of
  `list_loans`; its pages are `Paging`'s.
- `LoansPage` is one mount of the tab (remounting is in `BooksPage`); the lookups of members and books and the searches in
  the browser are left out, OVERDUE is a filter like the others.
- Two seeders never try one barcode, since it contains the id of a row that one of them has added; so
  `Startup` has only staff to take it from them.
- The Members tab is `BooksPage` without copies and has no module of its own.
- `UpdateBook` answers with counts that it reads in a second transaction; that is `GetBook` of `Queries`.
- Not modelled: Envoy (a delayed or lost call is one in `LoansPage`), the example
  client, the generated protocol code, validation of strings, field-by-field
  mappers, the queue in front of the thread pool, the connection pool (15 connections for 10
  threads), layout and wording of the page.

## 9. Plan

Order: the lending core and its proof first, since everything else reads what it
writes; then the readers; then start-up and page; then the catalog.

Done:

1. `Fines`, `LendingAbs`, `Lending` with proofs; `Listing`, `Paging`, `Queries`, `Startup`,
   `LoansPage`.
2. `CatalogAbs`, `Catalog` with proofs; `BooksPage`; proofs of `Startup`; what a returned loan
   has cost (`FinesSettled`).
3. Proofs of `Paging`, `Queries`, `LoansPage` and `BooksPage`.
4. `Circulation` with its proof; what can be proved of waiting and of progress without
   ENABLED and fairness: `LocksRespected`, `WaitsEnd`, `StartsMoveOn`.
5. The locks on members and the e-mails in `Lending`, with its chains of waiting; the barcodes of the
   seed; counts of one moment (`shelf`), also beside overlapping writers; overlapping lists of the return picker.

Left:

6. `RpcServer`: the pool of threads in front of the services, with its queue and its shutdown. The
   code sets no limit, deadline or grace for either, so there is little to state yet.

## 10. Running

    tlc -config MC_Lending_safety.cfg MC_Lending 
    tlc -workers 2 -config MC_Catalog.cfg MC_Catalog   # about two minutes
    tlc -workers 2 -config MC_Circulation.cfg MC_Circulation   # a minute
    tlapm LendingProofs.tla                          # the other proof modules take a minute or less

`PROJECT.json` names the module and the configuration of every run.
