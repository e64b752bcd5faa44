------------------------------ MODULE Catalog ------------------------------
(***************************************************************************)
(* Creating and editing the rows that staff identify by a key, as          *)
(* interleaved transactions over one PostgreSQL database in READ           *)
(* COMMITTED: books by ISBN, which may be absent, with their copies by     *)
(* barcode.  Members by e-mail are the same table with a key that is never *)
(* absent, and the foreign key check that a borrow makes of its member is  *)
(* the one that add_copy makes of its book.                                *)
(*                                                                         *)
(* rows and copies are the committed tables.  A worker runs one request in *)
(* one unit_of_work(); new[w] is its uncommitted version of a row.         *)
(***************************************************************************)
EXTENDS Naturals, FiniteSets

CONSTANTS Workers,      \* the worker threads of the gRPC server(s)
          Ids,          \* book ids, given in ascending order
          Keys, Data,   \* values of the unique column and of the other ones
          Barcodes,
          None          \* absent value: NULL, no row

VARIABLES rows,     \* the row of each id in books, or None
          copies,   \* the rows of book_copies
          pc,       \* next statement of each worker, or that it is idle
          req,      \* the request being served
          dirty,    \* the columns in which an update differs from the row it has read
          new       \* the row a worker has written and not committed, or None

session == <<pc, req, dirty, new>>
vars    == <<rows, copies, session>>

Columns == {"key", "data"}
Row  == [key : Keys \cup {None}, data : Data]
Copy == [barcode : Barcodes, book : Ids]

ASSUME CatalogAssumption ==
  /\ IsFiniteSet(Workers)
  /\ Ids \subseteq Nat
  /\ None \notin Ids \cup Keys \cup Data \cup Barcodes \cup Row

Replies == {"OK", "NOT_FOUND", "ALREADY_EXISTS", "INTERNAL"}
Idle    == {"ready", "ALREADY_EXISTS"}
CreatePCs == {"c_insert", "c_commit"}
UpdatePCs == {"u_lock", "u_key", "u_commit"}
CopyPCs   == {"a_insert", "a_parent", "a_commit"}

\* What validation lets through: an ISBN that is blank comes as NULL.
CreateRequests == Row
UpdateRequests == [id : Ids, row : Row]
CopyRequests   == Copy

Init ==
  /\ rows = [i \in Ids |-> None] /\ copies = {}
  /\ pc   = [w \in Workers |-> "ready"]
  /\ req  = [w \in Workers |-> None]
  /\ dirty = [w \in Workers |-> {}]
  /\ new  = [w \in Workers |-> None]

-----------------------------------------------------------------------------
(* Transactions *)

Running(w) == pc[w] \notin Idle

Begin(w, r, first) ==
  /\ pc'  = [pc EXCEPT ![w] = first]
  /\ req' = [req EXCEPT ![w] = r]
  /\ UNCHANGED <<rows, copies, new>>

Step(w, from, to) == pc[w] = from /\ pc' = [pc EXCEPT ![w] = to]

\* Mutant: the session outlives its transaction.
Close_KeepsRow(w, reply) ==
  /\ pc'    = [pc EXCEPT ![w] = IF reply \in Idle THEN reply ELSE "ready"]
  /\ req'   = [req EXCEPT ![w] = None]
  /\ dirty' = [dirty EXCEPT ![w] = {}]
  /\ new'   = new

\* The scope of unit_of_work() closes: locks and private writes are gone.  Of the
\* replies, only ALREADY_EXISTS is told apart afterwards.
Close(w, reply) ==
  /\ pc'    = [pc EXCEPT ![w] = IF reply \in Idle THEN reply ELSE "ready"]
  /\ req'   = [req EXCEPT ![w] = None]
  /\ dirty' = [dirty EXCEPT ![w] = {}]
  /\ new'   = [new EXCEPT ![w] = None]

Rollback(w, reply) == Close(w, reply) /\ UNCHANGED <<rows, copies>>

\* The server, the connection or a statement fails before the commit.
Abort(w) == Running(w) /\ Rollback(w, "INTERNAL")

-----------------------------------------------------------------------------
(* Locks and unique keys *)

\* An update that was sent holds the lock of its row.
Locks(w, i) == pc[w] \in {"u_key", "u_commit"} /\ req[w].id = i

\* Its key differs from the one of the row, which nobody else can write.
Rekeys(w) == new[w].key # rows[req[w].id].key

\* The index holds an uncommitted entry of w for key k.
Claims(w, k) ==
  /\ \/ pc[w] = "c_commit"
     \/ pc[w] = "u_commit" /\ Rekeys(w)
  /\ new[w].key = k

Holders(k) == {i \in Ids : rows[i] # None /\ rows[i].key = k}

\* Mutant: the unique check sees committed rows only.
KeyWriters_CommittedOnly(w, k) == {}

\* Mutant: a key is entered in the index before it is checked.
KeyWriters_EnteredFirst(w, k) ==
  {v \in Workers \ {w} : \/ Claims(v, k)
                         \/ pc[v] = "c_insert" /\ req[v].key = k
                         \/ \E i \in Holders(k) : Locks(v, i)}

\* Whether k is taken is open while a transaction that has entered k, or has
\* written the row under k, be it another column, has not ended.  NULL is free.
KeyWriters(w, k) ==
  IF k = None THEN {}
  ELSE {v \in Workers \ {w} : Claims(v, k) \/ \E i \in Holders(k) : Locks(v, i)}

\* The row lock of an UPDATE, and the share lock on a book that the foreign
\* key of a new copy holds against a change of the key.
RowWriters(w, i) == {v \in Workers \ {w} : Locks(v, i)}
KeySharers(w, i) == {v \in Workers \ {w} : pc[v] = "a_commit" /\ req[v].book = i}
Rekeying(w, i)   == {v \in RowWriters(w, i) : Rekeys(v)}

\* Mutant: the unique check of barcodes sees committed copies only.
Sticking_CommittedOnly(w, b) == {}

\* A copy with barcode b is inserted and not committed.
Sticking(w, b) ==
  {v \in Workers \ {w} : pc[v] \in {"a_parent", "a_commit"} /\ req[v].barcode = b}

\* Mutant: the UPDATE sets all columns.
NewVersion_AllColumns(w) == req[w].row

\* The UPDATE sets the columns that the request changed in the row it had read.
Merged(w, c) == IF c \in dirty[w] THEN req[w].row[c] ELSE rows[req[w].id][c]

NewVersion(w) == [key |-> Merged(w, "key"), data |-> Merged(w, "data")]

\* The transactions whose end the next statement of w waits for.
WaitsFor(w) ==
  CASE pc[w] = "c_insert" -> KeyWriters(w, req[w].key)
    [] pc[w] = "u_lock"   -> LET i == req[w].id IN
         RowWriters(w, i) \cup
           IF NewVersion(w).key = rows[i].key THEN {} ELSE KeySharers(w, i)
    [] pc[w] = "u_key"    -> KeyWriters(w, new[w].key)
    [] pc[w] = "a_insert" -> Sticking(w, req[w].barcode)
    [] pc[w] = "a_parent" -> Rekeying(w, req[w].book)
    [] OTHER -> {}

Granted(w) == WaitsFor(w) = {}

\* w waits, through others, for itself: no others that it waits for do without it.
InCycle(w) ==
  ~ \E others \in SUBSET (Workers \ {w}) :
      WaitsFor(w) \subseteq others /\ \A v \in others : WaitsFor(v) \subseteq others

\* Mutant: transactions that wait for each other are left alone.
DeadlockDetected_Never(w) == FALSE

\* After deadlock_timeout PostgreSQL ends one of them with an OperationalError.
DeadlockDetected(w) == InCycle(w) /\ Rollback(w, "INTERNAL")

-----------------------------------------------------------------------------
(* create_book, create_member *)

Unused == {i \in Ids : rows[i] = None}

\* Bound: no creation starts unless its row will find an id in Ids.
CreateBegin(w) ==
  /\ Cardinality({v \in Workers : pc[v] \in CreatePCs}) < Cardinality(Unused)
  /\ ~Running(w)
  /\ \E r \in CreateRequests : Begin(w, r, "c_insert")
  /\ UNCHANGED dirty

\* Mutant: an uncommitted key is a taken key.
CreateInsert_NoWait(w) ==
  /\ pc[w] = "c_insert"
  /\ IF req[w].key # None /\ (Holders(req[w].key) # {} \/ ~Granted(w))
       THEN Rollback(w, "ALREADY_EXISTS")
       ELSE /\ Step(w, "c_insert", "c_commit")
            /\ new' = [new EXCEPT ![w] = req[w]]
            /\ UNCHANGED <<rows, copies, req, dirty>>

CreateInsert(w) ==
  /\ pc[w] = "c_insert" /\ Granted(w)
  /\ \/ /\ req[w].key # None /\ Holders(req[w].key) # {}
        /\ Rollback(w, "ALREADY_EXISTS")
     \/ /\ req[w].key = None \/ Holders(req[w].key) = {}
        /\ Step(w, "c_insert", "c_commit")
        /\ new' = [new EXCEPT ![w] = req[w]]
        /\ UNCHANGED <<rows, copies, req, dirty>>

\* Nobody sees the id before the commit, so it is chosen here.
CommitCreate(w) ==
  /\ pc[w] = "c_commit"
  /\ \E i \in Unused :
       /\ \A j \in Unused : i <= j
       /\ rows' = [rows EXCEPT ![i] = new[w]]
  /\ Close(w, "OK")
  /\ UNCHANGED copies

-----------------------------------------------------------------------------
(* update_book, update_member *)

\* The row is read with the first statement and not locked.  A request that
\* changes nothing in it sends no UPDATE.
UpdateRead(w) ==
  /\ ~Running(w)
  /\ \E r \in UpdateRequests :
       LET row     == rows[r.id]
           changed == {c \in Columns : r.row[c] # row[c]} IN
         \/ row = None /\ Rollback(w, "NOT_FOUND")
         \/ row # None /\ changed = {} /\ Rollback(w, "OK")
         \/ /\ row # None /\ changed # {}
            /\ Begin(w, r, "u_lock")
            /\ dirty' = [dirty EXCEPT ![w] = changed]

\* After waiting, PostgreSQL takes the version of the row that is committed now.
UpdateLock(w) ==
  /\ Granted(w)
  /\ LET row == NewVersion(w) IN
       /\ Step(w, "u_lock", IF row.key = rows[req[w].id].key THEN "u_commit" ELSE "u_key")
       /\ new' = [new EXCEPT ![w] = row]
  /\ UNCHANGED <<rows, copies, req, dirty>>

\* The unique check of a changed key, with the row locked.
UpdateKey(w) ==
  /\ pc[w] = "u_key" /\ Granted(w)
  /\ \/ /\ new[w].key # None /\ Holders(new[w].key) # {}
        /\ Rollback(w, "ALREADY_EXISTS")
     \/ /\ new[w].key = None \/ Holders(new[w].key) = {}
        /\ Step(w, "u_key", "u_commit")
        /\ UNCHANGED <<rows, copies, req, dirty, new>>

CommitUpdate(w) ==
  /\ pc[w] = "u_commit"
  /\ rows' = [rows EXCEPT ![req[w].id] = new[w]]
  /\ Close(w, "OK")
  /\ UNCHANGED copies

-----------------------------------------------------------------------------
(* add_copy *)

AddCopyRead(w) ==
  /\ ~Running(w)
  /\ \E r \in CopyRequests :
       \/ rows[r.book] = None /\ Rollback(w, "NOT_FOUND")
       \/ rows[r.book] # None /\ Begin(w, r, "a_insert") /\ UNCHANGED dirty

Stuck(b) == {c \in copies : c.barcode = b}

AddCopyInsert(w) ==
  /\ pc[w] = "a_insert" /\ Granted(w)
  /\ \/ Stuck(req[w].barcode) # {} /\ Rollback(w, "ALREADY_EXISTS")
     \/ /\ Stuck(req[w].barcode) = {}
        /\ Step(w, "a_insert", "a_parent")
        /\ UNCHANGED <<rows, copies, req, dirty, new>>

\* The foreign key check locks the book against a change of its key.
AddCopyParent(w) ==
  /\ pc[w] = "a_parent" /\ Granted(w)
  /\ Step(w, "a_parent", "a_commit")
  /\ UNCHANGED <<rows, copies, req, dirty, new>>

CommitAddCopy(w) ==
  /\ pc[w] = "a_commit"
  /\ copies' = copies \cup {req[w]}
  /\ Close(w, "OK")
  /\ UNCHANGED rows

-----------------------------------------------------------------------------

\* A request comes, and its first statement finds the row it is about.
Accept(w) == CreateBegin(w) \/ UpdateRead(w) \/ AddCopyRead(w)

\* The next statement of the request that w is serving.
Serve(w) ==
  \/ CreateInsert(w) \/ CommitCreate(w)
  \/ UpdateLock(w) \/ UpdateKey(w) \/ CommitUpdate(w)
  \/ AddCopyInsert(w) \/ AddCopyParent(w) \/ CommitAddCopy(w)

Next == \E w \in Workers : Accept(w) \/ Serve(w) \/ Abort(w) \/ DeadlockDetected(w)

Spec == Init /\ [][Next]_vars

\* A worker goes on with its request, a waiter is not passed over for ever, and
\* PostgreSQL looks for a deadlock when a wait lasts.
FairSpec ==
  /\ Spec
  /\ \A w \in Workers : SF_vars(Serve(w))
  /\ WF_vars(\E w \in Workers : DeadlockDetected(w))
-----------------------------------------------------------------------------
(* Properties *)

\* A worker serves a request of the kind its next statement belongs to, and has
\* written the row that the statements behind it write.
SessionTyped(w) ==
  /\ pc[w] \in Idle => req[w] = None
  /\ pc[w] \in CreatePCs => req[w] \in CreateRequests
  /\ pc[w] \in UpdatePCs => req[w] \in UpdateRequests
  /\ pc[w] \in CopyPCs   => req[w] \in CopyRequests
  /\ dirty[w] # {} <=> pc[w] \in UpdatePCs
  /\ new[w] # None <=> pc[w] \in {"c_commit", "u_key", "u_commit"}

\* Every column holds a value of its type, and every worker is at a statement of
\* its request.
TypeOK ==
  /\ rows \in [Ids -> Row \cup {None}]
  /\ copies \subseteq Copy
  /\ pc \in [Workers -> Idle \cup CreatePCs \cup UpdatePCs \cup CopyPCs]
  /\ req \in [Workers -> CreateRequests \cup UpdateRequests \cup CopyRequests \cup {None}]
  /\ dirty \in [Workers -> SUBSET Columns]
  /\ new \in [Workers -> Row \cup {None}]
  /\ \A w \in Workers : SessionTyped(w)

\* No two rows have one ISBN (or e-mail), no two copies one barcode, and no copy
\* is without its book, whatever creations and updates interleave
\* (books/service.py: "AlreadyExists: another book already has this ISBN").
KeysUnique ==
  /\ \A i, j \in Ids :
       rows[i] # None /\ rows[j] # None /\ rows[i].key = rows[j].key
         => i = j \/ rows[i].key = None
  /\ \A c, d \in copies : c.barcode = d.barcode => c = d
  /\ \A c \in copies : rows[c.book] # None

\* Workers wait for each other in a cycle only when all of them are giving their
\* rows keys that others of them are giving up: nothing but an exchange of ISBNs or
\* e-mails is ever ended by the deadlock detector and answered INTERNAL.
OnlyExchangesDeadlock ==
  \A w \in Workers : InCycle(w) =>
    /\ pc[w] = "u_key"
    /\ \E v \in Workers \ {w} :
         InCycle(v) /\ pc[v] = "u_key" /\ new[w].key = rows[req[v].id].key

\* update_book and update_member read without a lock, yet what another request has
\* committed meanwhile survives in every column that this request leaves as it was
\* read, and what this one changes is there after its commit.
OthersChangesKept ==
  [][\A w \in Workers : pc[w] = "u_commit" /\ rows' # rows /\ pc'[w] # "u_commit" =>
       LET i == req[w].id IN
         \A c \in Columns :
           rows'[i][c] = IF c \in dirty[w] THEN req[w].row[c] ELSE rows[i][c]]_vars

\* ALREADY_EXISTS is answered only while another committed row has the key, or
\* another copy the barcode: never for a key that a transaction still in flight may
\* release, or may fail to take.
RefusedFor(w) ==
  IF pc[w] = "a_insert" THEN Stuck(req[w].barcode) # {}
  ELSE LET k == IF pc[w] = "u_key" THEN new[w].key ELSE req[w].key IN
    k # None /\ \E i \in Holders(k) : \A v \in Workers : ~Locks(v, i)

AlreadyExistsIsTrue ==
  [][\A w \in Workers :
       pc[w] # "ALREADY_EXISTS" /\ pc'[w] = "ALREADY_EXISTS" => RefusedFor(w)]_vars

\* Every request is answered, although it may wait for keys and rows, and be one of
\* those that wait for each other.
EveryRequestAnswered == \A w \in Workers : Running(w) ~> ~Running(w)

\* The rows by their keys are the abstract state.
Abs == INSTANCE CatalogAbs WITH
  entry  <- [k \in Keys |-> Holders(k)],
  data   <- [i \in Ids |-> IF rows[i] = None THEN None ELSE rows[i].data],
  bookOf <- [b \in Barcodes |-> IF Stuck(b) = {} THEN None
                                ELSE (CHOOSE c \in Stuck(b) : TRUE).book]

\* Every commit enters or changes one row in a directory of keys.
Directory == Abs!Spec
=============================================================================
