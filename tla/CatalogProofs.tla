-------------------------- MODULE CatalogProofs --------------------------
(***************************************************************************)
(* The unique keys of Catalog, and its refinement of CatalogAbs, for any   *)
(* number of workers, rows and keys.  IInv is inductive.                   *)
(***************************************************************************)
EXTENDS Catalog, FiniteSetTheorems, WellFoundedInduction, TLAPS

Requests == CreateRequests \cup UpdateRequests \cup CopyRequests \cup {None}
PCs      == Idle \cup CreatePCs \cup UpdatePCs \cup CopyPCs

\* w has locked a row, entered a key that is not NULL, inserted a barcode.
Writes(w)  == pc[w] \in {"u_key", "u_commit"}
Entered(w) == /\ pc[w] = "c_commit" \/ (pc[w] = "u_commit" /\ Rekeys(w))
              /\ new[w].key # None
Sticks(w)  == pc[w] \in {"a_parent", "a_commit"}

\* What a statement relies on because of the ones before it: the row is still
\* there, its version is still the merge of the request with the committed row,
\* and what was found free is still free.
WorkerInv(w) ==
  /\ pc[w] \in UpdatePCs => rows[req[w].id] # None
  /\ Writes(w) => new[w] = NewVersion(w)
  /\ pc[w] = "u_key" => Rekeys(w)
  /\ Entered(w) => \A i \in Ids : rows[i] # None => rows[i].key # new[w].key
  /\ pc[w] \in CopyPCs => rows[req[w].book] # None
  /\ Sticks(w) => \A c \in copies : c.barcode # req[w].barcode

\* No two workers write one row, enter one key, or stick one barcode.
Apart(v, w) ==
  /\ Writes(v) /\ Writes(w) => req[v].id # req[w].id
  /\ Entered(v) /\ Entered(w) => new[v].key # new[w].key
  /\ Sticks(v) /\ Sticks(w) => req[v].barcode # req[w].barcode

IInv == /\ TypeOK
        /\ KeysUnique
        /\ \A w \in Workers : WorkerInv(w)
        /\ \A v, w \in Workers : v # w => Apart(v, w)

-----------------------------------------------------------------------------
(* What a step leaves alone *)

\* A step of w changes the session of w only.
OneSession(w) ==
  /\ pc' = [pc EXCEPT ![w] = pc'[w]] /\ req' = [req EXCEPT ![w] = req'[w]]
  /\ dirty' = [dirty EXCEPT ![w] = dirty'[w]] /\ new' = [new EXCEPT ![w] = new'[w]]

Untouched(v) ==
  pc'[v] = pc[v] /\ req'[v] = req[v] /\ dirty'[v] = dirty[v] /\ new'[v] = new[v]

\* The session that w is left with has its types.
WellTyped(w) ==
  /\ pc'[w] \in PCs /\ req'[w] \in Requests /\ dirty'[w] \in SUBSET Columns
  /\ new'[w] \in Row \cup {None} /\ SessionTyped(w)'

\* A step of one worker leaves the sessions of the others alone.
LEMMA OthersUntouched ==
  ASSUME TypeOK, NEW w \in Workers, OneSession(w), NEW v \in Workers \ {w}
  PROVE  Untouched(v)
BY DEF TypeOK, OneSession, Untouched

\* The types after a step that writes one session and no table.
LEMMA TypeStep ==
  ASSUME TypeOK, NEW w \in Workers, OneSession(w), WellTyped(w),
         rows' \in [Ids -> Row \cup {None}], copies' \subseteq Copy
  PROVE  TypeOK'
<1>1. ASSUME NEW v \in Workers
      PROVE  SessionTyped(v)'
  <2>1. CASE v = w
    BY <2>1 DEF WellTyped
  <2>2. CASE v # w
    BY <1>1, <2>2, OthersUntouched DEF Untouched, TypeOK, SessionTyped
  <2>3. QED
    BY <2>1, <2>2
<1>2. /\ pc' \in [Workers -> PCs] /\ req' \in [Workers -> Requests]
      /\ dirty' \in [Workers -> SUBSET Columns] /\ new' \in [Workers -> Row \cup {None}]
  BY DEF TypeOK, OneSession, WellTyped, PCs, Requests
<1>3. QED
  BY <1>1, <1>2 DEF TypeOK, PCs, Requests

\* What v relies on survives a step of somebody else that keeps all rows, the row
\* v has locked as it is, and the key and the barcode v has entered free.
LEMMA OtherWorker ==
  ASSUME TypeOK, NEW v \in Workers, WorkerInv(v), Untouched(v),
         \A i \in Ids : rows[i] # None => rows'[i] # None,
         Writes(v) => rows'[req[v].id] = rows[req[v].id],
         Entered(v) => \A i \in Ids : rows'[i] # None => rows'[i].key # new[v].key,
         Sticks(v) => \A c \in copies' : c.barcode # req[v].barcode
  PROVE  WorkerInv(v)' /\ (Entered(v)' => Entered(v))
<1>1. pc[v] \in UpdatePCs => req[v].id \in Ids
  BY DEF TypeOK, SessionTyped, UpdateRequests
<1>2. pc[v] \in CopyPCs => req[v].book \in Ids
  BY DEF TypeOK, SessionTyped, CopyRequests, Copy
<1>3. Entered(v)' => Entered(v)
  BY DEF Entered, Rekeys, Writes, Untouched
<1>4. Writes(v) => /\ pc[v] \in UpdatePCs /\ NewVersion(v)' = NewVersion(v)
                   /\ Rekeys(v)' = Rekeys(v)
  BY DEF Writes, UpdatePCs, NewVersion, Merged, Rekeys, Untouched
<1>5. QED
  BY <1>1, <1>2, <1>3, <1>4 DEF WorkerInv, Untouched, Writes, Sticks

\* A step inside a transaction.
LEMMA PrivateStep ==
  ASSUME IInv, NEW w \in Workers, OneSession(w), WellTyped(w), UNCHANGED <<rows, copies>>,
         WorkerInv(w)', \A v \in Workers \ {w} : Apart(v, w)'
  PROVE  IInv'
<1>1. TypeOK /\ TypeOK' /\ KeysUnique'
  BY TypeStep DEF IInv, TypeOK, KeysUnique
<1>2. ASSUME NEW v \in Workers \ {w}
      PROVE  Untouched(v) /\ WorkerInv(v)' /\ (Entered(v)' => Entered(v))
  BY <1>1, <1>2, OthersUntouched, OtherWorker DEF IInv, WorkerInv
<1>3. ASSUME NEW u \in Workers \ {w}, NEW v \in Workers \ {w}, u # v
      PROVE  Apart(u, v)'
  BY <1>2, <1>3 DEF IInv, Apart, Untouched, Writes, Sticks
<1>4. ASSUME NEW v \in Workers \ {w}
      PROVE  Apart(w, v)'
  BY <1>4 DEF Apart
<1>5. QED
  BY <1>1, <1>2, <1>3, <1>4 DEF IInv

\* The end of a transaction leaves a session that has nothing to rely on.
LEMMA Closed ==
  ASSUME TypeOK, NEW w \in Workers, NEW reply \in Replies, Close(w, reply)
  PROVE  /\ OneSession(w) /\ WellTyped(w) /\ WorkerInv(w)'
         /\ ~Writes(w)' /\ ~Entered(w)' /\ ~Sticks(w)'
<1>1. /\ pc'[w] \in Idle /\ req'[w] = None /\ dirty'[w] = {} /\ new'[w] = None
      /\ OneSession(w)
  BY DEF TypeOK, Close, OneSession, Idle
<1>2. ~Writes(w)' /\ ~Entered(w)' /\ ~Sticks(w)'
  BY <1>1 DEF Writes, Entered, Sticks, Idle
<1>3. WorkerInv(w)' /\ WellTyped(w)
  BY <1>1, <1>2 DEF WorkerInv, WellTyped, SessionTyped, Idle, PCs, Requests, CreatePCs,
     UpdatePCs, CopyPCs
<1>4. QED
  BY <1>1, <1>2, <1>3

\* An exception leaves unit_of_work() without a write.
LEMMA RollbackStep ==
  ASSUME IInv, NEW w \in Workers, NEW reply \in Replies, Rollback(w, reply)
  PROVE  IInv'
<1>1. TypeOK /\ Close(w, reply) /\ UNCHANGED <<rows, copies>>
  BY DEF IInv, Rollback
<1>2. QED
  BY <1>1, Closed, PrivateStep DEF Apart

\* A commit of one row: its key is in no other row, and nobody else has locked the
\* row or entered the key.
LEMMA CommitRow ==
  ASSUME IInv, NEW w \in Workers, NEW i \in Ids, NEW row \in Row, Close(w, "OK"),
         rows' = [rows EXCEPT ![i] = row], copies' = copies,
         row.key # None => \A j \in Ids \ {i} : rows[j] # None => rows[j].key # row.key,
         \A v \in Workers \ {w} : /\ Writes(v)  => req[v].id # i
                                  /\ Entered(v) => new[v].key # row.key
  PROVE  IInv'
<1>1. /\ OneSession(w) /\ WellTyped(w) /\ WorkerInv(w)'
      /\ ~Writes(w)' /\ ~Entered(w)' /\ ~Sticks(w)'
  BY Closed DEF IInv, Replies
<1>2. /\ TypeOK /\ rows' \in [Ids -> Row \cup {None}] /\ row # None
      /\ \A j \in Ids : rows'[j] = IF j = i THEN row ELSE rows[j]
  BY CatalogAssumption DEF IInv, TypeOK
<1>3. TypeOK'
  BY <1>1, <1>2, TypeStep DEF TypeOK
<1>4. KeysUnique'
  <2>1. ASSUME NEW j \in Ids, NEW k \in Ids,
               rows'[j] # None, rows'[k] # None, rows'[j].key = rows'[k].key
        PROVE  j = k \/ rows'[j].key = None
    BY <1>2, <2>1 DEF IInv, KeysUnique
  <2>2. \A c \in copies' : rows'[c.book] # None
    BY <1>2 DEF IInv, KeysUnique, TypeOK, Copy
  <2>3. \A c, d \in copies' : c.barcode = d.barcode => c = d
    BY DEF IInv, KeysUnique
  <2>4. QED
    BY <2>1, <2>2, <2>3 DEF KeysUnique
<1>5. ASSUME NEW v \in Workers \ {w}
      PROVE  Untouched(v) /\ WorkerInv(v)' /\ (Entered(v)' => Entered(v))
  <2>1. Untouched(v) /\ WorkerInv(v)
    BY <1>1, <1>2, OthersUntouched DEF IInv
  <2>2. Writes(v) => rows'[req[v].id] = rows[req[v].id]
    <3>1. Writes(v) => req[v].id \in Ids
      BY <1>2 DEF TypeOK, SessionTyped, Writes, UpdatePCs, UpdateRequests
    <3>2. QED
      BY <1>2, <3>1
  <2>3. /\ Entered(v) => \A j \in Ids : rows'[j] # None => rows'[j].key # new[v].key
        /\ Sticks(v) => \A c \in copies' : c.barcode # req[v].barcode
    BY <1>2, <2>1 DEF WorkerInv
  <2>4. QED
    BY <1>2, <2>1, <2>2, <2>3, OtherWorker
<1>6. ASSUME NEW u \in Workers, NEW v \in Workers, u # v
      PROVE  Apart(u, v)'
  <2>1. CASE u = w \/ v = w
    BY <1>1, <2>1 DEF Apart
  <2>2. CASE u # w /\ v # w
    BY <1>5, <1>6, <2>2 DEF IInv, Apart, Untouched, Writes, Sticks
  <2>3. QED
    BY <2>1, <2>2
<1>7. QED
  BY <1>1, <1>3, <1>4, <1>5, <1>6 DEF IInv

-----------------------------------------------------------------------------
(* The actions *)

\* What a worker that serves nothing relies on, and what its session holds.
LEMMA IdleWorker ==
  ASSUME TypeOK, NEW w \in Workers, ~Running(w)
  PROVE  pc[w] \in Idle /\ req[w] = None /\ dirty[w] = {} /\ new[w] = None
BY DEF TypeOK, SessionTyped, Running, Idle, UpdatePCs

\* A request has been read and nothing is written.
LEMMA BeginStep ==
  ASSUME IInv, NEW w \in Workers, NEW r, NEW first \in PCs, Begin(w, r, first),
         NEW d \in SUBSET Columns, dirty' = [dirty EXCEPT ![w] = d], ~Running(w),
         \/ first = "c_insert" /\ r \in CreateRequests /\ d = {}
         \/ first = "u_lock" /\ r \in UpdateRequests /\ d # {} /\ rows[r.id] # None
         \/ first = "a_insert" /\ r \in CopyRequests /\ d = {} /\ rows[r.book] # None
  PROVE  IInv'
<1>1. TypeOK /\ UNCHANGED <<rows, copies>>
  BY DEF IInv, Begin
<1>2. pc'[w] = first /\ req'[w] = r /\ dirty'[w] = d /\ new'[w] = None /\ OneSession(w)
  BY <1>1, IdleWorker DEF TypeOK, Begin, OneSession
<1>3. WellTyped(w)
  BY <1>2 DEF WellTyped, SessionTyped, Requests, PCs, Idle, CreatePCs, UpdatePCs, CopyPCs
<1>4. ~Writes(w)' /\ ~Entered(w)' /\ ~Sticks(w)' /\ WorkerInv(w)'
  BY <1>1, <1>2 DEF Writes, Entered, Sticks, WorkerInv, UpdatePCs, CopyPCs
<1>5. QED
  BY <1>1, <1>2, <1>3, <1>4, PrivateStep DEF Apart

\* create_book or create_member is called.
LEMMA CreateBeginInv ==
  ASSUME IInv, NEW w \in Workers, CreateBegin(w)
  PROVE  IInv'
<1>1. PICK r \in CreateRequests : Begin(w, r, "c_insert")
  BY DEF CreateBegin
<1>2. ~Running(w) /\ dirty[w] = {} /\ dirty' = [dirty EXCEPT ![w] = {}]
  BY IdleWorker DEF CreateBegin, IInv, TypeOK
<1>3. QED
  BY <1>1, <1>2, BeginStep DEF PCs, CreatePCs

\* update_book or update_member has read its row, unlocked.
LEMMA UpdateReadInv ==
  ASSUME IInv, NEW w \in Workers, UpdateRead(w)
  PROVE  IInv'
<1>1. PICK r \in UpdateRequests :
        \/ \E reply \in Replies : Rollback(w, reply)
        \/ /\ rows[r.id] # None /\ {c \in Columns : r.row[c] # rows[r.id][c]} # {}
           /\ Begin(w, r, "u_lock")
           /\ dirty' = [dirty EXCEPT ![w] = {c \in Columns : r.row[c] # rows[r.id][c]}]
  BY DEF UpdateRead, Replies
<1>2. CASE \E reply \in Replies : Rollback(w, reply)
  BY <1>2, RollbackStep
<1>3. CASE ~ \E reply \in Replies : Rollback(w, reply)
  <2>1. ~Running(w)
    BY DEF UpdateRead
  <2>2. QED
    BY <1>1, <1>3, <2>1, BeginStep DEF PCs, UpdatePCs
<1>4. QED
  BY <1>2, <1>3

\* add_copy has read its book, unlocked.
LEMMA AddCopyReadInv ==
  ASSUME IInv, NEW w \in Workers, AddCopyRead(w)
  PROVE  IInv'
<1>1. PICK r \in CopyRequests :
        \/ Rollback(w, "NOT_FOUND")
        \/ rows[r.book] # None /\ Begin(w, r, "a_insert") /\ UNCHANGED dirty
  BY DEF AddCopyRead
<1>2. CASE Rollback(w, "NOT_FOUND")
  BY <1>2, RollbackStep DEF Replies
<1>3. CASE rows[r.book] # None /\ Begin(w, r, "a_insert") /\ UNCHANGED dirty
  <2>1. ~Running(w) /\ dirty[w] = {} /\ dirty' = [dirty EXCEPT ![w] = {}]
    BY <1>3, IdleWorker DEF AddCopyRead, IInv, TypeOK
  <2>2. QED
    BY <1>3, <2>1, BeginStep DEF PCs, CopyPCs
<1>4. QED
  BY <1>1, <1>2, <1>3

\* The key goes into the index when no committed row has it, and nobody else has
\* entered it.
LEMMA FreeKey ==
  ASSUME TypeOK, NEW w \in Workers, NEW k, k # None, KeyWriters(w, k) = {}, Holders(k) = {}
  PROVE  /\ \A i \in Ids : rows[i] # None => rows[i].key # k
         /\ \A v \in Workers \ {w} : Entered(v) => new[v].key # k
BY DEF KeyWriters, Holders, Claims, Entered

\* The INSERT has entered a key that is nobody's.
LEMMA CreateInsertInv ==
  ASSUME IInv, NEW w \in Workers, CreateInsert(w)
  PROVE  IInv'
<1>1. CASE Rollback(w, "ALREADY_EXISTS")
  BY <1>1, RollbackStep DEF Replies
<1>2. CASE ~Rollback(w, "ALREADY_EXISTS")
  <2>1. /\ pc[w] = "c_insert" /\ KeyWriters(w, req[w].key) = {}
        /\ req[w].key = None \/ Holders(req[w].key) = {}
        /\ pc' = [pc EXCEPT ![w] = "c_commit"] /\ new' = [new EXCEPT ![w] = req[w]]
        /\ UNCHANGED <<rows, copies, req, dirty>>
    BY <1>2 DEF CreateInsert, Granted, WaitsFor, Step
  <2>2. TypeOK /\ req[w] \in Row /\ dirty[w] = {}
    BY <2>1 DEF IInv, TypeOK, SessionTyped, CreatePCs, CreateRequests, UpdatePCs
  <2>3. pc'[w] = "c_commit" /\ req'[w] = req[w] /\ dirty'[w] = {} /\ new'[w] = req[w]
    BY <2>1, <2>2 DEF TypeOK
  <2>4. OneSession(w)
    BY <2>1, <2>2 DEF TypeOK, OneSession
  <2>5. WellTyped(w)
    BY <2>2, <2>3, CatalogAssumption DEF WellTyped, SessionTyped, Requests, PCs, Idle,
       CreatePCs, UpdatePCs, CopyPCs, CreateRequests
  <2>6. ~Writes(w)' /\ ~Sticks(w)' /\ (Entered(w)' => req[w].key # None)
    BY <2>3 DEF Writes, Sticks, Entered
  <2>7. WorkerInv(w)'
    BY <2>1, <2>2, <2>3, <2>6, FreeKey DEF WorkerInv, UpdatePCs, CopyPCs
  <2>8. ASSUME NEW v \in Workers \ {w}
        PROVE  Apart(v, w)'
    <3>1. Untouched(v) /\ (Entered(v)' => Entered(v))
      BY <2>1, <2>2, <2>4, OthersUntouched DEF Untouched, Entered, Rekeys
    <3>2. QED
      BY <2>1, <2>2, <2>3, <2>6, <3>1, FreeKey DEF Apart, Untouched
  <2>9. QED
    BY <2>1, <2>4, <2>5, <2>7, <2>8, PrivateStep
<1>3. QED
  BY <1>1, <1>2

\* The merge of a request with the row that is committed is a row.
LEMMA MergedRow ==
  ASSUME TypeOK, NEW w \in Workers, pc[w] \in UpdatePCs, rows[req[w].id] # None
  PROVE  NewVersion(w) \in Row /\ NewVersion(w) # None
<1>1. req[w].id \in Ids /\ req[w].row \in Row
  BY DEF TypeOK, SessionTyped, UpdateRequests
<1>2. rows[req[w].id] \in Row
  BY <1>1 DEF TypeOK
<1>3. Merged(w, "key") \in Keys \cup {None} /\ Merged(w, "data") \in Data
  BY <1>1, <1>2 DEF Merged, Row
<1>4. QED
  BY <1>3, CatalogAssumption DEF NewVersion, Row

\* The UPDATE has locked its row and sets what the request changes.
LEMMA UpdateLockInv ==
  ASSUME IInv, NEW w \in Workers, UpdateLock(w)
  PROVE  IInv'
<1> DEFINE row == NewVersion(w)
           to  == IF row.key = rows[req[w].id].key THEN "u_commit" ELSE "u_key"
<1>1. /\ pc[w] = "u_lock" /\ RowWriters(w, req[w].id) = {}
      /\ pc' = [pc EXCEPT ![w] = to] /\ new' = [new EXCEPT ![w] = row]
      /\ UNCHANGED <<rows, copies, req, dirty>>
  <2>1. pc[w] = "u_lock" => RowWriters(w, req[w].id) \subseteq WaitsFor(w)
    BY DEF WaitsFor
  <2>2. QED
    BY <2>1 DEF UpdateLock, Granted, Step
<1>2. /\ TypeOK /\ rows[req[w].id] # None /\ row \in Row /\ row # None
      /\ req[w] \in UpdateRequests /\ dirty[w] # {}
  BY <1>1, MergedRow DEF IInv, WorkerInv, TypeOK, SessionTyped, UpdatePCs
<1>3. pc'[w] = to /\ req'[w] = req[w] /\ dirty'[w] = dirty[w] /\ new'[w] = row
  BY <1>1, <1>2 DEF TypeOK
<1>4. OneSession(w)
  BY <1>1, <1>2 DEF TypeOK, OneSession
<1>5. WellTyped(w)
  <2>1. dirty[w] \in SUBSET Columns
    BY <1>2 DEF TypeOK
  <2>2. QED
    BY <1>2, <1>3, <2>1 DEF WellTyped, SessionTyped, Requests, PCs, Idle,
       CreatePCs, UpdatePCs, CopyPCs
<1>6. row' = row
  BY <1>1, <1>3 DEF NewVersion, Merged
<1>7. ~Entered(w)' /\ ~Sticks(w)'
  BY <1>1, <1>3 DEF Entered, Rekeys, Sticks
<1>8. WorkerInv(w)'
  <2>1. pc'[w] = "u_key" => Rekeys(w)'
    BY <1>1, <1>3 DEF Rekeys
  <2>2. QED
    BY <1>1, <1>2, <1>3, <1>6, <1>7, <2>1 DEF WorkerInv, CopyPCs
<1>9. ASSUME NEW v \in Workers \ {w}
      PROVE  Apart(v, w)'
  <2>1. Untouched(v)
    BY <1>2, <1>4, OthersUntouched
  <2>2. QED
    BY <1>1, <1>3, <1>7, <2>1 DEF Apart, Untouched, Writes, RowWriters, Locks
<1>10. QED
  BY <1>1, <1>4, <1>5, <1>8, <1>9, PrivateStep

\* The UPDATE has entered a key that is nobody's.
LEMMA UpdateKeyInv ==
  ASSUME IInv, NEW w \in Workers, UpdateKey(w)
  PROVE  IInv'
<1>1. CASE Rollback(w, "ALREADY_EXISTS")
  BY <1>1, RollbackStep DEF Replies
<1>2. CASE ~Rollback(w, "ALREADY_EXISTS")
  <2>1. /\ pc[w] = "u_key" /\ KeyWriters(w, new[w].key) = {}
        /\ new[w].key = None \/ Holders(new[w].key) = {}
        /\ pc' = [pc EXCEPT ![w] = "u_commit"]
        /\ UNCHANGED <<rows, copies, req, dirty, new>>
    BY <1>2 DEF UpdateKey, Granted, WaitsFor, Step
  <2>2. TypeOK /\ WorkerInv(w) /\ SessionTyped(w)
    BY DEF IInv, TypeOK
  <2>3. /\ pc'[w] = "u_commit" /\ req'[w] = req[w] /\ dirty'[w] = dirty[w]
        /\ new'[w] = new[w]
    BY <2>1, <2>2 DEF TypeOK
  <2>4. OneSession(w)
    BY <2>1, <2>2 DEF TypeOK, OneSession
  <2>5. WellTyped(w)
    <3>1. dirty[w] \in SUBSET Columns /\ new[w] \in Row \cup {None}
      BY <2>2 DEF TypeOK
    <3>2. QED
      BY <2>1, <2>2, <2>3, <3>1 DEF WellTyped, SessionTyped, Requests, PCs, Idle,
         CreatePCs, UpdatePCs, CopyPCs
  <2>6. Writes(w) /\ ~Sticks(w)' /\ (Entered(w)' => new[w].key # None)
    BY <2>1, <2>3 DEF Writes, Sticks, Entered
  <2>7. WorkerInv(w)'
    <3>1. NewVersion(w)' = NewVersion(w)
      BY <2>1, <2>3 DEF NewVersion, Merged
    <3>2. QED
      BY <2>1, <2>2, <2>3, <2>6, <3>1, FreeKey DEF WorkerInv, UpdatePCs, CopyPCs
  <2>8. ASSUME NEW v \in Workers \ {w}
        PROVE  Apart(v, w)'
    <3>1. Untouched(v) /\ (Entered(v)' => Entered(v))
      BY <2>1, <2>2, <2>4, OthersUntouched DEF Untouched, Entered, Rekeys
    <3>2. Apart(v, w)
      BY DEF IInv
    <3>3. QED
      BY <2>1, <2>2, <2>3, <2>6, <3>1, <3>2, FreeKey DEF Apart, Untouched, Writes
  <2>9. QED
    BY <2>1, <2>4, <2>5, <2>7, <2>8, PrivateStep
<1>3. QED
  BY <1>1, <1>2

\* A step of add_copy before its commit.
LEMMA CopyStep ==
  ASSUME IInv, NEW w \in Workers, pc[w] \in CopyPCs, NEW to \in {"a_parent", "a_commit"},
         pc' = [pc EXCEPT ![w] = to], UNCHANGED <<rows, copies, req, dirty, new>>,
         Stuck(req[w].barcode) = {},
         \A v \in Workers \ {w} : Sticks(v) => req[v].barcode # req[w].barcode
  PROVE  IInv'
<1>1. TypeOK /\ WorkerInv(w) /\ SessionTyped(w) /\ OneSession(w)
  BY DEF IInv, TypeOK, OneSession
<1>2. pc'[w] = to /\ req'[w] = req[w] /\ dirty'[w] = {} /\ new'[w] = None
  BY <1>1 DEF TypeOK, SessionTyped, CopyPCs, UpdatePCs
<1>3. WellTyped(w)
  BY <1>1, <1>2 DEF WellTyped, SessionTyped, Requests, PCs, Idle, CreatePCs, UpdatePCs, CopyPCs
<1>4. ~Writes(w)' /\ ~Entered(w)'
  BY <1>2 DEF Writes, Entered
<1>5. WorkerInv(w)'
  BY <1>1, <1>2, <1>4 DEF WorkerInv, UpdatePCs, CopyPCs, Stuck
<1>6. ASSUME NEW v \in Workers \ {w}
      PROVE  Apart(v, w)'
  BY <1>1, <1>2, <1>4, OthersUntouched DEF Apart, Untouched, Sticks
<1>7. QED
  BY <1>1, <1>3, <1>5, <1>6, PrivateStep

\* The INSERT of a copy has entered its barcode.
LEMMA AddCopyInsertInv ==
  ASSUME IInv, NEW w \in Workers, AddCopyInsert(w)
  PROVE  IInv'
<1>1. CASE Rollback(w, "ALREADY_EXISTS")
  BY <1>1, RollbackStep DEF Replies
<1>2. CASE ~Rollback(w, "ALREADY_EXISTS")
  <2>1. /\ pc[w] = "a_insert" /\ Sticking(w, req[w].barcode) = {}
        /\ Stuck(req[w].barcode) = {} /\ pc' = [pc EXCEPT ![w] = "a_parent"]
        /\ UNCHANGED <<rows, copies, req, dirty, new>>
    BY <1>2 DEF AddCopyInsert, Granted, WaitsFor, Step
  <2>2. QED
    BY <2>1, CopyStep DEF CopyPCs, Sticking, Sticks
<1>3. QED
  BY <1>1, <1>2

\* The foreign key of a copy has locked its book.
LEMMA AddCopyParentInv ==
  ASSUME IInv, NEW w \in Workers, AddCopyParent(w)
  PROVE  IInv'
<1>1. /\ pc[w] = "a_parent" /\ pc' = [pc EXCEPT ![w] = "a_commit"]
      /\ UNCHANGED <<rows, copies, req, dirty, new>>
  BY DEF AddCopyParent, Step
<1>2. /\ Stuck(req[w].barcode) = {}
      /\ \A v \in Workers \ {w} : Sticks(v) => req[v].barcode # req[w].barcode
  BY <1>1 DEF IInv, WorkerInv, Apart, Sticks, Stuck
<1>3. QED
  BY <1>1, <1>2, CopyStep DEF CopyPCs

\* COMMIT of a new row: its key is on no other.
LEMMA CommitCreateInv ==
  ASSUME IInv, NEW w \in Workers, CommitCreate(w)
  PROVE  IInv'
<1>1. PICK i \in Unused : rows' = [rows EXCEPT ![i] = new[w]]
  BY DEF CommitCreate
<1>2. TypeOK /\ WorkerInv(w) /\ SessionTyped(w) /\ pc[w] = "c_commit"
  BY DEF IInv, TypeOK, CommitCreate
<1>3. i \in Ids /\ rows[i] = None /\ new[w] \in Row
  BY <1>1, <1>2 DEF Unused, TypeOK, SessionTyped
<1>4. new[w].key # None => \A j \in Ids \ {i} : rows[j] # None => rows[j].key # new[w].key
  BY <1>2 DEF WorkerInv, Entered
<1>5. ASSUME NEW v \in Workers \ {w}
      PROVE  (Writes(v) => req[v].id # i) /\ (Entered(v) => new[v].key # new[w].key)
  <2>1. WorkerInv(v) /\ Apart(v, w)
    BY DEF IInv
  <2>2. QED
    BY <1>2, <1>3, <2>1 DEF WorkerInv, Apart, Writes, Entered, UpdatePCs
<1>6. Close(w, "OK") /\ copies' = copies
  BY DEF CommitCreate
<1>7. QED
  BY <1>1, <1>3, <1>4, <1>5, <1>6, CommitRow

\* COMMIT of an edit: nobody else has written the row or has its key.
LEMMA CommitUpdateInv ==
  ASSUME IInv, NEW w \in Workers, CommitUpdate(w)
  PROVE  IInv'
<1> DEFINE i == req[w].id
<1>1. TypeOK /\ WorkerInv(w) /\ SessionTyped(w) /\ pc[w] = "u_commit"
  BY DEF IInv, TypeOK, CommitUpdate
<1>2. i \in Ids /\ rows[i] # None /\ new[w] \in Row
  BY <1>1 DEF WorkerInv, TypeOK, SessionTyped, UpdatePCs, UpdateRequests
<1>3. new[w].key # None => \A j \in Ids \ {i} : rows[j] # None => rows[j].key # new[w].key
  <2>1. CASE Rekeys(w)
    BY <1>1, <2>1 DEF WorkerInv, Entered
  <2>2. CASE ~Rekeys(w)
    BY <1>2, <2>2 DEF IInv, KeysUnique, Rekeys
  <2>3. QED
    BY <2>1, <2>2
<1>4. ASSUME NEW v \in Workers \ {w}
      PROVE  (Writes(v) => req[v].id # i) /\ (Entered(v) => new[v].key # new[w].key)
  <2>1. WorkerInv(v) /\ Apart(v, w)
    BY DEF IInv
  <2>2. Writes(w) /\ (Entered(v) => new[v].key # None)
    BY <1>1 DEF Writes, Entered
  <2>3. CASE Rekeys(w)
    BY <1>1, <2>1, <2>2, <2>3 DEF Apart, Entered
  <2>4. CASE ~Rekeys(w)
    BY <1>2, <2>1, <2>2, <2>4 DEF WorkerInv, Apart, Rekeys
  <2>5. QED
    BY <2>3, <2>4
<1>5. Close(w, "OK") /\ copies' = copies /\ rows' = [rows EXCEPT ![i] = new[w]]
  BY DEF CommitUpdate
<1>6. QED
  BY <1>2, <1>3, <1>4, <1>5, CommitRow

\* COMMIT of a copy: its book is there and its barcode is its own.
LEMMA CommitAddCopyInv ==
  ASSUME IInv, NEW w \in Workers, CommitAddCopy(w)
  PROVE  IInv'
<1>1. /\ TypeOK /\ KeysUnique /\ WorkerInv(w) /\ SessionTyped(w) /\ pc[w] = "a_commit"
      /\ copies' = copies \cup {req[w]} /\ rows' = rows /\ Close(w, "OK")
  BY DEF IInv, TypeOK, CommitAddCopy
<1>2. req[w] \in Copy /\ Sticks(w) /\ rows[req[w].book] # None
  BY <1>1 DEF SessionTyped, CopyPCs, CopyRequests, Sticks, WorkerInv
<1>3. /\ OneSession(w) /\ WellTyped(w) /\ WorkerInv(w)'
      /\ ~Writes(w)' /\ ~Entered(w)' /\ ~Sticks(w)'
  BY <1>1, Closed DEF Replies
<1>4. TypeOK'
  BY <1>1, <1>2, <1>3, TypeStep DEF TypeOK
<1>5. KeysUnique'
  <2>1. \A c, d \in copies' : c.barcode = d.barcode => c = d
    BY <1>1, <1>2 DEF KeysUnique, WorkerInv
  <2>2. \A c \in copies' : rows'[c.book] # None
    BY <1>1, <1>2 DEF KeysUnique
  <2>3. QED
    BY <1>1, <2>1, <2>2 DEF KeysUnique
<1>6. ASSUME NEW v \in Workers \ {w}
      PROVE  Untouched(v) /\ WorkerInv(v)' /\ (Entered(v)' => Entered(v))
  <2>1. Untouched(v) /\ WorkerInv(v) /\ Apart(v, w)
    BY <1>1, <1>3, OthersUntouched DEF IInv
  <2>2. /\ Entered(v) => \A i \in Ids : rows'[i] # None => rows'[i].key # new[v].key
        /\ Sticks(v) => \A c \in copies' : c.barcode # req[v].barcode
    BY <1>1, <1>2, <2>1 DEF WorkerInv, Apart
  <2>3. QED
    BY <1>1, <2>1, <2>2, OtherWorker
<1>7. ASSUME NEW u \in Workers, NEW v \in Workers, u # v
      PROVE  Apart(u, v)'
  <2>1. CASE u = w \/ v = w
    BY <1>3, <2>1 DEF Apart
  <2>2. CASE u # w /\ v # w
    BY <1>6, <1>7, <2>2 DEF IInv, Apart, Untouched, Writes, Sticks
  <2>3. QED
    BY <2>1, <2>2
<1>8. QED
  BY <1>3, <1>4, <1>5, <1>6, <1>7 DEF IInv

-----------------------------------------------------------------------------
(* The theorems *)

\* The tables are empty after the migration.
LEMMA InitInv == Init => IInv
<1>1. SUFFICES ASSUME Init
               PROVE  IInv
  OBVIOUS
<1>2. TypeOK
  BY <1>1 DEF Init, TypeOK, SessionTyped, Idle, CreatePCs, UpdatePCs, CopyPCs
<1>3. KeysUnique
  BY <1>1 DEF Init, KeysUnique
<1>4. ASSUME NEW w \in Workers
      PROVE  WorkerInv(w) /\ ~Writes(w) /\ ~Entered(w) /\ ~Sticks(w)
  BY <1>1 DEF Init, WorkerInv, Writes, Entered, Sticks, UpdatePCs, CopyPCs
<1>5. QED
  BY <1>2, <1>3, <1>4 DEF IInv, Apart

\* Every statement of every worker.
LEMMA StepInv == IInv /\ [Next]_vars => IInv'
<1>1. SUFFICES ASSUME IInv, [Next]_vars
               PROVE  IInv'
  OBVIOUS
<1>2. ASSUME NEW w \in Workers, Accept(w)
      PROVE  IInv'
  BY <1>1, <1>2, CreateBeginInv, UpdateReadInv, AddCopyReadInv DEF Accept
<1>3. ASSUME NEW w \in Workers, Serve(w)
      PROVE  IInv'
  BY <1>1, <1>3, CreateInsertInv, CommitCreateInv, UpdateLockInv, UpdateKeyInv,
     CommitUpdateInv, AddCopyInsertInv, AddCopyParentInv, CommitAddCopyInv DEF Serve
<1>4. ASSUME NEW w \in Workers, Abort(w) \/ DeadlockDetected(w)
      PROVE  IInv'
  BY <1>1, <1>4, RollbackStep DEF Abort, DeadlockDetected, Replies
<1>5. CASE UNCHANGED vars
  <2>1. UNCHANGED <<rows, copies, pc, req, dirty, new>>
    BY <1>5 DEF vars, session
  <2>2. TypeOK' /\ KeysUnique'
    BY <1>1, <2>1 DEF IInv, TypeOK, SessionTyped, KeysUnique
  <2>3. \A w \in Workers : WorkerInv(w)'
    BY <1>1, <2>1 DEF IInv, WorkerInv, Writes, Entered, Rekeys, Sticks, NewVersion, Merged
  <2>4. \A v, w \in Workers : v # w => Apart(v, w)'
    BY <1>1, <2>1 DEF IInv, Apart, Writes, Entered, Rekeys, Sticks
  <2>5. QED
    BY <2>2, <2>3, <2>4 DEF IInv
<1>6. QED
  BY <1>1, <1>2, <1>3, <1>4, <1>5 DEF Next

\* What each worker relies on holds throughout, whatever requests interleave.
THEOREM Inductive == Spec => []IInv
<1>1. QED
  BY InitInv, StepInv, PTL DEF Spec

\* Every row, copy and session of create_book, update_book, add_copy and their
\* member twins keeps its types, for any number of workers.
THEOREM TypeCorrect == Spec => []TypeOK
<1>1. IInv => TypeOK
  BY DEF IInv
<1>2. QED
  BY <1>1, Inductive, PTL

\* The ISBNs, e-mails and barcodes stay unique and no copy loses its book, for any
\* number of requests of books/service.py and members/service.py at once.
THEOREM KeysStayUnique == Spec => []KeysUnique
<1>1. IInv => KeysUnique
  BY DEF IInv
<1>2. QED
  BY <1>1, Inductive, PTL

\* A worker that steps is the only one whose statement changes.
LEMMA OneStep ==
  ASSUME IInv, NEW w \in Workers, Accept(w) \/ Serve(w) \/ Abort(w) \/ DeadlockDetected(w)
  PROVE  \A v \in Workers \ {w} : pc'[v] = pc[v]
BY DEF IInv, TypeOK, Accept, Serve, Abort, DeadlockDetected, CreateBegin, UpdateRead,
   AddCopyRead, CreateInsert, CommitCreate, UpdateLock, UpdateKey, CommitUpdate,
   AddCopyInsert, AddCopyParent, CommitAddCopy, Rollback, Close, Begin, Step

\* update_book and update_member keep, in every column their request leaves as it
\* was read, what others have committed since, however many of them interleave.
THEOREM UpdatesMerge == Spec => OthersChangesKept
<1> DEFINE Kept(w) ==
      pc[w] = "u_commit" /\ rows' # rows /\ pc'[w] # "u_commit" =>
        LET i == req[w].id IN
          \A c \in Columns :
            rows'[i][c] = IF c \in dirty[w] THEN req[w].row[c] ELSE rows[i][c]
<1>1. ASSUME IInv, NEW w \in Workers, CommitUpdate(w)
      PROVE  Kept(w)
  <2>1. /\ req[w].id \in Ids /\ rows' = [rows EXCEPT ![req[w].id] = NewVersion(w)]
        /\ rows \in [Ids -> Row \cup {None}]
    BY <1>1 DEF IInv, TypeOK, SessionTyped, WorkerInv, CommitUpdate, Writes, UpdatePCs,
       UpdateRequests
  <2>2. rows'[req[w].id] = NewVersion(w)
    BY <2>1
  <2>3. NewVersion(w)["key"] = Merged(w, "key") /\ NewVersion(w)["data"] = Merged(w, "data")
    BY DEF NewVersion
  <2>4. QED
    BY <2>2, <2>3 DEF Merged, Columns
<1>2. ASSUME IInv, NEW w \in Workers, pc[w] = "u_commit", rows' # rows,
             Accept(w) \/ Serve(w) \/ Abort(w) \/ DeadlockDetected(w)
      PROVE  CommitUpdate(w)
  BY <1>2 DEF Accept, Serve, Abort, DeadlockDetected, CreateBegin, UpdateRead, AddCopyRead,
     CreateInsert, CommitCreate, UpdateLock, UpdateKey, AddCopyInsert, AddCopyParent,
     CommitAddCopy, Rollback, Begin, Step, Running, Idle
<1>3. ASSUME IInv, [Next]_vars, NEW w \in Workers
      PROVE  Kept(w)
  <2>1. CASE UNCHANGED vars
    BY <2>1 DEF vars
  <2>2. CASE Next
    <3>1. PICK v \in Workers : Accept(v) \/ Serve(v) \/ Abort(v) \/ DeadlockDetected(v)
      BY <2>2 DEF Next
    <3>2. CASE v = w
      BY <1>1, <1>2, <1>3, <3>1, <3>2
    <3>3. CASE v # w
      BY <1>3, <3>1, <3>3, OneStep
    <3>4. QED
      BY <3>2, <3>3
  <2>3. QED
    BY <1>3, <2>1, <2>2
<1>4. IInv /\ [Next]_vars =>
        [\A w \in Workers : pc[w] = "u_commit" /\ rows' # rows /\ pc'[w] # "u_commit" =>
           LET i == req[w].id IN
             \A c \in Columns :
               rows'[i][c] = IF c \in dirty[w] THEN req[w].row[c] ELSE rows[i][c]]_vars
  BY <1>3
<1>5. QED
  BY <1>4, Inductive, PTL DEF Spec, OthersChangesKept

\* create_*, update_* and add_copy answer ALREADY_EXISTS only for a key or barcode
\* that a committed row has and nobody is giving up.
THEOREM RefusalsAreTrue == Spec => AlreadyExistsIsTrue
<1> DEFINE Told(w) ==
      pc[w] # "ALREADY_EXISTS" /\ pc'[w] = "ALREADY_EXISTS" => RefusedFor(w)
<1>1. ASSUME IInv, NEW w \in Workers, Serve(w), pc'[w] = "ALREADY_EXISTS"
      PROVE  \/ pc[w] = "a_insert" /\ Stuck(req[w].barcode) # {}
             \/ \E k : /\ \/ pc[w] = "c_insert" /\ k = req[w].key
                          \/ pc[w] = "u_key" /\ k = new[w].key
                       /\ k # None /\ Holders(k) # {} /\ KeyWriters(w, k) = {}
  <2>1. pc'[w] = "ALREADY_EXISTS" /\ TypeOK
    BY <1>1 DEF IInv
  <2>2. CASE CreateInsert(w)
    BY <2>1, <2>2 DEF CreateInsert, Step, TypeOK, Granted, WaitsFor
  <2>3. CASE UpdateKey(w)
    BY <2>1, <2>3 DEF UpdateKey, Step, TypeOK, Granted, WaitsFor
  <2>4. CASE AddCopyInsert(w)
    BY <2>1, <2>4 DEF AddCopyInsert, Step, TypeOK
  <2>5. CASE UpdateLock(w) \/ AddCopyParent(w)
    BY <2>1, <2>5 DEF UpdateLock, AddCopyParent, Step, TypeOK
  <2>6. CASE CommitCreate(w) \/ CommitUpdate(w) \/ CommitAddCopy(w)
    BY <2>1, <2>6 DEF CommitCreate, CommitUpdate, CommitAddCopy, Close, Idle, TypeOK
  <2>7. QED
    BY <1>1, <2>2, <2>3, <2>4, <2>5, <2>6 DEF Serve
<1>2. ASSUME IInv, NEW w \in Workers, Serve(w)
      PROVE  Told(w)
  <2>1. SUFFICES ASSUME pc'[w] = "ALREADY_EXISTS"
                 PROVE  RefusedFor(w)
    OBVIOUS
  <2>2. CASE pc[w] = "a_insert"
    BY <1>1, <1>2, <2>1, <2>2 DEF RefusedFor
  <2>3. ASSUME NEW k, \/ pc[w] = "c_insert" /\ k = req[w].key
                      \/ pc[w] = "u_key" /\ k = new[w].key,
               k # None, Holders(k) # {}, KeyWriters(w, k) = {}
        PROVE  RefusedFor(w)
    <3>1. PICK i \in Holders(k) : TRUE
      BY <2>3
    <3>2. \A v \in Workers \ {w} : ~Locks(v, i)
      BY <2>3, <3>1 DEF KeyWriters
    <3>3. ~Locks(w, i)
      BY <1>2, <2>3, <3>1 DEF IInv, WorkerInv, Rekeys, Locks, Holders
    <3>4. QED
      BY <2>3, <3>1, <3>2, <3>3 DEF RefusedFor
  <2>4. CASE pc[w] # "a_insert"
    <3>1. PICK k : /\ \/ pc[w] = "c_insert" /\ k = req[w].key
                      \/ pc[w] = "u_key" /\ k = new[w].key
                   /\ k # None /\ Holders(k) # {} /\ KeyWriters(w, k) = {}
      BY <1>1, <1>2, <2>1, <2>4
    <3>2. QED
      BY <2>3, <3>1
  <2>5. QED
    BY <2>2, <2>4
<1>3. ASSUME IInv, NEW w \in Workers, Accept(w) \/ Abort(w) \/ DeadlockDetected(w)
      PROVE  pc'[w] # "ALREADY_EXISTS"
  BY <1>3 DEF IInv, TypeOK, Accept, Abort, DeadlockDetected, CreateBegin, UpdateRead,
     AddCopyRead, Rollback, Close, Begin, Idle
<1>4. ASSUME IInv, [Next]_vars, NEW w \in Workers
      PROVE  Told(w)
  <2>1. CASE UNCHANGED vars
    BY <2>1 DEF vars, session
  <2>2. CASE Next
    <3>1. PICK v \in Workers : Accept(v) \/ Serve(v) \/ Abort(v) \/ DeadlockDetected(v)
      BY <2>2 DEF Next
    <3>2. CASE v = w
      BY <1>2, <1>3, <1>4, <3>1, <3>2
    <3>3. CASE v # w
      BY <1>4, <3>1, <3>3, OneStep
    <3>4. QED
      BY <3>2, <3>3
  <2>3. QED
    BY <1>4, <2>1, <2>2
<1>5. IInv /\ [Next]_vars =>
        [\A w \in Workers :
           pc[w] # "ALREADY_EXISTS" /\ pc'[w] = "ALREADY_EXISTS" => RefusedFor(w)]_vars
  BY <1>4
<1>6. QED
  BY <1>5, Inductive, PTL DEF Spec, AlreadyExistsIsTrue

\* Who waits for whom: a statement waits for statements behind it only, except that
\* the key check of an update may wait for the key check of another.
LEMMA Behind ==
  ASSUME NEW w \in Workers, NEW v \in WaitsFor(w)
  PROVE  /\ v \in Workers \ {w}
         /\ pc[v] \in {"u_key", "u_commit", "c_commit", "a_parent", "a_commit"}
         /\ pc[w] \in {"u_key", "a_parent"} => pc[v] \in {"u_key", "u_commit", "c_commit"}
         /\ pc[w] \notin {"u_commit", "c_commit", "a_commit"}
         /\ pc[w] = "u_key" => v \in KeyWriters(w, new[w].key)
<1>1. /\ \A k : \A u \in KeyWriters(w, k) : /\ u \in Workers \ {w}
                                            /\ pc[u] \in {"u_key", "u_commit", "c_commit"}
      /\ \A i : \A u \in RowWriters(w, i) : u \in Workers \ {w} /\ pc[u] \in {"u_key", "u_commit"}
      /\ \A i : \A u \in KeySharers(w, i) : u \in Workers \ {w} /\ pc[u] = "a_commit"
      /\ \A b : \A u \in Sticking(w, b) : u \in Workers \ {w} /\ pc[u] \in {"a_parent", "a_commit"}
  BY DEF KeyWriters, RowWriters, KeySharers, Sticking, Claims, Locks
<1>2. \A i : Rekeying(w, i) \subseteq RowWriters(w, i)
  BY DEF Rekeying
<1>3. CASE pc[w] \in {"c_insert", "u_key"}
  <2>1. pc[w] = "c_insert" => v \in KeyWriters(w, req[w].key)
    BY DEF WaitsFor
  <2>2. pc[w] = "u_key" => v \in KeyWriters(w, new[w].key)
    BY DEF WaitsFor
  <2>3. QED
    BY <1>1, <1>3, <2>1, <2>2
<1>4. CASE pc[w] = "u_lock"
  <2>1. v \in RowWriters(w, req[w].id) \cup KeySharers(w, req[w].id)
    BY <1>4 DEF WaitsFor
  <2>2. QED
    BY <1>1, <1>4, <2>1
<1>5. CASE pc[w] \in {"a_insert", "a_parent"}
  <2>1. pc[w] = "a_insert" => v \in Sticking(w, req[w].barcode)
    BY DEF WaitsFor
  <2>2. pc[w] = "a_parent" => v \in Rekeying(w, req[w].book)
    BY DEF WaitsFor
  <2>3. QED
    BY <1>1, <1>2, <1>5, <2>1, <2>2
<1>6. pc[w] \in {"c_insert", "u_lock", "u_key", "a_insert", "a_parent"}
  BY DEF WaitsFor
<1>7. QED
  BY <1>3, <1>4, <1>5, <1>6

\* Whoever is in a cycle is an update at its key check.
LEMMA CycleOfKeys ==
  ASSUME NEW w \in Workers, InCycle(w)
  PROVE  pc[w] = "u_key"
<1> DEFINE Checks == {v \in Workers : pc[v] \in {"u_key", "u_commit", "c_commit"}}
           Later  == {v \in Workers : pc[v] \in {"u_key", "u_commit", "c_commit",
                                                 "a_parent", "a_commit"}}
<1>1. /\ \A v \in Checks : WaitsFor(v) \subseteq Checks
      /\ \A v \in Later : WaitsFor(v) \subseteq Later
  BY Behind
<1>2. w \in Checks
  <2>1. SUFFICES ASSUME w \notin Checks
                 PROVE  FALSE
    OBVIOUS
  <2>2. CASE w \notin Later
    <3>1. Later \in SUBSET (Workers \ {w}) /\ WaitsFor(w) \subseteq Later
      BY <2>2, Behind
    <3>2. QED
      BY <1>1, <3>1 DEF InCycle
  <2>3. CASE w \in Later
    <3>1. Checks \in SUBSET (Workers \ {w}) /\ WaitsFor(w) \subseteq Checks
      BY <2>1, <2>3, Behind
    <3>2. QED
      BY <1>1, <3>1 DEF InCycle
  <2>4. QED
    BY <2>2, <2>3
<1>3. WaitsFor(w) # {}
  BY DEF InCycle
<1>4. QED
  BY <1>2, <1>3, Behind

\* Among those that w waits for, one is in a cycle too.
LEMMA CycleGoesOn ==
  ASSUME NEW w \in Workers, InCycle(w)
  PROVE  \E v \in WaitsFor(w) : InCycle(v)
<1> DEFINE Avoiding == {O \in SUBSET (Workers \ {w}) : \A u \in O : WaitsFor(u) \subseteq O}
           others == UNION Avoiding
<1>1. SUFFICES ASSUME \A v \in WaitsFor(w) : ~InCycle(v)
               PROVE  FALSE
  OBVIOUS
<1>2. others \in SUBSET (Workers \ {w}) /\ \A u \in others : WaitsFor(u) \subseteq others
  OBVIOUS
<1>3. ASSUME NEW v \in WaitsFor(w)
      PROVE  v \in others
  <2>1. v \in Workers \ {w}
    BY Behind
  <2>2. PICK O \in SUBSET (Workers \ {v}) :
          WaitsFor(v) \subseteq O /\ \A u \in O : WaitsFor(u) \subseteq O
    BY <1>1 DEF InCycle
  <2>3. w \notin O
    BY <1>3, <2>2
  <2>4. O \cup {v} \in Avoiding
    BY <2>1, <2>2, <2>3
  <2>5. QED
    BY <2>4
<1>4. QED
  BY <1>2, <1>3 DEF InCycle

\* Whatever creations, updates and new copies interleave, nothing but an exchange of
\* ISBNs or e-mails among update_book or update_member is ended as a deadlock.
THEOREM DeadlocksAreExchanges == Spec => []OnlyExchangesDeadlock
<1>1. ASSUME NEW w \in Workers, InCycle(w)
      PROVE  /\ pc[w] = "u_key"
             /\ \E v \in Workers \ {w} :
                  InCycle(v) /\ pc[v] = "u_key" /\ new[w].key = rows[req[v].id].key
  <2>1. PICK v \in WaitsFor(w) : InCycle(v)
    BY <1>1, CycleGoesOn
  <2>2. v \in Workers \ {w} /\ pc[w] = "u_key" /\ pc[v] = "u_key"
    BY <1>1, <2>1, Behind, CycleOfKeys
  <2>3. v \in KeyWriters(w, new[w].key)
    BY <2>1, <2>2, Behind
  <2>4. new[w].key = rows[req[v].id].key
    BY <2>2, <2>3 DEF KeyWriters, Claims, Locks, Holders
  <2>5. QED
    BY <2>1, <2>2, <2>4
<1>2. OnlyExchangesDeadlock
  BY <1>1 DEF OnlyExchangesDeadlock
<1>3. QED
  BY <1>2, PTL

\* Of the sets of workers that wait for each other only, and have a worker, one
\* has no smaller one in it.
LEMMA LeastChain ==
  ASSUME NEW chain \in SUBSET Workers, chain # {},
         \A u \in chain : WaitsFor(u) \subseteq chain
  PROVE  \E least \in SUBSET chain :
           /\ least # {} /\ \A u \in least : WaitsFor(u) \subseteq least
           /\ \A C \in SUBSET least :
                C # {} /\ (\A u \in C : WaitsFor(u) \subseteq C) => C = least
<1> DEFINE Chains == {C \in SUBSET chain : C # {} /\ \A u \in C : WaitsFor(u) \subseteq C}
           Smaller == StrictSubsetOrdering(chain)
<1>1. IsFiniteSet(chain)
  BY CatalogAssumption, FS_Subset
<1>2. IsWellFoundedOn(Smaller, SUBSET chain)
  BY <1>1, FS_StrictSubsetOrderingWellFounded, FS_FiniteSubsetsOfFinite
<1>3. Chains \subseteq SUBSET chain /\ Chains # {}
  <2>1. chain \in Chains
    OBVIOUS
  <2>2. QED
    BY <2>1
<1>4. PICK least \in Chains : \A C \in Chains : <<C, least>> \notin Smaller
  <2> HIDE DEF Chains, Smaller
  <2>1. QED
    BY <1>2, <1>3, WFMin
<1>5. ASSUME NEW C \in SUBSET least, C # {}, \A u \in C : WaitsFor(u) \subseteq C, C # least
      PROVE  FALSE
  <2>1. C \in Chains
    BY <1>5
  <2>2. <<C, least>> \in Smaller
    BY <1>5 DEF StrictSubsetOrdering
  <2>3. QED
    BY <1>4, <2>1, <2>2
<1>6. QED
  BY <1>4, <1>5

\* In such a set, whoever waits is in a cycle.
LEMMA LeastChainIsCycle ==
  ASSUME NEW least \in SUBSET Workers, \A u \in least : WaitsFor(u) \subseteq least,
         \A C \in SUBSET least :
           C # {} /\ (\A u \in C : WaitsFor(u) \subseteq C) => C = least,
         NEW v \in least, ~Granted(v)
  PROVE  InCycle(v)
<1>1. SUFFICES ASSUME NEW others \in SUBSET (Workers \ {v}), WaitsFor(v) \subseteq others,
                      \A u \in others : WaitsFor(u) \subseteq others
               PROVE  FALSE
  BY DEF InCycle
<1>2. /\ least \cap others \in SUBSET least /\ least \cap others # {}
      /\ \A u \in least \cap others : WaitsFor(u) \subseteq least \cap others
  BY <1>1 DEF Granted
<1>3. least \cap others = least
  BY <1>2
<1>4. QED
  BY <1>1, <1>3

\* Along every chain of waiting there is a request that is free to go on, or an
\* exchange of keys.
EveryChainEnds ==
  \A w \in Workers : Running(w) =>
    \A chain \in SUBSET Workers :
      w \in chain /\ (\A u \in chain : WaitsFor(u) \subseteq chain) =>
        \E v \in chain : Running(v) /\ (Granted(v) \/ (InCycle(v) /\ pc[v] = "u_key"))

\* However many requests wait for each other, one that they wait for can go on, or is
\* in an exchange of keys, which the deadlock detector ends: no wait is left to the
\* patience of the client, for any number of workers.
THEOREM WaitsEnd == Spec => []EveryChainEnds
<1>1. ASSUME NEW w \in Workers, Running(w), NEW chain \in SUBSET Workers,
             w \in chain, \A u \in chain : WaitsFor(u) \subseteq chain
      PROVE  \E v \in chain : Running(v) /\ (Granted(v) \/ (InCycle(v) /\ pc[v] = "u_key"))
  <2> DEFINE busy == {u \in chain : Running(u)}
  <2>1. busy \in SUBSET Workers /\ busy # {} /\ \A u \in busy : WaitsFor(u) \subseteq busy
    BY <1>1, Behind DEF Running, Idle
  <2>2. PICK least \in SUBSET busy :
          /\ least # {} /\ \A u \in least : WaitsFor(u) \subseteq least
          /\ \A C \in SUBSET least :
               C # {} /\ (\A u \in C : WaitsFor(u) \subseteq C) => C = least
    <3> HIDE DEF busy
    <3>1. QED
      BY <2>1, LeastChain
  <2>3. PICK v : v \in least
    BY <2>2
  <2>4. Granted(v) \/ InCycle(v)
    BY <2>1, <2>2, <2>3, LeastChainIsCycle
  <2>5. QED
    BY <2>1, <2>3, <2>4, CycleOfKeys
<1>2. EveryChainEnds
  BY <1>1 DEF EveryChainEnds
<1>3. QED
  BY <1>2, PTL

-----------------------------------------------------------------------------
(* The refinement of CatalogAbs *)

entryMap == [k \in Keys |-> Holders(k)]
dataMap  == [i \in Ids |-> IF rows[i] = None THEN None ELSE rows[i].data]
BookIn(S) == IF S = {} THEN None ELSE (CHOOSE c \in S : TRUE).book
BookOf(b) == BookIn(Stuck(b))
bookMap  == [b \in Barcodes |-> BookOf(b)]

\* A row that is entered or changed is found under its key, and under no other.
LEMMA RowFiled ==
  ASSUME TypeOK, NEW i \in Ids, NEW row \in Row, rows' = [rows EXCEPT ![i] = row]
  PROVE  /\ entryMap' = [l \in Keys |-> IF l = row.key THEN {i} \cup entryMap[l]
                                                       ELSE entryMap[l] \ {i}]
         /\ dataMap' = [dataMap EXCEPT ![i] = row.data]
<1>1. /\ row # None
      /\ \A j \in Ids : rows'[j] = IF j = i THEN row ELSE rows[j]
  BY CatalogAssumption DEF TypeOK
<1>2. ASSUME NEW l \in Keys
      PROVE  Holders(l)' = IF l = row.key THEN {i} \cup Holders(l) ELSE Holders(l) \ {i}
  BY <1>1 DEF Holders
<1>3. entryMap' = [l \in Keys |-> IF l = row.key THEN {i} \cup entryMap[l]
                                                ELSE entryMap[l] \ {i}]
  BY <1>2 DEF entryMap
<1>4. \A j \in Ids : dataMap'[j] = IF j = i THEN row.data ELSE dataMap[j]
  BY <1>1 DEF dataMap
<1>5. dataMap' = [dataMap EXCEPT ![i] = row.data]
  BY <1>4 DEF dataMap
<1>6. QED
  BY <1>3, <1>5

\* If no other row had the key, this is what the directory does.
LEMMA FiledRefines ==
  ASSUME TypeOK, NEW i \in Ids, NEW row \in Row, rows' = [rows EXCEPT ![i] = row],
         NEW k, k = row.key, NEW d, d = row.data, k # None => Holders(k) \subseteq {i}
  PROVE  k \in Keys \cup {None} /\ d \in Data /\ Abs!File(i, k) /\ Abs!Write(i, d)
<1>1. k \in Keys \cup {None} /\ d \in Data
  BY DEF Row
<1>2. k # None => k \in Keys /\ entryMap[k] \subseteq {i}
  BY <1>1 DEF entryMap
<1>3. entryMap' = [l \in Keys |-> IF l = k THEN {i} ELSE entryMap[l] \ {i}]
  <2>1. ASSUME NEW l \in Keys
        PROVE  (IF l = row.key THEN {i} \cup entryMap[l] ELSE entryMap[l] \ {i})
                 = IF l = k THEN {i} ELSE entryMap[l] \ {i}
    BY <1>2, CatalogAssumption
  <2>2. entryMap' = [l \in Keys |-> IF l = row.key THEN {i} \cup entryMap[l]
                                                  ELSE entryMap[l] \ {i}]
    BY RowFiled
  <2>3. QED
    BY <2>1, <2>2
<1>4. Abs!File(i, k)
  BY <1>2, <1>3 DEF Abs!File, entryMap
<1>5. Abs!Write(i, d)
  BY RowFiled DEF Abs!Write, dataMap
<1>6. QED
  BY <1>1, <1>4, <1>5

\* COMMIT of a new row enters it in the directory.
LEMMA CommitCreateRefines ==
  ASSUME IInv, NEW w \in Workers, CommitCreate(w)
  PROVE  Abs!Next
<1>1. PICK i \in Unused : rows' = [rows EXCEPT ![i] = new[w]]
  BY DEF CommitCreate
<1>2. /\ TypeOK /\ i \in Ids /\ rows[i] = None /\ new[w] \in Row /\ WorkerInv(w)
      /\ pc[w] = "c_commit" /\ copies' = copies
  BY <1>1 DEF CommitCreate, IInv, Unused, TypeOK, SessionTyped
<1>3. PICK k, d : k = new[w].key /\ d = new[w].data
  OBVIOUS
<1>4. k # None => Holders(k) = {}
  BY <1>2, <1>3 DEF WorkerInv, Entered, Holders
<1>5. bookMap' = bookMap
  BY <1>2 DEF bookMap, BookOf, Stuck
<1>6. Abs!Entered(i) = FALSE
  BY <1>2 DEF Abs!Entered
<1>7. k \in Keys \cup {None} /\ d \in Data /\ Abs!File(i, k) /\ Abs!Write(i, d)
  BY <1>1, <1>2, <1>3, <1>4, FiledRefines
<1>8. Abs!Enter(i, k, d)
  BY <1>5, <1>6, <1>7 DEF Abs!Enter, bookMap, BookOf, BookIn
<1>9. QED
  BY <1>2, <1>7, <1>8 DEF Abs!Next

\* COMMIT of an edit moves or changes one entry of the directory.
LEMMA CommitUpdateRefines ==
  ASSUME IInv, NEW w \in Workers, CommitUpdate(w)
  PROVE  Abs!Next
<1>0. PICK i, row, k, d : i = req[w].id /\ row = new[w] /\ k = row.key /\ d = row.data
  OBVIOUS
<1>1. /\ TypeOK /\ i \in Ids /\ rows[i] # None /\ rows[i] \in Row /\ row \in Row
      /\ WorkerInv(w) /\ pc[w] = "u_commit" /\ copies' = copies
      /\ rows' = [rows EXCEPT ![i] = row]
  BY <1>0 DEF CommitUpdate, IInv, TypeOK, SessionTyped, WorkerInv, UpdatePCs, UpdateRequests
<1>2. rows[i].data \in Data
  BY <1>1 DEF Row
<1>3. k # None => Holders(k) \subseteq {i}
  <2>1. CASE Rekeys(w)
    BY <1>0, <1>1, <2>1 DEF WorkerInv, Entered, Holders
  <2>2. CASE ~Rekeys(w)
    BY <1>0, <1>1, <2>2 DEF IInv, KeysUnique, Rekeys, Holders
  <2>3. QED
    BY <2>1, <2>2
<1>4. bookMap' = bookMap
  BY <1>1 DEF bookMap, BookOf, Stuck
<1>5. Abs!Entered(i)
  BY <1>1, <1>2, CatalogAssumption DEF Abs!Entered
<1>6. k \in Keys \cup {None} /\ d \in Data /\ Abs!File(i, k) /\ Abs!Write(i, d)
  <2>1. TypeOK /\ i \in Ids /\ row \in Row
    BY <1>1
  <2>2. rows' = [rows EXCEPT ![i] = row]
    BY <1>1
  <2>3. k = row.key /\ d = row.data
    BY <1>0
  <2>4. QED
    BY <1>3, <2>1, <2>2, <2>3, FiledRefines
<1>7. Abs!Change(i, k, d)
  BY <1>4, <1>5, <1>6 DEF Abs!Change, bookMap, BookOf, BookIn
<1>8. QED
  BY <1>1, <1>6, <1>7 DEF Abs!Next

\* COMMIT of a copy adds it to the directory.
LEMMA CommitAddCopyRefines ==
  ASSUME IInv, NEW w \in Workers, CommitAddCopy(w)
  PROVE  Abs!Next
<1>0. PICK b, i : b = req[w].barcode /\ i = req[w].book
  OBVIOUS
<1>1. /\ TypeOK /\ WorkerInv(w) /\ pc[w] = "a_commit" /\ req[w] \in Copy
      /\ rows' = rows /\ copies' = copies \cup {req[w]}
  BY DEF CommitAddCopy, IInv, TypeOK, SessionTyped, CopyPCs, CopyRequests
<1>2. b \in Barcodes /\ i \in Ids /\ rows[i] # None /\ Stuck(b) = {}
  BY <1>0, <1>1 DEF WorkerInv, CopyPCs, Sticks, Stuck, Copy
<1>3. rows[i].data \in Data
  BY <1>1, <1>2 DEF TypeOK, Row
<1>4. entryMap' = entryMap /\ dataMap' = dataMap
  BY <1>1 DEF entryMap, dataMap, Holders
<1>5. Stuck(b)' = {req[w]} /\ \A a \in Barcodes \ {b} : Stuck(a)' = Stuck(a)
  <2>1. copies' = copies \cup {req[w]} /\ req[w].barcode = b
    BY <1>0, <1>1
  <2>2. QED
    BY <1>2, <2>1 DEF Stuck
<1>6. BookOf(b) = None /\ BookOf(b)' = i /\ \A a \in Barcodes \ {b} : BookOf(a)' = BookOf(a)
  <2>1. (CHOOSE c \in {req[w]} : TRUE) = req[w]
    OBVIOUS
  <2>2. BookOf(b)' = i
    BY <1>0, <1>5, <2>1 DEF BookOf, BookIn
  <2>3. BookOf(b) = None
    BY <1>2 DEF BookOf, BookIn
  <2>4. QED
    BY <1>5, <2>2, <2>3 DEF BookOf
<1>7. bookMap' = [bookMap EXCEPT ![b] = i] /\ bookMap[b] = None
  BY <1>2, <1>6 DEF bookMap
<1>8. Abs!Entered(i)
  BY <1>2, <1>3, CatalogAssumption DEF Abs!Entered
<1>9. Abs!Stick(b, i)
  BY <1>4, <1>7, <1>8 DEF Abs!Stick, bookMap, BookOf, BookIn, entryMap, dataMap
<1>10. QED
  BY <1>2, <1>9 DEF Abs!Next

\* Create, update and add_copy, transaction by transaction, implement a directory
\* in which a key leads to one row and each commit enters or changes one.
THEOREM DirectoryRefined == Spec => Directory
<1>1. Init => Abs!Init
  BY DEF Init, Abs!Init, Holders, Stuck
<1>2. ASSUME UNCHANGED <<rows, copies>>
      PROVE  UNCHANGED Abs!catalog
  BY <1>2 DEF Abs!catalog, Holders, Stuck
<1>3. ASSUME NEW w \in Workers, Accept(w) \/ Abort(w) \/ DeadlockDetected(w)
      PROVE  UNCHANGED <<rows, copies>>
  BY <1>3 DEF Accept, Abort, DeadlockDetected, CreateBegin, UpdateRead, AddCopyRead,
     Rollback, Begin
<1>4. ASSUME NEW w \in Workers, Serve(w), ~CommitCreate(w), ~CommitUpdate(w), ~CommitAddCopy(w)
      PROVE  UNCHANGED <<rows, copies>>
  BY <1>4 DEF Serve, CreateInsert, UpdateLock, UpdateKey, AddCopyInsert, AddCopyParent,
     Rollback
<1>5. ASSUME IInv, [Next]_vars
      PROVE  [Abs!Next]_(Abs!catalog)
  <2>1. CASE UNCHANGED vars
    BY <1>2, <2>1 DEF vars
  <2>2. CASE Next
    BY <1>2, <1>3, <1>4, <1>5, <2>2, CommitCreateRefines, CommitUpdateRefines,
       CommitAddCopyRefines DEF Next
  <2>3. QED
    BY <1>5, <2>1, <2>2
<1>6. QED
  BY <1>1, <1>5, Inductive, PTL DEF Spec, Directory, Abs!Spec
=============================================================================
