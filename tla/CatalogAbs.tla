---------------------------- MODULE CatalogAbs ----------------------------
(***************************************************************************)
(* What the catalog promises to a reader of the database: a directory of   *)
(* rows in which a key leads to one row at most.  A row is entered or      *)
(* changed at once and never removed; a barcode is stuck on a copy of an   *)
(* entered book and never reused.                                          *)
(***************************************************************************)
CONSTANTS Ids, Keys, Data, Barcodes,
          None                          \* no key, no data, no book

VARIABLES entry,    \* the rows a key leads to
          data,     \* the other columns of a row, None before it is entered
          bookOf    \* the book whose copy bears a barcode, or None

catalog == <<entry, data, bookOf>>

Init ==
  /\ entry  = [k \in Keys |-> {}]
  /\ data   = [i \in Ids |-> None]
  /\ bookOf = [b \in Barcodes |-> None]

Entered(i) == data[i] # None

\* Row i is found under k from now on, and under no other key.
File(i, k) ==
  /\ k # None => entry[k] \subseteq {i}
  /\ entry' = [l \in Keys |-> IF l = k THEN {i} ELSE entry[l] \ {i}]

Write(i, d) == data' = [data EXCEPT ![i] = d]

Enter(i, k, d) == ~Entered(i) /\ File(i, k) /\ Write(i, d) /\ UNCHANGED bookOf

Change(i, k, d) == Entered(i) /\ File(i, k) /\ Write(i, d) /\ UNCHANGED bookOf

Stick(b, i) ==
  /\ Entered(i) /\ bookOf[b] = None
  /\ bookOf' = [bookOf EXCEPT ![b] = i]
  /\ UNCHANGED <<entry, data>>

Next ==
  \E i \in Ids :
    \/ \E k \in Keys \cup {None}, d \in Data : Enter(i, k, d) \/ Change(i, k, d)
    \/ \E b \in Barcodes : Stick(b, i)

Spec == Init /\ [][Next]_catalog
=============================================================================
