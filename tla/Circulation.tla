---------------------------- MODULE Circulation ----------------------------
(***************************************************************************)
(* The lending service with a reader: a thread of the gRPC pool serves     *)
(* GetBook, ListBooks or ListLoans while other threads lend, take back and *)
(* relabel.  All of them work on one database; a SELECT without FOR UPDATE *)
(* takes no lock and waits for none, so the statements of the reader come  *)
(* between any two statements of the others.                               *)
(***************************************************************************)
EXTENDS Lending

CONSTANTS DefaultPageSize, MaxPageSize, PageSizes, Tokens  \* as in Queries

VARIABLES reading,  \* next statement of the reader, or its reply
          todo, total, counted, filter, clock, rows, stock, shelf, late

Reader == INSTANCE Queries WITH pc <- reading

request == <<reading, todo, total, counted, filter, clock, rows, stock, shelf, late>>
all     == <<vars, request>>

CirculationInit == Init /\ Reader!Init

\* A thread that writes.
Writing == Next /\ Reader!Watch

\* The thread that reads.
Reading == Reader!Read /\ UNCHANGED <<emails, session, barred>>

CirculationNext == Writing \/ Reading

CirculationSpec == CirculationInit /\ [][CirculationNext]_all
-----------------------------------------------------------------------------
\* What is proved of a reader beside the serial service holds beside the concurrent
\* one: between two statements of the reader nothing shows but whole requests, be
\* they in the middle of a borrow, a return or a status change.
ReadersSeeTheService == Reader!Spec
=============================================================================
