---------------------------- MODULE LedgerPromise ----------------------------
(***************************************************************************)
(* What the ledger promises its readers, with no transaction, lock or hash *)
(* in sight: an append-only book in which a reference is used once per     *)
(* journal, and fiscal years that accept nothing while they are closed.    *)
(* Ledger is shown to implement it.                                        *)
(***************************************************************************)
EXTENDS Sequences, Naturals

CONSTANTS Entries, Years, Covers(_, _), SameKey(_, _)

VARIABLES book, closed

promiseVars == <<book, closed>>

PromiseInit == book = << >> /\ closed = {}

Postable(e) ==
  /\ e \in Entries
  /\ \A y \in closed : ~ Covers(y, e)
  /\ \A i \in 1 .. Len(book) : ~ SameKey(book[i], e)

\* One postable entry is added at the end of the book, nothing else changes.
Appended(e) == Postable(e) /\ book' = Append(book, e)

\* The entry a step adds; book' is never shorter than one where this is used.
Newest == book'[Len(book')]

Post ==
  /\ book' # << >>
  /\ Appended(Newest)
  /\ UNCHANGED closed

\* The closing entry and the lock appear together.
Close(y) ==
  /\ y \notin closed
  /\ book' # << >>
  /\ Appended(Newest)
  /\ Covers(y, Newest)
  /\ closed' = closed \cup {y}

Reopen(y) ==
  /\ y \in closed
  /\ closed' = closed \ {y}
  /\ UNCHANGED book

PromiseNext == Post \/ \E y \in Years : Close(y) \/ Reopen(y)

PromiseSpec == PromiseInit /\ [][PromiseNext]_promiseVars
=============================================================================
