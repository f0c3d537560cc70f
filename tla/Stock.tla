-------------------------------- MODULE Stock --------------------------------
(***************************************************************************)
(* On-hand stock (backend/internal/catalog) and the workflows that move    *)
(* it: POST /movements and /adjust, validation of an inter-warehouse       *)
(* transfer (stocktransfer), fulfilment of a shipment (sales), receiving   *)
(* (procurement), a till sale (pos) and the production of a manufacturing  *)
(* order.  Every one of them goes through PGStore.AppendMovement, either   *)
(* in a transaction of its own per line or joined to the transaction of    *)
(* its service.                                                            *)
(*                                                                         *)
(* A cell is a product in a warehouse.  One action is one SQL statement    *)
(* that reads or locks what another request may change; the writes of a    *)
(* transaction show when it commits.                                       *)
(***************************************************************************)
EXTENDS Integers, Sequences, FiniteSets

CONSTANTS
  Reqs,     \* concurrent requests
  NoReq,    \* nobody: an unlocked row
  Cells,    \* (product, warehouse) pairs
  Opening,  \* Opening[c]: the quantity on hand at the start
  Stocked,  \* the cells that have a ferp_stock_levels row at the start
  Docs,     \* the movements, transfers, shipments, receptions, sales and orders
  Kind,     \* Kind[d]: how the document moves stock, see Kinds
  Lines,    \* Lines[d]: its movements in order, a quantity above 0 being inbound
  NoDoc,    \* the document of an idle request
  MoveLimit \* bound: how often one line may be posted again by a later request

\* "movement" is POST /movements or /adjust; "direct" is a transfer, a shipment
\* or a reception; "checkout" is a till sale; "produce" a manufacturing order.
Kinds == {"movement", "direct", "checkout", "produce"}

Move == [cell : Cells, qty : Int \ {0}]

LineNos(d) == 1 .. Len(Lines[d])

ASSUME StockAssumption ==
  /\ NoReq \notin Reqs
  /\ NoDoc \notin Docs
  /\ Opening \in [Cells -> Nat]
  /\ Stocked \subseteq Cells
  /\ \A c \in Cells \ Stocked : Opening[c] = 0
  /\ Kind \in [Docs -> Kinds]
  /\ Lines \in [Docs -> Seq(Move)]
  /\ \A d \in Docs : Lines[d] # << >>
  /\ MoveLimit \in Nat

VARIABLES
  level,   \* per cell: committed ferp_stock_levels.qty, 0 without a row
  known,   \* the cells with a committed ferp_stock_levels row
  booked,  \* per cell: Opening plus the sum of the committed movements
  moved,   \* per document and line: its committed movements
  status,  \* per document: "open", "done" or "cancelled"
  holder,  \* per cell: the transaction that holds the row (or inserts it)
  counter, \* the transaction that holds the reference counter of the invoices
  pc,      \* per request: the statement it runs next
  doc,     \* per request: its document
  line,    \* per request: the line it works on
  work,    \* per request and cell: the quantity as its transaction sees it
  delta,   \* per request and cell: what its open transaction has added
  sent     \* per request: the lines its open transaction has posted

stockVars == <<level, known, booked, moved, status>>
lockVars == <<holder, counter>>
txVars == <<work, delta, sent>>
vars == <<level, known, booked, moved, status, holder, counter,
          pc, doc, line, work, delta, sent>>

Steps == {"idle", "check", "counter", "lock", "write", "finish"}

TypeOK ==
  /\ level \in [Cells -> Nat]
  /\ known \subseteq Cells
  /\ booked \in [Cells -> Int]
  /\ DOMAIN moved = Docs
  /\ \A d \in Docs : moved[d] \in [LineNos(d) -> Nat]
  /\ status \in [Docs -> {"open", "done", "cancelled"}]
  /\ holder \in [Cells -> Reqs \cup {NoReq}]
  /\ counter \in Reqs \cup {NoReq}
  /\ pc \in [Reqs -> Steps]
  /\ doc \in [Reqs -> Docs \cup {NoDoc}]
  /\ line \in [Reqs -> Nat]
  /\ work \in [Reqs -> [Cells -> Nat]]
  /\ delta \in [Reqs -> [Cells -> Int]]
  /\ sent \in [Reqs -> SUBSET Nat]

NoWork == [c \in Cells |-> 0]

Init ==
  /\ level = Opening
  /\ known = Stocked
  /\ booked = Opening
  /\ moved = [d \in Docs |-> [i \in LineNos(d) |-> 0]]
  /\ status = [d \in Docs |-> "open"]
  /\ holder = [c \in Cells |-> NoReq]
  /\ counter = NoReq
  /\ pc = [r \in Reqs |-> "idle"]
  /\ doc = [r \in Reqs |-> NoDoc]
  /\ line = [r \in Reqs |-> 1]
  /\ work = [r \in Reqs |-> NoWork]
  /\ delta = [r \in Reqs |-> NoWork]
  /\ sent = [r \in Reqs |-> {}]

-----------------------------------------------------------------------------
(* Requests and their transactions. *)

\* Mutant: the service hands its transaction to every workflow.
JoinedAlways(d) == d \in Docs

\* The services that pass their transaction to AppendMovement; the others pass
\* the pool, so that JoinTx opens a transaction per movement.
Joined(d) == Kind[d] \in {"checkout", "produce"}

Here(r) == Lines[doc[r]][line[r]]
LastLine(r) == line[r] = Len(Lines[doc[r]])

\* The request is answered; its transaction is over, committed or not.
Answer(r) ==
  /\ pc' = [pc EXCEPT ![r] = "idle"]
  /\ doc' = [doc EXCEPT ![r] = NoDoc]
  /\ line' = [line EXCEPT ![r] = 1]
  /\ work' = [work EXCEPT ![r] = NoWork]
  /\ delta' = [delta EXCEPT ![r] = NoWork]
  /\ sent' = [sent EXCEPT ![r] = {}]

Release(r) ==
  /\ holder' = [c \in Cells |-> IF holder[c] = r THEN NoReq ELSE holder[c]]
  /\ counter' = IF counter = r THEN NoReq ELSE counter

\* Mutant: an error path that returns without finish(err) leaks the transaction.
FailWithoutRollback(r) ==
  /\ Answer(r)
  /\ UNCHANGED <<stockVars, lockVars>>

\* An error ends the request and rolls its open transaction back.
Fail(r) ==
  /\ Answer(r)
  /\ Release(r)
  /\ UNCHANGED stockVars

\* On to the next line by step `again`, or after the last one to step `after`.
Advance(r, again, after) ==
  /\ pc' = [pc EXCEPT ![r] = IF LastLine(r) THEN after ELSE again]
  /\ line' = [line EXCEPT ![r] = IF LastLine(r) THEN 1 ELSE line[r] + 1]
  /\ UNCHANGED doc

(***************************************************************************)
(* The handler reads the document and refuses one that is not open: a      *)
(* draft transfer, a validated shipment or reception, an order in          *)
(* progress.  A movement and a sale have no document before they are made; *)
(* each stands for one POST, which is sent again only if it failed.        *)
(***************************************************************************)
Begin(r, d) ==
  /\ pc[r] = "idle"
  /\ status[d] = "open"
  /\ Kind[d] \in {"movement", "checkout"} => \A s \in Reqs : doc[s] # d
  /\ \A i \in LineNos(d) : moved[d][i] < MoveLimit
  /\ pc' = [pc EXCEPT ![r] = IF Joined(d) THEN "check" ELSE "lock"]
  /\ doc' = [doc EXCEPT ![r] = d]
  /\ UNCHANGED <<stockVars, lockVars, line, txVars>>

\* The availability check of checkout and PostProduce: Level, without a lock,
\* for every outbound line, before anything is written.
Check(r) ==
  LET short == Here(r).qty < 0 /\ level[Here(r).cell] + Here(r).qty < 0
      after == IF Kind[doc[r]] = "checkout" THEN "counter" ELSE "lock"
  IN /\ pc[r] = "check"
     /\ \/ /\ ~ short
           /\ Advance(r, "check", after)
           /\ UNCHANGED <<stockVars, lockVars, txVars>>
        \/ /\ short
           /\ Fail(r)

\* CreateDoc bumps the reference counter of the invoices; the row stays locked
\* until the sale commits.
TakeCounter(r) ==
  /\ pc[r] = "counter"
  /\ counter = NoReq
  /\ counter' = r
  /\ pc' = [pc EXCEPT ![r] = "lock"]
  /\ UNCHANGED <<stockVars, holder, doc, line, txVars>>

-----------------------------------------------------------------------------
(* AppendMovement. *)

\* A transaction sees committed rows and those it inserted itself.
Sees(r, c) == c \in known \/ holder[c] = r

\* Mutant: the level is read without FOR UPDATE.
ReadLevelUnlocked(r) ==
  /\ pc[r] = "lock"
  /\ work' = [work EXCEPT ![r][Here(r).cell] =
                IF holder[Here(r).cell] = r THEN @ ELSE level[Here(r).cell]]
  /\ pc' = [pc EXCEPT ![r] = "write"]
  /\ UNCHANGED <<stockVars, lockVars, doc, line, delta, sent>>

\* SELECT ... FOR UPDATE: waits for the row and locks it; a row that is not
\* there counts as an empty level and locks nothing.
LockLevel(r) ==
  LET c == Here(r).cell IN
  /\ pc[r] = "lock"
  /\ \/ /\ Sees(r, c)
        /\ holder[c] \in {NoReq, r}
        /\ holder' = [holder EXCEPT ![c] = r]
        /\ work' = [work EXCEPT ![r][c] = IF holder[c] = r THEN @ ELSE level[c]]
     \/ /\ ~ Sees(r, c)
        /\ work' = [work EXCEPT ![r][c] = 0]
        /\ UNCHANGED holder
  /\ pc' = [pc EXCEPT ![r] = "write"]
  /\ UNCHANGED <<stockVars, counter, doc, line, delta, sent>>

\* Mutant: the guard looks at the level before the movement.
RefusedLate(r) == work[r][Here(r).cell] < 0

\* Apply's negative-stock guard; nothing in the repository sets allowNegative.
Refused(r) == work[r][Here(r).cell] + Here(r).qty < 0

\* finish(err) of a transaction of its own: the error reaches the caller, and
\* the movements of earlier lines stay.
RefuseOwn(r) ==
  /\ pc[r] = "write"
  /\ Refused(r)
  /\ ~ Joined(doc[r])
  /\ Fail(r)

\* finish(err) of a joined transaction is nil: the line is dropped and the
\* caller goes on as if it had been posted.
RefuseJoined(r) ==
  /\ pc[r] = "write"
  /\ Refused(r)
  /\ Joined(doc[r])
  /\ Advance(r, "lock", "finish")
  /\ UNCHANGED <<stockVars, lockVars, txVars>>

(***************************************************************************)
(* The movement and the new level, in a transaction of its own.  The       *)
(* upsert waits for a row another transaction is inserting and then        *)
(* overwrites its quantity.                                                *)
(***************************************************************************)
WriteOwn(r) ==
  LET c == Here(r).cell
      q == Here(r).qty
  IN /\ pc[r] = "write"
     /\ ~ Refused(r)
     /\ ~ Joined(doc[r])
     /\ holder[c] \in {NoReq, r}
     /\ level' = [level EXCEPT ![c] = work[r][c] + q]
     /\ known' = known \cup {c}
     /\ booked' = [booked EXCEPT ![c] = @ + q]
     /\ moved' = [moved EXCEPT ![doc[r]][line[r]] = @ + 1]
     /\ holder' = [holder EXCEPT ![c] = NoReq]
     /\ UNCHANGED counter
     /\ \/ /\ Kind[doc[r]] = "movement" /\ LastLine(r)
           /\ status' = [status EXCEPT ![doc[r]] = "done"]
           /\ Answer(r)
        \/ /\ ~ (Kind[doc[r]] = "movement" /\ LastLine(r))
           /\ Advance(r, "lock", "finish")
           /\ UNCHANGED <<status, txVars>>

\* The same statements inside the caller's transaction.
WriteJoined(r) ==
  LET c == Here(r).cell
      q == Here(r).qty
  IN /\ pc[r] = "write"
     /\ ~ Refused(r)
     /\ Joined(doc[r])
     /\ holder[c] \in {NoReq, r}
     /\ holder' = [holder EXCEPT ![c] = r]
     /\ work' = [work EXCEPT ![r][c] = @ + q]
     /\ delta' = [delta EXCEPT ![r][c] = @ + q]
     /\ sent' = [sent EXCEPT ![r] = @ \cup {line[r]}]
     /\ Advance(r, "lock", "finish")
     /\ UNCHANGED <<stockVars, counter>>

-----------------------------------------------------------------------------
(* The end of a workflow. *)

\* Mutant: the flip is not conditional on the status that was read.
FlipsAlways(d) == d \in Docs

\* SetStatus and SetMOStatus: the transition table and the row version let one
\* request through.
Flips(d) == status[d] = "open"

\* SetStatus after the movements, in a transaction of its own.
FinishDirect(r) ==
  /\ pc[r] = "finish"
  /\ ~ Joined(doc[r])
  /\ status' = IF Flips(doc[r]) THEN [status EXCEPT ![doc[r]] = "done"] ELSE status
  /\ Answer(r)
  /\ UNCHANGED <<level, known, booked, moved, lockVars>>

\* The sale's row, or the flip of the order to produced, and COMMIT.
CommitJoined(r) ==
  LET d == doc[r]
      held == {c \in Cells : holder[c] = r}
  IN /\ pc[r] = "finish"
     /\ Joined(d)
     /\ Flips(d)
     /\ level' = [c \in Cells |-> IF c \in held THEN work[r][c] ELSE level[c]]
     /\ known' = known \cup held
     /\ booked' = [c \in Cells |-> booked[c] + delta[r][c]]
     /\ moved' = [moved EXCEPT ![d] =
          [i \in LineNos(d) |-> IF i \in sent[r] THEN @[i] + 1 ELSE @[i]]]
     /\ status' = [status EXCEPT ![d] = "done"]
     /\ Answer(r)
     /\ Release(r)

\* Another request produced or cancelled the order meanwhile.
RollbackJoined(r) ==
  /\ pc[r] = "finish"
  /\ Joined(doc[r])
  /\ ~ Flips(doc[r])
  /\ Fail(r)

\* A draft transfer, a validated shipment or an order in progress is cancelled.
Cancel(d) ==
  /\ Kind[d] \in {"direct", "produce"}
  /\ status[d] = "open"
  /\ status' = [status EXCEPT ![d] = "cancelled"]
  /\ UNCHANGED <<level, known, booked, moved, lockVars, pc, doc, line, txVars>>

-----------------------------------------------------------------------------
(* Failures. *)

\* The transaction r waits for, NoReq if it waits for none.
WaitsFor(r) ==
  CASE pc[r] = "counter" -> counter
    [] pc[r] = "lock" /\ Sees(r, Here(r).cell) /\ holder[Here(r).cell] # r
         -> holder[Here(r).cell]
    [] pc[r] = "write" /\ ~ Refused(r) /\ holder[Here(r).cell] # r
         -> holder[Here(r).cell]
    [] OTHER -> NoReq

\* r is on a cycle of transactions that wait for each other.
Deadlocked(r) ==
  \E ring \in SUBSET Reqs : r \in ring /\ {WaitsFor(s) : s \in ring} = ring

\* PostgreSQL aborts one of them.
AbortDeadlocked(r) ==
  /\ Deadlocked(r)
  /\ Fail(r)

\* The process, the connection or the request's context dies.
Crash(r) ==
  /\ pc[r] # "idle"
  /\ Fail(r)

\* What a request does once begun; Lock, Write and TakeCounter may have to wait.
Continue(r) ==
  \/ Check(r)
  \/ RefuseOwn(r)
  \/ RefuseJoined(r)
  \/ FinishDirect(r)
  \/ CommitJoined(r)
  \/ RollbackJoined(r)
  \/ AbortDeadlocked(r)

Next ==
  \/ \E r \in Reqs, d \in Docs : Begin(r, d)
  \/ \E r \in Reqs :
       \/ TakeCounter(r)
       \/ LockLevel(r)
       \/ WriteOwn(r)
       \/ WriteJoined(r)
       \/ Continue(r)
       \/ Crash(r)
  \/ \E d \in Docs : Cancel(d)

Spec == Init /\ [][Next]_vars

\* A request runs its next statement; PostgreSQL queues the waiters of a row in
\* order of arrival and breaks deadlocks.  Clients need not send anything.
Fairness ==
  \A r \in Reqs :
    /\ WF_vars(Continue(r))
    /\ SF_vars(TakeCounter(r))
    /\ SF_vars(LockLevel(r))
    /\ SF_vars(WriteOwn(r) \/ WriteJoined(r))

FairSpec == Spec /\ Fairness

-----------------------------------------------------------------------------
(* Properties. *)

\* A level row that exists is the sum of its movements, however many requests
\* of whatever kind update it (catalog/store.go:154-177).
KnownLevelIsSum == \A c \in Stocked : level[c] = booked[c]

\* The movement ledger never takes out what was not there, although checkout
\* and production check availability without a lock (catalog/domain.go:179).
NeverOversold == \A c \in Cells : booked[c] >= 0

\* Production is atomic against racing producers and cancellations: no movement
\* of an order that is not produced, none twice (manufacturing/service.go:15).
\* The same for a sale.
MovesWithItsFlip ==
  \A d \in Docs : Joined(d) =>
    \A i \in LineNos(d) :
      /\ moved[d][i] <= 1
      /\ moved[d][i] = 1 => status[d] = "done"

\* A transfer, shipment or reception is marked done only after every one of its
\* lines has been posted, by whichever requests (stocktransfer/service.go:59).
DoneMeansMoved ==
  \A d \in Docs : Kind[d] = "direct" /\ status[d] = "done" =>
    \A i \in LineNos(d) : moved[d][i] >= 1

\* Every request is answered: row locks are released on every path and circular
\* waits are broken.
RequestsFinish == \A r \in Reqs : pc[r] # "idle" ~> pc[r] = "idle"

-----------------------------------------------------------------------------
(* What the repository says of the code and the code does not do. *)

\* "The FOR UPDATE row lock serializes concurrent postings either way"
\* (catalog/store.go:147): every level is the sum of its movements.
LevelIsSum == level = booked

\* "validation posts stock atomically" (stocktransfer/service.go:19): racing
\* validations of one transfer move its goods once.
TransferMovesOnce ==
  \A d \in Docs : Kind[d] = "direct" =>
    \A i \in LineNos(d) : moved[d][i] <= 1
=============================================================================
