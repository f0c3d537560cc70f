---------------------------------- MODULE Till ----------------------------------
(***************************************************************************)
(* One session of a till (backend/internal/pos): sales at the counter, the *)
(* queue of sales that were taken offline and its replay, voids and        *)
(* returns, and the Z report that closes the session. A sale is one        *)
(* transaction (its invoice, payments, movement and row; Stock and Billing *)
(* have their detail); a return is a series of transactions. One product;  *)
(* the sales of a behaviour are of one size.                               *)
(***************************************************************************)
EXTENDS Integers, Sequences, FiniteSets

CONSTANTS
  Requests,     \* concurrent HTTP requests
  Keys,         \* idempotency keys of offline sales: the ids of their rows
  Counter,      \* the origin of a sale that comes from no queue row
  Sizes,        \* units a sale may be of
  InitialLevel, \* stock at the start
  UnitLimit     \* bound: units sold

VARIABLES
  saleQty, \* units of every sale
  session, \* "open" or "closed"
  zSales,  \* sales the Z report has counted
  level,   \* stock of the terminal's warehouse
  queue,   \* per key: the status of its row of ferp_pos_queue
  sales,   \* the sales in their order
  pc, work \* per request: the statement that comes next, what it has read

vars == <<saleQty, session, zSales, level, queue, sales, pc, work>>

NoWork == [todo |-> {}, sale |-> 0, qty |-> 0, full |-> FALSE]

ConstantsOK ==
  /\ IsFiniteSet(Requests)
  /\ Keys \subseteq Nat /\ Counter \notin Keys
  /\ Sizes \subseteq Nat \ {0} /\ InitialLevel \in Nat /\ UnitLimit \in Nat

TypeOK ==
  /\ saleQty \in Sizes
  /\ session \in {"open", "closed"} /\ zSales \in Nat /\ level \in Nat
  /\ queue \in [Keys -> {"none", "queued", "sent", "failed"}]
  /\ \A i \in 1 .. Len(sales) :
       sales[i] \in [origin : Keys \cup {Counter}, status : {"completed", "voided", "returned"},
                     credited : Nat, restocked : Nat]
  /\ pc \in [Requests -> {"idle", "ring", "replay", "replay ring", "credit", "restock", "mark"}]
  /\ \A r \in Requests :
       /\ work[r].todo \in SUBSET Keys /\ work[r].sale \in 0 .. Len(sales)
       /\ work[r].qty \in 0 .. saleQty /\ work[r].full \in BOOLEAN

Init ==
  /\ saleQty \in Sizes
  /\ session = "open"
  /\ zSales = 0
  /\ level = InitialLevel
  /\ queue = [k \in Keys |-> "none"]
  /\ sales = << >>
  /\ pc = [r \in Requests |-> "idle"]
  /\ work = [r \in Requests |-> NoWork]

Goto(r, label) == pc' = [pc EXCEPT ![r] = label]
Finish(r) == Goto(r, "idle") /\ work' = [work EXCEPT ![r] = NoWork]

-----------------------------------------------------------------------------
(* Checkout *)

Ringing == {r \in Requests : pc[r] \in {"ring", "replay ring"}}

\* What checkoutOn reads before it writes; the bound stands for its other
\* refusals (a product that is no longer sold, too little money).
Sellable ==
  /\ session = "open"
  /\ level >= saleQty
  /\ (Len(sales) + Cardinality(Ringing)) * saleQty < UnitLimit

\* The rest of checkoutOn. AppendMovement looks at the level again; a refusal
\* of a joined transaction is swallowed, and the sale commits without it.
Ring(origin) ==
  /\ sales' = Append(sales, [origin |-> origin, status |-> "completed",
                             credited |-> 0, restocked |-> 0])
  /\ level' = IF level >= saleQty THEN level - saleQty ELSE level

StartCheckout(r) ==
  /\ pc[r] = "idle"
  /\ Sellable
  /\ Goto(r, "ring")
  /\ UNCHANGED <<saleQty, session, zSales, level, queue, sales, work>>

CommitCheckout(r) ==
  /\ pc[r] = "ring"
  /\ Ring(Counter)
  /\ Finish(r)
  /\ UNCHANGED <<saleQty, session, zSales, queue>>

-----------------------------------------------------------------------------
(* The offline queue *)

\* Mutant: a retried sync puts its row back to queued.
StoredAgain(k) == "queued"

\* ON CONFLICT (entity_id, idempotency_key) DO NOTHING.
Stored(k) == IF queue[k] = "none" THEN "queued" ELSE queue[k]

\* The till sends a sale, as often as it likes; rows get their ids as they come.
EnqueueOffline(k) ==
  /\ \A l \in Keys : l < k => queue[l] # "none"
  /\ queue' = [queue EXCEPT ![k] = Stored(k)]
  /\ UNCHANGED <<saleQty, session, zSales, level, sales, pc, work>>

\* ReplayQueue lists the queued rows once, outside a transaction, and takes them
\* ORDER BY id.
ReplayQueue(r) ==
  /\ pc[r] = "idle"
  /\ LET queued == {k \in Keys : queue[k] = "queued"}
     IN queued # {} /\ work' = [work EXCEPT ![r] = [NoWork EXCEPT !.todo = queued]]
  /\ Goto(r, "replay")
  /\ UNCHANGED <<saleQty, session, zSales, level, queue, sales>>

Row(r) == CHOOSE k \in work[r].todo : \A l \in work[r].todo : k <= l

NextRow(r) ==
  IF work[r].todo = {Row(r)}
  THEN Finish(r)
  ELSE Goto(r, "replay") /\ work' = [work EXCEPT ![r].todo = @ \ {Row(r)}]

\* replayOne: checkoutOn reads, and goes on or fails; a failure marks the row,
\* whatever its status by now.
ReplayRead(r) ==
  /\ pc[r] = "replay"
  /\ IF Sellable
     THEN Goto(r, "replay ring") /\ UNCHANGED <<queue, work>>
     ELSE /\ queue' = [queue EXCEPT ![Row(r)] = "failed"]
          /\ NextRow(r)
  /\ UNCHANGED <<saleQty, session, zSales, level, sales>>

\* The sale and MarkQueue commit together; MarkQueue asks for no status.
ReplayCommit(r) ==
  /\ pc[r] = "replay ring"
  /\ Ring(Row(r))
  /\ queue' = [queue EXCEPT ![Row(r)] = "sent"]
  /\ NextRow(r)
  /\ UNCHANGED <<saleQty, session, zSales>>

-----------------------------------------------------------------------------
(* Voids, returns and the end of the session *)

\* UPDATE ... SET status=-1 WHERE status=1; the goods stay where they are.
VoidSale(i) ==
  /\ sales[i].status = "completed"
  /\ sales' = [sales EXCEPT ![i].status = "voided"]
  /\ UNCHANGED <<saleQty, session, zSales, level, queue, pc, work>>

\* Sold minus what the credit notes of the sale, drafts included, take back.
Remaining(i) == saleQty - sales[i].credited

\* ReturnSale reads the sale and its credits, ...
StartReturn(r, i, n) ==
  /\ pc[r] = "idle"
  /\ sales[i].status = "completed"
  /\ n <= Remaining(i)
  /\ work' = [work EXCEPT ![r] =
       [todo |-> {}, sale |-> i, qty |-> n, full |-> n = Remaining(i)]]
  /\ Goto(r, "credit")
  /\ UNCHANGED <<saleQty, session, zSales, level, queue, sales>>

\* ... creates the credit note (and validates it; the draft counts already), ...
CreateCredit(r) ==
  /\ pc[r] = "credit"
  /\ sales' = [sales EXCEPT ![work[r].sale].credited = @ + work[r].qty]
  /\ Goto(r, "restock")
  /\ UNCHANGED <<saleQty, session, zSales, level, queue, work>>

\* ... books the goods in, ...
Restock(r) ==
  /\ pc[r] = "restock"
  /\ level' = level + work[r].qty
  /\ sales' = [sales EXCEPT ![work[r].sale].restocked = @ + work[r].qty]
  /\ IF work[r].full THEN Goto(r, "mark") /\ UNCHANGED work ELSE Finish(r)
  /\ UNCHANGED <<saleQty, session, zSales, queue>>

\* ... and marks the sale, WHERE status=1.
MarkReturned(r) ==
  /\ pc[r] = "mark"
  /\ sales' = [sales EXCEPT ![work[r].sale].status = IF @ = "completed" THEN "returned" ELSE @]
  /\ Finish(r)
  /\ UNCHANGED <<saleQty, session, zSales, level, queue>>

\* CloseSession and the report, in one transaction.
ZReport ==
  /\ session = "open"
  /\ session' = "closed"
  /\ zSales' = Len(sales)
  /\ UNCHANGED <<saleQty, level, queue, sales, pc, work>>

\* The process dies or a statement fails: what has committed stays.
Crash(r) ==
  /\ pc[r] # "idle"
  /\ Finish(r)
  /\ UNCHANGED <<saleQty, session, zSales, level, queue, sales>>

Next ==
  \/ \E r \in Requests :
       \/ StartCheckout(r) \/ CommitCheckout(r)
       \/ ReplayQueue(r) \/ ReplayRead(r) \/ ReplayCommit(r)
       \/ \E i \in 1 .. Len(sales), n \in 1 .. saleQty : StartReturn(r, i, n)
       \/ CreateCredit(r) \/ Restock(r) \/ MarkReturned(r) \/ Crash(r)
  \/ \E k \in Keys : EnqueueOffline(k)
  \/ \E i \in 1 .. Len(sales) : VoidSale(i)
  \/ ZReport

Spec == Init /\ [][Next]_vars

-----------------------------------------------------------------------------
(* Properties *)

SalesOf(origin) == {i \in 1 .. Len(sales) : sales[i].origin = origin}

\* A queued row has rung no sale, a sent one has, however replays, retried
\* syncs and crashes interleave, and each replay in flight rings it once at most
\* (pos/session.go:81-134, pos/offline.go:147-176).
QueueTellsTheTruth == \A k \in Keys :
  /\ queue[k] \in {"none", "queued"} => SalesOf(k) = {}
  /\ queue[k] = "sent" => SalesOf(k) # {}
  /\ Cardinality(SalesOf(k)) <= Cardinality(Requests)

\* What is given back of a sale: never more goods than credit, and only racing
\* returns go beyond the sale, one sale's worth each. After the Z report come
\* only the sales that were under way (pos/handler.go:327-474,
\* pos/session.go:228-260).
ReturnsAndLateSalesAreBounded ==
  /\ \A i \in 1 .. Len(sales) :
       /\ sales[i].restocked <= sales[i].credited
       /\ sales[i].credited <= saleQty * Cardinality(Requests)
  /\ session = "closed" => Len(sales) <= zSales + Cardinality(Requests)

-----------------------------------------------------------------------------
(* What the repository says of the code and the code does not do. *)

\* "Idempotent on key: sent/failed rows are never re-drained, so a double
\* replay is a no-op" (pos/session.go:84-86).
ReplayedOnce == \A k \in Keys : Cardinality(SalesOf(k)) <= 1
=============================================================================
