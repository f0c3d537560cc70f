-------------------------------- MODULE Supplies --------------------------------
(***************************************************************************)
(* Paying suppliers (backend/internal/procurement): payments spread over   *)
(* supplier invoices, in one transaction each, while the invoices are      *)
(* moved by hand. The payments of a month share a counter row, which the   *)
(* transaction locks until it ends: what follows the counter is one action *)
(* with the COMMIT.                                                        *)
(***************************************************************************)
EXTENDS Integers, Sequences, FiniteSets, FiniteSetsExt

CONSTANTS
  Requests, \* concurrent HTTP requests
  Nobody,   \* the counter row is free
  Lost,     \* it is held by a transaction nobody will end
  Gross,    \* per invoice: its gross total
  Charges,  \* [invoices, amount] bodies of POST /procurement/payments
  PaymentLimit, MoveLimit \* bounds: payments, and moves of an invoice by hand

Invoices == DOMAIN Gross

ConstantsOK ==
  /\ Requests \cap {Nobody, Lost} = {}
  /\ Gross \in Seq(Nat \ {0})
  /\ \A c \in Charges : /\ c.invoices \in Seq(Invoices) /\ c.invoices # << >>
                         /\ c.amount \in Nat \ {0}
  /\ PaymentLimit \in Nat /\ MoveLimit \in Nat

VARIABLES
  status, version, \* per invoice
  byHand,    \* history, per invoice: its status was last written by SetStatus
  allocated, \* per invoice: the sum of its ferp_supplier_allocations
  payments,  \* committed payments in the order of their ids: [ref, amount]
  nextRef, counter, \* the counter row, and the transaction that holds it
  pc, work   \* per request: the statement that comes next, what it has read

vars == <<status, version, byHand, allocated, payments, nextRef, counter, pc, work>>

NoWork == [todo |-> << >>, left |-> 0, amount |-> 0, gets |-> [i \in Invoices |-> 0],
           read |-> [i \in Invoices |-> 0], twice |-> FALSE,
           invoice |-> 0, to |-> "none", version |-> 0]

TypeOK ==
  /\ status \in [Invoices -> {"draft", "validated", "part_paid", "paid", "canceled"}]
  /\ version \in [Invoices -> 1 .. MoveLimit + 1]
  /\ byHand \in [Invoices -> BOOLEAN]
  /\ allocated \in [Invoices -> Nat]
  /\ payments \in Seq([ref : Nat, amount : Nat])
  /\ nextRef \in Nat
  /\ counter \in Requests \cup {Nobody, Lost}
  /\ pc \in [Requests -> {"idle", "balance", "number", "insert", "move"}]

Init ==
  /\ status = [i \in Invoices |-> "draft"]
  /\ version = [i \in Invoices |-> 1]
  /\ byHand = [i \in Invoices |-> TRUE]
  /\ allocated = [i \in Invoices |-> 0]
  /\ payments = << >>
  /\ nextRef = 1 /\ counter = Nobody
  /\ pc = [r \in Requests |-> "idle"]
  /\ work = [r \in Requests |-> NoWork]

Goto(r, label) == pc' = [pc EXCEPT ![r] = label]
Finish(r) == Goto(r, "idle") /\ work' = [work EXCEPT ![r] = NoWork]
Release(r) == counter' = IF counter = r THEN Nobody ELSE counter

-----------------------------------------------------------------------------
(* RecordPayment *)

StartPay(r, c) ==
  /\ pc[r] = "idle"
  /\ Len(payments) < PaymentLimit
  /\ work' = [work EXCEPT ![r].todo = c.invoices, ![r].left = c.amount, ![r].amount = c.amount]
  /\ Goto(r, "balance")
  /\ UNCHANGED <<status, version, byHand, allocated, payments, nextRef, counter>>

\* Invoice by invoice, whatever its status; one that is settled is refused, and
\* so is what AllocateAcross has left at the end.
ReadBalance(r) ==
  LET i == Head(work[r].todo)
      balance == Gross[i] - allocated[i]
      takes == Min({balance, work[r].left})
      last == Len(work[r].todo) = 1
  IN /\ pc[r] = "balance"
     /\ IF balance <= 0 \/ (last /\ takes < work[r].left)
        THEN Finish(r)
        ELSE /\ work' = [work EXCEPT ![r].todo = Tail(@), ![r].left = @ - takes,
                                     ![r].gets[i] = @ + takes, ![r].read[i] = allocated[i],
                                     ![r].twice = @ \/ (work[r].gets[i] > 0 /\ takes > 0)]
             /\ Goto(r, IF last THEN "number" ELSE "balance")
     /\ UNCHANGED <<status, version, byHand, allocated, payments, nextRef, counter>>

TakeNumber(r) ==
  /\ pc[r] = "number"
  /\ counter = Nobody
  /\ counter' = r
  /\ Goto(r, "insert")
  /\ UNCHANGED <<status, version, byHand, allocated, payments, nextRef, work>>

\* The payment names a supplier that does not exist: the error is returned
\* without finish, and the transaction stays as it is.
FailInsert(r) ==
  /\ pc[r] = "insert"
  /\ counter' = Lost
  /\ Finish(r)
  /\ UNCHANGED <<status, version, byHand, allocated, payments, nextRef>>

\* Mutant: the allocations that were there before the counter was taken count.
AllocatedAsRead(r, i) == work[r].read[i] + work[r].gets[i]

\* The sum of the allocations, this payment's included, read behind the counter.
AllocatedNow(r, i) == allocated[i] + work[r].gets[i]

\* A payment has one allocation per invoice: of two the second is refused, and the
\* transaction aborts.
CommitPayment(r) ==
  LET paidNow == {i \in Invoices : work[r].gets[i] > 0}
  IN /\ pc[r] = "insert" /\ ~work[r].twice
     /\ payments' = Append(payments, [ref |-> nextRef, amount |-> work[r].amount])
     /\ nextRef' = nextRef + 1
     /\ allocated' = [i \in Invoices |-> allocated[i] + work[r].gets[i]]
     /\ status' = [i \in Invoices |->
          IF i \notin paidNow THEN status[i]
          ELSE IF AllocatedNow(r, i) >= Gross[i] THEN "paid" ELSE "part_paid"]
     /\ byHand' = [i \in Invoices |-> i \notin paidNow /\ byHand[i]]
     /\ Release(r)
     /\ Finish(r)
     /\ UNCHANGED version

-----------------------------------------------------------------------------
(* SetStatus *)

CanTransition(i, to) ==
  \/ status[i] = "draft" /\ to \in {"validated", "canceled"}
  \/ status[i] = "validated" /\ to \in {"part_paid", "paid", "canceled"}
  \/ status[i] = "part_paid" /\ to \in {"paid", "canceled"}

StartMove(r, i, to) ==
  /\ pc[r] = "idle"
  /\ version[i] <= MoveLimit
  /\ CanTransition(i, to)
  /\ work' = [work EXCEPT ![r].invoice = i, ![r].to = to, ![r].version = version[i]]
  /\ Goto(r, "move")
  /\ UNCHANGED <<status, version, byHand, allocated, payments, nextRef, counter>>

\* A payment leaves the row version alone, and so does not stop a move.
WriteMove(r) ==
  LET i == work[r].invoice
  IN /\ pc[r] = "move"
     /\ IF version[i] = work[r].version
        THEN /\ status' = [status EXCEPT ![i] = work[r].to]
             /\ version' = [version EXCEPT ![i] = @ + 1]
             /\ byHand' = [byHand EXCEPT ![i] = TRUE]
        ELSE UNCHANGED <<status, version, byHand>>
     /\ Finish(r)
     /\ UNCHANGED <<allocated, payments, nextRef, counter>>

-----------------------------------------------------------------------------
\* The client gives up or a statement fails: the transaction rolls back.
Abort(r) ==
  /\ pc[r] # "idle"
  /\ Release(r)
  /\ Finish(r)
  /\ UNCHANGED <<status, version, byHand, allocated, payments, nextRef>>

\* A restart of the process ends the lost transaction too.
Restart ==
  /\ counter' = Nobody
  /\ pc' = [r \in Requests |-> "idle"]
  /\ work' = [r \in Requests |-> NoWork]
  /\ UNCHANGED <<status, version, byHand, allocated, payments, nextRef>>

Next ==
  \/ Restart
  \/ \E r \in Requests :
       \/ \E c \in Charges : StartPay(r, c)
       \/ ReadBalance(r) \/ TakeNumber(r) \/ FailInsert(r) \/ CommitPayment(r)
       \/ \E i \in Invoices, to \in {"validated", "part_paid", "paid", "canceled"} :
            StartMove(r, i, to)
       \/ WriteMove(r) \/ Abort(r)

Spec == Init /\ [][Next]_vars

-----------------------------------------------------------------------------
(* Properties *)

\* Payments are numbered without a gap, through aborts and lost transactions,
\* and add up to the allocations; an invoice whose status a payment wrote last is
\* paid exactly when its allocations reach its total, however payments overlap
\* (procurement/store.go:237-308).
SuppliersArePaid ==
  /\ \A n \in DOMAIN payments : payments[n].ref = n
  /\ MapThenSumSet(LAMBDA n : payments[n].amount, DOMAIN payments)
       = MapThenSumSet(LAMBDA i : allocated[i], Invoices)
  /\ \A i \in Invoices : ~byHand[i] =>
       status[i] = IF allocated[i] >= Gross[i] THEN "paid" ELSE "part_paid"

-----------------------------------------------------------------------------
(* What the repository says of the code and the code does not do. *)

\* "Call finish exactly once" (platform/dbtx.go:26): procurement/store.go:282
\* returns without it.
NothingIsLost == counter # Lost
=============================================================================
