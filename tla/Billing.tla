-------------------------------- MODULE Billing --------------------------------
(***************************************************************************)
(* Customer billing of one entity (backend/internal/sales): editing,       *)
(* validating and cancelling invoices and credit notes, payments spread    *)
(* over several invoices, credit notes cloned from invoices and applied to *)
(* them.  Concurrent requests against PostgreSQL at READ COMMITTED; the    *)
(* payments of one month, which share a reference counter.                 *)
(*                                                                         *)
(* One action is one SQL statement that reads what another request may     *)
(* change.  What follows the counter in a payment is one action with its   *)
(* COMMIT: payments queue on the counter row, edits wait for the KEY SHARE *)
(* lock an allocation takes on its invoice, and a status update that waits *)
(* for the row comes after the COMMIT.                                     *)
(***************************************************************************)
EXTENDS Integers, Sequences, FiniteSetsExt

CONSTANTS
  Reqs,         \* concurrent requests
  NoReq,        \* nobody: the counter row is free
  Invoices,     \* ferp_documents rows of type invoice, created as drafts
  Notes,        \* ferp_documents rows of type credit_note, not created yet
  NoteOf,       \* NoteOf[n]: the invoice credit note n is cloned from
  Price,        \* Price[i]: the gross total invoice i is created with
  Amounts,      \* gross totals an edit may leave
  Charges,      \* [invs, amount] bodies of POST /payments, invs without repetition
  Credits,      \* [note, inv, amount] bodies of POST /credit-notes/{id}/apply
  Moves,        \* [doc, to] status changes clients ask for
  NoJob,        \* the job of an idle request
  PaymentLimit, \* bound: payments in the book when another is requested
  VersionLimit  \* bound: row_version up to which a draft is edited

Docs == Invoices \cup Notes

Statuses == {"draft", "validated", "part_paid", "paid", "cancelled"}

ASSUME BillingAssumption ==
  /\ NoReq \notin Reqs
  /\ IsFiniteSet(Invoices)
  /\ Invoices \cap Notes = {}
  /\ NoteOf \in [Notes -> Invoices]
  /\ Price \in [Invoices -> Nat \ {0}]
  /\ Amounts \subseteq Nat \ {0}
  /\ Charges \subseteq [invs : Seq(Invoices), amount : Nat \ {0}]
  /\ \A c \in Charges :
       /\ c.invs # << >>
       /\ \A i, j \in 1 .. Len(c.invs) : c.invs[i] = c.invs[j] => i = j
  /\ Credits \subseteq [note : Notes, inv : Invoices, amount : Nat \ {0}]
  /\ Moves \subseteq [doc : Docs, to : Statuses]
  /\ NoJob \notin Charges \cup Credits \cup Moves \cup Notes
  /\ PaymentLimit \in Nat
  /\ VersionLimit \in Nat

VARIABLES
  status,   \* per document: its status, "absent" before it is created
  total,    \* per document: total_gross
  version,  \* per document: row_version
  payments, \* ferp_payments rows in id order, with their allocations
  paid,     \* per invoice: the sum of its ferp_payment_allocations
  credited, \* per invoice and note: ferp_credit_allocations.amount, 0 for no row
  nextRef,  \* committed next_seq of the month's payment counter
  counter,  \* the transaction that holds the counter row
  pc,       \* per request: the statement it runs next
  job,      \* per request: the body it works on
  seen,     \* per request: version and total of the document it read first
  todo,     \* per request: the invoices whose balance a payment has yet to read
  bal,      \* per request: the invoice balance being added up
  gets,     \* per request: what each invoice gets from the payment
  left,     \* per request: what is left of the payment's amount
  number    \* per request: the payment reference its transaction took

docVars == <<status, total, version>>
payVars == <<counter, todo, gets, left, number>>
bookVars == <<payments, paid, credited, nextRef>>
vars == <<status, total, version, payments, paid, credited, nextRef, counter,
          pc, job, seen, todo, bal, gets, left, number>>

Payment == [amount : Nat, ref : Nat, applied : [Invoices -> Nat]]

\* The statement a request runs next.
Steps == {"idle", "move", "clone", "gross", "paid", "ref", "commit",
          "credit_gross", "credit_paid", "credit_sum", "credit_apply"}

TypeOK ==
  /\ status \in [Docs -> Statuses \cup {"absent"}]
  /\ total \in [Docs -> Nat]
  /\ version \in [Docs -> Nat]
  /\ payments \in Seq(Payment)
  /\ paid \in [Invoices -> Nat]
  /\ credited \in [Invoices -> [Notes -> Nat]]
  /\ nextRef \in Nat
  /\ counter \in Reqs \cup {NoReq}
  /\ pc \in [Reqs -> Steps]
  /\ job \in [Reqs -> Charges \cup Credits \cup Moves \cup Notes \cup {NoJob}]
  /\ seen \in [Reqs -> [version : Nat, total : Nat]]
  /\ todo \in [Reqs -> Seq(Invoices)]
  /\ bal \in [Reqs -> Int]
  /\ gets \in [Reqs -> [Invoices -> Nat]]
  /\ left \in [Reqs -> Nat]
  /\ number \in [Reqs -> Nat]

Unread == [version |-> 0, total |-> 0]
Nothing == [i \in Invoices |-> 0]

Init ==
  /\ status = [d \in Docs |-> IF d \in Invoices THEN "draft" ELSE "absent"]
  /\ total = [d \in Docs |-> IF d \in Invoices THEN Price[d] ELSE 0]
  /\ version = [d \in Docs |-> IF d \in Invoices THEN 1 ELSE 0]
  /\ payments = << >>
  /\ paid = Nothing
  /\ credited = [i \in Invoices |-> [n \in Notes |-> 0]]
  /\ nextRef = 1
  /\ counter = NoReq
  /\ pc = [r \in Reqs |-> "idle"]
  /\ job = [r \in Reqs |-> NoJob]
  /\ seen = [r \in Reqs |-> Unread]
  /\ todo = [r \in Reqs |-> << >>]
  /\ bal = [r \in Reqs |-> 0]
  /\ gets = [r \in Reqs |-> Nothing]
  /\ left = [r \in Reqs |-> 0]
  /\ number = [r \in Reqs |-> 0]

-----------------------------------------------------------------------------
(* Requests. *)

Begin(r, body, first) ==
  /\ pc[r] = "idle"
  /\ pc' = [pc EXCEPT ![r] = first]
  /\ job' = [job EXCEPT ![r] = body]

Goto(r, from, to) ==
  /\ pc[r] = from
  /\ pc' = [pc EXCEPT ![r] = to]
  /\ UNCHANGED job

\* The request is answered; COMMIT or ROLLBACK frees the counter row.
Answer(r) ==
  /\ pc' = [pc EXCEPT ![r] = "idle"]
  /\ job' = [job EXCEPT ![r] = NoJob]
  /\ seen' = [seen EXCEPT ![r] = Unread]
  /\ todo' = [todo EXCEPT ![r] = << >>]
  /\ bal' = [bal EXCEPT ![r] = 0]
  /\ gets' = [gets EXCEPT ![r] = Nothing]
  /\ left' = [left EXCEPT ![r] = 0]
  /\ number' = [number EXCEPT ![r] = 0]
  /\ counter' = IF counter = r THEN NoReq ELSE counter

Fail(r) == Answer(r) /\ UNCHANGED <<docVars, bookVars>>

Reads(r, d) ==
  seen' = [seen EXCEPT ![r] = [version |-> version[d], total |-> total[d]]]

-----------------------------------------------------------------------------
(* Documents. *)

\* Mutant: a validated credit note may be cancelled.
CancelAfterValidation(d, to) ==
  \/ status[d] = "draft" /\ to \in {"validated", "cancelled"}
  \/ status[d] = "validated" /\ to = "cancelled"
  \/ d \in Invoices /\ status[d] = "validated" /\ to \in {"part_paid", "paid", "cancelled"}
  \/ d \in Invoices /\ status[d] = "part_paid" /\ to \in {"paid", "cancelled"}

\* Transitions, the kernel's table for invoices and credit notes.
CanTransition(d, to) ==
  \/ status[d] = "draft" /\ to \in {"validated", "cancelled"}
  \/ d \in Invoices /\ status[d] = "validated" /\ to \in {"part_paid", "paid", "cancelled"}
  \/ d \in Invoices /\ status[d] = "part_paid" /\ to \in {"paid", "cancelled"}

\* SetStatus reads the document and checks the move.
BeginMove(r, m) ==
  /\ CanTransition(m.doc, m.to)
  /\ Begin(r, m, "move")
  /\ Reads(r, m.doc)
  /\ UNCHANGED <<docVars, bookVars, payVars, bal>>

\* Mutant: the update is not conditional on the row version.
AnyVersion(r) == pc[r] = "move"

SameVersion(r) == version[job[r].doc] = seen[r].version

\* UPDATE ... WHERE row_version = the version read, or a version conflict.
WriteMove(r) ==
  /\ pc[r] = "move"
  /\ \/ /\ SameVersion(r)
        /\ status' = [status EXCEPT ![job[r].doc] = job[r].to]
        /\ version' = [version EXCEPT ![job[r].doc] = @ + 1]
        /\ Answer(r)
        /\ UNCHANGED <<total, bookVars>>
     \/ /\ ~ SameVersion(r)
        /\ Fail(r)

\* Mutant: the lines of a document can be replaced whatever its status.
EditAnyStatus(d, amount) ==
  /\ status[d] # "absent"
  /\ version[d] < VersionLimit
  /\ total' = [total EXCEPT ![d] = amount]
  /\ version' = [version EXCEPT ![d] = @ + 1]
  /\ UNCHANGED <<status, bookVars, payVars, pc, job, seen, bal>>

\* UpdateDocLines: the status under FOR UPDATE, the new lines and totals.
Edit(d, amount) ==
  /\ status[d] = "draft"
  /\ version[d] < VersionLimit
  /\ total' = [total EXCEPT ![d] = amount]
  /\ version' = [version EXCEPT ![d] = @ + 1]
  /\ UNCHANGED <<status, bookVars, payVars, pc, job, seen, bal>>

\* CreateCreditNote reads the invoice, whatever its status ...
BeginClone(r, n) ==
  /\ status[n] = "absent"
  /\ \A s \in Reqs : job[s] # n
  /\ Begin(r, n, "clone")
  /\ Reads(r, NoteOf[n])
  /\ UNCHANGED <<docVars, bookVars, payVars, bal>>

\* ... and creates a draft with its lines.
CreateNote(r) ==
  /\ pc[r] = "clone"
  /\ status' = [status EXCEPT ![job[r]] = "draft"]
  /\ total' = [total EXCEPT ![job[r]] = seen[r].total]
  /\ version' = [version EXCEPT ![job[r]] = 1]
  /\ Answer(r)
  /\ UNCHANGED bookVars

-----------------------------------------------------------------------------
(* RecordPayment. *)

BeginPay(r, c) ==
  /\ Len(payments) < PaymentLimit
  /\ Begin(r, c, "gross")
  /\ todo' = [todo EXCEPT ![r] = c.invs]
  /\ left' = [left EXCEPT ![r] = c.amount]
  /\ UNCHANGED <<docVars, bookVars, counter, seen, bal, gets, number>>

\* SELECT total_gross: neither the status nor a lock is looked at.
ReadGross(r) ==
  /\ Goto(r, "gross", "paid")
  /\ bal' = [bal EXCEPT ![r] = total[Head(todo[r])]]
  /\ UNCHANGED <<docVars, bookVars, payVars, seen>>

Settled(balance) == balance <= 0

\* Mutant: an invoice is given its whole balance when less is left.
WholeBalance(balance, rest) == IF rest > 0 THEN balance ELSE 0

\* AllocateAcross: what an invoice takes of the rest of the amount ...
Takes(balance, rest) == IF rest >= balance THEN balance ELSE rest

\* ... and what remains for the next.
RestAfter(balance, rest) == IF rest >= balance THEN rest - balance ELSE 0

(***************************************************************************)
(* SELECT SUM(amount) of the allocations, not of the credits; a settled    *)
(* invoice is refused.  AllocateAcross runs when all balances are read, on *)
(* nothing but them: here each invoice takes its part at once.  An         *)
(* unapplied rest is refused: "overpayment refused".                       *)
(***************************************************************************)
ReadPaid(r) ==
  LET i == Head(todo[r])
      balance == bal[r] - paid[i]
      rest == RestAfter(balance, left[r])
      last == Len(todo[r]) = 1
      refused == Settled(balance) \/ (last /\ rest # 0)
  IN /\ pc[r] = "paid"
     /\ \/ /\ ~ refused
           /\ Goto(r, "paid", IF last THEN "ref" ELSE "gross")
           /\ todo' = [todo EXCEPT ![r] = Tail(@)]
           /\ bal' = [bal EXCEPT ![r] = 0]
           /\ gets' = [gets EXCEPT ![r][i] = Takes(balance, left[r])]
           /\ left' = [left EXCEPT ![r] = rest]
           /\ UNCHANGED <<docVars, bookVars, counter, seen, number>>
        \/ /\ refused
           /\ Fail(r)

\* Mutant: the counter is bumped in a transaction of its own.
TakeRefAlone(r) ==
  /\ Goto(r, "ref", "commit")
  /\ number' = [number EXCEPT ![r] = nextRef]
  /\ nextRef' = nextRef + 1
  /\ UNCHANGED <<docVars, payments, paid, credited, counter, seen, todo, bal, gets, left>>

\* The counter row stays locked until the transaction ends.
TakeRef(r) ==
  /\ counter = NoReq
  /\ Goto(r, "ref", "commit")
  /\ counter' = r
  /\ number' = [number EXCEPT ![r] = nextRef]
  /\ UNCHANGED <<docVars, bookVars, seen, todo, bal, gets, left>>

\* The status an allocation leaves: totals and allocations are read again.
StatusAfter(r, i) ==
  IF paid[i] + gets[r][i] >= total[i] THEN "paid" ELSE "part_paid"

\* The payment, its allocations, the new statuses (whatever the old ones, with
\* the row version left alone) and COMMIT.
CommitPayment(r) ==
  /\ pc[r] = "commit"
  /\ payments' = Append(payments,
       [amount |-> job[r].amount, ref |-> number[r], applied |-> gets[r]])
  /\ nextRef' = number[r] + 1
  /\ paid' = [i \in Invoices |-> paid[i] + gets[r][i]]
  /\ status' = [d \in Docs |->
       IF d \in Invoices /\ gets[r][d] > 0 THEN StatusAfter(r, d) ELSE status[d]]
  /\ Answer(r)
  /\ UNCHANGED <<total, version, credited>>

-----------------------------------------------------------------------------
(* ApplyCredit: no transaction, every statement commits by itself. *)

\* The note must be validated; its total is remembered.
BeginCredit(r, c) ==
  /\ status[c.note] = "validated"
  /\ Begin(r, c, "credit_gross")
  /\ Reads(r, c.note)
  /\ UNCHANGED <<docVars, bookVars, payVars, bal>>

\* InvoiceBalance: the gross total, less the payments, less the credits.
CreditGross(r) ==
  /\ Goto(r, "credit_gross", "credit_paid")
  /\ bal' = [bal EXCEPT ![r] = total[job[r].inv]]
  /\ UNCHANGED <<docVars, bookVars, payVars, seen>>

CreditPaid(r) ==
  /\ Goto(r, "credit_paid", "credit_sum")
  /\ bal' = [bal EXCEPT ![r] = @ - paid[job[r].inv]]
  /\ UNCHANGED <<docVars, bookVars, payVars, seen>>

CreditSum(r) ==
  LET c == job[r]
      open == bal[r] - MapThenSumSet(LAMBDA n : credited[c.inv][n], Notes)
  IN /\ pc[r] = "credit_sum"
     /\ \/ /\ c.amount <= open /\ c.amount <= seen[r].total
           /\ Goto(r, "credit_sum", "credit_apply")
           /\ UNCHANGED <<docVars, bookVars, payVars, seen, bal>>
        \/ /\ c.amount > open \/ c.amount > seen[r].total
           /\ Fail(r)

\* The upsert adds to what the note has already given this invoice.
CreditApply(r) ==
  /\ pc[r] = "credit_apply"
  /\ credited' = [credited EXCEPT ![job[r].inv][job[r].note] = @ + job[r].amount]
  /\ Answer(r)
  /\ UNCHANGED <<docVars, payments, paid, nextRef>>

-----------------------------------------------------------------------------
Crash(r) == pc[r] # "idle" /\ Fail(r)

Request(r) ==
  \/ \E m \in Moves : BeginMove(r, m)
  \/ \E n \in Notes : BeginClone(r, n)
  \/ \E c \in Charges : BeginPay(r, c)
  \/ \E c \in Credits : BeginCredit(r, c)

Continue(r) ==
  \/ WriteMove(r)
  \/ CreateNote(r)
  \/ ReadGross(r)
  \/ ReadPaid(r)
  \/ CommitPayment(r)
  \/ CreditGross(r)
  \/ CreditPaid(r)
  \/ CreditSum(r)
  \/ CreditApply(r)

Next ==
  \/ \E r \in Reqs : Request(r) \/ TakeRef(r) \/ Continue(r) \/ Crash(r)
  \/ \E d \in Docs, amount \in Amounts : Edit(d, amount)

Spec == Init /\ [][Next]_vars

-----------------------------------------------------------------------------
(* Properties. *)

\* A document is validated with the lines the validating request read and
\* answers with, although edits race with it (store.go:179-198, 235).
ValidatedAsRead ==
  [][\A d \in Docs : status[d] = "draft" /\ status'[d] = "validated" =>
       \E r \in Reqs :
         /\ pc[r] = "move" /\ pc'[r] = "idle"
         /\ job[r].doc = d
         /\ seen[r].total = total'[d]]_vars

\* Payment references have neither gaps nor repetitions, although payments race,
\* fail and die half way (store.go:278-285).
RefsGapless ==
  /\ \A i \in 1 .. Len(payments) : payments[i].ref = i
  /\ nextRef = Len(payments) + 1

\* The money of the payments is on the invoices, none of it lost or made up,
\* although balances change between being read and being used
\* (domain.go:129-150, store.go:254-294).
MoneyConserved ==
  MapThenSumSet(LAMBDA i : paid[i], Invoices)
    = MapThenSumSet(LAMBDA k : payments[k].amount, 1 .. Len(payments))

\* An invoice the system marks as paid has its total in payments, although the
\* total may be edited while the payment is on its way (store.go:303-313).
\* Clients may also ask for "paid"; Moves leaves that out where this is checked.
PaidIsCovered ==
  \A i \in Invoices : status[i] = "paid" => paid[i] >= total[i]

\* Credit is only ever given by notes that are validated now, although the note
\* is checked four statements before (store.go:342-366).
CreditsFromValidatedNotes ==
  \A i \in Invoices : \A n \in Notes :
    credited[i][n] > 0 => status[n] = "validated"

-----------------------------------------------------------------------------
(* What the repository says of the code and the code does not do. *)

\* "Overpayments refused (422)" (docs/DIFFERENCES.md:29): an invoice never
\* has more in payments than its total.
NeverOverpaid == \A i \in Invoices : paid[i] <= total[i]
=============================================================================
