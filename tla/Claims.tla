--------------------------------- MODULE Claims ---------------------------------
(***************************************************************************)
(* Expense claims (backend/internal/hr): requests add lines to a draft,    *)
(* move the claim along its states and pay it. Paying flips the claim,     *)
(* posts its total to the ledger and stages EXPENSE_PAID in the outbox, in *)
(* one transaction; everything else commits statement by statement.        *)
(***************************************************************************)
EXTENDS Outbox

CONSTANTS
  Requests,  \* concurrent HTTP requests
  Nobody,    \* a row nobody has locked
  Claims,    \* expense reports, numbers
  First,     \* First[c]: the status claim c starts with
  LineLimit  \* bound: lines of a claim

Statuses == {"draft", "submitted", "approved", "paid", "rejected", "canceled"}

ClaimsOK ==
  /\ Nobody \notin Requests
  /\ IsFiniteSet(Claims) /\ Claims \subseteq Nat /\ First \in [Claims -> Statuses]

VARIABLES
  status, version, \* per claim
  total,           \* per claim: the total of the header
  lines,           \* per claim: the sum of its lines
  entries,         \* ledger entries EXP-ref, committed
  pc,              \* per request: the statement that comes next
  work,            \* per request: the claim, what it asks for and what it has read
  lock,            \* per claim: the paying transaction that has updated its row
  nextId           \* the sequence of ferp_outbox

claimVars == <<status, version, total, lines, entries, pc, work, lock, nextId>>
vars == <<claimVars, outboxVars>>

Asks(c, to, v) == [claim |-> c, to |-> to, version |-> v, total |-> 0, id |-> 0]
NoWork == Asks(-1, "draft", 0)

TypeOK ==
  /\ OutboxType
  /\ status \in [Claims -> Statuses]
  /\ {version, total, lines} \subseteq [Claims -> Nat]
  /\ entries \subseteq [claim : Claims, amount : Nat]
  /\ pc \in [Requests -> {"idle", "set", "insert", "sum", "flip", "commit"}]
  /\ work \in [Requests -> [claim : Claims \cup {-1}, to : Statuses, version : Nat,
                            total : Nat, id : Nat]]
  /\ lock \in [Claims -> Requests \cup {Nobody}]
  /\ nextId \in Nat

\* A claim paid before the start: its event waits for the relay.
PaidFirst == {c \in Claims : First[c] = "paid"}

Init ==
  /\ OutboxInit
  /\ \E ids \in Injection(PaidFirst, 0 .. Cardinality(PaidFirst) - 1) :
       outbox = {[id |-> ids[c], object |-> c, delivered |-> FALSE] : c \in PaidFirst}
  /\ status = First
  /\ version = [c \in Claims |-> 1]
  /\ lines = [c \in Claims |-> IF First[c] = "draft" THEN 0 ELSE 1]
  /\ total = lines
  /\ entries = {[claim |-> c, amount |-> lines[c]] : c \in PaidFirst}
  /\ pc = [r \in Requests |-> "idle"]
  /\ work = [r \in Requests |-> NoWork]
  /\ lock = [c \in Claims |-> Nobody]
  /\ nextId = Cardinality(PaidFirst)

Goto(r, label) == pc' = [pc EXCEPT ![r] = label]
Finish(r) == Goto(r, "idle") /\ work' = [work EXCEPT ![r] = NoWork]

CanTransition(from, to) ==
  \/ from = "draft" /\ to \in {"submitted", "canceled"}
  \/ from = "submitted" /\ to \in {"approved", "rejected", "canceled"}
  \/ from = "approved" /\ to \in {"paid", "canceled"}

-----------------------------------------------------------------------------
(* Lines *)

\* AddExpenseLine reads the status, ...
StartLine(r, c) ==
  /\ pc[r] = "idle"
  /\ status[c] = "draft"
  /\ lines[c] < LineLimit
  /\ work' = [work EXCEPT ![r] = Asks(c, "draft", 0)]
  /\ Goto(r, "insert")
  /\ UNCHANGED <<status, version, total, lines, entries, lock, nextId, outboxVars>>

\* ... inserts the line, which locks nothing, ...
InsertLine(r) ==
  /\ pc[r] = "insert"
  /\ lines' = [lines EXCEPT ![work[r].claim] = @ + 1]
  /\ Goto(r, "sum")
  /\ UNCHANGED <<status, version, total, entries, work, lock, nextId, outboxVars>>

\* ... and sums the lines into the header, whatever its status is by now. The
\* row version stays. A transaction that has updated the row is waited for.
SumLines(r) ==
  /\ pc[r] = "sum"
  /\ LET c == work[r].claim
     IN /\ lock[c] = Nobody
        /\ total' = [total EXCEPT ![c] = lines[c]]
  /\ Finish(r)
  /\ UNCHANGED <<status, version, lines, entries, lock, nextId, outboxVars>>

-----------------------------------------------------------------------------
(* Status changes *)

\* SetExpenseStatus reads the row. The client sends the version it has seen;
\* an older one is refused here, which changes nothing.
StartStatus(r, c, to) ==
  /\ pc[r] = "idle"
  /\ CanTransition(status[c], to)
  /\ work' = [work EXCEPT ![r] = Asks(c, to, version[c])]
  /\ Goto(r, "set")
  /\ UNCHANGED <<status, version, total, lines, entries, lock, nextId, outboxVars>>

\* Mutant: the update does not compare the row version.
SameVersionAlways(r) == TRUE

SameVersion(r) == version[work[r].claim] = work[r].version

\* UPDATE ... WHERE row_version; "paid" is a status like the others here.
WriteStatus(r) ==
  /\ pc[r] = "set"
  /\ LET c == work[r].claim
     IN /\ lock[c] = Nobody
        /\ IF SameVersion(r)
           THEN /\ status' = [status EXCEPT ![c] = work[r].to]
                /\ version' = [version EXCEPT ![c] = @ + 1]
           ELSE UNCHANGED <<status, version>>
  /\ Finish(r)
  /\ UNCHANGED <<total, lines, entries, lock, nextId, outboxVars>>

-----------------------------------------------------------------------------
(* Paying *)

\* Pay opens its transaction and reads the row.
StartPay(r, c) ==
  /\ pc[r] = "idle"
  /\ status[c] = "approved"
  /\ work' = [work EXCEPT ![r] = Asks(c, "paid", version[c])]
  /\ Goto(r, "flip")
  /\ UNCHANGED <<status, version, total, lines, entries, lock, nextId, outboxVars>>

\* The flip locks the row, so what follows in the transaction (ExpenseTotal,
\* PostEntry and EmitEvent) sees nobody else's update of it. A version conflict
\* rolls back.
FlipPaid(r) ==
  /\ pc[r] = "flip"
  /\ LET c == work[r].claim
     IN /\ lock[c] = Nobody
        /\ IF SameVersion(r)
           THEN /\ lock' = [lock EXCEPT ![c] = r]
                /\ work' = [work EXCEPT ![r] = [claim |-> c, to |-> "paid", total |-> total[c],
                                                version |-> version[c], id |-> nextId]]
                /\ nextId' = nextId + 1
                /\ Goto(r, "commit")
           ELSE /\ Finish(r)
                /\ UNCHANGED <<lock, nextId>>
  /\ UNCHANGED <<status, version, total, lines, entries, outboxVars>>

\* PostEntry has joined the transaction: a refusal of its own (a locked year)
\* comes back as success and the payment commits without an entry; every other
\* error rolls back (Crash).
CommitPay(r) ==
  /\ pc[r] = "commit"
  /\ LET c == work[r].claim
     IN /\ status' = [status EXCEPT ![c] = "paid"]
        /\ version' = [version EXCEPT ![c] = @ + 1]
        /\ lock' = [lock EXCEPT ![c] = Nobody]
        /\ \/ entries' = entries \cup {[claim |-> c, amount |-> work[r].total]}
           \/ UNCHANGED entries
  /\ Emit(work[r].id, work[r].claim)
  /\ Finish(r)
  /\ UNCHANGED <<total, lines, nextId, claim, sent, published, aborted, faults>>

\* The process dies, or a statement fails.
Crash(r) ==
  /\ pc[r] # "idle"
  /\ Fault
  /\ lock' = [c \in Claims |-> IF lock[c] = r THEN Nobody ELSE lock[c]]
  /\ Finish(r)
  /\ UNCHANGED <<status, version, total, lines, entries, nextId, outbox, claim, sent,
                 published, aborted>>

RelayClaims(w) == ClaimRows(w) /\ UNCHANGED claimVars
RelayPublishes(w) == Publish(w) /\ UNCHANGED claimVars
RelayMarks(w) == MarkDelivered(w) /\ UNCHANGED claimVars
RelayAborts(w) == Abort(w) /\ UNCHANGED claimVars
RelayStep(w) == RelayClaims(w) \/ RelayPublishes(w) \/ RelayMarks(w)

Next ==
  \/ \E r \in Requests :
       \/ \E c \in Claims : StartLine(r, c) \/ StartPay(r, c)
       \/ \E c \in Claims, to \in Statuses : StartStatus(r, c, to)
       \/ InsertLine(r) \/ SumLines(r) \/ WriteStatus(r)
       \/ FlipPaid(r) \/ CommitPay(r) \/ Crash(r)
  \/ \E w \in Relays : RelayStep(w) \/ RelayAborts(w)

\* The ticker of every relay keeps ticking and a run goes on to its end.
Fairness == \A w \in Relays : WF_vars(RelayStep(w))

Spec == Init /\ [][Next]_vars /\ Fairness

-----------------------------------------------------------------------------
(* Properties *)

\* One event per payout, whoever else pays or cancels the claim: an event's
\* claim is paid, neither an event nor an entry comes twice, and an entry never
\* comes without its event (hr/service.go:75-110, hr/store.go:185-208).
PaidOnce ==
  /\ \A o \in outbox : status[o.object] = "paid"
  /\ \A o, q \in outbox : o.object = q.object => o = q
  /\ \A e, f \in entries : e.claim = f.claim => e = f
  /\ \A e \in entries : \E o \in outbox : o.object = e.claim

\* A staged event reaches the bus, however many relay runs die or fail.
EventsArrive == \A i \in 0 .. Cardinality(Claims) - 1 :
  (\E o \in outbox : o.id = i) ~> BagIn(i, published)

-----------------------------------------------------------------------------
(* What the repository says of the code and the code does not do. *)

\* "lines editable on draft reports only" (hr/store.go:160): what a claim has
\* been paid is what its lines add up to.
PaidWhatIsClaimed == \A e \in entries : e.amount = lines[e.claim]
=============================================================================
