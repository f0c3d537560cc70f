--------------------------------- MODULE Workshop ---------------------------------
(***************************************************************************)
(* Making one manufacturing order (backend/internal/manufacturing): its    *)
(* steps are completed one by one, each taking a share of the component    *)
(* from stock and the last one delivering the product, or the order is     *)
(* produced in one go. Every request is one transaction that first reads   *)
(* the order and its steps without a lock and then writes. The locks it    *)
(* takes while it writes are held to its end, so that the writes are one   *)
(* action. The order is in progress from the start; the days of its        *)
(* schedule are in Planning.                                               *)
(***************************************************************************)
EXTENDS Integers, Sequences, FiniteSets

CONSTANTS
  Requests,
  Need,     \* units of the component the order takes
  Steps,    \* length of its routing
  Opening,  \* units in stock
  RoundLimit \* bound: schedules made

ConstantsOK == Need \in Nat /\ Steps \in Nat \ {0} /\ Opening \in Nat /\ RoundLimit \in Nat

VARIABLES
  status, version, \* of the order
  steps,    \* its schedule: "pending" or "done" per step, empty before the first one
  level,    \* units of the component in stock
  consumed, \* units taken by the order
  dropped,  \* history: units a committed request meant to take but stock refused
  received, \* deliveries of the product
  rounds,   \* schedules made
  overtaken, \* history: a request committed on steps that were replaced, or absent, meanwhile
  pc, work  \* per request: what it is about to write

vars == <<status, version, steps, level, consumed, dropped, received, rounds, overtaken, pc, work>>

NoWork == [step |-> 0, qty |-> 0, version |-> 0, round |-> 0]

TypeOK ==
  /\ status \in {"in_progress", "produced", "canceled"}
  /\ version \in 1 .. 2
  /\ steps \in {<< >>} \cup [1 .. Steps -> {"pending", "done"}]
  /\ level \in 0 .. Opening
  /\ {consumed, dropped, received} \subseteq Nat
  /\ rounds \in 0 .. RoundLimit
  /\ overtaken \in BOOLEAN
  /\ pc \in [Requests -> {"idle", "complete", "produce", "schedule"}]
  /\ \A r \in Requests : work[r].step \in 0 .. Steps /\ work[r].qty \in 0 .. Need

Init ==
  /\ status = "in_progress" /\ version = 1
  /\ steps = << >>
  /\ level = Opening
  /\ consumed = 0 /\ dropped = 0 /\ received = 0
  /\ rounds = 0
  /\ overtaken = FALSE
  /\ pc = [r \in Requests |-> "idle"]
  /\ work = [r \in Requests |-> NoWork]

DoneSteps == Cardinality({i \in DOMAIN steps : steps[i] = "done"})

Finish(r) == pc' = [pc EXCEPT ![r] = "idle"] /\ work' = [work EXCEPT ![r] = NoWork]

Start(r, label, i, qty) ==
  /\ pc[r] = "idle"
  /\ pc' = [pc EXCEPT ![r] = label]
  /\ work' = [work EXCEPT ![r] =
       [step |-> i, qty |-> qty, version |-> version, round |-> rounds]]
  /\ UNCHANGED <<status, version, steps, level, consumed, dropped, received, rounds, overtaken>>

-----------------------------------------------------------------------------
(* A schedule *)

\* The order is open and none of its steps has started.
StartSchedule(r) ==
  /\ status = "in_progress"
  /\ \A i \in DOMAIN steps : steps[i] = "pending"
  /\ Start(r, "schedule", 0, 0)

\* DELETE and INSERT of all steps, whatever they have become.
ReplaceMOOperations(r) ==
  /\ pc[r] = "schedule"
  /\ rounds < RoundLimit
  /\ steps' = [i \in 1 .. Steps |-> "pending"]
  /\ rounds' = rounds + 1
  /\ overtaken' = (overtaken \/ DoneSteps > 0)
  /\ Finish(r)
  /\ UNCHANGED <<status, version, level, consumed, dropped, received>>

-----------------------------------------------------------------------------
(* Completion of a step, and production in one go *)

\* Mutant: the last step takes a share like the others.
EvenShare(i) == Need \div Steps

\* The last step takes what the shares of the others leave.
Share(i) == IF i = Steps THEN Need - (Need \div Steps) * (Steps - 1) ELSE Need \div Steps

\* In sequence, with the stock looked up without a lock.
StartComplete(r, i) ==
  /\ status = "in_progress"
  /\ i \in DOMAIN steps
  /\ steps[i] = "pending" /\ \A j \in 1 .. i - 1 : steps[j] = "done"
  /\ Share(i) <= level
  /\ Start(r, "complete", i, Share(i))

\* Refused once the order has a schedule.
StartProduce(r) ==
  /\ status = "in_progress"
  /\ steps = << >>
  /\ Need <= level
  /\ Start(r, "produce", 0, Need)

\* AppendMovement in the transaction: what stock refuses is left out and the
\* transaction goes on.
Consume(qty) ==
  IF qty <= level
  THEN level' = level - qty /\ consumed' = consumed + qty /\ UNCHANGED dropped
  ELSE dropped' = dropped + qty /\ UNCHANGED <<level, consumed>>

\* Mutant: the order is marked whatever its version is.
MayMarkAlways(r) == r \in Requests

\* MarkProduced, which the row version guards.
MayMark(r) == status = "in_progress" /\ version = work[r].version

Deliver ==
  /\ status' = "produced" /\ version' = version + 1
  /\ received' = received + 1

StillPending(r) == steps[work[r].step] = "pending"

\* UPDATE ... WHERE status = pending, and for the last step the delivery.
CompleteOperation(r) ==
  /\ pc[r] = "complete"
  /\ StillPending(r)
  /\ work[r].step = Steps => MayMark(r)
  /\ Consume(work[r].qty)
  /\ steps' = [steps EXCEPT ![work[r].step] = "done"]
  /\ overtaken' = (overtaken \/ work[r].round # rounds)
  /\ IF work[r].step = Steps THEN Deliver ELSE UNCHANGED <<status, version, received>>
  /\ Finish(r)
  /\ UNCHANGED rounds

Produce(r) ==
  /\ pc[r] = "produce"
  /\ MayMark(r)
  /\ Consume(work[r].qty)
  /\ overtaken' = (overtaken \/ work[r].round # rounds)
  /\ Deliver
  /\ Finish(r)
  /\ UNCHANGED <<steps, rounds>>

-----------------------------------------------------------------------------
\* A condition above fails, or a statement: the transaction is rolled back.
RollBack(r) ==
  /\ pc[r] # "idle"
  /\ Finish(r)
  /\ UNCHANGED <<status, version, steps, level, consumed, dropped, received, rounds, overtaken>>

\* SetMOStatus, in the version the order has.
Cancel ==
  /\ status = "in_progress"
  /\ status' = "canceled" /\ version' = version + 1
  /\ UNCHANGED <<steps, level, consumed, dropped, received, rounds, overtaken, pc, work>>

\* Someone else takes a unit of the component.
TakeElsewhere ==
  /\ level > 0
  /\ level' = level - 1
  /\ UNCHANGED <<status, version, steps, consumed, dropped, received, rounds, overtaken, pc, work>>

Next ==
  \/ \E r \in Requests :
       \/ StartSchedule(r) \/ ReplaceMOOperations(r)
       \/ \E i \in 1 .. Steps : StartComplete(r, i)
       \/ CompleteOperation(r)
       \/ StartProduce(r) \/ Produce(r)
       \/ RollBack(r)
  \/ Cancel
  \/ TakeElsewhere

Spec == Init /\ [][Next]_vars

-----------------------------------------------------------------------------
(* Properties *)

\* Whoever makes the order, by its last step or in one go and however they race
\* with each other, with a new schedule and with a cancellation: the product is
\* delivered once, and exactly if the order says so (service.go:354-366).
DeliveredOnce == received = IF status = "produced" THEN 1 ELSE 0

\* The shares make up the whole (service.go:312-320): as long as nobody writes on
\* steps that were replaced under him, the component is taken once for every step
\* that is done and in full for an order that is produced, apart from what the
\* stock refused.
SharesMakeTheWhole ==
  ~overtaken =>
    consumed + dropped =
      IF status = "produced" THEN Need ELSE DoneSteps * (Need \div Steps)

-----------------------------------------------------------------------------
(* What the repository says of the code and the code does not do. *)

\* "Direct produce would double-post, so it is refused once a schedule exists"
\* (service.go:81-82): not one that looked before the schedule was made.
ConsumedOnce == consumed <= Need
=============================================================================
