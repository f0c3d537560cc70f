--------------------------------- MODULE Planning ---------------------------------
(***************************************************************************)
(* Scheduling manufacturing orders on workstations                         *)
(* (backend/internal/manufacturing): the routing of an order is laid out   *)
(* over days, and a step that takes a workstation above its capacity is    *)
(* flagged. The bookings of the other orders are read without a lock.      *)
(* Days count from 0; all days lie within the 365 that are looked at.      *)
(***************************************************************************)
EXTENDS Integers, Sequences, FiniteSets, FiniteSetsExt

CONSTANTS
  Requests,
  Orders, OrderQty,      \* OrderQty[o]: units to make
  Stations, DailyMinutes, \* DailyMinutes[s]: capacity of a workstation
  Routing,               \* the routing all orders share: [station, run, setup]
  Starts,                \* days a schedule may start on
  ScheduleLimit          \* bound: schedules of one order

ConstantsOK ==
  /\ IsFiniteSet(Orders) /\ OrderQty \in [Orders -> Nat \ {0}]
  /\ DailyMinutes \in [Stations -> Nat \ {0}]
  /\ Routing \in Seq([station : Stations, run : Nat, setup : Nat])
  /\ \A i \in DOMAIN Routing : Routing[i].run + Routing[i].setup > 0
  /\ Starts \subseteq Nat /\ ScheduleLimit \in Nat

VARIABLES
  ops,     \* per order: its scheduled operations, empty before the first schedule
  rounds,  \* per order: how often it was scheduled
  blind,   \* history: the pairs of orders of which neither schedule saw the other
  pc, work \* per request: the schedule it is about to write

vars == <<ops, rounds, blind, pc, work>>

-----------------------------------------------------------------------------
(* Minutes over days *)

Steps == DOMAIN Routing

PlannedMinutes(i, qty) == Routing[i].setup + Routing[i].run * qty

\* As many days of the workstation as the step needs, rounded up.
Days(i, qty) ==
  LET daily == DailyMinutes[Routing[i].station]
  IN (PlannedMinutes(i, qty) + daily - 1) \div daily

\* An even split, the first days taking the remainder.
Slice(minutes, days, k) == minutes \div days + IF k < minutes % days THEN 1 ELSE 0

\* Mutant: the view puts the remainder on the last days.
spreadRemainderLast(op) ==
  [d \in op.start .. op.end - 1 |-> Slice(op.minutes, op.end - op.start, op.end - 1 - d)]

\* The minutes an operation books, per day.
spreadOp(op) ==
  [d \in op.start .. op.end - 1 |-> Slice(op.minutes, op.end - op.start, d - op.start)]

BookedBy(op, s, d) ==
  IF op.station = s /\ d \in DOMAIN spreadOp(op) THEN spreadOp(op)[d] ELSE 0

\* What an order books on workstation s on day d, and what the orders in O do; days
\* before from are left out.
Booked(o, s, d) == MapThenSumSet(LAMBDA i : BookedBy(ops[o][i], s, d), DOMAIN ops[o])

Load(O, s, d, from) == IF d < from THEN 0 ELSE MapThenSumSet(LAMBDA o : Booked(o, s, d), O)

(***************************************************************************)
(* ScheduleOperations: each step starts where the one before it ends, so   *)
(* that two steps of an order never share a day and the load of the        *)
(* schedule itself never adds up.                                          *)
(***************************************************************************)
ScheduleOperations(o, from) ==
  LET start(i) == from + MapThenSumSet(LAMBDA j : Days(j, OrderQty[o]), 1 .. i - 1)
      others == Orders \ {o}
  IN [i \in Steps |->
       LET s == Routing[i].station
           minutes == PlannedMinutes(i, OrderQty[o])
           days == Days(i, OrderQty[o])
       IN [station |-> s, minutes |-> minutes, start |-> start(i), end |-> start(i) + days,
           overloaded |-> \E k \in 0 .. days - 1 :
             Load(others, s, start(i) + k, from) + Slice(minutes, days, k) > DailyMinutes[s]]]

-----------------------------------------------------------------------------
NoWork == [order |-> "none", plan |-> << >>, missed |-> {}]

TypeOK ==
  /\ \A o \in Orders : DOMAIN ops[o] \in {{}, Steps}
  /\ \A o \in Orders, i \in Steps : i \in DOMAIN ops[o] =>
       ops[o][i].station \in Stations /\ ops[o][i].start < ops[o][i].end
  /\ rounds \in [Orders -> 0 .. ScheduleLimit]
  /\ blind \subseteq SUBSET Orders
  /\ pc \in [Requests -> {"idle", "replace"}]
  /\ \A r \in Requests : work[r].missed \subseteq Orders

Init ==
  /\ ops = [o \in Orders |-> << >>]
  /\ rounds = [o \in Orders |-> 0]
  /\ blind = {}
  /\ pc = [r \in Requests |-> "idle"]
  /\ work = [r \in Requests |-> NoWork]

Finish(r) == pc' = [pc EXCEPT ![r] = "idle"] /\ work' = [work EXCEPT ![r] = NoWork]

\* The routing, the workstations and the bookings on them are read.
StartSchedule(r, o, from) ==
  /\ pc[r] = "idle"
  /\ work' = [work EXCEPT ![r] =
       [order |-> o, plan |-> ScheduleOperations(o, from), missed |-> {}]]
  /\ pc' = [pc EXCEPT ![r] = "replace"]
  /\ UNCHANGED <<ops, rounds, blind>>

\* ReplaceMOOperations and COMMIT. What other requests have read by now does not
\* contain this schedule.
ReplaceOperations(r) ==
  LET o == work[r].order
  IN /\ pc[r] = "replace"
     /\ rounds[o] < ScheduleLimit
     /\ ops' = [ops EXCEPT ![o] = work[r].plan]
     /\ rounds' = [rounds EXCEPT ![o] = @ + 1]
     /\ blind' = {pair \in blind : o \notin pair} \cup {{o, p} : p \in work[r].missed}
     /\ pc' = [pc EXCEPT ![r] = "idle"]
     /\ work' = [q \in Requests |->
          IF q = r THEN NoWork
          ELSE IF pc[q] = "replace" /\ work[q].order # o
          THEN [work[q] EXCEPT !.missed = @ \cup {o}] ELSE work[q]]

\* The transaction fails or is rolled back.
Fail(r) ==
  /\ pc[r] = "replace"
  /\ Finish(r)
  /\ UNCHANGED <<ops, rounds, blind>>

Next == \E r \in Requests :
  \/ \E o \in Orders, from \in Starts : StartSchedule(r, o, from)
  \/ ReplaceOperations(r)
  \/ Fail(r)

Spec == Init /\ [][Next]_vars

-----------------------------------------------------------------------------
(* Properties *)

DaysBooked == UNION {UNION {DOMAIN spreadOp(ops[o][i]) : i \in DOMAIN ops[o]} : o \in Orders}

Flagged(s, d) == \E o \in Orders : \E i \in DOMAIN ops[o] :
  ops[o][i].overloaded /\ BookedBy(ops[o][i], s, d) > 0

\* Overload is flagged (workstation.go:144-146): where the capacity view shows a
\* day above its capacity, one of the operations on that day carries the flag,
\* whatever was rescheduled in between, unless two of the orders on it were
\* scheduled at the same time and neither saw the other.
OverloadIsFlagged == \A s \in Stations, d \in DaysBooked :
  Load(Orders, s, d, 0) > DailyMinutes[s] =>
    Flagged(s, d) \/ \E pair \in blind : \A o \in pair : Load({o}, s, d, 0) > 0

-----------------------------------------------------------------------------
(* What the repository says of the code and the code does not do. *)

\* "Overload is FLAGGED" (manufacturing/workstation.go:144): not when two orders
\* are scheduled at the same time.
OverloadIsAlwaysFlagged == \A s \in Stations, d \in DaysBooked :
  Load(Orders, s, d, 0) > DailyMinutes[s] => Flagged(s, d)
=============================================================================
