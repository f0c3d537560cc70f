------------------------------- MODULE Reminders -------------------------------
(***************************************************************************)
(* Agenda reminders (backend/internal/agenda): the reminder daemons of all *)
(* replicas elect a leader per tick, which marks the due events in one     *)
(* transaction, while the dispatch endpoint marks and publishes them       *)
(* statement by statement and users complete or cancel events.             *)
(***************************************************************************)
EXTENDS Integers, FiniteSets

CONSTANTS
  Workers,   \* replicas that run Worker.Run
  Requests,  \* concurrent requests
  Nobody,    \* the lock is free
  Events,    \* calendar events with a reminder
  DueAt,     \* DueAt[e]: when the reminder window of e opens
  Batch,     \* reminders of one run (LIMIT 100)
  Horizon,   \* bound: the clock stops here
  FaultLimit \* bound: ticks and requests that die

ASSUME RemindersAssumption ==
  /\ Workers \cap Requests = {} /\ Nobody \notin Workers
  /\ DueAt \in [Events -> Nat]
  /\ Horizon \in Nat /\ FaultLimit \in Nat

VARIABLES
  clock,
  status,   \* per event
  reminded, \* per event: reminded_at is set, committed
  leader,   \* holder of the advisory lock agendaReminderLockKey
  pc,       \* per worker and request: the step that comes next
  todo,     \* per worker and request: due events still to mark, as it read them
  marks,    \* per worker: events its transaction has marked and locked;
            \* per request: the event it has marked and not yet published
  said,     \* history: per event, reminders sent (logged by a worker, published by a request)
  undone,   \* history: per event, reminders of a tick that rolled back
  faults    \* bound

vars == <<clock, status, reminded, leader, pc, todo, marks, said, undone, faults>>

Procs == Workers \cup Requests

TypeOK ==
  /\ clock \in 0 .. Horizon
  /\ status \in [Events -> {"scheduled", "done", "canceled"}]
  /\ reminded \in [Events -> BOOLEAN]
  /\ leader \in Workers \cup {Nobody}
  /\ pc \in [Procs -> {"idle", "mark", "publish"}]
  /\ todo \in [Procs -> SUBSET Events]
  /\ marks \in [Procs -> SUBSET Events]
  /\ {said, undone} \subseteq [Events -> Nat]
  /\ faults \in 0 .. FaultLimit

Init ==
  /\ clock = 0
  /\ status = [e \in Events |-> "scheduled"]
  /\ reminded = [e \in Events |-> FALSE]
  /\ leader = Nobody
  /\ pc = [p \in Procs |-> "idle"]
  /\ todo = [p \in Procs |-> {}]
  /\ marks = [p \in Procs |-> {}]
  /\ said = [e \in Events |-> 0]
  /\ undone = [e \in Events |-> 0]
  /\ faults = 0

Fault == faults < FaultLimit /\ faults' = faults + 1
Goto(p, label) == pc' = [pc EXCEPT ![p] = label]

ReminderDue(e) == status[e] = "scheduled" /\ ~reminded[e] /\ DueAt[e] <= clock

\* DueReminders(All): the earliest due events, at most Batch.
DueReminders ==
  LET due == {e \in Events : ReminderDue(e)}
  IN {s \in SUBSET due :
        /\ Cardinality(s) = IF Cardinality(due) < Batch THEN Cardinality(due) ELSE Batch
        /\ \A e \in s, f \in due \ s : DueAt[e] <= DueAt[f]}

\* An event marked by a tick that has not ended yet: its row is locked.
Locked(e) == \E w \in Workers : e \in marks[w]

\* Mutant: marking does not ask whether the reminder has been sent.
UnsentAlways(e) == TRUE

\* UPDATE ... WHERE reminded_at IS NULL; the event's status does not matter.
Unsent(e) == ~reminded[e]

-----------------------------------------------------------------------------
(* The daemon *)

\* A tick that wins the election reads the due reminders of all entities.
Lead(w) ==
  /\ pc[w] = "idle"
  /\ leader = Nobody
  /\ leader' = w
  /\ \E s \in DueReminders : todo' = [todo EXCEPT ![w] = s]
  /\ Goto(w, "mark")
  /\ UNCHANGED <<clock, status, reminded, marks, said, undone, faults>>

\* The next event is marked and logged; one that is sent already is skipped.
MarkNext(w) ==
  /\ pc[w] = "mark"
  /\ \E e \in todo[w] :
       /\ \A f \in todo[w] : DueAt[e] <= DueAt[f]
       /\ todo' = [todo EXCEPT ![w] = @ \ {e}]
       /\ IF Unsent(e)
          THEN /\ marks' = [marks EXCEPT ![w] = @ \cup {e}]
               /\ said' = [said EXCEPT ![e] = @ + 1]
          ELSE UNCHANGED <<marks, said>>
  /\ UNCHANGED <<clock, status, reminded, leader, pc, undone, faults>>

\* Mutant: a session lock outlives its transaction.
UnlockLater(w) == w

\* The end of the transaction releases the advisory lock.
Unlock(w) == Nobody

EndTick(w) ==
  /\ leader' = Unlock(w)
  /\ todo' = [todo EXCEPT ![w] = {}]
  /\ marks' = [marks EXCEPT ![w] = {}]
  /\ Goto(w, "idle")
  /\ UNCHANGED <<clock, status, said>>

CommitTick(w) ==
  /\ pc[w] = "mark"
  /\ todo[w] = {}
  /\ reminded' = [e \in Events |-> reminded[e] \/ e \in marks[w]]
  /\ EndTick(w)
  /\ UNCHANGED <<undone, faults>>

\* The process dies or a statement fails: everything is rolled back.
DieTick(w) ==
  /\ pc[w] = "mark"
  /\ Fault
  /\ undone' = [e \in Events |-> undone[e] + IF e \in marks[w] THEN 1 ELSE 0]
  /\ EndTick(w)
  /\ UNCHANGED reminded

-----------------------------------------------------------------------------
(* Requests *)

\* DispatchReminders reads the due reminders of its entity.
StartDispatch(r) ==
  /\ pc[r] = "idle"
  /\ \E s \in DueReminders : s # {} /\ todo' = [todo EXCEPT ![r] = s]
  /\ Goto(r, "mark")
  /\ UNCHANGED <<clock, status, reminded, leader, marks, said, undone, faults>>

\* MarkReminded commits by itself; it waits for a tick that has marked the row.
DispatchMark(r) ==
  /\ pc[r] = "mark"
  /\ \E e \in todo[r] :
       /\ \A f \in todo[r] : DueAt[e] <= DueAt[f]
       /\ ~Locked(e)
       /\ todo' = [todo EXCEPT ![r] = @ \ {e}]
       /\ IF Unsent(e)
          THEN /\ reminded' = [reminded EXCEPT ![e] = TRUE]
               /\ marks' = [marks EXCEPT ![r] = {e}]
               /\ Goto(r, "publish")
          ELSE UNCHANGED <<reminded, marks, pc>>
  /\ UNCHANGED <<clock, status, leader, said, undone, faults>>

DispatchPublish(r) ==
  /\ pc[r] = "publish"
  /\ said' = [e \in Events |-> said[e] + IF e \in marks[r] THEN 1 ELSE 0]
  /\ marks' = [marks EXCEPT ![r] = {}]
  /\ Goto(r, "mark")
  /\ UNCHANGED <<clock, status, reminded, leader, todo, undone, faults>>

EndDispatch(r) ==
  /\ pc[r] = "mark"
  /\ todo[r] = {}
  /\ Goto(r, "idle")
  /\ UNCHANGED <<clock, status, reminded, leader, todo, marks, said, undone, faults>>

DieDispatch(r) ==
  /\ pc[r] # "idle"
  /\ Fault
  /\ todo' = [todo EXCEPT ![r] = {}]
  /\ marks' = [marks EXCEPT ![r] = {}]
  /\ Goto(r, "idle")
  /\ UNCHANGED <<clock, status, reminded, leader, said, undone>>

\* SetEventStatus: read and conditional update of one row, which may wait.
SetStatus(e, to) ==
  /\ status[e] = "scheduled"
  /\ ~Locked(e)
  /\ status' = [status EXCEPT ![e] = to]
  /\ UNCHANGED <<clock, reminded, leader, pc, todo, marks, said, undone, faults>>

Advance ==
  /\ clock < Horizon
  /\ clock' = clock + 1
  /\ UNCHANGED <<status, reminded, leader, pc, todo, marks, said, undone, faults>>

Next ==
  \/ Advance
  \/ \E w \in Workers : Lead(w) \/ MarkNext(w) \/ CommitTick(w) \/ DieTick(w)
  \/ \E r \in Requests :
       StartDispatch(r) \/ DispatchMark(r) \/ DispatchPublish(r) \/ EndDispatch(r)
         \/ DieDispatch(r)
  \/ \E e \in Events, to \in {"done", "canceled"} : SetStatus(e, to)

\* The tickers keep ticking and a tick goes on to its end. Nothing is assumed
\* of requests.
Fairness == \A w \in Workers : SF_vars(Lead(w)) /\ WF_vars(MarkNext(w) \/ CommitTick(w))

Spec == Init /\ [][Next]_vars /\ Fairness

-----------------------------------------------------------------------------
(* Properties *)

\* However daemons and dispatch requests race, a reminder is sent once, unless
\* the tick that logged it was rolled back (worker.go:12-24, handler.go:151-177).
SentOnce == \A e \in Events : said[e] <= 1 + undone[e]

\* A due reminder is marked, or its event is closed, whatever else is due and
\* however many ticks die (worker.go:45-71, 78-114).
DueRemindersGoOut ==
  \A e \in Events : ReminderDue(e) ~> ~ReminderDue(e)

-----------------------------------------------------------------------------
(* What the repository says of the code and the code does not do. *)

\* "Each reminder fires exactly once via MarkReminded; failures are logged and
\* retried next tick" (worker.go:17-18): a reminder that is marked has been
\* sent, once no request is in the middle of sending it.
MarkedWasSent ==
  \A e \in Events :
    reminded[e] /\ (\A r \in Requests : e \notin marks[r]) => said[e] >= 1
=============================================================================
