------------------------------- MODULE MCWorkers -------------------------------
(***************************************************************************)
(* The background workers of the API process, checked in one run: the      *)
(* reminder daemon (this module EXTENDS Reminders), the job scheduler      *)
(* (Cron), the outbox relay with the expense claims that feed it (Hr), and *)
(* the start of the process itself (Up). They share no table and no lock,  *)
(* so each behaviour lets one of them move, the one in focus, and the      *)
(* others rest in their initial state.                                     *)
(***************************************************************************)
EXTENDS Reminders, Sequences, TLC

CONSTANTS
  j1, j2,                                          \* jobs, for the definitions below
  Jobs, Schedules, FirstSchedule, Retention, Callers, EventLimit,
  Claims, FirstStatus, LineLimit, RelayBatch, RelayFaultLimit,
  Builds, BootLimit

VARIABLES focus,
  next, schedule, enabled, rows, lead, step, now, queue, ran, marked, drop, lastId,
  fires, attempts, rolledBack, events,
  outbox, claim, sent, published, aborted, relayFaults,
  claimStatus, version, total, lines, entries, at, work, lock, nextId, time,
  applied, count, boots, died, raced, failed, bootPc, build, left, bootAt, found, report

MCBuilds == {{1, 3}, {1, 2, 3}}

MCDueAt == [e \in Events |-> e - 1]

Every2 == [at |-> {}, cron |-> FALSE, every |-> 2]
At1And9 == [at |-> {1, 9}, cron |-> TRUE, every |-> 1]
MCSchedules == {Every2, At1And9}
MCFirstStatus == <<"draft", "paid">>

MCFirstSchedule == j1 :> Every2 @@ j2 :> At1And9

Cron == INSTANCE Scheduler WITH
  Replicas <- Workers, First <- FirstSchedule,
  clock <- time, leader <- lead, pc <- step, todo <- queue, undone <- rolledBack

Hr == INSTANCE Claims WITH
  Relays <- Workers, First <- FirstStatus, FaultLimit <- RelayFaultLimit,
  status <- claimStatus, pc <- at, faults <- relayFaults

Up == INSTANCE Boot WITH
  Replicas <- Workers,
  pc <- bootPc, at <- bootAt

ASSUME HrAssumption == Hr!ClaimsOK
ASSUME CronAssumption == Cron!ConstantsOK
ASSUME UpAssumption == Up!ConstantsOK
ASSUME Up!ReadyIsAPrefix

cronVars == <<time, next, schedule, enabled, rows, lead, step, now, queue, ran, marked, drop,
              lastId, fires, attempts, rolledBack, events>>
hrVars == <<outbox, claim, sent, published, aborted, relayFaults, claimStatus, version, total,
            lines, entries, at, work, lock, nextId>>
bootVars == <<applied, count, boots, died, raced, failed, bootPc, build, left, bootAt, found,
              report>>
allVars == <<focus, vars, cronVars, hrVars, bootVars>>

MCInit ==
  /\ focus \in {"reminders", "cron", "hr", "boot"}
  /\ Init /\ Cron!Init /\ Hr!Init /\ Up!Init

InReminders(A) == focus = "reminders" /\ A /\ UNCHANGED <<focus, cronVars, hrVars, bootVars>>
InCron(A) == focus = "cron" /\ A /\ UNCHANGED <<focus, vars, hrVars, bootVars>>
InHr(A) == focus = "hr" /\ A /\ UNCHANGED <<focus, vars, cronVars, bootVars>>
InBoot(A) == focus = "boot" /\ A /\ UNCHANGED <<focus, vars, cronVars, hrVars>>

MCNext ==
  \/ InReminders(Advance)
  \/ \E w \in Workers : InReminders(Lead(w))
  \/ \E w \in Workers : InReminders(MarkNext(w))
  \/ \E w \in Workers : InReminders(CommitTick(w))
  \/ \E w \in Workers : InReminders(DieTick(w))
  \/ \E r \in Requests : InReminders(StartDispatch(r))
  \/ \E r \in Requests : InReminders(DispatchMark(r))
  \/ \E r \in Requests : InReminders(DispatchPublish(r))
  \/ \E r \in Requests : InReminders(EndDispatch(r))
  \/ \E r \in Requests : InReminders(DieDispatch(r))
  \/ \E e \in Events, to \in {"done", "canceled"} : InReminders(SetStatus(e, to))
  \/ InCron(Cron!Advance)
  \/ \E w \in Workers : InCron(Cron!Lead(w))
  \/ \E w \in Workers : InCron(Cron!Fire(w))
  \/ \E w \in Workers : InCron(Cron!CommitTick(w))
  \/ \E w \in Workers : InCron(Cron!DieTick(w))
  \/ \E j \in Jobs, s \in Schedules, on \in BOOLEAN : InCron(Cron!Upsert(j, s, on))
  \/ \E r \in Callers, j \in Jobs : InCron(Cron!StartManual(r, j))
  \/ \E r \in Callers : InCron(Cron!FinishManual(r))
  \/ \E r \in Callers : InCron(Cron!PruneManual(r))
  \/ \E r \in Callers : InCron(Cron!DieManual(r))
  \/ \E r \in Requests, c \in Claims : InHr(Hr!StartLine(r, c))
  \/ \E r \in Requests : InHr(Hr!InsertLine(r))
  \/ \E r \in Requests : InHr(Hr!SumLines(r))
  \/ \E r \in Requests, c \in Claims, to \in Hr!Statuses : InHr(Hr!StartStatus(r, c, to))
  \/ \E r \in Requests : InHr(Hr!WriteStatus(r))
  \/ \E r \in Requests, c \in Claims : InHr(Hr!StartPay(r, c))
  \/ \E r \in Requests : InHr(Hr!FlipPaid(r))
  \/ \E r \in Requests : InHr(Hr!CommitPay(r))
  \/ \E r \in Requests : InHr(Hr!Crash(r))
  \/ \E w \in Workers : InHr(Hr!RelayClaims(w))
  \/ \E w \in Workers : InHr(Hr!RelayPublishes(w))
  \/ \E w \in Workers : InHr(Hr!RelayMarks(w))
  \/ \E w \in Workers : InHr(Hr!RelayAborts(w))
  \/ \E w \in Workers, b \in Builds : InBoot(Up!Start(w, b))
  \/ \E w \in Workers : InBoot(Up!CheckVersion(w))
  \/ \E w \in Workers : InBoot(Up!ApplyVersion(w))
  \/ \E w \in Workers : InBoot(Up!CommitVersion(w))
  \/ \E w \in Workers : InBoot(Up!Preflight(w))
  \/ \E w \in Workers : InBoot(Up!SkipSeed(w))
  \/ \E w \in Workers : InBoot(Up!StartSeed(w))
  \/ \E w \in Workers : InBoot(Up!InsertSeed(w))
  \/ \E w \in Workers : InBoot(Up!Exit(w))
  \/ \E w \in Workers : InBoot(Up!Stop(w))

\* The fairness of each component, while it is in focus.
MCFairness ==
  \A w \in Workers :
    /\ SF_allVars(InReminders(Lead(w)) \/ InCron(Cron!Lead(w)))
    /\ WF_allVars(\/ InReminders(MarkNext(w) \/ CommitTick(w))
                  \/ InCron(Cron!Fire(w) \/ Cron!CommitTick(w))
                  \/ InHr(Hr!RelayStep(w))
                  \/ InBoot(Up!Step(w)))

MCSpec == MCInit /\ [][MCNext]_allVars /\ MCFairness

-----------------------------------------------------------------------------
TypesOK == TypeOK /\ Cron!TypeOK /\ Hr!TypeOK /\ Up!TypeOK

\* The scheduler's books: a job is fired once per due time unless a tick is rolled
\* back, and its newest runs stay listed whoever prunes (cron/scheduler.go:84-156).
RunsAddUp == Cron!FiredOnce /\ Cron!KeepsNewestRuns

\* The outbox delivers at least once, and more often only after a relay run that
\* published and rolled back (platform/trigger/outbox.go:143-201).
DeliveredAtLeastOnce == Hr!MarkedWasPublished /\ Hr!RepeatsNeedAnAbort

\* A claim is paid once, with its entry's event (hr/service.go:75-110).
PaidOnce == Hr!PaidOnce

\* What is due does not stay due in the component that moves: a reminder goes out
\* or its event is closed, a job fires or is disabled or rescheduled, a committed event
\* reaches the bus, a process that starts serves or ends, however many ticks and relay
\* runs die (agenda/worker.go:71-127, cron/scheduler.go:196-246,
\* platform/trigger/outbox.go:121-201, cmd/api/main.go:83-165).
DueWorkIsDone ==
  /\ focus = "reminders" => DueRemindersGoOut
  /\ focus = "cron" => Cron!DueJobsFire
  /\ focus = "hr" => Hr!EventsArrive
  /\ focus = "boot" => Up!StartsEnd

\* Starts that overlap or die leave the schema whole, and a seed in part or twice only
\* where one of them died or two met (cmd/api/main.go:83-141, platform/db.go:29-74).
StartsAgree == focus = "boot" => Up!ServingHasSchema /\ Up!SeedsNeedOneStart

\* What the repository says of them and the code does not do, as the components
\* state it.
PaidWhatIsClaimed == Hr!PaidWhatIsClaimed
GapsAreReported == Up!GapsAreReported
SalesAreSeededOnce == Up!SalesAreSeededOnce
=============================================================================
