------------------------------- MODULE Scheduler -------------------------------
(***************************************************************************)
(* The job scheduler (backend/internal/platform/cron): several replicas    *)
(* tick, one of them wins an advisory lock and fires every due job inside  *)
(* one transaction, while HTTP requests run jobs by hand or change their   *)
(* schedules, each statement a transaction of its own.                     *)
(*                                                                         *)
(* A job's work does not belong to the tick's transaction: when the tick   *)
(* dies, the work is done and everything recorded about it is rolled back. *)
(***************************************************************************)
EXTENDS Integers, Sequences, FiniteSets, SequencesExt

CONSTANTS
  Replicas,    \* processes that run Scheduler.Run
  Callers,     \* concurrent HTTP requests
  Nobody,      \* the lock is free
  Jobs,        \* ferp_jobs rows
  Schedules,   \* schedules a job may have
  First,       \* First[j]: the schedule job j is registered with
  Batch,       \* jobs of one tick (LIMIT 100)
  Retention,   \* runs kept per job
  Horizon,     \* bound: the clock stops here
  EventLimit   \* bound: changes of schedules, runs by hand and dying ticks, together

\* cron: an expression is set, which matches the times in at; otherwise the
\* job runs every so often.
Schedule == [cron : BOOLEAN, at : SUBSET Nat, every : Nat \ {0}]

\* What the constants are, for the module that gives them values.
ConstantsOK ==
  /\ IsFiniteSet(Jobs)
  /\ Replicas \cap Callers = {}
  /\ Nobody \notin Replicas
  /\ Schedules \subseteq Schedule
  /\ First \in [Jobs -> Schedules]
  /\ {Batch, Retention} \subseteq Nat \ {0}
  /\ {Horizon, EventLimit} \subseteq Nat

VARIABLES
  clock,
  next,     \* per job: committed next_run_at
  schedule, \* per job: committed interval_s and cron_expr
  enabled,  \* per job
  rows,     \* per job: committed ferp_job_runs
  leader,   \* holder of the advisory lock cronLeaderLockKey
  pc,       \* per replica and caller: the step that comes next
  now,      \* per replica: the time its tick read
  todo,     \* per replica: the due jobs still to fire, as DueJobs read them
  ran,      \* per replica and caller: its runs, uncommitted in a tick
  marked,   \* per replica: next_run_at of the job rows it has updated and locked
  drop,     \* per replica: runs its tick has deleted
  lastId,   \* the sequence of ferp_job_runs
  fires,    \* history: per job, firings of ticks since next_run_at was last set
  attempts, \* history: per job, runs started
  undone,   \* history: per job, runs rolled back with their tick
  events    \* bound

jobVars == <<next, schedule, enabled>>
tickVars == <<now, todo, ran, marked, drop>>
histories == <<lastId, fires, attempts, undone>>
vars == <<clock, jobVars, rows, leader, pc, tickVars, histories, events>>

Procs == Replicas \cup Callers
Run == [job : Jobs, at : Nat, id : Nat, ended : BOOLEAN]
Due == [job : Jobs, next : Nat, schedule : Schedules]

TypeOK ==
  /\ clock \in 0 .. Horizon
  /\ next \in [Jobs -> Nat]
  /\ schedule \in [Jobs -> Schedules]
  /\ enabled \in [Jobs -> BOOLEAN]
  /\ rows \subseteq Run
  /\ leader \in Replicas \cup {Nobody}
  /\ pc \in [Procs -> {"idle", "fire", "finish", "prune"}]
  /\ now \in [Replicas -> 0 .. Horizon]
  /\ todo \in [Replicas -> Seq(Due)]
  /\ ran \in [Procs -> SUBSET Run]
  /\ marked \in [Replicas -> [Jobs -> Nat \cup {-1}]]
  /\ drop \in [Replicas -> SUBSET Run]
  /\ lastId \in Nat
  /\ {fires, attempts, undone} \subseteq [Jobs -> Nat]

NotMarked == [j \in Jobs |-> -1]

Init ==
  /\ clock = 0
  /\ next = [j \in Jobs |-> 0]
  /\ schedule = First
  /\ enabled = [j \in Jobs |-> TRUE]
  /\ rows = {}
  /\ leader = Nobody
  /\ pc = [p \in Procs |-> "idle"]
  /\ now = [w \in Replicas |-> 0]
  /\ todo = [w \in Replicas |-> << >>]
  /\ ran = [p \in Procs |-> {}]
  /\ marked = [w \in Replicas |-> NotMarked]
  /\ drop = [w \in Replicas |-> {}]
  /\ lastId = 0
  /\ fires = [j \in Jobs |-> 0]
  /\ attempts = [j \in Jobs |-> 0]
  /\ undone = [j \in Jobs |-> 0]
  /\ events = 0

Counted == events < EventLimit /\ events' = events + 1

Goto(p, label) == pc' = [pc EXCEPT ![p] = label]

-----------------------------------------------------------------------------
(* Pure functions *)

\* The first time after t the expression matches, the zero time if there is none.
ExprNextAfter(at, t) ==
  LET later == {u \in at : u > t}
  IN IF later = {} THEN 0 ELSE CHOOSE u \in later : \A v \in later : u <= v

NextAfter(s, t) == IF s.cron THEN ExprNextAfter(s.at, t) ELSE t + s.every

\* RunsOf lists runs by start time, then id.
Before(a, b) == a.at < b.at \/ (a.at = b.at /\ a.id < b.id)

\* Mutant: keeps one run too few.
PruneIDsOneMore(runs) ==
  {a \in runs : Cardinality({b \in runs : Before(a, b)}) >= Retention - 1}

\* The runs to delete: all but the newest ones.
PruneIDs(runs) == {a \in runs : Cardinality({b \in runs : Before(a, b)}) >= Retention}

RunsOf(j, S) == {a \in S : a.job = j}

-----------------------------------------------------------------------------
(* A tick of replica w *)

\* DueJobs: the jobs due at t, those due for longest first, at most Batch.
DueJobs(t) ==
  LET due == {[job |-> j, next |-> next[j], schedule |-> schedule[j]] :
                j \in {i \in Jobs : enabled[i] /\ next[i] <= t}}
      ordered == {q \in SetToSeqs(due) :
                    \A m, n \in 1 .. Len(q) : m < n => q[m].next <= q[n].next}
  IN {SubSeq(q, 1, IF Len(q) < Batch THEN Len(q) ELSE Batch) : q \in ordered}

\* pg_try_advisory_xact_lock: a tick that does not get the lock does nothing.
LockFree == leader = Nobody

\* The tick leads and reads the time and the due jobs.
Lead(w) ==
  /\ pc[w] = "idle"
  /\ LockFree
  /\ leader' = w
  /\ now' = [now EXCEPT ![w] = clock]
  /\ \E q \in DueJobs(clock) : todo' = [todo EXCEPT ![w] = q]
  /\ Goto(w, "fire")
  /\ UNCHANGED <<clock, jobVars, rows, ran, marked, drop, histories, events>>

\* MarkNextRun, from the schedule that DueJobs read; it locks the job row.
MarkNextRun(w, d) == [marked[w] EXCEPT ![d.job] = NextAfter(d.schedule, now[w])]

\* fireOne: StartRun, the job's work, FinishRun, MarkNextRun and
\* enforceRetention, which sees the committed rows and those of the tick.
\* Nobody else sees any of it yet. Whether the work succeeds makes no
\* difference to the schedule: a failure is recorded and an alert published.
Fire(w) ==
  /\ pc[w] = "fire"
  /\ todo[w] # << >>
  /\ LET d == Head(todo[w])
         run == [job |-> d.job, at |-> now[w], id |-> lastId + 1, ended |-> TRUE]
         seen == (rows \cup ran[w] \cup {run}) \ drop[w]
     IN /\ ran' = [ran EXCEPT ![w] = @ \cup {run}]
        /\ marked' = [marked EXCEPT ![w] = MarkNextRun(w, d)]
        /\ drop' = [drop EXCEPT ![w] = @ \cup PruneIDs(RunsOf(d.job, seen))]
        /\ fires' = [fires EXCEPT ![d.job] = @ + 1]
        /\ attempts' = [attempts EXCEPT ![d.job] = @ + 1]
  /\ todo' = [todo EXCEPT ![w] = Tail(@)]
  /\ lastId' = lastId + 1
  /\ UNCHANGED <<clock, jobVars, rows, leader, pc, now, undone, events>>

\* The end of the transaction releases the advisory lock.
Unlock(w) == Nobody

EndTick(w) ==
  /\ Goto(w, "idle")
  /\ leader' = Unlock(w)
  /\ now' = [now EXCEPT ![w] = 0]
  /\ todo' = [todo EXCEPT ![w] = << >>]
  /\ ran' = [ran EXCEPT ![w] = {}]
  /\ marked' = [marked EXCEPT ![w] = NotMarked]
  /\ drop' = [drop EXCEPT ![w] = {}]
  /\ UNCHANGED <<clock, schedule, enabled, lastId, attempts>>

CommitTick(w) ==
  /\ pc[w] = "fire"
  /\ todo[w] = << >>
  /\ rows' = (rows \cup ran[w]) \ drop[w]
  /\ next' = [j \in Jobs |-> IF marked[w][j] = -1 THEN next[j] ELSE marked[w][j]]
  /\ fires' = [j \in Jobs |-> IF marked[w][j] = -1 THEN fires[j] ELSE 0]
  /\ EndTick(w)
  /\ UNCHANGED <<undone, events>>

\* The process dies or a statement fails: PostgreSQL then refuses the rest of
\* the transaction, no further job is started and COMMIT rolls back.
DieTick(w) ==
  /\ pc[w] = "fire"
  /\ Counted
  /\ undone' = [j \in Jobs |-> undone[j] + Cardinality(RunsOf(j, ran[w]))]
  /\ EndTick(w)
  /\ UNCHANGED <<next, rows, fires>>

-----------------------------------------------------------------------------
(* HTTP requests: every statement commits by itself *)

\* Upsert waits for a tick that has updated the row.
Upsert(j, s, on) ==
  /\ Counted
  /\ \A w \in Replicas : marked[w][j] = -1
  /\ schedule' = [schedule EXCEPT ![j] = s]
  /\ enabled' = [enabled EXCEPT ![j] = on]
  /\ next' = [next EXCEPT ![j] = clock]
  /\ fires' = [fires EXCEPT ![j] = 0]
  /\ UNCHANGED <<clock, rows, leader, pc, tickVars, lastId, attempts, undone>>

\* RunNow: JobByCode and StartRun. Due or enabled does not matter.
StartManual(r, j) ==
  /\ pc[r] = "idle"
  /\ Counted
  /\ lastId' = lastId + 1
  /\ LET row == [job |-> j, at |-> clock, id |-> lastId + 1, ended |-> FALSE]
     IN /\ rows' = rows \cup {row}
        /\ ran' = [ran EXCEPT ![r] = {row}]
  /\ attempts' = [attempts EXCEPT ![j] = @ + 1]
  /\ Goto(r, "finish")
  /\ UNCHANGED <<clock, jobVars, leader, now, todo, marked, drop, fires, undone>>

\* The job's work and FinishRun; a row that has been pruned is an error. One that a
\* tick has deleted is locked until that tick ends, here and below.
FinishManual(r) ==
  /\ pc[r] = "finish"
  /\ \E row \in ran[r] :
       /\ \A w \in Replicas : row \notin drop[w]
       /\ IF row \in rows
          THEN LET done == [row EXCEPT !.ended = TRUE]
               IN /\ rows' = (rows \ {row}) \cup {done}
                  /\ ran' = [ran EXCEPT ![r] = {done}]
                  /\ Goto(r, "prune")
          ELSE /\ ran' = [ran EXCEPT ![r] = {}]
               /\ Goto(r, "idle")
               /\ UNCHANGED rows
  /\ UNCHANGED <<clock, jobVars, leader, now, todo, marked, drop, histories, events>>

\* enforceRetention.
PruneManual(r) ==
  /\ pc[r] = "prune"
  /\ \E row \in ran[r] :
       LET old == PruneIDs(RunsOf(row.job, rows))
       IN /\ \A w \in Replicas : old \cap drop[w] = {}
          /\ rows' = rows \ old
  /\ ran' = [ran EXCEPT ![r] = {}]
  /\ Goto(r, "idle")
  /\ UNCHANGED <<clock, jobVars, leader, now, todo, marked, drop, histories, events>>

\* A request that dies leaves its row as it is, running for ever perhaps.
DieManual(r) ==
  /\ pc[r] \in {"finish", "prune"}
  /\ ran' = [ran EXCEPT ![r] = {}]
  /\ Goto(r, "idle")
  /\ UNCHANGED <<clock, jobVars, rows, leader, now, todo, marked, drop, histories, events>>

Advance ==
  /\ clock < Horizon
  /\ clock' = clock + 1
  /\ UNCHANGED <<jobVars, rows, leader, pc, tickVars, histories, events>>

Next ==
  \/ Advance
  \/ \E w \in Replicas : Lead(w) \/ Fire(w) \/ CommitTick(w) \/ DieTick(w)
  \/ \E j \in Jobs, s \in Schedules, on \in BOOLEAN : Upsert(j, s, on)
  \/ \E r \in Callers :
       \/ \E j \in Jobs : StartManual(r, j)
       \/ FinishManual(r) \/ PruneManual(r) \/ DieManual(r)

\* The ticker of every replica keeps ticking, and a tick goes on to its end.
Fairness == \A w \in Replicas : SF_vars(Lead(w)) /\ WF_vars(Fire(w) \/ CommitTick(w))

Spec == Init /\ [][Next]_vars /\ Fairness

-----------------------------------------------------------------------------
(* Properties *)

\* However many replicas tick, a job is fired once per next_run_at, unless a
\* tick that fired it was rolled back (scheduler.go:19-25, 196-229).
FiredOnce == \A j \in Jobs : fires[j] <= 1 + undone[j]

\* Retention never takes one of a job's newest runs, whoever prunes and
\* whatever the others have not committed yet (domain.go:226-239,
\* scheduler.go:143-156).
KeepsNewestRuns ==
  \A j \in Jobs :
    LET committed == attempts[j] - undone[j]
                       - Cardinality(UNION {RunsOf(j, ran[w]) : w \in Replicas})
    IN Cardinality(RunsOf(j, rows)) >= IF committed < Retention THEN committed ELSE Retention

\* A due job does not stay due while replicas tick: it is fired, or somebody
\* disables or reschedules it, however many others are due and however many
\* ticks die (store.go:75-91, scheduler.go:86-101).
DueJobsFire ==
  \A j \in Jobs :
    (enabled[j] /\ next[j] <= clock) ~> (~enabled[j] \/ next[j] > clock)

=============================================================================
