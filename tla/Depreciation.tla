------------------------------ MODULE Depreciation ------------------------------
(***************************************************************************)
(* One asset with its depreciation schedule (backend/internal/assets):     *)
(* posting a period and disposing of the asset, each one transaction that  *)
(* joins its ledger entry. PostEntry takes the chain lock of the ledger    *)
(* and keeps it until the transaction ends, so what follows it is one      *)
(* action with the COMMIT. The version of the schedule is the client's.    *)
(***************************************************************************)
EXTENDS Integers, Sequences, FiniteSets, FiniteSetsExt

CONSTANTS
  Requests, \* concurrent HTTP requests
  Nobody,   \* the chain lock is free
  Journals,
  Plans,    \* the schedules considered: [cost, method, rateBps, periods]
  ChangeLimit \* bound: versions the asset goes through

WholeRate == 10000 \* all of it, in basis points

ConstantsOK ==
  /\ Nobody \notin Requests
  /\ ChangeLimit \in Nat
  /\ \A p \in Plans : /\ p.cost \in Nat \ {0} /\ p.periods \in Nat \ {0}
                      /\ p.method \in {"linear", "degressive"}
                      /\ p.method = "degressive" => p.rateBps \in 1 .. WholeRate

VARIABLES
  cost, plan, \* the schedule: its cost and the amount of each period
  posted, accumulated, version, \* of the schedule row
  asset,      \* the asset row: [status, version]
  locked,     \* the fiscal year of today is locked
  book,       \* committed entries: [ref, journal, amount], ref a period or Disposal
  skipped,    \* history: periods posted while the year was locked
  chain,      \* holder of the chain lock
  pc, work    \* per request: the statement that comes next, what it has read

rowVars == <<cost, plan, posted, accumulated, version, asset, locked, book, skipped>>
vars == <<cost, plan, posted, accumulated, version, asset, locked, book, skipped,
          chain, pc, work>>

-----------------------------------------------------------------------------
(* BuildSchedule *)

Linear(p) ==
  LET base == p.cost \div p.periods
  IN [i \in 1 .. p.periods |->
        IF i = p.periods THEN p.cost - (p.periods - 1) * base ELSE base]

\* What is left after each period; the last one takes all of it.
Remaining(p) ==
  LET left[i \in 0 .. p.periods] ==
        IF i = 0 THEN p.cost
        ELSE IF i = p.periods THEN 0
        ELSE left[i - 1] - Min({left[i - 1], (left[i - 1] * p.rateBps + 5000) \div 10000})
  IN left

BuildSchedule(p) ==
  IF p.method = "linear" THEN Linear(p)
  ELSE LET left == Remaining(p) IN [i \in 1 .. p.periods |-> left[i - 1] - left[i]]

Done == posted = Len(plan)

Disposal == 0 \* the reference of the other entry

-----------------------------------------------------------------------------
NoWork == [ref |-> 0, journal |-> "none", amount |-> 0, version |-> 0, posts |-> FALSE]

TypeOK ==
  /\ plan \in Seq(Nat)
  /\ cost \in Nat \ {0} /\ accumulated \in 0 .. cost
  /\ posted \in 0 .. Len(plan) /\ version = posted + 1
  /\ asset \in [status : {"in_service", "maintenance", "retired"}, version : 1 .. ChangeLimit]
  /\ locked \in BOOLEAN
  /\ \A e \in book : e.journal \in Journals /\ e.amount \in 0 .. cost
  /\ skipped \subseteq DOMAIN plan
  /\ chain \in Requests \cup {Nobody}
  /\ pc \in [Requests -> {"idle", "post entry", "mark", "post disposal", "retire"}]

Init ==
  /\ \E p \in Plans : cost = p.cost /\ plan = BuildSchedule(p)
  /\ posted = 0 /\ accumulated = 0 /\ version = 1
  /\ asset = [status |-> "in_service", version |-> 1]
  /\ locked = FALSE
  /\ book = {} /\ skipped = {}
  /\ chain = Nobody
  /\ pc = [r \in Requests |-> "idle"]
  /\ work = [r \in Requests |-> NoWork]

Goto(r, label) == pc' = [pc EXCEPT ![r] = label]

\* The transaction ends, and with it its hold on the chain lock.
Finish(r) ==
  /\ Goto(r, "idle")
  /\ work' = [work EXCEPT ![r] = NoWork]
  /\ chain' = IF chain = r THEN Nobody ELSE chain

\* PostEntry: a locked year posts nothing, and the caller is not told; a
\* reference its journal has already aborts the transaction.
PostEntry(r, next) ==
  /\ chain = Nobody
  /\ IF ~locked /\ \E e \in book : e.ref = work[r].ref /\ e.journal = work[r].journal
     THEN Finish(r)
     ELSE /\ chain' = r
          /\ Goto(r, next)
          /\ work' = [work EXCEPT ![r].posts = ~locked]
  /\ UNCHANGED rowVars

Posted(r) ==
  IF work[r].posts
  THEN book \cup {[ref |-> work[r].ref, journal |-> work[r].journal, amount |-> work[r].amount]}
  ELSE book

-----------------------------------------------------------------------------
(* Post: one period *)

\* An entry of nothing is refused by Entry.Validate.
StartPost(r, j, v) ==
  /\ pc[r] = "idle"
  /\ ~Done
  /\ plan[posted + 1] > 0
  /\ work' = [work EXCEPT ![r] = [ref |-> posted + 1, journal |-> j,
                                 amount |-> plan[posted + 1], version |-> v, posts |-> FALSE]]
  /\ Goto(r, "post entry")
  /\ UNCHANGED <<rowVars, chain>>

PostPeriod(r) == pc[r] = "post entry" /\ PostEntry(r, "mark")

\* Mutant: the schedule is advanced whatever its version.
SameScheduleAlways(r) == TRUE

SameSchedule(r) == version = work[r].version

MarkSchedulePosted(r) ==
  /\ pc[r] = "mark"
  /\ IF SameSchedule(r) /\ ~Done /\ accumulated + work[r].amount <= cost
     THEN /\ posted' = posted + 1
          /\ accumulated' = accumulated + work[r].amount
          /\ version' = version + 1
          /\ book' = Posted(r)
          /\ skipped' = IF work[r].posts THEN skipped ELSE skipped \cup {posted'}
     ELSE UNCHANGED <<posted, accumulated, version, book, skipped>>
  /\ Finish(r)
  /\ UNCHANGED <<cost, plan, asset, locked>>

-----------------------------------------------------------------------------
(* Dispose *)

\* The asset and what its schedule has accumulated are read, before the lock.
StartDispose(r, j) ==
  /\ pc[r] = "idle"
  /\ work' = [work EXCEPT ![r] = [ref |-> Disposal, journal |-> j, amount |-> accumulated,
                                 version |-> asset.version, posts |-> FALSE]]
  /\ Goto(r, "post disposal")
  /\ UNCHANGED <<rowVars, chain>>

PostDisposal(r) == pc[r] = "post disposal" /\ PostEntry(r, "retire")

Retire(r) ==
  /\ pc[r] = "retire"
  /\ IF asset.version = work[r].version /\ asset.status # "retired"
     THEN /\ asset' = [status |-> "retired", version |-> asset.version + 1]
          /\ book' = Posted(r)
     ELSE UNCHANGED <<asset, book>>
  /\ Finish(r)
  /\ UNCHANGED <<cost, plan, posted, accumulated, version, locked, skipped>>

-----------------------------------------------------------------------------
\* By hand, in one step as in Lifecycles.
SetAssetStatus(to) ==
  /\ asset.status # "retired" /\ to # asset.status
  /\ asset.version < ChangeLimit - 1
  /\ asset' = [status |-> to, version |-> asset.version + 1]
  /\ UNCHANGED <<cost, plan, posted, accumulated, version, locked, book, skipped,
                 chain, pc, work>>

\* The year is closed or opened again.
LockYear ==
  /\ locked' = ~locked
  /\ UNCHANGED <<cost, plan, posted, accumulated, version, asset, book, skipped,
                 chain, pc, work>>

Crash(r) ==
  /\ pc[r] # "idle"
  /\ Finish(r)
  /\ UNCHANGED rowVars

Next ==
  \/ LockYear
  \/ \E to \in {"in_service", "maintenance", "retired"} : SetAssetStatus(to)
  \/ \E r \in Requests :
       \/ \E j \in Journals, v \in 1 .. version : StartPost(r, j, v)
       \/ \E j \in Journals : StartDispose(r, j)
       \/ PostPeriod(r) \/ MarkSchedulePosted(r) \/ PostDisposal(r) \/ Retire(r) \/ Crash(r)

Spec == Init /\ [][Next]_vars

-----------------------------------------------------------------------------
(* Properties *)

\* The schedule and the ledger agree, in whatever journals and however often a
\* period is asked for: what has accumulated is the sum of the periods posted,
\* all of the cost when the schedule is done; each of them has its one entry, of
\* its amount, unless its year was locked; and an asset that was disposed of is
\* retired, once (assets/dep_service.go:84-115, schedule_store.go:73-110).
DepreciationIsBooked ==
  LET entry(ref) == {e \in book : e.ref = ref}
  IN /\ accumulated = MapThenSumSet(LAMBDA i : plan[i], 1 .. posted)
     /\ Done => accumulated = cost
     /\ \A e \in book : e.ref # Disposal => e.ref \in 1 .. posted /\ e.amount = plan[e.ref]
     /\ \A i \in 1 .. posted : Cardinality(entry(i)) = IF i \in skipped THEN 0 ELSE 1
     /\ entry(Disposal) # {} => asset.status = "retired"
     /\ Cardinality(entry(Disposal)) <= 1

\* "the plan always sums to exactly cost" (assets/depreciation.go:81-86).
SchedulesSumToCost(P) == \A p \in P :
  LET made == BuildSchedule(p)
  IN /\ \A i \in DOMAIN made : made[i] >= 0
     /\ MapThenSumSet(LAMBDA i : made[i], DOMAIN made) = p.cost

-----------------------------------------------------------------------------
(* What the repository says of the code and the code does not do. *)

\* "zeros are kept as-is and the remainder lands on the final period"
\* (assets/depreciation.go:90-92): a period of nothing cannot be posted.
EveryPeriodCanBePosted == ~Done => plan[posted + 1] > 0

\* "Gain = proceeds - (cost - accumulated)" (assets/dep_service.go:133): a disposal
\* is booked with what has accumulated by then, a period posted while it waited
\* for the chain lock included.
DisposalKnowsItsBooks ==
  [][\A e \in book' \ book : e.ref = Disposal => e.amount = accumulated]_vars
=============================================================================
