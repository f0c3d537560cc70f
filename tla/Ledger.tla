-------------------------------- MODULE Ledger --------------------------------
(***************************************************************************)
(* The general ledger of one entity (backend/internal/finance): PostEntry, *)
(* invoice auto-posting, year-end close and reopen, and the posting of a   *)
(* payroll run (backend/internal/hr), which joins its ledger entry to its  *)
(* own transaction.  Concurrent requests against PostgreSQL at READ        *)
(* COMMITTED.                                                              *)
(*                                                                         *)
(* One action is one SQL statement that reads or locks what another        *)
(* request may change.  The statements of a transaction that follow its    *)
(* last such read are taken together with its COMMIT: nobody sees them     *)
(* earlier, and the row locks they take are held by no other statement of  *)
(* this system that waits.  A request can die at any point (Crash): its    *)
(* open transaction rolls back and its locks go.                           *)
(***************************************************************************)
EXTENDS Books, FiniteSets

CONSTANTS
  Reqs,      \* concurrent requests (HTTP handlers and event subscribers)
  NoReq,     \* nobody: the advisory lock is free
  Years,     \* ferp_fiscal_years rows that may be created
  Span,      \* Span[y]: the dates between a year's start_date and end_date
  Posts,     \* the entries POST /finance/entries may be asked to post
  Closings,  \* [year, journal, ref, date] bodies of POST .../close
  Docs,      \* commercial invoices
  DocEntry,  \* DocEntry[d]: the entry auto-posting derives from invoice d
  Runs,      \* payroll runs that have lines
  RunEntry,  \* RunEntry[p]: the entry posted for payroll run p
  Nothing    \* an unset target or draft

ASSUME LedgerAssumption ==
  /\ NoReq \notin Reqs
  /\ Span \in [Years -> SUBSET Dates]
  /\ Posts \subseteq Content
  /\ Closings \subseteq [year : Years, journal : Journals, ref : Refs, date : Dates]
  /\ DocEntry \in [Docs -> Content]
  /\ RunEntry \in [Runs -> Content]

\* "PAY-" and the number of the run is nobody else's reference
\* (hr/payroll_service.go:102): no entry that is asked for by hand, derived from
\* an invoice or built by a close is the entry of a run.
RunsAreApart ==
  \A p \in Runs :
    /\ RunEntry[p] \notin Posts
    /\ \A d \in Docs : DocEntry[d] # RunEntry[p]
    /\ \A q \in Runs \ {p} : RunEntry[q] # RunEntry[p]
    /\ \A c \in Closings : c.ref # RunEntry[p].ref

VARIABLES
  entries,   \* committed ferp_entries of the entity, in id order
  fiscal,    \* per year: "absent", "open" or "locked"
  trail,     \* per year: the actions of its ferp_close_log rows, in id order
  doc,       \* per invoice: its status as LoadValidatedInvoice sees it
  postings,  \* ferp_account_postings: per invoice its entry's position, 0 for none
  runs,      \* per payroll run: its status
  chainLock, \* holder of pg_advisory_xact_lock(hashtext('ferp_entries'), entity)
  pc,        \* per request: the statement it runs next, "idle" between requests
  kind,      \* per request: "post", "auto", "run", "close" or "reopen"
  target,    \* per request: the invoice, run, closing or year it works on
  draft,     \* per request: the entry being posted
  head,      \* per request: the chain head it read
  reply      \* per request: the outcome of its last run

ledgerVars == <<entries, fiscal, trail, doc, postings, runs, chainLock>>
reqVars == <<pc, kind, target, draft, head, reply>>
vars == <<entries, fiscal, trail, doc, postings, runs, chainLock,
          pc, kind, target, draft, head, reply>>

\* "answered": with its result, a refusal, a replay or a skip, or not at all;
\* the others are the unique violations that surface as errors.
Replies == {"answered", "fork", "duplicate_ref", "duplicate_autopost"}

TypeOK ==
  /\ entries \in Seq(Entry)
  /\ fiscal \in [Years -> {"absent", "open", "locked"}]
  /\ trail \in [Years -> Seq({"close", "reopen"})]
  /\ doc \in [Docs -> {"draft", "validated", "settled"}]
  /\ postings \in [Docs -> 0 .. Len(entries)]
  /\ runs \in [Runs -> {"draft", "posted"}]
  /\ chainLock \in Reqs \cup {NoReq}
  /\ pc \in [Reqs -> {"idle", "find", "load", "claim", "year", "trial", "lock", "check",
                      "head", "insert", "record", "unlock"}]
  /\ kind \in [Reqs -> {"post", "auto", "run", "close", "reopen"}]
  /\ target \in [Reqs -> Years \cup Docs \cup Runs \cup Closings \cup {Nothing}]
  /\ draft \in [Reqs -> Content \cup {Nothing}]
  /\ head \in [Reqs -> Hash]
  /\ reply \in [Reqs -> Replies]

Init ==
  /\ entries = << >>
  /\ fiscal = [y \in Years |-> "absent"]
  /\ trail = [y \in Years |-> << >>]
  /\ doc = [d \in Docs |-> "draft"]
  /\ postings = [d \in Docs |-> 0]
  /\ runs = [p \in Runs |-> "draft"]
  /\ chainLock = NoReq
  /\ pc = [r \in Reqs |-> "idle"]
  /\ kind = [r \in Reqs |-> "post"]
  /\ target = [r \in Reqs |-> Nothing]
  /\ draft = [r \in Reqs |-> Nothing]
  /\ head = [r \in Reqs |-> GenesisHash]
  /\ reply = [r \in Reqs |-> "answered"]

-----------------------------------------------------------------------------
(* Steps of a request. *)

Goto(r, from, to) ==
  /\ pc[r] = from
  /\ pc' = [pc EXCEPT ![r] = to]

\* The request ends: the handler answers and the transaction is over.
Answer(r, outcome) ==
  /\ pc' = [pc EXCEPT ![r] = "idle"]
  /\ reply' = [reply EXCEPT ![r] = outcome]
  /\ target' = [target EXCEPT ![r] = Nothing]
  /\ draft' = [draft EXCEPT ![r] = Nothing]
  /\ head' = [head EXCEPT ![r] = GenesisHash]
  /\ kind' = [kind EXCEPT ![r] = "post"]

\* finish(err), COMMIT and a dead connection all release a lock r holds.
ReleaseChain(r) ==
  chainLock' = IF chainLock = r THEN NoReq ELSE chainLock

Begin(r, what, on, first) ==
  /\ Goto(r, "idle", first)
  /\ kind' = [kind EXCEPT ![r] = what]
  /\ target' = [target EXCEPT ![r] = on]
  /\ reply' = [reply EXCEPT ![r] = "answered"]
  /\ UNCHANGED <<ledgerVars, head>>

\* Mutant: an error path that returns without finish(err) leaks the transaction.
FailWithoutRollback(r, outcome) ==
  /\ Answer(r, outcome)
  /\ UNCHANGED ledgerVars

\* The error return of a step: rollback, no effect but the reply.
Fail(r, outcome) ==
  /\ Answer(r, outcome)
  /\ ReleaseChain(r)
  /\ UNCHANGED <<entries, fiscal, trail, doc, postings, runs>>

-----------------------------------------------------------------------------
(* PostEntry. *)

\* POST /finance/entries; Entry.Validate runs before the transaction opens.
RequestPost(r, c) ==
  /\ Valid(c.legs)
  /\ Begin(r, "post", Nothing, "lock")
  /\ draft' = [draft EXCEPT ![r] = c]

AcquireChain(r) ==
  /\ chainLock = NoReq
  /\ Goto(r, "lock", "check")
  /\ chainLock' = r
  /\ UNCHANGED <<entries, fiscal, trail, doc, postings, runs, kind, target, draft, head, reply>>

\* Mutant: BOOL_AND instead of BOOL_OR over overlapping years.
LockedForAll(date) ==
  /\ \E y \in Years : date \in Span[y] /\ fiscal[y] = "locked"
  /\ \A y \in Years : date \in Span[y] => fiscal[y] # "open"

\* BOOL_OR(locked) over the fiscal years that contain the date.
LockedFor(date) == \E y \in Years : date \in Span[y] /\ fiscal[y] = "locked"

\* Mutant: the run is flipped later, outside the transaction of its entry.
CommitRunLater(p) == UNCHANGED runs

\* What commits with the entry of a payroll run: its status.
CommitRun(p) == runs' = [runs EXCEPT ![p] = "posted"]

(***************************************************************************)
(* A locked year refuses the entry.  PostEntry returns finish(err), which  *)
(* is nil when JoinTx joined the caller's transaction: a payroll run       *)
(* commits as if it had its entry.  CloseYear is carried on to LogClose    *)
(* too, whose entry_id 0 violates its foreign key and fails the close.     *)
(***************************************************************************)
CheckYear(r) ==
  /\ pc[r] = "check"
  /\ \/ /\ ~ LockedFor(draft[r].date)
        /\ Goto(r, "check", "head")
        /\ UNCHANGED <<ledgerVars, kind, target, draft, head, reply>>
     \/ /\ LockedFor(draft[r].date)
        /\ kind[r] # "run"
        /\ Fail(r, "answered")
     \/ /\ LockedFor(draft[r].date)
        /\ kind[r] = "run"
        /\ CommitRun(target[r])
        /\ Answer(r, "answered")
        /\ ReleaseChain(r)
        /\ UNCHANGED <<entries, fiscal, trail, doc, postings>>

\* SELECT chain_hash ... ORDER BY id DESC LIMIT 1.
ChainHead ==
  IF entries = << >> THEN GenesisHash ELSE entries[Len(entries)].hash

ReadHead(r) ==
  /\ Goto(r, "head", "insert")
  /\ head' = [head EXCEPT ![r] = ChainHead]
  /\ UNCHANGED <<ledgerVars, kind, target, draft, reply>>

\* UNIQUE (entity_id, journal_id, ref)
DuplicateRef(c) ==
  \E i \in 1 .. Len(entries) :
    /\ entries[i].content.journal = c.journal
    /\ entries[i].content.ref = c.ref

\* UNIQUE (entity_id, prev_hash)
Forks(prev) == \E i \in 1 .. Len(entries) : entries[i].prev = prev

\* Mutant: the hash starts from genesis instead of the head.
NewEntryFromGenesis(r) ==
  [content |-> draft[r], prev |-> head[r], hash |-> Chain(GenesisHash, draft[r])]

NewEntry(r) == [content |-> draft[r], prev |-> head[r], hash |-> Chain(head[r], draft[r])]

\* Mutant: the close is not logged.
CommitCloseUnlogged(y) ==
  /\ fiscal' = [fiscal EXCEPT ![y] = "locked"]
  /\ UNCHANGED trail

\* What commits with the entry: for a close the year's lock and its log row.
CommitClose(y) ==
  /\ fiscal' = [fiscal EXCEPT ![y] = "locked"]
  /\ trail' = [trail EXCEPT ![y] = Append(@, "close")]

InsertEntry(r) ==
  /\ pc[r] = "insert"
  /\ ~ Forks(head[r])
  /\ ~ DuplicateRef(draft[r])
  /\ entries' = Append(entries, NewEntry(r))
  /\ ReleaseChain(r)
  /\ UNCHANGED <<doc, postings>>
  /\ \/ /\ kind[r] = "post"
        /\ Answer(r, "answered")
        /\ UNCHANGED <<fiscal, trail, runs>>
     \/ /\ kind[r] = "close"
        /\ CommitClose(target[r].year)
        /\ Answer(r, "answered")
        /\ UNCHANGED runs
     \/ /\ kind[r] = "run"
        /\ CommitRun(target[r])
        /\ Answer(r, "answered")
        /\ UNCHANGED <<fiscal, trail>>
     \/ /\ kind[r] = "auto"
        /\ pc' = [pc EXCEPT ![r] = "record"]
        /\ UNCHANGED <<fiscal, trail, runs, kind, target, draft, head, reply>>

\* A unique violation aborts the transaction, joined or not: whatever the
\* caller does next, COMMIT included, fails.
InsertConflict(r) ==
  /\ pc[r] = "insert"
  /\ \/ Forks(head[r]) /\ Fail(r, "fork")
     \/ /\ ~ Forks(head[r])
        /\ DuplicateRef(draft[r])
        /\ Fail(r, IF kind[r] = "auto" THEN "duplicate_autopost" ELSE "duplicate_ref")

-----------------------------------------------------------------------------
(* Invoice auto-posting: Poster.PostValidated, from the status event or    *)
(* from the operator's trigger.                                            *)

RequestAutoPost(r, d) ==
  /\ Begin(r, "auto", d, "find")
  /\ UNCHANGED draft

FindPosting(r) ==
  /\ pc[r] = "find"
  /\ \/ /\ postings[target[r]] = 0
        /\ Goto(r, "find", "load")
        /\ UNCHANGED <<ledgerVars, kind, target, draft, head, reply>>
     \/ /\ postings[target[r]] # 0
        /\ Fail(r, "answered")

\* LoadValidatedInvoice, the journal and the account bindings; a missing
\* journal or binding refuses the posting.
LoadInvoice(r) ==
  /\ pc[r] = "load"
  /\ \/ /\ doc[target[r]] = "validated"
        /\ Valid(DocEntry[target[r]].legs)
        /\ Goto(r, "load", "lock")
        /\ draft' = [draft EXCEPT ![r] = DocEntry[target[r]]]
        /\ UNCHANGED <<ledgerVars, kind, target, head, reply>>
     \/ /\ doc[target[r]] # "validated"
        /\ Fail(r, "answered")
     \/ /\ doc[target[r]] = "validated"
        /\ Fail(r, "answered")

\* Mutants: the posting row takes the latest entry, or the next one.
LatestEntry(r) == Len(entries)
NextEntry(r) == Len(entries) + 1

\* The position of the entry r has just committed.
OwnEntry(r) == CHOOSE i \in 1 .. Len(entries) : entries[i].content = draft[r]

\* A transaction of its own; on a unique violation the winner's row is read.
RecordPosting(r) ==
  /\ pc[r] = "record"
  /\ \/ /\ postings[target[r]] = 0
        /\ postings' = [postings EXCEPT ![target[r]] = OwnEntry(r)]
        /\ Answer(r, "answered")
        /\ UNCHANGED <<entries, fiscal, trail, doc, runs, chainLock>>
     \/ /\ postings[target[r]] # 0
        /\ Fail(r, "answered")

-----------------------------------------------------------------------------
(* Payroll: PayrollService.Post flips the run, then posts its entry, in    *)
(* one transaction.                                                        *)

RequestRun(r, p) ==
  /\ Valid(RunEntry[p].legs)
  /\ Begin(r, "run", p, "claim")
  /\ UNCHANGED draft

\* The row lock of SetPayrollRunStatus, held to the end of the transaction.
RunTaken(r) ==
  \E s \in Reqs \ {r} :
    /\ kind[s] = "run"
    /\ target[s] = target[r]
    /\ pc[s] \in {"lock", "check", "head", "insert"}

\* SetPayrollRunStatus: UPDATE ... WHERE row_version waits for the row, then
\* finds the version it was given or fails.
ClaimRun(r) ==
  /\ pc[r] = "claim"
  /\ ~ RunTaken(r)
  /\ \/ /\ runs[target[r]] = "draft"
        /\ Goto(r, "claim", "lock")
        /\ draft' = [draft EXCEPT ![r] = RunEntry[target[r]]]
        /\ UNCHANGED <<ledgerVars, kind, target, head, reply>>
     \/ /\ runs[target[r]] # "draft"
        /\ Fail(r, "answered")

-----------------------------------------------------------------------------
(* Year-end close and reopen. *)

RequestClose(r, c) ==
  /\ Begin(r, "close", c, "year")
  /\ UNCHANGED draft

RequestReopen(r, y) ==
  /\ Begin(r, "reopen", y, "year")
  /\ UNCHANGED draft

\* FiscalYearByID and the checks on the row it returns.
CanCloseYear(c) == fiscal[c.year] = "open" /\ c.date \in Span[c.year]

ReadYear(r) ==
  /\ pc[r] = "year"
  /\ \/ /\ kind[r] = "close" /\ CanCloseYear(target[r])
        /\ Goto(r, "year", "trial")
        /\ UNCHANGED <<ledgerVars, kind, target, draft, head, reply>>
     \/ /\ kind[r] = "reopen" /\ fiscal[target[r]] = "locked"
        /\ Goto(r, "year", "unlock")
        /\ UNCHANGED <<ledgerVars, kind, target, draft, head, reply>>
     \/ /\ \/ kind[r] = "close" /\ ~ CanCloseYear(target[r])
           \/ kind[r] = "reopen" /\ fiscal[target[r]] # "locked"
        /\ Fail(r, "answered")

\* TrialBalance and BuildClosingLines, before PostEntry takes its lock.
ReadTrial(r) ==
  LET trial == TrialBalance(entries)
      c == target[r]
  IN /\ pc[r] = "trial"
     /\ \/ /\ CanClose(trial)
           /\ Goto(r, "trial", "lock")
           /\ draft' = [draft EXCEPT ![r] =
                [journal |-> c.journal, ref |-> c.ref, date |-> c.date,
                 legs |-> ClosingLegs(trial)]]
           /\ UNCHANGED <<ledgerVars, kind, target, head, reply>>
        \/ /\ ~ CanClose(trial)
           /\ Fail(r, "answered")

\* SetFiscalYearLocked(false), LogClose and COMMIT.
CommitReopen(r) ==
  /\ pc[r] = "unlock"
  /\ fiscal' = [fiscal EXCEPT ![target[r]] = "open"]
  /\ trail' = [trail EXCEPT ![target[r]] = Append(@, "reopen")]
  /\ Answer(r, "answered")
  /\ UNCHANGED <<entries, doc, postings, runs, chainLock>>

-----------------------------------------------------------------------------
(* The rest of the system. *)

CreateFiscalYear(y) ==
  /\ fiscal[y] = "absent"
  /\ fiscal' = [fiscal EXCEPT ![y] = "open"]
  /\ UNCHANGED <<entries, trail, doc, postings, runs, chainLock, reqVars>>

\* The invoice is validated, then leaves "validated" (part paid, paid, cancelled).
MoveInvoice(d) ==
  /\ \/ doc[d] = "draft" /\ doc' = [doc EXCEPT ![d] = "validated"]
     \/ doc[d] # "settled" /\ doc' = [doc EXCEPT ![d] = "settled"]
  /\ UNCHANGED <<entries, fiscal, trail, postings, runs, chainLock, reqVars>>

Crash(r) ==
  /\ pc[r] # "idle"
  /\ Fail(r, "answered")

Request(r) ==
  \/ \E c \in Posts : RequestPost(r, c)
  \/ \E d \in Docs : RequestAutoPost(r, d)
  \/ \E p \in Runs : RequestRun(r, p)
  \/ \E c \in Closings : RequestClose(r, c)
  \/ \E y \in Years : RequestReopen(r, y)

\* Everything a running request does by itself, the waits for locks aside.
Continue(r) ==
  \/ CheckYear(r)
  \/ ReadHead(r)
  \/ InsertEntry(r)
  \/ InsertConflict(r)
  \/ FindPosting(r)
  \/ LoadInvoice(r)
  \/ RecordPosting(r)
  \/ ReadYear(r)
  \/ ReadTrial(r)
  \/ CommitReopen(r)

Next ==
  \/ \E r \in Reqs :
       Request(r) \/ ClaimRun(r) \/ AcquireChain(r) \/ Continue(r) \/ Crash(r)
  \/ \E y \in Years : CreateFiscalYear(y)
  \/ \E d \in Docs : MoveInvoice(d)

Spec == Init /\ [][Next]_vars

(***************************************************************************)
(* Fairness.  A request that has a statement to run runs it; PostgreSQL    *)
(* grants advisory and row locks in arrival order, so a waiting request is *)
(* not passed over for ever (strong fairness).  Nothing makes clients send *)
(* requests, and nothing makes a request die.                              *)
(***************************************************************************)
Fairness ==
  \A r \in Reqs :
    WF_vars(Continue(r)) /\ SF_vars(AcquireChain(r)) /\ SF_vars(ClaimRun(r))

FairSpec == Spec /\ Fairness

-----------------------------------------------------------------------------
(* Properties. *)

\* PostEntry links every entry to the one committed before it, whatever the
\* interleaving: the whole-entity chain always verifies (store.go:203-219).
ChainIntact == VerifyChain(entries)

\* "Serialize posters per entity so concurrent writers queue on the chain head
\* instead of forking it" (store.go:186): the UNIQUE (entity_id, prev_hash)
\* backstop is never what stops a request.
NeverForks == \A r \in Reqs : reply[r] # "fork"

\* What VerifyChain is for: changing the content of a posted entry, dropping an
\* entry that has a successor or exchanging two neighbours is detected.
TamperEvident ==
  \A i \in 1 .. Len(entries) :
    /\ \A p \in Posts :
         \A forged \in {p, [entries[i].content EXCEPT !.legs = p.legs]} :
           forged # entries[i].content =>
             ~ VerifyChain([entries EXCEPT ![i].content = forged])
    /\ i < Len(entries) =>
         /\ ~ VerifyChain(SubSeq(entries, 1, i - 1) \o SubSeq(entries, i + 1, Len(entries)))
         /\ ~ VerifyChain([entries EXCEPT ![i] = entries[i + 1], ![i + 1] = entries[i]])

\* The close log tells the state of a year: it is locked exactly when its last
\* row is a close, and two closes have a reopen between them, however closes
\* and reopens race (service.go:81-167).
TrailExplainsLock ==
  \A y \in Years :
    LET t == trail[y] IN
      /\ fiscal[y] = "locked" <=> (t # << >> /\ t[Len(t)] = "close")
      /\ \A i \in 1 .. Len(t) - 1 : t[i] = "close" => t[i + 1] = "reopen"

\* A posting row names the one entry its invoice was posted by, although the
\* row is written after the entry's transaction (autopost.go:267-277).
PostedOnce ==
  \A d \in Docs : postings[d] # 0 =>
    \A i \in 1 .. Len(entries) :
      /\ i = postings[d] => entries[i].content = DocEntry[d]
      /\ i # postings[d] =>
           \/ entries[i].content.ref # DocEntry[d].ref
           \/ entries[i].content.journal # DocEntry[d].journal

\* "the draft->posted flip and the balanced ledger entry commit atomically"
\* (payroll_service.go:14), one way round: an entry in the ledger is the entry
\* of a run that is posted, and no run is booked twice.
EntryHasItsRun ==
  \A p \in Runs :
    LET booked == {i \in 1 .. Len(entries) : entries[i].content = RunEntry[p]}
    IN booked # {} => runs[p] = "posted" /\ Cardinality(booked) = 1

\* BuildClosingLines on the current trial balance: the legs balance and leave
\* every revenue and expense account at zero (tax.go:168-211).
CloseIsExact ==
  LET trial == TrialBalance(entries)
      legs == ClosingLegs(trial)
  IN CanClose(trial) =>
       /\ Valid(legs)
       /\ \A a \in ProfitAndLoss : trial[a] + legs[a] = 0

\* Every request is answered: the chain lock is released on every path out of
\* PostEntry, the refusals and the rollbacks included (store.go:190-231).
RequestsFinish == \A r \in Reqs : pc[r] # "idle" ~> pc[r] = "idle"

\* The abstract ledger: append-only, a reference once per journal, nothing
\* posted into a closed year, the closing entry and the lock in one step.
Covers(y, e) == e.date \in Span[y]
SameKey(e, f) == e.journal = f.journal /\ e.ref = f.ref
Book == [i \in 1 .. Len(entries) |-> entries[i].content]
ClosedYears == {y \in Years : fiscal[y] = "locked"}

Promise == INSTANCE LedgerPromise WITH
  Entries <- Content, book <- Book, closed <- ClosedYears

KeepsPromise == Promise!PromiseSpec

-----------------------------------------------------------------------------
(* What the repository says of the code and the code does not do. *)

\* "replays and concurrent racers return the existing entry instead of
\* double-posting" (autopost.go:5): no auto-post ends in a conflict.
RacersReturnTheExistingEntry ==
  \A r \in Reqs : reply[r] # "duplicate_autopost"

\* "a ledger failure rolls the run back to draft instead of stranding it as
\* posted" (payroll_service.go:15): a posted run has its entry.
PostedRunHasItsEntry ==
  \A p \in Runs : runs[p] = "posted" =>
    \E i \in 1 .. Len(entries) : entries[i].content = RunEntry[p]

\* CloseCmd "posts the P&L carry-forward entry moving balances to retained
\* earnings, then locks the year" (service.go:66): a locked year's revenue and
\* expense accounts net to zero over the entries dated in it.
ClosedYearIsCarriedForward ==
  \A y \in ClosedYears : \A a \in ProfitAndLoss :
    MapThenSumSet(LAMBDA i : entries[i].content.legs[a],
                  {i \in 1 .. Len(entries) : entries[i].content.date \in Span[y]}) = 0

\* "VerifyChain recomputes the tamper-evident chain for a journal"
\* (handler.go:241): an untouched journal is reported valid.
JournalEntries(j) == SelectSeq(entries, LAMBDA e : e.content.journal = j)
JournalChainVerifies == \A j \in Journals : VerifyChain(JournalEntries(j))
=============================================================================
