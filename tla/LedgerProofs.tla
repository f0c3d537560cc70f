---------------------------- MODULE LedgerProofs ----------------------------
(***************************************************************************)
(* The safety of Ledger, for any number of requests, entries, years,       *)
(* invoices and accounts: types, then the chain lock, which makes its      *)
(* holder the only request that moves the chain head or closes a year, and *)
(* what follows for the chain, the trail, the abstract ledger, the posting *)
(* rows, the payroll runs and the closing entries.                         *)
(***************************************************************************)
EXTENDS Ledger, Sums

\* The statements at which a request holds the chain lock.
Critical == {"check", "head", "insert"}

\* The statements at which a request has an entry in hand.
Posting == Critical \cup {"lock", "record"}

\* What the program counter of a request says of its job.
JobOK ==
  \A r \in Reqs :
    /\ pc[r] \in Posting => draft[r] \in Content
    /\ pc[r] \in {"find", "load", "record"} => target[r] \in Docs
    /\ pc[r] = "trial" => target[r] \in Closings
    /\ pc[r] = "year" =>
         \/ kind[r] = "close" /\ target[r] \in Closings
         \/ kind[r] = "reopen" /\ target[r] \in Years
    /\ pc[r] = "unlock" => target[r] \in Years
    /\ pc[r] = "claim" => kind[r] = "run" /\ target[r] \in Runs
    /\ pc[r] \in Posting /\ kind[r] = "run" => target[r] \in Runs
    /\ pc[r] = "trial" => kind[r] = "close"
    /\ pc[r] = "load" => kind[r] = "auto"
    /\ pc[r] = "find" => kind[r] = "auto"
    /\ pc[r] \in Posting /\ kind[r] = "close" =>
         target[r] \in Closings /\ draft[r].date = target[r].date
    /\ pc[r] \in Posting /\ kind[r] = "auto" => target[r] \in Docs
    /\ pc[r] = "record" => \E i \in 1 .. Len(entries) : entries[i].content = draft[r]

TypeInv == TypeOK /\ JobOK

\* Legs that BuildClosingLines returns are integers.
LEMMA ClosingLegsType ==
  ASSUME NEW trial, CanClose(trial)
  PROVE  ClosingLegs(trial) \in Legs
<1>1. Income(trial) \in Int
  BY DEF CanClose, NonZero
<1>2. \A a \in ToClose(trial) : trial[a] \in Int
  BY DEF ToClose, NonZero
<1> QED
  BY <1>1, <1>2 DEF ClosingLegs, Legs

LEMMA InitType == Init => TypeInv
  BY LedgerAssumption DEF Init, TypeInv, TypeOK, JobOK, GenesisHash, Hash, Posting, Critical, Replies

-----------------------------------------------------------------------------
(* The steps that every action is built from preserve the invariant. *)

\* The end of a request changes nothing the other requests know.
LEMMA FailType ==
  ASSUME TypeInv, NEW r \in Reqs, NEW outcome \in Replies, Fail(r, outcome)
  PROVE  TypeInv'
<1>1. TypeOK'
  BY DEF TypeInv, TypeOK, Fail, Answer, ReleaseChain, GenesisHash, Hash
<1>2. JobOK'
  BY DEF TypeInv, TypeOK, JobOK, Fail, Answer, ReleaseChain, Posting, Critical
<1> QED
  BY <1>1, <1>2 DEF TypeInv

LEMMA RequestType ==
  ASSUME TypeInv, NEW r \in Reqs, Request(r)
  PROVE  TypeInv'
<1>1. ASSUME NEW c \in Posts, RequestPost(r, c) PROVE TypeInv'
  BY <1>1, LedgerAssumption
  DEF TypeInv, TypeOK, JobOK, RequestPost, Begin, Goto, ledgerVars, Posting, Critical, Replies
<1>2. ASSUME NEW d \in Docs, RequestAutoPost(r, d) PROVE TypeInv'
  BY <1>2
  DEF TypeInv, TypeOK, JobOK, RequestAutoPost, Begin, Goto, ledgerVars, Posting, Critical, Replies
<1>3. ASSUME NEW c \in Closings, RequestClose(r, c) PROVE TypeInv'
  BY <1>3
  DEF TypeInv, TypeOK, JobOK, RequestClose, Begin, Goto, ledgerVars, Posting, Critical, Replies
<1>4. ASSUME NEW y \in Years, RequestReopen(r, y) PROVE TypeInv'
  BY <1>4
  DEF TypeInv, TypeOK, JobOK, RequestReopen, Begin, Goto, ledgerVars, Posting, Critical, Replies
<1>5. ASSUME NEW p \in Runs, RequestRun(r, p) PROVE TypeInv'
  BY <1>5
  DEF TypeInv, TypeOK, JobOK, RequestRun, Begin, Goto, ledgerVars, Posting, Critical, Replies
<1> QED
  BY <1>1, <1>2, <1>3, <1>4, <1>5 DEF Request

LEMMA AcquireType ==
  ASSUME TypeInv, NEW r \in Reqs, AcquireChain(r)
  PROVE  TypeInv'
  BY DEF TypeInv, TypeOK, JobOK, AcquireChain, Goto, Posting, Critical

LEMMA CheckYearType ==
  ASSUME TypeInv, NEW r \in Reqs, CheckYear(r)
  PROVE  TypeInv'
<1>1. CASE Goto(r, "check", "head") /\ UNCHANGED <<ledgerVars, kind, target, draft, head, reply>>
  BY <1>1 DEF TypeInv, TypeOK, JobOK, Goto, ledgerVars, Posting, Critical
<1>2. CASE Fail(r, "answered")
  BY <1>2, FailType DEF Replies
<1>3. CASE /\ pc[r] = "check" /\ kind[r] = "run"
           /\ CommitRun(target[r])
           /\ Answer(r, "answered")
           /\ ReleaseChain(r)
           /\ UNCHANGED <<entries, fiscal, trail, doc, postings>>
  <2>1. target[r] \in Runs
    BY <1>3 DEF TypeInv, JobOK, Posting, Critical
  <2>2. TypeOK'
    BY <1>3, <2>1
    DEF TypeInv, TypeOK, CommitRun, Answer, ReleaseChain, GenesisHash, Hash, Replies
  <2>3. JobOK'
    BY <1>3 DEF TypeInv, TypeOK, JobOK, Answer, Posting, Critical
  <2> QED
    BY <2>2, <2>3 DEF TypeInv
<1> QED
  BY <1>1, <1>2, <1>3 DEF CheckYear

LEMMA ClaimRunType ==
  ASSUME TypeInv, NEW r \in Reqs, ClaimRun(r)
  PROVE  TypeInv'
<1>1. CASE /\ Goto(r, "claim", "lock")
           /\ draft' = [draft EXCEPT ![r] = RunEntry[target[r]]]
           /\ UNCHANGED <<ledgerVars, kind, target, head, reply>>
  <2>1. target[r] \in Runs /\ kind[r] = "run" /\ RunEntry[target[r]] \in Content
    BY <1>1, LedgerAssumption DEF TypeInv, JobOK, Goto
  <2> QED
    BY <1>1, <2>1 DEF TypeInv, TypeOK, JobOK, Goto, ledgerVars, Posting, Critical
<1>2. CASE Fail(r, "answered")
  BY <1>2, FailType DEF Replies
<1> QED
  BY <1>1, <1>2 DEF ClaimRun

LEMMA ChainHeadType ==
  ASSUME TypeInv
  PROVE  ChainHead \in Hash
<1>1. entries \in Seq(Entry)
  BY DEF TypeInv, TypeOK
<1>2. CASE entries = << >>
  BY <1>2 DEF ChainHead, GenesisHash, Hash
<1>3. CASE entries # << >>
  <2>1. entries[Len(entries)] \in Entry
    BY <1>1, <1>3
  <2> QED
    BY <2>1, <1>3 DEF ChainHead, Entry
<1> QED
  BY <1>2, <1>3

LEMMA ReadHeadType ==
  ASSUME TypeInv, NEW r \in Reqs, ReadHead(r)
  PROVE  TypeInv'
  BY ChainHeadType
  DEF TypeInv, TypeOK, JobOK, ReadHead, Goto, ledgerVars, Posting, Critical

LEMMA NewEntryType ==
  ASSUME TypeInv, NEW r \in Reqs, pc[r] = "insert"
  PROVE  NewEntry(r) \in Entry
  BY DEF TypeInv, TypeOK, JobOK, NewEntry, Entry, Chain, Hash, Posting, Critical

LEMMA InsertEntryType ==
  ASSUME TypeInv, NEW r \in Reqs, InsertEntry(r)
  PROVE  TypeInv'
<1> DEFINE e == NewEntry(r)
<1>1. e \in Entry /\ entries' = Append(entries, e) /\ e.content = draft[r]
  BY NewEntryType DEF InsertEntry, NewEntry
<1>2. /\ entries' \in Seq(Entry)
      /\ Len(entries') = Len(entries) + 1
      /\ entries'[Len(entries) + 1] = e
      /\ \A i \in 1 .. Len(entries) : entries'[i] = entries[i]
  BY <1>1 DEF TypeInv, TypeOK
<1> HIDE DEF e
<1>3. /\ chainLock' \in Reqs \cup {NoReq}
      /\ postings' \in [Docs -> 0 .. Len(entries')]
      /\ doc' = doc
  BY <1>2 DEF TypeInv, TypeOK, InsertEntry, ReleaseChain
<1>4. CASE kind[r] = "post" /\ Answer(r, "answered") /\ UNCHANGED <<fiscal, trail, runs>>
  <2>1. TypeOK'
    BY <1>2, <1>3, <1>4 DEF TypeInv, TypeOK, Answer, GenesisHash, Hash, Replies
  <2>2. JobOK'
    BY <1>1, <1>2, <1>4 DEF TypeInv, TypeOK, JobOK, Answer, Posting, Critical
  <2> QED
    BY <2>1, <2>2 DEF TypeInv
<1>5. CASE /\ kind[r] = "close" /\ CommitClose(target[r].year)
           /\ Answer(r, "answered") /\ UNCHANGED runs
  <2>1. target[r].year \in Years
    BY <1>5, LedgerAssumption DEF TypeInv, JobOK, InsertEntry, Posting, Critical
  <2>2. TypeOK'
    BY <1>2, <1>3, <1>5, <2>1
    DEF TypeInv, TypeOK, Answer, CommitClose, GenesisHash, Hash, Replies
  <2>3. JobOK'
    BY <1>1, <1>2, <1>5 DEF TypeInv, TypeOK, JobOK, Answer, Posting, Critical
  <2> QED
    BY <2>2, <2>3 DEF TypeInv
<1>6. CASE /\ kind[r] = "auto"
           /\ pc' = [pc EXCEPT ![r] = "record"]
           /\ UNCHANGED <<fiscal, trail, runs, kind, target, draft, head, reply>>
  <2>1. TypeOK'
    BY <1>2, <1>3, <1>6 DEF TypeInv, TypeOK
  <2>2. entries'[Len(entries')].content = draft[r]
    BY <1>1, <1>2
  <2>3. JobOK'
    BY <1>1, <1>2, <1>6, <2>2
    DEF TypeInv, TypeOK, JobOK, InsertEntry, Posting, Critical
  <2> QED
    BY <2>1, <2>3 DEF TypeInv
<1>7. CASE /\ kind[r] = "run" /\ CommitRun(target[r])
           /\ Answer(r, "answered") /\ UNCHANGED <<fiscal, trail>>
  <2>1. target[r] \in Runs
    BY <1>7 DEF TypeInv, JobOK, InsertEntry, Posting, Critical
  <2>2. TypeOK'
    BY <1>2, <1>3, <1>7, <2>1
    DEF TypeInv, TypeOK, Answer, CommitRun, GenesisHash, Hash, Replies
  <2>3. JobOK'
    BY <1>1, <1>2, <1>7 DEF TypeInv, TypeOK, JobOK, Answer, Posting, Critical
  <2> QED
    BY <2>2, <2>3 DEF TypeInv
<1> QED
  BY <1>4, <1>5, <1>6, <1>7 DEF InsertEntry

LEMMA InsertConflictType ==
  ASSUME TypeInv, NEW r \in Reqs, InsertConflict(r)
  PROVE  TypeInv'
  BY FailType DEF InsertConflict, Replies

LEMMA AutoPostType ==
  ASSUME TypeInv, NEW r \in Reqs, FindPosting(r) \/ LoadInvoice(r)
  PROVE  TypeInv'
<1>1. CASE Goto(r, "find", "load") /\ UNCHANGED <<ledgerVars, kind, target, draft, head, reply>>
  BY <1>1 DEF TypeInv, TypeOK, JobOK, Goto, ledgerVars, Posting, Critical
<1>2. CASE /\ Goto(r, "load", "lock")
           /\ draft' = [draft EXCEPT ![r] = DocEntry[target[r]]]
           /\ UNCHANGED <<ledgerVars, kind, target, head, reply>>
  <2>1. target[r] \in Docs /\ kind[r] = "auto" /\ DocEntry[target[r]] \in Content
    BY <1>2, LedgerAssumption DEF TypeInv, JobOK, Goto
  <2> QED
    BY <1>2, <2>1 DEF TypeInv, TypeOK, JobOK, Goto, ledgerVars, Posting, Critical
<1>3. CASE Fail(r, "answered")
  BY <1>3, FailType DEF Replies
<1> QED
  BY <1>1, <1>2, <1>3 DEF FindPosting, LoadInvoice

\* The CHOOSE of OwnEntry has a witness while r records its posting.
LEMMA OwnEntryType ==
  ASSUME TypeInv, NEW r \in Reqs, pc[r] = "record"
  PROVE  OwnEntry(r) \in 1 .. Len(entries) /\ entries[OwnEntry(r)].content = draft[r]
  BY DEF TypeInv, JobOK, OwnEntry

LEMMA RecordPostingType ==
  ASSUME TypeInv, NEW r \in Reqs, RecordPosting(r)
  PROVE  TypeInv'
<1>1. CASE /\ postings' = [postings EXCEPT ![target[r]] = OwnEntry(r)]
           /\ Answer(r, "answered")
           /\ UNCHANGED <<entries, fiscal, trail, doc, runs, chainLock>>
  <2>1. OwnEntry(r) \in 0 .. Len(entries)
    BY OwnEntryType DEF RecordPosting, TypeInv, TypeOK
  <2>2. postings' \in [Docs -> 0 .. Len(entries')]
    BY <1>1, <2>1 DEF TypeInv, TypeOK
  <2>3. TypeOK'
    BY <1>1, <2>2 DEF TypeInv, TypeOK, Answer, GenesisHash, Hash, Replies
  <2>4. JobOK'
    BY <1>1 DEF TypeInv, TypeOK, JobOK, Answer, Posting, Critical
  <2> QED
    BY <2>3, <2>4 DEF TypeInv
<1>2. CASE Fail(r, "answered")
  BY <1>2, FailType DEF Replies
<1> QED
  BY <1>1, <1>2 DEF RecordPosting

LEMMA ReadYearType ==
  ASSUME TypeInv, NEW r \in Reqs, ReadYear(r)
  PROVE  TypeInv'
<1>1. CASE /\ kind[r] = "close"
           /\ Goto(r, "year", "trial")
           /\ UNCHANGED <<ledgerVars, kind, target, draft, head, reply>>
  BY <1>1 DEF TypeInv, TypeOK, JobOK, Goto, ledgerVars, Posting, Critical
<1>2. CASE /\ kind[r] = "reopen"
           /\ Goto(r, "year", "unlock")
           /\ UNCHANGED <<ledgerVars, kind, target, draft, head, reply>>
  BY <1>2 DEF TypeInv, TypeOK, JobOK, Goto, ledgerVars, Posting, Critical
<1>3. CASE Fail(r, "answered")
  BY <1>3, FailType DEF Replies
<1> QED
  BY <1>1, <1>2, <1>3 DEF ReadYear

LEMMA ReadTrialType ==
  ASSUME TypeInv, NEW r \in Reqs, ReadTrial(r)
  PROVE  TypeInv'
<1> DEFINE trial == TrialBalance(entries)
           c == target[r]
           closing == [journal |-> c.journal, ref |-> c.ref, date |-> c.date,
                       legs |-> ClosingLegs(trial)]
<1>1. CASE /\ CanClose(trial)
           /\ Goto(r, "trial", "lock")
           /\ draft' = [draft EXCEPT ![r] = closing]
           /\ UNCHANGED <<ledgerVars, kind, target, head, reply>>
  <2>1. c \in Closings /\ kind[r] = "close"
    BY <1>1 DEF TypeInv, JobOK, Goto
  <2>2. ClosingLegs(trial) \in Legs
    BY <1>1, ClosingLegsType
  <2>3. closing \in Content /\ closing.date = c.date
    BY <2>1, <2>2, LedgerAssumption DEF Content
  <2> HIDE DEF closing, trial
  <2> QED
    BY <1>1, <2>1, <2>3 DEF TypeInv, TypeOK, JobOK, Goto, ledgerVars, Posting, Critical
<1>2. CASE Fail(r, "answered")
  BY <1>2, FailType DEF Replies
<1> QED
  BY <1>1, <1>2 DEF ReadTrial

LEMMA CommitReopenType ==
  ASSUME TypeInv, NEW r \in Reqs, CommitReopen(r)
  PROVE  TypeInv'
<1>1. target[r] \in Years
  BY DEF TypeInv, JobOK, CommitReopen
<1>2. TypeOK'
  BY <1>1 DEF TypeInv, TypeOK, CommitReopen, Answer, GenesisHash, Hash, Replies
<1>3. JobOK'
  BY DEF TypeInv, TypeOK, JobOK, CommitReopen, Answer, Posting, Critical
<1> QED
  BY <1>2, <1>3 DEF TypeInv

LEMMA EnvironmentType ==
  ASSUME TypeInv,
         (\E y \in Years : CreateFiscalYear(y)) \/ (\E d \in Docs : MoveInvoice(d))
  PROVE  TypeInv'
<1>1. ASSUME NEW y \in Years, CreateFiscalYear(y) PROVE TypeInv'
  BY <1>1 DEF TypeInv, TypeOK, JobOK, CreateFiscalYear, reqVars
<1>2. ASSUME NEW d \in Docs, MoveInvoice(d) PROVE TypeInv'
  <2>1. doc' \in [Docs -> {"draft", "validated", "settled"}]
    <3>1. /\ doc \in [Docs -> {"draft", "validated", "settled"}]
          /\ \E s \in {"validated", "settled"} : doc' = [doc EXCEPT ![d] = s]
      BY <1>2 DEF TypeInv, TypeOK, MoveInvoice
    <3> QED
      BY <3>1
  <2>2. UNCHANGED <<entries, fiscal, trail, postings, runs, chainLock,
                    pc, kind, target, draft, head, reply>>
    BY <1>2 DEF MoveInvoice, reqVars
  <2>3. TypeOK'
    BY <2>1, <2>2 DEF TypeInv, TypeOK
  <2>4. JobOK'
    BY <2>2 DEF TypeInv, JobOK
  <2> QED
    BY <2>3, <2>4 DEF TypeInv
<1> QED
  BY <1>1, <1>2

LEMMA TypeStep ==
  ASSUME TypeInv, [Next]_vars
  PROVE  TypeInv'
<1>1. ASSUME NEW r \in Reqs,
             Request(r) \/ ClaimRun(r) \/ AcquireChain(r) \/ Continue(r) \/ Crash(r)
      PROVE  TypeInv'
  <2>1. CASE Crash(r)
    BY <2>1, FailType DEF Crash, Replies
  <2> QED
    BY <1>1, <2>1, RequestType, ClaimRunType, AcquireType, CheckYearType, ReadHeadType, InsertEntryType,
       InsertConflictType, AutoPostType, RecordPostingType, ReadYearType, ReadTrialType,
       CommitReopenType
    DEF Continue
<1>2. CASE UNCHANGED vars
  BY <1>2 DEF TypeInv, TypeOK, JobOK, vars
<1> QED
  BY <1>1, <1>2, EnvironmentType DEF Next

\* Every reachable state is well typed; in particular a posting row always
\* names an entry that exists, although it is written after the entry's own
\* transaction (autopost.go:267-277).
THEOREM TypeCorrect == Spec => []TypeOK
<1>1. TypeInv /\ [Next]_vars => TypeInv'
  BY TypeStep
<1>2. TypeInv => TypeOK
  BY DEF TypeInv
<1> QED
  BY InitType, <1>1, <1>2, PTL DEF Spec

-----------------------------------------------------------------------------
(* The chain lock. *)

\* The holder of the advisory lock is the one request between taking it and
\* the end of its transaction.
LockInv == \A r \in Reqs : pc[r] \in Critical <=> chainLock = r

\* Why no two entries have the same prev: the hash of entry i commits to i
\* entries, and a head that was read under the lock is still the head.
LinkInv ==
  /\ ChainIntact
  /\ \A i \in 1 .. Len(entries) : Len(entries[i].hash) = i
  /\ \A r \in Reqs : pc[r] = "insert" => head[r] = ChainHead

\* A year found open under the lock stays open until the entry is in.
YearInv ==
  /\ \A r \in Reqs : pc[r] \in {"head", "insert"} => ~ LockedFor(draft[r].date)
  /\ \A r \in Reqs :
       pc[r] = "trial" \/ (pc[r] \in Posting /\ kind[r] = "close") =>
         target[r].date \in Span[target[r].year]

SafeInv == TypeInv /\ LockInv /\ LinkInv /\ YearInv /\ NeverForks /\ TrailExplainsLock

LEMMA InitSafe == Init => SafeInv
<1> SUFFICES ASSUME Init PROVE SafeInv
  OBVIOUS
<1>1. LockInv /\ NeverForks
  BY LedgerAssumption DEF Init, LockInv, Critical, NeverForks
<1>2. LinkInv /\ YearInv
  BY DEF Init, LinkInv, YearInv, ChainIntact, VerifyChain, Posting, Critical
<1>3. TrailExplainsLock
  BY DEF Init, TrailExplainsLock
<1> QED
  BY InitType, <1>1, <1>2, <1>3 DEF SafeInv

-----------------------------------------------------------------------------
(* Mutual exclusion on the chain. *)

LEMMA LockStep ==
  ASSUME TypeInv, LockInv, [Next]_vars
  PROVE  LockInv'
<1> USE DEF LockInv, Critical, TypeInv, TypeOK
<1>1. ASSUME NEW r \in Reqs, NEW outcome \in Replies, Fail(r, outcome) PROVE LockInv'
  BY <1>1, LedgerAssumption DEF Fail, Answer, ReleaseChain
<1>2. ASSUME NEW r \in Reqs, Request(r) PROVE LockInv'
  BY <1>2 DEF Request, RequestPost, RequestAutoPost, RequestRun, RequestClose, RequestReopen,
              Begin, Goto, ledgerVars
<1>3. ASSUME NEW r \in Reqs, AcquireChain(r) PROVE LockInv'
  BY <1>3, LedgerAssumption DEF AcquireChain, Goto
<1>4. ASSUME NEW r \in Reqs, InsertEntry(r) PROVE LockInv'
  BY <1>4, LedgerAssumption DEF InsertEntry, ReleaseChain, Answer
<1>5. ASSUME NEW r \in Reqs, Continue(r), ~ InsertEntry(r) PROVE LockInv'
  <2>1. CASE \E outcome \in Replies : Fail(r, outcome)
    BY <2>1, <1>1
  <2>2. CASE CheckYear(r)
    <3>1. CASE Answer(r, "answered") /\ ReleaseChain(r)
      BY <3>1, LedgerAssumption DEF Answer, ReleaseChain
    <3>2. CASE Fail(r, "answered")
      BY <3>2, <1>1 DEF Replies
    <3>3. CASE Goto(r, "check", "head") /\ UNCHANGED chainLock
      BY <3>3 DEF Goto
    <3> QED
      BY <2>2, <3>1, <3>2, <3>3 DEF CheckYear, ledgerVars
  <2>3. CASE ReadHead(r)
    BY <2>3 DEF ReadHead, Goto, ledgerVars
  <2>4. CASE InsertConflict(r)
    BY <2>4, <1>1 DEF InsertConflict, Replies
  <2>5. CASE FindPosting(r)
    BY <2>5, <1>1 DEF FindPosting, Goto, ledgerVars, Replies
  <2>6. CASE LoadInvoice(r)
    BY <2>6, <1>1 DEF LoadInvoice, Goto, ledgerVars, Replies
  <2>7. CASE RecordPosting(r)
    BY <2>7, <1>1 DEF RecordPosting, Answer, Replies
  <2>8. CASE ReadYear(r)
    BY <2>8, <1>1 DEF ReadYear, Goto, ledgerVars, Replies
  <2>9. CASE ReadTrial(r)
    BY <2>9, <1>1 DEF ReadTrial, Goto, ledgerVars, Replies
  <2>10. CASE CommitReopen(r)
    BY <2>10 DEF CommitReopen, Answer
  <2> QED
    BY <1>5, <2>2, <2>3, <2>4, <2>5, <2>6, <2>7, <2>8, <2>9, <2>10 DEF Continue
<1>6. ASSUME NEW r \in Reqs, Crash(r) \/ ClaimRun(r) PROVE LockInv'
  BY <1>6, <1>1 DEF Crash, ClaimRun, Goto, ledgerVars, Replies
<1>7. CASE (\E y \in Years : CreateFiscalYear(y)) \/ (\E d \in Docs : MoveInvoice(d))
  BY <1>7 DEF CreateFiscalYear, MoveInvoice, reqVars
<1>8. CASE UNCHANGED vars
  BY <1>8 DEF vars
<1> QED
  BY <1>2, <1>3, <1>4, <1>5, <1>6, <1>7, <1>8 DEF Next

-----------------------------------------------------------------------------
(* What a step can do to the book and to one request. *)

\* Only an insert extends the book, and only an insert, a reopen or the
\* creation of a year touches the years.
LEMMA BookSteps ==
  ASSUME [Next]_vars
  PROVE  \/ \E r \in Reqs : InsertEntry(r)
         \/ \E r \in Reqs : CommitReopen(r)
         \/ \E y \in Years : CreateFiscalYear(y)
         \/ UNCHANGED <<entries, fiscal, trail>>
<1>1. ASSUME NEW r \in Reqs, Request(r) \/ ClaimRun(r) \/ AcquireChain(r) \/ Crash(r)
      PROVE  UNCHANGED <<entries, fiscal, trail>>
  BY <1>1 DEF Request, RequestPost, RequestAutoPost, RequestRun, RequestClose, RequestReopen, Begin,
              ledgerVars, ClaimRun, AcquireChain, Crash, Fail
<1>2. ASSUME NEW r \in Reqs, Continue(r)
      PROVE  InsertEntry(r) \/ CommitReopen(r) \/ UNCHANGED <<entries, fiscal, trail>>
  BY <1>2 DEF Continue, CheckYear, ReadHead, InsertConflict, FindPosting, LoadInvoice,
              RecordPosting, ReadYear, ReadTrial, Fail, ledgerVars
<1>3. ASSUME NEW d \in Docs, MoveInvoice(d)
      PROVE  UNCHANGED <<entries, fiscal, trail>>
  BY <1>3 DEF MoveInvoice
<1> QED
  BY <1>1, <1>2, <1>3 DEF Next, vars

\* One step of a request: it begins, ends, or moves one statement on, and the
\* other requests keep their places.
LEMMA RequestSteps ==
  ASSUME TypeInv, [Next]_vars, NEW s \in Reqs
  PROVE  \/ pc'[s] \in {"find", "claim", "year", "idle"}
         \/ /\ pc'[s] = pc[s]
            /\ kind'[s] = kind[s] /\ target'[s] = target[s]
            /\ draft'[s] = draft[s] /\ head'[s] = head[s]
         \/ \E c \in Posts : RequestPost(s, c)
         \/ ClaimRun(s)
         \/ AcquireChain(s)
         \/ Continue(s)
<1> DEFINE Same == /\ pc'[s] = pc[s]
                   /\ kind'[s] = kind[s] /\ target'[s] = target[s]
                   /\ draft'[s] = draft[s] /\ head'[s] = head[s]
<1> USE DEF TypeInv, TypeOK
<1>1. ASSUME NEW r \in Reqs, r # s, NEW outcome, Answer(r, outcome) PROVE Same
  BY <1>1 DEF Answer
<1>2. ASSUME NEW r \in Reqs, r # s, Request(r) PROVE Same
  BY <1>2 DEF Request, RequestPost, RequestAutoPost, RequestRun, RequestClose, RequestReopen, Begin, Goto
<1>3. ASSUME NEW r \in Reqs, r # s, ClaimRun(r) \/ AcquireChain(r) PROVE Same
  BY <1>3, <1>1 DEF ClaimRun, AcquireChain, Fail, Goto
<1>4. ASSUME NEW r \in Reqs, r # s, Continue(r) PROVE Same
  <2>1. CASE CheckYear(r)
    BY <2>1, <1>1, <1>4 DEF CheckYear, Fail, Goto
  <2>2. CASE ReadHead(r)
    BY <2>2, <1>4 DEF ReadHead, Goto
  <2>3. CASE InsertEntry(r)
    BY <2>3, <1>1, <1>4 DEF InsertEntry
  <2>4. CASE InsertConflict(r)
    BY <2>4, <1>1, <1>4 DEF InsertConflict, Fail
  <2>5. CASE FindPosting(r)
    BY <2>5, <1>1, <1>4 DEF FindPosting, Fail, Goto
  <2>6. CASE LoadInvoice(r)
    BY <2>6, <1>1, <1>4 DEF LoadInvoice, Fail, Goto
  <2>7. CASE RecordPosting(r)
    BY <2>7, <1>1, <1>4 DEF RecordPosting, Fail
  <2>8. CASE ReadYear(r)
    BY <2>8, <1>1, <1>4 DEF ReadYear, Fail, Goto
  <2>9. CASE ReadTrial(r)
    BY <2>9, <1>1, <1>4 DEF ReadTrial, Fail, Goto
  <2>10. CASE CommitReopen(r)
    BY <2>10, <1>1, <1>4 DEF CommitReopen
  <2> QED
    BY <1>4, <2>1, <2>2, <2>3, <2>4, <2>5, <2>6, <2>7, <2>8, <2>9, <2>10 DEF Continue
<1>5. ASSUME NEW r \in Reqs, Crash(r) PROVE Same \/ pc'[s] = "idle"
  BY <1>5, <1>1 DEF Crash, Fail, Answer
<1>6. CASE (\E y \in Years : CreateFiscalYear(y)) \/ (\E d \in Docs : MoveInvoice(d))
  BY <1>6 DEF CreateFiscalYear, MoveInvoice, reqVars
<1>7. CASE UNCHANGED vars
  BY <1>7 DEF vars
<1>8. ASSUME Request(s) PROVE pc'[s] \in {"find", "claim", "year"} \/ \E c \in Posts : RequestPost(s, c)
  BY <1>8 DEF Request, RequestAutoPost, RequestRun, RequestClose, RequestReopen, Begin, Goto
<1> QED
  BY <1>2, <1>3, <1>4, <1>5, <1>6, <1>7, <1>8 DEF Next

-----------------------------------------------------------------------------
(* The chain. *)

\* A head read under the lock has no successor yet.
LEMMA ChainHeadLength ==
  ASSUME TypeInv, LinkInv
  PROVE  Len(ChainHead) = Len(entries)
<1>1. entries \in Seq(Entry)
  BY DEF TypeInv, TypeOK
<1>2. CASE entries = << >>
  BY <1>2 DEF ChainHead, GenesisHash
<1>3. CASE entries # << >>
  <2>1. Len(entries) \in 1 .. Len(entries)
    BY <1>1, <1>3
  <2> QED
    BY <2>1, <1>3 DEF LinkInv, ChainHead
<1> QED
  BY <1>2, <1>3

LEMMA PrevLength ==
  ASSUME TypeInv, LinkInv, NEW i \in 1 .. Len(entries)
  PROVE  Len(entries[i].prev) = i - 1
<1>1. entries[i].prev = (IF i = 1 THEN GenesisHash ELSE entries[i - 1].hash)
  BY DEF LinkInv, ChainIntact, VerifyChain
<1>2. CASE i = 1
  BY <1>1, <1>2 DEF GenesisHash
<1>3. CASE i # 1
  <2>1. i - 1 \in 1 .. Len(entries)
    BY <1>3 DEF TypeInv, TypeOK
  <2> QED
    BY <1>1, <1>3, <2>1 DEF LinkInv
<1> QED
  BY <1>2, <1>3

\* A head read under the lock has no successor yet.
LEMMA HeadIsFree ==
  ASSUME TypeInv, LinkInv, NEW r \in Reqs, pc[r] = "insert"
  PROVE  ~ Forks(head[r])
<1>1. Len(head[r]) = Len(entries)
  BY ChainHeadLength DEF LinkInv
<1>2. Len(entries) \in Nat
  BY DEF TypeInv, TypeOK
<1> QED
  BY <1>1, <1>2, PrevLength DEF Forks

LEMMA ForkStep ==
  ASSUME TypeInv, LinkInv, NeverForks, [Next]_vars
  PROVE  NeverForks'
<1> USE DEF NeverForks, TypeInv, TypeOK
<1>1. ASSUME NEW r \in Reqs, NEW outcome, outcome # "fork", Answer(r, outcome)
      PROVE  NeverForks'
  BY <1>1 DEF Answer
<1>2. ASSUME NEW r \in Reqs, Request(r) \/ AcquireChain(r) PROVE NeverForks'
  BY <1>2 DEF Request, RequestPost, RequestAutoPost, RequestRun, RequestClose, RequestReopen, Begin,
              AcquireChain
<1>3. ASSUME NEW r \in Reqs, Continue(r) PROVE NeverForks'
  <2>1. CASE CheckYear(r) \/ ReadHead(r)
    BY <2>1, <1>1 DEF CheckYear, ReadHead, Fail
  <2>2. CASE InsertEntry(r)
    BY <2>2, <1>1 DEF InsertEntry
  <2>3. CASE InsertConflict(r)
    <3>1. ~ Forks(head[r])
      BY <2>3, HeadIsFree DEF InsertConflict
    <3> QED
      BY <2>3, <3>1, <1>1 DEF InsertConflict, Fail
  <2>4. CASE FindPosting(r) \/ LoadInvoice(r) \/ RecordPosting(r)
    BY <2>4, <1>1 DEF FindPosting, LoadInvoice, RecordPosting, Fail
  <2>5. CASE ReadYear(r) \/ ReadTrial(r) \/ CommitReopen(r)
    BY <2>5, <1>1 DEF ReadYear, ReadTrial, CommitReopen, Fail
  <2> QED
    BY <1>3, <2>1, <2>2, <2>3, <2>4, <2>5 DEF Continue
<1>4. ASSUME NEW r \in Reqs, Crash(r) \/ ClaimRun(r) PROVE NeverForks'
  BY <1>4, <1>1 DEF Crash, ClaimRun, Fail
<1>5. CASE (\E y \in Years : CreateFiscalYear(y)) \/ (\E d \in Docs : MoveInvoice(d))
  BY <1>5 DEF CreateFiscalYear, MoveInvoice, reqVars
<1>6. CASE UNCHANGED vars
  BY <1>6 DEF vars
<1> QED
  BY <1>2, <1>3, <1>4, <1>5, <1>6 DEF Next

\* Who can be about to insert: the requests that were, and one that has just
\* read the head.
LEMMA IntoInsert ==
  ASSUME TypeInv, [Next]_vars, NEW s \in Reqs, pc'[s] = "insert"
  PROVE  \/ pc[s] = "insert" /\ head'[s] = head[s] /\ draft'[s] = draft[s]
         \/ ReadHead(s) /\ pc[s] = "head" /\ draft'[s] = draft[s]
<1> USE DEF TypeInv, TypeOK
<1>1. ~ (\E c \in Posts : RequestPost(s, c)) /\ ~ ClaimRun(s) /\ ~ AcquireChain(s)
  BY DEF RequestPost, Begin, Goto, ClaimRun, Fail, Answer, AcquireChain
<1>2. ASSUME Continue(s) PROVE ReadHead(s)
  BY <1>2 DEF Continue, CheckYear, InsertEntry, InsertConflict, FindPosting, LoadInvoice,
              RecordPosting, ReadYear, ReadTrial, CommitReopen, Goto, Fail, Answer
<1>3. ReadHead(s) => pc[s] = "head" /\ draft'[s] = draft[s]
  BY DEF ReadHead, Goto
<1> QED
  BY <1>1, <1>2, <1>3, RequestSteps

LEMMA LinkStep ==
  ASSUME TypeInv, LockInv, LinkInv, [Next]_vars
  PROVE  LinkInv'
<1>1. ASSUME NEW r \in Reqs, InsertEntry(r) PROVE LinkInv'
  <2> DEFINE n == Len(entries)
             e == NewEntry(r)
  <2>1. pc[r] = "insert" /\ entries' = Append(entries, e)
    BY <1>1 DEF InsertEntry
  <2>2. /\ n \in Nat
        /\ Len(entries') = n + 1
        /\ entries'[n + 1] = e
        /\ \A i \in 1 .. n : entries'[i] = entries[i]
    BY <2>1, NewEntryType DEF TypeInv, TypeOK
  <2>3. e.prev = ChainHead /\ e.hash = Chain(e.prev, e.content) /\ Len(e.hash) = n + 1
    BY <2>1, ChainHeadLength, ChainHeadType DEF NewEntry, Chain, LinkInv, Hash
  <2>4. e.prev = (IF n + 1 = 1 THEN GenesisHash ELSE entries[n].hash)
    BY <2>3, <2>2 DEF ChainHead, TypeInv, TypeOK
  <2> HIDE DEF e
  <2>5. \A i \in 1 .. n + 1 : i \in 1 .. n \/ i = n + 1
    BY <2>2
  <2>6. ChainIntact'
    <3>1. ASSUME NEW i \in 1 .. n
          PROVE  /\ entries'[i].prev = (IF i = 1 THEN GenesisHash ELSE entries'[i - 1].hash)
                 /\ entries'[i].hash = Chain(entries'[i].prev, entries'[i].content)
      BY <2>2 DEF LinkInv, ChainIntact, VerifyChain
    <3>2. /\ entries'[n + 1].prev = (IF n + 1 = 1 THEN GenesisHash ELSE entries'[n].hash)
          /\ entries'[n + 1].hash = Chain(entries'[n + 1].prev, entries'[n + 1].content)
      BY <2>2, <2>3, <2>4
    <3>3. n + 1 - 1 = n
      BY <2>2
    <3> QED
      BY <3>1, <3>2, <3>3, <2>2, <2>5 DEF ChainIntact, VerifyChain
  <2>7. \A i \in 1 .. Len(entries') : Len(entries'[i].hash) = i
    BY <2>2, <2>3, <2>5 DEF LinkInv
  <2>8. ASSUME NEW s \in Reqs PROVE pc'[s] # "insert"
    <3>1. CASE s = r
      BY <1>1, <3>1 DEF InsertEntry, Answer, TypeInv, TypeOK
    <3>2. CASE s # r
      <4>1. pc[s] # "insert"
        BY <2>1, <3>2 DEF LockInv, Critical
      <4> QED
        BY <1>1, <3>2, <4>1 DEF InsertEntry, Answer, TypeInv, TypeOK
    <3> QED
      BY <3>1, <3>2
  <2> QED
    BY <2>6, <2>7, <2>8 DEF LinkInv
<1>2. ASSUME UNCHANGED entries PROVE LinkInv'
  <2>1. ASSUME NEW s \in Reqs, pc'[s] = "insert" PROVE head'[s] = ChainHead'
    <3>1. ChainHead' = ChainHead
      BY <1>2 DEF ChainHead
    <3>2. ReadHead(s) => head'[s] = ChainHead
      BY DEF ReadHead, TypeInv, TypeOK
    <3> QED
      BY <2>1, <3>1, <3>2, IntoInsert DEF LinkInv
  <2> QED
    BY <1>2, <2>1 DEF LinkInv, ChainIntact
<1>3. CASE (\E r \in Reqs : CommitReopen(r)) \/ (\E y \in Years : CreateFiscalYear(y))
  BY <1>3, <1>2 DEF CommitReopen, CreateFiscalYear
<1> QED
  BY <1>1, <1>2, <1>3, BookSteps

-----------------------------------------------------------------------------
(* Fiscal years. *)

\* Only the holder of the chain lock closes a year.
LEMMA ClosedByHolder ==
  ASSUME TypeInv, LockInv, [Next]_vars, NEW s \in Reqs, pc[s] \in Critical,
         ~ InsertEntry(s), NEW date, LockedFor(date)'
  PROVE  LockedFor(date)
<1>1. ASSUME NEW r \in Reqs, InsertEntry(r) PROVE FALSE
  <2>1. r # s
    BY <1>1
  <2> QED
    BY <1>1, <2>1 DEF InsertEntry, LockInv, Critical
<1>2. CASE \E r \in Reqs : CommitReopen(r)
  BY <1>2 DEF CommitReopen, LockedFor, TypeInv, TypeOK
<1>3. CASE \E y \in Years : CreateFiscalYear(y)
  BY <1>3 DEF CreateFiscalYear, LockedFor, TypeInv, TypeOK
<1>4. CASE UNCHANGED fiscal
  BY <1>4 DEF LockedFor
<1> QED
  BY <1>1, <1>2, <1>3, <1>4, BookSteps

\* Who can be past the year check, and who can hold a closing entry.
LEMMA IntoHead ==
  ASSUME TypeInv, [Next]_vars, NEW s \in Reqs, pc'[s] \in {"head", "insert"}
  PROVE  \/ pc[s] \in {"head", "insert"} /\ draft'[s] = draft[s]
         \/ pc[s] = "check" /\ ~ LockedFor(draft[s].date) /\ draft'[s] = draft[s]
<1>1. CASE Continue(s)
  <2>1. CheckYear(s) \/ ReadHead(s)
    BY <1>1 DEF Continue, InsertEntry, InsertConflict, FindPosting, LoadInvoice,
                RecordPosting, ReadYear, ReadTrial, CommitReopen, Goto, Fail, Answer,
                TypeInv, TypeOK
  <2> QED
    BY <2>1 DEF CheckYear, ReadHead, Goto, Fail, Answer, TypeInv, TypeOK
<1>2. ~ (\E c \in Posts : RequestPost(s, c)) /\ ~ ClaimRun(s) /\ ~ AcquireChain(s)
  BY DEF RequestPost, Begin, Goto, ClaimRun, Fail, Answer, AcquireChain, TypeInv, TypeOK
<1> QED
  BY <1>1, <1>2, RequestSteps

LEMMA IntoClosing ==
  ASSUME TypeInv, [Next]_vars, NEW s \in Reqs,
         pc'[s] = "trial" \/ (pc'[s] \in Posting /\ kind'[s] = "close")
  PROVE  /\ target'[s] = target[s]
         /\ \/ pc[s] = "trial" \/ (pc[s] \in Posting /\ kind[s] = "close")
            \/ target[s].date \in Span[target[s].year]
<1> USE DEF TypeInv, TypeOK, Posting, Critical
<1>1. ~ (\E c \in Posts : RequestPost(s, c))
  BY DEF RequestPost, Begin, Goto
<1>2. CASE ClaimRun(s) \/ AcquireChain(s)
  BY <1>2 DEF ClaimRun, Fail, Answer, AcquireChain, Goto, JobOK
<1>3. CASE Continue(s)
  <2>1. CASE CheckYear(s) \/ ReadHead(s)
    BY <2>1 DEF CheckYear, ReadHead, Goto, Fail, Answer
  <2>2. CASE InsertEntry(s)
    BY <2>2 DEF InsertEntry, Answer
  <2>3. CASE InsertConflict(s) \/ RecordPosting(s) \/ CommitReopen(s)
    BY <2>3 DEF InsertConflict, RecordPosting, CommitReopen, Fail, Answer
  <2>4. CASE FindPosting(s) \/ LoadInvoice(s)
    BY <2>4 DEF FindPosting, LoadInvoice, Goto, Fail, Answer, JobOK
  <2>5. CASE ReadYear(s)
    BY <2>5 DEF ReadYear, CanCloseYear, Goto, Fail, Answer
  <2>6. CASE ReadTrial(s)
    BY <2>6 DEF ReadTrial, Goto, Fail, Answer
  <2> QED
    BY <1>3, <2>1, <2>2, <2>3, <2>4, <2>5, <2>6 DEF Continue
<1> QED
  BY <1>1, <1>2, <1>3, RequestSteps

LEMMA YearStep ==
  ASSUME TypeInv, LockInv, YearInv, [Next]_vars
  PROVE  YearInv'
<1>1. ASSUME NEW s \in Reqs, pc'[s] \in {"head", "insert"}
      PROVE  ~ LockedFor(draft[s].date)' /\ draft'[s] = draft[s]
  <2>1. /\ pc[s] \in Critical
        /\ draft'[s] = draft[s]
        /\ ~ LockedFor(draft[s].date)
    BY <1>1, IntoHead DEF YearInv, Critical
  <2>2. ~ InsertEntry(s)
    BY <1>1 DEF InsertEntry, Answer, TypeInv, TypeOK
  <2> DEFINE date == draft[s].date
  <2>3. \A y \in Years : fiscal'[y] = "locked" => date \notin Span[y]
    BY <2>1, <2>2, ClosedByHolder DEF LockedFor
  <2> QED
    BY <2>1, <2>3 DEF LockedFor
<1>2. ASSUME NEW s \in Reqs,
             pc'[s] = "trial" \/ (pc'[s] \in Posting /\ kind'[s] = "close")
      PROVE  target'[s].date \in Span[target'[s].year]
  BY <1>2, IntoClosing DEF YearInv
<1> QED
  BY <1>1, <1>2 DEF YearInv, LockedFor

LEMMA TrailStep ==
  ASSUME SafeInv, [Next]_vars
  PROVE  TrailExplainsLock'
<1> USE DEF SafeInv, TypeInv, TypeOK
<1>1. ASSUME NEW y \in Years, NEW what \in {"close", "reopen"},
             trail' = [trail EXCEPT ![y] = Append(@, what)],
             fiscal' = [fiscal EXCEPT ![y] = IF what = "close" THEN "locked" ELSE "open"],
             what = "close" => fiscal[y] # "locked"
      PROVE  TrailExplainsLock'
  <2> SUFFICES ASSUME NEW z \in Years
               PROVE  /\ fiscal'[z] = "locked" <=>
                           (trail'[z] # << >> /\ trail'[z][Len(trail'[z])] = "close")
                      /\ \A i \in 1 .. Len(trail'[z]) - 1 :
                           trail'[z][i] = "close" => trail'[z][i + 1] = "reopen"
    BY DEF TrailExplainsLock
  <2>1. CASE z # y
    BY <1>1, <2>1 DEF TrailExplainsLock
  <2>2. CASE z = y
    <3> DEFINE t == trail[y]
               u == trail'[y]
               n == Len(trail[y])
    <3>1. /\ t \in Seq({"close", "reopen"})
          /\ u = Append(t, what)
          /\ n \in Nat
      BY <1>1
    <3>2. /\ Len(u) = n + 1
          /\ u[n + 1] = what
          /\ \A i \in 1 .. n : u[i] = t[i]
      BY <3>1
    <3>3. u # << >>
      <4> SUFFICES ASSUME u = << >> PROVE Len(u) = 0
        BY <3>1, <3>2
      <4> QED
        OBVIOUS
    <3>4. fiscal'[y] = "locked" <=> what = "close"
      BY <1>1
    <3>5. ASSUME NEW i \in 1 .. n - 1, t[i] = "close" PROVE t[i + 1] = "reopen"
      BY <3>5 DEF TrailExplainsLock
    <3>6. ASSUME n > 0, t[n] = "close" PROVE what = "reopen"
      <4>1. t # << >>
        BY <3>6
      <4> QED
        BY <1>1, <3>6, <4>1 DEF TrailExplainsLock
    <3>7. ASSUME NEW i \in 1 .. n, u[i] = "close" PROVE u[i + 1] = "reopen"
      <4>1. CASE i \in 1 .. n - 1
        BY <3>1, <3>2, <3>5, <3>7, <4>1
      <4>2. CASE i = n
        BY <3>1, <3>2, <3>6, <3>7, <4>2
      <4> QED
        BY <3>1, <4>1, <4>2
    <3> HIDE DEF u, t, n
    <3> QED
      BY <2>2, <3>1, <3>2, <3>3, <3>4, <3>7 DEF u
  <2> QED
    BY <2>1, <2>2
<1>2. ASSUME UNCHANGED <<fiscal, trail>> PROVE TrailExplainsLock'
  BY <1>2 DEF TrailExplainsLock
<1>3. ASSUME NEW r \in Reqs, InsertEntry(r) PROVE TrailExplainsLock'
  <2>1. CASE kind[r] = "close" /\ CommitClose(target[r].year)
    <3>1. target[r] \in Closings /\ target[r].year \in Years
      BY <1>3, <2>1, LedgerAssumption DEF JobOK, InsertEntry, Posting, Critical
    <3>2. target[r].date \in Span[target[r].year] /\ draft[r].date = target[r].date
      BY <1>3, <2>1 DEF YearInv, JobOK, InsertEntry, Posting, Critical
    <3>3. fiscal[target[r].year] # "locked"
      BY <1>3, <3>1, <3>2 DEF YearInv, InsertEntry, LockedFor
    <3> QED
      BY <1>1, <2>1, <3>1, <3>3 DEF CommitClose
  <2>2. CASE UNCHANGED <<fiscal, trail>>
    BY <2>2, <1>2
  <2> QED
    BY <1>3, <2>1, <2>2 DEF InsertEntry
<1>4. ASSUME NEW r \in Reqs, CommitReopen(r) PROVE TrailExplainsLock'
  <2>1. target[r] \in Years
    BY <1>4 DEF JobOK, CommitReopen
  <2> QED
    BY <1>1, <1>4, <2>1 DEF CommitReopen
<1>5. ASSUME NEW y \in Years, CreateFiscalYear(y) PROVE TrailExplainsLock'
  BY <1>5 DEF CreateFiscalYear, TrailExplainsLock
<1> QED
  BY <1>2, <1>3, <1>4, <1>5, BookSteps

LEMMA SafeStep ==
  ASSUME SafeInv, [Next]_vars
  PROVE  SafeInv'
  BY TypeStep, LockStep, LinkStep, YearStep, ForkStep, TrailStep DEF SafeInv

LEMMA Safe == Spec => []SafeInv
<1>1. SafeInv /\ [Next]_vars => SafeInv'
  BY SafeStep
<1> QED
  BY InitSafe, <1>1, PTL DEF Spec

\* The chain over all the entries of the entity verifies in every reachable
\* state: PostEntry reads the head under the advisory lock (store.go:186-222).
THEOREM ChainVerifies == Spec => []ChainIntact
<1>1. SafeInv => ChainIntact
  BY DEF SafeInv, LinkInv
<1> QED
  BY Safe, <1>1, PTL

\* The UNIQUE (entity_id, prev_hash) constraint of migration 0023 is never
\* what stops a request (store.go:186).
THEOREM NoForks == Spec => []NeverForks
<1>1. SafeInv => NeverForks
  BY DEF SafeInv
<1> QED
  BY Safe, <1>1, PTL

\* However closes and reopens race, a year is locked exactly when its last
\* close-log row is a close, and closes alternate with reopens
\* (service.go:81-167).
THEOREM TrailIsTrue == Spec => []TrailExplainsLock
<1>1. SafeInv => TrailExplainsLock
  BY DEF SafeInv
<1> QED
  BY Safe, <1>1, PTL

-----------------------------------------------------------------------------
(* The ledger implements its promise. *)

LEMMA BookGrows ==
  ASSUME SafeInv, NEW r \in Reqs, InsertEntry(r)
  PROVE  /\ Book' = Append(Book, draft[r])
         /\ Book' # << >>
         /\ Book'[Len(Book')] = draft[r]
<1> DEFINE n == Len(entries)
           e == NewEntry(r)
<1>1. entries' = Append(entries, e) /\ e.content = draft[r] /\ e \in Entry
  BY NewEntryType DEF InsertEntry, NewEntry, SafeInv
<1>2. /\ n \in Nat
      /\ Len(entries') = n + 1
      /\ entries'[n + 1] = e
      /\ \A i \in 1 .. n : entries'[i] = entries[i]
  BY <1>1 DEF SafeInv, TypeInv, TypeOK
<1>3. /\ Book = [i \in 1 .. n |-> entries[i].content]
      /\ Book' = [i \in 1 .. n + 1 |-> entries'[i].content]
  BY <1>2 DEF Book
<1>4. \A i \in 1 .. n : entries[i].content \in Content
  <2>1. \A i \in 1 .. n : entries[i] \in Entry
    BY DEF SafeInv, TypeInv, TypeOK
  <2> QED
    BY <2>1 DEF Entry
<1>5. Book \in Seq(Content) /\ Len(Book) = n
  BY <1>2, <1>3, <1>4
<1> HIDE DEF e
<1>6. Book' = Append(Book, draft[r]) /\ Len(Book') = n + 1
  BY <1>1, <1>2, <1>3, <1>5
<1> QED
  BY <1>2, <1>5, <1>6

LEMMA NewEntryIsPostable ==
  ASSUME SafeInv, NEW r \in Reqs, InsertEntry(r)
  PROVE  Promise!Postable(draft[r])
<1>1. draft[r] \in Content
  BY DEF SafeInv, TypeInv, JobOK, InsertEntry, Posting, Critical
<1>2. \A y \in ClosedYears : ~ Covers(y, draft[r])
  BY DEF SafeInv, YearInv, InsertEntry, LockedFor, ClosedYears, Covers
<1>3. \A i \in 1 .. Len(Book) : ~ SameKey(Book[i], draft[r])
  BY DEF Book, SameKey, InsertEntry, DuplicateRef, SafeInv, TypeInv, TypeOK
<1> QED
  BY <1>1, <1>2, <1>3 DEF Promise!Postable

LEMMA PromiseStep ==
  ASSUME SafeInv, [Next]_vars
  PROVE  [Promise!PromiseNext]_(Promise!promiseVars)
<1> USE DEF SafeInv, TypeInv, TypeOK
<1>1. ASSUME NEW r \in Reqs, InsertEntry(r)
      PROVE  Promise!Post \/ \E y \in Years : Promise!Close(y)
  <2>1. Promise!Appended(Promise!Newest) /\ Promise!Newest = draft[r] /\ Book' # << >>
    BY <1>1, BookGrows, NewEntryIsPostable DEF Promise!Appended, Promise!Newest
  <2>2. CASE kind[r] = "close" /\ CommitClose(target[r].year)
    <3> DEFINE y == target[r].year
    <3>1. y \in Years
      BY <1>1, <2>2, LedgerAssumption DEF JobOK, InsertEntry, Posting, Critical
    <3>2. Covers(y, draft[r])
      BY <1>1, <2>2 DEF YearInv, JobOK, InsertEntry, Posting, Critical, Covers
    <3>3. y \notin ClosedYears
      BY <1>1, <3>2, NewEntryIsPostable DEF Promise!Postable
    <3>4. ClosedYears' = ClosedYears \cup {y}
      BY <2>2, <3>1 DEF CommitClose, ClosedYears
    <3> HIDE DEF y
    <3>5. Promise!Close(y)
      BY <2>1, <3>2, <3>3, <3>4 DEF Promise!Close
    <3> QED
      BY <3>1, <3>5
  <2>3. CASE UNCHANGED <<fiscal, trail>>
    <3>1. ClosedYears' = ClosedYears
      BY <2>3 DEF ClosedYears
    <3> QED
      BY <2>1, <3>1 DEF Promise!Post
  <2> QED
    BY <1>1, <2>2, <2>3 DEF InsertEntry
<1>2. ASSUME NEW r \in Reqs, CommitReopen(r)
      PROVE  [Promise!PromiseNext]_(Promise!promiseVars)
  <2> DEFINE y == target[r]
  <2>1. y \in Years
    BY <1>2 DEF JobOK, CommitReopen
  <2>2. Book' = Book /\ ClosedYears' = ClosedYears \ {y}
    BY <1>2, <2>1 DEF CommitReopen, Book, ClosedYears
  <2>3. CASE y \in ClosedYears
    BY <2>1, <2>2, <2>3 DEF Promise!Reopen, Promise!PromiseNext
  <2>4. CASE y \notin ClosedYears
    BY <2>2, <2>4 DEF Promise!promiseVars
  <2> QED
    BY <2>3, <2>4
<1>3. ASSUME NEW y \in Years, CreateFiscalYear(y)
      PROVE  UNCHANGED Promise!promiseVars
  BY <1>3 DEF CreateFiscalYear, Book, ClosedYears, Promise!promiseVars
<1>4. ASSUME UNCHANGED <<entries, fiscal>>
      PROVE  UNCHANGED Promise!promiseVars
  BY <1>4 DEF Book, ClosedYears, Promise!promiseVars
<1> QED
  BY <1>1, <1>2, <1>3, <1>4, BookSteps DEF Promise!PromiseNext

\* The ledger implements its promise: append-only, a reference used once per
\* journal, nothing posted into a closed year, the closing entry and the lock
\* in one step (store.go:176-233, service.go:81-167).
THEOREM ImplementsPromise == Spec => KeepsPromise
<1>1. Init => Promise!PromiseInit
  BY DEF Init, Promise!PromiseInit, Book, ClosedYears
<1>2. SafeInv /\ [Next]_vars => [Promise!PromiseNext]_(Promise!promiseVars)
  BY PromiseStep
<1> QED
  BY Safe, <1>1, <1>2, PTL DEF Spec, KeepsPromise, Promise!PromiseSpec

-----------------------------------------------------------------------------
(* Auto-posting: one entry for an invoice, and the posting row names it. *)

\* A request that posts an invoice has that invoice's entry in hand.
AutoInv ==
  \A r \in Reqs :
    /\ pc[r] = "record" => kind[r] = "auto"
    /\ pc[r] \in Posting /\ kind[r] = "auto" => draft[r] = DocEntry[target[r]]

\* UNIQUE (entity_id, journal_id, ref) holds of what has been committed.
RefInv ==
  \A i, j \in 1 .. Len(entries) : i # j =>
    \/ entries[i].content.ref # entries[j].content.ref
    \/ entries[i].content.journal # entries[j].content.journal

RowInv == \A d \in Docs : postings[d] # 0 => entries[postings[d]].content = DocEntry[d]

PostInv == TypeInv /\ AutoInv /\ RefInv /\ RowInv

LEMMA AutoStep ==
  ASSUME TypeInv, AutoInv, [Next]_vars
  PROVE  AutoInv'
<1> USE DEF TypeInv, TypeOK, Posting, Critical
<1> SUFFICES ASSUME NEW s \in Reqs
             PROVE  /\ pc'[s] = "record" => kind'[s] = "auto"
                    /\ pc'[s] \in Posting /\ kind'[s] = "auto" => draft'[s] = DocEntry[target'[s]]
  BY DEF AutoInv
<1>1. CASE pc'[s] \in {"find", "claim", "year", "idle"}
  BY <1>1
<1>2. CASE /\ pc'[s] = pc[s] /\ kind'[s] = kind[s]
           /\ target'[s] = target[s] /\ draft'[s] = draft[s]
  BY <1>2 DEF AutoInv
<1>3. CASE \E c \in Posts : RequestPost(s, c)
  BY <1>3 DEF RequestPost, Begin, Goto
<1>4. CASE ClaimRun(s)
  BY <1>4 DEF ClaimRun, Goto, Fail, Answer, JobOK
<1>5. CASE AcquireChain(s)
  BY <1>5 DEF AcquireChain, Goto, AutoInv
<1>6. CASE Continue(s)
  <2>1. CASE CheckYear(s) \/ ReadHead(s)
    BY <2>1 DEF CheckYear, ReadHead, Goto, Fail, Answer, AutoInv
  <2>2. CASE InsertEntry(s)
    BY <2>2 DEF InsertEntry, Answer, AutoInv
  <2>3. CASE InsertConflict(s) \/ FindPosting(s) \/ ReadYear(s) \/ CommitReopen(s)
    BY <2>3 DEF InsertConflict, FindPosting, ReadYear, CommitReopen, Goto, Fail, Answer
  <2>4. CASE LoadInvoice(s)
    BY <2>4 DEF LoadInvoice, Goto, Fail, Answer
  <2>5. CASE RecordPosting(s)
    BY <2>5 DEF RecordPosting, Fail, Answer
  <2>6. CASE ReadTrial(s)
    BY <2>6 DEF ReadTrial, Goto, Fail, Answer, JobOK
  <2> QED
    BY <1>6, <2>1, <2>2, <2>3, <2>4, <2>5, <2>6 DEF Continue
<1> QED
  BY <1>1, <1>2, <1>3, <1>4, <1>5, <1>6, RequestSteps

\* An insert keeps what is there and adds a reference that is new.
LEMMA RefStep ==
  ASSUME TypeInv, RefInv, [Next]_vars
  PROVE  RefInv'
<1>1. ASSUME NEW r \in Reqs, InsertEntry(r) PROVE RefInv'
  <2> DEFINE n == Len(entries)
             e == NewEntry(r)
  <2>1. entries' = Append(entries, e) /\ ~ DuplicateRef(draft[r]) /\ pc[r] = "insert"
    BY <1>1 DEF InsertEntry
  <2>2. /\ n \in Nat
        /\ Len(entries') = n + 1
        /\ entries'[n + 1] = e
        /\ \A i \in 1 .. n : entries'[i] = entries[i]
    BY <2>1, NewEntryType DEF TypeInv, TypeOK
  <2>3. e.content = draft[r]
    BY DEF NewEntry
  <2> HIDE DEF e
  <2>4. \A i \in 1 .. n : \/ entries[i].content.ref # e.content.ref
                          \/ entries[i].content.journal # e.content.journal
    BY <2>1, <2>3 DEF DuplicateRef
  <2>5. \A i \in 1 .. n + 1 : i \in 1 .. n \/ i = n + 1
    BY <2>2
  <2> QED
    BY <2>2, <2>4, <2>5 DEF RefInv
<1>2. CASE UNCHANGED entries
  BY <1>2 DEF RefInv
<1> QED
  BY <1>1, <1>2, BookSteps DEF CommitReopen, CreateFiscalYear

LEMMA RowStep ==
  ASSUME TypeInv, AutoInv, RowInv, [Next]_vars
  PROVE  RowInv'
<1>1. ASSUME NEW r \in Reqs, InsertEntry(r) PROVE RowInv'
  <2>1. /\ entries' = Append(entries, NewEntry(r)) /\ postings' = postings
        /\ pc[r] = "insert"
    BY <1>1 DEF InsertEntry
  <2>2. \A i \in 1 .. Len(entries) : entries'[i] = entries[i]
    BY <2>1, NewEntryType DEF TypeInv, TypeOK
  <2>3. \A d \in Docs : postings[d] # 0 => postings[d] \in 1 .. Len(entries)
    BY DEF TypeInv, TypeOK
  <2> QED
    BY <2>1, <2>2, <2>3 DEF RowInv
<1>2. ASSUME NEW r \in Reqs, RecordPosting(r), postings' # postings PROVE RowInv'
  <2>1. /\ entries' = entries /\ pc[r] = "record"
        /\ postings' = [postings EXCEPT ![target[r]] = OwnEntry(r)]
    BY <1>2 DEF RecordPosting, Fail
  <2>2. target[r] \in Docs /\ entries[OwnEntry(r)].content = DocEntry[target[r]]
    BY <2>1, OwnEntryType DEF AutoInv, TypeInv, JobOK, Posting, Critical
  <2> QED
    BY <2>1, <2>2 DEF RowInv, TypeInv, TypeOK
<1>3. CASE UNCHANGED <<entries, postings>>
  BY <1>3 DEF RowInv
<1>4. ASSUME NEW r \in Reqs, Continue(r), ~ InsertEntry(r)
      PROVE  UNCHANGED entries /\ (RecordPosting(r) \/ UNCHANGED postings)
  BY <1>4 DEF Continue, CheckYear, ReadHead, InsertConflict, FindPosting, LoadInvoice, RecordPosting,
              ReadYear, ReadTrial, CommitReopen, Fail, ledgerVars
<1>5. ASSUME NEW r \in Reqs, Request(r) \/ ClaimRun(r) \/ AcquireChain(r) \/ Crash(r)
      PROVE  UNCHANGED <<entries, postings>>
  BY <1>5 DEF Request, RequestPost, RequestAutoPost, RequestRun, RequestClose, RequestReopen, Begin,
              ledgerVars, ClaimRun, AcquireChain, Crash, Fail
<1>6. CASE (\E y \in Years : CreateFiscalYear(y)) \/ (\E d \in Docs : MoveInvoice(d))
  BY <1>3, <1>6 DEF CreateFiscalYear, MoveInvoice
<1>7. CASE UNCHANGED vars
  BY <1>3, <1>7 DEF vars
<1> QED
  BY <1>1, <1>2, <1>3, <1>4, <1>5, <1>6, <1>7 DEF Next

\* A posting row names the one entry its invoice was posted by, however many
\* requests post the invoice at once and wherever they die between the entry's
\* transaction and the row's (autopost.go:267-277).
THEOREM PostsOnce == Spec => []PostedOnce
<1>1. Init => PostInv
  BY InitType DEF Init, PostInv, AutoInv, RefInv, RowInv, Posting, Critical
<1>2. PostInv /\ [Next]_vars => PostInv'
  BY TypeStep, AutoStep, RefStep, RowStep DEF PostInv
<1>3. PostInv => PostedOnce
  <2> SUFFICES ASSUME PostInv, NEW d \in Docs, postings[d] # 0, NEW i \in 1 .. Len(entries)
               PROVE  /\ i = postings[d] => entries[i].content = DocEntry[d]
                      /\ i # postings[d] => \/ entries[i].content.ref # DocEntry[d].ref
                                            \/ entries[i].content.journal # DocEntry[d].journal
    BY DEF PostedOnce
  <2>1. postings[d] \in 1 .. Len(entries) /\ entries[postings[d]].content = DocEntry[d]
    BY DEF PostInv, RowInv, TypeInv, TypeOK
  <2> QED
    BY <2>1 DEF PostInv, RefInv
<1> QED
  BY <1>1, <1>2, <1>3, PTL DEF Spec

-----------------------------------------------------------------------------
(* Payroll: the entry of a run and its flip commit together. *)

\* Whose entry a request has in hand.
SourceInv ==
  \A r \in Reqs : pc[r] \in Posting =>
    /\ kind[r] \in {"post", "auto", "run", "close"}
    /\ kind[r] = "post" => draft[r] \in Posts
    /\ kind[r] = "run" => draft[r] = RunEntry[target[r]]
    /\ kind[r] = "close" => draft[r].ref = target[r].ref

BookedInv ==
  \A p \in Runs, i \in 1 .. Len(entries) :
    entries[i].content = RunEntry[p] => runs[p] = "posted"

RunInv == PostInv /\ SourceInv /\ BookedInv

LEMMA SourceStep ==
  ASSUME TypeInv, SourceInv, [Next]_vars
  PROVE  SourceInv'
<1> USE DEF TypeInv, TypeOK, Posting, Critical
<1> SUFFICES ASSUME NEW s \in Reqs, pc'[s] \in Posting
             PROVE  /\ kind'[s] \in {"post", "auto", "run", "close"}
                    /\ kind'[s] = "post" => draft'[s] \in Posts
                    /\ kind'[s] = "run" => draft'[s] = RunEntry[target'[s]]
                    /\ kind'[s] = "close" => draft'[s].ref = target'[s].ref
  BY DEF SourceInv
<1>1. CASE pc'[s] \in {"find", "claim", "year", "idle"}
  BY <1>1
<1>2. CASE /\ pc'[s] = pc[s] /\ kind'[s] = kind[s]
           /\ target'[s] = target[s] /\ draft'[s] = draft[s]
  BY <1>2 DEF SourceInv
<1>3. CASE \E c \in Posts : RequestPost(s, c)
  BY <1>3 DEF RequestPost, Begin, Goto
<1>4. CASE ClaimRun(s)
  BY <1>4 DEF ClaimRun, Goto, Fail, Answer, JobOK
<1>5. CASE AcquireChain(s)
  BY <1>5 DEF AcquireChain, Goto, SourceInv
<1>6. CASE Continue(s)
  <2>1. CASE CheckYear(s) \/ ReadHead(s)
    BY <2>1 DEF CheckYear, ReadHead, Goto, Fail, Answer, SourceInv
  <2>2. CASE InsertEntry(s)
    BY <2>2 DEF InsertEntry, Answer, SourceInv
  <2>3. CASE InsertConflict(s) \/ FindPosting(s) \/ ReadYear(s) \/ CommitReopen(s)
    BY <2>3 DEF InsertConflict, FindPosting, ReadYear, CommitReopen, Goto, Fail, Answer
  <2>4. CASE LoadInvoice(s)
    BY <2>4 DEF LoadInvoice, Goto, Fail, Answer, JobOK
  <2>5. CASE RecordPosting(s)
    BY <2>5 DEF RecordPosting, Fail, Answer
  <2>6. CASE ReadTrial(s)
    BY <2>6 DEF ReadTrial, Goto, Fail, Answer, JobOK
  <2> QED
    BY <1>6, <2>1, <2>2, <2>3, <2>4, <2>5, <2>6 DEF Continue
<1> QED
  BY <1>1, <1>2, <1>3, <1>4, <1>5, <1>6, RequestSteps

\* Nothing takes a run's status back.
LEMMA RunsStayPosted ==
  ASSUME TypeInv, [Next]_vars, NEW p \in Runs, runs[p] = "posted"
  PROVE  runs'[p] = "posted"
<1>1. ASSUME NEW r \in Reqs, CheckYear(r) \/ InsertEntry(r) PROVE runs'[p] = "posted"
  BY <1>1 DEF CheckYear, InsertEntry, CommitRun, Fail, ledgerVars, TypeInv, TypeOK
<1>2. ASSUME NEW r \in Reqs, Continue(r), ~ CheckYear(r), ~ InsertEntry(r) PROVE UNCHANGED runs
  BY <1>2 DEF Continue, ReadHead, InsertConflict, FindPosting, LoadInvoice, RecordPosting,
              ReadYear, ReadTrial, CommitReopen, Fail, ledgerVars
<1>3. ASSUME NEW r \in Reqs, Request(r) \/ ClaimRun(r) \/ AcquireChain(r) \/ Crash(r)
      PROVE  UNCHANGED runs
  BY <1>3 DEF Request, RequestPost, RequestAutoPost, RequestRun, RequestClose, RequestReopen, Begin,
              ledgerVars, ClaimRun, AcquireChain, Crash, Fail
<1> QED
  BY <1>1, <1>2, <1>3 DEF Next, CreateFiscalYear, MoveInvoice, vars

LEMMA BookedStep ==
  ASSUME RunsAreApart, TypeInv, AutoInv, SourceInv, BookedInv, [Next]_vars
  PROVE  BookedInv'
<1>1. ASSUME NEW r \in Reqs, InsertEntry(r) PROVE BookedInv'
  <2> DEFINE n == Len(entries)
             e == NewEntry(r)
  <2>1. entries' = Append(entries, e) /\ pc[r] = "insert"
    BY <1>1 DEF InsertEntry
  <2>2. /\ n \in Nat
        /\ Len(entries') = n + 1
        /\ entries'[n + 1] = e
        /\ \A i \in 1 .. n : entries'[i] = entries[i]
    BY <2>1, NewEntryType DEF TypeInv, TypeOK
  <2>3. e.content = draft[r]
    BY DEF NewEntry
  <2>4. ASSUME NEW p \in Runs, draft[r] = RunEntry[p] PROVE runs'[p] = "posted"
    <3>1. kind[r] = "run" /\ target[r] \in Runs /\ draft[r] = RunEntry[target[r]]
      BY <2>1, <2>4
      DEF RunsAreApart, SourceInv, AutoInv, TypeInv, JobOK, Posting, Critical
    <3>2. target[r] = p
      BY <2>4, <3>1 DEF RunsAreApart
    <3>3. runs' = [runs EXCEPT ![p] = "posted"]
      BY <1>1, <3>1, <3>2 DEF InsertEntry, CommitRun
    <3> QED
      BY <3>3 DEF TypeInv, TypeOK
  <2> HIDE DEF e
  <2>5. ASSUME NEW p \in Runs, NEW i \in 1 .. n + 1, entries'[i].content = RunEntry[p]
        PROVE  runs'[p] = "posted"
    <3>1. CASE i = n + 1
      BY <2>2, <2>3, <2>4, <2>5, <3>1
    <3>2. CASE i \in 1 .. n
      BY <2>2, <2>5, <3>2, RunsStayPosted DEF BookedInv
    <3> QED
      BY <2>2, <3>1, <3>2
  <2> QED
    BY <2>2, <2>5 DEF BookedInv
<1>2. CASE UNCHANGED entries
  BY <1>2, RunsStayPosted DEF BookedInv
<1> QED
  BY <1>1, <1>2, BookSteps DEF CommitReopen, CreateFiscalYear

\* An entry of a payroll run is in the ledger only with the posted run, and once,
\* although run and entry are written by two services (payroll_service.go:14).
\* The other direction fails: a run can be posted without its entry.
THEOREM EntriesHaveTheirRuns ==
  ASSUME RunsAreApart
  PROVE  Spec => []EntryHasItsRun
<1>1. Init => RunInv
  BY InitType
  DEF Init, RunInv, PostInv, AutoInv, RefInv, RowInv, SourceInv, BookedInv, Posting, Critical
<1>2. RunInv /\ [Next]_vars => RunInv'
  BY TypeStep, AutoStep, RefStep, RowStep, SourceStep, BookedStep DEF RunInv, PostInv
<1>3. RunInv => EntryHasItsRun
  <2> SUFFICES ASSUME RunInv, NEW p \in Runs,
                      NEW k \in 1 .. Len(entries), entries[k].content = RunEntry[p]
               PROVE  /\ runs[p] = "posted"
                      /\ Cardinality({i \in 1 .. Len(entries) :
                                        entries[i].content = RunEntry[p]}) = 1
    BY DEF EntryHasItsRun
  <2>1. {i \in 1 .. Len(entries) : entries[i].content = RunEntry[p]} = {k}
    BY DEF RunInv, PostInv, RefInv
  <2>2. Cardinality({k}) = 1
    BY FS_Singleton
  <2> QED
    BY <2>1, <2>2 DEF RunInv, BookedInv
<1> QED
  BY <1>1, <1>2, <1>3, PTL DEF Spec

-----------------------------------------------------------------------------
(* Forgeries. *)

\* A hash commits to the content it was made of.
LEMMA ChainIsInjective ==
  ASSUME NEW prev \in Hash, NEW c \in Content, NEW d \in Content, Chain(prev, c) = Chain(prev, d)
  PROVE  c = d
<1>1. /\ Chain(prev, c)[Len(prev) + 1] = c
      /\ Chain(prev, d)[Len(prev) + 1] = d
  BY DEF Chain, Hash
<1> QED
  BY <1>1

\* A chain in which the entry after position i - 1 is that of position i + 1
\* does not verify: the lengths of the hashes disagree.
LEMMA GapIsSeen ==
  ASSUME TypeInv, LinkInv, NEW i \in 1 .. Len(entries) - 1,
         NEW t, i <= Len(t), Len(t) \in Nat, t[i] = entries[i + 1],
         i # 1 => t[i - 1] = entries[i - 1]
  PROVE  ~ VerifyChain(t)
<1> SUFFICES ASSUME VerifyChain(t) PROVE FALSE
  OBVIOUS
<1>1. Len(entries) \in Nat /\ i \in 1 .. Len(t) /\ i + 1 \in 1 .. Len(entries)
  BY DEF TypeInv, TypeOK
<1>2. Len(t[i].prev) = i
  BY <1>1, PrevLength
<1>3. t[i].prev = (IF i = 1 THEN GenesisHash ELSE t[i - 1].hash)
  BY <1>1 DEF VerifyChain
<1>4. CASE i = 1
  BY <1>2, <1>3, <1>4 DEF GenesisHash
<1>5. CASE i # 1
  <2>1. i - 1 \in 1 .. Len(entries)
    BY <1>1, <1>5
  <2>2. Len(t[i - 1].hash) = i - 1
    BY <1>5, <2>1 DEF LinkInv
  <2> QED
    BY <1>1, <1>2, <1>3, <1>5, <2>2
<1> QED
  BY <1>4, <1>5

\* Whatever is posted by whatever requests, a content that is exchanged for
\* another, an entry that is dropped and neighbours that are swapped break the
\* chain (entry.go:70-112, store.go:203-219).
THEOREM ForgeriesAreSeen == Spec => []TamperEvident
<1>1. SafeInv => TamperEvident
  <2> SUFFICES ASSUME SafeInv, NEW i \in 1 .. Len(entries)
               PROVE  /\ \A p \in Posts :
                           \A forged \in {p, [entries[i].content EXCEPT !.legs = p.legs]} :
                             forged # entries[i].content =>
                               ~ VerifyChain([entries EXCEPT ![i].content = forged])
                      /\ i < Len(entries) =>
                           /\ ~ VerifyChain(SubSeq(entries, 1, i - 1)
                                              \o SubSeq(entries, i + 1, Len(entries)))
                           /\ ~ VerifyChain([entries EXCEPT ![i] = entries[i + 1],
                                                            ![i + 1] = entries[i]])
    BY DEF TamperEvident
  <2>1. entries \in Seq(Entry) /\ Len(entries) \in Nat
    BY DEF SafeInv, TypeInv, TypeOK
  <2>2. entries[i] \in Entry
    BY <2>1
  <2>3. ASSUME NEW forged \in Content, forged # entries[i].content
        PROVE  ~ VerifyChain([entries EXCEPT ![i].content = forged])
    <3> DEFINE t == [entries EXCEPT ![i].content = forged]
    <3> SUFFICES ASSUME VerifyChain(t) PROVE FALSE
      OBVIOUS
    <3>1. /\ Len(t) = Len(entries)
          /\ t[i].prev = entries[i].prev /\ t[i].hash = entries[i].hash
          /\ t[i].content = forged
      BY <2>1, <2>2 DEF Entry
    <3> HIDE DEF t
    <3>2. t[i].hash = Chain(t[i].prev, t[i].content)
      BY <3>1 DEF VerifyChain
    <3>3. entries[i].hash = Chain(entries[i].prev, entries[i].content)
      BY DEF SafeInv, LinkInv, ChainIntact, VerifyChain
    <3>4. entries[i].prev \in Hash /\ entries[i].content \in Content
      BY <2>2 DEF Entry
    <3> QED
      BY <2>3, <3>1, <3>2, <3>3, <3>4, ChainIsInjective
  <2>4. ASSUME NEW p \in Posts
        PROVE  p \in Content /\ [entries[i].content EXCEPT !.legs = p.legs] \in Content
    BY <2>2, LedgerAssumption DEF Entry, Content
  <2>5. ASSUME i < Len(entries)
        PROVE  ~ VerifyChain(SubSeq(entries, 1, i - 1) \o SubSeq(entries, i + 1, Len(entries)))
    <3> DEFINE before == SubSeq(entries, 1, i - 1)
               after == SubSeq(entries, i + 1, Len(entries))
               t == before \o after
    <3>1. /\ before \in Seq(Entry) /\ Len(before) = i - 1
          /\ \A k \in 1 .. i - 1 : before[k] = entries[k]
      BY <2>1, <2>5
    <3>2. /\ after \in Seq(Entry) /\ Len(after) = Len(entries) - i
          /\ after[1] = entries[i + 1]
      BY <2>1, <2>5
    <3> HIDE DEF before, after
    <3>3. Len(t) = Len(entries) - 1 /\ t[i] = entries[i + 1]
      <4>1. i - 1 \in Nat /\ Len(entries) - i \in Nat /\ i <= Len(before) + Len(after)
        BY <2>1, <2>5, <3>1, <3>2
      <4>2. /\ Len(t) = Len(before) + Len(after)
            /\ t[Len(before) + 1] = after[1]
        BY <2>5, <3>1, <3>2, <4>1
      <4> QED
        BY <2>1, <3>1, <3>2, <4>1, <4>2
    <3>4. i # 1 => t[i - 1] = entries[i - 1]
      BY <2>1, <2>5, <3>1, <3>2
    <3> HIDE DEF t
    <3>5. ~ VerifyChain(t)
      BY <2>1, <2>5, <3>3, <3>4, GapIsSeen DEF SafeInv
    <3> QED
      BY <3>5 DEF t, before, after
  <2>6. ASSUME i < Len(entries)
        PROVE  ~ VerifyChain([entries EXCEPT ![i] = entries[i + 1], ![i + 1] = entries[i]])
    <3> DEFINE t == [entries EXCEPT ![i] = entries[i + 1], ![i + 1] = entries[i]]
    <3>1. Len(t) = Len(entries) /\ t[i] = entries[i + 1] /\ (i # 1 => t[i - 1] = entries[i - 1])
      BY <2>1, <2>6
    <3> HIDE DEF t
    <3>2. ~ VerifyChain(t)
      BY <2>1, <2>6, <3>1, GapIsSeen DEF SafeInv
    <3> QED
      BY <3>2 DEF t
  <2> QED
    BY <2>3, <2>4, <2>5, <2>6
<1> QED
  BY <1>1, Safe, PTL

-----------------------------------------------------------------------------
(* The closing entry. *)

\* What TrialBalance adds up is a sum in the sense of Sums.
LEMMA IndexedSum ==
  ASSUME NEW n \in Nat, NEW a, \A i \in 1 .. n : entries[i].content.legs[a] \in Int
  PROVE  MapThenSumSet(LAMBDA i : entries[i].content.legs[a], 1 .. n)
           = SumOf([i \in 1 .. n |-> entries[i].content.legs[a]], 1 .. n)
<1> DEFINE S == 1 .. n
           f == [i \in S |-> entries[i].content.legs[a]]
           IsBook(g) == g = [s \in SUBSET S |->
                       IF s = {} THEN 0
                       ELSE entries[Pick(s)].content.legs[a] + g[s \ {Pick(s)}]]
           h == CHOOSE g : IsBook(g)
<1>1. IsFiniteSet(S) /\ \A i \in S : f[i] \in Int
  <2>1. IsFiniteSet(S)
    BY FirstAreFinite
  <2>2. \A i \in S : f[i] \in Int
    OBVIOUS
  <2> QED
    BY <2>1, <2>2
<1>2. \A s \in SUBSET S : s # {} => Pick(s) \in S
  BY PickIn
<1>3. MapThenSumSet(LAMBDA i : entries[i].content.legs[a], S) = h[S]
  BY DEF MapThenSumSet, MapThenFoldSet, Pick
<1>4. \E g : IsBook(g)
  <2>1. PICK g \in [SUBSET S -> Int] : \A s \in SUBSET S : g[s] = Unfold(f, g, s)
    <3> HIDE DEF f, S
    <3> QED
      BY <1>1, TableExists, Zenon
  <2>2. IsBook(g)
    BY <1>2, <2>1 DEF Unfold
  <2> QED
    BY <2>2
<1>5. IsBook(h)
  <2> HIDE DEF IsBook
  <2> QED
    BY <1>4
<1>6. IsTable(h, f, S)
  <2> HIDE DEF h
  <2> QED
    BY <1>2, <1>5 DEF IsTable, Unfold
<1> HIDE DEF f, S, h
<1>7. h[S] = SumOf(f, S)
  BY <1>1, <1>6, TableIsSum
<1> QED
  BY <1>3, <1>7 DEF f, S

LEMMA TrialType ==
  ASSUME TypeInv, NEW a \in Accounts
  PROVE  TrialBalance(entries)[a] \in Int
<1> DEFINE n == Len(entries)
           legs == [i \in 1 .. n |-> entries[i].content.legs[a]]
<1>1. n \in Nat /\ \A i \in 1 .. n : entries[i].content.legs[a] \in Int
  <2>1. n \in Nat /\ \A i \in 1 .. n : entries[i] \in Entry
    BY DEF TypeInv, TypeOK
  <2>2. \A e \in Entry : e.content.legs \in Legs
    BY DEF Entry, Content
  <2>3. \A l \in Legs : l[a] \in Int
    BY DEF Legs
  <2> QED
    BY <2>1, <2>2, <2>3
<1>2. IsFiniteSet(1 .. n) /\ \A i \in 1 .. n : legs[i] \in Int
  <2>1. IsFiniteSet(1 .. n)
    BY <1>1, FirstAreFinite
  <2>2. \A i \in 1 .. n : legs[i] \in Int
    BY <1>1
  <2> QED
    BY <2>1, <2>2
<1> HIDE DEF legs, n
<1>3. SumOf(legs, 1 .. n) \in Int
  BY <1>2, SumType
<1>4. TrialBalance(entries)[a] = SumOf(legs, 1 .. n)
  BY <1>1, IndexedSum DEF TrialBalance, legs, n
<1> QED
  BY <1>3, <1>4

\* The legs that BuildClosingLines makes of any integer balances add up to zero
\* and close every revenue and expense account (tax.go:168-211).
LEMMA ClosingLegsAreExact ==
  ASSUME Retained \notin ProfitAndLoss,
         NEW trial, \A a \in Accounts : trial[a] \in Int, CanClose(trial)
  PROVE  /\ Valid(ClosingLegs(trial))
         /\ \A a \in ProfitAndLoss : trial[a] + ClosingLegs(trial)[a] = 0
<1> DEFINE T == ToClose(trial)
           net == Income(trial)
           legs == ClosingLegs(trial)
           part == [a \in Accounts |-> IF a \in T THEN - trial[a] ELSE 0]
           rest == [a \in Accounts |-> IF a = Retained THEN - net ELSE 0]
<1>1. /\ IsFiniteSet(Accounts) /\ Retained \in Accounts
      /\ T \subseteq ProfitAndLoss /\ T \in SUBSET Accounts /\ T # {}
      /\ net \in Int /\ net = - SumOf(trial, T)
  BY AccountsAssumption DEF CanClose, ToClose, ProfitAndLoss, NonZero, Income, LegSum, SumOf
<1>2. IsFiniteSet(T)
  BY <1>1, FS_Subset
<1>3. \A a \in Accounts : legs[a] = part[a] + rest[a]
  BY <1>1 DEF ClosingLegs
<1>4. \A a \in Accounts : part[a] \in Int /\ rest[a] \in Int
  BY <1>1
<1>5. \A a \in T : part[a] = - trial[a] /\ trial[a] \in Int /\ trial[a] # 0
  BY <1>1 DEF ToClose, NonZero
<1>6. \A a \in Accounts \ T : part[a] = 0
  OBVIOUS
<1>7. rest[Retained] = - net /\ \A a \in Accounts \ {Retained} : rest[a] = 0
  BY <1>1
<1>8. \A a \in ProfitAndLoss : trial[a] + legs[a] = 0
  BY <1>1 DEF ClosingLegs, ToClose, ProfitAndLoss, NonZero
<1> HIDE DEF T, net, legs, part, rest
<1>9. \E a \in Accounts : legs[a] # 0
  <2>1. PICK a \in T : TRUE
    BY <1>1
  <2>2. a \in Accounts \ {Retained}
    BY <1>1
  <2>3. part[a] # 0 /\ rest[a] = 0 /\ part[a] \in Int
    BY <1>4, <1>5, <1>7, <2>1, <2>2
  <2> QED
    BY <1>3, <2>2, <2>3
<1>10. SumOf(legs, Accounts) = SumOf(part, Accounts) + SumOf(rest, Accounts)
  BY <1>1, <1>3, <1>4, SumPlus
<1>11. SumOf(rest, Accounts) = - net
  BY <1>1, <1>4, <1>7, SumSingle
<1>12. SumOf(part, Accounts) = SumOf(part, T)
  BY <1>1, <1>4, <1>6, SumPart
<1>13. SumOf(part, T) + SumOf(trial, T) = 0
  <2> DEFINE none == [a \in T |-> 0]
  <2>1. \A a \in T : part[a] \in Int /\ trial[a] \in Int /\ none[a] = part[a] + trial[a]
    BY <1>1, <1>4, <1>5
  <2>2. \A a \in T : none[a] = 0
    OBVIOUS
  <2> HIDE DEF none
  <2>3. SumOf(none, T) = 0
    BY <1>2, <2>2, SumZero
  <2>4. SumOf(none, T) = SumOf(part, T) + SumOf(trial, T)
    BY <1>2, <2>1, SumPlus
  <2> QED
    BY <2>3, <2>4
<1>14. SumOf(part, T) \in Int /\ SumOf(trial, T) \in Int
  BY <1>1, <1>2, <1>4, <1>5, SumType
<1>15. SumOf(legs, Accounts) = 0
  BY <1>1, <1>10, <1>11, <1>12, <1>13, <1>14
<1> QED
  BY <1>8, <1>9, <1>15 DEF Valid, LegSum, SumOf, legs

\* Whatever has been posted when a year is closed, the closing entry balances and
\* zeroes the revenue and expense accounts (service.go:81-167). The hypothesis is
\* what the code leaves to its caller: BuildClosingLines looks the
\* retained-earnings account up and never at its type (tax.go:173-177).
THEOREM ClosesExactly ==
  ASSUME Retained \notin ProfitAndLoss
  PROVE  Spec => []CloseIsExact
<1>1. SafeInv => CloseIsExact
  BY TrialType, ClosingLegsAreExact DEF SafeInv, CloseIsExact
<1> QED
  BY <1>1, Safe, PTL
=============================================================================
