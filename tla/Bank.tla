---------------------------------- MODULE Bank ----------------------------------
(***************************************************************************)
(* Bank accounts (backend/internal/finance): statements are imported line  *)
(* by line in one transaction, funds are transferred as a pair of rows,    *)
(* rows are recorded by hand, matched with statement lines and reconciled. *)
(* A reference is unique per account (migration 0031), so an INSERT waits  *)
(* for the transaction that has inserted its reference and not ended.      *)
(* With the store in memory each call is one action under its mutex, and   *)
(* no reference but those of an import is looked up.                       *)
(***************************************************************************)
EXTENDS Integers, Sequences, FiniteSets, SequencesExt, FiniteSetsExt, TLC

CONSTANTS
  Requests,   \* concurrent HTTP requests
  Accounts,   \* ferp_bank_accounts
  Statements, \* [account, format, entries] bodies of POST /finance/bank/import
  Transfers,  \* [from, to, amount, ref] bodies of POST /finance/bank/transfer
  References, \* of the rows recorded by hand
  RowLimit    \* bound: ids given to rows

VARIABLES
  inMemory, \* the store the process was started with
  rows,     \* committed rows of ferp_bank_transactions
  pending,  \* per request: rows its transaction has inserted
  nextId,   \* the identity of ferp_bank_transactions
  reported, \* rows the answered imports have counted as imported
  kept,     \* history: lines of answered imports, by account and reference
  pc, work  \* per request: the statement that comes next, what it does it with

vars == <<inMemory, rows, pending, nextId, reported, kept, pc, work>>

None == ""

\* What a file holds for a line; an amount that cannot be read is not decimal.
CsvEntry == [ref : STRING, amount : Int, date : Nat, decimal : BOOLEAN]
CamtEntry == [entryRef : STRING, servicerRef : STRING, side : STRING, amount : Int,
              valued : Nat, booked : Nat, decimal : BOOLEAN]

ConstantsOK ==
  /\ \A s \in Statements :
       /\ s.account \in Accounts
       /\ \/ s.format = "csv" /\ s.entries \in Seq(CsvEntry)
          \/ s.format = "camt053" /\ s.entries \in Seq(CamtEntry)
  /\ \A t \in Transfers : t.from \in Accounts /\ t.amount \in Int

-----------------------------------------------------------------------------
(* Reading a statement *)

Abs(n) == IF n < 0 THEN -n ELSE n

\* A row of a CSV file. Its date is parsed: a date that cannot be is 0.
CsvLine(e) == [ref |-> e.ref, amount |-> e.amount, date |-> e.date]

\* An entry of a camt.053 file: the first of its references and dates that is
\* there, and the sign of its side.
CamtLine(e) ==
  [ref |-> IF e.entryRef # None THEN e.entryRef ELSE e.servicerRef,
   amount |-> IF e.side = "DBIT" THEN -Abs(e.amount) ELSE Abs(e.amount),
   date |-> IF e.valued # 0 THEN e.valued ELSE e.booked]

LineOf(s, i) == IF s.format = "csv" THEN CsvLine(s.entries[i]) ELSE CamtLine(s.entries[i])
LinesOf(s) == [i \in DOMAIN s.entries |-> LineOf(s, i)]

\* One entry that cannot be parsed and the whole file is refused.
Readable(s) ==
  \A i \in DOMAIN s.entries :
    /\ s.entries[i].decimal /\ LineOf(s, i).date > 0
    /\ s.format = "camt053" => s.entries[i].side \in {"DBIT", "CRDT", ""}

-----------------------------------------------------------------------------
(* What an account reads *)

\* ORDER BY value_date, id
Before(t, u) == t.date < u.date \/ (t.date = u.date /\ t.id < u.id)
RowsOf(a) == {t \in rows : t.account = a}
BankTransactions(a) ==
  [i \in 1 .. Cardinality(RowsOf(a)) |->
     CHOOSE t \in RowsOf(a) : Cardinality({u \in RowsOf(a) : Before(u, t)}) = i - 1]

AccountBalance(a) == MapThenSumSet(LAMBDA t : t.amount, RowsOf(a))

ApplyRunningBalance(txs) ==
  [i \in DOMAIN txs |-> FoldLeft(LAMBDA sum, t : sum + t.amount, 0, SubSeq(txs, 1, i))]

\* Each line takes the first row that is free, of its amount and close enough.
MatchTransactions(txs, lines, window) ==
  FoldLeft(
    LAMBDA ids, l :
      LET Fits(i) == /\ txs[i].id \notin ToSet(ids) /\ txs[i].reconciled = 0
                     /\ txs[i].amount = l.amount /\ Abs(txs[i].date - l.date) <= window
      IN Append(ids, IF \E i \in DOMAIN txs : Fits(i)
                     THEN txs[CHOOSE i \in DOMAIN txs : Fits(i) /\ \A j \in 1 .. i - 1 : ~Fits(j)].id
                     ELSE 0),
    << >>, lines)

\* Where dates do not tell rows apart no line is left that a row could have had.
MatchesAll(txs, lines) ==
  LET amounts == {l.amount : l \in ToSet(lines)}
      Free(n) == Cardinality({i \in DOMAIN txs : txs[i].reconciled = 0 /\ txs[i].amount = n})
      Wanted(n) == Cardinality({i \in DOMAIN lines : lines[i].amount = n})
  IN Cardinality({i \in DOMAIN lines : MatchTransactions(txs, lines, 99)[i] # 0})
       = MapThenSumSet(LAMBDA n : Min({Free(n), Wanted(n)}), amounts)

-----------------------------------------------------------------------------
NoWork == [kind |-> "none", account |-> 0, todo |-> << >>, imported |-> 0, skipped |-> 0,
           lines |-> << >>]

Kinds == {"import", "transfer", "record"}
Row == [id : Nat, account : Accounts, ref : STRING, amount : Int, date : Nat,
        reconciled : Nat, kind : Kinds]

TypeOK ==
  /\ inMemory \in BOOLEAN
  /\ IsFiniteSet(rows) /\ \A t \in rows : t \in Row
  /\ \A r \in Requests : \A t \in pending[r] : t \in Row
  /\ nextId \in Nat /\ reported \in Nat
  /\ pc \in [Requests -> {"idle", "insert", "commit", "reconcile"}]

Init ==
  /\ inMemory \in BOOLEAN
  /\ rows = {} /\ nextId = 1 /\ reported = 0 /\ kept = {}
  /\ pending = [r \in Requests |-> {}]
  /\ pc = [r \in Requests |-> "idle"]
  /\ work = [r \in Requests |-> NoWork]

Goto(r, label) == pc' = [pc EXCEPT ![r] = label]
Finish(r) == /\ Goto(r, "idle")
             /\ work' = [work EXCEPT ![r] = NoWork]
             /\ pending' = [pending EXCEPT ![r] = {}]

NewRow(l, account, kind) ==
  [id |-> nextId, account |-> account, ref |-> l.ref, amount |-> l.amount, date |-> l.date,
   reconciled |-> 0, kind |-> kind]

Has(set, account, ref) == \E t \in set : t.account = account /\ t.ref = ref
\* Mutant: a reference is looked for among the committed rows and no index waits.
NobodyElse(r, account, ref) == FALSE
\* Another transaction has inserted the reference and not ended.
Waits(r, account, ref) ==
  ref # None /\ \E q \in Requests \ {r} : Has(pending[q], account, ref)
Taken(r, account, ref) == ref # None /\ Has(rows \cup pending[r], account, ref)

-----------------------------------------------------------------------------
(* Writing rows to PostgreSQL *)

\* The rows of a file, of which one may have no line.
ToInsert(s) == [i \in DOMAIN s.entries |->
  LET l == LineOf(s, i)
  IN [account |-> s.account, ref |-> l.ref, amount |-> l.amount, date |-> l.date]]

\* The file is parsed before the transaction begins.
StartImport(r, s) ==
  /\ pc[r] = "idle" /\ ~inMemory
  /\ nextId <= RowLimit
  /\ Readable(s)
  /\ work' = [work EXCEPT ![r] = [NoWork EXCEPT
       !.kind = "import", !.lines = LinesOf(s), !.account = s.account, !.todo = ToInsert(s)]]
  /\ Goto(r, IF s.entries = << >> THEN "commit" ELSE "insert")
  /\ UNCHANGED <<inMemory, rows, pending, nextId, reported, kept>>

LegsOf(t) ==
  LET Leg(account, amount, side) ==
        [account |-> account, amount |-> amount, date |-> 1,
         ref |-> IF t.ref = None THEN None ELSE t.ref \o side]
  IN <<Leg(t.from, -t.amount, "/out"), Leg(t.to, t.amount, "/in")>>

\* The accounts are looked up first.
Valid(t) == t.amount > 0 /\ t.from # t.to /\ {t.from, t.to} \subseteq Accounts

StartTransfer(r, t) ==
  /\ pc[r] = "idle" /\ ~inMemory
  /\ nextId <= RowLimit
  /\ Valid(t)
  /\ work' = [work EXCEPT ![r] = [NoWork EXCEPT !.kind = "transfer", !.todo = LegsOf(t)]]
  /\ Goto(r, "insert")
  /\ UNCHANGED <<inMemory, rows, pending, nextId, reported, kept>>

\* One INSERT. The reference of an import that is there already does nothing;
\* that of a transfer is an error, and so is an amount of zero.
InsertRow(r) ==
  LET l == Head(work[r].todo)
      isThere == Taken(r, l.account, l.ref)
      rest == [work EXCEPT ![r].todo = Tail(@)]
  IN /\ pc[r] = "insert"
     /\ ~Waits(r, l.account, l.ref)
     /\ UNCHANGED <<inMemory, rows, reported, kept>>
     /\ IF l.amount = 0 \/ (isThere /\ work[r].kind = "transfer")
        THEN Finish(r) /\ UNCHANGED nextId
        ELSE /\ Goto(r, IF Tail(work[r].todo) = << >> THEN "commit" ELSE "insert")
             /\ IF isThere
                THEN /\ work' = [rest EXCEPT ![r].skipped = @ + 1]
                     /\ UNCHANGED <<pending, nextId>>
                ELSE /\ work' = [rest EXCEPT ![r].imported = @ + 1]
                     /\ pending' = [pending EXCEPT ![r] =
                          @ \cup {NewRow(l, l.account, work[r].kind)}]
                     /\ nextId' = nextId + 1

Commit(r) ==
  /\ pc[r] = "commit"
  /\ rows' = rows \cup pending[r]
  /\ IF work[r].kind = "import"
     THEN /\ reported' = reported + work[r].imported
          /\ kept' = kept \cup {<<work[r].account, l.ref>> : l \in ToSet(work[r].lines)}
     ELSE UNCHANGED <<reported, kept>>
  /\ Finish(r)
  /\ UNCHANGED <<inMemory, nextId>>

\* Two transactions wait for each other and PostgreSQL ends one of them, or a
\* client gives up: nothing of the transaction stays.
Abort(r) ==
  /\ pc[r] \in {"insert", "commit"}
  /\ Finish(r)
  /\ UNCHANGED <<inMemory, rows, nextId, reported, kept>>

\* POST /finance/bank/transactions, on the pool.
RecordTransaction(r, account, ref) ==
  /\ pc[r] = "idle" /\ ~inMemory
  /\ nextId <= RowLimit
  /\ ~Waits(r, account, ref) /\ ~Taken(r, account, ref)
  /\ rows' = rows \cup {NewRow([ref |-> ref, amount |-> 1, date |-> 1], account, "record")}
  /\ nextId' = nextId + 1
  /\ UNCHANGED <<inMemory, pending, reported, kept, pc, work>>

-----------------------------------------------------------------------------
(* The store in memory *)

\* One line after those before it. A reference the account has is looked up, and an
\* amount of zero is an error.
PutLine(acc, l) ==
  IF acc.refused \/ l.amount = 0 THEN [acc EXCEPT !.refused = TRUE]
  ELSE IF l.ref \in acc.seen THEN acc
  ELSE [acc EXCEPT !.seen = IF l.ref = None THEN @ ELSE @ \cup {l.ref},
                   !.put = Append(@, l)]
RefsOf(a) == {t.ref : t \in RowsOf(a)} \ {None}
PutLines(s) ==
  FoldLeft(PutLine, [refused |-> FALSE, seen |-> RefsOf(s.account), put |-> << >>], LinesOf(s))

\* The lines before one of amount zero stay.
ImportInMemory(s) ==
  LET got == PutLines(s)
  IN /\ inMemory
     /\ nextId <= RowLimit
     /\ Readable(s)
     /\ rows' = rows \cup {[NewRow(got.put[i], s.account, "import") EXCEPT !.id = nextId + i - 1]
                             : i \in DOMAIN got.put}
     /\ nextId' = nextId + Len(got.put)
     /\ reported' = IF got.refused THEN reported ELSE reported + Len(got.put)
     /\ kept' = IF got.refused THEN kept
                ELSE kept \cup {<<s.account, l.ref>> : l \in ToSet(LinesOf(s))}
     /\ UNCHANGED <<inMemory, pending, pc, work>>

TransferInMemory(t) ==
  /\ inMemory
  /\ nextId <= RowLimit
  /\ Valid(t)
  /\ rows' = rows \cup {[NewRow(LegsOf(t)[i], LegsOf(t)[i].account, "transfer")
                          EXCEPT !.id = nextId + i - 1] : i \in {1, 2}}
  /\ nextId' = nextId + 2
  /\ UNCHANGED <<inMemory, pending, reported, kept, pc, work>>

RecordInMemory(account, ref) ==
  /\ inMemory
  /\ nextId <= RowLimit
  /\ rows' = rows \cup {NewRow([ref |-> ref, amount |-> 1, date |-> 1], account, "record")}
  /\ nextId' = nextId + 1
  /\ UNCHANGED <<inMemory, pending, reported, kept, pc, work>>

-----------------------------------------------------------------------------
(* Reconciling *)

\* The client asks for matches, on what is committed by now, ...
ReconcileMatch(r, s, window) ==
  LET ids == MatchTransactions(BankTransactions(s.account), LinesOf(s), window)
      matched == SelectSeq(ids, LAMBDA id : id # 0)
  IN /\ pc[r] = "idle"
     /\ Readable(s)
     /\ matched # << >>
     /\ work' = [work EXCEPT ![r] = [NoWork EXCEPT !.kind = "reconcile", !.todo = matched]]
     /\ Goto(r, "reconcile")
     /\ UNCHANGED <<inMemory, rows, pending, nextId, reported, kept>>

\* ... and reconciles them one by one. A row somebody else has reconciled since is
\* a conflict, and the client goes on with its next row.
Reconcile(r) ==
  LET id == Head(work[r].todo)
      free == {t \in rows : t.id = id /\ t.reconciled = 0}
  IN /\ pc[r] = "reconcile"
     /\ rows' = (rows \ free) \cup {[t EXCEPT !.reconciled = 1] : t \in free}
     /\ IF Len(work[r].todo) = 1 THEN Finish(r)
        ELSE /\ work' = [work EXCEPT ![r].todo = Tail(@)]
             /\ UNCHANGED <<pc, pending>>
     /\ UNCHANGED <<inMemory, nextId, reported, kept>>

Next ==
  \/ \E s \in Statements : ImportInMemory(s)
  \/ \E t \in Transfers : TransferInMemory(t)
  \/ \E a \in Accounts, ref \in References : RecordInMemory(a, ref)
  \/ \E r \in Requests :
       \/ \E s \in Statements : StartImport(r, s) \/ ReconcileMatch(r, s, 1)
       \/ \E t \in Transfers : StartTransfer(r, t)
       \/ \E a \in Accounts, ref \in References : RecordTransaction(r, a, ref)
       \/ InsertRow(r) \/ Commit(r) \/ Abort(r) \/ Reconcile(r)

Spec == Init /\ [][Next]_vars

-----------------------------------------------------------------------------
(* Properties *)

ImportedRows == {t \in rows : t.kind = "import"}

\* "[ImportStatement] imports the lines idempotently into the bank account"
\* (finance/service.go:37): however imports overlap, deadlock and are sent again,
\* a reference has one row in its account, the references of an answered import
\* are there, and the imports have counted every row once. In memory that holds of
\* the rows imports have put, and a refused import leaves rows nobody counted.
StatementsCountOnce ==
  /\ \A t, u \in IF inMemory THEN ImportedRows ELSE rows :
       t # u /\ t.account = u.account => t.ref # u.ref \/ t.ref = None
  /\ \A k \in kept : \E t \in rows : t.account = k[1] /\ t.ref = k[2]
  /\ IF inMemory THEN reported <= Cardinality(ImportedRows)
     ELSE reported = Cardinality(ImportedRows)

\* A transfer moves funds and makes none: its legs are there together or not at
\* all (finance/store_phase2.go:81-121).
TransfersAreEven ==
  LET legs == {t \in rows : t.kind = "transfer"}
  IN /\ MapThenSumSet(LAMBDA t : t.amount, legs) = 0
     /\ Cardinality({t \in legs : t.amount < 0}) = Cardinality({t \in legs : t.amount > 0})

\* The statement of an account ends with its balance (finance/bankimport.go:274).
StatementEndsWithBalance ==
  \A a \in Accounts : LET txs == BankTransactions(a)
                      IN txs # << >> => Last(ApplyRunningBalance(txs)) = AccountBalance(a)

-----------------------------------------------------------------------------
(* What the repository says of the code and the code does not do. *)

\* "distinct /out /in refs per leg; same cmd re-runs (no dedupe clash)"
\* (finance/bankimport_test.go:143): it does in memory; PostgreSQL refuses the
\* second run, whose legs have the references of the first.
SameTransferReruns ==
  \A r \in Requests : pc[r] = "insert" /\ work[r].kind = "transfer" =>
    LET l == Head(work[r].todo) IN ~Taken(r, l.account, l.ref)
=============================================================================
