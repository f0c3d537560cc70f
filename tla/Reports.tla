--------------------------------- MODULE Reports ---------------------------------
(***************************************************************************)
(* Reports (backend/internal/reporting, and the ledger books of finance).  *)
(* A report is several statements on the pool, without a snapshot, and the *)
(* books, the invoices, the stock and the customers move between them. An  *)
(* entry never changes once it is posted, so reading the entries of a      *)
(* journal and then the lines of each is one step. Each behaviour makes    *)
(* one report and moves what that report reads.                            *)
(***************************************************************************)
EXTENDS Integers, Sequences, FiniteSets, SequencesExt, FiniteSetsExt, Functions

CONSTANTS
  AccountType,  \* accounts, with their types
  Openings,     \* the accounts there at the start
  Entries,      \* entries to post: journal, date, legs [account, debit, credit, rate]
  Documents,    \* (supplier) invoices: side, status at the start, org, month, net, vat, lines
  Country,      \* countries of the customers, at the start
  Abroad,       \* the country a customer may move to
  Members,      \* euMembers
  Registered,   \* the customers with a VAT number
  Warehouses, Price, \* ferp_warehouses; the value of one piece of each product
  Period,       \* <<from, to>> of the reports that ask for one
  ListLimit,    \* the 500 documents of a list
  ChangeLimit   \* bound: changes to what the report reads

VARIABLES
  kind,      \* the report of this behaviour
  inMemory,  \* the store the process was started with
  chart, journals, book,      \* accounts, journals; entries in the order they were posted
  status, due,                \* of each document
  level, country,             \* pieces by product and warehouse; countries of customers
  todo,      \* statements of the report to come
  seen,      \* what each statement of it has returned
  changes,   \* changes so far
  at,        \* history: the books and the dues when it began
  profits    \* history: the profits there have been since

vars == <<kind, inMemory, chart, journals, book, status, due, level, country, todo, seen,
          changes, at, profits>>

Accounts == DOMAIN AccountType
Docs == DOMAIN Documents
Products == DOMAIN Price
Home == "FR"
\* Entry.Validate: two legs or more that are even.
Valid(e) ==
  /\ e.date \in Nat
  /\ e.legs \in Seq([account : Accounts, debit : Nat, credit : Nat, rate : Nat])
  /\ Len(e.legs) > 1
  /\ MapThenSumSet(LAMBDA i : e.legs[i].debit - e.legs[i].credit, DOMAIN e.legs) = 0

ConstantsOK ==
  /\ IsFiniteSet(Accounts) /\ Openings \subseteq Accounts
  /\ \A e \in Entries : Valid(e)
  /\ IsFiniteSet(Docs) /\ Docs \subseteq Nat
  /\ \A d \in Docs : Documents[d].net \in Nat /\ Documents[d].vat \in Nat
  /\ Period \in Nat \X Nat /\ ListLimit > 0

-----------------------------------------------------------------------------
(* What a report makes of the entries it has read *)

Legs(e, accounts) == {i \in DOMAIN e.legs : e.legs[i].account \in accounts}
SumOver(e, accounts, side) ==
  MapThenSumSet(LAMBDA i : e.legs[i][side], Legs(e, accounts))
Sum(entries, accounts, side) ==
  MapThenSumSet(LAMBDA n : SumOver(entries[n], accounts, side), DOMAIN entries)

OfType(accounts, type) == {a \in accounts : AccountType[a] = type}

SignedBalance(a, debit, credit) ==
  IF AccountType[a] \in {"revenue", "equity", "liability"} THEN credit - debit ELSE debit - credit
Balance(entries, a) ==
  SignedBalance(a, Sum(entries, {a}, "debit"), Sum(entries, {a}, "credit"))

\* BuildPNL over the accounts it has read: an entry on another one does not count.
Profit(entries, accounts) ==
  MapThenSumSet(LAMBDA a : Balance(entries, a), OfType(accounts, "revenue"))
    - MapThenSumSet(LAMBDA a : Balance(entries, a), OfType(accounts, "expense"))

Within(entries, from, to) ==
  Restrict(entries, {n \in DOMAIN entries : from <= entries[n].date /\ entries[n].date <= to})

\* The legs PreviewClose proposes, two for each account that is not even; 0 is the
\* result account.
PreviewClose(entries, accounts) ==
  UNION {LET n == Balance(entries, a)
             revenue == AccountType[a] = "revenue"
         IN {[of |-> a, account |-> a, debit |-> IF revenue THEN n ELSE 0,
              credit |-> IF revenue THEN 0 ELSE n],
             [of |-> a, account |-> 0, debit |-> IF revenue THEN 0 ELSE n,
              credit |-> IF revenue THEN n ELSE 0]}
         : a \in {x \in OfType(accounts, "revenue") \cup OfType(accounts, "expense") :
                    Balance(entries, x) # 0}}

\* The store in memory walks the entries, ...
DrillAccount(entries, a, from, to) ==
  LET Net(set) == Sum(set, {a}, "debit") - Sum(set, {a}, "credit")
  IN [opening |-> Net(Restrict(entries, {n \in DOMAIN entries : entries[n].date < from})),
      closing |-> Net(Restrict(entries, {n \in DOMAIN entries : entries[n].date < from}))
                    + Net(Within(entries, from, to))]

\* VATReturn joins lines, entries and accounts and groups them by rate; ...
LegRows(entries) ==
  UNION {{[entry |-> n, pos |-> i, leg |-> entries[n].legs[i]] : i \in DOMAIN entries[n].legs}
         : n \in DOMAIN entries}
VATReturn(entries) ==
  LET rows == {x \in LegRows(entries) : x.leg.rate # 0}
      Total(rate, type, side) ==
        MapThenSumSet(LAMBDA x : x.leg[side],
                      {x \in rows : x.leg.rate = rate /\ AccountType[x.leg.account] = type})
  IN [rate \in {x.leg.rate : x \in rows} |->
        [collected |-> Total(rate, "liability", "credit"),
         deductible |-> Total(rate, "liability", "debit"),
         base |-> Total(rate, "revenue", "credit") - Total(rate, "revenue", "debit")
                    + Total(rate, "expense", "debit") - Total(rate, "expense", "credit")]]

\* ... ComputeVATReturn adds leg after leg to the bucket of its rate.
Bucketed(buckets, l) ==
  LET type == AccountType[l.account]
      b == IF l.rate \in DOMAIN buckets THEN buckets[l.rate]
           ELSE [collected |-> 0, deductible |-> 0, base |-> 0]
      more == CASE type = "liability" -> [b EXCEPT !.collected = @ + l.credit,
                                                   !.deductible = @ + l.debit]
                [] type = "revenue" -> [b EXCEPT !.base = @ + l.credit - l.debit]
                [] type = "expense" -> [b EXCEPT !.base = @ + l.debit - l.credit]
                [] OTHER -> b
  IN IF l.rate = 0 THEN buckets
     ELSE [r \in DOMAIN buckets \cup {l.rate} |-> IF r = l.rate THEN more ELSE buckets[r]]
AddLegs(buckets, e) == FoldLeft(Bucketed, buckets, e.legs)
ComputeVATReturn(entries) == FoldLeft(AddLegs, << >>, entries)

-----------------------------------------------------------------------------
(* What it makes of documents *)

\* A document with a service on every line is a service, any other one goods.
Flow(lines, products) ==
  IF lines # {} /\ \A l \in lines : l.product \in products /\ l.service THEN "services" ELSE "goods"

RegimeFor(side, flow) ==
  IF side = "arrival" THEN IF flow = "services" THEN 27 ELSE 25
  ELSE IF flow = "services" THEN 26 ELSE 21

FilterMovements(moves, side, flow) ==
  {x \in moves : side \in {"all", x.side} /\ flow \in {"all", x.flow}}

\* The filters of the two declarations share no movement and leave none out.
FiltersPartition(moves) ==
  LET parts == {FilterMovements(moves, side, flow) :
                  side \in {"dispatch", "arrival"}, flow \in {"goods", "services"}}
  IN UNION parts = FilterMovements(moves, "all", "all")
     /\ \A p, q \in parts : p # q => p \cap q = {}

-----------------------------------------------------------------------------
(* The reports, as the statements they begin with *)

\* The general ledger reads its accounts after its entries.
\* Mutant: they are read first.
AccountsFirst == <<"accounts", "journals">>
LedgerPlan == <<"journals", "accounts">>

Plan(k) ==
  CASE k \in {"pnl", "preview"} -> <<"accounts", "balance">>
    [] k \in {"period", "drill"} -> <<"accounts", "journals">>
    [] k = "ledger" -> LedgerPlan
    [] k = "fec" -> <<"book", "accounts", "journals">>
    [] k = "statement" -> <<"opening", "legs">>
    [] k \in {"receivables", "monthly", "intra"} -> <<"invoices">>
    [] k = "margins" -> <<"invoices", "products">>
    [] k = "valuation" -> <<"products">>
    [] k = "declaration" -> <<"products", "invoices", "purchases">>

Ledgers == {"pnl", "preview", "period", "drill", "ledger", "fec", "statement"}
Kinds == Ledgers \cup {"receivables", "monthly", "intra", "margins", "valuation", "declaration"}

Live(d) == status[d] \in {"validated", "paid"}
Side(side) == {d \in Docs : Documents[d].side = side}
Newest(docs) == {d \in docs : Cardinality({x \in docs : x > d}) < ListLimit}

\* What the statements return, each of one moment.
EntriesByJournal(j) == {n \in DOMAIN book : book[n].journal = j}
TrialBalance == DOMAIN book
LedgerBook == DOMAIN book
Before(date) == {n \in DOMAIN book : book[n].date < date}
InvoiceBalance(d) == {<<d, due[d]>>}
OrgOf(d) == {<<d, country[Documents[d].org]>>}
StockOf(x) == {<<x, level[x]>>}
\* Drafts are left out after the list has been cut.
ListDocs(side) == {d \in Newest(Side(side)) : Live(d)}

Result(what, of) ==
  CASE what = "accounts" -> chart
    [] what = "journals" -> journals
    [] what = "entries" -> EntriesByJournal(of)
    [] what = "balance" -> TrialBalance
    [] what = "book" -> LedgerBook
    [] what = "opening" -> Before(Period[1])
    [] what = "legs" -> DOMAIN Within(book, Period[1], Period[2])
    [] what = "invoices" -> ListDocs("dispatch")
    [] what = "purchases" -> ListDocs("arrival")
    [] what = "dues" -> InvoiceBalance(of)
    [] what = "org" -> OrgOf(of)
    [] what = "products" -> Products
    [] what = "level" -> StockOf(of)

\* One statement for each item, in their order.
Each(what, items) ==
  [n \in 1 .. Cardinality(items) |->
     <<what, CHOOSE i \in items : Cardinality({j \in items : j < i}) = n - 1>>]
ForLevels(items) == SetToSeq({<<"level", i>> : i \in items})

\* The statements one of its rows gives rise to.
Follow(what, got) ==
  CASE what = "journals" /\ kind \in {"period", "drill", "ledger"} -> Each("entries", got)
    [] what = "invoices" /\ kind = "receivables" -> Each("dues", got)
    [] what \in {"invoices", "purchases"} /\ kind \in {"intra", "declaration"} -> Each("org", got)
    [] what = "products" /\ kind = "valuation" -> ForLevels(got \X {Min(Warehouses)})
    [] what = "products" /\ kind = "margins" -> ForLevels(got \X Warehouses)
    [] OTHER -> << >>

Whats == {"accounts", "journals", "entries", "balance", "book", "opening", "legs", "invoices",
          "purchases", "dues", "org", "products", "level"}
Reads(k, what) == what \in ToSet(Plan(k))
Idle == at = << >>
Done == ~Idle /\ todo = << >>

TypeOK ==
  /\ kind \in Kinds /\ inMemory \in BOOLEAN
  /\ chart \subseteq Accounts /\ ToSet(book) \subseteq Entries
  /\ due \in [Docs -> Nat] /\ level \in [Products \X Warehouses -> Nat]
  /\ DOMAIN seen = Whats

Init ==
  /\ kind \in Kinds
  /\ inMemory \in IF kind \in {"margins", "declaration", "statement"} THEN BOOLEAN ELSE {FALSE}
  /\ chart = Openings /\ journals = {1} /\ book = << >>
  /\ status = [d \in Docs |-> Documents[d].status]
  /\ due = [d \in Docs |-> Documents[d].net + Documents[d].vat]
  /\ level = [x \in Products \X Warehouses |-> 1]
  /\ country = Country
  /\ todo = << >> /\ changes = 0 /\ at = << >> /\ profits = {}
  /\ seen = [what \in Whats |-> {}]

-----------------------------------------------------------------------------
(* The report *)

Start ==
  /\ Idle
  /\ todo' = [i \in DOMAIN Plan(kind) |-> <<Plan(kind)[i], 0>>]
  /\ at' = [book |-> book, chart |-> chart, due |-> due,
            open |-> {d \in Side("dispatch") : status[d] = "validated" /\ due[d] > 0}]
  /\ profits' = {Profit(book, Accounts)}
  /\ UNCHANGED <<kind, inMemory, chart, journals, book, status, due, level, country, seen,
                 changes>>

\* One statement. The store in memory answers for an account in one go.
Read ==
  LET what == Head(todo)[1]
      got == Result(what, Head(todo)[2])
  IN /\ todo # << >>
     /\ IF kind = "statement" /\ inMemory
        THEN /\ seen' = [seen EXCEPT !["opening"] = Result("opening", 0),
                                     !["legs"] = Result("legs", 0)]
             /\ todo' = << >>
        ELSE /\ seen' = [seen EXCEPT ![what] = @ \cup got]
             /\ todo' = Follow(what, got) \o Tail(todo)
     /\ UNCHANGED <<kind, inMemory, chart, journals, book, status, due, level, country, changes,
                    at, profits>>

-----------------------------------------------------------------------------
(* What it reads goes on *)

Change == changes < ChangeLimit /\ changes' = changes + 1

CreateAccount(a) ==
  /\ Change
  /\ kind \in Ledgers /\ a \notin chart
  /\ chart' = chart \cup {a}
  /\ UNCHANGED <<kind, inMemory, journals, book, status, due, level, country, todo, seen, at,
                 profits>>

CreateJournal ==
  /\ Change
  /\ kind \in Ledgers /\ journals = {1}
  /\ journals' = {1, 2}
  /\ UNCHANGED <<kind, inMemory, chart, book, status, due, level, country, todo, seen, at,
                 profits>>

\* An entry is on accounts and in a journal that are there.
PostEntry(e) ==
  /\ Change
  /\ kind \in Ledgers /\ e \notin ToSet(book)
  /\ e.journal \in journals /\ \A i \in DOMAIN e.legs : e.legs[i].account \in chart
  /\ book' = Append(book, e)
  /\ profits' = IF Idle THEN profits ELSE profits \cup {Profit(book', Accounts)}
  /\ UNCHANGED <<kind, inMemory, chart, journals, status, due, level, country, todo, seen, at>>

SetStatus(d, to) ==
  /\ Change
  /\ Reads(kind, "invoices")
  /\ <<status[d], to>> \in {<<"draft", "validated">>, <<"validated", "cancelled">>}
  /\ status' = [status EXCEPT ![d] = to]
  /\ UNCHANGED <<kind, inMemory, chart, journals, book, due, level, country, todo, seen, at,
                 profits>>

RecordPayment(d, amount) ==
  /\ Change
  /\ kind = "receivables" /\ status[d] = "validated"
  /\ amount \in 1 .. due[d]
  /\ due' = [due EXCEPT ![d] = @ - amount]
  /\ status' = [status EXCEPT ![d] = IF amount = due[d] THEN "paid" ELSE @]
  /\ UNCHANGED <<kind, inMemory, chart, journals, book, level, country, todo, seen, at, profits>>

\* Pieces go to another warehouse, both movements in one transaction.
Transfer(p, v, w) ==
  /\ Change
  /\ Reads(kind, "products") /\ kind # "declaration"
  /\ v # w /\ level[<<p, v>>] > 0
  /\ level' = [level EXCEPT ![<<p, v>>] = @ - 1, ![<<p, w>>] = @ + 1]
  /\ UNCHANGED <<kind, inMemory, chart, journals, book, status, due, country, todo, seen, at,
                 profits>>

UpdateOrg(o) ==
  /\ Change
  /\ kind \in {"intra", "declaration"}
  /\ country' = [country EXCEPT ![o] = Abroad]
  /\ UNCHANGED <<kind, inMemory, chart, journals, book, status, due, level, todo, seen, at,
                 profits>>

Next ==
  \/ Start \/ Read
  \/ \E a \in Accounts : CreateAccount(a)
  \/ CreateJournal
  \/ \E e \in Entries : PostEntry(e)
  \/ \E d \in Docs, to \in {"validated", "cancelled"} : SetStatus(d, to)
  \/ \E d \in Side("dispatch") : \E n \in 1 .. due[d] : RecordPayment(d, n)
  \/ \E p \in Products, v, w \in Warehouses : Transfer(p, v, w)
  \/ \E o \in DOMAIN Country : UpdateOrg(o)

Spec == Init /\ [][Next]_vars

-----------------------------------------------------------------------------
(* The answers *)

Walked == Restrict(book, seen["entries"])
Net ==
  CASE kind \in {"pnl", "preview"} -> Profit(Restrict(book, seen["balance"]), seen["accounts"])
    [] kind = "period" -> Profit(Within(Walked, Period[1], Period[2]), seen["accounts"])

\* The rows of the general ledger and of the FEC file, with what they could name.
Rows ==
  {[id |-> x.entry, pos |-> x.pos, leg |-> x.leg,
    named |-> /\ x.leg.account \in seen["accounts"]
              /\ book[x.entry].journal \in seen["journals"]]
     : x \in LegRows(IF kind = "fec" THEN Restrict(book, seen["book"]) ELSE Walked)}

Receivables == {x \in seen["dues"] : x[2] > 0}
ReceivablesTotal == MapThenSumSet(LAMBDA x : x[2], Receivables)

StockValuation == MapThenSumSet(LAMBDA x : x[2] * Price[x[1][1]], seen["level"])

\* ListDocs of PostgreSQL selects no lines.
LinesOf(d) == IF inMemory THEN Documents[d].lines ELSE {}
ProductMargins ==
  [p \in {l.product : l \in UNION {LinesOf(d) : d \in seen["invoices"]}} |->
     LET sold == {x \in UNION {{<<d, l>> : l \in LinesOf(d)} : d \in seen["invoices"]} :
                    x[2].product = p}
         levels == {x \in seen["level"] : x[1][1] = p}
         qty == MapThenSumSet(LAMBDA x : x[2], levels)
         pmp == IF qty > 0 THEN (qty * Price[p] + qty \div 2) \div qty ELSE 0
     IN MapThenSumSet(LAMBDA x : x[2].qty * (x[2].unit - pmp), sold)]

SalesMonthly ==
  [month \in {Documents[d].month : d \in seen["invoices"]} |->
     MapThenSumSet(LAMBDA d : Documents[d].net,
                   {d \in seen["invoices"] : Documents[d].month = month})]

Declarable == {x \in seen["org"] : x[2] \in Members \ {Home}}
IntraEU ==
  [c \in {x[2] : x \in Declarable} |->
     [net |-> MapThenSumSet(LAMBDA x : Documents[x[1]].net, {x \in Declarable : x[2] = c}),
      customers |-> Cardinality({Documents[x[1]].org : x \in {y \in Declarable : y[2] = c}})]]
VATNumberOf(o) == o \in Registered
Movements ==
  {[doc |-> x[1], country |-> x[2], side |-> Documents[x[1]].side,
    flow |-> Flow(LinesOf(x[1]), seen["products"]),
    regime |-> RegimeFor(Documents[x[1]].side, Flow(LinesOf(x[1]), seen["products"]))]
     : x \in {y \in Declarable : VATNumberOf(Documents[y[1]].org)}}

AccountClosing(a) ==
  LET posted == Restrict(book, seen["opening"] \cup seen["legs"])
  IN Sum(posted, {a}, "debit") - Sum(posted, {a}, "credit")

-----------------------------------------------------------------------------
(* Properties *)

\* "unknown ids fall back to the numeric id so the export never silently drops a leg"
\* (finance/fec.go:40): the general ledger and the FEC file are even, every row of
\* them has an account and a journal, and no entry that was there is missing, though
\* accounts, journals and entries are added while they are read.
BooksAreWhole ==
  Done /\ kind \in {"ledger", "fec"} =>
    /\ \A x \in Rows : x.named
    /\ MapThenSumSet(LAMBDA x : x.leg.debit - x.leg.credit, Rows) = 0
    /\ DOMAIN at.book \subseteq {x.id : x \in Rows}

\* The profit and the closing proposal are those of some moment while they were
\* made, unless an account was created meanwhile (reporting/report.go:54-84).
ProfitIsOfAMoment ==
  Done /\ kind \in {"pnl", "preview"} /\ chart = at.chart => Net \in profits

\* The receivables are at most what was due when they were begun, on the invoices of
\* the list, and at least what is due on them now (reporting/report.go:218-241).
ReceivablesAreBracketed ==
  Done /\ kind = "receivables" =>
    /\ ReceivablesTotal <= MapThenSumSet(LAMBDA d : at.due[d], seen["invoices"])
    /\ ReceivablesTotal >= MapThenSumSet(LAMBDA d : due[d], seen["invoices"])

\* The two stores agree on an account and on VAT (finance/ledger.go:25-52,
\* finance/tax.go:118-160, finance/store_phase2.go:218-246, 339-370).
StoresAgree ==
  /\ kind \in Ledgers => VATReturn(book) = ComputeVATReturn(book)
  /\ Done /\ kind = "statement" /\ inMemory /\ book = at.book =>
       \A a \in chart : AccountClosing(a) = DrillAccount(book, a, Period[1], Period[2]).closing

-----------------------------------------------------------------------------
(* What the repository says of the code and the code does not do. *)

\* "ProductMargins computes margins from validated invoices" (reporting/report.go:143):
\* on PostgreSQL the invoices come without their lines and there is no margin.
MarginsCoverSales ==
  Done /\ kind = "margins" =>
    DOMAIN ProductMargins = {l.product : l \in UNION {Documents[d].lines : d \in seen["invoices"]}}

\* "a document is 'services' when every line with a known product resolves to a
\* service" (reporting/deb.go:96): on PostgreSQL every document is goods.
ServicesAreDeclared ==
  Done /\ kind = "declaration" =>
    \A x \in Movements : x.flow = Flow(Documents[x.doc].lines, Products)

\* "computed proposal only; posting lives in finance (POST /finance/entries)"
\* (reporting/compta.go:279): a revenue account with a debit balance is proposed a
\* negative debit, which no entry may have.
ProposalCanBePosted ==
  Done /\ kind = "preview" =>
    \A l \in PreviewClose(Restrict(book, seen["balance"]), seen["accounts"]) :
      l.debit >= 0 /\ l.credit >= 0

\* "profit & loss" over a period that holds every entry (reporting/report.go:2): the
\* journals are read one after the other and the profit may never have been that.
PeriodIsOfAMoment ==
  Done /\ kind = "period" /\ chart = at.chart /\ Within(book, Period[1], Period[2]) = book =>
    Net \in profits

\* "StockValuation values every product in a warehouse" (reporting/report.go:252), and
\* the margins "the quantity-weighted PMP across warehouses": pieces on their way
\* between two reads are counted twice or not at all.
PiecesCountOnce ==
  Done /\ kind = "margins" =>
    \A p \in Products :
      MapThenSumSet(LAMBDA x : x[2], {x \in seen["level"] : x[1][1] = p}) = Cardinality(Warehouses)

\* "Receivables lists validated invoices with an outstanding balance"
\* (reporting/report.go:218): of the 500 newest documents only.
EveryDebtIsListed ==
  Done /\ kind = "receivables" =>
    \A d \in at.open : status[d] = "validated" => d \in seen["invoices"]
=============================================================================
