-------------------------------- MODULE Exchange --------------------------------
(***************************************************************************)
(* CSV import and export (backend/internal/dataio) over the rows of one    *)
(* context: organizations, products, members or sales documents. An import *)
(* writes its lines one by one, each in a transaction of its own; an export*)
(* reads pages by OFFSET, each in a statement of its own, while the        *)
(* screens go on creating and renaming rows. The older routes (legacy)     *)
(* take organizations and products only. Zero is a cell left blank.        *)
(***************************************************************************)
EXTENDS Naturals, Sequences, FiniteSets, SequencesExt

CONSTANTS
  Requests,
  Files,      \* parsed CSV payloads: [header : columns, lines : sequence of cells]
  Mappings,   \* what a client may ask for: columns to fields
  First,      \* the rows at the start
  PageSize,   \* 500 in the code
  RowLimit,   \* bound: rows
  ChangeLimit \* bound: rows the screens create or rename

Fields == {"name", "code", "role"}
Contexts == {"orgs", "products", "members", "sales"}
Nobody == "nobody"
Cells == 0 .. 3 \* of a role: 0 none, 1 customer or supplier, 2 prospect, 3 not readable

\* The row's own rules: what the adapters parse, and Validate of the packages behind.
OrgValid(rec) == rec.name # 0 /\ rec.role \in {1, 2}
ProductValid(rec) == rec.name # 0 /\ rec.code # 0 /\ rec.role # 3
MemberValid(rec) == rec.name # 0 /\ rec.code # 0 /\ rec.role # 3
SalesValid(rec) == rec.name # 0 /\ rec.role # 3

\* The screens have written the rows that are there at the start.
ConstantsOK ==
  /\ Nobody \notin Requests
  /\ PageSize \in Nat \ {0} /\ RowLimit \in Nat /\ ChangeLimit \in Nat
  /\ \A f \in Files : f.lines \in Seq([f.header -> Cells])
  /\ First \in Seq([name : Nat, code : Nat, role : Nat, by : {Nobody}, line : {0}])
  /\ Len(First) <= RowLimit
  /\ \A i \in DOMAIN First : OrgValid(First[i]) /\ ProductValid(First[i])

VARIABLES
  context, \* the context at work
  table,   \* its rows, in the order of their ids
  changes, \* history: inserts and renames so far
  edits,   \* creations and renames by the screens
  tied,    \* history: two rows have had the same place in the order
  pc, job, \* per request: what comes next; its parameters
  out,     \* per request: the verdict on each line, or the ids of the rows it listed
  began     \* per request: pages read, and how much there was when it started

vars == <<context, table, changes, edits, tied, pc, job, out, began>>

NoJob == [file |-> [header |-> {}, lines |-> << >>], map |-> << >>, dry |-> FALSE, legacy |-> FALSE,
          export |-> FALSE]
NoStart == [pages |-> 0, rows |-> 0, changes |-> 0]

TypeOK ==
  /\ context \in Contexts
  /\ \A i \in DOMAIN table : table[i].name \in Nat /\ table[i].code \in Nat
  /\ Len(table) <= RowLimit /\ changes \in Nat /\ edits \in 0 .. ChangeLimit /\ tied \in BOOLEAN
  /\ pc \in [Requests -> {"idle", "import", "export", "answered", "refused", "dead"}]
  /\ \A r \in Requests : began[r].rows <= Len(table) /\ began[r].changes <= changes

Valid(rec) ==
  CASE context = "orgs"     -> OrgValid(rec)
    [] context = "products" -> ProductValid(rec)
    [] context = "members"  -> MemberValid(rec)
    [] context = "sales"    -> SalesValid(rec)

\* The unique index of the table; an organization may have no code.
Keyed(rec) == context \in {"products", "members"} \/ (context = "orgs" /\ rec.code # 0)
Taken(rec) == Keyed(rec) /\ \E i \in DOMAIN table : table[i].code = rec.code

\* The order of the list behind an export: documents the newest first.
Place(rows, i) ==
  IF context = "sales" THEN Len(rows) - i
  ELSE IF context = "members" THEN rows[i].code ELSE rows[i].name

Ties(rows) == \E i, j \in DOMAIN rows : i < j /\ Place(rows, i) = Place(rows, j)

\* A query may return rows of one place in any order.
Listings ==
  {p \in SetToSeqs(DOMAIN table) :
     \A i, j \in DOMAIN p : i < j => Place(table, p[i]) <= Place(table, p[j])}

Page(listing, n) ==
  SubSeq(listing, n * PageSize + 1,
         IF (n + 1) * PageSize < Len(listing) THEN (n + 1) * PageSize ELSE Len(listing))

\* The list of documents leaves out their lines, and an export writes one row a line.
Written(page) == IF context = "sales" THEN << >> ELSE page

Init ==
  /\ context \in Contexts
  /\ table = First
  /\ changes = 0 /\ edits = 0 /\ tied = Ties(table)
  /\ pc = [r \in Requests |-> "idle"]
  /\ job = [r \in Requests |-> NoJob]
  /\ out = [r \in Requests |-> << >>]
  /\ began = [r \in Requests |-> NoStart]

Begin(r, j) ==
  /\ pc[r] = "idle"
  /\ job' = [job EXCEPT ![r] = j]
  /\ began' = [began EXCEPT ![r] = [pages |-> 0, rows |-> Len(table), changes |-> changes]]
  /\ UNCHANGED <<context, table, changes, edits, tied, out>>

Insert(rec, who, line) ==
  /\ Len(table) < RowLimit
  /\ table' = Append(table, [name |-> rec.name, code |-> rec.code, role |-> rec.role,
                             by |-> who, line |-> line])
  /\ changes' = changes + 1
  /\ tied' = (tied \/ Ties(table'))

-----------------------------------------------------------------------------
\* Import.

DefaultMapping(f) == [c \in f.header \cap Fields |-> c]

\* ApplyMapping refuses fields and columns that are not there; the older routes
\* want exactly their own header.
Readable(j) ==
  IF j.legacy THEN j.file.header = Fields
  ELSE /\ DOMAIN j.map \subseteq j.file.header
       /\ Range(j.map) \subseteq Fields

\* What a line may become: of two columns mapped to one field either may win, since
\* the mapping is walked in no order.
Records(line, m) ==
  {rec \in [Fields -> Cells] :
     \A x \in Fields :
       LET cells == {line[c] : c \in {d \in DOMAIN m : m[d] = x}}
       IN  rec[x] \in IF cells = {} THEN {0} ELSE cells}

StartImport(r, f, m, dry, legacy) ==
  LET j == [file |-> f, map |-> IF m = << >> THEN DefaultMapping(f) ELSE m,
            dry |-> dry, legacy |-> legacy, export |-> FALSE]
  IN  /\ legacy => context \in {"orgs", "products"} /\ m = << >> /\ ~dry
      /\ Begin(r, j)
      /\ pc' = [pc EXCEPT ![r] = IF Readable(j) THEN "import" ELSE "refused"]

Done(r) == Len(out[r])
HasLine(r) == pc[r] = "import" /\ Done(r) < Len(job[r].file.lines)
NextRecords(r) == Records(job[r].file.lines[Done(r) + 1], job[r].map)
Says(r, verdict) == out' = [out EXCEPT ![r] = Append(@, verdict)]

\* The older routes parse the cells and leave the rest to a store that does not look.
Parsed(rec) == rec.role # 3
\* Mutant: the generic import leaves the rules to the store as well.
ParsedIsEnough(r, rec) == Parsed(rec)

Checked(r, rec) == IF job[r].legacy THEN Parsed(rec) ELSE Valid(rec)

\* A line that does not pass its own check is skipped.
SkipLine(r) ==
  /\ HasLine(r)
  /\ \E rec \in NextRecords(r) : ~Checked(r, rec)
  /\ Says(r, "invalid")
  /\ UNCHANGED <<context, table, changes, edits, tied, pc, job, began>>

\* A dry run stops at the check.
TryLine(r) ==
  /\ HasLine(r) /\ job[r].dry
  /\ \E rec \in NextRecords(r) : Checked(r, rec)
  /\ Says(r, "ok")
  /\ UNCHANGED <<context, table, changes, edits, tied, pc, job, began>>

\* The insert, refused when its key is taken.
ImportRow(r) ==
  /\ HasLine(r) /\ ~job[r].dry
  /\ \E rec \in NextRecords(r) :
       /\ Checked(r, rec)
       /\ \/ /\ Taken(rec) /\ Says(r, "taken")
             /\ UNCHANGED <<table, changes, tied>>
          \/ /\ ~Taken(rec) /\ Says(r, "ok")
             /\ Insert(rec, r, Done(r) + 1)
  /\ UNCHANGED <<context, edits, pc, job, began>>

Report(r) ==
  /\ pc[r] = "import" /\ ~HasLine(r)
  /\ pc' = [pc EXCEPT ![r] = "answered"]
  /\ UNCHANGED <<context, table, changes, edits, tied, job, out, began>>

-----------------------------------------------------------------------------
\* Export.

StartExport(r, legacy) ==
  /\ legacy => context \in {"orgs", "products"}
  /\ Begin(r, [NoJob EXCEPT !.legacy = legacy, !.export = TRUE])
  /\ pc' = [pc EXCEPT ![r] = "export"]

ListPage(r) ==
  /\ pc[r] = "export"
  /\ \E listing \in Listings :
       LET page == Page(listing, began[r].pages)
       IN  /\ out' = [out EXCEPT ![r] = @ \o Written(page)]
           /\ began' = [began EXCEPT ![r].pages = @ + 1]
           /\ pc' = [pc EXCEPT ![r] = IF Len(page) < PageSize THEN "answered" ELSE "export"]
  /\ UNCHANGED <<context, table, changes, edits, tied, job>>

-----------------------------------------------------------------------------
\* A request dies, or the query of an export fails: the older routes have sent their
\* headers by then and end the file where it is.
Die(r) ==
  /\ pc[r] \in {"import", "export"}
  /\ pc' = [pc EXCEPT ![r] = "dead"]
  /\ UNCHANGED <<context, table, changes, edits, tied, job, out, began>>

\* The screens of the package validate what they create and rename.
Create(rec) ==
  /\ edits < ChangeLimit /\ edits' = edits + 1
  /\ Valid(rec) /\ ~Taken(rec)
  /\ Insert(rec, Nobody, 0)
  /\ UNCHANGED <<context, pc, job, out, began>>

Rename(i, name) ==
  /\ edits < ChangeLimit /\ edits' = edits + 1
  /\ context \in {"orgs", "products"}
  /\ i \in DOMAIN table /\ name # 0 /\ name # table[i].name
  /\ Valid([table[i] EXCEPT !.name = name])
  /\ table' = [table EXCEPT ![i].name = name]
  /\ changes' = changes + 1
  /\ tied' = (tied \/ Ties(table'))
  /\ UNCHANGED <<context, pc, job, out, began>>

Next ==
  \/ \E r \in Requests, f \in Files, m \in Mappings, dry, legacy \in BOOLEAN :
       StartImport(r, f, m, dry, legacy)
  \/ \E r \in Requests : SkipLine(r) \/ TryLine(r) \/ ImportRow(r) \/ Report(r)
  \/ \E r \in Requests, legacy \in BOOLEAN : StartExport(r, legacy)
  \/ \E r \in Requests : ListPage(r) \/ Die(r)
  \/ \E rec \in [Fields -> Cells] : Create(rec)
  \/ \E i \in 1 .. RowLimit, name \in Cells : Rename(i, name)

Spec == Init /\ [][Next]_vars

-----------------------------------------------------------------------------
Imports == {r \in Requests : ~job[r].export}
Exports == {r \in Requests : job[r].export}
RowsOf(r) == {i \in DOMAIN table : table[i].by = r}

\* The report of an import is true, and so is what a dying one leaves behind: the
\* lines it called created, each as one row, and nothing of a dry run
\* (dataio/adapters.go:71-95).
ReportIsTrue ==
  \A r \in Imports :
    LET created == {k \in DOMAIN out[r] : out[r][k] = "ok" /\ ~job[r].dry}
    IN  /\ {table[i].line : i \in RowsOf(r)} = created
        /\ Cardinality(RowsOf(r)) = Cardinality(created)

\* What a dry run foresees happens when the file is sent for good, except that a
\* key may be taken by then, or by a line of the file (dataio/adapters.go:73-85),
\* unless two columns compete for one field.
DryRunForetells ==
  \A d, r \in Imports :
    (/\ job[d].dry /\ ~job[r].dry /\ ~job[r].legacy
     /\ job[d].file = job[r].file /\ job[d].map = job[r].map /\ IsInjective(job[r].map))
    => \A k \in DOMAIN out[d] \cap DOMAIN out[r] :
         IF out[d][k] = "ok" THEN out[r][k] \in {"ok", "taken"} ELSE out[r][k] = "invalid"

\* An export that ends lists every row that was there when it began once, but for
\* two rows per insert or rename under way (dataio/adapters.go:195-211): paging by
\* offset repeats the row an insert pushes down and skips the one a rename pulls up.
\* With two rows in one place of the order the pages need not fit at all.
ExportsAddUp ==
  \A r \in Exports :
    (pc[r] = "answered" /\ context # "sales" /\ ~tied)
    => LET listed == Range(out[r])
           missed == (1 .. began[r].rows) \ listed
       IN  Cardinality(missed) + (Len(out[r]) - Cardinality(listed))
             <= 2 * (changes - began[r].changes)

\* Rows that break the rules of their package come from the older routes only
\* (dataio/dataio.go:172-262).
InvalidRowsAreLegacy ==
  \A i \in DOMAIN table :
    ~Valid(table[i]) => table[i].by # Nobody /\ job[table[i].by].legacy

\* dataio_test.go:259 wants a row without a name skipped; the store of the test
\* validates, the store of the database does not.
RowsAreValidated == \A i \in DOMAIN table : Valid(table[i])

\* dataio.go:2: what is exported imports back; of a prospect no role is written.
Exported(row) == [row EXCEPT !.role = IF @ = 1 THEN 1 ELSE 0]
ExportsImportBack == \A i \in DOMAIN table : Valid(table[i]) => Valid(Exported(table[i]))

\* exchange.go:92: sales are exported too; what is listed has no lines.
SalesAreExported ==
  \A r \in Exports : pc[r] = "answered" /\ began[r].rows > 0 => out[r] # << >>
=============================================================================
