---------------------------------- MODULE Boot ----------------------------------
(***************************************************************************)
(* The start of an API process (backend/cmd/api/main.go): the migrations   *)
(* it embeds, the preflight report and the seeds. Replicas of different    *)
(* builds start, die and are started again on one database; nothing locks  *)
(* one start against another. A migration is one transaction; a seed looks *)
(* whether its table is empty and then inserts rows one by one.            *)
(***************************************************************************)
EXTENDS Naturals, Sequences, FiniteSets, FiniteSetsExt, SequencesExt

CONSTANTS
  Replicas,
  Builds,   \* per build: the versions it embeds
  BootLimit \* bound: starts

Versions == UNION Builds
Oldest == 1 \* MinSupportedVersion

ConstantsOK == \A b \in Builds : b \subseteq Nat \ {0} /\ b # {}

\* The seeds: the rows that tell that one has been here, and those it inserts. The
\* administrator's password is configured.
AdminSeed == [tell |-> {"admin"}, rows |-> <<"admin">>]
OrgSeed == [tell |-> {"acme", "globex"}, rows |-> <<"acme", "globex", "contact">>]
CatalogSeed == [tell |-> {"product"}, rows |-> <<"warehouse", "product", "stock">>]
SalesSeed ==
  [tell |-> {"invoice"},
   rows |-> <<"proposal", "signed", "order", "confirmed", "invoice", "validated", "payment">>]
FinanceSeed == [tell |-> {"account"}, rows |-> <<"account", "journal", "year", "bank">>]
Seeds == <<AdminSeed, OrgSeed, CatalogSeed, SalesSeed, FinanceSeed>>

RowsOf(s) == Range(Seeds[s].rows)
Rows == UNION {RowsOf(s) : s \in DOMAIN Seeds}

\* Rows with a unique code.
Unique == {"admin", "acme", "globex", "warehouse", "product", "account", "journal", "bank"}

VARIABLES
  applied,  \* versions recorded, each with its statements
  count,    \* per row: how often it is there
  boots,    \* starts so far
  died, raced, failed, \* history, seeds: a start ended in it; two met in it; a key was taken
  pc, build, left,     \* per replica: what comes next; its versions; those it has not checked
  at,       \* per replica: the seed and the row it is at
  found, report        \* per replica: the versions there when it started; the preflight

vars == <<applied, count, boots, died, raced, failed, pc, build, left, at, found, report>>

Starting == {"migrate", "apply", "commit", "check", "insert"}

TypeOK ==
  /\ applied \subseteq Versions
  /\ count \in [Rows -> 0 .. BootLimit]
  /\ boots \in 0 .. BootLimit
  /\ died \cup raced \cup failed \subseteq DOMAIN Seeds
  /\ pc \in [Replicas -> Starting \cup {"down", "serve"}]
  /\ \A p \in Replicas : build[p] \subseteq Versions /\ left[p] \subseteq build[p]
  /\ at \in [Replicas -> (DOMAIN Seeds) \X (1 .. 7)]

-----------------------------------------------------------------------------
\* The comparison of a history with a binary.
Check(history, embedded) ==
  LET extra == history \ embedded
      gaps == {v \in embedded \ history :
                 (\E w \in history : w < v) /\ (\E w \in history : w > v)}
      below == history = {} \/ \E v \in history : v < Oldest
  IN  [missing |-> embedded \ history, extra |-> extra, gaps |-> gaps, below |-> below,
       ready |-> extra = {} /\ gaps = {} /\ ~below]

\* Of a history that begins where the binary does, ready is what one forward upgrade
\* of it can have left (platform/upgrade/upgrade.go:87-129).
ReadyIsAPrefix ==
  \A history, embedded \in SUBSET (1 .. 4) :
    (embedded # {} /\ history # {} /\ Min(history) = Min(embedded)) =>
      (Check(history, embedded).ready <=> \E v \in embedded : history = {w \in embedded : w <= v})

-----------------------------------------------------------------------------
Init ==
  /\ applied = {} /\ count = [r \in Rows |-> 0] /\ boots = 0
  /\ died = {} /\ raced = {} /\ failed = {}
  /\ pc = [p \in Replicas |-> "down"]
  /\ build = [p \in Replicas |-> {}]
  /\ left = [p \in Replicas |-> {}]
  /\ at = [p \in Replicas |-> <<1, 1>>]
  /\ found = [p \in Replicas |-> {}]
  /\ report = [p \in Replicas |-> Check({}, {})]

Goto(p, step) == pc' = [pc EXCEPT ![p] = step]

Start(p, b) ==
  /\ pc[p] = "down" /\ boots < BootLimit
  /\ boots' = boots + 1
  /\ build' = [build EXCEPT ![p] = b]
  /\ left' = [left EXCEPT ![p] = b]
  /\ at' = [at EXCEPT ![p] = <<1, 1>>]
  /\ found' = [found EXCEPT ![p] = applied]
  /\ Goto(p, "migrate")
  /\ UNCHANGED <<applied, count, died, raced, failed, report>>

\* Mutant: what is below the highest version counts as applied.
BelowTheHighest(v) == \E w \in applied : v <= w

Applied(v) == v \in applied

\* The next version in order: there, or to be applied.
CheckVersion(p) ==
  /\ pc[p] = "migrate" /\ left[p] # {}
  /\ LET v == Min(left[p])
     IN  IF Applied(v) THEN left' = [left EXCEPT ![p] = @ \ {v}] /\ UNCHANGED pc
         ELSE Goto(p, "apply") /\ UNCHANGED left
  /\ UNCHANGED <<applied, count, boots, died, raced, failed, build, at, found, report>>

\* Its statements wait for a replica that has run them and not committed, and fail
\* when they are there by now: the process ends.
ApplyVersion(p) ==
  /\ pc[p] = "apply"
  /\ ~ \E q \in Replicas : pc[q] = "commit" /\ Min(left[q]) = Min(left[p])
  /\ Goto(p, IF Min(left[p]) \in applied THEN "down" ELSE "commit")
  /\ UNCHANGED <<applied, count, boots, died, raced, failed, build, left, at, found, report>>

CommitVersion(p) ==
  /\ pc[p] = "commit"
  /\ applied' = applied \cup {Min(left[p])}
  /\ left' = [left EXCEPT ![p] = @ \ {Min(@)}]
  /\ Goto(p, "migrate")
  /\ UNCHANGED <<count, boots, died, raced, failed, build, at, found, report>>

\* The report is logged, and the process goes on whatever it says.
Preflight(p) ==
  /\ pc[p] = "migrate" /\ left[p] = {}
  /\ report' = [report EXCEPT ![p] = Check(applied, build[p])]
  /\ Goto(p, "check")
  /\ UNCHANGED <<applied, count, boots, died, raced, failed, build, left, at, found>>

SeedOf(p) == at[p][1]
Seeded(s) == \E r \in Seeds[s].tell : count[r] > 0

\* The next seed, or the listeners, the workers and the relay.
AfterSeed(p) ==
  IF SeedOf(p) < Len(Seeds)
  THEN at' = [at EXCEPT ![p] = <<@[1] + 1, 1>>] /\ Goto(p, "check")
  ELSE at' = at /\ Goto(p, "serve")

SkipSeed(p) ==
  /\ pc[p] = "check" /\ Seeded(SeedOf(p))
  /\ AfterSeed(p)
  /\ UNCHANGED <<applied, count, boots, died, raced, failed, build, left, found, report>>

StartSeed(p) ==
  /\ pc[p] = "check" /\ ~Seeded(SeedOf(p))
  /\ Goto(p, "insert")
  /\ raced' = IF \E q \in Replicas : pc[q] = "insert" /\ SeedOf(q) = SeedOf(p)
              THEN raced \cup {SeedOf(p)} ELSE raced
  /\ UNCHANGED <<applied, count, boots, died, failed, build, left, at, found, report>>

\* A row, or a code that is taken: the process ends.
InsertSeed(p) ==
  /\ pc[p] = "insert"
  /\ LET s == SeedOf(p)
         r == Seeds[s].rows[at[p][2]]
     IN  IF r \in Unique /\ count[r] > 0
         THEN /\ Goto(p, "down") /\ failed' = failed \cup {s}
              /\ UNCHANGED <<count, at>>
         ELSE /\ count' = [count EXCEPT ![r] = @ + 1]
              /\ IF at[p][2] < Len(Seeds[s].rows)
                 THEN at' = [at EXCEPT ![p][2] = @ + 1] /\ UNCHANGED pc
                 ELSE AfterSeed(p)
              /\ UNCHANGED failed
  /\ UNCHANGED <<applied, boots, died, raced, build, left, found, report>>

\* A statement fails, a check refuses to go on, or the process dies; what a migration
\* has not committed is rolled back.
Exit(p) ==
  /\ pc[p] \in Starting
  /\ Goto(p, "down")
  /\ died' = IF pc[p] = "insert" THEN died \cup {SeedOf(p)} ELSE died
  /\ UNCHANGED <<applied, count, boots, raced, failed, build, left, at, found, report>>

Stop(p) ==
  /\ pc[p] = "serve"
  /\ Goto(p, "down")
  /\ UNCHANGED <<applied, count, boots, died, raced, failed, build, left, at, found, report>>

Step(p) ==
  \/ CheckVersion(p) \/ ApplyVersion(p) \/ CommitVersion(p) \/ Preflight(p)
  \/ SkipSeed(p) \/ StartSeed(p) \/ InsertSeed(p)

Next ==
  \E p \in Replicas :
    (\E b \in Builds : Start(p, b)) \/ Step(p) \/ Exit(p) \/ Stop(p)

Spec == Init /\ [][Next]_vars /\ \A p \in Replicas : WF_vars(Step(p))

-----------------------------------------------------------------------------
(* Properties *)

\* A process serves on a schema that has all it embeds, whatever replicas of other
\* builds have applied out of its order (platform/db.go:45-72).
ServingHasSchema == \A p \in Replicas : pc[p] = "serve" => build[p] \subseteq applied

Half(s) == \E r, q \in RowsOf(s) : count[r] > 0 /\ count[q] = 0
Twice(s) == \E r \in RowsOf(s) : count[r] > 1
AtWork(s) == \E p \in Replicas : pc[p] = "insert" /\ SeedOf(p) = s

\* A seed that is there in part has seen a start end in it, one that is there twice
\* or refuses a start has seen that or two starts at a time (cmd/api/main.go:708-1006).
SeedsNeedOneStart ==
  \A s \in DOMAIN Seeds :
    /\ Half(s) /\ ~AtWork(s) => s \in died
    /\ Twice(s) \/ s \in failed => s \in died \cup raced

\* A start ends, one way or the other (cmd/api/main.go:83-165).
StartsEnd == \A p \in Replicas : pc[p] \in Starting ~> pc[p] \notin Starting

-----------------------------------------------------------------------------
(* What the repository says of the code and the code does not do. *)

\* OPERATIONS.md:26: gaps are reported, to be reconciled by hand before the boot; the
\* boot fills them before it looks.
GapsAreReported ==
  \A p \in Replicas :
    pc[p] \in {"check", "insert", "serve"} /\ Check(found[p], build[p]).gaps # {}
      => report[p].gaps # {}

\* main.go:885-886: the sales chain is inserted when no sales documents exist; it is
\* inserted when no invoice exists.
SalesAreSeededOnce == ~Twice(4)
=============================================================================
