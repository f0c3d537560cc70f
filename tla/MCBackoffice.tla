------------------------------ MODULE MCBackoffice ------------------------------
(***************************************************************************)
(* The workshop and the offices, checked in one run: the schedules of      *)
(* manufacturing orders (this module EXTENDS Planning), the making of one  *)
(* order, the revisions of a file, the folder tree, a mail campaign, the   *)
(* HTTP interface, the CSV exchange and a token of the OAuth vault. In this*)
(* model they share no row, so each behaviour lets one of them move, the   *)
(* one in focus, and the others rest in their initial state.               *)
(***************************************************************************)
EXTENDS Planning, TLC

CONSTANTS
  Need, MOSteps, Opening, RoundLimit,          \* of the order (Workshop)
  Contents, Missing, VersionLimit,             \* of the file (Files)
  Ids, Root, MoveLimit,                        \* of the folders
  Emails, MailRounds, MailFaults,              \* of the campaign
  TokenLimit, RefreshLimit, TokenFaults,       \* of the token (Vault)
  SendLimit, CallFaults, IdLimit,              \* of the calls (Handlers)
  Uploads, ColumnMaps, FirstRows, PageSize,     \* of the files (Exchange) ...
  RowLimit, ChangeLimit, Entered, Renamed      \* ... and of what the screens write

VARIABLES focus,
  status, version, steps, level, consumed, dropped, received, produced, overtaken,
  shopPc, shopWork,
  current, history, stored, contested, indexed, filePc, fileWork,
  parent, passed, moves, treePc, treeWork,
  campaign, campaignVersion, row, suppressed, mailed, late, unmarked, retaken,
  campaigns, faults, mailPc, mailWork,
  subject, nextId, others, known, call, sent, wire, reply, say, heard, done, owed, said, mishaps,
  context, table, changes, edits, tied, csvPc, job, out, began,
  vaultStore, token, seq, owner, live, lost, crashes, started, vaultPc, vaultWork

\* The instance of Planning.
TwoOrders == (1 :> 1) @@ (2 :> 2)
TwoStations == (1 :> 5) @@ (2 :> 4)
ThreeSteps == <<[station |-> 1, run |-> 3, setup |-> 1],
                [station |-> 2, run |-> 2, setup |-> 0],
                [station |-> 1, run |-> 2, setup |-> 0]>>

Shop == INSTANCE Workshop WITH
  Steps <- MOSteps, rounds <- produced, pc <- shopPc, work <- shopWork

Docs == INSTANCE Files WITH pc <- filePc, work <- fileWork

Tree == INSTANCE Folders WITH pc <- treePc, work <- treeWork

Mail == INSTANCE Campaigns WITH
  FaultLimit <- MailFaults, RoundLimit <- MailRounds,
  status <- campaign, version <- campaignVersion, rounds <- campaigns,
  pc <- mailPc, work <- mailWork

Http == INSTANCE Handlers WITH
  Clients <- Requests, FaultLimit <- CallFaults, row <- subject, faults <- mishaps

\* Two files: one new line and one without a name or code; one line that is named in
\* two columns and one that cannot be read.
Header == {"name", "code", "role"}
TwoSheets ==
  {[header |-> Header,
    lines |-> <<[name |-> 1, code |-> 1, role |-> 1], [name |-> 0, code |-> 0, role |-> 1]>>],
   [header |-> Header \cup {"alias"},
    lines |-> <<[name |-> 0, alias |-> 1, code |-> 1, role |-> 1],
                [name |-> 1, alias |-> 1, code |-> 0, role |-> 3]>>]}
TwoForOne == ("name" :> "name") @@ ("alias" :> "name") @@ ("code" :> "code") @@ ("role" :> "role")
TwoRows ==
  <<[name |-> 2, code |-> 2, role |-> 1, by |-> "nobody", line |-> 0],
    [name |-> 3, code |-> 3, role |-> 1, by |-> "nobody", line |-> 0]>>
AsNamedOrTwoForOne == {<< >>, TwoForOne}
NewRows == [name : {1}, code : {0, 1}, role : {1, 2}]

Csv == INSTANCE Exchange WITH
  Files <- Uploads, Mappings <- ColumnMaps, First <- FirstRows, pc <- csvPc

Safe == INSTANCE Vault WITH
  FaultLimit <- TokenFaults,
  store <- vaultStore, row <- token, pc <- vaultPc, work <- vaultWork

ASSUME PlanAssumption == ConstantsOK
ASSUME ShopAssumption == Shop!ConstantsOK
ASSUME DocsAssumption == Docs!ConstantsOK
ASSUME TreeAssumption == Tree!ConstantsOK
ASSUME MailAssumption == Mail!ConstantsOK
ASSUME HttpAssumption == Http!ConstantsOK
ASSUME CsvAssumption == Csv!ConstantsOK /\ Entered \subseteq [Csv!Fields -> Nat] /\ Renamed \subseteq Nat

\* Nothing here tells one request from another.
Alike == Permutations(Requests)

planVars == vars
shopVars == <<status, version, steps, level, consumed, dropped, received, produced, overtaken,
              shopPc, shopWork>>
fileVars == <<current, history, stored, contested, indexed, filePc, fileWork>>
treeVars == <<parent, passed, moves, treePc, treeWork>>
mailVars == <<campaign, campaignVersion, row, suppressed, mailed, late, unmarked, retaken,
              campaigns, faults, mailPc, mailWork>>
httpVars == <<subject, nextId, others, known, call, sent, wire, reply, say, heard, done, owed,
              said, mishaps>>
csvVars == <<context, table, changes, edits, tied, csvPc, job, out, began>>
vaultVars == <<vaultStore, token, seq, owner, live, lost, crashes, started, vaultPc, vaultWork>>
allVars == <<focus, planVars, shopVars, fileVars, treeVars, mailVars, httpVars, csvVars,
             vaultVars>>

MCInit ==
  /\ focus \in {"plan", "shop", "file", "tree", "mail", "http", "csv", "vault"}
  /\ Init /\ Shop!Init /\ Docs!Init /\ Tree!Init /\ Mail!Init /\ Http!Init
  /\ Csv!Init /\ Safe!Init
  /\ focus = "vault" \/ vaultStore = "pg"
  /\ context = "orgs" \/ (focus = "csv" /\ context = "sales")
  /\ focus = "file" \/ indexed = (CHOOSE c \in Contents : TRUE) \* one initial state for those that rest

InPlan(A) ==
  /\ focus = "plan" /\ A
  /\ UNCHANGED <<focus, shopVars, fileVars, treeVars, mailVars, httpVars, csvVars, vaultVars>>
InShop(A) ==
  /\ focus = "shop" /\ A
  /\ UNCHANGED <<focus, planVars, fileVars, treeVars, mailVars, httpVars, csvVars, vaultVars>>
InFile(A) ==
  /\ focus = "file" /\ A
  /\ UNCHANGED <<focus, planVars, shopVars, treeVars, mailVars, httpVars, csvVars, vaultVars>>
InTree(A) ==
  /\ focus = "tree" /\ A
  /\ UNCHANGED <<focus, planVars, shopVars, fileVars, mailVars, httpVars, csvVars, vaultVars>>
InMail(A) ==
  /\ focus = "mail" /\ A
  /\ UNCHANGED <<focus, planVars, shopVars, fileVars, treeVars, httpVars, csvVars, vaultVars>>
InHttp(A) ==
  /\ focus = "http" /\ A
  /\ UNCHANGED <<focus, planVars, shopVars, fileVars, treeVars, mailVars, csvVars, vaultVars>>
InCsv(A) ==
  /\ focus = "csv" /\ A
  /\ UNCHANGED <<focus, planVars, shopVars, fileVars, treeVars, mailVars, httpVars, vaultVars>>
InVault(A) ==
  /\ focus = "vault" /\ A
  /\ UNCHANGED <<focus, planVars, shopVars, fileVars, treeVars, mailVars, httpVars, csvVars>>

MCNext ==
  \/ \E r \in Requests, o \in Orders, from \in Starts : InPlan(StartSchedule(r, o, from))
  \/ \E r \in Requests : InPlan(ReplaceOperations(r))
  \/ \E r \in Requests : InPlan(Fail(r))
  \/ \E r \in Requests : InShop(Shop!StartSchedule(r))
  \/ \E r \in Requests : InShop(Shop!ReplaceMOOperations(r))
  \/ \E r \in Requests, i \in 1 .. MOSteps : InShop(Shop!StartComplete(r, i))
  \/ \E r \in Requests : InShop(Shop!CompleteOperation(r))
  \/ \E r \in Requests : InShop(Shop!StartProduce(r))
  \/ \E r \in Requests : InShop(Shop!Produce(r))
  \/ \E r \in Requests : InShop(Shop!RollBack(r))
  \/ InShop(Shop!Cancel)
  \/ InShop(Shop!TakeElsewhere)
  \/ \E r \in Requests, c \in Contents : InFile(Docs!StartUpload(r, c))
  \/ \E r \in Requests, n \in Docs!Numbers : InFile(Docs!StartRestore(r, n))
  \/ \E r \in Requests : InFile(Docs!PutBytes(r))
  \/ \E r \in Requests : InFile(Docs!CreateVersion(r))
  \/ \E r \in Requests : InFile(Docs!DeleteBytes(r))
  \/ \E r \in Requests : InFile(Docs!UpdateCurrent(r))
  \/ \E r \in Requests : InFile(Docs!UpsertFileText(r))
  \/ \E r \in Requests : InFile(Docs!Crash(r))
  \/ \E f \in Ids, to \in Tree!Places : InTree(Tree!CreateFolder(f, to))
  \/ \E r \in Requests, f \in Ids, to \in Tree!Places :
       InTree(Tree!StartMove(r, f, to))
  \/ \E r \in Requests : InTree(Tree!WalkUp(r))
  \/ \E r \in Requests : InTree(Tree!WriteMove(r))
  \/ \E r \in Requests : InTree(Tree!Fail(r))
  \/ \E r \in Requests, audience \in SUBSET Emails : InMail(Mail!StartExpand(r, audience))
  \/ \E r \in Requests : InMail(Mail!AddRecipient(r))
  \/ \E r \in Requests : InMail(Mail!SetQueued(r))
  \/ \E r \in Requests : InMail(Mail!StartSend(r))
  \/ \E r \in Requests : InMail(Mail!QueuedOf(r))
  \/ \E r \in Requests, outcome \in {"sent", "failed"} : InMail(Mail!Dispatch(r, outcome))
  \/ \E r \in Requests : InMail(Mail!SetRecipientStatus(r))
  \/ \E r \in Requests : InMail(Mail!SetDone(r))
  \/ \E r \in Requests, e \in Emails, here \in BOOLEAN : InMail(Mail!Unsubscribe(r, e, here))
  \/ \E r \in Requests : InMail(Mail!FailRow(r))
  \/ \E r \in Requests : InMail(Mail!Crash(r))
  \/ \E r \in Requests, act \in Http!Acts, to \in 1 .. 2 : InHttp(Http!Ask(r, act, to))
  \/ \E r \in Requests : InHttp(Http!Resend(r))
  \/ \E r \in Requests : InHttp(Http!TradeCalls(r))
  \/ \E r \in Requests : InHttp(Http!OfficeCalls(r))
  \/ \E r \in Requests : InHttp(Http!Refuse(r))
  \/ \E r \in Requests : InHttp(Http!Fail(r))
  \/ \E r \in Requests : InHttp(Http!Publish(r))
  \/ \E r \in Requests : InHttp(Http!Answer(r))
  \/ InHttp(Http!Die)
  \/ \E r \in Requests, f \in Uploads, m \in ColumnMaps, dry, legacy \in BOOLEAN :
       InCsv(Csv!StartImport(r, f, m, dry, legacy))
  \/ \E r \in Requests : InCsv(Csv!SkipLine(r))
  \/ \E r \in Requests : InCsv(Csv!TryLine(r))
  \/ \E r \in Requests : InCsv(Csv!ImportRow(r))
  \/ \E r \in Requests : InCsv(Csv!Report(r))
  \/ \E r \in Requests, legacy \in BOOLEAN : InCsv(Csv!StartExport(r, legacy))
  \/ \E r \in Requests : InCsv(Csv!ListPage(r))
  \/ \E r \in Requests : InCsv(Csv!Die(r))
  \/ \E rec \in Entered : InCsv(Csv!Create(rec))
  \/ \E i \in 1 .. RowLimit, name \in Renamed : InCsv(Csv!Rename(i, name))
  \/ InVault(Safe!SaveToken)
  \/ InVault(Safe!DeleteToken)
  \/ InVault(Safe!Expire)
  \/ \E r \in Requests : InVault(Safe!StartRefresh(r))
  \/ \E r \in Requests : InVault(Safe!Exchange(r))
  \/ \E r \in Requests : InVault(Safe!ExchangeFails(r))
  \/ \E r \in Requests : InVault(Safe!RotateRow(r))
  \/ \E r \in Requests : InVault(Safe!Die(r))

MCSpec == MCInit /\ [][MCNext]_allVars

-----------------------------------------------------------------------------
TypesOK ==
  TypeOK /\ Shop!TypeOK /\ Docs!TypeOK /\ Tree!TypeOK /\ Mail!TypeOK
  /\ Http!TypeOK /\ Csv!TypeOK /\ Safe!TypeOK

\* A schedule that overloads a station says so unless it raced another one
\* (manufacturing/workstation.go:144-146), and an order is made once: its product is delivered
\* once, and the shares its steps consume make up the whole
\* (manufacturing/service.go:297-366).
WorkIsPlannedAndMadeOnce ==
  OverloadIsFlagged /\ Shop!DeliveredOnce /\ Shop!SharesMakeTheWhole

\* The revisions of a file are one line with the bytes they were made of, unless
\* two requests wrote one number (documentsvc/ecm.go:319-365); the folders it is in
\* are a tree, unless two requests moved them at a time (ecm.go:164-198).
FilesAndFoldersLast ==
  Docs!CurrentFollowsHistory /\ Docs!BytesLastUnlessContested /\ Tree!CyclesNeedARace

\* Everybody in a campaign is mailed once, unless somebody takes the campaign over,
\* comes too late or is not marked (mailing/service.go:51-120).
EachIsMailedOnce == Mail!MailedOnceUnlessRetaken /\ Mail!LeftInQueueIsLate

\* A call that is sent twice takes effect once where its row is guarded, what its
\* client hears is true, and events follow the commits (the handlers of module
\* Handlers; services/handler.go:85-94, platform/errors.go:91-125).
ResendsAreSafe ==
  focus = "http" => Http!SafeToResend /\ Http!AnswersAreTrue /\ Http!EventsFollowCommits

\* What a CSV import reports is what it wrote, and an export lists each row once but
\* for what the screens change under it (dataio/adapters.go:71-232).
ExchangesAddUp ==
  focus = "csv" => /\ Csv!ReportIsTrue /\ Csv!DryRunForetells
                   /\ Csv!ExportsAddUp /\ Csv!InvalidRowsAreLegacy

\* A refreshed token is of the connection it replaces, and one the provider takes
\* unless a refresh lost it (identity/oauth.go:320-378).
TokensStayUsable == Safe!RotatesItsOwn /\ Safe!StaysUsable

\* An opt-out, under its own name.
OptOutLasts == Mail!OptOutLasts
\* What the repository says of them and the code does not do, as the components
\* state it.
ConsumedOnce == Shop!ConsumedOnce
BytesLast == Docs!BytesLast
NextIsFree == Docs!NextIsFree
NoCycle == Tree!NoCycle
DoneIsDelivered == Mail!DoneIsDelivered
RowsAreValidated == Csv!RowsAreValidated
SalesAreExported == Csv!SalesAreExported
ExportsImportBack == Csv!ExportsImportBack
SameContract == Safe!SameContract
=============================================================================
