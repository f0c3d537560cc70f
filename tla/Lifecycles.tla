------------------------------- MODULE Lifecycles -------------------------------
(***************************************************************************)
(* The life of a row. Nearly every package moves its rows from status to   *)
(* status in one way: SetXStatus reads the row, compares the version the   *)
(* client has seen, asks X's CanTransition and writes                      *)
(*    UPDATE ... SET status, row_version+1 WHERE row_version = seen        *)
(* outside a transaction. Editing a row goes the same way; adding a child  *)
(* to it (a task, a vote, ...) reads the parent's status and inserts, and  *)
(* nothing stops the parent from closing in between. Rows without a life of*)
(* their own (a price rule, a memo, ...) are only created and edited.      *)
(*                                                                         *)
(* A behaviour is the life of one row of one kind, from its creation, with *)
(* concurrent requests.                                                    *)
(***************************************************************************)
EXTENDS RowRules, FiniteSets

CONSTANTS
  Requests,   \* concurrent HTTP requests
  ChangeLimit \* bound: versions a row goes through

ASSUME LifecyclesAssumption ==
  /\ IsFiniteSet(Requests)
  /\ ChangeLimit \in Nat \ {0}

VARIABLES
  kind,     \* what the row is
  status, version,
  large,    \* a supplier order above the approval threshold
  approved, \* ... and its approval
  content,  \* how often the row was edited
  late,     \* history: children added while the status forbade them
  pc,       \* per request: the statement that comes next
  seen      \* per request: what it has read, and the status it asks for

vars == <<kind, status, version, large, approved, content, late, pc, seen>>

NothingRead == [to |-> "none", content |-> 0, version |-> 0]

TypeOK ==
  /\ kind \in Kinds
  /\ status \in StatusesOf(kind) \cup {"none"}
  /\ version \in 0 .. ChangeLimit
  /\ large \in BOOLEAN /\ approved \in BOOLEAN
  /\ content \in Nat /\ late \in Nat
  /\ pc \in [Requests -> {"idle", "move", "edit", "approve", "add", "vote"}]
  /\ seen \in [Requests -> [to : AllStatuses \cup {"none"}, content : Nat,
                            version : 0 .. ChangeLimit]]

Init ==
  /\ kind \in Kinds
  /\ status = "none" /\ version = 0
  /\ large \in (IF kind = "supplierOrder" THEN BOOLEAN ELSE {FALSE})
  /\ approved = FALSE
  /\ content = 0 /\ late = 0
  /\ pc = [r \in Requests |-> "idle"]
  /\ seen = [r \in Requests |-> NothingRead]

-----------------------------------------------------------------------------
(* Creation: the handler fixes the first status. *)

Created(k, first) ==
  /\ kind = k
  /\ version = 0
  /\ status' = first
  /\ version' = 1
  /\ UNCHANGED <<kind, large, content, late, pc, seen>>

New(k, first) == Created(k, first) /\ UNCHANGED approved

CreateBooking == New("booking", "booked")
CreateEvent == New("orgEvent", "draft")
CreatePosition == New("position", "draft")
CreateApplication == New("application", "received")
CreateLeave == New("leave", "draft")
CreateSalary == New("salary", "draft")
HireEmployee == New("employee", "active")
CreatePayrollRun == New("payroll", "draft")
CreateProject == New("project", "draft")
NewTask == New("task", "todo")
CreateContract == New("contract", "draft")
CreateIntervention == New("intervention", "scheduled")
CreateTicket == New("ticket", "open")
CreateAsset == New("asset", "in_service")
CreateArticle == New("article", "draft")
CreateSurvey == New("survey", "draft")
CreateMember == New("member", "draft")
CreateSubscription == New("subscription", "draft")
CreateDonation == New("donation", "promised")
CreateBatch == New("batch", "draft")
CreateTransfer == New("creditTransfer", "draft")
CreateBOM == New("bom", "draft")
CreateMO == New("mo", "draft")
PlanOperation == New("moOperation", "pending")
CreateMandate == New("mandate", "draft")
CreateStockTransfer == New("stockTransfer", "draft")
CreateReception == New("reception", "draft")
\* The approver is the client's to give.
CreateSupplierOrder == Created("supplierOrder", "draft") /\ approved' \in BOOLEAN
CreateRule == New("priceRule", "kept")
CreateSheet == New("labelSheet", "kept")
CreateOrg == New("organization", "kept")
CreateMemo == New("memo", "kept")
CreateUser == New("user", "kept")

-----------------------------------------------------------------------------
\* A request reads the row; the client has sent the version it finds there (an
\* older one is refused, which changes nothing).
Read(r, k, label, to) ==
  /\ kind = k
  /\ version > 0
  /\ pc[r] = "idle"
  /\ pc' = [pc EXCEPT ![r] = label]
  /\ seen' = [seen EXCEPT ![r] = [to |-> to, content |-> content, version |-> version]]
  /\ UNCHANGED <<kind, status, version, large, approved, content, late>>

\* Mutant: the update does not compare the row version.
SameVersionAlways(r) == TRUE

SameVersion(r) == version = seen[r].version

Finish(r) ==
  /\ pc' = [pc EXCEPT ![r] = "idle"]
  /\ seen' = [seen EXCEPT ![r] = NothingRead]

-----------------------------------------------------------------------------
(* Moving *)

\* Supplier orders above the threshold are validated once they are approved.
NeedsApproval(to) == large /\ to = "validated" /\ ~approved

WriteMove(r, k) ==
  /\ kind = k
  /\ pc[r] = "move"
  /\ IF SameVersion(r)
     THEN status' = seen[r].to /\ version' = version + 1
     ELSE UNCHANGED <<status, version>>
  /\ Finish(r)
  /\ UNCHANGED <<kind, large, approved, content, late>>

MovedTo(r, k, asked) ==
  \/ \E to \in asked :
       /\ version < ChangeLimit
       /\ <<status, to>> \in Moves[k]
       /\ ~NeedsApproval(to)
       /\ Read(r, k, "move", to)
  \/ WriteMove(r, k)

Moved(r, k) == MovedTo(r, k, StatusesOf(k))

SetBookingStatus(r) == Moved(r, "booking")
SetOrgEventStatus(r) == Moved(r, "orgEvent")
SetPositionStatus(r) == Moved(r, "position")
SetApplicationStatus(r) == Moved(r, "application")
SetLeaveStatus(r) == Moved(r, "leave")
SetSalaryStatus(r) == Moved(r, "salary")
SetEmployeeStatus(r) == Moved(r, "employee")
SetPayrollRunStatus(r) == Moved(r, "payroll")
SetProjectStatus(r) == Moved(r, "project")
SetTaskStatus(r) == Moved(r, "task")
SetContractStatus(r) == Moved(r, "contract")
SetInterventionStatus(r) == Moved(r, "intervention")
SetTicketStatus(r) == Moved(r, "ticket")
SetAssetStatus(r) == Moved(r, "asset")
SetArticleStatus(r) == Moved(r, "article")
SetSurveyStatus(r) == Moved(r, "survey")
SetMemberStatus(r) == Moved(r, "member")
SetSubscriptionStatus(r) == Moved(r, "subscription")
SetDonationStatus(r) == Moved(r, "donation")
SetBatchStatus(r) == Moved(r, "batch")
SetTransferStatus(r) == Moved(r, "creditTransfer")
SetBOMStatus(r) == Moved(r, "bom")
SetMOStatus(r) == Moved(r, "mo")
SignMandate(r) == MovedTo(r, "mandate", {"active"})
CancelMandate(r) == MovedTo(r, "mandate", {"canceled"})
SetStockTransferStatus(r) == Moved(r, "stockTransfer")
SetSupplierDocStatus(r) == Moved(r, "supplierOrder") \/ Moved(r, "reception")

\* One statement: UPDATE ... WHERE status = pending.
CompleteMOOperation ==
  /\ kind = "moOperation"
  /\ status = "pending"
  /\ version \in 1 .. ChangeLimit - 1
  /\ status' = "done"
  /\ version' = version + 1
  /\ UNCHANGED <<kind, large, approved, content, late, pc, seen>>

-----------------------------------------------------------------------------
(* Editing: the status must allow it, the version guards it. *)

WriteEdit(r, k) ==
  /\ kind = k
  /\ pc[r] = "edit"
  /\ IF SameVersion(r)
     THEN content' = content + 1 /\ version' = version + 1
     ELSE UNCHANGED <<content, version>>
  /\ Finish(r)
  /\ UNCHANGED <<kind, status, large, approved, late>>

Edited(r, k) ==
  \/ /\ version < ChangeLimit
     /\ status \in Editable[k]
     /\ Read(r, k, "edit", status)
  \/ WriteEdit(r, k)

UpdateArticle(r) == Edited(r, "article")
UpdateAsset(r) == Edited(r, "asset")
AmendMandate(r) == Edited(r, "mandate")
UpdateDraft(r) == Edited(r, "stockTransfer")
UpdateRule(r) == Edited(r, "priceRule")
UpdateSheet(r) == Edited(r, "labelSheet")
UpdateOrg(r) == Edited(r, "organization")
UpdateMemo(r) == Edited(r, "memo")
UpdateUser(r) == Edited(r, "user")

\* SetApproval stamps the approver, whatever the order's status.
WriteApproval(r) ==
  /\ kind = "supplierOrder"
  /\ pc[r] = "approve"
  /\ IF SameVersion(r)
     THEN approved' = TRUE /\ version' = version + 1
     ELSE UNCHANGED <<approved, version>>
  /\ Finish(r)
  /\ UNCHANGED <<kind, status, large, content, late>>

SetApproval(r) ==
  \/ version < ChangeLimit /\ Read(r, "supplierOrder", "approve", status)
  \/ WriteApproval(r)

-----------------------------------------------------------------------------
(* Adding children: the parent's status is read, and nothing guards it. *)

\* Mutant: the parent's status is not asked for.
AcceptsAlways(k, child) == TRUE

Accepts(k, child) == status \in OpenFor(k, child)

Insert(r, k, child) ==
  /\ kind = k
  /\ pc[r] = child
  /\ late' = IF status \in OpenFor(k, child) THEN late ELSE late + 1
  /\ Finish(r)
  /\ UNCHANGED <<kind, status, version, large, approved, content>>

Added(r, k, child) ==
  \/ Accepts(k, child) /\ Read(r, k, child, status)
  \/ Insert(r, k, child)

CreateTask(r) == Added(r, "project", "add")
AddTime(r) == Added(r, "task", "add")
AddMessage(r) == Added(r, "ticket", "add")
AddQuestion(r) == Added(r, "survey", "add")
CastVote(r) == Added(r, "survey", "vote")
Apply(r) == Added(r, "position", "add")
AddBOMLine(r) == Added(r, "bom", "add")
AddTransferLine(r) == Added(r, "stockTransfer", "add")
AddPayrollRunLine(r) == Added(r, "payroll", "add")

-----------------------------------------------------------------------------
Move(r) ==
  \/ SetBookingStatus(r) \/ SetOrgEventStatus(r) \/ SetPositionStatus(r)
  \/ SetApplicationStatus(r) \/ SetLeaveStatus(r) \/ SetSalaryStatus(r)
  \/ SetEmployeeStatus(r) \/ SetPayrollRunStatus(r) \/ SetProjectStatus(r)
  \/ SetTaskStatus(r) \/ SetContractStatus(r) \/ SetInterventionStatus(r)
  \/ SetTicketStatus(r) \/ SetAssetStatus(r) \/ SetArticleStatus(r)
  \/ SetSurveyStatus(r) \/ SetMemberStatus(r) \/ SetSubscriptionStatus(r)
  \/ SetDonationStatus(r) \/ SetBatchStatus(r) \/ SetTransferStatus(r)
  \/ SetBOMStatus(r) \/ SetMOStatus(r)
  \/ SignMandate(r) \/ CancelMandate(r) \/ SetStockTransferStatus(r)
  \/ SetSupplierDocStatus(r)

Create ==
  \/ CreateBooking \/ CreateEvent \/ CreatePosition \/ CreateApplication \/ CreateLeave
  \/ CreateSalary \/ HireEmployee \/ CreatePayrollRun \/ CreateProject \/ NewTask
  \/ CreateContract \/ CreateIntervention \/ CreateTicket \/ CreateAsset
  \/ CreateArticle \/ CreateSurvey \/ CreateMember \/ CreateSubscription
  \/ CreateDonation \/ CreateBatch \/ CreateTransfer \/ CreateBOM \/ CreateMO
  \/ PlanOperation \/ CreateMandate \/ CreateStockTransfer \/ CreateReception
  \/ CreateSupplierOrder \/ CreateRule \/ CreateSheet \/ CreateOrg \/ CreateMemo
  \/ CreateUser

Edit(r) ==
  \/ UpdateArticle(r) \/ UpdateAsset(r) \/ AmendMandate(r) \/ UpdateDraft(r)
  \/ UpdateRule(r) \/ UpdateSheet(r) \/ UpdateOrg(r) \/ UpdateMemo(r) \/ UpdateUser(r)
  \/ SetApproval(r)

Add(r) ==
  \/ CreateTask(r) \/ AddTime(r) \/ AddMessage(r) \/ AddQuestion(r) \/ CastVote(r)
  \/ Apply(r) \/ AddBOMLine(r) \/ AddTransferLine(r) \/ AddPayrollRunLine(r)

Next ==
  \/ Create
  \/ CompleteMOOperation
  \/ \E r \in Requests : Move(r) \/ Edit(r) \/ Add(r)

Spec == Init /\ [][Next]_vars

-----------------------------------------------------------------------------
(* Properties *)

\* However requests overlap, a row only makes moves that its CanTransition
\* allows, an order above the threshold is validated with its approval in place,
\* and an edit meets a status that allows it and the text its author has read:
\* what was checked on the row that was read still holds of the row that is
\* written (hr/store.go:107-119, procurement/store.go:152-162,
\* kb/store.go:123-141 and the like).
LegalStep ==
  /\ status' # status /\ version # 0
       => <<status, status'>> \in Moves[kind] /\ ~NeedsApproval(status')
  /\ content' # content
       => /\ status \in Editable[kind]
          /\ \E r \in Requests : /\ pc[r] = "edit" /\ pc'[r] = "idle"
                               /\ seen[r].content = content

StepsAreLegal == [][LegalStep]_vars

\* A child that comes after its parent has closed was under way before: no more
\* of them than requests in flight, for every change of the parent
\* (services/store.go:135-151, survey/store.go:192-233, events/store.go:262-284).
LateChildrenAreFew == version > 0 => late <= Cardinality(Requests) * (version - 1)

\* The stores are as atomic as the in-memory ones that the handler tests use: the
\* unlocked check of a row's version and status and the guarded write that follows
\* it have the effect of one step, whatever runs in between (the comments "the
\* in-process fake for handler tests", hr/store.go:355-372, kb/store.go:260-320
\* and the like, against hr/store.go:107-119, kb/store.go:123-141).
InMemory == INSTANCE RowsInMemory

RowsAreAtomic == InMemory!Spec
=============================================================================
