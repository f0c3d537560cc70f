------------------------------ MODULE RowsInMemory ------------------------------
(***************************************************************************)
(* What Lifecycles promises, as every package states it in its own         *)
(* MemoryStore: under one mutex a call checks the version, asks whether    *)
(* the move or the edit is legal and writes, in one step. The handler      *)
(* tests run against these stores, so the PostgreSQL stores have to behave *)
(* like them. Children are left out: there the two kinds of stores differ  *)
(* (LateChildrenAreFew in Lifecycles).                                     *)
(***************************************************************************)
EXTENDS RowRules

VARIABLES kind, status, version, large, approved, content

vars == <<kind, status, version, large, approved, content>>

Init ==
  /\ kind \in Kinds
  /\ status = "none" /\ version = 0
  /\ large \in BOOLEAN
  /\ approved = FALSE
  /\ content = 0

New(k, first) ==
  /\ kind = k /\ version = 0
  /\ status' = first /\ version' = 1
  /\ UNCHANGED <<kind, large, approved, content>>

CreateBooking == New("booking", "booked")
CreateEvent == New("orgEvent", "draft")
CreatePosition == New("position", "draft")
CreateApplication == New("application", "received")
CreateLeave == New("leave", "draft")
CreateSalary == New("salary", "draft")
CreateEmployee == New("employee", "active")
CreatePayrollRun == New("payroll", "draft")
CreateProject == New("project", "draft")
CreateTask == New("task", "todo")
CreateContract == New("contract", "draft")
CreateIntervention == New("intervention", "scheduled")
CreateTicket == New("ticket", "open")
CreateAsset == New("asset", "in_service")
CreateArticle == New("article", "draft")
CreateSurvey == New("survey", "draft")
CreateMember == New("member", "draft")
CreateSubscription == New("subscription", "draft")
CreateDonation == New("donation", "promised")
CreateBatch == New("batch", "draft")
CreateTransfer == New("creditTransfer", "draft")
CreateBOM == New("bom", "draft")
CreateMO == New("mo", "draft")
ReplaceMOOperations == New("moOperation", "pending")
CreateMandate == New("mandate", "draft")
CreateStockTransfer == New("stockTransfer", "draft")
CreateReception == New("reception", "draft")
\* The approver is the client's to give.
CreateDoc ==
  /\ kind = "supplierOrder" /\ version = 0
  /\ status' = "draft" /\ version' = 1
  /\ approved' \in BOOLEAN
  /\ UNCHANGED <<kind, large, content>>
CreateRule == New("priceRule", "kept")
CreateSheet == New("labelSheet", "kept")
CreateOrg == New("organization", "kept")
CreateMemo == New("memo", "kept")
CreateUser == New("user", "kept")

Create ==
  \/ CreateBooking \/ CreateEvent \/ CreatePosition \/ CreateApplication \/ CreateLeave
  \/ CreateSalary \/ CreateEmployee \/ CreatePayrollRun \/ CreateProject \/ CreateTask
  \/ CreateContract \/ CreateIntervention \/ CreateTicket \/ CreateAsset
  \/ CreateArticle \/ CreateSurvey \/ CreateMember \/ CreateSubscription
  \/ CreateDonation \/ CreateBatch \/ CreateTransfer \/ CreateBOM \/ CreateMO
  \/ ReplaceMOOperations \/ CreateMandate \/ CreateStockTransfer \/ CreateReception
  \/ CreateDoc \/ CreateRule \/ CreateSheet \/ CreateOrg \/ CreateMemo \/ CreateUser

-----------------------------------------------------------------------------
\* The version the client sent is the row's: a call with another changes nothing.
MovedTo(k, to) ==
  /\ kind = k /\ version > 0
  /\ <<status, to>> \in Moves[k]
  /\ ~(large /\ to = "validated" /\ ~approved)
  /\ status' = to /\ version' = version + 1
  /\ UNCHANGED <<kind, large, approved, content>>

Moved(k) == \E to \in StatusesOf(k) : MovedTo(k, to)

SetBookingStatus == Moved("booking")
SetEventStatus == Moved("orgEvent")
SetPositionStatus == Moved("position")
SetApplicationStatus == Moved("application")
SetLeaveStatus == Moved("leave")
SetSalaryStatus == Moved("salary")
SetEmployeeStatus == Moved("employee")
SetPayrollRunStatus == Moved("payroll")
SetProjectStatus == Moved("project")
SetTaskStatus == Moved("task")
SetContractStatus == Moved("contract")
SetInterventionStatus == Moved("intervention")
SetTicketStatus == Moved("ticket")
SetAssetStatus == Moved("asset")
SetArticleStatus == Moved("article")
SetSurveyStatus == Moved("survey")
SetMemberStatus == Moved("member")
SetSubscriptionStatus == Moved("subscription")
SetDonationStatus == Moved("donation")
SetBatchStatus == Moved("batch")
SetTransferStatus == Moved("creditTransfer")
SetBOMStatus == Moved("bom")
SetMOStatus == Moved("mo")
CompleteMOOperation == Moved("moOperation")
SignMandate == MovedTo("mandate", "active")
CancelMandate == MovedTo("mandate", "canceled")
SetStockTransferStatus == Moved("stockTransfer")
SetStatus == Moved("supplierOrder") \/ Moved("reception")

Move ==
  \/ SetBookingStatus \/ SetEventStatus \/ SetPositionStatus \/ SetApplicationStatus
  \/ SetLeaveStatus \/ SetSalaryStatus \/ SetEmployeeStatus \/ SetPayrollRunStatus
  \/ SetProjectStatus \/ SetTaskStatus \/ SetContractStatus \/ SetInterventionStatus
  \/ SetTicketStatus \/ SetAssetStatus \/ SetArticleStatus \/ SetSurveyStatus
  \/ SetMemberStatus \/ SetSubscriptionStatus \/ SetDonationStatus \/ SetBatchStatus
  \/ SetTransferStatus \/ SetBOMStatus \/ SetMOStatus \/ CompleteMOOperation
  \/ SignMandate \/ CancelMandate \/ SetStockTransferStatus \/ SetStatus

-----------------------------------------------------------------------------
Edited(k) ==
  /\ kind = k /\ version > 0
  /\ status \in Editable[k]
  /\ content' = content + 1 /\ version' = version + 1
  /\ UNCHANGED <<kind, status, large, approved>>

UpdateArticle == Edited("article")
UpdateAsset == Edited("asset")
AmendMandate == Edited("mandate")
UpdateDraft == Edited("stockTransfer")
UpdateRule == Edited("priceRule")
UpdateSheet == Edited("labelSheet")
UpdateOrg == Edited("organization")
UpdateMemo == Edited("memo")
UpdateUser == Edited("user")

\* SetApproval stamps the approver, whatever the order's status.
SetApproval ==
  /\ kind = "supplierOrder" /\ version > 0
  /\ approved' = TRUE /\ version' = version + 1
  /\ UNCHANGED <<kind, status, large, content>>

Edit ==
  \/ UpdateArticle \/ UpdateAsset \/ AmendMandate \/ UpdateDraft \/ UpdateRule
  \/ UpdateSheet \/ UpdateOrg \/ UpdateMemo \/ UpdateUser \/ SetApproval

Next == Create \/ Move \/ Edit

Spec == Init /\ [][Next]_vars
=============================================================================
