-------------------------------- MODULE RowRules --------------------------------
(***************************************************************************)
(* The rules of a row's life, which the domain code of every package keeps *)
(* apart from its stores: which status follows which (CanTransition), which*)
(* statuses allow an edit, and which allow a child. Lifecycles applies them*)
(* as the PostgreSQL stores do, RowsInMemory as the in-memory stores do.   *)
(***************************************************************************)
EXTENDS Integers

-----------------------------------------------------------------------------
(* The legal moves: CanTransition of each kind. *)

From(status0, next) == {status0} \X next

KeptMoves == {} \* no status that moves

BookingMoves == From("booked", {"checked_in", "completed", "canceled"})
           \cup From("checked_in", {"completed", "canceled"})
OrgEventMoves == From("draft", {"published", "canceled"})
            \cup From("published", {"closed", "canceled"})
PositionMoves == From("draft", {"open"}) \cup From("open", {"closed"})
ApplicationMoves == From("received", {"screening", "rejected"})
               \cup From("screening", {"interview", "rejected"})
               \cup From("interview", {"offer", "rejected"})
               \cup From("offer", {"hired", "rejected"})
LeaveMoves == From("draft", {"submitted", "canceled"})
         \cup From("submitted", {"approved", "rejected", "canceled"})
         \cup From("approved", {"canceled"})
SalaryMoves == From("draft", {"validated", "canceled"})
          \cup From("validated", {"paid", "canceled"})
EmployeeMoves == From("active", {"suspended", "terminated"})
            \cup From("suspended", {"active", "terminated"})
PayrollMoves == From("draft", {"posted", "canceled"})
ProjectMoves == From("draft", {"active", "canceled"})
           \cup From("active", {"on_hold", "closed", "canceled"})
           \cup From("on_hold", {"active", "closed", "canceled"})
TaskMoves == From("todo", {"doing", "done", "canceled"}) \cup From("doing", {"done", "canceled"})
ContractMoves == From("draft", {"active", "canceled"})
            \cup From("active", {"suspended", "closed", "canceled"})
            \cup From("suspended", {"active", "closed", "canceled"})
InterventionMoves == From("scheduled", {"in_progress", "canceled"})
                \cup From("in_progress", {"done", "canceled"})
TicketMoves == From("open", {"pending", "resolved", "closed"})
          \cup From("pending", {"open", "resolved", "closed"})
          \cup From("resolved", {"closed", "open"}) \cup From("closed", {"open"})
AssetMoves == From("in_service", {"maintenance", "retired"})
         \cup From("maintenance", {"in_service", "retired"})
ArticleMoves == From("draft", {"published"}) \cup From("published", {"draft"})
SurveyMoves == From("draft", {"open"}) \cup From("open", {"closed"})
MemberMoves == From("draft", {"active"}) \cup From("active", {"resigned", "excluded"})
SubscriptionMoves == From("draft", {"validated", "canceled"})
                \cup From("validated", {"paid", "canceled"})
DonationMoves == From("promised", {"paid", "canceled"})
BatchMoves == From("draft", {"validated", "canceled"})
         \cup From("validated", {"sent", "canceled"})
CreditTransferMoves == From("draft", {"validated", "canceled"})
                  \cup From("validated", {"sent", "canceled"})
BomMoves == From("draft", {"active", "obsolete"}) \cup From("active", {"obsolete"})
MoMoves == From("draft", {"validated", "canceled"})
      \cup From("validated", {"in_progress", "canceled"})
      \cup From("in_progress", {"produced", "canceled"})
MandateMoves == From("draft", {"active", "canceled"}) \cup From("active", {"canceled"})
StockTransferMoves == From("draft", {"validated", "canceled"})
SupplierOrderMoves == From("draft", {"validated", "canceled"})
                 \cup From("validated", {"shipped", "canceled"})
                 \cup From("shipped", {"billed", "canceled"}) \cup From("billed", {"closed"})
ReceptionMoves == From("draft", {"validated", "canceled"})
             \cup From("validated", {"closed", "canceled"})
OperationMoves == From("pending", {"done"})

Moves ==
  [booking |-> BookingMoves, orgEvent |-> OrgEventMoves,
   position |-> PositionMoves, application |-> ApplicationMoves,
   leave |-> LeaveMoves, salary |-> SalaryMoves,
   employee |-> EmployeeMoves, payroll |-> PayrollMoves,
   project |-> ProjectMoves, task |-> TaskMoves,
   contract |-> ContractMoves, intervention |-> InterventionMoves,
   ticket |-> TicketMoves, asset |-> AssetMoves,
   article |-> ArticleMoves, survey |-> SurveyMoves,
   member |-> MemberMoves, subscription |-> SubscriptionMoves,
   donation |-> DonationMoves, batch |-> BatchMoves,
   creditTransfer |-> CreditTransferMoves, bom |-> BomMoves,
   mo |-> MoMoves, mandate |-> MandateMoves,
   stockTransfer |-> StockTransferMoves, supplierOrder |-> SupplierOrderMoves,
   reception |-> ReceptionMoves, moOperation |-> OperationMoves,
   priceRule |-> KeptMoves, labelSheet |-> KeptMoves, organization |-> KeptMoves,
   memo |-> KeptMoves, user |-> KeptMoves]

Kinds == DOMAIN Moves
StatusesOf(k) ==
  IF Moves[k] = {} THEN {"kept"} ELSE {m[1] : m \in Moves[k]} \cup {m[2] : m \in Moves[k]}
AllStatuses == UNION {StatusesOf(k) : k \in Kinds}

-----------------------------------------------------------------------------
\* The statuses in which a row may be edited.
Editable ==
  [article |-> {"draft"}, asset |-> {"in_service", "maintenance"}, mandate |-> {"active"},
   stockTransfer |-> {"draft"}, priceRule |-> {"kept"}, labelSheet |-> {"kept"},
   organization |-> {"kept"}, memo |-> {"kept"}, user |-> {"kept"}]

\* The statuses in which a row takes children.
Open ==
  [project |-> {"draft", "active", "on_hold"}, task |-> {"todo", "doing"},
   ticket |-> {"open", "pending", "resolved"}, survey |-> {"draft"}, position |-> {"open"},
   bom |-> {"draft", "active"}, stockTransfer |-> {"draft"}, payroll |-> {"draft"}]

\* Votes are cast on a survey that is no longer edited.
OpenFor(k, child) == IF child = "vote" THEN {"open"} ELSE Open[k]
=============================================================================
