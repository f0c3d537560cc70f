--------------------------------- MODULE Campaigns ---------------------------------
(***************************************************************************)
(* One mail campaign (backend/internal/mailing): its audience is expanded  *)
(* and queued, the queued are mailed one by one, and people opt out by the *)
(* token of a mail. No step is in a transaction with another; only the     *)
(* status of the campaign is guarded by its row version.                   *)
(***************************************************************************)
EXTENDS Integers, FiniteSets, FiniteSetsExt

CONSTANTS
  Requests,
  Emails,   \* addresses, in the order they are mailed
  FaultLimit, \* bound: requests that die, marks that are lost
  RoundLimit  \* bound: expansions and sendings

ConstantsOK == Emails \subseteq Nat /\ {FaultLimit, RoundLimit} \subseteq Nat

VARIABLES
  status, version, \* of the campaign
  row,        \* per address: its row in the campaign, "none" without one
  suppressed, \* the addresses that have opted out
  mailed,     \* per address: mails delivered
  late,       \* history: addresses added while the campaign was being sent, or after
  unmarked,   \* history: addresses whose mark was lost
  retaken,    \* history: a sender has taken over a campaign that was being sent
  rounds, faults,
  pc, work    \* per request: what comes next; the version it holds, the addresses left

vars == <<status, version, row, suppressed, mailed, late, unmarked, retaken,
          rounds, faults, pc, work>>

NoWork == [version |-> 0, left |-> {}]

TypeOK ==
  /\ status \in {"draft", "queued", "sending", "done"}
  /\ version \in Nat \ {0}
  /\ row \in [Emails -> {"none", "queued", "sent", "failed"}]
  /\ mailed \in [Emails -> Nat]
  /\ {suppressed, late, unmarked} \subseteq SUBSET Emails
  /\ retaken \in BOOLEAN
  /\ pc \in [Requests -> {"idle", "add", "set queued", "look", "mail", "sent", "failed", "fail row"}]
  /\ \A r \in Requests : work[r].left \subseteq Emails

Init ==
  /\ status = "draft" /\ version = 1
  /\ row = [e \in Emails |-> "none"]
  /\ suppressed = {}
  /\ mailed = [e \in Emails |-> 0]
  /\ late = {} /\ unmarked = {}
  /\ retaken = FALSE
  /\ rounds = 0 /\ faults = 0
  /\ pc = [r \in Requests |-> "idle"]
  /\ work = [r \in Requests |-> NoWork]

Goto(r, label) == pc' = [pc EXCEPT ![r] = label]
Finish(r) == Goto(r, "idle") /\ work' = [work EXCEPT ![r] = NoWork]
First(r) == Min(work[r].left)
Drop(r) == work' = [work EXCEPT ![r].left = @ \ {First(r)}]

\* Mutant: the status of a campaign is set whatever its version.
AnyVersion(r) == work[r].version \in Nat

\* SetCampaignStatus goes by the row version alone.
SameVersion(r) == version = work[r].version

-----------------------------------------------------------------------------
(* ExpandAndQueue *)

\* Mutant: the opted out are not left out.
Everybody(audience) == audience

\* ExpandAudience leaves out those who have opted out.
Addressed(audience) == audience \ suppressed

StartExpand(r, audience) ==
  /\ pc[r] = "idle"
  /\ status \in {"draft", "queued"}
  /\ rounds < RoundLimit
  /\ rounds' = rounds + 1
  /\ work' = [work EXCEPT ![r] =
       [version |-> version, left |-> Addressed(audience)]]
  /\ Goto(r, "add")
  /\ UNCHANGED <<status, version, row, suppressed, mailed, late, unmarked, retaken, faults>>

\* AddRecipient; one that is there already is skipped. The campaign may have
\* moved on.
AddRecipient(r) ==
  /\ pc[r] = "add"
  /\ IF work[r].left = {}
     THEN Goto(r, "set queued") /\ UNCHANGED <<row, late, work>>
     ELSE LET e == First(r)
          IN /\ Drop(r)
             /\ IF row[e] # "none" THEN UNCHANGED <<row, late>>
                ELSE /\ row' = [row EXCEPT ![e] = "queued"]
                     /\ late' = IF status \in {"sending", "done"} THEN late \cup {e} ELSE late
             /\ UNCHANGED pc
  /\ UNCHANGED <<status, version, suppressed, mailed, unmarked, retaken, rounds, faults>>

SetQueued(r) ==
  /\ pc[r] = "set queued"
  /\ IF SameVersion(r)
     THEN status' = "queued" /\ version' = version + 1
     ELSE UNCHANGED <<status, version>>
  /\ Finish(r)
  /\ UNCHANGED <<row, suppressed, mailed, late, unmarked, retaken, rounds, faults>>

-----------------------------------------------------------------------------
(* SendAll *)

\* The campaign is read and taken, in the version it was read in.
StartSend(r) ==
  /\ pc[r] = "idle"
  /\ status \in {"queued", "sending"}
  /\ rounds < RoundLimit
  /\ rounds' = rounds + 1
  /\ status' = "sending" /\ version' = version + 1
  /\ retaken' = (retaken \/ status = "sending")
  /\ work' = [work EXCEPT ![r] = [NoWork EXCEPT !.version = version + 1]]
  /\ Goto(r, "look")
  /\ UNCHANGED <<row, suppressed, mailed, late, unmarked, faults>>

QueuedOf(r) ==
  /\ pc[r] = "look"
  /\ work' = [work EXCEPT ![r].left = {e \in Emails : row[e] = "queued"}]
  /\ Goto(r, "mail")
  /\ UNCHANGED <<status, version, row, suppressed, mailed, late, unmarked, retaken,
                 rounds, faults>>

\* The mail goes out, or not.
Dispatch(r, outcome) ==
  /\ pc[r] = "mail"
  /\ work[r].left # {}
  /\ mailed' = IF outcome = "sent" THEN [mailed EXCEPT ![First(r)] = @ + 1] ELSE mailed
  /\ Goto(r, outcome)
  /\ UNCHANGED <<status, version, row, suppressed, late, unmarked, retaken,
                 rounds, faults, work>>

\* The row is marked with the outcome. An error of the mark is dropped.
SetRecipientStatus(r) ==
  /\ pc[r] \in {"sent", "failed"}
  /\ Drop(r)
  /\ Goto(r, "mail")
  /\ \/ /\ row' = [row EXCEPT ![First(r)] = pc[r]]
        /\ UNCHANGED <<unmarked, faults>>
     \/ /\ faults < FaultLimit
        /\ faults' = faults + 1
        /\ unmarked' = unmarked \cup {First(r)}
        /\ UNCHANGED row
  /\ UNCHANGED <<status, version, suppressed, mailed, late, retaken, rounds>>

SetDone(r) ==
  /\ pc[r] = "mail"
  /\ work[r].left = {}
  /\ IF SameVersion(r)
     THEN status' = "done" /\ version' = version + 1
     ELSE UNCHANGED <<status, version>>
  /\ Finish(r)
  /\ UNCHANGED <<row, suppressed, mailed, late, unmarked, retaken, rounds, faults>>

-----------------------------------------------------------------------------
(* Unsubscribe *)

\* By the token of this campaign, whose row is read, or by that of an older one,
\* which says nothing of the row here. The address is suppressed, ...
Unsubscribe(r, e, here) ==
  /\ pc[r] = "idle"
  /\ here => row[e] # "none"
  /\ suppressed' = suppressed \cup {e}
  /\ IF here /\ row[e] = "queued"
     THEN Goto(r, "fail row") /\ work' = [work EXCEPT ![r] = [NoWork EXCEPT !.left = {e}]]
     ELSE UNCHANGED <<pc, work>>
  /\ UNCHANGED <<status, version, row, mailed, late, unmarked, retaken, rounds, faults>>

\* ... and its row failed if it was queued, whatever it is by now.
FailRow(r) ==
  /\ pc[r] = "fail row"
  /\ row' = [row EXCEPT ![First(r)] = "failed"]
  /\ Finish(r)
  /\ UNCHANGED <<status, version, suppressed, mailed, late, unmarked, retaken,
                 rounds, faults>>

\* The process dies or a call fails: what was written stays.
Crash(r) ==
  /\ pc[r] # "idle"
  /\ faults < FaultLimit
  /\ faults' = faults + 1
  /\ Finish(r)
  /\ UNCHANGED <<status, version, row, suppressed, mailed, late, unmarked, retaken, rounds>>

Next == \E r \in Requests :
  \/ \E audience \in SUBSET Emails : StartExpand(r, audience)
  \/ AddRecipient(r) \/ SetQueued(r)
  \/ StartSend(r) \/ QueuedOf(r)
  \/ \E outcome \in {"sent", "failed"} : Dispatch(r, outcome)
  \/ SetRecipientStatus(r) \/ SetDone(r)
  \/ \E e \in Emails, here \in BOOLEAN : Unsubscribe(r, e, here)
  \/ FailRow(r)
  \/ Crash(r)

Spec == Init /\ [][Next]_vars

-----------------------------------------------------------------------------
(* Properties *)

\* Mails go out once per address, as long as nobody takes over a campaign that is
\* being sent, which a second request may do at any time: neither racing
\* expansions nor senders that start together mail an address twice
\* (service.go:84-117).
MailedOnceUnlessRetaken == ~retaken => \A e \in Emails : mailed[e] <= 1

\* e has opted out and nothing under way is about to mail or to add it.
Settled(e) ==
  e \in suppressed /\ row[e] # "queued" /\ \A r \in Requests : e \notin work[r].left

\* An opt-out lasts: an address that has opted out and is in nobody's hands gets
\* into nobody's hands again, whatever is expanded or sent later
\* (service.go:122-123).
OptOutLasts == [][\A e \in Emails : Settled(e) => Settled(e)']_vars

\* A campaign that is done has nobody left in the queue but those whom an expansion
\* added too late and those whose mark was lost (service.go:81-83).
LeftInQueueIsLate ==
  status = "done" =>
    \A e \in Emails : row[e] = "queued" => e \in late \cup unmarked

-----------------------------------------------------------------------------
(* What the repository says of the code and the code does not do. *)

\* "SendAll delivers every queued recipient ... and marks the campaign done"
\* (service.go:81-82): not one added while it was sending.
DoneIsDelivered == status = "done" => \A e \in Emails : row[e] # "queued"
=============================================================================
