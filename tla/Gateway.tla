--------------------------------- MODULE Gateway ---------------------------------
(***************************************************************************)
(* One payment attempt (backend/internal/payments): the intent, the        *)
(* webhooks that settle it, its refunds. The provider is external: it      *)
(* captures or denies a payment, gives money back, and repeats a webhook   *)
(* until it is answered with 2xx, in any order and several at a time.      *)
(***************************************************************************)
EXTENDS Integers, Sequences, FiniteSets

CONSTANTS
  Requests, \* concurrent HTTP requests
  GiveLimit \* bound: times the provider gives money back

VARIABLES
  online,  \* the attempt goes through a provider (else it is "manual")
  status,  \* of the attempt; "none" before it is stored
  version, \* its row_version
  notices, \* webhooks the provider has not seen answered
  decided, \* the provider has captured or denied the payment
  given,   \* how often the provider has given money back
  events,  \* the events published, in their order
  pc, work \* per request: the statement that comes next, what it carries

vars == <<online, status, version, notices, decided, given, events, pc, work>>

Outcomes == {"succeeded", "failed", "refunded"}
Idle == [notice |-> "none", seen |-> "none", to |-> "none", version |-> 0]

ConstantsOK == GiveLimit \in Nat

TypeOK ==
  /\ online \in BOOLEAN /\ decided \in BOOLEAN
  /\ status \in {"none", "pending"} \cup Outcomes
  /\ version \in 0 .. 3
  /\ notices \subseteq Outcomes
  /\ given \in 0 .. GiveLimit
  /\ events \in Seq(Outcomes \cup {"created"})
  /\ pc \in [Requests -> {"idle", "settle manual", "created", "settle", "answer",
                          "give back", "record", "announce"}]
  /\ \A r \in Requests : work[r].notice \in Outcomes \cup {"none"}

Init ==
  /\ online \in BOOLEAN
  /\ status = "none" /\ version = 0
  /\ notices = {} /\ decided = FALSE
  /\ given = 0
  /\ events = << >>
  /\ pc = [r \in Requests |-> "idle"]
  /\ work = [r \in Requests |-> Idle]

Goto(r, label) == pc' = [pc EXCEPT ![r] = label]
Finish(r) == Goto(r, "idle") /\ work' = [work EXCEPT ![r] = Idle]

CanTransition(from, to) ==
  <<from, to>> \in {<<"pending", "succeeded">>, <<"pending", "failed">>,
                    <<"succeeded", "refunded">>}

\* Mutant: the version is compared, the transition is not checked.
SettlesAnything(to, v) == version = v

\* PGStore.SetAttemptStatus with the version v: the row it reads and the row it
\* updates have that version, so it is one step.
Settles(to, v) == version = v /\ CanTransition(status, to)
SetStatus(to) == status' = to /\ version' = version + 1

-----------------------------------------------------------------------------
(* The intent *)

\* The provider makes the intent, the row is inserted.
CreateIntent(r) ==
  /\ pc[r] = "idle"
  /\ status = "none"
  /\ status' = "pending" /\ version' = 1
  /\ Goto(r, IF online THEN "created" ELSE "settle manual")
  /\ UNCHANGED <<online, notices, decided, given, events, work>>

\* A manual attempt settles at once, in a statement of its own.
SettleManual(r) ==
  /\ pc[r] = "settle manual"
  /\ IF Settles("succeeded", 1)
     THEN SetStatus("succeeded") /\ Goto(r, "created")
     ELSE Goto(r, "idle") /\ UNCHANGED <<status, version>>
  /\ UNCHANGED <<online, notices, decided, given, events, work>>

AnnounceCreated(r) ==
  /\ pc[r] = "created"
  /\ events' = Append(events, "created")
  /\ Goto(r, "idle")
  /\ UNCHANGED <<online, status, version, notices, decided, given, work>>

-----------------------------------------------------------------------------
(* The provider (external) and its webhooks *)

Decide(outcome) ==
  /\ online /\ status # "none" /\ ~decided
  /\ decided' = TRUE
  /\ notices' = {outcome}
  /\ UNCHANGED <<online, status, version, given, events, pc, work>>

\* A handler reads the attempt, ...
Deliver(r, n) ==
  /\ pc[r] = "idle"
  /\ n \in notices
  /\ work' = [work EXCEPT ![r] =
       [notice |-> n, seen |-> status, to |-> n, version |-> version]]
  /\ Goto(r, "settle")
  /\ UNCHANGED <<online, status, version, notices, decided, given, events>>

\* ... and settleTerminal takes one that is no longer pending for a redelivery.
\* A conflict or an illegal transition is an error: the provider comes again.
SettleTerminal(r) ==
  /\ pc[r] = "settle"
  /\ IF work[r].seen # "pending"
     THEN Goto(r, "answer") /\ UNCHANGED <<status, version, work>>
     ELSE IF Settles(work[r].to, work[r].version)
     THEN SetStatus(work[r].to) /\ Goto(r, "announce") /\ UNCHANGED work
     ELSE Finish(r) /\ UNCHANGED <<status, version>>
  /\ UNCHANGED <<online, notices, decided, given, events>>

Announce(r) ==
  /\ pc[r] = "announce"
  /\ events' = Append(events, work[r].to)
  /\ Goto(r, "answer")
  /\ UNCHANGED <<online, status, version, notices, decided, given, work>>

Answer(r) ==
  /\ pc[r] = "answer"
  /\ notices' = notices \ {work[r].notice}
  /\ Finish(r)
  /\ UNCHANGED <<online, status, version, decided, given, events>>

-----------------------------------------------------------------------------
(* Refunds *)

\* Refund reads the attempt; the client sends the version v it knows.
StartRefund(r, v) ==
  /\ pc[r] = "idle"
  /\ status = "succeeded"
  /\ work' = [work EXCEPT ![r] =
       [notice |-> "none", seen |-> "none", to |-> "refunded", version |-> v]]
  /\ Goto(r, IF online THEN "give back" ELSE "record")
  /\ UNCHANGED <<online, status, version, notices, decided, given, events>>

\* The money first: the provider is asked, with no key that names the attempt,
\* and tells of it by webhook.
GiveBack(r) ==
  /\ pc[r] = "give back"
  /\ given < GiveLimit
  /\ given' = given + 1
  /\ notices' = notices \cup {"refunded"}
  /\ Goto(r, "record")
  /\ UNCHANGED <<online, status, version, decided, events, work>>

\* Then the row.
RecordRefund(r) ==
  /\ pc[r] = "record"
  /\ IF Settles("refunded", work[r].version)
     THEN SetStatus("refunded") /\ Goto(r, "announce") /\ UNCHANGED work
     ELSE Finish(r) /\ UNCHANGED <<status, version>>
  /\ UNCHANGED <<online, notices, decided, given, events>>

\* PUT .../status: no event, no provider.
SetAttemptStatus(to) ==
  /\ status # "none"
  /\ Settles(to, version)
  /\ SetStatus(to)
  /\ UNCHANGED <<online, notices, decided, given, events, pc, work>>

\* The process dies or a statement fails: what has committed stays.
Crash(r) ==
  /\ pc[r] # "idle"
  /\ Finish(r)
  /\ UNCHANGED <<online, status, version, notices, decided, given, events>>

Next ==
  \/ \E r \in Requests :
       \/ CreateIntent(r) \/ SettleManual(r) \/ AnnounceCreated(r)
       \/ \E n \in Outcomes : Deliver(r, n)
       \/ SettleTerminal(r) \/ Announce(r) \/ Answer(r)
       \/ \E v \in 1 .. version : StartRefund(r, v)
       \/ GiveBack(r) \/ RecordRefund(r) \/ Crash(r)
  \/ \E outcome \in {"succeeded", "failed"} : Decide(outcome)
  \/ \E to \in Outcomes : SetAttemptStatus(to)

Spec == Init /\ [][Next]_vars

-----------------------------------------------------------------------------
(* Properties *)

Times(S) == Cardinality({i \in DOMAIN events : events[i] \in S})

\* However webhooks are repeated, reordered and raced by refunds and by hand,
\* an attempt is announced as settled once at most and as refunded once at most,
\* and what was announced is what became of it (payments/handler.go:247-342,
\* payments/store.go:88-110).
AnnouncedOnce ==
  /\ Times({"succeeded", "failed"}) <= 1 /\ Times({"refunded"}) <= 1
  /\ Times({"succeeded"}) > 0 => status \in {"succeeded", "refunded"}
  /\ Times({"failed"}) > 0 => status = "failed"
  /\ Times({"refunded"}) > 0 => status = "refunded"

-----------------------------------------------------------------------------
(* What the repository says of the code and the code does not do. *)

\* "PAYMENT.CAPTURE.REFUNDED ... REFUNDED is only legal from Succeeded
\* (CanTransition)" (payments/handler.go:477-486): a refund the provider tells
\* of, answered after the capture, is in the attempt. settleTerminal answers it
\* as a duplicate of the capture.
RefundNoticesCount ==
  given > 0 /\ "refunded" \notin notices => status = "refunded"
=============================================================================
