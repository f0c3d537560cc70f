---------------------------------- MODULE Loans ----------------------------------
(***************************************************************************)
(* One member loan (backend/internal/members): its schedule, the           *)
(* disbursement and the repayments. Both are a series of statements of     *)
(* their own: the entry in the ledger first, then the loan. The ledger     *)
(* refuses a second entry of the same reference in the same journal.       *)
(***************************************************************************)
EXTENDS Integers, FiniteSets, FiniteSetsExt

CONSTANTS
  Requests, \* concurrent HTTP requests
  Journals,
  Terms,    \* the loans considered: [principal, rateBps, periods]
  MostLent  \* 10^12 in the code, more than TLC can count

\* MemberLoan.Validate
HighestRate == 100000

ConstantsOK ==
  /\ MostLent \in Nat
  /\ \A t \in Terms : /\ t.principal \in 1 .. MostLent
                      /\ t.rateBps \in 0 .. HighestRate
                      /\ t.periods \in 1 .. 360

VARIABLES
  principal, \* lent
  legs,      \* the schedule: per line the principal it pays back
  status, version,
  disbursed, \* journals that have the disbursement
  paid,      \* the lines of the schedule marked paid
  posted,    \* per line: how many entries each journal has for it
  pc, work   \* per request: the statement that comes next, what it has read

vars == <<principal, legs, status, version, disbursed, paid, posted, pc, work>>

-----------------------------------------------------------------------------
(* The schedule *)

\* A month of interest, rounded half up.
MonthlyInterest(remaining, rateBps) == (remaining * rateBps + 60000) \div 120000

\* The constant payment pay clears the principal within the periods.
Amortizes(t, pay) ==
  LET left[i \in 0 .. t.periods] ==
        IF i = 0 THEN t.principal
        ELSE IF left[i - 1] <= 0 THEN 0
        ELSE LET leg == pay - MonthlyInterest(left[i - 1], t.rateBps)
             IN IF leg <= 0 THEN left[i - 1] ELSE left[i - 1] - leg
  IN left[t.periods] <= 0

\* The binary search for the annuity, between a payment that fails and one that
\* does.
SafeHigh(t) == t.principal + t.periods * MonthlyInterest(t.principal, t.rateBps) + 1

Annuity(t) ==
  LET payments == 0 .. SafeHigh(t)
      search[p \in payments \X payments] ==
        LET mid == (p[1] + p[2]) \div 2
        IN IF p[2] - p[1] <= 1 THEN p[2]
           ELSE IF Amortizes(t, mid) THEN search[<<p[1], mid>>] ELSE search[<<mid, p[2]>>]
  IN search[<<0, SafeHigh(t)>>]

\* BuildAmortisation: what is left after each line, and so its legs; the lines
\* end where nothing is left.
Left(t) ==
  LET annuity == Annuity(t)
      left[i \in 0 .. t.periods] ==
        IF i = 0 THEN t.principal
        ELSE LET leg == annuity - MonthlyInterest(left[i - 1], t.rateBps)
             IN IF i = t.periods \/ leg >= left[i - 1] THEN 0 ELSE left[i - 1] - leg
  IN left

BuildAmortisation(t) ==
  LET left == Left(t)
  IN [i \in {n \in 1 .. t.periods : left[n - 1] > 0} |-> left[i - 1] - left[i]]

Lines == DOMAIN legs

-----------------------------------------------------------------------------
NoWork == [line |-> 0, journal |-> "none", version |-> 0]

TypeOK ==
  /\ principal \in {t.principal : t \in Terms}
  /\ legs \in [Lines -> Nat \ {0}]
  /\ status \in {"draft", "disbursed", "repaid"}
  /\ version \in 1 .. 3
  /\ disbursed \subseteq Journals
  /\ paid \subseteq Lines
  /\ posted \in [Lines -> [Journals -> Nat]]
  /\ pc \in [Requests -> {"idle", "post disbursement", "set disbursed", "post", "mark",
                          "look", "read loan", "set repaid"}]
  /\ \A r \in Requests : work[r].line \in Lines \cup {0}

Init ==
  /\ \E t \in Terms : principal = t.principal /\ legs = BuildAmortisation(t)
  /\ status = "draft" /\ version = 1
  /\ disbursed = {}
  /\ paid = {}
  /\ posted = [i \in Lines |-> [j \in Journals |-> 0]]
  /\ pc = [r \in Requests |-> "idle"]
  /\ work = [r \in Requests |-> NoWork]

Goto(r, label) == pc' = [pc EXCEPT ![r] = label]
Finish(r) == Goto(r, "idle") /\ work' = [work EXCEPT ![r] = NoWork]

\* SetMemberLoanStatus, one step as in Lifecycles.
SetStatus(r, from, to) ==
  /\ IF status = from /\ version = work[r].version
     THEN status' = to /\ version' = version + 1
     ELSE UNCHANGED <<status, version>>
  /\ Finish(r)
  /\ UNCHANGED <<principal, legs, disbursed, paid, posted>>

-----------------------------------------------------------------------------
(* Disbursement *)

StartDisburse(r, j, v) ==
  /\ pc[r] = "idle"
  /\ status = "draft"
  /\ work' = [work EXCEPT ![r] = [line |-> 0, journal |-> j, version |-> v]]
  /\ Goto(r, "post disbursement")
  /\ UNCHANGED <<principal, legs, status, version, disbursed, paid, posted>>

PostDisbursement(r) ==
  /\ pc[r] = "post disbursement"
  /\ IF work[r].journal \in disbursed
     THEN Finish(r) /\ UNCHANGED disbursed
     ELSE /\ disbursed' = disbursed \cup {work[r].journal}
          /\ Goto(r, "set disbursed")
          /\ UNCHANGED work
  /\ UNCHANGED <<principal, legs, status, version, paid, posted>>

SetDisbursed(r) == pc[r] = "set disbursed" /\ SetStatus(r, "draft", "disbursed")

-----------------------------------------------------------------------------
(* Repayment *)

\* The loan and its schedule are read.
StartRepay(r, i, j) ==
  /\ pc[r] = "idle"
  /\ status = "disbursed"
  /\ i \notin paid
  /\ work' = [work EXCEPT ![r] = [line |-> i, journal |-> j, version |-> 0]]
  /\ Goto(r, "post")
  /\ UNCHANGED <<principal, legs, status, version, disbursed, paid, posted>>

\* PostEntry, in its own transaction.
PostRepayment(r) ==
  /\ pc[r] = "post"
  /\ IF posted[work[r].line][work[r].journal] > 0
     THEN Finish(r) /\ UNCHANGED posted
     ELSE /\ posted' = [posted EXCEPT ![work[r].line][work[r].journal] = @ + 1]
          /\ Goto(r, "mark")
          /\ UNCHANGED work
  /\ UNCHANGED <<principal, legs, status, version, disbursed, paid>>

\* UPDATE ... SET paid=TRUE WHERE paid=FALSE; no row is a conflict.
MarkLoanLinePaid(r) ==
  /\ pc[r] = "mark"
  /\ IF work[r].line \in paid
     THEN Finish(r) /\ UNCHANGED paid
     ELSE paid' = paid \cup {work[r].line} /\ Goto(r, "look") /\ UNCHANGED work
  /\ UNCHANGED <<principal, legs, status, version, disbursed, posted>>

\* Mutant: the last line is taken for the last one that is open.
AllPaidAtTheEnd == \A i \in Lines : i + 1 \notin Lines => i \in paid

AllPaid == Lines = paid

\* The schedule is read again, ...
LookForOpen(r) ==
  /\ pc[r] = "look"
  /\ IF AllPaid THEN Goto(r, "read loan") /\ UNCHANGED work ELSE Finish(r)
  /\ UNCHANGED <<principal, legs, status, version, disbursed, paid, posted>>

\* ... and, with nothing open, the loan too, for its version.
ReadLoan(r) ==
  /\ pc[r] = "read loan"
  /\ work' = [work EXCEPT ![r].version = version]
  /\ Goto(r, "set repaid")
  /\ UNCHANGED <<principal, legs, status, version, disbursed, paid, posted>>

SetRepaid(r) == pc[r] = "set repaid" /\ SetStatus(r, "disbursed", "repaid")

\* The process dies or a statement fails: what has committed stays.
Crash(r) ==
  /\ pc[r] # "idle"
  /\ Finish(r)
  /\ UNCHANGED <<principal, legs, status, version, disbursed, paid, posted>>

Next == \E r \in Requests :
  \/ \E j \in Journals, v \in 1 .. version : StartDisburse(r, j, v)
  \/ PostDisbursement(r) \/ SetDisbursed(r)
  \/ \E i \in Lines, j \in Journals : StartRepay(r, i, j)
  \/ PostRepayment(r) \/ MarkLoanLinePaid(r) \/ LookForOpen(r) \/ ReadLoan(r) \/ SetRepaid(r)
  \/ Crash(r)

Spec == Init /\ [][Next]_vars

-----------------------------------------------------------------------------
(* Properties *)

\* What the loan says is in the ledger: a disbursed loan has its disbursement, a
\* line marked paid its entry, and a repaid loan has collected its principal to
\* the last unit, the rounding of the annuity included. Repayments of one line
\* that race in one journal post once; those in different journals once each
\* (members/handler.go:481-621, members/loan.go:10-15).
RepaidIsCollected ==
  LET entered == {i \in Lines : \E j \in Journals : posted[i][j] > 0}
  IN /\ status # "draft" => disbursed # {}
     /\ paid \subseteq entered
     /\ \A i \in entered : status # "draft" /\ \A j \in Journals : posted[i][j] <= 1
     /\ status = "repaid" => MapThenSumSet(LAMBDA i : legs[i], entered) = principal

\* Reference: the annuity is the least payment that clears the principal
\* (members/loan.go:5-8), and the legs make up the principal.
ScheduleIsExact(T) == \A t \in T :
  /\ Amortizes(t, Annuity(t)) /\ ~Amortizes(t, Annuity(t) - 1)
  /\ LET made == BuildAmortisation(t)
     IN /\ MapThenSumSet(LAMBDA i : made[i], DOMAIN made) = t.principal
        /\ \A i \in DOMAIN made : made[i] > 0

-----------------------------------------------------------------------------
(* What the repository says of the code and the code does not do. *)

\* "when the last open installment closes, the loan moves to repaid"
\* (members/handler.go:536-537): a crash after the last mark leaves it disbursed.
ClosedIsRepaid ==
  paid = Lines /\ (\A r \in Requests : pc[r] = "idle") => status = "repaid"
=============================================================================
