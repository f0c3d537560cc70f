---------------------------- MODULE BillingProofs ----------------------------
(***************************************************************************)
(* Theorems about Billing, for any number of requests, documents, payments *)
(* and credits and any amounts.                                            *)
(***************************************************************************)
EXTENDS Billing, Sums, SequenceTheorems

PaySteps == {"gross", "paid", "ref", "commit"}
CreditSteps == {"credit_gross", "credit_paid", "credit_sum", "credit_apply"}

\* What the statement a request is at says of its body.
JobOK ==
  \A r \in Reqs :
    /\ pc[r] = "move" => job[r] \in Moves
    /\ pc[r] = "clone" => job[r] \in Notes
    /\ pc[r] \in PaySteps => job[r] \in Charges
    /\ pc[r] \in CreditSteps => job[r] \in Credits
    /\ pc[r] \in {"gross", "paid"} => todo[r] # << >>

TypeInv == TypeOK /\ JobOK

LEMMA InitType == Init => TypeInv
<1> SUFFICES ASSUME Init PROVE TypeInv
  OBVIOUS
<1>1. Nothing \in [Invoices -> Nat] /\ Unread \in [version : Nat, total : Nat]
  BY DEF Nothing, Unread
<1>2. TypeOK
  BY <1>1, BillingAssumption DEF Init, TypeOK, Steps, Docs, Statuses
<1>3. JobOK
  BY DEF Init, JobOK, PaySteps, CreditSteps
<1> QED
  BY <1>2, <1>3 DEF TypeInv

\* What an answered request leaves in its own variables.
LEMMA AnswerType ==
  ASSUME TypeInv, NEW r \in Reqs, Answer(r)
  PROVE  /\ JobOK'
         /\ counter' \in Reqs \cup {NoReq}
         /\ pc' \in [Reqs -> Steps]
         /\ job' \in [Reqs -> Charges \cup Credits \cup Moves \cup Notes \cup {NoJob}]
         /\ seen' \in [Reqs -> [version : Nat, total : Nat]]
         /\ todo' \in [Reqs -> Seq(Invoices)]
         /\ bal' \in [Reqs -> Int]
         /\ gets' \in [Reqs -> [Invoices -> Nat]]
         /\ left' \in [Reqs -> Nat]
         /\ number' \in [Reqs -> Nat]
<1>1. Nothing \in [Invoices -> Nat] /\ Unread \in [version : Nat, total : Nat]
  BY DEF Nothing, Unread
<1>2. JobOK'
  BY DEF TypeInv, TypeOK, JobOK, Answer, PaySteps, CreditSteps
<1> QED
  BY <1>1, <1>2 DEF TypeInv, TypeOK, Steps, Answer

LEMMA FailType ==
  ASSUME TypeInv, NEW r \in Reqs, Fail(r)
  PROVE  TypeInv'
<1>1. JobOK'
  BY AnswerType DEF Fail
<1>2. TypeOK'
  BY AnswerType DEF Fail, TypeInv, TypeOK, docVars, bookVars
<1> QED
  BY <1>1, <1>2 DEF TypeInv

\* Requests begin with a body of their own kind.
LEMMA BeginType ==
  ASSUME TypeInv, NEW r \in Reqs, Request(r)
  PROVE  TypeInv'
<1>1. ASSUME NEW m \in Moves, BeginMove(r, m) PROVE TypeInv'
  <2>1. m.doc \in Docs
    BY BillingAssumption
  <2>2. seen' \in [Reqs -> [version : Nat, total : Nat]]
    BY <1>1, <2>1 DEF BeginMove, Reads, TypeInv, TypeOK
  <2>3. TypeOK'
    BY <1>1, <2>2 DEF BeginMove, Begin, TypeInv, TypeOK, Steps, docVars, bookVars, payVars
  <2>4. JobOK'
    BY <1>1 DEF BeginMove, Begin, TypeInv, TypeOK, JobOK, payVars, PaySteps, CreditSteps
  <2> QED
    BY <2>3, <2>4 DEF TypeInv
<1>2. ASSUME NEW n \in Notes, BeginClone(r, n) PROVE TypeInv'
  <2>1. NoteOf[n] \in Docs
    BY BillingAssumption DEF Docs
  <2>2. seen' \in [Reqs -> [version : Nat, total : Nat]]
    BY <1>2, <2>1 DEF BeginClone, Reads, TypeInv, TypeOK
  <2>3. TypeOK'
    BY <1>2, <2>2 DEF BeginClone, Begin, TypeInv, TypeOK, Steps, docVars, bookVars, payVars
  <2>4. JobOK'
    BY <1>2 DEF BeginClone, Begin, TypeInv, TypeOK, JobOK, payVars, PaySteps, CreditSteps
  <2> QED
    BY <2>3, <2>4 DEF TypeInv
<1>3. ASSUME NEW c \in Charges, BeginPay(r, c) PROVE TypeInv'
  <2>1. c.invs \in Seq(Invoices) /\ c.invs # << >> /\ c.amount \in Nat
    BY BillingAssumption
  <2>2. TypeOK'
    BY <1>3, <2>1 DEF BeginPay, Begin, TypeInv, TypeOK, Steps, docVars, bookVars
  <2>3. JobOK'
    BY <1>3, <2>1 DEF BeginPay, Begin, TypeInv, TypeOK, JobOK, PaySteps, CreditSteps
  <2> QED
    BY <2>2, <2>3 DEF TypeInv
<1>4. ASSUME NEW c \in Credits, BeginCredit(r, c) PROVE TypeInv'
  <2>1. c.note \in Docs
    BY BillingAssumption DEF Docs
  <2>2. seen' \in [Reqs -> [version : Nat, total : Nat]]
    BY <1>4, <2>1 DEF BeginCredit, Reads, TypeInv, TypeOK
  <2>3. TypeOK'
    BY <1>4, <2>2 DEF BeginCredit, Begin, TypeInv, TypeOK, Steps, docVars, bookVars, payVars
  <2>4. JobOK'
    BY <1>4 DEF BeginCredit, Begin, TypeInv, TypeOK, JobOK, payVars, PaySteps, CreditSteps
  <2> QED
    BY <2>3, <2>4 DEF TypeInv
<1> QED
  BY <1>1, <1>2, <1>3, <1>4 DEF Request

\* What an invoice takes and what remains stay amounts of money.
LEMMA AllocationType ==
  ASSUME NEW balance \in Int, NEW rest \in Nat, ~ Settled(balance)
  PROVE  /\ Takes(balance, rest) \in Nat
         /\ RestAfter(balance, rest) \in Nat
BY DEF Takes, RestAfter, Settled

LEMMA ReadPaidType ==
  ASSUME TypeInv, NEW r \in Reqs, ReadPaid(r)
  PROVE  TypeInv'
<1> DEFINE i == Head(todo[r])
           balance == bal[r] - paid[i]
           rest == RestAfter(balance, left[r])
           last == Len(todo[r]) = 1
           refused == Settled(balance) \/ (last /\ rest # 0)
<1>1. CASE refused
  BY <1>1, FailType DEF ReadPaid
<1>2. CASE ~ refused
  <2>1. todo[r] \in Seq(Invoices) /\ todo[r] # << >>
    BY DEF ReadPaid, TypeInv, TypeOK, JobOK
  <2>2. i \in Invoices /\ Tail(todo[r]) \in Seq(Invoices) /\ (~ last => Tail(todo[r]) # << >>)
    <3>1. /\ i \in Invoices /\ Tail(todo[r]) \in Seq(Invoices)
          /\ Len(Tail(todo[r])) = Len(todo[r]) - 1
      BY <2>1, HeadTailProperties
    <3>2. Len(todo[r]) \in Nat
      BY <2>1, LenProperties
    <3>3. ~ last => Len(Tail(todo[r])) # 0
      BY <3>1, <3>2
    <3> QED
      BY <3>1, <3>3, EmptySeq
  <2>3. balance \in Int /\ left[r] \in Nat
    <3>1. paid[i] \in Nat /\ bal[r] \in Int /\ left[r] \in Nat
      BY <2>2 DEF TypeInv, TypeOK
    <3> QED
      BY <3>1
  <2>4. Takes(balance, left[r]) \in Nat /\ rest \in Nat
    BY <1>2, <2>3, AllocationType
  <2>5. /\ pc[r] = "paid"
        /\ pc' = [pc EXCEPT ![r] = IF last THEN "ref" ELSE "gross"]
        /\ todo' = [todo EXCEPT ![r] = Tail(todo[r])]
        /\ bal' = [bal EXCEPT ![r] = 0]
        /\ gets' = [gets EXCEPT ![r][i] = Takes(balance, left[r])]
        /\ left' = [left EXCEPT ![r] = rest]
        /\ UNCHANGED <<docVars, bookVars, counter, seen, number, job>>
    BY <1>2 DEF ReadPaid, Goto
  <2>6. gets' \in [Reqs -> [Invoices -> Nat]]
    BY <2>2, <2>4, <2>5 DEF TypeInv, TypeOK
  <2> HIDE DEF i, balance, rest, last, refused
  <2>7. TypeOK'
    <3>1. /\ pc' \in [Reqs -> Steps]
          /\ todo' \in [Reqs -> Seq(Invoices)]
          /\ bal' \in [Reqs -> Int]
          /\ left' \in [Reqs -> Nat]
      <4>1. pc' \in [Reqs -> Steps]
        BY <2>5 DEF TypeInv, TypeOK, Steps
      <4>2. todo' \in [Reqs -> Seq(Invoices)]
        BY <2>2, <2>5 DEF TypeInv, TypeOK
      <4>3. bal' \in [Reqs -> Int] /\ left' \in [Reqs -> Nat]
        BY <2>4, <2>5 DEF TypeInv, TypeOK
      <4> QED
        BY <4>1, <4>2, <4>3
    <3>2. UNCHANGED <<status, total, version, payments, paid, credited, nextRef,
                      counter, seen, number, job>>
      BY <2>5 DEF docVars, bookVars
    <3> QED
      BY <2>6, <3>1, <3>2 DEF TypeInv, TypeOK
  <2>8. JobOK'
    BY <1>2, <2>2, <2>5 DEF TypeInv, TypeOK, JobOK, PaySteps, CreditSteps
  <2> QED
    BY <2>7, <2>8 DEF TypeInv
<1> QED
  BY <1>1, <1>2

LEMMA CommitPaymentType ==
  ASSUME TypeInv, NEW r \in Reqs, CommitPayment(r)
  PROVE  TypeInv'
<1>1. job[r].amount \in Nat /\ number[r] \in Nat /\ gets[r] \in [Invoices -> Nat]
  BY BillingAssumption DEF CommitPayment, TypeInv, TypeOK, JobOK, PaySteps
<1>2. payments' \in Seq(Payment)
  BY <1>1 DEF CommitPayment, TypeInv, TypeOK, Payment
<1>3. paid' \in [Invoices -> Nat] /\ nextRef' \in Nat
  <2>1. \A i \in Invoices : paid[i] \in Nat /\ gets[r][i] \in Nat
    BY <1>1 DEF TypeInv, TypeOK
  <2>2. \A i \in Invoices : paid[i] + gets[r][i] \in Nat
    BY <2>1
  <2>3. number[r] + 1 \in Nat
    BY <1>1
  <2> QED
    BY <2>2, <2>3 DEF CommitPayment
<1>4. status' \in [Docs -> Statuses \cup {"absent"}]
  BY DEF CommitPayment, TypeInv, TypeOK, StatusAfter, Statuses
<1>5. Answer(r) /\ UNCHANGED <<total, version, credited>>
  BY DEF CommitPayment
<1>6. TypeOK'
  BY <1>2, <1>3, <1>4, <1>5, AnswerType DEF TypeInv, TypeOK
<1> QED
  BY <1>5, <1>6, AnswerType DEF TypeInv

LEMMA NextType == TypeInv /\ [Next]_vars => TypeInv'
<1> SUFFICES ASSUME TypeInv, [Next]_vars PROVE TypeInv'
  OBVIOUS
<1>1. ASSUME NEW r \in Reqs, Request(r) PROVE TypeInv'
  BY <1>1, BeginType
<1>2. ASSUME NEW r \in Reqs, TakeRef(r) PROVE TypeInv'
  <2>1. TypeOK'
    BY <1>2 DEF TakeRef, Goto, TypeInv, TypeOK, Steps, docVars, bookVars
  <2>2. JobOK'
    BY <1>2 DEF TakeRef, Goto, TypeInv, TypeOK, JobOK, PaySteps, CreditSteps
  <2> QED
    BY <2>1, <2>2 DEF TypeInv
<1>3. ASSUME NEW r \in Reqs, WriteMove(r) PROVE TypeInv'
  <2>1. CASE Fail(r)
    BY <2>1, FailType
  <2>2. CASE ~ Fail(r)
    <3>1. job[r].doc \in Docs /\ job[r].to \in Statuses
      BY <1>3, BillingAssumption DEF WriteMove, TypeInv, JobOK
    <3>2. /\ status' = [status EXCEPT ![job[r].doc] = job[r].to]
          /\ version' = [version EXCEPT ![job[r].doc] = version[job[r].doc] + 1]
          /\ Answer(r) /\ UNCHANGED <<total, bookVars>>
      BY <1>3, <2>2 DEF WriteMove
    <3>3. version[job[r].doc] + 1 \in Nat
      <4>1. version[job[r].doc] \in Nat
        BY <3>1 DEF TypeInv, TypeOK
      <4> QED
        BY <4>1
    <3>4. version' \in [Docs -> Nat]
      BY <3>2, <3>3 DEF TypeInv, TypeOK
    <3>5. status' \in [Docs -> Statuses \cup {"absent"}]
      BY <3>1, <3>2 DEF TypeInv, TypeOK
    <3>6. TypeOK'
      BY <3>2, <3>4, <3>5, AnswerType DEF TypeInv, TypeOK, bookVars
    <3> QED
      BY <3>2, <3>6, AnswerType DEF TypeInv
  <2> QED
    BY <2>1, <2>2
<1>4. ASSUME NEW r \in Reqs, CreateNote(r) PROVE TypeInv'
  <2>1. job[r] \in Docs /\ seen[r].total \in Nat
    BY <1>4 DEF CreateNote, TypeInv, TypeOK, JobOK, Docs
  <2>2. /\ status' \in [Docs -> Statuses \cup {"absent"}]
        /\ total' \in [Docs -> Nat]
        /\ version' \in [Docs -> Nat]
    BY <1>4, <2>1 DEF CreateNote, TypeInv, TypeOK, Statuses
  <2>3. Answer(r) /\ UNCHANGED bookVars
    BY <1>4 DEF CreateNote
  <2>4. TypeOK'
    BY <2>2, <2>3, AnswerType DEF TypeInv, TypeOK, bookVars
  <2> QED
    BY <2>3, <2>4, AnswerType DEF TypeInv
<1>5. ASSUME NEW r \in Reqs, ReadGross(r) PROVE TypeInv'
  <2>1. Head(todo[r]) \in Docs
    <3>1. todo[r] \in Seq(Invoices) /\ todo[r] # << >>
      BY <1>5 DEF ReadGross, Goto, TypeInv, TypeOK, JobOK
    <3> QED
      BY <3>1, HeadTailProperties DEF Docs
  <2>. total[Head(todo[r])] \in Int
    BY <2>1 DEF TypeInv, TypeOK
  <2>2. TypeOK'
    BY <1>5 DEF ReadGross, Goto, TypeInv, TypeOK, Steps, docVars, bookVars, payVars
  <2>3. JobOK'
    BY <1>5 DEF ReadGross, Goto, TypeInv, TypeOK, JobOK, payVars, PaySteps, CreditSteps
  <2> QED
    BY <2>2, <2>3 DEF TypeInv
<1>6. ASSUME NEW r \in Reqs, ReadPaid(r) PROVE TypeInv'
  BY <1>6, ReadPaidType
<1>7. ASSUME NEW r \in Reqs, CommitPayment(r) PROVE TypeInv'
  BY <1>7, CommitPaymentType
<1>8. ASSUME NEW r \in Reqs, CreditGross(r) PROVE TypeInv'
  <2>1. job[r].inv \in Docs
    BY <1>8, BillingAssumption DEF CreditGross, Goto, TypeInv, JobOK, CreditSteps, Docs
  <2>2. TypeOK'
    BY SMTT(30), <1>8, <2>1 DEF CreditGross, Goto, TypeInv, TypeOK, Steps, docVars, bookVars, payVars
  <2>3. JobOK'
    BY <1>8 DEF CreditGross, Goto, TypeInv, TypeOK, JobOK, payVars, PaySteps, CreditSteps
  <2> QED
    BY <2>2, <2>3 DEF TypeInv
<1>9. ASSUME NEW r \in Reqs, CreditPaid(r) PROVE TypeInv'
  <2>1. job[r].inv \in Invoices
    BY <1>9, BillingAssumption DEF CreditPaid, Goto, TypeInv, JobOK, CreditSteps
  <2>. bal[r] - paid[job[r].inv] \in Int
    <3>1. bal[r] \in Int /\ paid[job[r].inv] \in Nat
      BY <2>1 DEF TypeInv, TypeOK
    <3> QED
      BY <3>1
  <2>2. TypeOK'
    BY <1>9 DEF CreditPaid, Goto, TypeInv, TypeOK, Steps, docVars, bookVars, payVars
  <2>3. JobOK'
    BY <1>9 DEF CreditPaid, Goto, TypeInv, TypeOK, JobOK, payVars, PaySteps, CreditSteps
  <2> QED
    BY <2>2, <2>3 DEF TypeInv
<1>10. ASSUME NEW r \in Reqs, CreditSum(r) PROVE TypeInv'
  <2>1. CASE Fail(r)
    BY <2>1, FailType
  <2>2. CASE ~ Fail(r)
    <3>1. Goto(r, "credit_sum", "credit_apply") /\ UNCHANGED <<docVars, bookVars, payVars, seen, bal>>
      BY <1>10, <2>2 DEF CreditSum
    <3>2. TypeOK'
      BY <3>1 DEF Goto, TypeInv, TypeOK, Steps, docVars, bookVars, payVars
    <3>3. JobOK'
      BY <3>1 DEF Goto, TypeInv, TypeOK, JobOK, payVars, PaySteps, CreditSteps
    <3> QED
      BY <3>2, <3>3 DEF TypeInv
  <2> QED
    BY <2>1, <2>2
<1>11. ASSUME NEW r \in Reqs, CreditApply(r) PROVE TypeInv'
  <2>1. job[r].inv \in Invoices /\ job[r].note \in Notes /\ job[r].amount \in Nat
    BY <1>11, BillingAssumption DEF CreditApply, TypeInv, JobOK, CreditSteps
  <2>2. credited' \in [Invoices -> [Notes -> Nat]]
    <3>1. credited \in [Invoices -> [Notes -> Nat]]
      BY DEF TypeInv, TypeOK
    <3>2. credited[job[r].inv][job[r].note] + job[r].amount \in Nat
      <4>1. credited[job[r].inv][job[r].note] \in Nat
        BY <2>1, <3>1
      <4> QED
        BY <2>1, <4>1
    <3> QED
      BY <1>11, <2>1, <3>1, <3>2 DEF CreditApply
  <2>3. Answer(r) /\ UNCHANGED <<docVars, payments, paid, nextRef>>
    BY <1>11 DEF CreditApply
  <2>4. TypeOK'
    BY <2>2, <2>3, AnswerType DEF TypeInv, TypeOK, docVars
  <2> QED
    BY <2>3, <2>4, AnswerType DEF TypeInv
<1>12. ASSUME NEW r \in Reqs, Crash(r) PROVE TypeInv'
  BY <1>12, FailType DEF Crash
<1>13. ASSUME NEW d \in Docs, NEW amount \in Amounts, Edit(d, amount) PROVE TypeInv'
  <2>1. amount \in Nat
    BY BillingAssumption
  <2>2. TypeOK'
    BY <1>13, <2>1 DEF Edit, TypeInv, TypeOK, bookVars, payVars
  <2>3. JobOK'
    BY <1>13 DEF Edit, TypeInv, TypeOK, JobOK, payVars
  <2> QED
    BY <2>2, <2>3 DEF TypeInv
<1>14. CASE UNCHANGED vars
  <2>1. TypeOK'
    BY <1>14 DEF vars, TypeInv, TypeOK
  <2>2. JobOK'
    BY <1>14 DEF vars, TypeInv, JobOK
  <2> QED
    BY <2>1, <2>2 DEF TypeInv
<1> QED
  BY <1>1, <1>2, <1>3, <1>4, <1>5, <1>6, <1>7, <1>8, <1>9, <1>10, <1>11, <1>12, <1>13, <1>14
  DEF Next, Continue

LEMMA TypeInvariant == Spec => []TypeInv
<1> QED
  BY InitType, NextType, PTL DEF Spec

\* Every variable of the billing model keeps its type: no amount allocated,
\* left or credited is ever negative, whatever the balances read were
\* (AllocateAcross and the settled check of RecordPayment).
THEOREM BillingTypeCorrect == Spec => []TypeOK
<1>1. TypeInv => TypeOK
  BY DEF TypeInv
<1> QED
  BY <1>1, TypeInvariant, PTL

-----------------------------------------------------------------------------
(* Payment references. *)

\* A request about to commit a payment holds the counter row, and nobody has
\* taken a reference since it did.
HoldsCounter ==
  \A r \in Reqs : pc[r] = "commit" => counter = r /\ number[r] = nextRef

RefsInv == TypeInv /\ HoldsCounter /\ RefsGapless

\* Only a COMMIT touches the payments and the counter's value, only TakeRef
\* and the end of a request touch the counter row.
LEMMA RefsFrame ==
  ASSUME TypeInv, [Next]_vars
  PROVE  \/ \E r \in Reqs : CommitPayment(r) \/ TakeRef(r)
         \/ /\ UNCHANGED <<payments, nextRef>>
            /\ \A r \in Reqs : pc'[r] = "commit" => pc[r] = "commit" /\ number'[r] = number[r]
            /\ \A r \in Reqs : counter = r => counter' = r \/ pc'[r] # "commit"
<1> DEFINE Quiet == /\ UNCHANGED <<payments, nextRef>>
                    /\ \A r \in Reqs : pc'[r] = "commit" => pc[r] = "commit" /\ number'[r] = number[r]
                    /\ \A r \in Reqs : counter = r => counter' = r \/ pc'[r] # "commit"
<1>1. ASSUME NEW r \in Reqs, Answer(r), UNCHANGED <<payments, nextRef>> PROVE Quiet
  BY <1>1 DEF Answer, TypeInv, TypeOK
<1>2. ASSUME NEW r \in Reqs, Fail(r) PROVE Quiet
  <2>1. Answer(r) /\ UNCHANGED <<payments, nextRef>>
    BY <1>2 DEF Fail, bookVars
  <2> QED
    BY <1>1, <2>1
<1>3. ASSUME NEW r \in Reqs, NEW from \in Steps, NEW to \in Steps \ {"commit"},
             Goto(r, from, to), UNCHANGED <<payments, nextRef, counter, number>>
      PROVE  Quiet
  BY <1>3 DEF Goto, TypeInv, TypeOK
<1>4. ASSUME NEW r \in Reqs, Request(r) PROVE Quiet
  BY <1>4 DEF Request, BeginMove, BeginClone, BeginPay, BeginCredit, Begin,
              TypeInv, TypeOK, bookVars, payVars
<1>5. ASSUME NEW r \in Reqs, Continue(r), ~ CommitPayment(r) PROVE Quiet
  <2>1. CASE WriteMove(r) \/ CreateNote(r) \/ CreditApply(r)
    <3>1. Answer(r) /\ UNCHANGED <<payments, nextRef>>
      BY <2>1 DEF WriteMove, CreateNote, CreditApply, Fail, bookVars
    <3> QED
      BY <1>1, <3>1
  <2>2. CASE ReadGross(r)
    BY <2>2, <1>3 DEF ReadGross, Steps, bookVars, payVars
  <2>3. CASE CreditGross(r)
    BY <2>3, <1>3 DEF CreditGross, Steps, bookVars, payVars
  <2>4. CASE CreditPaid(r)
    BY <2>4, <1>3 DEF CreditPaid, Steps, bookVars, payVars
  <2>5. CASE CreditSum(r)
    <3>1. CASE Fail(r)
      BY <1>2, <3>1
    <3>2. CASE ~ Fail(r)
      BY <2>5, <3>2, <1>3 DEF CreditSum, Steps, bookVars, payVars
    <3> QED
      BY <3>1, <3>2
  <2>6. CASE ReadPaid(r)
    <3>1. CASE Fail(r)
      BY <1>2, <3>1
    <3>2. CASE ~ Fail(r)
      BY <2>6, <3>2, <1>3 DEF ReadPaid, Steps, bookVars
    <3> QED
      BY <3>1, <3>2
  <2> QED
    BY <1>5, <2>1, <2>2, <2>3, <2>4, <2>5, <2>6 DEF Continue
<1>6. ASSUME NEW r \in Reqs, Crash(r) PROVE Quiet
  BY <1>6, <1>2 DEF Crash
<1>7. ASSUME NEW d \in Docs, NEW amount \in Amounts, Edit(d, amount) PROVE Quiet
  BY <1>7 DEF Edit, bookVars, payVars
<1>8. CASE UNCHANGED vars
  BY <1>8 DEF vars
<1> QED
  BY <1>4, <1>5, <1>6, <1>7, <1>8 DEF Next

LEMMA InitRefs == Init => RefsInv
<1> SUFFICES ASSUME Init PROVE RefsInv
  OBVIOUS
<1>1. HoldsCounter /\ RefsGapless
  BY DEF Init, HoldsCounter, RefsGapless
<1> QED
  BY <1>1, InitType DEF RefsInv

LEMMA NextRefs == RefsInv /\ [Next]_vars => RefsInv'
<1> SUFFICES ASSUME RefsInv, [Next]_vars PROVE RefsInv'
  OBVIOUS
<1>1. TypeInv /\ TypeInv'
  BY NextType DEF RefsInv
<1>2. ASSUME NEW r \in Reqs, CommitPayment(r) PROVE (HoldsCounter /\ RefsGapless)'
  <2>1. pc[r] = "commit" /\ counter = r /\ number[r] = nextRef
    BY <1>2 DEF CommitPayment, RefsInv, HoldsCounter
  <2>2. \A s \in Reqs : pc'[s] # "commit"
    BY <1>1, <1>2, <2>1 DEF CommitPayment, Answer, RefsInv, HoldsCounter, TypeInv, TypeOK
  <2>3. payments \in Seq(Payment) /\ nextRef = Len(payments) + 1
    BY DEF RefsInv, TypeInv, TypeOK, RefsGapless
  <2> DEFINE p == [amount |-> job[r].amount, ref |-> number[r], applied |-> gets[r]]
  <2>4. payments' = Append(payments, p) /\ nextRef' = number[r] + 1 /\ p.ref = nextRef
    BY <1>2, <2>1 DEF CommitPayment
  <2> HIDE DEF p
  <2>5. Len(payments') = Len(payments) + 1 /\ Len(payments) \in Nat
    BY <2>3, <2>4
  <2>6. ASSUME NEW i \in 1 .. Len(payments') PROVE payments'[i].ref = i
    <3>1. CASE i = Len(payments) + 1
      BY <2>3, <2>4, <3>1
    <3>2. CASE i \in 1 .. Len(payments)
      BY <2>3, <2>4, <3>2 DEF RefsInv, RefsGapless
    <3> QED
      BY <2>5, <3>1, <3>2
  <2>7. nextRef' = Len(payments') + 1
    BY <2>1, <2>3, <2>4, <2>5
  <2> QED
    BY <2>2, <2>6, <2>7 DEF HoldsCounter, RefsGapless
<1>3. ASSUME NEW r \in Reqs, TakeRef(r) PROVE (HoldsCounter /\ RefsGapless)'
  <2>1. UNCHANGED <<payments, nextRef>> /\ counter = NoReq /\ counter' = r
    BY <1>3 DEF TakeRef, bookVars
  <2>2. RefsGapless'
    BY <2>1 DEF RefsInv, RefsGapless
  <2>3. HoldsCounter'
    <3>1. \A s \in Reqs : pc[s] # "commit"
      BY <2>1, BillingAssumption DEF RefsInv, HoldsCounter
    <3>2. /\ number'[r] = nextRef
          /\ \A s \in Reqs \ {r} : pc'[s] = pc[s]
      BY <1>1, <1>3 DEF TakeRef, Goto, TypeInv, TypeOK
    <3>3. \A s \in Reqs : pc'[s] = "commit" => s = r
      BY <3>1, <3>2
    <3>4. number'[r] = nextRef'
      BY <2>1, <3>2
    <3> QED
      BY <2>1, <3>3, <3>4 DEF HoldsCounter
  <2> QED
    BY <2>2, <2>3
<1>4. CASE ~ \E r \in Reqs : CommitPayment(r) \/ TakeRef(r)
  <2>1. /\ UNCHANGED <<payments, nextRef>>
        /\ \A r \in Reqs : pc'[r] = "commit" => pc[r] = "commit" /\ number'[r] = number[r]
        /\ \A r \in Reqs : counter = r => counter' = r \/ pc'[r] # "commit"
    BY <1>1, <1>4, RefsFrame
  <2> QED
    BY <1>1, <2>1 DEF RefsInv, HoldsCounter, RefsGapless
<1> QED
  BY <1>1, <1>2, <1>3, <1>4 DEF RefsInv

\* The counter row, locked from the moment a reference is taken until the
\* COMMIT, makes references consecutive: none is lost with a payment that fails
\* or dies and none is given twice (RecordPayment, store.go:278-285).
THEOREM RefsAreGapless == Spec => []RefsGapless
<1>1. RefsInv => RefsGapless
  BY DEF RefsInv
<1> QED
  BY <1>1, InitRefs, NextRefs, PTL DEF Spec

-----------------------------------------------------------------------------
(* Paid invoices. *)

CoveredInv == TypeInv /\ PaidIsCovered

LEMMA InitCovered == Init => CoveredInv
<1> SUFFICES ASSUME Init PROVE CoveredInv
  OBVIOUS
<1>1. PaidIsCovered
  BY DEF Init, PaidIsCovered, Docs
<1> QED
  BY <1>1, InitType DEF CoveredInv

\* Statuses, totals and payments only change in four actions.
LEMMA BooksFrame ==
  ASSUME [Next]_vars,
         \A r \in Reqs : ~ CommitPayment(r) /\ ~ CreateNote(r) /\ ~ WriteMove(r),
         \A d \in Docs, amount \in Amounts : ~ Edit(d, amount)
  PROVE  UNCHANGED <<status, total, version, paid>>
<1>1. ASSUME NEW r \in Reqs, Request(r) PROVE UNCHANGED <<status, total, version, paid>>
  BY <1>1 DEF Request, BeginMove, BeginClone, BeginPay, BeginCredit, docVars, bookVars
<1>2. ASSUME NEW r \in Reqs, Fail(r) PROVE UNCHANGED <<status, total, version, paid>>
  BY <1>2 DEF Fail, docVars, bookVars
<1>3. ASSUME NEW r \in Reqs, TakeRef(r) PROVE UNCHANGED <<status, total, version, paid>>
  BY <1>3 DEF TakeRef, docVars, bookVars
<1>4. ASSUME NEW r \in Reqs, Continue(r) PROVE UNCHANGED <<status, total, version, paid>>
  BY <1>2, <1>4 DEF Continue, ReadGross, ReadPaid, CreditGross, CreditPaid, CreditSum,
                    CreditApply, docVars, bookVars
<1>5. CASE UNCHANGED vars
  BY <1>5 DEF vars
<1> QED
  BY <1>1, <1>2, <1>3, <1>4, <1>5 DEF Next, Crash

LEMMA NextCovered ==
  ASSUME CoveredInv, [Next]_vars, \A m \in Moves : m.to # "paid"
  PROVE  CoveredInv'
<1>1. TypeInv /\ TypeInv'
  BY NextType DEF CoveredInv
<1>2. ASSUME NEW r \in Reqs, CommitPayment(r) PROVE PaidIsCovered'
  <2> SUFFICES ASSUME NEW i \in Invoices, status'[i] = "paid"
               PROVE  paid'[i] >= total'[i]
    BY DEF PaidIsCovered
  <2>1. /\ i \in Docs /\ paid[i] \in Nat /\ gets[r][i] \in Nat
        /\ total[i] \in Nat
    BY <1>1 DEF TypeInv, TypeOK, Docs
  <2>2. /\ paid'[i] = paid[i] + gets[r][i]
        /\ total'[i] = total[i]
        /\ status'[i] = IF gets[r][i] > 0 THEN StatusAfter(r, i) ELSE status[i]
    BY <1>2, <2>1 DEF CommitPayment
  <2>3. CASE gets[r][i] > 0
    BY <2>1, <2>2, <2>3 DEF StatusAfter
  <2>4. CASE ~ gets[r][i] > 0
    <3>1. gets[r][i] = 0
      BY <2>1, <2>4
    <3>2. paid[i] >= total[i]
      BY <2>2, <2>4 DEF CoveredInv, PaidIsCovered
    <3> QED
      BY <2>1, <2>2, <3>1, <3>2
  <2> QED
    BY <2>3, <2>4
<1>3. ASSUME NEW r \in Reqs, CreateNote(r) PROVE PaidIsCovered'
  <2>1. job[r] \in Notes /\ job[r] \notin Invoices
    BY <1>1, <1>3, BillingAssumption DEF CreateNote, TypeInv, JobOK
  <2>2. \A i \in Invoices : status'[i] = status[i] /\ total'[i] = total[i] /\ paid'[i] = paid[i]
    BY <1>1, <1>3, <2>1 DEF CreateNote, TypeInv, TypeOK, Docs, bookVars
  <2> QED
    BY <2>2 DEF CoveredInv, PaidIsCovered
<1>4. ASSUME NEW r \in Reqs, WriteMove(r) PROVE PaidIsCovered'
  <2>1. job[r].to # "paid"
    BY <1>1, <1>4 DEF WriteMove, TypeInv, JobOK
  <2>2. UNCHANGED <<total, paid>>
    BY <1>4 DEF WriteMove, Fail, docVars, bookVars
  <2>3. status' = status \/ status' = [status EXCEPT ![job[r].doc] = job[r].to]
    BY <1>4 DEF WriteMove, Fail, docVars
  <2>4. \A i \in Invoices : status'[i] = "paid" => status[i] = "paid"
    BY <1>1, <2>1, <2>3 DEF TypeInv, TypeOK, Docs
  <2> QED
    BY <2>2, <2>4 DEF CoveredInv, PaidIsCovered
<1>5. ASSUME NEW d \in Docs, NEW amount \in Amounts, Edit(d, amount) PROVE PaidIsCovered'
  <2>1. status[d] = "draft" /\ UNCHANGED <<status, paid>>
    BY <1>5 DEF Edit, bookVars
  <2>2. \A i \in Invoices : status[i] = "paid" => total'[i] = total[i]
    BY <1>1, <1>5, <2>1 DEF Edit, TypeInv, TypeOK, Docs
  <2> QED
    BY <2>1, <2>2 DEF CoveredInv, PaidIsCovered
<1>6. ASSUME UNCHANGED <<status, total, version, paid>> PROVE PaidIsCovered'
  BY <1>6 DEF CoveredInv, PaidIsCovered
<1> QED
  <2>1. PaidIsCovered'
    <3>1. CASE /\ \A r \in Reqs : ~ CommitPayment(r) /\ ~ CreateNote(r) /\ ~ WriteMove(r)
               /\ \A d \in Docs, amount \in Amounts : ~ Edit(d, amount)
      BY <1>6, <3>1, BooksFrame
    <3> QED
      BY <1>2, <1>3, <1>4, <1>5, <3>1
  <2> QED
    BY <1>1, <2>1 DEF CoveredInv

\* A payment marks an invoice as paid only when the allocations, read again in
\* the paying transaction, cover the total, and a paid invoice is never edited
\* (RecordPayment, store.go:303-313, UpdateDocLines, store.go:221).  Clients can
\* also set the status themselves: the theorem is about those that do not.
THEOREM PaidInvoicesAreCovered ==
  ASSUME \A m \in Moves : m.to # "paid"
  PROVE  Spec => []PaidIsCovered
<1>1. CoveredInv /\ [Next]_vars => CoveredInv'
  BY NextCovered
<1>2. CoveredInv => PaidIsCovered
  BY DEF CoveredInv
<1> QED
  BY <1>1, <1>2, InitCovered, PTL DEF Spec

-----------------------------------------------------------------------------
(* Documents and credit notes. *)

\* While the row version is the one a status change has read, so is the total,
\* and a note is still the draft it was.
SeenOK ==
  \A r \in Reqs : pc[r] = "move" =>
    /\ status[job[r].doc] # "absent"
    /\ seen[r].version <= version[job[r].doc]
    /\ seen[r].version = version[job[r].doc] =>
         /\ seen[r].total = total[job[r].doc]
         /\ job[r].doc \in Notes => status[job[r].doc] = "draft"

\* A note is created by one request, and a validated one stays validated.
NotesOK ==
  /\ \A r \in Reqs : pc[r] = "clone" => status[job[r]] = "absent"
  /\ \A r, s \in Reqs : pc[r] = "clone" /\ pc[s] = "clone" /\ job[r] = job[s] => r = s
  /\ \A r \in Reqs : pc[r] \in CreditSteps => status[job[r].note] = "validated"

DocInv == TypeInv /\ SeenOK /\ NotesOK /\ CreditsFromValidatedNotes

LEMMA InitDoc == Init => DocInv
<1> SUFFICES ASSUME Init PROVE DocInv
  OBVIOUS
<1>1. SeenOK /\ NotesOK
  BY DEF Init, SeenOK, NotesOK, CreditSteps
<1>2. CreditsFromValidatedNotes
  BY DEF Init, CreditsFromValidatedNotes
<1> QED
  BY <1>1, <1>2, InitType DEF DocInv

\* A step that changes neither documents nor credits, and brings no request to
\* a statement that relies on a document.
Local ==
  /\ UNCHANGED <<status, total, version, credited>>
  /\ \A s \in Reqs :
       /\ pc'[s] \in {"move", "clone"} =>
            pc[s] = pc'[s] /\ job'[s] = job[s] /\ seen'[s] = seen[s]
       /\ pc'[s] \in CreditSteps => pc[s] \in CreditSteps /\ job'[s] = job[s]

LEMMA LocalDoc ==
  ASSUME DocInv, TypeInv', Local
  PROVE  DocInv'
<1>1. SeenOK'
  BY DEF DocInv, SeenOK, Local
<1>2. NotesOK'
  BY DEF DocInv, NotesOK, Local
<1>3. CreditsFromValidatedNotes'
  BY DEF DocInv, CreditsFromValidatedNotes, Local
<1> QED
  BY <1>1, <1>2, <1>3 DEF DocInv

LEMMA AnswerLocal ==
  ASSUME TypeInv, NEW r \in Reqs, Answer(r), UNCHANGED <<status, total, version, credited>>
  PROVE  Local
BY DEF Local, Answer, TypeInv, TypeOK, CreditSteps

LEMMA FailLocal ==
  ASSUME TypeInv, NEW r \in Reqs, Fail(r)
  PROVE  Local
<1>1. Answer(r) /\ UNCHANGED <<status, total, version, credited>>
  BY DEF Fail, docVars, bookVars
<1> QED
  BY <1>1, AnswerLocal

LEMMA GotoLocal ==
  ASSUME TypeInv, NEW r \in Reqs, NEW from \in Steps, NEW to \in PaySteps \cup CreditSteps,
         to \in CreditSteps => from \in CreditSteps,
         Goto(r, from, to), UNCHANGED <<status, total, version, credited, seen>>
  PROVE  Local
BY DEF Local, Goto, TypeInv, TypeOK, PaySteps, CreditSteps

LEMMA ContinueLocal ==
  ASSUME TypeInv, NEW r \in Reqs, Continue(r), ~ Local
  PROVE  WriteMove(r) \/ CreateNote(r) \/ CommitPayment(r) \/ CreditApply(r)
<1>1. CASE ReadGross(r)
  BY <1>1, GotoLocal DEF ReadGross, Steps, PaySteps, CreditSteps, docVars, bookVars
<1>2. CASE ReadPaid(r)
  <2>1. CASE Fail(r)
    BY <2>1, FailLocal
  <2>2. CASE ~ Fail(r)
    BY <1>2, <2>2, GotoLocal DEF ReadPaid, Steps, PaySteps, CreditSteps, docVars, bookVars
  <2> QED
    BY <2>1, <2>2
<1>3. CASE CreditGross(r)
  BY <1>3, GotoLocal DEF CreditGross, Steps, CreditSteps, docVars, bookVars
<1>4. CASE CreditPaid(r)
  BY <1>4, GotoLocal DEF CreditPaid, Steps, CreditSteps, docVars, bookVars
<1>5. CASE CreditSum(r)
  <2>1. CASE Fail(r)
    BY <2>1, FailLocal
  <2>2. CASE ~ Fail(r)
    BY <1>5, <2>2, GotoLocal DEF CreditSum, Steps, CreditSteps, docVars, bookVars
  <2> QED
    BY <2>1, <2>2
<1> QED
  BY <1>1, <1>2, <1>3, <1>4, <1>5 DEF Continue

LEMMA RequestDoc ==
  ASSUME DocInv, TypeInv', NEW r \in Reqs, Request(r)
  PROVE  DocInv'
<1>0. TypeInv
  BY DEF DocInv
<1>1. ASSUME NEW m \in Moves, BeginMove(r, m) PROVE DocInv'
  <2>1. m.doc \in Docs
    BY BillingAssumption
  <2>2. /\ pc' = [pc EXCEPT ![r] = "move"] /\ job' = [job EXCEPT ![r] = m]
        /\ seen' = [seen EXCEPT ![r] = [version |-> version[m.doc], total |-> total[m.doc]]]
        /\ UNCHANGED <<status, total, version, credited>>
        /\ pc[r] = "idle" /\ CanTransition(m.doc, m.to)
    BY <1>1 DEF BeginMove, Begin, Reads, docVars, bookVars
  <2>3. /\ pc'[r] = "move" /\ job'[r] = m
        /\ seen'[r] = [version |-> version[m.doc], total |-> total[m.doc]]
        /\ \A s \in Reqs \ {r} : pc'[s] = pc[s] /\ job'[s] = job[s] /\ seen'[s] = seen[s]
    BY <1>0, <2>2 DEF TypeInv, TypeOK
  <2>4. /\ status[m.doc] # "absent"
        /\ m.doc \in Notes => status[m.doc] = "draft"
    BY <2>2, BillingAssumption DEF CanTransition
  <2>5. version[m.doc] \in Nat
    BY <1>0, <2>1 DEF TypeInv, TypeOK
  <2>6. SeenOK'
    BY <2>2, <2>3, <2>4, <2>5 DEF DocInv, SeenOK
  <2>7. NotesOK'
    BY <2>2, <2>3 DEF DocInv, NotesOK, CreditSteps
  <2> QED
    BY <2>2, <2>6, <2>7 DEF DocInv, CreditsFromValidatedNotes
<1>2. ASSUME NEW n \in Notes, BeginClone(r, n) PROVE DocInv'
  <2>1. /\ pc' = [pc EXCEPT ![r] = "clone"] /\ job' = [job EXCEPT ![r] = n]
        /\ UNCHANGED <<status, total, version, credited>>
        /\ status[n] = "absent" /\ \A s \in Reqs : job[s] # n
    BY <1>2 DEF BeginClone, Begin, docVars, bookVars
  <2>2. /\ pc'[r] = "clone" /\ job'[r] = n
        /\ \A s \in Reqs \ {r} : pc'[s] = pc[s] /\ job'[s] = job[s] /\ seen'[s] = seen[s]
    BY <1>0, <1>2, <2>1 DEF BeginClone, Reads, TypeInv, TypeOK
  <2>3. SeenOK'
    BY <2>1, <2>2 DEF DocInv, SeenOK
  <2>4. NotesOK'
    BY <2>1, <2>2 DEF DocInv, NotesOK, CreditSteps
  <2> QED
    BY <2>1, <2>3, <2>4 DEF DocInv, CreditsFromValidatedNotes
<1>3. ASSUME NEW c \in Charges, BeginPay(r, c) PROVE DocInv'
  <2>1. Local
    BY <1>0, <1>3 DEF BeginPay, Begin, Local, CreditSteps, TypeInv, TypeOK, docVars, bookVars
  <2> QED
    BY <2>1, LocalDoc
<1>4. ASSUME NEW c \in Credits, BeginCredit(r, c) PROVE DocInv'
  <2>1. /\ pc' = [pc EXCEPT ![r] = "credit_gross"] /\ job' = [job EXCEPT ![r] = c]
        /\ UNCHANGED <<status, total, version, credited>>
        /\ status[c.note] = "validated"
    BY <1>4 DEF BeginCredit, Begin, docVars, bookVars
  <2>2. /\ pc'[r] = "credit_gross" /\ job'[r] = c
        /\ \A s \in Reqs \ {r} : pc'[s] = pc[s] /\ job'[s] = job[s] /\ seen'[s] = seen[s]
    BY <1>0, <1>4, <2>1 DEF BeginCredit, Reads, TypeInv, TypeOK
  <2>3. SeenOK'
    BY <2>1, <2>2 DEF DocInv, SeenOK
  <2>4. NotesOK'
    BY <2>1, <2>2 DEF DocInv, NotesOK, CreditSteps
  <2> QED
    BY <2>1, <2>3, <2>4 DEF DocInv, CreditsFromValidatedNotes
<1> QED
  BY <1>1, <1>2, <1>3, <1>4 DEF Request

\* A status change writes only over the version it read: a note it moves is a
\* draft, which no credit relies on.
LEMMA WriteMoveDoc ==
  ASSUME DocInv, TypeInv', NEW r \in Reqs, WriteMove(r), ~ Fail(r)
  PROVE  DocInv'
<1> DEFINE d == job[r].doc
<1>0. TypeInv
  BY DEF DocInv
<1>1. /\ pc[r] = "move" /\ version[d] = seen[r].version
      /\ status' = [status EXCEPT ![d] = job[r].to]
      /\ version' = [version EXCEPT ![d] = version[d] + 1]
      /\ UNCHANGED <<total, credited>>
      /\ Answer(r)
  BY DEF WriteMove, SameVersion, bookVars
<1>2. d \in Docs /\ job[r].to \in Statuses
  BY <1>0, <1>1, BillingAssumption DEF TypeInv, JobOK
<1>3. /\ status[d] # "absent"
      /\ d \in Notes => status[d] = "draft"
  BY <1>1 DEF DocInv, SeenOK
<1>4. /\ pc'[r] = "idle"
      /\ \A s \in Reqs \ {r} : pc'[s] = pc[s] /\ job'[s] = job[s] /\ seen'[s] = seen[s]
  BY <1>0, <1>1 DEF Answer, TypeInv, TypeOK
<1>5. /\ status'[d] = job[r].to /\ status'[d] # "absent"
      /\ version'[d] = version[d] + 1 /\ version[d] \in Nat
      /\ \A e \in Docs \ {d} : status'[e] = status[e] /\ version'[e] = version[e]
  BY <1>0, <1>1, <1>2 DEF TypeInv, TypeOK, Statuses
<1> HIDE DEF d
<1>6. SeenOK'
  <2> SUFFICES ASSUME NEW s \in Reqs, pc'[s] = "move"
               PROVE  /\ status'[job'[s].doc] # "absent"
                      /\ seen'[s].version <= version'[job'[s].doc]
                      /\ seen'[s].version = version'[job'[s].doc] =>
                           /\ seen'[s].total = total'[job'[s].doc]
                           /\ job'[s].doc \in Notes => status'[job'[s].doc] = "draft"
    BY DEF SeenOK
  <2>1. pc[s] = "move" /\ job'[s] = job[s] /\ seen'[s] = seen[s] /\ job[s].doc \in Docs
    BY <1>0, <1>4, BillingAssumption DEF TypeInv, JobOK
  <2>2. seen[s].version \in Nat /\ seen[s].version <= version[job[s].doc]
    BY <1>0, <2>1 DEF DocInv, SeenOK, TypeInv, TypeOK
  <2>3. CASE job[s].doc = d
    <3>1. seen[s].version < version'[job[s].doc]
      BY <1>5, <2>2, <2>3
    <3> QED
      BY <1>5, <2>1, <2>2, <2>3, <3>1
  <2>4. CASE job[s].doc # d
    BY <1>1, <1>5, <2>1, <2>4 DEF DocInv, SeenOK
  <2> QED
    BY <2>3, <2>4
<1>7. \A n \in Notes : /\ status[n] = "absent" => status'[n] = "absent"
                       /\ status[n] = "validated" => status'[n] = "validated"
  BY <1>3, <1>5 DEF Docs
<1>8. NotesOK'
  <2>1. \A s \in Reqs : pc'[s] \in CreditSteps => job[s].note \in Notes
    BY <1>0, <1>4, BillingAssumption DEF TypeInv, JobOK, CreditSteps
  <2>2. \A s \in Reqs : pc'[s] = "clone" => job[s] \in Notes
    BY <1>0, <1>4 DEF TypeInv, JobOK
  <2> QED
    BY <1>4, <1>7, <2>1, <2>2 DEF DocInv, NotesOK, CreditSteps
<1>9. CreditsFromValidatedNotes'
  BY <1>1, <1>7 DEF DocInv, CreditsFromValidatedNotes
<1> QED
  BY <1>6, <1>8, <1>9 DEF DocInv

LEMMA CreateNoteDoc ==
  ASSUME DocInv, TypeInv', NEW r \in Reqs, CreateNote(r)
  PROVE  DocInv'
<1> DEFINE n == job[r]
<1>0. TypeInv
  BY DEF DocInv
<1>1. /\ pc[r] = "clone" /\ n \in Notes /\ n \in Docs /\ status[n] = "absent"
      /\ Answer(r) /\ UNCHANGED credited
  BY <1>0 DEF CreateNote, DocInv, NotesOK, TypeInv, JobOK, Docs, bookVars
<1>2. /\ pc'[r] = "idle"
      /\ \A s \in Reqs \ {r} : pc'[s] = pc[s] /\ job'[s] = job[s] /\ seen'[s] = seen[s]
  BY <1>0, <1>1 DEF Answer, TypeInv, TypeOK
<1>3. /\ status'[n] = "draft"
      /\ \A e \in Docs \ {n} : status'[e] = status[e] /\ version'[e] = version[e]
                                /\ total'[e] = total[e]
  BY <1>0, <1>1 DEF CreateNote, TypeInv, TypeOK
<1> HIDE DEF n
<1>4. ASSUME NEW s \in Reqs, pc'[s] = "move"
      PROVE  pc[s] = "move" /\ job'[s] = job[s] /\ seen'[s] = seen[s] /\ job[s].doc \in Docs \ {n}
  <2>1. pc[s] = "move" /\ job'[s] = job[s] /\ seen'[s] = seen[s]
    BY <1>2, <1>4
  <2>2. job[s].doc \in Docs /\ status[job[s].doc] # "absent"
    BY <1>0, <2>1, BillingAssumption DEF DocInv, SeenOK, TypeInv, JobOK
  <2> QED
    BY <1>1, <2>1, <2>2
<1>5. SeenOK'
  BY <1>3, <1>4 DEF DocInv, SeenOK
<1>6. NotesOK'
  <2>1. ASSUME NEW s \in Reqs, pc'[s] = "clone"
        PROVE  pc[s] = "clone" /\ job'[s] = job[s] /\ job[s] \in Notes /\ job[s] # n
    BY <1>0, <1>1, <1>2, <2>1 DEF DocInv, NotesOK, TypeInv, JobOK, n
  <2>2. ASSUME NEW s \in Reqs, pc'[s] \in CreditSteps
        PROVE  /\ pc[s] \in CreditSteps /\ job'[s] = job[s]
               /\ job[s].note \in Notes /\ job[s].note # n
    <3>1. pc[s] \in CreditSteps /\ job'[s] = job[s]
      BY <1>2, <2>2 DEF CreditSteps
    <3>2. job[s].note \in Notes /\ status[job[s].note] = "validated"
      BY <1>0, <3>1, BillingAssumption DEF DocInv, NotesOK, TypeInv, JobOK
    <3> QED
      BY <1>1, <3>1, <3>2
  <2>3. \A s \in Reqs : pc'[s] = "clone" => status'[job'[s]] = "absent"
    BY <1>3, <2>1 DEF DocInv, NotesOK, Docs
  <2>4. \A s \in Reqs : pc'[s] \in CreditSteps => status'[job'[s].note] = "validated"
    BY <1>3, <2>2 DEF DocInv, NotesOK, Docs
  <2>5. \A s, t \in Reqs : pc'[s] = "clone" /\ pc'[t] = "clone" /\ job'[s] = job'[t] => s = t
    BY <2>1 DEF DocInv, NotesOK
  <2> QED
    BY <2>3, <2>4, <2>5 DEF NotesOK
<1>7. CreditsFromValidatedNotes'
  BY <1>1, <1>3 DEF DocInv, CreditsFromValidatedNotes, Docs
<1> QED
  BY <1>5, <1>6, <1>7 DEF DocInv

\* Payments set the status of invoices, never of notes.
LEMMA CommitPaymentDoc ==
  ASSUME DocInv, TypeInv', NEW r \in Reqs, CommitPayment(r)
  PROVE  DocInv'
<1>0. TypeInv
  BY DEF DocInv
<1>1. Answer(r) /\ UNCHANGED <<total, version, credited>>
  BY DEF CommitPayment
<1>2. /\ pc'[r] = "idle"
      /\ \A s \in Reqs \ {r} : pc'[s] = pc[s] /\ job'[s] = job[s] /\ seen'[s] = seen[s]
  BY <1>0, <1>1 DEF Answer, TypeInv, TypeOK
<1>3. \A d \in Docs : /\ status[d] # "absent" => status'[d] # "absent"
                      /\ d \in Notes => status'[d] = status[d]
  BY BillingAssumption DEF CommitPayment, StatusAfter
<1>4. SeenOK'
  <2>1. \A s \in Reqs : pc'[s] = "move" =>
          pc[s] = "move" /\ job'[s] = job[s] /\ seen'[s] = seen[s] /\ job[s].doc \in Docs
    BY <1>0, <1>2, BillingAssumption DEF TypeInv, JobOK
  <2> QED
    BY <1>1, <1>3, <2>1 DEF DocInv, SeenOK
<1>5. NotesOK'
  <2>1. \A s \in Reqs : pc'[s] \in CreditSteps => job[s].note \in Notes
    BY <1>0, <1>2, BillingAssumption DEF TypeInv, JobOK, CreditSteps
  <2>2. \A s \in Reqs : pc'[s] = "clone" => job[s] \in Notes
    BY <1>0, <1>2 DEF TypeInv, JobOK
  <2> QED
    BY <1>2, <1>3, <2>1, <2>2 DEF DocInv, NotesOK, CreditSteps, Docs
<1>6. CreditsFromValidatedNotes'
  BY <1>1, <1>3 DEF DocInv, CreditsFromValidatedNotes, Docs
<1> QED
  BY <1>4, <1>5, <1>6 DEF DocInv

LEMMA CreditApplyDoc ==
  ASSUME DocInv, TypeInv', NEW r \in Reqs, CreditApply(r)
  PROVE  DocInv'
<1>0. TypeInv
  BY DEF DocInv
<1>1. /\ pc[r] = "credit_apply" /\ UNCHANGED <<status, total, version>> /\ Answer(r)
  BY DEF CreditApply, docVars
<1>2. /\ pc'[r] = "idle"
      /\ \A s \in Reqs \ {r} : pc'[s] = pc[s] /\ job'[s] = job[s] /\ seen'[s] = seen[s]
  BY <1>0, <1>1 DEF Answer, TypeInv, TypeOK
<1>3. SeenOK'
  BY <1>1, <1>2 DEF DocInv, SeenOK
<1>4. NotesOK'
  BY <1>1, <1>2 DEF DocInv, NotesOK, CreditSteps
<1>5. CreditsFromValidatedNotes'
  <2>1. job[r].inv \in Invoices /\ job[r].note \in Notes /\ status[job[r].note] = "validated"
    BY <1>0, <1>1, BillingAssumption DEF DocInv, NotesOK, TypeInv, JobOK, CreditSteps
  <2>2. \A i \in Invoices, n \in Notes :
          (i = job[r].inv /\ n = job[r].note) \/ credited'[i][n] = credited[i][n]
    BY <1>0, <2>1 DEF CreditApply, TypeInv, TypeOK
  <2> QED
    BY <1>1, <2>1, <2>2 DEF DocInv, CreditsFromValidatedNotes
<1> QED
  BY <1>3, <1>4, <1>5 DEF DocInv

\* Edits change the total, and with it the row version.
LEMMA EditDoc ==
  ASSUME DocInv, TypeInv', NEW d \in Docs, NEW amount \in Amounts, Edit(d, amount)
  PROVE  DocInv'
<1>0. TypeInv
  BY DEF DocInv
<1>1. UNCHANGED <<status, credited, pc, job, seen>>
  BY DEF Edit, bookVars
<1>2. /\ version'[d] = version[d] + 1 /\ version[d] \in Nat
      /\ \A e \in Docs \ {d} : version'[e] = version[e] /\ total'[e] = total[e]
  BY <1>0 DEF Edit, TypeInv, TypeOK
<1>3. SeenOK'
  <2> SUFFICES ASSUME NEW s \in Reqs, pc[s] = "move"
               PROVE  /\ status[job[s].doc] # "absent"
                      /\ seen[s].version <= version'[job[s].doc]
                      /\ seen[s].version = version'[job[s].doc] =>
                           /\ seen[s].total = total'[job[s].doc]
                           /\ job[s].doc \in Notes => status[job[s].doc] = "draft"
    BY <1>1 DEF SeenOK
  <2>1. job[s].doc \in Docs /\ seen[s].version \in Nat
    BY <1>0, BillingAssumption DEF TypeInv, TypeOK, JobOK
  <2>2. status[job[s].doc] # "absent" /\ seen[s].version <= version[job[s].doc]
    BY DEF DocInv, SeenOK
  <2>3. CASE job[s].doc = d
    <3>1. seen[s].version < version'[job[s].doc]
      BY <1>2, <2>1, <2>2, <2>3
    <3> QED
      BY <1>2, <2>1, <2>2, <2>3, <3>1
  <2>4. CASE job[s].doc # d
    BY <1>2, <2>1, <2>4 DEF DocInv, SeenOK
  <2> QED
    BY <2>3, <2>4
<1>4. NotesOK' /\ CreditsFromValidatedNotes'
  BY <1>1 DEF DocInv, NotesOK, CreditsFromValidatedNotes
<1> QED
  BY <1>3, <1>4 DEF DocInv

LEMMA NextDoc == DocInv /\ [Next]_vars => DocInv'
<1> SUFFICES ASSUME DocInv, [Next]_vars PROVE DocInv'
  OBVIOUS
<1>1. TypeInv /\ TypeInv'
  BY NextType DEF DocInv
<1>2. ASSUME NEW r \in Reqs, Request(r) PROVE DocInv'
  BY <1>1, <1>2, RequestDoc
<1>3. CASE Local
  BY <1>1, <1>3, LocalDoc
<1>4. ASSUME NEW r \in Reqs, TakeRef(r) PROVE DocInv'
  BY <1>1, <1>3, <1>4, GotoLocal DEF TakeRef, Steps, PaySteps, CreditSteps, docVars, bookVars
<1>5. ASSUME NEW r \in Reqs, Continue(r), ~ Local PROVE DocInv'
  <2>1. ~ Fail(r)
    BY <1>1, <1>5, FailLocal
  <2> QED
    BY <1>1, <1>5, <2>1, ContinueLocal, WriteMoveDoc, CreateNoteDoc, CommitPaymentDoc,
       CreditApplyDoc
<1>6. ASSUME NEW r \in Reqs, Crash(r) PROVE DocInv'
  BY <1>1, <1>3, <1>6, FailLocal DEF Crash
<1>7. ASSUME NEW d \in Docs, NEW amount \in Amounts, Edit(d, amount) PROVE DocInv'
  BY <1>1, <1>7, EditDoc
<1>8. CASE UNCHANGED vars
  <2>1. Local
    BY <1>8 DEF vars, Local
  <2> QED
    BY <1>3, <2>1
<1> QED
  BY <1>2, <1>3, <1>4, <1>5, <1>6, <1>7, <1>8 DEF Next

\* A credit is given four statements after the note was checked, without a
\* transaction; it is still right, because a validated note has no way back
\* (ApplyCredit, store.go:335-367, Transitions, kernel.go:93-95).
THEOREM CreditsAreValidated == Spec => []CreditsFromValidatedNotes
<1>1. DocInv => CreditsFromValidatedNotes
  BY DEF DocInv
<1> QED
  BY <1>1, InitDoc, NextDoc, PTL DEF Spec

\* Only a status change validates a draft, and it writes over what it read.
LEMMA ValidationStep ==
  ASSUME DocInv, [Next]_vars, NEW d \in Docs, status[d] = "draft", status'[d] = "validated"
  PROVE  \E r \in Reqs :
           /\ pc[r] = "move" /\ pc'[r] = "idle"
           /\ job[r].doc = d
           /\ seen[r].total = total'[d]
<1>1. TypeInv
  BY DEF DocInv
<1>2. ~ Local
  BY DEF Local
<1>3. ASSUME NEW r \in Reqs, Fail(r) PROVE FALSE
  BY <1>1, <1>2, <1>3, FailLocal
<1>4. ASSUME NEW r \in Reqs, Request(r) PROVE FALSE
  BY <1>4 DEF Request, BeginMove, BeginClone, BeginPay, BeginCredit, docVars
<1>5. ASSUME NEW r \in Reqs, TakeRef(r) PROVE FALSE
  BY <1>5 DEF TakeRef, docVars
<1>6. ASSUME NEW r \in Reqs, Continue(r) PROVE WriteMove(r)
  <2>1. ~ CreateNote(r)
    BY <1>1 DEF CreateNote, TypeInv, TypeOK, JobOK
  <2>2. ~ CommitPayment(r)
    BY DEF CommitPayment, StatusAfter
  <2>3. ~ CreditApply(r)
    BY DEF CreditApply, docVars
  <2> QED
    BY <1>1, <1>2, <1>6, <2>1, <2>2, <2>3, ContinueLocal
<1>7. ASSUME NEW e \in Docs, NEW amount \in Amounts, Edit(e, amount) PROVE FALSE
  BY <1>7 DEF Edit
<1>8. PICK r \in Reqs : WriteMove(r) /\ ~ Fail(r)
  BY <1>3, <1>4, <1>5, <1>6, <1>7 DEF Next, Crash, vars
<1>9. /\ pc[r] = "move" /\ version[job[r].doc] = seen[r].version
      /\ status' = [status EXCEPT ![job[r].doc] = job[r].to]
      /\ UNCHANGED total /\ Answer(r)
  BY <1>8 DEF WriteMove, SameVersion
<1>10. job[r].doc = d
  BY <1>1, <1>9 DEF TypeInv, TypeOK
<1>11. seen[r].total = total'[d]
  BY <1>9, <1>10 DEF DocInv, SeenOK
<1>12. pc'[r] = "idle"
  BY <1>1, <1>9 DEF Answer, TypeInv, TypeOK
<1> QED
  BY <1>9, <1>10, <1>11, <1>12

\* A document is validated with the total the validating request has read,
\* although edits of the draft race with it: SetStatus writes on condition of
\* the row version (store.go:188), which every edit increments (store.go:236).
THEOREM ValidatesWhatWasRead == Spec => ValidatedAsRead
<1>1. DocInv /\ [Next]_vars =>
        [\A d \in Docs : status[d] = "draft" /\ status'[d] = "validated" =>
           \E r \in Reqs :
             /\ pc[r] = "move" /\ pc'[r] = "idle"
             /\ job[r].doc = d
             /\ seen[r].total = total'[d]]_vars
  BY ValidationStep
<1> QED
  BY <1>1, InitDoc, NextDoc, PTL DEF Spec, ValidatedAsRead

-----------------------------------------------------------------------------
(* The money of the payments. *)

\* No invoice waits twice for a part, and none that waits has got one.
Untouched(queue, parts) ==
  /\ \A j, k \in 1 .. Len(queue) : queue[j] = queue[k] => j = k
  /\ \A j \in 1 .. Len(queue) : parts[queue[j]] = 0

\* What a payment has spread and what is left of it is its amount; nothing is
\* left when the payment takes its reference.
SpreadOK(r) ==
  /\ pc[r] \notin PaySteps => gets[r] = Nothing
  /\ pc[r] \in PaySteps => SumOf(gets[r], Invoices) + left[r] = job[r].amount
  /\ pc[r] \in {"ref", "commit"} => left[r] = 0
  /\ pc[r] \in {"gross", "paid"} => Untouched(todo[r], gets[r])

Received(book) == SumOf([k \in 1 .. Len(book) |-> book[k].amount], 1 .. Len(book))

MoneyInv ==
  /\ TypeInv
  /\ \A r \in Reqs : SpreadOK(r)
  /\ SumOf(paid, Invoices) = Received(payments)

LEMMA NothingSum == SumOf(Nothing, Invoices) = 0
<1>1. IsFiniteSet(Invoices) /\ \A i \in Invoices : Nothing[i] = 0
  BY BillingAssumption DEF Nothing
<1> QED
  BY <1>1, SumZero

\* The amounts of a book, as the property adds them up.
LEMMA ReceivedIsSum ==
  ASSUME NEW book, Len(book) \in Nat, \A k \in 1 .. Len(book) : book[k].amount \in Int
  PROVE  MapThenSumSet(LAMBDA k : book[k].amount, 1 .. Len(book)) = Received(book)
<1> DEFINE S == 1 .. Len(book)
           f == [k \in S |-> book[k].amount]
           IsBook(g) == g = [s \in SUBSET S |->
                       IF s = {} THEN 0 ELSE book[Pick(s)].amount + g[s \ {Pick(s)}]]
           h == CHOOSE g : IsBook(g)
<1>1. IsFiniteSet(S) /\ \A k \in S : f[k] \in Int
  <2>1. IsFiniteSet(S)
    <3>1. Len(book) \in Nat
      OBVIOUS
    <3> QED
      BY <3>1, FirstAreFinite
  <2> QED
    BY <2>1
<1>2. \A s \in SUBSET S : s # {} => Pick(s) \in S
  BY PickIn
<1>3. MapThenSumSet(LAMBDA k : book[k].amount, S) = h[S]
  BY DEF MapThenSumSet, MapThenFoldSet, Pick
<1>4. \E g : IsBook(g)
  <2>1. PICK g \in [SUBSET S -> Int] : \A s \in SUBSET S : g[s] = Unfold(f, g, s)
    <3> HIDE DEF f, S
    <3> QED
      BY <1>1, TableExists, Zenon
  <2>2. IsBook(g)
    BY <1>2, <2>1 DEF Unfold
  <2> QED
    BY <2>2
<1>5. IsBook(h)
  <2> HIDE DEF IsBook
  <2> QED
    BY <1>4
<1>6. IsTable(h, f, S)
  <2> HIDE DEF h
  <2> QED
    BY <1>2, <1>5 DEF IsTable, Unfold
<1> HIDE DEF f, S, h
<1>7. h[S] = SumOf(f, S)
  BY <1>1, <1>6, TableIsSum
<1> QED
  BY <1>3, <1>7 DEF f, S, Received

\* One more payment.
LEMMA ReceivedAppend ==
  ASSUME NEW book \in Seq(Payment), NEW p \in Payment
  PROVE  Received(Append(book, p)) = Received(book) + p.amount
<1> DEFINE more == Append(book, p)
           n == Len(book)
           f == [k \in 1 .. n |-> book[k].amount]
           g == [k \in 1 .. Len(more) |-> more[k].amount]
<1>1. /\ n \in Nat /\ Len(more) = n + 1 /\ more[n + 1] = p
      /\ \A k \in 1 .. n : more[k] = book[k]
  BY AppendProperties, LenProperties
<1>2. \A k \in 1 .. n : book[k] \in Payment
  BY ElementOfSeq
<1>3. \A k \in 1 .. n : f[k] \in Int /\ g[k] = f[k]
  BY <1>1, <1>2 DEF Payment
<1>4. g[n + 1] = p.amount /\ p.amount \in Int
  BY <1>1 DEF Payment
<1>5. /\ IsFiniteSet(1 .. n) /\ IsFiniteSet(1 .. (n + 1))
      /\ (1 .. (n + 1)) \ {n + 1} = 1 .. n /\ n + 1 \in 1 .. (n + 1)
  <2> HIDE DEF n
  <2>1. n \in Int /\ n + 1 \in Int /\ 1 \in Int /\ n \in Nat
    BY <1>1
  <2>2. IsFiniteSet(1 .. n) /\ IsFiniteSet(1 .. (n + 1))
    BY <2>1, FirstAreFinite
  <2> QED
    BY <2>1, <2>2
<1>6. Received(more) = SumOf(g, 1 .. (n + 1)) /\ Received(book) = SumOf(f, 1 .. n)
  BY <1>1 DEF Received
<1>7. \A k \in 1 .. (n + 1) : g[k] \in Int
  BY <1>1, <1>3, <1>4
<1> HIDE DEF more, n, f, g
<1>8. SumOf(g, 1 .. (n + 1)) = g[n + 1] + SumOf(g, 1 .. n)
  <2>1. SumOf(g, 1 .. (n + 1)) = g[n + 1] + SumOf(g, (1 .. (n + 1)) \ {n + 1})
    BY <1>5, <1>7, SumStep
  <2> QED
    BY <1>5, <2>1
<1>9. SumOf(g, 1 .. n) = SumOf(f, 1 .. n) /\ SumOf(f, 1 .. n) \in Int
  BY <1>3, <1>5, SumSame, SumType
<1> QED
  BY <1>4, <1>6, <1>8, <1>9 DEF more

\* A change of one invoice's part changes the sum by as much.
LEMMA PartChange ==
  ASSUME NEW parts \in [Invoices -> Nat], NEW i \in Invoices, parts[i] = 0, NEW part \in Nat
  PROVE  SumOf([parts EXCEPT ![i] = part], Invoices) = SumOf(parts, Invoices) + part
<1> DEFINE new == [parts EXCEPT ![i] = part]
<1>1. IsFiniteSet(Invoices) /\ IsFiniteSet(Invoices \ {i})
  BY BillingAssumption, FS_Subset
<1>2. /\ \A j \in Invoices : new[j] \in Int /\ parts[j] \in Int
      /\ \A j \in Invoices \ {i} : new[j] = parts[j]
      /\ new[i] = part
  OBVIOUS
<1> HIDE DEF new
<1>3. SumOf(new, Invoices) = part + SumOf(new, Invoices \ {i})
  BY <1>1, <1>2, SumStep
<1>4. SumOf(parts, Invoices) = 0 + SumOf(parts, Invoices \ {i})
  BY <1>1, <1>2, SumStep
<1>5. /\ SumOf(new, Invoices \ {i}) = SumOf(parts, Invoices \ {i})
      /\ SumOf(parts, Invoices \ {i}) \in Int
  BY <1>1, <1>2, SumSame, SumType
<1> QED
  BY <1>3, <1>4, <1>5 DEF new

\* A step of one request.
LEMMA SpreadLocal ==
  ASSUME NEW r \in Reqs, \A s \in Reqs : SpreadOK(s),
         \A s \in Reqs \ {r} :
           /\ pc'[s] = pc[s] /\ job'[s] = job[s] /\ todo'[s] = todo[s]
           /\ gets'[s] = gets[s] /\ left'[s] = left[s],
         SpreadOK(r)'
  PROVE  \A s \in Reqs : SpreadOK(s)'
BY DEF SpreadOK

LEMMA AnswerSpread ==
  ASSUME TypeInv, \A s \in Reqs : SpreadOK(s), NEW r \in Reqs, Answer(r)
  PROVE  \A s \in Reqs : SpreadOK(s)'
<1>1. SpreadOK(r)'
  <2>1. pc'[r] = "idle" /\ gets'[r] = Nothing
    BY DEF Answer, TypeInv, TypeOK
  <2> QED
    BY <2>1 DEF SpreadOK, PaySteps, Nothing
<1>2. \A s \in Reqs \ {r} :
        /\ pc'[s] = pc[s] /\ job'[s] = job[s] /\ todo'[s] = todo[s]
        /\ gets'[s] = gets[s] /\ left'[s] = left[s]
  BY DEF Answer, TypeInv, TypeOK
<1> QED
  BY <1>1, <1>2, SpreadLocal

\* A step that only moves the request on, within a payment or outside one.
LEMMA GotoSpread ==
  ASSUME TypeInv, \A s \in Reqs : SpreadOK(s), NEW r \in Reqs,
         NEW from \in Steps, NEW to \in Steps, Goto(r, from, to),
         UNCHANGED <<todo, gets, left>>,
         \/ from = "gross" /\ to = "paid"
         \/ from = "ref" /\ to = "commit"
         \/ from \notin PaySteps /\ to \notin PaySteps
  PROVE  \A s \in Reqs : SpreadOK(s)'
<1>1. /\ pc[r] = from /\ pc'[r] = to /\ job'[r] = job[r] /\ todo'[r] = todo[r]
      /\ gets'[r] = gets[r] /\ left'[r] = left[r]
  BY DEF Goto, TypeInv, TypeOK
<1>2. SpreadOK(r)'
  BY <1>1 DEF SpreadOK, PaySteps, Nothing
<1>3. \A s \in Reqs \ {r} :
        /\ pc'[s] = pc[s] /\ job'[s] = job[s] /\ todo'[s] = todo[s]
        /\ gets'[s] = gets[s] /\ left'[s] = left[s]
  BY DEF Goto, TypeInv, TypeOK
<1> QED
  BY <1>2, <1>3, SpreadLocal

LEMMA BeginSpread ==
  ASSUME TypeInv, \A s \in Reqs : SpreadOK(s), NEW r \in Reqs, Request(r)
  PROVE  \A s \in Reqs : SpreadOK(s)'
<1>1. pc[r] = "idle" /\ gets[r] = Nothing
  <2>1. pc[r] = "idle"
    BY DEF Request, BeginMove, BeginClone, BeginPay, BeginCredit, Begin
  <2> QED
    BY <2>1 DEF SpreadOK, PaySteps
<1>2. \A s \in Reqs \ {r} :
        /\ pc'[s] = pc[s] /\ job'[s] = job[s] /\ todo'[s] = todo[s]
        /\ gets'[s] = gets[s] /\ left'[s] = left[s]
  BY DEF Request, BeginMove, BeginClone, BeginPay, BeginCredit, Begin, payVars, TypeInv, TypeOK
<1>3. gets' = gets
  BY DEF Request, BeginMove, BeginClone, BeginPay, BeginCredit, payVars
<1>4. ASSUME NEW c \in Charges, BeginPay(r, c) PROVE SpreadOK(r)'
  <2>1. /\ pc'[r] = "gross" /\ job'[r] = c /\ todo'[r] = c.invs
        /\ left'[r] = c.amount /\ gets'[r] = Nothing
    BY <1>1, <1>3, <1>4 DEF BeginPay, Begin, TypeInv, TypeOK
  <2>2. /\ c.invs \in Seq(Invoices) /\ c.amount \in Nat
        /\ \A j, k \in 1 .. Len(c.invs) : c.invs[j] = c.invs[k] => j = k
    BY BillingAssumption
  <2>3. Untouched(c.invs, Nothing)
    <3>1. \A j \in 1 .. Len(c.invs) : c.invs[j] \in Invoices
      BY <2>2, ElementOfSeq
    <3> QED
      BY <2>2, <3>1 DEF Untouched, Nothing
  <2>4. SumOf(Nothing, Invoices) + c.amount = c.amount
    BY <2>2, NothingSum
  <2> QED
    BY <2>1, <2>3, <2>4 DEF SpreadOK, PaySteps
<1>5. ASSUME ~ \E c \in Charges : BeginPay(r, c) PROVE SpreadOK(r)'
  <2>1. pc'[r] \notin PaySteps
    BY <1>5 DEF Request, BeginMove, BeginClone, BeginCredit, Begin, TypeInv, TypeOK, PaySteps
  <2> QED
    BY <1>1, <1>3, <2>1 DEF SpreadOK, PaySteps, Nothing
<1> QED
  BY <1>2, <1>4, <1>5, SpreadLocal

\* An invoice takes its part of what is left, and the rest goes on.
LEMMA TakesAndRest ==
  ASSUME NEW balance \in Int, NEW rest \in Nat
  PROVE  Takes(balance, rest) + RestAfter(balance, rest) = rest
BY DEF Takes, RestAfter

LEMMA ReadPaidSpread ==
  ASSUME TypeInv, \A s \in Reqs : SpreadOK(s), NEW r \in Reqs, ReadPaid(r)
  PROVE  \A s \in Reqs : SpreadOK(s)'
<1> DEFINE i == Head(todo[r])
           balance == bal[r] - paid[i]
           rest == RestAfter(balance, left[r])
           last == Len(todo[r]) = 1
           refused == Settled(balance) \/ (last /\ rest # 0)
<1>1. CASE refused
  BY <1>1, AnswerSpread DEF ReadPaid, Fail
<1>2. CASE ~ refused
  <2>1. /\ pc[r] = "paid"
        /\ pc' = [pc EXCEPT ![r] = IF last THEN "ref" ELSE "gross"]
        /\ todo' = [todo EXCEPT ![r] = Tail(todo[r])]
        /\ gets' = [gets EXCEPT ![r][i] = Takes(balance, left[r])]
        /\ left' = [left EXCEPT ![r] = rest]
        /\ job' = job
    BY <1>2 DEF ReadPaid, Goto
  <2>2. /\ todo[r] \in Seq(Invoices) /\ todo[r] # << >>
        /\ gets[r] \in [Invoices -> Nat] /\ left[r] \in Nat /\ job[r].amount \in Nat
    BY <2>1, BillingAssumption DEF TypeInv, TypeOK, JobOK, PaySteps
  <2>3. /\ i \in Invoices /\ i = todo[r][1]
        /\ Len(todo[r]) \in Nat /\ Len(todo[r]) > 0
        /\ Len(Tail(todo[r])) = Len(todo[r]) - 1
        /\ \A j \in 1 .. Len(Tail(todo[r])) : Tail(todo[r])[j] = todo[r][j + 1]
    BY <2>2, HeadTailProperties, LenProperties, EmptySeq
  <2>4. balance \in Int
    <3>1. paid[i] \in Nat /\ bal[r] \in Int
      BY <2>3 DEF TypeInv, TypeOK
    <3> QED
      BY <3>1
  <2>5. Takes(balance, left[r]) \in Nat /\ rest \in Nat
    BY <1>2, <2>2, <2>4, AllocationType
  <2>6. Takes(balance, left[r]) + rest = left[r]
    BY <2>2, <2>4, TakesAndRest
  <2>7. /\ Untouched(todo[r], gets[r])
        /\ SumOf(gets[r], Invoices) + left[r] = job[r].amount
    BY <2>1 DEF SpreadOK, PaySteps
  <2>8. gets[r][i] = 0
    BY <2>3, <2>7 DEF Untouched
  <2>9. /\ pc'[r] = IF last THEN "ref" ELSE "gross"
        /\ todo'[r] = Tail(todo[r]) /\ left'[r] = rest /\ job'[r] = job[r]
        /\ gets'[r] = [gets[r] EXCEPT ![i] = Takes(balance, left[r])]
    BY <2>1 DEF TypeInv, TypeOK
  <2>10. last => rest = 0
    BY <1>2
  <2> HIDE DEF balance, rest, last, refused
  <2>11. SumOf(gets'[r], Invoices) + left'[r] = job'[r].amount
    <3>1. SumOf(gets'[r], Invoices) = SumOf(gets[r], Invoices) + Takes(balance, left[r])
      BY <2>2, <2>3, <2>5, <2>8, <2>9, PartChange
    <3>2. SumOf(gets[r], Invoices) \in Int
      <4>1. IsFiniteSet(Invoices) /\ \A j \in Invoices : gets[r][j] \in Int
        BY <2>2, BillingAssumption
      <4> QED
        BY <4>1, SumType
    <3> QED
      BY <2>2, <2>5, <2>6, <2>7, <2>9, <3>1, <3>2
  <2>12. Untouched(Tail(todo[r]), gets'[r])
    <3>1. ASSUME NEW j \in 1 .. Len(Tail(todo[r]))
          PROVE  /\ j + 1 \in 1 .. Len(todo[r]) /\ 1 \in 1 .. Len(todo[r]) /\ j + 1 # 1
                 /\ todo[r][j + 1] \in Invoices
      <4>1. j + 1 \in 1 .. Len(todo[r]) /\ 1 \in 1 .. Len(todo[r]) /\ j + 1 # 1
        BY <2>3
      <4> QED
        BY <2>2, <4>1, ElementOfSeq
    <3>2. ASSUME NEW j \in 1 .. Len(Tail(todo[r]))
          PROVE  gets'[r][Tail(todo[r])[j]] = 0
      <4>1. todo[r][j + 1] # i /\ gets[r][todo[r][j + 1]] = 0
        BY <2>3, <2>7, <3>1 DEF Untouched
      <4> QED
        BY <2>2, <2>3, <2>9, <3>1, <4>1
    <3>3. ASSUME NEW j \in 1 .. Len(Tail(todo[r])), NEW k \in 1 .. Len(Tail(todo[r])),
                 Tail(todo[r])[j] = Tail(todo[r])[k]
          PROVE  j = k
      <4>1. j + 1 = k + 1
        BY <2>3, <2>7, <3>1, <3>3 DEF Untouched
      <4> QED
        BY <4>1
    <3> QED
      BY <3>2, <3>3 DEF Untouched
  <2>13. SpreadOK(r)'
    BY <2>9, <2>10, <2>11, <2>12 DEF SpreadOK, PaySteps
  <2>14. \A s \in Reqs \ {r} :
           /\ pc'[s] = pc[s] /\ job'[s] = job[s] /\ todo'[s] = todo[s]
           /\ gets'[s] = gets[s] /\ left'[s] = left[s]
    BY <2>1 DEF TypeInv, TypeOK
  <2> QED
    BY <2>13, <2>14, SpreadLocal
<1> QED
  BY <1>1, <1>2

\* The COMMIT of a payment puts its whole amount on the invoices.
LEMMA CommitMoney ==
  ASSUME MoneyInv, NEW r \in Reqs, CommitPayment(r)
  PROVE  SumOf(paid', Invoices) = Received(payments')
<1> DEFINE p == [amount |-> job[r].amount, ref |-> number[r], applied |-> gets[r]]
<1>1. /\ pc[r] = "commit"
      /\ payments' = Append(payments, p)
      /\ paid' = [i \in Invoices |-> paid[i] + gets[r][i]]
  BY DEF CommitPayment
<1>2. /\ job[r].amount \in Nat /\ number[r] \in Nat /\ gets[r] \in [Invoices -> Nat]
      /\ payments \in Seq(Payment) /\ paid \in [Invoices -> Nat] /\ left[r] \in Nat
  BY <1>1, BillingAssumption DEF MoneyInv, TypeInv, TypeOK, JobOK, PaySteps
<1>3. p \in Payment /\ p.amount = job[r].amount
  BY <1>2 DEF Payment
<1> HIDE DEF p
<1>4. Received(payments') = Received(payments) + job[r].amount
  BY <1>1, <1>2, <1>3, ReceivedAppend
<1>5. /\ IsFiniteSet(Invoices)
      /\ \A i \in Invoices : paid[i] \in Int
      /\ \A i \in Invoices : gets[r][i] \in Int
      /\ \A i \in Invoices : paid'[i] = paid[i] + gets[r][i]
  BY <1>1, <1>2, BillingAssumption
<1>6. SumOf(paid', Invoices) = SumOf(paid, Invoices) + SumOf(gets[r], Invoices)
  BY <1>5, SumPlus
<1>7. SumOf(gets[r], Invoices) + left[r] = job[r].amount /\ left[r] = 0
  BY <1>1 DEF MoneyInv, SpreadOK, PaySteps
<1>8. SumOf(gets[r], Invoices) \in Int
  BY <1>5, SumType
<1> QED
  BY <1>4, <1>6, <1>7, <1>8 DEF MoneyInv

\* No other step touches the payments or their allocations.
LEMMA MoneyFrame ==
  ASSUME [Next]_vars, ~ \E r \in Reqs : CommitPayment(r)
  PROVE  UNCHANGED <<payments, paid>>
<1>1. ASSUME NEW r \in Reqs, Request(r) PROVE UNCHANGED <<payments, paid>>
  BY <1>1 DEF Request, BeginMove, BeginClone, BeginPay, BeginCredit, bookVars
<1>2. ASSUME NEW r \in Reqs, TakeRef(r) \/ Crash(r) PROVE UNCHANGED <<payments, paid>>
  BY <1>2 DEF TakeRef, Crash, Fail, bookVars
<1>3. ASSUME NEW r \in Reqs, Continue(r), ~ CommitPayment(r) PROVE UNCHANGED <<payments, paid>>
  BY <1>3 DEF Continue, WriteMove, CreateNote, ReadGross, ReadPaid, CreditGross, CreditPaid,
              CreditSum, CreditApply, Fail, bookVars
<1>4. ASSUME NEW d \in Docs, NEW amount \in Amounts, Edit(d, amount)
      PROVE  UNCHANGED <<payments, paid>>
  BY <1>4 DEF Edit, bookVars
<1>5. CASE UNCHANGED vars
  BY <1>5 DEF vars
<1> QED
  BY <1>1, <1>2, <1>3, <1>4, <1>5 DEF Next

LEMMA NextSpread ==
  ASSUME TypeInv, \A s \in Reqs : SpreadOK(s), [Next]_vars
  PROVE  \A s \in Reqs : SpreadOK(s)'
<1>1. ASSUME NEW r \in Reqs, Request(r) PROVE \A s \in Reqs : SpreadOK(s)'
  BY <1>1, BeginSpread
<1>2. ASSUME NEW r \in Reqs, TakeRef(r) PROVE \A s \in Reqs : SpreadOK(s)'
  BY <1>2, GotoSpread DEF TakeRef, Steps
<1>3. ASSUME NEW r \in Reqs, Answer(r) PROVE \A s \in Reqs : SpreadOK(s)'
  BY <1>3, AnswerSpread
<1>4. ASSUME NEW r \in Reqs, Continue(r) PROVE \A s \in Reqs : SpreadOK(s)'
  <2>1. CASE WriteMove(r) \/ CreateNote(r) \/ CommitPayment(r) \/ CreditApply(r)
    BY <1>3, <2>1 DEF WriteMove, CreateNote, CommitPayment, CreditApply, Fail
  <2>2. CASE ReadGross(r)
    BY <2>2, GotoSpread DEF ReadGross, Steps, payVars
  <2>3. CASE ReadPaid(r)
    BY <2>3, ReadPaidSpread
  <2>4. CASE CreditGross(r)
    BY <2>4, GotoSpread DEF CreditGross, Steps, PaySteps, payVars
  <2>5. CASE CreditPaid(r)
    BY <2>5, GotoSpread DEF CreditPaid, Steps, PaySteps, payVars
  <2>6. CASE CreditSum(r)
    <3>1. CASE Fail(r)
      BY <1>3, <3>1 DEF Fail
    <3>2. CASE ~ Fail(r)
      BY <2>6, <3>2, GotoSpread DEF CreditSum, Steps, PaySteps, payVars
    <3> QED
      BY <3>1, <3>2
  <2> QED
    BY <1>4, <2>1, <2>2, <2>3, <2>4, <2>5, <2>6 DEF Continue
<1>5. ASSUME NEW d \in Docs, NEW amount \in Amounts, Edit(d, amount)
      PROVE  \A s \in Reqs : SpreadOK(s)'
  BY <1>5 DEF Edit, payVars, SpreadOK
<1>6. CASE UNCHANGED vars
  BY <1>6 DEF vars, SpreadOK
<1> QED
  BY <1>1, <1>2, <1>3, <1>4, <1>5, <1>6 DEF Next, Crash, Fail

LEMMA InitMoney == Init => MoneyInv
<1> SUFFICES ASSUME Init PROVE MoneyInv
  OBVIOUS
<1>1. \A r \in Reqs : SpreadOK(r)
  BY DEF Init, SpreadOK, PaySteps
<1>2. paid = Nothing /\ payments = << >>
  BY DEF Init
<1>3. Received(<< >>) = 0
  <2>1. 1 .. Len(<< >>) = {}
    OBVIOUS
  <2> QED
    BY <2>1, SumEmpty DEF Received
<1> QED
  BY <1>1, <1>2, <1>3, InitType, NothingSum DEF MoneyInv

LEMMA NextMoney == MoneyInv /\ [Next]_vars => MoneyInv'
<1> SUFFICES ASSUME MoneyInv, [Next]_vars PROVE MoneyInv'
  OBVIOUS
<1>1. TypeInv' /\ \A r \in Reqs : SpreadOK(r)'
  BY NextType, NextSpread DEF MoneyInv
<1>2. SumOf(paid', Invoices) = Received(payments')
  <2>1. CASE \E r \in Reqs : CommitPayment(r)
    BY <2>1, CommitMoney
  <2>2. CASE ~ \E r \in Reqs : CommitPayment(r)
    BY <2>2, MoneyFrame DEF MoneyInv
  <2> QED
    BY <2>1, <2>2
<1> QED
  BY <1>1, <1>2 DEF MoneyInv

LEMMA MoneyIsConserved == MoneyInv => MoneyConserved
<1> SUFFICES ASSUME MoneyInv PROVE MoneyConserved
  OBVIOUS
<1>1. Len(payments) \in Nat /\ \A k \in 1 .. Len(payments) : payments[k].amount \in Int
  <2>1. payments \in Seq(Payment)
    BY DEF MoneyInv, TypeInv, TypeOK
  <2>2. \A k \in 1 .. Len(payments) : payments[k] \in Payment
    BY <2>1, ElementOfSeq
  <2> QED
    BY <2>1, <2>2, LenProperties DEF Payment
<1>2. MapThenSumSet(LAMBDA k : payments[k].amount, 1 .. Len(payments)) = Received(payments)
  BY <1>1, ReceivedIsSum
<1>3. MapThenSumSet(LAMBDA i : paid[i], Invoices) = SumOf(paid, Invoices)
  BY DEF SumOf
<1> QED
  BY <1>2, <1>3 DEF MoneyInv, MoneyConserved

\* The money of the payments is on the invoices, to the cent, however many
\* payments are spread over however many invoices at the same time and whatever
\* balances they have read: AllocateAcross (domain.go:129-150) hands out what it
\* is given, and the rest must be zero before the payment is written
\* (store.go:270-276).
THEOREM NoMoneyLost == Spec => []MoneyConserved
<1> QED
  BY InitMoney, NextMoney, MoneyIsConserved, PTL DEF Spec
==============================================================================
