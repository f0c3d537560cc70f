----------------------------- MODULE StockProofs -----------------------------
(***************************************************************************)
(* Theorems about Stock, for any number of requests, cells and documents   *)
(* and for documents with any number of lines.                             *)
(***************************************************************************)
EXTENDS Stock, TLAPS

\* What the program counter of a request says of its document and line.
JobOK ==
  \A r \in Reqs :
    /\ pc[r] # "idle" => doc[r] \in Docs
    /\ pc[r] = "idle" => line[r] = 1 /\ delta[r] = NoWork
    /\ pc[r] \in {"check", "lock", "write"} => line[r] \in LineNos(doc[r])
    /\ pc[r] \in {"check", "counter"} => Joined(doc[r]) /\ delta[r] = NoWork
    /\ pc[r] = "counter" => line[r] = 1

TypeInv == TypeOK /\ JobOK

LEMMA LineNosType ==
  ASSUME NEW d \in Docs
  PROVE  /\ LineNos(d) \subseteq Nat
         /\ 1 \in LineNos(d)
         /\ \A i \in LineNos(d) : Lines[d][i] \in Move
         /\ \A i \in LineNos(d) : i # Len(Lines[d]) => i + 1 \in LineNos(d)
<1>1. Lines[d] \in Seq(Move) /\ Lines[d] # << >>
  BY StockAssumption
<1>2. Len(Lines[d]) \in Nat /\ Len(Lines[d]) # 0
  BY <1>1
<1> QED
  BY <1>1, <1>2 DEF LineNos

LEMMA InitType == Init => TypeInv
<1> SUFFICES ASSUME Init PROVE TypeInv
  OBVIOUS
<1>1. TypeOK
  BY StockAssumption DEF Init, TypeOK, NoWork, LineNos, Steps
<1>2. JobOK
  BY DEF Init, JobOK
<1> QED
  BY <1>1, <1>2 DEF TypeInv

\* The movement a working request has in hand.
LEMMA HereType ==
  ASSUME TypeInv, NEW r \in Reqs, pc[r] \in {"check", "lock", "write"}
  PROVE  Here(r).cell \in Cells /\ Here(r).qty \in Int
<1>1. doc[r] \in Docs /\ line[r] \in LineNos(doc[r])
  BY DEF TypeInv, JobOK
<1>2. Here(r) \in Move
  BY <1>1, LineNosType DEF Here
<1> QED
  BY <1>2 DEF Move

LEMMA FailType ==
  ASSUME TypeInv, NEW r \in Reqs, Fail(r)
  PROVE  TypeInv'
<1>1. TypeOK'
  BY DEF TypeInv, TypeOK, Fail, Answer, Release, stockVars, NoWork, Steps, LineNos
<1>2. JobOK'
  BY DEF TypeInv, TypeOK, JobOK, Fail, Answer, LineNos, Joined
<1> QED
  BY <1>1, <1>2 DEF TypeInv

LEMMA AdvanceType ==
  ASSUME TypeInv, NEW r \in Reqs, pc[r] \in {"check", "lock", "write"},
         NEW again \in {"check", "lock"}, NEW after \in {"counter", "lock", "finish"},
         Advance(r, again, after)
  PROVE  /\ pc' \in [Reqs -> Steps]
         /\ doc' = doc
         /\ line' \in [Reqs -> Nat]
         /\ line'[r] \in LineNos(doc[r])
         /\ pc'[r] = "counter" => line'[r] = 1
         /\ pc'[r] \in {again, after}
         /\ \A s \in Reqs \ {r} : pc'[s] = pc[s] /\ line'[s] = line[s]
<1>1. doc[r] \in Docs /\ line[r] \in LineNos(doc[r])
  BY DEF TypeInv, JobOK
<1>2. /\ 1 \in LineNos(doc[r])
      /\ ~ LastLine(r) => line[r] + 1 \in LineNos(doc[r])
      /\ LineNos(doc[r]) \subseteq Nat
  BY <1>1, LineNosType DEF LastLine
<1>3. pc' \in [Reqs -> Steps] /\ doc' = doc /\ line' \in [Reqs -> Nat]
  BY <1>1, <1>2 DEF Advance, TypeInv, TypeOK, Steps
<1>4. line'[r] = (IF LastLine(r) THEN 1 ELSE line[r] + 1)
      /\ pc'[r] = (IF LastLine(r) THEN after ELSE again)
  BY DEF Advance, TypeInv, TypeOK
<1>5. \A s \in Reqs \ {r} : pc'[s] = pc[s] /\ line'[s] = line[s]
  BY DEF Advance, TypeInv, TypeOK
<1> QED
  BY <1>2, <1>3, <1>4, <1>5

LEMMA BeginType ==
  ASSUME TypeInv, NEW r \in Reqs, NEW d \in Docs, Begin(r, d)
  PROVE  TypeInv'
<1>1. TypeOK'
  BY DEF TypeInv, TypeOK, Begin, stockVars, lockVars, txVars, Steps, LineNos
<1>2. JobOK'
  BY LineNosType DEF TypeInv, TypeOK, JobOK, Begin, txVars, LineNos, Joined
<1> QED
  BY <1>1, <1>2 DEF TypeInv

LEMMA CheckType ==
  ASSUME TypeInv, NEW r \in Reqs, Check(r)
  PROVE  TypeInv'
<1> DEFINE after == IF Kind[doc[r]] = "checkout" THEN "counter" ELSE "lock"
<1>1. CASE /\ pc[r] = "check"
           /\ Advance(r, "check", after)
           /\ UNCHANGED <<stockVars, lockVars, txVars>>
  <2>1. after \in {"counter", "lock", "finish"} /\ "check" \in {"check", "lock"}
    OBVIOUS
  <2>2. /\ pc' \in [Reqs -> Steps]
        /\ doc' = doc
        /\ line' \in [Reqs -> Nat]
        /\ line'[r] \in LineNos(doc[r])
        /\ pc'[r] = "counter" => line'[r] = 1
        /\ pc'[r] \in {"check", after}
        /\ \A s \in Reqs \ {r} : pc'[s] = pc[s] /\ line'[s] = line[s]
    BY <1>1, <2>1, AdvanceType
  <2>3. TypeOK'
    BY <1>1, <2>2 DEF TypeInv, TypeOK, stockVars, lockVars, txVars, LineNos
  <2>4. JobOK'
    BY <1>1, <2>2 DEF TypeInv, TypeOK, JobOK, txVars, LineNos, Joined
  <2> QED
    BY <2>3, <2>4 DEF TypeInv
<1>2. CASE Fail(r)
  BY <1>2, FailType
<1> QED
  BY <1>1, <1>2 DEF Check

LEMMA TakeCounterType ==
  ASSUME TypeInv, NEW r \in Reqs, TakeCounter(r)
  PROVE  TypeInv'
<1>1. 1 \in LineNos(doc[r])
  BY LineNosType DEF TypeInv, JobOK, TakeCounter
<1>2. TypeOK'
  BY DEF TypeInv, TypeOK, TakeCounter, stockVars, txVars, Steps, LineNos
<1>3. JobOK'
  BY <1>1 DEF TypeInv, TypeOK, JobOK, TakeCounter, txVars, LineNos, Joined
<1> QED
  BY <1>2, <1>3 DEF TypeInv

LEMMA LockLevelType ==
  ASSUME TypeInv, NEW r \in Reqs, LockLevel(r)
  PROVE  TypeInv'
<1>1. Here(r).cell \in Cells
  BY HereType DEF LockLevel
<1>2. /\ holder' \in [Cells -> Reqs \cup {NoReq}]
      /\ work' \in [Reqs -> [Cells -> Nat]]
  <2>1. PICK n \in Nat : work' = [work EXCEPT ![r][Here(r).cell] = n]
    <3>1. work[r][Here(r).cell] \in Nat /\ level[Here(r).cell] \in Nat
      BY <1>1 DEF TypeInv, TypeOK
    <3> QED
      BY <3>1 DEF LockLevel
  <2>2. holder' \in [Cells -> Reqs \cup {NoReq}]
    BY <1>1 DEF TypeInv, TypeOK, LockLevel
  <2> QED
    BY <1>1, <2>1, <2>2 DEF TypeInv, TypeOK
<1>3. TypeOK'
  BY <1>2 DEF TypeInv, TypeOK, LockLevel, stockVars, Steps, LineNos
<1>4. JobOK'
  BY DEF TypeInv, TypeOK, JobOK, LockLevel, LineNos, Joined
<1> QED
  BY <1>3, <1>4 DEF TypeInv

\* After a line, the request goes on to the next one or to its last step.
LEMMA NextLineType ==
  ASSUME TypeInv, NEW r \in Reqs, pc[r] = "write", Advance(r, "lock", "finish"),
         \A s \in Reqs \ {r} : delta'[s] = delta[s]
  PROVE  JobOK' /\ pc' \in [Reqs -> Steps] /\ doc' = doc /\ line' \in [Reqs -> Nat]
<1>1. /\ pc' \in [Reqs -> Steps]
      /\ doc' = doc
      /\ line' \in [Reqs -> Nat]
      /\ line'[r] \in LineNos(doc[r])
      /\ pc'[r] \in {"lock", "finish"}
      /\ \A s \in Reqs \ {r} : pc'[s] = pc[s] /\ line'[s] = line[s]
  BY AdvanceType
<1>2. JobOK'
  BY <1>1 DEF TypeInv, TypeOK, JobOK, LineNos, Joined
<1> QED
  BY <1>1, <1>2

LEMMA RefuseJoinedType ==
  ASSUME TypeInv, NEW r \in Reqs, RefuseJoined(r)
  PROVE  TypeInv'
<1>1. JobOK' /\ pc' \in [Reqs -> Steps] /\ doc' = doc /\ line' \in [Reqs -> Nat]
  BY NextLineType DEF RefuseJoined, txVars
<1>2. TypeOK'
  BY <1>1 DEF TypeInv, TypeOK, RefuseJoined, stockVars, lockVars, txVars, LineNos
<1> QED
  BY <1>1, <1>2 DEF TypeInv

LEMMA WriteOwnType ==
  ASSUME TypeInv, NEW r \in Reqs, WriteOwn(r)
  PROVE  TypeInv'
<1>1. /\ Here(r).cell \in Cells /\ Here(r).qty \in Int
      /\ doc[r] \in Docs /\ line[r] \in LineNos(doc[r])
  BY HereType DEF WriteOwn, TypeInv, JobOK
<1>2. work[r][Here(r).cell] + Here(r).qty \in Nat
  BY <1>1 DEF WriteOwn, Refused, TypeInv, TypeOK
<1>3. /\ level' \in [Cells -> Nat] /\ known' \subseteq Cells
      /\ booked' \in [Cells -> Int] /\ DOMAIN moved' = Docs
      /\ holder' \in [Cells -> Reqs \cup {NoReq}]
      /\ counter' \in Reqs \cup {NoReq}
  BY <1>1, <1>2 DEF WriteOwn, TypeInv, TypeOK
<1>4. \A d \in Docs : moved'[d] \in [LineNos(d) -> Nat] /\ LineNos(d)' = LineNos(d)
  BY <1>1 DEF WriteOwn, TypeInv, TypeOK, LineNos
<1>5. CASE status' = [status EXCEPT ![doc[r]] = "done"] /\ Answer(r)
  <2>1. TypeOK'
    BY <1>1, <1>3, <1>4, <1>5 DEF TypeInv, TypeOK, Answer, NoWork, Steps
  <2>2. JobOK'
    BY <1>5 DEF TypeInv, TypeOK, JobOK, Answer, LineNos, Joined
  <2> QED
    BY <2>1, <2>2 DEF TypeInv
<1>6. CASE Advance(r, "lock", "finish") /\ UNCHANGED <<status, txVars>>
  <2>1. JobOK' /\ pc' \in [Reqs -> Steps] /\ doc' = doc /\ line' \in [Reqs -> Nat]
    BY <1>6, NextLineType DEF WriteOwn, txVars
  <2>2. TypeOK'
    BY <1>3, <1>4, <1>6, <2>1 DEF TypeInv, TypeOK, txVars
  <2> QED
    BY <2>1, <2>2 DEF TypeInv
<1> QED
  BY <1>5, <1>6 DEF WriteOwn

LEMMA WriteJoinedType ==
  ASSUME TypeInv, NEW r \in Reqs, WriteJoined(r)
  PROVE  TypeInv'
<1>1. /\ Here(r).cell \in Cells /\ Here(r).qty \in Int
      /\ doc[r] \in Docs /\ line[r] \in LineNos(doc[r])
      /\ line[r] \in Nat
  BY HereType DEF WriteJoined, TypeInv, TypeOK, JobOK
<1>2. work[r][Here(r).cell] + Here(r).qty \in Nat
  BY <1>1 DEF WriteJoined, Refused, TypeInv, TypeOK
<1>3. JobOK' /\ pc' \in [Reqs -> Steps] /\ doc' = doc /\ line' \in [Reqs -> Nat]
  BY NextLineType DEF WriteJoined, TypeInv, TypeOK
<1>4. /\ holder' \in [Cells -> Reqs \cup {NoReq}]
      /\ work' \in [Reqs -> [Cells -> Nat]]
      /\ delta' \in [Reqs -> [Cells -> Int]]
      /\ sent' \in [Reqs -> SUBSET Nat]
  BY <1>1, <1>2 DEF WriteJoined, TypeInv, TypeOK
<1>5. TypeOK'
  BY <1>3, <1>4 DEF WriteJoined, TypeInv, TypeOK, stockVars, LineNos
<1> QED
  BY <1>3, <1>5 DEF TypeInv

LEMMA FinishDirectType ==
  ASSUME TypeInv, NEW r \in Reqs, FinishDirect(r)
  PROVE  TypeInv'
<1>0. status' \in [Docs -> {"open", "done", "cancelled"}]
  BY DEF TypeInv, TypeOK, FinishDirect
<1>1. TypeOK'
  BY <1>0 DEF TypeInv, TypeOK, FinishDirect, Answer, NoWork, Steps, lockVars, LineNos
<1>2. JobOK'
  BY DEF TypeInv, TypeOK, JobOK, FinishDirect, Answer, LineNos, Joined
<1> QED
  BY <1>1, <1>2 DEF TypeInv

LEMMA CommitJoinedType ==
  ASSUME TypeInv, NEW r \in Reqs, CommitJoined(r)
  PROVE  TypeInv'
<1>1. doc[r] \in Docs
  BY DEF CommitJoined, TypeInv, JobOK
<1>2. \A d \in Docs : moved'[d] \in [LineNos(d) -> Nat]
  BY <1>1 DEF CommitJoined, TypeInv, TypeOK, LineNos
<1>3. level' \in [Cells -> Nat] /\ booked' \in [Cells -> Int] /\ known' \subseteq Cells
  BY DEF CommitJoined, TypeInv, TypeOK
<1>4. DOMAIN moved' = Docs /\ status' \in [Docs -> {"open", "done", "cancelled"}]
  BY DEF CommitJoined, TypeInv, TypeOK
<1>5. /\ holder' \in [Cells -> Reqs \cup {NoReq}]
      /\ counter' \in Reqs \cup {NoReq}
  BY DEF CommitJoined, Release, TypeInv, TypeOK
<1>6. TypeOK'
  BY <1>2, <1>3, <1>4, <1>5
  DEF TypeInv, TypeOK, CommitJoined, Answer, NoWork, Steps, LineNos
<1>7. JobOK'
  BY DEF TypeInv, TypeOK, JobOK, CommitJoined, Answer, LineNos, Joined
<1> QED
  BY <1>6, <1>7 DEF TypeInv

LEMMA CancelType ==
  ASSUME TypeInv, NEW d \in Docs, Cancel(d)
  PROVE  TypeInv'
  BY DEF TypeInv, TypeOK, JobOK, Cancel, lockVars, txVars, LineNos, Joined

LEMMA StepType == TypeInv /\ [Next]_vars => TypeInv'
<1> SUFFICES ASSUME TypeInv, [Next]_vars PROVE TypeInv'
  OBVIOUS
<1>1. ASSUME NEW r \in Reqs, NEW d \in Docs, Begin(r, d) PROVE TypeInv'
  BY <1>1, BeginType
<1>2. ASSUME NEW r \in Reqs, Continue(r) PROVE TypeInv'
  BY <1>2, CheckType, FailType, RefuseJoinedType, FinishDirectType, CommitJoinedType
  DEF Continue, RefuseOwn, RollbackJoined, AbortDeadlocked
<1>3. ASSUME NEW r \in Reqs,
             TakeCounter(r) \/ LockLevel(r) \/ WriteOwn(r) \/ WriteJoined(r) \/ Crash(r)
      PROVE  TypeInv'
  BY <1>3, TakeCounterType, LockLevelType, WriteOwnType, WriteJoinedType, FailType DEF Crash
<1>4. ASSUME NEW d \in Docs, Cancel(d) PROVE TypeInv'
  BY <1>4, CancelType
<1>5. CASE UNCHANGED vars
  BY <1>5 DEF TypeInv, TypeOK, JobOK, vars, LineNos, Joined
<1> QED
  BY <1>1, <1>2, <1>3, <1>4, <1>5 DEF Next

\* Type correctness: no level ever leaves the naturals, every working request
\* has a line of its document in hand (catalog/store.go:145-185).
THEOREM StockTypeCorrect == Spec => []TypeOK
<1>1. Spec => []TypeInv
  BY InitType, StepType, PTL DEF Spec
<1> QED
  BY <1>1, PTL DEF TypeInv

-----------------------------------------------------------------------------
(* Atomicity of the joined workflows. *)

LEMMA FlipStep == TypeInv /\ MovesWithItsFlip /\ [Next]_vars => MovesWithItsFlip'
<1> SUFFICES ASSUME TypeInv, MovesWithItsFlip, [Next]_vars PROVE MovesWithItsFlip'
  OBVIOUS
<1> USE DEF MovesWithItsFlip, Joined, LineNos
<1>1. CASE UNCHANGED <<moved, status>>
  BY <1>1
<1>2. ASSUME NEW r \in Reqs, WriteOwn(r) PROVE MovesWithItsFlip'
  <2>1. doc[r] \in Docs /\ ~ Joined(doc[r])
    BY <1>2 DEF WriteOwn, TypeInv, JobOK
  <2>2. \A d \in Docs \ {doc[r]} : moved'[d] = moved[d] /\ status'[d] = status[d]
    BY <1>2, <2>1 DEF WriteOwn, TypeInv, TypeOK
  <2> QED
    BY <2>1, <2>2
<1>3. ASSUME NEW r \in Reqs, FinishDirect(r) PROVE MovesWithItsFlip'
  BY <1>3 DEF FinishDirect, TypeInv, TypeOK, JobOK
<1>4. ASSUME NEW r \in Reqs, CommitJoined(r) PROVE MovesWithItsFlip'
  <2>1. doc[r] \in Docs /\ status[doc[r]] = "open"
    BY <1>4 DEF CommitJoined, Flips, TypeInv, JobOK
  <2>2. \A i \in LineNos(doc[r]) : moved[doc[r]][i] = 0
    <3>1. moved[doc[r]] \in [LineNos(doc[r]) -> Nat]
      BY <2>1 DEF TypeInv, TypeOK
    <3>2. \A i \in LineNos(doc[r]) : moved[doc[r]][i] <= 1 /\ moved[doc[r]][i] # 1
      BY <1>4, <2>1 DEF CommitJoined
    <3> QED
      BY <3>1, <3>2
  <2>3. \A i \in LineNos(doc[r]) : moved'[doc[r]][i] \in {0, 1}
    <3>1. moved'[doc[r]] = [i \in LineNos(doc[r]) |->
                              IF i \in sent[r] THEN moved[doc[r]][i] + 1 ELSE moved[doc[r]][i]]
      BY <1>4, <2>1 DEF CommitJoined, TypeInv, TypeOK
    <3> QED
      BY <2>2, <3>1
  <2>4. \A d \in Docs \ {doc[r]} : moved'[d] = moved[d] /\ status'[d] = status[d]
    BY <1>4, <2>1 DEF CommitJoined, TypeInv, TypeOK
  <2>5. status'[doc[r]] = "done"
    BY <1>4, <2>1 DEF CommitJoined, TypeInv, TypeOK
  <2> QED
    BY <2>1, <2>3, <2>4, <2>5
<1>5. ASSUME NEW d \in Docs, Cancel(d) PROVE MovesWithItsFlip'
  BY <1>5 DEF Cancel, TypeInv, TypeOK
<1> QED
  BY <1>1, <1>2, <1>3, <1>4, <1>5
  DEF Next, Begin, TakeCounter, LockLevel, WriteJoined, Continue, Check, RefuseOwn, RefuseJoined,
      RollbackJoined, AbortDeadlocked, Crash, Fail, stockVars, vars

\* Whatever races, an order or a sale that is not done has moved nothing and one
\* that is done has moved no line twice (manufacturing/service.go:14).
THEOREM JoinedIsAtomic == Spec => []MovesWithItsFlip
<1>1. Init => MovesWithItsFlip
  BY DEF Init, MovesWithItsFlip, LineNos
<1>2. Spec => []TypeInv
  BY InitType, StepType, PTL DEF Spec
<1> QED
  BY <1>1, <1>2, FlipStep, PTL DEF Spec

-----------------------------------------------------------------------------
(* Levels and movements. *)

\* A transaction that holds no row has added nothing, and one of its own
\* per line never has more than the line in hand.
TxInv ==
  \A r \in Reqs :
    /\ \A c \in Cells : holder[c] # r => delta[r][c] = 0
    /\ pc[r] # "idle" /\ ~ Joined(doc[r]) => delta[r] = NoWork

\* What a transaction sees is at most the committed level and its own
\* additions, and exactly 0 where it found no row.
SightInv ==
  \A r \in Reqs :
    /\ \A c \in Cells : holder[c] = r => work[r][c] <= level[c] + delta[r][c]
    /\ pc[r] = "write" /\ holder[Here(r).cell] # r => work[r][Here(r).cell] = 0

UnderBooked == \A c \in Cells : level[c] <= booked[c]

BookInv == TypeInv /\ TxInv /\ SightInv /\ UnderBooked

LEMMA FailBooks ==
  ASSUME BookInv, NEW r \in Reqs, Fail(r)
  PROVE  BookInv'
<1>1. TypeInv'
  BY FailType DEF BookInv
<1>2. \A s \in Reqs \ {r} :
        /\ pc'[s] = pc[s] /\ doc'[s] = doc[s] /\ line'[s] = line[s]
        /\ work'[s] = work[s] /\ delta'[s] = delta[s]
        /\ \A c \in Cells : holder'[c] = s <=> holder[c] = s
  BY StockAssumption DEF Fail, Answer, Release, BookInv, TypeInv, TypeOK
<1>3. /\ pc'[r] = "idle" /\ work'[r] = NoWork /\ delta'[r] = NoWork
      /\ \A c \in Cells : holder'[c] # r
  BY StockAssumption DEF Fail, Answer, Release, BookInv, TypeInv, TypeOK
<1>4. TxInv'
  BY <1>2, <1>3 DEF BookInv, TxInv, NoWork, Joined
<1>5. SightInv' /\ UnderBooked'
  <2>1. level' = level /\ booked' = booked
    BY DEF Fail, stockVars
  <2>2. \A s \in Reqs \ {r} : pc[s] = "write" => Here(s).cell \in Cells /\ Here(s)' = Here(s)
    BY <1>2, HereType DEF BookInv, Here
  <2> QED
    BY <1>2, <1>3, <2>1, <2>2 DEF BookInv, SightInv, UnderBooked
<1> QED
  BY <1>1, <1>4, <1>5 DEF BookInv

\* Steps of r that neither commit nor lock: r moves on, nothing it holds changes.
LEMMA WalkBooks ==
  ASSUME BookInv, TypeInv', NEW r \in Reqs, UNCHANGED <<stockVars, holder, txVars>>,
         \A s \in Reqs \ {r} : pc'[s] = pc[s] /\ doc'[s] = doc[s] /\ line'[s] = line[s],
         pc'[r] # "write",
         pc'[r] # "idle" /\ ~ Joined(doc'[r]) => delta[r] = NoWork
  PROVE  BookInv'
<1>1. TxInv'
  BY DEF BookInv, TxInv, txVars, Joined, NoWork
<1>2. \A s \in Reqs \ {r} : Here(s)' = Here(s)
  BY DEF Here
<1>3. SightInv' /\ UnderBooked'
  BY <1>2 DEF BookInv, SightInv, UnderBooked, stockVars, txVars
<1> QED
  BY <1>1, <1>3 DEF BookInv

LEMMA BeginBooks ==
  ASSUME BookInv, NEW r \in Reqs, NEW d \in Docs, Begin(r, d)
  PROVE  BookInv'
<1>1. TypeInv'
  BY BeginType DEF BookInv
<1>2. delta[r] = NoWork /\ pc'[r] # "write"
      /\ \A s \in Reqs \ {r} : pc'[s] = pc[s] /\ doc'[s] = doc[s] /\ line'[s] = line[s]
  BY DEF Begin, BookInv, TypeInv, TypeOK, JobOK
<1> QED
  BY <1>1, <1>2, WalkBooks DEF Begin, lockVars

LEMMA CheckBooks ==
  ASSUME BookInv, NEW r \in Reqs, Check(r)
  PROVE  BookInv'
<1> DEFINE after == IF Kind[doc[r]] = "checkout" THEN "counter" ELSE "lock"
<1>1. CASE Advance(r, "check", after) /\ UNCHANGED <<stockVars, lockVars, txVars>>
  <2>1. TypeInv'
    BY CheckType DEF BookInv
  <2>2. /\ pc'[r] # "write" /\ delta[r] = NoWork
        /\ \A s \in Reqs \ {r} : pc'[s] = pc[s] /\ doc'[s] = doc[s] /\ line'[s] = line[s]
    BY <1>1 DEF Check, Advance, BookInv, TypeInv, TypeOK, JobOK
  <2> QED
    BY <1>1, <2>1, <2>2, WalkBooks DEF lockVars
<1>2. CASE Fail(r)
  BY <1>2, FailBooks
<1> QED
  BY <1>1, <1>2 DEF Check

LEMMA TakeCounterBooks ==
  ASSUME BookInv, NEW r \in Reqs, TakeCounter(r)
  PROVE  BookInv'
<1>1. TypeInv'
  BY TakeCounterType DEF BookInv
<1>2. /\ pc'[r] # "write" /\ delta[r] = NoWork
      /\ \A s \in Reqs \ {r} : pc'[s] = pc[s] /\ doc'[s] = doc[s] /\ line'[s] = line[s]
  BY DEF TakeCounter, BookInv, TypeInv, TypeOK, JobOK
<1> QED
  BY <1>1, <1>2, WalkBooks DEF TakeCounter

LEMMA RefuseJoinedBooks ==
  ASSUME BookInv, NEW r \in Reqs, RefuseJoined(r)
  PROVE  BookInv'
<1>1. TypeInv'
  BY RefuseJoinedType DEF BookInv
<1>2. /\ pc'[r] # "write" /\ Joined(doc'[r])
      /\ \A s \in Reqs \ {r} : pc'[s] = pc[s] /\ doc'[s] = doc[s] /\ line'[s] = line[s]
  BY DEF RefuseJoined, Advance, BookInv, TypeInv, TypeOK, Joined
<1> QED
  BY <1>1, <1>2, WalkBooks DEF RefuseJoined, lockVars

LEMMA LockLevelBooks ==
  ASSUME BookInv, NEW r \in Reqs, LockLevel(r)
  PROVE  BookInv'
<1> DEFINE c == Here(r).cell
<1>1. TypeInv' /\ c \in Cells
  BY LockLevelType, HereType DEF BookInv, LockLevel
<1>2. /\ doc' = doc /\ line' = line /\ delta' = delta /\ level' = level /\ booked' = booked
      /\ pc'[r] = "write"
      /\ \A s \in Reqs \ {r} : pc'[s] = pc[s] /\ work'[s] = work[s]
      /\ \A x \in Cells \ {c} : holder'[x] = holder[x] /\ work'[r][x] = work[r][x]
  BY <1>1 DEF LockLevel, stockVars, BookInv, TypeInv, TypeOK
<1>3. \A s \in Reqs : Here(s)' = Here(s)
  BY <1>2 DEF Here
<1>4. CASE /\ holder[c] \in {NoReq, r} /\ holder' = [holder EXCEPT ![c] = r]
           /\ work' = [work EXCEPT ![r][c] = IF holder[c] = r THEN @ ELSE level[c]]
  <2>1. holder'[c] = r /\ work'[r][c] <= level[c] + delta[r][c]
    <3>1. CASE holder[c] = r
      <4>1. work'[r][c] = work[r][c]
        BY <1>1, <1>4, <3>1 DEF BookInv, TypeInv, TypeOK
      <4> QED
        BY <1>1, <1>4, <3>1, <4>1 DEF BookInv, TypeInv, TypeOK, SightInv
    <3>2. CASE holder[c] # r
      <4>1. work'[r][c] = level[c] /\ level[c] \in Nat /\ delta[r][c] = 0
        BY <1>1, <1>4, <3>2 DEF BookInv, TypeInv, TypeOK, TxInv
      <4> QED
        BY <1>1, <1>4, <4>1 DEF BookInv, TypeInv, TypeOK
    <3> QED
      BY <3>1, <3>2
  <2>2. \A s \in Reqs \ {r} : holder[c] # s
    BY <1>4, StockAssumption
  <2>3. TxInv'
    BY <1>2, <2>1, <2>2 DEF BookInv, TxInv, NoWork, Joined, LockLevel
  <2>4. SightInv' /\ UnderBooked'
    <3>1. \A s \in Reqs : pc[s] = "write" => Here(s).cell \in Cells
      BY HereType DEF BookInv
    <3> QED
      BY <1>2, <1>3, <2>1, <2>2, <3>1 DEF BookInv, SightInv, UnderBooked
  <2> QED
    BY <1>1, <2>3, <2>4 DEF BookInv
<1>5. CASE ~ Sees(r, c) /\ work' = [work EXCEPT ![r][c] = 0] /\ UNCHANGED holder
  <2>1. holder[c] # r /\ work'[r][c] = 0
    BY <1>1, <1>5 DEF Sees, BookInv, TypeInv, TypeOK
  <2>2. TxInv'
    BY <1>2, <1>5 DEF BookInv, TxInv, NoWork, Joined, LockLevel
  <2>3. SightInv' /\ UnderBooked'
    BY <1>2, <1>3, <1>5, <2>1 DEF BookInv, SightInv, UnderBooked
  <2> QED
    BY <1>1, <2>2, <2>3 DEF BookInv
<1> QED
  BY <1>4, <1>5 DEF LockLevel

LEMMA WriteOwnBooks ==
  ASSUME BookInv, NEW r \in Reqs, WriteOwn(r)
  PROVE  BookInv'
<1> DEFINE c == Here(r).cell
           q == Here(r).qty
<1>1. TypeInv' /\ c \in Cells /\ q \in Int
  BY WriteOwnType, HereType DEF BookInv, WriteOwn
<1>2. delta[r] = NoWork
  BY DEF WriteOwn, BookInv, TxInv
<1>3. /\ delta' = delta /\ pc'[r] # "write" /\ (work'[r] = work[r] \/ work'[r] = NoWork)
      /\ \A s \in Reqs \ {r} : /\ pc'[s] = pc[s] /\ work'[s] = work[s]
                               /\ doc'[s] = doc[s] /\ line'[s] = line[s]
  BY <1>2 DEF WriteOwn, Answer, Advance, txVars, BookInv, TypeInv, TypeOK
<1>4. \A s \in Reqs \ {r} : Here(s)' = Here(s)
  BY <1>3 DEF Here
<1>5. /\ level'[c] = work[r][c] + q /\ booked'[c] = booked[c] + q /\ holder'[c] = NoReq
      /\ \A x \in Cells \ {c} :
           level'[x] = level[x] /\ booked'[x] = booked[x] /\ holder'[x] = holder[x]
      /\ holder[c] \in {NoReq, r}
  BY <1>1 DEF WriteOwn, BookInv, TypeInv, TypeOK
<1>6. work[r][c] <= booked[c]
  <2>1. level[c] \in Nat /\ work[r][c] \in Nat /\ booked[c] \in Int /\ level[c] <= booked[c]
    BY <1>1 DEF BookInv, TypeInv, TypeOK, UnderBooked
  <2>2. CASE holder[c] = r
    BY <1>1, <1>2, <2>1, <2>2 DEF BookInv, SightInv, NoWork
  <2>3. CASE holder[c] = NoReq
    <3>1. work[r][c] = 0
      BY <2>3, StockAssumption DEF WriteOwn, BookInv, SightInv
    <3> QED
      BY <2>1, <3>1
  <2> QED
    BY <1>5, <2>2, <2>3
<1>7. UnderBooked'
  <2>1. work[r][c] \in Nat /\ booked[c] \in Int
    BY <1>1 DEF BookInv, TypeInv, TypeOK
  <2>2. level'[c] <= booked'[c]
    BY <1>1, <1>5, <1>6, <2>1
  <2> QED
    BY <1>5, <2>2 DEF BookInv, UnderBooked
<1>8. TxInv'
  <2>1. \A s \in Reqs, x \in Cells : holder'[x] # s => delta'[s][x] = 0
    BY <1>2, <1>3, <1>5, StockAssumption DEF BookInv, TxInv, NoWork
  <2>2. \A s \in Reqs : pc'[s] # "idle" /\ ~ Joined(doc'[s]) => delta'[s] = NoWork
    BY <1>2, <1>3 DEF BookInv, TxInv, Joined
  <2> QED
    BY <2>1, <2>2 DEF TxInv, Joined, NoWork
<1>9. SightInv'
  <2>1. ASSUME NEW x \in Cells, holder'[x] = r
        PROVE  work'[r][x] <= level'[x] + delta'[r][x]
    <3>1. x # c /\ holder[x] = r
      BY <1>5, <2>1, StockAssumption
    <3>2. level[x] \in Nat /\ delta[r][x] = 0 /\ work[r][x] <= level[x] + delta[r][x]
      BY <1>2, <3>1 DEF NoWork, BookInv, SightInv, TypeInv, TypeOK
    <3> QED
      BY <1>3, <1>5, <3>1, <3>2 DEF NoWork
  <2>2. ASSUME NEW s \in Reqs \ {r}
        PROVE  /\ \A x \in Cells : holder'[x] = s => work'[s][x] <= level'[x] + delta'[s][x]
               /\ pc'[s] = "write" /\ holder'[Here(s).cell] # s => work'[s][Here(s).cell] = 0
    <3>1. \A x \in Cells : holder'[x] = s <=> holder[x] = s /\ x # c
      BY <1>5, StockAssumption
    <3>2. holder[c] # s
      BY <1>5, StockAssumption
    <3>3. pc[s] = "write" => Here(s).cell \in Cells
      BY HereType DEF BookInv
    <3> QED
      BY <1>3, <1>5, <3>1, <3>2, <3>3 DEF BookInv, SightInv
  <2> QED
    BY <1>3, <1>4, <2>1, <2>2 DEF SightInv
<1> QED
  BY <1>1, <1>7, <1>8, <1>9 DEF BookInv

LEMMA WriteJoinedBooks ==
  ASSUME BookInv, NEW r \in Reqs, WriteJoined(r)
  PROVE  BookInv'
<1> DEFINE c == Here(r).cell
           q == Here(r).qty
<1>1. TypeInv' /\ c \in Cells /\ q \in Int
  BY WriteJoinedType, HereType DEF BookInv, WriteJoined
<1>2. /\ level' = level /\ booked' = booked /\ doc' = doc /\ pc'[r] # "write"
      /\ \A s \in Reqs \ {r} : /\ pc'[s] = pc[s] /\ work'[s] = work[s]
                               /\ delta'[s] = delta[s] /\ line'[s] = line[s]
  BY DEF WriteJoined, Advance, stockVars, BookInv, TypeInv, TypeOK
<1>3. /\ holder'[c] = r /\ work'[r][c] = work[r][c] + q /\ delta'[r][c] = delta[r][c] + q
      /\ holder[c] \in {NoReq, r}
      /\ \A x \in Cells \ {c} :
           work'[r][x] = work[r][x] /\ delta'[r][x] = delta[r][x] /\ holder'[x] = holder[x]
  BY <1>1 DEF WriteJoined, BookInv, TypeInv, TypeOK
<1>4. \A s \in Reqs \ {r} : Here(s)' = Here(s) /\ holder[c] # s
  BY <1>2, <1>3, StockAssumption DEF Here
<1>5. work'[r][c] <= level[c] + delta'[r][c]
  <2>1. level[c] \in Nat /\ work[r][c] \in Nat /\ delta[r][c] \in Int
    BY <1>1 DEF BookInv, TypeInv, TypeOK
  <2>2. work[r][c] <= level[c] + delta[r][c]
    <3>1. CASE holder[c] = r
      BY <1>1, <3>1 DEF BookInv, SightInv
    <3>2. CASE holder[c] # r
      BY <1>1, <2>1, <3>2 DEF WriteJoined, BookInv, SightInv, TxInv
    <3> QED
      BY <3>1, <3>2
  <2> QED
    BY <1>1, <1>3, <2>1, <2>2
<1>6. TxInv'
  <2>1. Joined(doc[r])
    BY DEF WriteJoined
  <2> QED
    BY <1>2, <1>3, <1>4, <2>1 DEF BookInv, TxInv, Joined, NoWork
<1>7. SightInv' /\ UnderBooked'
  <2>1. \A s \in Reqs : pc[s] = "write" => Here(s).cell \in Cells
    BY HereType DEF BookInv
  <2> QED
    BY <1>2, <1>3, <1>4, <1>5, <2>1 DEF BookInv, SightInv, UnderBooked
<1> QED
  BY <1>1, <1>6, <1>7 DEF BookInv

LEMMA FinishDirectBooks ==
  ASSUME BookInv, NEW r \in Reqs, FinishDirect(r)
  PROVE  BookInv'
<1>1. TypeInv'
  BY FinishDirectType DEF BookInv
<1>2. /\ level' = level /\ booked' = booked /\ holder' = holder
      /\ pc'[r] = "idle" /\ work'[r] = NoWork /\ delta'[r] = NoWork /\ delta[r] = NoWork
      /\ \A s \in Reqs \ {r} : /\ pc'[s] = pc[s] /\ work'[s] = work[s] /\ delta'[s] = delta[s]
                               /\ doc'[s] = doc[s] /\ line'[s] = line[s]
  BY DEF FinishDirect, Answer, lockVars, BookInv, TypeInv, TypeOK, TxInv
<1>3. TxInv'
  BY <1>2 DEF BookInv, TxInv, Joined, NoWork
<1>4. SightInv' /\ UnderBooked'
  <2>1. \A s \in Reqs \ {r} : Here(s)' = Here(s)
    BY <1>2 DEF Here
  <2>2. \A x \in Cells : NoWork[x] = 0 /\ level[x] \in Nat
    BY DEF NoWork, BookInv, TypeInv, TypeOK
  <2> QED
    BY <1>2, <2>1, <2>2 DEF BookInv, SightInv, UnderBooked
<1> QED
  BY <1>1, <1>3, <1>4 DEF BookInv

LEMMA CommitJoinedBooks ==
  ASSUME BookInv, NEW r \in Reqs, CommitJoined(r)
  PROVE  BookInv'
<1>1. TypeInv'
  BY CommitJoinedType DEF BookInv
<1>2. /\ pc'[r] = "idle" /\ delta'[r] = NoWork
      /\ \A s \in Reqs \ {r} : /\ pc'[s] = pc[s] /\ work'[s] = work[s] /\ delta'[s] = delta[s]
                               /\ doc'[s] = doc[s] /\ line'[s] = line[s]
  BY DEF CommitJoined, Answer, BookInv, TypeInv, TypeOK
<1>3. \A x \in Cells : /\ holder'[x] = (IF holder[x] = r THEN NoReq ELSE holder[x])
                       /\ level'[x] = (IF holder[x] = r THEN work[r][x] ELSE level[x])
                       /\ booked'[x] = booked[x] + delta[r][x]
  BY DEF CommitJoined, Release, BookInv, TypeInv, TypeOK
<1>4. \A x \in Cells : /\ level[x] \in Nat /\ booked[x] \in Int /\ level[x] <= booked[x]
                       /\ delta[r][x] \in Int /\ work[r][x] \in Nat
                       /\ holder[x] = r => work[r][x] <= level[x] + delta[r][x]
                       /\ holder[x] # r => delta[r][x] = 0
  BY DEF BookInv, TypeInv, TypeOK, TxInv, SightInv, UnderBooked
<1>5. UnderBooked'
  BY <1>3, <1>4 DEF UnderBooked
<1>6. TxInv'
  BY SMTT(30), <1>2, <1>3, StockAssumption DEF BookInv, TxInv, Joined, NoWork
<1>7. SightInv'
  <2>1. \A x \in Cells : holder'[x] # r
    BY <1>3, StockAssumption
  <2>2. \A s \in Reqs \ {r}, x \in Cells :
          /\ holder'[x] = s <=> holder[x] = s
          /\ holder[x] = s => level'[x] = level[x]
    BY <1>3, StockAssumption
  <2>3. ASSUME NEW s \in Reqs \ {r}, NEW x \in Cells, holder'[x] = s
        PROVE  work'[s][x] <= level'[x] + delta'[s][x]
    BY <1>2, <2>2, <2>3 DEF BookInv, SightInv
  <2>4. ASSUME NEW s \in Reqs \ {r}, pc'[s] = "write", holder'[Here(s)'.cell] # s
        PROVE  work'[s][Here(s)'.cell] = 0
    <3>1. pc[s] = "write" /\ Here(s)' = Here(s) /\ work'[s] = work[s]
      BY <1>2, <2>4 DEF Here
    <3>2. Here(s).cell \in Cells
      BY <3>1, HereType DEF BookInv
    <3>3. holder[Here(s).cell] # s
      BY <2>2, <2>4, <3>1, <3>2
    <3>4. work[s][Here(s).cell] = 0
      BY <3>1, <3>3 DEF BookInv, SightInv
    <3> QED
      BY <3>1, <3>4
  <2>5. \A x \in Cells : holder'[x] = r => work'[r][x] <= level'[x] + delta'[r][x]
    BY <2>1
  <2> QED
    BY <1>2, <2>3, <2>4, <2>5 DEF SightInv
<1> QED
  BY <1>1, <1>5, <1>6, <1>7 DEF BookInv

LEMMA CancelBooks ==
  ASSUME BookInv, NEW d \in Docs, Cancel(d)
  PROVE  BookInv'
  BY CancelType
  DEF BookInv, TxInv, SightInv, UnderBooked, Cancel, lockVars, txVars, Here, Joined, NoWork

LEMMA StepBooks == BookInv /\ [Next]_vars => BookInv'
<1> SUFFICES ASSUME BookInv, [Next]_vars PROVE BookInv'
  OBVIOUS
<1>1. ASSUME NEW r \in Reqs, NEW d \in Docs, Begin(r, d) PROVE BookInv'
  BY <1>1, BeginBooks
<1>2. ASSUME NEW r \in Reqs, Continue(r) PROVE BookInv'
  BY <1>2, CheckBooks, FailBooks, RefuseJoinedBooks, FinishDirectBooks, CommitJoinedBooks
  DEF Continue, RefuseOwn, RollbackJoined, AbortDeadlocked
<1>3. ASSUME NEW r \in Reqs,
             TakeCounter(r) \/ LockLevel(r) \/ WriteOwn(r) \/ WriteJoined(r) \/ Crash(r)
      PROVE  BookInv'
  BY <1>3, TakeCounterBooks, LockLevelBooks, WriteOwnBooks, WriteJoinedBooks, FailBooks DEF Crash
<1>4. ASSUME NEW d \in Docs, Cancel(d) PROVE BookInv'
  BY <1>4, CancelBooks
<1>5. CASE UNCHANGED vars
  BY <1>5 DEF BookInv, TypeInv, TypeOK, JobOK, TxInv, SightInv, UnderBooked, Here, vars,
              LineNos, Joined, NoWork
<1> QED
  BY <1>1, <1>2, <1>3, <1>4, <1>5 DEF Next

LEMMA InitBooks == Init => BookInv
<1> SUFFICES ASSUME Init PROVE BookInv
  OBVIOUS
<1>1. TypeInv
  BY InitType
<1>2. TxInv /\ SightInv
  BY StockAssumption DEF Init, TxInv, SightInv, NoWork
<1>3. UnderBooked
  BY StockAssumption DEF Init, UnderBooked
<1> QED
  BY <1>1, <1>2, <1>3 DEF BookInv

\* The movement ledger never takes out of a cell more than was put in, although
\* availability is checked without a lock, and even where the first postings of a
\* cell race for its row (catalog/domain.go:176, catalog/store.go:153).
THEOREM NeverOversells == Spec => []NeverOversold
<1>1. Spec => []BookInv
  BY InitBooks, StepBooks, PTL DEF Spec
<1>2. BookInv => NeverOversold
  BY DEF BookInv, TypeInv, TypeOK, UnderBooked, NeverOversold
<1> QED
  BY <1>1, <1>2, PTL

-----------------------------------------------------------------------------
(* Lines and levels: what a workflow has moved, and what a row that exists   *)
(* says.                                                                     *)

\* The other requests keep their places.
LEMMA OthersStay ==
  ASSUME TypeInv, NEW r \in Reqs, NEW s \in Reqs \ {r},
         \/ TakeCounter(r) \/ LockLevel(r) \/ WriteOwn(r) \/ WriteJoined(r)
         \/ Continue(r) \/ Crash(r) \/ \E d \in Docs : Begin(r, d)
  PROVE  /\ pc'[s] = pc[s] /\ doc'[s] = doc[s] /\ line'[s] = line[s]
         /\ work'[s] = work[s] /\ delta'[s] = delta[s]
<1> USE DEF TypeInv, TypeOK
<1>1. CASE TakeCounter(r) \/ LockLevel(r)
  BY <1>1 DEF TakeCounter, LockLevel, txVars
<1>2. CASE WriteOwn(r) \/ WriteJoined(r)
  BY <1>2 DEF WriteOwn, WriteJoined, Answer, Advance, txVars
<1>3. CASE Check(r) \/ RefuseJoined(r)
  BY <1>3 DEF Check, RefuseJoined, Fail, Answer, Advance, txVars
<1>4. CASE Fail(r) \/ FinishDirect(r) \/ CommitJoined(r)
  BY <1>4 DEF Fail, FinishDirect, CommitJoined, Answer
<1>5. CASE \E d \in Docs : Begin(r, d)
  BY <1>5 DEF Begin, txVars
<1> QED
  BY <1>1, <1>2, <1>3, <1>4, <1>5 DEF Continue, RefuseOwn, RollbackJoined, AbortDeadlocked, Crash

LEMMA MovedGrows ==
  ASSUME TypeInv, [Next]_vars, NEW d \in Docs, NEW i \in LineNos(d)
  PROVE  moved'[d][i] >= moved[d][i]
<1>1. moved[d] \in [LineNos(d) -> Nat] /\ moved[d][i] \in Nat
  BY DEF TypeInv, TypeOK
<1>2. ASSUME NEW r \in Reqs, WriteOwn(r) PROVE moved'[d][i] >= moved[d][i]
  <2>1. doc[r] \in Docs /\ line[r] \in LineNos(doc[r])
    BY <1>2 DEF WriteOwn, TypeInv, JobOK
  <2>2. moved' = [moved EXCEPT ![doc[r]][line[r]] = @ + 1]
    BY <1>2 DEF WriteOwn
  <2>3. moved'[d][i] \in {moved[d][i], moved[d][i] + 1}
    BY <1>1, <2>1, <2>2 DEF TypeInv, TypeOK
  <2> QED
    BY <1>1, <2>3
<1>3. ASSUME NEW r \in Reqs, CommitJoined(r) PROVE moved'[d][i] >= moved[d][i]
  <2>1. doc[r] \in Docs
    BY <1>3 DEF CommitJoined, TypeInv, JobOK
  <2>2. moved'[d][i] \in {moved[d][i], moved[d][i] + 1}
    BY <1>1, <1>3, <2>1 DEF CommitJoined, TypeInv, TypeOK
  <2> QED
    BY <1>1, <2>2
<1>4. CASE UNCHANGED moved
  BY <1>1, <1>4
<1> QED
  BY <1>2, <1>3, <1>4
  DEF Next, Begin, TakeCounter, LockLevel, WriteJoined, Continue, Check, RefuseOwn, RefuseJoined,
      FinishDirect, RollbackJoined, AbortDeadlocked, Crash, Cancel, Fail, stockVars, vars

\* A workflow without a transaction of its own has posted the lines before the
\* one it works on, and all of them before it flips the document.
PassedInv ==
  \A r \in Reqs : pc[r] # "idle" /\ ~ Joined(doc[r]) =>
    /\ pc[r] \in {"lock", "write"} =>
         \A i \in LineNos(doc[r]) : i < line[r] => moved[doc[r]][i] >= 1
    /\ pc[r] = "finish" => \A i \in LineNos(doc[r]) : moved[doc[r]][i] >= 1

LineInv == TypeInv /\ PassedInv /\ DoneMeansMoved

\* What a request has passed stays moved while it does not act.
LEMMA PassedStays ==
  ASSUME TypeInv, PassedInv, [Next]_vars, NEW s \in Reqs,
         pc'[s] = pc[s], doc'[s] = doc[s], line'[s] = line[s],
         pc'[s] # "idle", ~ Joined(doc'[s])
  PROVE  /\ pc'[s] \in {"lock", "write"} =>
              \A i \in LineNos(doc'[s]) : i < line'[s] => moved'[doc'[s]][i] >= 1
         /\ pc'[s] = "finish" => \A i \in LineNos(doc'[s]) : moved'[doc'[s]][i] >= 1
<1>1. doc[s] \in Docs
  BY DEF TypeInv, JobOK
<1>2. \A i \in LineNos(doc[s]) : moved'[doc[s]][i] >= moved[doc[s]][i]
                                 /\ moved[doc[s]][i] \in Nat /\ moved'[doc[s]][i] \in Nat
  BY <1>1, MovedGrows, StepType DEF TypeInv, TypeOK, LineNos
<1>3. ASSUME NEW i \in LineNos(doc[s]), moved[doc[s]][i] >= 1 PROVE moved'[doc[s]][i] >= 1
  BY <1>2, <1>3
<1> QED
  BY <1>1, <1>3 DEF PassedInv

\* A request that acts has passed what it claims afterwards.
LEMMA ActorPasses ==
  ASSUME TypeInv, PassedInv, [Next]_vars, NEW r \in Reqs,
         \/ TakeCounter(r) \/ LockLevel(r) \/ WriteOwn(r) \/ WriteJoined(r)
         \/ Continue(r) \/ Crash(r) \/ \E d \in Docs : Begin(r, d),
         pc'[r] # "idle", ~ Joined(doc'[r])
  PROVE  /\ pc'[r] \in {"lock", "write"} =>
              \A i \in LineNos(doc'[r]) : i < line'[r] => moved'[doc'[r]][i] >= 1
         /\ pc'[r] = "finish" => \A i \in LineNos(doc'[r]) : moved'[doc'[r]][i] >= 1
<1>1. CASE LockLevel(r)
  <2>1. doc' = doc /\ line' = line /\ moved' = moved /\ pc[r] = "lock" /\ pc'[r] = "write"
    BY <1>1 DEF LockLevel, stockVars, TypeInv, TypeOK
  <2> QED
    BY <2>1 DEF PassedInv
<1>2. CASE WriteOwn(r)
  <2>1. doc[r] \in Docs /\ line[r] \in LineNos(doc[r]) /\ Len(Lines[doc[r]]) \in Nat
    BY <1>2, StockAssumption DEF WriteOwn, TypeInv, JobOK
  <2>2. Advance(r, "lock", "finish") /\ pc[r] = "write" /\ ~ Joined(doc[r])
    BY <1>2 DEF WriteOwn, Answer, TypeInv, TypeOK
  <2>3. doc' = doc
    BY <2>2 DEF Advance
  <2>4. moved'[doc[r]][line[r]] >= 1
    <3>1. moved[doc[r]] \in [LineNos(doc[r]) -> Nat]
      BY <2>1 DEF TypeInv, TypeOK
    <3>2. moved'[doc[r]][line[r]] = moved[doc[r]][line[r]] + 1
      BY <1>2, <2>1, <3>1 DEF WriteOwn, TypeInv, TypeOK
    <3> QED
      BY <2>1, <3>1, <3>2
  <2>5. \A i \in LineNos(doc[r]) : i < line[r] => moved'[doc[r]][i] >= 1
    <3>1. ASSUME NEW i \in LineNos(doc[r]), i < line[r] PROVE moved'[doc[r]][i] >= 1
      <4>1. moved[doc[r]][i] >= 1 /\ moved'[doc[r]][i] >= moved[doc[r]][i]
        BY <2>1, <2>2, <3>1, MovedGrows DEF PassedInv
      <4>2. moved[doc[r]][i] \in Nat /\ moved'[doc[r]][i] \in Nat
        BY <2>1, StepType DEF TypeInv, TypeOK, LineNos
      <4> QED
        BY <4>1, <4>2
    <3> QED
      BY <3>1
  <2>6. /\ LastLine(r) => pc'[r] = "finish" /\ line[r] = Len(Lines[doc[r]])
        /\ ~ LastLine(r) => pc'[r] = "lock" /\ line'[r] = line[r] + 1
    BY <2>2 DEF Advance, LastLine, TypeInv, TypeOK
  <2> QED
    BY <2>1, <2>3, <2>4, <2>5, <2>6 DEF LineNos
<1>3. CASE \E d \in Docs : Begin(r, d)
  <2>1. line'[r] = 1 /\ pc'[r] \in {"check", "lock"} /\ doc'[r] \in Docs
    BY <1>3 DEF Begin, TypeInv, TypeOK, JobOK
  <2> QED
    BY <2>1, LineNosType DEF LineNos
<1>4. CASE TakeCounter(r) \/ WriteJoined(r) \/ Check(r) \/ RefuseJoined(r)
  <2>1. CASE Fail(r)
    BY <2>1 DEF Fail, Answer, TypeInv, TypeOK
  <2>2. CASE ~ Fail(r)
    BY <1>4, <2>2 DEF TakeCounter, WriteJoined, Check, RefuseJoined, Advance, TypeInv, JobOK
  <2> QED
    BY <2>1, <2>2
<1>5. CASE Fail(r) \/ FinishDirect(r) \/ CommitJoined(r)
  BY <1>5 DEF Fail, FinishDirect, CommitJoined, Answer, TypeInv, TypeOK
<1> QED
  BY <1>1, <1>2, <1>3, <1>4, <1>5 DEF Continue, RefuseOwn, RollbackJoined, AbortDeadlocked, Crash

LEMMA PassedStep ==
  ASSUME TypeInv, PassedInv, [Next]_vars
  PROVE  PassedInv'
<1> DEFINE Acts(r) == \/ TakeCounter(r) \/ LockLevel(r) \/ WriteOwn(r) \/ WriteJoined(r)
                      \/ Continue(r) \/ Crash(r) \/ \E d \in Docs : Begin(r, d)
<1> SUFFICES ASSUME NEW s \in Reqs, pc'[s] # "idle", ~ Joined(doc'[s])
             PROVE  /\ pc'[s] \in {"lock", "write"} =>
                         \A i \in LineNos(doc'[s]) : i < line'[s] => moved'[doc'[s]][i] >= 1
                    /\ pc'[s] = "finish" => \A i \in LineNos(doc'[s]) : moved'[doc'[s]][i] >= 1
  BY DEF PassedInv, Joined, LineNos
<1>1. CASE Acts(s)
  BY <1>1, ActorPasses
<1>2. CASE \E r \in Reqs \ {s} : Acts(r)
  BY <1>2, OthersStay, PassedStays
<1>3. CASE (\E d \in Docs : Cancel(d)) \/ UNCHANGED vars
  BY <1>3, PassedStays DEF Cancel, vars
<1> QED
  BY <1>1, <1>2, <1>3 DEF Next

LEMMA DoneStep ==
  ASSUME TypeInv, PassedInv, DoneMeansMoved, [Next]_vars
  PROVE  DoneMeansMoved'
<1> SUFFICES ASSUME NEW d \in Docs, Kind[d] = "direct", status'[d] = "done", NEW i \in LineNos(d)
             PROVE  moved'[d][i] >= 1
  BY DEF DoneMeansMoved, LineNos
<1>1. moved'[d][i] >= moved[d][i] /\ moved[d][i] \in Nat /\ moved'[d][i] \in Nat
  BY MovedGrows, StepType DEF TypeInv, TypeOK, LineNos
<1>2. CASE status[d] = "done"
  BY <1>1, <1>2 DEF DoneMeansMoved
<1>3. ASSUME NEW r \in Reqs, FinishDirect(r), status[d] # "done" PROVE moved'[d][i] >= 1
  <2>1. doc[r] = d
    BY <1>3 DEF FinishDirect, TypeInv, TypeOK
  <2>2. moved[d][i] >= 1
    BY <1>3, <2>1 DEF FinishDirect, PassedInv
  <2> QED
    BY <1>1, <2>2
<1>4. CASE status[d] # "done" /\ ~ \E r \in Reqs : FinishDirect(r)
  <2>1. ASSUME NEW r \in Reqs, WriteOwn(r) PROVE status'[d] = status[d]
    BY <2>1 DEF WriteOwn, TypeInv, TypeOK
  <2>2. ASSUME NEW r \in Reqs, CommitJoined(r) PROVE status'[d] = status[d]
    BY <2>2 DEF CommitJoined, Joined, TypeInv, TypeOK
  <2>3. ASSUME NEW e \in Docs, Cancel(e) PROVE status'[d] # "done"
    BY <1>4, <2>3 DEF Cancel, TypeInv, TypeOK
  <2>4. CASE UNCHANGED status
    BY <1>4, <2>4
  <2> QED
    BY <1>4, <2>1, <2>2, <2>3, <2>4
    DEF Next, Begin, TakeCounter, LockLevel, WriteJoined, Continue, Check, RefuseOwn, RefuseJoined,
        RollbackJoined, AbortDeadlocked, Crash, Fail, stockVars, vars
<1> QED
  BY <1>2, <1>3, <1>4

\* A transfer, a shipment or a reception that is marked done has posted every one
\* of its lines, whichever requests did it and however many of them died or were
\* refused on the way (stocktransfer/service.go:59).
THEOREM DoneIsMoved == Spec => []DoneMeansMoved
<1>1. Init => LineInv
  BY InitType DEF Init, LineInv, PassedInv, DoneMeansMoved
<1>2. LineInv /\ [Next]_vars => LineInv'
  BY StepType, PassedStep, DoneStep DEF LineInv
<1>3. LineInv => DoneMeansMoved
  BY DEF LineInv
<1> QED
  BY <1>1, <1>2, <1>3, PTL DEF Spec

\* The rows that were there at the start are never deleted, a posting works on
\* the row it has locked and knows its level exactly, and without a joined
\* transaction it holds no other row.
RowInv ==
  /\ Stocked \subseteq known
  /\ \A r \in Reqs, c \in Stocked :
       /\ holder[c] = r => /\ work[r][c] = level[c] + delta[r][c]
                           /\ pc[r] # "idle"
                           /\ ~ Joined(doc[r]) => pc[r] = "write" /\ Here(r).cell = c
       /\ pc[r] = "write" /\ Here(r).cell = c => holder[c] = r

SumInv == BookInv /\ RowInv /\ KnownLevelIsSum

LEMMA FailSums ==
  ASSUME SumInv, NEW r \in Reqs, Fail(r)
  PROVE  RowInv' /\ KnownLevelIsSum'
<1>1. UNCHANGED <<level, known, booked>>
  BY DEF Fail, stockVars
<1>2. pc'[r] # "write" /\ \A c \in Cells : /\ holder'[c] # r
                                           /\ \A s \in Reqs \ {r} : holder'[c] = s <=> holder[c] = s
  BY StockAssumption DEF Fail, Answer, Release, SumInv, BookInv, TypeInv, TypeOK
<1>3. \A s \in Reqs \ {r} : /\ pc'[s] = pc[s] /\ doc'[s] = doc[s] /\ work'[s] = work[s]
                            /\ delta'[s] = delta[s] /\ Here(s)' = Here(s)
  BY OthersStay DEF Crash, Fail, Answer, SumInv, BookInv, TypeInv, TypeOK, Here
<1> QED
  BY <1>1, <1>2, <1>3, StockAssumption DEF SumInv, RowInv, KnownLevelIsSum, Joined

\* Steps that neither lock nor commit.
LEMMA WalkSums ==
  ASSUME SumInv, NEW r \in Reqs, UNCHANGED <<stockVars, holder, txVars>>,
         \A s \in Reqs \ {r} : pc'[s] = pc[s] /\ doc'[s] = doc[s] /\ line'[s] = line[s],
         pc'[r] \notin {"write", "idle"},
         ~ Joined(doc'[r]) => \A c \in Stocked : holder[c] # r
  PROVE  RowInv' /\ KnownLevelIsSum'
<1>1. \A s \in Reqs \ {r} : Here(s)' = Here(s)
  BY DEF Here
<1> QED
  BY <1>1 DEF SumInv, RowInv, KnownLevelIsSum, Joined, stockVars, txVars

LEMMA LockLevelSums ==
  ASSUME SumInv, NEW r \in Reqs, LockLevel(r)
  PROVE  RowInv' /\ KnownLevelIsSum'
<1> DEFINE c == Here(r).cell
<1>1. c \in Cells
  BY HereType DEF SumInv, BookInv, LockLevel
<1>2. /\ doc' = doc /\ line' = line /\ delta' = delta
      /\ level' = level /\ known' = known /\ booked' = booked
      /\ \A s \in Reqs \ {r} : pc'[s] = pc[s] /\ work'[s] = work[s]
      /\ \A x \in Cells \ {c} : holder'[x] = holder[x] /\ work'[r][x] = work[r][x]
  BY <1>1 DEF LockLevel, stockVars, SumInv, BookInv, TypeInv, TypeOK
<1>3. \A s \in Reqs : Here(s)' = Here(s)
  BY <1>2 DEF Here
<1>4. ASSUME c \in Stocked
      PROVE  /\ holder[c] \in {NoReq, r} /\ holder'[c] = r
             /\ work'[r][c] = level[c] + delta[r][c]
  <2>1. Sees(r, c)
    BY <1>4 DEF Sees, SumInv, RowInv
  <2>2. /\ holder[c] \in {NoReq, r} /\ holder' = [holder EXCEPT ![c] = r]
        /\ work' = [work EXCEPT ![r][c] = IF holder[c] = r THEN @ ELSE level[c]]
    BY <2>1 DEF LockLevel
  <2>3. CASE holder[c] = r
    BY <1>1, <1>4, <2>2, <2>3 DEF SumInv, RowInv, BookInv, TypeInv, TypeOK
  <2>4. CASE holder[c] # r
    <3>1. delta[r][c] = 0 /\ level[c] \in Nat
      BY <1>1, <2>4 DEF SumInv, BookInv, TxInv, TypeInv, TypeOK
    <3> QED
      BY <1>1, <2>2, <2>4, <3>1 DEF SumInv, BookInv, TypeInv, TypeOK
  <2> QED
    BY <2>2, <2>3, <2>4
<1>5. RowInv'
  <2>1. Stocked \subseteq known'
    BY <1>2 DEF SumInv, RowInv
  <2>2. ASSUME NEW s \in Reqs, NEW x \in Stocked
        PROVE  /\ holder'[x] = s => /\ work'[s][x] = level[x] + delta[s][x]
                                    /\ pc'[s] # "idle"
                                    /\ ~ Joined(doc[s]) => pc'[s] = "write" /\ Here(s).cell = x
               /\ pc'[s] = "write" /\ Here(s).cell = x => holder'[x] = s
    <3>1. x \in Cells
      BY StockAssumption
    <3>2. CASE s = r
      <4>1. pc'[r] = "write" /\ pc[r] = "lock"
        BY DEF LockLevel, SumInv, BookInv, TypeInv, TypeOK
      <4> QED
        BY <1>2, <1>4, <3>1, <3>2, <4>1 DEF SumInv, RowInv
    <3>3. CASE s # r /\ x = c
      BY <1>2, <1>4, <3>1, <3>3, StockAssumption DEF SumInv, RowInv
    <3>4. CASE s # r /\ x # c
      BY <1>2, <3>1, <3>4 DEF SumInv, RowInv
    <3> QED
      BY <3>2, <3>3, <3>4
  <2> QED
    BY <1>2, <1>3, <2>1, <2>2 DEF RowInv, Joined
<1>6. KnownLevelIsSum'
  BY <1>2 DEF SumInv, KnownLevelIsSum
<1> QED
  BY <1>5, <1>6

LEMMA WriteOwnSums ==
  ASSUME SumInv, NEW r \in Reqs, WriteOwn(r)
  PROVE  RowInv' /\ KnownLevelIsSum'
<1> DEFINE c == Here(r).cell
           q == Here(r).qty
<1>1. c \in Cells /\ q \in Int
  BY HereType DEF SumInv, BookInv, WriteOwn
<1>2. delta[r] = NoWork /\ pc[r] = "write"
  BY DEF WriteOwn, SumInv, BookInv, TxInv
<1>3. /\ delta' = delta /\ pc'[r] # "write" /\ (work'[r] = work[r] \/ work'[r] = NoWork)
  BY <1>2 DEF WriteOwn, Answer, Advance, txVars, SumInv, BookInv, TypeInv, TypeOK
<1>4. \A s \in Reqs \ {r} : pc'[s] = pc[s] /\ doc'[s] = doc[s] /\ work'[s] = work[s]
                            /\ Here(s)' = Here(s)
  BY OthersStay DEF SumInv, BookInv, Here
<1>5. /\ level'[c] = work[r][c] + q /\ booked'[c] = booked[c] + q /\ holder'[c] = NoReq
      /\ \A x \in Cells \ {c} :
           level'[x] = level[x] /\ booked'[x] = booked[x] /\ holder'[x] = holder[x]
      /\ holder[c] \in {NoReq, r} /\ known \subseteq known'
  BY <1>1 DEF WriteOwn, SumInv, BookInv, TypeInv, TypeOK
<1>6. c \in Stocked => work[r][c] = level[c]
  <2>1. c \in Stocked => work[r][c] = level[c] + delta[r][c]
    BY <1>2 DEF SumInv, RowInv
  <2> QED
    BY <1>1, <1>2, <2>1 DEF NoWork, SumInv, BookInv, TypeInv, TypeOK
<1>7. KnownLevelIsSum'
  BY <1>1, <1>5, <1>6, StockAssumption DEF SumInv, KnownLevelIsSum
<1>8. RowInv'
  <2>1. Stocked \subseteq known'
    BY <1>5 DEF SumInv, RowInv
  <2>2. \A x \in Stocked : holder'[x] # r
    <3>1. \A x \in Stocked : holder[x] = r => x = c
      BY DEF WriteOwn, SumInv, RowInv
    <3> QED
      BY <1>5, <3>1, StockAssumption
  <2>3. ASSUME NEW s \in Reqs \ {r}, NEW x \in Stocked
        PROVE  /\ holder'[x] = s =>
                    /\ work'[s][x] = level'[x] + delta'[s][x]
                    /\ pc'[s] # "idle"
                    /\ ~ Joined(doc'[s]) => pc'[s] = "write" /\ Here(s)'.cell = x
               /\ pc'[s] = "write" /\ Here(s)'.cell = x => holder'[x] = s
    <3>1. x \in Cells /\ (holder[x] = s => x # c)
      BY <1>5, StockAssumption
    <3>2. holder'[x] = s <=> holder[x] = s
      BY <1>5, <3>1, StockAssumption
    <3> QED
      BY <1>3, <1>4, <1>5, <3>1, <3>2, <2>3 DEF SumInv, RowInv
  <2> QED
    BY <1>3, <2>1, <2>2, <2>3 DEF RowInv, Joined
<1> QED
  BY <1>7, <1>8

LEMMA WriteJoinedSums ==
  ASSUME SumInv, NEW r \in Reqs, WriteJoined(r)
  PROVE  RowInv' /\ KnownLevelIsSum'
<1> DEFINE c == Here(r).cell
           q == Here(r).qty
<1>1. c \in Cells /\ q \in Int /\ Joined(doc[r])
  BY HereType DEF SumInv, BookInv, WriteJoined
<1>2. /\ level' = level /\ known' = known /\ booked' = booked
      /\ doc' = doc /\ pc'[r] \in {"lock", "finish"}
  BY DEF WriteJoined, Advance, stockVars, SumInv, BookInv, TypeInv, TypeOK
<1>3. \A s \in Reqs \ {r} : /\ pc'[s] = pc[s] /\ work'[s] = work[s]
                            /\ delta'[s] = delta[s] /\ Here(s)' = Here(s)
  BY OthersStay DEF SumInv, BookInv, Here
<1>4. /\ holder'[c] = r /\ work'[r][c] = work[r][c] + q /\ delta'[r][c] = delta[r][c] + q
      /\ holder[c] \in {NoReq, r}
      /\ \A x \in Cells \ {c} :
           work'[r][x] = work[r][x] /\ delta'[r][x] = delta[r][x] /\ holder'[x] = holder[x]
  BY <1>1 DEF WriteJoined, SumInv, BookInv, TypeInv, TypeOK
<1>5. c \in Stocked => work'[r][c] = level[c] + delta'[r][c]
  <2>1. c \in Stocked => work[r][c] = level[c] + delta[r][c]
    BY DEF WriteJoined, SumInv, RowInv
  <2>2. work[r][c] \in Nat /\ level[c] \in Nat /\ delta[r][c] \in Int
    BY <1>1 DEF SumInv, BookInv, TypeInv, TypeOK
  <2> QED
    BY <1>1, <1>4, <2>1, <2>2
<1>6. RowInv'
  <2>1. ASSUME NEW x \in Stocked, holder'[x] = r PROVE work'[r][x] = level[x] + delta'[r][x]
    BY <1>4, <1>5, <2>1, StockAssumption DEF SumInv, RowInv
  <2>2. ASSUME NEW s \in Reqs \ {r}, NEW x \in Stocked
        PROVE  holder'[x] = s <=> holder[x] = s
    BY <1>4, <2>2, StockAssumption
  <2> QED
    BY <1>1, <1>2, <1>3, <2>1, <2>2 DEF SumInv, RowInv, Joined
<1>7. KnownLevelIsSum'
  BY <1>2 DEF SumInv, KnownLevelIsSum
<1> QED
  BY <1>6, <1>7

LEMMA FinishDirectSums ==
  ASSUME SumInv, NEW r \in Reqs, FinishDirect(r)
  PROVE  RowInv' /\ KnownLevelIsSum'
<1>1. UNCHANGED <<level, known, booked, holder>>
  BY DEF FinishDirect, lockVars
<1>2. pc'[r] = "idle" /\ \A x \in Stocked : holder[x] # r
  BY DEF FinishDirect, Answer, SumInv, RowInv, BookInv, TypeInv, TypeOK
<1>3. \A s \in Reqs \ {r} : /\ pc'[s] = pc[s] /\ doc'[s] = doc[s] /\ work'[s] = work[s]
                            /\ delta'[s] = delta[s] /\ Here(s)' = Here(s)
  BY OthersStay DEF Continue, SumInv, BookInv, Here
<1> QED
  BY <1>1, <1>2, <1>3 DEF SumInv, RowInv, KnownLevelIsSum, Joined

LEMMA CommitJoinedSums ==
  ASSUME SumInv, NEW r \in Reqs, CommitJoined(r)
  PROVE  RowInv' /\ KnownLevelIsSum'
<1>1. /\ pc'[r] = "idle" /\ known \subseteq known'
      /\ \A x \in Cells : /\ holder'[x] = (IF holder[x] = r THEN NoReq ELSE holder[x])
                          /\ level'[x] = (IF holder[x] = r THEN work[r][x] ELSE level[x])
                          /\ booked'[x] = booked[x] + delta[r][x]
  BY DEF CommitJoined, Answer, Release, SumInv, BookInv, TypeInv, TypeOK
<1>2. \A s \in Reqs \ {r} : /\ pc'[s] = pc[s] /\ doc'[s] = doc[s] /\ work'[s] = work[s]
                            /\ delta'[s] = delta[s] /\ Here(s)' = Here(s)
  BY OthersStay DEF Continue, SumInv, BookInv, Here
<1>3. KnownLevelIsSum'
  <2>1. ASSUME NEW x \in Stocked PROVE level'[x] = booked'[x]
    <3>1. x \in Cells /\ level[x] = booked[x] /\ level[x] \in Nat
      BY StockAssumption DEF SumInv, KnownLevelIsSum, BookInv, TypeInv, TypeOK
    <3>2. CASE holder[x] = r
      BY <1>1, <3>1, <3>2 DEF SumInv, RowInv
    <3>3. CASE holder[x] # r
      <4>1. delta[r][x] = 0
        BY <3>1, <3>3 DEF SumInv, BookInv, TxInv
      <4> QED
        BY <1>1, <3>1, <3>3, <4>1
    <3> QED
      BY <3>2, <3>3
  <2> QED
    BY <2>1 DEF KnownLevelIsSum
<1>4. RowInv'
  <2>1. Stocked \subseteq known' /\ \A x \in Stocked : holder'[x] # r
    BY <1>1, StockAssumption DEF SumInv, RowInv
  <2>2. \A s \in Reqs \ {r}, x \in Stocked :
          /\ holder'[x] = s <=> holder[x] = s
          /\ holder[x] = s => level'[x] = level[x]
    BY <1>1, StockAssumption
  <2> QED
    BY <1>1, <1>2, <2>1, <2>2 DEF SumInv, RowInv, Joined
<1> QED
  BY <1>3, <1>4

LEMMA StepSums == SumInv /\ [Next]_vars => SumInv'
<1> SUFFICES ASSUME SumInv, [Next]_vars PROVE RowInv' /\ KnownLevelIsSum'
  BY StepBooks DEF SumInv
<1>0. TypeInv
  BY DEF SumInv, BookInv
<1>1. ASSUME NEW r \in Reqs, NEW d \in Docs, Begin(r, d) PROVE RowInv' /\ KnownLevelIsSum'
  <2>1. pc'[r] \in {"check", "lock"} /\ \A c \in Stocked : holder[c] # r
    BY <1>1 DEF Begin, SumInv, RowInv, BookInv, TypeInv, TypeOK
  <2>2. \A s \in Reqs \ {r} : pc'[s] = pc[s] /\ doc'[s] = doc[s] /\ line'[s] = line[s]
    BY <1>0, <1>1, OthersStay
  <2> QED
    BY <1>1, <2>1, <2>2, WalkSums DEF Begin, lockVars
<1>2. ASSUME NEW r \in Reqs, Check(r) \/ TakeCounter(r) \/ RefuseJoined(r)
      PROVE  RowInv' /\ KnownLevelIsSum'
  <2>1. CASE Fail(r)
    BY <2>1, FailSums
  <2>2. CASE ~ Fail(r)
    <3>1. /\ UNCHANGED <<stockVars, holder, txVars>>
          /\ pc'[r] \notin {"write", "idle"} /\ Joined(doc'[r])
      BY <1>0, <1>2, <2>2
      DEF Check, TakeCounter, RefuseJoined, Advance, lockVars, TypeInv, TypeOK, JobOK
    <3>2. \A s \in Reqs \ {r} : pc'[s] = pc[s] /\ doc'[s] = doc[s] /\ line'[s] = line[s]
      BY <1>0, <1>2, OthersStay DEF Continue
    <3> QED
      BY <3>1, <3>2, WalkSums
  <2> QED
    BY <2>1, <2>2
<1>3. ASSUME NEW r \in Reqs, LockLevel(r) \/ WriteOwn(r) \/ WriteJoined(r)
      PROVE  RowInv' /\ KnownLevelIsSum'
  BY <1>3, LockLevelSums, WriteOwnSums, WriteJoinedSums
<1>4. ASSUME NEW r \in Reqs, Fail(r) \/ FinishDirect(r) \/ CommitJoined(r)
      PROVE  RowInv' /\ KnownLevelIsSum'
  BY <1>4, FailSums, FinishDirectSums, CommitJoinedSums
<1>5. ASSUME NEW d \in Docs, Cancel(d) PROVE RowInv' /\ KnownLevelIsSum'
  BY <1>5 DEF Cancel, lockVars, txVars, SumInv, RowInv, KnownLevelIsSum, Here, Joined
<1>6. CASE UNCHANGED vars
  BY <1>6 DEF vars, SumInv, RowInv, KnownLevelIsSum, Here, Joined
<1> QED
  BY <1>1, <1>2, <1>3, <1>4, <1>5, <1>6
  DEF Next, Continue, RefuseOwn, RollbackJoined, AbortDeadlocked, Crash

\* A level row that existed at the start stays the sum of its movements, however
\* many requests of whatever kind update it, and with whatever transactions
\* (catalog/store.go:154-177); only first rows can lose an update.
THEOREM LevelsAreSums == Spec => []KnownLevelIsSum
<1>1. Init => SumInv
  <2>1. Init => RowInv /\ KnownLevelIsSum
    BY StockAssumption DEF Init, RowInv, KnownLevelIsSum
  <2> QED
    BY <2>1, InitBooks DEF SumInv
<1>2. SumInv => KnownLevelIsSum
  BY DEF SumInv
<1> QED
  BY <1>1, <1>2, StepSums, PTL DEF Spec
=============================================================================
