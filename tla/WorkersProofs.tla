---------------------------- MODULE WorkersProofs ----------------------------
(***************************************************************************)
(* Theorems about the background workers. Reminders: sent once, because a  *)
(* worker's marks are its own while it leads and a request's are its own   *)
(* because the row says so. Expense claims: a row lock and a row version   *)
(* keep two payouts apart. The outbox: a row is out of one relay's hands   *)
(* only on the bus, or rolled back. The start of the process: its seeds    *)
(* come in order. The scheduler: one replica leads, and what its tick      *)
(* deletes is older than what it leaves.                                   *)
(***************************************************************************)
EXTENDS MCWorkers, Sums, TLAPS

LEMMA InitType == Init => TypeOK
BY RemindersAssumption DEF Init, TypeOK, Procs

LEMMA DueAreEvents == ASSUME NEW s \in DueReminders PROVE s \subseteq Events
BY DEF DueReminders

LEMMA StepType == TypeOK /\ [Next]_vars => TypeOK'
<1> SUFFICES ASSUME TypeOK, [Next]_vars PROVE TypeOK'
  OBVIOUS
<1> USE DEF TypeOK, Procs
<1>1. ASSUME NEW w \in Workers, Lead(w) PROVE TypeOK'
  BY <1>1, DueAreEvents DEF Lead, Goto
<1>2. ASSUME NEW w \in Workers, MarkNext(w) PROVE TypeOK'
  <2>1. PICK e \in todo[w] :
             /\ todo' = [todo EXCEPT ![w] = @ \ {e}]
             /\ IF Unsent(e)
                THEN /\ marks' = [marks EXCEPT ![w] = @ \cup {e}]
                     /\ said' = [said EXCEPT ![e] = @ + 1]
                ELSE UNCHANGED <<marks, said>>
    BY <1>2 DEF MarkNext
  <2>2. e \in Events
    BY <2>1
  <2>3. todo' \in [Procs -> SUBSET Events]
    BY <2>1
  <2>4. marks' \in [Procs -> SUBSET Events] /\ said' \in [Events -> Nat]
    BY <2>1, <2>2
  <2> QED
    BY <1>2, <2>3, <2>4 DEF MarkNext
<1>3. ASSUME NEW w \in Workers, CommitTick(w) PROVE TypeOK'
  BY <1>3 DEF CommitTick, EndTick, Unlock, Goto
<1>4. ASSUME NEW w \in Workers, DieTick(w) PROVE TypeOK'
  <2>1. undone' \in [Events -> Nat] /\ faults' \in 0 .. FaultLimit
    BY <1>4, RemindersAssumption DEF DieTick, Fault
  <2> QED
    BY <1>4, <2>1 DEF DieTick, EndTick, Unlock, Goto
<1>5. ASSUME NEW r \in Requests, StartDispatch(r) PROVE TypeOK'
  BY <1>5, DueAreEvents DEF StartDispatch, Goto
<1>6. ASSUME NEW r \in Requests, DispatchMark(r) PROVE TypeOK'
  <2>1. PICK e \in todo[r] :
             /\ todo' = [todo EXCEPT ![r] = @ \ {e}]
             /\ IF Unsent(e)
                THEN /\ reminded' = [reminded EXCEPT ![e] = TRUE]
                     /\ marks' = [marks EXCEPT ![r] = {e}]
                     /\ Goto(r, "publish")
                ELSE UNCHANGED <<reminded, marks, pc>>
    BY <1>6 DEF DispatchMark
  <2>2. e \in Events /\ todo' \in [Procs -> SUBSET Events]
    BY <2>1
  <2>3. /\ reminded' \in [Events -> BOOLEAN] /\ marks' \in [Procs -> SUBSET Events]
        /\ pc' \in [Procs -> {"idle", "mark", "publish"}]
    <3>1. CASE Unsent(e)
      <4>1. reminded' \in [Events -> BOOLEAN]
        BY <2>1, <2>2, <3>1
      <4>2. marks' \in [Procs -> SUBSET Events]
        BY <2>1, <2>2, <3>1
      <4>3. pc' \in [Procs -> {"idle", "mark", "publish"}]
        BY <2>1, <3>1 DEF Goto
      <4> QED
        BY <4>1, <4>2, <4>3
    <3>2. CASE ~Unsent(e)
      BY <2>1, <3>2
    <3> QED
      BY <3>1, <3>2
  <2> QED
    BY <1>6, <2>2, <2>3 DEF DispatchMark
<1>7. ASSUME NEW r \in Requests, DispatchPublish(r) PROVE TypeOK'
  <2>1. said' \in [Events -> Nat]
    BY <1>7 DEF DispatchPublish
  <2> QED
    BY <1>7, <2>1 DEF DispatchPublish, Goto
<1>8. ASSUME NEW r \in Requests, EndDispatch(r) PROVE TypeOK'
  BY <1>8 DEF EndDispatch, Goto
<1>9. ASSUME NEW r \in Requests, DieDispatch(r) PROVE TypeOK'
  <2>1. faults' \in 0 .. FaultLimit
    BY <1>9, RemindersAssumption DEF DieDispatch, Fault
  <2> QED
    BY <1>9, <2>1 DEF DieDispatch, Goto
<1>10. ASSUME NEW e \in Events, NEW to \in {"done", "canceled"}, SetStatus(e, to) PROVE TypeOK'
  BY <1>10 DEF SetStatus
<1>11. CASE Advance
  BY <1>11, RemindersAssumption DEF Advance
<1>12. CASE UNCHANGED vars
  BY <1>12 DEF vars
<1> QED
  BY <1>1, <1>2, <1>3, <1>4, <1>5, <1>6, <1>7, <1>8, <1>9, <1>10, <1>11, <1>12 DEF Next

-----------------------------------------------------------------------------
(* The invariant *)

\* Only the leader is in a tick, and what it has marked is nobody else's.
LeaderInv ==
  \A w \in Workers :
    /\ pc[w] = "mark" => leader = w
    /\ pc[w] = "idle" => marks[w] = {}
    /\ pc[w] # "publish"
    /\ todo[w] \cap marks[w] = {}
    /\ \A e \in marks[w] : ~reminded[e]

\* A request that has marked an event is the one to send it.
DispatchInv ==
  \A r \in Requests : \A e \in marks[r] :
    /\ reminded[e]
    /\ said[e] <= undone[e]
    /\ \A q \in Requests : e \in marks[q] => q = r

\* Nobody has an event that is neither marked nor locked.
OpenInv == \A e \in Events : ~reminded[e] /\ ~Locked(e) => said[e] <= undone[e]

Inv == TypeOK /\ LeaderInv /\ DispatchInv /\ OpenInv /\ SentOnce

LEMMA InitInv == Init => Inv
<1> SUFFICES ASSUME Init PROVE Inv
  OBVIOUS
<1>1. LeaderInv /\ DispatchInv
  BY DEF Init, LeaderInv, DispatchInv, Procs
<1>2. OpenInv /\ SentOnce
  BY DEF Init, OpenInv, SentOnce
<1> QED
  BY <1>1, <1>2, InitType DEF Inv

-----------------------------------------------------------------------------
(* The steps that mark or send *)

LEMMA MarkNextInv == ASSUME Inv, TypeOK', NEW w \in Workers, MarkNext(w) PROVE Inv'
<1> USE DEF Procs
<1>1. PICK e \in todo[w] :
           /\ todo' = [todo EXCEPT ![w] = @ \ {e}]
           /\ IF Unsent(e)
              THEN /\ marks' = [marks EXCEPT ![w] = @ \cup {e}]
                   /\ said' = [said EXCEPT ![e] = @ + 1]
              ELSE UNCHANGED <<marks, said>>
  BY DEF MarkNext
<1>2. /\ UNCHANGED <<reminded, leader, pc, undone>>
      /\ e \in Events /\ e \notin marks[w] /\ leader = w /\ pc[w] = "mark"
  BY <1>1 DEF MarkNext, Inv, LeaderInv, TypeOK
<1>3. CASE ~Unsent(e)
  <2>1. UNCHANGED <<marks, said>> /\ todo'[w] \subseteq todo[w]
        /\ \A p \in Procs \ {w} : todo'[p] = todo[p]
    BY <1>1, <1>3 DEF Inv, TypeOK
  <2>2. LeaderInv'
    BY <1>2, <2>1 DEF Inv, LeaderInv
  <2>3. DispatchInv' /\ OpenInv' /\ SentOnce'
    BY <1>2, <2>1 DEF Inv, DispatchInv, OpenInv, Locked, SentOnce
  <2> QED
    BY <2>2, <2>3 DEF Inv
<1>4. CASE Unsent(e)
  <2>1. /\ marks' = [marks EXCEPT ![w] = @ \cup {e}]
        /\ said' = [said EXCEPT ![e] = @ + 1]
        /\ ~reminded[e]
    BY <1>1, <1>4 DEF Unsent
  <2>2. \A v \in Workers : v # w => marks[v] = {}
    BY <1>2 DEF Inv, TypeOK, LeaderInv
  <2>3. ~Locked(e)
    BY <1>2, <2>2 DEF Locked
  <2>4. said[e] <= undone[e]
    BY <1>2, <2>1, <2>3 DEF Inv, OpenInv
  <2>5. marks'[w] = marks[w] \cup {e} /\ todo'[w] = todo[w] \ {e}
        /\ \A p \in Procs \ {w} : marks'[p] = marks[p] /\ todo'[p] = todo[p]
    BY <1>1, <2>1 DEF Inv, TypeOK
  <2>6. said'[e] = said[e] + 1 /\ \A f \in Events \ {e} : said'[f] = said[f]
    BY <2>1, <1>2 DEF Inv, TypeOK
  <2>7. LeaderInv'
    BY <1>2, <2>1, <2>5 DEF Inv, LeaderInv
  <2>8. DispatchInv'
    <3>1. \A r \in Requests : marks'[r] = marks[r] /\ e \notin marks[r] /\ marks[r] \subseteq Events
      BY <2>1, <2>5, RemindersAssumption DEF Inv, DispatchInv, TypeOK
    <3> QED
      BY <1>2, <2>6, <3>1 DEF Inv, DispatchInv
  <2>9. OpenInv'
    <3>1. Locked(e)'
      BY <2>5 DEF Locked
    <3>2. \A f \in Events : Locked(f) => Locked(f)'
      BY <2>5 DEF Locked
    <3> QED
      BY <1>2, <2>6, <3>1, <3>2 DEF Inv, OpenInv
  <2>10. SentOnce'
    BY <1>2, <2>4, <2>6 DEF Inv, SentOnce, TypeOK
  <2> QED
    BY <2>7, <2>8, <2>9, <2>10 DEF Inv
<1> QED
  BY <1>3, <1>4

LEMMA CommitTickInv == ASSUME Inv, TypeOK', NEW w \in Workers, CommitTick(w) PROVE Inv'
<1> USE DEF Procs
<1>1. /\ reminded' = [e \in Events |-> reminded[e] \/ e \in marks[w]]
      /\ UNCHANGED <<said, undone>>
      /\ leader = w /\ pc[w] = "mark"
      /\ marks'[w] = {} /\ todo'[w] = {} /\ pc'[w] = "idle"
      /\ \A p \in Procs \ {w} : marks'[p] = marks[p] /\ todo'[p] = todo[p] /\ pc'[p] = pc[p]
  BY DEF CommitTick, EndTick, Goto, Inv, TypeOK, LeaderInv
<1>2. \A v \in Workers : v # w => marks[v] = {} /\ pc[v] = "idle"
  BY <1>1 DEF Inv, TypeOK, LeaderInv
<1>3. LeaderInv'
  BY <1>1, <1>2 DEF Inv, LeaderInv
<1>4. DispatchInv'
  <2>1. \A r \in Requests : marks'[r] = marks[r] /\ marks[r] \subseteq Events
    BY <1>1, RemindersAssumption DEF Inv, TypeOK
  <2> QED
    BY <1>1, <2>1 DEF Inv, DispatchInv
<1>5. OpenInv'
  <2> SUFFICES ASSUME NEW e \in Events, ~reminded'[e] PROVE said[e] <= undone[e]
    BY <1>1 DEF OpenInv
  <2>1. ~reminded[e] /\ ~Locked(e)
    BY <1>1, <1>2 DEF Locked
  <2> QED
    BY <2>1 DEF Inv, OpenInv
<1>6. SentOnce'
  BY <1>1 DEF Inv, SentOnce
<1> QED
  BY <1>3, <1>4, <1>5, <1>6 DEF Inv

LEMMA DieTickInv == ASSUME Inv, TypeOK', NEW w \in Workers, DieTick(w) PROVE Inv'
<1> USE DEF Procs
<1>1. /\ undone' = [e \in Events |-> undone[e] + IF e \in marks[w] THEN 1 ELSE 0]
      /\ UNCHANGED <<said, reminded>>
      /\ leader = w /\ pc[w] = "mark"
      /\ marks'[w] = {} /\ todo'[w] = {} /\ pc'[w] = "idle"
      /\ \A p \in Procs \ {w} : marks'[p] = marks[p] /\ todo'[p] = todo[p] /\ pc'[p] = pc[p]
  BY DEF DieTick, EndTick, Goto, Inv, TypeOK, LeaderInv
<1>2. \A v \in Workers : v # w => marks[v] = {} /\ pc[v] = "idle"
  BY <1>1 DEF Inv, TypeOK, LeaderInv
<1>3. \A e \in Events : /\ undone[e] \in Nat /\ undone'[e] \in Nat /\ said[e] \in Nat
                        /\ undone[e] <= undone'[e]
                        /\ e \in marks[w] => undone'[e] = undone[e] + 1
  BY <1>1 DEF Inv, TypeOK
<1>4. LeaderInv'
  BY <1>1, <1>2 DEF Inv, LeaderInv
<1>5. DispatchInv'
  <2>1. \A r \in Requests : marks'[r] = marks[r] /\ marks[r] \subseteq Events
    BY <1>1, RemindersAssumption DEF Inv, TypeOK
  <2>2. \A e \in Events : said[e] <= undone[e] => said'[e] <= undone'[e]
    BY <1>1, <1>3
  <2> QED
    BY <1>1, <2>1, <2>2 DEF Inv, DispatchInv
<1>6. OpenInv'
  <2> SUFFICES ASSUME NEW e \in Events, ~reminded[e] PROVE said[e] <= undone'[e]
    BY <1>1 DEF OpenInv
  <2>1. CASE e \in marks[w]
    <3>1. said[e] <= 1 + undone[e]
      BY DEF Inv, SentOnce
    <3> QED
      BY <1>3, <2>1, <3>1
  <2>2. CASE e \notin marks[w]
    <3>1. ~Locked(e)
      BY <1>2, <2>2 DEF Locked
    <3> QED
      BY <1>3, <3>1 DEF Inv, OpenInv
  <2> QED
    BY <2>1, <2>2
<1>7. SentOnce'
  BY <1>1, <1>3 DEF Inv, SentOnce
<1> QED
  BY <1>4, <1>5, <1>6, <1>7 DEF Inv

LEMMA DispatchMarkInv == ASSUME Inv, TypeOK', NEW r \in Requests, DispatchMark(r) PROVE Inv'
<1> USE DEF Procs
<1>1. PICK e \in todo[r] :
           /\ ~Locked(e)
           /\ todo' = [todo EXCEPT ![r] = @ \ {e}]
           /\ IF Unsent(e)
              THEN /\ reminded' = [reminded EXCEPT ![e] = TRUE]
                   /\ marks' = [marks EXCEPT ![r] = {e}]
                   /\ Goto(r, "publish")
              ELSE UNCHANGED <<reminded, marks, pc>>
  BY DEF DispatchMark
<1>2. UNCHANGED <<leader, said, undone>> /\ e \in Events
  BY <1>1 DEF DispatchMark, Inv, TypeOK
<1>3. \A w \in Workers : todo'[w] = todo[w]
  BY <1>1, RemindersAssumption DEF Inv, TypeOK
<1>4. CASE ~Unsent(e)
  <2>1. UNCHANGED <<reminded, marks, pc>>
    BY <1>1, <1>4
  <2> QED
    BY <1>2, <1>3, <2>1 DEF Inv, LeaderInv, DispatchInv, OpenInv, Locked, SentOnce
<1>5. CASE Unsent(e)
  <2>1. /\ ~reminded[e] /\ reminded'[e]
        /\ \A f \in Events \ {e} : reminded'[f] = reminded[f]
        /\ marks'[r] = {e} /\ \A p \in Procs \ {r} : marks'[p] = marks[p] /\ pc'[p] = pc[p]
    BY <1>1, <1>2, <1>5 DEF Unsent, Goto, Inv, TypeOK
  <2>2. \A w \in Workers : w # r /\ marks'[w] = marks[w] /\ pc'[w] = pc[w]
    BY <2>1, RemindersAssumption
  <2>3. LeaderInv'
    <3>1. \A w \in Workers : e \notin marks[w]
      BY <1>1 DEF Locked
    <3> QED
      BY <1>2, <1>3, <2>1, <2>2, <3>1 DEF Inv, LeaderInv, TypeOK
  <2>4. said[e] <= undone[e]
    BY <1>1, <1>2, <2>1 DEF Inv, OpenInv
  <2>5. \A q \in Requests : e \notin marks[q] /\ marks[q] \subseteq Events
    BY <2>1 DEF Inv, DispatchInv, TypeOK
  <2>6. DispatchInv'
    <3> SUFFICES ASSUME NEW p \in Requests, NEW f \in marks'[p]
                 PROVE  /\ reminded'[f] /\ said[f] <= undone[f]
                        /\ \A q \in Requests : f \in marks'[q] => q = p
      BY <1>2 DEF DispatchInv
    <3>1. CASE f = e
      BY <2>1, <2>4, <2>5, <3>1
    <3>2. CASE f # e
      <4>1. p # r /\ f \in marks[p] /\ f \in Events
        BY <2>1, <2>5, <3>2
      <4>2. \A q \in Requests : f \in marks'[q] => f \in marks[q]
        BY <2>1, <3>2
      <4> QED
        BY <2>1, <3>2, <4>1, <4>2 DEF Inv, DispatchInv
    <3> QED
      BY <3>1, <3>2
  <2>7. OpenInv' /\ SentOnce'
    <3>1. \A f \in Events : Locked(f)' <=> Locked(f)
      BY <2>2 DEF Locked
    <3> QED
      BY <1>2, <2>1, <3>1 DEF Inv, OpenInv, SentOnce
  <2> QED
    BY <2>3, <2>6, <2>7 DEF Inv
<1> QED
  BY <1>4, <1>5

LEMMA DispatchPublishInv == ASSUME Inv, TypeOK', NEW r \in Requests, DispatchPublish(r) PROVE Inv'
<1> USE DEF Procs
<1>1. /\ said' = [e \in Events |-> said[e] + IF e \in marks[r] THEN 1 ELSE 0]
      /\ UNCHANGED <<reminded, leader, todo, undone>>
      /\ marks'[r] = {} /\ \A p \in Procs \ {r} : marks'[p] = marks[p] /\ pc'[p] = pc[p]
  BY DEF DispatchPublish, Goto, Inv, TypeOK
<1>2. \A w \in Workers : w # r /\ marks'[w] = marks[w] /\ pc'[w] = pc[w]
  BY <1>1, RemindersAssumption
<1>3. \A e \in Events : /\ said[e] \in Nat /\ undone[e] \in Nat
                        /\ e \in marks[r] => said'[e] = said[e] + 1
                        /\ e \notin marks[r] => said'[e] = said[e]
  BY <1>1 DEF Inv, TypeOK
<1>4. LeaderInv'
  BY <1>1, <1>2 DEF Inv, LeaderInv
<1>5. DispatchInv'
  <2> SUFFICES ASSUME NEW p \in Requests, NEW e \in marks'[p]
               PROVE  /\ reminded[e] /\ said'[e] <= undone[e]
                      /\ \A q \in Requests : e \in marks'[q] => q = p
    BY <1>1 DEF DispatchInv
  <2>1. p # r /\ e \in marks[p] /\ e \in Events
    BY <1>1 DEF Inv, TypeOK
  <2>2. e \notin marks[r]
    BY <2>1 DEF Inv, DispatchInv
  <2>3. \A q \in Requests : e \in marks'[q] => e \in marks[q]
    BY <1>1
  <2> QED
    BY <1>3, <2>1, <2>2, <2>3 DEF Inv, DispatchInv
<1>6. OpenInv'
  <2> SUFFICES ASSUME NEW e \in Events, ~reminded[e], ~Locked(e)' PROVE said'[e] <= undone[e]
    BY <1>1 DEF OpenInv
  <2>1. ~Locked(e)
    BY <1>2 DEF Locked
  <2>2. e \notin marks[r]
    BY DEF Inv, DispatchInv
  <2> QED
    BY <1>3, <2>1, <2>2 DEF Inv, OpenInv
<1>7. SentOnce'
  <2> SUFFICES ASSUME NEW e \in Events PROVE said'[e] <= 1 + undone[e]
    BY <1>1 DEF SentOnce
  <2>1. CASE e \in marks[r]
    <3>1. said[e] <= undone[e]
      BY <2>1 DEF Inv, DispatchInv
    <3> QED
      BY <1>3, <2>1, <3>1
  <2>2. CASE e \notin marks[r]
    BY <1>3, <2>2 DEF Inv, SentOnce
  <2> QED
    BY <2>1, <2>2
<1> QED
  BY <1>4, <1>5, <1>6, <1>7 DEF Inv

\* The other steps of a request change its own bookkeeping, and drop marks at most.
LEMMA RequestInv ==
  ASSUME Inv, TypeOK', NEW r \in Requests, StartDispatch(r) \/ EndDispatch(r) \/ DieDispatch(r)
  PROVE  Inv'
<1> USE DEF Procs
<1>1. UNCHANGED <<reminded, leader, said, undone>> /\ marks'[r] \subseteq marks[r]
  BY DEF StartDispatch, EndDispatch, DieDispatch, Inv, TypeOK
<1>2. \A p \in Procs \ {r} : marks'[p] = marks[p] /\ pc'[p] = pc[p] /\ todo'[p] = todo[p]
  BY DEF StartDispatch, EndDispatch, DieDispatch, Goto, Inv, TypeOK
<1>3. \A w \in Workers : marks'[w] = marks[w] /\ pc'[w] = pc[w] /\ todo'[w] = todo[w]
  BY <1>2, RemindersAssumption
<1>4. LeaderInv'
  BY <1>1, <1>3 DEF Inv, LeaderInv
<1>5. DispatchInv'
  <2>1. \A p \in Requests : marks'[p] \subseteq marks[p]
    BY <1>1, <1>2
  <2> QED
    BY <1>1, <2>1 DEF Inv, DispatchInv
<1>6. OpenInv' /\ SentOnce'
  <2>1. \A e \in Events : Locked(e)' <=> Locked(e)
    BY <1>3 DEF Locked
  <2> QED
    BY <1>1, <2>1 DEF Inv, OpenInv, SentOnce
<1> QED
  BY <1>4, <1>5, <1>6 DEF Inv

LEMMA LeadInv == ASSUME Inv, TypeOK', NEW w \in Workers, Lead(w) PROVE Inv'
<1> USE DEF Procs
<1>1. UNCHANGED <<reminded, marks, said, undone>> /\ leader = Nobody /\ leader' = w
      /\ marks[w] = {} /\ pc'[w] = "mark"
      /\ \A p \in Procs \ {w} : pc'[p] = pc[p] /\ todo'[p] = todo[p]
  BY DEF Lead, Goto, Inv, TypeOK, LeaderInv
<1>2. \A v \in Workers : pc[v] # "mark"
  BY <1>1, RemindersAssumption DEF Inv, LeaderInv
<1>3. LeaderInv'
  BY <1>1, <1>2 DEF Inv, LeaderInv
<1>4. DispatchInv' /\ OpenInv' /\ SentOnce'
  BY <1>1 DEF Inv, DispatchInv, OpenInv, Locked, SentOnce
<1> QED
  BY <1>3, <1>4 DEF Inv

LEMMA StepInv == Inv /\ [Next]_vars => Inv'
<1> SUFFICES ASSUME Inv, [Next]_vars PROVE Inv'
  OBVIOUS
<1>1. TypeOK'
  BY StepType DEF Inv
<1>2. ASSUME NEW w \in Workers, Lead(w) \/ MarkNext(w) \/ CommitTick(w) \/ DieTick(w) PROVE Inv'
  BY <1>1, <1>2, LeadInv, MarkNextInv, CommitTickInv, DieTickInv
<1>3. ASSUME NEW r \in Requests,
             StartDispatch(r) \/ DispatchMark(r) \/ DispatchPublish(r) \/ EndDispatch(r)
               \/ DieDispatch(r)
      PROVE  Inv'
  BY <1>1, <1>3, RequestInv, DispatchMarkInv, DispatchPublishInv
<1>4. CASE UNCHANGED <<reminded, leader, pc, todo, marks, said, undone>>
  BY <1>1, <1>4 DEF Inv, LeaderInv, DispatchInv, OpenInv, Locked, SentOnce
<1> QED
  BY <1>2, <1>3, <1>4 DEF Next, SetStatus, Advance, vars

-----------------------------------------------------------------------------
(* The theorems *)

\* What daemons and requests read and mark stays well typed.
THEOREM TypeCorrect == Spec => []TypeOK
BY InitType, StepType, PTL DEF Spec

\* A reminder is sent once, but for the ticks that were rolled back, however
\* many replicas tick and however many requests dispatch
\* (agenda/worker.go:45-114, agenda/store.go:167-177).
THEOREM SentOnceHolds == Spec => []SentOnce
<1>1. Spec => []Inv
  BY InitInv, StepInv, PTL DEF Spec
<1>2. Inv => SentOnce
  BY DEF Inv
<1> QED
  BY <1>1, <1>2, PTL
-----------------------------------------------------------------------------
(* Expense claims. A claim is paid once: for any number of requests, relays  *)
(* and claims, although a payout reads the claim in one statement and flips  *)
(* it in another, and although a client may set "paid" by hand.              *)

LEMMA HrCard == \A S : Hr!Cardinality(S) = Cardinality(S) /\ (Hr!IsFiniteSet(S) <=> IsFiniteSet(S))
BY DEF Hr!Cardinality, Cardinality, Hr!IsFiniteSet, IsFiniteSet

WorkRow ==
  [claim : Claims \cup {-1}, to : Hr!Statuses, version : Nat, total : Nat, id : Nat]

\* What the proof needs of the types.
ClaimTypes ==
  /\ claimStatus \in [Claims -> Hr!Statuses]
  /\ version \in [Claims -> Nat]
  /\ total \in [Claims -> Nat] /\ lines \in [Claims -> Nat]
  /\ at \in [Requests -> {"idle", "set", "insert", "sum", "flip", "commit"}]
  /\ work \in [Requests -> WorkRow]
  /\ lock \in [Claims -> Requests \cup {Nobody}]
  /\ nextId \in Nat
  /\ \A r \in Requests : at[r] # "idle" => work[r].claim \in Claims
  /\ outbox \subseteq [id : Nat, object : Claims, delivered : BOOLEAN]

\* The row lock belongs to the one request between its flip and its commit.
RowLockInv ==
  \A r \in Requests, c \in Claims :
    lock[c] = r <=> at[r] = "commit" /\ work[r].claim = c

\* What a request checked when it read the claim still holds while the row
\* version is the one it read, and without condition under the row lock.
ReadInv ==
  \A r \in Requests :
    LET c == work[r].claim IN
    /\ at[r] \in {"set", "flip"} => work[r].version <= version[c]
    /\ at[r] = "set" /\ work[r].version = version[c] => Hr!CanTransition(claimStatus[c], work[r].to)
    /\ at[r] = "flip" /\ work[r].version = version[c] => claimStatus[c] = "approved"
    /\ at[r] = "commit" => claimStatus[c] = "approved"

ClaimInv == ClaimTypes /\ RowLockInv /\ ReadInv /\ Hr!PaidOnce

LEMMA IdleWork == Hr!NoWork \in WorkRow
BY DEF Hr!NoWork, Hr!Asks, WorkRow, Hr!Statuses

LEMMA ClaimInitInv ==
  ASSUME Hr!ClaimsOK, Hr!Init
  PROVE  ClaimInv
<1>1. FirstStatus \in [Claims -> Hr!Statuses] /\ Hr!PaidFirst \subseteq Claims /\ Nobody \notin Requests
  BY DEF Hr!ClaimsOK, Hr!PaidFirst
<1>count. Hr!Cardinality(Hr!PaidFirst) \in Nat
  <2>1. IsFiniteSet(Hr!PaidFirst)
    BY <1>1, FS_Subset, HrCard DEF Hr!ClaimsOK
  <2> QED
    BY <2>1, FS_CardinalityType, HrCard
<1>ids. PICK ids \in [Hr!PaidFirst -> Nat] :
          outbox = {[id |-> ids[d], object |-> d, delivered |-> FALSE] : d \in Hr!PaidFirst}
  <2>1. \A i : i \in 0 .. Hr!Cardinality(Hr!PaidFirst) - 1 => i \in Nat
    BY <1>count
  <2> QED
    BY <2>1, Zenon DEF Hr!Init, Hr!Injection
<1>2. ClaimTypes
  <2>1. work \in [Requests -> WorkRow]
    BY IdleWork DEF Hr!Init
  <2>2. lines \in [Claims -> Nat] /\ total = lines
    BY DEF Hr!Init
  <2>3. outbox \subseteq [id : Nat, object : Claims, delivered : BOOLEAN]
    <3>1. \A d \in Hr!PaidFirst : [id |-> ids[d], object |-> d, delivered |-> FALSE]
                               \in [id : Nat, object : Claims, delivered : BOOLEAN]
      BY <1>1
    <3> QED
      BY <1>ids, <3>1
  <2>4. claimStatus \in [Claims -> Hr!Statuses] /\ version \in [Claims -> Nat] /\ nextId \in Nat
    BY <1>1, <1>count DEF Hr!Init
  <2>5. /\ at \in [Requests -> {"idle", "set", "insert", "sum", "flip", "commit"}]
        /\ lock \in [Claims -> Requests \cup {Nobody}]
        /\ \A r \in Requests : at[r] = "idle"
    BY DEF Hr!Init
  <2> QED
    BY <2>1, <2>2, <2>3, <2>4, <2>5 DEF ClaimTypes
<1>3. RowLockInv /\ ReadInv
  BY <1>1 DEF Hr!Init, RowLockInv, ReadInv
<1>4. Hr!PaidOnce
  <2> DEFINE Event(d) == [id |-> ids[d], object |-> d, delivered |-> FALSE]
  <2>1. /\ outbox = {Event(d) : d \in Hr!PaidFirst}
        /\ entries = {[claim |-> d, amount |-> lines[d]] : d \in Hr!PaidFirst}
        /\ claimStatus = FirstStatus
    BY <1>ids DEF Hr!Init
  <2>2. \A d \in Hr!PaidFirst : claimStatus[d] = "paid" /\ Event(d).object = d
    BY <2>1 DEF Hr!PaidFirst
  <2> HIDE DEF Event
  <2>3. /\ \A o \in outbox : claimStatus[o.object] = "paid"
        /\ \A o, q \in outbox : o.object = q.object => o = q
    BY <2>1, <2>2
  <2>4. \A d \in Hr!PaidFirst : \E o \in outbox : o.object = d
    BY <2>1, <2>2
  <2>5. /\ \A e, f \in entries : e.claim = f.claim => e = f
        /\ \A e \in entries : e.claim \in Hr!PaidFirst
    BY <2>1
  <2> QED
    BY <2>3, <2>4, <2>5 DEF Hr!PaidOnce
<1> QED
  BY <1>2, <1>3, <1>4 DEF ClaimInv

\* A step that touches neither claims nor rows, but for the place of r.
LEMMA ClaimWalks ==
  ASSUME ClaimInv, NEW r \in Requests,
         UNCHANGED <<claimStatus, version, lock, entries, outbox>>,
         \A s \in Requests \ {r} : at'[s] = at[s] /\ work'[s] = work[s],
         ClaimTypes', at[r] # "commit", at'[r] # "commit",
         at'[r] \in {"set", "flip"} =>
           LET c == work'[r].claim IN
           /\ work'[r].version = version[c]
           /\ at'[r] = "set" => Hr!CanTransition(claimStatus[c], work'[r].to)
           /\ at'[r] = "flip" => claimStatus[c] = "approved"
  PROVE  ClaimInv'
<1>1. RowLockInv'
  BY DEF ClaimInv, RowLockInv
<1>2. ReadInv'
  <2> SUFFICES ASSUME NEW s \in Requests
               PROVE  LET c == work'[s].claim IN
                      /\ at'[s] \in {"set", "flip"} => work'[s].version <= version[c]
                      /\ at'[s] = "set" /\ work'[s].version = version[c]
                           => Hr!CanTransition(claimStatus[c], work'[s].to)
                      /\ at'[s] = "flip" /\ work'[s].version = version[c] => claimStatus[c] = "approved"
                      /\ at'[s] = "commit" => claimStatus[c] = "approved"
    BY DEF ReadInv, Hr!CanTransition
  <2>1. CASE s = r
    <3>1. at'[r] \in {"set", "flip"} => version[work'[r].claim] \in Nat
      BY DEF ClaimTypes
    <3> QED
      BY <2>1, <3>1
  <2>2. CASE s # r
    BY <2>2 DEF ClaimInv, ReadInv
  <2> QED
    BY <2>1, <2>2
<1>3. Hr!PaidOnce'
  BY DEF ClaimInv, Hr!PaidOnce
<1> QED
  BY <1>1, <1>2, <1>3 DEF ClaimInv

LEMMA StartLineInv ==
  ASSUME ClaimInv, NEW r \in Requests, NEW c \in Claims, Hr!StartLine(r, c)
  PROVE  ClaimInv'
<1>1. ClaimTypes'
  BY DEF Hr!StartLine, Hr!Goto, Hr!Asks, Hr!outboxVars, ClaimInv, ClaimTypes, WorkRow, Hr!Statuses
<1> QED
  BY <1>1, ClaimWalks DEF Hr!StartLine, Hr!Goto, Hr!outboxVars, ClaimInv, ClaimTypes

LEMMA LineInv ==
  ASSUME ClaimInv, NEW r \in Requests, Hr!InsertLine(r) \/ Hr!SumLines(r)
  PROVE  ClaimInv'
<1>1. CASE Hr!InsertLine(r)
  <2>1. ClaimTypes'
    BY <1>1 DEF Hr!InsertLine, Hr!Goto, Hr!outboxVars, ClaimInv, ClaimTypes
  <2> QED
    BY <1>1, <2>1, ClaimWalks DEF Hr!InsertLine, Hr!Goto, Hr!outboxVars, ClaimInv, ClaimTypes
<1>2. CASE Hr!SumLines(r)
  <2>1. ClaimTypes'
    BY <1>2, IdleWork DEF Hr!SumLines, Hr!Finish, Hr!Goto, Hr!outboxVars, ClaimInv, ClaimTypes
  <2> QED
    BY <1>2, <2>1, ClaimWalks DEF Hr!SumLines, Hr!Finish, Hr!Goto, Hr!outboxVars, ClaimInv,
           ClaimTypes
<1> QED
  BY <1>1, <1>2

\* A request that reads a claim holds the version its status was read in.
LEMMA ReadingInv ==
  ASSUME ClaimInv, NEW r \in Requests, NEW c \in Claims,
         Hr!StartPay(r, c) \/ \E to \in Hr!Statuses : Hr!StartStatus(r, c, to)
  PROVE  ClaimInv'
<1>1. PICK to \in Hr!Statuses :
        /\ at[r] = "idle"
        /\ work' = [work EXCEPT ![r] = Hr!Asks(c, to, version[c])]
        /\ \/ Hr!Goto(r, "flip") /\ claimStatus[c] = "approved"
           \/ Hr!Goto(r, "set") /\ Hr!CanTransition(claimStatus[c], to)
        /\ UNCHANGED <<claimStatus, version, total, lines, entries, lock, nextId, outbox>>
  BY DEF Hr!StartPay, Hr!StartStatus, Hr!Statuses, Hr!outboxVars
<1>2. ClaimTypes'
  BY <1>1 DEF Hr!Goto, Hr!Asks, ClaimInv, ClaimTypes, WorkRow
<1>3. work'[r].claim = c /\ work'[r].version = version[c] /\ work'[r].to = to
  BY <1>1 DEF Hr!Asks, ClaimInv, ClaimTypes
<1>4. at'[r] \in {"set", "flip"} /\ \A s \in Requests \ {r} : at'[s] = at[s] /\ work'[s] = work[s]
  BY <1>1 DEF Hr!Goto, ClaimInv, ClaimTypes
<1>5. /\ at'[r] = "set" => Hr!CanTransition(claimStatus[c], to)
      /\ at'[r] = "flip" => claimStatus[c] = "approved"
  BY <1>1 DEF Hr!Goto, ClaimInv, ClaimTypes
<1> QED
  BY <1>1, <1>2, <1>3, <1>4, <1>5, ClaimWalks

LEMMA ReadStatusInv ==
  ASSUME ClaimInv, NEW r \in Requests, NEW c \in Claims, NEW to \in Hr!Statuses,
         Hr!StartStatus(r, c, to)
  PROVE  ClaimInv'
BY ReadingInv

\* Nobody leaves "paid": the version says whether the status still is what was
\* read, and no move starts there.
LEMMA WriteStatusInv ==
  ASSUME Hr!ClaimsOK, ClaimInv, NEW r \in Requests, Hr!WriteStatus(r)
  PROVE  ClaimInv'
<1> DEFINE c == work[r].claim
<1>1. c \in Claims /\ lock[c] = Nobody /\ at[r] = "set" /\ work[r].to \in Hr!Statuses
  BY DEF Hr!WriteStatus, ClaimInv, ClaimTypes, WorkRow
<1>2. /\ at'[r] = "idle"
      /\ \A s \in Requests \ {r} : at'[s] = at[s] /\ work'[s] = work[s]
      /\ UNCHANGED <<total, lines, entries, lock, nextId, outbox>>
  BY DEF Hr!WriteStatus, Hr!Finish, Hr!Goto, Hr!outboxVars, ClaimInv, ClaimTypes
<1>3. CASE ~ Hr!SameVersion(r)
  <2>1. UNCHANGED <<claimStatus, version>>
    BY <1>3 DEF Hr!WriteStatus
  <2>2. ClaimTypes'
    BY <2>1, <1>2, IdleWork DEF Hr!WriteStatus, Hr!Finish, Hr!Goto, ClaimInv, ClaimTypes
  <2> QED
    BY <1>1, <1>2, <2>1, <2>2, ClaimWalks
<1>4. CASE Hr!SameVersion(r)
  <2>1. /\ claimStatus' = [claimStatus EXCEPT ![c] = work[r].to]
        /\ version' = [version EXCEPT ![c] = @ + 1]
    BY <1>4 DEF Hr!WriteStatus
  <2>2. ClaimTypes'
    BY <1>1, <1>2, <2>1, IdleWork DEF Hr!WriteStatus, Hr!Finish, Hr!Goto, ClaimInv, ClaimTypes
  <2>3. RowLockInv'
    BY <1>1, <1>2 DEF ClaimInv, RowLockInv
  <2>4. ReadInv'
    <3> SUFFICES ASSUME NEW s \in Requests \ {r}, at[s] # "idle"
                 PROVE  LET d == work[s].claim IN
                        /\ at[s] \in {"set", "flip"} => work[s].version <= version'[d]
                        /\ at[s] = "set" /\ work[s].version = version'[d]
                             => Hr!CanTransition(claimStatus'[d], work[s].to)
                        /\ at[s] = "flip" /\ work[s].version = version'[d]
                             => claimStatus'[d] = "approved"
                        /\ at[s] = "commit" => claimStatus'[d] = "approved"
      BY <1>2 DEF ReadInv, Hr!CanTransition
    <3>1. work[s].claim \in Claims /\ work[s].version \in Nat /\ version[work[s].claim] \in Nat
      BY DEF ClaimInv, ClaimTypes, WorkRow
    <3>2. CASE work[s].claim # c
      <4>1. claimStatus'[work[s].claim] = claimStatus[work[s].claim]
            /\ version'[work[s].claim] = version[work[s].claim]
        BY <1>1, <2>1, <3>1, <3>2 DEF ClaimInv, ClaimTypes
      <4> QED
        BY <4>1 DEF ClaimInv, ReadInv
    <3>3. CASE work[s].claim = c
      <4>1. version'[c] = version[c] + 1
        BY <1>1, <2>1 DEF ClaimInv, ClaimTypes
      <4>2. at[s] # "commit"
        <5>1. s # Nobody
          BY DEF Hr!ClaimsOK
        <5>2. lock[c] = s <=> at[s] = "commit" /\ work[s].claim = c
          BY <1>1 DEF ClaimInv, RowLockInv
        <5> QED
          BY <1>1, <3>3, <5>1, <5>2
      <4>3. at[s] \in {"set", "flip"} => work[s].version <= version[c]
        BY <3>3 DEF ClaimInv, ReadInv
      <4> QED
        BY <3>1, <3>3, <4>1, <4>2, <4>3
    <3> QED
      BY <3>2, <3>3
  <2>5. claimStatus[c] # "paid"
    BY <1>1, <1>4 DEF ClaimInv, ReadInv, Hr!SameVersion, Hr!CanTransition
  <2>6. Hr!PaidOnce'
    <3>1. \A o \in outbox : o.object \in Claims /\ claimStatus[o.object] = "paid"
      BY DEF ClaimInv, ClaimTypes, Hr!PaidOnce
    <3>2. \A o \in outbox : claimStatus'[o.object] = "paid"
      BY <1>1, <2>1, <2>5, <3>1 DEF ClaimInv, ClaimTypes
    <3> QED
      BY <1>2, <3>2 DEF ClaimInv, Hr!PaidOnce
  <2> QED
    BY <2>2, <2>3, <2>4, <2>6 DEF ClaimInv
<1> QED
  BY <1>3, <1>4

LEMMA FlipPaidInv ==
  ASSUME Hr!ClaimsOK, ClaimInv, NEW r \in Requests, Hr!FlipPaid(r)
  PROVE  ClaimInv'
<1> DEFINE c == work[r].claim
<1>1. c \in Claims /\ lock[c] = Nobody /\ at[r] = "flip"
  BY DEF Hr!FlipPaid, ClaimInv, ClaimTypes
<1>2. CASE Hr!SameVersion(r)
  <2>1. /\ lock' = [lock EXCEPT ![c] = r]
        /\ work' = [work EXCEPT ![r] = [claim |-> c, to |-> "paid", total |-> total[c],
                                        version |-> version[c], id |-> nextId]]
        /\ nextId' = nextId + 1
        /\ at' = [at EXCEPT ![r] = "commit"]
        /\ UNCHANGED <<claimStatus, version, total, lines, entries, outbox>>
    BY <1>2 DEF Hr!FlipPaid, Hr!Goto, Hr!outboxVars
  <2>2. work'[r].claim = c /\ \A s \in Requests \ {r} : work'[s] = work[s]
    BY <2>1 DEF ClaimInv, ClaimTypes
  <2>3. ClaimTypes'
    BY <1>1, <2>1 DEF ClaimInv, ClaimTypes, WorkRow, Hr!Statuses
  <2>4. RowLockInv'
    <3>1. \A s \in Requests : lock[c] # s
      BY <1>1 DEF Hr!ClaimsOK
    <3> QED
      BY <1>1, <2>1, <2>2, <3>1 DEF ClaimInv, ClaimTypes, RowLockInv
  <2>5. claimStatus[c] = "approved"
    BY <1>1, <1>2 DEF ClaimInv, ReadInv, Hr!SameVersion
  <2>6. ReadInv'
    BY <2>1, <2>2, <2>5 DEF ClaimInv, ClaimTypes, ReadInv, Hr!CanTransition
  <2>7. Hr!PaidOnce'
    BY <2>1 DEF ClaimInv, Hr!PaidOnce
  <2> QED
    BY <2>3, <2>4, <2>6, <2>7 DEF ClaimInv
<1>3. CASE ~ Hr!SameVersion(r)
  <2>1. /\ UNCHANGED <<claimStatus, version, total, lines, entries, lock, nextId, outbox>>
        /\ Hr!Finish(r)
    BY <1>3 DEF Hr!FlipPaid, Hr!outboxVars
  <2>2. ClaimTypes'
    BY <2>1, IdleWork DEF Hr!Finish, Hr!Goto, ClaimInv, ClaimTypes
  <2>3. at'[r] = "idle" /\ \A s \in Requests \ {r} : at'[s] = at[s] /\ work'[s] = work[s]
    BY <2>1 DEF Hr!Finish, Hr!Goto, ClaimInv, ClaimTypes
  <2> QED
    BY <1>1, <2>1, <2>2, <2>3, ClaimWalks
<1> QED
  BY <1>2, <1>3

\* The event of a payout is the first of its claim, since the claim was approved
\* and a claim with an event is paid.
LEMMA CommitPayInv ==
  ASSUME Hr!ClaimsOK, ClaimInv, NEW r \in Requests, Hr!CommitPay(r)
  PROVE  ClaimInv'
<1> DEFINE c == work[r].claim
           o == [id |-> work[r].id, object |-> c, delivered |-> FALSE]
<1>1. c \in Claims /\ lock[c] = r /\ claimStatus[c] = "approved" /\ at[r] = "commit"
  <2>1. at[r] = "commit" /\ c \in Claims
    BY DEF Hr!CommitPay, ClaimInv, ClaimTypes
  <2> QED
    BY <2>1 DEF ClaimInv, RowLockInv, ReadInv
<1>event. o \in [id : Nat, object : Claims, delivered : BOOLEAN]
  BY <1>1 DEF ClaimInv, ClaimTypes, WorkRow
<1>2. /\ claimStatus' = [claimStatus EXCEPT ![c] = "paid"]
      /\ version' = [version EXCEPT ![c] = @ + 1]
      /\ lock' = [lock EXCEPT ![c] = Nobody]
      /\ outbox' = outbox \cup {o}
      /\ \/ entries' = entries \cup {[claim |-> c, amount |-> work[r].total]}
         \/ entries' = entries
      /\ UNCHANGED <<total, lines, nextId>>
  BY DEF Hr!CommitPay, Hr!Emit
<1>3. at'[r] = "idle" /\ \A s \in Requests \ {r} : at'[s] = at[s] /\ work'[s] = work[s]
  BY DEF Hr!CommitPay, Hr!Finish, Hr!Goto, ClaimInv, ClaimTypes
<1>4. ClaimTypes'
  <2>1. /\ at' = [at EXCEPT ![r] = "idle"]
        /\ work' = [work EXCEPT ![r] = Hr!NoWork]
    BY DEF Hr!CommitPay, Hr!Finish, Hr!Goto
  <2>2. outbox' \subseteq [id : Nat, object : Claims, delivered : BOOLEAN]
    BY <1>event, <1>2 DEF ClaimInv, ClaimTypes
  <2> QED
    BY <1>1, <1>2, <1>3, <2>1, <2>2, IdleWork DEF ClaimInv, ClaimTypes, Hr!Statuses
<1>5. RowLockInv'
  BY <1>1, <1>2, <1>3 DEF Hr!ClaimsOK, ClaimInv, ClaimTypes, RowLockInv
<1>6. ReadInv'
  <2> SUFFICES ASSUME NEW s \in Requests \ {r}, at[s] # "idle"
               PROVE  LET d == work[s].claim IN
                      /\ at[s] \in {"set", "flip"} => work[s].version <= version'[d]
                      /\ at[s] = "set" /\ work[s].version = version'[d]
                           => Hr!CanTransition(claimStatus'[d], work[s].to)
                      /\ at[s] = "flip" /\ work[s].version = version'[d] => claimStatus'[d] = "approved"
                      /\ at[s] = "commit" => claimStatus'[d] = "approved"
    BY <1>3 DEF ReadInv, Hr!CanTransition
  <2>1. work[s].claim \in Claims /\ work[s].version \in Nat /\ version[work[s].claim] \in Nat
    BY DEF ClaimInv, ClaimTypes, WorkRow
  <2>2. CASE work[s].claim # c
    <3>1. claimStatus'[work[s].claim] = claimStatus[work[s].claim]
          /\ version'[work[s].claim] = version[work[s].claim]
      BY <1>1, <1>2, <2>1, <2>2 DEF ClaimInv, ClaimTypes
    <3> QED
      BY <3>1 DEF ClaimInv, ReadInv
  <2>3. CASE work[s].claim = c
    <3>1. version'[c] = version[c] + 1
      BY <1>1, <1>2 DEF ClaimInv, ClaimTypes
    <3>2. at[s] # "commit"
      BY <1>1, <2>3 DEF ClaimInv, RowLockInv
    <3>3. at[s] \in {"set", "flip"} => work[s].version <= version[c]
      BY <2>3 DEF ClaimInv, ReadInv
    <3> QED
      BY <2>1, <2>3, <3>1, <3>2, <3>3
  <2> QED
    BY <2>2, <2>3
<1>7. Hr!PaidOnce'
  <2>1. /\ \A p \in outbox : p.object \in Claims /\ p.object # c /\ claimStatus[p.object] = "paid"
        /\ \A e \in entries : e.claim # c
    BY <1>1 DEF ClaimInv, ClaimTypes, Hr!PaidOnce
  <2>2. \A p \in outbox' : claimStatus'[p.object] = "paid"
    BY <1>1, <1>2, <2>1 DEF ClaimInv, ClaimTypes
  <2>3. o.object = c /\ \A p \in outbox' : p = o \/ p \in outbox
    BY <1>2
  <2>4. PICK n : n.claim = c /\ entries' \subseteq entries \cup {n}
    <3>1. [claim |-> c, amount |-> work[r].total].claim = c
      OBVIOUS
    <3> QED
      BY <3>1, <1>2
  <2> HIDE DEF o
  <2>5. \A p, q \in outbox' : p.object = q.object => p = q
    BY <2>1, <2>3 DEF ClaimInv, Hr!PaidOnce
  <2>6. \A e, f \in entries' : e.claim = f.claim => e = f
    BY <2>1, <2>4 DEF ClaimInv, Hr!PaidOnce
  <2>7. \A e \in entries' : \E p \in outbox' : p.object = e.claim
    BY <1>2, <2>3, <2>4 DEF ClaimInv, Hr!PaidOnce
  <2> QED
    BY <2>2, <2>5, <2>6, <2>7 DEF Hr!PaidOnce
<1> QED
  BY <1>4, <1>5, <1>6, <1>7 DEF ClaimInv

LEMMA CrashInv ==
  ASSUME Hr!ClaimsOK, ClaimInv, NEW r \in Requests, Hr!Crash(r)
  PROVE  ClaimInv'
<1>1. /\ at' = [at EXCEPT ![r] = "idle"] /\ work' = [work EXCEPT ![r] = Hr!NoWork]
      /\ lock' = [c \in Claims |-> IF lock[c] = r THEN Nobody ELSE lock[c]]
      /\ UNCHANGED <<claimStatus, version, total, lines, entries, nextId, outbox>>
  BY DEF Hr!Crash, Hr!Finish, Hr!Goto
<1>2. ClaimTypes'
  BY <1>1, IdleWork DEF ClaimInv, ClaimTypes
<1>3. RowLockInv'
  BY <1>1 DEF Hr!ClaimsOK, ClaimInv, ClaimTypes, RowLockInv
<1>4. ReadInv'
  BY <1>1 DEF ClaimInv, ClaimTypes, ReadInv, Hr!CanTransition
<1>5. Hr!PaidOnce'
  BY <1>1 DEF ClaimInv, Hr!PaidOnce
<1> QED
  BY <1>2, <1>3, <1>4, <1>5 DEF ClaimInv

\* The relay only marks rows.
LEMMA RelayMarksOnly ==
  ASSUME ClaimInv, NEW w \in Workers, Hr!RelayStep(w) \/ Hr!RelayAborts(w)
  PROVE  ClaimInv'
<1>1. UNCHANGED <<claimStatus, version, total, lines, entries, at, work, lock, nextId>>
  BY DEF Hr!RelayStep, Hr!RelayClaims, Hr!RelayPublishes, Hr!RelayMarks, Hr!RelayAborts,
         Hr!claimVars
<1>2. RowLockInv' /\ ReadInv'
  BY <1>1 DEF ClaimInv, RowLockInv, ReadInv, Hr!CanTransition
<1>3. CASE UNCHANGED outbox
  BY <1>1, <1>2, <1>3 DEF ClaimInv, ClaimTypes, Hr!PaidOnce
<1>4. CASE Hr!MarkDelivered(w)
  <2> DEFINE Mark(o) == IF o.id \in Hr!Held(w) THEN [o EXCEPT !.delivered = TRUE] ELSE o
  <2>1. outbox' = {Mark(o) : o \in outbox}
    BY <1>4 DEF Hr!MarkDelivered
  <2>2. \A o \in outbox : /\ Mark(o) \in [id : Nat, object : Claims, delivered : BOOLEAN]
                          /\ Mark(o).object = o.object
    BY DEF ClaimInv, ClaimTypes
  <2> HIDE DEF Mark
  <2>3. ClaimTypes'
    BY <1>1, <2>1, <2>2 DEF ClaimInv, ClaimTypes
  <2>4. Hr!PaidOnce'
    BY <1>1, <2>1, <2>2 DEF ClaimInv, Hr!PaidOnce
  <2> QED
    BY <1>2, <2>3, <2>4 DEF ClaimInv
<1> QED
  BY <1>3, <1>4
  DEF Hr!RelayStep, Hr!RelayClaims, Hr!RelayPublishes, Hr!RelayMarks, Hr!RelayAborts,
  Hr!ClaimRows, Hr!Publish,
      Hr!Abort, Hr!GiveBack

LEMMA ClaimStepInv == ASSUME ClaimInv, [MCNext]_allVars PROVE ClaimInv'
<1>1. CASE UNCHANGED hrVars
  <2>1. UNCHANGED <<claimStatus, version, total, lines, entries, at, work, lock, nextId, outbox>>
    BY <1>1 DEF hrVars
  <2> QED
    BY <2>1
    DEF ClaimInv, ClaimTypes, RowLockInv, ReadInv, Hr!PaidOnce, Hr!CanTransition
<1>2. CASE MCNext /\ ~UNCHANGED hrVars
  BY <1>2, HrAssumption, StartLineInv, LineInv, ReadingInv, ReadStatusInv, WriteStatusInv,
     FlipPaidInv, CommitPayInv, CrashInv, RelayMarksOnly
  DEF Hr!RelayStep, MCNext, InReminders, InCron, InHr, InBoot
<1> QED
  BY <1>1, <1>2 DEF allVars

-----------------------------------------------------------------------------
(* The outbox. *)

\* Rows have ids of their own, and so have the events that are not committed.
IdInv ==
  /\ \A o, q \in outbox : o.id = q.id => o = q
  /\ \A o \in outbox : o.id < nextId
  /\ \A r \in Requests : at[r] = "commit" =>
       work[r].id < nextId /\ \A o \in outbox : o.id # work[r].id
  /\ \A r, s \in Requests :
       at[r] = "commit" /\ at[s] = "commit" /\ work[r].id = work[s].id => r = s

\* A row that is locked is not delivered, and has one relay.
HeldInv ==
  /\ claim \in [Workers -> SUBSET Nat] /\ sent \in [Workers -> SUBSET Nat]
  /\ \A w \in Workers : claim[w] \cap sent[w] = {}
  /\ \A w \in Workers : \A i \in Hr!Held(w) : \E o \in outbox : o.id = i /\ ~o.delivered
  /\ \A v, w \in Workers : v # w => Hr!Held(v) \cap Hr!Held(w) = {}

\* Delivered, or published by a run that has not come to its end.
IsOut(o) == o.delivered \/ \E w \in Workers : o.id \in sent[w]

\* What is on the bus are rows; of each row one copy may not belong to a run that
\* was rolled back, and only if the row is out.
BusInv ==
  /\ Hr!IsABag(published) /\ Hr!IsABag(aborted)
  /\ \A i \in DOMAIN published : \E o \in outbox : o.id = i
  /\ \A o \in outbox : IsOut(o) => o.id \in DOMAIN published
  /\ \A o \in outbox :
       Hr!Copies(o.id, published) <= Hr!Copies(o.id, aborted) + (IF IsOut(o) THEN 1 ELSE 0)

RelayInv == IdInv /\ HeldInv /\ BusInv

\* The bag B with one more copy of what is in S, as Publish and Abort write it.
Put(B, S) == [i \in DOMAIN B \cup S |->
  (IF i \in DOMAIN B THEN B[i] ELSE 0) + (IF i \in S THEN 1 ELSE 0)]

LEMMA BagPlus ==
  ASSUME NEW B, Hr!IsABag(B), NEW S
  PROVE  /\ Hr!IsABag(Put(B, S))
         /\ DOMAIN Put(B, S) = DOMAIN B \cup S
         /\ \A i : /\ Hr!Copies(i, B) \in Nat
                   /\ Hr!Copies(i, Put(B, S)) = Hr!Copies(i, B) + (IF i \in S THEN 1 ELSE 0)
<1>1. B \in [DOMAIN B -> {n \in Nat : n > 0}]
  BY DEF Hr!IsABag
<1> DEFINE C == Put(B, S)
<1>3. DOMAIN C = DOMAIN B \cup S
  BY DEF Put
<1>4. \A i \in DOMAIN C : C[i] = (IF i \in DOMAIN B THEN B[i] ELSE 0) + (IF i \in S THEN 1 ELSE 0)
  BY DEF Put
<1>5. C = [i \in DOMAIN C |-> C[i]]
  BY DEF Put
<1> HIDE DEF C
<1>6. \A i \in DOMAIN B : B[i] \in Nat /\ B[i] > 0
  BY <1>1
<1>7. \A i \in DOMAIN C : C[i] \in {n \in Nat : n > 0}
  BY <1>3, <1>4, <1>6
<1>8. Hr!IsABag(C)
  BY <1>5, <1>7 DEF Hr!IsABag
<1>9. \A i : /\ Hr!Copies(i, B) \in Nat
            /\ Hr!Copies(i, C) = Hr!Copies(i, B) + (IF i \in S THEN 1 ELSE 0)
  BY <1>3, <1>4, <1>6 DEF Hr!Copies, Hr!BagIn, Hr!BagToSet
<1> QED
  BY <1>3, <1>8, <1>9 DEF C

LEMMA CopiesType ==
  ASSUME NEW B, Hr!IsABag(B), NEW i
  PROVE  Hr!Copies(i, B) \in Nat
BY BagPlus

LEMMA RelayInitInv ==
  ASSUME Hr!ClaimsOK, Hr!Init
  PROVE  RelayInv
<1>1. /\ claim = [w \in Workers |-> {}] /\ sent = [w \in Workers |-> {}]
      /\ published = Hr!EmptyBag /\ aborted = Hr!EmptyBag
      /\ \A r \in Requests : at[r] = "idle"
  BY DEF Hr!Init, Hr!OutboxInit
<1>2. \A i : Hr!Copies(i, Hr!EmptyBag) = 0
  BY DEF Hr!Copies, Hr!EmptyBag, Hr!SetToBag, Hr!BagIn, Hr!BagToSet
<1>3. Hr!IsABag(Hr!EmptyBag) /\ DOMAIN Hr!EmptyBag = {}
  BY DEF Hr!IsABag, Hr!EmptyBag, Hr!SetToBag
<1>4. HeldInv
  BY <1>1 DEF HeldInv, Hr!Held
<1>5. \A o \in outbox : ~o.delivered
  BY DEF Hr!Init
<1>6. BusInv
  BY <1>1, <1>2, <1>3, <1>5 DEF BusInv, IsOut
<1>7. IdInv
  <2>1. PICK ids \in Hr!Injection(Hr!PaidFirst, 0 .. Hr!Cardinality(Hr!PaidFirst) - 1) :
          outbox = {[id |-> ids[d], object |-> d, delivered |-> FALSE] : d \in Hr!PaidFirst}
    BY DEF Hr!Init
  <2>2. nextId = Hr!Cardinality(Hr!PaidFirst) /\ nextId \in Nat
    BY ClaimInitInv DEF Hr!Init, ClaimInv, ClaimTypes
  <2>3. /\ \A d \in Hr!PaidFirst : ids[d] \in 0 .. nextId - 1
        /\ \A c, d \in Hr!PaidFirst : ids[c] = ids[d] => c = d
    BY <2>1, <2>2 DEF Hr!Injection, Hr!IsInjective
  <2>4. \A o \in outbox : o.id < nextId
    <3>1. \A d \in Hr!PaidFirst : ids[d] < nextId
      BY <2>2, <2>3
    <3> QED
      BY <2>1, <3>1
  <2>5. ASSUME NEW o \in outbox, NEW q \in outbox, o.id = q.id
        PROVE  o = q
    <3>1. PICK c \in Hr!PaidFirst : o = [id |-> ids[c], object |-> c, delivered |-> FALSE]
      BY <2>1
    <3>2. PICK d \in Hr!PaidFirst : q = [id |-> ids[d], object |-> d, delivered |-> FALSE]
      BY <2>1
    <3> QED
      BY <2>3, <2>5, <3>1, <3>2
  <2> QED
    BY <1>1, <2>4, <2>5 DEF IdInv
<1> QED
  BY <1>4, <1>6, <1>7 DEF RelayInv

\* Steps of requests that stage nothing.
LEMMA StagesNothing ==
  ASSUME ClaimInv, RelayInv, UNCHANGED <<outbox, claim, sent, published, aborted>>,
         nextId' = nextId,
         \A r \in Requests : at'[r] = "commit" => at[r] = "commit" /\ work'[r] = work[r]
  PROVE  RelayInv'
<1>1. IdInv'
  BY DEF RelayInv, IdInv
<1>2. HeldInv' /\ BusInv'
  BY DEF RelayInv, HeldInv, Hr!Held, BusInv, IsOut
<1> QED
  BY <1>1, <1>2 DEF RelayInv

LEMMA RequestRelays ==
  ASSUME ClaimInv, RelayInv, NEW r \in Requests,
         \/ \E c \in Claims : Hr!StartLine(r, c) \/ Hr!StartPay(r, c)
         \/ \E c \in Claims, to \in Hr!Statuses : Hr!StartStatus(r, c, to)
         \/ Hr!InsertLine(r) \/ Hr!SumLines(r) \/ Hr!WriteStatus(r) \/ Hr!Crash(r)
  PROVE  RelayInv'
<1>1. UNCHANGED <<outbox, claim, sent, published, aborted>> /\ nextId' = nextId
  BY DEF Hr!StartLine, Hr!StartPay, Hr!StartStatus, Hr!InsertLine, Hr!SumLines, Hr!WriteStatus,
         Hr!Crash, Hr!outboxVars
<1>2. /\ at'[r] # "commit"
      /\ \A s \in Requests \ {r} : at'[s] = at[s] /\ work'[s] = work[s]
  BY DEF Hr!StartLine, Hr!StartPay, Hr!StartStatus, Hr!InsertLine, Hr!SumLines, Hr!WriteStatus,
         Hr!Crash, Hr!Goto,
         Hr!Finish, ClaimInv, ClaimTypes
<1> QED
  BY <1>1, <1>2, StagesNothing

LEMMA ReadRelays ==
  ASSUME ClaimInv, RelayInv, NEW r \in Requests, NEW c \in Claims,
         Hr!StartLine(r, c) \/ Hr!StartPay(r, c)
  PROVE  RelayInv'
BY RequestRelays

LEMMA StatusRelays ==
  ASSUME ClaimInv, RelayInv, NEW r \in Requests, NEW c \in Claims, NEW to \in Hr!Statuses,
         Hr!StartStatus(r, c, to)
  PROVE  RelayInv'
BY RequestRelays

LEMMA FlipRelays ==
  ASSUME ClaimInv, RelayInv, NEW r \in Requests, Hr!FlipPaid(r)
  PROVE  RelayInv'
<1>1. UNCHANGED <<outbox, claim, sent, published, aborted>>
  BY DEF Hr!FlipPaid, Hr!outboxVars
<1>2. \A s \in Requests \ {r} : at'[s] = at[s] /\ work'[s] = work[s]
  BY DEF Hr!FlipPaid, Hr!Goto, Hr!Finish, ClaimInv, ClaimTypes
<1>3. CASE Hr!SameVersion(r)
  <2>1. /\ nextId' = nextId + 1
        /\ work'[r].id = nextId
    BY <1>3 DEF Hr!FlipPaid, ClaimInv, ClaimTypes
  <2>2. nextId \in Nat /\ \A s \in Requests : work[s].id \in Nat
    BY DEF ClaimInv, ClaimTypes, WorkRow
  <2>3. \A o \in outbox : o.id \in Nat
    BY DEF ClaimInv, ClaimTypes
  <2>4. IdInv'
    <3>1. \A o \in outbox : o.id < nextId' /\ o.id # nextId
      BY <2>1, <2>2, <2>3 DEF RelayInv, IdInv
    <3>2. \A s \in Requests : at'[s] = "commit" =>
            work'[s].id < nextId' /\ \A o \in outbox : o.id # work'[s].id
      BY <1>2, <2>1, <2>2, <3>1 DEF RelayInv, IdInv
    <3>3. \A s \in Requests \ {r} : at'[s] = "commit" => work'[s].id # nextId
      BY <1>2, <2>2 DEF RelayInv, IdInv
    <3>4. \A s, t \in Requests :
            at'[s] = "commit" /\ at'[t] = "commit" /\ work'[s].id = work'[t].id => s = t
      BY <1>2, <2>1, <3>3 DEF RelayInv, IdInv
    <3> QED
      BY <1>1, <3>1, <3>2, <3>4 DEF RelayInv, IdInv
  <2>5. HeldInv' /\ BusInv'
    BY <1>1 DEF RelayInv, HeldInv, Hr!Held, BusInv, IsOut
  <2> QED
    BY <2>4, <2>5 DEF RelayInv
<1>4. CASE ~Hr!SameVersion(r)
  <2>1. at'[r] # "commit" /\ nextId' = nextId
    BY <1>4 DEF Hr!FlipPaid, Hr!Finish, Hr!Goto, ClaimInv, ClaimTypes
  <2> QED
    BY <1>1, <1>2, <2>1, StagesNothing
<1> QED
  BY <1>3, <1>4

\* The new row is not on the bus, since only rows are.
LEMMA CommitRelays ==
  ASSUME ClaimInv, RelayInv, NEW r \in Requests, Hr!CommitPay(r)
  PROVE  RelayInv'
<1>n. PICK n : n = [id |-> work[r].id, object |-> work[r].claim, delivered |-> FALSE]
  OBVIOUS
<1>1. /\ outbox' = outbox \cup {n} /\ UNCHANGED <<claim, sent, published, aborted, nextId>>
      /\ at[r] = "commit"
  BY <1>n DEF Hr!CommitPay, Hr!Emit
<1>2. /\ at'[r] = "idle"
      /\ \A s \in Requests \ {r} : at'[s] = at[s] /\ work'[s] = work[s]
  BY DEF Hr!CommitPay, Hr!Finish, Hr!Goto, ClaimInv, ClaimTypes
<1>3. n.id = work[r].id /\ ~n.delivered
  BY <1>n
<1>4. n.id < nextId /\ \A o \in outbox : o.id # n.id
  BY <1>1, <1>3 DEF RelayInv, IdInv
<1>5. IdInv'
  BY <1>1, <1>2, <1>3, <1>4 DEF RelayInv, IdInv
<1>6. HeldInv'
  BY <1>1 DEF RelayInv, HeldInv, Hr!Held
<1>7. n.id \notin DOMAIN published /\ \A w \in Workers : n.id \notin sent[w]
  BY <1>4 DEF RelayInv, BusInv, HeldInv, Hr!Held
<1>8. BusInv'
  <2>1. Hr!Copies(n.id, published) = 0 /\ Hr!Copies(n.id, aborted) \in Nat
    <3>1. Hr!Copies(n.id, published) = 0
      BY <1>7 DEF Hr!Copies, Hr!BagIn, Hr!BagToSet
    <3> QED
      BY <3>1, CopiesType DEF RelayInv, BusInv
  <2>2. ~IsOut(n)' /\ \A o \in outbox : IsOut(o)' <=> IsOut(o)
    BY <1>1, <1>3, <1>7 DEF IsOut
  <2> HIDE DEF IsOut
  <2>3. \A o \in outbox' : o \in outbox \/ o = n
    BY <1>1
  <2>4. \A o \in outbox' :
          Hr!Copies(o.id, published) <= Hr!Copies(o.id, aborted) + (IF IsOut(o)' THEN 1 ELSE 0)
    BY <2>1, <2>2, <2>3 DEF RelayInv, BusInv
  <2>5. \A o \in outbox' : IsOut(o)' => o.id \in DOMAIN published
    BY <2>2, <2>3 DEF RelayInv, BusInv
  <2>6. \A i \in DOMAIN published : \E o \in outbox' : o.id = i
    BY <1>1 DEF RelayInv, BusInv
  <2> QED
    BY <1>1, <2>4, <2>5, <2>6 DEF RelayInv, BusInv
<1> QED
  BY <1>5, <1>6, <1>8 DEF RelayInv

\* SKIP LOCKED: what one relay holds the others do not see.
LEMMA ClaimRelays ==
  ASSUME ClaimInv, RelayInv, NEW w \in Workers, Hr!ClaimRows(w), UNCHANGED Hr!claimVars
  PROVE  RelayInv'
<1>1. /\ UNCHANGED <<outbox, sent, published, aborted, at, work, nextId>>
      /\ Hr!Held(w) = {}
  BY DEF Hr!ClaimRows, Hr!claimVars
<1>2. PICK batch \in SUBSET Hr!FreeRows : claim' = [claim EXCEPT ![w] = batch]
  BY DEF Hr!ClaimRows
<1>3. \A i \in batch : /\ \E o \in outbox : o.id = i /\ ~o.delivered
                       /\ \A v \in Workers : i \notin Hr!Held(v)
  BY DEF Hr!FreeRows
<1>4. batch \subseteq Nat
  BY <1>3 DEF ClaimInv, ClaimTypes
<1>5. HeldInv'
  <2>1. claim' \in [Workers -> SUBSET Nat] /\ sent' \in [Workers -> SUBSET Nat]
    BY <1>1, <1>2, <1>4 DEF RelayInv, HeldInv
  <2>2. claim'[w] = batch /\ \A v \in Workers \ {w} : claim'[v] = claim[v]
    BY <1>2 DEF RelayInv, HeldInv
  <2>3. Hr!Held(w)' = batch /\ sent[w] = {} /\ \A v \in Workers \ {w} : Hr!Held(v)' = Hr!Held(v)
    BY <1>1, <2>2 DEF Hr!Held
  <2> HIDE DEF Hr!Held
  <2> QED
    BY <1>1, <1>3, <2>1, <2>2, <2>3 DEF RelayInv, HeldInv
<1> QED
  BY <1>1, <1>5 DEF RelayInv, IdInv, BusInv, IsOut

LEMMA PublishRelays ==
  ASSUME ClaimInv, RelayInv, NEW w \in Workers, Hr!Publish(w), UNCHANGED Hr!claimVars
  PROVE  RelayInv'
<1>1. UNCHANGED <<outbox, aborted, at, work, nextId>>
  BY DEF Hr!Publish, Hr!claimVars
<1>2. PICK i \in claim[w] : /\ published' = Put(published, {i})
                            /\ sent' = [sent EXCEPT ![w] = @ \cup {i}]
                            /\ claim' = [claim EXCEPT ![w] = @ \ {i}]
  BY DEF Hr!Publish, Put, Hr!(+), Hr!SetToBag
<1>3. /\ claim'[w] = claim[w] \ {i} /\ sent'[w] = sent[w] \cup {i}
      /\ \A v \in Workers \ {w} : claim'[v] = claim[v] /\ sent'[v] = sent[v]
  BY <1>2 DEF RelayInv, HeldInv
<1>4. \A v \in Workers : Hr!Held(v)' = Hr!Held(v)
  BY <1>3 DEF Hr!Held
<1>5. HeldInv'
  <2>1. i \in Nat /\ i \notin sent[w]
    BY DEF RelayInv, HeldInv
  <2>2. claim' \in [Workers -> SUBSET Nat] /\ sent' \in [Workers -> SUBSET Nat]
    BY <1>2, <2>1 DEF RelayInv, HeldInv
  <2>3. \A v \in Workers : claim'[v] \cap sent'[v] = {}
    BY <1>3, <2>1 DEF RelayInv, HeldInv
  <2> HIDE DEF Hr!Held
  <2> QED
    BY <1>1, <1>4, <2>2, <2>3 DEF RelayInv, HeldInv
<1>6. PICK n \in outbox : n.id = i /\ ~n.delivered
  BY DEF RelayInv, HeldInv, Hr!Held
<1>7. /\ ~IsOut(n) /\ IsOut(n)'
      /\ \A o \in outbox : o # n => (IsOut(o)' <=> IsOut(o)) /\ o.id # i
  <2>1. \A v \in Workers : i \notin sent[v]
    BY DEF RelayInv, HeldInv, Hr!Held
  <2>2. \A o \in outbox : o # n => o.id # i
    BY <1>6 DEF RelayInv, IdInv
  <2> QED
    BY <1>3, <1>6, <2>1, <2>2 DEF IsOut
<1> HIDE DEF IsOut
<1>8. /\ Hr!IsABag(published') /\ DOMAIN published' = DOMAIN published \cup {i}
      /\ \A j : /\ Hr!Copies(j, published) \in Nat /\ Hr!Copies(j, aborted) \in Nat
                /\ Hr!Copies(j, published') = Hr!Copies(j, published) + (IF j \in {i} THEN 1 ELSE 0)
  <2>1. Hr!IsABag(published) /\ Hr!IsABag(aborted)
    BY DEF RelayInv, BusInv
  <2>2. \A j : Hr!Copies(j, aborted) \in Nat
    BY <2>1, CopiesType
  <2> QED
    BY ZenonT(60), <1>2, <2>1, <2>2, BagPlus
<1>9. BusInv'
  <2>1. \A o \in outbox :
          Hr!Copies(o.id, published') <= Hr!Copies(o.id, aborted) + (IF IsOut(o)' THEN 1 ELSE 0)
    BY <1>6, <1>7, <1>8 DEF RelayInv, BusInv
  <2> QED
    BY <1>1, <1>6, <1>7, <1>8, <2>1 DEF RelayInv, BusInv
<1> QED
  BY <1>1, <1>5, <1>9 DEF RelayInv, IdInv

\* A run that ends takes its rows out of its hands; what it has published is
\* delivered, or was in vain.
LEMMA EndRelays ==
  ASSUME ClaimInv, RelayInv, NEW w \in Workers, Hr!MarkDelivered(w) \/ Hr!Abort(w), UNCHANGED Hr!claimVars
  PROVE  RelayInv'
<1>1. /\ UNCHANGED <<published, at, work, nextId>>
      /\ claim' = [claim EXCEPT ![w] = {}] /\ sent' = [sent EXCEPT ![w] = {}]
  BY DEF Hr!MarkDelivered, Hr!Abort, Hr!claimVars
<1>2. /\ claim' \in [Workers -> SUBSET Nat] /\ sent' \in [Workers -> SUBSET Nat]
      /\ claim'[w] = {} /\ sent'[w] = {}
      /\ \A v \in Workers \ {w} : claim'[v] = claim[v] /\ sent'[v] = sent[v]
  BY <1>1 DEF RelayInv, HeldInv
<1>3. Hr!Held(w)' = {} /\ \A v \in Workers \ {w} : Hr!Held(v)' = Hr!Held(v)
  BY <1>2 DEF Hr!Held
<1>4. CASE Hr!MarkDelivered(w)
  <2> DEFINE Mark(o) == IF o.id \in Hr!Held(w) THEN [o EXCEPT !.delivered = TRUE] ELSE o
  <2>1. /\ outbox' = {Mark(o) : o \in outbox} /\ aborted' = aborted /\ Hr!Held(w) = sent[w]
    BY <1>4 DEF Hr!MarkDelivered, Hr!BatchPublished, Hr!Held
  <2>2. \A o \in outbox : /\ Mark(o).id = o.id
                          /\ o.id \in Hr!Held(w) => Mark(o).delivered
                          /\ o.id \notin Hr!Held(w) => Mark(o) = o
    BY DEF ClaimInv, ClaimTypes
  <2> HIDE DEF Mark
  <2>3. IdInv'
    <3>1. \A o, q \in outbox' : o.id = q.id => o = q
      BY <2>1, <2>2 DEF RelayInv, IdInv
    <3> QED
      BY <1>1, <2>1, <2>2, <3>1 DEF RelayInv, IdInv
  <2>4. HeldInv'
    <3>1. ASSUME NEW v \in Workers \ {w}, NEW i \in Hr!Held(v)
          PROVE  \E o \in outbox' : o.id = i /\ ~o.delivered
      <4>1. PICK o \in outbox : o.id = i /\ ~o.delivered
        BY DEF RelayInv, HeldInv
      <4>2. i \notin Hr!Held(w)
        BY DEF RelayInv, HeldInv
      <4> QED
        BY <2>1, <2>2, <4>1, <4>2
    <3> HIDE DEF Hr!Held
    <3> QED
      BY <1>2, <1>3, <3>1 DEF RelayInv, HeldInv
  <2>5. \A o \in outbox, q \in outbox' : q = Mark(o) => (IsOut(q)' <=> IsOut(o))
    <3> SUFFICES ASSUME NEW o \in outbox, NEW q \in outbox', q = Mark(o)
                 PROVE  IsOut(q)' <=> IsOut(o)
      OBVIOUS
    <3>1. CASE o.id \in sent[w]
      BY <2>1, <2>2, <3>1 DEF IsOut
    <3>2. CASE o.id \notin sent[w]
      BY <1>2, <2>1, <2>2, <3>2 DEF IsOut
    <3> QED
      BY <3>1, <3>2
  <2>6. BusInv'
    <3> HIDE DEF IsOut
    <3>1. \A i \in DOMAIN published : \E q \in outbox' : q.id = i
      BY <2>1, <2>2 DEF RelayInv, BusInv
    <3>2. ASSUME NEW q \in outbox'
          PROVE  /\ IsOut(q)' => q.id \in DOMAIN published
                 /\ Hr!Copies(q.id, published) <=
                      Hr!Copies(q.id, aborted) + (IF IsOut(q)' THEN 1 ELSE 0)
      <4>1. PICK o \in outbox : q = Mark(o)
        BY <2>1
      <4>2. q.id = o.id /\ (IsOut(q)' <=> IsOut(o))
        BY <2>2, <2>5, <4>1
      <4> QED
        BY <4>2 DEF RelayInv, BusInv
    <3> QED
      BY <1>1, <2>1, <3>1, <3>2 DEF RelayInv, BusInv
  <2> QED
    BY <2>3, <2>4, <2>6 DEF RelayInv
<1>5. CASE Hr!Abort(w)
  <2>1. outbox' = outbox /\ aborted' = Put(aborted, sent[w])
    BY <1>5 DEF Hr!Abort, Hr!GiveBack, Put, Hr!(+), Hr!SetToBag
  <2>2. HeldInv'
    <3> HIDE DEF Hr!Held
    <3> QED
      BY <1>2, <1>3, <2>1 DEF RelayInv, HeldInv
  <2>3. /\ Hr!IsABag(aborted')
        /\ \A j : /\ Hr!Copies(j, published) \in Nat /\ Hr!Copies(j, aborted) \in Nat
                  /\ Hr!Copies(j, aborted') = Hr!Copies(j, aborted) + (IF j \in sent[w] THEN 1 ELSE 0)
    <3>1. Hr!IsABag(published) /\ Hr!IsABag(aborted)
      BY DEF RelayInv, BusInv
    <3>2. \A j : Hr!Copies(j, published) \in Nat
      BY <3>1, CopiesType
    <3> QED
      BY ZenonT(60), <2>1, <3>1, <3>2, BagPlus
  <2>4. \A o \in outbox : /\ IsOut(o)' => IsOut(o)
                          /\ IsOut(o) => IsOut(o)' \/ o.id \in sent[w]
    BY <1>2, <2>1 DEF IsOut
  <2>5. BusInv'
    <3> HIDE DEF IsOut
    <3>1. \A o \in outbox :
            Hr!Copies(o.id, published) <= Hr!Copies(o.id, aborted') + (IF IsOut(o)' THEN 1 ELSE 0)
      BY <2>3, <2>4 DEF RelayInv, BusInv
    <3> QED
      BY <1>1, <2>1, <2>3, <2>4, <3>1 DEF RelayInv, BusInv
  <2> QED
    BY <1>1, <2>1, <2>2, <2>5 DEF RelayInv, IdInv
<1> QED
  BY <1>4, <1>5

LEMMA RelayStepInv == ASSUME ClaimInv, RelayInv, [MCNext]_allVars PROVE RelayInv'
<1>1. CASE UNCHANGED hrVars
  BY <1>1, StagesNothing DEF hrVars
<1>2. CASE MCNext /\ ~UNCHANGED hrVars
  BY <1>2, RequestRelays, ReadRelays, StatusRelays, FlipRelays, CommitRelays, ClaimRelays,
     PublishRelays, EndRelays
  DEF Hr!RelayClaims, Hr!RelayPublishes, Hr!RelayMarks, Hr!RelayAborts, MCNext, InReminders,
  InCron, InHr, InBoot
<1> QED
  BY <1>1, <1>2 DEF allVars

\* A row is marked delivered only once it is on the bus
\* (platform/trigger/outbox.go:98-103).
LEMMA MarkedIsOut == RelayInv => Hr!MarkedWasPublished
BY DEF RelayInv, BusInv, IsOut, Hr!MarkedWasPublished, Hr!BagIn, Hr!BagToSet

\* A row is published again only after a run that published it and rolled back
\* (platform/trigger/outbox.go:152-155).
LEMMA RepeatsAreCounted == RelayInv => Hr!RepeatsNeedAnAbort
<1> SUFFICES ASSUME RelayInv, NEW o \in outbox
             PROVE  Hr!Copies(o.id, published) <= 1 + Hr!Copies(o.id, aborted)
  BY DEF Hr!RepeatsNeedAnAbort
<1>1. Hr!Copies(o.id, published) \in Nat /\ Hr!Copies(o.id, aborted) \in Nat
  BY BagPlus DEF RelayInv, BusInv
<1> QED
  BY <1>1 DEF RelayInv, BusInv

LEMMA HrHolds == MCSpec => [](ClaimInv /\ RelayInv)
<1>1. MCInit => ClaimInv /\ RelayInv
  BY HrAssumption, ClaimInitInv, RelayInitInv DEF MCInit
<1>2. ClaimInv /\ RelayInv /\ [MCNext]_allVars => (ClaimInv /\ RelayInv)'
  BY ClaimStepInv, RelayStepInv
<1> QED
  BY <1>1, <1>2, PTL DEF MCSpec

\* An expense report is booked and announced once, whoever else pays, cancels or
\* edits it meanwhile: an event's claim is paid, no event and no entry comes
\* twice, and no entry comes without its event (hr/service.go:75-110).
THEOREM PaysOnce == MCSpec => []PaidOnce
<1>1. ClaimInv => PaidOnce
  BY DEF PaidOnce, ClaimInv
<1> QED
  BY <1>1, HrHolds, PTL

\* An event that is marked delivered has been on the bus, and one that has been there
\* twice was published by a run that rolled back, for any number of relays and
\* requests (platform/trigger/outbox.go:98-103, 143-201).
THEOREM Delivers == MCSpec => []DeliveredAtLeastOnce
<1>1. RelayInv => DeliveredAtLeastOnce
  BY MarkedIsOut, RepeatsAreCounted DEF DeliveredAtLeastOnce
<1> QED
  BY <1>1, HrHolds, PTL
-----------------------------------------------------------------------------
(* The start of the process. *)

BootRow(s, i) == Up!Seeds[s].rows[i]
Last(s) == Len(Up!Seeds[s].rows)

Inserts(p, s, i) == bootPc[p] = "insert" /\ bootAt[p] = <<s, i>>

LEMMA SeedList ==
  /\ DOMAIN Up!Seeds = 1 .. 5 /\ Len(Up!Seeds) = 5
  /\ Up!Seeds[1] = Up!AdminSeed /\ Up!Seeds[2] = Up!OrgSeed /\ Up!Seeds[3] = Up!CatalogSeed
  /\ Up!Seeds[4] = Up!SalesSeed /\ Up!Seeds[5] = Up!FinanceSeed
BY DEF Up!Seeds

LEMMA SeedLengths ==
  /\ Last(1) = 1 /\ Last(2) = 3 /\ Last(3) = 3 /\ Last(4) = 7 /\ Last(5) = 4
  /\ \A s \in 1 .. 5 : Last(s) \in 1 .. 7
BY SeedList DEF Last, Up!AdminSeed, Up!OrgSeed, Up!CatalogSeed, Up!SalesSeed, Up!FinanceSeed

LEMMA SeedRows ==
  /\ BootRow(1, 1) = "admin"
  /\ BootRow(2, 1) = "acme" /\ BootRow(2, 2) = "globex" /\ BootRow(2, 3) = "contact"
  /\ BootRow(3, 1) = "warehouse" /\ BootRow(3, 2) = "product" /\ BootRow(3, 3) = "stock"
  /\ BootRow(4, 1) = "proposal" /\ BootRow(4, 2) = "signed" /\ BootRow(4, 3) = "order"
  /\ BootRow(4, 4) = "confirmed" /\ BootRow(4, 5) = "invoice" /\ BootRow(4, 6) = "validated"
  /\ BootRow(4, 7) = "payment"
  /\ BootRow(5, 1) = "account" /\ BootRow(5, 2) = "journal" /\ BootRow(5, 3) = "year"
  /\ BootRow(5, 4) = "bank"
BY SeedList DEF BootRow, Up!AdminSeed, Up!OrgSeed, Up!CatalogSeed, Up!SalesSeed,
   Up!FinanceSeed

LEMMA SmallNumbers ==
  /\ \A s \in 1 .. 5 : s = 1 \/ s = 2 \/ s = 3 \/ s = 4 \/ s = 5
  /\ \A k \in 1 .. 7 : k = 1 \/ k = 2 \/ k = 3 \/ k = 4 \/ k = 5 \/ k = 6 \/ k = 7
OBVIOUS

\* No two seeds share a row.
LEMMA RowsAreDistinct ==
  ASSUME NEW s \in 1 .. 5, NEW i \in 1 .. Last(s), NEW t \in 1 .. 5, NEW j \in 1 .. Last(t),
         BootRow(s, i) = BootRow(t, j)
  PROVE  s = t /\ i = j
BY SeedLengths, SeedRows, SmallNumbers

LEMMA RowsOfSeed ==
  ASSUME NEW s \in 1 .. 5
  PROVE  /\ Up!RowsOf(s) = {BootRow(s, i) : i \in 1 .. Last(s)}
         /\ \A i \in 1 .. Last(s) : BootRow(s, i) \in Up!Rows
         /\ \E i \in 1 .. Last(s) : BootRow(s, i) \in Up!Seeds[s].tell
<1>1. DOMAIN Up!Seeds[s].rows = 1 .. Last(s)
  BY SeedList, SmallNumbers
  DEF Last, Up!AdminSeed, Up!OrgSeed, Up!CatalogSeed, Up!SalesSeed, Up!FinanceSeed
<1>2. Up!RowsOf(s) = {BootRow(s, i) : i \in 1 .. Last(s)}
  BY <1>1 DEF Up!RowsOf, Up!Range, BootRow
<1>3. \A i \in 1 .. Last(s) : BootRow(s, i) \in Up!Rows
  BY <1>2, SeedList DEF Up!Rows
<1>4. \E i \in 1 .. Last(s) : BootRow(s, i) \in Up!Seeds[s].tell
  <2>1. /\ BootRow(1, 1) \in Up!Seeds[1].tell /\ BootRow(2, 1) \in Up!Seeds[2].tell
        /\ BootRow(3, 2) \in Up!Seeds[3].tell /\ BootRow(4, 5) \in Up!Seeds[4].tell
        /\ BootRow(5, 1) \in Up!Seeds[5].tell
    BY SeedRows, SeedList
    DEF Up!AdminSeed, Up!OrgSeed, Up!CatalogSeed, Up!SalesSeed, Up!FinanceSeed
  <2> QED
    BY <2>1, SeedLengths, SmallNumbers
<1> QED
  BY <1>2, <1>3, <1>4

BootType ==
  /\ bootPc \in [Workers -> Up!Starting \cup {"down", "serve"}]
  /\ bootAt \in [Workers -> (1 .. 5) \X (1 .. 7)]
  /\ \A p \in Workers :
       /\ bootAt[p][2] <= Last(bootAt[p][1])
       /\ bootPc[p] \in {"migrate", "apply", "commit", "check"} => bootAt[p][2] = 1
  /\ count \in [Up!Rows -> Nat]
  /\ build \in [Workers -> SUBSET Up!Versions]
  /\ left \in [Workers -> SUBSET Up!Versions]

\* Of the versions of its build a start has checked or applied all but those left.
SchemaInv ==
  \A p \in Workers :
    /\ bootPc[p] \in {"migrate", "apply", "commit"} => build[p] \ left[p] \subseteq applied
    /\ bootPc[p] \in {"check", "insert", "serve"} => build[p] \subseteq applied

\* The rows of a seed come in order.
OrderInv ==
  \A s \in 1 .. 5, i \in 2 .. 7 :
    i <= Last(s) /\ (count[BootRow(s, i)] > 0 \/ \E p \in Workers : Inserts(p, s, i))
      => count[BootRow(s, i - 1)] > 0

\* Where they end there is a start at work, or one has ended.
HalfInv ==
  \A s \in 1 .. 5, i \in 2 .. 7 :
    i <= Last(s) /\ s \notin died /\ count[BootRow(s, i - 1)] > 0 /\ count[BootRow(s, i)] = 0
      => \E p \in Workers : Inserts(p, s, i)

\* A seed in which no start has ended and no two have met has had one start.
OnceInv ==
  \A s \in (1 .. 5) \ (died \cup raced) :
    /\ s \notin failed
    /\ \A i \in 1 .. Last(s) : count[BootRow(s, i)] <= 1
    /\ \A p, q \in Workers, i, j \in 1 .. 7 : Inserts(p, s, i) /\ Inserts(q, s, j) => p = q
    /\ \A p \in Workers, i \in 1 .. 7 : Inserts(p, s, i) =>
         \A k \in i .. Last(s) : count[BootRow(s, k)] = 0

BootInv == BootType /\ SchemaInv /\ OrderInv /\ HalfInv /\ OnceInv

LEMMA BootInit == ASSUME MCInit PROVE BootInv
<1>1. /\ applied = {} /\ count = [r \in Up!Rows |-> 0]
      /\ died = {} /\ raced = {} /\ failed = {}
      /\ bootPc = [p \in Workers |-> "down"]
      /\ build = [p \in Workers |-> {}] /\ left = [p \in Workers |-> {}]
      /\ bootAt = [p \in Workers |-> <<1, 1>>]
  BY DEF MCInit, Up!Init
<1>2. \A s \in 1 .. 5, i \in 1 .. 7 : i <= Last(s) => count[BootRow(s, i)] = 0
  BY <1>1, RowsOfSeed, SeedLengths
<1>before. \A i \in 2 .. 7 : i - 1 \in 1 .. 7 /\ \A s \in 1 .. 5 : i <= Last(s) => i - 1 <= Last(s)
  BY SeedLengths
<1>3. BootType
  BY <1>1, SeedLengths DEF BootType
<1>4. \A p \in Workers : bootPc[p] = "down"
  BY <1>1
<1> HIDE DEF BootRow, Last
<1>5. SchemaInv
  BY <1>4 DEF SchemaInv
<1>6. OrderInv /\ HalfInv
  BY <1>2, <1>before, <1>4 DEF OrderInv, HalfInv, Inserts
<1>7. OnceInv
  BY <1>1, <1>2, <1>4, SeedLengths DEF OnceInv, Inserts
<1> QED
  BY <1>3, <1>5, <1>6, <1>7 DEF BootInv

\* Steps that insert nothing and meet nobody.
LEMMA SeedsRest ==
  ASSUME BootInv, BootType', SchemaInv', UNCHANGED <<count, died, raced, failed>>,
         \A p \in Workers : /\ bootPc'[p] = "insert" <=> bootPc[p] = "insert"
                            /\ bootPc[p] = "insert" => bootAt'[p] = bootAt[p]
  PROVE  BootInv'
<1>1. \A p \in Workers : \A s, i : Inserts(p, s, i)' <=> Inserts(p, s, i)
  BY DEF Inserts
<1> HIDE DEF Inserts, BootRow, Last
<1> QED
  BY <1>1 DEF BootInv, OrderInv, HalfInv, OnceInv

LEMMA VersionStep ==
  ASSUME BootInv, NEW p \in Workers,
         (\E b \in Builds : Up!Start(p, b)) \/ Up!CheckVersion(p) \/ Up!ApplyVersion(p)
           \/ Up!CommitVersion(p) \/ Up!Preflight(p) \/ Up!Stop(p)
  PROVE  BootInv'
<1>1. UNCHANGED <<count, died, raced, failed>>
  BY DEF Up!Start, Up!CheckVersion, Up!ApplyVersion, Up!CommitVersion, Up!Preflight, Up!Stop
<1>2. bootPc[p] # "insert" /\ bootPc'[p] # "insert"
      /\ \A q \in Workers \ {p} : bootPc'[q] = bootPc[q] /\ bootAt'[q] = bootAt[q]
  BY DEF Up!Start, Up!CheckVersion, Up!ApplyVersion, Up!CommitVersion, Up!Preflight, Up!Stop,
         Up!Goto, BootInv, BootType
<1>3. \A b \in Builds : b \in SUBSET Up!Versions
  BY DEF Up!Versions
<1>4. BootType' /\ SchemaInv'
  <2>1. ASSUME NEW b \in Builds, Up!Start(p, b) PROVE BootType' /\ SchemaInv'
    <3>1. BootType'
      BY <1>3, <2>1, SeedLengths DEF Up!Start, Up!Goto, Up!Starting, BootInv, BootType
    <3>2. SchemaInv'
      BY <2>1 DEF Up!Start, Up!Goto, BootInv, BootType, SchemaInv
    <3> QED
      BY <3>1, <3>2
  <2>2. CASE Up!CheckVersion(p)
    <3> DEFINE v == Up!Min(left[p])
    <3>1. /\ bootPc[p] = "migrate" /\ UNCHANGED <<applied, count, build, bootAt>>
          /\ \/ v \in applied /\ left' = [left EXCEPT ![p] = @ \ {v}] /\ bootPc' = bootPc
             \/ bootPc' = [bootPc EXCEPT ![p] = "apply"] /\ left' = left
      BY <2>2 DEF Up!CheckVersion, Up!Applied, Up!Goto
    <3> HIDE DEF v
    <3>2. BootType'
      BY <3>1 DEF Up!Starting, BootInv, BootType
    <3>3. SchemaInv'
      BY <3>1 DEF BootInv, BootType, SchemaInv
    <3> QED
      BY <3>2, <3>3
  <2>3. CASE Up!ApplyVersion(p)
    <3>1. /\ bootPc[p] = "apply" /\ UNCHANGED <<applied, count, build, bootAt, left>>
          /\ \/ bootPc' = [bootPc EXCEPT ![p] = "down"]
             \/ bootPc' = [bootPc EXCEPT ![p] = "commit"]
      BY <2>3 DEF Up!ApplyVersion, Up!Goto
    <3>2. BootType'
      BY <3>1 DEF Up!Starting, BootInv, BootType
    <3>3. SchemaInv'
      BY <3>1 DEF BootInv, BootType, SchemaInv
    <3> QED
      BY <3>2, <3>3
  <2>4. CASE Up!CommitVersion(p)
    <3> DEFINE v == Up!Min(left[p])
    <3>1. /\ bootPc[p] = "commit" /\ UNCHANGED <<count, build, bootAt>>
          /\ applied' = applied \cup {v} /\ left' = [left EXCEPT ![p] = @ \ {v}]
          /\ bootPc' = [bootPc EXCEPT ![p] = "migrate"]
      BY <2>4 DEF Up!CommitVersion, Up!Goto
    <3> HIDE DEF v
    <3>2. BootType'
      BY <3>1 DEF Up!Starting, BootInv, BootType
    <3>3. SchemaInv'
      BY <3>1 DEF BootInv, BootType, SchemaInv
    <3> QED
      BY <3>2, <3>3
  <2>5. CASE Up!Preflight(p)
    <3>1. /\ bootPc[p] = "migrate" /\ left[p] = {}
          /\ UNCHANGED <<applied, count, build, bootAt, left>>
          /\ bootPc' = [bootPc EXCEPT ![p] = "check"]
      BY <2>5 DEF Up!Preflight, Up!Goto
    <3>2. BootType'
      BY <3>1 DEF Up!Starting, BootInv, BootType
    <3>3. SchemaInv'
      BY <3>1 DEF BootInv, BootType, SchemaInv
    <3> QED
      BY <3>2, <3>3
  <2>6. CASE Up!Stop(p)
    BY <2>6 DEF Up!Stop, Up!Goto, Up!Starting, BootInv, BootType, SchemaInv
  <2> QED
    BY <2>1, <2>2, <2>3, <2>4, <2>5, <2>6
<1> QED
  BY <1>1, <1>2, <1>4, SeedsRest

\* A place in the seeds.
LEMMA BootPlace ==
  ASSUME BootInv, NEW p \in Workers
  PROVE  /\ Up!SeedOf(p) \in 1 .. 5 /\ bootAt[p][2] \in 1 .. Last(Up!SeedOf(p))
         /\ bootAt[p] = <<Up!SeedOf(p), bootAt[p][2]>>
         /\ \A s, i : Inserts(p, s, i) =>
              bootPc[p] = "insert" /\ s = Up!SeedOf(p) /\ i = bootAt[p][2]
<1>1. bootAt[p] \in (1 .. 5) \X (1 .. 7) /\ bootAt[p][2] <= Last(bootAt[p][1])
  BY DEF BootInv, BootType
<1> QED
  BY <1>1, SeedLengths DEF Up!SeedOf, Inserts

\* The next seed, or the listeners.
LEMMA AfterSeedIs ==
  ASSUME BootInv, NEW p \in Workers, Up!AfterSeed(p)
  PROVE  /\ \A q \in Workers \ {p} : bootPc'[q] = bootPc[q] /\ bootAt'[q] = bootAt[q]
         /\ bootPc'[p] \in {"check", "serve"}
         /\ bootPc' \in [Workers -> Up!Starting \cup {"down", "serve"}]
         /\ bootAt' \in [Workers -> (1 .. 5) \X (1 .. 7)]
         /\ bootAt'[p][2] <= Last(bootAt'[p][1])
         /\ bootPc'[p] = "check" => bootAt'[p][2] = 1
<1>1. bootPc \in [Workers -> Up!Starting \cup {"down", "serve"}]
      /\ bootAt \in [Workers -> (1 .. 5) \X (1 .. 7)]
      /\ bootAt[p][2] <= Last(bootAt[p][1])
  BY DEF BootInv, BootType
<1>2. CASE Up!SeedOf(p) < Len(Up!Seeds)
  <2>1. /\ bootAt' = [bootAt EXCEPT ![p] = <<bootAt[p][1] + 1, 1>>]
        /\ bootPc' = [bootPc EXCEPT ![p] = "check"]
    BY <1>2 DEF Up!AfterSeed, Up!Goto
  <2>2. bootAt[p][1] + 1 \in 1 .. 5
    BY <1>1, <1>2, SeedList DEF Up!SeedOf
  <2> QED
    BY <1>1, <2>1, <2>2, SeedLengths DEF Up!Starting
<1>3. CASE ~(Up!SeedOf(p) < Len(Up!Seeds))
  BY <1>1, <1>3 DEF Up!AfterSeed, Up!Goto
<1> QED
  BY <1>2, <1>3

LEMMA SkipStep ==
  ASSUME BootInv, NEW p \in Workers, Up!SkipSeed(p)
  PROVE  BootInv'
<1>1. /\ bootPc[p] = "check" /\ Up!AfterSeed(p)
      /\ UNCHANGED <<applied, count, died, raced, failed, build, left>>
  BY DEF Up!SkipSeed
<1>2. BootType'
  BY <1>1, AfterSeedIs DEF BootInv, BootType
<1>3. SchemaInv'
  BY <1>1, AfterSeedIs DEF BootInv, BootType, SchemaInv
<1>4. \A q \in Workers : /\ bootPc'[q] = "insert" <=> bootPc[q] = "insert"
                         /\ bootPc[q] = "insert" => bootAt'[q] = bootAt[q]
  BY <1>1, AfterSeedIs
<1> QED
  BY <1>1, <1>2, <1>3, <1>4, SeedsRest

\* A seed that nobody is at and nobody has died in is there as a whole, or not at all.
LEMMA AllOrNone ==
  ASSUME BootInv, NEW s \in (1 .. 5) \ died,
         \A p \in Workers : ~(bootPc[p] = "insert" /\ Up!SeedOf(p) = s)
  PROVE  \A i, j \in 1 .. Last(s) : count[BootRow(s, i)] > 0 <=> count[BootRow(s, j)] > 0
<1> DEFINE There(i) == count[BootRow(s, i)] > 0
<1>1. \A i \in 2 .. 7 : i <= Last(s) => (There(i) <=> There(i - 1))
  <2>1. \A p \in Workers : \A i : ~Inserts(p, s, i)
    BY DEF Inserts, Up!SeedOf
  <2>2. \A i \in 2 .. 7 : i <= Last(s) => i \in 1 .. Last(s) /\ i - 1 \in 1 .. Last(s)
    BY SeedLengths
  <2>3. \A i \in 1 .. Last(s) : count[BootRow(s, i)] \in Nat
    BY RowsOfSeed DEF BootInv, BootType
  <2> HIDE DEF BootRow, Last
  <2> QED
    BY <2>1, <2>2, <2>3 DEF BootInv, OrderInv, HalfInv
<1> HIDE DEF There
<1>2. /\ 2 <= Last(s) => (There(2) <=> There(1))
      /\ 3 <= Last(s) => (There(3) <=> There(2))
      /\ 4 <= Last(s) => (There(4) <=> There(3))
      /\ 5 <= Last(s) => (There(5) <=> There(4))
      /\ 6 <= Last(s) => (There(6) <=> There(5))
      /\ 7 <= Last(s) => (There(7) <=> There(6))
  BY <1>1
<1>3. \A i \in 1 .. Last(s) : There(i) <=> There(1)
  <2>1. Last(s) \in 1 .. 7
    BY SeedLengths
  <2> HIDE DEF Last
  <2> QED
    BY <1>2, <2>1
<1> QED
  BY <1>3 DEF There

LEMMA StartSeedStep ==
  ASSUME BootInv, NEW p \in Workers, Up!StartSeed(p)
  PROVE  BootInv'
<1> DEFINE s == Up!SeedOf(p)
<1>1. /\ bootPc[p] = "check" /\ bootPc' = [bootPc EXCEPT ![p] = "insert"]
      /\ ~Up!Seeded(s)
      /\ UNCHANGED <<applied, count, died, failed, build, left, bootAt>>
  BY DEF Up!StartSeed, Up!Goto
<1>2. /\ s \in 1 .. 5 /\ bootAt[p] = <<s, 1>>
      /\ bootPc'[p] = "insert" /\ \A q \in Workers \ {p} : bootPc'[q] = bootPc[q]
  BY <1>1, BootPlace DEF BootInv, BootType
<1>3. BootType' /\ SchemaInv'
  BY <1>1 DEF BootInv, BootType, SchemaInv, Up!Starting
<1>4. \A q \in Workers, t \in 1 .. 5, i \in 1 .. 7 :
        Inserts(q, t, i)' <=> Inserts(q, t, i) \/ (q = p /\ t = s /\ i = 1)
  BY <1>1, <1>2 DEF Inserts
<1>5. OrderInv' /\ HalfInv'
  <2>1. \A i \in 2 .. 7 : i \in 1 .. 7 /\ i # 1
    OBVIOUS
  <2> HIDE DEF Inserts, BootRow, Last, s
  <2> QED
    BY <1>1, <1>4, <2>1 DEF BootInv, OrderInv, HalfInv
<1>6. OnceInv'
  <2>1. CASE \E q \in Workers : bootPc[q] = "insert" /\ Up!SeedOf(q) = s
    <3>1. raced' = raced \cup {s}
      BY <2>1 DEF Up!StartSeed
    <3> HIDE DEF Inserts, BootRow, Last, s
    <3> QED
      BY <1>1, <1>4, <3>1 DEF BootInv, OnceInv
  <2>2. CASE ~ \E q \in Workers : bootPc[q] = "insert" /\ Up!SeedOf(q) = s
    <3>1. raced' = raced
      BY <2>2 DEF Up!StartSeed
    <3>2. \A q \in Workers : \A i : ~Inserts(q, s, i)
      BY <2>2 DEF Inserts, Up!SeedOf
    <3>3. s \notin died => \A k \in 1 .. Last(s) : count[BootRow(s, k)] = 0
      <4>1. PICK i \in 1 .. Last(s) : ~(count[BootRow(s, i)] > 0)
        BY <1>1, <1>2, RowsOfSeed DEF Up!Seeded
      <4>2. \A k \in 1 .. Last(s) : count[BootRow(s, k)] \in Nat
        BY <1>2, RowsOfSeed DEF BootInv, BootType
      <4> QED
        BY <1>2, <2>2, <4>1, <4>2, AllOrNone
    <3> HIDE DEF Inserts, BootRow, Last, s
    <3> QED
      BY <1>1, <1>4, <3>1, <3>2, <3>3 DEF BootInv, OnceInv
  <2> QED
    BY <2>1, <2>2
<1> QED
  BY <1>3, <1>5, <1>6 DEF BootInv

\* A start that leaves a seed before its end has died in it, or found a code taken that
\* somebody else has inserted.
LEMMA LeaveStep ==
  ASSUME BootInv, NEW p \in Workers,
         Up!Exit(p) \/ (Up!InsertSeed(p) /\ UNCHANGED count)
  PROVE  BootInv'
<1> DEFINE s == Up!SeedOf(p)
           k == bootAt[p][2]
<1>1. s \in 1 .. 5 /\ k \in 1 .. Last(s) /\ k \in 1 .. 7 /\ BootRow(s, k) \in Up!Rows
  BY BootPlace, RowsOfSeed, SeedLengths
<1>2. count[BootRow(s, k)] \in Nat /\ count[BootRow(s, k)] + 1 # count[BootRow(s, k)]
  BY <1>1 DEF BootInv, BootType
<1>3. /\ bootPc' = [bootPc EXCEPT ![p] = "down"]
      /\ UNCHANGED <<applied, count, raced, build, left, bootAt>>
      /\ \/ bootPc[p] # "insert" /\ UNCHANGED <<died, failed>>
         \/ bootPc[p] = "insert" /\ died' = died \cup {s} /\ failed' = failed
         \/ /\ bootPc[p] = "insert" /\ died' = died /\ failed' = failed \cup {s}
            /\ count[BootRow(s, k)] > 0
  <2>1. CASE Up!Exit(p)
    BY <2>1 DEF Up!Exit, Up!Goto
  <2>2. CASE Up!InsertSeed(p) /\ UNCHANGED count
    <3>1. count' # [count EXCEPT ![BootRow(s, k)] = @ + 1]
      BY <1>1, <1>2, <2>2 DEF BootInv, BootType
    <3> QED
      BY <2>2, <3>1 DEF Up!InsertSeed, Up!Goto, BootRow
  <2> QED
    BY <2>1, <2>2
<1>4. BootType' /\ SchemaInv'
  BY <1>3 DEF BootInv, BootType, SchemaInv
<1>5. bootPc'[p] = "down" /\ \A q \in Workers \ {p} : bootPc'[q] = bootPc[q]
  BY <1>3 DEF BootInv, BootType
<1>6. CASE bootPc[p] # "insert"
  BY <1>3, <1>4, <1>5, <1>6, SeedsRest
<1>7. CASE bootPc[p] = "insert"
  <2>1. \A q \in Workers : \A t, i : Inserts(q, t, i)' <=> Inserts(q, t, i) /\ q # p
    BY <1>3, <1>5 DEF Inserts
  <2>2. Inserts(p, s, k) /\ \A t, i : Inserts(p, t, i) => t = s /\ i = k
    BY <1>7, BootPlace DEF Inserts
  <2> HIDE DEF Inserts, BootRow, Last, s, k
  <2>3. OrderInv'
    BY <1>3, <2>1 DEF BootInv, OrderInv
  <2>4. HalfInv'
    BY <1>3, <1>7, <1>2, <2>1, <2>2 DEF BootInv, HalfInv
  <2>5. OnceInv'
    BY <1>1, <1>3, <1>7, <2>1, <2>2 DEF BootInv, OnceInv
  <2> QED
    BY <1>4, <2>3, <2>4, <2>5 DEF BootInv
<1> QED
  BY <1>6, <1>7

LEMMA InsertStep ==
  ASSUME BootInv, NEW p \in Workers, Up!InsertSeed(p), ~UNCHANGED count
  PROVE  BootInv'
<1> DEFINE s == Up!SeedOf(p)
           k == bootAt[p][2]
<1>1. s \in 1 .. 5 /\ k \in 1 .. Last(s) /\ k \in 1 .. 7 /\ BootRow(s, k) \in Up!Rows
  BY BootPlace, RowsOfSeed, SeedLengths
<1>2. /\ bootPc[p] = "insert" /\ count' = [count EXCEPT ![BootRow(s, k)] = @ + 1]
      /\ \/ k < Last(s) /\ bootAt' = [bootAt EXCEPT ![p][2] = @ + 1] /\ bootPc' = bootPc
         \/ ~(k < Last(s)) /\ Up!AfterSeed(p)
      /\ UNCHANGED <<applied, died, raced, failed, build, left>>
  BY DEF Up!InsertSeed, BootRow, Last
<1>3. \A t \in 1 .. 5, i \in 1 .. 7 : i <= Last(t) =>
        /\ count[BootRow(t, i)] \in Nat
        /\ count'[BootRow(t, i)] =
             count[BootRow(t, i)] + (IF t = s /\ i = k THEN 1 ELSE 0)
  <2> SUFFICES ASSUME NEW t \in 1 .. 5, NEW i \in 1 .. Last(t)
               PROVE  /\ count[BootRow(t, i)] \in Nat
                      /\ count'[BootRow(t, i)] =
                           count[BootRow(t, i)] + (IF t = s /\ i = k THEN 1 ELSE 0)
    BY SeedLengths
  <2>1. BootRow(t, i) \in Up!Rows /\ (BootRow(t, i) = BootRow(s, k) <=> t = s /\ i = k)
    BY <1>1, RowsOfSeed, RowsAreDistinct
  <2> HIDE DEF BootRow, Last, s, k
  <2> QED
    BY <1>1, <1>2, <2>1 DEF BootInv, BootType
<1>4. /\ \A q \in Workers \ {p} : bootPc'[q] = bootPc[q] /\ bootAt'[q] = bootAt[q]
      /\ k < Last(s) => bootPc'[p] = "insert" /\ bootAt'[p] = <<s, k + 1>>
      /\ ~(k < Last(s)) => bootPc'[p] # "insert"
      /\ bootPc'[p] \in {"insert", "check", "serve"}
      /\ bootPc' \in [Workers -> Up!Starting \cup {"down", "serve"}]
      /\ bootAt' \in [Workers -> (1 .. 5) \X (1 .. 7)]
      /\ bootAt'[p][2] <= Last(bootAt'[p][1])
      /\ bootPc'[p] = "check" => bootAt'[p][2] = 1
  <2>1. CASE k < Last(s)
    <3>1. /\ bootAt \in [Workers -> (1 .. 5) \X (1 .. 7)]
          /\ bootPc \in [Workers -> Up!Starting \cup {"down", "serve"}]
      BY DEF BootInv, BootType
    <3>2. bootAt[p] = <<s, k>> /\ k + 1 \in 1 .. 7 /\ k + 1 <= Last(s)
      BY <1>1, <2>1, BootPlace, SeedLengths
    <3>3. bootAt' = [bootAt EXCEPT ![p] = <<s, k + 1>>] /\ bootPc' = bootPc
      BY <1>2, <2>1, <3>1, <3>2
    <3> HIDE DEF s, k, Last
    <3> QED
      BY <1>1, <1>2, <2>1, <3>1, <3>2, <3>3
  <2>2. CASE ~(k < Last(s))
    BY <1>2, <2>2, AfterSeedIs
  <2> QED
    BY <2>1, <2>2
<1>5. BootType'
  <2>1. count' \in [Up!Rows -> Nat]
    BY <1>1, <1>2 DEF BootInv, BootType
  <2> HIDE DEF s, k, Last
  <2> QED
    BY <1>2, <1>4, <2>1 DEF BootInv, BootType
<1>6. SchemaInv'
  <2> HIDE DEF s, k, Last
  <2> QED
    BY <1>2, <1>4 DEF BootInv, SchemaInv
<1>7. \A q \in Workers, t \in 1 .. 5, i \in 1 .. 7 :
        Inserts(q, t, i)' <=> \/ q # p /\ Inserts(q, t, i)
                              \/ q = p /\ k < Last(s) /\ t = s /\ i = k + 1
  <2> HIDE DEF s, k, Last
  <2> QED
    BY <1>4 DEF Inserts
<1>8. Inserts(p, s, k) /\ \A t, i : Inserts(p, t, i) => t = s /\ i = k
  BY <1>2, BootPlace DEF Inserts
<1>9. Last(s) \in 1 .. 7
  BY <1>1, SeedLengths
<1> HIDE DEF Inserts, BootRow, Last, s, k
<1>10. OrderInv'
  <2> SUFFICES ASSUME NEW t \in 1 .. 5, NEW i \in 2 .. 7, i <= Last(t),
                      count'[BootRow(t, i)] > 0 \/ \E q \in Workers : Inserts(q, t, i)'
               PROVE  count'[BootRow(t, i - 1)] > 0
    BY DEF OrderInv, Last, BootRow
  <2>1. i \in 1 .. 7 /\ i - 1 \in 1 .. 7 /\ Last(t) \in 1 .. 7 /\ i - 1 <= Last(t)
    BY SeedLengths
  <2>2. CASE count[BootRow(t, i)] > 0 \/ \E q \in Workers : Inserts(q, t, i)
    <3>1. count[BootRow(t, i - 1)] > 0
      BY <2>2 DEF BootInv, OrderInv
    <3> QED
      BY <1>3, <2>1, <3>1
  <2>3. CASE ~(count[BootRow(t, i)] > 0 \/ \E q \in Workers : Inserts(q, t, i))
    <3>1. t = s /\ i = k + 1
      BY <1>3, <1>7, <1>8, <2>1, <2>3
    <3> QED
      BY <1>1, <1>3, <2>1, <3>1
  <2> QED
    BY <2>2, <2>3
<1>11. HalfInv'
  <2> SUFFICES ASSUME NEW t \in (1 .. 5) \ died, NEW i \in 2 .. 7, i <= Last(t),
                      count'[BootRow(t, i - 1)] > 0, count'[BootRow(t, i)] = 0
               PROVE  \E q \in Workers : Inserts(q, t, i)'
    BY <1>2 DEF HalfInv, Last, BootRow
  <2>1. i \in 1 .. 7 /\ i - 1 \in 1 .. 7 /\ Last(t) \in 1 .. 7 /\ i - 1 <= Last(t)
    BY SeedLengths
  <2>2. CASE t = s /\ i - 1 = k
    BY <1>1, <1>7, <2>1, <2>2
  <2>3. CASE ~(t = s /\ i - 1 = k)
    <3>1. count[BootRow(t, i - 1)] > 0 /\ count[BootRow(t, i)] = 0 /\ ~(t = s /\ i = k)
      BY <1>3, <2>1, <2>3
    <3>2. PICK q \in Workers : Inserts(q, t, i)
      BY <3>1 DEF BootInv, HalfInv
    <3> QED
      BY <1>7, <1>8, <2>1, <3>1, <3>2
  <2> QED
    BY <2>2, <2>3
<1>12. OnceInv'
  <2> SUFFICES ASSUME NEW t \in (1 .. 5) \ (died \cup raced)
               PROVE  /\ t \notin failed
                      /\ \A i \in 1 .. Last(t) : count'[BootRow(t, i)] <= 1
                      /\ \A q, w \in Workers, i, j \in 1 .. 7 :
                           Inserts(q, t, i)' /\ Inserts(w, t, j)' => q = w
                      /\ \A q \in Workers, i \in 1 .. 7 : Inserts(q, t, i)' =>
                           \A j \in i .. Last(t) : count'[BootRow(t, j)] = 0
    BY <1>2 DEF OnceInv, Last, BootRow
  <2>1. Last(t) \in 1 .. 7
    BY SeedLengths
  <2>2. t \notin failed
    BY DEF BootInv, OnceInv
  <2>3. CASE t # s
    <3>1. \A i \in 1 .. Last(t) : i \in 1 .. 7 /\ count'[BootRow(t, i)] = count[BootRow(t, i)]
      BY <1>3, <2>1, <2>3
    <3>2. \A q \in Workers, i \in 1 .. 7 : Inserts(q, t, i)' <=> Inserts(q, t, i)
      BY <1>7, <1>8, <2>3
    <3>3. \A i \in 1 .. 7 : \A j \in i .. Last(t) : j \in 1 .. Last(t)
      BY <2>1
    <3> QED
      BY <2>2, <3>1, <3>2, <3>3 DEF BootInv, OnceInv
  <2>4. CASE t = s
    <3>1. \A j \in k .. Last(t) : j \in 1 .. 7 /\ count[BootRow(t, j)] = 0
      BY <1>1, <1>8, <1>9, <2>4 DEF BootInv, OnceInv
    <3>2. \A q, w \in Workers, i, j \in 1 .. 7 : Inserts(q, t, i) /\ Inserts(w, t, j) => q = w
      BY DEF BootInv, OnceInv
    <3>3. \A q \in Workers, i \in 1 .. 7 : Inserts(q, t, i)' => q = p /\ i = k + 1
      <4>1. Inserts(p, t, k)
        BY <1>8, <2>4
      <4>2. \A q \in Workers, i \in 1 .. 7 : Inserts(q, t, i) => q = p
        BY <1>1, <3>2, <4>1
      <4> QED
        BY <1>7, <4>2
    <3>4. \A i \in 1 .. Last(t) : count'[BootRow(t, i)] <= 1
      <4>1. \A i \in 1 .. Last(t) : i \in 1 .. 7 /\ count[BootRow(t, i)] <= 1
        BY <2>1 DEF BootInv, OnceInv
      <4>2. count[BootRow(t, k)] = 0
        BY <1>1, <2>1, <2>4, <3>1
      <4> QED
        BY <1>1, <1>3, <2>4, <4>1, <4>2
    <3>5. \A j \in (k + 1) .. Last(t) : count'[BootRow(t, j)] = 0
      <4>1. \A j \in (k + 1) .. Last(t) : j \in k .. Last(t) /\ j # k /\ j <= Last(t)
        BY <1>1, <2>1
      <4> QED
        BY <1>1, <1>3, <2>4, <3>1, <4>1
    <3>6. \A q, w \in Workers, i, j \in 1 .. 7 : Inserts(q, t, i)' /\ Inserts(w, t, j)' => q = w
      BY <3>3
    <3>7. \A q \in Workers, i \in 1 .. 7 : Inserts(q, t, i)' =>
            \A j \in i .. Last(t) : count'[BootRow(t, j)] = 0
      BY <3>3, <3>5
    <3> QED
      BY <2>2, <3>4, <3>6, <3>7
  <2> QED
    BY <2>3, <2>4
<1> QED
  BY <1>5, <1>6, <1>10, <1>11, <1>12 DEF BootInv

LEMMA BootStep == ASSUME BootInv, [MCNext]_allVars PROVE BootInv'
<1>1. CASE UNCHANGED bootVars
  <2>1. UNCHANGED <<applied, count, died, raced, failed, bootPc, build, left, bootAt>>
    BY <1>1 DEF bootVars
  <2>2. BootType' /\ SchemaInv'
    BY <2>1 DEF BootInv, BootType, SchemaInv
  <2> QED
    BY <2>1, <2>2, SeedsRest
<1>2. CASE MCNext /\ ~UNCHANGED bootVars
  BY <1>2, VersionStep, SkipStep, StartSeedStep, LeaveStep, InsertStep
  DEF MCNext, InReminders, InCron, InHr, InBoot
<1> QED
  BY <1>1, <1>2 DEF allVars

\* Starts that overlap or die leave the schema whole, and a seed in part or twice only
\* where one of them died or two met, for any replicas and builds
\* (cmd/api/main.go:83-141, platform/db.go:29-74).
THEOREM StartsLeaveOrder == MCSpec => []StartsAgree
<1>1. BootInv => Up!ServingHasSchema
  BY DEF BootInv, SchemaInv, Up!ServingHasSchema
<1>2. ASSUME BootInv, NEW s \in 1 .. 5, Up!Half(s), ~Up!AtWork(s) PROVE s \in died
  <2>1. PICK i, j \in 1 .. Last(s) : count[BootRow(s, i)] > 0 /\ count[BootRow(s, j)] = 0
    BY <1>2, RowsOfSeed DEF Up!Half
  <2> QED
    BY <1>2, <2>1, AllOrNone DEF Up!AtWork
<1>3. ASSUME BootInv, NEW s \in 1 .. 5, Up!Twice(s) \/ s \in failed PROVE s \in died \cup raced
  <2>1. CASE s \in failed
    BY <1>3, <2>1 DEF BootInv, OnceInv
  <2>2. CASE Up!Twice(s)
    <3>1. PICK i \in 1 .. Last(s) : count[BootRow(s, i)] > 1
      BY <2>2, RowsOfSeed DEF Up!Twice
    <3>2. count[BootRow(s, i)] \in Nat
      BY <1>3, RowsOfSeed DEF BootInv, BootType
    <3> QED
      BY <1>3, <3>1, <3>2 DEF BootInv, OnceInv
  <2> QED
    BY <1>3, <2>1, <2>2
<1>4. BootInv => StartsAgree
  BY <1>1, <1>2, <1>3, SeedList DEF StartsAgree, Up!SeedsNeedOneStart
<1>5. MCInit => BootInv
  BY BootInit
<1>6. BootInv /\ [MCNext]_allVars => BootInv'
  BY BootStep
<1> QED
  BY <1>4, <1>5, <1>6, PTL DEF MCSpec
-----------------------------------------------------------------------------
(* The scheduler. *)

LEMMA CronCard == \A S : Cron!Cardinality(S) = Cardinality(S)
BY DEF Cron!Cardinality, Cardinality

\* The order of the runs of a job.
LEMMA RunsAreOrdered ==
  /\ \A a, b, c \in Cron!Run : Cron!Before(a, b) /\ Cron!Before(b, c) => Cron!Before(a, c)
  /\ \A a \in Cron!Run : ~Cron!Before(a, a)
  /\ \A a, b \in Cron!Run : a.id # b.id => Cron!Before(a, b) \/ Cron!Before(b, a)
BY DEF Cron!Run, Cron!Before

Newer(S, a) == {b \in S : Cron!Before(a, b)}

LEMMA PrunedIs ==
  \A S : Cron!PruneIDs(S) = {a \in S : Cardinality(Newer(S, a)) >= Retention}
BY CronCard DEF Cron!PruneIDs, Newer

LEMMA RetentionIs == Retention \in Nat /\ Retention > 0
BY CronAssumption DEF Cron!ConstantsOK

\* What comes before a run to delete is to be deleted.
LEMMA PrunedIsDownward ==
  ASSUME NEW S \in SUBSET Cron!Run, IsFiniteSet(S), NEW a \in S,
         NEW d \in Cron!PruneIDs(S), Cron!Before(a, d)
  PROVE  a \in Cron!PruneIDs(S)
<1>1. d \in S /\ Cardinality(Newer(S, d)) >= Retention
  BY PrunedIs
<1>2. Newer(S, d) \in SUBSET Newer(S, a)
  <2>1. \A b \in Newer(S, d) : b \in S /\ Cron!Before(a, b)
    BY <1>1, RunsAreOrdered DEF Newer
  <2> QED
    BY <2>1 DEF Newer
<1>3. Newer(S, a) \in SUBSET S
  BY DEF Newer
<1>4. IsFiniteSet(Newer(S, a))
  BY <1>3, FS_Subset
<1>5. IsFiniteSet(Newer(S, d)) /\ Cardinality(Newer(S, d)) <= Cardinality(Newer(S, a))
  BY <1>2, <1>4, FS_Subset
<1>6. Cardinality(Newer(S, d)) \in Nat /\ Cardinality(Newer(S, a)) \in Nat
  BY <1>4, <1>5, FS_CardinalityType
<1>7. Cardinality(Newer(S, a)) >= Retention
  BY <1>1, <1>5, <1>6, RetentionIs
<1> QED
  BY <1>7, PrunedIs

\* Retention leaves as many runs as it says, or all.
LEMMA PruneLeaves ==
  ASSUME NEW S \in SUBSET Cron!Run, IsFiniteSet(S), Cron!PruneIDs(S) # {}
  PROVE  Cardinality(S \ Cron!PruneIDs(S)) >= Retention
<1> DEFINE P == Cron!PruneIDs(S)
           N == {Cardinality(Newer(S, a)) : a \in P}
<1>1. P \in SUBSET S
  BY PrunedIs
<1>2. \A a : Newer(S, a) \in SUBSET S
  BY DEF Newer
<1>3. \A a : IsFiniteSet(Newer(S, a))
  BY <1>2, FS_Subset
<1>4. \A a : Cardinality(Newer(S, a)) \in Nat
  BY <1>3, FS_CardinalityType
<1>5. PICK a \in P : \A b \in P : Cardinality(Newer(S, a)) <= Cardinality(Newer(S, b))
  <2>1. N \subseteq Nat /\ N # {}
    BY <1>4
  <2>2. PICK n \in N : \A m \in N : n <= m
    <3> HIDE DEF N
    <3> QED
      BY <2>1, LeastNat
  <2> QED
    BY <2>2
<1>6. \A b \in Newer(S, a) : b \notin P
  <2> SUFFICES ASSUME NEW b \in Newer(S, a), b \in P PROVE FALSE
    OBVIOUS
  <2>1. a \in Cron!Run /\ b \in Cron!Run /\ Cron!Before(a, b)
    BY <1>1 DEF Newer
  <2>2. Newer(S, b) \in SUBSET (Newer(S, a) \ {b})
    <3>1. \A c \in Newer(S, b) : c \in S /\ Cron!Before(a, c) /\ c # b
      BY <2>1, RunsAreOrdered DEF Newer
    <3> QED
      BY <3>1 DEF Newer
  <2>3. /\ IsFiniteSet(Newer(S, a) \ {b})
        /\ Cardinality(Newer(S, a) \ {b}) = Cardinality(Newer(S, a)) - 1
    BY <1>3, FS_RemoveElement
  <2>4. Cardinality(Newer(S, b)) <= Cardinality(Newer(S, a) \ {b})
    BY <2>2, <2>3, FS_Subset
  <2> QED
    BY <1>4, <1>5, <2>3, <2>4
<1>7. Newer(S, a) \in SUBSET (S \ P)
  BY <1>2, <1>6
<1>8. IsFiniteSet(S \ P)
  BY FS_Subset
<1>9. Cardinality(Newer(S, a)) <= Cardinality(S \ P)
  BY <1>7, <1>8, FS_Subset
<1>10. Cardinality(Newer(S, a)) >= Retention /\ Cardinality(S \ P) \in Nat
  BY <1>8, PrunedIs, FS_CardinalityType
<1> QED
  BY <1>4, <1>9, <1>10, RetentionIs

\* At least n runs, or as many as retention keeps.
Enough(S, n) == n <= Cardinality(S) \/ Retention <= Cardinality(S)

LEMMA PruneKeepsEnough ==
  ASSUME NEW S \in SUBSET Cron!Run, IsFiniteSet(S), NEW n \in Int, Enough(S, n)
  PROVE  Enough(S \ Cron!PruneIDs(S), n)
<1>1. CASE Cron!PruneIDs(S) = {}
  BY <1>1 DEF Enough
<1>2. CASE Cron!PruneIDs(S) # {}
  BY <1>2, PruneLeaves DEF Enough
<1> QED
  BY <1>1, <1>2

LEMMA MoreIsEnough ==
  ASSUME NEW T, IsFiniteSet(T), NEW S \in SUBSET T, NEW n \in Int, Enough(S, n)
  PROVE  Enough(T, n)
<1>1. IsFiniteSet(S) /\ Cardinality(S) <= Cardinality(T)
  BY FS_Subset
<1>2. Cardinality(S) \in Nat /\ Cardinality(T) \in Nat
  BY <1>1, FS_CardinalityType
<1> QED
  BY <1>1, <1>2, RetentionIs DEF Enough

LEMMA OneMoreIsEnough ==
  ASSUME NEW S, IsFiniteSet(S), NEW n \in Int, Enough(S, n), NEW x, x \notin S
  PROVE  Enough(S \cup {x}, n + 1)
<1>1. Cardinality(S \cup {x}) = Cardinality(S) + 1 /\ Cardinality(S) \in Nat
  BY FS_AddElement, FS_CardinalityType
<1> QED
  BY <1>1, RetentionIs DEF Enough

\* What the tick that leads has recorded and deleted; the others have nothing.
TickRuns == UNION {ran[w] : w \in Workers}
TickDrops == UNION {drop[w] : w \in Workers}

OfJob(j, S) == Cron!RunsOf(j, S)

CronType ==
  /\ time \in Nat /\ lastId \in Nat
  /\ schedule \in [Jobs -> Schedules]
  /\ next \in [Jobs -> Nat]
  /\ step \in [Cron!Procs -> {"idle", "fire", "finish", "prune"}]
  /\ now \in [Workers -> Nat]
  /\ queue \in [Workers -> Seq(Cron!Due)]
  /\ marked \in [Workers -> [Jobs -> Nat \cup {-1}]]
  /\ ran \in [Cron!Procs -> SUBSET Cron!Run]
  /\ drop \in [Workers -> SUBSET Cron!Run]
  /\ rows \in SUBSET Cron!Run
  /\ fires \in [Jobs -> Nat] /\ attempts \in [Jobs -> Nat] /\ rolledBack \in [Jobs -> Nat]

\* One replica leads, and has the jobs of its tick still to fire or fired, each once.
AtRest(w) ==
  queue[w] = << >> /\ ran[w] = {} /\ drop[w] = {} /\ marked[w] = Cron!NotMarked

Tick(w) ==
  /\ \/ step[w] = "fire" /\ lead = w
     \/ step[w] = "idle" /\ lead # w /\ AtRest(w)
  /\ now[w] <= time
  /\ \A m, n \in DOMAIN queue[w] : m # n => queue[w][m].job # queue[w][n].job
  /\ \A m \in DOMAIN queue[w] :
       /\ marked[w][queue[w][m].job] = -1
       /\ \A a \in ran[w] \cup drop[w] : a.job # queue[w][m].job
  /\ \A j \in Jobs : marked[w][j] # -1 => \E a \in ran[w] : a.job = j

TickInv == \A w \in Workers : Tick(w)

\* A job has been fired once more than it was rolled back when a tick has marked it.
FiredInv ==
  \A j \in Jobs :
    /\ fires[j] <= rolledBack[j] + 1
    /\ (\A w \in Workers : marked[w][j] = -1) => fires[j] <= rolledBack[j]

\* The rows and the runs of the tick have numbers of their own. The tick deletes
\* nothing that is newer than a run it leaves.
RunInv ==
  /\ IsFiniteSet(rows) /\ IsFiniteSet(TickRuns)
  /\ rows \cap TickRuns = {} /\ TickDrops \subseteq rows \cup TickRuns
  /\ \A a \in rows \cup TickRuns : a.at <= time /\ a.id <= lastId
  /\ \A a, b \in rows \cup TickRuns : a.id = b.id => a = b
  /\ \A a \in rows \cup TickRuns, d \in TickDrops :
       a.job = d.job /\ Cron!Before(a, d) => a \in TickDrops

\* The runs a tick sees.
Seen == (rows \cup TickRuns) \ TickDrops

\* Enough runs are committed, and enough will be when the tick commits.
Committed(j) == attempts[j] - rolledBack[j] - Cardinality(OfJob(j, TickRuns))

KeepInv ==
  \A j \in Jobs :
    /\ Enough(OfJob(j, rows), Committed(j))
    /\ Enough(OfJob(j, Seen), attempts[j] - rolledBack[j])

CronInv == CronType /\ TickInv /\ FiredInv /\ RunInv /\ KeepInv

LEMMA CronProcs ==
  /\ Workers \cap Callers = {} /\ Nobody \notin Workers
  /\ Cron!Procs = Workers \cup Callers
  /\ \A s \in Schedules : s \in Cron!Schedule
  /\ FirstSchedule \in [Jobs -> Schedules]
BY CronAssumption DEF Cron!ConstantsOK, Cron!Procs

\* Of a tick that leads, what all ticks have recorded and deleted is its own.
LEMMA LeaderHasAll ==
  ASSUME CronType, TickInv, NEW w \in Workers, step[w] = "fire"
  PROVE  /\ lead = w
         /\ \A u \in Workers : u # w => step[u] = "idle" /\ AtRest(u)
         /\ TickRuns = ran[w] /\ TickDrops = drop[w]
<1>1. lead = w /\ \A u \in Workers : u # w => step[u] = "idle" /\ AtRest(u)
  BY DEF TickInv, Tick
<1>2. \A u \in Workers : u # w => ran[u] = {} /\ drop[u] = {}
  BY <1>1 DEF AtRest
<1> QED
  BY <1>1, <1>2 DEF TickRuns, TickDrops

\* What ticks have recorded, when one of them changes.
LEMMA TickSets ==
  ASSUME CronType, NEW w \in Workers, NEW R, NEW D,
         ran' = [ran EXCEPT ![w] = R], drop' = [drop EXCEPT ![w] = D],
         \A u \in Workers : u # w => ran[u] = {} /\ drop[u] = {}
  PROVE  TickRuns' = R /\ TickDrops' = D
<1>1. w \in Cron!Procs /\ \A u \in Workers : u \in Cron!Procs
  BY CronProcs
<1>2. /\ \A u \in Workers : ran'[u] = IF u = w THEN R ELSE {}
      /\ \A u \in Workers : drop'[u] = IF u = w THEN D ELSE {}
  BY <1>1 DEF CronType
<1>3. TickRuns' = R
  <2>1. TickRuns' = UNION {ran'[u] : u \in Workers}
    BY DEF TickRuns
  <2> QED
    BY <1>2, <2>1
<1>4. TickDrops' = D
  <2>1. TickDrops' = UNION {drop'[u] : u \in Workers}
    BY DEF TickDrops
  <2> QED
    BY <1>2, <2>1
<1> QED
  BY <1>3, <1>4

\* Requests change nothing of the ticks.
LEMMA TickSetsRest ==
  ASSUME CronType, NEW r \in Callers, NEW R,
         ran' = [ran EXCEPT ![r] = R], UNCHANGED drop
  PROVE  /\ \A u \in Workers : ran'[u] = ran[u]
         /\ TickRuns' = TickRuns /\ TickDrops' = TickDrops
<1>1. \A u \in Workers : ran'[u] = ran[u]
  BY CronProcs DEF CronType
<1> QED
  BY <1>1 DEF TickRuns, TickDrops

LEMMA OfJobIs ==
  \A j, S : /\ OfJob(j, S) = {a \in S : a.job = j}
            /\ OfJob(j, S) \in SUBSET S
            /\ OfJob(j, {}) = {}
BY DEF OfJob, Cron!RunsOf

LEMMA RunsAreFinite ==
  ASSUME CronType, RunInv, NEW j
  PROVE  /\ IsFiniteSet(OfJob(j, rows)) /\ IsFiniteSet(OfJob(j, TickRuns))
         /\ IsFiniteSet(OfJob(j, Seen))
         /\ Cardinality(OfJob(j, rows)) \in Nat /\ Cardinality(OfJob(j, TickRuns)) \in Nat
         /\ OfJob(j, rows) \in SUBSET Cron!Run /\ OfJob(j, Seen) \in SUBSET Cron!Run
         /\ TickRuns \in SUBSET Cron!Run /\ TickDrops \in SUBSET Cron!Run
<1>1. IsFiniteSet(rows) /\ IsFiniteSet(TickRuns) /\ IsFiniteSet(rows \cup TickRuns)
  BY FS_Union DEF RunInv
<1>2. Seen \in SUBSET (rows \cup TickRuns)
  BY DEF Seen
<1>3. \A S : IsFiniteSet(S) => IsFiniteSet(OfJob(j, S))
  BY OfJobIs, FS_Subset
<1>4. IsFiniteSet(Seen)
  BY <1>1, <1>2, FS_Subset
<1>5. /\ TickRuns \in SUBSET Cron!Run /\ TickDrops \in SUBSET Cron!Run
      /\ rows \in SUBSET Cron!Run
  BY CronProcs DEF CronType, TickRuns, TickDrops
<1>6. OfJob(j, rows) \in SUBSET Cron!Run /\ OfJob(j, Seen) \in SUBSET Cron!Run
  BY <1>2, <1>5, OfJobIs
<1> QED
  BY <1>1, <1>3, <1>4, <1>5, <1>6, FS_CardinalityType

LEMMA CronInitInv == ASSUME MCInit PROVE CronInv
<1>1. /\ time = 0 /\ lastId = 0 /\ lead = Nobody /\ rows = {}
      /\ next = [j \in Jobs |-> 0] /\ schedule = FirstSchedule
      /\ step = [p \in Cron!Procs |-> "idle"] /\ now = [w \in Workers |-> 0]
      /\ queue = [w \in Workers |-> << >>] /\ ran = [p \in Cron!Procs |-> {}]
      /\ marked = [w \in Workers |-> Cron!NotMarked] /\ drop = [w \in Workers |-> {}]
      /\ fires = [j \in Jobs |-> 0] /\ attempts = [j \in Jobs |-> 0]
      /\ rolledBack = [j \in Jobs |-> 0]
  BY DEF MCInit, Cron!Init
<1>2. CronType
  BY <1>1, CronProcs DEF CronType, Cron!NotMarked
<1>3. TickRuns = {} /\ TickDrops = {}
  BY <1>1, CronProcs DEF TickRuns, TickDrops
<1>4. TickInv
  BY <1>1, CronProcs DEF TickInv, Tick, AtRest, Cron!NotMarked
<1>5. FiredInv
  BY <1>1 DEF FiredInv
<1>6. RunInv
  BY <1>1, <1>3, FS_EmptySet DEF RunInv
<1>7. KeepInv
  <2>1. Cardinality({}) = 0
    BY FS_EmptySet
  <2>2. rows = {} /\ Seen = {}
    BY <1>1, <1>3 DEF Seen
  <2>3. \A j : OfJob(j, rows) = {} /\ OfJob(j, Seen) = {} /\ OfJob(j, TickRuns) = {}
    BY <1>3, <2>2, OfJobIs
  <2>4. \A j \in Jobs : attempts[j] = 0 /\ rolledBack[j] = 0
    BY <1>1
  <2> QED
    BY <2>1, <2>3, <2>4 DEF KeepInv, Enough, Committed
<1> QED
  BY <1>2, <1>4, <1>5, <1>6, <1>7 DEF CronInv

\* Steps that record and delete no run.
LEMMA RunsRest ==
  ASSUME CronInv, CronType', TickInv', FiredInv',
         UNCHANGED <<rows, TickRuns, TickDrops, attempts, rolledBack, lastId>>,
         time' >= time
  PROVE  CronInv'
<1>1. RunInv'
  <2>1. \A a \in rows \cup TickRuns : a.at \in Nat
    BY RunsAreFinite DEF CronInv, CronType, Cron!Run
  <2>2. \A a \in rows \cup TickRuns : a.at <= time'
    BY <2>1 DEF CronInv, RunInv, CronType
  <2> QED
    BY <2>2 DEF CronInv, RunInv
<1>2. KeepInv'
  BY DEF CronInv, KeepInv, Seen, Committed
<1> QED
  BY <1>1, <1>2 DEF CronInv

LEMMA CronAdvance == ASSUME CronInv, Cron!Advance PROVE CronInv'
<1>1. /\ time' = time + 1
      /\ UNCHANGED <<next, schedule, rows, lead, step, now, queue, ran, marked, drop, lastId,
                     fires, attempts, rolledBack>>
  BY DEF Cron!Advance, Cron!jobVars, Cron!tickVars, Cron!histories
<1>2. CronType'
  BY <1>1 DEF CronInv, CronType
<1>3. TickInv'
  BY <1>1 DEF CronInv, CronType, TickInv, Tick, AtRest
<1>4. FiredInv'
  BY <1>1 DEF CronInv, FiredInv
<1>5. UNCHANGED <<TickRuns, TickDrops>> /\ time' >= time
  BY <1>1 DEF TickRuns, TickDrops, CronInv, CronType
<1> QED
  BY <1>1, <1>2, <1>3, <1>4, <1>5, RunsRest

\* The due jobs, each once.
LEMMA DueAreDistinct ==
  ASSUME CronType, NEW q \in Cron!DueJobs(time)
  PROVE  /\ q \in Seq(Cron!Due)
         /\ \A m, n \in DOMAIN q : m # n => q[m].job # q[n].job
<1> DEFINE Dues == {[job |-> j, next |-> next[j], schedule |-> schedule[j]] :
                      j \in {i \in Jobs : enabled[i] /\ next[i] <= time}}
<1>1. PICK p \in Cron!SetToSeqs(Dues) :
        q = SubSeq(p, 1, IF Len(p) < Batch THEN Len(p) ELSE Batch)
  BY DEF Cron!DueJobs
<1>2. Dues \subseteq Cron!Due /\ \A c, d \in Dues : c.job = d.job => c = d
  BY DEF CronType, Cron!Due
<1>3. IsFiniteSet(Dues)
  <2>1. IsFiniteSet(Jobs)
    BY CronAssumption DEF Cron!ConstantsOK, Cron!IsFiniteSet, IsFiniteSet
  <2> DEFINE I == {i \in Jobs : enabled[i] /\ next[i] <= time}
             f == [j \in I |-> [job |-> j, next |-> next[j], schedule |-> schedule[j]]]
  <2>2. IsFiniteSet(I)
    BY <2>1, FS_Subset
  <2>3. f \in Surjection(I, Dues)
    BY DEF Surjection
  <2> HIDE DEF I, f, Dues
  <2> QED
    BY <2>2, <2>3, FS_Surjection
<1> HIDE DEF Dues
<1>4. p \in [1 .. Cardinality(Dues) -> Dues] /\ Cardinality(Dues) \in Nat
      /\ \A m, n \in 1 .. Cardinality(Dues) : m # n => p[m] # p[n]
  BY <1>1, <1>3, CronCard, FS_CardinalityType DEF Cron!SetToSeqs
<1>5. Batch \in Nat /\ Batch > 0
  BY CronAssumption DEF Cron!ConstantsOK
<1>6. p \in Seq(Cron!Due) /\ Len(p) = Cardinality(Dues)
  BY <1>2, <1>4
<1>7. PICK n \in 0 .. Len(p) : q = SubSeq(p, 1, n)
  BY <1>1, <1>4, <1>5, <1>6
<1>8. /\ q \in Seq(Cron!Due) /\ DOMAIN q = 1 .. n
      /\ \A i \in 1 .. n : q[i] = p[i] /\ i \in 1 .. Cardinality(Dues)
  BY <1>4, <1>6, <1>7
<1>9. \A i, j \in DOMAIN q : i # j => q[i].job # q[j].job
  BY <1>2, <1>4, <1>8
<1> QED
  BY <1>8, <1>9

LEMMA CronLead == ASSUME CronInv, NEW w \in Workers, Cron!Lead(w) PROVE CronInv'
<1>1. /\ step[w] = "idle" /\ lead = Nobody /\ lead' = w
      /\ now' = [now EXCEPT ![w] = time]
      /\ step' = [step EXCEPT ![w] = "fire"]
      /\ UNCHANGED <<time, next, schedule, rows, ran, marked, drop, lastId, fires, attempts,
                     rolledBack>>
  BY DEF Cron!Lead, Cron!LockFree, Cron!Goto, Cron!jobVars, Cron!histories
<1>2. PICK q \in Cron!DueJobs(time) : queue' = [queue EXCEPT ![w] = q]
  BY DEF Cron!Lead
<1>3. q \in Seq(Cron!Due) /\ \A m, n \in DOMAIN q : m # n => q[m].job # q[n].job
  BY DueAreDistinct DEF CronInv
<1>4. CronType'
  BY <1>1, <1>2, <1>3, CronProcs DEF CronInv, CronType
<1>5. \A u \in Workers : step[u] = "idle" /\ AtRest(u)
  BY <1>1, CronProcs DEF CronInv, TickInv, Tick
<1>6. \A u \in Workers :
        /\ step'[u] = IF u = w THEN "fire" ELSE "idle"
        /\ queue'[u] = IF u = w THEN q ELSE << >>
        /\ now'[u] <= time
        /\ marked'[u] = Cron!NotMarked /\ ran'[u] = {} /\ drop'[u] = {}
  BY <1>1, <1>2, <1>5, CronProcs DEF CronInv, CronType, TickInv, Tick, AtRest
<1>7. \A m \in DOMAIN q : q[m].job \in Jobs
  <2>1. \A m \in DOMAIN q : q[m] \in Cron!Due
    BY <1>3
  <2> QED
    BY <2>1 DEF Cron!Due
<1>8. TickInv'
  <2> SUFFICES ASSUME NEW u \in Workers PROVE Tick(u)'
    BY DEF TickInv
  <2>1. \A j \in Jobs : marked'[u][j] = -1
    BY <1>6 DEF Cron!NotMarked
  <2>2. now'[u] <= time'
    BY <1>1, <1>6
  <2>3. CASE u = w
    <3>1. queue'[u] = q /\ ran'[u] \cup drop'[u] = {} /\ step'[u] = "fire" /\ lead' = u
      BY <1>1, <1>6, <2>3
    <3>2. \A m \in DOMAIN queue'[u] : queue'[u][m].job \in Jobs
      BY <1>7, <3>1
    <3>3. \A m, n \in DOMAIN queue'[u] : m # n => queue'[u][m].job # queue'[u][n].job
      BY <1>3, <3>1
    <3>4. \A a \in ran'[u] \cup drop'[u] : FALSE
      BY <3>1
    <3> QED
      BY <2>1, <2>2, <3>1, <3>2, <3>3, <3>4 DEF Tick
  <2>4. CASE u # w
    BY <1>1, <1>6, <2>1, <2>2, <2>4 DEF Tick, AtRest
  <2> QED
    BY <2>3, <2>4
<1>9. FiredInv'
  BY <1>1 DEF CronInv, FiredInv
<1>10. UNCHANGED <<TickRuns, TickDrops>> /\ time' >= time
  BY <1>1 DEF TickRuns, TickDrops, CronInv, CronType
<1> QED
  BY <1>1, <1>4, <1>8, <1>9, <1>10, RunsRest

LEMMA NextTime ==
  ASSUME NEW s \in Schedules, NEW t \in Nat
  PROVE  Cron!NextAfter(s, t) \in Nat
<1>1. s.at \subseteq Nat /\ s.every \in Nat
  BY CronProcs DEF Cron!Schedule
<1> DEFINE later == {u \in s.at : u > t}
<1>2. Cron!ExprNextAfter(s.at, t) \in Nat
  <2>1. CASE later = {}
    BY <2>1 DEF Cron!ExprNextAfter
  <2>2. CASE later # {}
    <3>1. later \subseteq Nat
      BY <1>1
    <3>2. \E u \in later : \A v \in later : u <= v
      <4> HIDE DEF later
      <4> QED
        BY <2>2, <3>1, LeastNat
    <3>3. Cron!ExprNextAfter(s.at, t) = CHOOSE u \in later : \A v \in later : u <= v
      BY <2>2 DEF Cron!ExprNextAfter
    <3>4. Cron!ExprNextAfter(s.at, t) \in later
      <4> HIDE DEF later
      <4> QED
        BY <3>2, <3>3
    <3> QED
      BY <3>1, <3>4
  <2> QED
    BY <2>1, <2>2
<1> QED
  BY <1>1, <1>2 DEF Cron!NextAfter

\* Retention of one job, as a tick and a request see it.
LEMMA OfJobRest ==
  ASSUME NEW S, NEW T, NEW i, NEW j, i # j,
         \A a \in T : a.job = i
  PROVE  OfJob(j, S \cup T) = OfJob(j, S) /\ OfJob(j, S \ T) = OfJob(j, S)
BY OfJobIs

LEMMA CronFire == ASSUME CronInv, NEW w \in Workers, Cron!Fire(w) PROVE CronInv'
<1> DEFINE d == Head(queue[w])
           run == [job |-> d.job, at |-> now[w], id |-> lastId + 1, ended |-> TRUE]
           all == Seen \cup {run}
           old == Cron!PruneIDs(OfJob(d.job, all))
<1>0. step[w] = "fire" /\ queue[w] # << >>
  BY DEF Cron!Fire
<1>1. /\ lead = w /\ \A u \in Workers : u # w => step[u] = "idle" /\ AtRest(u)
      /\ TickRuns = ran[w] /\ TickDrops = drop[w]
  BY <1>0, LeaderHasAll DEF CronInv
<1>2. queue[w] \in Seq(Cron!Due) /\ now[w] \in Nat /\ lastId \in Nat /\ time \in Nat
  BY DEF CronInv, CronType
<1>3. d \in Cron!Due /\ d = queue[w][1] /\ 1 \in DOMAIN queue[w]
  BY <1>0, <1>2
<1>4. d.job \in Jobs /\ d.schedule \in Schedules
  BY <1>3 DEF Cron!Due
<1>5. run \in Cron!Run /\ run.job = d.job /\ run.id = lastId + 1
  BY <1>2, <1>4 DEF Cron!Run
<1>6. PICK n \in Nat : n = Cron!NextAfter(d.schedule, now[w])
  BY <1>2, <1>4, NextTime
<1>seen. (rows \cup ran[w] \cup {run}) \ drop[w] = all
  <2>1. run \notin rows \cup TickRuns
    BY <1>2, <1>5 DEF CronInv, RunInv
  <2>2. run \notin TickDrops
    BY <2>1 DEF CronInv, RunInv
  <2> QED
    BY <1>1, <2>2 DEF Seen
<1>7. /\ ran' = [ran EXCEPT ![w] = ran[w] \cup {run}]
      /\ marked' = [marked EXCEPT ![w] = [marked[w] EXCEPT ![d.job] = n]]
      /\ drop' = [drop EXCEPT ![w] = drop[w] \cup old]
      /\ fires' = [fires EXCEPT ![d.job] = @ + 1]
      /\ attempts' = [attempts EXCEPT ![d.job] = @ + 1]
      /\ queue' = [queue EXCEPT ![w] = Tail(queue[w])]
      /\ lastId' = lastId + 1
      /\ UNCHANGED <<time, next, schedule, rows, lead, step, now, rolledBack>>
  <2>1. w \in Cron!Procs /\ ran \in [Cron!Procs -> SUBSET Cron!Run]
        /\ marked \in [Workers -> [Jobs -> Nat \cup {-1}]]
        /\ drop \in [Workers -> SUBSET Cron!Run]
    BY CronProcs DEF CronInv, CronType
  <2>2. Cron!PruneIDs(Cron!RunsOf(d.job, (rows \cup ran[w] \cup {run}) \ drop[w])) = old
    BY <1>seen DEF OfJob
  <2> HIDE DEF old
  <2> QED
    BY <1>6, <2>1, <2>2 DEF Cron!Fire, Cron!MarkNextRun, Cron!jobVars
<1>8. TickRuns' = TickRuns \cup {run} /\ TickDrops' = TickDrops \cup old
  <2>1. \A u \in Workers : u # w => ran[u] = {} /\ drop[u] = {}
    BY <1>1 DEF AtRest
  <2> HIDE DEF old, run
  <2> QED
    BY <1>1, <1>7, <2>1, TickSets DEF CronInv
<1>9. \A a \in ran[w] \cup drop[w] : a.job # d.job
  BY <1>3 DEF CronInv, TickInv, Tick
<1>10. /\ all \in SUBSET Cron!Run /\ OfJob(d.job, all) \in SUBSET all
       /\ old \in SUBSET OfJob(d.job, all)
  <2>1. Seen \in SUBSET (rows \cup TickRuns)
    BY DEF Seen
  <2>2. Seen \in SUBSET Cron!Run
    BY <2>1, RunsAreFinite DEF CronInv, CronType
  <2> QED
    BY <1>5, <2>2, OfJobIs, PrunedIs
<1>11. IsFiniteSet(OfJob(d.job, all))
  <2>1. OfJob(d.job, all) = OfJob(d.job, Seen) \cup {run}
    BY <1>5, OfJobIs
  <2> HIDE DEF run, all
  <2> QED
    BY <2>1, RunsAreFinite, FS_AddElement DEF CronInv
<1>12. CronType'
  <2>1. Tail(queue[w]) \in Seq(Cron!Due)
    BY <1>0, <1>2
  <2>2. old \in SUBSET Cron!Run
    BY <1>10
  <2> HIDE DEF d, run, old
  <2>3. CronType
    BY DEF CronInv
  <2>4. marked' \in [Workers -> [Jobs -> Nat \cup {-1}]]
    <3>1. [marked[w] EXCEPT ![d.job] = n] \in [Jobs -> Nat \cup {-1}]
      BY <2>3 DEF CronType
    <3> QED
      BY <1>7, <2>3, <3>1 DEF CronType
  <2>5. ran' \in [Cron!Procs -> SUBSET Cron!Run]
    <3>1. ran[w] \cup {run} \in SUBSET Cron!Run
      BY <1>5, <2>3, CronProcs DEF CronType
    <3> QED
      BY <1>7, <2>3, <3>1 DEF CronType
  <2>6. drop' \in [Workers -> SUBSET Cron!Run]
    <3>1. drop[w] \cup old \in SUBSET Cron!Run
      BY <2>2, <2>3 DEF CronType
    <3> QED
      BY <1>7, <2>3, <3>1 DEF CronType
  <2>7. fires' \in [Jobs -> Nat] /\ attempts' \in [Jobs -> Nat]
    BY <1>4, <1>7, <2>3 DEF CronType
  <2>8. queue' \in [Workers -> Seq(Cron!Due)]
    BY <1>7, <2>1, <2>3 DEF CronType
  <2>9. time' \in Nat /\ lastId' \in Nat
    BY <1>7, <2>3 DEF CronType
  <2>10. /\ schedule' \in [Jobs -> Schedules] /\ next' \in [Jobs -> Nat]
         /\ step' \in [Cron!Procs -> {"idle", "fire", "finish", "prune"}]
         /\ now' \in [Workers -> Nat]
         /\ rows' \in SUBSET Cron!Run /\ rolledBack' \in [Jobs -> Nat]
    BY <1>7, <2>3, Zenon DEF CronType
  <2> QED
    BY <2>4, <2>5, <2>6, <2>7, <2>8, <2>9, <2>10, Zenon DEF CronType
<1>13. TickInv'
  <2> SUFFICES ASSUME NEW u \in Workers PROVE Tick(u)'
    BY DEF TickInv
  <2>1. CASE u # w
    <3>1. /\ step'[u] = step[u] /\ lead' = lead /\ now'[u] = now[u] /\ time' = time
          /\ queue'[u] = queue[u] /\ marked'[u] = marked[u] /\ ran'[u] = ran[u]
          /\ drop'[u] = drop[u]
      BY <1>7, <2>1, CronProcs DEF CronInv, CronType
    <3> QED
      BY <3>1 DEF CronInv, TickInv, Tick, AtRest
  <2>2. CASE u = w
    <3>1. /\ step'[w] = "fire" /\ lead' = w /\ now'[w] = now[w] /\ time' = time
          /\ queue'[w] = Tail(queue[w]) /\ ran'[w] = ran[w] \cup {run}
          /\ drop'[w] = drop[w] \cup old
          /\ \A j \in Jobs : marked'[w][j] = IF j = d.job THEN n ELSE marked[w][j]
      BY <1>0, <1>1, <1>7, CronProcs DEF CronInv, CronType
    <3>2. \A m \in DOMAIN queue'[w] :
            m + 1 \in DOMAIN queue[w] /\ m + 1 # 1 /\ queue'[w][m] = queue[w][m + 1]
            /\ m \in Nat
      BY <1>0, <1>2, <3>1
    <3>3. \A m \in DOMAIN queue[w] : m # 1 => queue[w][m].job # d.job
      BY <1>3 DEF CronInv, TickInv, Tick
    <3>4. \A a \in old \cup {run} : a.job = d.job
      BY <1>5, <1>10, OfJobIs
    <3>5. \A m \in DOMAIN queue[w] : queue[w][m].job \in Jobs
      <4>1. \A m \in DOMAIN queue[w] : queue[w][m] \in Cron!Due
        BY <1>2
      <4> QED
        BY <4>1 DEF Cron!Due
    <3> HIDE DEF d, run, old
    <3>6. \A m \in DOMAIN queue'[w] :
            /\ marked'[w][queue'[w][m].job] = -1
            /\ \A a \in ran'[w] \cup drop'[w] : a.job # queue'[w][m].job
      <4> SUFFICES ASSUME NEW m \in DOMAIN queue'[w]
                   PROVE  /\ marked'[w][queue'[w][m].job] = -1
                          /\ \A a \in ran'[w] \cup drop'[w] : a.job # queue'[w][m].job
        OBVIOUS
      <4> DEFINE k == m + 1
      <4>1. k \in DOMAIN queue[w] /\ queue'[w][m] = queue[w][k] /\ k # 1
        BY <3>2
      <4>2. queue[w][k].job # d.job /\ queue[w][k].job \in Jobs
        BY <3>3, <3>5, <4>1
      <4>3. /\ marked[w][queue[w][k].job] = -1
            /\ \A a \in ran[w] \cup drop[w] : a.job # queue[w][k].job
        BY <4>1 DEF CronInv, TickInv, Tick
      <4> HIDE DEF k
      <4>4. marked'[w][queue'[w][m].job] = -1
        BY <3>1, <4>1, <4>2, <4>3
      <4>5. \A a \in ran'[w] \cup drop'[w] : a.job # queue'[w][m].job
        BY <3>1, <3>4, <4>1, <4>2, <4>3
      <4> QED
        BY <4>4, <4>5
    <3>7. \A m, k \in DOMAIN queue'[w] : m # k => queue'[w][m].job # queue'[w][k].job
      <4>1. \A m, k \in DOMAIN queue[w] : m # k => queue[w][m].job # queue[w][k].job
        BY DEF CronInv, TickInv, Tick
      <4>2. \A m, k \in Nat : m # k => m + 1 # k + 1
        OBVIOUS
      <4> QED
        BY <3>2, <4>1, <4>2
    <3>8. \A j \in Jobs : marked'[w][j] # -1 => \E a \in ran'[w] : a.job = j
      BY <3>1, <3>4 DEF CronInv, TickInv, Tick
    <3>9. now'[w] <= time'
      BY <3>1 DEF CronInv, TickInv, Tick
    <3> QED
      BY <2>2, <3>1, <3>6, <3>7, <3>8, <3>9 DEF Tick
  <2> QED
    BY <2>1, <2>2
<1>14. FiredInv'
  <2>1. \A j \in Jobs : /\ fires'[j] = IF j = d.job THEN fires[j] + 1 ELSE fires[j]
                        /\ fires[j] \in Nat /\ rolledBack[j] \in Nat
                        /\ rolledBack' = rolledBack
    BY <1>4, <1>7 DEF CronInv, CronType
  <2>2. \A u \in Workers : marked[u][d.job] = -1
    <3>1. marked[w][d.job] = -1
      BY <1>3 DEF CronInv, TickInv, Tick
    <3>2. \A u \in Workers : u # w => marked[u][d.job] = -1
      BY <1>1, <1>4 DEF AtRest, Cron!NotMarked
    <3> QED
      BY <3>1, <3>2
  <2>3. fires[d.job] <= rolledBack[d.job]
    BY <1>4, <2>2 DEF CronInv, FiredInv
  <2>4. marked'[w][d.job] # -1
    BY <1>4, <1>6, <1>7 DEF CronInv, CronType
  <2>5. \A j \in Jobs, u \in Workers : j # d.job => marked'[u][j] = marked[u][j]
    BY <1>4, <1>7 DEF CronInv, CronType
  <2> HIDE DEF d
  <2> QED
    BY <1>4, <2>1, <2>3, <2>4, <2>5 DEF CronInv, FiredInv
<1>15. RunInv'
  <2>1. run.at <= time' /\ run.id <= lastId' /\ lastId' = lastId + 1 /\ time' = time
        /\ rows' = rows
    BY <1>2, <1>7 DEF CronInv, TickInv, Tick
  <2>2. \A a \in rows \cup TickRuns : a.at <= time /\ a.id <= lastId /\ a.id \in Nat
    BY RunsAreFinite DEF CronInv, CronType, RunInv, Cron!Run
  <2>3. run \notin rows \cup TickRuns /\ \A a \in rows \cup TickRuns : a.id # run.id
    BY <1>2, <1>5, <2>2
  <2>4. IsFiniteSet(TickRuns')
    BY <1>8, FS_AddElement DEF CronInv, RunInv
  <2>5. old \subseteq rows \cup TickRuns \cup {run}
    BY <1>10 DEF Seen
  <2>6. \A a \in rows \cup TickRuns \cup {run}, b \in TickDrops \cup old :
          a.job = b.job /\ Cron!Before(a, b) => a \in TickDrops \cup old
    <3> SUFFICES ASSUME NEW a \in rows \cup TickRuns \cup {run}, NEW b \in TickDrops \cup old,
                        a.job = b.job, Cron!Before(a, b)
                 PROVE  a \in TickDrops \cup old
      OBVIOUS
    <3>1. CASE b \in TickDrops
      <4>1. b.job # d.job
        BY <1>1, <1>9, <3>1
      <4>2. a # run
        BY <1>5, <4>1
      <4> HIDE DEF run, old
      <4> QED
        BY <3>1, <4>2 DEF CronInv, RunInv
    <3>2. CASE b \in old
      <4>1. b.job = d.job /\ b \in OfJob(d.job, all)
        BY <1>10, <3>2, OfJobIs
      <4>2. a \notin TickDrops
        BY <1>1, <1>9, <4>1
      <4>3. a \in OfJob(d.job, all)
        BY <4>1, <4>2, OfJobIs DEF Seen
      <4>4. OfJob(d.job, all) \in SUBSET Cron!Run
        BY <1>10
      <4> HIDE DEF all, run, d
      <4>5. a \in old
        BY <1>11, <3>2, <4>3, <4>4, PrunedIsDownward
      <4> QED
        BY <4>5
    <3> QED
      BY <3>1, <3>2
  <2> HIDE DEF run, old
  <2> QED
    BY <1>8, <2>1, <2>2, <2>3, <2>4, <2>5, <2>6 DEF CronInv, RunInv, CronType
<1>16. KeepInv'
  <2>1. rows' = rows /\ rolledBack' = rolledBack
        /\ \A j \in Jobs : /\ attempts'[j] = IF j = d.job THEN attempts[j] + 1 ELSE attempts[j]
                           /\ attempts[j] \in Nat /\ rolledBack[j] \in Nat
    BY <1>4, <1>7 DEF CronInv, CronType
  <2>2. run \notin TickRuns /\ run \notin Seen /\ run \notin TickDrops
    BY <1>2, <1>5 DEF CronInv, RunInv, Seen
  <2>3. Seen' = all \ old
    <3>1. Seen' = (rows \cup TickRuns \cup {run}) \ (TickDrops \cup old)
      BY <1>8, <2>1 DEF Seen
    <3> HIDE DEF old, run
    <3> QED
      BY <2>2, <3>1 DEF Seen
  <2> SUFFICES ASSUME NEW j \in Jobs
               PROVE  /\ Enough(OfJob(j, rows), Committed(j)')
                      /\ Enough(OfJob(j, Seen'), attempts'[j] - rolledBack[j])
    BY <2>1 DEF KeepInv, OfJob, Cron!RunsOf
  <2>4. /\ Enough(OfJob(j, rows), Committed(j))
        /\ Enough(OfJob(j, Seen), attempts[j] - rolledBack[j])
    BY DEF CronInv, KeepInv
  <2>5. Committed(j)' = attempts'[j] - rolledBack[j] - Cardinality(OfJob(j, TickRuns'))
    BY <2>1 DEF Committed, OfJob, Cron!RunsOf
  <2>6. IsFiniteSet(OfJob(j, TickRuns)) /\ Cardinality(OfJob(j, TickRuns)) \in Nat
        /\ IsFiniteSet(OfJob(j, Seen))
    BY RunsAreFinite DEF CronInv
  <2>7. CASE j # d.job
    <3>1. OfJob(j, TickRuns') = OfJob(j, TickRuns)
      BY <1>5, <1>8, <2>7, OfJobIs
    <3>2. OfJob(j, Seen') = OfJob(j, Seen)
      <4>1. \A a \in old : a.job = d.job
        BY <1>10, OfJobIs
      <4> HIDE DEF old, run
      <4>2. OfJob(j, Seen') = OfJob(j, all)
        BY <2>3, <2>7, <4>1, OfJobIs
      <4>3. OfJob(j, all) = OfJob(j, Seen)
        BY <1>5, <2>7, OfJobIs
      <4> QED
        BY <4>2, <4>3
    <3> QED
      BY <2>1, <2>4, <2>5, <2>7, <3>1, <3>2 DEF Committed
  <2>8. CASE j = d.job
    <3>1. OfJob(j, TickRuns') = OfJob(j, TickRuns) \cup {run}
          /\ run \notin OfJob(j, TickRuns)
      BY <1>5, <1>8, <2>2, <2>8, OfJobIs
    <3>2. Cardinality(OfJob(j, TickRuns')) = Cardinality(OfJob(j, TickRuns)) + 1
      <4> HIDE DEF run
      <4> QED
        BY <2>6, <3>1, FS_AddElement
    <3>3. Committed(j)' = Committed(j)
      <4> HIDE DEF run, d
      <4> QED
        BY <2>1, <2>5, <2>6, <2>8, <3>2 DEF Committed
    <3>4. OfJob(j, all) = OfJob(j, Seen) \cup {run} /\ run \notin OfJob(j, Seen)
      BY <1>5, <2>2, <2>8, OfJobIs
    <3>5. Enough(OfJob(j, all), attempts[j] - rolledBack[j] + 1)
      <4> HIDE DEF run, all
      <4> QED
        BY <2>1, <2>4, <2>6, <3>4, OneMoreIsEnough
    <3>6. OfJob(j, Seen') = OfJob(j, all) \ Cron!PruneIDs(OfJob(j, all))
      <4>1. OfJob(j, all \ old) = OfJob(j, all) \ old
        BY OfJobIs
      <4> QED
        BY <2>3, <2>8, <4>1
    <3>7. OfJob(j, all) \in SUBSET Cron!Run
      BY <1>10, <2>8
    <3>8. Enough(OfJob(j, Seen'), attempts[j] - rolledBack[j] + 1)
      <4> HIDE DEF all
      <4> QED
        BY <1>11, <2>1, <2>8, <3>5, <3>6, <3>7, PruneKeepsEnough
    <3>9. attempts'[j] - rolledBack[j] = attempts[j] - rolledBack[j] + 1
      BY <2>1, <2>8
    <3> QED
      BY <2>4, <3>3, <3>8, <3>9
  <2> QED
    BY <2>7, <2>8
<1> QED
  BY <1>12, <1>13, <1>14, <1>15, <1>16 DEF CronInv

\* The end of a tick.
LEMMA TickEnds ==
  ASSUME CronInv, NEW w \in Workers, step[w] = "fire", Cron!EndTick(w)
  PROVE  /\ \A u \in Workers : Tick(u)' /\ \A j \in Jobs : marked'[u][j] = -1
         /\ TickRuns' = {} /\ TickDrops' = {}
         /\ step' \in [Cron!Procs -> {"idle", "fire", "finish", "prune"}]
         /\ now' \in [Workers -> Nat] /\ queue' \in [Workers -> Seq(Cron!Due)]
         /\ marked' \in [Workers -> [Jobs -> Nat \cup {-1}]]
         /\ ran' \in [Cron!Procs -> SUBSET Cron!Run]
         /\ drop' \in [Workers -> SUBSET Cron!Run]
         /\ UNCHANGED <<time, schedule, lastId, attempts>>
<1>1. /\ lead' = Nobody
      /\ step' = [step EXCEPT ![w] = "idle"] /\ now' = [now EXCEPT ![w] = 0]
      /\ queue' = [queue EXCEPT ![w] = << >>] /\ ran' = [ran EXCEPT ![w] = {}]
      /\ marked' = [marked EXCEPT ![w] = Cron!NotMarked]
      /\ drop' = [drop EXCEPT ![w] = {}]
      /\ UNCHANGED <<time, schedule, lastId, attempts>>
  BY DEF Cron!EndTick, Cron!Goto, Cron!Unlock
<1>2. /\ \A u \in Workers : u # w => step[u] = "idle" /\ AtRest(u)
      /\ lead = w
  BY LeaderHasAll DEF CronInv
<1>3. \A u \in Workers : u # w => ran[u] = {} /\ drop[u] = {}
  BY <1>2 DEF AtRest
<1>4. TickRuns' = {} /\ TickDrops' = {}
  BY <1>1, <1>3, TickSets DEF CronInv
<1>5. Cron!NotMarked \in [Jobs -> Nat \cup {-1}] /\ \A j \in Jobs : Cron!NotMarked[j] = -1
  BY DEF Cron!NotMarked
<1>6. /\ step' \in [Cron!Procs -> {"idle", "fire", "finish", "prune"}]
      /\ now' \in [Workers -> Nat] /\ queue' \in [Workers -> Seq(Cron!Due)]
      /\ marked' \in [Workers -> [Jobs -> Nat \cup {-1}]]
      /\ ran' \in [Cron!Procs -> SUBSET Cron!Run]
      /\ drop' \in [Workers -> SUBSET Cron!Run]
  BY <1>1, <1>5, CronProcs DEF CronInv, CronType
<1>7. \A u \in Workers : step'[u] = "idle" /\ AtRest(u)'
  BY <1>1, <1>2, CronProcs DEF CronInv, CronType, AtRest
<1>8. \A u \in Workers : now'[u] <= time'
  BY <1>1 DEF CronInv, CronType, TickInv, Tick
<1>9. ASSUME NEW u \in Workers PROVE Tick(u)' /\ \A j \in Jobs : marked'[u][j] = -1
  <2>1. step'[u] = "idle" /\ lead' # u /\ AtRest(u)' /\ now'[u] <= time'
    BY <1>1, <1>7, <1>8, CronProcs
  <2>2. queue'[u] = << >> /\ marked'[u] = Cron!NotMarked
    BY <2>1 DEF AtRest
  <2> QED
    BY <1>5, <2>1, <2>2 DEF Tick
<1> QED
  BY <1>1, <1>4, <1>6, <1>9

LEMMA CronCommit == ASSUME CronInv, NEW w \in Workers, Cron!CommitTick(w) PROVE CronInv'
<1>1. /\ step[w] = "fire" /\ Cron!EndTick(w) /\ rolledBack' = rolledBack
      /\ rows' = (rows \cup ran[w]) \ drop[w]
      /\ next' = [j \in Jobs |-> IF marked[w][j] = -1 THEN next[j] ELSE marked[w][j]]
      /\ fires' = [j \in Jobs |-> IF marked[w][j] = -1 THEN fires[j] ELSE 0]
  BY DEF Cron!CommitTick
<1>2. /\ TickRuns = ran[w] /\ TickDrops = drop[w]
      /\ \A u \in Workers : u # w => AtRest(u)
  BY <1>1, LeaderHasAll DEF CronInv
<1>3. rows' = Seen
  BY <1>1, <1>2 DEF Seen
<1>4. Seen \in SUBSET (rows \cup TickRuns) /\ Seen \in SUBSET Cron!Run /\ IsFiniteSet(Seen)
  <2>1. Seen \in SUBSET (rows \cup TickRuns)
    BY DEF Seen
  <2>2. IsFiniteSet(rows \cup TickRuns)
    BY FS_Union DEF CronInv, RunInv
  <2>3. IsFiniteSet(Seen)
    BY <2>1, <2>2, FS_Subset
  <2> QED
    BY <2>1, <2>3, RunsAreFinite DEF CronInv, CronType
<1>5. CronType'
  <2>1. next' \in [Jobs -> Nat] /\ fires' \in [Jobs -> Nat]
    BY <1>1 DEF CronInv, CronType
  <2> QED
    BY <1>1, <1>3, <1>4, <2>1, TickEnds DEF CronInv, CronType
<1>6. TickInv' /\ TickRuns' = {} /\ TickDrops' = {}
      /\ UNCHANGED <<time, lastId, attempts>>
      /\ \A u \in Workers, j \in Jobs : marked'[u][j] = -1
  BY <1>1, TickEnds DEF TickInv
<1>7. FiredInv'
  <2> SUFFICES ASSUME NEW j \in Jobs PROVE fires'[j] <= rolledBack[j]
    BY <1>1, <1>5 DEF FiredInv, CronType
  <2>1. CASE marked[w][j] = -1
    <3>1. \A u \in Workers : marked[u][j] = -1
      BY <1>2, <2>1 DEF AtRest, Cron!NotMarked
    <3> QED
      BY <1>1, <2>1, <3>1 DEF CronInv, FiredInv
  <2>2. CASE marked[w][j] # -1
    BY <1>1, <2>2 DEF CronInv, CronType
  <2> QED
    BY <2>1, <2>2
<1>8. RunInv'
  <2>1. rows' \cup TickRuns' = Seen
    BY <1>3, <1>6
  <2> QED
    BY <1>3, <1>4, <1>6, <2>1, FS_EmptySet DEF CronInv, RunInv
<1>9. KeepInv'
  <2>1. Seen' = Seen
    BY <1>3, <1>6 DEF Seen
  <2>2. Cardinality({}) = 0
    BY FS_EmptySet
  <2> SUFFICES ASSUME NEW j \in Jobs
               PROVE  /\ Enough(OfJob(j, Seen), Committed(j)')
                      /\ Enough(OfJob(j, Seen), attempts[j] - rolledBack[j])
    BY <1>1, <1>3, <1>6, <2>1 DEF KeepInv, OfJob, Cron!RunsOf
  <2>3. Committed(j)' = attempts[j] - rolledBack[j] - Cardinality(OfJob(j, TickRuns'))
    BY <1>1, <1>6 DEF Committed, OfJob, Cron!RunsOf
  <2>4. Committed(j)' = attempts[j] - rolledBack[j]
    <3>1. OfJob(j, TickRuns') = {}
      BY <1>6, OfJobIs
    <3> QED
      BY <2>2, <2>3, <3>1 DEF CronInv, CronType
  <2> QED
    BY <2>4 DEF CronInv, KeepInv
<1> QED
  BY <1>5, <1>6, <1>7, <1>8, <1>9 DEF CronInv

LEMMA CronDie == ASSUME CronInv, NEW w \in Workers, Cron!DieTick(w) PROVE CronInv'
<1>1. /\ step[w] = "fire" /\ Cron!EndTick(w) /\ UNCHANGED <<next, rows, fires>>
      /\ rolledBack' = [j \in Jobs |-> rolledBack[j] + Cardinality(OfJob(j, ran[w]))]
  BY CronCard DEF Cron!DieTick, OfJob
<1>2. /\ TickRuns = ran[w] /\ TickDrops = drop[w]
      /\ \A u \in Workers : u # w => AtRest(u)
  BY <1>1, LeaderHasAll DEF CronInv
<1>3. \A j \in Jobs : /\ IsFiniteSet(OfJob(j, TickRuns))
                      /\ Cardinality(OfJob(j, TickRuns)) \in Nat
                      /\ rolledBack'[j] = rolledBack[j] + Cardinality(OfJob(j, TickRuns))
                      /\ rolledBack[j] \in Nat /\ attempts[j] \in Nat /\ fires[j] \in Nat
  BY <1>1, <1>2, RunsAreFinite DEF CronInv, CronType
<1>4. CronType'
  <2>1. rolledBack' \in [Jobs -> Nat]
    BY <1>1, <1>3
  <2> QED
    BY <1>1, <2>1, TickEnds DEF CronInv, CronType
<1>5. TickInv' /\ TickRuns' = {} /\ TickDrops' = {}
      /\ UNCHANGED <<time, lastId, attempts>>
      /\ \A u \in Workers, j \in Jobs : marked'[u][j] = -1
  BY <1>1, TickEnds DEF TickInv
<1>6. FiredInv'
  <2> SUFFICES ASSUME NEW j \in Jobs PROVE fires[j] <= rolledBack'[j]
    BY <1>1, <1>4 DEF FiredInv, CronType
  <2>1. CASE marked[w][j] = -1
    <3>1. \A u \in Workers : marked[u][j] = -1
      BY <1>2, <2>1 DEF AtRest, Cron!NotMarked
    <3>2. fires[j] <= rolledBack[j]
      BY <3>1 DEF CronInv, FiredInv
    <3> QED
      BY <1>3, <3>2
  <2>2. CASE marked[w][j] # -1
    <3>1. PICK a \in TickRuns : a.job = j
      BY <1>2, <2>2 DEF CronInv, TickInv, Tick
    <3>2. OfJob(j, TickRuns) # {}
      BY <3>1, OfJobIs
    <3>3. Cardinality(OfJob(j, TickRuns)) # 0
      BY <1>3, <3>2, FS_EmptySet
    <3>4. fires[j] <= rolledBack[j] + 1
      BY DEF CronInv, FiredInv
    <3> QED
      BY <1>3, <3>3, <3>4
  <2> QED
    BY <2>1, <2>2
<1>7. RunInv'
  BY <1>1, <1>5, FS_EmptySet DEF CronInv, RunInv
<1>8. KeepInv'
  <2>1. Seen' = rows
    BY <1>1, <1>5 DEF Seen
  <2>2. Cardinality({}) = 0
    BY FS_EmptySet
  <2> SUFFICES ASSUME NEW j \in Jobs
               PROVE  /\ Enough(OfJob(j, rows), Committed(j)')
                      /\ Enough(OfJob(j, rows), attempts[j] - rolledBack'[j])
    BY <1>1, <1>5, <2>1 DEF KeepInv, OfJob, Cron!RunsOf
  <2>3. Committed(j)' = attempts[j] - rolledBack'[j] - Cardinality(OfJob(j, TickRuns'))
    BY <1>1, <1>5 DEF Committed, OfJob, Cron!RunsOf
  <2>4. Committed(j)' = attempts[j] - rolledBack'[j] /\ Committed(j)' = Committed(j)
    <3>1. OfJob(j, TickRuns') = {}
      BY <1>5, OfJobIs
    <3> QED
      BY <1>3, <2>2, <2>3, <3>1 DEF Committed
  <2>5. Enough(OfJob(j, rows), Committed(j))
    BY DEF CronInv, KeepInv
  <2> QED
    BY <2>4, <2>5
<1> QED
  BY <1>4, <1>5, <1>6, <1>7, <1>8 DEF CronInv

LEMMA CronUpsert ==
  ASSUME CronInv, NEW j \in Jobs, NEW s \in Schedules, NEW on \in BOOLEAN,
         Cron!Upsert(j, s, on)
  PROVE  CronInv'
<1>1. /\ schedule' = [schedule EXCEPT ![j] = s] /\ next' = [next EXCEPT ![j] = time]
      /\ fires' = [fires EXCEPT ![j] = 0]
      /\ UNCHANGED <<time, rows, lead, step, now, queue, ran, marked, drop, lastId, attempts,
                     rolledBack>>
  BY DEF Cron!Upsert, Cron!tickVars
<1>2. CronType'
  BY <1>1 DEF CronInv, CronType
<1>3. TickInv'
  BY <1>1 DEF CronInv, TickInv, Tick, AtRest
<1>4. FiredInv'
  BY <1>1 DEF CronInv, CronType, FiredInv
<1>5. UNCHANGED <<TickRuns, TickDrops>> /\ time' >= time
  BY <1>1 DEF TickRuns, TickDrops, CronInv, CronType
<1> QED
  BY <1>1, <1>2, <1>3, <1>4, <1>5, RunsRest

\* What requests leave alone.
LEMMA RequestRest ==
  ASSUME CronInv, NEW r \in Callers, NEW label \in {"idle", "finish", "prune"},
         NEW R \in SUBSET Cron!Run,
         step' = [step EXCEPT ![r] = label], ran' = [ran EXCEPT ![r] = R],
         rows' \in SUBSET Cron!Run, lastId' \in Nat, attempts' \in [Jobs -> Nat],
         UNCHANGED <<time, next, schedule, lead, now, queue, marked, drop, fires, rolledBack>>
  PROVE  /\ CronType' /\ TickInv' /\ FiredInv'
         /\ TickRuns' = TickRuns /\ TickDrops' = TickDrops
<1>1. CronType'
  BY CronProcs DEF CronInv, CronType
<1>2. /\ \A u \in Workers : ran'[u] = ran[u]
      /\ TickRuns' = TickRuns /\ TickDrops' = TickDrops
  BY TickSetsRest DEF CronInv
<1>3. \A u \in Workers : step'[u] = step[u]
  BY CronProcs DEF CronInv, CronType
<1>4. TickInv'
  <2> SUFFICES ASSUME NEW u \in Workers PROVE Tick(u)'
    BY DEF TickInv
  <2>1. Tick(u) /\ step'[u] = step[u] /\ ran'[u] = ran[u]
    BY <1>2, <1>3 DEF CronInv, TickInv
  <2> QED
    BY <2>1 DEF Tick, AtRest
<1>5. FiredInv'
  BY DEF CronInv, FiredInv
<1> QED
  BY <1>1, <1>2, <1>4, <1>5

LEMMA CronStartManual ==
  ASSUME CronInv, NEW r \in Callers, NEW i \in Jobs, Cron!StartManual(r, i)
  PROVE  CronInv'
<1> DEFINE run == [job |-> i, at |-> time, id |-> lastId + 1, ended |-> FALSE]
<1>1. /\ lastId' = lastId + 1 /\ rows' = rows \cup {run}
      /\ ran' = [ran EXCEPT ![r] = {run}]
      /\ attempts' = [attempts EXCEPT ![i] = @ + 1]
      /\ step' = [step EXCEPT ![r] = "finish"]
      /\ UNCHANGED <<time, next, schedule, lead, now, queue, marked, drop, fires, rolledBack>>
  BY DEF Cron!StartManual, Cron!Goto, Cron!jobVars
<1>2. time \in Nat /\ lastId \in Nat /\ attempts \in [Jobs -> Nat]
      /\ rolledBack \in [Jobs -> Nat] /\ rows \in SUBSET Cron!Run
  BY DEF CronInv, CronType
<1>3. run \in Cron!Run /\ run.job = i /\ run.id = lastId + 1 /\ run.at = time
  BY <1>2 DEF Cron!Run
<1>4. \A a \in rows \cup TickRuns : a.at <= time /\ a.id <= lastId /\ a.id \in Nat /\ a.at \in Nat
  BY RunsAreFinite DEF CronInv, CronType, RunInv, Cron!Run
<1>5. run \notin rows \cup TickRuns /\ run \notin TickDrops
      /\ \A a \in rows \cup TickRuns : a.id # run.id /\ ~Cron!Before(run, a)
  BY <1>2, <1>3, <1>4 DEF CronInv, RunInv, Cron!Before
<1>6. /\ CronType' /\ TickInv' /\ FiredInv'
      /\ TickRuns' = TickRuns /\ TickDrops' = TickDrops
  <2>1. rows' \in SUBSET Cron!Run /\ lastId' \in Nat /\ attempts' \in [Jobs -> Nat]
        /\ {run} \in SUBSET Cron!Run
    <3>1. run \in Cron!Run
      BY <1>3
    <3> HIDE DEF run
    <3> QED
      BY <1>1, <1>2, <3>1
  <2> HIDE DEF run
  <2> QED
    BY <1>1, <2>1, RequestRest
<1>7. RunInv'
  <2>1. IsFiniteSet(rows')
    <3> HIDE DEF run
    <3> QED
      BY <1>1, FS_AddElement DEF CronInv, RunInv
  <2>2. run.at <= time' /\ run.id <= lastId' /\ \A a \in rows \cup TickRuns : a.id <= lastId'
    BY <1>1, <1>2, <1>3, <1>4
  <2> HIDE DEF run
  <2> QED
    BY <1>1, <1>4, <1>5, <1>6, <2>1, <2>2 DEF CronInv, RunInv
<1>8. KeepInv'
  <2>1. Seen' = Seen \cup {run} /\ run \notin Seen
    <3> HIDE DEF run
    <3> QED
      BY <1>1, <1>5, <1>6 DEF Seen
  <2> SUFFICES ASSUME NEW j \in Jobs
               PROVE  /\ Enough(OfJob(j, rows'), Committed(j)')
                      /\ Enough(OfJob(j, Seen'), attempts'[j] - rolledBack[j])
    BY <1>1 DEF KeepInv, OfJob, Cron!RunsOf
  <2>2. attempts'[j] = IF j = i THEN attempts[j] + 1 ELSE attempts[j]
    BY <1>1, <1>2
  <2>3. /\ Enough(OfJob(j, rows), Committed(j))
        /\ Enough(OfJob(j, Seen), attempts[j] - rolledBack[j])
    BY DEF CronInv, KeepInv
  <2>4. /\ IsFiniteSet(OfJob(j, rows)) /\ IsFiniteSet(OfJob(j, Seen))
        /\ Cardinality(OfJob(j, TickRuns)) \in Nat
    BY RunsAreFinite DEF CronInv
  <2>5. Committed(j)' = attempts'[j] - rolledBack[j] - Cardinality(OfJob(j, TickRuns))
    BY <1>1, <1>6 DEF Committed, OfJob, Cron!RunsOf
  <2>6. CASE j # i
    <3>1. OfJob(j, rows') = OfJob(j, rows) /\ OfJob(j, Seen') = OfJob(j, Seen)
      BY <1>1, <1>3, <2>1, <2>6, OfJobIs
    <3> QED
      BY <2>2, <2>3, <2>5, <2>6, <3>1 DEF Committed
  <2>7. CASE j = i
    <3>1. /\ OfJob(j, rows') = OfJob(j, rows) \cup {run} /\ run \notin OfJob(j, rows)
          /\ OfJob(j, Seen') = OfJob(j, Seen) \cup {run} /\ run \notin OfJob(j, Seen)
      BY <1>1, <1>3, <1>5, <2>1, <2>7, OfJobIs
    <3> HIDE DEF run
    <3>2. /\ Committed(j) \in Int /\ Committed(j)' = Committed(j) + 1
          /\ attempts[j] - rolledBack[j] \in Int
          /\ attempts'[j] - rolledBack[j] = (attempts[j] - rolledBack[j]) + 1
      BY <1>2, <2>2, <2>4, <2>5, <2>7 DEF Committed
    <3>3. Enough(OfJob(j, rows'), Committed(j) + 1)
      BY <2>3, <2>4, <3>1, <3>2, OneMoreIsEnough
    <3>4. Enough(OfJob(j, Seen'), (attempts[j] - rolledBack[j]) + 1)
      BY <2>3, <2>4, <3>1, <3>2, OneMoreIsEnough
    <3> QED
      BY <3>2, <3>3, <3>4
  <2> QED
    BY <2>6, <2>7
<1> QED
  BY <1>6, <1>7, <1>8 DEF CronInv

\* Requests that change no row.
LEMMA RowsRest ==
  ASSUME CronInv, CronType', TickInv', FiredInv', TickRuns' = TickRuns,
         TickDrops' = TickDrops, UNCHANGED <<rows, time, lastId, attempts, rolledBack>>
  PROVE  CronInv'
<1>1. time' >= time
  BY DEF CronInv, CronType
<1> QED
  BY <1>1, RunsRest

LEMMA ReplaceOne ==
  ASSUME NEW S, IsFiniteSet(S), NEW x \in S, NEW y, y \notin S \ {x}
  PROVE  /\ IsFiniteSet((S \ {x}) \cup {y})
         /\ Cardinality((S \ {x}) \cup {y}) = Cardinality(S)
<1>1. /\ IsFiniteSet(S \ {x}) /\ Cardinality(S \ {x}) = Cardinality(S) - 1
      /\ Cardinality(S) \in Nat
  BY FS_RemoveElement, FS_CardinalityType
<1>2. /\ IsFiniteSet((S \ {x}) \cup {y})
      /\ Cardinality((S \ {x}) \cup {y}) = Cardinality(S \ {x}) + 1
  BY <1>1, FS_AddElement
<1> QED
  BY <1>1, <1>2

LEMMA CronFinishManual ==
  ASSUME CronInv, NEW r \in Callers, Cron!FinishManual(r)
  PROVE  CronInv'
<1>1. PICK row \in ran[r] :
        /\ \A w \in Workers : row \notin drop[w]
        /\ IF row \in rows
           THEN /\ rows' = (rows \ {row}) \cup {[row EXCEPT !.ended = TRUE]}
                /\ ran' = [ran EXCEPT ![r] = {[row EXCEPT !.ended = TRUE]}]
                /\ Cron!Goto(r, "prune")
           ELSE /\ ran' = [ran EXCEPT ![r] = {}]
                /\ Cron!Goto(r, "idle")
                /\ UNCHANGED rows
  BY DEF Cron!FinishManual
<1>2. UNCHANGED <<time, next, schedule, lead, now, queue, marked, drop, fires, rolledBack,
                  lastId, attempts>>
  BY DEF Cron!FinishManual, Cron!jobVars, Cron!histories
<1>3. lastId \in Nat /\ attempts \in [Jobs -> Nat] /\ rows \in SUBSET Cron!Run
      /\ rolledBack \in [Jobs -> Nat]
  BY DEF CronInv, CronType
<1>4. CASE row \notin rows
  <2>1. step' = [step EXCEPT ![r] = "idle"] /\ ran' = [ran EXCEPT ![r] = {}] /\ rows' = rows
    BY <1>1, <1>4 DEF Cron!Goto
  <2>2. CronType' /\ TickInv' /\ FiredInv' /\ TickRuns' = TickRuns /\ TickDrops' = TickDrops
    BY <1>2, <1>3, <2>1, RequestRest
  <2> QED
    BY <1>2, <2>1, <2>2, RowsRest
<1>5. CASE row \in rows
  <2> DEFINE done == [row EXCEPT !.ended = TRUE]
  <2>1. /\ step' = [step EXCEPT ![r] = "prune"] /\ ran' = [ran EXCEPT ![r] = {done}]
        /\ rows' = (rows \ {row}) \cup {done}
    BY <1>1, <1>5 DEF Cron!Goto
  <2>2. /\ row \in Cron!Run /\ done \in Cron!Run /\ done.job = row.job /\ done.at = row.at
        /\ done.id = row.id /\ row.job \in Jobs
    BY <1>3, <1>5 DEF Cron!Run
  <2>3. CronType' /\ TickInv' /\ FiredInv' /\ TickRuns' = TickRuns /\ TickDrops' = TickDrops
    <3>1. rows' \in SUBSET Cron!Run /\ {done} \in SUBSET Cron!Run
          /\ lastId' \in Nat /\ attempts' \in [Jobs -> Nat]
      BY <1>2, <1>3, <2>1, <2>2
    <3> HIDE DEF done
    <3> QED
      BY <1>2, <2>1, <3>1, RequestRest
  <2> HIDE DEF done
  <2>4. row \notin TickDrops /\ row \notin TickRuns
    BY <1>1, <1>5 DEF TickDrops, CronInv, RunInv
  <2>5. \A a \in rows \cup TickRuns : a.id = done.id => a = row
    BY <1>5, <2>2 DEF CronInv, RunInv
  <2>6. done \notin (rows \cup TickRuns) \ {row} /\ done \notin TickRuns
    BY <2>4, <2>5
  <2>7. \A a : Cron!Before(done, a) <=> Cron!Before(row, a)
    BY <2>2 DEF Cron!Before
  <2>8. RunInv'
    <3>1. IsFiniteSet(rows')
      BY <1>5, <2>1, <2>6, ReplaceOne DEF CronInv, RunInv
    <3>2. TickDrops \subseteq rows' \cup TickRuns /\ rows' \cap TickRuns = {}
      BY <2>1, <2>4, <2>6 DEF CronInv, RunInv
    <3>3. \A a \in rows' \cup TickRuns : a.at <= time /\ a.id <= lastId
      BY <1>5, <2>1, <2>2 DEF CronInv, RunInv
    <3>4. \A a, b \in rows' \cup TickRuns : a.id = b.id => a = b
      <4>1. \A a \in rows' \cup TickRuns : a = done \/ a \in (rows \cup TickRuns) \ {row}
        BY <2>1, <2>4
      <4>2. \A a \in (rows \cup TickRuns) \ {row} : a.id # done.id
        BY <2>5
      <4>3. \A a, b \in (rows \cup TickRuns) \ {row} : a.id = b.id => a = b
        BY DEF CronInv, RunInv
      <4> QED
        BY <4>1, <4>2, <4>3
    <3>5. \A a \in rows' \cup TickRuns, d \in TickDrops :
            a.job = d.job /\ Cron!Before(a, d) => a \in TickDrops
      BY <1>5, <2>1, <2>2, <2>4, <2>7 DEF CronInv, RunInv
    <3> QED
      BY <1>2, <2>3, <3>1, <3>2, <3>3, <3>4, <3>5 DEF CronInv, RunInv
  <2>9. KeepInv'
    <3>1. Seen' = (Seen \ {row}) \cup {done} /\ row \in Seen /\ done \notin Seen \ {row}
      <4>1. done \notin TickDrops
        BY <2>4, <2>6 DEF CronInv, RunInv
      <4> QED
        BY <1>5, <2>1, <2>3, <2>4, <2>6, <4>1 DEF Seen
    <3> SUFFICES ASSUME NEW j \in Jobs
                 PROVE  /\ Enough(OfJob(j, rows'), Committed(j)')
                        /\ Enough(OfJob(j, Seen'), attempts[j] - rolledBack[j])
      BY <1>2 DEF KeepInv, OfJob, Cron!RunsOf
    <3>2. Committed(j)' = Committed(j)
      BY <1>2, <2>3 DEF Committed, OfJob, Cron!RunsOf
    <3>3. Cardinality(OfJob(j, rows')) = Cardinality(OfJob(j, rows))
          /\ Cardinality(OfJob(j, Seen')) = Cardinality(OfJob(j, Seen))
      <4>1. CASE j # row.job
        BY <1>5, <2>1, <2>2, <3>1, <4>1, OfJobIs
      <4>2. CASE j = row.job
        <5>1. /\ OfJob(j, rows') = (OfJob(j, rows) \ {row}) \cup {done}
              /\ row \in OfJob(j, rows) /\ done \notin OfJob(j, rows) \ {row}
          BY <1>5, <2>1, <2>2, <2>6, <4>2, OfJobIs
        <5>2. /\ OfJob(j, Seen') = (OfJob(j, Seen) \ {row}) \cup {done}
              /\ row \in OfJob(j, Seen) /\ done \notin OfJob(j, Seen) \ {row}
          BY <2>2, <3>1, <4>2, OfJobIs
        <5> DEFINE A == OfJob(j, rows)
                   B == OfJob(j, Seen)
        <5>3. IsFiniteSet(A) /\ IsFiniteSet(B)
          BY RunsAreFinite DEF CronInv
        <5>4. /\ OfJob(j, rows') = (A \ {row}) \cup {done} /\ row \in A /\ done \notin A \ {row}
              /\ OfJob(j, Seen') = (B \ {row}) \cup {done} /\ row \in B /\ done \notin B \ {row}
          BY <5>1, <5>2
        <5> HIDE DEF A, B
        <5>5. Cardinality((A \ {row}) \cup {done}) = Cardinality(A)
          BY <5>3, <5>4, ReplaceOne
        <5>6. Cardinality((B \ {row}) \cup {done}) = Cardinality(B)
          BY <5>3, <5>4, ReplaceOne
        <5> QED
          BY <5>4, <5>5, <5>6 DEF A, B
      <4> QED
        BY <4>1, <4>2
    <3> QED
      BY <3>2, <3>3 DEF CronInv, KeepInv, Enough
  <2> QED
    BY <2>3, <2>8, <2>9 DEF CronInv
<1> QED
  BY <1>4, <1>5

LEMMA CronPruneManual ==
  ASSUME CronInv, NEW r \in Callers, Cron!PruneManual(r)
  PROVE  CronInv'
<1>1. PICK row \in ran[r] :
        /\ \A w \in Workers : Cron!PruneIDs(OfJob(row.job, rows)) \cap drop[w] = {}
        /\ rows' = rows \ Cron!PruneIDs(OfJob(row.job, rows))
  BY DEF Cron!PruneManual, OfJob
<1> DEFINE i == row.job
           old == Cron!PruneIDs(OfJob(i, rows))
           kept == OfJob(i, rows) \ old
<1>2. /\ step' = [step EXCEPT ![r] = "idle"] /\ ran' = [ran EXCEPT ![r] = {}]
      /\ UNCHANGED <<time, next, schedule, lead, now, queue, marked, drop, fires, rolledBack,
                     lastId, attempts>>
  BY DEF Cron!PruneManual, Cron!Goto, Cron!jobVars, Cron!histories
<1>3. lastId \in Nat /\ attempts \in [Jobs -> Nat] /\ rows \in SUBSET Cron!Run
      /\ rolledBack \in [Jobs -> Nat]
  BY DEF CronInv, CronType
<1>4. rows' = rows \ old /\ old \cap TickDrops = {}
  BY <1>1 DEF TickDrops
<1>5. old \in SUBSET OfJob(i, rows)
  BY PrunedIs
<1>6. /\ OfJob(i, rows) \in SUBSET Cron!Run /\ OfJob(i, rows) \in SUBSET rows
      /\ IsFiniteSet(OfJob(i, rows))
      /\ \A a \in OfJob(i, rows) : a.job = i
  BY OfJobIs, RunsAreFinite DEF CronInv
<1>7. \A a \in old, b \in OfJob(i, rows) : Cron!Before(b, a) => b \in old
  <2> HIDE DEF i
  <2> QED
    BY <1>6, PrunedIsDownward
<1> HIDE DEF i, old
<1>8. CronType' /\ TickInv' /\ FiredInv' /\ TickRuns' = TickRuns /\ TickDrops' = TickDrops
  <2>1. rows' \in SUBSET Cron!Run
    BY <1>3, <1>4
  <2> QED
    BY <1>2, <1>3, <2>1, RequestRest
<1>9. RunInv'
  <2>1. IsFiniteSet(rows')
    BY <1>4, FS_Subset DEF CronInv, RunInv
  <2>2. TickDrops \subseteq rows' \cup TickRuns
    BY <1>4 DEF CronInv, RunInv
  <2> QED
    BY <1>2, <1>4, <1>8, <2>1, <2>2 DEF CronInv, RunInv
\* What it keeps the tick does not delete, which would have deleted what it does not.
<1>10. old # {} => kept \cap TickDrops = {}
  <2> SUFFICES ASSUME NEW a \in old, NEW b \in kept, b \in TickDrops PROVE FALSE
    OBVIOUS
  <2>1. a # b /\ a \in rows /\ b \in rows /\ a.job = b.job
        /\ a \in Cron!Run /\ b \in Cron!Run
    BY <1>5, <1>6
  <2>2. a.id # b.id
    BY <2>1 DEF CronInv, RunInv
  <2>3. Cron!Before(a, b)
    BY <1>7, <2>1, <2>2, RunsAreOrdered
  <2>4. a \in TickDrops
    BY <2>1, <2>3 DEF CronInv, RunInv
  <2> QED
    BY <1>4, <2>4
<1>11. KeepInv'
  <2> SUFFICES ASSUME NEW j \in Jobs
               PROVE  /\ Enough(OfJob(j, rows'), Committed(j)')
                      /\ Enough(OfJob(j, Seen'), attempts[j] - rolledBack[j])
    BY <1>2 DEF KeepInv, OfJob, Cron!RunsOf
  <2>1. Committed(j)' = Committed(j)
    BY <1>2, <1>8 DEF Committed, OfJob, Cron!RunsOf
  <2>2. Seen' = (rows' \cup TickRuns) \ TickDrops
    BY <1>8 DEF Seen
  <2>3. /\ Enough(OfJob(j, rows), Committed(j))
        /\ Enough(OfJob(j, Seen), attempts[j] - rolledBack[j])
    BY DEF CronInv, KeepInv
  <2>4. CASE j # i \/ old = {}
    <3>1. OfJob(j, rows') = OfJob(j, rows) /\ OfJob(j, Seen') = OfJob(j, Seen)
      BY <1>4, <1>5, <1>6, <2>2, <2>4, OfJobIs DEF Seen
    <3> QED
      BY <2>1, <2>3, <3>1
  <2>5. CASE j = i /\ old # {}
    <3>1. Retention <= Cardinality(kept)
      <4>1. Retention \in Nat /\ IsFiniteSet(kept)
        BY <1>6, FS_Subset, RetentionIs
      <4>2. Cardinality(kept) >= Retention
        BY <1>6, <2>5, PruneLeaves DEF old
      <4>3. Cardinality(kept) \in Nat
        BY <4>1, FS_CardinalityType
      <4> QED
        BY <4>1, <4>2, <4>3
    <3>2. OfJob(j, rows') = kept
      BY <1>4, <2>5, OfJobIs
    <3>3. kept \in SUBSET OfJob(j, Seen')
      BY <1>4, <1>6, <1>10, <2>2, <2>5, OfJobIs
    <3>4. IsFiniteSet(OfJob(j, Seen'))
      <4>1. IsFiniteSet(rows \cup TickRuns)
        BY FS_Union DEF CronInv, RunInv
      <4>2. OfJob(j, Seen') \in SUBSET (rows \cup TickRuns)
        BY <1>4, <2>2, OfJobIs
      <4> QED
        BY <4>1, <4>2, FS_Subset
    <3>5. Retention <= Cardinality(OfJob(j, Seen'))
      <4>1. IsFiniteSet(kept) /\ Cardinality(kept) <= Cardinality(OfJob(j, Seen'))
        BY <3>3, <3>4, FS_Subset
      <4>2. Cardinality(kept) \in Nat /\ Cardinality(OfJob(j, Seen')) \in Nat
        BY <3>4, <4>1, FS_CardinalityType
      <4> QED
        BY <3>1, <4>1, <4>2, RetentionIs
    <3> QED
      BY <3>1, <3>2, <3>5 DEF Enough
  <2> QED
    BY <2>4, <2>5
<1> QED
  BY <1>8, <1>9, <1>11 DEF CronInv

LEMMA CronDieManual == ASSUME CronInv, NEW r \in Callers, Cron!DieManual(r) PROVE CronInv'
<1>1. /\ step' = [step EXCEPT ![r] = "idle"] /\ ran' = [ran EXCEPT ![r] = {}]
      /\ UNCHANGED <<time, next, schedule, lead, now, queue, marked, drop, fires, rolledBack,
                     lastId, attempts, rows>>
  BY DEF Cron!DieManual, Cron!Goto, Cron!jobVars, Cron!histories
<1>2. CronType' /\ TickInv' /\ FiredInv' /\ TickRuns' = TickRuns /\ TickDrops' = TickDrops
  <2>1. rows' \in SUBSET Cron!Run /\ lastId' \in Nat /\ attempts' \in [Jobs -> Nat]
    BY <1>1 DEF CronInv, CronType
  <2> QED
    BY <1>1, <2>1, RequestRest
<1> QED
  BY <1>1, <1>2, RowsRest

LEMMA CronStep == ASSUME CronInv, [MCNext]_allVars PROVE CronInv'
<1>1. CASE UNCHANGED cronVars
  <2>1. /\ UNCHANGED <<time, next, schedule, rows, lead, step, now, queue, ran, marked, drop,
                       lastId, fires, attempts, rolledBack>>
        /\ time' >= time
    BY <1>1 DEF cronVars, CronInv, CronType
  <2>2. CronType' /\ TickInv' /\ FiredInv' /\ UNCHANGED <<TickRuns, TickDrops>>
    BY <2>1 DEF CronInv, CronType, TickInv, Tick, AtRest, FiredInv, TickRuns, TickDrops
  <2> QED
    BY <2>1, <2>2, RunsRest
<1>2. CASE MCNext /\ ~UNCHANGED cronVars
  BY <1>2, CronAdvance, CronLead, CronFire, CronCommit, CronDie, CronUpsert, CronStartManual,
     CronFinishManual, CronPruneManual, CronDieManual
  DEF MCNext, InReminders, InCron, InHr, InBoot
<1> QED
  BY <1>1, <1>2 DEF allVars

\* A job is fired once per due time, but for the ticks that were rolled back, and
\* retention never takes one of its newest runs, however many replicas tick and
\* requests run jobs by hand or change their schedules (cron/scheduler.go:19-25,
\* 143-156, 196-229).
THEOREM SchedulerAddsUp == MCSpec => []RunsAddUp
<1>1. ASSUME CronInv PROVE Cron!FiredOnce
  BY <1>1 DEF CronInv, CronType, FiredInv, Cron!FiredOnce
<1>2. ASSUME CronInv PROVE Cron!KeepsNewestRuns
  <2> SUFFICES ASSUME NEW j \in Jobs
               PROVE  Cardinality(OfJob(j, rows))
                        >= IF Committed(j) < Retention THEN Committed(j) ELSE Retention
    <3>1. \A j \in Jobs : UNION {Cron!RunsOf(j, ran[w]) : w \in Workers} = OfJob(j, TickRuns)
      BY DEF OfJob, Cron!RunsOf, TickRuns
    <3> QED
      BY <3>1, CronCard DEF Cron!KeepsNewestRuns, Committed, OfJob
  <2>1. Enough(OfJob(j, rows), Committed(j))
    BY <1>2 DEF CronInv, KeepInv
  <2>2. Cardinality(OfJob(j, rows)) \in Nat /\ Cardinality(OfJob(j, TickRuns)) \in Nat
        /\ attempts[j] \in Nat /\ rolledBack[j] \in Nat
    BY <1>2, RunsAreFinite DEF CronInv, CronType
  <2> QED
    BY <2>1, <2>2, RetentionIs DEF Enough, Committed
<1>3. MCInit => CronInv
  BY CronInitInv
<1>4. CronInv /\ [MCNext]_allVars => CronInv'
  BY CronStep
<1>5. CronInv => RunsAddUp
  BY <1>1, <1>2 DEF RunsAddUp
<1> QED
  BY <1>3, <1>4, <1>5, PTL DEF MCSpec
=============================================================================
