--------------------------------- MODULE Folders ---------------------------------
(***************************************************************************)
(* The folder tree of the document store (backend/internal/documentsvc).   *)
(* Moving a folder walks up from its new parent, one query per folder, and *)
(* then writes; nothing is locked in between. Names are left out: a name   *)
(* that is taken fails a move or a creation, as any statement may.         *)
(***************************************************************************)
EXTENDS Integers, FiniteSets

CONSTANTS
  Requests,
  Ids,      \* folders that may exist
  Root,     \* the parent of the folders at the top
  MoveLimit \* bound: moves written

ConstantsOK == IsFiniteSet(Ids) /\ Root \notin Ids /\ MoveLimit \in Nat

VARIABLES
  parent,  \* per folder that exists: its parent
  passed,  \* history, per folder: the folders moved while its own last move was under way
  moves,   \* moves written
  pc, work \* per request: what comes next; the folder it moves, where to, how far it walked

vars == <<parent, passed, moves, pc, work>>

Folders == DOMAIN parent
Places == Ids \cup {Root}

NoWork == [folder |-> Root, to |-> Root, at |-> Root, moved |-> {}]

TypeOK ==
  /\ Folders \subseteq Ids
  /\ parent \in [Folders -> Folders \cup {Root}]
  /\ passed \in [Ids -> SUBSET Ids]
  /\ moves \in 0 .. MoveLimit
  /\ pc \in [Requests -> {"idle", "walk", "write"}]
  /\ work \in [Requests -> [folder : Places, to : Places, at : Places, moved : SUBSET Ids]]

Init ==
  /\ parent = << >>
  /\ passed = [f \in Ids |-> {}]
  /\ moves = 0
  /\ pc = [r \in Requests |-> "idle"]
  /\ work = [r \in Requests |-> NoWork]

Finish(r) == pc' = [pc EXCEPT ![r] = "idle"] /\ work' = [work EXCEPT ![r] = NoWork]

\* CreateFolder, by itself or for a segment of a path: the parent exists.
CreateFolder(f, place) ==
  /\ f \in Ids \ Folders
  /\ place \in Folders \cup {Root}
  /\ parent' = [g \in Folders \cup {f} |-> IF g = f THEN place ELSE parent[g]]
  /\ UNCHANGED <<passed, moves, pc, work>>

\* Both folders exist and differ, and the move changes something.
StartMove(r, f, to) ==
  /\ pc[r] = "idle"
  /\ f \in Folders /\ to \in (Folders \cup {Root}) \ {f, parent[f]}
  /\ work' = [work EXCEPT ![r] = [folder |-> f, to |-> to, at |-> to, moved |-> {}]]
  /\ pc' = [pc EXCEPT ![r] = IF to = Root THEN "write" ELSE "walk"]
  /\ UNCHANGED <<parent, passed, moves>>

\* Mutant: the walk looks at the new parent and no further.
EndsAfterOne(r) == work[r].at = work[r].to

AtTheTop(r) == parent[work[r].at] = Root

\* One folder of the chain is read; meeting the folder itself refuses the move.
WalkUp(r) ==
  /\ pc[r] = "walk"
  /\ IF work[r].at = work[r].folder THEN Finish(r)
     ELSE /\ work' = [work EXCEPT ![r].at = parent[work[r].at]]
          /\ pc' = [pc EXCEPT ![r] = IF AtTheTop(r) THEN "write" ELSE "walk"]
  /\ UNCHANGED <<parent, passed, moves>>

\* The UPDATE. The other moves under way have not seen it, or only a part of them.
WriteMove(r) ==
  LET f == work[r].folder
  IN /\ pc[r] = "write"
     /\ moves < MoveLimit
     /\ parent' = [parent EXCEPT ![f] = work[r].to]
     /\ passed' = [passed EXCEPT ![f] = work[r].moved]
     /\ moves' = moves + 1
     /\ pc' = [pc EXCEPT ![r] = "idle"]
     /\ work' = [q \in Requests |->
          IF q = r THEN NoWork
          ELSE IF pc[q] = "idle" THEN work[q] ELSE [work[q] EXCEPT !.moved = @ \cup {f}]]

\* A statement fails or the process dies.
Fail(r) ==
  /\ pc[r] # "idle"
  /\ Finish(r)
  /\ UNCHANGED <<parent, passed, moves>>

Next ==
  \/ \E f \in Ids, place \in Places : CreateFolder(f, place)
  \/ \E r \in Requests :
       \/ \E f \in Ids, to \in Places : StartMove(r, f, to)
       \/ WalkUp(r) \/ WriteMove(r) \/ Fail(r)

Spec == Init /\ [][Next]_vars

-----------------------------------------------------------------------------
(* Properties *)

\* The folders from f upwards.
Above(f) ==
  LET up[n \in 0 .. Cardinality(Ids)] ==
        IF n = 0 THEN {f} ELSE up[n - 1] \cup {parent[g] : g \in up[n - 1] \ {Root}}
  IN up[Cardinality(Ids)] \ {Root}

OnCycle(f) == \E g \in Above(f) : parent[g] = f

\* A folder never ends up inside itself (ecm.go:168-169) unless two moves passed
\* each other: in every cycle one folder was moved while the move of another one
\* in it was under way, whatever moved before and after.
CyclesNeedARace ==
  \A f \in Folders : OnCycle(f) => \E g \in Above(f) : passed[g] \cap Above(f) # {}

-----------------------------------------------------------------------------
(* What the repository says of the code and the code does not do. *)

\* "a folder can never move into itself or one of its own descendants"
\* (ecm.go:169): two moves at a time can.
NoCycle == \A f \in Folders : ~OnCycle(f)
=============================================================================
