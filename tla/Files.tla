---------------------------------- MODULE Files ----------------------------------
(***************************************************************************)
(* One file of the document store (backend/internal/documentsvc): its      *)
(* bytes in the object storage, its history in ferp_file_versions and its  *)
(* current revision in ferp_files. An upload or a restoration writes all   *)
(* three one after the other, without a transaction; the storage key of a  *)
(* revision is made of its number.                                         *)
(***************************************************************************)
EXTENDS Integers, FiniteSets

CONSTANTS
  Requests,
  Contents,     \* what the bytes of a revision can be, its checksum included
  Missing,      \* no bytes
  VersionLimit  \* bound: revisions of the file

ConstantsOK == Missing \notin Contents /\ VersionLimit \in Nat \ {0}

VARIABLES
  current,   \* ferp_files: the number and the checksum of the revision it names
  history,   \* ferp_file_versions: number -> checksum
  stored,    \* object storage: number of the key -> bytes
  contested, \* history: the numbers that two requests have written bytes for
  indexed,   \* ferp_file_texts: the bytes the search finds
  pc, work   \* per request: the step that comes next, what it has read

vars == <<current, history, stored, contested, indexed, pc, work>>

Numbers == 1 .. VersionLimit

NoWork == [next |-> 0, bytes |-> Missing]

TypeOK ==
  /\ current \in [number : Numbers, sum : Contents]
  /\ DOMAIN history \subseteq Numbers /\ \A n \in DOMAIN history : history[n] \in Contents
  /\ stored \in [Numbers -> Contents \cup {Missing}]
  /\ contested \subseteq Numbers
  /\ indexed \in Contents
  /\ pc \in [Requests -> {"idle", "put", "version", "delete", "current", "index"}]
  /\ work \in [Requests -> [next : Numbers \cup {0}, bytes : Contents \cup {Missing}]]

\* The first revision is there. Its key holds the time, so that nobody shares it.
Init ==
  \E c \in Contents :
    /\ current = [number |-> 1, sum |-> c]
    /\ history = [n \in {1} |-> c]
    /\ stored = [n \in Numbers |-> IF n = 1 THEN c ELSE Missing]
    /\ contested = {}
    /\ indexed = c
    /\ pc = [r \in Requests |-> "idle"]
    /\ work = [r \in Requests |-> NoWork]

Goto(r, label) == pc' = [pc EXCEPT ![r] = label] /\ UNCHANGED work
Finish(r) == pc' = [pc EXCEPT ![r] = "idle"] /\ work' = [work EXCEPT ![r] = NoWork]

Revise(r, bytes) ==
  /\ pc[r] = "idle"
  /\ current.number < VersionLimit
  /\ work' = [work EXCEPT ![r] = [next |-> current.number + 1, bytes |-> bytes]]
  /\ pc' = [pc EXCEPT ![r] = "put"]
  /\ UNCHANGED <<current, history, stored, contested, indexed>>

\* UploadEx finds a file of that name in the folder.
StartUpload(r, c) == Revise(r, c)

\* RestoreVersion reads the bytes of an older revision; there may be none.
StartRestore(r, n) ==
  /\ n \in DOMAIN history /\ n # current.number
  /\ stored[n] # Missing
  /\ Revise(r, stored[n])

Key(r) == work[r].next

PutBytes(r) ==
  /\ pc[r] = "put"
  /\ stored' = [stored EXCEPT ![Key(r)] = work[r].bytes]
  /\ contested' = IF stored[work[r].next] # Missing \/ work[r].next \in DOMAIN history
                  THEN contested \cup {work[r].next} ELSE contested
  /\ Goto(r, "version")
  /\ UNCHANGED <<current, history, indexed>>

\* Mutant: an existing revision of that number is overwritten.
TakenNever(r) == work[r].next \notin Numbers

\* The number of a revision is unique.
Taken(r) == work[r].next \in DOMAIN history

CreateVersion(r) ==
  /\ pc[r] = "version"
  /\ IF Taken(r)
     THEN Goto(r, "delete") /\ UNCHANGED history
     ELSE /\ history' = [n \in DOMAIN history \cup {work[r].next} |->
                           IF n = work[r].next THEN work[r].bytes ELSE history[n]]
          /\ Goto(r, "current")
  /\ UNCHANGED <<current, stored, contested, indexed>>

\* The bytes under the key go, whoever put them there last.
DeleteBytes(r) ==
  /\ pc[r] = "delete"
  /\ stored' = [stored EXCEPT ![Key(r)] = Missing]
  /\ Finish(r)
  /\ UNCHANGED <<current, history, contested, indexed>>

UpdateCurrent(r) ==
  /\ pc[r] = "current"
  /\ current' = [number |-> work[r].next, sum |-> work[r].bytes]
  /\ Goto(r, "index")
  /\ UNCHANGED <<history, stored, contested, indexed>>

UpsertFileText(r) ==
  /\ pc[r] = "index"
  /\ indexed' = work[r].bytes
  /\ Finish(r)
  /\ UNCHANGED <<current, history, stored, contested>>

\* The process dies or a call fails: what was written stays.
Crash(r) ==
  /\ pc[r] # "idle"
  /\ Finish(r)
  /\ UNCHANGED <<current, history, stored, contested, indexed>>

Next == \E r \in Requests :
  \/ \E c \in Contents : StartUpload(r, c)
  \/ \E n \in Numbers : StartRestore(r, n)
  \/ PutBytes(r) \/ CreateVersion(r) \/ DeleteBytes(r)
  \/ UpdateCurrent(r) \/ UpsertFileText(r)
  \/ Crash(r)

Spec == Init /\ [][Next]_vars

-----------------------------------------------------------------------------
(* Properties *)

\* The history is one line: it runs to the current revision, or to one beyond it
\* that is about to become current or was left behind by a crash, and the current
\* revision is the one the history has under its number (ecm.go:274-275).
CurrentFollowsHistory ==
  /\ DOMAIN history \in {1 .. current.number, 1 .. current.number + 1}
  /\ current.sum = history[current.number]

\* The bytes of a revision are those it was made of, unless a second request
\* wrote under the same number: then they may be the other's, or gone.
BytesLastUnlessContested ==
  \A n \in DOMAIN history \ contested : stored[n] = history[n]

-----------------------------------------------------------------------------
(* What the repository says of the code and the code does not do. *)

\* "byte history is append-only" (ecm.go:274-275): the loser of two uploads deletes
\* the bytes of the winner.
BytesLast == \A n \in DOMAIN history : stored[n] = history[n]

\* "Re-uploads to the same (entity, folder, name) append a new version row"
\* (ecm.go:273-274): none of them does once a request has died between the version
\* row and the current pointer, which every later one reads its number from.
NextIsFree ==
  (\A r \in Requests : pc[r] = "idle") => current.number + 1 \notin DOMAIN history
=============================================================================
