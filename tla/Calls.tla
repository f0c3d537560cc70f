---------------------------------- MODULE Calls ----------------------------------
(***************************************************************************)
(* A call over HTTP, from the client that makes it to the row it is about. *)
(* Every handler goes the same way: it decodes the call, runs one store    *)
(* operation, publishes an event once that is done (the result of Publish  *)
(* is dropped) and answers. Calls and answers get lost, the process dies   *)
(* in between, and a client that hears nothing sends its call again, so    *)
(* that an old copy may arrive after the answer. What saves the row from a *)
(* second effect differs from handler to handler: the row version that the *)
(* client sends, a unique key, a status that never comes back, or nothing. *)
(* Handlers (in module Handlers) says which it is for each of them.        *)
(*                                                                         *)
(* One row, and the calls of some clients about it.                        *)
(***************************************************************************)
EXTENDS Integers, FiniteSets, Folds

CONSTANTS
  Clients,
  SendLimit, \* bound: copies of a call
  FaultLimit, \* bound: store failures, deaths of the process, failed publishes
  IdLimit    \* bound: rows that follow each other under one key

ConstantsOK == IsFiniteSet(Clients) /\ {SendLimit, FaultLimit, IdLimit} \subseteq Nat

VARIABLES
  row,    \* the row; id 0: none
  nextId,
  others, \* rows inserted without a key
  known,  \* per client: the row as it has last seen it
  call,   \* per client: the call it makes
  sent,   \* per client: the copies it has sent
  wire,   \* per client: the copies under way
  reply,  \* per client: what the handler is about to answer
  say,    \* per client: the event that is still to be published
  heard,  \* per client: the answer
  done,   \* history, per client: how often its call took effect
  owed,   \* history, per client: effects that an event goes with
  said,   \* history, per client: events published for it
  faults

vars == <<row, nextId, others, known, call, sent, wire, reply, say, heard, done, owed, said, faults>>

NoRow == [id |-> 0, version |-> 0, status |-> 0, text |-> 0]
NewRow == [id |-> nextId, version |-> 1, status |-> 0, text |-> 0]

Acts == {"compute", "add", "key", "put", "change", "move", "remove", "toggle"}
NoCall == [act |-> "none", id |-> 0, version |-> 0, to |-> 0]
\* What is asked for, where it makes a difference.
Asked(act) == IF act \in {"put", "move"} THEN 1 .. 2 ELSE {1}

TypeOK ==
  /\ row \in [id : 0 .. IdLimit, version : Nat, status : 0 .. 2, text : 0 .. 2]
  /\ nextId \in 1 .. IdLimit + 1
  /\ others \in Nat
  /\ known \in [Clients -> [id : 0 .. IdLimit, version : Nat]]
  /\ call \in [Clients -> [act : Acts \cup {"none"}, id : 0 .. IdLimit, version : Nat, to : 0 .. 2]]
  /\ sent \in [Clients -> 0 .. SendLimit] /\ wire \in [Clients -> 0 .. SendLimit]
  /\ reply \in [Clients -> {"none", "done", "refused", "failed"}]
  /\ say \in [Clients -> BOOLEAN]
  /\ heard \in [Clients -> {"none", "done", "refused", "failed"}]
  /\ done \in [Clients -> Nat] /\ owed \in [Clients -> Nat] /\ said \in [Clients -> Nat]
  /\ faults \in 0 .. FaultLimit

Init ==
  /\ row = NoRow /\ nextId = 1 /\ others = 0
  /\ known = [c \in Clients |-> [id |-> 0, version |-> 0]]
  /\ call = [c \in Clients |-> NoCall]
  /\ sent = [c \in Clients |-> 0] /\ wire = [c \in Clients |-> 0]
  /\ reply = [c \in Clients |-> "none"] /\ say = [c \in Clients |-> FALSE]
  /\ heard = [c \in Clients |-> "none"]
  /\ done = [c \in Clients |-> 0] /\ owed = [c \in Clients |-> 0]
  /\ said = [c \in Clients |-> 0]
  /\ faults = 0

-----------------------------------------------------------------------------
(* The client and the wire *)

\* Calls about a row name it by its id, and updates the version seen.
Ask(c, act, to) ==
  /\ call[c] = NoCall
  /\ to \in Asked(act)
  /\ act \in {"change", "move", "remove"} => known[c].id # 0
  /\ call' = [call EXCEPT ![c] =
       [act |-> act, to |-> to,
        id |-> IF act \in {"change", "move", "remove"} THEN known[c].id ELSE 0,
        version |-> IF act = "change" THEN known[c].version ELSE 0]]
  /\ known' = [known EXCEPT ![c] = [id |-> 0, version |-> 0]]
  /\ sent' = [sent EXCEPT ![c] = 1] /\ wire' = [wire EXCEPT ![c] = 1]
  /\ UNCHANGED <<row, nextId, others, reply, say, heard, done, owed, said, faults>>

\* It has not heard, or heard of a failure: it sends the call once more.
Resend(c) ==
  /\ sent[c] \in 1 .. SendLimit - 1
  /\ heard[c] \in {"none", "failed"}
  /\ sent' = [sent EXCEPT ![c] = @ + 1] /\ wire' = [wire EXCEPT ![c] = @ + 1]
  /\ UNCHANGED <<row, nextId, others, known, call, reply, say, heard, done, owed, said, faults>>

-----------------------------------------------------------------------------
(* The handler around its store operation *)

\* Whether an event is published once the operation is done.
Announced == TRUE
Silent == FALSE

Takes(c, answer, event) ==
  /\ wire' = [wire EXCEPT ![c] = @ - 1]
  /\ reply' = [reply EXCEPT ![c] = answer]
  /\ say' = [say EXCEPT ![c] = event]
  /\ UNCHANGED <<known, call, sent, heard, said>>

Runs(c, act) == call[c].act = act /\ wire[c] > 0 /\ reply[c] = "none"

\* The operation takes effect. The connection may be lost after the commit: the
\* handler then answers 500 and publishes nothing.
Effect(c, event) ==
  /\ done' = [done EXCEPT ![c] = @ + 1]
  /\ owed' = IF event THEN [owed EXCEPT ![c] = @ + 1] ELSE owed
  /\ \/ Takes(c, "done", event) /\ UNCHANGED faults
     \/ faults < FaultLimit /\ faults' = faults + 1 /\ Takes(c, "failed", FALSE)

\* 404, 409 or 422.
Refusal(c) == Takes(c, "refused", FALSE) /\ UNCHANGED <<row, nextId, others, done, owed, faults>>

\* The call is malformed (400), or does not pass its validation (422).
Refuse(c) == call[c] # NoCall /\ Runs(c, call[c].act) /\ Refusal(c)

\* The store operation fails and changes nothing: 500.
Fail(c) ==
  /\ call[c] # NoCall /\ Runs(c, call[c].act)
  /\ faults < FaultLimit /\ faults' = faults + 1
  /\ Takes(c, "failed", FALSE)
  /\ UNCHANGED <<row, nextId, others, done, owed>>

\* Publish says nothing of its failure to the handler's caller.
Publish(c) ==
  /\ say[c] /\ say' = [say EXCEPT ![c] = FALSE]
  /\ \/ said' = [said EXCEPT ![c] = @ + 1] /\ UNCHANGED faults
     \/ faults < FaultLimit /\ faults' = faults + 1 /\ UNCHANGED said
  /\ UNCHANGED <<row, nextId, others, known, call, sent, wire, reply, heard, done, owed>>

\* The answer arrives or is lost.
Answer(c) ==
  /\ reply[c] # "none" /\ ~say[c]
  /\ reply' = [reply EXCEPT ![c] = "none"]
  /\ heard' \in {heard, [heard EXCEPT ![c] = reply[c]]}
  /\ UNCHANGED <<row, nextId, others, known, call, sent, wire, say, done, owed, said, faults>>

\* The process dies: answers and events that were due are gone.
Die ==
  /\ \E c \in Clients : reply[c] # "none"
  /\ faults < FaultLimit /\ faults' = faults + 1
  /\ reply' = [c \in Clients |-> "none"] /\ say' = [c \in Clients |-> FALSE]
  /\ UNCHANGED <<row, nextId, others, known, call, sent, wire, heard, done, owed, said>>

-----------------------------------------------------------------------------
(* What the store operations are, as far as a second copy is concerned *)

Write(c, event, new) ==
  /\ row' = new
  /\ nextId' = IF row.id = 0 THEN nextId + 1 ELSE nextId
  /\ UNCHANGED others
  /\ Effect(c, event)

\* Mutant: the update does not compare the row version.
AnyVersion(c) == row.id = call[c].id

SameRow(c) == row.id # 0 /\ row.id = call[c].id
SameVersion(c) == SameRow(c) /\ row.version = call[c].version

\* Mutant: the table has no unique key.
KeyUnread == TRUE

KeyIsFree == row.id = 0

Next1(text) == [row EXCEPT !.version = @ + 1, !.text = text]

\* A read shows the client the row and its version.
Look(c) ==
  /\ call[c] = NoCall
  /\ row.id # 0
  /\ known' = [known EXCEPT ![c] = [id |-> row.id, version |-> row.version]]
  /\ UNCHANGED <<row, nextId, others, call, sent, wire, reply, say, heard, done, owed, said, faults>>

\* A report, a file, a sum: computed from what is stored, and nothing is written.
Computed(c) ==
  /\ Runs(c, "compute")
  /\ Takes(c, "done", FALSE)
  /\ UNCHANGED <<row, nextId, others, done, owed, faults>>

\* An insert that no key guards.
Added(c, event) ==
  /\ Runs(c, "add")
  /\ others' = others + 1 /\ UNCHANGED <<row, nextId>>
  /\ Effect(c, event)

\* An insert under a unique key.
Keyed(c, event) ==
  /\ Runs(c, "key")
  /\ IF KeyIsFree THEN nextId <= IdLimit /\ Write(c, event, NewRow) ELSE Refusal(c)

\* INSERT ... ON CONFLICT DO UPDATE (or DO NOTHING).
Put(c, event) ==
  /\ Runs(c, "put")
  /\ IF row.id = 0
     THEN nextId <= IdLimit /\ Write(c, event, [NewRow EXCEPT !.text = call[c].to])
     ELSE Write(c, event, [row EXCEPT !.text = call[c].to])

\* UPDATE ... WHERE row_version = the one the client sent.
Changed(c, event) ==
  /\ Runs(c, "change")
  /\ IF SameVersion(c)
     THEN Write(c, event, Next1(call[c].to))
     ELSE Refusal(c)

\* UPDATE without a version: what is there is overwritten.
Overwritten(c, event) ==
  /\ Runs(c, "put")
  /\ IF row.id # 0 THEN Write(c, event, Next1(call[c].to)) ELSE Refusal(c)

\* A status that only moves on; the client sends no version.
Moved(c, event) ==
  /\ Runs(c, "move")
  /\ IF SameRow(c) /\ row.status < call[c].to
     THEN Write(c, event, [row EXCEPT !.status = call[c].to, !.version = @ + 1])
     ELSE Refusal(c)

Removed(c, event) ==
  /\ Runs(c, "remove")
  /\ IF SameRow(c) THEN Write(c, event, NoRow) ELSE Refusal(c)

\* Removes what is there, and inserts what is not.
Toggled(c, event) ==
  /\ Runs(c, "toggle")
  /\ IF row.id = 0 THEN nextId <= IdLimit /\ Write(c, event, NewRow) ELSE Write(c, event, NoRow)

-----------------------------------------------------------------------------
(* Properties *)

Total(f) == MapThenFoldSet(+, 0, LAMBDA c : f[c], LAMBDA S : CHOOSE c \in S : TRUE, Clients)
Removals == Total([c \in Clients |-> IF call[c].act \in {"remove", "toggle"} THEN done[c] ELSE 0])

\* However often a call is sent and in whatever order its copies arrive, it takes
\* effect once if the client gave a version, if the status only moves on or if the
\* row is removed, and at most once per life of the row if a key guards it; an
\* upsert leaves what the client sent unless another client has written
\* (services/store.go:105-115, documents/kernel.go:64-133, platform/errors.go:91-125).
SafeToResend ==
  \A c \in Clients :
    /\ call[c].act \in {"change", "move", "remove"} => done[c] <= 1
    /\ call[c].act = "key" => done[c] <= 1 + Removals
    /\ /\ call[c].act = "put" /\ done[c] > 0 /\ row.id # 0
       /\ \A d \in Clients \ {c} : done[d] = 0
       => row.text = call[c].to

\* What the client hears is true: done means done, and refused means not done
\* unless the refused copy was not the first.
AnswersAreTrue ==
  \A c \in Clients :
    /\ heard[c] = "done" => done[c] > 0 \/ call[c].act = "compute"
    /\ heard[c] = "refused" /\ sent[c] = 1 => done[c] = 0

\* An event is published only for what has been committed, and for each commit
\* unless something failed in between (services/handler.go:85-94).
EventsFollowCommits ==
  /\ \A c \in Clients : said[c] <= owed[c]
  /\ Total(owed) - Total(said) - Cardinality({c \in Clients : say[c]}) <= faults * Cardinality(Clients)
=============================================================================
