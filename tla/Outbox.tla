--------------------------------- MODULE Outbox ---------------------------------
(***************************************************************************)
(* The event outbox (backend/internal/platform/trigger/outbox.go): a       *)
(* transaction stages its events as rows of ferp_outbox, and the relays of *)
(* all replicas drain them: claim rows, publish each on the bus, mark them *)
(* delivered and commit. A relay that dies gives its claims back.          *)
(*                                                                         *)
(* Emit is an operator of the transaction that stages the event (Claims);  *)
(* the relay's steps are actions here.                                     *)
(***************************************************************************)
EXTENDS Integers, FiniteSets, Functions, Bags

CONSTANTS
  Relays,    \* replicas that run the relay
  RelayBatch, \* rows of one run (100)
  FaultLimit  \* bound: runs and requests that die or fail

VARIABLES
  outbox,    \* committed rows of ferp_outbox
  claim,     \* per relay: the ids it has locked and not published
  sent,      \* per relay: the ids of its run that are published and locked
  published, \* history: the bag of the ids put on the bus
  aborted,   \* history: the bag of the ids whose run rolled back after that
  faults     \* bound

outboxVars == <<outbox, claim, sent, published, aborted, faults>>

Row == [id : Nat, object : Nat, delivered : BOOLEAN]

OutboxType ==
  /\ outbox \subseteq Row
  /\ claim \in [Relays -> SUBSET Nat]
  /\ sent \in [Relays -> SUBSET Nat]
  /\ IsABag(published) /\ IsABag(aborted)
  /\ faults \in 0 .. FaultLimit

OutboxInit ==
  /\ claim = [w \in Relays |-> {}]
  /\ sent = [w \in Relays |-> {}]
  /\ published = EmptyBag
  /\ aborted = EmptyBag
  /\ faults = 0

\* The row Emit inserts; it exists once its transaction commits.
Emit(id, object) == outbox' = outbox \cup {[id |-> id, object |-> object, delivered |-> FALSE]}

Fault == faults < FaultLimit /\ faults' = faults + 1

Held(w) == claim[w] \cup sent[w]

\* Mutant: without SKIP LOCKED, or outside a transaction, rows are shared.
FreeRowsShared == {o.id : o \in {x \in outbox : ~x.delivered}}

\* FOR UPDATE SKIP LOCKED: undelivered rows that no relay holds.
FreeRows == {o.id : o \in {x \in outbox : ~x.delivered}} \ UNION {Held(v) : v \in Relays}

\* SELECT ... ORDER BY id LIMIT: the oldest free rows, or all of them.
ClaimRows(w) ==
  /\ Held(w) = {}
  /\ FreeRows # {}
  /\ \E batch \in SUBSET FreeRows :
       /\ \/ Cardinality(batch) = RelayBatch
          \/ Cardinality(batch) < RelayBatch /\ batch = FreeRows
       /\ \A i \in batch, j \in FreeRows \ batch : i < j
       /\ claim' = [claim EXCEPT ![w] = batch]
  /\ UNCHANGED <<outbox, sent, published, aborted, faults>>

\* Row by row, in the order of the ids.
Publish(w) ==
  /\ \E i \in claim[w] :
       /\ \A j \in claim[w] : i <= j
       /\ published' = published (+) SetToBag({i})
       /\ sent' = [sent EXCEPT ![w] = @ \cup {i}]
       /\ claim' = [claim EXCEPT ![w] = @ \ {i}]
  /\ UNCHANGED <<outbox, aborted, faults>>

BatchPublished(w) == claim[w] = {} /\ sent[w] # {}

\* UPDATE ... SET delivered_at, and the commit that unlocks the rows.
MarkDelivered(w) ==
  /\ BatchPublished(w)
  /\ outbox' = {IF o.id \in Held(w) THEN [o EXCEPT !.delivered = TRUE] ELSE o : o \in outbox}
  /\ claim' = [claim EXCEPT ![w] = {}]
  /\ sent' = [sent EXCEPT ![w] = {}]
  /\ UNCHANGED <<published, aborted, faults>>

\* Mutant: a row is marked when it is claimed, so what a dead relay held is lost.
GiveBackNothing(w) ==
  {IF o.id \in Held(w) THEN [o EXCEPT !.delivered = TRUE] ELSE o : o \in outbox}

\* The rollback of a run leaves every row as it was.
GiveBack(w) == outbox

\* The process dies, or Publish or a statement fails.
Abort(w) ==
  /\ Held(w) # {}
  /\ Fault
  /\ outbox' = GiveBack(w)
  /\ aborted' = aborted (+) SetToBag(sent[w])
  /\ claim' = [claim EXCEPT ![w] = {}]
  /\ sent' = [sent EXCEPT ![w] = {}]
  /\ UNCHANGED published

-----------------------------------------------------------------------------
(* Properties *)

\* "A crash between commit and publish cannot lose an event"
\* (outbox.go:98-103): a row is marked delivered only once it is on the bus.
MarkedWasPublished == \A o \in outbox : o.delivered => BagIn(o.id, published)

Copies(id, bag) == IF BagIn(id, bag) THEN bag[id] ELSE 0

\* Redelivery happens only after a run that published and rolled back: two
\* relays never publish one row because both claimed it (outbox.go:152-155).
RepeatsNeedAnAbort == \A o \in outbox : Copies(o.id, published) <= 1 + Copies(o.id, aborted)
=============================================================================
