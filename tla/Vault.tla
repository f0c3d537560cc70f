---------------------------------- MODULE Vault ----------------------------------
(***************************************************************************)
(* The token of one owner at one provider (backend/internal/identity/      *)
(* oauth.go): it is saved, deleted and refreshed, by several requests at a *)
(* time. A refresh reads the row, exchanges its refresh token at the       *)
(* provider, which may hand out another one and forget the old, and then   *)
(* writes, if the row is the one it read. What the token gives access to,  *)
(* and the sealing, are left out.                                          *)
(***************************************************************************)
EXTENDS Naturals

CONSTANTS
  Requests,
  TokenLimit,   \* bound: refresh tokens ever handed out
  RefreshLimit, \* bound: refreshes started
  FaultLimit    \* bound: answers lost and processes that die

VARIABLES
  store,   \* "pg" or "memory"
  row,     \* the row, or NoRow
  seq,     \* rows inserted so far
  owner,   \* history, per refresh token handed out: the connection it belongs to
  live,    \* refresh tokens the provider takes
  lost,    \* history: connections whose last token nobody has written
  crashes, started, \* crashes and refreshes so far
  pc, work \* per request: what comes next; the row it read and the token it got

vars == <<store, row, seq, owner, live, lost, crashes, started, pc, work>>

NoRow == [id |-> 0, version |-> 0, token |-> 0, expired |-> FALSE, conn |-> 0]
NoWork == [read |-> NoRow, token |-> 0]
Tokens == DOMAIN owner
Fresh == 1 + IF Tokens = {} THEN 0 ELSE CHOOSE t \in Tokens : \A u \in Tokens : u <= t

TypeOK ==
  /\ store \in {"pg", "memory"}
  /\ row.token \in Tokens \cup {0} /\ row.id \in 0 .. seq
  /\ live \subseteq Tokens /\ Tokens \subseteq 1 .. TokenLimit
  /\ pc \in [Requests -> {"idle", "exchange", "write"}]

Init ==
  /\ store \in {"pg", "memory"}
  /\ row = NoRow /\ seq = 0 /\ owner = << >> /\ live = {} /\ lost = {} /\ crashes = 0
  /\ started = 0
  /\ pc = [r \in Requests |-> "idle"]
  /\ work = [r \in Requests |-> NoWork]

HandOut(t, conn) == owner' = [u \in Tokens \cup {t} |-> IF u = t THEN conn ELSE owner[u]]
Finish(r) == pc' = [pc EXCEPT ![r] = "idle"] /\ work' = [work EXCEPT ![r] = NoWork]

\* Whoever connects anew brings the first token of a connection, named after it; one
\* row per owner and provider.
SaveToken ==
  /\ Fresh <= TokenLimit
  /\ HandOut(Fresh, Fresh)
  /\ live' = live \cup {Fresh}
  /\ row' = [id      |-> IF row = NoRow THEN seq + 1 ELSE row.id,
             version |-> row.version + 1,
             token   |-> Fresh, expired |-> FALSE, conn |-> Fresh]
  /\ seq' = IF row = NoRow THEN seq + 1 ELSE seq
  /\ UNCHANGED <<store, lost, crashes, started, pc, work>>

DeleteToken ==
  /\ row # NoRow
  /\ row' = NoRow
  /\ UNCHANGED <<store, seq, owner, live, lost, crashes, started, pc, work>>

\* Time passes.
Expire ==
  /\ row # NoRow /\ ~row.expired
  /\ row' = [row EXCEPT !.expired = TRUE]
  /\ UNCHANGED <<store, seq, owner, live, lost, crashes, started, pc, work>>

\* A token that is still valid is not refreshed.
StartRefresh(r) ==
  /\ pc[r] = "idle"
  /\ row # NoRow /\ row.expired
  /\ started < RefreshLimit /\ started' = started + 1
  /\ pc' = [pc EXCEPT ![r] = "exchange"]
  /\ work' = [work EXCEPT ![r] = [read |-> row, token |-> 0]]
  /\ UNCHANGED <<store, row, seq, owner, live, lost, crashes>>

\* The provider, which hands out a new refresh token or lets the old one stand.
Exchange(r) ==
  LET old == work[r].read.token
  IN /\ pc[r] = "exchange" /\ old \in live
     /\ pc' = [pc EXCEPT ![r] = "write"]
     /\ \/ /\ work' = [work EXCEPT ![r].token = old]
           /\ UNCHANGED <<owner, live>>
        \/ /\ Fresh <= TokenLimit
           /\ HandOut(Fresh, owner[old])
           /\ live' = (live \ {old}) \cup {Fresh}
           /\ work' = [work EXCEPT ![r].token = Fresh]
     /\ UNCHANGED <<store, row, seq, lost, crashes, started>>

\* The provider refuses, or cannot be reached.
ExchangeFails(r) ==
  /\ pc[r] = "exchange"
  /\ Finish(r)
  /\ UNCHANGED <<store, row, seq, owner, live, lost, crashes, started>>

\* Mutant: no optimistic lock.
SameId(r) == row # NoRow /\ row.id = work[r].read.id

SameVersion(r) == row # NoRow /\ row.version = work[r].read.version

\* The row that was read: by its id in the database, by its owner in memory.
SameRow(r) == SameVersion(r) /\ (store = "pg" => row.id = work[r].read.id)

\* A token that is not written is lost with the answer that brought it.
Loses(r) == IF work[r].token \in live THEN lost \cup {owner[work[r].token]} ELSE lost

\* The new token, or a version conflict.
RotateRow(r) ==
  /\ pc[r] = "write"
  /\ \/ /\ SameRow(r)
        /\ row' = [row EXCEPT !.token = work[r].token, !.expired = FALSE, !.version = @ + 1]
        /\ UNCHANGED lost
     \/ /\ ~SameRow(r)
        /\ lost' = Loses(r)
        /\ UNCHANGED row
  /\ Finish(r)
  /\ UNCHANGED <<store, seq, owner, live, crashes, started>>

\* The answer or the process is lost after the exchange.
Die(r) ==
  /\ pc[r] = "write" /\ crashes < FaultLimit
  /\ crashes' = crashes + 1
  /\ lost' = Loses(r)
  /\ Finish(r)
  /\ UNCHANGED <<store, row, seq, owner, live, started>>

Next ==
  \/ SaveToken \/ DeleteToken \/ Expire
  \/ \E r \in Requests :
       StartRefresh(r) \/ Exchange(r) \/ ExchangeFails(r) \/ RotateRow(r) \/ Die(r)

Spec == Init /\ [][Next]_vars

-----------------------------------------------------------------------------
(* Properties *)

OfItsConnection == row # NoRow => owner[row.token] = row.conn

\* A refresh never writes the token of an earlier connection over that of a later one
\* (identity/oauth.go:353-378).
RotatesItsOwn == store = "pg" => OfItsConnection

\* The stored token is one the provider takes, while nobody is between the exchange
\* and the write, unless a token of its connection was lost there or by a conflict
\* (identity/oauth.go:320-378).
StaysUsable ==
  (store = "pg" /\ row # NoRow /\ row.token \notin live
     /\ \A r \in Requests : pc[r] # "write")
    => row.conn \in lost

-----------------------------------------------------------------------------
(* What the repository says of the code and the code does not do. *)

\* "same contract" (identity/oauth.go:379): in memory a row that was deleted and saved
\* anew is taken for the one that was read.
SameContract == OfItsConnection
=============================================================================
