---------------------------- MODULE BackofficeProofs ----------------------------
(***************************************************************************)
(* Proofs about the workshop and the offices: what MCBackoffice checks on  *)
(* a small instance of the token vault, the campaign, the file, the folder *)
(* tree, the order and its schedules, the HTTP interface and the CSV       *)
(* exchange holds for every value of their constants. Each component has   *)
(* an invariant of its own, kept by its own steps; the steps of the others *)
(* leave its variables alone.                                              *)
(***************************************************************************)
EXTENDS MCBackoffice, Sums, TLAPS

-----------------------------------------------------------------------------
(* The vault: a stored token is usable. *)

VaultRow == [id : Nat, version : Nat, token : Nat, expired : BOOLEAN, conn : Nat]
VaultWork == [read : VaultRow, token : Nat]
There == token # Safe!NoRow
Refreshing(r) == vaultPc[r] \in {"exchange", "write"}
Numbered(S) == \E n \in Nat : S = 1 .. n

\* Refresh tokens are numbered as they are handed out; what is stored and what is
\* being refreshed has been handed out.
VaultType ==
  /\ Numbered(DOMAIN owner) /\ owner \in [DOMAIN owner -> Nat]
  /\ seq \in Nat
  /\ token \in VaultRow
  /\ There => token.id \in 1 .. seq /\ token.token \in DOMAIN owner
  /\ live \subseteq DOMAIN owner
  /\ vaultPc \in [Requests -> {"idle", "exchange", "write"}]
  /\ vaultWork \in [Requests -> VaultWork]
  /\ \A r \in Requests :
       /\ Refreshing(r) => /\ vaultWork[r].read.token \in DOMAIN owner
                           /\ vaultWork[r].read.id \in 1 .. seq
       /\ vaultPc[r] = "write" => vaultWork[r].token \in DOMAIN owner

\* A version of a row is one token of one connection, the one a refresh has read.
ConnInv ==
  /\ There => owner[token.token] = token.conn
  /\ \A r \in Requests : Refreshing(r) =>
       LET read == vaultWork[r].read
       IN /\ owner[read.token] = read.conn
          /\ token.id = read.id => read.version <= token.version
          /\ token.id = read.id /\ token.version = read.version =>
               token.token = read.token /\ token.conn = read.conn
          /\ vaultPc[r] = "write" => owner[vaultWork[r].token] = read.conn

\* A token that a refresh was handed is its own until it writes it.
HandedInv ==
  \A r \in Requests : vaultPc[r] = "write" /\ vaultWork[r].token # vaultWork[r].read.token =>
    /\ vaultWork[r].token \in live
    /\ token.token # vaultWork[r].token
    /\ \A q \in Requests :
         /\ Refreshing(q) => vaultWork[q].read.token # vaultWork[r].token
         /\ vaultPc[q] = "write" /\ q # r => vaultWork[q].token # vaultWork[r].token

\* The connection that is stored has a token the provider takes, in the row or in
\* the hands of a request, or has lost it.
Alive(conn) ==
  \E r \in Requests : /\ vaultPc[r] = "write" /\ vaultWork[r].token \in live
                      /\ owner[vaultWork[r].token] = conn
UsableInv == There => token.token \in live \/ token.conn \in lost \/ Alive(token.conn)

VaultInv == VaultType /\ (vaultStore = "pg" => ConnInv /\ HandedInv /\ UsableInv)

LEMMA FreshIs ==
  ASSUME VaultType
  PROVE  \E n \in Nat : DOMAIN owner = 1 .. n /\ Safe!Fresh = n + 1
<1>1. PICK n \in Nat : DOMAIN owner = 1 .. n
  BY DEF VaultType, Numbered
<1>2. CASE n = 0
  <2>1. DOMAIN owner = {}
    BY <1>1, <1>2
  <2> QED
    BY <1>1, <1>2, <2>1 DEF Safe!Fresh, Safe!Tokens
<1>3. CASE n # 0
  <2>1. n \in DOMAIN owner /\ \A u \in DOMAIN owner : u <= n
    BY <1>1, <1>3
  <2>2. \A t \in DOMAIN owner : (\A u \in DOMAIN owner : u <= t) => t = n
    BY <1>1, <2>1
  <2>3. (CHOOSE t \in DOMAIN owner : \A u \in DOMAIN owner : u <= t) = n
    BY <2>1, <2>2
  <2> QED
    BY <1>1, <2>1, <2>3 DEF Safe!Fresh, Safe!Tokens
<1> QED
  BY <1>2, <1>3

LEMMA VaultInit == Safe!Init => VaultInv
<1> SUFFICES ASSUME Safe!Init PROVE VaultInv
  OBVIOUS
<1>1. DOMAIN owner = {} /\ {} = 1 .. 0
  BY DEF Safe!Init
<1>2. Numbered(DOMAIN owner) /\ owner \in [DOMAIN owner -> Nat]
  BY <1>1 DEF Safe!Init, Numbered
<1> QED
  BY <1>2 DEF Safe!Init, Safe!NoRow, Safe!NoWork, VaultInv, VaultType, VaultRow, VaultWork, There,
              Refreshing, ConnInv, HandedInv, UsableInv

\* What a refresh token that is handed out does to those that were before.
LEMMA HandedOut ==
  ASSUME VaultType, NEW conn \in Nat, Safe!HandOut(Safe!Fresh, conn)
  PROVE  /\ Safe!Fresh \in Nat \ {0} /\ Safe!Fresh \notin DOMAIN owner
         /\ DOMAIN owner' = DOMAIN owner \cup {Safe!Fresh} /\ Numbered(DOMAIN owner')
         /\ owner' \in [DOMAIN owner' -> Nat] /\ owner'[Safe!Fresh] = conn
         /\ \A t \in DOMAIN owner : owner'[t] = owner[t]
<1>1. PICK n \in Nat : DOMAIN owner = 1 .. n /\ Safe!Fresh = n + 1
  BY FreshIs
<1>2. (1 .. n) \cup {n + 1} = 1 .. n + 1 /\ n + 1 \notin 1 .. n
  OBVIOUS
<1>3. DOMAIN owner' = DOMAIN owner \cup {Safe!Fresh}
  BY DEF Safe!HandOut, Safe!Tokens
<1>4. Numbered(DOMAIN owner')
  BY <1>1, <1>2, <1>3 DEF Numbered
<1> QED
  BY <1>1, <1>2, <1>3, <1>4 DEF Safe!HandOut, Safe!Tokens, VaultType

LEMMA SaveTokenInv == ASSUME VaultInv, Safe!SaveToken PROVE VaultInv'
<1> DEFINE t == Safe!Fresh
<1>1. /\ t \in Nat \ {0} /\ t \notin DOMAIN owner
      /\ DOMAIN owner' = DOMAIN owner \cup {t} /\ Numbered(DOMAIN owner')
      /\ owner' \in [DOMAIN owner' -> Nat] /\ owner'[t] = t
      /\ \A u \in DOMAIN owner : owner'[u] = owner[u]
  <2>1. Safe!Fresh \in Nat
    BY FreshIs DEF VaultInv
  <2> QED
    BY <2>1, HandedOut DEF VaultInv, Safe!SaveToken
<1>2. /\ live' = live \cup {t} /\ vaultPc' = vaultPc /\ vaultWork' = vaultWork
      /\ vaultStore' = vaultStore /\ lost' = lost
      /\ token'.token = t /\ token'.conn = t /\ token'.version = token.version + 1
      /\ token'.id = IF There THEN token.id ELSE seq + 1
      /\ seq' = IF There THEN seq ELSE seq + 1
  BY DEF Safe!SaveToken, There
<1>3. token' \in VaultRow
  BY <1>1 DEF Safe!SaveToken, VaultInv, VaultType, VaultRow, There
<1> HIDE DEF t
<1>4. VaultType'
  BY <1>1, <1>2, <1>3 DEF VaultInv, VaultType, There, Refreshing, VaultRow, Safe!NoRow
<1>5. ASSUME vaultStore = "pg" PROVE ConnInv'
  BY <1>1, <1>2, <1>3, <1>5 DEF VaultInv, VaultType, ConnInv, There, Refreshing, VaultRow, VaultWork
<1>6. ASSUME vaultStore = "pg" PROVE HandedInv'
  BY <1>1, <1>2, <1>6 DEF VaultInv, VaultType, HandedInv, Refreshing
<1>7. UsableInv'
  BY <1>1, <1>2 DEF UsableInv
<1> QED
  BY <1>2, <1>4, <1>5, <1>6, <1>7 DEF VaultInv

LEMMA RestInv ==
  ASSUME VaultInv, Safe!DeleteToken \/ Safe!Expire \/ \E r \in Requests : Safe!ExchangeFails(r)
  PROVE  VaultInv'
<1>1. CASE Safe!DeleteToken
  <2>1. /\ token' = Safe!NoRow /\ ~ There'
        /\ UNCHANGED <<vaultStore, seq, owner, live, lost, vaultPc, vaultWork>>
    BY <1>1 DEF Safe!DeleteToken, There
  <2>2. token' \in VaultRow /\ token'.id = 0 /\ token'.token = 0
    BY <2>1 DEF Safe!NoRow, VaultRow
  <2>3. VaultType'
    BY <2>1, <2>2 DEF VaultInv, VaultType, Refreshing
  <2>4. 0 \notin DOMAIN owner
    BY DEF VaultInv, VaultType, Numbered
  <2>5. ASSUME vaultStore = "pg" PROVE ConnInv'
    <3>1. \A r \in Requests : Refreshing(r) => vaultWork[r].read.id # 0
      BY DEF VaultInv, VaultType
    <3> QED
      BY <2>1, <2>2, <2>5, <3>1 DEF VaultInv, ConnInv, Refreshing
  <2>6. ASSUME vaultStore = "pg" PROVE HandedInv'
    BY <2>1, <2>2, <2>4, <2>6 DEF VaultInv, VaultType, HandedInv, Refreshing
  <2> QED
    BY <2>1, <2>3, <2>5, <2>6 DEF VaultInv, UsableInv
<1>2. CASE Safe!Expire
  <2>1. /\ token' = [token EXCEPT !.expired = TRUE] /\ There
        /\ UNCHANGED <<vaultStore, seq, owner, live, lost, vaultPc, vaultWork>>
    BY <1>2 DEF Safe!Expire, There
  <2>2. /\ token' \in VaultRow /\ token'.id = token.id /\ token'.version = token.version
        /\ token'.token = token.token /\ token'.conn = token.conn
    BY <2>1 DEF VaultInv, VaultType, VaultRow
  <2> QED
    BY <2>1, <2>2 DEF VaultInv, VaultType, There, Refreshing, ConnInv, HandedInv, UsableInv, Alive
<1>3. ASSUME NEW r \in Requests, Safe!ExchangeFails(r) PROVE VaultInv'
  <2>1. /\ vaultPc[r] = "exchange"
        /\ vaultPc' = [vaultPc EXCEPT ![r] = "idle"]
        /\ vaultWork' = [vaultWork EXCEPT ![r] = Safe!NoWork]
        /\ UNCHANGED <<vaultStore, token, seq, owner, live, lost>>
    BY <1>3 DEF Safe!ExchangeFails, Safe!Finish
  <2>2. Safe!NoWork \in VaultWork
    BY DEF Safe!NoWork, Safe!NoRow, VaultWork, VaultRow
  <2>3. VaultType'
    BY <2>1, <2>2 DEF VaultInv, VaultType, There, Refreshing
  <2>4. \A q \in Requests : q # r => vaultPc'[q] = vaultPc[q] /\ vaultWork'[q] = vaultWork[q]
    BY <2>1 DEF VaultInv, VaultType
  <2>5. vaultPc'[r] = "idle"
    BY <2>1 DEF VaultInv, VaultType
  <2>6. ASSUME vaultStore = "pg" PROVE ConnInv' /\ HandedInv'
    BY <2>1, <2>4, <2>5, <2>6 DEF VaultInv, There, Refreshing, ConnInv, HandedInv
  <2>7. ASSUME vaultStore = "pg" PROVE UsableInv'
    BY <2>1, <2>4, <2>5, <2>7 DEF VaultInv, There, UsableInv, Alive
  <2> QED
    BY <2>1, <2>3, <2>6, <2>7 DEF VaultInv
<1> QED
  BY <1>1, <1>2, <1>3

LEMMA StartRefreshInv ==
  ASSUME VaultInv, NEW r \in Requests, Safe!StartRefresh(r) PROVE VaultInv'
<1>1. /\ vaultPc[r] = "idle" /\ There
      /\ vaultPc' = [vaultPc EXCEPT ![r] = "exchange"]
      /\ vaultWork' = [vaultWork EXCEPT ![r] = [read |-> token, token |-> 0]]
      /\ UNCHANGED <<vaultStore, token, seq, owner, live, lost>>
  BY DEF Safe!StartRefresh, There
<1>2. /\ vaultPc'[r] = "exchange" /\ vaultWork'[r].read = token
      /\ \A q \in Requests : q # r => vaultPc'[q] = vaultPc[q] /\ vaultWork'[q] = vaultWork[q]
  BY <1>1 DEF VaultInv, VaultType
<1>3. [read |-> token, token |-> 0] \in VaultWork
  BY DEF VaultInv, VaultType, VaultWork
<1>4. VaultType'
  BY <1>1, <1>2, <1>3 DEF VaultInv, VaultType, There, Refreshing
<1>5. ASSUME vaultStore = "pg" PROVE ConnInv'
  BY <1>1, <1>2, <1>5 DEF VaultInv, VaultType, VaultRow, There, Refreshing, ConnInv
<1>6. ASSUME vaultStore = "pg" PROVE HandedInv'
  BY <1>1, <1>2, <1>6 DEF VaultInv, Refreshing, HandedInv
<1>7. ASSUME vaultStore = "pg" PROVE UsableInv'
  BY <1>1, <1>2, <1>7 DEF VaultInv, There, UsableInv, Alive
<1> QED
  BY <1>1, <1>4, <1>5, <1>6, <1>7 DEF VaultInv

\* The provider lets the old token stand.
LEMMA ExchangeKeeps ==
  ASSUME VaultInv, NEW r \in Requests, vaultPc[r] = "exchange",
         vaultPc' = [vaultPc EXCEPT ![r] = "write"],
         vaultWork' = [vaultWork EXCEPT ![r].token = vaultWork[r].read.token],
         UNCHANGED <<vaultStore, token, seq, owner, live, lost>>
  PROVE  VaultInv'
<1>1. /\ vaultPc'[r] = "write" /\ vaultWork'[r].read = vaultWork[r].read
      /\ vaultWork'[r].token = vaultWork[r].read.token
      /\ \A q \in Requests : q # r => vaultPc'[q] = vaultPc[q] /\ vaultWork'[q] = vaultWork[q]
      /\ vaultWork' \in [Requests -> VaultWork]
  BY DEF VaultInv, VaultType, VaultWork, VaultRow
<1>4. VaultType'
  BY <1>1 DEF VaultInv, VaultType, There, Refreshing
<1>5. ASSUME vaultStore = "pg" PROVE ConnInv'
  BY <1>1, <1>5 DEF VaultInv, VaultType, There, Refreshing, ConnInv
<1>6. ASSUME vaultStore = "pg" PROVE HandedInv'
  BY <1>1, <1>6 DEF VaultInv, Refreshing, HandedInv
<1>7. ASSUME vaultStore = "pg" PROVE UsableInv'
  BY <1>1, <1>7 DEF VaultInv, There, UsableInv, Alive
<1> QED
  BY <1>4, <1>5, <1>6, <1>7 DEF VaultInv

\* The provider hands out another one and forgets the old.
LEMMA ExchangeRotates ==
  ASSUME VaultInv, NEW r \in Requests, vaultPc[r] = "exchange",
         NEW old, old = vaultWork[r].read.token, old \in live, NEW t, t = Safe!Fresh,
         Safe!HandOut(t, owner[old]), live' = (live \ {old}) \cup {t},
         vaultPc' = [vaultPc EXCEPT ![r] = "write"],
         vaultWork' = [vaultWork EXCEPT ![r].token = t],
         UNCHANGED <<vaultStore, token, seq, lost>>
  PROVE  VaultInv'
<1>1. owner[old] \in Nat /\ old \in DOMAIN owner
  BY DEF VaultInv, VaultType
<1>2. /\ t \in Nat \ {0} /\ t \notin DOMAIN owner
      /\ DOMAIN owner' = DOMAIN owner \cup {t} /\ Numbered(DOMAIN owner')
      /\ owner' \in [DOMAIN owner' -> Nat] /\ owner'[t] = owner[old]
      /\ \A u \in DOMAIN owner : owner'[u] = owner[u]
  BY <1>1, HandedOut DEF VaultInv
<1>3. /\ vaultPc'[r] = "write" /\ vaultWork'[r].read = vaultWork[r].read
      /\ vaultWork'[r].token = t
      /\ \A q \in Requests : q # r => vaultPc'[q] = vaultPc[q] /\ vaultWork'[q] = vaultWork[q]
      /\ vaultWork' \in [Requests -> VaultWork]
  BY <1>2 DEF VaultInv, VaultType, VaultWork, VaultRow
<1>4. VaultType'
  BY <1>2, <1>3 DEF VaultInv, VaultType, There, Refreshing
<1>5. ASSUME vaultStore = "pg" PROVE ConnInv'
  BY <1>1, <1>2, <1>3, <1>5 DEF VaultInv, VaultType, There, Refreshing, ConnInv
<1>6. ASSUME vaultStore = "pg" PROVE HandedInv'
  <2> SUFFICES ASSUME NEW p \in Requests, vaultPc'[p] = "write",
                      vaultWork'[p].token # vaultWork'[p].read.token
               PROVE  /\ vaultWork'[p].token \in live'
                      /\ token'.token # vaultWork'[p].token
                      /\ \A q \in Requests :
                           /\ Refreshing(q)' => vaultWork'[q].read.token # vaultWork'[p].token
                           /\ vaultPc'[q] = "write" /\ q # p =>
                                vaultWork'[q].token # vaultWork'[p].token
    BY DEF HandedInv
  <2>1. \A q \in Requests : Refreshing(q)' =>
          Refreshing(q) /\ vaultWork'[q].read.token = vaultWork[q].read.token
            /\ vaultWork[q].read.token \in DOMAIN owner
    BY <1>3 DEF Refreshing, VaultInv, VaultType
  <2>2. token.token # t
    BY <1>2 DEF VaultInv, VaultType, There, Safe!NoRow
  <2>3. CASE p = r
    BY <1>2, <1>3, <2>1, <2>2, <2>3 DEF VaultInv, VaultType
  <2>4. CASE p # r
    <3>1. vaultWork[p].token # old
      BY <1>3, <1>6, <2>4 DEF VaultInv, HandedInv, Refreshing
    <3>2. vaultWork[p].token # t
      BY <1>2, <1>3, <2>4 DEF VaultInv, VaultType
    <3> QED
      BY <1>3, <1>6, <2>1, <2>4, <3>1, <3>2 DEF VaultInv, HandedInv
  <2> QED
    BY <2>3, <2>4
<1>7. ASSUME vaultStore = "pg" PROVE UsableInv'
  <2> SUFFICES ASSUME There PROVE token.token \in live' \/ token.conn \in lost \/ Alive(token.conn)'
    BY DEF UsableInv, There
  <2>1. owner[old] = token.conn => Alive(token.conn)'
    BY <1>2, <1>3 DEF Alive
  <2>2. CASE token.token \in live
    BY <1>7, <2>1, <2>2 DEF VaultInv, ConnInv
  <2>3. ASSUME NEW q \in Requests, vaultPc[q] = "write", vaultWork[q].token \in live,
               owner[vaultWork[q].token] = token.conn
        PROVE  Alive(token.conn)'
    <3>1. q # r /\ vaultWork[q].token \in DOMAIN owner
      BY <2>3 DEF VaultInv, VaultType
    <3>2. CASE vaultWork[q].token = old
      BY <2>1, <2>3, <3>2
    <3>3. CASE vaultWork[q].token # old
      BY <1>2, <1>3, <2>3, <3>1, <3>3 DEF Alive
    <3> QED
      BY <3>2, <3>3
  <2> QED
    BY <1>7, <2>2, <2>3 DEF VaultInv, UsableInv, Alive
<1> QED
  BY <1>4, <1>5, <1>6, <1>7 DEF VaultInv

\* A request ends that has written its token or has lost it.
LEMMA WriteEnds ==
  ASSUME VaultInv, NEW r \in Requests, vaultPc[r] = "write", Safe!Finish(r),
         UNCHANGED <<vaultStore, seq, owner, live>>
  PROVE  /\ vaultPc' \in [Requests -> {"idle", "exchange", "write"}]
         /\ vaultWork' \in [Requests -> VaultWork] /\ vaultPc'[r] = "idle"
         /\ \A q \in Requests : q # r => vaultPc'[q] = vaultPc[q] /\ vaultWork'[q] = vaultWork[q]
<1>1. Safe!NoWork \in VaultWork
  BY DEF Safe!NoWork, Safe!NoRow, VaultWork, VaultRow
<1> QED
  BY <1>1 DEF Safe!Finish, VaultInv, VaultType

LEMMA TokenLost ==
  ASSUME VaultInv, NEW r \in Requests, vaultPc[r] = "write", Safe!Finish(r),
         lost' = Safe!Loses(r), UNCHANGED <<vaultStore, token, seq, owner, live>>
  PROVE  VaultInv'
<1>1. /\ vaultPc' \in [Requests -> {"idle", "exchange", "write"}]
      /\ vaultWork' \in [Requests -> VaultWork] /\ vaultPc'[r] = "idle"
      /\ \A q \in Requests : q # r => vaultPc'[q] = vaultPc[q] /\ vaultWork'[q] = vaultWork[q]
  BY WriteEnds
<1>2. VaultType'
  BY <1>1 DEF VaultInv, VaultType, There, Refreshing
<1>3. ASSUME vaultStore = "pg" PROVE ConnInv' /\ HandedInv'
  BY <1>1, <1>3 DEF VaultInv, There, Refreshing, ConnInv, HandedInv
<1>4. ASSUME vaultStore = "pg" PROVE UsableInv'
  <2>1. lost \subseteq lost'
    BY DEF Safe!Loses
  <2>2. vaultWork[r].token \in live => owner[vaultWork[r].token] \in lost'
    BY DEF Safe!Loses
  <2> QED
    BY <1>1, <1>4, <2>1, <2>2 DEF VaultInv, There, UsableInv, Alive
<1> QED
  BY <1>2, <1>3, <1>4 DEF VaultInv

LEMMA TokenWritten ==
  ASSUME VaultInv, NEW r \in Requests, vaultPc[r] = "write", Safe!Finish(r), Safe!SameRow(r),
         token' = [token EXCEPT !.token = vaultWork[r].token, !.expired = FALSE,
                                !.version = @ + 1],
         UNCHANGED <<vaultStore, seq, owner, live, lost>>
  PROVE  VaultInv'
<1>1. /\ vaultPc' \in [Requests -> {"idle", "exchange", "write"}]
      /\ vaultWork' \in [Requests -> VaultWork] /\ vaultPc'[r] = "idle"
      /\ \A q \in Requests : q # r => vaultPc'[q] = vaultPc[q] /\ vaultWork'[q] = vaultWork[q]
  BY WriteEnds
<1>2. /\ There /\ token.version = vaultWork[r].read.version
      /\ vaultStore = "pg" => token.id = vaultWork[r].read.id
  BY DEF Safe!SameRow, Safe!SameVersion, There
<1>3. vaultWork[r].token \in DOMAIN owner /\ vaultWork[r].token \in Nat
  BY DEF VaultInv, VaultType, VaultWork
<1>4. /\ token' \in VaultRow /\ token'.id = token.id /\ token'.version = token.version + 1
      /\ token'.token = vaultWork[r].token /\ token'.conn = token.conn
  <2>1. token \in VaultRow
    BY DEF VaultInv, VaultType
  <2>2. token' = [id |-> token.id, version |-> token.version + 1,
                  token |-> vaultWork[r].token, expired |-> FALSE, conn |-> token.conn]
    BY <2>1 DEF VaultRow
  <2>3. token.version + 1 \in Nat /\ token.id \in Nat /\ token.conn \in Nat
    BY <2>1 DEF VaultRow
  <2> QED
    BY <1>3, <2>2, <2>3 DEF VaultRow
<1>5. There'
  <2>1. token.id # 0
    BY <1>2 DEF VaultInv, VaultType
  <2> QED
    BY <1>4, <2>1 DEF There, Safe!NoRow
<1>6. VaultType'
  BY <1>1, <1>2, <1>3, <1>4 DEF VaultInv, VaultType, Refreshing
<1>7. vaultStore = "pg" =>
        /\ token.token = vaultWork[r].read.token /\ token.conn = vaultWork[r].read.conn
        /\ owner[vaultWork[r].token] = token.conn
  BY <1>2 DEF VaultInv, ConnInv, Refreshing
<1>8. ASSUME vaultStore = "pg" PROVE ConnInv'
  BY <1>1, <1>2, <1>4, <1>7, <1>8 DEF VaultInv, VaultType, VaultRow, VaultWork, Refreshing, ConnInv
<1>9. ASSUME vaultStore = "pg" PROVE HandedInv'
  BY <1>1, <1>4, <1>9 DEF VaultInv, Refreshing, HandedInv
<1>10. ASSUME vaultStore = "pg" PROVE UsableInv'
  <2>1. CASE vaultWork[r].token \in live
    BY <1>4, <2>1 DEF UsableInv
  <2>2. CASE vaultWork[r].token \notin live
    <3>1. token.token \notin live
      BY <1>7, <1>10, <2>2 DEF VaultInv, HandedInv
    <3>2. token.conn \in lost \/ Alive(token.conn)
      BY <1>2, <1>10, <3>1 DEF VaultInv, UsableInv
    <3>3. Alive(token.conn) => Alive(token.conn)'
      BY <1>1, <1>4, <2>2 DEF Alive
    <3> QED
      BY <1>4, <3>2, <3>3 DEF UsableInv
  <2> QED
    BY <2>1, <2>2
<1> QED
  BY <1>6, <1>8, <1>9, <1>10 DEF VaultInv

LEMMA VaultKept ==
  ASSUME VaultInv, UNCHANGED <<vaultStore, token, seq, owner, live, lost, vaultPc, vaultWork>>
  PROVE  VaultInv'
BY DEF VaultInv, VaultType, There, Refreshing, ConnInv, HandedInv, UsableInv, Alive

LEMMA VaultStep == VaultInv /\ [MCNext]_allVars => VaultInv'
<1> SUFFICES ASSUME VaultInv, [MCNext]_allVars PROVE VaultInv'
  OBVIOUS
<1>1. CASE UNCHANGED vaultVars
  BY <1>1, VaultKept DEF vaultVars
<1>2. CASE MCNext /\ ~ UNCHANGED vaultVars
  <2>1. \/ Safe!SaveToken
        \/ Safe!DeleteToken \/ Safe!Expire
        \/ \E r \in Requests : \/ Safe!StartRefresh(r) \/ Safe!Exchange(r) \/ Safe!ExchangeFails(r)
                               \/ Safe!RotateRow(r) \/ Safe!Die(r)
    BY <1>2 DEF MCNext, InPlan, InShop, InFile, InTree, InMail, InHttp, InCsv, InVault
  <2>2. CASE Safe!SaveToken
    BY <2>2, SaveTokenInv
  <2>3. CASE Safe!DeleteToken \/ Safe!Expire \/ \E r \in Requests : Safe!ExchangeFails(r)
    BY <2>3, RestInv
  <2>4. ASSUME NEW r \in Requests, Safe!StartRefresh(r) PROVE VaultInv'
    BY <2>4, StartRefreshInv
  <2>5. ASSUME NEW r \in Requests, Safe!Exchange(r) PROVE VaultInv'
    BY <2>5, ExchangeKeeps, ExchangeRotates DEF Safe!Exchange
  <2>6. ASSUME NEW r \in Requests, Safe!RotateRow(r) PROVE VaultInv'
    BY <2>6, TokenWritten, TokenLost DEF Safe!RotateRow
  <2>7. ASSUME NEW r \in Requests, Safe!Die(r) PROVE VaultInv'
    BY <2>7, TokenLost DEF Safe!Die
  <2> QED
    BY <2>1, <2>2, <2>3, <2>4, <2>5, <2>6, <2>7
<1> QED
  BY <1>1, <1>2 DEF allVars, vaultVars

\* However many requests refresh a token at a time, while it is saved anew or
\* deleted, and whatever the provider does: what is written is of the connection it
\* replaces, and it is usable unless a request has lost the token that replaced it
\* (identity/oauth.go:320-378).
THEOREM TokensAreUsable == MCSpec => []TokensStayUsable
<1>1. ASSUME VaultInv PROVE TokensStayUsable
  BY <1>1 DEF VaultInv, ConnInv, UsableInv, Alive, There, TokensStayUsable, Safe!RotatesItsOwn,
              Safe!OfItsConnection, Safe!StaysUsable
<1>2. MCInit => VaultInv
  BY VaultInit DEF MCInit
<1> QED
  BY <1>1, <1>2, VaultStep, PTL DEF MCSpec

-----------------------------------------------------------------------------
(* A campaign: everybody is mailed once, and an opt-out lasts. *)

MailWork == [version : Nat, left : SUBSET Emails]
Left(r) == mailWork[r].left
Adding(r) == mailPc[r] \in {"add", "set queued"}
Marking(r) == mailPc[r] \in {"sent", "failed"}
Sending(r) == mailPc[r] \in {"look", "mail", "sent", "failed"}
UpToDate(r) == mailWork[r].version = campaignVersion

MailType ==
  /\ campaign \in {"draft", "queued", "sending", "done"}
  /\ campaignVersion \in Nat
  /\ row \in [Emails -> {"none", "queued", "sent", "failed"}]
  /\ mailed \in [Emails -> Nat]
  /\ retaken \in BOOLEAN
  /\ mailPc \in [Requests -> {"idle", "add", "set queued", "look", "mail", "sent", "failed",
                              "fail row"}]
  /\ mailWork \in [Requests -> MailWork]
  /\ \A r \in Requests : mailPc[r] \in {"sent", "failed", "fail row"} => Left(r) # {}

\* The version a request holds is no later one than the campaign's. While it is the
\* campaign's, the campaign is where the request has left it.
Taken(r) ==
  /\ Adding(r) => /\ mailWork[r].version <= campaignVersion
                  /\ UpToDate(r) => campaign \in {"draft", "queued"}
  /\ Sending(r) => /\ mailWork[r].version <= campaignVersion
                   /\ UpToDate(r) => campaign = "sending"
TakenInv == \A r \in Requests : Taken(r)

\* A campaign that nobody has taken over has one sender, who has mailed those that
\* he has crossed off and the one he is about to.
SenderInv == ~ retaken =>
  /\ campaign \in {"draft", "queued"} =>
       (\A r \in Requests : ~ Sending(r)) /\ \A e \in Emails : mailed[e] = 0
  /\ \A r, q \in Requests : Sending(r) /\ Sending(q) => r = q
  /\ \A r \in Requests, e \in Emails :
       /\ mailPc[r] = "look" => mailed[e] = 0
       /\ mailPc[r] = "mail" /\ e \in Left(r) => mailed[e] = 0
       /\ Marking(r) /\ e \in Left(r) /\ e # Mail!First(r) => mailed[e] = 0
  /\ \A e \in Emails : mailed[e] <= 1

\* Who is queued is on the list of the sender, or came late, or was not marked.
ListInv ==
  /\ \A r \in Requests, e \in Emails :
       (mailPc[r] = "mail" \/ Marking(r)) /\ UpToDate(r) /\ row[e] = "queued" =>
         e \in Left(r) \cup late \cup unmarked
  /\ campaign = "done" =>
       \A e \in Emails : row[e] = "queued" => e \in late \cup unmarked

MailInv == MailType /\ TakenInv /\ SenderInv /\ ListInv

LEMMA FirstIs ==
  ASSUME NEW r \in Requests, MailType, Left(r) # {}
  PROVE  Mail!First(r) \in Left(r)
<1>1. Left(r) \subseteq Nat
  BY MailAssumption DEF MailType, MailWork, Left, Mail!ConstantsOK
<1>2. \E x \in Left(r) : \A y \in Left(r) : x <= y
  BY <1>1, LeastNat
<1> QED
  BY <1>2 DEF Mail!First, Mail!Min, Left

LEMMA MailInit == Mail!Init => MailInv
<1> SUFFICES ASSUME Mail!Init PROVE MailInv
  OBVIOUS
<1>1. Mail!NoWork \in MailWork
  BY DEF Mail!NoWork, MailWork
<1>2. MailType
  BY <1>1 DEF Mail!Init, MailType
<1>3. TakenInv /\ ListInv
  BY DEF Mail!Init, TakenInv, Taken, ListInv, Adding, Sending, Marking
<1>4. SenderInv
  BY DEF Mail!Init, SenderInv, Sending, Marking
<1> QED
  BY <1>2, <1>3, <1>4 DEF MailInv

OthersRest(r) == \A q \in Requests : q # r =>
  /\ mailPc'[q] = mailPc[q] /\ mailWork'[q] = mailWork[q] /\ Left(q)' = Left(q)
  /\ Mail!First(q)' = Mail!First(q) /\ (Adding(q) <=> Adding(q)')
  /\ (Sending(q) <=> Sending(q)') /\ (Marking(q) <=> Marking(q)')

\* A request goes on, the others stay where they are.
LEMMA OneMoves ==
  ASSUME MailType, NEW r \in Requests, NEW label, NEW w,
         mailPc' = [mailPc EXCEPT ![r] = label], mailWork' = [mailWork EXCEPT ![r] = w]
  PROVE  /\ mailPc'[r] = label /\ mailWork'[r] = w /\ Left(r)' = w.left
         /\ OthersRest(r)
         /\ label \in {"idle", "add", "set queued", "look", "mail", "sent", "failed", "fail row"}
              => mailPc' \in [Requests -> {"idle", "add", "set queued", "look", "mail", "sent",
                                           "failed", "fail row"}]
         /\ w \in MailWork => mailWork' \in [Requests -> MailWork]
BY DEF OthersRest, MailType, Left, Adding, Sending, Marking, Mail!First

\* A step of a request that does not send, or sends no more.
LEMMA QuietMail ==
  ASSUME MailInv, NEW r \in Requests, NEW label \in {"idle", "add", "set queued", "fail row"},
         NEW w \in MailWork, label = "fail row" => w.left # {},
         mailPc' = [mailPc EXCEPT ![r] = label], mailWork' = [mailWork EXCEPT ![r] = w],
         label \in {"add", "set queued"} =>
           /\ w.version <= campaignVersion
           /\ w.version = campaignVersion => campaign \in {"draft", "queued"},
         UNCHANGED <<campaign, campaignVersion, mailed, retaken>>,
         late \subseteq late', unmarked \subseteq unmarked',
         row' \in [Emails -> {"none", "queued", "sent", "failed"}],
         \A e \in Emails : row'[e] = "queued" =>
           row[e] = "queued" \/ e \in late' \/ campaign \in {"draft", "queued"}
  PROVE  MailInv'
<1>1. /\ mailPc'[r] = label /\ mailWork'[r] = w /\ Left(r)' = w.left
      /\ OthersRest(r)
      /\ mailPc' \in [Requests -> {"idle", "add", "set queued", "look", "mail", "sent",
                                   "failed", "fail row"}]
      /\ mailWork' \in [Requests -> MailWork]
  BY OneMoves DEF MailInv
<1>2. ~ Sending(r)' /\ ~ Marking(r)' /\ mailPc'[r] \notin {"look", "mail", "sent", "failed"}
  BY <1>1 DEF Sending, Marking
<1>3. MailType'
  <2>1. \A q \in Requests : mailPc'[q] \in {"sent", "failed", "fail row"} => Left(q)' # {}
    <3> SUFFICES ASSUME NEW q \in Requests, mailPc'[q] \in {"sent", "failed", "fail row"}
                 PROVE  Left(q)' # {}
      OBVIOUS
    <3>1. CASE q = r
      BY <1>1, <3>1
    <3>2. CASE q # r
      BY <1>1, <3>2 DEF MailInv, MailType, OthersRest
    <3> QED
      BY <3>1, <3>2
  <2> QED
    BY <1>1, <2>1 DEF MailInv, MailType
<1>4. TakenInv'
  <2>1. Adding(r)' => label \in {"add", "set queued"}
    BY <1>1 DEF Adding
  <2>2. ASSUME NEW q \in Requests, q # r PROVE Taken(q)'
    BY <1>1, <2>2 DEF OthersRest, MailInv, TakenInv, Taken, UpToDate
  <2>3. Taken(r)'
    BY <1>1, <1>2, <2>1 DEF Taken, UpToDate
  <2> QED
    BY <2>2, <2>3 DEF TakenInv
<1>5. SenderInv'
  <2> SUFFICES ASSUME ~ retaken PROVE SenderInv'
    BY DEF SenderInv
  <2>1. \A q \in Requests : Sending(q)' => q # r /\ Sending(q)
    BY <1>1, <1>2 DEF OthersRest
  <2>2. \A p, q \in Requests : Sending(p)' /\ Sending(q)' => p = q
    BY <2>1 DEF MailInv, SenderInv
  <2>3. campaign' \in {"draft", "queued"} =>
          (\A q \in Requests : ~ Sending(q)') /\ \A e \in Emails : mailed'[e] = 0
    BY <2>1 DEF MailInv, SenderInv
  <2>4. ASSUME NEW q \in Requests, NEW e \in Emails
        PROVE  /\ mailPc'[q] = "look" => mailed'[e] = 0
               /\ mailPc'[q] = "mail" /\ e \in Left(q)' => mailed'[e] = 0
               /\ Marking(q)' /\ e \in Left(q)' /\ e # Mail!First(q)' => mailed'[e] = 0
    <3>1. CASE q = r
      BY <1>2, <3>1
    <3>2. CASE q # r
      <4>1. /\ mailPc'[q] = mailPc[q] /\ Left(q)' = Left(q) /\ Mail!First(q)' = Mail!First(q)
            /\ Marking(q)' <=> Marking(q)
        BY <1>1, <3>2 DEF OthersRest
      <4>2. /\ mailPc[q] = "look" => mailed[e] = 0
            /\ mailPc[q] = "mail" /\ e \in Left(q) => mailed[e] = 0
            /\ Marking(q) /\ e \in Left(q) /\ e # Mail!First(q) => mailed[e] = 0
        BY DEF MailInv, SenderInv
      <4> QED
        BY <4>1, <4>2
    <3> QED
      BY <3>1, <3>2
  <2>5. \A e \in Emails : mailed'[e] <= 1
    BY DEF MailInv, SenderInv
  <2> QED
    BY <2>2, <2>3, <2>4, <2>5 DEF SenderInv
<1>6. ListInv'
  <2>1. \A q \in Requests : (mailPc[q] = "mail" \/ Marking(q)) /\ UpToDate(q) =>
          campaign \notin {"draft", "queued"}
    BY DEF MailInv, TakenInv, Taken, Sending, Marking
  <2> QED
    BY ZenonT(60), <1>1, <1>2, <2>1 DEF OthersRest, MailInv, ListInv, UpToDate
<1> QED
  BY <1>3, <1>4, <1>5, <1>6 DEF MailInv

LEMMA MailKept ==
  ASSUME MailInv, UNCHANGED <<campaign, campaignVersion, row, mailed, late, unmarked, retaken,
                              mailPc, mailWork>>
  PROVE  MailInv'
BY DEF MailInv, MailType, TakenInv, Taken, SenderInv, ListInv, Left, Adding, Marking, Sending, UpToDate,
       Mail!First

LEMMA NoWorkIsWork == Mail!NoWork \in MailWork
BY DEF Mail!NoWork, MailWork

LEMMA StartExpandInv ==
  ASSUME MailInv, NEW r \in Requests, NEW audience \in SUBSET Emails, Mail!StartExpand(r, audience)
  PROVE  MailInv'
<1> DEFINE w == [version |-> campaignVersion, left |-> Mail!Addressed(audience)]
<1>1. w \in MailWork
  BY DEF Mail!Addressed, MailInv, MailType, MailWork
<1>2. /\ campaign \in {"draft", "queued"} /\ w.version = campaignVersion
      /\ mailPc' = [mailPc EXCEPT ![r] = "add"] /\ mailWork' = [mailWork EXCEPT ![r] = w]
      /\ UNCHANGED <<campaign, campaignVersion, row, mailed, late, unmarked, retaken>>
  BY DEF Mail!StartExpand, Mail!Goto
<1> HIDE DEF w
<1>3. campaignVersion \in Nat /\ row \in [Emails -> {"none", "queued", "sent", "failed"}]
  BY DEF MailInv, MailType
<1>4. w.version <= campaignVersion
  BY <1>2, <1>3
<1>5. "add" \in {"idle", "add", "set queued", "fail row"} /\ "add" # "fail row"
  OBVIOUS
<1> QED
  BY <1>1, <1>2, <1>3, <1>4, <1>5, QuietMail

LEMMA AddRecipientInv ==
  ASSUME MailInv, NEW r \in Requests, Mail!AddRecipient(r) PROVE MailInv'
<1>1. /\ mailPc[r] = "add" /\ mailWork[r] \in MailWork /\ mailWork[r].version <= campaignVersion
      /\ mailWork[r].version = campaignVersion => campaign \in {"draft", "queued"}
  BY DEF Mail!AddRecipient, MailInv, MailType, TakenInv, Taken, Adding, UpToDate
<1>2. row \in [Emails -> {"none", "queued", "sent", "failed"}]
  BY DEF MailInv, MailType
<1>3. UNCHANGED <<campaign, campaignVersion, mailed, unmarked, retaken>>
  BY DEF Mail!AddRecipient
<1>4. CASE Left(r) = {}
  <2>1. /\ mailPc' = [mailPc EXCEPT ![r] = "set queued"] /\ mailWork' = mailWork
        /\ row' = row /\ late' = late
    BY <1>4 DEF Mail!AddRecipient, Mail!Goto, Left
  <2>2. mailWork' = [mailWork EXCEPT ![r] = mailWork[r]]
    BY <2>1 DEF MailInv, MailType
  <2> QED
    BY <1>1, <1>2, <1>3, <2>1, <2>2, QuietMail
<1>5. CASE Left(r) # {}
  <2> DEFINE e == Mail!First(r)
             w == [mailWork[r] EXCEPT !.left = @ \ {e}]
  <2>1. /\ mailWork' = [mailWork EXCEPT ![r] = w] /\ mailPc' = mailPc
        /\ IF row[e] # "none" THEN row' = row /\ late' = late
           ELSE /\ row' = [row EXCEPT ![e] = "queued"]
                /\ late' = IF campaign \in {"sending", "done"} THEN late \cup {e} ELSE late
    BY <1>5 DEF Mail!AddRecipient, Mail!Drop, Left
  <2>2. mailPc' = [mailPc EXCEPT ![r] = "add"]
    BY <1>1, <2>1 DEF MailInv, MailType
  <2>3. w \in MailWork /\ w.version = mailWork[r].version
    BY <1>1 DEF MailWork
  <2> HIDE DEF w
  <2>4. row' \in [Emails -> {"none", "queued", "sent", "failed"}]
    BY <1>2, <2>1
  <2>5. late \subseteq late'
    BY <2>1
  <2>6. \A x \in Emails : row'[x] = "queued" =>
          row[x] = "queued" \/ x \in late' \/ campaign \in {"draft", "queued"}
    BY <1>2, <2>1 DEF MailInv, MailType
  <2> QED
    BY <1>1, <1>3, <2>1, <2>2, <2>3, <2>4, <2>5, <2>6, QuietMail
<1> QED
  BY <1>4, <1>5

\* A request ends and leaves the campaign alone, but for a row that it has failed.
LEMMA MailEnds ==
  ASSUME MailInv, NEW r \in Requests, Mail!Finish(r),
         UNCHANGED <<campaign, campaignVersion, mailed, late, unmarked, retaken>>,
         row' \in [Emails -> {"none", "queued", "sent", "failed"}],
         \A e \in Emails : row'[e] = "queued" => row[e] = "queued"
  PROVE  MailInv'
<1>1. mailPc' = [mailPc EXCEPT ![r] = "idle"] /\ mailWork' = [mailWork EXCEPT ![r] = Mail!NoWork]
  BY DEF Mail!Finish, Mail!Goto
<1> QED
  BY <1>1, QuietMail, NoWorkIsWork

LEMMA UnsubscribeInv ==
  ASSUME MailInv, NEW r \in Requests, NEW e \in Emails, NEW here \in BOOLEAN,
         Mail!Unsubscribe(r, e, here)
  PROVE  MailInv'
<1>1. CASE here /\ row[e] = "queued"
  <2> DEFINE w == [Mail!NoWork EXCEPT !.left = {e}]
  <2>1. /\ mailPc' = [mailPc EXCEPT ![r] = "fail row"] /\ mailWork' = [mailWork EXCEPT ![r] = w]
        /\ UNCHANGED <<campaign, campaignVersion, row, mailed, late, unmarked, retaken>>
    BY <1>1 DEF Mail!Unsubscribe, Mail!Goto
  <2>2. w \in MailWork /\ w.left # {}
    BY DEF Mail!NoWork, MailWork
  <2>3. row \in [Emails -> {"none", "queued", "sent", "failed"}]
    BY DEF MailInv, MailType
  <2> QED
    BY <2>1, <2>2, <2>3, QuietMail
<1>2. CASE ~ (here /\ row[e] = "queued")
  BY <1>2, MailKept DEF Mail!Unsubscribe
<1> QED
  BY <1>1, <1>2

\* A request that holds the campaign's version moves it on, and ends.
LEMMA MovesOn ==
  ASSUME MailInv, NEW r \in Requests, UpToDate(r), Mail!Finish(r),
         campaignVersion' = campaignVersion + 1,
         UNCHANGED <<row, mailed, late, unmarked, retaken>>,
         \/ Adding(r) /\ campaign' = "queued"
         \/ mailPc[r] = "mail" /\ Left(r) = {} /\ campaign' = "done"
  PROVE  MailInv'
<1>1. mailPc' = [mailPc EXCEPT ![r] = "idle"] /\ mailWork' = [mailWork EXCEPT ![r] = Mail!NoWork]
  BY DEF Mail!Finish, Mail!Goto
<1>2. /\ mailPc'[r] = "idle" /\ OthersRest(r)
      /\ mailPc' \in [Requests -> {"idle", "add", "set queued", "look", "mail", "sent",
                                   "failed", "fail row"}]
      /\ mailWork' \in [Requests -> MailWork]
  BY <1>1, OneMoves, NoWorkIsWork DEF MailInv
<1>3. ~ Sending(r)' /\ ~ Marking(r)' /\ ~ Adding(r)'
  BY <1>2 DEF Sending, Marking, Adding
<1>a. campaignVersion \in Nat
  BY DEF MailInv, MailType
<1>4. MailType'
  <2>1. \A q \in Requests : mailPc'[q] \in {"sent", "failed", "fail row"} => Left(q)' # {}
    BY <1>2 DEF MailInv, MailType, OthersRest
  <2>2. campaignVersion' \in Nat
    BY <1>a
  <2> QED
    BY <1>2, <2>1, <2>2 DEF MailInv, MailType
<1>5. \A q \in Requests : mailWork[q].version \in Nat
  BY DEF MailInv, MailType, MailWork
<1>6. \A q \in Requests : Adding(q)' \/ Sending(q)' =>
        mailWork'[q].version <= campaignVersion' /\ ~ UpToDate(q)'
  <2> SUFFICES ASSUME NEW q \in Requests, Adding(q)' \/ Sending(q)'
               PROVE  mailWork'[q].version <= campaignVersion' /\ ~ UpToDate(q)'
    OBVIOUS
  <2>1. q # r
    BY <1>3
  <2>2. mailWork'[q] = mailWork[q] /\ (Adding(q) \/ Sending(q))
    BY <1>2, <2>1 DEF OthersRest
  <2>3. mailWork[q].version <= campaignVersion
    BY <2>2 DEF MailInv, TakenInv, Taken
  <2> QED
    BY <1>a, <1>5, <2>2, <2>3 DEF UpToDate
<1>7. TakenInv'
  BY <1>6 DEF TakenInv, Taken
<1>8. CASE Adding(r) /\ campaign' = "queued"
  <2>1. campaign \in {"draft", "queued"}
    BY <1>8 DEF MailInv, TakenInv, Taken
  <2>2. ~ retaken => (\A q \in Requests : ~ Sending(q)) /\ \A e \in Emails : mailed[e] = 0
    BY <2>1 DEF MailInv, SenderInv
  <2>3. \A q \in Requests : Sending(q)' => Sending(q)
    BY <1>2, <1>3 DEF OthersRest
  <2>4. \A q \in Requests : mailPc'[q] \in {"look", "mail"} \/ Marking(q)' => Sending(q)'
    BY DEF Sending, Marking
  <2>5. SenderInv'
    BY <2>2, <2>3, <2>4 DEF SenderInv
  <2>6. ListInv'
    BY <1>6, <1>8, <2>4 DEF ListInv
  <2> QED
    BY <1>4, <1>7, <2>5, <2>6 DEF MailInv
<1>9. CASE mailPc[r] = "mail" /\ Left(r) = {} /\ campaign' = "done"
  <2>1. \A q \in Requests : Sending(q)' => q # r /\ Sending(q)
    BY <1>2, <1>3 DEF OthersRest
  <2>2. \A q \in Requests : mailPc'[q] \in {"look", "mail"} \/ Marking(q)' => Sending(q)'
    BY DEF Sending, Marking
  <2>3. SenderInv'
    <3> SUFFICES ASSUME ~ retaken PROVE SenderInv'
      BY DEF SenderInv
    <3>1. \A p, q \in Requests : Sending(p)' /\ Sending(q)' => p = q
      BY <2>1 DEF MailInv, SenderInv
    <3>2. ASSUME NEW q \in Requests, NEW e \in Emails
          PROVE  /\ mailPc'[q] = "look" => mailed'[e] = 0
                 /\ mailPc'[q] = "mail" /\ e \in Left(q)' => mailed'[e] = 0
                 /\ Marking(q)' /\ e \in Left(q)' /\ e # Mail!First(q)' => mailed'[e] = 0
      <4>1. CASE q = r
        BY <1>2, <1>3, <4>1
      <4>2. CASE q # r
        <5>1. /\ mailPc'[q] = mailPc[q] /\ Left(q)' = Left(q) /\ Mail!First(q)' = Mail!First(q)
              /\ Marking(q)' <=> Marking(q)
          BY <1>2, <4>2 DEF OthersRest
        <5>2. /\ mailPc[q] = "look" => mailed[e] = 0
              /\ mailPc[q] = "mail" /\ e \in Left(q) => mailed[e] = 0
              /\ Marking(q) /\ e \in Left(q) /\ e # Mail!First(q) => mailed[e] = 0
          BY DEF MailInv, SenderInv
        <5> QED
          BY <5>1, <5>2
      <4> QED
        BY <4>1, <4>2
    <3>3. \A e \in Emails : mailed'[e] <= 1
      BY DEF MailInv, SenderInv
    <3> QED
      BY <1>9, <3>1, <3>2, <3>3 DEF SenderInv
  <2>4. \A e \in Emails : row[e] = "queued" => e \in late \cup unmarked
    BY <1>9 DEF MailInv, ListInv
  <2>5. ListInv'
    BY <1>6, <2>2, <2>4 DEF ListInv
  <2> QED
    BY <1>4, <1>7, <2>3, <2>5 DEF MailInv
<1> QED
  BY <1>8, <1>9

LEMMA StartSendInv ==
  ASSUME MailInv, NEW r \in Requests, Mail!StartSend(r) PROVE MailInv'
<1> DEFINE w == [Mail!NoWork EXCEPT !.version = campaignVersion + 1]
<1>a. campaignVersion \in Nat
  BY DEF MailInv, MailType
<1>1. campaignVersion + 1 \in Nat /\ campaignVersion \in Nat
  BY <1>a
<1>2. w \in MailWork /\ w.version = campaignVersion + 1 /\ w.left = {}
  BY <1>1 DEF Mail!NoWork, MailWork
<1>3. /\ mailPc' = [mailPc EXCEPT ![r] = "look"] /\ mailWork' = [mailWork EXCEPT ![r] = w]
      /\ campaign \in {"queued", "sending"} /\ campaign' = "sending"
      /\ campaignVersion' = campaignVersion + 1
      /\ retaken' = (retaken \/ campaign = "sending") /\ mailPc[r] = "idle"
      /\ UNCHANGED <<row, mailed, late, unmarked>>
  BY DEF Mail!StartSend, Mail!Goto
<1> HIDE DEF w
<1>4. /\ mailPc'[r] = "look" /\ mailWork'[r] = w /\ OthersRest(r)
      /\ mailPc' \in [Requests -> {"idle", "add", "set queued", "look", "mail", "sent",
                                   "failed", "fail row"}]
      /\ mailWork' \in [Requests -> MailWork]
  BY <1>2, <1>3, OneMoves DEF MailInv
<1>5. ~ Marking(r)' /\ ~ Adding(r)' /\ Sending(r)' /\ mailPc'[r] # "mail"
  BY <1>4 DEF Sending, Marking, Adding
<1>6. MailType'
  BY <1>1, <1>3, <1>4 DEF MailInv, MailType, OthersRest
<1>7. ASSUME NEW q \in Requests, q # r, Adding(q)' \/ Sending(q)'
      PROVE  mailWork'[q].version <= campaignVersion' /\ ~ UpToDate(q)'
  <2>1. mailWork'[q] = mailWork[q] /\ (Adding(q) \/ Sending(q))
    BY <1>4, <1>7 DEF OthersRest
  <2>2. mailWork[q].version <= campaignVersion
    BY <2>1 DEF MailInv, TakenInv, Taken
  <2>3. mailWork[q].version \in Nat
    BY DEF MailInv, MailType, MailWork
  <2> QED
    BY <1>1, <1>3, <2>1, <2>2, <2>3 DEF UpToDate
<1>8. mailWork'[r].version <= campaignVersion'
  <2>1. mailWork'[r].version = campaignVersion' /\ campaignVersion' \in Nat
    BY <1>1, <1>2, <1>3, <1>4
  <2> QED
    BY <2>1
<1>9. TakenInv'
  BY <1>3, <1>5, <1>7, <1>8 DEF TakenInv, Taken
<1>10. SenderInv'
  <2> SUFFICES ASSUME ~ retaken' PROVE SenderInv'
    BY DEF SenderInv
  <2>1. (\A q \in Requests : ~ Sending(q)) /\ \A e \in Emails : mailed[e] = 0
    BY <1>3 DEF MailInv, SenderInv
  <2>2. \A q \in Requests : Sending(q)' => q = r
    BY <1>4, <2>1 DEF OthersRest
  <2> QED
    BY <1>3, <1>5, <2>1, <2>2 DEF SenderInv
<1>11. ListInv'
  <2>1. \A q \in Requests : mailPc'[q] = "mail" \/ Marking(q)' => Sending(q)'
    BY DEF Sending, Marking
  <2> QED
    BY <1>3, <1>5, <1>7, <2>1 DEF ListInv
<1> QED
  BY <1>6, <1>9, <1>10, <1>11 DEF MailInv

\* A sender goes on with the list w.
LEMMA SenderGoesOn ==
  ASSUME MailInv, NEW r \in Requests, Sending(r), NEW label \in {"mail", "sent", "failed"},
         NEW w \in MailWork, w.version = mailWork[r].version, w.left # {} \/ label = "mail",
         mailPc' = [mailPc EXCEPT ![r] = label], mailWork' = [mailWork EXCEPT ![r] = w],
         UNCHANGED <<campaign, campaignVersion, late, retaken>>, unmarked \subseteq unmarked',
         row' \in [Emails -> {"none", "queued", "sent", "failed"}],
         mailed' \in [Emails -> Nat],
         \A e \in Emails : row'[e] = "queued" =>
           row[e] = "queued" /\ (UpToDate(r) => e \in w.left \cup late \cup unmarked'),
         ~ retaken => \A e \in Emails :
           mailed'[e] <= 1 /\ (e \in w.left /\ (label = "mail" \/ e # Mail!Min(w.left)) => mailed'[e] = 0)
  PROVE  MailInv'
<1>1. /\ mailPc'[r] = label /\ mailWork'[r] = w /\ Left(r)' = w.left /\ OthersRest(r)
      /\ mailPc' \in [Requests -> {"idle", "add", "set queued", "look", "mail", "sent",
                                   "failed", "fail row"}]
      /\ mailWork' \in [Requests -> MailWork]
  BY OneMoves DEF MailInv
<1>2. /\ Sending(r)' /\ ~ Adding(r)' /\ Mail!First(r)' = Mail!Min(w.left)
      /\ mailPc'[r] # "look" /\ mailPc'[r] # "fail row"
  BY <1>1 DEF Sending, Adding, Mail!First
<1>3. MailType'
  <2>1. \A q \in Requests : mailPc'[q] \in {"sent", "failed", "fail row"} => Left(q)' # {}
    <3> SUFFICES ASSUME NEW q \in Requests, mailPc'[q] \in {"sent", "failed", "fail row"}
                 PROVE  Left(q)' # {}
      OBVIOUS
    <3>1. CASE q = r
      BY <1>1, <3>1
    <3>2. CASE q # r
      BY <1>1, <3>2 DEF MailInv, MailType, OthersRest
    <3> QED
      BY <3>1, <3>2
  <2> QED
    BY <1>1, <2>1 DEF MailInv, MailType
<1>4. TakenInv'
  <2>1. ASSUME NEW q \in Requests, q # r PROVE Taken(q)'
    BY <1>1, <2>1 DEF OthersRest, MailInv, TakenInv, Taken, UpToDate
  <2>2. Taken(r)'
    BY <1>1, <1>2 DEF MailInv, TakenInv, Taken, UpToDate
  <2> QED
    BY <2>1, <2>2 DEF TakenInv
<1>5. SenderInv'
  <2> SUFFICES ASSUME ~ retaken PROVE SenderInv'
    BY DEF SenderInv
  <2>1. \A q \in Requests : Sending(q)' <=> q = r
    BY <1>1, <1>2 DEF OthersRest, MailInv, SenderInv
  <2>2. campaign \notin {"draft", "queued"}
    BY DEF MailInv, SenderInv
  <2>3. \A q \in Requests : mailPc'[q] \in {"look", "mail"} \/ Marking(q)' => Sending(q)'
    BY DEF Sending, Marking
  <2>4. ASSUME NEW q \in Requests, NEW e \in Emails
        PROVE  /\ mailPc'[q] = "look" => mailed'[e] = 0
               /\ mailPc'[q] = "mail" /\ e \in Left(q)' => mailed'[e] = 0
               /\ Marking(q)' /\ e \in Left(q)' /\ e # Mail!First(q)' => mailed'[e] = 0
    <3>1. CASE q = r
      BY <1>1, <1>2, <3>1
    <3>2. CASE q # r
      BY <2>1, <2>3, <3>2
    <3> QED
      BY <3>1, <3>2
  <2> QED
    BY <2>1, <2>2, <2>4 DEF SenderInv
<1>6. ListInv'
  <2>1. ASSUME NEW q \in Requests, NEW e \in Emails, mailPc'[q] = "mail" \/ Marking(q)',
               UpToDate(q)', row'[e] = "queued"
        PROVE  e \in Left(q)' \cup late' \cup unmarked'
    <3>1. CASE q = r
      BY <1>1, <2>1, <3>1 DEF UpToDate
    <3>2. CASE q # r
      <4>1. /\ mailPc[q] = "mail" \/ Marking(q)
            /\ UpToDate(q) /\ Left(q)' = Left(q)
        BY <1>1, <2>1, <3>2 DEF OthersRest, UpToDate
      <4> QED
        BY <2>1, <4>1 DEF MailInv, ListInv
    <3> QED
      BY <3>1, <3>2
  <2>2. campaign = "done" => \A e \in Emails : row'[e] = "queued" => e \in late \cup unmarked'
    BY DEF MailInv, ListInv
  <2> QED
    BY <2>1, <2>2 DEF ListInv
<1> QED
  BY <1>3, <1>4, <1>5, <1>6 DEF MailInv

LEMMA QueuedOfInv ==
  ASSUME MailInv, NEW r \in Requests, Mail!QueuedOf(r) PROVE MailInv'
<1> DEFINE w == [mailWork[r] EXCEPT !.left = {e \in Emails : row[e] = "queued"}]
<1>1. /\ mailPc[r] = "look" /\ mailPc' = [mailPc EXCEPT ![r] = "mail"]
      /\ mailWork' = [mailWork EXCEPT ![r] = w]
      /\ UNCHANGED <<campaign, campaignVersion, row, mailed, late, unmarked, retaken>>
  BY DEF Mail!QueuedOf, Mail!Goto
<1>2. /\ w \in MailWork /\ w.version = mailWork[r].version
      /\ w.left = {e \in Emails : row[e] = "queued"}
  BY DEF MailInv, MailType, MailWork
<1> HIDE DEF w
<1>3. /\ row \in [Emails -> {"none", "queued", "sent", "failed"}] /\ mailed \in [Emails -> Nat]
      /\ Sending(r)
  BY <1>1 DEF MailInv, MailType, Sending
<1>4. ~ retaken => \A e \in Emails : mailed[e] <= 1 /\ mailed[e] = 0
  BY <1>1 DEF MailInv, SenderInv
<1> QED
  BY <1>1, <1>2, <1>3, <1>4, SenderGoesOn

LEMMA DispatchMail ==
  ASSUME MailInv, NEW r \in Requests, NEW outcome \in {"sent", "failed"}, Mail!Dispatch(r, outcome)
  PROVE  MailInv'
<1> DEFINE f == Mail!First(r)
<1>1. /\ mailPc[r] = "mail" /\ mailPc' = [mailPc EXCEPT ![r] = outcome] /\ mailWork' = mailWork
      /\ Left(r) # {}
      /\ mailed' = IF outcome = "sent" THEN [mailed EXCEPT ![f] = @ + 1] ELSE mailed
      /\ UNCHANGED <<campaign, campaignVersion, row, late, unmarked, retaken>>
  BY DEF Mail!Dispatch, Mail!Goto, Left
<1>2. f \in Left(r) /\ f \in Emails /\ f = Mail!Min(mailWork[r].left)
  BY <1>1, FirstIs DEF MailInv, MailType, MailWork, Left, Mail!First
<1> HIDE DEF f
<1>3. /\ mailWork[r] \in MailWork /\ mailWork' = [mailWork EXCEPT ![r] = mailWork[r]]
      /\ row \in [Emails -> {"none", "queued", "sent", "failed"}] /\ mailed \in [Emails -> Nat]
      /\ Sending(r)
  BY <1>1 DEF MailInv, MailType, Sending
<1>4. mailed' \in [Emails -> Nat]
  BY <1>1, <1>2, <1>3
<1>5. ~ retaken => \A e \in Emails :
        mailed'[e] <= 1 /\ (e \in Left(r) /\ e # f => mailed'[e] = 0)
  <2>1. ~ retaken => \A e \in Emails : mailed[e] <= 1 /\ (e \in Left(r) => mailed[e] = 0)
    BY <1>1 DEF MailInv, SenderInv
  <2> QED
    BY <1>1, <1>2, <1>3, <2>1
<1>6. \A e \in Emails : row[e] = "queued" =>
        (UpToDate(r) => e \in Left(r) \cup late \cup unmarked)
  BY <1>1 DEF MailInv, ListInv
<1>7. outcome \in {"mail", "sent", "failed"} /\ outcome # "mail"
  OBVIOUS
<1> DEFINE w == mailWork[r]
<1>8. /\ w \in MailWork /\ w.version = mailWork[r].version /\ w.left # {}
      /\ mailWork' = [mailWork EXCEPT ![r] = w] /\ w.left = Left(r) /\ f = Mail!Min(w.left)
  BY <1>1, <1>2, <1>3 DEF Left
<1> HIDE DEF w
<1>9. row' \in [Emails -> {"none", "queued", "sent", "failed"}] /\ unmarked \subseteq unmarked'
  BY <1>1, <1>3
<1>10. \A e \in Emails : row'[e] = "queued" =>
         row[e] = "queued" /\ (UpToDate(r) => e \in w.left \cup late \cup unmarked')
  BY <1>1, <1>6, <1>8
<1>11. ~ retaken => \A e \in Emails :
         mailed'[e] <= 1 /\ (e \in w.left /\ (outcome = "mail" \/ e # Mail!Min(w.left)) => mailed'[e] = 0)
  BY <1>5, <1>7, <1>8
<1>12. mailPc' = [mailPc EXCEPT ![r] = outcome] /\ UNCHANGED <<campaign, campaignVersion, late, retaken>>
  BY <1>1
<1> QED
  BY <1>3, <1>4, <1>7, <1>8, <1>9, <1>10, <1>11, <1>12, SenderGoesOn

LEMMA RecipientMarked ==
  ASSUME MailInv, NEW r \in Requests, Mail!SetRecipientStatus(r) PROVE MailInv'
<1> DEFINE f == Mail!First(r)
           w == [mailWork[r] EXCEPT !.left = @ \ {f}]
<1>1. /\ Marking(r) /\ mailPc' = [mailPc EXCEPT ![r] = "mail"]
      /\ mailWork' = [mailWork EXCEPT ![r] = w]
      /\ \/ row' = [row EXCEPT ![f] = mailPc[r]] /\ unmarked' = unmarked
         \/ row' = row /\ unmarked' = unmarked \cup {f}
      /\ UNCHANGED <<campaign, campaignVersion, mailed, late, retaken>>
  BY DEF Mail!SetRecipientStatus, Mail!Goto, Mail!Drop, Marking
<1>2. f \in Left(r) /\ f \in Emails
  BY <1>1, FirstIs DEF MailInv, MailType, MailWork, Left, Marking
<1>3. /\ w \in MailWork /\ w.version = mailWork[r].version /\ w.left = Left(r) \ {f}
      /\ mailed \in [Emails -> Nat] /\ Sending(r)
      /\ row \in [Emails -> {"none", "queued", "sent", "failed"}]
  BY <1>1 DEF MailInv, MailType, MailWork, Left, Sending, Marking
<1>4. mailPc[r] \in {"sent", "failed"}
  BY <1>1 DEF Marking
<1> HIDE DEF w, f
<1>5. row' \in [Emails -> {"none", "queued", "sent", "failed"}]
  BY <1>1, <1>3, <1>4
<1>6. ~ retaken => \A e \in Emails :
        mailed'[e] <= 1 /\ (e \in w.left => mailed'[e] = 0)
  BY <1>1, <1>3 DEF MailInv, SenderInv, f
<1>7. \A e \in Emails : row[e] = "queued" =>
        (UpToDate(r) => e \in Left(r) \cup late \cup unmarked)
  BY <1>1 DEF MailInv, ListInv
<1>8. \A e \in Emails : row'[e] = "queued" =>
        row[e] = "queued" /\ (UpToDate(r) => e \in w.left \cup late \cup unmarked')
  BY <1>1, <1>2, <1>3, <1>4, <1>7
<1>9. unmarked \subseteq unmarked'
  BY <1>1
<1> QED
  BY <1>1, <1>3, <1>5, <1>6, <1>8, <1>9, SenderGoesOn

LEMMA SetInv ==
  ASSUME MailInv, NEW r \in Requests, Mail!SetQueued(r) \/ Mail!SetDone(r) PROVE MailInv'
<1>1. /\ Mail!Finish(r) /\ UNCHANGED <<row, mailed, late, unmarked, retaken>>
      /\ row' \in [Emails -> {"none", "queued", "sent", "failed"}]
  BY DEF Mail!SetQueued, Mail!SetDone, MailInv, MailType
<1>2. CASE UpToDate(r)
  <2>1. Mail!SameVersion(r)
    BY <1>2 DEF UpToDate, Mail!SameVersion
  <2>2. /\ campaignVersion' = campaignVersion + 1
        /\ \/ Adding(r) /\ campaign' = "queued"
           \/ mailPc[r] = "mail" /\ Left(r) = {} /\ campaign' = "done"
    BY <2>1 DEF Mail!SetQueued, Mail!SetDone, Adding, Left
  <2> QED
    BY <1>1, <1>2, <2>2, MovesOn
<1>3. CASE ~ UpToDate(r)
  <2>1. ~ Mail!SameVersion(r)
    BY <1>3 DEF UpToDate, Mail!SameVersion
  <2>2. UNCHANGED <<campaign, campaignVersion>>
    BY <2>1 DEF Mail!SetQueued, Mail!SetDone
  <2> QED
    BY <1>1, <2>2, MailEnds
<1> QED
  BY <1>2, <1>3

LEMMA FailOrCrashInv ==
  ASSUME MailInv, NEW r \in Requests, Mail!FailRow(r) \/ Mail!Crash(r) PROVE MailInv'
<1>1. row \in [Emails -> {"none", "queued", "sent", "failed"}]
  BY DEF MailInv, MailType
<1>2. \/ row' = row
      \/ row' = [row EXCEPT ![Mail!First(r)] = "failed"]
  BY DEF Mail!FailRow, Mail!Crash
<1>3. row' \in [Emails -> {"none", "queued", "sent", "failed"}]
  BY <1>1, <1>2
<1>4. \A e \in Emails : row'[e] = "queued" => row[e] = "queued"
  BY <1>1, <1>2
<1>5. Mail!Finish(r) /\ UNCHANGED <<campaign, campaignVersion, mailed, late, unmarked, retaken>>
  BY DEF Mail!FailRow, Mail!Crash
<1> QED
  BY <1>3, <1>4, <1>5, MailEnds

\* What a step of the run means for the campaign.
MailMoves ==
  \/ \E r \in Requests, audience \in SUBSET Emails : Mail!StartExpand(r, audience)
  \/ \E r \in Requests : \/ Mail!AddRecipient(r) \/ Mail!SetQueued(r) \/ Mail!StartSend(r)
                         \/ Mail!QueuedOf(r) \/ Mail!SetRecipientStatus(r) \/ Mail!SetDone(r)
                         \/ Mail!FailRow(r) \/ Mail!Crash(r)
  \/ \E r \in Requests, outcome \in {"sent", "failed"} : Mail!Dispatch(r, outcome)
  \/ \E r \in Requests, e \in Emails, here \in BOOLEAN : Mail!Unsubscribe(r, e, here)

LEMMA MailOfStep == [MCNext]_allVars => MailMoves \/ UNCHANGED mailVars
<1> SUFFICES ASSUME [MCNext]_allVars, ~ UNCHANGED mailVars PROVE MailMoves
  OBVIOUS
<1>1. MCNext
  BY DEF allVars
<1> QED
  BY <1>1 DEF MCNext, MailMoves, InPlan, InShop, InFile, InTree, InMail, InHttp, InCsv, InVault

LEMMA MailStep == MailInv /\ [MCNext]_allVars => MailInv'
<1> SUFFICES ASSUME MailInv, [MCNext]_allVars PROVE MailInv'
  OBVIOUS
<1>1. CASE UNCHANGED mailVars
  BY <1>1, MailKept DEF mailVars
<1>2. CASE MailMoves
  <2>1. ASSUME NEW r \in Requests, NEW audience \in SUBSET Emails, Mail!StartExpand(r, audience)
        PROVE  MailInv'
    BY <2>1, StartExpandInv
  <2>2. ASSUME NEW r \in Requests, Mail!AddRecipient(r) PROVE MailInv'
    BY <2>2, AddRecipientInv
  <2>3. ASSUME NEW r \in Requests, Mail!SetQueued(r) \/ Mail!SetDone(r) PROVE MailInv'
    BY <2>3, SetInv
  <2>4. ASSUME NEW r \in Requests, Mail!StartSend(r) PROVE MailInv'
    BY <2>4, StartSendInv
  <2>5. ASSUME NEW r \in Requests, Mail!QueuedOf(r) PROVE MailInv'
    BY <2>5, QueuedOfInv
  <2>6. ASSUME NEW r \in Requests, NEW outcome \in {"sent", "failed"}, Mail!Dispatch(r, outcome)
        PROVE  MailInv'
    BY <2>6, DispatchMail
  <2>7. ASSUME NEW r \in Requests, Mail!SetRecipientStatus(r) PROVE MailInv'
    BY <2>7, RecipientMarked
  <2>8. ASSUME NEW r \in Requests, NEW e \in Emails, NEW here \in BOOLEAN, Mail!Unsubscribe(r, e, here)
        PROVE  MailInv'
    BY <2>8, UnsubscribeInv
  <2>9. ASSUME NEW r \in Requests, Mail!FailRow(r) \/ Mail!Crash(r) PROVE MailInv'
    BY <2>9, FailOrCrashInv
  <2> QED
    BY <1>2, <2>1, <2>2, <2>3, <2>4, <2>5, <2>6, <2>7, <2>8, <2>9 DEF MailMoves
<1> QED
  BY <1>1, <1>2, MailOfStep

\* For any number of requests that expand, send and unsubscribe at a time, and
\* wherever they crash: nobody is mailed twice unless the campaign was taken over,
\* and who is left in the queue of a finished campaign came late or was not marked
\* (mailing/service.go:51-120).
THEOREM EveryoneIsMailedOnce == MCSpec => []EachIsMailedOnce
<1>1. MailInv => EachIsMailedOnce
  BY DEF MailInv, SenderInv, ListInv, EachIsMailedOnce, Mail!MailedOnceUnlessRetaken,
         Mail!LeftInQueueIsLate
<1>2. MCInit => MailInv
  BY MailInit DEF MCInit
<1> QED
  BY <1>1, <1>2, MailStep, PTL DEF MCSpec

\* A request takes into its hands nobody who has opted out and is not queued, and
\* queues nobody whom it has not in its hands.
LEMMA SettledStays ==
  ASSUME MailType, MailMoves, NEW e \in Emails, Mail!Settled(e) PROVE Mail!Settled(e)'
<1> DEFINE Safely(r, w) == mailWork' = [mailWork EXCEPT ![r] = w] /\ e \notin w.left
<1>1. e \in suppressed /\ row[e] # "queued" /\ \A q \in Requests : e \notin mailWork[q].left
  BY DEF Mail!Settled
<1>2. ASSUME NEW r \in Requests, NEW w, Safely(r, w), e \in suppressed', row'[e] # "queued"
      PROVE  Mail!Settled(e)'
  BY <1>1, <1>2 DEF MailType, Mail!Settled
<1>3. e \notin Mail!NoWork.left
  BY DEF Mail!NoWork
<1>4. row \in [Emails -> {"none", "queued", "sent", "failed"}]
  BY DEF MailType
<1>5. ASSUME NEW r \in Requests, NEW audience \in SUBSET Emails, Mail!StartExpand(r, audience)
      PROVE  Mail!Settled(e)'
  <2> DEFINE w == [version |-> campaignVersion, left |-> Mail!Addressed(audience)]
  <2>1. Safely(r, w) /\ UNCHANGED <<row, suppressed>>
    BY <1>1, <1>5 DEF Mail!StartExpand, Mail!Addressed
  <2> QED
    BY <1>1, <1>2, <2>1
<1>6. ASSUME NEW r \in Requests, Mail!Drop(r), e \in suppressed', row'[e] # "queued"
      PROVE  Mail!Settled(e)'
  <2> DEFINE w == [mailWork[r] EXCEPT !.left = @ \ {Mail!First(r)}]
  <2>1. mailWork[r] \in MailWork
    BY DEF MailType
  <2>2. Safely(r, w)
    BY <1>1, <1>6, <2>1 DEF Mail!Drop, MailWork
  <2> QED
    BY <1>2, <1>6, <2>2
<1>7. ASSUME NEW r \in Requests, mailWork[r].left # {} PROVE e # Mail!First(r)
  BY <1>1, <1>7, FirstIs DEF Left
<1>8. ASSUME UNCHANGED <<row, suppressed, mailWork>> PROVE Mail!Settled(e)'
  BY <1>1, <1>8 DEF Mail!Settled
<1>9. ASSUME NEW r \in Requests, Mail!AddRecipient(r) PROVE Mail!Settled(e)'
  <2>1. CASE mailWork[r].left = {}
    BY <1>8, <1>9, <2>1 DEF Mail!AddRecipient
  <2>2. CASE mailWork[r].left # {}
    <3>1. /\ Mail!Drop(r) /\ suppressed' = suppressed
          /\ row' = row \/ row' = [row EXCEPT ![Mail!First(r)] = "queued"]
      BY <1>9, <2>2 DEF Mail!AddRecipient
    <3>2. row'[e] # "queued"
      BY <1>1, <1>4, <1>7, <2>2, <3>1
    <3> QED
      BY <1>1, <1>6, <3>1, <3>2
  <2> QED
    BY <2>1, <2>2
<1>10. ASSUME NEW r \in Requests, Mail!Finish(r), suppressed' = suppressed, row'[e] # "queued"
       PROVE  Mail!Settled(e)'
  BY <1>1, <1>2, <1>3, <1>10 DEF Mail!Finish
<1>11. ASSUME NEW r \in Requests, Mail!SetQueued(r) \/ Mail!SetDone(r) \/ Mail!Crash(r)
       PROVE  Mail!Settled(e)'
  BY <1>1, <1>10, <1>11 DEF Mail!SetQueued, Mail!SetDone, Mail!Crash
<1>12. ASSUME NEW r \in Requests, Mail!StartSend(r) PROVE Mail!Settled(e)'
  <2> DEFINE w == [Mail!NoWork EXCEPT !.version = campaignVersion + 1]
  <2>1. Safely(r, w) /\ UNCHANGED <<row, suppressed>>
    BY <1>12 DEF Mail!StartSend, Mail!NoWork
  <2> QED
    BY <1>1, <1>2, <2>1
<1>13. ASSUME NEW r \in Requests, Mail!QueuedOf(r) PROVE Mail!Settled(e)'
  <2> DEFINE w == [mailWork[r] EXCEPT !.left = {x \in Emails : row[x] = "queued"}]
  <2>1. mailWork[r] \in MailWork
    BY DEF MailType
  <2>2. Safely(r, w) /\ UNCHANGED <<row, suppressed>>
    BY <1>1, <1>13, <2>1 DEF Mail!QueuedOf, MailWork
  <2> QED
    BY <1>1, <1>2, <2>2
<1>14. ASSUME NEW r \in Requests, NEW outcome \in {"sent", "failed"}, Mail!Dispatch(r, outcome)
       PROVE  Mail!Settled(e)'
  BY <1>8, <1>14 DEF Mail!Dispatch
<1>15. ASSUME NEW r \in Requests, Mail!SetRecipientStatus(r) PROVE Mail!Settled(e)'
  <2>1. /\ Mail!Drop(r) /\ suppressed' = suppressed
        /\ row' = row \/ row' = [row EXCEPT ![Mail!First(r)] = mailPc[r]]
        /\ mailPc[r] \in {"sent", "failed"}
    BY <1>15 DEF Mail!SetRecipientStatus
  <2>2. row'[e] # "queued"
    BY <1>1, <1>4, <2>1
  <2> QED
    BY <1>1, <1>6, <2>1, <2>2
<1>16. ASSUME NEW r \in Requests, NEW x \in Emails, NEW here \in BOOLEAN, Mail!Unsubscribe(r, x, here)
       PROVE  Mail!Settled(e)'
  <2>1. e \in suppressed' /\ row' = row
    BY <1>1, <1>16 DEF Mail!Unsubscribe
  <2>2. CASE here /\ row[x] = "queued"
    <3> DEFINE w == [Mail!NoWork EXCEPT !.left = {x}]
    <3>1. Safely(r, w)
      BY <1>1, <1>16, <2>2 DEF Mail!Unsubscribe, Mail!NoWork
    <3> QED
      BY <1>1, <1>2, <2>1, <3>1
  <2>3. CASE ~ (here /\ row[x] = "queued")
    <3>1. mailWork' = mailWork
      BY <1>16, <2>3 DEF Mail!Unsubscribe
    <3> QED
      BY <1>1, <2>1, <3>1 DEF Mail!Settled
  <2> QED
    BY <2>2, <2>3
<1>17. ASSUME NEW r \in Requests, Mail!FailRow(r) PROVE Mail!Settled(e)'
  <2>1. /\ Mail!Finish(r) /\ suppressed' = suppressed
        /\ row' = [row EXCEPT ![Mail!First(r)] = "failed"]
    BY <1>17 DEF Mail!FailRow
  <2>2. row'[e] # "queued"
    BY <1>1, <1>4, <2>1
  <2> QED
    BY <1>10, <2>1, <2>2
<1> QED
  BY <1>5, <1>9, <1>11, <1>12, <1>13, <1>14, <1>15, <1>16, <1>17 DEF MailMoves

\* Who has opted out and is in nobody's hands never gets into anybody's again,
\* for any number of expansions and senders (mailing/service.go:122-123).
THEOREM OptOutsLast == MCSpec => OptOutLasts
<1>1. MCInit => MailInv
  BY MailInit DEF MCInit
<1>2. MailInv /\ [MCNext]_allVars =>
        [\A e \in Emails : Mail!Settled(e) => Mail!Settled(e)']_(Mail!vars)
  <2> SUFFICES ASSUME MailInv, [MCNext]_allVars, ~ UNCHANGED Mail!vars
               PROVE  \A e \in Emails : Mail!Settled(e) => Mail!Settled(e)'
    OBVIOUS
  <2>1. ~ UNCHANGED mailVars
    BY DEF mailVars, Mail!vars
  <2> QED
    BY <2>1, MailOfStep, SettledStays DEF MailInv
<1> QED
  BY <1>1, <1>2, MailStep, PTL DEF MCSpec, OptOutLasts, Mail!OptOutLasts

-----------------------------------------------------------------------------
(* A file: its history is one line, and its bytes last. *)

Revision == [next : Docs!Numbers \cup {0}, bytes : Contents \cup {Missing}]
Revising(r) == fileWork[r].next
AtVersion(r) == filePc[r] = "version" /\ Revising(r) \notin contested

FileType ==
  /\ current \in [number : Docs!Numbers, sum : Contents]
  /\ DOMAIN history \subseteq Docs!Numbers
  /\ stored \in [Docs!Numbers -> Contents \cup {Missing}]
  /\ filePc \in [Requests -> {"idle", "put", "version", "delete", "current", "index"}]
  /\ fileWork \in [Requests -> Revision]
  /\ \A r \in Requests : filePc[r] # "idle" =>
       Revising(r) \in Docs!Numbers /\ fileWork[r].bytes \in Contents

\* A request is never more than one revision ahead, and the one that is about to
\* make its revision the current one has the last of the history alone.
LineInv ==
  /\ DOMAIN history \in {1 .. current.number, 1 .. current.number + 1}
  /\ current.sum = history[current.number]
  /\ \A r \in Requests : filePc[r] # "idle" => Revising(r) <= current.number + 1
  /\ \A r \in Requests : filePc[r] = "current" =>
       /\ DOMAIN history = 1 .. current.number + 1
       /\ Revising(r) = current.number + 1
       /\ history[Revising(r)] = fileWork[r].bytes
  /\ \A r, q \in Requests : filePc[r] = "current" /\ filePc[q] = "current" => r = q

\* Until somebody else writes under its number, the bytes of a request are there
\* for it alone. Only bytes that two have written are deleted.
BytesInv ==
  /\ \A n \in DOMAIN history : n \notin contested => stored[n] = history[n]
  /\ \A r \in Requests : AtVersion(r) =>
       stored[Revising(r)] = fileWork[r].bytes /\ Revising(r) \notin DOMAIN history
  /\ \A r, q \in Requests : AtVersion(r) /\ AtVersion(q) /\ Revising(r) = Revising(q) => r = q
  /\ \A r \in Requests : filePc[r] = "delete" => Revising(r) \in contested

FileInv == FileType /\ LineInv /\ BytesInv

LEMMA FileInit == Docs!Init => FileInv
<1> SUFFICES ASSUME Docs!Init PROVE FileInv
  OBVIOUS
<1>1. VersionLimit \in Nat \ {0} /\ Missing \notin Contents
  BY DocsAssumption DEF Docs!ConstantsOK
<1>2. 1 \in Docs!Numbers /\ 1 .. 1 = {1}
  BY <1>1 DEF Docs!Numbers
<1>3. Docs!NoWork \in Revision
  BY DEF Docs!NoWork, Revision
<1>4. PICK c \in Contents :
        /\ current = [number |-> 1, sum |-> c] /\ history = [n \in {1} |-> c]
        /\ stored = [n \in Docs!Numbers |-> IF n = 1 THEN c ELSE Missing]
        /\ contested = {} /\ filePc = [r \in Requests |-> "idle"]
        /\ fileWork = [r \in Requests |-> Docs!NoWork]
  BY DEF Docs!Init
<1>5. FileType
  BY <1>2, <1>3, <1>4 DEF FileType
<1>6. LineInv
  BY <1>2, <1>4 DEF LineInv
<1>7. BytesInv
  BY <1>2, <1>4 DEF BytesInv, AtVersion
<1> QED
  BY <1>5, <1>6, <1>7 DEF FileInv

\* A request goes on, the others stay where they are.
LEMMA FileMoves ==
  ASSUME FileType, NEW r \in Requests, NEW label, NEW w \in Revision,
         label \in {"idle", "put", "version", "delete", "current", "index"},
         filePc' = [filePc EXCEPT ![r] = label], fileWork' = [fileWork EXCEPT ![r] = w],
         label # "idle" => w.next \in Docs!Numbers /\ w.bytes \in Contents,
         current' \in [number : Docs!Numbers, sum : Contents],
         DOMAIN history' \subseteq Docs!Numbers,
         stored' \in [Docs!Numbers -> Contents \cup {Missing}]
  PROVE  /\ FileType'
         /\ filePc'[r] = label /\ fileWork'[r] = w /\ Revising(r)' = w.next
         /\ \A q \in Requests : q # r =>
              filePc'[q] = filePc[q] /\ fileWork'[q] = fileWork[q] /\ Revising(q)' = Revising(q)
<1>1. /\ filePc'[r] = label /\ fileWork'[r] = w /\ Revising(r)' = w.next
      /\ \A q \in Requests : q # r =>
           filePc'[q] = filePc[q] /\ fileWork'[q] = fileWork[q] /\ Revising(q)' = Revising(q)
  BY DEF FileType, Revising
<1>2. /\ filePc' \in [Requests -> {"idle", "put", "version", "delete", "current", "index"}]
      /\ fileWork' \in [Requests -> Revision]
  BY DEF FileType
<1>3. ASSUME NEW q \in Requests, filePc'[q] # "idle"
      PROVE  Revising(q)' \in Docs!Numbers /\ fileWork'[q].bytes \in Contents
  <2>1. CASE q = r
    BY <1>1, <1>3, <2>1
  <2>2. CASE q # r
    BY <1>1, <1>3, <2>2 DEF FileType
  <2> QED
    BY <2>1, <2>2
<1> QED
  BY <1>1, <1>2, <1>3 DEF FileType

\* A request starts, ends, or is over with the history.
LEMMA QuietFile ==
  ASSUME FileInv, NEW r \in Requests, NEW label \in {"idle", "put", "index"}, NEW w \in Revision,
         filePc' = [filePc EXCEPT ![r] = label], fileWork' = [fileWork EXCEPT ![r] = w],
         label # "idle" => /\ w.next \in Docs!Numbers /\ w.bytes \in Contents
                           /\ w.next <= current.number + 1,
         UNCHANGED <<current, history, stored, contested>>
  PROVE  FileInv'
<1>1. label \in {"idle", "put", "version", "delete", "current", "index"}
  OBVIOUS
<1>2. /\ current' \in [number : Docs!Numbers, sum : Contents]
      /\ DOMAIN history' \subseteq Docs!Numbers
      /\ stored' \in [Docs!Numbers -> Contents \cup {Missing}]
  BY DEF FileInv, FileType
<1>3. /\ FileType'
      /\ filePc'[r] = label /\ fileWork'[r] = w /\ Revising(r)' = w.next
      /\ \A q \in Requests : q # r =>
           filePc'[q] = filePc[q] /\ fileWork'[q] = fileWork[q] /\ Revising(q)' = Revising(q)
  BY <1>1, <1>2, FileMoves DEF FileInv
<1>4. \A q \in Requests : filePc'[q] \in {"version", "delete", "current"} => q # r
  BY <1>3
<1>5. LineInv'
  BY <1>3, <1>4 DEF FileInv, LineInv
<1>6. \A q \in Requests : AtVersion(q)' => q # r /\ AtVersion(q)
  BY <1>3, <1>4 DEF AtVersion
<1>7. BytesInv'
  BY <1>3, <1>4, <1>6 DEF FileInv, BytesInv
<1> QED
  BY <1>3, <1>5, <1>7 DEF FileInv

LEMMA FileKept ==
  ASSUME FileInv, UNCHANGED <<current, history, stored, contested, filePc, fileWork>>
  PROVE  FileInv'
BY DEF FileInv, FileType, LineInv, BytesInv, AtVersion, Revising

LEMMA ReviseInv ==
  ASSUME FileInv, NEW r \in Requests, NEW bytes \in Contents, Docs!Revise(r, bytes)
  PROVE  FileInv'
<1> DEFINE w == [next |-> current.number + 1, bytes |-> bytes]
<1>1. /\ filePc' = [filePc EXCEPT ![r] = "put"] /\ fileWork' = [fileWork EXCEPT ![r] = w]
      /\ UNCHANGED <<current, history, stored, contested>> /\ current.number < VersionLimit
  BY DEF Docs!Revise
<1>2. current.number \in Docs!Numbers /\ VersionLimit \in Nat
  BY DocsAssumption DEF FileInv, FileType, Docs!ConstantsOK
<1>3. current.number + 1 \in Docs!Numbers /\ current.number + 1 <= current.number + 1
  BY <1>1, <1>2 DEF Docs!Numbers
<1>4. w \in Revision /\ w.next = current.number + 1 /\ w.bytes = bytes
  BY <1>3 DEF Revision
<1> HIDE DEF w
<1>5. "put" \in {"idle", "put", "index"}
  OBVIOUS
<1> QED
  BY <1>1, <1>3, <1>4, <1>5, QuietFile

LEMMA FileEnds ==
  ASSUME FileInv, NEW r \in Requests, Docs!Finish(r), UNCHANGED <<current, history, stored, contested>>
  PROVE  FileInv'
<1>1. Docs!NoWork \in Revision
  BY DEF Docs!NoWork, Revision
<1>2. /\ filePc' = [filePc EXCEPT ![r] = "idle"] /\ fileWork' = [fileWork EXCEPT ![r] = Docs!NoWork]
  BY DEF Docs!Finish
<1>3. "idle" \in {"idle", "put", "index"}
  OBVIOUS
<1> QED
  BY <1>1, <1>2, <1>3, QuietFile

LEMMA GoesOn ==
  ASSUME FileInv, NEW r \in Requests, filePc[r] # "idle",
         NEW label \in {"idle", "put", "version", "delete", "current", "index"}, Docs!Goto(r, label),
         current' \in [number : Docs!Numbers, sum : Contents],
         DOMAIN history' \subseteq Docs!Numbers,
         stored' \in [Docs!Numbers -> Contents \cup {Missing}]
  PROVE  /\ FileType' /\ fileWork' = fileWork
         /\ \A q \in Requests : Revising(q)' = Revising(q)
         /\ filePc'[r] = label /\ \A q \in Requests : q # r => filePc'[q] = filePc[q]
<1>1. filePc' = [filePc EXCEPT ![r] = label] /\ fileWork' = [fileWork EXCEPT ![r] = fileWork[r]]
  BY DEF Docs!Goto, FileInv, FileType
<1>2. /\ fileWork[r] \in Revision
      /\ fileWork[r].next \in Docs!Numbers /\ fileWork[r].bytes \in Contents
  BY DEF FileInv, FileType, Revising
<1>3. FileType /\ fileWork[r].next = Revising(r)
  BY DEF FileInv, Revising
<1>4. /\ FileType' /\ filePc'[r] = label
      /\ \A q \in Requests : q # r => filePc'[q] = filePc[q]
  BY <1>1, <1>2, <1>3, FileMoves
<1> QED
  BY <1>4 DEF Docs!Goto, Revising

LEMMA PutBytesInv ==
  ASSUME FileInv, NEW r \in Requests, Docs!PutBytes(r) PROVE FileInv'
<1> DEFINE k == Revising(r)
<1>1. /\ filePc[r] = "put" /\ Docs!Goto(r, "version") /\ UNCHANGED <<current, history>>
      /\ stored' = [stored EXCEPT ![k] = fileWork[r].bytes]
      /\ contested' = IF stored[k] # Missing \/ k \in DOMAIN history
                      THEN contested \cup {k} ELSE contested
  BY DEF Docs!PutBytes, Docs!Key, Revising
<1>2. k \in Docs!Numbers /\ fileWork[r].bytes \in Contents /\ Missing \notin Contents
  BY <1>1, DocsAssumption DEF FileInv, FileType, Docs!ConstantsOK
<1>a. stored \in [Docs!Numbers -> Contents \cup {Missing}]
  BY DEF FileInv, FileType
<1> HIDE DEF k
<1>3. /\ current' \in [number : Docs!Numbers, sum : Contents]
      /\ DOMAIN history' \subseteq Docs!Numbers
  BY <1>1 DEF FileInv, FileType
<1>4. stored' \in [Docs!Numbers -> Contents \cup {Missing}]
  BY <1>1, <1>2, <1>a
<1>5. filePc[r] # "idle" /\ "version" \in {"idle", "put", "version", "delete", "current", "index"}
  BY <1>1
<1>6. /\ FileType' /\ fileWork' = fileWork
      /\ \A q \in Requests : Revising(q)' = Revising(q)
      /\ filePc'[r] = "version" /\ \A q \in Requests : q # r => filePc'[q] = filePc[q]
  BY <1>1, <1>3, <1>4, <1>5, GoesOn
<1>7. LineInv'
  <2>1. \A q \in Requests : filePc'[q] = "current" => filePc[q] = "current"
    BY <1>6
  <2>2. \A q \in Requests : filePc'[q] # "idle" => filePc[q] # "idle"
    BY <1>1, <1>6
  <2> QED
    BY <1>1, <1>6, <2>1, <2>2 DEF FileInv, LineInv
<1>8. /\ contested \subseteq contested' /\ \A n : n # k => (n \in contested' <=> n \in contested)
      /\ k \notin contested' => k \notin DOMAIN history /\ stored[k] = Missing
  BY <1>1
<1>9. \A n \in Docs!Numbers : n # k => stored'[n] = stored[n]
  BY <1>1, <1>a
<1>10. stored'[k] = fileWork[r].bytes
  BY <1>1, <1>2, <1>a
<1>11. ASSUME NEW q \in Requests, q # r, AtVersion(q)'
       PROVE  AtVersion(q) /\ Revising(q) # k
  <2>1. AtVersion(q)
    BY <1>6, <1>8, <1>11 DEF AtVersion
  <2>2. stored[Revising(q)] = fileWork[q].bytes /\ fileWork[q].bytes \in Contents
    BY <2>1 DEF FileInv, FileType, BytesInv, AtVersion
  <2>3. Revising(q) \notin contested'
    BY <1>6, <1>11 DEF AtVersion
  <2> QED
    BY <1>2, <1>8, <2>1, <2>2, <2>3
<1>12. \A n \in DOMAIN history : n \notin contested' => stored'[n] = history[n]
  BY <1>3, <1>1, <1>8, <1>9 DEF FileInv, BytesInv
<1>13. ASSUME NEW q \in Requests, AtVersion(q)'
       PROVE  stored'[Revising(q)] = fileWork[q].bytes /\ Revising(q) \notin DOMAIN history
  <2>1. CASE q = r
    BY <1>6, <1>8, <1>10, <1>13, <2>1 DEF AtVersion, k
  <2>2. CASE q # r
    <3>1. Revising(q) \in Docs!Numbers
      BY <1>11, <1>13, <2>2 DEF FileInv, FileType, AtVersion
    <3> QED
      BY <1>9, <1>11, <1>13, <2>2, <3>1 DEF FileInv, BytesInv
  <2> QED
    BY <2>1, <2>2
<1>14. \A p, q \in Requests : AtVersion(p)' /\ AtVersion(q)' /\ Revising(p) = Revising(q) => p = q
  BY <1>11 DEF FileInv, BytesInv, k
<1>15. \A q \in Requests : filePc'[q] = "delete" => Revising(q) \in contested'
  BY <1>6, <1>8 DEF FileInv, BytesInv
<1>16. BytesInv'
  BY <1>1, <1>6, <1>12, <1>13, <1>14, <1>15 DEF BytesInv
<1> QED
  BY <1>6, <1>7, <1>16 DEF FileInv

LEMMA CreateVersionInv ==
  ASSUME FileInv, NEW r \in Requests, Docs!CreateVersion(r) PROVE FileInv'
<1> DEFINE k == Revising(r)
<1>1. filePc[r] = "version" /\ UNCHANGED <<current, stored, contested>>
  BY DEF Docs!CreateVersion
<1>2. /\ current \in [number : Docs!Numbers, sum : Contents]
      /\ DOMAIN history \subseteq Docs!Numbers
      /\ stored \in [Docs!Numbers -> Contents \cup {Missing}]
      /\ k \in Docs!Numbers
  BY <1>1 DEF FileInv, FileType
<1>3. CASE k \in DOMAIN history
  <2>1. Docs!Goto(r, "delete") /\ history' = history
    BY <1>3 DEF Docs!CreateVersion, Docs!Taken, Revising
  <2>2. filePc[r] # "idle" /\ "delete" \in {"idle", "put", "version", "delete", "current", "index"}
    BY <1>1
  <2>3. /\ FileType' /\ fileWork' = fileWork
        /\ \A q \in Requests : Revising(q)' = Revising(q)
        /\ filePc'[r] = "delete" /\ \A q \in Requests : q # r => filePc'[q] = filePc[q]
    BY <1>1, <1>2, <2>1, <2>2, GoesOn
  <2>4. k \in contested
    BY <1>1, <1>3 DEF FileInv, BytesInv, AtVersion
  <2>5. \A q \in Requests : AtVersion(q)' => AtVersion(q)
    BY <1>1, <2>3 DEF AtVersion
  <2>6. LineInv'
    BY <1>1, <2>1, <2>3 DEF FileInv, LineInv
  <2>7. BytesInv'
    BY <1>1, <2>1, <2>3, <2>4, <2>5 DEF FileInv, BytesInv
  <2> QED
    BY <2>3, <2>6, <2>7 DEF FileInv
<1>4. CASE k \notin DOMAIN history
  <2>1. /\ Docs!Goto(r, "current")
        /\ history' = [n \in DOMAIN history \cup {k} |->
                         IF n = k THEN fileWork[r].bytes ELSE history[n]]
    BY <1>4 DEF Docs!CreateVersion, Docs!Taken, Revising
  <2>2. filePc[r] # "idle" /\ "current" \in {"idle", "put", "version", "delete", "current", "index"}
    BY <1>1
  <2>3. /\ DOMAIN history' = DOMAIN history \cup {k} /\ history'[k] = fileWork[r].bytes
        /\ \A n \in DOMAIN history : history'[n] = history[n]
    BY <1>4, <2>1
  <2>4. /\ FileType' /\ fileWork' = fileWork
        /\ \A q \in Requests : Revising(q)' = Revising(q)
        /\ filePc'[r] = "current" /\ \A q \in Requests : q # r => filePc'[q] = filePc[q]
    BY <1>1, <1>2, <2>1, <2>2, <2>3, GoesOn
  <2>5. current.number \in Nat \ {0} /\ k \in Nat \ {0} /\ k <= current.number + 1
    BY <1>1, <1>2, DocsAssumption DEF FileInv, LineInv, Docs!Numbers, Docs!ConstantsOK
  <2>6. /\ DOMAIN history = 1 .. current.number /\ k = current.number + 1
        /\ DOMAIN history' = 1 .. current.number + 1
    BY <1>4, <2>3, <2>5 DEF FileInv, LineInv
  <2>7. \A q \in Requests : filePc[q] # "current"
    <3>1. 1 .. current.number # 1 .. current.number + 1
      BY <2>5
    <3> QED
      BY <2>6, <3>1 DEF FileInv, LineInv
  <2>8. LineInv'
    <3>1. current.sum = history'[current.number]
      BY <2>3, <2>5, <2>6 DEF FileInv, LineInv
    <3>2. \A q \in Requests : filePc'[q] # "idle" => filePc[q] # "idle"
      BY <1>1, <2>4
    <3>3. \A q \in Requests : filePc'[q] = "current" => q = r
      BY <2>4, <2>7
    <3> QED
      BY <1>1, <2>3, <2>4, <2>6, <3>1, <3>2, <3>3 DEF FileInv, LineInv
  <2>9. ASSUME NEW q \in Requests, AtVersion(q)' PROVE AtVersion(q) /\ Revising(q) # k
    <3>1. AtVersion(q) /\ q # r
      BY <1>1, <2>4, <2>9 DEF AtVersion
    <3>2. Revising(q) \notin contested
      BY <3>1 DEF AtVersion
    <3>3. k \notin contested => AtVersion(r)
      BY <1>1 DEF AtVersion
    <3> QED
      BY <3>1, <3>2, <3>3 DEF FileInv, BytesInv
  <2>10. k \notin contested => stored[k] = fileWork[r].bytes
    BY <1>1 DEF FileInv, BytesInv, AtVersion
  <2> HIDE DEF k
  <2>11. BytesInv'
    BY <1>1, <2>3, <2>4, <2>9, <2>10 DEF FileInv, BytesInv
  <2> QED
    BY <2>4, <2>8, <2>11 DEF FileInv
<1> QED
  BY <1>3, <1>4

LEMMA DeleteBytesInv ==
  ASSUME FileInv, NEW r \in Requests, Docs!DeleteBytes(r) PROVE FileInv'
<1> DEFINE k == Revising(r)
<1>1. /\ filePc[r] = "delete" /\ Docs!Finish(r) /\ UNCHANGED <<current, history, contested>>
      /\ stored' = [stored EXCEPT ![k] = Missing]
  BY DEF Docs!DeleteBytes, Docs!Key, Revising
<1>2. /\ current \in [number : Docs!Numbers, sum : Contents]
      /\ DOMAIN history \subseteq Docs!Numbers
      /\ stored \in [Docs!Numbers -> Contents \cup {Missing}]
      /\ k \in contested
  BY <1>1 DEF FileInv, FileType, BytesInv
<1> HIDE DEF k
<1>3. /\ stored' \in [Docs!Numbers -> Contents \cup {Missing}]
      /\ \A n \in Docs!Numbers : n \notin contested => stored'[n] = stored[n]
  BY <1>1, <1>2
<1>4. Docs!NoWork \in Revision /\ "idle" \in {"idle", "put", "version", "delete", "current", "index"}
  BY DEF Docs!NoWork, Revision
<1>5. filePc' = [filePc EXCEPT ![r] = "idle"] /\ fileWork' = [fileWork EXCEPT ![r] = Docs!NoWork]
  BY <1>1 DEF Docs!Finish
<1>6. /\ FileType' /\ filePc'[r] = "idle"
      /\ \A q \in Requests : q # r =>
           filePc'[q] = filePc[q] /\ fileWork'[q] = fileWork[q] /\ Revising(q)' = Revising(q)
  BY <1>1, <1>2, <1>3, <1>4, <1>5, FileMoves DEF FileInv
<1>7. LineInv'
  BY <1>1, <1>6 DEF FileInv, LineInv
<1>8. ASSUME NEW q \in Requests, AtVersion(q)'
      PROVE  q # r /\ AtVersion(q) /\ Revising(q) \in Docs!Numbers /\ Revising(q) \notin contested
  BY <1>1, <1>6, <1>8 DEF AtVersion, FileInv, FileType
<1>9. BytesInv'
  <2>1. \A n \in DOMAIN history : n \notin contested => stored'[n] = history[n]
    BY <1>2, <1>3 DEF FileInv, BytesInv
  <2>2. ASSUME NEW q \in Requests, AtVersion(q)'
        PROVE  stored'[Revising(q)'] = fileWork'[q].bytes /\ Revising(q)' \notin DOMAIN history
    BY <1>3, <1>6, <1>8, <2>2 DEF FileInv, BytesInv
  <2>3. \A p, q \in Requests : AtVersion(p)' /\ AtVersion(q)' /\ Revising(p)' = Revising(q)' => p = q
    BY <1>6, <1>8 DEF FileInv, BytesInv
  <2>4. \A q \in Requests : filePc'[q] = "delete" => Revising(q)' \in contested
    BY <1>6 DEF FileInv, BytesInv
  <2> QED
    BY <1>1, <2>1, <2>2, <2>3, <2>4 DEF BytesInv
<1> QED
  BY <1>6, <1>7, <1>9 DEF FileInv

LEMMA UpdateCurrentInv ==
  ASSUME FileInv, NEW r \in Requests, Docs!UpdateCurrent(r) PROVE FileInv'
<1> DEFINE k == Revising(r)
<1>1. /\ filePc[r] = "current" /\ Docs!Goto(r, "index") /\ UNCHANGED <<history, stored, contested>>
      /\ current' = [number |-> k, sum |-> fileWork[r].bytes]
  BY DEF Docs!UpdateCurrent, Revising
<1>2. /\ k \in Docs!Numbers /\ fileWork[r].bytes \in Contents /\ k = current.number + 1
      /\ DOMAIN history = 1 .. k /\ history[k] = fileWork[r].bytes
  BY <1>1 DEF FileInv, FileType, LineInv
<1> HIDE DEF k
<1>3. /\ current' \in [number : Docs!Numbers, sum : Contents]
      /\ DOMAIN history' \subseteq Docs!Numbers
      /\ stored' \in [Docs!Numbers -> Contents \cup {Missing}]
      /\ filePc[r] # "idle" /\ "index" \in {"idle", "put", "version", "delete", "current", "index"}
  BY <1>1, <1>2 DEF FileInv, FileType
<1>4. /\ FileType' /\ fileWork' = fileWork
      /\ \A q \in Requests : Revising(q)' = Revising(q)
      /\ filePc'[r] = "index" /\ \A q \in Requests : q # r => filePc'[q] = filePc[q]
  BY <1>1, <1>3, GoesOn
<1>5. current.number \in Nat /\ current'.number = current.number + 1 /\ current'.sum = history[k]
  <2>1. current.number \in Docs!Numbers /\ VersionLimit \in Nat
    BY DocsAssumption DEF FileInv, FileType, Docs!ConstantsOK
  <2>2. current.number \in Nat
    BY <2>1 DEF Docs!Numbers
  <2>3. current'.number = k /\ current'.sum = fileWork[r].bytes
    BY <1>1
  <2> QED
    BY <1>2, <2>2, <2>3
<1>6. \A q \in Requests : Revising(q) \in Int
  BY DocsAssumption DEF FileInv, FileType, Revising, Revision, Docs!Numbers, Docs!ConstantsOK
<1>7. LineInv'
  <2>1. ASSUME NEW q \in Requests, filePc'[q] # "idle" PROVE Revising(q)' <= current'.number + 1
    <3>1. filePc[q] # "idle"
      BY <1>1, <1>4, <2>1
    <3>2. Revising(q) <= current.number + 1
      BY <3>1 DEF FileInv, LineInv
    <3> QED
      BY <1>4, <1>5, <1>6, <3>2
  <2>2. \A q \in Requests : filePc'[q] # "current"
    BY <1>1, <1>4 DEF FileInv, LineInv
  <2>3. DOMAIN history' = 1 .. current'.number /\ current'.sum = history'[current'.number]
    BY <1>1, <1>2, <1>5
  <2> QED
    BY <2>1, <2>2, <2>3 DEF LineInv
<1>8. \A q \in Requests : AtVersion(q)' => AtVersion(q)
  BY <1>1, <1>4 DEF AtVersion
<1>9. BytesInv'
  BY <1>1, <1>4, <1>8 DEF FileInv, BytesInv
<1> QED
  BY <1>4, <1>7, <1>9 DEF FileInv

\* What a step of the run means for the file.
FileSteps ==
  \/ \E r \in Requests, c \in Contents : Docs!StartUpload(r, c)
  \/ \E r \in Requests, n \in Docs!Numbers : Docs!StartRestore(r, n)
  \/ \E r \in Requests : \/ Docs!PutBytes(r) \/ Docs!CreateVersion(r) \/ Docs!DeleteBytes(r)
                         \/ Docs!UpdateCurrent(r) \/ Docs!UpsertFileText(r) \/ Docs!Crash(r)

LEMMA FileOfStep == [MCNext]_allVars => FileSteps \/ UNCHANGED fileVars
<1> SUFFICES ASSUME [MCNext]_allVars, ~ UNCHANGED fileVars PROVE FileSteps
  OBVIOUS
<1>1. MCNext
  BY DEF allVars
<1> QED
  BY <1>1 DEF MCNext, FileSteps, InPlan, InShop, InFile, InTree, InMail, InHttp, InCsv, InVault

LEMMA FileStep == FileInv /\ [MCNext]_allVars => FileInv'
<1> SUFFICES ASSUME FileInv, [MCNext]_allVars PROVE FileInv'
  OBVIOUS
<1>1. CASE UNCHANGED fileVars
  BY <1>1, FileKept DEF fileVars
<1>2. CASE FileSteps
  <2>1. ASSUME NEW r \in Requests, NEW c \in Contents, Docs!StartUpload(r, c) PROVE FileInv'
    BY <2>1, ReviseInv DEF Docs!StartUpload
  <2>2. ASSUME NEW r \in Requests, NEW n \in Docs!Numbers, Docs!StartRestore(r, n) PROVE FileInv'
    <3>1. stored[n] \in Contents /\ Docs!Revise(r, stored[n])
      BY <2>2 DEF Docs!StartRestore, FileInv, FileType
    <3> QED
      BY <3>1, ReviseInv
  <2>3. ASSUME NEW r \in Requests, Docs!PutBytes(r) PROVE FileInv'
    BY <2>3, PutBytesInv
  <2>4. ASSUME NEW r \in Requests, Docs!CreateVersion(r) PROVE FileInv'
    BY <2>4, CreateVersionInv
  <2>5. ASSUME NEW r \in Requests, Docs!DeleteBytes(r) PROVE FileInv'
    BY <2>5, DeleteBytesInv
  <2>6. ASSUME NEW r \in Requests, Docs!UpdateCurrent(r) PROVE FileInv'
    BY <2>6, UpdateCurrentInv
  <2>7. ASSUME NEW r \in Requests, Docs!UpsertFileText(r) \/ Docs!Crash(r) PROVE FileInv'
    BY <2>7, FileEnds DEF Docs!UpsertFileText, Docs!Crash
  <2> QED
    BY <1>2, <2>1, <2>2, <2>3, <2>4, <2>5, <2>6, <2>7 DEF FileSteps
<1> QED
  BY <1>1, <1>2, FileOfStep

LEMMA FileInvHolds == MCSpec => []FileInv
<1>1. MCInit => FileInv
  BY FileInit DEF MCInit
<1> QED
  BY <1>1, FileStep, PTL DEF MCSpec

-----------------------------------------------------------------------------
(* The folders: who ends up inside himself was passed by another move. *)

Folder(r) == treeWork[r].folder
Step == [folder : Tree!Places, to : Tree!Places, at : Tree!Places, moved : SUBSET Ids]

TreeType ==
  /\ Tree!Folders \subseteq Ids
  /\ parent \in [Tree!Folders -> Tree!Folders \cup {Root}]
  /\ passed \in [Ids -> SUBSET Ids]
  /\ treePc \in [Requests -> {"idle", "walk", "write"}]
  /\ treeWork \in [Requests -> Step]
  /\ \A r \in Requests : treePc[r] # "idle" =>
       /\ Folder(r) \in Tree!Folders
       /\ treeWork[r].to \in (Tree!Folders \cup {Root}) \ {Folder(r)}
       /\ treeWork[r].at \in Tree!Folders \cup {Root}
       /\ treePc[r] = "write" <=> treeWork[r].at = Root

\* C leads nowhere but into itself.
Closed(C, above) == C # {} /\ C \subseteq DOMAIN above /\ \A x \in C : above[x] \in C

\* Two moves of folders of C passed each other.
Race(C, past) == \E g \in C : past[g] \cap C # {}

\* The folders V that w has walked past lead on to each other and to the one it
\* looks at next, but for those that were moved since.
Walked(w, V, above) ==
  /\ V \subseteq DOMAIN above /\ w.folder \notin V /\ w.to \in V \cup {w.at}
  /\ \A x \in V : x \notin w.moved => above[x] \in V \cup {w.at}

TreeInv ==
  /\ TreeType
  /\ \A r \in Requests : treePc[r] # "idle" => \E V : Walked(treeWork[r], V, parent)
  /\ \A C : Closed(C, parent) => Race(C, passed)

LEMMA TreeInit == Tree!Init => TreeInv
<1> SUFFICES ASSUME Tree!Init PROVE TreeInv
  OBVIOUS
<1>1. parent = << >> /\ DOMAIN parent = {}
  BY DEF Tree!Init
<1>2. Tree!NoWork \in Step
  BY DEF Tree!NoWork, Step, Tree!Places
<1>3. parent \in [{} -> {} \cup {Root}]
  <2>1. parent = [x \in {} |-> parent[x]]
    BY <1>1
  <2> QED
    BY <2>1
<1>4. TreeType
  BY <1>1, <1>2, <1>3 DEF Tree!Init, TreeType, Tree!Folders
<1> QED
  BY <1>1, <1>4 DEF Tree!Init, TreeInv, Closed

\* A request goes on with w, or ends; the tree stays as it is.
LEMMA TreeMoves ==
  ASSUME TreeInv, NEW r \in Requests, NEW label \in {"idle", "walk", "write"}, NEW w \in Step,
         treePc' = [treePc EXCEPT ![r] = label], treeWork' = [treeWork EXCEPT ![r] = w],
         UNCHANGED <<parent, passed>>,
         label # "idle" =>
           /\ w.folder \in Tree!Folders
           /\ w.to \in (Tree!Folders \cup {Root}) \ {w.folder}
           /\ w.at \in Tree!Folders \cup {Root}
           /\ label = "write" <=> w.at = Root
           /\ \E V : Walked(w, V, parent)
  PROVE  TreeInv'
<1>1. /\ treePc'[r] = label /\ treeWork'[r] = w
      /\ \A q \in Requests : q # r => treePc'[q] = treePc[q] /\ treeWork'[q] = treeWork[q]
      /\ treePc' \in [Requests -> {"idle", "walk", "write"}] /\ treeWork' \in [Requests -> Step]
  BY DEF TreeInv, TreeType
<1>2. Tree!Folders' = Tree!Folders
  BY DEF Tree!Folders
<1>3. ASSUME NEW q \in Requests, treePc'[q] # "idle"
      PROVE  /\ Folder(q)' \in Tree!Folders
             /\ treeWork'[q].to \in (Tree!Folders \cup {Root}) \ {Folder(q)'}
             /\ treeWork'[q].at \in Tree!Folders \cup {Root}
             /\ treePc'[q] = "write" <=> treeWork'[q].at = Root
             /\ \E V : Walked(treeWork'[q], V, parent)
  <2>1. CASE q = r
    BY <1>1, <1>3, <2>1 DEF Folder
  <2>2. CASE q # r
    BY <1>1, <1>3, <2>2 DEF TreeInv, TreeType, Folder
  <2> QED
    BY <2>1, <2>2
<1>4. TreeType'
  BY <1>1, <1>2, <1>3 DEF TreeInv, TreeType
<1> QED
  BY <1>3, <1>4 DEF TreeInv

LEMMA TreeEnds ==
  ASSUME TreeInv, NEW r \in Requests, Tree!Finish(r), UNCHANGED <<parent, passed>>
  PROVE  TreeInv'
<1>1. Tree!NoWork \in Step
  BY DEF Tree!NoWork, Step, Tree!Places
<1>2. treePc' = [treePc EXCEPT ![r] = "idle"] /\ treeWork' = [treeWork EXCEPT ![r] = Tree!NoWork]
  BY DEF Tree!Finish
<1>3. "idle" \in {"idle", "walk", "write"}
  OBVIOUS
<1> QED
  BY <1>1, <1>2, <1>3, TreeMoves

LEMMA TreeKept ==
  ASSUME TreeInv, UNCHANGED <<parent, passed, treePc, treeWork>> PROVE TreeInv'
BY DEF TreeInv, TreeType, Folder, Tree!Folders

LEMMA StartMoveInv ==
  ASSUME TreeInv, NEW r \in Requests, NEW f \in Ids, NEW to \in Tree!Places, Tree!StartMove(r, f, to)
  PROVE  TreeInv'
<1> DEFINE w == [folder |-> f, to |-> to, at |-> to, moved |-> {}]
           label == IF to = Root THEN "write" ELSE "walk"
<1>1. /\ f \in Tree!Folders /\ to \in (Tree!Folders \cup {Root}) \ {f}
      /\ treeWork' = [treeWork EXCEPT ![r] = w] /\ treePc' = [treePc EXCEPT ![r] = label]
      /\ UNCHANGED <<parent, passed>>
  BY DEF Tree!StartMove
<1>2. /\ w \in Step /\ w.folder = f /\ w.to = to /\ w.at = to
      /\ label \in {"idle", "walk", "write"} /\ (label = "write" <=> w.at = Root)
  BY DEF Step, Tree!Places
<1>3. Walked(w, {}, parent)
  BY DEF Walked
<1> HIDE DEF w, label
<1> QED
  BY <1>1, <1>2, <1>3, TreeMoves

LEMMA WalkUpInv ==
  ASSUME TreeInv, NEW r \in Requests, Tree!WalkUp(r) PROVE TreeInv'
<1>1. treePc[r] = "walk" /\ UNCHANGED <<parent, passed>>
  BY DEF Tree!WalkUp
<1>2. CASE treeWork[r].at = treeWork[r].folder
  BY <1>1, <1>2, TreeEnds DEF Tree!WalkUp
<1>3. CASE treeWork[r].at # treeWork[r].folder
  <2> DEFINE at == treeWork[r].at
             w == [treeWork[r] EXCEPT !.at = parent[at]]
             label == IF parent[at] = Root THEN "write" ELSE "walk"
  <2>1. /\ treeWork' = [treeWork EXCEPT ![r] = w] /\ treePc' = [treePc EXCEPT ![r] = label]
    BY <1>3 DEF Tree!WalkUp, Tree!AtTheTop
  <2>2. /\ treeWork[r] \in Step /\ at \in Tree!Folders /\ at # treeWork[r].folder
        /\ treeWork[r].folder \in Tree!Folders
        /\ treeWork[r].to \in (Tree!Folders \cup {Root}) \ {treeWork[r].folder}
    BY <1>1, <1>3 DEF TreeInv, TreeType, Folder
  <2>3. parent[at] \in Tree!Folders \cup {Root} /\ Tree!Folders \subseteq Ids
    BY <2>2 DEF TreeInv, TreeType
  <2>4. /\ w \in Step /\ w.folder = treeWork[r].folder /\ w.to = treeWork[r].to
        /\ w.at = parent[at] /\ w.moved = treeWork[r].moved
    BY <2>2, <2>3 DEF Step, Tree!Places
  <2>5. PICK V : Walked(treeWork[r], V, parent)
    BY <1>1 DEF TreeInv
  <2> HIDE DEF w
  <2>6. Walked(w, V \cup {at}, parent)
    BY <2>2, <2>4, <2>5 DEF Walked, Tree!Folders
  <2>7. label \in {"idle", "walk", "write"} /\ (label = "write" <=> w.at = Root)
    BY <2>4
  <2> HIDE DEF label, at
  <2> QED
    BY <1>1, <2>1, <2>2, <2>3, <2>4, <2>6, <2>7, TreeMoves
<1> QED
  BY <1>2, <1>3

LEMMA CreateFolderInv ==
  ASSUME TreeInv, NEW f \in Ids, NEW place \in Tree!Places, Tree!CreateFolder(f, place)
  PROVE  TreeInv'
<1>1. /\ f \notin Tree!Folders /\ place \in Tree!Folders \cup {Root}
      /\ parent' = [g \in Tree!Folders \cup {f} |-> IF g = f THEN place ELSE parent[g]]
      /\ UNCHANGED <<passed, treePc, treeWork>>
  BY DEF Tree!CreateFolder
<1>2. /\ Tree!Folders' = Tree!Folders \cup {f} /\ parent'[f] = place
      /\ \A x \in Tree!Folders : parent'[x] = parent[x] /\ parent[x] # f
  <2>1. Root \notin Ids
    BY TreeAssumption DEF Tree!ConstantsOK
  <2> QED
    BY <1>1, <2>1 DEF TreeInv, TreeType, Tree!Folders
<1>3. TreeType'
  <2>1. parent' \in [Tree!Folders' -> Tree!Folders' \cup {Root}]
    BY <1>1, <1>2 DEF TreeInv, TreeType
  <2> QED
    BY <1>1, <1>2, <2>1 DEF TreeInv, TreeType, Folder
<1>4. ASSUME NEW q \in Requests, treePc'[q] # "idle" PROVE \E V : Walked(treeWork'[q], V, parent')
  <2>1. PICK V : Walked(treeWork[q], V, parent)
    BY <1>1, <1>4 DEF TreeInv
  <2>2. Walked(treeWork[q], V, parent')
    BY <1>2, <2>1 DEF Walked, Tree!Folders
  <2> QED
    BY <1>1, <2>2
<1>5. ASSUME NEW C, Closed(C, parent') PROVE Race(C, passed)
  <2> DEFINE D == C \ {f}
  <2>1. D # {}
    <3>1. CASE f \in C
      <4>1. place \in C /\ place # f
        BY <1>1, <1>2, <1>5, <3>1, TreeAssumption DEF Closed, Tree!ConstantsOK
      <4> QED
        BY <4>1
    <3>2. CASE f \notin C
      BY <1>5, <3>2 DEF Closed
    <3> QED
      BY <3>1, <3>2
  <2>2. Closed(D, parent)
    BY <1>2, <1>5, <2>1 DEF Closed, Tree!Folders
  <2>3. Race(D, passed)
    BY <2>2 DEF TreeInv
  <2> QED
    BY <2>3 DEF Race
<1> QED
  BY <1>1, <1>3, <1>4, <1>5 DEF TreeInv

\* The write: whoever is in a circle then was passed by another, for the walk has
\* looked at all of it.
LEMMA WriteMoveInv ==
  ASSUME TreeInv, NEW r \in Requests, Tree!WriteMove(r) PROVE TreeInv'
<1> DEFINE f == Folder(r)
           to == treeWork[r].to
           moved == treeWork[r].moved
<1>1. /\ treePc[r] = "write"
      /\ parent' = [parent EXCEPT ![f] = to]
      /\ passed' = [passed EXCEPT ![f] = moved]
      /\ treePc' = [treePc EXCEPT ![r] = "idle"]
      /\ treeWork' = [q \in Requests |->
           IF q = r THEN Tree!NoWork
           ELSE IF treePc[q] = "idle" THEN treeWork[q]
                ELSE [treeWork[q] EXCEPT !.moved = @ \cup {f}]]
  BY DEF Tree!WriteMove, Folder
<1>2. /\ f \in Tree!Folders /\ to \in (Tree!Folders \cup {Root}) \ {f}
      /\ treeWork[r].at = Root /\ moved \in SUBSET Ids /\ Tree!Folders \subseteq Ids
      /\ Root \notin Ids
  BY <1>1, TreeAssumption DEF TreeInv, TreeType, Step, Folder, Tree!ConstantsOK
<1>3. PICK V : Walked(treeWork[r], V, parent)
  BY <1>1 DEF TreeInv
<1> HIDE DEF f, to, moved
<1>4. /\ Tree!Folders' = Tree!Folders /\ parent'[f] = to /\ passed'[f] = moved
      /\ \A x \in Tree!Folders : x # f => parent'[x] = parent[x]
      /\ \A x \in Tree!Folders : x # f => passed'[x] = passed[x]
  BY <1>1, <1>2 DEF TreeInv, TreeType, Tree!Folders
<1>5. ASSUME NEW q \in Requests, treePc'[q] # "idle"
      PROVE  /\ q # r /\ treePc'[q] = treePc[q] /\ treePc[q] # "idle"
             /\ Folder(q)' = Folder(q) /\ treeWork'[q].to = treeWork[q].to
             /\ treeWork'[q].at = treeWork[q].at
             /\ treeWork'[q].moved = treeWork[q].moved \cup {f} /\ treeWork'[q] \in Step
  <2>1. q # r /\ treePc'[q] = treePc[q] /\ treePc[q] # "idle" /\ treeWork[q] \in Step
    BY <1>1, <1>5 DEF TreeInv, TreeType
  <2>2. treeWork'[q] = [treeWork[q] EXCEPT !.moved = @ \cup {f}]
    BY <1>1, <2>1
  <2> QED
    BY <1>2, <2>1, <2>2 DEF Step, Folder
<1>6. TreeType'
  <2>1. /\ parent' \in [Tree!Folders -> Tree!Folders \cup {Root}]
        /\ passed' \in [Ids -> SUBSET Ids]
        /\ treePc' \in [Requests -> {"idle", "walk", "write"}]
    BY <1>1, <1>2 DEF TreeInv, TreeType
  <2>2. treeWork' \in [Requests -> Step]
    <3>1. Tree!NoWork \in Step
      BY DEF Tree!NoWork, Step, Tree!Places
    <3>2. ASSUME NEW q \in Requests PROVE treeWork'[q] \in Step
      <4>1. CASE treePc'[q] # "idle"
        BY <1>5, <4>1
      <4>2. CASE treePc'[q] = "idle"
        BY <1>1, <3>1, <4>2 DEF TreeInv, TreeType
      <4> QED
        BY <4>1, <4>2
    <3>3. treeWork' = [q \in Requests |-> treeWork'[q]]
      BY <1>1
    <3> QED
      BY <3>2, <3>3
  <2> QED
    BY <1>2, <1>4, <1>5, <2>1, <2>2 DEF TreeInv, TreeType
<1>7. ASSUME NEW q \in Requests, treePc'[q] # "idle" PROVE \E W : Walked(treeWork'[q], W, parent')
  <2>1. PICK W : Walked(treeWork[q], W, parent)
    BY <1>5, <1>7 DEF TreeInv
  <2>2. Walked(treeWork'[q], W, parent')
    <3>1. DOMAIN parent' = DOMAIN parent
      BY <1>4 DEF Tree!Folders
    <3>2. treeWork'[q].folder = treeWork[q].folder
      BY <1>5, <1>7 DEF Folder
    <3> QED
      BY <1>4, <1>5, <1>7, <2>1, <3>1, <3>2 DEF Walked, Tree!Folders
  <2> QED
    BY <2>2
<1>8. ASSUME NEW C, Closed(C, parent') PROVE Race(C, passed')
  <2>0. C \subseteq Tree!Folders /\ C # {} /\ \A x \in C : parent'[x] \in C
    BY <1>4, <1>8 DEF Closed, Tree!Folders
  <2>1. CASE f \notin C
    <3>1. Closed(C, parent)
      BY <1>4, <2>0, <2>1 DEF Closed, Tree!Folders
    <3>2. PICK g \in C : passed[g] \cap C # {}
      BY <3>1 DEF TreeInv, Race
    <3>3. passed'[g] = passed[g]
      BY <1>4, <2>0, <2>1
    <3> QED
      BY <3>2, <3>3 DEF Race
  <2>2. CASE f \in C /\ moved \cap C # {}
    BY <1>4, <2>2 DEF Race
  <2>3. CASE f \in C /\ moved \cap C = {}
    <3> DEFINE D == C \cap V
    <3>1. to \in C /\ to # Root
      BY <1>2, <1>4, <2>0, <2>3
    <3>2. to \in V /\ f \notin V
      BY <1>2, <1>3, <3>1 DEF Walked, f, to, Folder
    <3>3. ASSUME NEW x \in D PROVE parent[x] \in D
      <4>1. x # f /\ x \notin moved /\ x \in Tree!Folders
        BY <2>0, <2>3, <3>2
      <4>2. parent[x] \in V \cup {Root}
        BY <1>2, <1>3, <4>1 DEF Walked, moved
      <4>3. parent[x] \in C
        BY <1>4, <2>0, <4>1
      <4>4. parent[x] # Root
        BY <1>2, <2>0, <4>3
      <4> QED
        BY <4>2, <4>3, <4>4
    <3>4. Closed(D, parent)
      BY <2>0, <3>1, <3>2, <3>3 DEF Closed, Tree!Folders
    <3>5. PICK g \in D : passed[g] \cap D # {}
      BY <3>4 DEF TreeInv, Race
    <3>6. passed'[g] = passed[g] /\ g \in C
      BY <1>4, <2>0, <3>2
    <3> QED
      BY <3>5, <3>6 DEF Race
  <2> QED
    BY <2>1, <2>2, <2>3
<1> QED
  BY <1>6, <1>7, <1>8 DEF TreeInv

TreeSteps ==
  \/ \E f \in Ids, to \in Tree!Places : Tree!CreateFolder(f, to)
  \/ \E r \in Requests, f \in Ids, to \in Tree!Places : Tree!StartMove(r, f, to)
  \/ \E r \in Requests : Tree!WalkUp(r) \/ Tree!WriteMove(r) \/ Tree!Fail(r)

LEMMA TreeOfStep == [MCNext]_allVars => TreeSteps \/ UNCHANGED treeVars
<1> SUFFICES ASSUME [MCNext]_allVars, ~ UNCHANGED treeVars PROVE TreeSteps
  OBVIOUS
<1>1. MCNext
  BY DEF allVars
<1> QED
  BY <1>1 DEF MCNext, TreeSteps, InPlan, InShop, InFile, InTree, InMail, InHttp, InCsv, InVault

LEMMA TreeStep == TreeInv /\ [MCNext]_allVars => TreeInv'
<1> SUFFICES ASSUME TreeInv, [MCNext]_allVars PROVE TreeInv'
  OBVIOUS
<1>1. CASE UNCHANGED treeVars
  BY <1>1, TreeKept DEF treeVars
<1>2. CASE TreeSteps
  <2>1. ASSUME NEW f \in Ids, NEW to \in Tree!Places, Tree!CreateFolder(f, to) PROVE TreeInv'
    BY <2>1, CreateFolderInv
  <2>2. ASSUME NEW r \in Requests, NEW f \in Ids, NEW to \in Tree!Places, Tree!StartMove(r, f, to)
        PROVE  TreeInv'
    BY <2>2, StartMoveInv
  <2>3. ASSUME NEW r \in Requests, Tree!WalkUp(r) PROVE TreeInv'
    BY <2>3, WalkUpInv
  <2>4. ASSUME NEW r \in Requests, Tree!WriteMove(r) PROVE TreeInv'
    BY <2>4, WriteMoveInv
  <2>5. ASSUME NEW r \in Requests, Tree!Fail(r) PROVE TreeInv'
    BY <2>5, TreeEnds DEF Tree!Fail
  <2> QED
    BY <1>2, <2>1, <2>2, <2>3, <2>4, <2>5 DEF TreeSteps
<1> QED
  BY <1>1, <1>2, TreeOfStep

LEMMA TreeInvHolds == MCSpec => []TreeInv
<1>1. MCInit => TreeInv
  BY TreeInit DEF MCInit
<1> QED
  BY <1>1, TreeStep, PTL DEF MCSpec

\* The folders from f upwards, n steps of the way.
Way(u, f, n) == IF n = 0 THEN {f} ELSE u[n - 1] \cup {parent[g] : g \in u[n - 1] \ {Root}}

\* Either u leads nowhere but into itself, and does not get back to f if it ends at
\* the top, or there is one folder at its end which leads out of it, and the others
\* do not lead to f.
Circle(u, f) ==
  /\ \A y \in u \ {Root} : parent[y] \in u
  /\ Root \in u => \A y \in u \ {Root} : parent[y] # f
Chain(u, f) == Root \notin u /\ \E h \in u :
  parent[h] \notin u /\ \A y \in u : y # h => parent[y] \in u /\ parent[y] # f

LEMMA WayExists ==
  ASSUME NEW f, NEW N \in Nat PROVE \E u : u = [n \in 0 .. N |-> Way(u, f, n)]
<1> DEFINE G == {k \in Nat : \E u : u = [n \in 0 .. k |-> Way(u, f, n)]}
<1>1. 0 \in G
  <2> DEFINE u == [n \in 0 .. 0 |-> {f}]
  <2>1. u = [n \in 0 .. 0 |-> Way(u, f, n)]
    BY DEF Way
  <2> QED
    BY <2>1
<1>2. ASSUME NEW k \in Nat, k \in G PROVE k + 1 \in G
  <2>1. PICK v : v = [n \in 0 .. k |-> Way(v, f, n)]
    BY <1>2
  <2> DEFINE u == [n \in 0 .. k + 1 |-> Way(v, f, n)]
  <2>2. \A n \in 0 .. k : u[n] = v[n]
    <3>1. \A n \in 0 .. k : v[n] = Way(v, f, n)
      BY <2>1
    <3>2. \A n \in 0 .. k : n \in 0 .. k + 1
      OBVIOUS
    <3> QED
      BY <3>1, <3>2
  <2>3. ASSUME NEW n \in 0 .. k + 1 PROVE Way(u, f, n) = Way(v, f, n)
    <3>1. CASE n = 0
      BY <3>1 DEF Way
    <3>2. CASE n # 0
      <4>1. n - 1 \in 0 .. k
        BY <3>2
      <4>2. u[n - 1] = v[n - 1]
        BY <2>2, <4>1
      <4> HIDE DEF u
      <4> QED
        BY <3>2, <4>2 DEF Way
    <3> QED
      BY <3>1, <3>2
  <2>4. u = [n \in 0 .. k + 1 |-> Way(u, f, n)]
    BY <2>3
  <2> HIDE DEF u
  <2> QED
    BY <2>4
<1>3. \A k \in Nat : k \in G
  <2> HIDE DEF G
  <2> QED
    BY <1>1, <1>2, NatInSet
<1> QED
  BY <1>3

LEMMA IdsAreFinite == Cardinality(Ids) \in Nat /\ Tree!Cardinality(Ids) = Cardinality(Ids)
<1>1. IsFiniteSet(Ids)
  BY TreeAssumption DEF Tree!ConstantsOK, Tree!IsFiniteSet, IsFiniteSet
<1>2. Tree!Cardinality(Ids) = Cardinality(Ids)
  BY DEF Tree!Cardinality, Cardinality, Tree!IsFiniteSet, IsFiniteSet
<1> QED
  BY <1>1, <1>2, FS_CardinalityType

LEMMA AboveIs ==
  ASSUME NEW f
  PROVE  \E u : u = [n \in 0 .. Cardinality(Ids) |-> Way(u, f, n)]
                /\ Tree!Above(f) = u[Cardinality(Ids)] \ {Root}
<1> DEFINE N == Cardinality(Ids)
           u == CHOOSE v : v = [n \in 0 .. N |-> Way(v, f, n)]
<1>1. N \in Nat /\ Tree!Cardinality(Ids) = N
  BY IdsAreFinite
<1>2. u = [n \in 0 .. N |-> Way(u, f, n)]
  BY <1>1, WayExists
<1>3. Tree!Above(f) = u[N] \ {Root}
  BY <1>1 DEF Tree!Above, Way
<1> QED
  BY <1>2, <1>3

LEMMA WayIsChain ==
  ASSUME TreeType, NEW f \in Tree!Folders, NEW N \in Nat, NEW u, u = [n \in 0 .. N |-> Way(u, f, n)]
  PROVE  f \in u[N] /\ u[N] \subseteq Tree!Folders \cup {Root} /\ (Circle(u[N], f) \/ Chain(u[N], f))
<1> DEFINE Good(s) == /\ f \in s /\ s \subseteq Tree!Folders \cup {Root}
                      /\ Circle(s, f) \/ Chain(s, f)
           G == {n \in Nat : n \in 0 .. N => Good(u[n])}
<1>a. f # Root /\ Root \notin Tree!Folders
  BY TreeAssumption DEF Tree!ConstantsOK, TreeType
<1>b. \A x \in Tree!Folders : parent[x] \in Tree!Folders \cup {Root}
  BY DEF TreeType
<1>c. \A n \in 0 .. N : u[n] = Way(u, f, n)
  OBVIOUS
<1>1. 0 \in G
  <2>1. u[0] = {f}
    BY <1>c DEF Way
  <2>2. Good({f})
    BY <1>a DEF Circle, Chain
  <2> QED
    BY <2>1, <2>2
<1>2. ASSUME NEW n \in Nat, n \in G PROVE n + 1 \in G
  <2> SUFFICES ASSUME n + 1 \in 0 .. N PROVE Good(u[n + 1])
    OBVIOUS
  <2> DEFINE s == u[n]
  <2>1. n \in 0 .. N /\ n + 1 # 0 /\ (n + 1) - 1 = n
    OBVIOUS
  <2>2. Good(s)
    BY <1>2, <2>1
  <2>3. u[n + 1] = s \cup {parent[g] : g \in s \ {Root}}
    BY <1>c, <2>1 DEF Way
  <2> HIDE DEF s
  <2>4. CASE Circle(s, f)
    <3>1. s \cup {parent[g] : g \in s \ {Root}} = s
      BY <2>4 DEF Circle
    <3> QED
      BY <2>2, <2>3, <3>1
  <2>5. CASE Chain(s, f)
    <3>1. PICK h \in s : /\ parent[h] \notin s
                         /\ \A y \in s : y # h => parent[y] \in s /\ parent[y] # f
      BY <2>5 DEF Chain
    <3> DEFINE x == parent[h]
               t == s \cup {x}
    <3>2. Root \notin s
      BY <2>5 DEF Chain
    <3>3. s \cup {parent[g] : g \in s \ {Root}} = t
      BY <3>1, <3>2
    <3>4. h \in Tree!Folders /\ x \in Tree!Folders \cup {Root} /\ x # f
      BY <1>b, <2>2, <3>1, <3>2
    <3> HIDE DEF x
    <3>5. \A y \in s : parent[y] \in t /\ parent[y] # f
      BY <3>1, <3>4 DEF x
    <3>6. Circle(t, f) \/ Chain(t, f)
      <4>1. CASE x = Root
        BY <3>2, <3>5, <4>1 DEF Circle
      <4>2. CASE x # Root /\ parent[x] \in t
        BY <3>2, <3>5, <4>2 DEF Circle
      <4>3. CASE x # Root /\ parent[x] \notin t
        BY <3>2, <3>5, <4>3 DEF Chain
      <4> QED
        BY <4>1, <4>2, <4>3
    <3> QED
      BY <2>2, <2>3, <3>3, <3>4, <3>6
  <2> QED
    BY <2>2, <2>4, <2>5
<1>3. \A n \in Nat : n \in G
  <2> HIDE DEF G
  <2> QED
    BY <1>1, <1>2, NatInSet
<1>4. N \in 0 .. N
  OBVIOUS
<1> QED
  BY <1>3, <1>4

LEMMA CircleIsClosed ==
  ASSUME TreeType, NEW f \in Tree!Folders, Tree!OnCycle(f)
  PROVE  Closed(Tree!Above(f), parent)
<1> DEFINE N == Cardinality(Ids)
<1>1. N \in Nat /\ Root \notin Tree!Folders
  BY IdsAreFinite, TreeAssumption DEF Tree!ConstantsOK, TreeType
<1>2. PICK u : u = [n \in 0 .. N |-> Way(u, f, n)] /\ Tree!Above(f) = u[N] \ {Root}
  BY AboveIs
<1> HIDE DEF N
<1>3. f \in u[N] /\ u[N] \subseteq Tree!Folders \cup {Root} /\ (Circle(u[N], f) \/ Chain(u[N], f))
  BY <1>1, <1>2, WayIsChain
<1>4. PICK g \in u[N] \ {Root} : parent[g] = f
  BY <1>2 DEF Tree!OnCycle
<1>5. Circle(u[N], f)
  BY <1>3, <1>4 DEF Chain
<1>6. Root \notin u[N]
  BY <1>4, <1>5 DEF Circle
<1> QED
  BY <1>2, <1>3, <1>5, <1>6 DEF Closed, Circle, Tree!Folders

\* For any number of requests that write a file and move folders at a time, and
\* wherever they die: the history of a file is one line with the bytes it was made
\* of but for the numbers that two of them wrote, and a folder gets into itself only
\* if two moves passed each other (documentsvc/ecm.go:164-198, :273-365).
THEOREM FilesAndTreeLast == MCSpec => []FilesAndFoldersLast
<1>1. FileInv => Docs!CurrentFollowsHistory /\ Docs!BytesLastUnlessContested
  BY DEF FileInv, LineInv, BytesInv, Docs!CurrentFollowsHistory, Docs!BytesLastUnlessContested
<1>2. TreeInv => Tree!CyclesNeedARace
  BY CircleIsClosed DEF TreeInv, Race, Tree!CyclesNeedARace
<1> QED
  BY <1>1, <1>2, FileInvHolds, TreeInvHolds, PTL DEF FilesAndFoldersLast

-----------------------------------------------------------------------------
(* An order: it is delivered once, and its shares make up the whole. *)

Schedules == [1 .. MOSteps -> {"pending", "done"}]
ShopWork == [step : 0 .. MOSteps, qty : Nat, version : Nat, round : Nat]
EachShare == Need \div MOSteps
Done == {i \in 1 .. MOSteps : steps[i] = "done"}
DoneCount == IF steps = << >> THEN 0 ELSE Cardinality(Done)

ShopType ==
  /\ status \in {"in_progress", "produced", "canceled"} /\ version \in Nat
  /\ steps \in {<< >>} \cup Schedules
  /\ consumed \in Nat /\ dropped \in Nat /\ level \in Nat /\ produced \in Nat
  /\ overtaken \in BOOLEAN
  /\ shopPc \in [Requests -> {"idle", "complete", "produce", "schedule"}]
  /\ shopWork \in [Requests -> ShopWork]
  /\ \A r \in Requests :
       /\ shopWork[r].round <= produced
       /\ shopPc[r] = "complete" =>
            /\ steps \in Schedules /\ shopWork[r].step \in 1 .. MOSteps
            /\ shopWork[r].qty = Shop!Share(shopWork[r].step)
       /\ shopPc[r] = "produce" => shopWork[r].qty = Need

\* r has read the schedule there is.
Current(r) == shopWork[r].round = produced

\* Who completes a step of the schedule there is finds the steps before it done, and
\* its own one too if the order is produced by now; who produces in one go finds no
\* schedule.
StepsInv == \A r \in Requests : Current(r) =>
  /\ shopPc[r] = "complete" =>
       /\ \A j \in 1 .. MOSteps : j < shopWork[r].step => steps[j] = "done"
       /\ status = "produced" /\ ~ overtaken => steps[shopWork[r].step] = "done"
  /\ shopPc[r] = "produce" => steps = << >>

ShareInv == ~ overtaken =>
  consumed + dropped = IF status = "produced" THEN Need ELSE DoneCount * EachShare

DeliveredInv == received = IF status = "produced" THEN 1 ELSE 0

ShopInv == ShopType /\ StepsInv /\ ShareInv /\ DeliveredInv

LEMMA ShopConstants ==
  /\ Need \in Nat /\ MOSteps \in Nat /\ MOSteps >= 1 /\ Opening \in Nat /\ EachShare \in Nat
  /\ << >> \notin Schedules
  /\ \A i \in 1 .. MOSteps : i # MOSteps => Shop!Share(i) = EachShare
  /\ Shop!Share(MOSteps) = Need - EachShare * (MOSteps - 1)
  /\ \A i \in 1 .. MOSteps : Shop!Share(i) \in Nat
<1>1. Need \in Nat /\ MOSteps \in Nat /\ MOSteps >= 1 /\ Opening \in Nat
  BY ShopAssumption DEF Shop!ConstantsOK
<1>2. EachShare \in Nat /\ EachShare * MOSteps <= Need
  BY <1>1 DEF EachShare
<1>3. << >> \notin Schedules
  <2>1. 1 \in 1 .. MOSteps /\ DOMAIN << >> = {}
    BY <1>1
  <2> QED
    BY <2>1 DEF Schedules
<1>4. Shop!Share(MOSteps) = Need - EachShare * (MOSteps - 1)
  BY DEF Shop!Share, EachShare
<1>5. \A i \in 1 .. MOSteps : i # MOSteps => Shop!Share(i) = EachShare
  BY DEF Shop!Share, EachShare
<1>6. EachShare * (MOSteps - 1) \in Nat /\ EachShare * (MOSteps - 1) <= EachShare * MOSteps
        /\ EachShare * MOSteps \in Nat
  BY <1>1, <1>2
<1>7. Need - EachShare * (MOSteps - 1) \in Nat
  BY <1>1, <1>2, <1>6
<1>8. \A i \in 1 .. MOSteps : Shop!Share(i) \in Nat
  BY <1>2, <1>4, <1>5, <1>7
<1> QED
  BY <1>1, <1>2, <1>3, <1>4, <1>5, <1>8

LEMMA DoneIs == ShopType => Shop!DoneSteps = DoneCount
<1> SUFFICES ASSUME ShopType PROVE Shop!DoneSteps = DoneCount
  OBVIOUS
<1>1. \A S : Shop!Cardinality(S) = Cardinality(S)
  BY DEF Shop!Cardinality, Cardinality, Shop!IsFiniteSet, IsFiniteSet
<1>2. CASE steps = << >>
  <2>1. {i \in DOMAIN steps : steps[i] = "done"} = {}
    BY <1>2
  <2> QED
    BY <1>1, <1>2, <2>1, FS_EmptySet DEF Shop!DoneSteps, DoneCount
<1>3. CASE steps # << >>
  <2>1. DOMAIN steps = 1 .. MOSteps
    BY <1>3 DEF ShopType, Schedules
  <2> QED
    BY <1>1, <1>3, <2>1 DEF Shop!DoneSteps, DoneCount, Done
<1> QED
  BY <1>2, <1>3

LEMMA ShopInit == Shop!Init => ShopInv
<1> SUFFICES ASSUME Shop!Init PROVE ShopInv
  OBVIOUS
<1>1. Shop!NoWork \in ShopWork /\ Shop!NoWork.round = 0
  BY ShopConstants DEF Shop!NoWork, ShopWork
<1>a. /\ status = "in_progress" /\ version = 1 /\ steps = << >> /\ level = Opening
      /\ consumed = 0 /\ dropped = 0 /\ received = 0 /\ produced = 0 /\ overtaken = FALSE
      /\ shopPc = [r \in Requests |-> "idle"] /\ shopWork = [r \in Requests |-> Shop!NoWork]
  BY DEF Shop!Init
<1>b. \A r \in Requests : shopWork[r].round <= produced /\ shopPc[r] = "idle"
  BY <1>1, <1>a
<1>c. shopPc \in [Requests -> {"idle", "complete", "produce", "schedule"}]
      /\ shopWork \in [Requests -> ShopWork]
  BY <1>1, <1>a
<1>2. ShopType
  BY <1>a, <1>b, <1>c, ShopConstants DEF ShopType
<1>3. StepsInv
  BY DEF Shop!Init, StepsInv
<1>4. ShareInv
  BY ShopConstants DEF Shop!Init, ShareInv, DoneCount
<1>5. DeliveredInv
  BY DEF Shop!Init, DeliveredInv
<1> QED
  BY <1>2, <1>3, <1>4, <1>5 DEF ShopInv

\* A transaction starts with what it has read, or is rolled back.
LEMMA QuietShop ==
  ASSUME ShopInv, NEW r \in Requests, NEW label \in {"idle", "complete", "produce", "schedule"},
         NEW w \in ShopWork,
         shopPc' = [shopPc EXCEPT ![r] = label], shopWork' = [shopWork EXCEPT ![r] = w],
         UNCHANGED <<status, version, steps, level, consumed, dropped, received, produced, overtaken>>,
         w.round <= produced,
         label = "complete" =>
           /\ steps \in Schedules /\ w.step \in 1 .. MOSteps /\ w.qty = Shop!Share(w.step)
           /\ \A j \in 1 .. MOSteps : j < w.step => steps[j] = "done"
           /\ status = "in_progress",
         label = "produce" => w.qty = Need /\ steps = << >>
  PROVE  ShopInv'
<1>1. /\ shopPc'[r] = label /\ shopWork'[r] = w
      /\ \A q \in Requests : q # r => shopPc'[q] = shopPc[q] /\ shopWork'[q] = shopWork[q]
      /\ shopPc' \in [Requests -> {"idle", "complete", "produce", "schedule"}]
      /\ shopWork' \in [Requests -> ShopWork]
  BY DEF ShopInv, ShopType
<1>2. ASSUME NEW q \in Requests
      PROVE  /\ shopWork'[q].round <= produced
             /\ shopPc'[q] = "complete" =>
                  /\ steps \in Schedules /\ shopWork'[q].step \in 1 .. MOSteps
                  /\ shopWork'[q].qty = Shop!Share(shopWork'[q].step)
             /\ shopPc'[q] = "produce" => shopWork'[q].qty = Need
  <2>1. CASE q = r
    BY <1>1, <2>1
  <2>2. CASE q # r
    BY <1>1, <2>2 DEF ShopInv, ShopType
  <2> QED
    BY <2>1, <2>2
<1>3. ShopType'
  BY <1>1, <1>2 DEF ShopInv, ShopType
<1>4. ASSUME NEW q \in Requests, Current(q)'
      PROVE  /\ shopPc'[q] = "complete" =>
                  /\ \A j \in 1 .. MOSteps : j < shopWork'[q].step => steps[j] = "done"
                  /\ status = "produced" /\ ~ overtaken => steps[shopWork'[q].step] = "done"
             /\ shopPc'[q] = "produce" => steps = << >>
  <2>1. CASE q = r
    BY <1>1, <2>1
  <2>2. CASE q # r
    BY <1>1, <1>4, <2>2 DEF ShopInv, StepsInv, Current
  <2> QED
    BY <2>1, <2>2
<1>5. StepsInv'
  BY <1>4 DEF StepsInv
<1>6. ShareInv' /\ DeliveredInv'
  BY DEF ShopInv, ShareInv, DeliveredInv, DoneCount, Done
<1> QED
  BY <1>3, <1>5, <1>6 DEF ShopInv

LEMMA ShopStarts ==
  ASSUME ShopInv, NEW r \in Requests,
         \/ Shop!StartSchedule(r) \/ Shop!StartProduce(r)
         \/ \E i \in 1 .. MOSteps : Shop!StartComplete(r, i)
         \/ Shop!RollBack(r)
  PROVE  ShopInv'
<1> DEFINE Read(i, qty) == [step |-> i, qty |-> qty, version |-> version, round |-> produced]
<1>1. version \in Nat /\ produced \in Nat /\ produced <= produced
  BY DEF ShopInv, ShopType
<1>2. \A i \in 0 .. MOSteps, qty \in Nat : Read(i, qty) \in ShopWork
  BY <1>1 DEF ShopWork
<1>3. 0 \in 0 .. MOSteps /\ \A i \in 1 .. MOSteps : i \in 0 .. MOSteps
  BY ShopConstants
<1>4. CASE Shop!StartSchedule(r)
  <2>1. /\ shopPc' = [shopPc EXCEPT ![r] = "schedule"]
        /\ shopWork' = [shopWork EXCEPT ![r] = Read(0, 0)]
        /\ UNCHANGED <<status, version, steps, level, consumed, dropped, received, produced, overtaken>>
    BY <1>4 DEF Shop!StartSchedule, Shop!Start
  <2>2. Read(0, 0) \in ShopWork /\ Read(0, 0).round = produced
    BY <1>2, <1>3
  <2>3. "schedule" \in {"idle", "complete", "produce", "schedule"}
    OBVIOUS
  <2> HIDE DEF Read
  <2> QED
    BY <1>1, <2>1, <2>2, <2>3, QuietShop
<1>5. CASE Shop!StartProduce(r)
  <2>1. /\ shopPc' = [shopPc EXCEPT ![r] = "produce"]
        /\ shopWork' = [shopWork EXCEPT ![r] = Read(0, Need)] /\ steps = << >>
        /\ UNCHANGED <<status, version, steps, level, consumed, dropped, received, produced, overtaken>>
    BY <1>5 DEF Shop!StartProduce, Shop!Start
  <2>2. Read(0, Need) \in ShopWork /\ Read(0, Need).round = produced /\ Read(0, Need).qty = Need
    BY <1>2, <1>3, ShopConstants
  <2>3. "produce" \in {"idle", "complete", "produce", "schedule"}
    OBVIOUS
  <2> HIDE DEF Read
  <2> QED
    BY <1>1, <2>1, <2>2, <2>3, QuietShop
<1>6. ASSUME NEW i \in 1 .. MOSteps, Shop!StartComplete(r, i) PROVE ShopInv'
  <2> DEFINE w == Read(i, Shop!Share(i))
  <2>1. /\ shopPc' = [shopPc EXCEPT ![r] = "complete"]
        /\ shopWork' = [shopWork EXCEPT ![r] = w]
        /\ i \in DOMAIN steps /\ status = "in_progress" /\ \A j \in 1 .. i - 1 : steps[j] = "done"
        /\ UNCHANGED <<status, version, steps, level, consumed, dropped, received, produced, overtaken>>
    BY <1>6 DEF Shop!StartComplete, Shop!Start
  <2>2. w \in ShopWork /\ w.round = produced /\ w.step = i /\ w.qty = Shop!Share(i)
    BY <1>2, <1>3, ShopConstants
  <2>3. steps \in Schedules
    BY <2>1 DEF ShopInv, ShopType
  <2>4. "complete" \in {"idle", "complete", "produce", "schedule"}
    OBVIOUS
  <2>5. \A j \in 1 .. MOSteps : j < i => steps[j] = "done"
    BY <2>1, ShopConstants
  <2> HIDE DEF w, Read
  <2> QED
    BY <1>1, <2>1, <2>2, <2>3, <2>4, <2>5, QuietShop
<1>7. CASE Shop!RollBack(r)
  <2>1. /\ shopPc' = [shopPc EXCEPT ![r] = "idle"]
        /\ shopWork' = [shopWork EXCEPT ![r] = Shop!NoWork]
        /\ UNCHANGED <<status, version, steps, level, consumed, dropped, received, produced, overtaken>>
    BY <1>7 DEF Shop!RollBack, Shop!Finish
  <2>2. Shop!NoWork \in ShopWork /\ Shop!NoWork.round <= produced
    BY <1>1, <1>3 DEF Shop!NoWork, ShopWork
  <2>3. "idle" \in {"idle", "complete", "produce", "schedule"}
    OBVIOUS
  <2> QED
    BY <2>1, <2>2, <2>3, QuietShop
<1> QED
  BY <1>4, <1>5, <1>6, <1>7

LEMMA CancelInv == ASSUME ShopInv, Shop!Cancel PROVE ShopInv'
<1>1. /\ status = "in_progress" /\ status' = "canceled" /\ version' = version + 1
      /\ UNCHANGED <<steps, level, consumed, dropped, received, produced, overtaken, shopPc, shopWork>>
  BY DEF Shop!Cancel
<1>2. version \in Nat
  BY DEF ShopInv, ShopType
<1>3. version' \in Nat
  BY <1>1, <1>2
<1>4. ShopType'
  BY <1>1, <1>3 DEF ShopInv, ShopType
<1>5. StepsInv'
  BY <1>1 DEF ShopInv, StepsInv, Current
<1>6. ShareInv' /\ DeliveredInv'
  BY <1>1 DEF ShopInv, ShareInv, DeliveredInv, DoneCount, Done
<1> QED
  BY <1>4, <1>5, <1>6 DEF ShopInv

LEMMA ShopKept ==
  ASSUME ShopInv, UNCHANGED <<status, version, steps, consumed, dropped, received, produced, overtaken,
                              shopPc, shopWork>>,
         level' \in Nat
  PROVE  ShopInv'
BY DEF ShopInv, ShopType, StepsInv, Current, ShareInv, DeliveredInv, DoneCount, Done

LEMMA TakeElsewhereInv == ASSUME ShopInv, Shop!TakeElsewhere PROVE ShopInv'
<1>1. level > 0 /\ level' = level - 1 /\ level \in Nat
  BY DEF Shop!TakeElsewhere, ShopInv, ShopType
<1>2. level' \in Nat
  BY <1>1
<1> QED
  BY <1>2, ShopKept DEF Shop!TakeElsewhere

LEMMA DoneFacts ==
  /\ IsFiniteSet(Done) /\ Cardinality(Done) \in Nat
  /\ Cardinality({}) = 0
<1>1. MOSteps \in Nat
  BY ShopConstants
<1>2. IsFiniteSet(1 .. MOSteps) /\ Done \subseteq 1 .. MOSteps
  BY <1>1, FirstAreFinite DEF Done
<1>3. IsFiniteSet(Done)
  BY <1>2, FS_Subset
<1> QED
  BY <1>3, FS_CardinalityType, FS_EmptySet

LEMMA ReplaceInv ==
  ASSUME ShopInv, NEW r \in Requests, Shop!ReplaceMOOperations(r) PROVE ShopInv'
<1>1. /\ steps' = [i \in 1 .. MOSteps |-> "pending"] /\ produced' = produced + 1
      /\ overtaken' = (overtaken \/ DoneCount > 0)
      /\ shopPc' = [shopPc EXCEPT ![r] = "idle"]
      /\ shopWork' = [shopWork EXCEPT ![r] = Shop!NoWork]
      /\ UNCHANGED <<status, version, level, consumed, dropped, received>>
  BY DoneIs DEF Shop!ReplaceMOOperations, Shop!Finish, ShopInv
<1>2. produced \in Nat /\ DoneCount \in Nat /\ overtaken \in BOOLEAN
  BY DoneFacts DEF ShopInv, ShopType, DoneCount
<1>3. Shop!NoWork \in ShopWork /\ Shop!NoWork.round = 0
  BY ShopConstants DEF Shop!NoWork, ShopWork
<1>4. steps' \in Schedules /\ steps' # << >> /\ Done' = {}
  BY <1>1, ShopConstants DEF Schedules, Done
<1>5. DoneCount' = 0
  BY <1>4, DoneFacts DEF DoneCount
<1>6. /\ shopPc'[r] = "idle" /\ shopWork'[r].round = 0
      /\ \A q \in Requests : q # r => shopPc'[q] = shopPc[q] /\ shopWork'[q] = shopWork[q]
      /\ shopPc' \in [Requests -> {"idle", "complete", "produce", "schedule"}]
      /\ shopWork' \in [Requests -> ShopWork]
  BY <1>1, <1>3 DEF ShopInv, ShopType
<1>7. \A q \in Requests : shopWork[q].round \in Nat /\ shopWork[q].round <= produced
  BY DEF ShopInv, ShopType, ShopWork
<1>8. ASSUME NEW q \in Requests
      PROVE  /\ shopWork'[q].round <= produced'
             /\ shopPc'[q] # "idle" => q # r /\ shopWork'[q].round # produced'
  <2>1. CASE q = r
    BY <1>1, <1>2, <1>6, <2>1
  <2>2. CASE q # r
    BY <1>1, <1>2, <1>6, <1>7, <2>2
  <2> QED
    BY <2>1, <2>2
<1>9. ASSUME NEW q \in Requests
      PROVE  /\ shopPc'[q] = "complete" =>
                  /\ steps' \in Schedules /\ shopWork'[q].step \in 1 .. MOSteps
                  /\ shopWork'[q].qty = Shop!Share(shopWork'[q].step)
             /\ shopPc'[q] = "produce" => shopWork'[q].qty = Need
  BY <1>4, <1>6, <1>8 DEF ShopInv, ShopType
<1>10. ShopType'
  <2>1. produced' \in Nat /\ overtaken' \in BOOLEAN
    BY <1>1, <1>2
  <2>2. steps' \in {<< >>} \cup Schedules
    BY <1>4
  <2>3. /\ status' \in {"in_progress", "produced", "canceled"} /\ version' \in Nat
        /\ consumed' \in Nat /\ dropped' \in Nat /\ level' \in Nat
    BY <1>1 DEF ShopInv, ShopType
  <2> QED
    BY <1>6, <1>8, <1>9, <2>1, <2>2, <2>3 DEF ShopType
<1>11. StepsInv'
  BY <1>8 DEF StepsInv, Current
<1>12. ShareInv'
  <2> SUFFICES ASSUME ~ overtaken' PROVE ShareInv'
    BY DEF ShareInv
  <2>a. ~ overtaken /\ ~ (DoneCount > 0)
    BY <1>1, Zenon
  <2>1. ~ overtaken /\ DoneCount = 0
    BY <1>2, <2>a
  <2>2. EachShare \in Nat
    BY ShopConstants
  <2>3. consumed + dropped = IF status = "produced" THEN Need ELSE 0
    BY <2>1, <2>2 DEF ShopInv, ShareInv
  <2> QED
    BY <1>1, <1>5, <2>2, <2>3 DEF ShareInv
<1>13. DeliveredInv'
  BY <1>1 DEF ShopInv, DeliveredInv
<1> QED
  BY <1>10, <1>11, <1>12, <1>13 DEF ShopInv

LEMMA ConsumeAdds ==
  ASSUME ShopType, NEW qty \in Nat, Shop!Consume(qty)
  PROVE  /\ level' \in Nat /\ consumed' \in Nat /\ dropped' \in Nat
         /\ consumed' + dropped' = consumed + dropped + qty
<1>1. level \in Nat /\ consumed \in Nat /\ dropped \in Nat
  BY DEF ShopType
<1>2. CASE qty <= level
  BY <1>1, <1>2 DEF Shop!Consume
<1>3. CASE ~ (qty <= level)
  BY <1>1, <1>3 DEF Shop!Consume
<1> QED
  BY <1>2, <1>3

LEMMA ProduceInv ==
  ASSUME ShopInv, NEW r \in Requests, Shop!Produce(r) PROVE ShopInv'
<1>1. /\ shopPc[r] = "produce" /\ status = "in_progress" /\ Shop!Consume(shopWork[r].qty)
      /\ overtaken' = (overtaken \/ shopWork[r].round # produced)
      /\ status' = "produced" /\ version' = version + 1 /\ received' = received + 1
      /\ shopPc' = [shopPc EXCEPT ![r] = "idle"]
      /\ shopWork' = [shopWork EXCEPT ![r] = Shop!NoWork]
      /\ UNCHANGED <<steps, produced>>
  BY DEF Shop!Produce, Shop!MayMark, Shop!Deliver, Shop!Finish
<1>2. /\ shopWork[r].qty = Need /\ version \in Nat /\ produced \in Nat /\ Need \in Nat
      /\ overtaken \in BOOLEAN
  BY <1>1, ShopConstants DEF ShopInv, ShopType
<1>3. /\ level' \in Nat /\ consumed' \in Nat /\ dropped' \in Nat
      /\ consumed' + dropped' = consumed + dropped + Need
  BY <1>1, <1>2, ConsumeAdds DEF ShopInv
<1>4. Shop!NoWork \in ShopWork /\ Shop!NoWork.round = 0
  BY ShopConstants DEF Shop!NoWork, ShopWork
<1>5. /\ shopPc'[r] = "idle" /\ shopWork'[r].round = 0
      /\ \A q \in Requests : q # r => shopPc'[q] = shopPc[q] /\ shopWork'[q] = shopWork[q]
      /\ shopPc' \in [Requests -> {"idle", "complete", "produce", "schedule"}]
      /\ shopWork' \in [Requests -> ShopWork]
  BY <1>1, <1>4 DEF ShopInv, ShopType
<1>6. ASSUME NEW q \in Requests
      PROVE  /\ shopWork'[q].round <= produced
             /\ shopPc'[q] = "complete" =>
                  /\ steps \in Schedules /\ shopWork'[q].step \in 1 .. MOSteps
                  /\ shopWork'[q].qty = Shop!Share(shopWork'[q].step)
             /\ shopPc'[q] = "produce" => shopWork'[q].qty = Need
  <2>1. CASE q = r
    BY <1>2, <1>5, <2>1
  <2>2. CASE q # r
    BY <1>5, <2>2 DEF ShopInv, ShopType
  <2> QED
    BY <2>1, <2>2
<1>7. ShopType'
  <2>1. version' \in Nat /\ overtaken' \in BOOLEAN
    BY <1>1, <1>2
  <2>2. steps' \in {<< >>} \cup Schedules /\ produced' \in Nat
    BY <1>1 DEF ShopInv, ShopType
  <2> QED
    BY <1>1, <1>3, <1>5, <1>6, <2>1, <2>2 DEF ShopType
<1>8. ~ overtaken' => ~ overtaken /\ steps = << >>
  BY <1>1, <1>2 DEF ShopInv, StepsInv, Current
<1>9. StepsInv'
  <2> SUFFICES ASSUME NEW q \in Requests, Current(q)'
               PROVE  /\ shopPc'[q] = "complete" =>
                           /\ \A j \in 1 .. MOSteps : j < shopWork'[q].step => steps[j] = "done"
                           /\ ~ overtaken' => steps[shopWork'[q].step] = "done"
                      /\ shopPc'[q] = "produce" => steps = << >>
    BY <1>1 DEF StepsInv
  <2>1. CASE q = r
    BY <1>5, <2>1
  <2>2. CASE q # r
    <3>1. Current(q) /\ shopPc'[q] = shopPc[q] /\ shopWork'[q] = shopWork[q]
      BY <1>1, <1>5, <2>2 DEF Current
    <3>2. shopPc[q] = "complete" => overtaken'
      BY <1>8, ShopConstants DEF ShopInv, ShopType
    <3> QED
      BY <3>1, <3>2 DEF ShopInv, StepsInv
  <2> QED
    BY <2>1, <2>2
<1>10. ShareInv'
  <2> SUFFICES ASSUME ~ overtaken' PROVE ShareInv'
    BY DEF ShareInv
  <2>1. DoneCount = 0 /\ EachShare \in Nat
    BY <1>8, ShopConstants DEF DoneCount
  <2>2. consumed + dropped = 0
    BY <1>1, <1>8, <2>1 DEF ShopInv, ShareInv
  <2>a. consumed \in Nat /\ dropped \in Nat /\ Need \in Nat
    BY <1>2 DEF ShopInv, ShopType
  <2>b. consumed' + dropped' = (consumed + dropped) + Need
    BY <1>3
  <2>c. (consumed + dropped) + Need = 0 + Need
    BY <2>2
  <2>d. 0 + Need = Need
    BY <2>a
  <2>3. consumed' + dropped' = Need
    BY <2>b, <2>c, <2>d
  <2>4. status' = "produced"
    BY <1>1
  <2> QED
    BY <2>3, <2>4 DEF ShareInv
<1>11. DeliveredInv'
  BY <1>1 DEF ShopInv, DeliveredInv
<1> QED
  BY <1>7, <1>9, <1>10, <1>11 DEF ShopInv

LEMMA CompleteInv ==
  ASSUME ShopInv, NEW r \in Requests, Shop!CompleteOperation(r) PROVE ShopInv'
<1> DEFINE i == shopWork[r].step
           last == i = MOSteps
<1>1. /\ shopPc[r] = "complete" /\ steps[i] = "pending" /\ Shop!Consume(shopWork[r].qty)
      /\ steps' = [steps EXCEPT ![i] = "done"] /\ produced' = produced
      /\ overtaken' = (overtaken \/ shopWork[r].round # produced)
      /\ shopPc' = [shopPc EXCEPT ![r] = "idle"]
      /\ shopWork' = [shopWork EXCEPT ![r] = Shop!NoWork]
      /\ last => /\ status = "in_progress" /\ status' = "produced"
                 /\ version' = version + 1 /\ received' = received + 1
      /\ ~ last => UNCHANGED <<status, version, received>>
  BY DEF Shop!CompleteOperation, Shop!StillPending, Shop!MayMark, Shop!Deliver, Shop!Finish
<1>2. /\ steps \in Schedules /\ i \in 1 .. MOSteps /\ shopWork[r].qty = Shop!Share(i)
      /\ version \in Nat /\ produced \in Nat /\ overtaken \in BOOLEAN
  BY <1>1 DEF ShopInv, ShopType
<1>a. Shop!Share(i) \in Nat /\ EachShare \in Nat /\ Need \in Nat /\ MOSteps \in Nat /\ MOSteps >= 1
  BY <1>2, ShopConstants
<1> HIDE DEF i
<1>3. /\ level' \in Nat /\ consumed' \in Nat /\ dropped' \in Nat
      /\ consumed' + dropped' = consumed + dropped + Shop!Share(i)
  BY <1>1, <1>2, <1>a, ConsumeAdds DEF ShopInv
<1>4. Shop!NoWork \in ShopWork /\ Shop!NoWork.round = 0
  BY ShopConstants DEF Shop!NoWork, ShopWork
<1>5. /\ shopPc'[r] = "idle" /\ shopWork'[r].round = 0
      /\ \A q \in Requests : q # r => shopPc'[q] = shopPc[q] /\ shopWork'[q] = shopWork[q]
      /\ shopPc' \in [Requests -> {"idle", "complete", "produce", "schedule"}]
      /\ shopWork' \in [Requests -> ShopWork]
  BY <1>1, <1>4 DEF ShopInv, ShopType
<1>6. /\ steps' \in Schedules /\ steps'[i] = "done"
      /\ \A j \in 1 .. MOSteps : j # i => steps'[j] = steps[j]
  BY <1>1, <1>2 DEF Schedules
<1>7. ASSUME NEW q \in Requests
      PROVE  /\ shopWork'[q].round <= produced
             /\ shopPc'[q] = "complete" =>
                  /\ shopWork'[q].step \in 1 .. MOSteps
                  /\ shopWork'[q].qty = Shop!Share(shopWork'[q].step)
             /\ shopPc'[q] = "produce" => shopWork'[q].qty = Need
  <2>1. CASE q = r
    BY <1>2, <1>5, <2>1
  <2>2. CASE q # r
    BY <1>5, <2>2 DEF ShopInv, ShopType
  <2> QED
    BY <2>1, <2>2
<1>8. ShopType'
  <2>1. version' \in Nat /\ overtaken' \in BOOLEAN /\ produced' \in Nat
    BY <1>1, <1>2
  <2>2. status' \in {"in_progress", "produced", "canceled"}
    BY <1>1 DEF ShopInv, ShopType
  <2>3. steps' \in {<< >>} \cup Schedules
    BY <1>6
  <2> QED
    BY <1>1, <1>3, <1>5, <1>6, <1>7, <2>1, <2>2, <2>3 DEF ShopType
<1>9. ASSUME ~ overtaken'
      PROVE  /\ ~ overtaken /\ Current(r) /\ status # "produced"
             /\ \A j \in 1 .. MOSteps : j < i => steps[j] = "done"
  <2>1. ~ overtaken /\ Current(r)
    BY <1>1, <1>9 DEF Current
  <2>2. status = "produced" => steps[i] = "done"
    BY <1>1, <2>1 DEF ShopInv, StepsInv, i
  <2> QED
    BY <1>1, <2>1, <2>2 DEF ShopInv, StepsInv, i
<1>10. last /\ ~ overtaken' => \A j \in 1 .. MOSteps : steps'[j] = "done"
  <2> SUFFICES ASSUME last, ~ overtaken', NEW j \in 1 .. MOSteps PROVE steps'[j] = "done"
    OBVIOUS
  <2>1. CASE j = i
    BY <1>6, <2>1
  <2>2. CASE j # i
    <3>1. j < i
      BY <1>a, <2>2
    <3> QED
      BY <1>6, <1>9, <2>2, <3>1
  <2> QED
    BY <2>1, <2>2
<1>11. StepsInv'
  <2> SUFFICES ASSUME NEW q \in Requests, Current(q)'
               PROVE  /\ shopPc'[q] = "complete" =>
                           /\ \A j \in 1 .. MOSteps : j < shopWork'[q].step => steps'[j] = "done"
                           /\ status' = "produced" /\ ~ overtaken' =>
                                steps'[shopWork'[q].step] = "done"
                      /\ shopPc'[q] = "produce" => steps' = << >>
    BY DEF StepsInv
  <2>1. CASE q = r
    BY <1>5, <2>1
  <2>2. CASE q # r
    <3>1. Current(q) /\ shopPc'[q] = shopPc[q] /\ shopWork'[q] = shopWork[q]
      BY <1>1, <1>5, <2>2 DEF Current
    <3>2. shopPc[q] # "produce"
      BY <1>2, <3>1, ShopConstants DEF ShopInv, StepsInv
    <3>3. \A j \in 1 .. MOSteps : steps[j] = "done" => steps'[j] = "done"
      BY <1>6
    <3>4. ASSUME shopPc[q] = "complete"
          PROVE  /\ shopWork[q].step \in 1 .. MOSteps
                 /\ \A j \in 1 .. MOSteps : j < shopWork[q].step => steps'[j] = "done"
      BY <3>1, <3>3, <3>4 DEF ShopInv, ShopType, StepsInv
    <3>5. ASSUME shopPc[q] = "complete", status' = "produced", ~ overtaken'
          PROVE  steps'[shopWork[q].step] = "done"
      <4>1. CASE last
        BY <1>10, <3>4, <3>5, <4>1
      <4>2. CASE ~ last
        BY <1>1, <1>9, <3>5, <4>2
      <4> QED
        BY <4>1, <4>2
    <3> QED
      BY <3>1, <3>2, <3>4, <3>5
  <2> QED
    BY <2>1, <2>2
<1>12. Done' = Done \cup {i} /\ i \notin Done
  BY <1>1, <1>2, <1>6 DEF Done
<1>13. steps # << >> /\ steps' # << >>
  BY <1>2, <1>6, ShopConstants
<1>14. DoneCount' = DoneCount + 1 /\ DoneCount = Cardinality(Done) /\ DoneCount \in Nat
  BY <1>12, <1>13, DoneFacts, FS_AddElement DEF DoneCount
<1>15. ShareInv'
  <2> SUFFICES ASSUME ~ overtaken' PROVE ShareInv'
    BY DEF ShareInv
  <2>1. consumed + dropped = DoneCount * EachShare
    BY <1>9 DEF ShopInv, ShareInv
  <2>2. CASE ~ last
    <3>1. Shop!Share(i) = EachShare
      BY <1>2, <2>2, ShopConstants
    <3>2. status' # "produced"
      BY <1>1, <1>9, <2>2
    <3>3. consumed' + dropped' = DoneCount * EachShare + EachShare
      BY <1>3, <2>1, <3>1
    <3> DEFINE d == DoneCount
               k == EachShare
    <3>4. d \in Nat /\ k \in Nat
      BY <1>a, <1>14
    <3> HIDE DEF d, k
    <3>5. (d + 1) * k = d * k + k
      BY <3>4
    <3>6. (DoneCount + 1) * EachShare = DoneCount * EachShare + EachShare
      BY <3>5 DEF d, k
    <3>7. consumed' + dropped' = DoneCount' * EachShare
      BY <1>14, <3>3, <3>6
    <3> QED
      BY <3>2, <3>7 DEF ShareInv, EachShare
  <2>3. CASE last
    <3>1. Shop!Share(i) = Need - EachShare * (MOSteps - 1)
      BY <2>3, ShopConstants
    <3>2. status' = "produced"
      BY <1>1, <2>3
    <3>3. Done = 1 .. (MOSteps - 1)
      <4>1. ASSUME NEW j \in 1 .. MOSteps PROVE j \in Done <=> j \in 1 .. (MOSteps - 1)
        <5>1. j # i => steps[j] = "done"
          BY <1>9, <1>a, <2>3
        <5>2. j = i \/ j \in 1 .. (MOSteps - 1)
          BY <1>a, <2>3
        <5>3. i \notin 1 .. (MOSteps - 1)
          BY <1>a, <2>3
        <5> QED
          BY <1>12, <5>1, <5>2, <5>3 DEF Done
      <4>2. Done \subseteq 1 .. MOSteps /\ 1 .. (MOSteps - 1) \subseteq 1 .. MOSteps
        BY <1>a DEF Done
      <4> QED
        BY <4>1, <4>2
    <3>4. DoneCount = MOSteps - 1
      <4>1. Cardinality(1 .. (MOSteps - 1)) = MOSteps - 1
        <5>1. 1 \in Int /\ MOSteps - 1 \in Int /\ MOSteps - 1 >= 0
          BY <1>a
        <5>2. Cardinality(1 .. (MOSteps - 1)) =
                IF 1 > MOSteps - 1 THEN 0 ELSE (MOSteps - 1) - 1 + 1
          BY <5>1, FS_Interval
        <5> QED
          BY <5>1, <5>2
      <4> QED
        BY <1>14, <3>3, <4>1
    <3> DEFINE m == MOSteps - 1
               k == EachShare
    <3>5. m \in Nat /\ k \in Nat
      BY <1>a
    <3> HIDE DEF m, k
    <3>6. m * k = k * m /\ m * k \in Nat
      BY <3>5
    <3>7. consumed' + dropped' = m * k + (Need - k * m)
      BY <1>3, <2>1, <3>1, <3>4 DEF m, k
    <3>8. consumed' + dropped' = Need
      BY <1>a, <3>6, <3>7
    <3> QED
      BY <3>2, <3>8 DEF ShareInv
  <2> QED
    BY <2>2, <2>3
<1>16. DeliveredInv'
  <2>1. CASE last
    BY <1>1, <2>1 DEF ShopInv, DeliveredInv
  <2>2. CASE ~ last
    BY <1>1, <2>2 DEF ShopInv, DeliveredInv
  <2> QED
    BY <2>1, <2>2
<1> QED
  BY <1>8, <1>11, <1>15, <1>16 DEF ShopInv

ShopSteps ==
  \/ \E r \in Requests : \/ Shop!StartSchedule(r) \/ Shop!ReplaceMOOperations(r)
                         \/ Shop!CompleteOperation(r) \/ Shop!StartProduce(r)
                         \/ Shop!Produce(r) \/ Shop!RollBack(r)
  \/ \E r \in Requests, i \in 1 .. MOSteps : Shop!StartComplete(r, i)
  \/ Shop!Cancel \/ Shop!TakeElsewhere

LEMMA ShopOfStep == [MCNext]_allVars => ShopSteps \/ UNCHANGED shopVars
<1> SUFFICES ASSUME [MCNext]_allVars, ~ UNCHANGED shopVars PROVE ShopSteps
  OBVIOUS
<1>1. MCNext
  BY DEF allVars
<1> QED
  BY <1>1 DEF MCNext, ShopSteps, InPlan, InShop, InFile, InTree, InMail, InHttp, InCsv, InVault

LEMMA ShopStep == ShopInv /\ [MCNext]_allVars => ShopInv'
<1> SUFFICES ASSUME ShopInv, [MCNext]_allVars PROVE ShopInv'
  OBVIOUS
<1>1. CASE UNCHANGED shopVars
  <2>1. level' \in Nat
    BY <1>1 DEF shopVars, ShopInv, ShopType
  <2> QED
    BY <1>1, <2>1, ShopKept DEF shopVars
<1>2. CASE ShopSteps
  <2>1. ASSUME NEW r \in Requests,
               \/ Shop!StartSchedule(r) \/ Shop!StartProduce(r)
               \/ \E i \in 1 .. MOSteps : Shop!StartComplete(r, i)
               \/ Shop!RollBack(r)
        PROVE  ShopInv'
    BY <2>1, ShopStarts
  <2>2. ASSUME NEW r \in Requests, Shop!ReplaceMOOperations(r) PROVE ShopInv'
    BY <2>2, ReplaceInv
  <2>3. ASSUME NEW r \in Requests, Shop!CompleteOperation(r) PROVE ShopInv'
    BY <2>3, CompleteInv
  <2>4. ASSUME NEW r \in Requests, Shop!Produce(r) PROVE ShopInv'
    BY <2>4, ProduceInv
  <2> QED
    BY <1>2, <2>1, <2>2, <2>3, <2>4, CancelInv, TakeElsewhereInv DEF ShopSteps
<1> QED
  BY <1>1, <1>2, ShopOfStep

LEMMA ShopInvHolds == MCSpec => []ShopInv
<1>1. MCInit => ShopInv
  BY ShopInit DEF MCInit
<1> QED
  BY <1>1, ShopStep, PTL DEF MCSpec

-----------------------------------------------------------------------------
(* Schedules: who is the last to write has seen the others, or is blind to one. *)

\* What a plan books on s on day d, and what the plans of the orders in O do.
Minutes(plan, s, d) == SumOf([i \in Steps |-> BookedBy(plan[i], s, d)], DOMAIN plan)
LoadOf(book, O, s, d) == SumOf([o \in Orders |-> Minutes(book[o], s, d)], O)

\* An operation lies on days of its own, after those before it in the plan.
GoodOp(op) == op.start \in Nat /\ op.end \in Nat /\ op.start < op.end /\ op.minutes \in Nat
GoodPlan(plan) ==
  /\ DOMAIN plan \in {{}, Steps}
  /\ \A i \in DOMAIN plan : GoodOp(plan[i])
  /\ \A i, j \in DOMAIN plan : i < j => plan[i].end <= plan[j].start

\* The plan is flagged wherever it and the orders of O are too much.
Knows(plan, book, O) ==
  \A i \in DOMAIN plan : \A d \in plan[i].start .. plan[i].end - 1 :
    LET s == plan[i].station
    IN LoadOf(book, O, s, d) + BookedBy(plan[i], s, d) > DailyMinutes[s] => plan[i].overloaded

\* No two orders in O were scheduled blind to each other.
Sighted(O, pairs) == \A pair \in pairs : ~ (pair \subseteq O)

\* What r has seen is still there, but for the orders in missed.
Seen(r) ==
  /\ work[r].order \in Orders /\ GoodPlan(work[r].plan)
  /\ \A O \in SUBSET (Orders \ {work[r].order}) : O \cap work[r].missed = {} =>
       Knows(work[r].plan, ops, O)

\* Of orders that did not miss each other, the last to be written knows the others.
LastInv == \A O \in SUBSET Orders : O # {} /\ Sighted(O, blind) =>
  \E x \in O : Knows(ops[x], ops, O \ {x})

PlanInv ==
  /\ pc \in [Requests -> {"idle", "replace"}]
  /\ \E W : work \in [Requests -> W]
  /\ ops \in [Orders -> {ops[o] : o \in Orders}]
  /\ \A o \in Orders : GoodPlan(ops[o])
  /\ \A r \in Requests : pc[r] = "replace" => Seen(r)
  /\ LastInv

LEMMA PlanConstants ==
  /\ IsFiniteSet(Orders) /\ IsFiniteSet(Steps)
  /\ \A o \in Orders : OrderQty[o] \in Nat \ {0}
  /\ \A s \in Stations : DailyMinutes[s] \in Nat \ {0}
  /\ \E n \in Nat : Steps = 1 .. n
  /\ \A i \in Steps : /\ Routing[i].station \in Stations
                      /\ Routing[i].run \in Nat /\ Routing[i].setup \in Nat
                      /\ Routing[i].run + Routing[i].setup > 0
<1> DEFINE R == [station : Stations, run : Nat, setup : Nat]
<1>0. Routing \in Seq(R)
  BY PlanAssumption DEF ConstantsOK
<1> HIDE DEF R
<1>1. /\ Len(Routing) \in Nat /\ Steps = 1 .. Len(Routing)
      /\ \A i \in 1 .. Len(Routing) : Routing[i] \in R
  BY <1>0 DEF Steps
<1>2. IsFiniteSet(Steps)
  BY <1>1, FirstAreFinite
<1>3. \A i \in Steps : Routing[i] \in [station : Stations, run : Nat, setup : Nat]
  BY <1>1 DEF R
<1>4. \A i \in Steps : Routing[i].run + Routing[i].setup > 0
  BY PlanAssumption DEF ConstantsOK, Steps
<1> QED
  BY <1>1, <1>2, <1>3, <1>4, PlanAssumption DEF ConstantsOK

LEMMA SliceIsNat ==
  ASSUME NEW m \in Nat, NEW n \in Nat, n > 0, NEW k PROVE Slice(m, n, k) \in Nat
<1>1. m \div n \in Nat
  OBVIOUS
<1> QED
  BY <1>1 DEF Slice

LEMMA BookedByIs ==
  ASSUME NEW op, GoodOp(op), NEW s, NEW d
  PROVE  /\ BookedBy(op, s, d) \in Nat
         /\ BookedBy(op, s, d) # 0 => op.station = s /\ d \in op.start .. op.end - 1
         /\ op.station = s /\ d \in op.start .. op.end - 1 =>
              BookedBy(op, s, d) = Slice(op.minutes, op.end - op.start, d - op.start)
<1>1. op.end - op.start \in Nat /\ op.end - op.start > 0
  BY DEF GoodOp
<1>2. Slice(op.minutes, op.end - op.start, d - op.start) \in Nat
  BY <1>1, SliceIsNat DEF GoodOp
<1> QED
  BY <1>2 DEF BookedBy, spreadOp

LEMMA MinutesIs ==
  ASSUME NEW plan, GoodPlan(plan), NEW s, NEW d
  PROVE  /\ Minutes(plan, s, d) \in Nat
         /\ Minutes(plan, s, d) > 0 => \E i \in DOMAIN plan :
              BookedBy(plan[i], s, d) > 0 /\ Minutes(plan, s, d) = BookedBy(plan[i], s, d)
<1> DEFINE S == DOMAIN plan
           f == [i \in Steps |-> BookedBy(plan[i], s, d)]
<1>1. IsFiniteSet(S) /\ S \subseteq Steps
  BY PlanConstants, FS_EmptySet DEF GoodPlan
<1>2. \A i \in S : f[i] = BookedBy(plan[i], s, d) /\ f[i] \in Nat
  BY <1>1, BookedByIs DEF GoodPlan
<1>3. Minutes(plan, s, d) = SumOf(f, S)
  BY DEF Minutes
<1> HIDE DEF f
<1>4. SumOf(f, S) \in Nat
  BY <1>1, <1>2, SumGrows
<1>5. CASE \A i \in S : f[i] = 0
  BY <1>1, <1>3, <1>4, <1>5, SumZero
<1>6. CASE \E i \in S : f[i] # 0
  <2>1. PICK i \in S : f[i] # 0
    BY <1>6
  <2>2. ASSUME NEW j \in S \ {i} PROVE f[j] = 0
    <3> SUFFICES ASSUME f[j] # 0 PROVE FALSE
      OBVIOUS
    <3>1. GoodOp(plan[i]) /\ GoodOp(plan[j]) /\ i # j
      BY DEF GoodPlan
    <3>2. d \in plan[i].start .. plan[i].end - 1 /\ d \in plan[j].start .. plan[j].end - 1
      BY <1>2, <2>1, <3>1, BookedByIs
    <3>3. i \in Int /\ j \in Int
      BY <1>1, PlanConstants
    <3>4. CASE i < j
      BY <3>1, <3>2, <3>4 DEF GoodPlan, GoodOp
    <3>5. CASE j < i
      BY <3>1, <3>2, <3>5 DEF GoodPlan, GoodOp
    <3> QED
      BY <3>1, <3>3, <3>4, <3>5
  <2>3. f[i] \in Int /\ f[i] > 0
    BY <1>2, <2>1
  <2>4. SumOf(f, S) = f[i]
    <3> HIDE DEF S
    <3> QED
      BY <1>1, <2>2, <2>3, SumSingle
  <2> QED
    BY <1>2, <1>3, <1>4, <2>3, <2>4
<1> QED
  BY <1>5, <1>6

\* The sums of the model are sums in the sense of Sums.
LEMMA BookedIs ==
  ASSUME NEW o \in Orders, GoodPlan(ops[o]), NEW s, NEW d PROVE Booked(o, s, d) = Minutes(ops[o], s, d)
<1> DEFINE S == DOMAIN ops[o]
           f == [i \in Steps |-> BookedBy(ops[o][i], s, d)]
           IsBook(g) == g = [t \in SUBSET S |->
                       IF t = {} THEN 0 ELSE BookedBy(ops[o][Pick(t)], s, d) + g[t \ {Pick(t)}]]
           h == CHOOSE g : IsBook(g)
<1>1. IsFiniteSet(S) /\ S \subseteq Steps
  BY PlanConstants, FS_EmptySet DEF GoodPlan
<1>2. \A i \in S : f[i] = BookedBy(ops[o][i], s, d) /\ f[i] \in Int
  BY <1>1, BookedByIs DEF GoodPlan
<1>3. \A t \in SUBSET S : t # {} => Pick(t) \in S
  BY PickIn
<1>4. Booked(o, s, d) = h[S]
  BY DEF Booked, MapThenSumSet, MapThenFoldSet, Pick
<1>5. \E g : IsBook(g)
  <2>1. PICK g \in [SUBSET S -> Int] : \A t \in SUBSET S : g[t] = Unfold(f, g, t)
    <3> HIDE DEF f, S
    <3> QED
      BY <1>1, <1>2, TableExists, ZenonT(60)
  <2>2. IsBook(g)
    <3> HIDE DEF f
    <3> QED
      BY <1>2, <1>3, <2>1 DEF Unfold
  <2> QED
    BY <2>2
<1>6. IsBook(h)
  <2> HIDE DEF IsBook
  <2> QED
    BY <1>5
<1>7. IsTable(h, f, S)
  <2> HIDE DEF h, f
  <2> QED
    BY <1>2, <1>3, <1>6 DEF IsTable, Unfold
<1>8. Minutes(ops[o], s, d) = SumOf(f, S)
  BY DEF Minutes
<1> HIDE DEF f, S, h
<1>9. h[S] = SumOf(f, S)
  BY <1>1, <1>2, <1>7, TableIsSum
<1> QED
  BY <1>4, <1>8, <1>9

LEMMA LoadIs ==
  ASSUME \A o \in Orders : GoodPlan(ops[o]), NEW O \in SUBSET Orders, NEW s, NEW d, NEW from,
         ~ (d < from)
  PROVE  Load(O, s, d, from) = LoadOf(ops, O, s, d)
<1> DEFINE f == [o \in Orders |-> Minutes(ops[o], s, d)]
           IsBook(g) == g = [t \in SUBSET O |->
                       IF t = {} THEN 0 ELSE Booked(Pick(t), s, d) + g[t \ {Pick(t)}]]
           h == CHOOSE g : IsBook(g)
<1>1. IsFiniteSet(O)
  BY PlanConstants, FS_Subset
<1>2. \A o \in O : f[o] = Booked(o, s, d) /\ f[o] \in Int
  BY BookedIs, MinutesIs
<1>3. \A t \in SUBSET O : t # {} => Pick(t) \in O
  BY PickIn
<1>4. Load(O, s, d, from) = h[O]
  BY DEF Load, MapThenSumSet, MapThenFoldSet, Pick
<1>5. \E g : IsBook(g)
  <2>1. PICK g \in [SUBSET O -> Int] : \A t \in SUBSET O : g[t] = Unfold(f, g, t)
    <3> HIDE DEF f
    <3> QED
      BY <1>1, <1>2, TableExists, ZenonT(60)
  <2>2. IsBook(g)
    <3> HIDE DEF f
    <3> QED
      BY <1>2, <1>3, <2>1 DEF Unfold
  <2> QED
    BY <2>2
<1>6. IsBook(h)
  <2> HIDE DEF IsBook
  <2> QED
    BY <1>5
<1>7. IsTable(h, f, O)
  <2> HIDE DEF h, f
  <2> QED
    BY <1>2, <1>3, <1>6 DEF IsTable, Unfold
<1>8. LoadOf(ops, O, s, d) = SumOf(f, O)
  BY DEF LoadOf
<1> HIDE DEF f, h
<1>9. h[O] = SumOf(f, O)
  BY <1>1, <1>2, <1>7, TableIsSum
<1> QED
  BY <1>4, <1>8, <1>9

LEMMA MoreLoad ==
  ASSUME NEW book, \A o \in Orders : GoodPlan(book[o]), NEW P \in SUBSET Orders, NEW O \in SUBSET P,
         NEW s, NEW d
  PROVE  /\ LoadOf(book, O, s, d) \in Nat /\ LoadOf(book, P, s, d) \in Nat
         /\ LoadOf(book, O, s, d) <= LoadOf(book, P, s, d)
<1> DEFINE f == [o \in Orders |-> Minutes(book[o], s, d)]
<1>1. IsFiniteSet(P) /\ \A o \in P : f[o] \in Nat
  BY PlanConstants, FS_Subset, MinutesIs
<1>2. LoadOf(book, O, s, d) = SumOf(f, O) /\ LoadOf(book, P, s, d) = SumOf(f, P)
  BY DEF LoadOf
<1> HIDE DEF f
<1> QED
  BY <1>1, <1>2, SumGrows

\* Another schedule for an order outside O changes nothing for O.
LEMMA SameLoad ==
  ASSUME NEW book, \A o \in Orders : GoodPlan(book[o]), NEW other,
         NEW O \in SUBSET Orders, \A o \in O : other[o] = book[o], NEW s, NEW d
  PROVE  LoadOf(other, O, s, d) = LoadOf(book, O, s, d)
<1> DEFINE f == [o \in Orders |-> Minutes(book[o], s, d)]
           g == [o \in Orders |-> Minutes(other[o], s, d)]
<1>1. IsFiniteSet(O) /\ \A o \in O : f[o] \in Int
  BY PlanConstants, FS_Subset, MinutesIs
<1>2. \A o \in O : g[o] = f[o]
  OBVIOUS
<1>3. LoadOf(book, O, s, d) = SumOf(f, O) /\ LoadOf(other, O, s, d) = SumOf(g, O)
  BY DEF LoadOf
<1> HIDE DEF f, g
<1> QED
  BY <1>1, <1>2, <1>3, SumSame

LEMMA StillKnows ==
  ASSUME NEW plan, NEW book, \A o \in Orders : GoodPlan(book[o]), NEW other,
         NEW O \in SUBSET Orders, \A o \in O : other[o] = book[o], Knows(plan, book, O)
  PROVE  Knows(plan, other, O)
<1>1. \A s, d : LoadOf(other, O, s, d) = LoadOf(book, O, s, d)
  BY SameLoad
<1> QED
  BY <1>1 DEF Knows

LEMMA DaysAre ==
  ASSUME NEW i \in Steps, NEW qty \in Nat \ {0}
  PROVE  PlannedMinutes(i, qty) \in Nat /\ Days(i, qty) \in Nat /\ Days(i, qty) > 0
<1> DEFINE run == Routing[i].run
           setup == Routing[i].setup
           daily == DailyMinutes[Routing[i].station]
           m == PlannedMinutes(i, qty)
<1>1. run \in Nat /\ setup \in Nat /\ run + setup > 0 /\ daily \in Nat /\ daily > 0
  BY PlanConstants
<1>2. m = setup + run * qty /\ Days(i, qty) = (m + daily - 1) \div daily
  BY DEF PlannedMinutes, Days
<1> HIDE DEF run, setup, daily, m
<1>3. run * qty \in Nat /\ run * qty >= run
  <2>1. qty - 1 \in Nat
    OBVIOUS
  <2>2. run * (qty - 1) \in Nat /\ run * qty = run * (qty - 1) + run
    BY <1>1, <2>1
  <2> QED
    BY <1>1, <2>2
<1>4. m \in Nat /\ m >= 1
  BY <1>1, <1>2, <1>3
<1>5. (m + daily - 1) \div daily \in Nat /\ (m + daily - 1) \div daily > 0
  <2> DEFINE n == m + daily - 1
  <2>1. n \in Nat /\ n >= daily
    BY <1>1, <1>4
  <2> HIDE DEF n
  <2>2. n \div daily \in Nat
    BY <1>1, <2>1
  <2>3. n < daily * ((n \div daily) + 1)
    BY <1>1, <2>1
  <2>4. n \div daily # 0
    BY <1>1, <2>1, <2>3
  <2> QED
    BY <2>2, <2>4 DEF n
<1> QED
  BY <1>2, <1>4, <1>5 DEF m

\* The day on which the step after the first n starts.
DaysTo(o, n) == MapThenSumSet(LAMBDA j : Days(j, OrderQty[o]), 1 .. n)

LEMMA DaysToIs ==
  ASSUME NEW o \in Orders, NEW n \in Nat, 1 .. n \subseteq Steps
  PROVE  DaysTo(o, n) = SumOf([j \in Steps |-> Days(j, OrderQty[o])], 1 .. n)
<1> DEFINE S == 1 .. n
           f == [j \in Steps |-> Days(j, OrderQty[o])]
           IsBook(g) == g = [t \in SUBSET S |->
                       IF t = {} THEN 0 ELSE Days(Pick(t), OrderQty[o]) + g[t \ {Pick(t)}]]
           h == CHOOSE g : IsBook(g)
<1>1. IsFiniteSet(S)
  BY FirstAreFinite
<1>0. OrderQty[o] \in Nat \ {0} /\ S \subseteq Steps
  BY PlanConstants
<1>2. \A j \in S : f[j] = Days(j, OrderQty[o]) /\ f[j] \in Int
  <2> HIDE DEF S
  <2>1. \A j \in S : Days(j, OrderQty[o]) \in Nat
    BY <1>0, DaysAre
  <2> QED
    BY <1>0, <2>1
<1>3. \A t \in SUBSET S : t # {} => Pick(t) \in S
  BY PickIn
<1>4. DaysTo(o, n) = h[S]
  BY DEF DaysTo, MapThenSumSet, MapThenFoldSet, Pick
<1>5. \E g : IsBook(g)
  <2>0. \E g \in [SUBSET S -> Int] : \A t \in SUBSET S : g[t] = Unfold(f, g, t)
    <3>1. \A j \in S : f[j] \in Int
      BY <1>2
    <3> HIDE DEF f, S
    <3> QED
      BY <1>1, <3>1, TableExists
  <2>1. PICK g \in [SUBSET S -> Int] : \A t \in SUBSET S : g[t] = Unfold(f, g, t)
    BY <2>0
  <2>2. IsBook(g)
    <3> HIDE DEF f
    <3> QED
      BY <1>2, <1>3, <2>1 DEF Unfold
  <2> QED
    BY <2>2
<1>6. IsBook(h)
  <2> HIDE DEF IsBook
  <2> QED
    BY <1>5
<1>7. IsTable(h, f, S)
  <2> HIDE DEF h, f
  <2> QED
    BY <1>2, <1>3, <1>6 DEF IsTable, Unfold
<1> HIDE DEF f, h
<1>8. h[S] = SumOf(f, S)
  <2> HIDE DEF S
  <2> QED
    BY <1>1, <1>2, <1>7, TableIsSum
<1> QED
  BY <1>4, <1>8 DEF f

LEMMA DaysToGrow ==
  ASSUME NEW o \in Orders, NEW i \in Steps, NEW j \in Steps
  PROVE  /\ i \in Nat /\ i >= 1 /\ DaysTo(o, i - 1) \in Nat
         /\ i < j => DaysTo(o, i - 1) + Days(i, OrderQty[o]) <= DaysTo(o, j - 1)
<1> DEFINE f == [k \in Steps |-> Days(k, OrderQty[o])]
<1>1. PICK n \in Nat : Steps = 1 .. n
  BY PlanConstants
<1>2. /\ i \in Nat /\ i >= 1 /\ i - 1 \in Nat /\ 1 .. (i - 1) \subseteq Steps /\ 1 .. i \subseteq Steps
      /\ j \in Nat /\ j >= 1 /\ j - 1 \in Nat /\ 1 .. (j - 1) \subseteq Steps
  BY <1>1
<1>3. \A k \in Steps : f[k] \in Nat
  BY PlanConstants, DaysAre
<1>4. DaysTo(o, i - 1) = SumOf(f, 1 .. (i - 1)) /\ DaysTo(o, j - 1) = SumOf(f, 1 .. (j - 1))
  BY <1>2, DaysToIs
<1>5. f[i] = Days(i, OrderQty[o])
  OBVIOUS
<1> HIDE DEF f
<1>6. IsFiniteSet(1 .. (i - 1)) /\ IsFiniteSet(1 .. i) /\ IsFiniteSet(1 .. (j - 1))
  BY <1>2, FirstAreFinite
<1>7. SumOf(f, 1 .. (i - 1)) \in Nat
  <2>1. 1 .. (i - 1) \in SUBSET (1 .. (i - 1)) /\ \A k \in 1 .. (i - 1) : f[k] \in Nat
    BY <1>2, <1>3
  <2> HIDE DEF f
  <2> DEFINE T == 1 .. (i - 1)
  <2> HIDE DEF T
  <2> QED
    BY <1>6, <2>1, SumGrows DEF T
<1>8. ASSUME i < j PROVE SumOf(f, 1 .. (i - 1)) + f[i] <= SumOf(f, 1 .. (j - 1))
  <2> DEFINE S == 1 .. i
             U == 1 .. (j - 1)
  <2>1. S \ {i} = 1 .. (i - 1) /\ i \in S /\ S \in SUBSET U
    BY <1>2, <1>8
  <2>2. \A k \in S : f[k] \in Int
    BY <1>2, <1>3
  <2>3. \A k \in U : f[k] \in Nat
    BY <1>2, <1>3
  <2> HIDE DEF S, U
  <2>4. SumOf(f, S) = f[i] + SumOf(f, S \ {i})
    BY <1>6, <2>1, <2>2, SumStep DEF S
  <2>5. SumOf(f, S) <= SumOf(f, U)
    BY <1>6, <2>1, <2>3, SumGrows DEF U
  <2>6. SumOf(f, S) = f[i] + SumOf(f, 1 .. (i - 1)) /\ f[i] \in Nat
    BY <1>3, <2>1, <2>4
  <2> QED
    BY <1>7, <2>5, <2>6 DEF U
<1> QED
  BY <1>2, <1>4, <1>5, <1>7, <1>8

LEMMA ScheduleIs ==
  ASSUME NEW o \in Orders, NEW from
  PROVE  /\ DOMAIN ScheduleOperations(o, from) = Steps
         /\ \A i \in Steps :
              /\ ScheduleOperations(o, from)[i].station = Routing[i].station
              /\ ScheduleOperations(o, from)[i].minutes = PlannedMinutes(i, OrderQty[o])
              /\ ScheduleOperations(o, from)[i].start = from + DaysTo(o, i - 1)
              /\ ScheduleOperations(o, from)[i].end =
                   (from + DaysTo(o, i - 1)) + Days(i, OrderQty[o])
              /\ (\E k \in 0 .. Days(i, OrderQty[o]) - 1 :
                   Load(Orders \ {o}, Routing[i].station, (from + DaysTo(o, i - 1)) + k, from)
                     + Slice(PlannedMinutes(i, OrderQty[o]), Days(i, OrderQty[o]), k)
                     > DailyMinutes[Routing[i].station])
                   => ScheduleOperations(o, from)[i].overloaded
BY DEF ScheduleOperations, DaysTo

LEMMA ScheduleIsGood ==
  ASSUME NEW o \in Orders, NEW from \in Nat PROVE GoodPlan(ScheduleOperations(o, from))
<1> DEFINE plan == ScheduleOperations(o, from)
           days(i) == Days(i, OrderQty[o])
<1>1. DOMAIN plan = Steps
  BY ScheduleIs
<1>2. \A i \in Steps : /\ plan[i].minutes = PlannedMinutes(i, OrderQty[o])
                       /\ plan[i].start = from + DaysTo(o, i - 1)
                       /\ plan[i].end = (from + DaysTo(o, i - 1)) + days(i)
  BY ScheduleIs
<1>3. OrderQty[o] \in Nat \ {0}
  BY PlanConstants
<1>4. \A i \in Steps : PlannedMinutes(i, OrderQty[o]) \in Nat /\ days(i) \in Nat /\ days(i) > 0
  BY <1>3, DaysAre
<1>5. \A i \in Steps : DaysTo(o, i - 1) \in Nat
  BY DaysToGrow
<1> HIDE DEF plan
<1>6. \A i \in Steps : GoodOp(plan[i])
  BY <1>2, <1>4, <1>5 DEF GoodOp
<1>7. ASSUME NEW i \in Steps, NEW j \in Steps, i < j PROVE plan[i].end <= plan[j].start
  <2>1. DaysTo(o, i - 1) + days(i) <= DaysTo(o, j - 1)
    BY <1>7, DaysToGrow
  <2>2. DaysTo(o, i - 1) \in Nat /\ DaysTo(o, j - 1) \in Nat /\ days(i) \in Nat
    BY <1>4, <1>5
  <2>3. plan[i].end = (from + DaysTo(o, i - 1)) + days(i) /\ plan[j].start = from + DaysTo(o, j - 1)
    BY <1>2
  <2> HIDE DEF days
  <2> QED
    BY <2>1, <2>2, <2>3
<1> QED
  BY <1>1, <1>6, <1>7 DEF GoodPlan, plan

\* A new schedule knows the orders that are booked.
LEMMA ScheduleKnows ==
  ASSUME \A p \in Orders : GoodPlan(ops[p]), NEW o \in Orders, NEW from \in Nat,
         NEW O \in SUBSET (Orders \ {o})
  PROVE  Knows(ScheduleOperations(o, from), ops, O)
<1> DEFINE plan == ScheduleOperations(o, from)
<1>1. DOMAIN plan = Steps
  BY ScheduleIs
<1> SUFFICES ASSUME NEW i \in Steps, NEW d \in plan[i].start .. plan[i].end - 1,
                    LoadOf(ops, O, plan[i].station, d) + BookedBy(plan[i], plan[i].station, d)
                      > DailyMinutes[plan[i].station]
             PROVE  plan[i].overloaded
  BY <1>1 DEF Knows
<1> DEFINE s == Routing[i].station
           days == Days(i, OrderQty[o])
           start == from + DaysTo(o, i - 1)
           k == d - start
           minutes == PlannedMinutes(i, OrderQty[o])
           rest == Orders \ {o}
<1>2. /\ plan[i].station = s /\ plan[i].minutes = minutes
      /\ plan[i].start = start /\ plan[i].end = start + days
  BY ZenonT(60), ScheduleIs
<1>3. (\E n \in 0 .. days - 1 : Load(rest, s, start + n, from) + Slice(minutes, days, n) > DailyMinutes[s])
        => plan[i].overloaded
  BY ScheduleIs
<1>4. GoodOp(plan[i])
  BY <1>1, ScheduleIsGood DEF GoodPlan
<1>5. OrderQty[o] \in Nat \ {0} /\ s \in Stations /\ DailyMinutes[s] \in Nat
  BY PlanConstants
<1>6. days \in Nat /\ days > 0 /\ minutes \in Nat /\ DaysTo(o, i - 1) \in Nat
  BY <1>5, DaysAre, DaysToGrow
<1> HIDE DEF days, minutes, s
<1>7. start \in Nat /\ start >= from /\ d \in start .. (start + days) - 1
  BY <1>2, <1>6
<1> HIDE DEF start
<1>8. d \in Int /\ k \in 0 .. days - 1 /\ start + k = d /\ ~ (d < from)
  BY <1>6, <1>7
<1>9. BookedBy(plan[i], s, d) = Slice(minutes, days, k)
  <2>1. plan[i].end - plan[i].start = days /\ d - plan[i].start = k
    BY <1>2, <1>6, <1>7
  <2>2. d \in plan[i].start .. plan[i].end - 1
    OBVIOUS
  <2> HIDE DEF plan, k
  <2> QED
    BY <1>2, <1>4, <2>1, <2>2, BookedByIs
<1>10. Load(rest, s, d, from) = LoadOf(ops, rest, s, d)
  BY <1>8, LoadIs
<1>11. /\ LoadOf(ops, O, s, d) \in Nat /\ LoadOf(ops, rest, s, d) \in Nat
       /\ LoadOf(ops, O, s, d) <= LoadOf(ops, rest, s, d)
  BY MoreLoad
<1>12. Slice(minutes, days, k) \in Nat
  BY <1>6, SliceIsNat
<1>13. LoadOf(ops, O, s, d) + BookedBy(plan[i], s, d) > DailyMinutes[s]
  BY <1>2
<1> HIDE DEF plan, k, rest
<1>14. Load(rest, s, start + k, from) + Slice(minutes, days, k) > DailyMinutes[s]
  BY <1>5, <1>8, <1>9, <1>10, <1>11, <1>12, <1>13
<1> QED
  BY <1>3, <1>8, <1>14

LEMMA PlanInit == Init => PlanInv
<1> SUFFICES ASSUME Init PROVE PlanInv
  OBVIOUS
<1>1. \A o \in Orders : ops[o] = << >>
  BY DEF Init
<1>2. DOMAIN << >> = {}
  OBVIOUS
<1>3. \A o \in Orders : GoodPlan(ops[o])
  BY <1>1, <1>2 DEF GoodPlan
<1>4. work \in [Requests -> {NoWork}] /\ pc \in [Requests -> {"idle", "replace"}]
  BY DEF Init
<1>5. \A r \in Requests : pc[r] # "replace"
  BY DEF Init
<1>6. ops \in [Orders -> {ops[o] : o \in Orders}]
  BY DEF Init
<1>7. \A O \in SUBSET Orders : O # {} => \E x \in O : Knows(ops[x], ops, O \ {x})
  BY <1>1, <1>2 DEF Knows
<1> QED
  BY <1>3, <1>4, <1>5, <1>6, <1>7 DEF PlanInv, LastInv

\* One request moves and writes nothing that is booked.
LEMMA StartScheduleInv ==
  ASSUME PlanInv, NEW r \in Requests, NEW o \in Orders, NEW from \in Starts, StartSchedule(r, o, from)
  PROVE  PlanInv'
<1> DEFINE todo == [order |-> o, plan |-> ScheduleOperations(o, from), missed |-> {}]
<1>1. /\ work' = [work EXCEPT ![r] = todo] /\ pc' = [pc EXCEPT ![r] = "replace"]
      /\ UNCHANGED <<ops, rounds, blind>>
  BY DEF StartSchedule
<1>2. from \in Nat
  BY PlanAssumption DEF ConstantsOK
<1>3. GoodPlan(todo.plan) /\ \A O \in SUBSET (Orders \ {o}) : Knows(todo.plan, ops, O)
  BY <1>2, ScheduleIsGood, ScheduleKnows DEF PlanInv
<1>4. todo.order = o
  OBVIOUS
<1> HIDE DEF todo
<1>5. /\ work'[r] = todo /\ \A q \in Requests : q # r => work'[q] = work[q] /\ pc'[q] = pc[q]
      /\ pc' \in [Requests -> {"idle", "replace"}] /\ \E W : work' \in [Requests -> W]
  <2>1. PICK W : work \in [Requests -> W]
    BY DEF PlanInv
  <2>2. work' \in [Requests -> W \cup {todo}]
    BY <1>1, <2>1
  <2>3. pc' \in [Requests -> {"idle", "replace"}]
    BY <1>1 DEF PlanInv
  <2> QED
    BY <1>1, <2>1, <2>2, <2>3 DEF PlanInv
<1>6. ASSUME NEW q \in Requests, pc'[q] = "replace" PROVE Seen(q)'
  <2>1. CASE q = r
    BY <1>1, <1>3, <1>4, <1>5, <2>1 DEF Seen
  <2>2. CASE q # r
    <3>1. Seen(q)
      BY <1>5, <1>6, <2>2 DEF PlanInv
    <3> QED
      BY <1>1, <1>5, <2>2, <3>1 DEF Seen, Knows, LoadOf
  <2> QED
    BY <2>1, <2>2
<1> QED
  BY <1>1, <1>5, <1>6 DEF PlanInv, LastInv

LEMMA FailInv == ASSUME PlanInv, NEW r \in Requests, Fail(r) PROVE PlanInv'
<1>1. /\ work' = [work EXCEPT ![r] = NoWork] /\ pc' = [pc EXCEPT ![r] = "idle"]
      /\ UNCHANGED <<ops, rounds, blind>>
  BY DEF Fail, Finish
<1>2. /\ pc'[r] = "idle" /\ \A q \in Requests : q # r => work'[q] = work[q] /\ pc'[q] = pc[q]
      /\ pc' \in [Requests -> {"idle", "replace"}] /\ \E W : work' \in [Requests -> W]
  <2>1. PICK W : work \in [Requests -> W]
    BY DEF PlanInv
  <2>2. work' \in [Requests -> W \cup {NoWork}]
    BY <1>1, <2>1
  <2>3. pc' \in [Requests -> {"idle", "replace"}]
    BY <1>1 DEF PlanInv
  <2> QED
    BY <1>1, <2>1, <2>2, <2>3 DEF PlanInv
<1>3. ASSUME NEW q \in Requests, pc'[q] = "replace" PROVE Seen(q)'
  <2>1. q # r /\ Seen(q)
    BY <1>2, <1>3 DEF PlanInv
  <2> QED
    BY <1>1, <1>2, <2>1 DEF Seen, Knows, LoadOf
<1> QED
  BY <1>1, <1>2, <1>3 DEF PlanInv, LastInv

LEMMA ReplaceOperationsInv ==
  ASSUME PlanInv, NEW r \in Requests, ReplaceOperations(r) PROVE PlanInv'
<1> DEFINE o == work[r].order
           plan == work[r].plan
           missed == work[r].missed
<1>1. /\ pc[r] = "replace" /\ ops' = [ops EXCEPT ![o] = plan]
      /\ blind' = {pair \in blind : o \notin pair} \cup {{o, p} : p \in missed}
      /\ pc' = [pc EXCEPT ![r] = "idle"]
      /\ work' = [q \in Requests |->
           IF q = r THEN NoWork
           ELSE IF pc[q] = "replace" /\ work[q].order # o
           THEN [work[q] EXCEPT !.missed = @ \cup {o}] ELSE work[q]]
  BY DEF ReplaceOperations
<1>2. /\ o \in Orders /\ GoodPlan(plan)
      /\ \A O \in SUBSET (Orders \ {o}) : O \cap missed = {} => Knows(plan, ops, O)
  BY <1>1 DEF PlanInv, Seen
<1> HIDE DEF o, plan, missed
<1>3. ops'[o] = plan /\ \A p \in Orders \ {o} : ops'[p] = ops[p]
  BY <1>1, <1>2 DEF PlanInv
<1>4. ops' \in [Orders -> {ops'[p] : p \in Orders}]
  <2>1. DOMAIN ops' = Orders /\ \E W : ops' \in [Orders -> W]
    <3>1. ops' \in [Orders -> {ops[p] : p \in Orders} \cup {plan}]
      BY <1>1, <1>2 DEF PlanInv
    <3> QED
      BY <3>1
  <2> QED
    BY <2>1
<1>5. \A p \in Orders : GoodPlan(ops[p]) /\ GoodPlan(ops'[p])
  BY <1>2, <1>3 DEF PlanInv
<1>6. ASSUME NEW x, NEW O \in SUBSET (Orders \ {o}), Knows(x, ops, O) PROVE Knows(x, ops', O)
  <2>1. O \in SUBSET Orders /\ \A p \in O : ops'[p] = ops[p]
    BY <1>3
  <2> QED
    BY <1>5, <1>6, <2>1, StillKnows
<1>7. /\ pc'[r] = "idle" /\ pc' \in [Requests -> {"idle", "replace"}]
      /\ \A q \in Requests : q # r => pc'[q] = pc[q]
  BY <1>1 DEF PlanInv
<1>8. \E W : work' \in [Requests -> W]
  <2>1. work' \in [Requests -> {work'[q] : q \in Requests}]
    BY <1>1
  <2> QED
    BY <2>1
<1>9. ASSUME NEW q \in Requests, pc'[q] = "replace" PROVE Seen(q)'
  <2> DEFINE p == work[q].order
  <2>1. q # r /\ pc[q] = "replace"
    BY <1>7, <1>9
  <2>2. /\ p \in Orders /\ GoodPlan(work[q].plan)
        /\ \A O \in SUBSET (Orders \ {p}) : O \cap work[q].missed = {} => Knows(work[q].plan, ops, O)
    BY <2>1 DEF PlanInv, Seen
  <2>3. work'[q] = IF p # o THEN [work[q] EXCEPT !.missed = @ \cup {o}] ELSE work[q]
    BY <1>1, <2>1
  <2>4. CASE p = o
    <3>1. work'[q] = work[q]
      BY <2>3, <2>4
    <3>2. ASSUME NEW O \in SUBSET (Orders \ {p}), O \cap work[q].missed = {}
          PROVE  Knows(work[q].plan, ops', O)
      BY <1>6, <2>2, <2>4, <3>2
    <3> QED
      BY <2>2, <3>1, <3>2 DEF Seen
  <2>5. CASE p # o
    <3>1. work'[q] = [work[q] EXCEPT !.missed = @ \cup {o}]
      BY <2>3, <2>5
    <3>2. /\ work'[q].order = p /\ work'[q].plan = work[q].plan
          /\ \A O : O \cap work'[q].missed = {} => o \notin O /\ O \cap work[q].missed = {}
      BY <3>1
    <3>3. ASSUME NEW O \in SUBSET (Orders \ {p}), O \cap work'[q].missed = {}
          PROVE  Knows(work[q].plan, ops', O)
      <4>1. o \notin O /\ Knows(work[q].plan, ops, O)
        BY <2>2, <3>2, <3>3
      <4> QED
        BY <1>6, <4>1
    <3> QED
      BY <2>2, <3>2, <3>3 DEF Seen
  <2> QED
    BY <2>4, <2>5
<1>10. ASSUME NEW O \in SUBSET Orders, O # {}, Sighted(O, blind')
       PROVE  \E x \in O : Knows(ops'[x], ops', O \ {x})
  <2>1. CASE o \in O
    <3>1. ASSUME NEW p \in (O \ {o}) \cap missed PROVE FALSE
      <4>1. {o, p} \in blind' /\ {o, p} \subseteq O
        BY <1>1, <2>1, <3>1
      <4> QED
        BY <1>10, <4>1 DEF Sighted
    <3>2. (O \ {o}) \cap missed = {} /\ O \ {o} \in SUBSET (Orders \ {o})
      BY <3>1
    <3>3. Knows(plan, ops, O \ {o})
      BY <1>2, <3>2
    <3>4. Knows(plan, ops', O \ {o})
      BY <1>6, <3>2, <3>3
    <3> QED
      BY <1>3, <2>1, <3>4
  <2>2. CASE o \notin O
    <3>1. Sighted(O, blind)
      <4> SUFFICES ASSUME NEW pair \in blind, pair \subseteq O PROVE FALSE
        BY DEF Sighted
      <4>1. pair \in blind'
        BY <1>1, <2>2
      <4> QED
        BY <1>10, <4>1 DEF Sighted
    <3>2. PICK x \in O : Knows(ops[x], ops, O \ {x})
      BY <1>10, <3>1 DEF PlanInv, LastInv
    <3>3. O \ {x} \in SUBSET (Orders \ {o}) /\ ops'[x] = ops[x]
      BY <1>3, <2>2
    <3>4. Knows(ops[x], ops', O \ {x})
      BY <1>6, <3>2, <3>3
    <3> QED
      BY <3>3, <3>4
  <2> QED
    BY <2>1, <2>2
<1>11. LastInv'
  BY <1>10 DEF LastInv
<1> QED
  BY <1>4, <1>5, <1>7, <1>8, <1>9, <1>11 DEF PlanInv

PlanSteps == \E r \in Requests :
  \/ \E o \in Orders, from \in Starts : StartSchedule(r, o, from)
  \/ ReplaceOperations(r) \/ Fail(r)

LEMMA PlanOfStep == [MCNext]_allVars => PlanSteps \/ UNCHANGED planVars
<1> SUFFICES ASSUME [MCNext]_allVars, ~ UNCHANGED planVars PROVE PlanSteps
  OBVIOUS
<1>1. MCNext
  BY DEF allVars
<1> QED
  BY <1>1 DEF MCNext, PlanSteps, InPlan, InShop, InFile, InTree, InMail, InHttp, InCsv, InVault

LEMMA PlanStep == PlanInv /\ [MCNext]_allVars => PlanInv'
<1> SUFFICES ASSUME PlanInv, [MCNext]_allVars PROVE PlanInv'
  OBVIOUS
<1>1. CASE UNCHANGED planVars
  BY <1>1 DEF PlanInv, LastInv, Seen, planVars, vars
<1>2. CASE PlanSteps
  BY <1>2, StartScheduleInv, ReplaceOperationsInv, FailInv DEF PlanSteps
<1> QED
  BY <1>1, <1>2, PlanOfStep

\* What is above the capacity is flagged by the order that was written last.
LEMMA OverloadFlagged == PlanInv => OverloadIsFlagged
<1> SUFFICES ASSUME PlanInv, NEW s \in Stations, NEW d \in DaysBooked,
                    Load(Orders, s, d, 0) > DailyMinutes[s],
                    \A pair \in blind : \E o \in pair : ~ (Load({o}, s, d, 0) > 0)
             PROVE  Flagged(s, d)
  BY DEF OverloadIsFlagged
<1> DEFINE O == {o \in Orders : Minutes(ops[o], s, d) > 0}
           f == [o \in Orders |-> Minutes(ops[o], s, d)]
<1>1. \A o \in Orders : GoodPlan(ops[o])
  BY DEF PlanInv
<1>2. d \in Nat
  <2>1. \E o \in Orders : \E i \in DOMAIN ops[o] : d \in DOMAIN spreadOp(ops[o][i])
    BY DEF DaysBooked
  <2>2. PICK o \in Orders : \E i \in DOMAIN ops[o] : d \in DOMAIN spreadOp(ops[o][i])
    BY <2>1
  <2>3. PICK i \in DOMAIN ops[o] : d \in DOMAIN spreadOp(ops[o][i])
    BY <2>2
  <2>4. GoodOp(ops[o][i])
    BY <1>1 DEF GoodPlan
  <2>5. d \in ops[o][i].start .. ops[o][i].end - 1
    BY <2>3 DEF spreadOp
  <2> QED
    BY <2>4, <2>5 DEF GoodOp
<1>3. \A P \in SUBSET Orders : Load(P, s, d, 0) = SumOf(f, P)
  <2>1. ~ (d < 0)
    BY <1>2
  <2>2. \A P \in SUBSET Orders : Load(P, s, d, 0) = LoadOf(ops, P, s, d)
    BY <1>1, <2>1, LoadIs
  <2> QED
    BY <2>2 DEF LoadOf
<1>4. \A o \in Orders : f[o] = Minutes(ops[o], s, d) /\ f[o] \in Nat
  BY <1>1, MinutesIs
<1>5. IsFiniteSet(Orders) /\ O \subseteq Orders /\ DailyMinutes[s] \in Nat
  BY PlanConstants
<1>6. \A o \in Orders \ O : f[o] = 0
  BY <1>4
<1>7. \A o \in O : Load({o}, s, d, 0) > 0
  <2> SUFFICES ASSUME NEW o \in O PROVE Load({o}, s, d, 0) > 0
    OBVIOUS
  <2>1. o \in Orders /\ f[o] > 0 /\ f[o] \in Int
    BY <1>4
  <2>2. Load({o}, s, d, 0) = SumOf(f, {o})
    BY <1>3, <2>1
  <2> HIDE DEF f
  <2>3. IsFiniteSet({o}) /\ \A p \in {o} \ {o} : f[p] = 0
    BY FS_Singleton
  <2>4. SumOf(f, {o}) = f[o]
    BY <2>1, <2>3, SumSingle
  <2> QED
    BY <2>1, <2>2, <2>4
<1> HIDE DEF f
<1>8. SumOf(f, Orders) = SumOf(f, O)
  <2> HIDE DEF O
  <2> QED
    BY <1>4, <1>5, <1>6, SumPart
<1>9. SumOf(f, O) > DailyMinutes[s]
  BY <1>3, <1>8
<1>10. O # {}
  <2> SUFFICES ASSUME O = {} PROVE FALSE
    OBVIOUS
  <2>1. SumOf(f, {}) = 0
    BY SumEmpty
  <2> HIDE DEF O
  <2> QED
    BY <1>5, <1>9, <2>1
<1>11. Sighted(O, blind)
  BY <1>7 DEF Sighted
<1>12. PICK x \in O : Knows(ops[x], ops, O \ {x})
  BY <1>5, <1>10, <1>11 DEF PlanInv, LastInv
<1>13. PICK i \in DOMAIN ops[x] :
         BookedBy(ops[x][i], s, d) > 0 /\ f[x] = BookedBy(ops[x][i], s, d)
  BY <1>1, <1>4, <1>12, MinutesIs
<1>14. ops[x][i].station = s /\ d \in ops[x][i].start .. ops[x][i].end - 1
  <2>1. GoodOp(ops[x][i]) /\ BookedBy(ops[x][i], s, d) # 0
    BY <1>1, <1>13 DEF GoodPlan
  <2> QED
    BY <2>1, BookedByIs
<1>15. LoadOf(ops, O \ {x}, s, d) + BookedBy(ops[x][i], s, d) > DailyMinutes[s]
  <2>1. IsFiniteSet(O) /\ x \in O /\ \A o \in O : f[o] \in Int
    BY <1>4, <1>5, FS_Subset
  <2>2. LoadOf(ops, O \ {x}, s, d) = SumOf(f, O \ {x})
    BY DEF LoadOf, f
  <2>3. f[x] \in Nat /\ O \ {x} \subseteq Orders
    BY <1>4
  <2> HIDE DEF O
  <2>4. SumOf(f, O) = f[x] + SumOf(f, O \ {x})
    BY <2>1, SumStep
  <2>5. SumOf(f, O \ {x}) \in Nat
    <3>1. O \ {x} \in SUBSET O /\ \A o \in O : f[o] \in Nat
      BY <1>4, <1>5
    <3> QED
      BY <2>1, <3>1, SumGrows
  <2> QED
    BY <1>5, <1>9, <1>13, <2>2, <2>3, <2>4, <2>5
<1>16. ops[x][i].overloaded
  BY <1>12, <1>13, <1>14, <1>15 DEF Knows
<1> QED
  BY <1>13, <1>16 DEF Flagged

LEMMA OrdersAreMadeOnce == ShopInv => Shop!DeliveredOnce /\ Shop!SharesMakeTheWhole
<1> SUFFICES ASSUME ShopInv PROVE Shop!DeliveredOnce /\ Shop!SharesMakeTheWhole
  OBVIOUS
<1>1. Shop!DeliveredOnce
  BY DEF ShopInv, DeliveredInv, Shop!DeliveredOnce
<1>2. Shop!SharesMakeTheWhole
  BY DoneIs DEF ShopInv, ShareInv, Shop!SharesMakeTheWhole, EachShare
<1> QED
  BY <1>1, <1>2

\* For any orders, routings and capacities, and any number of requests that schedule,
\* complete and produce at a time: a day above its capacity carries a flag unless two
\* of the orders on it were scheduled blind to each other, and an order is delivered
\* once with shares that make up the whole (manufacturing/workstation.go:144-146,
\* service.go:297-366).
THEOREM WorkIsPlanned == MCSpec => []WorkIsPlannedAndMadeOnce
<1>1. MCInit => PlanInv
  BY PlanInit DEF MCInit
<1>2. MCSpec => []PlanInv
  BY <1>1, PlanStep, PTL DEF MCSpec
<1>3. PlanInv /\ ShopInv => WorkIsPlannedAndMadeOnce
  BY OverloadFlagged, OrdersAreMadeOnce DEF WorkIsPlannedAndMadeOnce
<1> QED
  BY <1>2, <1>3, ShopInvHolds, PTL

-----------------------------------------------------------------------------
(* The HTTP interface: what a second copy of a call does. *)

Answers == {"none", "done", "refused", "failed"}
HttpRow == [id : Nat, version : Nat, status : Nat, text : Nat]
HttpCall == [act : Http!Acts \cup {"none"}, id : Nat, version : Nat, to : Nat]
ByRow == {"change", "move", "remove"}

\* Rows are numbered as they come, and what a client has seen has been there.
HttpType ==
  /\ subject \in HttpRow /\ nextId \in Nat /\ subject.id < nextId
  /\ known \in [Requests -> [id : Nat, version : Nat]]
  /\ call \in [Requests -> HttpCall]
  /\ sent \in [Requests -> Nat] /\ wire \in [Requests -> Nat]
  /\ reply \in [Requests -> Answers] /\ heard \in [Requests -> Answers]
  /\ say \in [Requests -> BOOLEAN]
  /\ done \in [Requests -> Nat] /\ owed \in [Requests -> Nat] /\ said \in [Requests -> Nat]
  /\ mishaps \in Nat
  /\ \A c \in Requests :
       /\ known[c].id < nextId /\ call[c].id < nextId
       /\ call[c].act \in ByRow => call[c].id # 0

\* The first copy is on its way until its answer is; a client without a call has
\* sent and heard nothing.
AnswerInv(c) ==
  /\ call[c].act = "none" =>
       sent[c] = 0 /\ wire[c] = 0 /\ done[c] = 0 /\ reply[c] = "none" /\ heard[c] = "none"
  /\ call[c].act # "none" => sent[c] > 0
  /\ wire[c] <= sent[c]
  /\ reply[c] = "done" \/ heard[c] = "done" => done[c] > 0 \/ call[c].act = "compute"
  /\ sent[c] = 1 => /\ wire[c] = 1 => reply[c] = "none" /\ heard[c] = "none" /\ done[c] = 0
                    /\ reply[c] = "refused" \/ heard[c] = "refused" => done[c] = 0

\* Every effect has been announced, is about to be, or was lost to a failure.
EventInv(c) ==
  /\ say[c] => reply[c] # "none" /\ said[c] + 1 <= owed[c]
  /\ said[c] <= owed[c]
  /\ owed[c] <= said[c] + (IF say[c] THEN 1 ELSE 0) + mishaps

\* What keeps a second copy from taking effect: the row has moved on.
Spent(c) ==
  /\ call[c].act = "change" =>
       done[c] = 1 /\ (subject.id # call[c].id \/ subject.version > call[c].version)
  /\ call[c].act = "move" =>
       done[c] = 1 /\ (subject.id # call[c].id \/ subject.status >= call[c].to)
  /\ call[c].act = "remove" => done[c] = 1 /\ subject.id # call[c].id

Ends == [c \in Requests |-> IF call[c].act \in {"remove", "toggle"} THEN done[c] ELSE 0]
Ended == SumOf(Ends, Requests)

RowInv(c) ==
  /\ done[c] > 0 => Spent(c)
  /\ call[c].act = "key" => done[c] <= Ended + (IF subject.id # 0 THEN 1 ELSE 0)
  /\ (/\ call[c].act = "put" /\ done[c] > 0 /\ subject.id # 0
      /\ \A d \in Requests \ {c} : done[d] = 0)
     => subject.text = call[c].to

HttpInv == HttpType /\ \A c \in Requests : AnswerInv(c) /\ EventInv(c) /\ RowInv(c)

LEMMA HttpConstants == IsFiniteSet(Requests) /\ SendLimit \in Nat /\ CallFaults \in Nat /\ IdLimit \in Nat
<1>1. IsFiniteSet(Requests) <=> Http!IsFiniteSet(Requests)
  BY DEF IsFiniteSet, Http!IsFiniteSet
<1> QED
  BY <1>1, HttpAssumption DEF Http!ConstantsOK

LEMMA HttpInit == Http!Init => HttpInv
<1> SUFFICES ASSUME Http!Init PROVE HttpInv
  OBVIOUS
<1>1. HttpType
  BY DEF Http!Init, Http!NoRow, Http!NoCall, HttpType, HttpRow, HttpCall, Answers, ByRow, Http!Acts
<1>2. ASSUME NEW c \in Requests PROVE AnswerInv(c) /\ EventInv(c) /\ RowInv(c)
  BY DEF Http!Init, Http!NoRow, Http!NoCall, AnswerInv, EventInv, RowInv, Spent
<1> QED
  BY <1>1, <1>2 DEF HttpInv

-----------------------------------------------------------------------------
(* A handler is one of ten store operations. *)

HttpOp(c) ==
  \/ Http!Look(c) \/ Http!Computed(c) \/ \E event \in BOOLEAN :
       \/ Http!Added(c, event) \/ Http!Keyed(c, event) \/ Http!Put(c, event)
       \/ Http!Changed(c, event) \/ Http!Overwritten(c, event) \/ Http!Moved(c, event)
       \/ Http!Removed(c, event) \/ Http!Toggled(c, event)

LEMMA TradeHandlersAreOps == ASSUME NEW c \in Requests, Http!TradeCalls(c) PROVE HttpOp(c)
BY DEF Http!TradeCalls, Http!Announced, Http!Silent, HttpOp, Http!Resources, Http!Bookings,
    Http!Products, Http!Warehouses, Http!Variants, Http!LabelSheet, Http!SalesDocs,
    Http!SalesConvertDoc, Http!RenderDocPDF, Http!ProcurementCreateDoc, Http!ProcurementDocs,
    Http!Approvals, Http!EventsEvents, Http!Registrations, Http!Positions, Http!Applications,
    Http!Types, Http!Members, Http!Subscriptions, Http!Donations, Http!DonationReceipt,
    Http!MemberLoans, Http!Batches, Http!ExportXML, Http!Mandates, Http!RTransactions,
    Http!Transfers, Http!ExportPain001, Http!BOMs, Http!BOMLines, Http!MOs, Http!Produce,
    Http!Workstations, Http!BOMOperations, Http!MOSchedules, Http!CompleteMOOperation,
    Http!Capacity, Http!StockTransfers, Http!StockTransferMoves, Http!DynpriceRules,
    Http!Evaluate, Http!Assignments, Http!ListAttempts, Http!Programs, Http!Referrals,
    Http!Accruals, Http!Terminals, Http!Sessions, Http!Sales, Http!GetSale, Http!TillReceipts,
    Http!ListQueue, Http!CashMovements, Http!TillReports, Http!Schedules, Http!Assets,
    Http!Accounts, Http!Books, Http!Checks, Http!BankAccounts, Http!CreateLoan,
    Http!BankStatement, Http!ReconcileMatch, Http!LedgerBooks, Http!FiscalYears,
    Http!TaxPeriods, Http!VATRates, Http!Charges, Http!Bindings, Http!ListPostings,
    Http!CloseLog, Http!ExportFEC, Http!Rates, Http!Reports, Http!ReportFiles, Http!Incoterms

LEMMA OfficeHandlersAreOps == ASSUME NEW c \in Requests, Http!OfficeCalls(c) PROVE HttpOp(c)
BY DEF Http!OfficeCalls, Http!Announced, Http!Silent, HttpOp, Http!AgendaEvents, Http!Leaves,
    Http!Expenses, Http!Salaries, Http!Establishments, Http!Employees, Http!Skills,
    Http!Evaluations, Http!PayrollRuns, Http!PostPayrollRun, Http!Projects, Http!Tasks,
    Http!Times, Http!Contracts, Http!Interventions, Http!ServicesTickets, Http!Messages,
    Http!DatapolicyRules, Http!Erasures, Http!Quickmemos, Http!Sheets, Http!LabelPDF,
    Http!Articles, Http!Folders, Http!DocumentVersions, Http!FilingRules, Http!Documents,
    Http!Share, Http!Surveys, Http!Questions, Http!Votes, Http!Campaigns, Http!ListRecipients,
    Http!Unsubscribe, Http!Orgs, Http!Contacts, Http!CreateCategory, Http!Tokens,
    Http!Invoices, Http!Quotes, Http!PortalTickets, Http!Me, Http!Userlists, Http!Users,
    Http!Groups, Http!Grant, Http!Collabs, Http!AiRuns, Http!Jobs, Http!ModuleList,
    Http!Dictionaries, Http!Manifests, Http!Modules, Http!LdapStatus, Http!LdapList,
    Http!Mailboxes, Http!Receive, Http!Pages, Http!Bookmarks, Http!LocaleList, Http!LocaleGet

-----------------------------------------------------------------------------
(* Steps that leave the row alone. *)

LEMMA RowKept ==
  ASSUME HttpInv, UNCHANGED <<subject, call, done>>
  PROVE  \A c \in Requests : RowInv(c)'
BY DEF HttpInv, RowInv, Spent, Ended, Ends

LEMMA EndedIsNat == ASSUME HttpType PROVE Ended \in Nat /\ \A c \in Requests : Ends[c] \in Nat
<1>1. \A c \in Requests : Ends[c] \in Nat
  BY DEF Ends, HttpType
<1>2. SumOf(Ends, Requests) \in Int
  BY <1>1, HttpConstants, SumType
<1>3. SumOf(Ends, {}) = 0
  BY SumEmpty
<1>4. SumOf(Ends, {}) <= SumOf(Ends, Requests)
  BY <1>1, HttpConstants, SumGrows
<1> QED
  BY <1>1, <1>2, <1>3, <1>4 DEF Ended

LEMMA AskInv ==
  ASSUME HttpInv, NEW c \in Requests, NEW act \in Http!Acts, NEW to \in 1 .. 2, Http!Ask(c, act, to)
  PROVE  HttpInv'
<1> USE DEF HttpInv
<1>1. call[c].act = "none" /\ act # "none" /\ to \in Nat
  BY DEF Http!Ask, Http!NoCall, Http!Acts
<1>2. /\ sent[c] = 0 /\ wire[c] = 0 /\ done[c] = 0 /\ reply[c] = "none" /\ heard[c] = "none"
      /\ ~ say[c]
  BY <1>1 DEF AnswerInv, EventInv
<1>3. HttpType'
  BY <1>1 DEF HttpType, HttpCall, Http!Ask, Http!Acts, ByRow
<1>4. \A d \in Requests : (AnswerInv(d) /\ EventInv(d))'
  <2> TAKE d \in Requests
  <2>1. CASE d = c
    <3>1. /\ call'[c].act = act /\ sent'[c] = 1 /\ wire'[c] = 1 /\ done'[c] = 0
          /\ reply'[c] = "none" /\ heard'[c] = "none"
      BY <1>2 DEF Http!Ask, HttpType
    <3>2. AnswerInv(c)'
      BY <3>1, <1>1 DEF AnswerInv
    <3>3. EventInv(c)'
      BY <1>2 DEF EventInv, Http!Ask, HttpType
    <3> QED
      BY <2>1, <3>2, <3>3
  <2>2. CASE d # c
    BY <2>2 DEF AnswerInv, EventInv, Http!Ask, HttpType
  <2> QED
    BY <2>1, <2>2
<1>5. Ends' = Ends
  BY <1>2, <1>1 DEF Ends, Http!Ask, HttpType
<1>6. \A d \in Requests : RowInv(d)'
  <2> TAKE d \in Requests
  <2>1. CASE d = c
    <3>1. Ended' \in Nat
      BY <1>5, EndedIsNat DEF Ended
    <3>2. done'[c] = 0
      BY <1>2 DEF Http!Ask
    <3>3. \A n \in Nat : 0 <= n + 0 /\ 0 <= n + 1 /\ ~ (0 > 0)
      OBVIOUS
    <3>4. 0 <= Ended' + (IF subject'.id # 0 THEN 1 ELSE 0) /\ ~ (0 > 0)
      BY <3>1, <3>3, Zenon
    <3>5. RowInv(c)'
      BY <3>2, <3>4 DEF RowInv
    <3> QED
      BY <2>1, <3>5
  <2>2. CASE d # c
    BY <2>2, <1>2, <1>5 DEF RowInv, Spent, Ended, Http!Ask, HttpType
  <2> QED
    BY <2>1, <2>2
<1> QED
  BY <1>3, <1>4, <1>6

LEMMA ResendInv ==
  ASSUME HttpInv, NEW c \in Requests, Http!Resend(c)
  PROVE  HttpInv'
<1> USE DEF HttpInv
<1>1. HttpType'
  BY DEF HttpType, Http!Resend
<1>2. \A d \in Requests : (AnswerInv(d) /\ EventInv(d))'
  <2> TAKE d \in Requests
  <2>0. EventInv(d)'
    BY DEF EventInv, Http!Resend
  <2>1. CASE d = c
    <3>1. sent[c] \in Nat /\ wire[c] \in Nat /\ sent[c] > 0
          /\ sent'[c] = sent[c] + 1 /\ wire'[c] = wire[c] + 1
      BY HttpConstants DEF Http!Resend, HttpType
    <3>2. sent'[c] # 1 /\ sent'[c] > 0 /\ wire'[c] <= sent'[c]
      BY <3>1 DEF AnswerInv
    <3>3. call[c].act # "none"
      BY <3>1 DEF AnswerInv
    <3> QED
      BY <2>0, <2>1, <3>2, <3>3 DEF AnswerInv, Http!Resend
  <2>2. CASE d # c
    BY <2>0, <2>2 DEF AnswerInv, Http!Resend, HttpType
  <2> QED
    BY <2>1, <2>2
<1>3. \A d \in Requests : RowInv(d)'
  BY RowKept DEF Http!Resend
<1> QED
  BY <1>1, <1>2, <1>3

LEMMA PublishInv ==
  ASSUME HttpInv, NEW c \in Requests, Http!Publish(c)
  PROVE  HttpInv'
<1> USE DEF HttpInv
<1>0. mishaps' \in Nat /\ mishaps' >= mishaps
      /\ ((said' = said /\ mishaps' = mishaps + 1) \/ said' = [said EXCEPT ![c] = @ + 1])
  BY DEF HttpType, Http!Publish
<1>1. HttpType'
  BY <1>0 DEF HttpType, Http!Publish
<1>2. \A d \in Requests : AnswerInv(d)'
  BY DEF AnswerInv, Http!Publish
<1>3. \A d \in Requests : EventInv(d)'
  <2> TAKE d \in Requests
  <2>1. CASE d = c
    <3>1. say[c] = TRUE /\ say'[c] = FALSE /\ owed' = owed
      BY DEF Http!Publish, HttpType
    <3>2. /\ said[c] \in Nat /\ owed[c] \in Nat /\ mishaps \in Nat
          /\ \/ said'[c] = said[c] /\ mishaps' = mishaps + 1
             \/ said'[c] = said[c] + 1 /\ mishaps' >= mishaps
      BY <1>0 DEF HttpType
    <3>3. said[c] + 1 <= owed[c] /\ owed[c] <= said[c] + 1 + mishaps
      BY <3>1 DEF EventInv
    <3> QED
      BY <2>1, <3>1, <3>2, <3>3, <1>0 DEF EventInv
  <2>2. CASE d # c
    BY <2>2, <1>0 DEF EventInv, Http!Publish, HttpType
  <2> QED
    BY <2>1, <2>2
<1>4. \A d \in Requests : RowInv(d)'
  BY RowKept DEF Http!Publish
<1> QED
  BY <1>1, <1>2, <1>3, <1>4

LEMMA AnswerStepInv ==
  ASSUME HttpInv, NEW c \in Requests, Http!Answer(c)
  PROVE  HttpInv'
<1> USE DEF HttpInv
<1>0. /\ reply[c] # "none" /\ ~ say[c] /\ reply' = [reply EXCEPT ![c] = "none"]
      /\ heard' \in [Requests -> Answers]
      /\ (heard' = heard \/ heard' = [heard EXCEPT ![c] = reply[c]])
  BY DEF Http!Answer, HttpType
<1>1. HttpType'
  BY <1>0 DEF HttpType, Http!Answer, Answers
<1>2. \A d \in Requests : AnswerInv(d)'
  <2> TAKE d \in Requests
  <2>1. CASE d = c
    <3>1. reply'[c] = "none" /\ (heard'[c] = heard[c] \/ heard'[c] = reply[c])
      BY <1>0 DEF HttpType
    <3>2. call[c].act # "none" /\ sent[c] \in Nat /\ wire[c] \in Nat /\ done[c] \in Nat
      BY <1>0 DEF AnswerInv, HttpType
    <3> QED
      BY <2>1, <3>1, <3>2, <1>0 DEF AnswerInv, Http!Answer
  <2>2. CASE d # c
    <3>1. reply'[d] = reply[d] /\ heard'[d] = heard[d]
      BY <2>2, <1>0 DEF HttpType
    <3> QED
      BY <3>1 DEF AnswerInv, Http!Answer
  <2> QED
    BY <2>1, <2>2
<1>3. \A d \in Requests : EventInv(d)'
  <2> TAKE d \in Requests
  <2>1. CASE d = c
    BY <2>1, <1>0 DEF EventInv, Http!Answer
  <2>2. CASE d # c
    BY <2>2, <1>0 DEF EventInv, Http!Answer, HttpType
  <2> QED
    BY <2>1, <2>2
<1>4. \A d \in Requests : RowInv(d)'
  BY RowKept DEF Http!Answer
<1> QED
  BY <1>1, <1>2, <1>3, <1>4

LEMMA HttpDieInv ==
  ASSUME HttpInv, Http!Die
  PROVE  HttpInv'
<1> USE DEF HttpInv
<1>1. HttpType'
  BY DEF HttpType, Http!Die, Answers
<1>2. \A d \in Requests : AnswerInv(d)'
  BY DEF AnswerInv, Http!Die
<1>3. \A d \in Requests : EventInv(d)'
  <2> TAKE d \in Requests
  <2>1. say'[d] = FALSE /\ mishaps' = mishaps + 1 /\ said' = said /\ owed' = owed
    BY DEF Http!Die
  <2>2. said[d] \in Nat /\ owed[d] \in Nat /\ mishaps \in Nat
    BY DEF HttpType
  <2> QED
    BY <2>1, <2>2 DEF EventInv
<1>4. \A d \in Requests : RowInv(d)'
  BY RowKept DEF Http!Die
<1> QED
  BY <1>1, <1>2, <1>3, <1>4

LEMMA LookInv ==
  ASSUME HttpInv, NEW c \in Requests, Http!Look(c)
  PROVE  HttpInv'
<1> USE DEF HttpInv
<1>1. HttpType'
  BY DEF HttpType, Http!Look, HttpRow
<1>2. \A d \in Requests : (AnswerInv(d) /\ EventInv(d))'
  BY DEF AnswerInv, EventInv, Http!Look
<1>3. \A d \in Requests : RowInv(d)'
  BY RowKept DEF Http!Look
<1> QED
  BY <1>1, <1>2, <1>3

\* The handler takes a copy, and nothing is done: it has computed something, or
\* refuses, or fails.
LEMMA QuietCall ==
  ASSUME HttpInv, NEW c \in Requests, NEW answer \in {"done", "refused", "failed"},
         Http!Takes(c, answer, FALSE),
         wire[c] > 0, reply[c] = "none",
         answer = "done" => call[c].act = "compute",
         UNCHANGED <<subject, nextId, others, done, owed>>,
         mishaps' \in {mishaps, mishaps + 1}
  PROVE  HttpInv'
<1> USE DEF HttpInv
<1>1. /\ wire[c] \in Nat /\ wire[c] \in Int /\ wire'[c] = wire[c] - 1 /\ wire' \in [Requests -> Nat]
      /\ reply'[c] = answer /\ say'[c] = FALSE /\ mishaps' \in Nat /\ mishaps' >= mishaps
  BY DEF HttpType, Http!Takes
<1>2. HttpType'
  BY <1>1 DEF HttpType, Http!Takes, Answers
<1>3. \A d \in Requests : AnswerInv(d)'
  <2> TAKE d \in Requests
  <2>1. CASE d = c
    <3>1. call[c].act # "none" /\ sent[c] \in Nat /\ done[c] \in Nat
      BY <1>1 DEF AnswerInv, HttpType
    <3>2. sent[c] = 1 => wire[c] = 1 /\ wire'[c] = 0 /\ heard[c] = "none" /\ done[c] = 0
      BY <3>1, <1>1 DEF AnswerInv
    <3> QED
      BY <2>1, <3>1, <3>2, <1>1 DEF AnswerInv, Http!Takes
  <2>2. CASE d # c
    BY <2>2 DEF AnswerInv, Http!Takes, HttpType
  <2> QED
    BY <2>1, <2>2
<1>4. \A d \in Requests : EventInv(d)'
  <2> TAKE d \in Requests
  <2>0. said[d] \in Nat /\ owed[d] \in Nat /\ mishaps \in Nat
    BY DEF HttpType
  <2>1. CASE d = c
    <3>1. ~ say[c]
      BY DEF EventInv
    <3> QED
      BY <2>0, <2>1, <3>1, <1>1 DEF EventInv, Http!Takes
  <2>2. CASE d # c
    <3>1. say'[d] = say[d] /\ reply'[d] = reply[d]
      BY <2>2 DEF Http!Takes, HttpType
    <3> QED
      BY <2>0, <3>1, <1>1 DEF EventInv, Http!Takes
  <2> QED
    BY <2>1, <2>2
<1>5. \A d \in Requests : RowInv(d)'
  BY RowKept DEF Http!Takes
<1> QED
  BY <1>2, <1>3, <1>4, <1>5

-----------------------------------------------------------------------------
(* Steps that take effect. *)

\* What a store operation makes of the row, for the call of c.
NewRowOf(c) ==
  /\ nextId' = nextId + 1 /\ subject.id = 0 /\ subject'.id = nextId
SameRowOf(c) ==
  /\ nextId' = nextId /\ subject.id # 0 /\ subject'.id = subject.id
  /\ subject'.version >= subject.version /\ subject'.status >= subject.status
EndOf(c) ==
  /\ nextId' = nextId /\ subject.id # 0 /\ subject'.id = 0 /\ call[c].act \in {"remove", "toggle"}

Written(c) ==
  /\ subject' \in HttpRow /\ nextId' \in Nat
  /\ call[c].act # "none"
  /\ \/ subject' = subject /\ nextId' = nextId /\ call[c].act = "add"
     \/ /\ call[c].act # "add"
        /\ NewRowOf(c) \/ SameRowOf(c) \/ EndOf(c)
  /\ call[c].act = "change" => /\ SameRowOf(c) /\ subject.id = call[c].id
                               /\ subject.version = call[c].version
                               /\ subject'.version = subject.version + 1
  /\ call[c].act = "move" => /\ SameRowOf(c) /\ subject.id = call[c].id
                             /\ subject.status < call[c].to /\ subject'.status = call[c].to
  /\ call[c].act = "remove" => EndOf(c) /\ subject.id = call[c].id
  /\ call[c].act = "key" => NewRowOf(c)
  /\ call[c].act = "put" => subject'.id # 0 /\ subject'.text = call[c].to

TakesEffect(c, event) == Written(c) /\ wire[c] > 0 /\ reply[c] = "none" /\ Http!Effect(c, event)

LEMMA AddedWrites ==
  ASSUME HttpType, NEW c \in Requests, NEW event \in BOOLEAN, Http!Added(c, event)
  PROVE  TakesEffect(c, event)
BY DEF Http!Added, Http!Runs, HttpType, TakesEffect, Written

LEMMA WriteIs ==
  ASSUME HttpType, NEW c \in Requests, NEW event \in BOOLEAN, NEW new \in HttpRow,
         Http!Write(c, event, new)
  PROVE  /\ subject' = new /\ nextId' \in Nat
         /\ nextId' = IF subject.id = 0 THEN nextId + 1 ELSE nextId
         /\ Http!Effect(c, event)
BY DEF Http!Write, HttpType, HttpRow

LEMMA RowsOfTypes ==
  ASSUME HttpType, NEW c \in Requests
  PROVE  /\ subject \in HttpRow /\ subject.id \in Nat /\ subject.version \in Nat
         /\ subject.status \in Nat /\ subject.text \in Nat
         /\ nextId \in Nat /\ nextId > 0 /\ call[c] \in HttpCall /\ call[c].to \in Nat
         /\ Http!NewRow \in HttpRow /\ Http!NewRow.id = nextId
         /\ Http!NoRow \in HttpRow /\ Http!NoRow.id = 0
BY DEF HttpType, HttpRow, HttpCall, Http!NewRow, Http!NoRow

LEMMA KeyedWrites ==
  ASSUME HttpType, NEW c \in Requests, NEW event \in BOOLEAN, Http!Keyed(c, event)
  PROVE  TakesEffect(c, event) \/ (Http!Runs(c, "key") /\ Http!Refusal(c))
<1>1. Http!Runs(c, "key") /\ ~ Http!Refusal(c) =>
      subject.id = 0 /\ Http!Write(c, event, Http!NewRow)
  BY DEF Http!Keyed, Http!KeyIsFree
<1> QED
  BY <1>1, RowsOfTypes, WriteIs DEF Http!Keyed, Http!Runs, TakesEffect, Written, NewRowOf

LEMMA PutWrites ==
  ASSUME HttpType, NEW c \in Requests, NEW event \in BOOLEAN, Http!Put(c, event)
  PROVE  TakesEffect(c, event)
<1> USE RowsOfTypes
<1>0. call[c].act = "put" /\ wire[c] > 0 /\ reply[c] = "none"
  BY DEF Http!Put, Http!Runs
<1>1. CASE subject.id = 0
  <2> DEFINE new == [Http!NewRow EXCEPT !.text = call[c].to]
  <2>1. new \in HttpRow /\ new.id = nextId /\ new.text = call[c].to
    BY DEF HttpRow, Http!NewRow
  <2>2. Http!Write(c, event, new)
    BY <1>1 DEF Http!Put
  <2> HIDE DEF new
  <2>3. subject' = new /\ nextId' = nextId + 1 /\ Http!Effect(c, event)
    BY <1>1, <2>1, <2>2, WriteIs
  <2> QED
    BY <1>0, <1>1, <2>1, <2>3 DEF TakesEffect, Written, NewRowOf
<1>2. CASE subject.id # 0
  <2> DEFINE new == [subject EXCEPT !.text = call[c].to]
  <2>1. new \in HttpRow /\ new.id = subject.id /\ new.text = call[c].to
        /\ new.version = subject.version /\ new.status = subject.status
    BY DEF HttpRow
  <2>2. Http!Write(c, event, new)
    BY <1>2 DEF Http!Put
  <2> HIDE DEF new
  <2>3. subject' = new /\ nextId' = nextId /\ Http!Effect(c, event)
    BY <1>2, <2>1, <2>2, WriteIs
  <2> QED
    BY <1>0, <1>2, <2>1, <2>3 DEF TakesEffect, Written, SameRowOf
<1> QED
  BY <1>1, <1>2

LEMMA NextText ==
  ASSUME HttpType, NEW c \in Requests
  PROVE  LET new == Http!Next1(call[c].to)
         IN  /\ new \in HttpRow /\ new.id = subject.id /\ new.version = subject.version + 1
             /\ new.status = subject.status /\ new.text = call[c].to
<1>1. subject \in HttpRow /\ subject.version + 1 \in Nat /\ call[c].to \in Nat
  BY RowsOfTypes
<1> DEFINE v == subject.version + 1
           t == call[c].to
<1>2. Http!Next1(t) = [subject EXCEPT !.version = v, !.text = t]
  BY DEF Http!Next1
<1>3. v \in Nat /\ t \in Nat
  BY <1>1
<1>4. v = subject.version + 1
  OBVIOUS
<1> HIDE DEF v, t
<1>5. LET new == [subject EXCEPT !.version = v, !.text = t]
      IN  /\ new \in HttpRow /\ new.id = subject.id /\ new.version = v
          /\ new.status = subject.status /\ new.text = t
  BY <1>1, <1>3 DEF HttpRow
<1> QED
  BY <1>2, <1>4, <1>5 DEF t

LEMMA ChangedWrites ==
  ASSUME HttpType, NEW c \in Requests, NEW event \in BOOLEAN, Http!Changed(c, event)
  PROVE  TakesEffect(c, event) \/ (Http!Runs(c, "change") /\ Http!Refusal(c))
<1> USE RowsOfTypes
<1> SUFFICES ASSUME ~ Http!Refusal(c) PROVE TakesEffect(c, event)
  BY DEF Http!Changed
<1>0. call[c].act = "change" /\ wire[c] > 0 /\ reply[c] = "none"
  BY DEF Http!Changed, Http!Runs
<1>1. subject.id # 0 /\ subject.id = call[c].id /\ subject.version = call[c].version
  BY DEF Http!Changed, Http!SameVersion, Http!SameRow
<1> DEFINE new == Http!Next1(call[c].to)
<1>2. /\ new \in HttpRow /\ new.id = subject.id /\ new.version = subject.version + 1
      /\ new.status = subject.status
  BY NextText
<1>3. Http!Write(c, event, new)
  BY DEF Http!Changed
<1> HIDE DEF new
<1>4. subject' = new /\ nextId' = nextId /\ Http!Effect(c, event)
  BY <1>1, <1>2, <1>3, WriteIs
<1> QED
  BY <1>0, <1>1, <1>2, <1>4 DEF TakesEffect, Written, SameRowOf

LEMMA OverwrittenWrites ==
  ASSUME HttpType, NEW c \in Requests, NEW event \in BOOLEAN, Http!Overwritten(c, event)
  PROVE  TakesEffect(c, event) \/ (Http!Runs(c, "put") /\ Http!Refusal(c))
<1> USE RowsOfTypes
<1> SUFFICES ASSUME ~ Http!Refusal(c) PROVE TakesEffect(c, event)
  BY DEF Http!Overwritten
<1>0. call[c].act = "put" /\ wire[c] > 0 /\ reply[c] = "none" /\ subject.id # 0
  BY DEF Http!Overwritten, Http!Runs
<1> DEFINE new == Http!Next1(call[c].to)
<1>2. /\ new \in HttpRow /\ new.id = subject.id /\ new.version = subject.version + 1
      /\ new.status = subject.status /\ new.text = call[c].to
  BY NextText
<1>3. Http!Write(c, event, new)
  BY DEF Http!Overwritten
<1> HIDE DEF new
<1>4. subject' = new /\ nextId' = nextId /\ Http!Effect(c, event)
  BY <1>0, <1>2, <1>3, WriteIs
<1> QED
  BY <1>0, <1>2, <1>4 DEF TakesEffect, Written, SameRowOf

LEMMA MovedWrites ==
  ASSUME HttpType, NEW c \in Requests, NEW event \in BOOLEAN, Http!Moved(c, event)
  PROVE  TakesEffect(c, event) \/ (Http!Runs(c, "move") /\ Http!Refusal(c))
<1> USE RowsOfTypes
<1> SUFFICES ASSUME ~ Http!Refusal(c) PROVE TakesEffect(c, event)
  BY DEF Http!Moved
<1>0. call[c].act = "move" /\ wire[c] > 0 /\ reply[c] = "none"
  BY DEF Http!Moved, Http!Runs
<1>1. subject.id # 0 /\ subject.id = call[c].id /\ subject.status < call[c].to
  BY DEF Http!Moved, Http!SameRow
<1> DEFINE new == [subject EXCEPT !.status = call[c].to, !.version = @ + 1]
<1>2. /\ new \in HttpRow /\ new.id = subject.id /\ new.version = subject.version + 1
      /\ new.status = call[c].to
  <2>1. subject \in HttpRow /\ subject.version + 1 \in Nat /\ call[c].to \in Nat
    OBVIOUS
  <2> DEFINE v == subject.version + 1
             t == call[c].to
  <2>2. v \in Nat /\ t \in Nat /\ v = subject.version + 1 /\ t = call[c].to
    BY <2>1
  <2>3. new = [subject EXCEPT !.status = t, !.version = v]
    OBVIOUS
  <2> HIDE DEF v, t, new
  <2> QED
    BY <2>1, <2>2, <2>3 DEF HttpRow
<1>3. Http!Write(c, event, new)
  BY DEF Http!Moved
<1> HIDE DEF new
<1>4. subject' = new /\ nextId' = nextId /\ Http!Effect(c, event)
  BY <1>1, <1>2, <1>3, WriteIs
<1> QED
  BY <1>0, <1>1, <1>2, <1>4 DEF TakesEffect, Written, SameRowOf

LEMMA RemovedWrites ==
  ASSUME HttpType, NEW c \in Requests, NEW event \in BOOLEAN, Http!Removed(c, event)
  PROVE  TakesEffect(c, event) \/ (Http!Runs(c, "remove") /\ Http!Refusal(c))
<1> USE RowsOfTypes
<1> SUFFICES ASSUME ~ Http!Refusal(c) PROVE TakesEffect(c, event)
  BY DEF Http!Removed
<1>0. call[c].act = "remove" /\ wire[c] > 0 /\ reply[c] = "none"
  BY DEF Http!Removed, Http!Runs
<1>1. subject.id # 0 /\ subject.id = call[c].id /\ Http!Write(c, event, Http!NoRow)
  BY DEF Http!Removed, Http!SameRow
<1>4. subject' = Http!NoRow /\ nextId' = nextId /\ Http!Effect(c, event)
  BY <1>1, WriteIs
<1> QED
  BY <1>0, <1>1, <1>4 DEF TakesEffect, Written, EndOf

LEMMA ToggledWrites ==
  ASSUME HttpType, NEW c \in Requests, NEW event \in BOOLEAN, Http!Toggled(c, event)
  PROVE  TakesEffect(c, event)
<1> USE RowsOfTypes
<1>0. call[c].act = "toggle" /\ wire[c] > 0 /\ reply[c] = "none"
  BY DEF Http!Toggled, Http!Runs
<1>1. CASE subject.id = 0
  <2>1. Http!Write(c, event, Http!NewRow)
    BY <1>1 DEF Http!Toggled
  <2>2. subject' = Http!NewRow /\ nextId' = nextId + 1 /\ Http!Effect(c, event)
    BY <1>1, <2>1, WriteIs
  <2> QED
    BY <1>0, <1>1, <2>2 DEF TakesEffect, Written, NewRowOf
<1>2. CASE subject.id # 0
  <2>1. Http!Write(c, event, Http!NoRow)
    BY <1>2 DEF Http!Toggled
  <2>2. subject' = Http!NoRow /\ nextId' = nextId /\ Http!Effect(c, event)
    BY <1>2, <2>1, WriteIs
  <2> QED
    BY <1>0, <1>2, <2>2 DEF TakesEffect, Written, EndOf
<1> QED
  BY <1>1, <1>2

\* What the handler does around the operation.
LEMMA EffectIs ==
  ASSUME HttpType, NEW c \in Requests, NEW event \in BOOLEAN, TakesEffect(c, event)
  PROVE  /\ done' = [done EXCEPT ![c] = done[c] + 1] /\ wire' = [wire EXCEPT ![c] = wire[c] - 1]
         /\ done' \in [Requests -> Nat] /\ wire' \in [Requests -> Nat]
         /\ reply' \in [Requests -> Answers] /\ \A d \in Requests \ {c} : reply'[d] = reply[d]
         /\ reply'[c] \in {"done", "failed"}
         /\ say' \in [Requests -> BOOLEAN] /\ \A d \in Requests \ {c} : say'[d] = say[d]
         /\ owed' \in [Requests -> Nat] /\ \A d \in Requests \ {c} : owed'[d] = owed[d]
         /\ UNCHANGED <<known, call, sent, heard, said>>
         /\ mishaps' \in Nat /\ mishaps' >= mishaps
         /\ owed'[c] \in {owed[c], owed[c] + 1}
         /\ say'[c] => owed'[c] = owed[c] + 1
         /\ owed'[c] = owed[c] + 1 => say'[c] \/ mishaps' = mishaps + 1
<1>1. /\ wire[c] \in Nat /\ wire[c] > 0 /\ done[c] \in Nat /\ owed[c] \in Nat /\ mishaps \in Nat
  BY DEF HttpType, TakesEffect
<1>2. /\ done' = [done EXCEPT ![c] = done[c] + 1] /\ done' \in [Requests -> Nat]
      /\ owed' = IF event THEN [owed EXCEPT ![c] = owed[c] + 1] ELSE owed
  BY <1>1 DEF HttpType, TakesEffect, Http!Effect
<1>3. PICK answer \in {"done", "failed"}, says \in BOOLEAN :
        /\ Http!Takes(c, answer, says)
        /\ says => event
        /\ mishaps' \in Nat /\ mishaps' >= mishaps
        /\ event => says \/ mishaps' = mishaps + 1
  <2>1. CASE Http!Takes(c, "done", event) /\ UNCHANGED mishaps
    BY <2>1, <1>1
  <2>2. CASE mishaps' = mishaps + 1 /\ Http!Takes(c, "failed", FALSE)
    <3>1. mishaps' \in Nat /\ mishaps' >= mishaps
      BY <2>2, <1>1
    <3>2. (FALSE => event) /\ (event => FALSE \/ mishaps' = mishaps + 1)
      BY <2>2
    <3> QED
      BY <2>2, <3>1, <3>2, Zenon
  <2> QED
    BY <2>1, <2>2 DEF TakesEffect, Http!Effect
<1>4. /\ wire' = [wire EXCEPT ![c] = wire[c] - 1] /\ wire' \in [Requests -> Nat]
      /\ reply' = [reply EXCEPT ![c] = answer] /\ say' = [say EXCEPT ![c] = says]
      /\ UNCHANGED <<known, call, sent, heard, said>>
  BY <1>1, <1>3 DEF HttpType, Http!Takes
<1>5. /\ reply' \in [Requests -> Answers] /\ \A d \in Requests \ {c} : reply'[d] = reply[d]
      /\ reply'[c] \in {"done", "failed"}
      /\ say' \in [Requests -> BOOLEAN] /\ \A d \in Requests \ {c} : say'[d] = say[d]
      /\ say'[c] = says
  BY <1>4, <1>3 DEF HttpType, Answers
<1>6. /\ owed' \in [Requests -> Nat] /\ \A d \in Requests \ {c} : owed'[d] = owed[d]
      /\ event => owed'[c] = owed[c] + 1
      /\ ~ event => owed'[c] = owed[c]
  BY <1>1, <1>2 DEF HttpType
<1>7. owed[c] + 1 # owed[c]
  BY <1>1
<1> QED
  BY <1>2, <1>3, <1>4, <1>5, <1>6, <1>7, Zenon

LEMMA EffectType ==
  ASSUME HttpType, NEW c \in Requests, NEW event \in BOOLEAN, TakesEffect(c, event)
  PROVE  HttpType'
<1>1. nextId \in Nat /\ nextId' \in Nat /\ nextId' >= nextId /\ subject'.id < nextId' /\ subject' \in HttpRow
  BY DEF TakesEffect, Written, NewRowOf, SameRowOf, EndOf, HttpType, HttpRow
<1>2. \A d \in Requests : known[d].id \in Nat /\ call[d].id \in Nat
  BY DEF HttpType, HttpCall
<1> QED
  BY <1>1, <1>2, EffectIs DEF HttpType

LEMMA EffectAnswers ==
  ASSUME HttpInv, NEW c \in Requests, NEW event \in BOOLEAN, TakesEffect(c, event),
         NEW d \in Requests
  PROVE  AnswerInv(d)' /\ EventInv(d)'
<1> USE DEF HttpInv
<1>1. CASE d = c
  <2>1. /\ wire[c] \in Nat /\ wire[c] > 0 /\ reply[c] = "none" /\ call[c].act # "none"
        /\ sent[c] \in Nat /\ done[c] \in Nat /\ owed[c] \in Nat /\ said[c] \in Nat /\ mishaps \in Nat
    BY DEF HttpType, TakesEffect, Written
  <2>2. AnswerInv(c) /\ EventInv(c)
    OBVIOUS
  <2>3. ~ say[c]
    BY <2>1, <2>2 DEF EventInv
  <2>4. done'[c] = done[c] + 1 /\ wire'[c] = wire[c] - 1
    BY EffectIs DEF HttpType
  <2>5. sent[c] = 1 => wire[c] = 1 /\ heard[c] = "none" /\ done[c] = 0
    BY <2>1, <2>2 DEF AnswerInv
  <2>6. reply'[c] # "none" /\ reply'[c] # "refused" /\ call' = call /\ sent' = sent /\ heard' = heard
    BY EffectIs
  <2>7. AnswerInv(c)'
    BY <2>1, <2>2, <2>4, <2>5, <2>6 DEF AnswerInv
  <2>8. /\ said' = said /\ mishaps' \in Nat /\ mishaps' >= mishaps
        /\ (owed'[c] = owed[c] \/ owed'[c] = owed[c] + 1)
        /\ say'[c] => owed'[c] = owed[c] + 1
        /\ owed'[c] = owed[c] + 1 => say'[c] \/ mishaps' = mishaps + 1
    BY EffectIs
  <2>9. said[c] <= owed[c] /\ owed[c] <= said[c] + mishaps
    BY <2>1, <2>2, <2>3 DEF EventInv
  <2>10. EventInv(c)'
    <3>1. CASE say'[c]
      BY <3>1, <2>1, <2>6, <2>8, <2>9 DEF EventInv
    <3>2. CASE ~ say'[c]
      BY <3>2, <2>1, <2>6, <2>8, <2>9 DEF EventInv
    <3> QED
      BY <3>1, <3>2
  <2> QED
    BY <1>1, <2>7, <2>10
<1>2. CASE d # c
  <2>1. /\ done'[d] = done[d] /\ wire'[d] = wire[d] /\ reply'[d] = reply[d] /\ say'[d] = say[d]
        /\ owed'[d] = owed[d] /\ said' = said /\ call' = call /\ sent' = sent /\ heard' = heard
        /\ mishaps' \in Nat /\ mishaps' >= mishaps
    BY <1>2, EffectIs DEF HttpType
  <2>2. AnswerInv(d)'
    BY <2>1 DEF AnswerInv
  <2>3. owed[d] \in Nat /\ said[d] \in Nat /\ mishaps \in Nat
    BY DEF HttpType
  <2>4. EventInv(d)'
    BY <2>1, <2>3 DEF EventInv
  <2> QED
    BY <2>2, <2>4
<1> QED
  BY <1>1, <1>2

LEMMA EndedGrows ==
  ASSUME HttpInv, NEW c \in Requests, NEW event \in BOOLEAN, TakesEffect(c, event)
  PROVE  /\ Ended \in Nat /\ Ended' \in Nat /\ Ended' >= Ended
         /\ call[c].act \in {"remove", "toggle"} => Ended' = Ended + 1
<1> USE DEF HttpInv
<1>1. Ended \in Nat /\ \A d \in Requests : Ends[d] \in Nat
  BY EndedIsNat
<1>2. \A d \in Requests : Ends'[d] \in Nat
  BY EffectIs DEF Ends
<1>3. Ended' \in Nat /\ \A d \in Requests : Ends'[d] \in Nat
  BY <1>2, HttpConstants, SumGrows DEF Ended
<1>4. \A d \in Requests \ {c} : Ends'[d] = Ends[d]
  BY EffectIs DEF Ends, HttpType
<1>5. /\ Ends'[c] >= Ends[c]
      /\ call[c].act \in {"remove", "toggle"} => Ends'[c] = Ends[c] + 1
  <2>1. done[c] \in Nat /\ done'[c] = done[c] + 1 /\ call' = call
    BY EffectIs DEF HttpType
  <2> QED
    BY <2>1 DEF Ends
<1>6. Ended = Ends[c] + SumOf(Ends, Requests \ {c})
  BY <1>1, HttpConstants, SumStep DEF Ended
<1>7. Ended' = Ends'[c] + SumOf(Ends', Requests \ {c})
  BY <1>3, HttpConstants, SumStep DEF Ended
<1>8. IsFiniteSet(Requests \ {c})
  BY HttpConstants, FS_Subset
<1>9. SumOf(Ends', Requests \ {c}) = SumOf(Ends, Requests \ {c})
  BY <1>1, <1>4, <1>8, SumSame
<1>10. SumOf(Ends, Requests \ {c}) \in Int
  BY <1>1, <1>8, SumType
<1> QED
  BY <1>1, <1>3, <1>5, <1>6, <1>7, <1>9, <1>10

\* The row of another client's call.
LEMMA OthersSpent ==
  ASSUME HttpInv, NEW c \in Requests, NEW event \in BOOLEAN, TakesEffect(c, event),
         NEW d \in Requests, Spent(d), done'[d] = done[d], call' = call
  PROVE  Spent(d)'
<1> USE DEF HttpInv
<1>1. /\ call[d].id \in Nat /\ call[d].id < nextId /\ call[d].version \in Nat /\ call[d].to \in Nat
      /\ call[d].act \in ByRow => call[d].id # 0
      /\ nextId \in Nat /\ nextId' \in Nat
      /\ subject.id \in Nat /\ subject.version \in Nat /\ subject.status \in Nat
      /\ subject'.id \in Nat /\ subject'.version \in Nat /\ subject'.status \in Nat
  BY DEF HttpType, HttpRow, HttpCall, TakesEffect, Written
<1>2. subject' = subject \/ NewRowOf(c) \/ SameRowOf(c) \/ EndOf(c)
  BY DEF TakesEffect, Written
<1>3. CASE subject' = subject
  BY <1>3 DEF Spent
<1>4. CASE NewRowOf(c) \/ EndOf(c)
  <2>1. call[d].act \in ByRow => subject'.id # call[d].id
    BY <1>1, <1>4 DEF NewRowOf, EndOf
  <2> QED
    BY <2>1 DEF Spent, ByRow
<1>5. CASE SameRowOf(c)
  BY <1>1, <1>5 DEF Spent, SameRowOf
<1> QED
  BY <1>2, <1>3, <1>4, <1>5

LEMMA EffectRow ==
  ASSUME HttpInv, NEW c \in Requests, NEW event \in BOOLEAN, TakesEffect(c, event),
         NEW d \in Requests
  PROVE  RowInv(d)'
<1> USE DEF HttpInv
<1>1. call' = call
  BY EffectIs
<1>2. /\ Ended \in Nat /\ Ended' \in Nat /\ Ended' >= Ended
      /\ call[c].act \in {"remove", "toggle"} => Ended' = Ended + 1
  BY EndedGrows
<1>3. /\ subject.id \in Nat /\ subject.version \in Nat /\ subject.status \in Nat
      /\ subject'.id \in Nat /\ subject'.version \in Nat /\ subject'.status \in Nat
      /\ nextId \in Nat /\ nextId' \in Nat /\ subject.id < nextId
  BY DEF HttpType, HttpRow, TakesEffect, Written
<1>4. Written(c)
  BY DEF TakesEffect
<1>5. RowInv(d) /\ done[d] \in Nat
  BY DEF HttpType
<1>6. CASE d = c
  <2>1. done'[c] = done[c] + 1
    BY EffectIs DEF HttpType
  <2>2. Spent(c)'
    <3>1. CASE call[c].act = "change"
      <4>1. done[c] = 0
        BY <3>1, <1>4, <1>3, <1>5, <1>6 DEF Written, RowInv, Spent
      <4> QED
        BY <3>1, <4>1, <2>1, <1>1, <1>3, <1>4 DEF Written, Spent
    <3>2. CASE call[c].act = "move"
      <4>0. call[c].to \in Nat
        BY DEF HttpType, HttpCall
      <4>1. done[c] = 0
        BY <4>0, <3>2, <1>4, <1>3, <1>5, <1>6 DEF Written, RowInv, Spent
      <4> QED
        BY <4>0, <3>2, <4>1, <2>1, <1>1, <1>3, <1>4 DEF Written, Spent
    <3>3. CASE call[c].act = "remove"
      <4>1. done[c] = 0
        BY <3>3, <1>4, <1>3, <1>5, <1>6 DEF Written, RowInv, Spent
      <4> QED
        BY <3>3, <4>1, <2>1, <1>1, <1>3, <1>4 DEF Written, Spent, EndOf
    <3> QED
      BY <3>1, <3>2, <3>3, <1>1 DEF Spent
  <2>3. call[c].act = "key" => done'[c] <= Ended' + (IF subject'.id # 0 THEN 1 ELSE 0)
    <3> SUFFICES ASSUME call[c].act = "key"
                 PROVE  done'[c] <= Ended' + (IF subject'.id # 0 THEN 1 ELSE 0)
      OBVIOUS
    <3>1. subject.id = 0 /\ subject'.id # 0
      BY <1>3, <1>4 DEF Written, NewRowOf
    <3>2. done[c] <= Ended
      BY <3>1, <1>2, <1>5, <1>6 DEF RowInv
    <3> QED
      BY <3>1, <3>2, <2>1, <1>2, <1>5, <1>6
  <2>4. call[c].act = "put" => subject'.text = call[c].to
    BY <1>4 DEF Written
  <2> QED
    BY <1>1, <1>6, <2>2, <2>3, <2>4 DEF RowInv
<1>7. CASE d # c
  <2>1. done'[d] = done[d] /\ done'[c] = done[c] + 1 /\ done[c] \in Nat
    BY <1>7, EffectIs DEF HttpType
  <2>2. done'[d] > 0 => Spent(d)'
    BY <2>1, <1>1, <1>5, OthersSpent DEF RowInv
  <2>3. call[d].act = "key" => done'[d] <= Ended' + (IF subject'.id # 0 THEN 1 ELSE 0)
    <3> SUFFICES ASSUME call[d].act = "key"
                 PROVE  done'[d] <= Ended' + (IF subject'.id # 0 THEN 1 ELSE 0)
      OBVIOUS
    <3>1. done[d] <= Ended + (IF subject.id # 0 THEN 1 ELSE 0)
      BY <1>5 DEF RowInv
    <3>2. subject.id # 0 /\ subject'.id = 0 => Ended' = Ended + 1
      BY <1>2, <1>3, <1>4 DEF Written, NewRowOf, SameRowOf, EndOf
    <3> QED
      BY <3>1, <3>2, <2>1, <1>2, <1>5
  <2>4. ~ (\A e \in Requests \ {d} : done'[e] = 0)
    BY <2>1, <1>7
  <2> QED
    BY <1>1, <2>2, <2>3, <2>4 DEF RowInv
<1> QED
  BY <1>6, <1>7

LEMMA EffectInv ==
  ASSUME HttpInv, NEW c \in Requests, NEW event \in BOOLEAN, TakesEffect(c, event)
  PROVE  HttpInv'
<1>1. HttpType'
  BY EffectType DEF HttpInv
<1> QED
  BY <1>1, EffectAnswers, EffectRow DEF HttpInv

HttpSteps ==
  \/ Http!Die
  \/ \E c \in Requests :
       \/ \E act \in Http!Acts, to \in 1 .. 2 : Http!Ask(c, act, to)
       \/ Http!Resend(c) \/ Http!Publish(c) \/ Http!Answer(c) \/ Http!Refuse(c) \/ Http!Fail(c)
       \/ Http!TradeCalls(c) \/ Http!OfficeCalls(c)

LEMMA HttpOfStep == [MCNext]_allVars => HttpSteps \/ UNCHANGED httpVars
<1> SUFFICES ASSUME [MCNext]_allVars, ~ UNCHANGED httpVars PROVE HttpSteps
  OBVIOUS
<1>1. MCNext
  BY DEF allVars
<1> QED
  BY <1>1 DEF MCNext, HttpSteps, InPlan, InShop, InFile, InTree, InMail, InHttp, InCsv, InVault

LEMMA RefusalInv ==
  ASSUME HttpInv, NEW c \in Requests, NEW act, Http!Runs(c, act), Http!Refusal(c)
  PROVE  HttpInv'
<1>1. /\ wire[c] > 0 /\ reply[c] = "none" /\ Http!Takes(c, "refused", FALSE)
      /\ UNCHANGED <<subject, nextId, others, done, owed>> /\ mishaps' = mishaps
  BY DEF Http!Runs, Http!Refusal
<1> QED
  BY <1>1, QuietCall

LEMMA HttpOpInv ==
  ASSUME HttpInv, NEW c \in Requests, HttpOp(c)
  PROVE  HttpInv'
<1>0. HttpType
  BY DEF HttpInv
<1>1. CASE Http!Look(c)
  BY <1>1, LookInv
<1>2. CASE Http!Computed(c)
  <2>1. /\ wire[c] > 0 /\ reply[c] = "none" /\ call[c].act = "compute"
        /\ Http!Takes(c, "done", FALSE)
        /\ UNCHANGED <<subject, nextId, others, done, owed>> /\ mishaps' = mishaps
    BY <1>2 DEF Http!Runs, Http!Computed
  <2> QED
    BY <2>1, QuietCall
<1>3. ASSUME NEW event \in BOOLEAN,
             \/ Http!Added(c, event) \/ Http!Keyed(c, event) \/ Http!Put(c, event)
             \/ Http!Changed(c, event) \/ Http!Overwritten(c, event) \/ Http!Moved(c, event)
             \/ Http!Removed(c, event) \/ Http!Toggled(c, event)
      PROVE  HttpInv'
  <2>1. TakesEffect(c, event) \/ \E act : Http!Runs(c, act) /\ Http!Refusal(c)
    BY <1>0, <1>3, AddedWrites, KeyedWrites, PutWrites, ChangedWrites, OverwrittenWrites,
       MovedWrites, RemovedWrites, ToggledWrites
  <2> QED
    BY <2>1, EffectInv, RefusalInv
<1> QED
  BY <1>1, <1>2, <1>3 DEF HttpOp

LEMMA RefuseInv ==
  ASSUME HttpInv, NEW c \in Requests, Http!Refuse(c) \/ Http!Fail(c)
  PROVE  HttpInv'
<1>1. CASE Http!Refuse(c)
  BY <1>1, RefusalInv DEF Http!Refuse
<1>2. CASE Http!Fail(c)
  <2>1. /\ wire[c] > 0 /\ reply[c] = "none" /\ Http!Takes(c, "failed", FALSE)
        /\ UNCHANGED <<subject, nextId, others, done, owed>> /\ mishaps' = mishaps + 1
    BY <1>2 DEF Http!Runs, Http!Fail
  <2> QED
    BY <2>1, QuietCall
<1> QED
  BY <1>1, <1>2

LEMMA HttpStep == HttpInv /\ [MCNext]_allVars => HttpInv'
<1> SUFFICES ASSUME HttpInv, [MCNext]_allVars PROVE HttpInv'
  OBVIOUS
<1>1. CASE UNCHANGED httpVars
  BY ZenonT(60), <1>1 DEF httpVars, HttpInv, HttpType, AnswerInv, EventInv, RowInv, Spent, Ended, Ends
<1>2. CASE HttpSteps
  <2>1. ASSUME NEW c \in Requests, NEW act \in Http!Acts, NEW to \in 1 .. 2, Http!Ask(c, act, to)
        PROVE  HttpInv'
    BY <2>1, AskInv
  <2>2. ASSUME NEW c \in Requests,
               \/ Http!Resend(c) \/ Http!Publish(c) \/ Http!Answer(c)
               \/ Http!Refuse(c) \/ Http!Fail(c)
        PROVE  HttpInv'
    BY <2>2, ResendInv, PublishInv, AnswerStepInv, RefuseInv
  <2>3. ASSUME NEW c \in Requests, Http!TradeCalls(c) \/ Http!OfficeCalls(c)
        PROVE  HttpInv'
    BY <2>3, TradeHandlersAreOps, OfficeHandlersAreOps, HttpOpInv
  <2> QED
    BY <1>2, <2>1, <2>2, <2>3, HttpDieInv DEF HttpSteps
<1> QED
  BY <1>1, <1>2, HttpOfStep

LEMMA HttpInvHolds == MCSpec => []HttpInv
<1>1. MCInit => HttpInv
  BY HttpInit DEF MCInit
<1> QED
  BY <1>1, HttpStep, PTL DEF MCSpec

-----------------------------------------------------------------------------
(* What the handlers promise. *)

\* Total adds up a table of the clients.
LEMMA TotalIs == ASSUME NEW f PROVE Http!Total(f) = SumOf(f, Requests)
BY DEF Http!Total, SumOf, MapThenSumSet, MapThenFoldSet, Http!MapThenFoldSet

LEMMA RemovalsAre == Http!Removals = Ended
BY TotalIs DEF Http!Removals, Ended, Ends

LEMMA ResendsTakeEffectOnce == HttpInv => Http!SafeToResend
<1> SUFFICES ASSUME HttpInv, NEW c \in Requests
             PROVE  /\ call[c].act \in {"change", "move", "remove"} => done[c] <= 1
                    /\ call[c].act = "key" => done[c] <= 1 + Http!Removals
                    /\ /\ call[c].act = "put" /\ done[c] > 0 /\ subject.id # 0
                       /\ \A d \in Requests \ {c} : done[d] = 0
                       => subject.text = call[c].to
  BY DEF Http!SafeToResend
<1>1. RowInv(c) /\ done[c] \in Nat /\ Ended \in Nat
  BY EndedIsNat DEF HttpInv, HttpType
<1>2. call[c].act \in {"change", "move", "remove"} => done[c] <= 1
  BY <1>1 DEF RowInv, Spent
<1>3. call[c].act = "key" => done[c] <= 1 + Http!Removals
  BY <1>1, RemovalsAre DEF RowInv
<1> QED
  BY <1>1, <1>2, <1>3 DEF RowInv

LEMMA ClientsHearTheTruth == HttpInv => Http!AnswersAreTrue
<1> SUFFICES ASSUME HttpInv, NEW c \in Requests
             PROVE  /\ heard[c] = "done" => done[c] > 0 \/ call[c].act = "compute"
                    /\ heard[c] = "refused" /\ sent[c] = 1 => done[c] = 0
  BY DEF Http!AnswersAreTrue
<1> QED
  BY DEF HttpInv, AnswerInv

\* What each client is owed adds up.
LEMMA OwedAddsUp ==
  ASSUME HttpInv
  PROVE  Http!EventsFollowCommits
<1> DEFINE Due(S) == {c \in S : say[c]}
           G == {S \in SUBSET Requests :
                   /\ SumOf(owed, S) \in Int /\ SumOf(said, S) \in Int
                   /\ SumOf(owed, S) <= SumOf(said, S) + Cardinality(Due(S))
                                          + mishaps * Cardinality(S)}
<1>1. /\ \A c \in Requests : owed[c] \in Int /\ said[c] \in Int
      /\ mishaps \in Nat /\ IsFiniteSet(Requests)
  BY HttpConstants DEF HttpInv, HttpType
<1>2. \A S \in SUBSET Requests : /\ IsFiniteSet(S) /\ Cardinality(S) \in Nat
                                /\ SumOf(owed, S) \in Int /\ SumOf(said, S) \in Int
                                /\ IsFiniteSet(Due(S)) /\ Cardinality(Due(S)) \in Nat
  BY <1>1, FS_Subset, FS_CardinalityType, SumType
<1>3. \A a, b \in Nat : a * (b + 1) = a * b + a /\ a * b \in Nat /\ a * 0 = 0
  OBVIOUS
<1>4. ASSUME NEW S \in SUBSET Requests, \A c \in S : S \ {c} \in G
      PROVE  S \in G
  <2>1. CASE S = {}
    <3>1. SumOf(owed, S) = 0 /\ SumOf(said, S) = 0
      BY <2>1, SumEmpty
    <3>2. Cardinality(S) = 0 /\ Cardinality(Due(S)) \in Nat
      BY <2>1, <1>2, FS_EmptySet
    <3> QED
      BY <3>1, <3>2, <1>1, <1>3
  <2>2. CASE S # {}
    <3>1. PICK c \in S : TRUE
      BY <2>2
    <3> DEFINE R == S \ {c}
    <3>2. R \in G /\ R \in SUBSET Requests /\ c \in Requests
      BY <3>1, <1>4
    <3>3. SumOf(owed, S) = owed[c] + SumOf(owed, R) /\ SumOf(said, S) = said[c] + SumOf(said, R)
      BY <1>1, <1>2, <3>1, SumStep
    <3>4. Cardinality(S) = Cardinality(R) + 1
      <4>1. Cardinality(S) \in Nat /\ Cardinality(R) \in Nat /\ Cardinality(R) = Cardinality(S) - 1
        BY <1>1, <3>1, Smaller
      <4> QED
        BY <4>1
    <3>5. Cardinality(Due(S)) = Cardinality(Due(R)) + (IF say[c] THEN 1 ELSE 0)
      <4>1. CASE say[c]
        <5>1. Due(R) = Due(S) \ {c} /\ c \in Due(S)
          BY <4>1, <3>1
        <5>2. /\ Cardinality(Due(S)) \in Nat /\ Cardinality(Due(R)) \in Nat
              /\ Cardinality(Due(R)) = Cardinality(Due(S)) - 1
          <6>1. IsFiniteSet(Due(S)) /\ Due(S) \in SUBSET Due(S)
            BY <1>2
          <6> DEFINE D == Due(S)
          <6>2. IsFiniteSet(D) /\ D \in SUBSET D /\ c \in D
            BY <5>1, <6>1
          <6> HIDE DEF D
          <6>3. /\ Cardinality(D) \in Nat /\ Cardinality(D \ {c}) \in Nat
                /\ Cardinality(D \ {c}) = Cardinality(D) - 1
            BY <6>2, Smaller
          <6> QED
            BY <5>1, <6>3 DEF D
        <5> QED
          BY <4>1, <5>2
      <4>2. CASE ~ say[c]
        <5>1. Due(R) = Due(S)
          BY <4>2
        <5>2. Cardinality(Due(R)) = Cardinality(Due(S)) /\ Cardinality(Due(S)) \in Nat
          BY <5>1, <1>2
        <5> QED
          BY <4>2, <5>2
      <4> QED
        BY <4>1, <4>2
    <3>6. owed[c] <= said[c] + (IF say[c] THEN 1 ELSE 0) + mishaps
      BY <3>2 DEF HttpInv, EventInv
    <3>7. /\ SumOf(owed, R) \in Int /\ SumOf(said, R) \in Int
          /\ SumOf(owed, R) <= SumOf(said, R) + Cardinality(Due(R)) + mishaps * Cardinality(R)
      BY <3>2
    <3>8. /\ mishaps * Cardinality(S) = mishaps * Cardinality(R) + mishaps
          /\ mishaps * Cardinality(R) \in Nat
      <4>1. Cardinality(R) \in Nat /\ mishaps \in Nat
        BY <1>1, <1>2, <3>2
      <4>2. mishaps * (Cardinality(R) + 1) = mishaps * Cardinality(R) + mishaps
            /\ mishaps * Cardinality(R) \in Nat
        BY <4>1, <1>3, Zenon
      <4> QED
        BY <4>2, <3>4
    <3>9. /\ owed[c] \in Int /\ said[c] \in Int /\ mishaps \in Int
          /\ Cardinality(Due(R)) \in Int
      <4>1. Cardinality(Due(R)) \in Nat
        BY <1>2, <3>2, Zenon
      <4> QED
        BY <4>1, <1>1, <3>2
    <3> DEFINE x == mishaps * Cardinality(R)
               y == mishaps * Cardinality(S)
               b == IF say[c] THEN 1 ELSE 0
    <3>10. x \in Int /\ y = x + mishaps /\ b \in Int
      BY <3>8
    <3> HIDE DEF x, y, b
    <3>11. owed[c] + SumOf(owed, R)
             <= said[c] + SumOf(said, R) + (Cardinality(Due(R)) + b) + y
      BY <3>6, <3>7, <3>9, <3>10 DEF x, b
    <3>12. SumOf(owed, S) <= SumOf(said, S) + Cardinality(Due(S)) + mishaps * Cardinality(S)
      BY <3>3, <3>5, <3>11 DEF b, y
    <3> QED
      BY <3>12, <1>2
  <2> QED
    BY <2>1, <2>2
<1>a. \A S \in SUBSET Requests : (\A c \in S : S \ {c} \in G) => S \in G
  BY <1>4
<1> HIDE DEF G
<1>5. Requests \in G
  <2>1. \A S \in SUBSET Requests : S \in G
    BY <1>1, <1>a, SetInSet
  <2> QED
    BY <2>1
<1>6. SumOf(owed, Requests) - SumOf(said, Requests) - Cardinality(Due(Requests))
        <= mishaps * Cardinality(Requests)
  <2> DEFINE o == SumOf(owed, Requests)
             s == SumOf(said, Requests)
             d == Cardinality(Due(Requests))
             m == mishaps * Cardinality(Requests)
  <2>1. o \in Int /\ s \in Int /\ d \in Nat /\ m \in Nat
    BY <1>1, <1>2, <1>3
  <2>2. o <= s + d + m
    BY <1>5 DEF G
  <2> HIDE DEF o, s, d, m
  <2>3. o - s - d <= m
    BY <2>1, <2>2
  <2> QED
    BY <2>3 DEF o, s, d, m
<1>7. \A c \in Requests : said[c] <= owed[c]
  BY DEF HttpInv, EventInv
<1>8. \A S : Http!Cardinality(S) = Cardinality(S)
  BY DEF Http!Cardinality, Cardinality
<1> QED
  BY <1>6, <1>7, <1>8, TotalIs DEF Http!EventsFollowCommits

\* A call that is sent twice, or reordered with others, takes effect once where the
\* handler guards the row by a version, a status or a key; what its client hears is
\* true, and events follow the commits (the handlers of module Handlers;
\* services/handler.go:85-94, platform/errors.go:91-125).
THEOREM ResendsAreHarmless == MCSpec => []ResendsAreSafe
<1>1. HttpInv => ResendsAreSafe
  BY ResendsTakeEffectOnce, ClientsHearTheTruth, OwedAddsUp DEF ResendsAreSafe
<1> QED
  BY <1>1, HttpInvHolds, PTL

-----------------------------------------------------------------------------
(* Positions in a list that is ordered by a number per row. *)

Before(p, i) == {j \in DOMAIN p : p[j] < p[i]}
RankOf(p, i) == Cardinality(Before(p, i))
Foremost(p, m) == {i \in DOMAIN p : RankOf(p, i) < m}
NumberedRows(p, n) == n \in Nat /\ p \in [1 .. n -> Nat]
Apart(p) == \A i, j \in DOMAIN p : i # j => p[i] # p[j]

\* A set that misses an element is the smaller one.
LEMMA PartIsSmaller ==
  ASSUME NEW S, IsFiniteSet(S), NEW T, T \subseteq S, NEW x \in S, x \notin T
  PROVE  /\ IsFiniteSet(T) /\ Cardinality(T) \in Nat /\ Cardinality(S) \in Nat
         /\ Cardinality(T) + 1 <= Cardinality(S)
<1>1. /\ IsFiniteSet(T) /\ Cardinality(T) \in Nat /\ Cardinality(S) \in Nat
      /\ Cardinality(T) <= Cardinality(S)
  BY FS_Subset, FS_CardinalityType
<1>2. Cardinality(S) # Cardinality(T)
  BY FS_Subset
<1> QED
  BY <1>1, <1>2

\* A set with at most one more element.
LEMMA OneMore ==
  ASSUME NEW S, IsFiniteSet(S), NEW T, NEW x, T \subseteq S \cup {x}
  PROVE  /\ IsFiniteSet(T) /\ Cardinality(T) \in Nat /\ Cardinality(S) \in Nat
         /\ Cardinality(T) <= Cardinality(S) + 1
<1>1. /\ IsFiniteSet(S \cup {x}) /\ Cardinality(S \cup {x}) \in Nat /\ Cardinality(S) \in Nat
      /\ Cardinality(S \cup {x}) <= Cardinality(S) + 1
  <2>1. /\ IsFiniteSet(S \cup {x})
        /\ Cardinality(S \cup {x}) = IF x \in S THEN Cardinality(S) ELSE Cardinality(S) + 1
    BY FS_AddElement
  <2>2. Cardinality(S) \in Nat
    BY FS_CardinalityType
  <2> QED
    BY <2>1, <2>2
<1>2. IsFiniteSet(T) /\ Cardinality(T) \in Nat /\ Cardinality(T) <= Cardinality(S \cup {x})
  BY <1>1, FS_Subset, FS_CardinalityType
<1> QED
  BY <1>1, <1>2

LEMMA RanksAre ==
  ASSUME NEW n, NEW p, NumberedRows(p, n), NEW i \in 1 .. n
  PROVE  /\ IsFiniteSet(Before(p, i)) /\ RankOf(p, i) \in Nat /\ RankOf(p, i) < n
         /\ \A j \in 1 .. n : p[j] < p[i] => RankOf(p, j) < RankOf(p, i)
<1>1. n \in Nat /\ p \in [1 .. n -> Nat] /\ DOMAIN p = 1 .. n
  BY DEF NumberedRows
<1>2. IsFiniteSet(1 .. n) /\ Cardinality(1 .. n) = n
  <2>1. IsFiniteSet(1 .. n) /\ Cardinality(1 .. n) = IF 1 > n THEN 0 ELSE n - 1 + 1
    BY <1>1, FS_Interval
  <2> QED
    BY <1>1, <2>1
<1>3. \A j \in 1 .. n : Before(p, j) \subseteq 1 .. n /\ j \notin Before(p, j)
  BY <1>1 DEF Before
<1>4. \A j \in 1 .. n : /\ IsFiniteSet(Before(p, j)) /\ RankOf(p, j) \in Nat
                        /\ RankOf(p, j) + 1 <= n
  BY <1>2, <1>3, PartIsSmaller DEF RankOf
<1>5. ASSUME NEW j \in 1 .. n, p[j] < p[i] PROVE RankOf(p, j) < RankOf(p, i)
  <2>1. Before(p, j) \subseteq Before(p, i) /\ j \in Before(p, i) /\ j \notin Before(p, j)
    BY <1>1, <1>5 DEF Before
  <2>2. RankOf(p, j) \in Nat /\ RankOf(p, i) \in Nat /\ RankOf(p, j) + 1 <= RankOf(p, i)
    BY <1>4, <2>1, PartIsSmaller DEF RankOf
  <2> QED
    BY <2>2
<1> QED
  BY <1>1, <1>4, <1>5

\* A row more pushes others back, if anything.
LEMMA RowsPushBack ==
  ASSUME NEW n, NEW p, NumberedRows(p, n), NEW q, NumberedRows(q, n + 1),
         \A i \in 1 .. n : q[i] = p[i], NEW m \in Nat
  PROVE  Foremost(q, m) \subseteq Foremost(p, m) \cup {n + 1}
<1> SUFFICES ASSUME NEW i \in Foremost(q, m), i # n + 1 PROVE i \in Foremost(p, m)
  OBVIOUS
<1>1. /\ n \in Nat /\ DOMAIN p = 1 .. n /\ DOMAIN q = 1 .. n + 1
      /\ i \in 1 .. n + 1 /\ RankOf(q, i) < m
  BY DEF NumberedRows, Foremost
<1>2. i \in 1 .. n
  BY <1>1
<1>3. Before(p, i) \subseteq Before(q, i)
  BY <1>1, <1>2 DEF Before
<1>4. IsFiniteSet(Before(q, i)) /\ RankOf(q, i) \in Nat
  BY <1>1, RanksAre
<1>5. Cardinality(Before(p, i)) <= Cardinality(Before(q, i))
  BY <1>3, <1>4, FS_Subset
<1>6. RankOf(p, i) \in Nat
  BY <1>2, RanksAre
<1> QED
  BY <1>1, <1>2, <1>4, <1>5, <1>6 DEF Foremost, RankOf

\* A row that moves pulls at most one over a line.
LEMMA RowsMoveOver ==
  ASSUME NEW n, NEW p, NumberedRows(p, n), Apart(p), NEW x \in 1 .. n, NEW v \in Nat,
         NEW m \in Nat
  PROVE  \E y : Foremost([p EXCEPT ![x] = v], m) \subseteq Foremost(p, m) \cup {y}
<1> DEFINE q == [p EXCEPT ![x] = v]
<1>1. /\ n \in Nat /\ DOMAIN p = 1 .. n /\ p \in [1 .. n -> Nat]
      /\ q \in [1 .. n -> Nat] /\ DOMAIN q = 1 .. n
      /\ q[x] = v /\ \A i \in 1 .. n : i # x => q[i] = p[i]
  BY DEF NumberedRows
<1>2. NumberedRows(q, n)
  BY <1>1 DEF NumberedRows
<1> HIDE DEF q
<1>3. \A i \in 1 .. n : /\ RankOf(p, i) \in Nat /\ RankOf(q, i) \in Nat
                        /\ IsFiniteSet(Before(p, i)) /\ IsFiniteSet(Before(q, i))
  BY <1>2, RanksAre
<1>4. CASE v <= p[x]
  <2>1. ASSUME NEW i \in 1 .. n, i # x PROVE Before(p, i) \subseteq Before(q, i)
    <3> SUFFICES ASSUME NEW j \in Before(p, i) PROVE j \in Before(q, i)
      OBVIOUS
    <3>1. j \in 1 .. n /\ p[j] < p[i] /\ p[j] \in Nat /\ p[i] \in Nat /\ q[i] = p[i] /\ p[x] \in Nat
      BY <1>1, <2>1 DEF Before
    <3>2. q[j] < q[i]
      BY <1>1, <1>4, <3>1
    <3> QED
      BY <1>1, <3>1, <3>2 DEF Before
  <2>2. ASSUME NEW i \in Foremost(q, m), i # x PROVE i \in Foremost(p, m)
    <3>1. i \in 1 .. n /\ RankOf(q, i) < m
      BY <1>1, <2>2 DEF Foremost
    <3>2. Cardinality(Before(p, i)) <= Cardinality(Before(q, i))
      BY <1>3, <2>1, <2>2, <3>1, FS_Subset
    <3>3. RankOf(p, i) < m
      BY <1>3, <3>1, <3>2 DEF RankOf
    <3> QED
      BY <1>1, <3>1, <3>3 DEF Foremost
  <2>3. Foremost(q, m) \subseteq Foremost(p, m) \cup {x}
    BY <2>2
  <2> QED
    BY <2>3 DEF q
<1>5. CASE v > p[x]
  <2>1. ASSUME NEW i \in 1 .. n PROVE RankOf(p, i) <= RankOf(q, i) + 1
    <3>1. Before(p, i) \subseteq Before(q, i) \cup {x}
      <4> SUFFICES ASSUME NEW j \in Before(p, i), j # x PROVE j \in Before(q, i)
        OBVIOUS
      <4>1. /\ j \in 1 .. n /\ p[j] < p[i] /\ p[j] \in Nat /\ p[i] \in Nat /\ q[j] = p[j]
            /\ p[x] \in Nat
        BY <1>1 DEF Before
      <4>2. q[i] = p[i] \/ (i = x /\ q[i] = v)
        BY <1>1
      <4>3. q[j] < q[i]
        BY <1>5, <4>1, <4>2
      <4> QED
        BY <1>1, <4>1, <4>3 DEF Before
    <3> QED
      BY <1>3, <3>1, OneMore DEF RankOf
  <2>2. RankOf(p, x) <= RankOf(q, x)
    <3>1. Before(p, x) \subseteq Before(q, x)
      <4> SUFFICES ASSUME NEW j \in Before(p, x) PROVE j \in Before(q, x)
        OBVIOUS
      <4>1. j \in 1 .. n /\ p[j] < p[x] /\ p[j] \in Nat /\ p[x] \in Nat
        BY <1>1 DEF Before
      <4>2. j # x
        BY <4>1
      <4>3. q[j] < q[x]
        BY <1>1, <1>5, <4>1, <4>2
      <4> QED
        BY <1>1, <4>1, <4>3 DEF Before
    <3> QED
      BY <1>3, <3>1, FS_Subset DEF RankOf
  <2>3. ASSUME NEW i \in Foremost(q, m), i \notin Foremost(p, m)
        PROVE  i \in 1 .. n /\ i # x /\ RankOf(p, i) = m
    <3>1. i \in 1 .. n /\ RankOf(q, i) < m /\ ~ (RankOf(p, i) < m)
      BY <1>1, <2>3 DEF Foremost
    <3>2. RankOf(p, i) <= RankOf(q, i) + 1 /\ RankOf(p, i) \in Nat /\ RankOf(q, i) \in Nat
      BY <1>3, <2>1, <3>1
    <3>3. i # x
      BY <2>2, <3>1, <3>2
    <3> QED
      BY <3>1, <3>2, <3>3
  <2>4. ASSUME NEW i \in 1 .. n, NEW j \in 1 .. n, RankOf(p, i) = m, RankOf(p, j) = m
        PROVE  i = j
    <3> SUFFICES ASSUME i # j PROVE FALSE
      OBVIOUS
    <3>1. p[i] # p[j] /\ p[i] \in Nat /\ p[j] \in Nat
      BY <1>1 DEF Apart
    <3>2. p[i] < p[j] \/ p[j] < p[i]
      BY <3>1
    <3>3. RankOf(p, i) < RankOf(p, j) \/ RankOf(p, j) < RankOf(p, i)
      BY <3>2, RanksAre
    <3> QED
      BY <2>4, <3>3
  <2>5. CASE \E y \in Foremost(q, m) : y \notin Foremost(p, m)
    <3>1. PICK y \in Foremost(q, m) : y \notin Foremost(p, m)
      BY <2>5
    <3>2. Foremost(q, m) \subseteq Foremost(p, m) \cup {y}
      BY <2>3, <2>4, <3>1
    <3> QED
      BY <3>2 DEF q
  <2>6. CASE ~ \E y \in Foremost(q, m) : y \notin Foremost(p, m)
    <3>1. Foremost(q, m) \subseteq Foremost(p, m) \cup {x}
      BY <2>6
    <3> QED
      BY <3>1 DEF q
  <2> QED
    BY <2>5, <2>6
<1>6. p[x] \in Nat
  BY <1>1
<1>7. v <= p[x] \/ v > p[x]
  BY <1>6
<1> QED
  BY <1>4, <1>5, <1>7, Zenon

\* A list of distinct rows that no two share a place in has each at its rank.
LEMMA ListedByRank ==
  ASSUME NEW n, NEW p, NumberedRows(p, n), Apart(p),
         NEW f \in [1 .. n -> 1 .. n], \A a, b \in 1 .. n : a # b => f[a] # f[b],
         \A a, b \in 1 .. n : a < b => p[f[a]] <= p[f[b]]
  PROVE  /\ \A a \in 1 .. n : RankOf(p, f[a]) = a - 1
         /\ \A i \in 1 .. n : \E a \in 1 .. n : f[a] = i
<1>1. /\ n \in Nat /\ DOMAIN p = 1 .. n /\ p \in [1 .. n -> Nat]
      /\ IsFiniteSet(1 .. n) /\ Cardinality(1 .. n) = n
  <2>1. n \in Nat /\ n \in Int /\ DOMAIN p = 1 .. n /\ p \in [1 .. n -> Nat]
    BY DEF NumberedRows
  <2>2. IsFiniteSet(1 .. n) /\ Cardinality(1 .. n) = IF 1 > n THEN 0 ELSE n - 1 + 1
    BY <2>1, FS_Interval
  <2> QED
    BY <2>1, <2>2
<1>2. \A i \in 1 .. n : \E a \in 1 .. n : f[a] = i
  <2> DEFINE D == 1 .. n
  <2>1. f \in Injection(D, D) /\ IsFiniteSet(D)
    BY <1>1 DEF Injection, IsInjective
  <2> HIDE DEF D
  <2>2. f \in Surjection(D, D)
    BY <2>1, FS_Injection
  <2> QED
    BY <2>2 DEF Surjection, D
<1>3. ASSUME NEW a \in 1 .. n, NEW b \in 1 .. n, a < b PROVE p[f[a]] < p[f[b]]
  <2>1. a # b /\ f[a] \in 1 .. n /\ f[b] \in 1 .. n
    BY <1>3
  <2>2. f[a] # f[b]
    BY <2>1
  <2>3. p[f[a]] # p[f[b]] /\ p[f[a]] \in Nat /\ p[f[b]] \in Nat /\ p[f[a]] <= p[f[b]]
    BY <1>1, <1>3, <2>1, <2>2 DEF Apart
  <2> QED
    BY <2>3
<1>4. ASSUME NEW a \in 1 .. n PROVE RankOf(p, f[a]) = a - 1
  <2> DEFINE S == 1 .. a - 1
             T == Before(p, f[a])
             g == [b \in S |-> f[b]]
  <2>0. a \in Nat /\ a - 1 \in Nat /\ S \subseteq 1 .. n
    BY <1>1
  <2>1. \A b \in S : f[b] \in T
    <3> TAKE b \in S
    <3>1. b \in 1 .. n /\ b < a /\ f[b] \in 1 .. n
      BY <1>1, <2>0
    <3> QED
      BY <1>1, <1>3, <3>1 DEF Before
  <2>2. \A j \in T : \E b \in S : f[b] = j
    <3> TAKE j \in T
    <3>1. j \in 1 .. n /\ p[j] < p[f[a]]
      BY <1>1 DEF Before
    <3>2. PICK b \in 1 .. n : f[b] = j
      BY <1>2, <3>1
    <3>3. ~ (a < b)
      <4> SUFFICES ASSUME a < b PROVE FALSE
        OBVIOUS
      <4>1. p[f[a]] < p[f[b]] /\ p[f[a]] \in Nat /\ p[f[b]] \in Nat
        BY <1>1, <1>3
      <4> QED
        BY <3>1, <3>2, <4>1
    <3>4. a # b
      <4>1. p[f[a]] \in Nat
        BY <1>1
      <4> QED
        BY <3>1, <3>2, <4>1
    <3>5. b \in S
      BY <1>1, <2>0, <3>3, <3>4
    <3> QED
      BY <3>2, <3>5
  <2>3. g \in Bijection(S, T)
    <3>1. g \in [S -> T]
      BY <2>1
    <3>2. \A b, c \in S : g[b] = g[c] => b = c
      BY <2>0
    <3>3. \A j \in T : \E b \in S : g[b] = j
      BY <2>2
    <3> HIDE DEF g, S, T
    <3> QED
      BY <3>1, <3>2, <3>3 DEF Bijection, Injection, Surjection, IsInjective
  <2>4. IsFiniteSet(S) /\ Cardinality(S) = a - 1
    <3>1. IsFiniteSet(S) /\ Cardinality(S) = IF 1 > a - 1 THEN 0 ELSE a - 1 - 1 + 1
      BY <2>0, FS_Interval
    <3> QED
      BY <2>0, <3>1
  <2> HIDE DEF S, T, g
  <2>5. Cardinality(T) = Cardinality(S)
    BY <2>3, <2>4, FS_Bijection DEF ExistsBijection
  <2> QED
    BY <2>4, <2>5 DEF T, RankOf
<1> QED
  BY <1>2, <1>4

-----------------------------------------------------------------------------
(* The CSV exchange. *)

Rows == [name : Nat, code : Nat, role : Nat, by : Requests \cup {Csv!Nobody}, line : Nat]
Verdicts == {"ok", "taken", "invalid"}
Created(r) == {k \in DOMAIN out[r] : out[r][k] = "ok" /\ ~ job[r].dry}
Lines(r) == job[r].file.lines
Importing(r) == ~ job[r].export

CsvType ==
  /\ context \in Csv!Contexts
  /\ table \in Seq(Rows) /\ changes \in Nat
  /\ csvPc \in [Requests -> {"idle", "import", "export", "answered", "refused", "dead"}]
  /\ \E J : job \in [Requests -> J]
  /\ out \in [Requests -> Seq(Verdicts \cup Nat)]
  /\ began \in [Requests -> [pages : Nat, rows : Nat, changes : Nat]]
  /\ tied \in BOOLEAN

PcInv(r) ==
  /\ csvPc[r] = "idle" => /\ out[r] = << >> /\ Importing(r)
                          /\ \A i \in DOMAIN table : table[i].by # r
  /\ csvPc[r] = "import" => Importing(r)
  /\ csvPc[r] = "export" => ~ Importing(r)

\* A row is of a line that was called created, and the only one of it.
ReportInv(r) == Importing(r) =>
  /\ \A i \in DOMAIN table : table[i].by = r => table[i].line \in Created(r)
  /\ \A k \in Created(r) : \E i \in DOMAIN table : table[i].by = r /\ table[i].line = k
  /\ \A i, j \in DOMAIN table :
       table[i].by = r /\ table[j].by = r /\ table[i].line = table[j].line => i = j

\* A verdict is about what the line may have become.
VerdictInv(r) == Importing(r) =>
  /\ job[r].dry => ~ job[r].legacy
  /\ \A k \in DOMAIN out[r] :
       /\ out[r][k] \in Verdicts
       /\ job[r].dry => out[r][k] # "taken"
       /\ \E rec \in Csv!Records(Lines(r)[k], job[r].map) :
            out[r][k] = "invalid" <=> ~ Csv!Checked(r, rec)

LegacyInv == \A i \in DOMAIN table :
  ~ Csv!Valid(table[i]) => table[i].by # Csv!Nobody /\ job[table[i].by].legacy

ImportInv == \A r \in Requests : PcInv(r) /\ ReportInv(r) /\ VerdictInv(r)

LEMMA CsvConstants ==
  /\ Csv!Nobody \notin Requests
  /\ PageSize \in Nat /\ PageSize > 0 /\ RowLimit \in Nat /\ ChangeLimit \in Nat
  /\ \A f \in Uploads : f.lines \in Seq([f.header -> Csv!Cells])
  /\ FirstRows \in Seq([name : Nat, code : Nat, role : Nat, by : {Csv!Nobody}, line : {0}])
  /\ \A i \in DOMAIN FirstRows : Csv!OrgValid(FirstRows[i]) /\ Csv!ProductValid(FirstRows[i])
  /\ Entered \subseteq [Csv!Fields -> Nat] /\ Renamed \subseteq Nat
BY CsvAssumption DEF Csv!ConstantsOK

LEMMA CsvInit == Csv!Init => CsvType /\ ImportInv /\ LegacyInv
<1> SUFFICES ASSUME Csv!Init PROVE CsvType /\ ImportInv /\ LegacyInv
  OBVIOUS
<1> DEFINE R == [name : Nat, code : Nat, role : Nat, by : {Csv!Nobody}, line : {0}]
<1>1. R \subseteq Rows
  BY DEF Rows
<1>2. table = FirstRows /\ FirstRows \in Seq(R) /\ \A i \in DOMAIN FirstRows : FirstRows[i] \in R
  <2>1. FirstRows \in Seq(R)
    BY CsvConstants
  <2> HIDE DEF R
  <2> QED
    BY <2>1 DEF Csv!Init
<1>3. \A i \in DOMAIN table : table[i].by = Csv!Nobody
  BY <1>2
<1>4. table \in Seq(Rows)
  <2> HIDE DEF R
  <2> QED
    BY <1>1, <1>2
<1>5. CsvType
  <2>1. began \in [Requests -> [pages : Nat, rows : Nat, changes : Nat]]
    <3>1. table \in Seq(R)
      BY <1>2
    <3> HIDE DEF R
    <3>2. Len(table) \in Nat
      BY <3>1
    <3> QED
      BY <3>2 DEF Csv!Init, Csv!NoStart
  <2>2. tied \in BOOLEAN
    BY DEF Csv!Init, Csv!Ties
  <2>3. job \in [Requests -> {Csv!NoJob}]
    BY DEF Csv!Init
  <2>4. \E J : job \in [Requests -> J]
    BY <2>3
  <2>5. out \in [Requests -> Seq(Verdicts \cup Nat)]
    BY DEF Csv!Init
  <2> QED
    BY <1>4, <2>1, <2>2, <2>4, <2>5 DEF Csv!Init, CsvType
<1>6. ImportInv
  <2> SUFFICES ASSUME NEW r \in Requests PROVE PcInv(r) /\ ReportInv(r) /\ VerdictInv(r)
    BY DEF ImportInv
  <2>1. csvPc[r] = "idle" /\ out[r] = << >> /\ job[r] = Csv!NoJob
    BY DEF Csv!Init
  <2>2. Importing(r) /\ ~ job[r].dry
    BY <2>1 DEF Importing, Csv!NoJob
  <2>3. \A i \in DOMAIN table : table[i].by # r
    BY <1>3, CsvConstants
  <2>4. DOMAIN out[r] = {}
    BY <2>1
  <2> QED
    BY <2>1, <2>2, <2>3, <2>4 DEF PcInv, ReportInv, VerdictInv, Created
<1>7. LegacyInv
  <2> SUFFICES ASSUME NEW i \in DOMAIN table PROVE Csv!Valid(table[i])
    BY DEF LegacyInv
  <2>1. Csv!OrgValid(table[i]) /\ Csv!ProductValid(table[i])
    BY <1>2, CsvConstants
  <2>2. Csv!MemberValid(table[i]) /\ Csv!SalesValid(table[i])
    BY <2>1 DEF Csv!ProductValid, Csv!MemberValid, Csv!SalesValid
  <2>3. context \in {"orgs", "products", "members", "sales"}
    BY DEF Csv!Init, Csv!Contexts
  <2> QED
    BY <2>1, <2>2, <2>3 DEF Csv!Valid
<1> QED
  BY <1>5, <1>6, <1>7

\* A row is judged by its name, code and role.
LEMMA ValidIs ==
  ASSUME NEW a, NEW b, a.name = b.name, a.code = b.code, a.role = b.role
  PROVE  Csv!Valid(a) <=> Csv!Valid(b)
BY DEF Csv!Valid, Csv!OrgValid, Csv!ProductValid, Csv!MemberValid, Csv!SalesValid

LEMMA CsvBegin ==
  ASSUME CsvType, ImportInv, LegacyInv, NEW r \in Requests, NEW j, Csv!Begin(r, j),
         NEW to \in {"import", "export", "refused"}, csvPc' = [csvPc EXCEPT ![r] = to],
         to = "import" => ~ j.export, to = "export" => j.export,
         ~ j.export => (j.dry => ~ j.legacy)
  PROVE  CsvType' /\ ImportInv' /\ LegacyInv'
<1>1. /\ csvPc[r] = "idle" /\ job' = [job EXCEPT ![r] = j]
      /\ began' = [began EXCEPT ![r] = [pages |-> 0, rows |-> Len(table), changes |-> changes]]
      /\ UNCHANGED <<context, table, changes, edits, tied, out>>
  BY DEF Csv!Begin
<1>2. out[r] = << >> /\ \A i \in DOMAIN table : table[i].by # r
  BY <1>1 DEF ImportInv, PcInv
<1>3. job'[r] = j /\ csvPc'[r] = to
      /\ \A q \in Requests \ {r} : job'[q] = job[q] /\ csvPc'[q] = csvPc[q]
  BY <1>1 DEF CsvType
<1>4. CsvType'
  <2>1. PICK J : job \in [Requests -> J]
    BY DEF CsvType
  <2>2. job' \in [Requests -> J \cup {j}]
    BY <1>1, <2>1
  <2>3. began' \in [Requests -> [pages : Nat, rows : Nat, changes : Nat]]
    <3>1. Len(table) \in Nat
      BY DEF CsvType
    <3> QED
      BY <1>1, <3>1 DEF CsvType
  <2>4. csvPc' \in [Requests -> {"idle", "import", "export", "answered", "refused", "dead"}]
    BY DEF CsvType
  <2>5. \E K : job' \in [Requests -> K]
    BY <2>2
  <2> QED
    BY <1>1, <2>3, <2>4, <2>5 DEF CsvType
<1>5. ImportInv'
  <2> SUFFICES ASSUME NEW q \in Requests PROVE (PcInv(q) /\ ReportInv(q) /\ VerdictInv(q))'
    BY DEF ImportInv
  <2>1. CASE q = r
    <3>1. out'[q] = << >> /\ DOMAIN out'[q] = {} /\ \A i \in DOMAIN table' : table'[i].by # q
      BY <1>1, <1>2, <2>1
    <3>2. PcInv(q)'
      BY <1>3, <2>1, <3>1 DEF PcInv, Importing
    <3>3. ReportInv(q)'
      BY <3>1 DEF ReportInv, Created
    <3>4. VerdictInv(q)'
      BY <1>3, <2>1, <3>1 DEF VerdictInv, Importing
    <3> QED
      BY <3>2, <3>3, <3>4
  <2>2. CASE q # r
    <3>1. job'[q] = job[q] /\ csvPc'[q] = csvPc[q] /\ out' = out /\ table' = table
          /\ context' = context
      BY <1>1, <1>3, <2>2
    <3>2. \A rec : Csv!Checked(q, rec)' <=> Csv!Checked(q, rec)
      BY <3>1 DEF Csv!Checked, Csv!Valid
    <3> QED
      BY <3>1, <3>2 DEF ImportInv, PcInv, ReportInv, VerdictInv, Created, Importing, Lines
  <2> QED
    BY <2>1, <2>2
<1>6. LegacyInv'
  <2> SUFFICES ASSUME NEW i \in DOMAIN table, ~ Csv!Valid(table[i])'
               PROVE  table[i].by # Csv!Nobody /\ job'[table[i].by].legacy
    BY <1>1 DEF LegacyInv
  <2>1. ~ Csv!Valid(table[i])
    BY <1>1 DEF Csv!Valid
  <2>2. table[i].by # Csv!Nobody /\ job[table[i].by].legacy /\ table[i].by # r
    BY <1>2, <2>1 DEF LegacyInv
  <2>3. table[i] \in Rows
    BY DEF CsvType
  <2>4. table[i].by \in Requests \ {r}
    BY <2>2, <2>3 DEF Rows
  <2> QED
    BY <1>3, <2>2, <2>4
<1> QED
  BY <1>4, <1>5, <1>6

\* A request moves on, and what it has written and said stays.
LEMMA CsvGoesOn ==
  ASSUME CsvType, ImportInv, LegacyInv, NEW r \in Requests,
         NEW to \in {"answered", "dead", "export"},
         csvPc[r] \in {"import", "export"}, csvPc' = [csvPc EXCEPT ![r] = to],
         to = "export" => csvPc[r] = "export",
         UNCHANGED <<context, table, changes, tied, job>>,
         out' \in [Requests -> Seq(Verdicts \cup Nat)],
         \A q \in Requests : Importing(q) => out'[q] = out[q],
         \A q \in Requests \ {r} : out'[q] = out[q],
         began' \in [Requests -> [pages : Nat, rows : Nat, changes : Nat]]
  PROVE  CsvType' /\ ImportInv' /\ LegacyInv'
<1>1. csvPc'[r] = to /\ \A q \in Requests \ {r} : csvPc'[q] = csvPc[q]
  BY DEF CsvType
<1>2. CsvType'
  BY DEF CsvType
<1>3. ImportInv'
  <2> SUFFICES ASSUME NEW q \in Requests PROVE (PcInv(q) /\ ReportInv(q) /\ VerdictInv(q))'
    BY DEF ImportInv
  <2>1. \A rec : Csv!Checked(q, rec)' <=> Csv!Checked(q, rec)
    BY DEF Csv!Checked, Csv!Valid
  <2>2. PcInv(q)'
    <3>1. PcInv(q) /\ job' = job /\ table' = table
      BY DEF ImportInv
    <3>2. CASE q = r
      BY <1>1, <3>1, <3>2 DEF PcInv, Importing
    <3>3. CASE q # r
      BY <1>1, <3>1, <3>3 DEF PcInv, Importing
    <3> QED
      BY <3>2, <3>3
  <2>3. ReportInv(q)'
    <3>1. ReportInv(q) /\ job' = job /\ table' = table
      BY DEF ImportInv
    <3> SUFFICES ASSUME Importing(q) PROVE ReportInv(q)'
      BY DEF ReportInv, Importing
    <3>2. Created(q)' = Created(q)
      BY <3>1 DEF Created
    <3> QED
      BY <3>1, <3>2 DEF ReportInv, Importing
  <2>4. VerdictInv(q)'
    BY ZenonT(60), <2>1 DEF ImportInv, VerdictInv, Importing, Lines
  <2> QED
    BY <2>2, <2>3, <2>4
<1>4. LegacyInv'
  BY DEF LegacyInv, Csv!Valid
<1> QED
  BY <1>2, <1>3, <1>4

\* A verdict on the next line.
LEMMA CsvSays ==
  ASSUME CsvType, ImportInv, NEW r \in Requests, NEW verdict \in Verdicts,
         Csv!HasLine(r), Csv!Says(r, verdict), UNCHANGED <<context, job>>,
         NEW rec \in Csv!NextRecords(r), verdict = "invalid" <=> ~ Csv!Checked(r, rec),
         job[r].dry => verdict # "taken"
  PROVE  /\ out' \in [Requests -> Seq(Verdicts \cup Nat)]
         /\ \A q \in Requests \ {r} : out'[q] = out[q]
         /\ Len(out'[r]) = Len(out[r]) + 1 /\ DOMAIN out[r] = 1 .. Len(out[r]) /\ Len(out[r]) \in Nat
         /\ out'[r][Len(out[r]) + 1] = verdict
         /\ \A k \in DOMAIN out[r] : out'[r][k] = out[r][k]
         /\ DOMAIN out'[r] = 1 .. Len(out[r]) + 1
         /\ \A q \in Requests : VerdictInv(q)'
<1> DEFINE n == Len(out[r])
           V == Verdicts \cup Nat
<1>1. out[r] \in Seq(V) /\ verdict \in V
  BY DEF CsvType
<1>2. out' = [out EXCEPT ![r] = Append(out[r], verdict)]
  BY DEF Csv!Says
<1>3. out \in [Requests -> Seq(V)]
  BY DEF CsvType
<1> HIDE DEF V
<1>4. /\ Append(out[r], verdict) \in Seq(V) /\ Len(Append(out[r], verdict)) = n + 1 /\ n \in Nat
      /\ Append(out[r], verdict)[n + 1] = verdict
      /\ \A k \in 1 .. n : Append(out[r], verdict)[k] = out[r][k]
      /\ DOMAIN out[r] = 1 .. n
      /\ DOMAIN Append(out[r], verdict) = 1 .. n + 1
  BY <1>1
<1>5. out'[r] = Append(out[r], verdict) /\ \A q \in Requests \ {r} : out'[q] = out[q]
  BY <1>2, <1>3
<1>6. out' \in [Requests -> Seq(V)]
  BY <1>2, <1>3, <1>4
<1>7. \A q \in Requests : \A x : Csv!Checked(q, x)' <=> Csv!Checked(q, x)
  BY DEF Csv!Checked, Csv!Valid
<1>8. ASSUME NEW q \in Requests PROVE VerdictInv(q)'
  <2>1. CASE q # r
    BY <1>5, <1>7, <2>1 DEF ImportInv, VerdictInv, Importing, Lines
  <2>2. CASE q = r
    <3> SUFFICES ASSUME Importing(r)
                 PROVE  /\ job[r].dry => ~ job[r].legacy
                        /\ \A k \in DOMAIN out'[r] :
                             /\ out'[r][k] \in Verdicts
                             /\ job[r].dry => out'[r][k] # "taken"
                             /\ \E x \in Csv!Records(Lines(r)[k], job[r].map) :
                                  out'[r][k] = "invalid" <=> ~ Csv!Checked(r, x)
      BY <1>7, <2>2 DEF VerdictInv, Importing, Lines
    <3>1. VerdictInv(r)
      BY DEF ImportInv
    <3>2. ASSUME NEW k \in 1 .. n
          PROVE  /\ out'[r][k] \in Verdicts
                 /\ job[r].dry => out'[r][k] # "taken"
                 /\ \E x \in Csv!Records(Lines(r)[k], job[r].map) :
                      out'[r][k] = "invalid" <=> ~ Csv!Checked(r, x)
      BY <1>4, <1>5, <3>1, <3>2 DEF VerdictInv
    <3>3. rec \in Csv!Records(Lines(r)[n + 1], job[r].map)
      BY DEF Csv!NextRecords, Csv!Done, Lines
    <3>4. \A k \in 1 .. n + 1 : k = n + 1 \/ k \in 1 .. n
      BY <1>4
    <3>5. out'[r][n + 1] = verdict /\ DOMAIN out'[r] = 1 .. n + 1
      BY <1>4, <1>5
    <3> HIDE DEF n
    <3>6. ASSUME NEW k \in DOMAIN out'[r]
          PROVE  /\ out'[r][k] \in Verdicts
                 /\ job[r].dry => out'[r][k] # "taken"
                 /\ \E x \in Csv!Records(Lines(r)[k], job[r].map) :
                      out'[r][k] = "invalid" <=> ~ Csv!Checked(r, x)
      <4>1. CASE k = n + 1
        BY <3>3, <3>5, <4>1
      <4>2. CASE k \in 1 .. n
        BY <3>2, <4>2
      <4> QED
        BY <3>4, <3>5, <3>6, <4>1, <4>2
    <3> QED
      BY <3>1, <3>6 DEF VerdictInv
  <2> QED
    BY <2>1, <2>2
<1> QED
  BY <1>4, <1>5, <1>6, <1>8 DEF V

\* A verdict without a row.
LEMMA CsvSaysOnly ==
  ASSUME CsvType, ImportInv, LegacyInv, NEW r \in Requests, NEW verdict \in Verdicts,
         Csv!HasLine(r), Csv!Says(r, verdict),
         UNCHANGED <<context, table, changes, edits, tied, csvPc, job, began>>,
         NEW rec \in Csv!NextRecords(r), verdict = "invalid" <=> ~ Csv!Checked(r, rec),
         job[r].dry => verdict # "taken", verdict = "ok" => job[r].dry
  PROVE  CsvType' /\ ImportInv' /\ LegacyInv'
<1> DEFINE n == Len(out[r])
<1>1. /\ out' \in [Requests -> Seq(Verdicts \cup Nat)]
      /\ \A q \in Requests \ {r} : out'[q] = out[q]
      /\ DOMAIN out[r] = 1 .. n /\ n \in Nat
      /\ out'[r][n + 1] = verdict
      /\ \A k \in DOMAIN out[r] : out'[r][k] = out[r][k]
      /\ DOMAIN out'[r] = 1 .. n + 1
      /\ \A q \in Requests : VerdictInv(q)'
  BY CsvSays
<1>2. csvPc[r] = "import"
  BY DEF Csv!HasLine
<1> HIDE DEF n
<1>3. Created(r)' = Created(r)
  <2>1. \A k : k \in 1 .. n + 1 <=> k = n + 1 \/ k \in 1 .. n
    BY <1>1
  <2> QED
    BY <1>1, <2>1 DEF Created
<1>4. \A q \in Requests \ {r} : Created(q)' = Created(q)
  BY <1>1 DEF Created
<1>5. ASSUME NEW q \in Requests PROVE (PcInv(q) /\ ReportInv(q))'
  <2>1. Created(q)' = Created(q)
    BY <1>3, <1>4
  <2>2. PcInv(q)'
    <3>1. CASE q = r
      BY <1>2, <3>1 DEF ImportInv, PcInv, Importing
    <3>2. CASE q # r
      BY <1>1, <3>2 DEF ImportInv, PcInv, Importing
    <3> QED
      BY <3>1, <3>2
  <2>3. ReportInv(q)'
    BY <2>1 DEF ImportInv, ReportInv, Importing
  <2> QED
    BY <2>2, <2>3
<1>6. CsvType'
  BY <1>1 DEF CsvType
<1>7. LegacyInv'
  BY DEF LegacyInv, Csv!Valid
<1> QED
  BY <1>1, <1>5, <1>6, <1>7 DEF ImportInv

\* A row more, of a line of r or of the screens.
LEMMA InsertIs ==
  ASSUME CsvType, NEW rec, NEW who, NEW line, Csv!Insert(rec, who, line),
         rec.name \in Nat, rec.code \in Nat, rec.role \in Nat,
         who \in Requests \cup {Csv!Nobody}, line \in Nat
  PROVE  /\ table' \in Seq(Rows) /\ Len(table) \in Nat /\ Len(table') = Len(table) + 1
         /\ DOMAIN table = 1 .. Len(table) /\ DOMAIN table' = 1 .. Len(table) + 1
         /\ \A i \in DOMAIN table : table'[i] = table[i] /\ i \in DOMAIN table'
         /\ \A i \in DOMAIN table' : i \in DOMAIN table \/ i = Len(table) + 1
         /\ LET new == table'[Len(table) + 1]
            IN  /\ new.name = rec.name /\ new.code = rec.code /\ new.role = rec.role
                /\ new.by = who /\ new.line = line
         /\ changes' \in Nat /\ changes' = changes + 1
         /\ tied' = (tied \/ Csv!Ties(table'))
<1> DEFINE new == [name |-> rec.name, code |-> rec.code, role |-> rec.role, by |-> who, line |-> line]
           n == Len(table)
<1>1. new \in Rows
  BY DEF Rows
<1>2. table \in Seq(Rows) /\ table' = Append(table, new) /\ n \in Nat
  BY DEF CsvType, Csv!Insert
<1>3. /\ new.name = rec.name /\ new.code = rec.code /\ new.role = rec.role
      /\ new.by = who /\ new.line = line
  OBVIOUS
<1> HIDE DEF new
<1>4. /\ table' \in Seq(Rows) /\ Len(table') = n + 1 /\ DOMAIN table = 1 .. n
      /\ DOMAIN table' = 1 .. n + 1 /\ \A i \in 1 .. n : table'[i] = table[i]
      /\ table'[n + 1] = new
  BY <1>1, <1>2
<1>5. \A i : i \in 1 .. n + 1 <=> i \in 1 .. n \/ i = n + 1
  BY <1>2
<1>6. changes' \in Nat /\ changes' = changes + 1 /\ tied' = (tied \/ Csv!Ties(table'))
  BY DEF CsvType, Csv!Insert
<1> QED
  BY <1>2, <1>3, <1>4, <1>5, <1>6

\* What becomes of a line is three cells.
LEMMA RecordsAre ==
  ASSUME NEW line, NEW m, NEW rec \in Csv!Records(line, m)
  PROVE  rec.name \in Nat /\ rec.code \in Nat /\ rec.role \in Nat
<1>1. rec \in [{"name", "code", "role"} -> 0 .. 3]
  BY DEF Csv!Records, Csv!Fields, Csv!Cells
<1>2. rec["name"] \in 0 .. 3 /\ rec["code"] \in 0 .. 3 /\ rec["role"] \in 0 .. 3
  BY <1>1
<1> QED
  BY <1>2

LEMMA CsvWritesRow ==
  ASSUME CsvType, ImportInv, LegacyInv, NEW r \in Requests,
         Csv!HasLine(r), ~ job[r].dry,
         NEW rec \in Csv!NextRecords(r), Csv!Checked(r, rec),
         Csv!Says(r, "ok"), Csv!Insert(rec, r, Csv!Done(r) + 1),
         UNCHANGED <<context, edits, csvPc, job, began>>
  PROVE  CsvType' /\ ImportInv' /\ LegacyInv'
<1> DEFINE n == Len(out[r])
           m == Len(table) + 1
<1>1. /\ out' \in [Requests -> Seq(Verdicts \cup Nat)]
      /\ \A q \in Requests \ {r} : out'[q] = out[q]
      /\ DOMAIN out[r] = 1 .. n /\ n \in Nat
      /\ out'[r][n + 1] = "ok"
      /\ \A k \in DOMAIN out[r] : out'[r][k] = out[r][k]
      /\ DOMAIN out'[r] = 1 .. n + 1
      /\ \A q \in Requests : VerdictInv(q)'
  BY CsvSays DEF Verdicts
<1>2. Csv!Done(r) + 1 = n + 1 /\ n + 1 \in Nat
  BY <1>1 DEF Csv!Done
<1>3. /\ table' \in Seq(Rows) /\ DOMAIN table = 1 .. m - 1 /\ m \in DOMAIN table' /\ m \notin DOMAIN table
      /\ \A i \in DOMAIN table : table'[i] = table[i] /\ i \in DOMAIN table'
      /\ \A i \in DOMAIN table' : i \in DOMAIN table \/ i = m
      /\ table'[m].name = rec.name /\ table'[m].code = rec.code /\ table'[m].role = rec.role
      /\ table'[m].by = r /\ table'[m].line = n + 1
      /\ changes' \in Nat /\ tied' = (tied \/ Csv!Ties(table'))
  <2>1. rec.name \in Nat /\ rec.code \in Nat /\ rec.role \in Nat
    BY RecordsAre DEF Csv!NextRecords
  <2> QED
    BY <1>2, <2>1, InsertIs
<1>4. csvPc[r] = "import" /\ Importing(r)
  BY DEF Csv!HasLine, ImportInv, PcInv
<1>5. r # Csv!Nobody
  BY CsvConstants
<1> HIDE DEF n, m
<1>6. Created(r)' = Created(r) \cup {n + 1} /\ Created(r) \subseteq 1 .. n
  <2>1. \A k : k \in 1 .. n + 1 <=> k = n + 1 \/ k \in 1 .. n
    BY <1>1
  <2> QED
    BY <1>1, <2>1 DEF Created
<1>7. \A q \in Requests \ {r} : Created(q)' = Created(q)
  BY <1>1 DEF Created
<1>8. ReportInv(r)'
  <2>1. ReportInv(r)
    BY DEF ImportInv
  <2>2. \A i \in DOMAIN table' : table'[i].by = r => table'[i].line \in Created(r)'
    BY <1>3, <1>4, <1>6, <2>1 DEF ReportInv
  <2>3. \A k \in Created(r)' : \E i \in DOMAIN table' : table'[i].by = r /\ table'[i].line = k
    <3> TAKE k \in Created(r)'
    <3>1. CASE k = n + 1
      BY <1>3, <3>1
    <3>2. CASE k \in Created(r)
      <4>1. PICK i \in DOMAIN table : table[i].by = r /\ table[i].line = k
        BY <1>4, <2>1, <3>2 DEF ReportInv
      <4> QED
        BY <1>3, <4>1
    <3> QED
      BY <1>6, <3>1, <3>2
  <2>4. \A i \in DOMAIN table : table[i].by = r => table[i].line # n + 1
    <3>1. n + 1 \notin 1 .. n
      BY <1>1
    <3> QED
      BY <1>4, <1>6, <2>1, <3>1 DEF ReportInv
  <2>5. \A i, j \in DOMAIN table' :
          table'[i].by = r /\ table'[j].by = r /\ table'[i].line = table'[j].line => i = j
    <3> SUFFICES ASSUME NEW i \in DOMAIN table', NEW j \in DOMAIN table',
                        table'[i].by = r, table'[j].by = r, table'[i].line = table'[j].line
                 PROVE  i = j
      OBVIOUS
    <3>1. CASE i = m \/ j = m
      BY <1>3, <2>4, <3>1
    <3>2. CASE i # m /\ j # m
      <4>1. i \in DOMAIN table /\ j \in DOMAIN table
        BY <1>3, <3>2
      <4> QED
        BY <1>3, <1>4, <2>1, <4>1 DEF ReportInv
    <3> QED
      BY <3>1, <3>2
  <2> QED
    BY <2>2, <2>3, <2>5 DEF ReportInv
<1>9. ASSUME NEW q \in Requests, q # r PROVE ReportInv(q)'
  <2>1. ReportInv(q) /\ Created(q)' = Created(q) /\ (Importing(q)' <=> Importing(q))
    BY <1>7, <1>9 DEF ImportInv, Importing
  <2>2. \A i \in DOMAIN table' : table'[i].by = q => i \in DOMAIN table /\ table'[i] = table[i]
    BY <1>3, <1>9
  <2>3. \A i \in DOMAIN table : table[i] = table'[i] /\ i \in DOMAIN table'
    BY <1>3
  <2> QED
    BY <2>1, <2>2, <2>3 DEF ReportInv
<1>10. ASSUME NEW q \in Requests PROVE PcInv(q)'
  <2>1. PcInv(q)
    BY DEF ImportInv
  <2>2. CASE q = r
    BY <1>4, <2>2 DEF PcInv, Importing
  <2>3. CASE q # r
    <3>1. \A i \in DOMAIN table' : table'[i].by = q => i \in DOMAIN table /\ table'[i] = table[i]
      BY <1>3, <2>3
    <3> QED
      BY <1>1, <2>1, <2>3, <3>1 DEF PcInv, Importing
  <2> QED
    BY <2>2, <2>3
<1>11. CsvType'
  BY <1>1, <1>3 DEF CsvType
<1>12. LegacyInv'
  <2> SUFFICES ASSUME NEW i \in DOMAIN table', ~ Csv!Valid(table'[i])
               PROVE  table'[i].by # Csv!Nobody /\ job[table'[i].by].legacy
    BY DEF LegacyInv, Csv!Valid
  <2>1. CASE i \in DOMAIN table
    BY <1>3, <2>1 DEF LegacyInv
  <2>2. CASE i = m
    <3>1. ~ Csv!Valid(rec)
      BY <1>3, <2>2, ValidIs
    <3>2. job[r].legacy
      BY <3>1 DEF Csv!Checked
    <3> QED
      BY <1>3, <1>5, <2>2, <3>2
  <2> QED
    BY <1>3, <2>1, <2>2
<1> QED
  BY <1>1, <1>8, <1>9, <1>10, <1>11, <1>12 DEF ImportInv

LEMMA CsvScreens ==
  ASSUME CsvType, ImportInv, LegacyInv,
         (\E rec \in Entered : Csv!Create(rec)) \/ (\E i, name \in Nat : Csv!Rename(i, name))
  PROVE  CsvType' /\ ImportInv' /\ LegacyInv'
<1>1. ASSUME NEW rec \in Entered, Csv!Create(rec) PROVE CsvType' /\ ImportInv' /\ LegacyInv'
  <2> DEFINE m == Len(table) + 1
  <2>1. rec \in [{"name", "code", "role"} -> Nat]
    BY <1>1, CsvConstants DEF Csv!Fields
  <2>2. rec["name"] \in Nat /\ rec["code"] \in Nat /\ rec["role"] \in Nat
    BY <2>1
  <2>3. /\ Csv!Valid(rec) /\ Csv!Insert(rec, Csv!Nobody, 0)
        /\ UNCHANGED <<context, csvPc, job, out, began>>
    BY <1>1 DEF Csv!Create
  <2>4. /\ table' \in Seq(Rows)
        /\ \A i \in DOMAIN table : table'[i] = table[i] /\ i \in DOMAIN table'
        /\ \A i \in DOMAIN table' : i \in DOMAIN table \/ i = m
        /\ table'[m].name = rec.name /\ table'[m].code = rec.code /\ table'[m].role = rec.role
        /\ table'[m].by = Csv!Nobody
        /\ changes' \in Nat /\ tied' = (tied \/ Csv!Ties(table'))
    BY <2>2, <2>3, InsertIs
  <2> HIDE DEF m
  <2>5. CsvType'
    BY <2>3, <2>4 DEF CsvType
  <2>6. ASSUME NEW q \in Requests PROVE (PcInv(q) /\ ReportInv(q) /\ VerdictInv(q))'
    <3>0. PcInv(q) /\ ReportInv(q) /\ VerdictInv(q) /\ q # Csv!Nobody
      BY CsvConstants DEF ImportInv
    <3>1. \A i \in DOMAIN table' : table'[i].by = q => i \in DOMAIN table /\ table'[i] = table[i]
      BY <2>4, <3>0
    <3>2. PcInv(q)'
      BY <2>3, <3>0, <3>1 DEF PcInv, Importing
    <3>3. Created(q)' = Created(q) /\ (Importing(q)' <=> Importing(q))
      BY <2>3 DEF Created, Importing
    <3>4. ReportInv(q)'
      BY <2>4, <3>0, <3>1, <3>3 DEF ReportInv
    <3>5. \A x : Csv!Checked(q, x)' <=> Csv!Checked(q, x)
      BY <2>3 DEF Csv!Checked, Csv!Valid
    <3>6. VerdictInv(q)'
      BY <2>3, <3>0, <3>5 DEF VerdictInv, Importing, Lines
    <3> QED
      BY <3>2, <3>4, <3>6
  <2>7. LegacyInv'
    <3> SUFFICES ASSUME NEW i \in DOMAIN table', ~ Csv!Valid(table'[i])
                 PROVE  table'[i].by # Csv!Nobody /\ job[table'[i].by].legacy
      BY <2>3 DEF LegacyInv, Csv!Valid
    <3>1. i # m
      BY <2>3, <2>4, ValidIs
    <3> QED
      BY <2>4, <3>1 DEF LegacyInv
  <2> QED
    BY <2>5, <2>6, <2>7 DEF ImportInv
<1>2. ASSUME NEW x \in Nat, NEW name \in Nat, Csv!Rename(x, name)
      PROVE CsvType' /\ ImportInv' /\ LegacyInv'
  <2>1. /\ x \in DOMAIN table /\ Csv!Valid([table[x] EXCEPT !.name = name])
        /\ table' = [table EXCEPT ![x].name = name] /\ changes' = changes + 1
        /\ tied' = (tied \/ Csv!Ties(table'))
        /\ UNCHANGED <<context, csvPc, job, out, began>>
    BY <1>2 DEF Csv!Rename
  <2> DEFINE new == [table[x] EXCEPT !.name = name]
  <2>2. table[x] \in Rows /\ table \in Seq(Rows)
    BY <2>1 DEF CsvType
  <2>3. new \in Rows /\ new.by = table[x].by /\ new.line = table[x].line
    BY <2>2 DEF Rows
  <2>4. table' = [table EXCEPT ![x] = new]
    BY <2>1
  <2> HIDE DEF new
  <2>5. /\ table' \in Seq(Rows) /\ DOMAIN table' = DOMAIN table /\ table'[x] = new
        /\ \A i \in DOMAIN table : i # x => table'[i] = table[i]
    BY <2>1, <2>2, <2>3, <2>4
  <2>6. \A i \in DOMAIN table : table'[i].by = table[i].by /\ table'[i].line = table[i].line
    BY <2>3, <2>5
  <2>7. CsvType'
    <3>1. changes' \in Nat
      <4>1. changes \in Nat
        BY DEF CsvType
      <4> QED
        BY <2>1, <4>1
    <3>2. tied' \in BOOLEAN
      BY <2>1
    <3> QED
      BY <2>1, <2>5, <3>1, <3>2 DEF CsvType
  <2>8. ASSUME NEW q \in Requests PROVE (PcInv(q) /\ ReportInv(q) /\ VerdictInv(q))'
    <3>0. PcInv(q) /\ ReportInv(q) /\ VerdictInv(q)
      BY DEF ImportInv
    <3>2. PcInv(q)'
      BY <2>1, <2>5, <2>6, <3>0 DEF PcInv, Importing
    <3>3. Created(q)' = Created(q) /\ (Importing(q)' <=> Importing(q))
      BY <2>1 DEF Created, Importing
    <3>4. ReportInv(q)'
      BY <2>5, <2>6, <3>0, <3>3 DEF ReportInv
    <3>5. \A a : Csv!Checked(q, a)' <=> Csv!Checked(q, a)
      BY <2>1 DEF Csv!Checked, Csv!Valid
    <3>6. VerdictInv(q)'
      BY <2>1, <3>0, <3>5 DEF VerdictInv, Importing, Lines
    <3> QED
      BY <3>2, <3>4, <3>6
  <2>9. LegacyInv'
    <3> SUFFICES ASSUME NEW i \in DOMAIN table, ~ Csv!Valid(table'[i])
                 PROVE  table'[i].by # Csv!Nobody /\ job[table'[i].by].legacy
      BY <2>1, <2>5 DEF LegacyInv, Csv!Valid
    <3>1. i # x
      BY <2>1, <2>5 DEF new
    <3>2. ~ Csv!Valid(table[i])
      BY <2>5, <3>1
    <3> QED
      BY <2>6, <3>2 DEF LegacyInv
  <2> QED
    BY <2>7, <2>8, <2>9 DEF ImportInv
<1> QED
  BY <1>1, <1>2

-----------------------------------------------------------------------------
(* Exports. *)

Places == [i \in DOMAIN table |-> Csv!Place(table, i)]
Listed(r) == {out[r][k] : k \in DOMAIN out[r]}
Passed(r) == began[r].pages * PageSize
Since(r) == changes - began[r].changes
Compared == ~ tied /\ context # "sales"

AddsUp(r) ==
  LET missed == (1 .. began[r].rows) \ Listed(r)
  IN  Cardinality(missed) + (Len(out[r]) - Cardinality(Listed(r))) <= 2 * Since(r)

\* Of the rows before the page that comes next, at most one per change is not listed.
ExportInv(r) ==
  /\ began[r].rows <= Len(table) /\ began[r].changes <= changes
  /\ csvPc[r] = "export" /\ Compared =>
       /\ Len(out[r]) = Passed(r) /\ Passed(r) <= Len(table)
       /\ Listed(r) \subseteq DOMAIN table
       /\ Cardinality(Foremost(Places, Passed(r)) \ Listed(r)) <= Since(r)
  /\ csvPc[r] = "answered" /\ ~ Importing(r) /\ Compared => AddsUp(r)

TieInv == ~ tied => ~ Csv!Ties(table)
ExportsInv == TieInv /\ \A r \in Requests : ExportInv(r)

LEMMA PlacesAre ==
  ASSUME CsvType, context # "sales"
  PROVE  /\ Len(table) \in Nat /\ DOMAIN table = 1 .. Len(table)
         /\ NumberedRows(Places, Len(table)) /\ DOMAIN Places = 1 .. Len(table)
         /\ \A i \in DOMAIN table :
              Places[i] = IF context = "members" THEN table[i].code ELSE table[i].name
         /\ ~ Csv!Ties(table) => Apart(Places)
<1>1. table \in Seq(Rows)
  BY DEF CsvType
<1>2. Len(table) \in Nat /\ DOMAIN table = 1 .. Len(table) /\ \A i \in DOMAIN table : table[i] \in Rows
  BY <1>1
<1>3. \A i \in DOMAIN table :
        /\ Places[i] = IF context = "members" THEN table[i].code ELSE table[i].name
        /\ Places[i] = Csv!Place(table, i)
  BY DEF Places, Csv!Place
<1>4. \A i \in DOMAIN table : table[i].code \in Nat /\ table[i].name \in Nat
  BY <1>2 DEF Rows
<1>5. Places \in [1 .. Len(table) -> Nat]
  <2>1. \A i \in 1 .. Len(table) : Places[i] \in Nat
    BY <1>2, <1>3, <1>4
  <2>2. Places = [i \in 1 .. Len(table) |-> Csv!Place(table, i)]
    BY <1>2 DEF Places
  <2>3. \A i \in 1 .. Len(table) : Places[i] = Csv!Place(table, i)
    BY <2>2
  <2>4. \A i \in 1 .. Len(table) : Csv!Place(table, i) \in Nat
    BY <2>1, <2>3
  <2> QED
    BY <2>2, <2>4
<1>6. ASSUME ~ Csv!Ties(table), NEW i \in 1 .. Len(table), NEW j \in 1 .. Len(table), i # j
      PROVE  Places[i] # Places[j]
  <2>1. i < j \/ j < i
    BY <1>2, <1>6
  <2> QED
    BY <1>2, <1>3, <1>6, <2>1 DEF Csv!Ties
<1>7. DOMAIN Places = 1 .. Len(table)
  BY <1>2 DEF Places
<1> QED
  BY <1>2, <1>3, <1>5, <1>6, <1>7 DEF NumberedRows, Apart

LEMMA ForemostIsFinite ==
  ASSUME CsvType, context # "sales", NEW m, NEW S
  PROVE  IsFiniteSet(Foremost(Places, m) \ S) /\ Cardinality(Foremost(Places, m) \ S) \in Nat
<1>1. IsFiniteSet(1 .. Len(table))
  BY PlacesAre, FirstAreFinite
<1>2. Foremost(Places, m) \ S \in SUBSET (1 .. Len(table))
  BY PlacesAre DEF Foremost
<1> QED
  BY <1>1, <1>2, FS_Subset, FS_CardinalityType

LEMMA ListedIsFinite ==
  ASSUME CsvType, NEW r \in Requests
  PROVE  /\ Len(out[r]) \in Nat /\ DOMAIN out[r] = 1 .. Len(out[r])
         /\ IsFiniteSet(Listed(r)) /\ Cardinality(Listed(r)) \in Nat
<1> DEFINE f == out[r]
           D == DOMAIN f
           S == {f[k] : k \in D}
<1>1. f \in Seq(Verdicts \cup Nat)
  BY DEF CsvType
<1>2. Len(f) \in Nat /\ D = 1 .. Len(f)
  BY <1>1
<1>3. IsFiniteSet(D)
  BY <1>2, FirstAreFinite
<1>4. f \in Surjection(D, S)
  <2>1. f \in [D -> S]
    BY <1>1
  <2> QED
    BY <2>1 DEF Surjection
<1>5. S = Listed(r)
  BY DEF Listed
<1> HIDE DEF D, S
<1>6. IsFiniteSet(S)
  BY <1>3, <1>4, FS_Surjection
<1> QED
  BY <1>2, <1>5, <1>6, FS_CardinalityType DEF D

LEMMA ExportInit == ASSUME Csv!Init, CsvType PROVE ExportsInv
<1>1. \A r \in Requests : csvPc[r] = "idle" /\ began[r].rows = 0 /\ began[r].changes = 0
  BY DEF Csv!Init, Csv!NoStart
<1>2. Len(table) \in Nat /\ changes \in Nat
  BY DEF CsvType
<1>3. TieInv
  BY DEF TieInv, Csv!Init
<1> QED
  BY <1>1, <1>2, <1>3 DEF ExportInv, ExportsInv

\* What does not change the rows leaves the other exports where they are.
LEMMA ExportRests ==
  ASSUME ExportsInv, NEW r \in Requests, UNCHANGED <<context, table, changes, tied>>,
         csvPc'[r] = csvPc[r], out'[r] = out[r], began'[r] = began[r],
         job'[r] = job[r]
  PROVE  ExportInv(r)' /\ TieInv'
<1>1. Places' = Places /\ Listed(r)' = Listed(r)
  BY DEF Places, Csv!Place, Listed
<1> QED
  BY <1>1 DEF ExportsInv, ExportInv, TieInv, Csv!Ties, Csv!Place, Compared, Passed, Since, AddsUp,
       Importing

LEMMA ExportBegins ==
  ASSUME CsvType, ImportInv, ExportsInv, NEW r \in Requests, NEW j, Csv!Begin(r, j),
         NEW to \in {"import", "export", "refused"}, csvPc' = [csvPc EXCEPT ![r] = to]
  PROVE  ExportsInv'
<1>1. /\ csvPc[r] = "idle" /\ job' = [job EXCEPT ![r] = j]
      /\ began' = [began EXCEPT ![r] = [pages |-> 0, rows |-> Len(table), changes |-> changes]]
      /\ UNCHANGED <<context, table, changes, edits, tied, out>>
  BY DEF Csv!Begin
<1>2. out[r] = << >>
  BY <1>1 DEF ImportInv, PcInv
<1>3. /\ csvPc'[r] = to /\ began'[r] = [pages |-> 0, rows |-> Len(table), changes |-> changes]
      /\ \A q \in Requests \ {r} : /\ job'[q] = job[q] /\ csvPc'[q] = csvPc[q]
                                   /\ began'[q] = began[q]
  BY <1>1 DEF CsvType
<1>4. Len(table) \in Nat /\ changes \in Nat
  BY DEF CsvType
<1>5. ASSUME NEW q \in Requests PROVE ExportInv(q)'
  <2>1. CASE q # r
    BY <1>1, <1>3, <2>1, ExportRests
  <2>2. CASE q = r
    <3>1. began'[r].rows = Len(table) /\ began'[r].changes = changes /\ began'[r].pages = 0
      BY <1>3
    <3>2. Listed(r)' = {} /\ Len(out'[r]) = 0
      BY <1>1, <1>2 DEF Listed
    <3>3. Passed(r)' = 0
      BY <3>1, CsvConstants DEF Passed
    <3>4. Places' = Places
      BY <1>1 DEF Places, Csv!Place
    <3>5. ASSUME context # "sales" PROVE Foremost(Places, 0) = {}
      <4>1. \A i \in DOMAIN Places : RankOf(Places, i) \in Nat
        BY <3>5, PlacesAre, RanksAre
      <4> QED
        BY <4>1 DEF Foremost
    <3>6. Cardinality({} \ {}) = 0
      BY FS_EmptySet
    <3>7. Since(r)' = 0
      BY <1>1, <1>4, <3>1 DEF Since
    <3>8. context # "sales" => Cardinality(Foremost(Places, 0) \ Listed(r)') = 0
      <4>1. ASSUME context # "sales" PROVE Foremost(Places, 0) \ Listed(r)' = {}
        BY <3>2, <3>5, <4>1
      <4> QED
        BY <4>1, FS_EmptySet
    <3>9. Compared' => context # "sales"
      BY <1>1 DEF Compared
    <3>10. ExportInv(r)'
      BY <1>1, <1>3, <1>4, <3>1, <3>2, <3>3, <3>4, <3>7, <3>8, <3>9 DEF ExportInv
    <3> QED
      BY <2>2, <3>10
  <2> QED
    BY <2>1, <2>2
<1>6. TieInv'
  BY <1>1 DEF ExportsInv, TieInv, Csv!Ties, Csv!Place
<1> QED
  BY <1>5, <1>6 DEF ExportsInv

\* A change of the rows leaves at most one row more behind.
LEMMA ExportsUnderway ==
  ASSUME CsvType, CsvType', ExportsInv, NEW r \in Requests,
         UNCHANGED <<context, csvPc, began, job>>,
         changes' = changes + 1, Len(table') >= Len(table), tied => tied',
         csvPc[r] # "import" => out'[r] = out[r],
         DOMAIN table \subseteq DOMAIN table',
         NEW y, context # "sales" /\ ~ tied =>
           Foremost(Places', Passed(r)) \subseteq Foremost(Places, Passed(r)) \cup {y}
  PROVE  ExportInv(r)'
<1>1. /\ changes \in Nat /\ changes' = changes + 1 /\ began' = began
      /\ began[r].changes \in Nat /\ began[r].rows \in Nat
      /\ Len(table) \in Nat /\ Len(table') \in Nat
  BY DEF CsvType
<1>2. ExportInv(r)
  BY DEF ExportsInv
<1>3. began'[r].rows <= Len(table') /\ began'[r].changes <= changes'
  BY <1>1, <1>2 DEF ExportInv
<1>4. Passed(r)' = Passed(r) /\ Since(r)' = Since(r) + 1 /\ Since(r) \in Int
  BY <1>1 DEF Passed, Since
<1>5. Compared' => Compared /\ context # "sales"
  BY DEF Compared
<1>6. ASSUME csvPc[r] = "export", Compared'
      PROVE  /\ Len(out'[r]) = Passed(r)' /\ Passed(r)' <= Len(table')
             /\ Listed(r)' \subseteq DOMAIN table'
             /\ Cardinality(Foremost(Places', Passed(r)') \ Listed(r)') <= Since(r)'
  <2>1. Listed(r)' = Listed(r) /\ out'[r] = out[r]
    BY <1>6 DEF Listed
  <2>2. Passed(r) <= Len(table) /\ Len(out[r]) = Passed(r) /\ Listed(r) \subseteq DOMAIN table
        /\ Cardinality(Foremost(Places, Passed(r)) \ Listed(r)) <= Since(r)
    BY <1>2, <1>5, <1>6 DEF ExportInv
  <2>3. Passed(r) \in Int
    <3>1. out[r] \in Seq(Verdicts \cup Nat)
      BY DEF CsvType
    <3>2. Len(out[r]) \in Nat
      BY <3>1
    <3> QED
      BY <2>2, <3>2
  <2>4. Foremost(Places', Passed(r)) \ Listed(r) \subseteq (Foremost(Places, Passed(r)) \ Listed(r)) \cup {y}
    BY <1>5, <1>6 DEF Compared
  <2>5. /\ IsFiniteSet(Foremost(Places, Passed(r)) \ Listed(r))
        /\ Cardinality(Foremost(Places, Passed(r)) \ Listed(r)) \in Nat
    BY <1>5, <1>6, ForemostIsFinite
  <2> DEFINE S == Foremost(Places, Passed(r)) \ Listed(r)
             T == Foremost(Places', Passed(r)) \ Listed(r)
  <2>6. T \subseteq S \cup {y} /\ IsFiniteSet(S) /\ Cardinality(S) <= Since(r)
    BY <2>2, <2>4, <2>5
  <2> HIDE DEF S, T
  <2>7. Cardinality(T) \in Nat /\ Cardinality(S) \in Nat /\ Cardinality(T) <= Cardinality(S) + 1
    BY <2>6, OneMore
  <2>8. Cardinality(T) <= Since(r) + 1
    BY <1>4, <2>6, <2>7
  <2>9. Cardinality(Foremost(Places', Passed(r)') \ Listed(r)') <= Since(r)'
    BY <1>4, <2>1, <2>8 DEF T
  <2>10. Passed(r)' <= Len(table') /\ Len(out'[r]) = Passed(r)'
    BY <1>1, <1>4, <2>1, <2>2, <2>3
  <2>11. Listed(r)' \subseteq DOMAIN table'
    BY <2>1, <2>2
  <2> QED
    BY <2>9, <2>10, <2>11
<1>7. ASSUME csvPc[r] = "answered", ~ Importing(r), Compared' PROVE AddsUp(r)'
  <2>1. Listed(r)' = Listed(r) /\ out'[r] = out[r]
    BY <1>7 DEF Listed
  <2> DEFINE a == Cardinality((1 .. began[r].rows) \ Listed(r))
             b == Cardinality(Listed(r))
  <2>2. a + (Len(out[r]) - b) <= 2 * Since(r)
    BY <1>2, <1>5, <1>7 DEF ExportInv, AddsUp
  <2>3. a \in Nat /\ b \in Nat /\ Len(out[r]) \in Nat
    <3>1. IsFiniteSet(1 .. began[r].rows)
      BY <1>1, FirstAreFinite
    <3>6. IsFiniteSet((1 .. began[r].rows) \ Listed(r))
      BY <3>1, FS_Difference
    <3> QED
      BY <3>6, ListedIsFinite, FS_CardinalityType
  <2> HIDE DEF a, b
  <2>4. a + (Len(out[r]) - b) <= 2 * (Since(r) + 1)
    BY <1>4, <2>2, <2>3
  <2> QED
    BY <1>1, <1>4, <2>1, <2>4 DEF AddsUp, a, b
<1> QED
  BY <1>3, <1>6, <1>7 DEF ExportInv, Importing

-----------------------------------------------------------------------------
(* Pages. *)

LEMMA ListingsAre ==
  ASSUME CsvType, NEW listing \in Csv!Listings
  PROVE  /\ Len(table) \in Nat /\ DOMAIN table = 1 .. Len(table)
         /\ listing \in [1 .. Len(table) -> 1 .. Len(table)] /\ Len(listing) = Len(table)
         /\ \A a, b \in 1 .. Len(table) : a # b => listing[a] # listing[b]
         /\ \A a, b \in 1 .. Len(table) :
              a < b => Csv!Place(table, listing[a]) <= Csv!Place(table, listing[b])
<1> DEFINE n == Len(table)
<1>1. n \in Nat /\ DOMAIN table = 1 .. n
  BY DEF CsvType
<1>2. \A S : Csv!Cardinality(S) = Cardinality(S)
  BY DEF Csv!Cardinality, Cardinality
<1>3. IsFiniteSet(1 .. n) /\ Cardinality(1 .. n) = n
  <2>1. IsFiniteSet(1 .. n) /\ Cardinality(1 .. n) = IF 1 > n THEN 0 ELSE n - 1 + 1
    BY <1>1, FS_Interval
  <2> QED
    BY <1>1, <2>1
<1>4. Csv!Cardinality(DOMAIN table) = n
  BY <1>1, <1>2, <1>3
<1> HIDE DEF n
<1>5. /\ listing \in [1 .. n -> 1 .. n]
      /\ \A a, b \in 1 .. n : a # b => listing[a] # listing[b]
      /\ \A a, b \in DOMAIN listing :
           a < b => Csv!Place(table, listing[a]) <= Csv!Place(table, listing[b])
  BY <1>1, <1>4 DEF Csv!Listings, Csv!SetToSeqs
<1>6. Len(listing) = n
  <2>1. listing \in Seq(1 .. n)
    BY <1>1, <1>5
  <2>2. DOMAIN listing = 1 .. n /\ DOMAIN listing = 1 .. Len(listing) /\ Len(listing) \in Nat
    BY <1>5, <2>1
  <2> QED
    BY <1>1, <2>2
<1> QED
  BY <1>1, <1>5, <1>6 DEF n

\* The part of a sequence from one place to another.
LEMMA PartIs ==
  ASSUME NEW S, NEW s \in Seq(S), NEW k \in Nat, NEW m \in Nat, m <= Len(s)
  PROVE  /\ SubSeq(s, k + 1, m) \in Seq(S)
         /\ k <= m => /\ Len(SubSeq(s, k + 1, m)) = m - k
                      /\ \A a \in 1 .. m - k : SubSeq(s, k + 1, m)[a] = s[k + a]
OBVIOUS

\* Where a page starts is a number, and a page more is a page further.
LEMMA PagesAre ==
  ASSUME CsvType, NEW r \in Requests
  PROVE  /\ Passed(r) \in Nat /\ began[r].pages \in Nat
         /\ (began[r].pages + 1) * PageSize = Passed(r) + PageSize
<1>1. began[r].pages \in Nat
  BY DEF CsvType
<1>2. \A a, b \in Nat : a * b \in Nat /\ (a + 1) * b = a * b + b
  OBVIOUS
<1> QED
  BY <1>1, <1>2, CsvConstants DEF Passed

\* A page is a stretch of the list, the last one shorter than the others.
LEMMA PageIs ==
  ASSUME CsvType, NEW r \in Requests, NEW listing \in Csv!Listings
  PROVE  LET page == Csv!Page(listing, began[r].pages)
         IN  /\ page \in Seq(Nat) /\ Len(page) \in Nat
             /\ Passed(r) <= Len(table) =>
                  \E m \in Nat :
                    /\ m <= Len(table) /\ Passed(r) <= m /\ Len(page) = m - Passed(r)
                    /\ \A a \in 1 .. m - Passed(r) : page[a] = listing[Passed(r) + a]
                    /\ Len(page) < PageSize => m = Len(table)
                    /\ ~ (Len(page) < PageSize) => m = Passed(r) + PageSize
<1> DEFINE k == Passed(r)
           n == Len(table)
           m == IF k + PageSize < n THEN k + PageSize ELSE n
           page == SubSeq(listing, k + 1, m)
<1>1. n \in Nat /\ listing \in [1 .. n -> 1 .. n] /\ Len(listing) = n
  BY ListingsAre
<1>2. k \in Nat /\ (began[r].pages + 1) * PageSize = k + PageSize
  BY PagesAre
<1>3. PageSize \in Nat /\ PageSize > 0
  BY CsvConstants
<1>4. Csv!Page(listing, began[r].pages) = page
  <2>1. began[r].pages * PageSize = k
    BY DEF Passed
  <2> HIDE DEF k
  <2> QED
    BY <1>1, <1>2, <2>1 DEF Csv!Page
<1> HIDE DEF k, n
<1>5. listing \in Seq(Nat)
  BY <1>1
<1>6. m \in Nat /\ m <= n
  BY <1>1, <1>2, <1>3
<1>7. /\ page \in Seq(Nat)
      /\ k <= m => Len(page) = m - k /\ \A a \in 1 .. m - k : page[a] = listing[k + a]
  <2> HIDE DEF m
  <2> QED
    BY <1>1, <1>2, <1>5, <1>6, PartIs
<1>8. k <= n => k <= m
  BY <1>1, <1>2, <1>3
<1>9. k <= n => /\ m - k < PageSize => m = n
                /\ ~ (m - k < PageSize) => m = k + PageSize
  BY <1>1, <1>2, <1>3
<1> HIDE DEF m, page
<1>10. Len(page) \in Nat
  BY <1>7
<1> QED
  BY <1>4, <1>6, <1>7, <1>8, <1>9, <1>10 DEF k, n

\* A step of an export: a page more.
LEMMA CsvPage ==
  ASSUME CsvType, ImportInv, LegacyInv, NEW r \in Requests, Csv!ListPage(r)
  PROVE  /\ CsvType' /\ ImportInv' /\ LegacyInv'
         /\ \A q \in Requests \ {r} : /\ csvPc'[q] = csvPc[q] /\ out'[q] = out[q]
                                      /\ began'[q] = began[q]
         /\ UNCHANGED <<context, table, changes, edits, tied, job>>
         /\ csvPc[r] = "export"
         /\ began'[r].rows = began[r].rows /\ began'[r].changes = began[r].changes
         /\ \E listing \in Csv!Listings :
              LET page == Csv!Page(listing, began[r].pages)
              IN  /\ out'[r] = out[r] \o Csv!Written(page)
                  /\ began'[r].pages = began[r].pages + 1
                  /\ csvPc'[r] = IF Len(page) < PageSize THEN "answered" ELSE "export"
<1>1. PICK listing \in Csv!Listings :
        /\ out' = [out EXCEPT ![r] = @ \o Csv!Written(Csv!Page(listing, began[r].pages))]
        /\ csvPc' = [csvPc EXCEPT ![r] =
             IF Len(Csv!Page(listing, began[r].pages)) < PageSize THEN "answered" ELSE "export"]
  BY DEF Csv!ListPage
<1>2. /\ csvPc[r] = "export" /\ began' = [began EXCEPT ![r].pages = @ + 1]
      /\ UNCHANGED <<context, table, changes, edits, tied, job>>
  BY DEF Csv!ListPage
<1> DEFINE page == Csv!Page(listing, began[r].pages)
           V == Verdicts \cup Nat
           to == IF Len(page) < PageSize THEN "answered" ELSE "export"
           old == began[r]
           B == [pages : Nat, rows : Nat, changes : Nat]
<1>3. page \in Seq(Nat)
  BY PageIs
<1>4. Csv!Written(page) \in Seq(V) /\ out \in [Requests -> Seq(V)]
  <2>1. page \in Seq(V)
    <3> HIDE DEF page
    <3> QED
      BY <1>3
  <2> HIDE DEF page, V
  <2>2. << >> \in Seq(V)
    OBVIOUS
  <2> QED
    BY <2>1, <2>2 DEF Csv!Written, V, CsvType
<1> DEFINE w == Csv!Written(page)
<1>5. out' = [out EXCEPT ![r] = @ \o w] /\ csvPc' = [csvPc EXCEPT ![r] = to]
  BY <1>1
<1>6. to \in {"answered", "export"}
  OBVIOUS
<1>7. old \in B /\ began \in [Requests -> B]
  BY DEF CsvType
<1> HIDE DEF w, to, V, page
<1>8. out[r] \o w \in Seq(V)
  BY <1>4 DEF w
<1>9. /\ out' \in [Requests -> Seq(V)] /\ out'[r] = out[r] \o w
      /\ \A q \in Requests \ {r} : out'[q] = out[q]
  BY <1>4, <1>5, <1>8
<1>10. /\ csvPc' \in [Requests -> {"idle", "import", "export", "answered", "refused", "dead"}]
       /\ csvPc'[r] = to /\ \A q \in Requests \ {r} : csvPc'[q] = csvPc[q]
  BY <1>5, <1>6 DEF CsvType
<1> DEFINE new == [old EXCEPT !.pages = @ + 1]
<1>11. /\ new \in B /\ new.pages = old.pages + 1 /\ new.rows = old.rows
       /\ new.changes = old.changes
  BY <1>7
<1>12. began' = [began EXCEPT ![r] = new]
  BY <1>2
<1> HIDE DEF new, B, old
<1>13. /\ began' \in [Requests -> B] /\ began'[r] = new
       /\ \A q \in Requests \ {r} : began'[q] = began[q]
  BY <1>7, <1>11, <1>12
<1>14. CsvType'
  BY <1>2, <1>9, <1>10, <1>13 DEF CsvType, B, V
<1>15. ~ Importing(r)
  BY <1>2 DEF ImportInv, PcInv
<1>16. ASSUME NEW q \in Requests PROVE (PcInv(q) /\ ReportInv(q) /\ VerdictInv(q))'
  <2>0. PcInv(q) /\ ReportInv(q) /\ VerdictInv(q)
    BY DEF ImportInv
  <2>1. Importing(q)' <=> Importing(q)
    BY <1>2 DEF Importing
  <2>2. CASE q = r
    BY <1>6, <1>10, <1>15, <2>1, <2>2 DEF PcInv, ReportInv, VerdictInv
  <2>3. CASE q # r
    <3>1. out'[q] = out[q] /\ csvPc'[q] = csvPc[q]
      BY <1>9, <1>10, <2>3
    <3>2. Created(q)' = Created(q)
      BY <1>2, <3>1 DEF Created
    <3>3. PcInv(q)'
      BY <1>2, <2>0, <2>1, <3>1 DEF PcInv
    <3>4. ReportInv(q)'
      BY <1>2, <2>0, <2>1, <3>2 DEF ReportInv
    <3>5. \A x : Csv!Checked(q, x)' <=> Csv!Checked(q, x)
      BY <1>2 DEF Csv!Checked, Csv!Valid
    <3>6. VerdictInv(q)'
      BY <1>2, <2>0, <2>1, <3>1, <3>5 DEF VerdictInv, Lines
    <3> QED
      BY <3>3, <3>4, <3>6
  <2> QED
    BY <2>2, <2>3
<1>17. LegacyInv'
  BY <1>2 DEF LegacyInv, Csv!Valid
<1>18. began'[r].rows = began[r].rows /\ began'[r].changes = began[r].changes
       /\ began'[r].pages = began[r].pages + 1
  BY <1>11, <1>13 DEF old
<1> QED
  BY <1>2, <1>9, <1>10, <1>13, <1>14, <1>16, <1>17, <1>18 DEF ImportInv, page, w, to

\* After a page, what is not listed of the rows up to its end was not before it either.
LEMMA ExportPage ==
  ASSUME CsvType, ImportInv, LegacyInv, ExportsInv, NEW r \in Requests, Csv!ListPage(r)
  PROVE  ExportsInv'
<1> DEFINE n == Len(table)
           k == Passed(r)
<1>1. /\ CsvType'
      /\ \A q \in Requests \ {r} : /\ csvPc'[q] = csvPc[q] /\ out'[q] = out[q]
                                   /\ began'[q] = began[q]
      /\ UNCHANGED <<context, table, changes, edits, tied, job>>
      /\ csvPc[r] = "export"
      /\ began'[r].rows = began[r].rows /\ began'[r].changes = began[r].changes
  BY CsvPage
<1>2. PICK listing \in Csv!Listings :
        LET page == Csv!Page(listing, began[r].pages)
        IN  /\ out'[r] = out[r] \o Csv!Written(page)
            /\ began'[r].pages = began[r].pages + 1
            /\ csvPc'[r] = IF Len(page) < PageSize THEN "answered" ELSE "export"
  BY CsvPage
<1> DEFINE page == Csv!Page(listing, began[r].pages)
<1>3. /\ page \in Seq(Nat) /\ Len(page) \in Nat
      /\ k <= n =>
           \E m \in Nat :
             /\ m <= n /\ k <= m /\ Len(page) = m - k
             /\ \A a \in 1 .. m - k : page[a] = listing[k + a]
             /\ Len(page) < PageSize => m = n
             /\ ~ (Len(page) < PageSize) => m = k + PageSize
  BY PageIs
<1>4. /\ out'[r] = out[r] \o Csv!Written(page)
      /\ began'[r].pages = began[r].pages + 1
      /\ csvPc'[r] = IF Len(page) < PageSize THEN "answered" ELSE "export"
  BY <1>2
<1>5. /\ n \in Nat /\ DOMAIN table = 1 .. n
      /\ listing \in [1 .. n -> 1 .. n]
      /\ \A a, b \in 1 .. n : a # b => listing[a] # listing[b]
      /\ \A a, b \in 1 .. n :
           a < b => Csv!Place(table, listing[a]) <= Csv!Place(table, listing[b])
  BY ListingsAre
<1>6. k \in Nat /\ (began[r].pages + 1) * PageSize = k + PageSize
  BY PagesAre
<1>7. /\ changes \in Nat /\ began[r].changes \in Nat /\ began[r].rows \in Nat
  BY DEF CsvType
<1>8. ExportInv(r)
  BY DEF ExportsInv
<1>9. Since(r)' = Since(r) /\ (Compared' <=> Compared) /\ Places' = Places /\ Since(r) \in Int
      /\ (Importing(r)' <=> Importing(r))
  BY <1>1, <1>7 DEF Since, Compared, Places, Csv!Place, Importing
<1>10. Passed(r)' = k + PageSize
  BY <1>4, <1>6 DEF Passed
<1> HIDE DEF n, k, page
<1>11. ASSUME Compared
       PROVE  /\ csvPc'[r] = "export" =>
                   /\ Len(out'[r]) = Passed(r)' /\ Passed(r)' <= Len(table')
                   /\ Listed(r)' \subseteq DOMAIN table'
                   /\ Cardinality(Foremost(Places', Passed(r)') \ Listed(r)') <= Since(r)'
              /\ csvPc'[r] = "answered" => AddsUp(r)'
  <2>1. /\ Len(out[r]) = k /\ k <= n /\ Listed(r) \subseteq 1 .. n
        /\ Cardinality(Foremost(Places, k) \ Listed(r)) <= Since(r)
    BY <1>1, <1>5, <1>8, <1>11 DEF ExportInv, n, k
  <2>2. PICK m \in Nat :
          /\ m <= n /\ k <= m /\ Len(page) = m - k
          /\ \A a \in 1 .. m - k : page[a] = listing[k + a]
          /\ Len(page) < PageSize => m = n
          /\ ~ (Len(page) < PageSize) => m = k + PageSize
    BY <1>3, <2>1
  <2>3. context # "sales" /\ ~ Csv!Ties(table)
    BY <1>11 DEF Compared, ExportsInv, TieInv
  <2>4. out'[r] = out[r] \o page
    BY <1>4, <2>3 DEF Csv!Written
  <2>5. /\ Len(out'[r]) = m
        /\ \A a \in 1 .. k : out'[r][a] = out[r][a]
        /\ \A a \in 1 .. m - k : out'[r][k + a] = listing[k + a]
    <3> DEFINE V == Verdicts \cup Nat
               s == out[r]
    <3>1. s \in Seq(V)
      BY DEF CsvType
    <3>2. page \in Seq(V)
      BY <1>3
    <3> HIDE DEF V, s
    <3>3. Len(s) = k
      BY <2>1 DEF s
    <3>4. /\ Len(s \o page) = m
          /\ \A a \in 1 .. k : (s \o page)[a] = s[a]
          /\ \A a \in 1 .. m - k : (s \o page)[k + a] = page[a]
      BY SMTT(30), <1>6, <2>2, <3>1, <3>2, <3>3
    <3> QED
      BY <2>2, <2>4, <3>4 DEF s
  <2>6. Listed(r)' = Listed(r) \cup {listing[a] : a \in k + 1 .. m}
    <3>1. DOMAIN out'[r] = 1 .. m /\ DOMAIN out[r] = 1 .. k
      <4>1. out' \in [Requests -> Seq(Verdicts \cup Nat)] /\ out \in [Requests -> Seq(Verdicts \cup Nat)]
        BY <1>1 DEF CsvType
      <4>2. out'[r] \in Seq(Verdicts \cup Nat) /\ out[r] \in Seq(Verdicts \cup Nat)
        BY <4>1
      <4> QED
        BY <2>1, <2>5, <4>2
    <3>2. ASSUME NEW x PROVE x \in Listed(r)' <=> x \in Listed(r) \/ \E a \in k + 1 .. m : x = listing[a]
      <4>1. ASSUME NEW a \in 1 .. m, x = out'[r][a]
            PROVE  x \in Listed(r) \/ \E b \in k + 1 .. m : x = listing[b]
        <5>1. CASE a <= k
          BY <1>6, <2>5, <3>1, <4>1, <5>1 DEF Listed
        <5>2. CASE a > k
          <6>1. a - k \in 1 .. m - k /\ k + (a - k) = a /\ a \in k + 1 .. m
            BY <1>6, <2>2, <5>2
          <6> QED
            BY <2>5, <4>1, <6>1
        <5> QED
          BY <1>6, <5>1, <5>2
      <4>2. ASSUME x \in Listed(r) PROVE \E a \in 1 .. m : x = out'[r][a]
        <5>1. PICK a \in 1 .. k : x = out[r][a]
          BY <3>1, <4>2 DEF Listed
        <5>2. a \in 1 .. m
          BY <1>6, <2>2
        <5> QED
          BY <2>5, <5>1, <5>2
      <4>3. ASSUME NEW a \in k + 1 .. m, x = listing[a] PROVE \E b \in 1 .. m : x = out'[r][b]
        <5>1. a - k \in 1 .. m - k /\ k + (a - k) = a /\ a \in 1 .. m
          BY <1>6, <2>2
        <5> QED
          BY <2>5, <4>3, <5>1
      <4>4. x \in Listed(r)' <=> \E a \in 1 .. m : x = out'[r][a]
        BY <3>1 DEF Listed
      <4> QED
        BY <4>1, <4>2, <4>3, <4>4
    <3> QED
      BY <3>2
  <2>7. Listed(r)' \subseteq 1 .. n
    <3>1. \A a \in k + 1 .. m : a \in 1 .. n
      BY <1>5, <1>6, <2>2
    <3> QED
      BY <1>5, <2>1, <2>6, <3>1
  <2>8. /\ \A a \in 1 .. n : RankOf(Places, listing[a]) = a - 1
        /\ \A i \in 1 .. n : \E a \in 1 .. n : listing[a] = i
    <3>1. /\ NumberedRows(Places, n) /\ DOMAIN Places = 1 .. n /\ Apart(Places)
      BY <2>3, PlacesAre DEF n
    <3>2. \A i \in 1 .. n : Places[i] = Csv!Place(table, i)
      BY <1>5 DEF Places
    <3>3. \A a, b \in 1 .. n : a < b => Places[listing[a]] <= Places[listing[b]]
      BY <1>5, <3>2
    <3> QED
      BY ZenonT(60), <1>5, <3>1, <3>3, ListedByRank
  <2>9. ASSUME NEW i \in 1 .. n, RankOf(Places, i) < m, i \notin Listed(r)'
        PROVE  i \in Foremost(Places, k) \ Listed(r)
    <3>1. PICK a \in 1 .. n : listing[a] = i
      BY <2>8
    <3>2. a - 1 < m /\ a \notin k + 1 .. m
      BY <2>6, <2>8, <2>9, <3>1
    <3>3. a - 1 < k
      BY <1>5, <1>6, <2>2, <3>2
    <3>4. DOMAIN Places = 1 .. n
      BY <2>3, PlacesAre DEF n
    <3> QED
      BY <2>6, <2>8, <2>9, <3>1, <3>3, <3>4 DEF Foremost
  <2>10. /\ IsFiniteSet(Foremost(Places, k) \ Listed(r))
         /\ Cardinality(Foremost(Places, k) \ Listed(r)) \in Nat
    BY <2>3, ForemostIsFinite
  <2>11. CASE ~ (Len(page) < PageSize)
    <3>1. m = k + PageSize /\ csvPc'[r] = "export"
      BY <1>4, <2>2, <2>11
    <3>2. Foremost(Places, m) \ Listed(r)' \subseteq Foremost(Places, k) \ Listed(r)
      <4>1. DOMAIN Places = 1 .. n
        BY <2>3, PlacesAre DEF n
      <4> QED
        BY <2>9, <4>1 DEF Foremost
    <3>3. /\ Cardinality(Foremost(Places, m) \ Listed(r)') \in Nat
          /\ Cardinality(Foremost(Places, m) \ Listed(r)') <= Cardinality(Foremost(Places, k) \ Listed(r))
      BY <2>10, <3>2, FS_Subset, FS_CardinalityType
    <3>4. Cardinality(Foremost(Places, m) \ Listed(r)') <= Since(r)
      BY <1>9, <2>1, <2>10, <3>3
    <3>5. Passed(r)' = m
      BY <1>10, <3>1
    <3>6. Len(table') = n /\ DOMAIN table' = 1 .. n
      BY <1>1, <1>5 DEF n
    <3> QED
      BY <1>9, <2>2, <2>5, <2>7, <3>1, <3>4, <3>5, <3>6
  <2>12. CASE Len(page) < PageSize
    <3>1. m = n /\ csvPc'[r] = "answered"
      BY <1>4, <2>2, <2>12
    <3> DEFINE L == Listed(r)'
               U == (1 .. n) \ L
               D == (1 .. began[r].rows) \ L
    <3>2. \A i \in 1 .. n : RankOf(Places, i) < n
      <4>1. NumberedRows(Places, n)
        BY <2>3, PlacesAre DEF n
      <4> QED
        BY <4>1, RanksAre
    <3>3. U \subseteq Foremost(Places, k) \ Listed(r)
      BY <2>9, <3>1, <3>2
    <3>4. began[r].rows <= n
      BY <1>8 DEF ExportInv, n
    <3>5. D \subseteq U
      BY <1>5, <1>7, <3>4
    <3>6. L \subseteq 1 .. n
      BY <2>7
    <3> HIDE DEF L
    <3>7. IsFiniteSet(1 .. n) /\ Cardinality(1 .. n) = n
      <4>1. IsFiniteSet(1 .. n) /\ Cardinality(1 .. n) = IF 1 > n THEN 0 ELSE n - 1 + 1
        BY <1>5, FS_Interval
      <4> QED
        BY <1>5, <4>1
    <3> DEFINE N == 1 .. n
    <3>8. IsFiniteSet(N) /\ L \subseteq N /\ Cardinality(N) = n
      BY <3>6, <3>7
    <3>9. IsFiniteSet(L) /\ Cardinality(L) \in Nat
      BY <3>8, FS_Subset, FS_CardinalityType
    <3>10. IsFiniteSet(U) /\ Cardinality(U) \in Nat /\ Cardinality(U) <= Since(r)
      <4>1. IsFiniteSet(U) /\ Cardinality(U) \in Nat
            /\ Cardinality(U) <= Cardinality(Foremost(Places, k) \ Listed(r))
        BY <2>10, <3>3, FS_Subset, FS_CardinalityType
      <4> QED
        BY <1>9, <2>1, <2>10, <4>1
    <3>11. Cardinality(L) = n - Cardinality(U)
      <4>1. U = N \ L
        OBVIOUS
      <4> HIDE DEF U, N
      <4>2. N \ U = L
        BY <3>8, <4>1
      <4>3. IsFiniteSet(N) /\ IsFiniteSet(U) /\ U \subseteq N /\ N \cap U = U
        BY <3>8, <3>10, <4>1
      <4>4. Cardinality(N \ U) = Cardinality(N) - Cardinality(N \cap U)
        BY <4>3, FS_Difference
      <4> QED
        BY <3>8, <4>2, <4>3, <4>4
    <3>12. Cardinality(D) \in Nat /\ Cardinality(D) <= Cardinality(U)
      BY <3>5, <3>10, FS_Subset, FS_CardinalityType
    <3> HIDE DEF U, D, N
    <3>13. Cardinality(D) + (n - Cardinality(L)) <= 2 * Since(r)
      BY <1>5, <1>9, <3>9, <3>10, <3>11, <3>12
    <3>14. AddsUp(r)'
      BY <1>1, <1>9, <2>5, <3>1, <3>13 DEF AddsUp, D, L
    <3> QED
      BY <3>1, <3>14
  <2> QED
    BY <2>11, <2>12
<1>12. ASSUME NEW q \in Requests PROVE ExportInv(q)'
  <2>1. CASE q # r
    <3>1. csvPc'[q] = csvPc[q] /\ out'[q] = out[q] /\ began'[q] = began[q] /\ job'[q] = job[q]
      BY <1>1, <2>1
    <3> QED
      BY <1>1, <3>1, ExportRests
  <2>2. CASE q = r
    <3>1. began'[r].rows <= Len(table') /\ began'[r].changes <= changes'
      BY <1>1, <1>8 DEF ExportInv
    <3>2. ExportInv(r)'
      BY <1>9, <1>11, <3>1 DEF ExportInv
    <3> QED
      BY <2>2, <3>2
  <2> QED
    BY <2>1, <2>2
<1>13. TieInv'
  BY <1>1 DEF ExportsInv, TieInv, Csv!Ties, Csv!Place
<1> QED
  BY <1>12, <1>13 DEF ExportsInv

-----------------------------------------------------------------------------
(* Rows that come and rows that move while exports are under way. *)

LEMMA PlacesNext ==
  ASSUME table' \in Seq(Rows), UNCHANGED context, context # "sales"
  PROVE  /\ Len(table') \in Nat /\ DOMAIN table' = 1 .. Len(table')
         /\ NumberedRows(Places', Len(table')) /\ DOMAIN Places' = 1 .. Len(table')
         /\ \A i \in DOMAIN table' :
              Places'[i] = IF context = "members" THEN table'[i].code ELSE table'[i].name
<1>1. /\ Len(table') \in Nat /\ DOMAIN table' = 1 .. Len(table')
      /\ \A i \in DOMAIN table' : table'[i] \in Rows
  OBVIOUS
<1>2. DOMAIN Places' = DOMAIN table'
  BY DEF Places
<1>3. \A i \in DOMAIN table' :
        Places'[i] = IF context = "members" THEN table'[i].code ELSE table'[i].name
  BY DEF Places, Csv!Place
<1>4. \A i \in DOMAIN table' : table'[i].code \in Nat /\ table'[i].name \in Nat
  BY <1>1 DEF Rows
<1>5. \A i \in 1 .. Len(table') : Places'[i] \in Nat
  BY <1>1, <1>3, <1>4
<1>6. Places' = [i \in 1 .. Len(table') |-> Places'[i]]
  <2>1. Places' = [i \in DOMAIN table' |-> Csv!Place(table, i)']
    BY DEF Places
  <2> QED
    BY <1>1, <2>1
<1> DEFINE P == Places'
<1>7. P = [i \in 1 .. Len(table') |-> P[i]] /\ \A i \in 1 .. Len(table') : P[i] \in Nat
  BY <1>5, <1>6
<1> HIDE DEF P
<1>8. P \in [1 .. Len(table') -> Nat]
  BY <1>7
<1> QED
  BY <1>1, <1>2, <1>3, <1>8 DEF NumberedRows, P

LEMMA TiesNext ==
  ASSUME TieInv, UNCHANGED context, tied' = (tied \/ Csv!Ties(table'))
  PROVE  TieInv'
<1>1. Csv!Ties(table)' <=> Csv!Ties(table')
  BY DEF Csv!Ties, Csv!Place
<1> QED
  BY <1>1 DEF TieInv

LEMMA ExportInsert ==
  ASSUME CsvType, CsvType', ExportsInv, NEW rec, NEW who, NEW line, Csv!Insert(rec, who, line),
         rec.name \in Nat, rec.code \in Nat, rec.role \in Nat,
         who \in Requests \cup {Csv!Nobody}, line \in Nat,
         NEW r \in Requests, UNCHANGED <<context, csvPc, began, job>>,
         csvPc[r] # "import" => out'[r] = out[r]
  PROVE  ExportInv(r)' /\ TieInv'
<1> DEFINE n == Len(table)
           y == n + 1
<1>1. /\ table' \in Seq(Rows) /\ n \in Nat /\ Len(table') = n + 1
      /\ DOMAIN table = 1 .. n /\ DOMAIN table' = 1 .. n + 1
      /\ \A i \in DOMAIN table : table'[i] = table[i] /\ i \in DOMAIN table'
      /\ changes' = changes + 1 /\ tied' = (tied \/ Csv!Ties(table'))
  BY InsertIs
<1>2. Passed(r) \in Nat
  BY PagesAre
<1>3. ASSUME context # "sales"
      PROVE  Foremost(Places', Passed(r)) \subseteq Foremost(Places, Passed(r)) \cup {y}
  <2>1. /\ NumberedRows(Places, n)
        /\ \A i \in 1 .. n :
             Places[i] = IF context = "members" THEN table[i].code ELSE table[i].name
    BY <1>1, <1>3, PlacesAre
  <2>2. /\ NumberedRows(Places', n + 1)
        /\ \A i \in 1 .. n + 1 :
             Places'[i] = IF context = "members" THEN table'[i].code ELSE table'[i].name
    BY <1>1, <1>3, PlacesNext
  <2>3. \A i \in 1 .. n : Places'[i] = Places[i]
    BY <1>1, <2>1, <2>2
  <2> DEFINE p == Places
             q == Places'
             m == Passed(r)
  <2> HIDE DEF p, q, m, n
  <2>4. /\ NumberedRows(p, n) /\ NumberedRows(q, n + 1) /\ \A i \in 1 .. n : q[i] = p[i]
        /\ m \in Nat
    BY <1>2, <2>1, <2>2, <2>3 DEF p, q, m
  <2>5. Foremost(q, m) \subseteq Foremost(p, m) \cup {n + 1}
    BY <2>4, RowsPushBack
  <2> QED
    BY <2>5 DEF p, q, m
<1> HIDE DEF y
<1>4. ExportInv(r)'
  <2>1. Len(table') >= Len(table) /\ DOMAIN table \subseteq DOMAIN table'
    BY <1>1
  <2> QED
    BY <1>1, <1>3, <2>1, ExportsUnderway
<1>5. TieInv'
  BY <1>1, TiesNext DEF ExportsInv
<1> QED
  BY <1>4, <1>5

LEMMA ExportRename ==
  ASSUME CsvType, CsvType', ExportsInv, NEW x \in Nat, NEW name \in Nat, Csv!Rename(x, name),
         NEW r \in Requests
  PROVE  ExportInv(r)' /\ TieInv'
<1>1. /\ x \in DOMAIN table /\ context \in {"orgs", "products"}
      /\ table' = [table EXCEPT ![x].name = name] /\ changes' = changes + 1
      /\ tied' = (tied \/ Csv!Ties(table'))
      /\ UNCHANGED <<context, csvPc, job, out, began>>
  BY DEF Csv!Rename
<1> DEFINE n == Len(table)
           new == [table[x] EXCEPT !.name = name]
<1>2. table \in Seq(Rows) /\ n \in Nat /\ DOMAIN table = 1 .. n /\ table[x] \in Rows
      /\ table' \in Seq(Rows)
  BY <1>1 DEF CsvType
<1>3. new.name = name
  BY <1>2 DEF Rows
<1>4. table' = [table EXCEPT ![x] = new]
  BY <1>1
<1> HIDE DEF new
<1>5. /\ DOMAIN table' = 1 .. n /\ table'[x] = new /\ Len(table') = n
      /\ \A i \in 1 .. n : i # x => table'[i] = table[i]
  BY <1>1, <1>2, <1>4
<1>6. Passed(r) \in Nat
  BY PagesAre
<1>7. context # "sales" /\ context # "members"
  BY <1>1
<1>8. ASSUME ~ tied
      PROVE  \E y : Foremost(Places', Passed(r)) \subseteq Foremost(Places, Passed(r)) \cup {y}
  <2>1. /\ NumberedRows(Places, n) /\ Apart(Places) /\ DOMAIN Places = 1 .. n
        /\ \A i \in 1 .. n : Places[i] = table[i].name
    BY <1>2, <1>7, <1>8, PlacesAre DEF ExportsInv, TieInv
  <2>2. /\ NumberedRows(Places', n) /\ DOMAIN Places' = 1 .. n
        /\ \A i \in 1 .. n : Places'[i] = table'[i].name
    BY <1>1, <1>2, <1>5, <1>7, PlacesNext
  <2>3. Places'[x] = name /\ \A i \in 1 .. n : i # x => Places'[i] = Places[i]
    BY <1>1, <1>2, <1>3, <1>5, <2>1, <2>2
  <2> DEFINE p == Places
             q == Places'
             m == Passed(r)
  <2>4. /\ NumberedRows(p, n) /\ Apart(p) /\ m \in Nat /\ x \in 1 .. n
        /\ NumberedRows(q, n) /\ q[x] = name /\ \A i \in 1 .. n : i # x => q[i] = p[i]
    BY <1>1, <1>2, <1>6, <2>1, <2>2, <2>3
  <2> HIDE DEF p, q, m, n
  <2>5. q = [p EXCEPT ![x] = name]
    BY <2>4 DEF NumberedRows
  <2>6. \E y : Foremost([p EXCEPT ![x] = name], m) \subseteq Foremost(p, m) \cup {y}
    BY <2>4, RowsMoveOver
  <2> QED
    BY <2>5, <2>6 DEF p, q, m
<1>9. PICK y : ~ tied => Foremost(Places', Passed(r)) \subseteq Foremost(Places, Passed(r)) \cup {y}
  BY <1>8
<1>10. ExportInv(r)'
  <2>1. Len(table') >= Len(table) /\ DOMAIN table \subseteq DOMAIN table'
    BY <1>2, <1>5
  <2>2. context # "sales" /\ ~ tied =>
          Foremost(Places', Passed(r)) \subseteq Foremost(Places, Passed(r)) \cup {y}
    BY <1>9
  <2>3. (tied => tied') /\ out'[r] = out[r]
    BY <1>1
  <2> QED
    BY <1>1, <2>1, <2>2, <2>3, ExportsUnderway
<1>11. TieInv'
  BY <1>1, TiesNext DEF ExportsInv
<1> QED
  BY <1>10, <1>11

-----------------------------------------------------------------------------
(* Every step of the exchange keeps all of it. *)

CsvInv == CsvType /\ ImportInv /\ LegacyInv /\ ExportsInv

\* What an import says, and a request that stops, leave the exports alone.
LEMMA ExportsApart ==
  ASSUME ExportsInv, NEW r \in Requests, UNCHANGED <<context, table, changes, tied, job, began>>,
         \A q \in Requests \ {r} : out'[q] = out[q] /\ csvPc'[q] = csvPc[q],
         csvPc'[r] # "export", csvPc'[r] = "answered" => Importing(r)
  PROVE  ExportsInv'
<1>1. ASSUME NEW q \in Requests PROVE ExportInv(q)'
  <2>1. CASE q # r
    BY <2>1, ExportRests
  <2>2. CASE q = r
    BY <2>2 DEF ExportsInv, ExportInv, Importing
  <2> QED
    BY <2>1, <2>2
<1>2. TieInv'
  BY DEF ExportsInv, TieInv, Csv!Ties, Csv!Place
<1> QED
  BY <1>1, <1>2 DEF ExportsInv

LEMMA CsvStarts ==
  ASSUME CsvInv, NEW r \in Requests,
         \/ \E f \in Uploads, m \in ColumnMaps, dry, legacy \in BOOLEAN :
              Csv!StartImport(r, f, m, dry, legacy)
         \/ \E legacy \in BOOLEAN : Csv!StartExport(r, legacy)
  PROVE  CsvInv'
<1>1. ASSUME NEW f \in Uploads, NEW m \in ColumnMaps, NEW dry \in BOOLEAN, NEW legacy \in BOOLEAN,
             Csv!StartImport(r, f, m, dry, legacy)
      PROVE  CsvInv'
  <2> DEFINE j == [file |-> f, map |-> IF m = << >> THEN Csv!DefaultMapping(f) ELSE m,
                   dry |-> dry, legacy |-> legacy, export |-> FALSE]
             to == IF Csv!Readable(j) THEN "import" ELSE "refused"
  <2>1. /\ Csv!Begin(r, j) /\ csvPc' = [csvPc EXCEPT ![r] = to]
        /\ legacy => ~ dry
    BY <1>1 DEF Csv!StartImport
  <2>2. ~ j.export /\ (j.dry => ~ j.legacy)
    BY <2>1
  <2>3. to \in {"import", "refused"}
    OBVIOUS
  <2> HIDE DEF j, to
  <2>4. CsvType' /\ ImportInv' /\ LegacyInv'
    BY <2>1, <2>2, <2>3, CsvBegin DEF CsvInv
  <2>5. ExportsInv'
    BY <2>1, <2>3, ExportBegins DEF CsvInv
  <2> QED
    BY <2>4, <2>5 DEF CsvInv
<1>2. ASSUME NEW legacy \in BOOLEAN, Csv!StartExport(r, legacy) PROVE CsvInv'
  <2> DEFINE j == [Csv!NoJob EXCEPT !.legacy = legacy, !.export = TRUE]
  <2>1. Csv!Begin(r, j) /\ csvPc' = [csvPc EXCEPT ![r] = "export"]
    BY <1>2 DEF Csv!StartExport
  <2>2. j.export
    BY DEF Csv!NoJob
  <2> HIDE DEF j
  <2>3. CsvType' /\ ImportInv' /\ LegacyInv'
    BY <2>1, <2>2, CsvBegin DEF CsvInv
  <2>4. ExportsInv'
    BY <2>1, ExportBegins DEF CsvInv
  <2> QED
    BY <2>3, <2>4 DEF CsvInv
<1> QED
  BY <1>1, <1>2

LEMMA CsvLines ==
  ASSUME CsvInv, NEW r \in Requests,
         Csv!SkipLine(r) \/ Csv!TryLine(r) \/ Csv!ImportRow(r)
  PROVE  CsvInv'
<1>0. CsvType /\ ImportInv /\ LegacyInv /\ ExportsInv
  BY DEF CsvInv
<1>1. Csv!HasLine(r) /\ csvPc[r] = "import" /\ UNCHANGED <<context, edits, csvPc, job, began>>
  BY DEF Csv!SkipLine, Csv!TryLine, Csv!ImportRow, Csv!HasLine
<1>2. ASSUME NEW verdict \in Verdicts, Csv!Says(r, verdict), UNCHANGED <<table, changes, tied>>,
             NEW rec \in Csv!NextRecords(r), verdict = "invalid" <=> ~ Csv!Checked(r, rec),
             job[r].dry => verdict # "taken", verdict = "ok" => job[r].dry
      PROVE  CsvInv'
  <2>1. CsvType' /\ ImportInv' /\ LegacyInv'
    BY <1>0, <1>1, <1>2, CsvSaysOnly
  <2>2. \A q \in Requests \ {r} : out'[q] = out[q] /\ csvPc'[q] = csvPc[q]
    BY <1>0, <1>1, <1>2 DEF CsvType, Csv!Says
  <2>3. ExportsInv'
    BY <1>0, <1>1, <1>2, <2>2, ExportsApart
  <2> QED
    BY <2>1, <2>3 DEF CsvInv
<1>3. CASE Csv!SkipLine(r)
  <2>1. PICK rec \in Csv!NextRecords(r) : ~ Csv!Checked(r, rec)
    BY <1>3 DEF Csv!SkipLine
  <2>2. Csv!Says(r, "invalid") /\ UNCHANGED <<table, changes, tied>> /\ "invalid" \in Verdicts
    BY <1>3 DEF Csv!SkipLine, Verdicts
  <2> QED
    BY <1>2, <2>1, <2>2
<1>4. CASE Csv!TryLine(r)
  <2>1. PICK rec \in Csv!NextRecords(r) : Csv!Checked(r, rec)
    BY <1>4 DEF Csv!TryLine
  <2>2. /\ Csv!Says(r, "ok") /\ UNCHANGED <<table, changes, tied>> /\ "ok" \in Verdicts
        /\ job[r].dry
    BY <1>4 DEF Csv!TryLine, Verdicts
  <2> QED
    BY <1>2, <2>1, <2>2
<1>5. CASE Csv!ImportRow(r)
  <2>1. PICK rec \in Csv!NextRecords(r) :
          /\ Csv!Checked(r, rec)
          /\ \/ Csv!Says(r, "taken") /\ UNCHANGED <<table, changes, tied>>
             \/ Csv!Says(r, "ok") /\ Csv!Insert(rec, r, Csv!Done(r) + 1)
    BY <1>5 DEF Csv!ImportRow
  <2>2. ~ job[r].dry
    BY <1>5 DEF Csv!ImportRow
  <2>3. CASE Csv!Says(r, "taken") /\ UNCHANGED <<table, changes, tied>>
    <3>1. "taken" \in Verdicts
      BY DEF Verdicts
    <3> QED
      BY <1>2, <2>1, <2>2, <2>3, <3>1
  <2>4. CASE Csv!Says(r, "ok") /\ Csv!Insert(rec, r, Csv!Done(r) + 1)
    <3>1. CsvType' /\ ImportInv' /\ LegacyInv'
      BY <1>0, <1>1, <2>1, <2>2, <2>4, CsvWritesRow
    <3>2. rec.name \in Nat /\ rec.code \in Nat /\ rec.role \in Nat
      BY <2>1, RecordsAre DEF Csv!NextRecords
    <3>3. Csv!Done(r) + 1 \in Nat
      <4>1. Len(out[r]) \in Nat
        BY <1>0, ListedIsFinite
      <4> QED
        BY <4>1 DEF Csv!Done
    <3>4. \A q \in Requests : csvPc[q] # "import" => out'[q] = out[q]
      <4>1. \A q \in Requests \ {r} : out'[q] = out[q]
        BY <1>0, <2>4 DEF CsvType, Csv!Says
      <4> QED
        BY <1>1, <4>1
    <3>5. ASSUME NEW q \in Requests PROVE ExportInv(q)' /\ TieInv'
      BY <1>0, <1>1, <2>4, <3>1, <3>2, <3>3, <3>4, ExportInsert
    <3> QED
      BY <3>1, <3>5 DEF CsvInv, ExportsInv
  <2> QED
    BY <2>1, <2>3, <2>4
<1> QED
  BY <1>3, <1>4, <1>5

LEMMA CsvEnds ==
  ASSUME CsvInv, NEW r \in Requests, Csv!Report(r) \/ Csv!ListPage(r) \/ Csv!Die(r)
  PROVE  CsvInv'
<1>0. CsvType /\ ImportInv /\ LegacyInv /\ ExportsInv
  BY DEF CsvInv
<1>1. CASE Csv!ListPage(r)
  BY <1>0, <1>1, CsvPage, ExportPage DEF CsvInv
<1>2. CASE Csv!Report(r) \/ Csv!Die(r)
  <2>1. PICK to \in {"answered", "dead"} :
          /\ csvPc' = [csvPc EXCEPT ![r] = to]
          /\ to = "answered" => csvPc[r] = "import"
    BY <1>2 DEF Csv!Report, Csv!Die
  <2>2. /\ csvPc[r] \in {"import", "export"}
        /\ UNCHANGED <<context, table, changes, edits, tied, job, out, began>>
    BY <1>2 DEF Csv!Report, Csv!Die
  <2>3. CsvType' /\ ImportInv' /\ LegacyInv'
    <3>1. /\ out' \in [Requests -> Seq(Verdicts \cup Nat)]
          /\ began' \in [Requests -> [pages : Nat, rows : Nat, changes : Nat]]
      BY <1>0, <2>2 DEF CsvType
    <3> QED
      BY <1>0, <2>1, <2>2, <3>1, CsvGoesOn
  <2>4. /\ csvPc'[r] = to
        /\ \A q \in Requests \ {r} : out'[q] = out[q] /\ csvPc'[q] = csvPc[q]
    BY <1>0, <2>1, <2>2 DEF CsvType
  <2>5. to = "answered" => Importing(r)
    BY <1>0, <2>1 DEF ImportInv, PcInv
  <2>6. ExportsInv'
    BY <1>0, <2>1, <2>2, <2>4, <2>5, ExportsApart
  <2> QED
    BY <2>3, <2>6 DEF CsvInv
<1> QED
  BY <1>1, <1>2

LEMMA CsvScreensInv ==
  ASSUME CsvInv,
         (\E rec \in Entered : Csv!Create(rec)) \/ (\E i, name \in Nat : Csv!Rename(i, name))
  PROVE  CsvInv'
<1>0. CsvType /\ ImportInv /\ LegacyInv /\ ExportsInv
  BY DEF CsvInv
<1>1. CsvType' /\ ImportInv' /\ LegacyInv'
  BY <1>0, CsvScreens
<1>2. ASSUME NEW rec \in Entered, Csv!Create(rec), NEW q \in Requests PROVE ExportInv(q)' /\ TieInv'
  <2>1. rec \in [{"name", "code", "role"} -> Nat]
    BY CsvConstants DEF Csv!Fields
  <2>2. rec["name"] \in Nat /\ rec["code"] \in Nat /\ rec["role"] \in Nat
    BY <2>1
  <2>3. Csv!Insert(rec, Csv!Nobody, 0) /\ UNCHANGED <<context, csvPc, job, out, began>>
    BY <1>2 DEF Csv!Create
  <2> QED
    BY <1>0, <1>1, <2>2, <2>3, ExportInsert
<1>3. ASSUME NEW i \in Nat, NEW name \in Nat, Csv!Rename(i, name), NEW q \in Requests
      PROVE  ExportInv(q)' /\ TieInv'
  BY <1>0, <1>1, <1>3, ExportRename
<1>4. ASSUME NEW q \in Requests PROVE ExportInv(q)' /\ TieInv'
  BY <1>2, <1>3
<1>5. TieInv'
  <2>1. CASE Requests = {}
    <3>1. UNCHANGED context /\ tied' = (tied \/ Csv!Ties(table'))
      BY DEF Csv!Create, Csv!Insert, Csv!Rename
    <3> QED
      BY <1>0, <3>1, TiesNext DEF ExportsInv
  <2>2. CASE Requests # {}
    BY <1>4, <2>2
  <2> QED
    BY <2>1, <2>2
<1> QED
  BY <1>1, <1>4, <1>5 DEF CsvInv, ExportsInv

CsvSteps ==
  \/ \E r \in Requests, f \in Uploads, m \in ColumnMaps, dry, legacy \in BOOLEAN :
       Csv!StartImport(r, f, m, dry, legacy)
  \/ \E r \in Requests : Csv!SkipLine(r) \/ Csv!TryLine(r) \/ Csv!ImportRow(r)
  \/ \E r \in Requests : Csv!Report(r) \/ Csv!ListPage(r) \/ Csv!Die(r)
  \/ \E r \in Requests, legacy \in BOOLEAN : Csv!StartExport(r, legacy)
  \/ \E rec \in Entered : Csv!Create(rec)
  \/ \E i \in 1 .. RowLimit, name \in Renamed : Csv!Rename(i, name)

LEMMA CsvOfStep == [MCNext]_allVars => CsvSteps \/ UNCHANGED csvVars
<1> SUFFICES ASSUME [MCNext]_allVars, ~ UNCHANGED csvVars PROVE CsvSteps
  OBVIOUS
<1>1. MCNext
  BY DEF allVars
<1> QED
  BY <1>1 DEF MCNext, CsvSteps, InPlan, InShop, InFile, InTree, InMail, InHttp, InCsv, InVault

LEMMA CsvStep == CsvInv /\ [MCNext]_allVars => CsvInv'
<1> SUFFICES ASSUME CsvInv, [MCNext]_allVars PROVE CsvInv'
  OBVIOUS
<1>1. CASE UNCHANGED csvVars
  <2>1. UNCHANGED <<context, table, changes, edits, tied, csvPc, job, out, began>>
    BY <1>1 DEF csvVars
  <2>2. CsvType' /\ LegacyInv'
    BY <2>1 DEF CsvInv, CsvType, LegacyInv, Csv!Valid
  <2>3. \A q \in Requests : \A rec : Csv!Checked(q, rec)' <=> Csv!Checked(q, rec)
    BY <2>1 DEF Csv!Checked, Csv!Valid
  <2>4. ASSUME NEW r \in Requests PROVE (PcInv(r) /\ ReportInv(r) /\ VerdictInv(r))'
    BY <2>1, <2>3 DEF CsvInv, ImportInv, PcInv, ReportInv, VerdictInv, Created, Importing, Lines
  <2>5. ExportsInv'
    <3>1. ExportsInv
      BY DEF CsvInv
    <3>2. ASSUME NEW r \in Requests PROVE ExportInv(r)'
      BY <2>1, <3>1, ExportRests
    <3>3. TieInv'
      BY <2>1, <3>1 DEF ExportsInv, TieInv, Csv!Ties, Csv!Place
    <3> QED
      BY <3>2, <3>3 DEF ExportsInv
  <2> QED
    BY <2>2, <2>4, <2>5 DEF CsvInv, ImportInv
<1>2. CASE CsvSteps
  <2>1. \A i \in 1 .. RowLimit : i \in Nat
    BY CsvConstants
  <2>2. \A name \in Renamed : name \in Nat
    BY CsvConstants
  <2> QED
    BY <1>2, <2>1, <2>2, CsvStarts, CsvLines, CsvEnds, CsvScreensInv DEF CsvSteps
<1> QED
  BY <1>1, <1>2, CsvOfStep

LEMMA CsvInvHolds == MCSpec => []CsvInv
<1>1. MCInit => CsvInv
  BY CsvInit, ExportInit DEF MCInit, CsvInv
<1> QED
  BY <1>1, CsvStep, PTL DEF MCSpec

-----------------------------------------------------------------------------
(* What the exchange promises. *)

LEMMA ReportsAreTrue == ASSUME CsvInv PROVE Csv!ReportIsTrue
<1> SUFFICES ASSUME NEW r \in Requests, Importing(r)
             PROVE  /\ {table[i].line : i \in Csv!RowsOf(r)} = Created(r)
                    /\ Csv!Cardinality(Csv!RowsOf(r)) = Csv!Cardinality(Created(r))
  BY DEF Csv!ReportIsTrue, Csv!Imports, Created, Importing
<1> DEFINE S == Csv!RowsOf(r)
           T == Created(r)
           g == [i \in S |-> table[i].line]
<1>1. ReportInv(r) /\ CsvType
  BY DEF CsvInv, ImportInv
<1>2. /\ \A i \in S : table[i].line \in T
      /\ \A k \in T : \E i \in S : table[i].line = k
      /\ \A i, j \in S : table[i].line = table[j].line => i = j
  BY <1>1 DEF ReportInv, Csv!RowsOf
<1>3. S \subseteq DOMAIN table
  BY DEF Csv!RowsOf
<1>4. IsFiniteSet(S)
  <2>1. Len(table) \in Nat /\ DOMAIN table = 1 .. Len(table)
    BY <1>1 DEF CsvType
  <2>2. IsFiniteSet(DOMAIN table)
    BY <2>1, FirstAreFinite
  <2> QED
    BY <1>3, <2>2, FS_Subset
<1> HIDE DEF S, T
<1>5. g \in Bijection(S, T)
  <2>1. g \in [S -> T] /\ \A i \in S : g[i] = table[i].line
    BY <1>2
  <2> HIDE DEF g
  <2>2. \A i, j \in S : g[i] = g[j] => i = j
    BY <1>2, <2>1
  <2>3. \A k \in T : \E i \in S : g[i] = k
    BY <1>2, <2>1
  <2> QED
    BY <2>1, <2>2, <2>3 DEF Bijection, Injection, Surjection, IsInjective
<1> HIDE DEF g
<1>6. Cardinality(S) = Cardinality(T)
  BY <1>4, <1>5, FS_Bijection DEF ExistsBijection
<1>7. \A U : Csv!Cardinality(U) = Cardinality(U)
  BY DEF Csv!Cardinality, Cardinality
<1>8. {table[i].line : i \in S} = T
  BY <1>2
<1> QED
  BY <1>6, <1>7, <1>8 DEF S, T

\* Where no two columns compete, a line may become one record only.
LEMMA OneRecord ==
  ASSUME NEW line, NEW m, Csv!IsInjective(m),
         NEW a \in Csv!Records(line, m), NEW b \in Csv!Records(line, m)
  PROVE  a = b
<1> DEFINE Of(x) == {line[c] : c \in {d \in DOMAIN m : m[d] = x}}
<1>1. a \in [Csv!Fields -> Csv!Cells] /\ b \in [Csv!Fields -> Csv!Cells]
  BY DEF Csv!Records
<1>2. \A x \in Csv!Fields : /\ a[x] \in IF Of(x) = {} THEN {0} ELSE Of(x)
                            /\ b[x] \in IF Of(x) = {} THEN {0} ELSE Of(x)
  BY DEF Csv!Records
<1>3. \A x, u, v : u \in Of(x) /\ v \in Of(x) => u = v
  BY DEF Csv!IsInjective
<1> HIDE DEF Of
<1>4. \A x \in Csv!Fields : a[x] = b[x]
  BY <1>2, <1>3
<1> QED
  BY <1>1, <1>4

LEMMA DryRunsForetell == ASSUME CsvInv PROVE Csv!DryRunForetells
<1> SUFFICES ASSUME NEW d \in Requests, NEW r \in Requests, Importing(d), Importing(r),
                    job[d].dry, ~ job[r].dry, ~ job[r].legacy,
                    job[d].file = job[r].file, job[d].map = job[r].map,
                    Csv!IsInjective(job[r].map),
                    NEW k \in DOMAIN out[d] \cap DOMAIN out[r]
             PROVE  IF out[d][k] = "ok" THEN out[r][k] \in {"ok", "taken"} ELSE out[r][k] = "invalid"
  BY DEF Csv!DryRunForetells, Csv!Imports, Importing
<1>1. VerdictInv(d) /\ VerdictInv(r)
  BY DEF CsvInv, ImportInv
<1>2. ~ job[d].legacy /\ out[d][k] \in Verdicts /\ out[r][k] \in Verdicts /\ out[d][k] # "taken"
  BY <1>1 DEF VerdictInv
<1>3. PICK a \in Csv!Records(Lines(d)[k], job[d].map) : out[d][k] = "invalid" <=> ~ Csv!Checked(d, a)
  BY <1>1 DEF VerdictInv
<1>4. PICK b \in Csv!Records(Lines(r)[k], job[r].map) : out[r][k] = "invalid" <=> ~ Csv!Checked(r, b)
  BY <1>1 DEF VerdictInv
<1>5. a = b
  BY <1>3, <1>4, OneRecord DEF Lines
<1>6. Csv!Checked(d, a) <=> Csv!Checked(r, b)
  BY <1>2, <1>5 DEF Csv!Checked
<1> QED
  BY <1>2, <1>3, <1>4, <1>6 DEF Verdicts

LEMMA ExportsListAll == ASSUME CsvInv PROVE Csv!ExportsAddUp
<1> SUFFICES ASSUME NEW r \in Requests, ~ Importing(r), csvPc[r] = "answered", Compared
             PROVE  LET missed == (1 .. began[r].rows) \ Csv!Range(out[r])
                    IN  Csv!Cardinality(missed) + (Len(out[r]) - Csv!Cardinality(Csv!Range(out[r])))
                          <= 2 * (changes - began[r].changes)
  BY DEF Csv!ExportsAddUp, Csv!Exports, Importing, Compared
<1>1. AddsUp(r)
  BY DEF CsvInv, ExportsInv, ExportInv
<1>2. \A U : Csv!Cardinality(U) = Cardinality(U)
  BY DEF Csv!Cardinality, Cardinality
<1>3. Csv!Range(out[r]) = Listed(r)
  BY DEF Csv!Range, Listed
<1> QED
  BY <1>1, <1>2, <1>3 DEF AddsUp, Since

\* What a CSV import reports is what it wrote, line by line; a dry run foretells what
\* the file does; an export misses or repeats at most two rows for each one that is
\* written or renamed under it; and rows that break the rules of their package come
\* from the older routes (dataio/adapters.go:71-232, dataio/dataio.go:172-262).
THEOREM ExchangesAreAccounted == MCSpec => []ExchangesAddUp
<1>1. CsvInv => ExchangesAddUp
  <2> SUFFICES ASSUME CsvInv PROVE ExchangesAddUp
    OBVIOUS
  <2>1. Csv!InvalidRowsAreLegacy
    BY DEF CsvInv, LegacyInv, Csv!InvalidRowsAreLegacy
  <2> QED
    BY <2>1, ReportsAreTrue, DryRunsForetell, ExportsListAll DEF ExchangesAddUp
<1> QED
  BY <1>1, CsvInvHolds, PTL
=============================================================================
