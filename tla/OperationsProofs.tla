--------------------------- MODULE OperationsProofs ---------------------------
(***************************************************************************)
(* Theorems about the operations of the packages around the books: a       *)
(* payment attempt is announced once, because what a request is about to   *)
(* tell nobody has told; racing bookings and returns pass their limit by   *)
(* one request's worth for each other request, because one of those that   *)
(* have checked was the last to check; the queue of a till says what has   *)
(* been rung, because who rings a row has held it since it was queued; a   *)
(* report is of its time, because the books it reads piece by piece only   *)
(* grow and the dues only shrink; and rows make legal moves only, because  *)
(* what a request has checked holds as long as the version it has read is  *)
(* the row's.                                                              *)
(***************************************************************************)
EXTENDS MCOperations, Sums, TLAPS

-----------------------------------------------------------------------------
(* Races. *)

\* Requests check a limit c and take what they asked for later, at most M each:
\* those in P have checked and not taken. One of them was the last to check.
Raced(load, P, q, c, M) ==
  /\ P = {} => load <= c + (Cardinality(Requests) - 1) * M
  /\ P # {} => \E r \in P :
       load + q[r] + (Cardinality(P) - 1) * M <= c + (Cardinality(Requests) - 1) * M

LEMMA Factor ==
  ASSUME NEW m \in Nat, NEW n \in Nat, m <= n, NEW M \in Nat
  PROVE  m * M \in Nat /\ m * M <= n * M
<1>1. PICK d \in Nat : n = m + d
  BY n - m \in Nat
<1>2. n * M = m * M + d * M
  BY <1>1
<1>3. m * M \in Nat /\ d * M \in Nat
  OBVIOUS
<1> QED
  BY <1>2, <1>3

LEMMA RaceSize ==
  ASSUME NEW P \in SUBSET Requests
  PROVE  /\ IsFiniteSet(P) /\ Cardinality(P) \in Nat /\ Cardinality(Requests) \in Nat
         /\ Cardinality(P) <= Cardinality(Requests)
         /\ P # {} => Cardinality(P) >= 1
BY LifecyclesAssumption, FS_Subset, FS_CardinalityType, FS_EmptySet

LEMMA RaceJoined ==
  ASSUME NEW P \in SUBSET Requests, NEW r \in Requests, NEW q, NEW load \in Int,
         NEW c \in Int, NEW M \in Nat, q[r] \in Int, load + q[r] <= c
  PROVE  Raced(load, P \cup {r}, q, c, M)
<1> DEFINE k == Cardinality(P \cup {r})
           n == Cardinality(Requests)
<1>1. k \in Nat /\ n \in Nat /\ k <= n /\ k >= 1
  <2>1. P \cup {r} \in SUBSET Requests /\ P \cup {r} # {}
    OBVIOUS
  <2> QED
    BY <2>1, RaceSize
<1>2. (k - 1) * M <= (n - 1) * M /\ (k - 1) * M \in Nat /\ (n - 1) * M \in Nat
  <2>1. k - 1 \in Nat /\ n - 1 \in Nat /\ k - 1 <= n - 1
    BY <1>1
  <2> HIDE DEF k, n
  <2> QED
    BY <2>1, Factor
<1>3. load + q[r] + (k - 1) * M <= c + (n - 1) * M
  <2> HIDE DEF k, n
  <2> QED
    BY <1>2
<1> QED
  BY <1>3 DEF Raced

LEMMA RaceLeft ==
  ASSUME NEW P \in SUBSET Requests, NEW r \in P, NEW q, NEW p, NEW load \in Int,
         NEW more \in Int, NEW c \in Int, NEW M \in Nat, Raced(load, P, q, c, M),
         \A x \in P : q[x] \in Nat /\ q[x] <= M,
         \A x \in P \ {r} : p[x] = q[x],
         more <= load + q[r]
  PROVE  Raced(more, P \ {r}, p, c, M)
<1> DEFINE k == Cardinality(P)
           bound == c + (Cardinality(Requests) - 1) * M
<1>1. k \in Nat /\ k >= 1 /\ Cardinality(P \ {r}) = k - 1
  BY RaceSize, FS_RemoveElement
<1>2. bound \in Int
  <2>1. Cardinality(Requests) \in Nat
    BY RaceSize
  <2> QED
    BY <2>1
<1>3. PICK s \in P : load + q[s] + (k - 1) * M <= bound
  BY DEF Raced
<1>4. q[s] \in Nat /\ q[r] \in Nat /\ q[s] <= M /\ q[r] <= M
  OBVIOUS
<1> HIDE DEF bound
<1>5. CASE P \ {r} = {}
  <2>1. k = 1 /\ s = r
    <3>1. Cardinality(P \ {r}) = 0
      BY <1>5, FS_EmptySet
    <3> QED
      BY <1>1, <1>5, <3>1
  <2>2. more <= bound
    <3>1. (k - 1) * M = 0
      BY <2>1
    <3> QED
      BY <1>2, <1>3, <1>4, <2>1, <3>1
  <2> QED
    BY <1>5, <2>2 DEF Raced, bound
<1>6. CASE P \ {r} # {}
  <2>1. PICK x \in P \ {r} : s # r => x = s
    BY <1>6
  <2>2. p[x] = q[x] /\ q[x] \in Nat /\ q[x] <= M
    BY <2>1
  <2> HIDE DEF k
  <2>3. (k - 1) * M = (k - 1 - 1) * M + M
    BY <1>1
  <2>4. (k - 1 - 1) * M \in Int
    BY <1>1
  <2>5. more + p[x] + (k - 1 - 1) * M <= bound
    <3>1. CASE s = r
      BY <1>2, <1>3, <1>4, <2>2, <2>3, <2>4, <3>1
    <3>2. CASE s # r
      BY <1>2, <1>3, <1>4, <2>1, <2>2, <2>3, <2>4, <3>2
    <3> QED
      BY <3>1, <3>2
  <2> QED
    BY <1>1, <1>6, <2>5 DEF Raced, bound
<1> QED
  BY <1>5, <1>6

LEMMA RaceGoesOn ==
  ASSUME NEW P \in SUBSET Requests, NEW q, NEW p, NEW load \in Int, NEW less \in Int,
         NEW c \in Int, NEW M \in Nat, Raced(load, P, q, c, M), less <= load,
         \A x \in P : q[x] \in Nat /\ p[x] = q[x]
  PROVE  Raced(less, P, p, c, M)
<1> DEFINE bound == c + (Cardinality(Requests) - 1) * M
           k == (Cardinality(P) - 1) * M
<1>1. bound \in Int /\ k \in Int
  <2>1. Cardinality(Requests) \in Nat /\ Cardinality(P) \in Nat
    BY RaceSize
  <2> QED
    BY <2>1
<1>2. CASE P = {}
  <2>1. load <= bound
    BY <1>2 DEF Raced
  <2> HIDE DEF bound
  <2>2. less <= bound
    BY <1>1, <2>1
  <2> QED
    BY <1>2, <2>2 DEF Raced, bound
<1>3. CASE P # {}
  <2>1. PICK s \in P : load + q[s] + k <= bound
    BY <1>3 DEF Raced
  <2> HIDE DEF bound, k
  <2>2. less + p[s] + k <= bound
    BY <1>1, <2>1
  <2> QED
    BY <1>3, <2>2 DEF Raced, bound, k
<1> QED
  BY <1>2, <1>3

\* The limit is passed by one request's worth for each other request at most.
LEMMA RaceIsBounded ==
  ASSUME NEW P \in SUBSET Requests, NEW q, NEW load \in Int, NEW c \in Int, NEW M \in Nat,
         Raced(load, P, q, c, M), \A x \in P : q[x] \in Nat
  PROVE  load <= c + (Cardinality(Requests) - 1) * M
<1> DEFINE bound == c + (Cardinality(Requests) - 1) * M
           k == (Cardinality(P) - 1) * M
<1>1. bound \in Int /\ (P # {} => k \in Nat)
  <2>1. Cardinality(Requests) \in Nat /\ Cardinality(P) \in Nat
        /\ (P # {} => Cardinality(P) - 1 \in Nat)
    BY RaceSize
  <2> QED
    BY <2>1
<1>2. CASE P = {}
  BY <1>2 DEF Raced
<1>3. CASE P # {}
  <2>1. PICK s \in P : load + q[s] + k <= bound
    BY <1>3 DEF Raced
  <2>2. q[s] \in Nat
    OBVIOUS
  <2> HIDE DEF bound, k
  <2>3. bound \in Int /\ k \in Nat
    BY <1>1, <1>3
  <2>4. load <= bound
    BY <2>1, <2>2, <2>3
  <2> QED
    BY <2>4 DEF bound
<1> QED
  BY <1>2, <1>3
-----------------------------------------------------------------------------
(* Reservations: racing requests overbook no further than they are many. *)

SeatLabels == {"idle", "insert", "set"}
SeatF == [b \in Seats!Row |-> b.seats]

SeatType ==
  /\ desk \in {"booking", "event"}
  /\ rows \subseteq Seats!Row /\ IsFiniteSet(rows)
  /\ nextId \in Nat /\ revived \in Nat
  /\ seatPc \in [Requests -> SeatLabels]
  /\ seatWork \in [Requests -> Seats!Row]

Covers(w, t) == w[1] <= t /\ t < w[2]
LiveAt(R, t) == {b \in R : Seats!Live(b) /\ Covers(b.window, t)}
Going(R) == {b \in R : b.status # "canceled"}

\* The seats that the rows of R take.
TakenBy(R, d, t) ==
  IF d = "booking" THEN SumOf(SeatF, LiveAt(R, t)) ELSE Cardinality(Going(R))

\* What requests have checked and not inserted, at an instant.
Waiting(t) ==
  {r \in Requests : seatPc[r] = "insert" /\ (desk = "booking" => Covers(seatWork[r].window, t))}
Asked == [r \in Requests |-> seatWork[r].seats]
Load(t) == TakenBy(rows, desk, t) - revived

SetInv == \A r \in Requests :
  /\ seatPc[r] = "insert" => seatWork[r].seats <= Seats!LargestParty
  /\ seatPc[r] = "set" => desk = "event" /\ \E b \in rows : b.id = seatWork[r].id

SeatInv ==
  /\ SeatType /\ SetInv
  /\ \A t \in Int : Raced(Load(t), Waiting(t), Asked, Capacity, Seats!LargestParty)

LEMMA RowNumbers ==
  ASSUME NEW b \in Seats!Row
  PROVE  /\ b.seats \in Nat /\ b.seats >= 1 /\ b.window \in Windows
         /\ b.window[1] \in Nat /\ b.window[2] \in Nat
<1>1. b.seats \in Parties \cup {1} /\ b.window \in Windows
  BY DEF Seats!Row
<1>2. \A n \in Parties \cup {1} : n \in Nat /\ n >= 1
  BY SeatsAssumption DEF Seats!ConstantsOK
<1>3. \A w \in Windows : w[1] \in Nat /\ w[2] \in Nat
  BY SeatsAssumption DEF Seats!ConstantsOK
<1>4. b.seats \in Nat /\ b.seats >= 1
  BY <1>1, <1>2
<1> QED
  BY <1>1, <1>3, <1>4

LEMMA RenumberedRow ==
  ASSUME NEW b \in Seats!Row, NEW n \in Nat, NEW c, c = [b EXCEPT !.id = n]
  PROVE  /\ c \in Seats!Row /\ c.id = n
         /\ c.window = b.window /\ c.seats = b.seats /\ c.status = b.status
BY DEF Seats!Row

LEMMA MovedRow ==
  ASSUME NEW b \in Seats!Row, NEW to \in Seats!Statuses, NEW c, c = [b EXCEPT !.status = to]
  PROVE  /\ c \in Seats!Row /\ c.id = b.id
         /\ c.window = b.window /\ c.seats = b.seats /\ c.status = to
BY DEF Seats!Row

LEMMA NoRowIsRow ==
  Seats!NoRow \in Seats!Row /\ Seats!NoRow.seats = 1 /\ Seats!NoRow.id = 0
<1>1. (CHOOSE w \in Windows : TRUE) \in Windows
  BY SeatsAssumption DEF Seats!ConstantsOK
<1> QED
  BY <1>1 DEF Seats!NoRow, Seats!Row, Seats!Statuses

LEMMA LargestIsNat ==
  ASSUME SeatType
  PROVE  /\ Seats!LargestParty \in Nat
         /\ desk = "booking" => \A n \in Parties : n <= Seats!LargestParty
         /\ Seats!LargestParty >= 1
<1>1. /\ Parties \subseteq Nat \ {0} /\ Parties # {} /\ IsFiniteSet(Parties)
  BY SeatsAssumption DEF Seats!ConstantsOK, Seats!IsFiniteSet, IsFiniteSet
<1>2. \E m \in Parties : \A n \in Parties : n <= m
  BY <1>1, GreatestNat
<1>3. \E m \in Parties : \A n \in Parties : m >= n
  BY <1>1, <1>2
<1>4. Seats!Max(Parties) \in Parties /\ \A n \in Parties : Seats!Max(Parties) >= n
  BY <1>3 DEF Seats!Max
<1> DEFINE m == Seats!Max(Parties)
<1>5. m \in Nat /\ m >= 1
  <2>1. m \in Nat \ {0}
    BY <1>1, <1>4
  <2> HIDE DEF m
  <2> QED
    BY <2>1
<1>6. \A n \in Parties : n <= m
  BY <1>1, <1>4
<1>7. Seats!LargestParty = IF desk = "booking" THEN m ELSE 1
  BY DEF Seats!LargestParty
<1> HIDE DEF m
<1> QED
  BY <1>5, <1>6, <1>7

\* The seats of rows, as the module adds them up.
LEMMA SeatsAreSum ==
  ASSUME NEW S \in SUBSET Seats!Row, IsFiniteSet(S)
  PROVE  Seats!SeatsOf(S) = SumOf(SeatF, S) /\ SumOf(SeatF, S) \in Nat
<1> DEFINE IsBook(g) == g = [s \in SUBSET S |->
                       IF s = {} THEN 0 ELSE Pick(s).seats + g[s \ {Pick(s)}]]
           h == CHOOSE g : IsBook(g)
<1>1. \A b \in S : SeatF[b] \in Nat /\ SeatF[b] = b.seats
  BY RowNumbers DEF SeatF
<1>2. \A s \in SUBSET S : s # {} => Pick(s) \in S
  BY PickIn
<1>3. Seats!SeatsOf(S) = h[S]
  BY DEF Seats!SeatsOf, Seats!MapThenSumSet, Seats!MapThenFoldSet, Pick
<1>4. \E g : IsBook(g)
  <2>1. \A b \in S : SeatF[b] \in Int
    BY <1>1
  <2>2. PICK g \in [SUBSET S -> Int] : \A s \in SUBSET S : g[s] = Unfold(SeatF, g, s)
    BY <2>1, TableExists, Zenon
  <2>3. IsBook(g)
    BY <1>1, <1>2, <2>2 DEF Unfold
  <2> QED
    BY <2>3
<1>5. IsBook(h)
  <2> HIDE DEF IsBook
  <2> QED
    BY <1>4
<1>6. IsTable(h, SeatF, S)
  <2> HIDE DEF h
  <2> QED
    BY <1>1, <1>2, <1>5 DEF IsTable, Unfold
<1> HIDE DEF h
<1>7. h[S] = SumOf(SeatF, S)
  <2>1. \A b \in S : SeatF[b] \in Int
    BY <1>1
  <2> QED
    BY <1>6, <2>1, TableIsSum
<1>8. SumOf(SeatF, S) \in Nat
  BY <1>1, SumGrows
<1> QED
  BY <1>3, <1>7, <1>8

LEMMA TakenIs ==
  ASSUME NEW R \in SUBSET Seats!Row, IsFiniteSet(R), NEW t, NEW d
  PROVE  /\ TakenBy(R, d, t) \in Nat
         /\ IsFiniteSet(LiveAt(R, t)) /\ IsFiniteSet(Going(R))
         /\ LiveAt(R, t) \in SUBSET Seats!Row
         /\ Seats!SeatsOf(LiveAt(R, t)) = SumOf(SeatF, LiveAt(R, t))
<1>1. LiveAt(R, t) \in SUBSET R /\ Going(R) \in SUBSET R
  BY DEF LiveAt, Going
<1>2. IsFiniteSet(LiveAt(R, t)) /\ IsFiniteSet(Going(R))
  BY <1>1, FS_Subset
<1>3. LiveAt(R, t) \in SUBSET Seats!Row
  BY <1>1
<1>4. /\ Seats!SeatsOf(LiveAt(R, t)) = SumOf(SeatF, LiveAt(R, t))
      /\ SumOf(SeatF, LiveAt(R, t)) \in Nat
  BY <1>2, <1>3, SeatsAreSum
<1>5. Cardinality(Going(R)) \in Nat
  BY <1>2, FS_CardinalityType
<1> QED
  BY <1>2, <1>3, <1>4, <1>5 DEF TakenBy

LEMMA LoadIsInt ==
  ASSUME SeatType
  PROVE  \A t : /\ Load(t) \in Int /\ Load(t) = Seats!Taken(t) - revived
               /\ Seats!Taken(t) \in Nat
<1> SUFFICES ASSUME NEW t
             PROVE  /\ Load(t) \in Int /\ Load(t) = Seats!Taken(t) - revived
                    /\ Seats!Taken(t) \in Nat
  OBVIOUS
<1>1. /\ TakenBy(rows, desk, t) \in Nat /\ revived \in Nat
      /\ Seats!SeatsOf(LiveAt(rows, t)) = SumOf(SeatF, LiveAt(rows, t))
  BY TakenIs DEF SeatType
<1>2. CASE desk = "booking"
  <2>1. Seats!Taken(t) = Seats!SeatsOf(LiveAt(rows, t))
    BY <1>2 DEF Seats!Taken, LiveAt, Covers
  <2> QED
    BY <1>1, <1>2, <2>1 DEF Load, TakenBy
<1>3. CASE desk # "booking"
  <2>1. Seats!Taken(t) = Cardinality(Going(rows))
    BY <1>3 DEF Seats!Taken, Seats!SeatsTaken, Going, Seats!Cardinality, Cardinality,
                Seats!IsFiniteSet, IsFiniteSet
  <2> QED
    BY <1>1, <1>3, <2>1 DEF Load, TakenBy
<1> QED
  BY <1>2, <1>3

LEMMA SeatInit == Seats!Init => SeatInv
<1> SUFFICES ASSUME Seats!Init PROVE SeatInv
  OBVIOUS
<1> USE DEF Seats!Init
<1>1. SeatType
  BY NoRowIsRow, FS_EmptySet DEF SeatType, SeatLabels
<1>2. SetInv
  BY DEF SetInv
<1>3. ASSUME NEW t \in Int
      PROVE  Raced(Load(t), Waiting(t), Asked, Capacity, Seats!LargestParty)
  <2>1. Waiting(t) = {} /\ LiveAt(rows, t) = {} /\ Going(rows) = {}
    BY DEF Waiting, LiveAt, Going
  <2>2. TakenBy(rows, desk, t) = 0
    BY <2>1, SumEmpty, FS_EmptySet DEF TakenBy
  <2>3. Load(t) = 0
    BY <2>2 DEF Load
  <2>4. 0 <= Capacity + (Cardinality(Requests) - 1) * Seats!LargestParty
    <3>1. Capacity \in Nat /\ Requests # {}
      BY SeatsAssumption DEF Seats!ConstantsOK
    <3>2. Cardinality(Requests) - 1 \in Nat
      BY <3>1, RaceSize
    <3>3. (Cardinality(Requests) - 1) * Seats!LargestParty \in Nat
      BY <1>1, <3>2, LargestIsNat, Factor
    <3> QED
      BY <3>1, <3>3
  <2> QED
    BY <2>1, <2>3, <2>4 DEF Raced
<1> QED
  BY <1>1, <1>2, <1>3 DEF SeatInv

LEMMA Numbers ==
  ASSUME SeatType, SetInv
  PROVE  /\ Capacity \in Int /\ Seats!LargestParty \in Nat
         /\ \A t : Load(t) \in Int
         /\ \A r \in Requests : Asked[r] \in Nat /\ Asked[r] = seatWork[r].seats
         /\ \A r \in Requests : seatPc[r] = "insert" => Asked[r] <= Seats!LargestParty
         /\ \A t : Waiting(t) \in SUBSET Requests
         /\ \A t : \A r \in Waiting(t) : Asked[r] \in Nat /\ Asked[r] <= Seats!LargestParty
<1>1. Capacity \in Int
  BY SeatsAssumption DEF Seats!ConstantsOK
<1>2. \A t : Load(t) \in Int
  BY LoadIsInt
<1>3. \A r \in Requests : Asked[r] \in Nat /\ Asked[r] = seatWork[r].seats
  <2>1. \A r \in Requests : seatWork[r] \in Seats!Row
    BY DEF SeatType
  <2> QED
    BY <2>1, RowNumbers DEF Asked
<1>4. \A r \in Requests : seatPc[r] = "insert" => Asked[r] <= Seats!LargestParty
  BY <1>3 DEF SetInv
<1> QED
  BY <1>1, <1>2, <1>3, <1>4, LargestIsNat DEF Waiting

\* A step that takes no seats, and after which the same requests wait.
LEMMA SeatsQuiet ==
  ASSUME SeatInv, SeatType', SetInv', desk' = desk,
         \A t \in Int : Load(t)' <= Load(t),
         \A r \in Requests : seatPc[r] = "insert" <=> seatPc'[r] = "insert",
         \A r \in Requests : seatPc[r] = "insert" => seatWork'[r] = seatWork[r]
  PROVE  SeatInv'
<1>1. SeatType /\ SetInv
  BY DEF SeatInv
<1>2. Seats!LargestParty' = Seats!LargestParty
  BY DEF Seats!LargestParty
<1>3. ASSUME NEW t \in Int
      PROVE  Raced(Load(t)', Waiting(t)', Asked', Capacity, Seats!LargestParty)
  <2>1. Waiting(t)' = Waiting(t)
    BY DEF Waiting
  <2>2. \A r \in Waiting(t) : Asked'[r] = Asked[r]
    BY DEF Waiting, Asked
  <2>3. Raced(Load(t), Waiting(t), Asked, Capacity, Seats!LargestParty)
    BY DEF SeatInv
  <2>4. /\ Capacity \in Int /\ Seats!LargestParty \in Nat
        /\ Load(t) \in Int
        /\ \A r \in Waiting(t) : Asked[r] \in Nat
        /\ Waiting(t) \in SUBSET Requests
    BY <1>1, Numbers
  <2>5. Load(t)' \in Int
    <3>1. TakenBy(rows', desk', t) \in Nat /\ revived' \in Nat
      BY TakenIs DEF SeatType
    <3> QED
      BY <3>1 DEF Load
  <2>6. Load(t)' <= Load(t)
    OBVIOUS
  <2> QED
    BY <2>1, <2>2, <2>3, <2>4, <2>5, <2>6, RaceGoesOn
<1> QED
  BY <1>2, <1>3 DEF SeatInv

\* A row that changes its status takes no more seats, unless it comes back from
\* "canceled".
LEMMA ReplaceRow ==
  ASSUME NEW R \in SUBSET Seats!Row, IsFiniteSet(R), NEW b \in R, NEW c \in Seats!Row,
         NEW d, NEW t \in Int,
         d = "booking" => Seats!Live(b) /\ c.seats = b.seats /\ c.window = b.window
  PROVE  /\ TakenBy((R \ {b}) \cup {c}, d, t)
              <= TakenBy(R, d, t) + (IF d # "booking" /\ b.status = "canceled" /\ c.status # "canceled"
                                     THEN 1 ELSE 0)
         /\ IsFiniteSet((R \ {b}) \cup {c})
<1> DEFINE Q == (R \ {b}) \cup {c}
<1>1. IsFiniteSet(Q) /\ Q \in SUBSET Seats!Row
  <2>1. IsFiniteSet(R \ {b})
    BY FS_Subset
  <2> QED
    BY <2>1, FS_AddElement
<1>2. ASSUME d = "booking" PROVE TakenBy(Q, d, t) <= TakenBy(R, d, t)
  <2> DEFINE L == LiveAt(R, t)
             N == LiveAt(Q, t)
  <2>1. /\ IsFiniteSet(L) /\ L \in SUBSET Seats!Row
        /\ IsFiniteSet(N) /\ N \in SUBSET Seats!Row
    BY <1>1, TakenIs
  <2>2. \A x \in Seats!Row : SeatF[x] \in Nat /\ SeatF[x] = x.seats
    BY RowNumbers DEF SeatF
  <2>3. CASE b \in L
    <3>1. N \in SUBSET ((L \ {b}) \cup {c})
      BY DEF LiveAt
    <3>2. IsFiniteSet(L \ {b})
      BY <2>1, FS_Subset
    <3>3. /\ SumOf(SeatF, N) <= SumOf(SeatF, L \ {b}) + SeatF[c]
          /\ SumOf(SeatF, L \ {b}) \in Nat /\ SumOf(SeatF, N) \in Nat
      <4>1. \A y \in (L \ {b}) \cup {c} : SeatF[y] \in Nat
        BY <2>1, <2>2
      <4> HIDE DEF L, N
      <4> QED
        BY <3>1, <3>2, <4>1, SumAdds
    <3>4. SumOf(SeatF, L) = SeatF[b] + SumOf(SeatF, L \ {b})
      <4>1. \A y \in L : SeatF[y] \in Int
        BY <2>1, <2>2
      <4> HIDE DEF L, N
      <4> QED
        BY <2>1, <2>3, <4>1, SumStep
    <3>5. SeatF[b] = SeatF[c] /\ SeatF[b] \in Nat
      BY <1>2, <2>2
    <3> HIDE DEF L, N
    <3>6. SumOf(SeatF, N) <= SumOf(SeatF, L)
      BY <3>3, <3>4, <3>5
    <3> QED
      BY <1>2, <3>6 DEF TakenBy, L, N
  <2>4. CASE b \notin L
    <3>1. N \in SUBSET L
      BY <1>2, <2>4 DEF LiveAt, Covers
    <3>2. SumOf(SeatF, N) <= SumOf(SeatF, L)
      <4>1. \A y \in L : SeatF[y] \in Nat
        BY <2>1, <2>2
      <4> HIDE DEF L, N
      <4> QED
        BY <2>1, <3>1, <4>1, SumGrows
    <3> QED
      BY <1>2, <3>2 DEF TakenBy
  <2> QED
    BY <2>3, <2>4
<1>3. ASSUME d # "booking"
      PROVE  TakenBy(Q, d, t) <= TakenBy(R, d, t) + (IF b.status = "canceled" /\ c.status # "canceled"
                                                     THEN 1 ELSE 0)
  <2> DEFINE L == Going(R)
             N == Going(Q)
  <2>1. IsFiniteSet(L) /\ IsFiniteSet(N)
    BY <1>1, TakenIs
  <2>2. Cardinality(L) \in Nat /\ Cardinality(N) \in Nat
    BY <2>1, FS_CardinalityType
  <2>3. CASE b.status = "canceled" /\ c.status # "canceled"
    <3>1. N \in SUBSET (L \cup {c})
      BY DEF Going
    <3>2. Cardinality(N) <= Cardinality(L) + 1
      <4> HIDE DEF L, N
      <4>1. IsFiniteSet(L \cup {c}) /\ Cardinality(L \cup {c}) \in Nat
        BY <2>1, FS_AddElement, FS_CardinalityType
      <4>2. Cardinality(L \cup {c}) \in {Cardinality(L), Cardinality(L) + 1}
        BY <2>1, FS_AddElement
      <4>3. Cardinality(N) <= Cardinality(L \cup {c})
        BY <3>1, <4>1, FS_Subset
      <4> QED
        BY <2>2, <4>1, <4>2, <4>3
    <3> QED
      BY <1>3, <2>2, <2>3, <3>2 DEF TakenBy
  <2>4. CASE c.status = "canceled"
    <3>1. N \in SUBSET L
      BY <2>4 DEF Going
    <3>2. Cardinality(N) <= Cardinality(L)
      <4> HIDE DEF L, N
      <4> QED
        BY <2>1, <3>1, FS_Subset
    <3> QED
      BY <1>3, <2>2, <2>4, <3>2 DEF TakenBy
  <2>5. CASE b.status # "canceled" /\ c.status # "canceled"
    <3>1. b \in L /\ N \in SUBSET ((L \ {b}) \cup {c})
      BY <2>5 DEF Going
    <3>2. Cardinality(N) <= Cardinality(L)
      <4> HIDE DEF L, N
      <4>1. IsFiniteSet(L \ {b}) /\ Cardinality(L \ {b}) = Cardinality(L) - 1
        BY <2>1, <3>1, FS_RemoveElement
      <4>2. /\ IsFiniteSet((L \ {b}) \cup {c})
            /\ Cardinality((L \ {b}) \cup {c}) \in {Cardinality(L \ {b}), Cardinality(L \ {b}) + 1}
        BY <4>1, FS_AddElement
      <4>3. Cardinality(N) <= Cardinality((L \ {b}) \cup {c})
        BY <3>1, <4>2, FS_Subset
      <4> QED
        BY <2>2, <4>1, <4>2, <4>3
    <3> QED
      BY <1>3, <2>2, <2>5, <3>2 DEF TakenBy
  <2> QED
    BY <2>3, <2>4, <2>5
<1> HIDE DEF Q
<1>4. TakenBy(Q, d, t) \in Nat /\ TakenBy(R, d, t) \in Nat
  BY <1>1, TakenIs
<1>5. TakenBy(Q, d, t)
        <= TakenBy(R, d, t) + (IF d # "booking" /\ b.status = "canceled" /\ c.status # "canceled"
                               THEN 1 ELSE 0)
  BY <1>2, <1>3, <1>4
<1> QED
  BY <1>1, <1>5 DEF Q

\* One more row.
LEMMA AddRow ==
  ASSUME NEW R \in SUBSET Seats!Row, IsFiniteSet(R), NEW c \in Seats!Row,
         NEW d, NEW t \in Int
  PROVE  /\ IsFiniteSet(R \cup {c})
         /\ d = "booking" /\ ~Covers(c.window, t) => TakenBy(R \cup {c}, d, t) <= TakenBy(R, d, t)
         /\ d = "booking" => TakenBy(R \cup {c}, d, t) <= TakenBy(R, d, t) + c.seats
         /\ d # "booking" => TakenBy(R \cup {c}, d, t) <= TakenBy(R, d, t) + 1
<1> DEFINE Q == R \cup {c}
<1>1. IsFiniteSet(Q) /\ Q \in SUBSET Seats!Row
  BY FS_AddElement
<1>2. \A x \in Seats!Row : SeatF[x] \in Nat /\ SeatF[x] = x.seats
  BY RowNumbers DEF SeatF
<1>3. ASSUME d = "booking"
      PROVE  /\ TakenBy(Q, d, t) <= TakenBy(R, d, t) + c.seats
             /\ ~Covers(c.window, t) => TakenBy(Q, d, t) <= TakenBy(R, d, t)
  <2> DEFINE L == LiveAt(R, t)
             N == LiveAt(Q, t)
  <2>1. /\ IsFiniteSet(L) /\ L \in SUBSET Seats!Row
        /\ IsFiniteSet(N) /\ N \in SUBSET Seats!Row
    BY <1>1, TakenIs
  <2>2. N \in SUBSET (L \cup {c}) /\ (~Covers(c.window, t) => N \in SUBSET L)
    BY DEF LiveAt
  <2>3. \A y \in L \cup {c} : SeatF[y] \in Nat
    BY <1>2, <2>1
  <2>4. SeatF[c] = c.seats
    BY <1>2
  <2> HIDE DEF L, N
  <2>5. SumOf(SeatF, N) <= SumOf(SeatF, L) + SeatF[c]
    BY <2>1, <2>2, <2>3, SumAdds
  <2>6. ~Covers(c.window, t) => SumOf(SeatF, N) <= SumOf(SeatF, L)
    BY <2>1, <2>2, <2>3, SumGrows
  <2> QED
    BY <1>3, <2>4, <2>5, <2>6 DEF TakenBy, L, N
<1>4. ASSUME d # "booking" PROVE TakenBy(Q, d, t) <= TakenBy(R, d, t) + 1
  <2> DEFINE L == Going(R)
             N == Going(Q)
  <2>1. IsFiniteSet(L) /\ IsFiniteSet(N)
    BY <1>1, TakenIs
  <2>2. N \in SUBSET (L \cup {c})
    BY DEF Going
  <2> HIDE DEF L, N
  <2>3. Cardinality(L) \in Nat /\ Cardinality(N) \in Nat
    BY <2>1, FS_CardinalityType
  <2>4. /\ IsFiniteSet(L \cup {c})
        /\ Cardinality(L \cup {c}) \in {Cardinality(L), Cardinality(L) + 1}
    BY <2>1, FS_AddElement
  <2>5. Cardinality(N) <= Cardinality(L \cup {c})
    BY <2>2, <2>4, FS_Subset
  <2>6. Cardinality(N) <= Cardinality(L) + 1
    BY <2>3, <2>4, <2>5
  <2> QED
    BY <1>4, <2>6 DEF TakenBy, L, N
<1> QED
  BY <1>1, <1>3, <1>4

LEMMA SeatBound ==
  ASSUME SeatInv, NEW t \in Int
  PROVE  /\ Raced(Load(t), Waiting(t), Asked, Capacity, Seats!LargestParty)
         /\ Capacity \in Int /\ Seats!LargestParty \in Nat /\ Load(t) \in Int
         /\ Waiting(t) \in SUBSET Requests
         /\ \A r \in Waiting(t) : Asked[r] \in Nat /\ Asked[r] <= Seats!LargestParty
BY Numbers DEF SeatInv

\* A request that has counted waits to insert.
LEMMA SeatsCounted ==
  ASSUME SeatInv, SeatType', SetInv', NEW r \in Requests, NEW want,
         seatPc[r] = "idle", Seats!Goto(r, "insert", want),
         UNCHANGED <<desk, rows, revived>>,
         \A t \in Int : (desk = "booking" => Covers(want.window, t))
                          => TakenBy(rows, desk, t) + want.seats <= Capacity
  PROVE  SeatInv'
<1>1. SeatType
  BY DEF SeatInv
<1>2. /\ seatPc' = [seatPc EXCEPT ![r] = "insert"]
      /\ seatWork' = [seatWork EXCEPT ![r] = want]
  BY DEF Seats!Goto
<1>3. Seats!LargestParty' = Seats!LargestParty
  BY DEF Seats!LargestParty
<1>4. want \in Seats!Row /\ want.seats \in Nat
  <2>1. seatWork'[r] = want /\ seatWork'[r] \in Seats!Row
    BY <1>1, <1>2 DEF SeatType
  <2> QED
    BY <2>1, RowNumbers
<1>5. /\ \A q \in Requests \ {r} : Asked'[q] = Asked[q]
      /\ Asked'[r] = want.seats
  BY <1>1, <1>2 DEF Asked, SeatType
<1>6. ASSUME NEW t \in Int
      PROVE  Raced(Load(t)', Waiting(t)', Asked', Capacity, Seats!LargestParty)
  <2>1. Load(t)' = Load(t)
    BY DEF Load
  <2>2. r \notin Waiting(t)
    BY DEF Waiting
  <2>3. /\ Capacity \in Int /\ Seats!LargestParty \in Nat /\ Load(t) \in Int
        /\ Waiting(t) \in SUBSET Requests
        /\ \A q \in Waiting(t) : Asked[q] \in Nat
        /\ Raced(Load(t), Waiting(t), Asked, Capacity, Seats!LargestParty)
    BY SeatBound
  <2>4. CASE desk = "booking" => Covers(want.window, t)
    <3>1. Waiting(t)' = Waiting(t) \cup {r}
      BY <1>1, <1>2, <2>4 DEF Waiting, SeatType
    <3>2. Load(t) + want.seats <= Capacity
      <4>1. TakenBy(rows, desk, t) \in Nat /\ revived \in Nat
        BY <1>1, TakenIs DEF SeatType
      <4>2. TakenBy(rows, desk, t) + want.seats <= Capacity
        BY <2>4
      <4> QED
        BY <1>4, <2>3, <4>1, <4>2 DEF Load
    <3>3. Asked'[r] \in Int /\ Load(t) + Asked'[r] <= Capacity
      BY <1>4, <1>5, <3>2
    <3>4. Raced(Load(t), Waiting(t) \cup {r}, Asked', Capacity, Seats!LargestParty)
      BY <2>3, <3>3, RaceJoined
    <3> QED
      BY <2>1, <3>1, <3>4
  <2>5. CASE desk = "booking" /\ ~Covers(want.window, t)
    <3>1. Waiting(t)' = Waiting(t)
      BY <1>1, <1>2, <2>2, <2>5 DEF Waiting, SeatType
    <3>2. \A q \in Waiting(t) : Asked[q] \in Nat /\ Asked'[q] = Asked[q]
      BY <1>5, <2>2, <2>3
    <3>3. Load(t) <= Load(t)
      BY <2>3
    <3>4. Raced(Load(t), Waiting(t), Asked', Capacity, Seats!LargestParty)
      BY <2>3, <3>2, <3>3, RaceGoesOn
    <3> QED
      BY <2>1, <3>1, <3>4
  <2> QED
    BY <2>4, <2>5
<1> QED
  BY <1>3, <1>6 DEF SeatInv

LEMMA InsertRowInv ==
  ASSUME SeatInv, SeatType', SetInv', NEW r \in Requests, Seats!InsertRow(r)
  PROVE  SeatInv'
<1>1. SeatType
  BY DEF SeatInv
<1> DEFINE c == [seatWork[r] EXCEPT !.id = nextId]
<1>2. /\ rows' = rows \cup {c} /\ desk' = desk /\ revived' = revived
      /\ seatPc' = [seatPc EXCEPT ![r] = "idle"]
      /\ seatWork' = [seatWork EXCEPT ![r] = Seats!NoRow]
      /\ seatPc[r] = "insert"
  BY DEF Seats!InsertRow, Seats!Finish, Seats!Goto
<1>3. c \in Seats!Row /\ c.window = seatWork[r].window /\ c.seats = seatWork[r].seats
  <2>1. seatWork[r] \in Seats!Row /\ nextId \in Nat
    BY <1>1 DEF SeatType
  <2> QED
    BY <2>1, RenumberedRow
<1> HIDE DEF c
<1>4. Seats!LargestParty' = Seats!LargestParty
  BY <1>2 DEF Seats!LargestParty
<1>5. /\ \A q \in Requests \ {r} : Asked'[q] = Asked[q]
      /\ Asked[r] = c.seats
  BY <1>1, <1>2, <1>3 DEF Asked, SeatType
<1>6. ASSUME NEW t \in Int
      PROVE  Raced(Load(t)', Waiting(t)', Asked', Capacity, Seats!LargestParty)
  <2>1. /\ Capacity \in Int /\ Seats!LargestParty \in Nat /\ Load(t) \in Int
        /\ Waiting(t) \in SUBSET Requests
        /\ \A q \in Waiting(t) : Asked[q] \in Nat /\ Asked[q] <= Seats!LargestParty
        /\ Raced(Load(t), Waiting(t), Asked, Capacity, Seats!LargestParty)
    BY SeatBound
  <2>2. /\ TakenBy(rows, desk, t) \in Nat /\ TakenBy(rows', desk', t) \in Nat
        /\ revived \in Nat
    BY <1>1, TakenIs DEF SeatType
  <2>3. Load(t)' = TakenBy(rows', desk, t) - revived /\ Load(t)' \in Int
    BY <1>2, <2>2 DEF Load
  <2>4. /\ desk = "booking" /\ ~Covers(c.window, t)
             => TakenBy(rows', desk, t) <= TakenBy(rows, desk, t)
        /\ desk = "booking" => TakenBy(rows', desk, t) <= TakenBy(rows, desk, t) + c.seats
        /\ desk # "booking" => TakenBy(rows', desk, t) <= TakenBy(rows, desk, t) + 1
    <3>1. rows \in SUBSET Seats!Row /\ IsFiniteSet(rows)
      BY <1>1 DEF SeatType
    <3> QED
      BY <1>2, <1>3, <3>1, AddRow
  <2>5. Waiting(t)' = Waiting(t) \ {r}
    BY <1>1, <1>2 DEF Waiting, SeatType
  <2>6. CASE r \in Waiting(t)
    <3>1. c.seats \in Nat /\ c.seats >= 1
      BY <1>3, RowNumbers
    <3>2. Load(t)' <= Load(t) + Asked[r]
      BY <1>2, <1>5, <2>2, <2>4, <3>1 DEF Load
    <3>3. \A q \in Waiting(t) \ {r} : Asked'[q] = Asked[q]
      BY <1>5, <2>1
    <3>4. Raced(Load(t)', Waiting(t) \ {r}, Asked', Capacity, Seats!LargestParty)
      BY <2>1, <2>3, <2>6, <3>2, <3>3, RaceLeft
    <3> QED
      BY <2>5, <3>4
  <2>7. CASE r \notin Waiting(t)
    <3>1. desk = "booking" /\ ~Covers(c.window, t)
      BY <1>2, <1>3, <2>7 DEF Waiting
    <3>2. Load(t)' <= Load(t)
      BY <1>2, <2>2, <2>4, <3>1 DEF Load
    <3>3. Waiting(t)' = Waiting(t)
      BY <2>5, <2>7
    <3>4. \A q \in Waiting(t) : Asked[q] \in Nat /\ Asked'[q] = Asked[q]
      BY <1>5, <2>1, <2>7
    <3>5. Raced(Load(t)', Waiting(t), Asked', Capacity, Seats!LargestParty)
      BY <2>1, <2>3, <3>2, <3>4, RaceGoesOn
    <3> QED
      BY <3>3, <3>5
  <2> QED
    BY <2>6, <2>7
<1> QED
  BY <1>4, <1>6 DEF SeatInv

LEMMA SeatTypeStep == ASSUME SeatInv, Seats!Next PROVE SeatType' /\ SetInv'
<1> SeatType /\ SetInv
  BY DEF SeatInv
<1> DEFINE Same == Seats!LargestParty' = Seats!LargestParty
<1>1. desk' = desk => Same
  BY DEF Seats!LargestParty
<1>2. ASSUME NEW r \in Requests, NEW l \in SeatLabels, NEW row \in Seats!Row,
             Seats!Goto(r, l, row), UNCHANGED <<desk, rows, nextId, revived>>,
             l = "insert" => row.seats <= Seats!LargestParty,
             l = "set" => desk = "event" /\ \E b \in rows : b.id = row.id
      PROVE  SeatType' /\ SetInv'
  <2>1. SeatType'
    BY <1>2 DEF SeatType, Seats!Goto
  <2>2. SetInv'
    <3>1. /\ \A q \in Requests \ {r} : seatPc'[q] = seatPc[q] /\ seatWork'[q] = seatWork[q]
          /\ seatPc'[r] = l /\ seatWork'[r] = row
      BY <1>2 DEF SeatType, Seats!Goto
    <3> SUFFICES ASSUME NEW q \in Requests
                 PROVE  /\ seatPc'[q] = "insert" => seatWork'[q].seats <= Seats!LargestParty
                        /\ seatPc'[q] = "set"
                             => desk = "event" /\ \E b \in rows : b.id = seatWork'[q].id
      BY <1>1, <1>2 DEF SetInv
    <3> QED
      BY <1>2, <3>1 DEF SetInv
  <2> QED
    BY <2>1, <2>2
<1> HIDE DEF Same
<1> USE DEF SeatLabels
<1>3. ASSUME NEW r \in Requests, NEW w \in Windows, NEW n \in Parties,
             Seats!StartBooking(r, w, n)
      PROVE  SeatType' /\ SetInv'
  <2> DEFINE want == [id |-> 0, window |-> w, seats |-> n, status |-> "booked"]
  <2>1. want \in Seats!Row /\ want.seats = n
    BY DEF Seats!Row, Seats!Statuses
  <2>2. n <= Seats!LargestParty
    BY <1>3, LargestIsNat DEF Seats!StartBooking
  <2>3. Seats!Goto(r, "insert", want) /\ UNCHANGED <<desk, rows, nextId, revived>>
    BY <1>3 DEF Seats!StartBooking
  <2> HIDE DEF want
  <2> QED
    BY <1>2, <2>1, <2>2, <2>3
<1>4. ASSUME NEW r \in Requests, Seats!StartRegistration(r) PROVE SeatType' /\ SetInv'
  <2> DEFINE want == [Seats!NoRow EXCEPT !.status = "registered"]
  <2>1. want \in Seats!Row /\ want.seats = 1
    <3>1. "registered" \in Seats!Statuses
      BY DEF Seats!Statuses
    <3> QED
      BY <3>1, NoRowIsRow, MovedRow
  <2>2. Seats!Goto(r, "insert", want) /\ UNCHANGED <<desk, rows, nextId, revived>>
    BY <1>4 DEF Seats!StartRegistration
  <2> HIDE DEF want
  <2>3. want.seats <= Seats!LargestParty
    BY <2>1, LargestIsNat
  <2> QED
    BY <1>2, <2>1, <2>2, <2>3
<1>5. ASSUME NEW r \in Requests, Seats!InsertRow(r) PROVE SeatType' /\ SetInv'
  <2> DEFINE c == [seatWork[r] EXCEPT !.id = nextId]
  <2>1. c \in Seats!Row
    BY RenumberedRow DEF SeatType
  <2>2. /\ rows' = rows \cup {c} /\ desk' = desk /\ revived' = revived
        /\ nextId' = nextId + 1
        /\ seatPc' = [seatPc EXCEPT ![r] = "idle"]
        /\ seatWork' = [seatWork EXCEPT ![r] = Seats!NoRow]
    BY <1>5 DEF Seats!InsertRow, Seats!Finish, Seats!Goto
  <2> HIDE DEF c
  <2>3. SeatType'
    <3>1. IsFiniteSet(rows')
      BY <2>2, FS_AddElement DEF SeatType
    <3> QED
      BY <2>1, <2>2, <3>1, NoRowIsRow DEF SeatType
  <2>4. SetInv'
    BY <1>1, <2>2 DEF SetInv, SeatType, Same
  <2> QED
    BY <2>3, <2>4
<1>6. ASSUME NEW b \in rows, NEW to \in Seats!Statuses, Seats!SetBookingStatus(b, to)
      PROVE  SeatType' /\ SetInv'
  <2> DEFINE c == [b EXCEPT !.status = to]
  <2>1. c \in Seats!Row
    BY MovedRow DEF SeatType
  <2>2. /\ rows' = (rows \ {b}) \cup {c} /\ desk' = desk /\ revived' = revived
        /\ nextId' = nextId /\ seatPc' = seatPc /\ seatWork' = seatWork /\ desk = "booking"
    BY <1>6 DEF Seats!SetBookingStatus
  <2> HIDE DEF c
  <2>3. SeatType'
    <3>1. IsFiniteSet(rows')
      <4>1. IsFiniteSet(rows \ {b})
        BY FS_Subset DEF SeatType
      <4> QED
        BY <2>2, <4>1, FS_AddElement
    <3> QED
      BY <2>1, <2>2, <3>1 DEF SeatType
  <2>4. SetInv'
    BY <1>1, <2>2 DEF SetInv, Same
  <2> QED
    BY <2>3, <2>4
<1>7. CASE Seats!SetEventStatus
  <2>1. UNCHANGED <<desk, rows, nextId, seatPc, seatWork, revived>>
    BY <1>7 DEF Seats!SetEventStatus
  <2> QED
    BY <1>1, <2>1 DEF SeatType, SetInv, Same
<1>8. ASSUME NEW r \in Requests, NEW b \in rows, NEW to \in Seats!Statuses,
             Seats!ReadRegistration(r, b, to)
      PROVE  SeatType' /\ SetInv'
  <2> DEFINE c == [b EXCEPT !.status = to]
  <2>1. c \in Seats!Row /\ c.id = b.id
    BY MovedRow DEF SeatType
  <2>2. Seats!Goto(r, "set", c) /\ UNCHANGED <<desk, rows, nextId, revived>> /\ desk = "event"
    BY <1>8 DEF Seats!ReadRegistration
  <2> HIDE DEF c
  <2> QED
    BY <1>2, <2>1, <2>2
<1>9. ASSUME NEW r \in Requests, Seats!WriteRegistration(r) PROVE SeatType' /\ SetInv'
  <2> DEFINE b == CHOOSE x \in rows : x.id = seatWork[r].id
  <2>1. b \in rows /\ b.id = seatWork[r].id /\ desk = "event"
    BY <1>9 DEF Seats!WriteRegistration, SetInv
  <2>2. /\ rows' = (rows \ {b}) \cup {seatWork[r]} /\ desk' = desk
        /\ revived' \in {revived, revived + 1} /\ nextId' = nextId
        /\ seatPc' = [seatPc EXCEPT ![r] = "idle"]
        /\ seatWork' = [seatWork EXCEPT ![r] = Seats!NoRow]
    BY <1>9 DEF Seats!WriteRegistration, Seats!Finish, Seats!Goto
  <2> HIDE DEF b
  <2>3. SeatType'
    <3>1. IsFiniteSet(rows')
      <4>1. IsFiniteSet(rows \ {b})
        BY FS_Subset DEF SeatType
      <4> QED
        BY <2>2, <4>1, FS_AddElement
    <3> QED
      BY <2>2, <3>1, NoRowIsRow DEF SeatType
  <2>4. SetInv'
    <3> SUFFICES ASSUME NEW q \in Requests
                 PROVE  /\ seatPc'[q] = "insert" => seatWork'[q].seats <= Seats!LargestParty
                        /\ seatPc'[q] = "set"
                             => desk = "event" /\ \E x \in rows' : x.id = seatWork'[q].id
      BY <1>1, <2>2 DEF SetInv, Same
    <3>1. CASE q = r
      BY <2>2, <3>1 DEF SeatType
    <3>2. CASE q # r
      <4>1. seatPc'[q] = seatPc[q] /\ seatWork'[q] = seatWork[q]
        BY <2>2, <3>2 DEF SeatType
      <4>2. \A x \in rows : \E y \in rows' : y.id = x.id
        BY <2>1, <2>2
      <4> QED
        BY <4>1, <4>2 DEF SetInv
    <3> QED
      BY <3>1, <3>2
  <2> QED
    BY <2>3, <2>4
<1> QED
  BY <1>3, <1>4, <1>5, <1>6, <1>7, <1>8, <1>9 DEF Seats!Next

LEMMA SetBookingInv ==
  ASSUME SeatInv, SeatType', SetInv', NEW b \in rows, NEW to \in Seats!Statuses,
         Seats!SetBookingStatus(b, to)
  PROVE  SeatInv'
<1> DEFINE c == [b EXCEPT !.status = to]
<1>1. SeatType
  BY DEF SeatInv
<1>2. c \in Seats!Row /\ c.seats = b.seats /\ c.window = b.window
  BY <1>1, MovedRow DEF SeatType
<1>3. /\ rows' = (rows \ {b}) \cup {c} /\ desk' = desk /\ revived' = revived
      /\ seatPc' = seatPc /\ seatWork' = seatWork /\ desk = "booking"
  BY DEF Seats!SetBookingStatus
<1>4. Seats!Live(b)
  BY DEF Seats!SetBookingStatus, Seats!BookingMoves, Seats!Live
<1> HIDE DEF c
<1>5. ASSUME NEW t \in Int PROVE Load(t)' <= Load(t)
  <2>1. /\ TakenBy(rows, desk, t) \in Nat /\ TakenBy(rows', desk', t) \in Nat
        /\ revived \in Nat
    BY <1>1, TakenIs DEF SeatType
  <2>2. rows \in SUBSET Seats!Row /\ IsFiniteSet(rows)
    BY <1>1 DEF SeatType
  <2>3. TakenBy(rows', desk, t) <= TakenBy(rows, desk, t) + (IF desk # "booking" /\ b.status = "canceled"
                                                                /\ c.status # "canceled" THEN 1 ELSE 0)
    BY <1>2, <1>3, <1>4, <2>2, ReplaceRow
  <2> QED
    BY <1>3, <2>1, <2>3 DEF Load
<1> QED
  BY <1>3, <1>5, SeatsQuiet

LEMMA WriteRegistrationInv ==
  ASSUME SeatInv, SeatType', SetInv', NEW r \in Requests, Seats!WriteRegistration(r)
  PROVE  SeatInv'
<1> DEFINE b == CHOOSE x \in rows : x.id = seatWork[r].id
           c == seatWork[r]
<1>1. SeatType /\ SetInv
  BY DEF SeatInv
<1>2. b \in rows /\ desk = "event"
  BY <1>1 DEF Seats!WriteRegistration, SetInv
<1>3. /\ rows' = (rows \ {b}) \cup {c} /\ desk' = desk
      /\ revived' = IF b.status = "canceled" /\ c.status # "canceled"
                    THEN revived + 1 ELSE revived
      /\ seatPc' = [seatPc EXCEPT ![r] = "idle"]
      /\ seatWork' = [seatWork EXCEPT ![r] = Seats!NoRow]
      /\ seatPc[r] = "set"
  BY DEF Seats!WriteRegistration, Seats!Finish, Seats!Goto
<1>4. c \in Seats!Row
  BY <1>1 DEF SeatType
<1> HIDE DEF b, c
<1>5. ASSUME NEW t \in Int PROVE Load(t)' <= Load(t)
  <2>1. /\ TakenBy(rows, desk, t) \in Nat /\ TakenBy(rows', desk', t) \in Nat
        /\ revived \in Nat
    BY <1>1, TakenIs DEF SeatType
  <2>2. rows \in SUBSET Seats!Row /\ IsFiniteSet(rows)
    BY <1>1 DEF SeatType
  <2>3. TakenBy(rows', desk, t) <= TakenBy(rows, desk, t) + (IF desk # "booking" /\ b.status = "canceled"
                                                                /\ c.status # "canceled" THEN 1 ELSE 0)
    BY <1>2, <1>3, <1>4, <2>2, ReplaceRow
  <2> QED
    BY <1>2, <1>3, <2>1, <2>3 DEF Load
<1>6. /\ \A q \in Requests : seatPc[q] = "insert" <=> seatPc'[q] = "insert"
      /\ \A q \in Requests : seatPc[q] = "insert" => seatWork'[q] = seatWork[q]
  BY <1>1, <1>3 DEF SeatType
<1> QED
  BY <1>3, <1>5, <1>6, SeatsQuiet

LEMMA SeatStep == ASSUME SeatInv, Seats!Next PROVE SeatInv'
<1>1. SeatType /\ SetInv /\ SeatType' /\ SetInv'
  BY SeatTypeStep DEF SeatInv
<1>2. ASSUME NEW r \in Requests, NEW w \in Windows, NEW n \in Parties,
             Seats!StartBooking(r, w, n)
      PROVE  SeatInv'
  <2> DEFINE want == [id |-> 0, window |-> w, seats |-> n, status |-> "booked"]
             Near == {b \in rows : Seats!Live(b) /\ Seats!Overlaps(b.window, want.window)}
  <2>1. /\ Seats!Goto(r, "insert", want) /\ UNCHANGED <<desk, rows, revived>>
        /\ seatPc[r] = "idle" /\ desk = "booking"
        /\ Seats!SeatsOf(Near) + n <= Capacity
    BY <1>2 DEF Seats!StartBooking, Seats!FitsCapacity
  <2>2. /\ Near \in SUBSET Seats!Row /\ IsFiniteSet(Near) /\ Near \in SUBSET rows
        /\ rows \in SUBSET Seats!Row /\ IsFiniteSet(rows)
    <3>1. rows \in SUBSET Seats!Row /\ IsFiniteSet(rows) /\ Near \in SUBSET rows
      BY <1>1 DEF SeatType
    <3> HIDE DEF Near
    <3> QED
      BY <3>1, FS_Subset
  <2>3. Seats!SeatsOf(Near) = SumOf(SeatF, Near)
    BY <2>2, SeatsAreSum
  <2>4. ASSUME NEW t \in Int, Covers(want.window, t)
        PROVE  TakenBy(rows, desk, t) + want.seats <= Capacity
    <3>1. \A b \in rows : b.window[1] \in Nat /\ b.window[2] \in Nat
      BY <2>2, RowNumbers
    <3>2. want.window[1] \in Nat /\ want.window[2] \in Nat
      BY SeatsAssumption DEF Seats!ConstantsOK
    <3>3. LiveAt(rows, t) \in SUBSET Near
      BY <2>4, <3>1, <3>2 DEF LiveAt, Covers, Seats!Overlaps
    <3>4. \A b \in Near : SeatF[b] \in Nat
      BY <2>2, RowNumbers DEF SeatF
    <3> HIDE DEF Near
    <3>5. /\ SumOf(SeatF, LiveAt(rows, t)) <= SumOf(SeatF, Near)
          /\ SumOf(SeatF, LiveAt(rows, t)) \in Nat /\ SumOf(SeatF, Near) \in Nat
      BY <2>2, <3>3, <3>4, SumGrows
    <3>6. n \in Nat /\ Capacity \in Nat /\ want.seats = n
      BY SeatsAssumption DEF Seats!ConstantsOK
    <3> HIDE DEF want
    <3>7. SumOf(SeatF, LiveAt(rows, t)) + want.seats <= Capacity
      BY <2>1, <2>3, <3>5, <3>6
    <3> QED
      BY <2>1, <3>7 DEF TakenBy
  <2> HIDE DEF want, Near
  <2> QED
    BY <1>1, <2>1, <2>4, SeatsCounted
<1>3. ASSUME NEW r \in Requests, Seats!StartRegistration(r) PROVE SeatInv'
  <2> DEFINE want == [Seats!NoRow EXCEPT !.status = "registered"]
  <2>1. /\ Seats!Goto(r, "insert", want) /\ UNCHANGED <<desk, rows, revived>>
        /\ seatPc[r] = "idle" /\ desk = "event"
        /\ Seats!SeatsTaken < Capacity
    BY <1>3 DEF Seats!StartRegistration
  <2>2. want.seats = 1
    <3>1. "registered" \in Seats!Statuses
      BY DEF Seats!Statuses
    <3> QED
      BY <3>1, NoRowIsRow, MovedRow
  <2> HIDE DEF want
  <2>3. ASSUME NEW t \in Int PROVE TakenBy(rows, desk, t) + want.seats <= Capacity
    <3>1. TakenBy(rows, desk, t) = Seats!SeatsTaken
      BY <2>1 DEF TakenBy, Seats!SeatsTaken, Going, Seats!Cardinality, Cardinality,
                  Seats!IsFiniteSet, IsFiniteSet
    <3>2. TakenBy(rows, desk, t) \in Nat /\ Capacity \in Nat
      BY <1>1, TakenIs, SeatsAssumption DEF SeatType, Seats!ConstantsOK
    <3> QED
      BY <2>1, <2>2, <3>1, <3>2
  <2> QED
    BY <1>1, <2>1, <2>3, SeatsCounted
<1>4. ASSUME NEW r \in Requests, Seats!InsertRow(r) PROVE SeatInv'
  BY <1>1, <1>4, InsertRowInv
<1>5. ASSUME NEW r \in Requests, Seats!WriteRegistration(r) PROVE SeatInv'
  BY <1>1, <1>5, WriteRegistrationInv
<1>6. ASSUME NEW r \in Requests, NEW b \in rows, NEW to \in Seats!Statuses,
             Seats!ReadRegistration(r, b, to)
      PROVE  SeatInv'
  <2>1. /\ UNCHANGED <<desk, rows, revived>>
        /\ \A q \in Requests : seatPc[q] = "insert" <=> seatPc'[q] = "insert"
        /\ \A q \in Requests : seatPc[q] = "insert" => seatWork'[q] = seatWork[q]
    BY <1>1, <1>6 DEF Seats!ReadRegistration, Seats!Goto, SeatType
  <2>2. \A t \in Int : Load(t)' <= Load(t)
    BY <1>1, <2>1, LoadIsInt DEF Load
  <2> QED
    BY <1>1, <2>1, <2>2, SeatsQuiet
<1>7. ASSUME NEW b \in rows, NEW to \in Seats!Statuses, Seats!SetBookingStatus(b, to)
      PROVE  SeatInv'
  BY <1>1, <1>7, SetBookingInv
<1>8. ASSUME UNCHANGED <<desk, rows, seatPc, seatWork, revived>> PROVE SeatInv'
  <2>1. \A t \in Int : Load(t)' <= Load(t)
    BY <1>1, <1>8, LoadIsInt DEF Load
  <2> QED
    BY <1>1, <1>8, <2>1, SeatsQuiet
<1>9. CASE Seats!SetEventStatus
  BY <1>8, <1>9 DEF Seats!SetEventStatus
<1> QED
  BY <1>2, <1>3, <1>4, <1>5, <1>6, <1>7, <1>9 DEF Seats!Next

LEMMA SeatSteps == ASSUME SeatInv, [MCNext]_allVars PROVE SeatInv'
<1>1. CASE UNCHANGED seatVars
  <2>1. SeatType /\ SetInv
    BY DEF SeatInv
  <2>2. SeatType' /\ SetInv'
    BY <1>1, <2>1 DEF SeatType, SetInv, seatVars, Seats!LargestParty
  <2>3. \A t \in Int : Load(t)' <= Load(t)
    BY <1>1, <2>1, LoadIsInt DEF Load, seatVars
  <2> QED
    BY <1>1, <2>2, <2>3, SeatsQuiet DEF seatVars
<1>2. CASE MCNext /\ ~UNCHANGED seatVars
  <2>1. Seats!Next
    BY <1>2
    DEF MCNext, InRows, InSeats, InTill, InPayment, InLoan, InAsset, InSupply, InBank, InReport,
        Seats!Next
  <2> QED
    BY <2>1, SeatStep
<1> QED
  BY <1>1, <1>2 DEF allVars

\* Racing requests, however many, overbook by no more than one party for each request
\* beside the one that was counted, at every instant; a registration revived by a
\* racing status change comes on top (booking/store.go:109-132,
\* events/store.go:121-143 and 161-180).
THEOREM OverbooksNoFurther == MCSpec => []OverbookingIsBounded
<1>1. ASSUME SeatInv PROVE OverbookingIsBounded
  <2> SUFFICES ASSUME NEW w \in Windows
               PROVE  Seats!Taken(w[1]) <= Capacity + (Seats!Cardinality(Requests) - 1) * Seats!LargestParty
                                            + revived
    BY DEF OverbookingIsBounded, Seats!OverbookingIsBounded
  <2>1. w[1] \in Int
    BY SeatsAssumption DEF Seats!ConstantsOK
  <2>2. /\ Raced(Load(w[1]), Waiting(w[1]), Asked, Capacity, Seats!LargestParty)
        /\ Capacity \in Int /\ Seats!LargestParty \in Nat /\ Load(w[1]) \in Int
        /\ Waiting(w[1]) \in SUBSET Requests
        /\ \A r \in Waiting(w[1]) : Asked[r] \in Nat
    BY <1>1, <2>1, SeatBound
  <2>3. Load(w[1]) <= Capacity + (Cardinality(Requests) - 1) * Seats!LargestParty
    BY <2>2, RaceIsBounded
  <2>4. Load(w[1]) = Seats!Taken(w[1]) - revived /\ Seats!Taken(w[1]) \in Nat
        /\ revived \in Nat
    BY <1>1, LoadIsInt DEF SeatInv, SeatType
  <2>5. Seats!Cardinality(Requests) = Cardinality(Requests)
    BY DEF Seats!Cardinality, Cardinality, Seats!IsFiniteSet, IsFiniteSet
  <2> DEFINE k == (Cardinality(Requests) - 1) * Seats!LargestParty
  <2>6. k \in Int
    BY <2>2, RaceSize
  <2>7. Load(w[1]) <= Capacity + k
    BY <2>3
  <2> HIDE DEF k
  <2>8. Seats!Taken(w[1]) <= Capacity + k + revived
    BY <2>2, <2>4, <2>6, <2>7
  <2> QED
    BY <2>5, <2>8 DEF k
<1>2. MCInit => SeatInv
  BY SeatInit DEF MCInit
<1>3. SeatInv /\ [MCNext]_allVars => SeatInv'
  BY SeatSteps
<1> QED
  BY <1>1, <1>2, <1>3, PTL DEF MCSpec
-----------------------------------------------------------------------------
(* Payments: an attempt is announced once. *)

PayLabels == {"idle", "settle manual", "created", "settle", "answer", "give back", "record",
              "announce"}
PayWork == [notice : Pay!Outcomes \cup {"none"}, seen : Pay!Outcomes \cup {"none", "pending"},
            to : Pay!Outcomes \cup {"none"}, version : Nat]

PayType ==
  /\ attempt \in {"none", "pending"} \cup Pay!Outcomes
  /\ attemptVersion \in Nat
  /\ notices \subseteq Pay!Outcomes
  /\ events \in Seq(Pay!Outcomes \cup {"created"})
  /\ payPc \in [Requests -> PayLabels]
  /\ payWork \in [Requests -> PayWork]
  /\ attempt = "none" => attemptVersion = 0

\* What the event e says is what became of the attempt.
Became(e) ==
  \/ e = "succeeded" /\ attempt \in {"succeeded", "refunded"}
  \/ e = "failed" /\ attempt = "failed"
  \/ e = "refunded" /\ attempt = "refunded"

\* The two say the same of it: that it is settled, or that it is refunded.
SaysSame(e, f) == e = "refunded" <=> f = "refunded"

Telling(r) == payPc[r] = "announce"
Told(i) == events[i] # "created"

\* What a request carries.
CarriesInv == \A r \in Requests :
  /\ payPc[r] = "settle" => payWork[r].to # "none"
  /\ payPc[r] \in {"give back", "record"} => payWork[r].to = "refunded"
  /\ Telling(r) => Became(payWork[r].to)

\* What has been told is so, and it is told once: no two events, no two requests
\* and no event and request have the same to say.
TellingInv ==
  /\ \A r, q \in Requests :
       Telling(r) /\ Telling(q) /\ SaysSame(payWork[r].to, payWork[q].to) => r = q
  /\ \A r \in Requests, i \in DOMAIN events :
       Telling(r) /\ Told(i) => ~SaysSame(payWork[r].to, events[i])

ToldInv ==
  /\ \A i \in DOMAIN events : Told(i) => Became(events[i])
  /\ \A i, j \in DOMAIN events :
       Told(i) /\ Told(j) /\ SaysSame(events[i], events[j]) => i = j

PayInv == PayType /\ CarriesInv /\ TellingInv /\ ToldInv

LEMMA PayInit == Pay!Init => PayInv
<1> SUFFICES ASSUME Pay!Init PROVE PayInv
  OBVIOUS
<1>1. PayType
  BY DEF Pay!Init, PayType, PayLabels, PayWork, Pay!Idle, Pay!Outcomes
<1>2. CarriesInv /\ TellingInv /\ ToldInv
  BY DEF Pay!Init, CarriesInv, TellingInv, ToldInv, Telling
<1> QED
  BY <1>1, <1>2 DEF PayInv

\* A step that tells nothing and leaves what has been told true: the status
\* changes, if it does, from one of which nothing was told, and requests that
\* have something to tell tell the same.
LEMMA QuietStep ==
  ASSUME PayInv, PayType', events' = events,
         \A e \in Pay!Outcomes : Became(e) => Became(e)',
         \A r \in Requests :
           \/ payPc'[r] = payPc[r] /\ payWork'[r] = payWork[r]
           \/ /\ payPc'[r] # "announce"
              /\ payPc'[r] = "settle" => payWork'[r].to # "none"
              /\ payPc'[r] \in {"give back", "record"} => payWork'[r].to = "refunded"
  PROVE  PayInv'
<1>1. \A r \in Requests : Telling(r)' => Telling(r) /\ payWork'[r] = payWork[r]
  BY DEF Telling
<1>2. \A r \in Requests : Telling(r)' => payWork[r].to \in Pay!Outcomes
  <2>1. \A r \in Requests : Telling(r) => Became(payWork[r].to)
    BY DEF PayInv, CarriesInv
  <2>2. \A r \in Requests : Telling(r) => payWork[r].to \in Pay!Outcomes
    BY <2>1 DEF Became, Pay!Outcomes
  <2> QED
    BY <1>1, <2>2
<1>3. \A i \in DOMAIN events : Told(i) => events[i] \in Pay!Outcomes
  <2>1. \A i \in DOMAIN events : Told(i) => Became(events[i])
    BY DEF PayInv, ToldInv
  <2> QED
    BY <2>1 DEF Became, Pay!Outcomes
<1>4. \A i : Told(i)' <=> Told(i)
  BY DEF Told
<1>5. ASSUME NEW r \in Requests, Telling(r)' PROVE Became(payWork[r].to)'
  <2>1. Became(payWork[r].to)
    BY <1>1, <1>5 DEF PayInv, CarriesInv
  <2> QED
    BY <1>1, <1>2, <1>5, <2>1 DEF Became
<1>6. CarriesInv'
  <2> SUFFICES ASSUME NEW r \in Requests
               PROVE  /\ payPc'[r] = "settle" => payWork'[r].to # "none"
                      /\ payPc'[r] \in {"give back", "record"} => payWork'[r].to = "refunded"
                      /\ Telling(r)' => Became(payWork[r].to)'
    BY <1>1 DEF CarriesInv
  <2> QED
    BY <1>5 DEF PayInv, CarriesInv
<1>7. TellingInv'
  <2>1. ASSUME NEW r \in Requests, NEW q \in Requests, Telling(r)', Telling(q)',
               SaysSame(payWork'[r].to, payWork'[q].to)
        PROVE  r = q
    BY <1>1, <2>1 DEF PayInv, TellingInv
  <2>2. ASSUME NEW r \in Requests, NEW i \in DOMAIN events', Telling(r)', Told(i)'
        PROVE  ~SaysSame(payWork'[r].to, events'[i])
    BY <1>1, <1>4, <2>2 DEF PayInv, TellingInv
  <2> QED
    BY <2>1, <2>2 DEF TellingInv, SaysSame
<1>8. ToldInv'
  <2>1. \A i \in DOMAIN events : Told(i) => Became(events[i])'
    BY <1>3 DEF PayInv, ToldInv, Became
  <2> QED
    BY <1>4, <2>1 DEF PayInv, ToldInv, SaysSame
<1> QED
  BY <1>6, <1>7, <1>8 DEF PayInv

\* A request sets the status to what it is about to tell, which nobody can have
\* told.
LEMMA SettlingStep ==
  ASSUME PayInv, PayType', events' = events, NEW r \in Requests,
         payPc' = [payPc EXCEPT ![r] = "announce"], payWork' = payWork,
         NEW to \in Pay!Outcomes, payWork[r].to = to, attempt' = to,
         Pay!CanTransition(attempt, to)
  PROVE  PayInv'
<1>1. /\ to = "refunded" => attempt = "succeeded"
      /\ to # "refunded" => attempt = "pending" /\ to \in {"succeeded", "failed"}
  BY DEF Pay!CanTransition, Pay!Outcomes
<1>2. \A e \in Pay!Outcomes : Became(e) => Became(e)' /\ ~SaysSame(to, e)
  BY <1>1 DEF Became, SaysSame, Pay!Outcomes
<1>3. \A q \in Requests : Telling(q) => /\ payWork[q].to \in Pay!Outcomes
                                        /\ Became(payWork[q].to)
  <2>1. \A q \in Requests : Telling(q) => Became(payWork[q].to)
    BY DEF PayInv, CarriesInv
  <2> QED
    BY <2>1 DEF Became, Pay!Outcomes
<1>4. \A i \in DOMAIN events : Told(i) => events[i] \in Pay!Outcomes /\ Became(events[i])
  <2>1. \A i \in DOMAIN events : Told(i) => Became(events[i])
    BY DEF PayInv, ToldInv
  <2> QED
    BY <2>1 DEF Became, Pay!Outcomes
<1>5. \A q \in Requests : Telling(q)' <=> Telling(q) \/ q = r
  BY DEF Telling, PayInv, PayType
<1>6. \A i : Told(i)' <=> Told(i)
  BY DEF Told
<1>7. Became(to)'
  BY <1>1 DEF Became
<1>8. CarriesInv'
  <2> SUFFICES ASSUME NEW q \in Requests
               PROVE  /\ payPc'[q] = "settle" => payWork[q].to # "none"
                      /\ payPc'[q] \in {"give back", "record"} => payWork[q].to = "refunded"
                      /\ Telling(q)' => Became(payWork[q].to)'
    BY DEF CarriesInv
  <2>1. Telling(q)' => Became(payWork[q].to)'
    <3>1. CASE q = r
      BY <1>7, <3>1 DEF Became
    <3>2. CASE q # r
      BY <1>2, <1>3, <1>5, <3>2 DEF Became
    <3> QED
      BY <3>1, <3>2
  <2> QED
    BY <2>1 DEF PayInv, PayType, CarriesInv
<1>9. TellingInv'
  <2>1. \A q \in Requests : Telling(q) => ~SaysSame(to, payWork[q].to)
    BY <1>2, <1>3
  <2>2. \A i \in DOMAIN events : Told(i) => ~SaysSame(to, events[i])
    BY <1>2, <1>4
  <2> QED
    BY <1>5, <1>6, <2>1, <2>2 DEF PayInv, TellingInv, SaysSame
<1>10. ToldInv'
  <2>1. \A i \in DOMAIN events : Told(i) => Became(events[i])'
    BY <1>2, <1>4 DEF Became
  <2> QED
    BY <1>6, <2>1 DEF PayInv, ToldInv, SaysSame
<1> QED
  BY <1>8, <1>9, <1>10 DEF PayInv

\* Telling it.
LEMMA AnnounceInv == ASSUME PayInv, PayType', NEW r \in Requests, Pay!Announce(r) PROVE PayInv'
<1>a. PICK n : n = Len(events)
  OBVIOUS
<1>b. PICK e : e = payWork[r].to
  OBVIOUS
<1>1. /\ Telling(r)
      /\ events' = Append(events, e)
      /\ payPc' = [payPc EXCEPT ![r] = "answer"]
      /\ payWork' = payWork /\ attempt' = attempt
  BY <1>b DEF Pay!Announce, Pay!Goto, Telling
<1>2. Became(e)
  BY <1>b, <1>1 DEF PayInv, CarriesInv
<1>3. /\ n \in Nat /\ DOMAIN events = 1 .. n /\ DOMAIN events' = 1 .. n + 1
      /\ events'[n + 1] = e /\ \A i \in 1 .. n : events'[i] = events[i]
  BY <1>a, <1>1 DEF PayInv, PayType
<1>4. \A q \in Requests : Telling(q)' <=> Telling(q) /\ q # r
  BY <1>1 DEF Telling, PayInv, PayType
<1>5. CarriesInv'
  BY <1>1, <1>4 DEF PayInv, PayType, CarriesInv, Became
<1>6. \A i \in 1 .. n : Told(i) /\ Told(i)' => ~SaysSame(e, events[i])
  BY <1>b, <1>1, <1>3 DEF PayInv, TellingInv
<1>7. \A q \in Requests : Telling(q) /\ q # r => ~SaysSame(payWork[q].to, e)
  BY <1>b, <1>1 DEF PayInv, TellingInv
<1>8. \A i \in 1 .. n : Told(i)' <=> Told(i)
  BY <1>3 DEF Told
<1>9. TellingInv'
  <2> SUFFICES ASSUME NEW q \in Requests, NEW i \in 1 .. n + 1, Telling(q)', Told(i)'
               PROVE  ~SaysSame(payWork'[q].to, events'[i])
    BY <1>1, <1>3, <1>4 DEF PayInv, TellingInv
  <2>1. CASE i = n + 1
    BY <1>1, <1>3, <1>4, <1>7, <2>1
  <2>2. CASE i # n + 1
    <3>1. i \in 1 .. n
      BY <1>3, <2>2
    <3> QED
      BY <1>1, <1>3, <1>4, <1>8, <3>1 DEF PayInv, TellingInv
  <2> QED
    BY <2>1, <2>2
<1>10. ToldInv'
  <2> n \in Nat
    BY <1>3
  <2>1. \A i \in 1 .. n + 1 : i = n + 1 \/ i \in 1 .. n
    OBVIOUS
  <2>2. ASSUME NEW i \in 1 .. n, Told(i)' PROVE Became(events[i])'
    <3>1. Became(events[i])
      BY <1>3, <1>8, <2>2 DEF PayInv, ToldInv
    <3> QED
      BY <1>1, <1>3, <3>1 DEF Became
  <2>3. Became(events[n + 1])'
    BY <1>1, <1>2, <1>3 DEF Became
  <2>4. \A i, j \in 1 .. n : Told(i)' /\ Told(j)' /\ SaysSame(events'[i], events'[j]) => i = j
    BY <1>3, <1>8 DEF PayInv, ToldInv, SaysSame
  <2>5. \A i \in 1 .. n : Told(i)' => ~SaysSame(e, events'[i]) /\ ~SaysSame(events'[i], e)
    BY <1>1, <1>3, <1>6, <1>8 DEF SaysSame
  <2>6. \A i \in DOMAIN events' : Told(i)' => Became(events[i])'
    BY <1>3, <2>1, <2>2, <2>3
  <2>7. ASSUME NEW i \in DOMAIN events', NEW j \in DOMAIN events', Told(i)', Told(j)',
               SaysSame(events'[i], events'[j])
        PROVE  i = j
    BY <1>3, <2>1, <2>4, <2>5, <2>7
  <2> QED
    BY <2>6, <2>7 DEF ToldInv
<1> QED
  BY <1>5, <1>9, <1>10 DEF PayInv

\* The manual attempt is announced as "created", which is no outcome.
LEMMA AnnounceCreatedInv ==
  ASSUME PayInv, PayType', NEW r \in Requests, Pay!AnnounceCreated(r) PROVE PayInv'
<1>a. PICK n : n = Len(events)
  OBVIOUS
<1>1. /\ events' = Append(events, "created")
      /\ payPc' = [payPc EXCEPT ![r] = "idle"]
      /\ payWork' = payWork /\ attempt' = attempt /\ payPc[r] = "created"
  BY DEF Pay!AnnounceCreated, Pay!Goto
<1>2. /\ n \in Nat /\ DOMAIN events = 1 .. n /\ DOMAIN events' = 1 .. n + 1
      /\ events'[n + 1] = "created" /\ \A i \in 1 .. n : events'[i] = events[i]
  BY <1>a, <1>1 DEF PayInv, PayType
<1>3. \A q \in Requests : Telling(q)' <=> Telling(q)
  BY <1>1 DEF Telling, PayInv, PayType
<1>4. \A i \in 1 .. n + 1 : Told(i)' => i \in 1 .. n /\ Told(i)
  BY <1>2 DEF Told
<1>5. CarriesInv'
  BY <1>1, <1>3 DEF PayInv, PayType, CarriesInv, Became
<1>6. TellingInv' 
  BY <1>1, <1>2, <1>3, <1>4 DEF PayInv, TellingInv
<1>7. ToldInv'
  BY <1>1, <1>2, <1>4 DEF PayInv, ToldInv, Became
<1> QED
  BY <1>5, <1>6, <1>7 DEF PayInv

LEMMA PayTypeStep == ASSUME PayInv, Pay!Next PROVE PayType'
<1> PayType
  BY DEF PayInv
<1>a. attemptVersion \in Nat
  BY DEF PayType
<1>b. \A v \in 1 .. attemptVersion : v \in Nat
  BY <1>a
<1>c. ASSUME NEW e \in Pay!Outcomes \cup {"created"}, events' = Append(events, e)
      PROVE  events' \in Seq(Pay!Outcomes \cup {"created"})
  <2> DEFINE E == Pay!Outcomes \cup {"created"}
  <2>1. events \in Seq(E)
    BY DEF PayType
  <2> HIDE DEF E
  <2>2. e \in E
    BY <1>c DEF E
  <2>3. events' \in Seq(E)
    BY <1>c, <2>1, <2>2
  <2> QED
    BY <2>3 DEF E
<1>3. ASSUME NEW to, Pay!SetStatus(to), Pay!CanTransition(attempt, to)
      PROVE  /\ attempt' \in Pay!Outcomes /\ attemptVersion' \in Nat
             /\ attempt # "none" /\ attempt' # "none"
  <2>1. attempt' = to /\ attemptVersion' = attemptVersion + 1
    BY <1>3 DEF Pay!SetStatus
  <2>2. to \in Pay!Outcomes /\ attempt # "none" /\ to # "none"
    BY <1>3 DEF Pay!CanTransition, Pay!Outcomes
  <2> QED
    BY <1>a, <2>1, <2>2
<1> USE DEF PayType, Pay!Goto, PayLabels
<1>1. Pay!Idle \in PayWork
  BY DEF PayWork, Pay!Idle
<1>2. ASSUME NEW r \in Requests, Pay!Finish(r)
      PROVE  payPc' \in [Requests -> PayLabels] /\ payWork' \in [Requests -> PayWork]
  BY <1>1, <1>2 DEF Pay!Finish
<1>4. ASSUME NEW r \in Requests, Pay!CreateIntent(r) PROVE PayType'
  BY <1>4 DEF Pay!CreateIntent
<1>5. ASSUME NEW r \in Requests, Pay!SettleManual(r) PROVE PayType'
  <2>1. CASE Pay!Settles("succeeded", 1)
    BY <1>3, <1>5, <2>1 DEF Pay!SettleManual, Pay!Settles
  <2>2. CASE ~Pay!Settles("succeeded", 1)
    BY <1>5, <2>2 DEF Pay!SettleManual
  <2> QED
    BY <2>1, <2>2
<1>6. ASSUME NEW r \in Requests, Pay!AnnounceCreated(r) PROVE PayType'
  <2>1. events' \in Seq(Pay!Outcomes \cup {"created"})
    BY <1>c, <1>6 DEF Pay!AnnounceCreated
  <2> QED
    BY <1>6, <2>1 DEF Pay!AnnounceCreated
<1>7. ASSUME NEW outcome \in {"succeeded", "failed"}, Pay!Decide(outcome) PROVE PayType'
  BY <1>7 DEF Pay!Decide, Pay!Outcomes
<1>8. ASSUME NEW r \in Requests, NEW n \in Pay!Outcomes, Pay!Deliver(r, n) PROVE PayType'
  <2>1. [notice |-> n, seen |-> attempt, to |-> n, version |-> attemptVersion] \in PayWork
    BY <1>8 DEF PayWork
  <2> QED
    BY <1>8, <2>1 DEF Pay!Deliver
<1>9. ASSUME NEW r \in Requests, Pay!SettleTerminal(r) PROVE PayType'
  <2>1. CASE payWork[r].seen # "pending"
    BY <1>9, <2>1 DEF Pay!SettleTerminal
  <2>2. CASE /\ payWork[r].seen = "pending"
             /\ Pay!Settles(payWork[r].to, payWork[r].version)
    BY <1>3, <1>9, <2>2 DEF Pay!SettleTerminal, Pay!Settles
  <2>3. CASE /\ payWork[r].seen = "pending"
             /\ ~Pay!Settles(payWork[r].to, payWork[r].version)
    <3>1. Pay!Finish(r) /\ UNCHANGED <<attempt, attemptVersion, notices, events>>
      BY <1>9, <2>3 DEF Pay!SettleTerminal
    <3> QED
      BY <1>2, <3>1
  <2> QED
    BY <2>1, <2>2, <2>3
<1>10. ASSUME NEW r \in Requests, Pay!Announce(r) PROVE PayType'
  <2>1. Became(payWork[r].to)
    BY <1>10 DEF PayInv, CarriesInv, Pay!Announce, Telling
  <2>2. payWork[r].to \in Pay!Outcomes
    BY <2>1 DEF Became, Pay!Outcomes
  <2>3. events' \in Seq(Pay!Outcomes \cup {"created"})
    BY <1>c, <1>10, <2>2 DEF Pay!Announce
  <2> QED
    BY <1>10, <2>3 DEF Pay!Announce
<1>11. ASSUME NEW r \in Requests, Pay!Answer(r) PROVE PayType'
  <2>1. notices' \subseteq Pay!Outcomes /\ UNCHANGED <<attempt, attemptVersion, events>>
    BY <1>11 DEF Pay!Answer
  <2> QED
    BY <1>2, <1>11, <2>1 DEF Pay!Answer
<1>12. ASSUME NEW r \in Requests, NEW v \in 1 .. attemptVersion, Pay!StartRefund(r, v)
       PROVE  PayType'
  <2>1. [notice |-> "none", seen |-> "none", to |-> "refunded", version |-> v] \in PayWork
    BY <1>b DEF PayWork, Pay!Outcomes
  <2> QED
    BY <1>12, <2>1 DEF Pay!StartRefund
<1>13. ASSUME NEW r \in Requests, Pay!GiveBack(r) PROVE PayType'
  BY <1>13 DEF Pay!GiveBack, Pay!Outcomes
<1>14. ASSUME NEW r \in Requests, Pay!RecordRefund(r) PROVE PayType'
  <2>1. CASE Pay!Settles("refunded", payWork[r].version)
    BY <1>3, <1>14, <2>1 DEF Pay!RecordRefund, Pay!Settles
  <2>2. CASE ~Pay!Settles("refunded", payWork[r].version)
    <3>1. Pay!Finish(r) /\ UNCHANGED <<attempt, attemptVersion, notices, events>>
      BY <1>14, <2>2 DEF Pay!RecordRefund
    <3> QED
      BY <1>2, <3>1
  <2> QED
    BY <2>1, <2>2
<1>15. ASSUME NEW to \in Pay!Outcomes, Pay!SetAttemptStatus(to) PROVE PayType'
  BY <1>3, <1>15 DEF Pay!SetAttemptStatus, Pay!Settles
<1>16. ASSUME NEW r \in Requests, Pay!Crash(r) PROVE PayType'
  <2>1. Pay!Finish(r) /\ UNCHANGED <<attempt, attemptVersion, notices, events>>
    BY <1>16 DEF Pay!Crash
  <2> QED
    BY <1>2, <2>1
<1> QED
  BY <1>4, <1>5, <1>6, <1>7, <1>8, <1>9, <1>10, <1>11, <1>12, <1>13, <1>14, <1>15, <1>16
  DEF Pay!Next

LEMMA PayStep == ASSUME PayInv, Pay!Next PROVE PayInv'
<1> PayType' /\ PayType
  BY PayTypeStep DEF PayInv
<1>1. attempt' = attempt => \A e \in Pay!Outcomes : Became(e) => Became(e)'
  BY DEF Became
<1>2. ASSUME NEW to, Pay!CanTransition(attempt, to), attempt' = to
      PROVE  \A e \in Pay!Outcomes : Became(e) => Became(e)'
  BY <1>2 DEF Became, Pay!CanTransition
<1> DEFINE Quiet(r) ==
      /\ events' = events
      /\ \A q \in Requests \ {r} : payPc'[q] = payPc[q] /\ payWork'[q] = payWork[q]
      /\ payPc'[r] # "announce"
      /\ payPc'[r] = "settle" => payWork'[r].to # "none"
      /\ payPc'[r] \in {"give back", "record"} => payWork'[r].to = "refunded"
<1>3. ASSUME NEW r \in Requests, Quiet(r),
             \/ attempt' = attempt
             \/ \E to : Pay!CanTransition(attempt, to) /\ attempt' = to
      PROVE  PayInv'
  <2>1. \A e \in Pay!Outcomes : Became(e) => Became(e)'
    BY <1>1, <1>2, <1>3
  <2>2. events' = events
    BY <1>3
  <2>3. \A q \in Requests :
           \/ payPc'[q] = payPc[q] /\ payWork'[q] = payWork[q]
           \/ /\ payPc'[q] # "announce"
              /\ payPc'[q] = "settle" => payWork'[q].to # "none"
              /\ payPc'[q] \in {"give back", "record"} => payWork'[q].to = "refunded"
    BY <1>3
  <2> HIDE DEF Quiet
  <2> QED
    BY <2>1, <2>2, <2>3, QuietStep
<1>4. ASSUME events' = events, payPc' = payPc, payWork' = payWork,
             \/ attempt' = attempt
             \/ \E to : Pay!CanTransition(attempt, to) /\ attempt' = to
      PROVE  PayInv'
  <2>1. \A e \in Pay!Outcomes : Became(e) => Became(e)'
    BY <1>1, <1>2, <1>4
  <2> QED
    BY <1>4, <2>1, QuietStep
<1>5. ASSUME NEW r \in Requests, NEW l \in PayLabels \ {"announce", "settle", "give back"},
             Pay!Goto(r, l), payWork' = payWork, events' = events,
             l = "record" => payWork[r].to = "refunded"
      PROVE  Quiet(r)
  BY <1>5 DEF Pay!Goto, PayType
<1>6. ASSUME NEW r \in Requests, Pay!Finish(r), events' = events PROVE Quiet(r)
  BY <1>6 DEF Pay!Goto, Pay!Finish, PayType
<1> HIDE DEF Quiet
<1> USE DEF PayLabels
<1>7. ASSUME NEW r \in Requests, Pay!CreateIntent(r) PROVE PayInv'
  <2>1. Quiet(r)
    BY <1>5, <1>7 DEF Pay!CreateIntent
  <2>2. \A e \in Pay!Outcomes : ~Became(e)
    BY <1>7 DEF Became, Pay!CreateIntent
  <2>3. \A e \in Pay!Outcomes : Became(e) => Became(e)'
    BY <2>2
  <2>4. events' = events
    BY <1>7 DEF Pay!CreateIntent
  <2>5. \A q \in Requests :
           \/ payPc'[q] = payPc[q] /\ payWork'[q] = payWork[q]
           \/ /\ payPc'[q] # "announce"
              /\ payPc'[q] = "settle" => payWork'[q].to # "none"
              /\ payPc'[q] \in {"give back", "record"} => payWork'[q].to = "refunded"
    BY <2>1 DEF Quiet
  <2> QED
    BY <2>3, <2>4, <2>5, QuietStep
<1>8. ASSUME NEW r \in Requests, Pay!SettleManual(r) PROVE PayInv'
  <2>1. CASE Pay!Settles("succeeded", 1)
    <3>1. Quiet(r)
      BY <1>5, <1>8, <2>1 DEF Pay!SettleManual
    <3> QED
      BY <1>3, <1>8, <2>1, <3>1 DEF Pay!SettleManual, Pay!Settles, Pay!SetStatus
  <2>2. CASE ~Pay!Settles("succeeded", 1)
    <3>1. Quiet(r)
      BY <1>5, <1>8, <2>2 DEF Pay!SettleManual
    <3> QED
      BY <1>3, <1>8, <2>2, <3>1 DEF Pay!SettleManual
  <2> QED
    BY <2>1, <2>2
<1>9. ASSUME NEW r \in Requests, Pay!AnnounceCreated(r) PROVE PayInv'
  BY <1>9, AnnounceCreatedInv
<1>10. ASSUME NEW outcome \in {"succeeded", "failed"}, Pay!Decide(outcome) PROVE PayInv'
  BY <1>4, <1>10 DEF Pay!Decide
<1>11. ASSUME NEW r \in Requests, NEW n \in Pay!Outcomes, Pay!Deliver(r, n) PROVE PayInv'
  <2>1. Quiet(r)
    BY <1>11 DEF Pay!Deliver, Pay!Goto, Pay!Outcomes, PayType, Quiet
  <2> QED
    BY <1>3, <1>11, <2>1 DEF Pay!Deliver
<1>12. ASSUME NEW r \in Requests, Pay!SettleTerminal(r) PROVE PayInv'
  <2>1. CASE payWork[r].seen # "pending"
    <3>1. Quiet(r)
      BY <1>5, <1>12, <2>1 DEF Pay!SettleTerminal
    <3> QED
      BY <1>3, <1>12, <2>1, <3>1 DEF Pay!SettleTerminal
  <2>2. CASE /\ payWork[r].seen = "pending"
             /\ Pay!Settles(payWork[r].to, payWork[r].version)
    <3>1. payWork[r].to \in Pay!Outcomes
      BY <2>2 DEF Pay!Settles, Pay!CanTransition, Pay!Outcomes
    <3> QED
      BY <1>12, <2>2, <3>1, SettlingStep
      DEF Pay!SettleTerminal, Pay!Settles, Pay!SetStatus, Pay!Goto
  <2>3. CASE /\ payWork[r].seen = "pending"
             /\ ~Pay!Settles(payWork[r].to, payWork[r].version)
    <3>1. Quiet(r) /\ attempt' = attempt
      BY <1>6, <1>12, <2>3 DEF Pay!SettleTerminal
    <3> QED
      BY <1>3, <3>1
  <2> QED
    BY <2>1, <2>2, <2>3
<1>13. ASSUME NEW r \in Requests, Pay!Announce(r) PROVE PayInv'
  BY <1>13, AnnounceInv
<1>14. ASSUME NEW r \in Requests, Pay!Answer(r) PROVE PayInv'
  <2>1. Quiet(r) /\ attempt' = attempt
    BY <1>6, <1>14 DEF Pay!Answer
  <2> QED
    BY <1>3, <2>1
<1>15. ASSUME NEW r \in Requests, NEW v \in 1 .. attemptVersion, Pay!StartRefund(r, v)
       PROVE  PayInv'
  <2>1. Quiet(r)
    <3>1. payWork'[r].to = "refunded"
      BY <1>15 DEF Pay!StartRefund, PayType, Pay!Idle
    <3> QED
      BY <1>15, <3>1 DEF Pay!StartRefund, Pay!Goto, PayType, Quiet
  <2> QED
    BY <1>3, <1>15, <2>1 DEF Pay!StartRefund
<1>16. ASSUME NEW r \in Requests, Pay!GiveBack(r) PROVE PayInv'
  <2>1. payWork[r].to = "refunded"
    BY <1>16 DEF Pay!GiveBack, PayInv, CarriesInv
  <2>2. Quiet(r) /\ attempt' = attempt
    BY <1>5, <1>16, <2>1 DEF Pay!GiveBack
  <2> QED
    BY <1>3, <2>2
<1>17. ASSUME NEW r \in Requests, Pay!RecordRefund(r) PROVE PayInv'
  <2>1. CASE Pay!Settles("refunded", payWork[r].version)
    <3>1. payWork[r].to = "refunded"
      BY <1>17 DEF Pay!RecordRefund, PayInv, CarriesInv
    <3>2. "refunded" \in Pay!Outcomes
      BY DEF Pay!Outcomes
    <3> QED
      BY <1>17, <2>1, <3>1, <3>2, SettlingStep
      DEF Pay!RecordRefund, Pay!Settles, Pay!SetStatus, Pay!Goto
  <2>2. CASE ~Pay!Settles("refunded", payWork[r].version)
    <3>1. Quiet(r) /\ attempt' = attempt
      BY <1>6, <1>17, <2>2 DEF Pay!RecordRefund
    <3> QED
      BY <1>3, <3>1
  <2> QED
    BY <2>1, <2>2
<1>18. ASSUME NEW to \in Pay!Outcomes, Pay!SetAttemptStatus(to) PROVE PayInv'
  BY <1>4, <1>18 DEF Pay!SetAttemptStatus, Pay!Settles, Pay!SetStatus
<1>19. ASSUME NEW r \in Requests, Pay!Crash(r) PROVE PayInv'
  <2>1. Quiet(r) /\ attempt' = attempt
    BY <1>6, <1>19 DEF Pay!Crash
  <2> QED
    BY <1>3, <2>1
<1> QED
  BY <1>7, <1>8, <1>9, <1>10, <1>11, <1>12, <1>13, <1>14, <1>15, <1>16, <1>17, <1>18, <1>19
  DEF Pay!Next

LEMMA PaySteps == ASSUME PayInv, [MCNext]_allVars PROVE PayInv'
<1>1. CASE UNCHANGED payVars
  <2>1. PayType'
    BY <1>1 DEF PayInv, PayType, payVars
  <2>2. /\ events' = events /\ payPc' = payPc /\ payWork' = payWork
        /\ \A e \in Pay!Outcomes : Became(e) => Became(e)'
    BY <1>1 DEF payVars, Became
  <2> QED
    BY <2>1, <2>2, QuietStep
<1>2. CASE MCNext /\ ~UNCHANGED payVars
  <2>1. Pay!Next
    BY <1>2
    DEF MCNext, InRows, InSeats, InTill, InPayment, InLoan, InAsset, InSupply, InBank, InReport,
        Pay!Next
  <2> QED
    BY <2>1, PayStep
<1> QED
  BY <1>1, <1>2 DEF allVars

LEMMA AtMostOne ==
  ASSUME NEW S, \A i, j \in S : i = j
  PROVE  IsFiniteSet(S) /\ Cardinality(S) <= 1
<1>1. CASE S = {}
  BY <1>1, FS_EmptySet
<1>2. CASE S # {}
  <2>1. PICK i : S = {i}
    BY <1>2
  <2>2. IsFiniteSet({i}) /\ Cardinality({i}) = 1
    BY FS_Singleton
  <2> QED
    BY <2>1, <2>2
<1> QED
  BY <1>1, <1>2

\* However webhooks are repeated, reordered and raced by refunds and by hand, and
\* however many requests there are, an attempt is announced as settled once at most
\* and as refunded once at most, and what was announced is what became of it
\* (payments/handler.go:247-342, payments/store.go:88-110).
THEOREM AnnouncesOnce == MCSpec => []AnnouncedOnce
<1>1. ASSUME PayInv PROVE AnnouncedOnce
  <2> DEFINE T(S) == {i \in DOMAIN events : events[i] \in S}
  <2>1. ASSUME NEW S, "created" \notin S, \A e, f \in S : SaysSame(e, f)
        PROVE  IsFiniteSet(T(S)) /\ Cardinality(T(S)) <= 1
    <3>1. \A i, j \in T(S) : i = j
      BY <1>1, <2>1 DEF PayInv, ToldInv, Told
    <3> HIDE DEF T
    <3> QED
      BY <3>1, AtMostOne
  <2>2. ASSUME NEW e, e # "created", IsFiniteSet(T({e})), Cardinality(T({e})) > 0
        PROVE  Became(e)
    <3>1. T({e}) # {}
      <4> HIDE DEF T
      <4> QED
        BY <2>2, FS_EmptySet
    <3> QED
      BY <1>1, <2>2, <3>1 DEF PayInv, ToldInv, Told
  <2>3. \A S : Pay!Times(S) = Cardinality(T(S))
    BY DEF Pay!Times, Pay!Cardinality, Cardinality, Pay!IsFiniteSet, IsFiniteSet
  <2> HIDE DEF T
  <2>4. /\ Cardinality(T({"succeeded", "failed"})) <= 1
        /\ Cardinality(T({"refunded"})) <= 1
    BY <2>1 DEF SaysSame
  <2>5. \A e \in {"succeeded", "failed", "refunded"} : Cardinality(T({e})) > 0 => Became(e)
    BY <2>1, <2>2 DEF SaysSame
  <2> QED
    BY <2>3, <2>4, <2>5 DEF AnnouncedOnce, Pay!AnnouncedOnce, Became
<1>2. MCInit => PayInv
  BY PayInit DEF MCInit
<1>3. PayInv /\ [MCNext]_allVars => PayInv'
  BY PaySteps
<1> QED
  BY <1>1, <1>2, <1>3, PTL DEF MCSpec
-----------------------------------------------------------------------------
(* The till: the queue says what has been rung, and races are bounded. *)

TillLabels == {"idle", "ring", "replay", "replay ring", "credit", "restock", "mark"}
Replaying == {"replay", "replay ring"}
Returning == {"credit", "restock", "mark"}
SaleStates == {"completed", "voided", "returned"}
SaleRow == [origin : Keys \cup {0}, status : SaleStates, credited : Nat, restocked : Nat]
TillWork == [todo : SUBSET Keys, sale : Nat, qty : Nat, full : BOOLEAN]

Holds(r) ==
  /\ tillPc[r] \in Replaying <=> tillWork[r].todo # {}
  /\ tillPc[r] \in Returning =>
       tillWork[r].sale \in 1 .. Len(sales) /\ tillWork[r].qty <= saleQty

TillType ==
  /\ saleQty \in Nat \ {0} /\ zSales \in Nat
  /\ session \in {"open", "closed"}
  /\ queue \in [Keys -> {"none", "queued", "sent", "failed"}]
  /\ sales \in Seq(SaleRow)
  /\ tillPc \in [Requests -> TillLabels]
  /\ tillWork \in [Requests -> TillWork]
  /\ \A r \in Requests : Holds(r)

\* The requests that are about to ring the sale of a row, that credit a sale or
\* that book its goods in, and those that have found the session open.
Holders(k) == {r \in Requests : k \in tillWork[r].todo}
At(p, w, label, i) == {r \in Requests : p[r] = label /\ w[r].sale = i}
Crediting(i) == At(tillPc, tillWork, "credit", i)
Units(w) == [r \in Requests |-> w[r].qty]
Restocking(i) == SumOf(Units(tillWork), At(tillPc, tillWork, "restock", i))
Rings == {r \in Requests : tillPc[r] \in {"ring", "replay ring"}}

\* A sale is rung by those who held its row, and they held it while it was not rung.
QueueInv == \A k \in Keys :
  /\ queue[k] \in {"none", "queued"} => Shop!SalesOf(k) = {}
  /\ queue[k] = "sent" => Shop!SalesOf(k) # {}
  /\ Cardinality(Shop!SalesOf(k)) + Cardinality(Holders(k)) <= Cardinality(Requests)

CreditInv == \A i \in 1 .. Len(sales) :
  Raced(sales[i].credited, Crediting(i), Units(tillWork), saleQty, saleQty)

RestockInv == \A i \in 1 .. Len(sales) :
  sales[i].restocked + Restocking(i) <= sales[i].credited

RingingInv ==
  session = "closed" => Len(sales) + Cardinality(Rings) <= zSales + Cardinality(Requests)

TillInv == TillType /\ QueueInv /\ CreditInv /\ RestockInv /\ RingingInv

\* What a step does to the rows of the sales.
LEMMA SaleMarked ==
  ASSUME NEW s \in Seq(SaleRow), NEW i \in 1 .. Len(s), NEW v \in SaleStates,
         NEW t, t = [s EXCEPT ![i].status = v]
  PROVE  /\ t \in Seq(SaleRow) /\ Len(t) = Len(s)
         /\ \A j \in 1 .. Len(s) : /\ t[j].origin = s[j].origin
                                   /\ t[j].credited = s[j].credited
                                   /\ t[j].restocked = s[j].restocked
<1>1. \A j \in 1 .. Len(s) : s[j] \in SaleRow
  OBVIOUS
<1>2. [s[i] EXCEPT !.status = v] \in SaleRow
  BY <1>1 DEF SaleRow
<1>3. t = [s EXCEPT ![i] = [s[i] EXCEPT !.status = v]]
  OBVIOUS
<1> QED
  BY <1>1, <1>2, <1>3 DEF SaleRow

LEMMA SaleCredited ==
  ASSUME NEW s \in Seq(SaleRow), NEW i \in 1 .. Len(s), NEW n \in Nat,
         NEW t, t = [s EXCEPT ![i].credited = @ + n]
  PROVE  /\ t \in Seq(SaleRow) /\ Len(t) = Len(s)
         /\ \A j \in 1 .. Len(s) : /\ t[j].origin = s[j].origin
                                   /\ t[j].restocked = s[j].restocked
                                   /\ j # i => t[j].credited = s[j].credited
         /\ t[i].credited = s[i].credited + n
<1>1. \A j \in 1 .. Len(s) : s[j] \in SaleRow
  OBVIOUS
<1> DEFINE c == s[i].credited + n
<1>2. c \in Nat
  BY <1>1 DEF SaleRow
<1> DEFINE x == [s[i] EXCEPT !.credited = c]
<1>3. t = [s EXCEPT ![i] = x]
  OBVIOUS
<1> HIDE DEF c
<1>4. x \in SaleRow /\ x.origin = s[i].origin /\ x.credited = c /\ x.restocked = s[i].restocked
  BY <1>1, <1>2 DEF SaleRow
<1> HIDE DEF x
<1>5. t \in Seq(SaleRow) /\ Len(t) = Len(s) /\ t[i] = x
      /\ \A j \in 1 .. Len(s) : j # i => t[j] = s[j]
  BY <1>3, <1>4
<1>6. \A j \in 1 .. Len(s) : t[j].origin = s[j].origin /\ t[j].restocked = s[j].restocked
  BY <1>4, <1>5
<1>7. t[i].credited = c
  BY <1>4, <1>5
<1> QED
  BY <1>5, <1>6, <1>7 DEF c

LEMMA SaleRestocked ==
  ASSUME NEW s \in Seq(SaleRow), NEW i \in 1 .. Len(s), NEW n \in Nat,
         NEW t, t = [s EXCEPT ![i].restocked = @ + n]
  PROVE  /\ t \in Seq(SaleRow) /\ Len(t) = Len(s)
         /\ \A j \in 1 .. Len(s) : /\ t[j].origin = s[j].origin
                                   /\ t[j].credited = s[j].credited
                                   /\ j # i => t[j].restocked = s[j].restocked
         /\ t[i].restocked = s[i].restocked + n
<1>1. \A j \in 1 .. Len(s) : s[j] \in SaleRow
  OBVIOUS
<1> DEFINE c == s[i].restocked + n
<1>2. c \in Nat
  BY <1>1 DEF SaleRow
<1> DEFINE x == [s[i] EXCEPT !.restocked = c]
<1>3. t = [s EXCEPT ![i] = x]
  OBVIOUS
<1> HIDE DEF c
<1>4. x \in SaleRow /\ x.origin = s[i].origin /\ x.restocked = c /\ x.credited = s[i].credited
  BY <1>1, <1>2 DEF SaleRow
<1> HIDE DEF x
<1>5. t \in Seq(SaleRow) /\ Len(t) = Len(s) /\ t[i] = x
      /\ \A j \in 1 .. Len(s) : j # i => t[j] = s[j]
  BY <1>3, <1>4
<1>6. \A j \in 1 .. Len(s) : t[j].origin = s[j].origin /\ t[j].credited = s[j].credited
  BY <1>4, <1>5
<1>7. t[i].restocked = c
  BY <1>4, <1>5
<1> QED
  BY <1>5, <1>6, <1>7 DEF c

LEMMA SaleAdded ==
  ASSUME NEW s \in Seq(SaleRow), NEW k \in Keys \cup {0},
         NEW t, t = Append(s, [origin |-> k, status |-> "completed", credited |-> 0,
                               restocked |-> 0])
  PROVE  /\ t \in Seq(SaleRow) /\ Len(t) = Len(s) + 1
         /\ \A j \in 1 .. Len(s) : t[j] = s[j]
         /\ t[Len(s) + 1].origin = k
         /\ t[Len(s) + 1].credited = 0 /\ t[Len(s) + 1].restocked = 0
<1> DEFINE x == [origin |-> k, status |-> "completed", credited |-> 0, restocked |-> 0]
<1>1. /\ x \in SaleRow /\ x.origin = k /\ x.credited = 0 /\ x.restocked = 0
  BY DEF SaleRow, SaleStates
<1> HIDE DEF x
<1>2. t = Append(s, x)
  BY DEF x
<1> QED
  BY <1>1, <1>2

LEMMA RowIsHeld ==
  ASSUME TillType, NEW r \in Requests, tillPc[r] \in Replaying
  PROVE  Shop!Row(r) \in tillWork[r].todo /\ Shop!Row(r) \in Keys
<1>1. tillWork[r].todo # {} /\ tillWork[r].todo \subseteq Keys /\ Keys \subseteq Nat
  BY ShopAssumption DEF TillType, TillWork, Holds, Shop!ConstantsOK
<1>2. \E k \in tillWork[r].todo : \A l \in tillWork[r].todo : k <= l
  BY <1>1, LeastNat
<1>3. Shop!Row(r) \in tillWork[r].todo
  BY <1>2 DEF Shop!Row
<1> QED
  BY <1>1, <1>3

LEMMA NoTillWork == Shop!NoWork \in TillWork /\ Shop!NoWork.todo = {}
BY DEF TillWork, Shop!NoWork

LEMMA OneMoves ==
  ASSUME TillType, NEW r \in Requests, NEW l \in TillLabels, NEW w \in TillWork,
         tillPc' = [tillPc EXCEPT ![r] = l], tillWork' = [tillWork EXCEPT ![r] = w],
         saleQty' = saleQty, sales' \in Seq(SaleRow), Len(sales') >= Len(sales),
         l \in Replaying <=> w.todo # {},
         l \in Returning => w.sale \in 1 .. Len(sales) /\ w.qty <= saleQty
  PROVE  /\ tillPc' \in [Requests -> TillLabels] /\ tillWork' \in [Requests -> TillWork]
         /\ \A q \in Requests : Holds(q)'
         /\ tillPc'[r] = l /\ tillWork'[r] = w
         /\ \A q \in Requests \ {r} : tillPc'[q] = tillPc[q] /\ tillWork'[q] = tillWork[q]
<1>1. /\ tillPc' \in [Requests -> TillLabels] /\ tillWork' \in [Requests -> TillWork]
      /\ tillPc'[r] = l /\ tillWork'[r] = w
      /\ \A q \in Requests \ {r} : tillPc'[q] = tillPc[q] /\ tillWork'[q] = tillWork[q]
  BY DEF TillType
<1>2. Len(sales) \in Nat /\ Len(sales') \in Nat
  BY DEF TillType
<1>3. ASSUME NEW q \in Requests PROVE Holds(q)'
  <2>1. CASE q = r
    BY <1>1, <1>2, <2>1 DEF Holds
  <2>2. CASE q # r
    <3>1. Holds(q)
      BY DEF TillType
    <3>2. tillPc[q] \in Returning => tillWork[q].sale \in 1 .. Len(sales')
      BY <1>2, <3>1 DEF Holds
    <3> QED
      BY <1>1, <2>2, <3>1, <3>2 DEF Holds
  <2> QED
    BY <2>1, <2>2
<1> QED
  BY <1>1, <1>3

\* A request goes on to another statement with what it knows, or ends.
LEMMA GoesOn ==
  ASSUME TillType, NEW r \in Requests, NEW l \in TillLabels, Shop!Goto(r, l),
         tillWork' = tillWork, saleQty' = saleQty,
         sales' \in Seq(SaleRow), Len(sales') >= Len(sales),
         l \in Replaying <=> tillPc[r] \in Replaying,
         l \in Returning => tillPc[r] \in Returning
  PROVE  /\ tillPc' \in [Requests -> TillLabels] /\ tillWork' \in [Requests -> TillWork]
         /\ \A q \in Requests : Holds(q)'
         /\ tillPc'[r] = l
         /\ \A q \in Requests \ {r} : tillPc'[q] = tillPc[q]
<1> DEFINE w == tillWork[r]
<1>1. w \in TillWork /\ Holds(r)
  BY DEF TillType
<1>2. tillWork' = [tillWork EXCEPT ![r] = w]
  BY DEF TillType
<1>3. /\ l \in Replaying <=> w.todo # {}
      /\ l \in Returning => w.sale \in 1 .. Len(sales) /\ w.qty <= saleQty
  BY <1>1 DEF Holds
<1>4. tillPc' = [tillPc EXCEPT ![r] = l]
  BY DEF Shop!Goto
<1> HIDE DEF w
<1> QED
  BY <1>1, <1>2, <1>3, <1>4, OneMoves

LEMMA Ends ==
  ASSUME TillType, NEW r \in Requests, Shop!Finish(r), saleQty' = saleQty,
         sales' \in Seq(SaleRow), Len(sales') >= Len(sales)
  PROVE  /\ tillPc' \in [Requests -> TillLabels] /\ tillWork' \in [Requests -> TillWork]
         /\ \A q \in Requests : Holds(q)'
         /\ tillPc'[r] = "idle" /\ tillWork'[r] = Shop!NoWork
         /\ \A q \in Requests \ {r} : tillPc'[q] = tillPc[q] /\ tillWork'[q] = tillWork[q]
<1>1. /\ tillPc' = [tillPc EXCEPT ![r] = "idle"]
      /\ tillWork' = [tillWork EXCEPT ![r] = Shop!NoWork]
  BY DEF Shop!Finish, Shop!Goto
<1>2. /\ "idle" \in TillLabels /\ "idle" \notin Replaying /\ "idle" \notin Returning
  BY DEF TillLabels, Replaying, Returning
<1> QED
  BY <1>1, <1>2, NoTillWork, OneMoves

\* A replay turns to its next row, or ends.
LEMMA NextRowMoves ==
  ASSUME TillType, NEW r \in Requests, tillPc[r] \in Replaying, Shop!NextRow(r),
         saleQty' = saleQty, sales' \in Seq(SaleRow), Len(sales') >= Len(sales)
  PROVE  /\ tillPc' \in [Requests -> TillLabels] /\ tillWork' \in [Requests -> TillWork]
         /\ \A q \in Requests : Holds(q)'
         /\ tillPc'[r] \in {"idle", "replay"}
         /\ tillWork'[r].todo = tillWork[r].todo \ {Shop!Row(r)}
         /\ \A q \in Requests \ {r} : tillPc'[q] = tillPc[q] /\ tillWork'[q] = tillWork[q]
<1>1. CASE tillWork[r].todo = {Shop!Row(r)}
  <2>1. Shop!Finish(r)
    BY <1>1 DEF Shop!NextRow
  <2> QED
    BY <1>1, <2>1, Ends, NoTillWork
<1>2. CASE tillWork[r].todo # {Shop!Row(r)}
  <2> DEFINE d == tillWork[r].todo \ {Shop!Row(r)}
             w == [tillWork[r] EXCEPT !.todo = d]
  <2>1. Shop!Row(r) \in tillWork[r].todo
    BY RowIsHeld
  <2>2. d # {} /\ tillWork[r] \in TillWork /\ d \in SUBSET Keys
    BY <1>2, <2>1 DEF TillType, TillWork
  <2>3. /\ tillPc' = [tillPc EXCEPT ![r] = "replay"]
        /\ tillWork' = [tillWork EXCEPT ![r].todo = d]
    BY <1>2 DEF Shop!NextRow, Shop!Goto
  <2> HIDE DEF d
  <2>4. tillWork' = [tillWork EXCEPT ![r] = w]
    BY <2>3
  <2>5. w \in TillWork /\ w.todo = d
    BY <2>2 DEF TillWork
  <2> HIDE DEF w
  <2>6. "replay" \in TillLabels /\ "replay" \in Replaying /\ "replay" \notin Returning
    BY DEF TillLabels, Replaying, Returning
  <2>7. /\ tillPc' \in [Requests -> TillLabels] /\ tillWork' \in [Requests -> TillWork]
        /\ \A q \in Requests : Holds(q)'
        /\ tillPc'[r] = "replay" /\ tillWork'[r] = w
        /\ \A q \in Requests \ {r} : tillPc'[q] = tillPc[q] /\ tillWork'[q] = tillWork[q]
    BY <2>2, <2>3, <2>4, <2>5, <2>6, OneMoves
  <2> QED
    BY <2>5, <2>7 DEF d
<1> QED
  BY <1>1, <1>2

LEMMA TillInit == Shop!Init => TillInv
<1> SUFFICES ASSUME Shop!Init PROVE TillInv
  OBVIOUS
<1> USE DEF Shop!Init
<1>1. TillType
  <2>1. saleQty \in Nat \ {0}
    BY ShopAssumption DEF Shop!ConstantsOK
  <2>2. \A r \in Requests : Holds(r)
    BY NoTillWork DEF Holds, Replaying, Returning
  <2> QED
    BY <2>1, <2>2, NoTillWork DEF TillType, TillLabels
<1>2. QueueInv
  <2> SUFFICES ASSUME NEW k \in Keys
               PROVE  /\ queue[k] = "none" /\ Shop!SalesOf(k) = {}
                      /\ Cardinality(Shop!SalesOf(k)) + Cardinality(Holders(k))
                           <= Cardinality(Requests)
    BY DEF QueueInv
  <2>1. Shop!SalesOf(k) = {} /\ Holders(k) = {}
    BY NoTillWork DEF Shop!SalesOf, Holders
  <2> QED
    BY <2>1, FS_EmptySet, RaceSize
<1>3. CreditInv /\ RestockInv
  BY DEF CreditInv, RestockInv
<1>4. RingingInv
  BY DEF RingingInv
<1> QED
  BY <1>1, <1>2, <1>3, <1>4 DEF TillInv

LEMMA ReturnMarked ==
  ASSUME TillType, NEW r \in Requests, tillPc[r] = "mark", Shop!MarkReturned(r)
  PROVE  /\ sales' \in Seq(SaleRow) /\ Len(sales') = Len(sales)
         /\ \A j \in 1 .. Len(sales) : /\ sales'[j].origin = sales[j].origin
                                       /\ sales'[j].credited = sales[j].credited
                                       /\ sales'[j].restocked = sales[j].restocked
<1> DEFINE i == tillWork[r].sale
           v == IF sales[i].status = "completed" THEN "returned" ELSE sales[i].status
<1>1. i \in 1 .. Len(sales) /\ sales \in Seq(SaleRow)
  BY DEF TillType, Holds, Returning
<1>2. sales[i].status \in SaleStates
  <2>1. sales[i] \in SaleRow
    BY <1>1
  <2> QED
    BY <2>1 DEF SaleRow
<1>3. v \in SaleStates
  BY <1>2 DEF SaleStates
<1>4. sales' = [sales EXCEPT ![i].status = v]
  BY DEF Shop!MarkReturned
<1> HIDE DEF i, v
<1> QED
  BY <1>1, <1>3, <1>4, SaleMarked

RequestsMove ==
  /\ tillPc' \in [Requests -> TillLabels] /\ tillWork' \in [Requests -> TillWork]
  /\ \A r \in Requests : Holds(r)'

LEMMA TillTypeStep == ASSUME TillType, Shop!Next PROVE TillType'
<1>0. sales \in Seq(SaleRow) /\ Len(sales) \in Nat /\ saleQty \in Nat
  BY DEF TillType
<1>1. ASSUME NEW r \in Requests, Shop!StartCheckout(r) PROVE TillType'
  <2>1. Shop!Goto(r, "ring") /\ "ring" \in TillLabels /\ tillPc[r] = "idle"
    BY <1>1 DEF Shop!StartCheckout, TillLabels
  <2>2. UNCHANGED <<saleQty, session, zSales, queue, sales, tillWork>>
    BY <1>1 DEF Shop!StartCheckout
  <2>6. /\ "ring" \in TillLabels /\ ("ring" \in Replaying <=> tillPc[r] \in Replaying)
        /\ ("ring" \in Returning => tillPc[r] \in Returning)
    BY <2>1 DEF TillLabels, Replaying, Returning
  <2>7. sales' \in Seq(SaleRow) /\ Len(sales') >= Len(sales)
    BY <1>0, <2>2
  <2>8. RequestsMove
    BY <2>1, <2>2, <2>6, <2>7, GoesOn DEF RequestsMove
  <2> QED
    BY <1>0, <2>1, <2>2, <2>8 DEF TillType, RequestsMove
<1>2. ASSUME NEW r \in Requests, Shop!CommitCheckout(r) PROVE TillType'
  <2>1. sales' \in Seq(SaleRow) /\ Len(sales') = Len(sales) + 1
    BY <1>0, <1>2, SaleAdded DEF Shop!CommitCheckout, Shop!Ring
  <2>2. UNCHANGED <<saleQty, session, zSales, queue>> /\ Shop!Finish(r)
    BY <1>2 DEF Shop!CommitCheckout
  <2>8. RequestsMove
    BY <1>0, <2>1, <2>2, Ends DEF RequestsMove
  <2> QED
    BY <1>0, <2>1, <2>2, <2>8 DEF TillType, RequestsMove
<1>3. ASSUME NEW r \in Requests, Shop!ReplayQueue(r) PROVE TillType'
  <2> DEFINE d == {k \in Keys : queue[k] = "queued"}
             w == [Shop!NoWork EXCEPT !.todo = d]
  <2>1. /\ d # {} /\ tillWork' = [tillWork EXCEPT ![r] = w]
        /\ tillPc' = [tillPc EXCEPT ![r] = "replay"]
    BY <1>3 DEF Shop!ReplayQueue, Shop!Goto
  <2>2. UNCHANGED <<saleQty, session, zSales, queue, sales>>
    BY <1>3 DEF Shop!ReplayQueue
  <2>3. w \in TillWork /\ w.todo = d
    BY NoTillWork DEF TillWork
  <2> HIDE DEF d, w
  <2>6. /\ "replay" \in TillLabels /\ ("replay" \in Replaying <=> w.todo # {})
        /\ ("replay" \in Returning => w.sale \in 1 .. Len(sales) /\ w.qty <= saleQty)
    BY <1>0, <2>1, <2>3 DEF TillLabels, Replaying, Returning
  <2>7. sales' \in Seq(SaleRow) /\ Len(sales') >= Len(sales)
    BY <1>0, <2>2
  <2>8. RequestsMove
    BY <2>1, <2>2, <2>3, <2>6, <2>7, OneMoves DEF RequestsMove
  <2> QED
    BY <1>0, <2>1, <2>2, <2>3, <2>8 DEF TillType, RequestsMove
<1>4. ASSUME NEW r \in Requests, Shop!ReplayRead(r) PROVE TillType'
  <2>1. UNCHANGED <<saleQty, session, zSales, sales>> /\ tillPc[r] = "replay"
    BY <1>4 DEF Shop!ReplayRead
  <2>2. CASE Shop!Goto(r, "replay ring") /\ UNCHANGED <<queue, tillWork>>
    <3>6. /\ "replay ring" \in TillLabels /\ ("replay ring" \in Replaying <=> tillPc[r] \in Replaying)
          /\ ("replay ring" \in Returning => tillPc[r] \in Returning)
      BY <2>1 DEF TillLabels, Replaying, Returning
    <3>7. sales' \in Seq(SaleRow) /\ Len(sales') >= Len(sales)
      BY <1>0, <2>1
    <3>1. RequestsMove
      BY <2>1, <2>2, <3>6, <3>7, GoesOn DEF RequestsMove
    <3> QED
      BY <1>0, <2>1, <2>2, <3>1 DEF TillType, RequestsMove
  <2>3. CASE queue' = [queue EXCEPT ![Shop!Row(r)] = "failed"] /\ Shop!NextRow(r)
    <3>6. tillPc[r] \in Replaying
      BY <2>1 DEF Replaying
    <3>7. sales' \in Seq(SaleRow) /\ Len(sales') >= Len(sales)
      BY <1>0, <2>1
    <3>1. RequestsMove
      BY <2>1, <2>3, <3>6, <3>7, NextRowMoves DEF RequestsMove
    <3> QED
      BY <1>0, <2>1, <2>3, <3>1 DEF TillType, RequestsMove
  <2> QED
    BY <1>4, <2>2, <2>3 DEF Shop!ReplayRead
<1>5. ASSUME NEW r \in Requests, Shop!ReplayCommit(r) PROVE TillType'
  <2>1. UNCHANGED <<saleQty, session, zSales>> /\ tillPc[r] \in Replaying
        /\ Shop!NextRow(r) /\ queue' = [queue EXCEPT ![Shop!Row(r)] = "sent"]
    BY <1>5 DEF Shop!ReplayCommit, Replaying
  <2>2. sales' \in Seq(SaleRow) /\ Len(sales') = Len(sales) + 1
    BY <1>0, <1>5, <2>1, SaleAdded, RowIsHeld DEF Shop!ReplayCommit, Shop!Ring
  <2>8. RequestsMove
    BY <1>0, <2>1, <2>2, NextRowMoves DEF RequestsMove
  <2> QED
    BY <1>0, <2>1, <2>2, <2>8 DEF TillType, RequestsMove
<1>6. ASSUME NEW r \in Requests, NEW i \in 1 .. Len(sales), NEW n \in 1 .. saleQty,
             Shop!StartReturn(r, i, n)
      PROVE  TillType'
  <2> DEFINE w == [todo |-> {}, sale |-> i, qty |-> n, full |-> n = Shop!Remaining(i)]
  <2>1. /\ tillWork' = [tillWork EXCEPT ![r] = w]
        /\ tillPc' = [tillPc EXCEPT ![r] = "credit"]
    BY <1>6 DEF Shop!StartReturn, Shop!Goto
  <2>2. UNCHANGED <<saleQty, session, zSales, queue, sales>>
    BY <1>6 DEF Shop!StartReturn
  <2>3. w \in TillWork /\ w.todo = {} /\ w.sale = i /\ w.qty = n
    BY DEF TillWork
  <2> HIDE DEF w
  <2>6. /\ "credit" \in TillLabels /\ ("credit" \in Replaying <=> w.todo # {})
        /\ ("credit" \in Returning => w.sale \in 1 .. Len(sales) /\ w.qty <= saleQty)
    BY <1>0, <2>3 DEF TillLabels, Replaying, Returning
  <2>7. sales' \in Seq(SaleRow) /\ Len(sales') >= Len(sales)
    BY <1>0, <2>2
  <2>8. RequestsMove
    BY <2>1, <2>2, <2>3, <2>6, <2>7, OneMoves DEF RequestsMove
  <2> QED
    BY <1>0, <2>1, <2>2, <2>3, <2>8 DEF TillType, RequestsMove
<1>7. ASSUME NEW r \in Requests, Shop!CreateCredit(r) PROVE TillType'
  <2>1. Shop!Goto(r, "restock") /\ tillPc[r] = "credit"
        /\ UNCHANGED <<saleQty, session, zSales, queue, tillWork>>
    BY <1>7 DEF Shop!CreateCredit
  <2>2. tillWork[r].sale \in 1 .. Len(sales) /\ tillWork[r].qty \in Nat
    BY <2>1 DEF Holds, Returning, TillWork, TillType
  <2>3. sales' \in Seq(SaleRow) /\ Len(sales') = Len(sales)
    BY <1>0, <1>7, <2>2, SaleCredited DEF Shop!CreateCredit
  <2>6. /\ "restock" \in TillLabels /\ ("restock" \in Replaying <=> tillPc[r] \in Replaying)
        /\ ("restock" \in Returning => tillPc[r] \in Returning)
    BY <2>1 DEF TillLabels, Replaying, Returning
  <2>7. sales' \in Seq(SaleRow) /\ Len(sales') >= Len(sales)
    BY <1>0, <2>3
  <2>8. RequestsMove
    BY <2>1, <2>6, <2>7, GoesOn DEF RequestsMove
  <2> QED
    BY <1>0, <2>1, <2>3, <2>8 DEF TillType, RequestsMove
<1>8. ASSUME NEW r \in Requests, Shop!Restock(r) PROVE TillType'
  <2>1. tillPc[r] = "restock" /\ UNCHANGED <<saleQty, session, zSales, queue>>
    BY <1>8 DEF Shop!Restock
  <2>2. tillWork[r].sale \in 1 .. Len(sales) /\ tillWork[r].qty \in Nat
    BY <2>1 DEF Holds, Returning, TillWork, TillType
  <2>3. sales' \in Seq(SaleRow) /\ Len(sales') = Len(sales)
    <3>1. sales' = [sales EXCEPT ![tillWork[r].sale].restocked = @ + tillWork[r].qty]
      BY <1>8 DEF Shop!Restock
    <3> QED
      BY <1>0, <2>2, <3>1, SaleRestocked
  <2>4. CASE Shop!Goto(r, "mark") /\ UNCHANGED tillWork
    <3>6. /\ "mark" \in TillLabels /\ ("mark" \in Replaying <=> tillPc[r] \in Replaying)
          /\ ("mark" \in Returning => tillPc[r] \in Returning)
      BY <2>1 DEF TillLabels, Replaying, Returning
    <3>7. sales' \in Seq(SaleRow) /\ Len(sales') >= Len(sales)
      BY <1>0, <2>3
    <3>1. RequestsMove
      BY <2>1, <2>4, <3>6, <3>7, GoesOn DEF RequestsMove
    <3> QED
      BY <1>0, <2>1, <2>3, <2>4, <3>1 DEF TillType, RequestsMove
  <2>5. CASE Shop!Finish(r)
    <3>1. RequestsMove
      BY <1>0, <2>1, <2>3, <2>5, Ends DEF RequestsMove
    <3> QED
      BY <1>0, <2>1, <2>3, <2>5, <3>1 DEF TillType, RequestsMove
  <2> QED
    BY <1>8, <2>4, <2>5 DEF Shop!Restock
<1>9. ASSUME NEW r \in Requests, Shop!MarkReturned(r) PROVE TillType'
  <2>1. tillPc[r] = "mark" /\ UNCHANGED <<saleQty, session, zSales, queue>> /\ Shop!Finish(r)
    BY <1>9 DEF Shop!MarkReturned
  <2>3. sales' \in Seq(SaleRow) /\ Len(sales') = Len(sales)
    BY <1>9, <2>1, ReturnMarked
  <2>8. RequestsMove
    BY <1>0, <2>1, <2>3, Ends DEF RequestsMove
  <2> QED
    BY <1>0, <2>1, <2>3, <2>8 DEF TillType, RequestsMove
<1>10. ASSUME NEW r \in Requests, Shop!Crash(r) PROVE TillType'
  <2>1. UNCHANGED <<saleQty, session, zSales, queue, sales>> /\ Shop!Finish(r)
    BY <1>10 DEF Shop!Crash
  <2>8. RequestsMove
    BY <1>0, <2>1, Ends DEF RequestsMove
  <2> QED
    BY <1>0, <2>1, <2>8 DEF TillType, RequestsMove
<1>11. ASSUME NEW k \in Keys, Shop!EnqueueOffline(k) PROVE TillType'
  <2>1. UNCHANGED <<saleQty, session, zSales, sales, tillPc, tillWork>>
    BY <1>11 DEF Shop!EnqueueOffline
  <2>2. queue' \in [Keys -> {"none", "queued", "sent", "failed"}]
    BY <1>11 DEF Shop!EnqueueOffline, Shop!Stored, TillType
  <2> QED
    BY <1>0, <2>1, <2>2 DEF Holds, TillType
<1>12. ASSUME NEW i \in 1 .. Len(sales), Shop!VoidSale(i) PROVE TillType'
  <2>1. UNCHANGED <<saleQty, session, zSales, queue, tillPc, tillWork>>
    BY <1>12 DEF Shop!VoidSale
  <2>2. sales' \in Seq(SaleRow) /\ Len(sales') = Len(sales)
    BY <1>0, <1>12, SaleMarked DEF Shop!VoidSale, SaleStates
  <2> QED
    BY <1>0, <2>1, <2>2 DEF Holds, TillType
<1>13. CASE Shop!ZReport
  <2>1. UNCHANGED <<saleQty, queue, sales, tillPc, tillWork>> /\ session' = "closed"
        /\ zSales' = Len(sales)
    BY <1>13 DEF Shop!ZReport
  <2> QED
    BY <1>0, <2>1 DEF Holds, TillType
<1> QED
  BY <1>1, <1>2, <1>3, <1>4, <1>5, <1>6, <1>7, <1>8, <1>9, <1>10, <1>11, <1>12, <1>13
  DEF Shop!Next

\* What a step leaves alone, and what it adds.
SameOrigins ==
  Len(sales') = Len(sales) /\ \A j \in 1 .. Len(sales) : sales'[j].origin = sales[j].origin
SameCredits ==
  Len(sales') = Len(sales) /\ \A j \in 1 .. Len(sales) : sales'[j].credited = sales[j].credited
SameGoods ==
  Len(sales') = Len(sales) /\ \A j \in 1 .. Len(sales) : sales'[j].restocked = sales[j].restocked
SaleRung(k) ==
  /\ Len(sales') = Len(sales) + 1
  /\ \A j \in 1 .. Len(sales) : sales'[j] = sales[j]
  /\ sales'[Len(sales) + 1].origin = k
  /\ sales'[Len(sales) + 1].credited = 0 /\ sales'[Len(sales) + 1].restocked = 0
OthersStay(r) ==
  \A q \in Requests \ {r} : tillPc'[q] = tillPc[q] /\ tillWork'[q] = tillWork[q]

LEMMA SalesOfSame == ASSUME SameOrigins PROVE \A k : Shop!SalesOf(k)' = Shop!SalesOf(k)
BY DEF SameOrigins, Shop!SalesOf

LEMMA SalesOfRung ==
  ASSUME TillType, NEW o, SaleRung(o)
  PROVE  /\ \A k : k # o => Shop!SalesOf(k)' = Shop!SalesOf(k)
         /\ Shop!SalesOf(o)' = Shop!SalesOf(o) \cup {Len(sales) + 1}
<1>1. Len(sales) \in Nat
  BY DEF TillType
<1>2. \A j : j \in 1 .. Len(sales') <=> j \in 1 .. Len(sales) \/ j = Len(sales) + 1
  BY <1>1 DEF SaleRung
<1> QED
  BY <1>1, <1>2 DEF SaleRung, Shop!SalesOf

LEMMA SalesOfFinite ==
  ASSUME TillType
  PROVE  \A k : /\ Shop!SalesOf(k) \in SUBSET (1 .. Len(sales))
                /\ IsFiniteSet(Shop!SalesOf(k)) /\ Cardinality(Shop!SalesOf(k)) \in Nat
<1> TAKE k
<1>1. IsFiniteSet(1 .. Len(sales))
  BY FS_Interval DEF TillType
<1>2. Shop!SalesOf(k) \in SUBSET (1 .. Len(sales))
  BY DEF Shop!SalesOf
<1> QED
  BY <1>1, <1>2, FS_Subset, FS_CardinalityType

\* A step that rings no sale of the queue, lets requests hold no more rows and
\* moves no row to "sent" or back.
LEMMA QueueQuiet ==
  ASSUME TillType, QueueInv,
         SameOrigins \/ SaleRung(0),
         \A q \in Requests : tillWork'[q].todo \subseteq tillWork[q].todo,
         \A k \in Keys : /\ queue'[k] \in {"none", "queued"} => queue[k] \in {"none", "queued"}
                         /\ queue'[k] = "sent" => queue[k] = "sent"
  PROVE  QueueInv'
<1> SUFFICES ASSUME NEW k \in Keys
             PROVE  /\ queue'[k] \in {"none", "queued"} => Shop!SalesOf(k)' = {}
                    /\ queue'[k] = "sent" => Shop!SalesOf(k)' # {}
                    /\ Cardinality(Shop!SalesOf(k))' + Cardinality(Holders(k))'
                         <= Cardinality(Requests)
  BY DEF QueueInv
<1>1. k # 0
  BY ShopAssumption DEF Shop!ConstantsOK
<1>2. Shop!SalesOf(k)' = Shop!SalesOf(k)
  BY <1>1, SalesOfSame, SalesOfRung
<1>3. Holders(k)' \in SUBSET Holders(k) /\ Holders(k) \in SUBSET Requests
  BY DEF Holders
<1>4. /\ Cardinality(Holders(k))' <= Cardinality(Holders(k))
      /\ Cardinality(Holders(k))' \in Nat /\ Cardinality(Holders(k)) \in Nat
  BY <1>3, RaceSize, FS_Subset
<1>5. /\ queue[k] \in {"none", "queued"} => Shop!SalesOf(k) = {}
      /\ queue[k] = "sent" => Shop!SalesOf(k) # {}
      /\ Cardinality(Shop!SalesOf(k)) + Cardinality(Holders(k)) <= Cardinality(Requests)
  BY DEF QueueInv
<1>6. Cardinality(Shop!SalesOf(k)) \in Nat /\ Cardinality(Requests) \in Nat
  BY SalesOfFinite, RaceSize
<1> QED
  BY <1>2, <1>4, <1>5, <1>6

\* A replay takes rows that are queued: they have rung nothing.
LEMMA RowsTaken ==
  ASSUME TillType, QueueInv, NEW r \in Requests, OthersStay(r), SameOrigins, queue' = queue,
         \A k \in tillWork'[r].todo : queue[k] = "queued"
  PROVE  QueueInv'
<1> SUFFICES ASSUME NEW k \in Keys
             PROVE  /\ queue'[k] \in {"none", "queued"} => Shop!SalesOf(k)' = {}
                    /\ queue'[k] = "sent" => Shop!SalesOf(k)' # {}
                    /\ Cardinality(Shop!SalesOf(k))' + Cardinality(Holders(k))'
                         <= Cardinality(Requests)
  BY DEF QueueInv
<1>1. Shop!SalesOf(k)' = Shop!SalesOf(k)
  BY SalesOfSame
<1>2. /\ queue[k] \in {"none", "queued"} => Shop!SalesOf(k) = {}
      /\ queue[k] = "sent" => Shop!SalesOf(k) # {}
      /\ Cardinality(Shop!SalesOf(k)) + Cardinality(Holders(k)) <= Cardinality(Requests)
  BY DEF QueueInv
<1>3. Holders(k)' \in SUBSET Requests /\ Holders(k) \in SUBSET Requests
  BY DEF Holders
<1>4. /\ Cardinality(Holders(k))' \in Nat /\ Cardinality(Holders(k)) \in Nat
      /\ Cardinality(Holders(k))' <= Cardinality(Requests) /\ Cardinality(Requests) \in Nat
  BY <1>3, RaceSize
<1>5. CASE k \in tillWork'[r].todo
  <2>1. Shop!SalesOf(k) = {}
    BY <1>2, <1>5
  <2>2. Cardinality(Shop!SalesOf(k)) = 0
    BY <2>1, FS_EmptySet
  <2> QED
    BY <1>1, <1>2, <1>4, <2>2
<1>6. CASE k \notin tillWork'[r].todo
  <2>1. Holders(k)' \in SUBSET Holders(k)
    BY <1>6 DEF Holders, OthersStay
  <2>2. Cardinality(Holders(k))' <= Cardinality(Holders(k))
    BY <1>3, <2>1, RaceSize, FS_Subset
  <2>3. Cardinality(Shop!SalesOf(k)) \in Nat
    BY SalesOfFinite
  <2> QED
    BY <1>1, <1>2, <1>4, <2>2, <2>3
<1> QED
  BY <1>5, <1>6

\* A replay rings the sale of a row and gives the row up.
LEMMA RowRung ==
  ASSUME TillType, QueueInv, NEW r \in Requests, OthersStay(r),
         NEW o \in Keys, o \in tillWork[r].todo, SaleRung(o),
         tillWork'[r].todo = tillWork[r].todo \ {o}, queue' = [queue EXCEPT ![o] = "sent"]
  PROVE  QueueInv'
<1> SUFFICES ASSUME NEW k \in Keys
             PROVE  /\ queue'[k] \in {"none", "queued"} => Shop!SalesOf(k)' = {}
                    /\ queue'[k] = "sent" => Shop!SalesOf(k)' # {}
                    /\ Cardinality(Shop!SalesOf(k))' + Cardinality(Holders(k))'
                         <= Cardinality(Requests)
  BY DEF QueueInv
<1>1. /\ queue[k] \in {"none", "queued"} => Shop!SalesOf(k) = {}
      /\ queue[k] = "sent" => Shop!SalesOf(k) # {}
      /\ Cardinality(Shop!SalesOf(k)) + Cardinality(Holders(k)) <= Cardinality(Requests)
  BY DEF QueueInv
<1>2. Holders(k) \in SUBSET Requests
  BY DEF Holders
<1>3. /\ Cardinality(Holders(k)) \in Nat /\ IsFiniteSet(Holders(k))
      /\ Cardinality(Shop!SalesOf(k)) \in Nat /\ IsFiniteSet(Shop!SalesOf(k))
      /\ Cardinality(Requests) \in Nat
  BY <1>2, RaceSize, SalesOfFinite
<1>4. CASE k # o
  <2>1. Shop!SalesOf(k)' = Shop!SalesOf(k)
    BY <1>4, SalesOfRung
  <2>2. Holders(k)' = Holders(k)
    BY <1>4 DEF Holders, OthersStay
  <2>3. queue'[k] = queue[k]
    BY <1>4 DEF TillType
  <2> QED
    BY <1>1, <2>1, <2>2, <2>3
<1>5. CASE k = o
  <2>1. queue'[k] = "sent"
    BY <1>5 DEF TillType
  <2>2. Shop!SalesOf(k)' = Shop!SalesOf(k) \cup {Len(sales) + 1}
    BY <1>5, SalesOfRung
  <2>3. Len(sales) + 1 \notin Shop!SalesOf(k)
    <3>1. Len(sales) \in Nat
      BY DEF TillType
    <3> QED
      BY <3>1 DEF Shop!SalesOf
  <2>4. Cardinality(Shop!SalesOf(k) \cup {Len(sales) + 1}) = Cardinality(Shop!SalesOf(k)) + 1
    BY <1>3, <2>3, FS_AddElement
  <2>5. r \in Holders(k) /\ Holders(k)' = Holders(k) \ {r}
    BY <1>5 DEF Holders, OthersStay
  <2>6. Cardinality(Holders(k) \ {r}) = Cardinality(Holders(k)) - 1
    BY <1>3, <2>5, FS_RemoveElement
  <2>7. Cardinality(Shop!SalesOf(k))' = Cardinality(Shop!SalesOf(k)) + 1
    BY <2>2, <2>4
  <2>8. Cardinality(Holders(k))' = Cardinality(Holders(k)) - 1
    BY <2>5, <2>6
  <2>9. Shop!SalesOf(k)' # {}
    BY <2>2
  <2> QED
    BY <1>1, <1>3, <2>1, <2>7, <2>8, <2>9
<1> QED
  BY <1>4, <1>5

LEMMA UnitsAre ==
  ASSUME TillType
  PROVE  /\ \A q \in Requests : Units(tillWork)[q] \in Nat /\ Units(tillWork)[q] = tillWork[q].qty
         /\ \A q \in Requests : tillPc[q] \in Returning => Units(tillWork)[q] <= saleQty
         /\ saleQty \in Nat /\ saleQty \in Int
<1>1. \A q \in Requests : tillWork[q] \in TillWork /\ Holds(q)
  BY DEF TillType
<1>2. \A q \in Requests : Units(tillWork)[q] = tillWork[q].qty /\ tillWork[q].qty \in Nat
  BY <1>1 DEF TillWork, Units
<1> QED
  BY <1>1, <1>2 DEF Holds, TillType

LEMMA SaleNumbers ==
  ASSUME TillType, NEW i \in 1 .. Len(sales)
  PROVE  sales[i].credited \in Nat /\ sales[i].restocked \in Nat
<1>1. sales[i] \in SaleRow
  BY DEF TillType
<1> QED
  BY <1>1 DEF SaleRow

\* Nobody checks a new sale: there is nothing to give back of it yet.
LEMMA NewSale ==
  ASSUME TillType
  PROVE  /\ \A label \in Returning : At(tillPc, tillWork, label, Len(sales) + 1) = {}
         /\ \A q : Requests # {} => Raced(0, {}, q, saleQty, saleQty)
<1>1. ASSUME NEW label \in Returning
      PROVE  At(tillPc, tillWork, label, Len(sales) + 1) = {}
  <2>1. \A r \in Requests : tillPc[r] \in Returning => tillWork[r].sale # Len(sales) + 1
    <3>1. Len(sales) \in Nat
      BY DEF TillType
    <3>2. \A r \in Requests : Holds(r)
      BY DEF TillType
    <3> QED
      BY <3>1, <3>2 DEF Holds
  <2> QED
    BY <2>1 DEF At
<1>2. ASSUME NEW q, Requests # {} PROVE Raced(0, {}, q, saleQty, saleQty)
  <2>1. Cardinality(Requests) \in Nat /\ Cardinality(Requests) >= 1 /\ saleQty \in Nat
    BY <1>2, RaceSize DEF TillType
  <2>2. Cardinality(Requests) - 1 \in Nat
    BY <2>1
  <2>3. (Cardinality(Requests) - 1) * saleQty \in Nat
    BY <2>1, <2>2, Factor
  <2> QED
    BY <2>1, <2>3 DEF Raced
<1> QED
  BY <1>1, <1>2

\* A step in which nobody checks a return or credits one.
LEMMA CreditQuiet ==
  ASSUME TillType, CreditInv, SameCredits \/ \E o : SaleRung(o), saleQty' = saleQty,
         TillType', Requests # {},
         \A q \in Requests : tillPc[q] = "credit" \/ tillPc'[q] = "credit" =>
           tillPc'[q] = tillPc[q] /\ tillWork'[q] = tillWork[q]
  PROVE  CreditInv'
<1> SUFFICES ASSUME NEW i \in 1 .. Len(sales')
             PROVE  Raced(sales'[i].credited, At(tillPc', tillWork', "credit", i), Units(tillWork'),
                          saleQty, saleQty)
  BY DEF CreditInv, Crediting
<1>1. At(tillPc', tillWork', "credit", i) = At(tillPc, tillWork, "credit", i)
  BY DEF At
<1>2. CASE i \in 1 .. Len(sales)
  <2>1. sales'[i].credited = sales[i].credited
    BY <1>2 DEF SameCredits, SaleRung
  <2>2. Raced(sales[i].credited, Crediting(i), Units(tillWork), saleQty, saleQty)
    BY <1>2 DEF CreditInv
  <2>3. Crediting(i) \in SUBSET Requests
    BY DEF Crediting, At
  <2>4. \A x \in Crediting(i) : Units(tillWork)[x] \in Nat
                                /\ Units(tillWork')[x] = Units(tillWork)[x]
    <3>1. \A x \in Crediting(i) : x \in Requests /\ tillWork'[x] = tillWork[x]
      BY DEF Crediting, At
    <3> QED
      BY <3>1, UnitsAre DEF Units
  <2>5. sales[i].credited \in Int
    BY <1>2, SaleNumbers
  <2>6. sales[i].credited <= sales[i].credited
    BY <2>5
  <2>7. Raced(sales[i].credited, Crediting(i), Units(tillWork'), saleQty, saleQty)
    BY <2>2, <2>3, <2>4, <2>5, <2>6, UnitsAre, RaceGoesOn
  <2> QED
    BY <1>1, <2>1, <2>7 DEF Crediting
<1>3. CASE i \notin 1 .. Len(sales)
  <2>1. i = Len(sales) + 1 /\ sales'[i].credited = 0
    <3>1. Len(sales) \in Nat
      BY DEF TillType
    <3> QED
      BY <1>3, <3>1 DEF SameCredits, SaleRung
  <2>2. At(tillPc, tillWork, "credit", i) = {}
    BY <2>1, NewSale DEF Returning
  <2> QED
    BY <1>1, <2>1, <2>2, NewSale
<1> QED
  BY <1>2, <1>3

\* A request has seen that there is so much left to return.
LEMMA ReturnChecked ==
  ASSUME TillType, CreditInv, NEW r \in Requests, OthersStay(r), SameCredits, saleQty' = saleQty,
         NEW i \in 1 .. Len(sales), tillPc[r] # "credit", tillPc'[r] = "credit",
         tillWork'[r].sale = i, tillWork'[r].qty \in Nat,
         sales[i].credited + tillWork'[r].qty <= saleQty
  PROVE  CreditInv'
<1> SUFFICES ASSUME NEW j \in 1 .. Len(sales)
             PROVE  Raced(sales'[j].credited, At(tillPc', tillWork', "credit", j), Units(tillWork'),
                          saleQty, saleQty)
  BY DEF CreditInv, Crediting, SameCredits
<1>1. sales'[j].credited = sales[j].credited /\ sales[j].credited \in Int
  BY SaleNumbers DEF SameCredits
<1>2. At(tillPc, tillWork, "credit", j) \in SUBSET Requests
  BY DEF At
<1>3. CASE j = i
  <2>1. At(tillPc', tillWork', "credit", j) = At(tillPc, tillWork, "credit", j) \cup {r}
    BY <1>3 DEF At, OthersStay
  <2>2. Units(tillWork')[r] = tillWork'[r].qty
    BY DEF Units
  <2>3. Units(tillWork')[r] \in Int /\ sales[j].credited + Units(tillWork')[r] <= saleQty
    BY <1>3, <2>2
  <2>4. Raced(sales[j].credited, At(tillPc, tillWork, "credit", j) \cup {r}, Units(tillWork'),
              saleQty, saleQty)
    BY <1>1, <1>2, <2>3, UnitsAre, RaceJoined
  <2> QED
    BY <1>1, <2>1, <2>4
<1>4. CASE j # i
  <2>1. At(tillPc', tillWork', "credit", j) = At(tillPc, tillWork, "credit", j)
    BY <1>4 DEF At, OthersStay
  <2>2. \A x \in At(tillPc, tillWork, "credit", j) :
          Units(tillWork)[x] \in Nat /\ Units(tillWork')[x] = Units(tillWork)[x]
    <3>1. \A x \in At(tillPc, tillWork, "credit", j) : x \in Requests /\ tillWork'[x] = tillWork[x]
      BY DEF At, OthersStay
    <3> QED
      BY <3>1, UnitsAre DEF Units
  <2>3. Raced(sales[j].credited, At(tillPc, tillWork, "credit", j), Units(tillWork), saleQty, saleQty)
    BY DEF CreditInv, Crediting
  <2>4. sales[j].credited <= sales[j].credited
    BY <1>1
  <2> QED
    BY <1>1, <1>2, <2>1, <2>2, <2>3, <2>4, UnitsAre, RaceGoesOn
<1> QED
  BY <1>3, <1>4

\* A request credits what it has checked, or never will.
LEMMA ReturnLeft ==
  ASSUME TillType, CreditInv, NEW r \in Requests, OthersStay(r), tillPc[r] = "credit",
         tillPc'[r] # "credit", saleQty' = saleQty, Len(sales') = Len(sales),
         \A j \in 1 .. Len(sales) :
           /\ sales'[j].credited \in Int
           /\ j # tillWork[r].sale => sales'[j].credited = sales[j].credited
           /\ j = tillWork[r].sale =>
                sales'[j].credited <= sales[j].credited + tillWork[r].qty
  PROVE  CreditInv'
<1> SUFFICES ASSUME NEW j \in 1 .. Len(sales)
             PROVE  Raced(sales'[j].credited, At(tillPc', tillWork', "credit", j), Units(tillWork'),
                          saleQty, saleQty)
  BY DEF CreditInv, Crediting
<1>1. sales'[j].credited \in Int /\ sales[j].credited \in Int
  BY SaleNumbers
<1> DEFINE P == At(tillPc, tillWork, "credit", j)
<1>2. P \in SUBSET Requests
  BY DEF At
<1>3. \A x \in P : /\ Units(tillWork)[x] \in Nat /\ Units(tillWork)[x] <= saleQty
                   /\ x # r => Units(tillWork')[x] = Units(tillWork)[x]
  <2>1. \A x \in P : /\ x \in Requests /\ tillPc[x] \in Returning
                     /\ x # r => tillWork'[x] = tillWork[x]
    BY DEF At, OthersStay, Returning
  <2> QED
    BY <2>1, UnitsAre DEF Units
<1>4. Raced(sales[j].credited, P, Units(tillWork), saleQty, saleQty)
  BY DEF CreditInv, Crediting
<1>5. CASE j = tillWork[r].sale
  <2>1. At(tillPc', tillWork', "credit", j) = P \ {r} /\ r \in P
    BY <1>5 DEF At, OthersStay
  <2>2. sales'[j].credited <= sales[j].credited + Units(tillWork)[r]
    BY <1>5, UnitsAre
  <2>3. \A x \in P \ {r} : Units(tillWork')[x] = Units(tillWork)[x]
    BY <1>3
  <2>4. \A x \in P : Units(tillWork)[x] \in Nat /\ Units(tillWork)[x] <= saleQty
    BY <1>3
  <2> DEFINE u == Units(tillWork)
             v == Units(tillWork')
             c == sales[j].credited
             d == sales'[j].credited
  <2>5. /\ P \in SUBSET Requests /\ r \in P /\ c \in Int /\ d \in Int
        /\ saleQty \in Int /\ saleQty \in Nat
        /\ Raced(c, P, u, saleQty, saleQty) /\ d <= c + u[r]
    BY <1>1, <1>2, <1>4, <2>1, <2>2, UnitsAre
  <2>6. /\ \A x \in P : u[x] \in Nat /\ u[x] <= saleQty
        /\ \A x \in P \ {r} : v[x] = u[x]
    BY <2>3, <2>4
  <2> HIDE DEF P, u, v, c, d
  <2>7. Raced(d, P \ {r}, v, saleQty, saleQty)
    BY <2>5, <2>6, RaceLeft
  <2> QED
    BY <2>1, <2>7 DEF P, u, v, c, d
<1>6. CASE j # tillWork[r].sale
  <2>1. At(tillPc', tillWork', "credit", j) = P
    BY <1>6 DEF At, OthersStay
  <2>2. r \notin P
    BY <1>6 DEF At
  <2>3. \A x \in P : Units(tillWork)[x] \in Nat /\ Units(tillWork')[x] = Units(tillWork)[x]
    BY <1>3, <2>2
  <2>4. sales'[j].credited = sales[j].credited /\ sales'[j].credited <= sales[j].credited
    BY <1>1, <1>6
  <2> HIDE DEF P
  <2> QED
    BY <1>1, <1>2, <1>4, <2>1, <2>3, <2>4, UnitsAre, RaceGoesOn
<1> QED
  BY <1>5, <1>6

LEMMA Restocks ==
  ASSUME TillType, NEW i
  PROVE  /\ At(tillPc, tillWork, "restock", i) \in SUBSET Requests
         /\ IsFiniteSet(At(tillPc, tillWork, "restock", i))
         /\ \A x \in At(tillPc, tillWork, "restock", i) : Units(tillWork)[x] \in Nat
         /\ Restocking(i) \in Nat
<1>1. At(tillPc, tillWork, "restock", i) \in SUBSET Requests
  BY DEF At
<1>2. IsFiniteSet(At(tillPc, tillWork, "restock", i))
  BY <1>1, RaceSize
<1>3. \A x \in At(tillPc, tillWork, "restock", i) : Units(tillWork)[x] \in Nat
  BY <1>1, UnitsAre
<1> QED
  BY <1>1, <1>2, <1>3, SumGrows DEF Restocking

\* A step that gives no goods back and credits what it likes, after which the same
\* requests or fewer are about to book goods in.
LEMMA RestockQuiet ==
  ASSUME TillType, TillType', RestockInv,
         \/ /\ SameGoods
            /\ \A j \in 1 .. Len(sales) : sales'[j].credited >= sales[j].credited
         \/ \E o : SaleRung(o),
         \A q \in Requests : tillPc'[q] = "restock" =>
           tillPc[q] = "restock" /\ tillWork'[q] = tillWork[q]
  PROVE  RestockInv'
<1> SUFFICES ASSUME NEW i \in 1 .. Len(sales')
             PROVE  sales'[i].restocked + SumOf(Units(tillWork'), At(tillPc', tillWork', "restock", i))
                      <= sales'[i].credited
  BY DEF RestockInv, Restocking
<1> DEFINE P == At(tillPc, tillWork, "restock", i)
           Q == At(tillPc', tillWork', "restock", i)
           u == Units(tillWork)
           v == Units(tillWork')
<1>1. Q \in SUBSET P
  BY DEF At
<1>2. \A x \in Q : v[x] = u[x]
  BY DEF At, Units
<1>3. IsFiniteSet(P) /\ (\A x \in P : u[x] \in Nat) /\ Restocking(i) = SumOf(u, P)
  BY Restocks DEF Restocking
<1>4. SumOf(v, Q) <= SumOf(u, P) /\ SumOf(v, Q) \in Nat /\ SumOf(u, P) \in Nat
  <2> HIDE DEF P, Q, u, v
  <2>1. SumOf(u, Q) <= SumOf(u, P) /\ SumOf(u, Q) \in Nat /\ SumOf(u, P) \in Nat
    BY <1>1, <1>3, SumGrows
  <2>2. IsFiniteSet(Q) /\ \A x \in Q : u[x] \in Int
    BY <1>1, <1>3, FS_Subset
  <2>3. SumOf(v, Q) = SumOf(u, Q)
    BY <1>2, <2>2, SumSame
  <2> QED
    BY <2>1, <2>3
<1>5. CASE i \in 1 .. Len(sales)
  <2>1. sales[i].restocked + SumOf(u, P) <= sales[i].credited
    BY <1>3, <1>5 DEF RestockInv
  <2>2. sales'[i].restocked = sales[i].restocked /\ sales'[i].credited >= sales[i].credited
    BY <1>5, SaleNumbers DEF SameGoods, SaleRung
  <2>3. sales[i].restocked \in Nat /\ sales[i].credited \in Nat
    BY <1>5, SaleNumbers
  <2>4. sales'[i].credited \in Nat
    <3>1. sales'[i] \in SaleRow
      BY DEF TillType
    <3> QED
      BY <3>1 DEF SaleRow
  <2> HIDE DEF P, Q, u, v
  <2>5. sales'[i].restocked + SumOf(v, Q) <= sales'[i].credited
    BY <1>4, <2>1, <2>2, <2>3, <2>4
  <2> QED
    BY <2>5 DEF P, Q, u, v
<1>6. CASE i \notin 1 .. Len(sales)
  <2>1. i = Len(sales) + 1 /\ sales'[i].credited = 0 /\ sales'[i].restocked = 0
    <3>1. Len(sales) \in Nat
      BY DEF TillType
    <3> QED
      BY <1>6, <3>1 DEF SameGoods, SaleRung
  <2>2. P = {}
    BY <2>1, NewSale DEF Returning
  <2>3. SumOf(v, Q) = 0
    BY <1>1, <2>2, SumEmpty
  <2> QED
    BY <2>1, <2>3
<1> QED
  BY <1>5, <1>6

\* A request credits a sale, and is about to book its goods in.
LEMMA CreditBooked ==
  ASSUME TillType, RestockInv, NEW r \in Requests, OthersStay(r), SameGoods,
         tillPc[r] = "credit", tillPc'[r] = "restock", tillWork'[r] = tillWork[r],
         \A j \in 1 .. Len(sales) :
           sales'[j].credited = sales[j].credited
                                + (IF j = tillWork[r].sale THEN tillWork[r].qty ELSE 0)
  PROVE  RestockInv'
<1> SUFFICES ASSUME NEW i \in 1 .. Len(sales)
             PROVE  sales'[i].restocked + SumOf(Units(tillWork'), At(tillPc', tillWork', "restock", i))
                      <= sales'[i].credited
  BY DEF RestockInv, Restocking, SameGoods
<1> DEFINE P == At(tillPc, tillWork, "restock", i)
           Q == At(tillPc', tillWork', "restock", i)
           u == Units(tillWork)
           v == Units(tillWork')
<1>1. u = v
  BY DEF Units, OthersStay
<1>2. IsFiniteSet(P) /\ (\A x \in P : u[x] \in Nat) /\ Restocking(i) = SumOf(u, P)
      /\ Restocking(i) \in Nat
  BY Restocks DEF Restocking
<1>3. sales[i].restocked + Restocking(i) <= sales[i].credited
  BY DEF RestockInv
<1>4. sales'[i].restocked = sales[i].restocked
      /\ sales[i].restocked \in Nat /\ sales[i].credited \in Nat
  BY SaleNumbers DEF SameGoods
<1>5. u[r] = tillWork[r].qty /\ u[r] \in Nat
  BY UnitsAre
<1>6. CASE i = tillWork[r].sale
  <2>1. Q \in SUBSET (P \cup {r})
    BY DEF At, OthersStay
  <2>2. sales'[i].credited = sales[i].credited + u[r]
    BY <1>5, <1>6
  <2> HIDE DEF P, Q, u, v
  <2>3. \A x \in P \cup {r} : u[x] \in Nat
    BY <1>2, <1>5
  <2>4. SumOf(u, Q) <= SumOf(u, P) + u[r] /\ SumOf(u, Q) \in Nat /\ SumOf(u, P) \in Nat
    BY <1>2, <2>1, <2>3, SumAdds
  <2>5. sales'[i].restocked + SumOf(v, Q) <= sales'[i].credited
    BY <1>1, <1>2, <1>3, <1>4, <1>5, <2>2, <2>4
  <2> QED
    BY <2>5 DEF Q, v
<1>7. CASE i # tillWork[r].sale
  <2>1. Q = P
    BY <1>7 DEF At, OthersStay
  <2>2. sales'[i].credited = sales[i].credited
    BY <1>4, <1>7
  <2> HIDE DEF P, Q, u, v
  <2>3. sales'[i].restocked + SumOf(v, Q) <= sales'[i].credited
    BY <1>1, <1>2, <1>3, <1>4, <2>1, <2>2
  <2> QED
    BY <2>3 DEF Q, v
<1> QED
  BY <1>6, <1>7

\* A request books in the goods it has credited.
LEMMA GoodsBooked ==
  ASSUME TillType, RestockInv, NEW r \in Requests, OthersStay(r), SameCredits,
         tillPc[r] = "restock", tillPc'[r] # "restock",
         \A j \in 1 .. Len(sales) :
           sales'[j].restocked = sales[j].restocked
                                 + (IF j = tillWork[r].sale THEN tillWork[r].qty ELSE 0)
  PROVE  RestockInv'
<1> SUFFICES ASSUME NEW i \in 1 .. Len(sales)
             PROVE  sales'[i].restocked + SumOf(Units(tillWork'), At(tillPc', tillWork', "restock", i))
                      <= sales'[i].credited
  BY DEF RestockInv, Restocking, SameCredits
<1> DEFINE P == At(tillPc, tillWork, "restock", i)
           Q == At(tillPc', tillWork', "restock", i)
           u == Units(tillWork)
           v == Units(tillWork')
<1>1. Q = P \ {r} /\ \A x \in Q : v[x] = u[x]
  BY DEF At, OthersStay, Units
<1>2. IsFiniteSet(P) /\ (\A x \in P : u[x] \in Nat) /\ Restocking(i) = SumOf(u, P)
      /\ Restocking(i) \in Nat
  BY Restocks DEF Restocking
<1>3. sales[i].restocked + Restocking(i) <= sales[i].credited
  BY DEF RestockInv
<1>4. sales'[i].credited = sales[i].credited
      /\ sales[i].restocked \in Nat /\ sales[i].credited \in Nat
  BY SaleNumbers DEF SameCredits
<1>5. u[r] = tillWork[r].qty /\ u[r] \in Nat
  BY UnitsAre
<1>6. SumOf(v, Q) = SumOf(u, P \ {r}) /\ SumOf(u, P \ {r}) \in Nat
  <2> HIDE DEF P, Q, u, v
  <2>1. IsFiniteSet(Q) /\ (\A x \in Q : u[x] \in Int) /\ Q \in SUBSET P
    BY <1>1, <1>2, FS_Subset
  <2>2. SumOf(v, Q) = SumOf(u, Q)
    BY <1>1, <2>1, SumSame
  <2>3. SumOf(u, Q) \in Nat
    BY <1>2, <2>1, SumGrows
  <2> QED
    BY <1>1, <2>2, <2>3
<1>7. CASE i = tillWork[r].sale
  <2>1. r \in P
    BY <1>7 DEF At
  <2>2. sales'[i].restocked = sales[i].restocked + u[r]
    BY <1>5, <1>7
  <2> HIDE DEF P, Q, u, v
  <2>3. SumOf(u, P) = u[r] + SumOf(u, P \ {r})
    <3>1. \A x \in P : u[x] \in Int
      BY <1>2
    <3> QED
      BY <1>2, <2>1, <3>1, SumStep
  <2>4. sales'[i].restocked + SumOf(v, Q) <= sales'[i].credited
    BY <1>2, <1>3, <1>4, <1>5, <1>6, <2>2, <2>3
  <2> QED
    BY <2>4 DEF Q, v
<1>8. CASE i # tillWork[r].sale
  <2>1. P \ {r} = P
    BY <1>8 DEF At
  <2>2. sales'[i].restocked = sales[i].restocked
    BY <1>4, <1>8
  <2> HIDE DEF P, Q, u, v
  <2>3. sales'[i].restocked + SumOf(v, Q) <= sales'[i].credited
    BY <1>2, <1>3, <1>4, <1>6, <2>1, <2>2
  <2> QED
    BY <2>3 DEF Q, v
<1> QED
  BY <1>7, <1>8

LEMMA OneForAnother ==
  ASSUME NEW a \in Nat, NEW b \in Nat, NEW c \in Nat, NEW d \in Nat, a + b <= c + d
  PROVE  (a + 1) + (b - 1) <= c + d
OBVIOUS

LEMMA LateNumbers ==
  ASSUME TillType
  PROVE  zSales \in Nat /\ Len(sales) \in Nat /\ Cardinality(Requests) \in Nat
<1>1. zSales \in Nat
  BY DEF TillType
<1>2. Len(sales) \in Nat
  BY DEF TillType
<1>3. Cardinality(Requests) \in Nat
  BY RaceSize
<1> QED
  BY <1>1, <1>2, <1>3

\* A step that rings nothing and lets no more requests ring.
LEMMA LateQuiet ==
  ASSUME TillType, RingingInv, session' = session, zSales' = zSales,
         Len(sales') = Len(sales), Rings' \in SUBSET Rings
  PROVE  RingingInv'
<1> SUFFICES ASSUME session' = "closed"
             PROVE  Len(sales') + Cardinality(Rings') <= zSales' + Cardinality(Requests)
  BY DEF RingingInv
<1>1. Rings \in SUBSET Requests
  BY DEF Rings
<1>2. /\ Cardinality(Rings') <= Cardinality(Rings)
      /\ Cardinality(Rings) \in Nat /\ Cardinality(Rings') \in Nat
  BY <1>1, RaceSize, FS_Subset
<1>3. Len(sales) + Cardinality(Rings) <= zSales + Cardinality(Requests)
  BY DEF RingingInv
<1> QED
  BY <1>1, <1>2, <1>3, LateNumbers

LEMMA LateRung ==
  ASSUME TillType, RingingInv, session' = session, zSales' = zSales, NEW r \in Requests,
         OthersStay(r), Len(sales') = Len(sales) + 1,
         tillPc[r] \in {"ring", "replay ring"}, tillPc'[r] \notin {"ring", "replay ring"}
  PROVE  RingingInv'
<1> SUFFICES ASSUME session' = "closed"
             PROVE  Len(sales') + Cardinality(Rings') <= zSales' + Cardinality(Requests)
  BY DEF RingingInv
<1>1. Rings' = Rings \ {r} /\ r \in Rings /\ Rings \in SUBSET Requests
  BY DEF Rings, OthersStay
<1>2. IsFiniteSet(Rings) /\ Cardinality(Rings) \in Nat
  BY <1>1, RaceSize
<1>3. Cardinality(Rings') = Cardinality(Rings) - 1
  BY <1>1, <1>2, FS_RemoveElement
<1>4. Len(sales) + Cardinality(Rings) <= zSales + Cardinality(Requests)
  BY DEF RingingInv
<1>5. (Len(sales) + 1) + (Cardinality(Rings) - 1) <= zSales + Cardinality(Requests)
  <2>1. Len(sales) \in Nat /\ zSales \in Nat /\ Cardinality(Requests) \in Nat
    BY LateNumbers
  <2> QED
    BY <1>2, <1>4, <2>1, OneForAnother
<1> QED
  BY <1>3, <1>5

LEMMA SameIsSame ==
  ASSUME TillType, sales' = sales
  PROVE  SameOrigins /\ SameCredits /\ SameGoods
BY DEF SameOrigins, SameCredits, SameGoods

\* A step after which the sales and the requests are as they were.
LEMMA SalesRest ==
  ASSUME TillInv, TillType', Requests # {}, saleQty' = saleQty,
         SameOrigins, SameCredits, SameGoods, tillPc' = tillPc, tillWork' = tillWork
  PROVE  CreditInv' /\ RestockInv'
<1>1. \A j \in 1 .. Len(sales) : sales'[j].credited >= sales[j].credited
  BY SaleNumbers DEF SameCredits, TillInv
<1>2. CreditInv'
  BY CreditQuiet DEF TillInv
<1>3. RestockInv'
  BY <1>1, RestockQuiet DEF TillInv
<1> QED
  BY <1>2, <1>3

\* A request that returns nothing goes on; it may ring a sale.
LEMMA NoReturns ==
  ASSUME TillInv, TillType', Requests # {}, saleQty' = saleQty, NEW r \in Requests,
         OthersStay(r), (SameCredits /\ SameGoods) \/ (\E o : SaleRung(o)),
         tillPc[r] \notin {"credit", "restock"}, tillPc'[r] \notin {"credit", "restock"}
  PROVE  CreditInv' /\ RestockInv'
<1>1. SameCredits => \A j \in 1 .. Len(sales) : sales'[j].credited >= sales[j].credited
  BY SaleNumbers DEF SameCredits, TillInv
<1>2. \A q \in Requests : tillPc[q] = "credit" \/ tillPc'[q] = "credit" =>
           tillPc'[q] = tillPc[q] /\ tillWork'[q] = tillWork[q]
  BY DEF OthersStay
<1>3. \A q \in Requests : tillPc'[q] = "restock" =>
           tillPc[q] = "restock" /\ tillWork'[q] = tillWork[q]
  BY DEF OthersStay
<1>4. CreditInv'
  BY <1>2, CreditQuiet DEF TillInv
<1>5. RestockInv'
  BY <1>1, <1>3, RestockQuiet DEF TillInv
<1> QED
  BY <1>4, <1>5

\* A request that leaves the queue alone goes on.
LEMMA NoReplays ==
  ASSUME TillInv, NEW r \in Requests, OthersStay(r), SameOrigins \/ SaleRung(0),
         queue' = queue, tillWork'[r].todo \subseteq tillWork[r].todo
  PROVE  QueueInv'
<1>1. \A q \in Requests : tillWork'[q].todo \subseteq tillWork[q].todo
  BY DEF OthersStay
<1> QED
  BY <1>1, QueueQuiet DEF TillInv

\* A request that rings nothing goes on.
LEMMA NoRings ==
  ASSUME TillInv, NEW r \in Requests, OthersStay(r), SameOrigins,
         session' = session, zSales' = zSales,
         session = "open" \/ tillPc'[r] \notin {"ring", "replay ring"}
  PROVE  RingingInv'
<1>1. Len(sales') = Len(sales)
  BY DEF SameOrigins
<1>2. tillPc'[r] \notin {"ring", "replay ring"} => Rings' \in SUBSET Rings
  BY DEF Rings, OthersStay
<1>3. TillType /\ RingingInv
  BY DEF TillInv
<1>4. CASE session = "open"
  BY <1>4 DEF RingingInv
<1>5. CASE tillPc'[r] \notin {"ring", "replay ring"}
  <2>1. Rings' \in SUBSET Rings
    BY <1>2, <1>5
  <2> QED
    BY <1>1, <1>3, <2>1, LateQuiet
<1> QED
  BY <1>4, <1>5

LEMMA TillStep == ASSUME TillInv, Shop!Next PROVE TillInv'
<1>1. TillType /\ TillType'
  BY TillTypeStep DEF TillInv
<1>2. Requests # {}
  BY SeatsAssumption DEF Seats!ConstantsOK
<1>3. SUFFICES QueueInv' /\ CreditInv' /\ RestockInv' /\ RingingInv'
  BY <1>1 DEF TillInv
<1>4. ASSUME NEW r \in Requests, Shop!StartCheckout(r)
      PROVE  QueueInv' /\ CreditInv' /\ RestockInv' /\ RingingInv'
  <2>1. /\ tillPc[r] = "idle" /\ session = "open"
        /\ UNCHANGED <<saleQty, session, zSales, queue, sales, tillWork>>
    BY <1>4 DEF Shop!StartCheckout, Shop!Sellable
  <2>2. OthersStay(r) /\ tillPc'[r] = "ring"
    BY <1>1, <1>4, <2>1 DEF Shop!StartCheckout, Shop!Goto, OthersStay, TillType
  <2>3. SameOrigins /\ SameCredits /\ SameGoods
    BY <1>1, <2>1, SameIsSame
  <2>4. QueueInv'
    BY <2>1, <2>2, <2>3, NoReplays
  <2>5. CreditInv' /\ RestockInv'
    BY <1>1, <1>2, <2>1, <2>2, <2>3, NoReturns
  <2>6. RingingInv'
    BY <2>1, <2>2, <2>3, NoRings
  <2> QED
    BY <2>4, <2>5, <2>6
<1>5. ASSUME NEW r \in Requests, Shop!CommitCheckout(r)
      PROVE  QueueInv' /\ CreditInv' /\ RestockInv' /\ RingingInv'
  <2>1. /\ tillPc[r] = "ring" /\ Shop!Finish(r)
        /\ UNCHANGED <<saleQty, session, zSales, queue>>
    BY <1>5 DEF Shop!CommitCheckout
  <2>2. OthersStay(r) /\ tillPc'[r] = "idle" /\ tillWork'[r].todo = {}
    BY <1>1, <2>1, NoTillWork DEF Shop!Finish, Shop!Goto, OthersStay, TillType
  <2>3. SaleRung(0)
    BY <1>1, <1>5, SaleAdded DEF Shop!CommitCheckout, Shop!Ring, SaleRung, TillType
  <2>4. QueueInv'
    BY <2>1, <2>2, <2>3, NoReplays
  <2>5. CreditInv' /\ RestockInv'
    BY <1>1, <1>2, <2>1, <2>2, <2>3, NoReturns
  <2>6. RingingInv'
    BY <1>1, <2>1, <2>2, <2>3, LateRung DEF SaleRung, TillInv
  <2> QED
    BY <2>4, <2>5, <2>6
<1>6. ASSUME NEW r \in Requests, Shop!ReplayQueue(r)
      PROVE  QueueInv' /\ CreditInv' /\ RestockInv' /\ RingingInv'
  <2>1. /\ tillPc[r] = "idle" /\ UNCHANGED <<saleQty, session, zSales, queue, sales>>
    BY <1>6 DEF Shop!ReplayQueue
  <2>2. OthersStay(r) /\ tillPc'[r] = "replay"
    BY <1>1, <1>6 DEF Shop!ReplayQueue, Shop!Goto, OthersStay, TillType
  <2>3. SameOrigins /\ SameCredits /\ SameGoods
    BY <1>1, <2>1, SameIsSame
  <2>4. \A k \in tillWork'[r].todo : queue[k] = "queued"
    <3>1. tillWork'[r] = [Shop!NoWork EXCEPT !.todo = {k \in Keys : queue[k] = "queued"}]
      BY <1>1, <1>6 DEF Shop!ReplayQueue, TillType
    <3> QED
      BY <3>1 DEF Shop!NoWork
  <2>5. QueueInv'
    BY <1>1, <2>1, <2>2, <2>3, <2>4, RowsTaken DEF TillInv
  <2>6. CreditInv' /\ RestockInv'
    BY <1>1, <1>2, <2>1, <2>2, <2>3, NoReturns
  <2>7. RingingInv'
    BY <2>1, <2>2, <2>3, NoRings
  <2> QED
    BY <2>5, <2>6, <2>7
<1>7. ASSUME NEW r \in Requests, Shop!ReplayRead(r)
      PROVE  QueueInv' /\ CreditInv' /\ RestockInv' /\ RingingInv'
  <2>1. /\ tillPc[r] = "replay" /\ UNCHANGED <<saleQty, session, zSales, sales>>
    BY <1>7 DEF Shop!ReplayRead
  <2>2. SameOrigins /\ SameCredits /\ SameGoods
    BY <1>1, <2>1, SameIsSame
  <2>3. CASE Shop!Sellable /\ Shop!Goto(r, "replay ring") /\ UNCHANGED <<queue, tillWork>>
    <3>1. OthersStay(r) /\ tillPc'[r] = "replay ring" /\ session = "open"
      BY <1>1, <2>3 DEF Shop!Goto, Shop!Sellable, OthersStay, TillType
    <3>2. QueueInv'
      BY <2>2, <2>3, <3>1, NoReplays
    <3>3. CreditInv' /\ RestockInv'
      BY <1>1, <1>2, <2>1, <2>2, <3>1, NoReturns
    <3>4. RingingInv'
      BY <2>1, <2>2, <3>1, NoRings
    <3> QED
      BY <3>2, <3>3, <3>4
  <2>4. CASE queue' = [queue EXCEPT ![Shop!Row(r)] = "failed"] /\ Shop!NextRow(r)
    <3>1. tillPc[r] \in Replaying /\ sales' \in Seq(SaleRow) /\ Len(sales') >= Len(sales)
      BY <1>1, <2>1 DEF Replaying, TillType
    <3>2. /\ tillPc'[r] \in {"idle", "replay"}
          /\ tillWork'[r].todo = tillWork[r].todo \ {Shop!Row(r)}
          /\ \A q \in Requests \ {r} : tillPc'[q] = tillPc[q] /\ tillWork'[q] = tillWork[q]
      BY <1>1, <2>1, <2>4, <3>1, NextRowMoves
    <3>3. OthersStay(r) /\ \A q \in Requests : tillWork'[q].todo \subseteq tillWork[q].todo
      BY <3>2 DEF OthersStay
    <3>4. \A k \in Keys : queue'[k] \in {queue[k], "failed"}
      BY <1>1, <2>4 DEF TillType
    <3>5. \A k \in Keys : /\ queue'[k] \in {"none", "queued"} => queue[k] \in {"none", "queued"}
                          /\ queue'[k] = "sent" => queue[k] = "sent"
      BY <3>4
    <3>6. QueueInv'
      BY <1>1, <2>2, <3>3, <3>5, QueueQuiet DEF TillInv
    <3>7. CreditInv' /\ RestockInv'
      BY <1>1, <1>2, <2>1, <2>2, <3>2, <3>3, NoReturns
    <3>8. RingingInv'
      BY <2>1, <2>2, <3>2, <3>3, NoRings
    <3> QED
      BY <3>6, <3>7, <3>8
  <2> QED
    BY <1>7, <2>3, <2>4 DEF Shop!ReplayRead
<1>8. ASSUME NEW r \in Requests, Shop!ReplayCommit(r)
      PROVE  QueueInv' /\ CreditInv' /\ RestockInv' /\ RingingInv'
  <2> DEFINE o == Shop!Row(r)
  <2>1. /\ tillPc[r] = "replay ring" /\ UNCHANGED <<saleQty, session, zSales>>
        /\ queue' = [queue EXCEPT ![o] = "sent"] /\ Shop!NextRow(r) /\ Shop!Ring(o)
    BY <1>8 DEF Shop!ReplayCommit
  <2>2. tillPc[r] \in Replaying
    BY <2>1 DEF Replaying
  <2>3. o \in tillWork[r].todo /\ o \in Keys
    BY <1>1, <2>2, RowIsHeld
  <2> HIDE DEF o
  <2>4. SaleRung(o)
    <3>1. sales' = Append(sales, [origin |-> o, status |-> "completed", credited |-> 0,
                                  restocked |-> 0])
      BY <2>1 DEF Shop!Ring
    <3>2. sales \in Seq(SaleRow) /\ o \in Keys \cup {0}
      BY <1>1, <2>3 DEF TillType
    <3> QED
      BY <3>1, <3>2, SaleAdded DEF SaleRung
  <2>5. sales' \in Seq(SaleRow) /\ Len(sales') >= Len(sales)
    BY <1>1, <2>4 DEF SaleRung, TillType
  <2>6. /\ tillPc'[r] \in {"idle", "replay"}
        /\ tillWork'[r].todo = tillWork[r].todo \ {o}
        /\ \A q \in Requests \ {r} : tillPc'[q] = tillPc[q] /\ tillWork'[q] = tillWork[q]
    BY <1>1, <2>1, <2>2, <2>5, NextRowMoves DEF o
  <2>7. OthersStay(r)
    BY <2>6 DEF OthersStay
  <2>8. QueueInv'
    BY <1>1, <2>1, <2>3, <2>4, <2>6, <2>7, RowRung DEF TillInv
  <2>9. CreditInv' /\ RestockInv'
    BY <1>1, <1>2, <2>1, <2>4, <2>6, <2>7, NoReturns
  <2>10. RingingInv'
    BY <1>1, <2>1, <2>4, <2>6, <2>7, LateRung DEF SaleRung, TillInv
  <2> QED
    BY <2>8, <2>9, <2>10
<1>9. ASSUME NEW r \in Requests, NEW i \in 1 .. Len(sales), NEW n \in 1 .. saleQty,
             Shop!StartReturn(r, i, n)
      PROVE  QueueInv' /\ CreditInv' /\ RestockInv' /\ RingingInv'
  <2>1. /\ tillPc[r] = "idle" /\ UNCHANGED <<saleQty, session, zSales, queue, sales>>
        /\ n <= saleQty - sales[i].credited
    BY <1>9 DEF Shop!StartReturn, Shop!Remaining
  <2>2. OthersStay(r) /\ tillPc'[r] = "credit"
    BY <1>1, <1>9 DEF Shop!StartReturn, Shop!Goto, OthersStay, TillType
  <2>3. tillWork'[r].todo = {} /\ tillWork'[r].sale = i /\ tillWork'[r].qty = n
    BY <1>1, <1>9 DEF Shop!StartReturn, TillType
  <2>4. SameOrigins /\ SameCredits /\ SameGoods
    BY <1>1, <2>1, SameIsSame
  <2>5. QueueInv'
    BY <2>1, <2>2, <2>3, <2>4, NoReplays
  <2>6. CreditInv'
    <3>1. saleQty \in Nat /\ sales[i].credited \in Nat
      BY <1>1, SaleNumbers DEF TillType
    <3>2. n \in Nat /\ sales[i].credited + n <= saleQty
      BY <2>1, <3>1
    <3> QED
      BY <1>1, <2>1, <2>2, <2>3, <2>4, <3>2, ReturnChecked DEF TillInv
  <2>7. RestockInv'
    <3>1. \A q \in Requests : tillPc'[q] = "restock" =>
             tillPc[q] = "restock" /\ tillWork'[q] = tillWork[q]
      BY <2>2 DEF OthersStay
    <3>2. \A j \in 1 .. Len(sales) : sales'[j].credited >= sales[j].credited
      BY <1>1, <2>1, SaleNumbers
    <3> QED
      BY <1>1, <2>4, <3>1, <3>2, RestockQuiet DEF TillInv
  <2>8. RingingInv'
    BY <2>1, <2>2, <2>4, NoRings
  <2> QED
    BY <2>5, <2>6, <2>7, <2>8
<1>10. ASSUME NEW r \in Requests, Shop!CreateCredit(r)
       PROVE  QueueInv' /\ CreditInv' /\ RestockInv' /\ RingingInv'
  <2>1. /\ tillPc[r] = "credit" /\ UNCHANGED <<saleQty, session, zSales, queue, tillWork>>
        /\ sales' = [sales EXCEPT ![tillWork[r].sale].credited = @ + tillWork[r].qty]
    BY <1>10 DEF Shop!CreateCredit
  <2>2. OthersStay(r) /\ tillPc'[r] = "restock" /\ tillWork'[r] = tillWork[r]
    BY <1>1, <1>10, <2>1 DEF Shop!CreateCredit, Shop!Goto, OthersStay, TillType
  <2>3. /\ tillWork[r].sale \in 1 .. Len(sales) /\ tillWork[r].qty \in Nat
        /\ sales \in Seq(SaleRow)
    <3>1. tillWork[r] \in TillWork /\ Holds(r) /\ sales \in Seq(SaleRow)
      BY <1>1 DEF TillType
    <3> QED
      BY <2>1, <3>1 DEF Holds, Returning, TillWork
  <2>4. /\ SameOrigins /\ SameGoods /\ Len(sales') = Len(sales)
        /\ \A j \in 1 .. Len(sales) : j # tillWork[r].sale => sales'[j].credited = sales[j].credited
        /\ sales'[tillWork[r].sale].credited = sales[tillWork[r].sale].credited + tillWork[r].qty
    BY <2>1, <2>3, SaleCredited DEF SameOrigins, SameGoods
  <2>5. QueueInv'
    BY <2>1, <2>2, <2>4, NoReplays
  <2>6. \A j \in 1 .. Len(sales) :
          /\ sales[j].credited \in Nat /\ sales'[j].credited \in Nat
          /\ j = tillWork[r].sale => sales'[j].credited = sales[j].credited + tillWork[r].qty
    <3>1. \A j \in 1 .. Len(sales) : sales[j].credited \in Nat
      BY <1>1, SaleNumbers
    <3> QED
      BY <2>3, <2>4, <3>1
  <2>7. CreditInv'
    <3>1. \A j \in 1 .. Len(sales) :
            /\ sales'[j].credited \in Int
            /\ j # tillWork[r].sale => sales'[j].credited = sales[j].credited
            /\ j = tillWork[r].sale =>
                 sales'[j].credited <= sales[j].credited + tillWork[r].qty
      BY <2>3, <2>4, <2>6
    <3> QED
      BY <1>1, <2>1, <2>2, <2>4, <3>1, ReturnLeft DEF TillInv
  <2>8. RestockInv'
    <3>1. \A j \in 1 .. Len(sales) :
            sales'[j].credited = sales[j].credited
                                 + (IF j = tillWork[r].sale THEN tillWork[r].qty ELSE 0)
      BY <2>4, <2>6
    <3> QED
      BY <1>1, <2>1, <2>2, <2>4, <3>1, CreditBooked DEF TillInv
  <2>9. RingingInv'
    BY <2>1, <2>2, <2>4, NoRings
  <2> QED
    BY <2>5, <2>7, <2>8, <2>9
<1>11. ASSUME NEW r \in Requests, Shop!Restock(r)
       PROVE  QueueInv' /\ CreditInv' /\ RestockInv' /\ RingingInv'
  <2>1. /\ tillPc[r] = "restock" /\ UNCHANGED <<saleQty, session, zSales, queue>>
        /\ sales' = [sales EXCEPT ![tillWork[r].sale].restocked = @ + tillWork[r].qty]
    BY <1>11 DEF Shop!Restock
  <2>2. OthersStay(r) /\ tillPc'[r] \in {"mark", "idle"}
        /\ tillWork'[r].todo \subseteq tillWork[r].todo
    <3>1. CASE Shop!Goto(r, "mark") /\ UNCHANGED tillWork
      BY <1>1, <3>1 DEF Shop!Goto, OthersStay, TillType
    <3>2. CASE Shop!Finish(r)
      BY <1>1, <3>2, NoTillWork DEF Shop!Finish, Shop!Goto, OthersStay, TillType
    <3> QED
      BY <1>11, <3>1, <3>2 DEF Shop!Restock
  <2>3. /\ tillWork[r].sale \in 1 .. Len(sales) /\ tillWork[r].qty \in Nat
        /\ sales \in Seq(SaleRow)
    <3>1. tillWork[r] \in TillWork /\ Holds(r) /\ sales \in Seq(SaleRow)
      BY <1>1 DEF TillType
    <3> QED
      BY <2>1, <3>1 DEF Holds, Returning, TillWork
  <2>4. /\ SameOrigins /\ SameCredits
        /\ \A j \in 1 .. Len(sales) : j # tillWork[r].sale => sales'[j].restocked = sales[j].restocked
        /\ sales'[tillWork[r].sale].restocked = sales[tillWork[r].sale].restocked + tillWork[r].qty
    BY <2>1, <2>3, SaleRestocked DEF SameOrigins, SameCredits
  <2>5. QueueInv'
    BY <2>1, <2>2, <2>4, NoReplays
  <2>6. CreditInv'
    <3>1. \A q \in Requests : tillPc[q] = "credit" \/ tillPc'[q] = "credit" =>
             tillPc'[q] = tillPc[q] /\ tillWork'[q] = tillWork[q]
      BY <2>1, <2>2 DEF OthersStay
    <3> QED
      BY <1>1, <1>2, <2>1, <2>4, <3>1, CreditQuiet DEF TillInv
  <2>7. RestockInv'
    <3>1. \A j \in 1 .. Len(sales) : sales[j].restocked \in Nat
      BY <1>1, SaleNumbers
    <3>2. \A j \in 1 .. Len(sales) :
            sales'[j].restocked = sales[j].restocked
                                  + (IF j = tillWork[r].sale THEN tillWork[r].qty ELSE 0)
      BY <2>3, <2>4, <3>1
    <3> QED
      BY <1>1, <2>1, <2>2, <2>4, <3>2, GoodsBooked DEF TillInv
  <2>8. RingingInv'
    BY <2>1, <2>2, <2>4, NoRings
  <2> QED
    BY <2>5, <2>6, <2>7, <2>8
<1>12. ASSUME NEW r \in Requests, Shop!MarkReturned(r)
       PROVE  QueueInv' /\ CreditInv' /\ RestockInv' /\ RingingInv'
  <2>1. /\ tillPc[r] = "mark" /\ UNCHANGED <<saleQty, session, zSales, queue>> /\ Shop!Finish(r)
    BY <1>12 DEF Shop!MarkReturned
  <2>2. OthersStay(r) /\ tillPc'[r] = "idle" /\ tillWork'[r].todo = {}
    BY <1>1, <2>1, NoTillWork DEF Shop!Finish, Shop!Goto, OthersStay, TillType
  <2>3. SameOrigins /\ SameCredits /\ SameGoods
    BY <1>1, <1>12, <2>1, ReturnMarked DEF SameOrigins, SameCredits, SameGoods
  <2>4. QueueInv'
    BY <2>1, <2>2, <2>3, NoReplays
  <2>5. CreditInv' /\ RestockInv'
    BY <1>1, <1>2, <2>1, <2>2, <2>3, NoReturns
  <2>6. RingingInv'
    BY <2>1, <2>2, <2>3, NoRings
  <2> QED
    BY <2>4, <2>5, <2>6
<1>13. ASSUME NEW r \in Requests, Shop!Crash(r)
       PROVE  QueueInv' /\ CreditInv' /\ RestockInv' /\ RingingInv'
  <2>1. UNCHANGED <<saleQty, session, zSales, queue, sales>> /\ Shop!Finish(r)
    BY <1>13 DEF Shop!Crash
  <2>2. OthersStay(r) /\ tillPc'[r] = "idle" /\ tillWork'[r].todo = {}
    BY <1>1, <2>1, NoTillWork DEF Shop!Finish, Shop!Goto, OthersStay, TillType
  <2>3. SameOrigins /\ SameCredits /\ SameGoods
    BY <1>1, <2>1, SameIsSame
  <2>4. \A j \in 1 .. Len(sales) : /\ sales'[j].credited = sales[j].credited
                                   /\ sales[j].credited \in Nat
    BY <1>1, <2>1, SaleNumbers
  <2>5. QueueInv'
    BY <2>1, <2>2, <2>3, NoReplays
  <2>6. CreditInv'
    <3>1. CASE tillPc[r] = "credit"
      <4>1. tillWork[r].qty \in Nat
        BY <1>1, UnitsAre
      <4>2. \A j \in 1 .. Len(sales) :
              /\ sales'[j].credited \in Int
              /\ j # tillWork[r].sale => sales'[j].credited = sales[j].credited
              /\ j = tillWork[r].sale =>
                   sales'[j].credited <= sales[j].credited + tillWork[r].qty
        BY <2>4, <4>1
      <4> QED
        BY <1>1, <2>1, <2>2, <3>1, <4>2, ReturnLeft DEF TillInv
    <3>2. CASE tillPc[r] # "credit"
      <4>1. \A q \in Requests : tillPc[q] = "credit" \/ tillPc'[q] = "credit" =>
               tillPc'[q] = tillPc[q] /\ tillWork'[q] = tillWork[q]
        BY <2>2, <3>2 DEF OthersStay
      <4> QED
        BY <1>1, <1>2, <2>1, <2>3, <4>1, CreditQuiet DEF TillInv
    <3> QED
      BY <3>1, <3>2
  <2>7. RestockInv'
    <3>1. \A q \in Requests : tillPc'[q] = "restock" =>
             tillPc[q] = "restock" /\ tillWork'[q] = tillWork[q]
      BY <2>2 DEF OthersStay
    <3>2. \A j \in 1 .. Len(sales) : sales'[j].credited >= sales[j].credited
      BY <2>4
    <3> QED
      BY <1>1, <2>3, <3>1, <3>2, RestockQuiet DEF TillInv
  <2>8. RingingInv'
    BY <2>1, <2>2, <2>3, NoRings
  <2> QED
    BY <2>5, <2>6, <2>7, <2>8
<1>14. ASSUME NEW k \in Keys, Shop!EnqueueOffline(k)
       PROVE  QueueInv' /\ CreditInv' /\ RestockInv' /\ RingingInv'
  <2>1. UNCHANGED <<saleQty, session, zSales, sales, tillPc, tillWork>>
    BY <1>14 DEF Shop!EnqueueOffline
  <2>2. SameOrigins /\ SameCredits /\ SameGoods
    BY <1>1, <2>1, SameIsSame
  <2>3. \A l \in Keys : /\ queue'[l] \in {"none", "queued"} => queue[l] \in {"none", "queued"}
                        /\ queue'[l] = "sent" => queue[l] = "sent"
    BY <1>1, <1>14 DEF Shop!EnqueueOffline, Shop!Stored, TillType
  <2>4. QueueInv'
    BY <1>1, <2>1, <2>2, <2>3, QueueQuiet DEF TillInv
  <2>5. CreditInv' /\ RestockInv'
    BY <1>1, <1>2, <2>1, <2>2, SalesRest
  <2>6. RingingInv'
    BY <2>1 DEF TillInv, RingingInv, Rings
  <2> QED
    BY <2>4, <2>5, <2>6
<1>15. ASSUME NEW i \in 1 .. Len(sales), Shop!VoidSale(i)
       PROVE  QueueInv' /\ CreditInv' /\ RestockInv' /\ RingingInv'
  <2>1. /\ UNCHANGED <<saleQty, session, zSales, queue, tillPc, tillWork>>
        /\ sales' = [sales EXCEPT ![i].status = "voided"]
    BY <1>15 DEF Shop!VoidSale
  <2>2. SameOrigins /\ SameCredits /\ SameGoods
    <3>1. "voided" \in SaleStates /\ sales \in Seq(SaleRow)
      BY <1>1 DEF SaleStates, TillType
    <3> QED
      BY <2>1, <3>1, SaleMarked DEF SameOrigins, SameCredits, SameGoods
  <2>3. QueueInv'
    BY <1>1, <2>1, <2>2, QueueQuiet DEF TillInv
  <2>4. CreditInv' /\ RestockInv'
    BY <1>1, <1>2, <2>1, <2>2, SalesRest
  <2>5. RingingInv'
    <3>1. Rings' \in SUBSET Rings /\ Len(sales') = Len(sales)
      BY <2>1, <2>2 DEF Rings, SameOrigins
    <3> QED
      BY <1>1, <2>1, <3>1, LateQuiet DEF TillInv
  <2> QED
    BY <2>3, <2>4, <2>5
<1>16. CASE Shop!ZReport
  <2>1. /\ UNCHANGED <<saleQty, queue, sales, tillPc, tillWork>>
        /\ zSales' = Len(sales)
    BY <1>16 DEF Shop!ZReport
  <2>2. SameOrigins /\ SameCredits /\ SameGoods
    BY <1>1, <2>1, SameIsSame
  <2>3. QueueInv'
    BY <1>1, <2>1, <2>2, QueueQuiet DEF TillInv
  <2>4. CreditInv' /\ RestockInv'
    BY <1>1, <1>2, <2>1, <2>2, SalesRest
  <2>5. RingingInv'
    <3>1. Len(sales) \in Nat /\ Len(sales') = Len(sales)
      BY <1>1, <2>1, LateNumbers
    <3>2. Rings' \in SUBSET Requests
      BY DEF Rings
    <3>3. /\ Cardinality(Rings') <= Cardinality(Requests)
          /\ Cardinality(Rings') \in Nat /\ Cardinality(Requests) \in Nat
      BY <3>2, RaceSize
    <3>4. Len(sales') + Cardinality(Rings') <= zSales' + Cardinality(Requests)
      BY <2>1, <3>1, <3>3
    <3> QED
      BY <3>4 DEF RingingInv
  <2> QED
    BY <2>3, <2>4, <2>5
<1> QED
  BY <1>4, <1>5, <1>6, <1>7, <1>8, <1>9, <1>10, <1>11, <1>12, <1>13, <1>14, <1>15, <1>16
  DEF Shop!Next

LEMMA TillSteps == ASSUME TillInv, [MCNext]_allVars PROVE TillInv'
<1>1. CASE UNCHANGED tillVars
  BY <1>1
  DEF tillVars, TillInv, TillType, Holds, QueueInv, CreditInv, RestockInv, RingingInv, Crediting,
      Restocking, Holders, Rings, Shop!SalesOf
<1>2. CASE MCNext /\ ~UNCHANGED tillVars
  <2>1. Shop!Next
    BY <1>2
    DEF MCNext, InRows, InSeats, InTill, InPayment, InLoan, InAsset, InSupply, InBank, InReport,
        Shop!Next
  <2> QED
    BY <2>1, TillStep
<1> QED
  BY <1>1, <1>2 DEF allVars

\* However sales, replays, retried syncs, returns, crashes and the Z report interleave:
\* the queue says what has been rung, a row rings no more sales than there are
\* requests, returns give back no more than one sale's worth each and no goods
\* without credit, and the sales after the Z report are those that were under way
\* (pos/session.go:81-260, pos/offline.go:147-176, pos/handler.go:327-474).
THEOREM TillIsBounded == MCSpec => []TillAddsUp
<1>1. ASSUME TillInv PROVE TillAddsUp
  <2>0. TillType
    BY <1>1 DEF TillInv
  <2>1. \A S : Shop!Cardinality(S) = Cardinality(S)
    BY DEF Shop!Cardinality, Cardinality, Shop!IsFiniteSet, IsFiniteSet
  <2>2. Cardinality(Requests) \in Nat
    BY RaceSize
  <2>3. ASSUME NEW k \in Keys
        PROVE  /\ queue[k] \in {"none", "queued"} => Shop!SalesOf(k) = {}
               /\ queue[k] = "sent" => Shop!SalesOf(k) # {}
               /\ Cardinality(Shop!SalesOf(k)) <= Cardinality(Requests)
    <3>1. Holders(k) \in SUBSET Requests
      BY DEF Holders
    <3>2. Cardinality(Holders(k)) \in Nat /\ Cardinality(Shop!SalesOf(k)) \in Nat
      BY <2>0, <3>1, RaceSize, SalesOfFinite
    <3> QED
      BY <1>1, <2>2, <3>2 DEF TillInv, QueueInv
  <2>4. ASSUME NEW i \in 1 .. Len(sales)
        PROVE  /\ sales[i].restocked <= sales[i].credited
               /\ sales[i].credited <= saleQty * Cardinality(Requests)
    <3>1. sales[i].restocked \in Nat /\ sales[i].credited \in Nat /\ Restocking(i) \in Nat
          /\ sales[i].restocked + Restocking(i) <= sales[i].credited
      BY <1>1, <2>0, SaleNumbers, Restocks DEF TillInv, RestockInv
    <3>2. sales[i].credited <= saleQty + (Cardinality(Requests) - 1) * saleQty
      <4>1. Raced(sales[i].credited, Crediting(i), Units(tillWork), saleQty, saleQty)
        BY <1>1 DEF TillInv, CreditInv
      <4>2. Crediting(i) \in SUBSET Requests
        BY DEF Crediting, At
      <4>3. \A x \in Crediting(i) : Units(tillWork)[x] \in Nat
        BY <2>0, <4>2, UnitsAre
      <4>4. saleQty \in Int /\ saleQty \in Nat /\ sales[i].credited \in Int
        BY <2>0, <3>1, UnitsAre
      <4> QED
        BY <4>1, <4>2, <4>3, <4>4, RaceIsBounded
    <3>3. saleQty + (Cardinality(Requests) - 1) * saleQty = saleQty * Cardinality(Requests)
      <4>1. saleQty \in Nat
        BY <2>0, UnitsAre
      <4> QED
        BY <2>2, <4>1
    <3> QED
      BY <3>1, <3>2, <3>3
  <2>5. ASSUME session = "closed" PROVE Len(sales) <= zSales + Cardinality(Requests)
    <3>1. Len(sales) + Cardinality(Rings) <= zSales + Cardinality(Requests)
      BY <1>1, <2>5 DEF TillInv, RingingInv
    <3>2. Rings \in SUBSET Requests
      BY DEF Rings
    <3>3. Cardinality(Rings) \in Nat
      BY <3>2, RaceSize
    <3>4. Len(sales) \in Nat /\ zSales \in Nat
      BY <2>0, LateNumbers
    <3> QED
      BY <2>2, <3>1, <3>3, <3>4
  <2>6. Shop!QueueTellsTheTruth
    BY <2>1, <2>3 DEF Shop!QueueTellsTheTruth
  <2>7. Shop!ReturnsAndLateSalesAreBounded
    BY <2>1, <2>4, <2>5 DEF Shop!ReturnsAndLateSalesAreBounded
  <2> QED
    BY <2>6, <2>7 DEF TillAddsUp
<1>2. MCInit => TillInv
  BY TillInit DEF MCInit
<1>3. TillInv /\ [MCNext]_allVars => TillInv'
  BY TillSteps
<1> QED
  BY <1>1, <1>2, <1>3, PTL DEF MCSpec
-----------------------------------------------------------------------------
(* Reports: the inductive invariant.                                       *)

\* c begins with all of b.
Continues(b, c) == Len(b) <= Len(c) /\ \A n \in DOMAIN b : c[n] = b[n]

\* The accounts and the journal of an entry are there.
OnBooks(e) == e.journal \in journals /\ \A i \in DOMAIN e.legs : e.legs[i].account \in chart

Nothing == [what \in Report!Whats |-> {}]

ReportType ==
  /\ report \in Report!Kinds /\ keptInMemory \in BOOLEAN
  /\ chart \subseteq Report!Accounts
  /\ journals \subseteq Nat /\ IsFiniteSet(journals)
  /\ postings \in Seq(Entries) /\ \A n \in DOMAIN postings : OnBooks(postings[n])
  /\ due \in [Report!Docs -> Nat]
  /\ DOMAIN returned = Report!Whats
  /\ Report!Idle => todo = << >> /\ returned = Nothing

\* The books have gone on since a report began, and what was due can only be less.
SinceInv == ~Report!Idle =>
  /\ at.book \in Seq(Entries) /\ Continues(at.book, postings)
  /\ at.chart \subseteq chart
  /\ at.due \in [Report!Docs -> Nat] /\ \A d \in Report!Docs : due[d] <= at.due[d]
  /\ Report!Profit(postings, Report!Accounts) \in profits

\* The profit: the chart, and then the balance of some moment.
ChartRead == at.chart \subseteq returned["accounts"] /\ returned["accounts"] \subseteq chart
ProfitInv == ~Report!Idle /\ report \in {"pnl", "preview"} =>
  \/ todo = <<<<"accounts", 0>>, <<"balance", 0>>>> /\ returned = Nothing
  \/ todo = <<<<"balance", 0>>>> /\ ChartRead /\ returned["balance"] = {}
  \/ /\ todo = << >> /\ ChartRead
     /\ returned["balance"] \subseteq DOMAIN postings
     /\ Report!Profit(Report!Restrict(postings, returned["balance"]), Report!Accounts) \in profits

\* What entries that were read are on was read too.
AccountsCover(set) ==
  \A n \in set : \A i \in DOMAIN postings[n].legs :
    postings[n].legs[i].account \in returned["accounts"]
JournalsCover(set) == \A n \in set : postings[n].journal \in returned["journals"]

\* The FEC file: the book first, then what it is on.
BookRead == returned["book"] \subseteq DOMAIN postings /\ DOMAIN at.book \subseteq returned["book"]
FecInv == ~Report!Idle /\ report = "fec" =>
  \/ todo = <<<<"book", 0>>, <<"accounts", 0>>, <<"journals", 0>>>> /\ returned = Nothing
  \/ todo = <<<<"accounts", 0>>, <<"journals", 0>>>> /\ BookRead
  \/ todo = <<<<"journals", 0>>>> /\ BookRead /\ AccountsCover(returned["book"])
  \/ /\ todo = << >> /\ BookRead
     /\ AccountsCover(returned["book"]) /\ JournalsCover(returned["book"])

\* The general ledger: the journals, the entries of each, and the accounts last.
WalkRead == returned["entries"] \subseteq DOMAIN postings /\ JournalsCover(returned["entries"])
Walking(j) == \E i \in DOMAIN todo : todo[i] = <<"entries", j>>
AccountsLast ==
  /\ Len(todo) > 0 /\ todo[Len(todo)] = <<"accounts", 0>>
  /\ \A i \in 1 .. Len(todo) - 1 : \E j \in returned["journals"] : todo[i] = <<"entries", j>>
WalkInv == ~Report!Idle /\ report = "ledger" =>
  \/ todo = <<<<"journals", 0>>, <<"accounts", 0>>>> /\ returned = Nothing
  \/ /\ todo \in Seq({"entries", "accounts"} \X Nat) /\ AccountsLast
     /\ returned["journals"] \subseteq journals /\ WalkRead
     /\ \A n \in DOMAIN at.book : n \in returned["entries"] \/ Walking(postings[n].journal)
  \/ /\ todo = << >> /\ WalkRead /\ AccountsCover(returned["entries"])
     /\ DOMAIN at.book \subseteq returned["entries"]

\* The receivables: what is due is read once of each invoice of the list.
DuesRead ==
  /\ returned["dues"] \subseteq returned["invoices"] \X Nat
  /\ \A x \in returned["dues"] : due[x[1]] <= x[2] /\ x[2] <= at.due[x[1]]
  /\ \A x, y \in returned["dues"] : x[1] = y[1] => x = y
DuesInv == ~Report!Idle /\ report = "receivables" =>
  \/ todo = <<<<"invoices", 0>>>> /\ returned = Nothing
  \/ /\ returned["invoices"] \subseteq Report!Docs /\ DuesRead
     /\ todo \in Seq({"dues"} \X Report!Docs)
     /\ \A i \in DOMAIN todo :
          todo[i][2] \in returned["invoices"] /\ \A x \in returned["dues"] : x[1] # todo[i][2]
     /\ \A i, j \in DOMAIN todo : todo[i] = todo[j] => i = j
     /\ \A d \in returned["invoices"] :
          (\E x \in returned["dues"] : x[1] = d) \/ \E i \in DOMAIN todo : todo[i][2] = d

\* The statement of an account, in memory: both parts of it at the same moment.
FirstDated(k, lo, hi) ==
  {n \in 1 .. k : lo <= postings[n].date /\ postings[n].date <= hi}
StatementInv == ~Report!Idle /\ report = "statement" /\ keptInMemory =>
  \/ todo = <<<<"opening", 0>>, <<"legs", 0>>>>
  \/ /\ todo = << >>
     /\ \E k \in 0 .. Len(postings) :
          /\ Len(at.book) <= k
          /\ returned["opening"] = {n \in 1 .. k : postings[n].date < Period[1]}
          /\ returned["legs"] = FirstDated(k, Period[1], Period[2])

ReportInv ==
  ReportType /\ SinceInv /\ ProfitInv /\ FecInv /\ WalkInv /\ DuesInv /\ StatementInv

LEMMA ReportCard ==
  ASSUME NEW S
  PROVE  Report!Cardinality(S) = Cardinality(S) /\ (Report!IsFiniteSet(S) <=> IsFiniteSet(S))
BY DEF Report!Cardinality, Cardinality, Report!IsFiniteSet, IsFiniteSet

ReportLeg == [account : Report!Accounts, debit : Nat, credit : Nat, rate : Nat]

LEMMA ReportConstants ==
  /\ IsFiniteSet(Report!Accounts) /\ Openings \subseteq Report!Accounts
  /\ IsFiniteSet(Report!Docs) /\ Report!Docs \subseteq Nat
  /\ \A d \in Report!Docs : Documents[d].net \in Nat /\ Documents[d].vat \in Nat
  /\ Period[1] \in Nat /\ Period[2] \in Nat
BY ReportAssumption, ReportCard DEF Report!ConstantsOK

LEMMA EntryIs ==
  ASSUME NEW e \in Entries
  PROVE  /\ e.date \in Nat /\ e.legs \in Seq(ReportLeg)
         /\ Len(e.legs) \in Nat /\ Len(e.legs) > 1 /\ DOMAIN e.legs = 1 .. Len(e.legs)
         /\ \A i \in DOMAIN e.legs :
              /\ e.legs[i].account \in Report!Accounts
              /\ e.legs[i].debit \in Nat /\ e.legs[i].credit \in Nat /\ e.legs[i].rate \in Nat
<1>1. Report!Valid(e)
  BY ReportAssumption DEF Report!ConstantsOK
<1>2. e.date \in Nat /\ e.legs \in Seq(ReportLeg) /\ Len(e.legs) > 1
  BY <1>1 DEF Report!Valid, ReportLeg
<1> DEFINE l == e.legs
<1>3. l \in Seq(ReportLeg)
  BY <1>2
<1> HIDE DEF l
<1>4. Len(l) \in Nat /\ DOMAIN l = 1 .. Len(l) /\ \A i \in DOMAIN l : l[i] \in ReportLeg
  BY <1>3
<1>5. \A x \in ReportLeg :
        x.account \in Report!Accounts /\ x.debit \in Nat /\ x.credit \in Nat /\ x.rate \in Nat
  BY DEF ReportLeg
<1> QED
  BY <1>2, <1>4, <1>5 DEF l

LEMMA ReportInit == Report!Init => ReportInv
<1> SUFFICES ASSUME Report!Init PROVE ReportInv
  OBVIOUS
<1>1. /\ report \in Report!Kinds /\ keptInMemory \in BOOLEAN
      /\ chart = Openings /\ journals = {1} /\ postings = << >>
      /\ due = [d \in Report!Docs |-> Documents[d].net + Documents[d].vat]
      /\ todo = << >> /\ at = << >> /\ returned = [what \in Report!Whats |-> {}]
  BY DEF Report!Init
<1>2. due \in [Report!Docs -> Nat]
  BY <1>1, ReportConstants
<1>3. IsFiniteSet(journals) /\ journals \subseteq Nat
  <2>1. IsFiniteSet({1})
    BY FS_Singleton, Zenon
  <2>2. {1} \subseteq Nat
    OBVIOUS
  <2> QED
    BY <1>1, <2>1, <2>2
<1>4. postings \in Seq(Entries) /\ DOMAIN postings = {}
  BY <1>1
<1>5. ReportType
  BY <1>1, <1>2, <1>3, <1>4, ReportConstants DEF ReportType, Nothing
<1>6. Report!Idle
  BY <1>1 DEF Report!Idle
<1> QED
  BY <1>5, <1>6 DEF ReportInv, SinceInv, ProfitInv, FecInv, WalkInv, DuesInv, StatementInv

\* What is read changes, while the report rests.
Grows ==
  /\ UNCHANGED <<report, keptInMemory, todo, returned, at>>
  /\ chart \subseteq chart' /\ journals \subseteq journals'
  /\ Continues(postings, postings')
  /\ \A d \in Report!Docs : due'[d] <= due[d]
  /\ ~Report!Idle => profits \subseteq profits' /\ Report!Profit(postings', Report!Accounts) \in profits'

LEMMA GrowsProfit == ASSUME ReportInv, ReportType', Grows PROVE ProfitInv'
<1>1. /\ report' = report /\ todo' = todo /\ returned' = returned /\ at' = at
      /\ chart \subseteq chart' /\ (Report!Idle <=> Report!Idle')
      /\ ~Report!Idle => profits \subseteq profits'
  BY DEF Grows, Report!Idle
<1>2. DOMAIN postings \subseteq DOMAIN postings' /\ \A n \in DOMAIN postings : postings'[n] = postings[n]
  BY DEF Grows, Continues, ReportInv, ReportType
<1>3. ASSUME returned["balance"] \subseteq DOMAIN postings
      PROVE  Report!Restrict(postings', returned["balance"]) = Report!Restrict(postings, returned["balance"])
  BY <1>2, <1>3 DEF Report!Restrict
<1>4. ASSUME ChartRead PROVE ChartRead'
  BY <1>1, <1>4 DEF ChartRead
<1>5. ProfitInv
  BY DEF ReportInv
<1> SUFFICES ASSUME ~Report!Idle, report \in {"pnl", "preview"}
             PROVE  \/ todo = <<<<"accounts", 0>>, <<"balance", 0>>>> /\ returned = Nothing
                    \/ todo = <<<<"balance", 0>>>> /\ ChartRead' /\ returned["balance"] = {}
                    \/ /\ todo = << >> /\ ChartRead'
                       /\ returned["balance"] \subseteq DOMAIN postings'
                       /\ Report!Profit(Report!Restrict(postings', returned["balance"]), Report!Accounts)
                            \in profits'
  BY <1>1 DEF ProfitInv, Nothing
<1> QED
  BY <1>1, <1>2, <1>3, <1>4, <1>5 DEF ProfitInv

LEMMA GrowsBooks == ASSUME ReportInv, ReportType', Grows PROVE FecInv' /\ WalkInv'
<1>1. /\ report' = report /\ todo' = todo /\ returned' = returned /\ at' = at
      /\ journals \subseteq journals' /\ (Report!Idle <=> Report!Idle')
  BY DEF Grows, Report!Idle
<1>2. DOMAIN postings \subseteq DOMAIN postings' /\ \A n \in DOMAIN postings : postings'[n] = postings[n]
  BY DEF Grows, Continues, ReportInv, ReportType
<1>3. ASSUME NEW set, set \subseteq DOMAIN postings
      PROVE  (AccountsCover(set) => AccountsCover(set)') /\ (JournalsCover(set) => JournalsCover(set)')
  BY <1>1, <1>2, <1>3 DEF AccountsCover, JournalsCover
<1>4. FecInv'
  <2>1. BookRead => BookRead' /\ returned["book"] \subseteq DOMAIN postings
    BY <1>1, <1>2 DEF BookRead
  <2>2. FecInv
    BY DEF ReportInv
  <2> QED
    BY <1>1, <1>3, <2>1, <2>2 DEF FecInv, Nothing
<1>5. WalkInv'
  <2>1. WalkRead => WalkRead' /\ returned["entries"] \subseteq DOMAIN postings
    BY <1>1, <1>2, <1>3 DEF WalkRead
  <2>2. WalkInv /\ SinceInv /\ postings \in Seq(Entries)
    BY DEF ReportInv, ReportType
  <2>3. AccountsLast => AccountsLast'
    BY <1>1 DEF AccountsLast
  <2>4. \A j : Walking(j) => Walking(j)'
    BY <1>1 DEF Walking
  <2>5. ~Report!Idle => DOMAIN at.book \subseteq DOMAIN postings
    BY <2>2 DEF SinceInv, Continues
  <2> QED
    BY <1>1, <1>2, <1>3, <2>1, <2>2, <2>3, <2>4, <2>5 DEF WalkInv, Nothing
<1> QED
  BY <1>4, <1>5

LEMMA GrowsDues == ASSUME ReportInv, ReportType', Grows PROVE DuesInv'
<1>1. /\ report' = report /\ todo' = todo /\ returned' = returned /\ at' = at
      /\ (Report!Idle <=> Report!Idle')
      /\ \A d \in Report!Docs : due'[d] <= due[d]
      /\ due \in [Report!Docs -> Nat] /\ due' \in [Report!Docs -> Nat]
  BY DEF Grows, Report!Idle, ReportInv, ReportType
<1>2. ASSUME ~Report!Idle, DuesRead, returned["invoices"] \subseteq Report!Docs PROVE DuesRead'
  <2>1. \A x \in returned["dues"] :
          x[1] \in Report!Docs /\ x[2] \in Nat /\ due[x[1]] <= x[2] /\ x[2] <= at.due[x[1]]
    BY <1>2 DEF DuesRead
  <2>2. \A x \in returned["dues"] : due'[x[1]] <= x[2]
    <3> TAKE x \in returned["dues"]
    <3>1. x[1] \in Report!Docs /\ x[2] \in Nat /\ due[x[1]] <= x[2]
      BY <2>1
    <3>2. due'[x[1]] <= due[x[1]] /\ due'[x[1]] \in Nat /\ due[x[1]] \in Nat
      BY <1>1, <3>1
    <3> QED
      BY <3>1, <3>2
  <2> QED
    BY <1>1, <1>2, <2>1, <2>2 DEF DuesRead
<1>3. DuesInv
  BY DEF ReportInv
<1> QED
  BY <1>1, <1>2, <1>3 DEF DuesInv, Nothing

LEMMA GrowsStatement == ASSUME ReportInv, ReportType', Grows PROVE StatementInv'
<1>1. /\ report' = report /\ todo' = todo /\ returned' = returned /\ at' = at
      /\ keptInMemory' = keptInMemory /\ (Report!Idle <=> Report!Idle')
  BY DEF Grows, Report!Idle
<1>2. /\ Len(postings) \in Nat /\ Len(postings') \in Nat /\ Len(postings) <= Len(postings')
      /\ DOMAIN postings = 1 .. Len(postings)
      /\ \A n \in DOMAIN postings : postings'[n] = postings[n]
  BY DEF Grows, Continues, ReportInv, ReportType
<1>3. \A k \in 0 .. Len(postings) :
        /\ k \in 0 .. Len(postings') /\ \A n \in 1 .. k : postings'[n] = postings[n]
  BY <1>2
<1>4. StatementInv
  BY DEF ReportInv
<1> SUFFICES ASSUME ~Report!Idle, report = "statement", keptInMemory, todo = << >>
             PROVE  \E k \in 0 .. Len(postings') :
                      /\ Len(at.book) <= k
                      /\ returned["opening"] = {n \in 1 .. k : postings'[n].date < Period[1]}
                      /\ returned["legs"] = {n \in 1 .. k : Period[1] <= postings'[n].date
                                                           /\ postings'[n].date <= Period[2]}
  BY <1>1, <1>4 DEF StatementInv, FirstDated
<1>5. PICK k \in 0 .. Len(postings) :
        /\ Len(at.book) <= k
        /\ returned["opening"] = {n \in 1 .. k : postings[n].date < Period[1]}
        /\ returned["legs"] = FirstDated(k, Period[1], Period[2])
  BY <1>4 DEF StatementInv
<1>6. {n \in 1 .. k : postings[n].date < Period[1]} = {n \in 1 .. k : postings'[n].date < Period[1]}
  BY <1>3
<1>7. FirstDated(k, Period[1], Period[2]) = {n \in 1 .. k : Period[1] <= postings'[n].date
                                                            /\ postings'[n].date <= Period[2]}
  BY <1>3 DEF FirstDated
<1> QED
  BY <1>3, <1>5, <1>6, <1>7

LEMMA GrowsInv == ASSUME ReportInv, ReportType', Grows PROVE ReportInv'
<1>1. SinceInv'
  <2>1. /\ at' = at /\ (Report!Idle <=> Report!Idle') /\ chart \subseteq chart'
        /\ Continues(postings, postings')
        /\ \A d \in Report!Docs : due'[d] <= due[d]
        /\ due \in [Report!Docs -> Nat] /\ due' \in [Report!Docs -> Nat]
        /\ ~Report!Idle => Report!Profit(postings', Report!Accounts) \in profits'
        /\ postings \in Seq(Entries) /\ postings' \in Seq(Entries)
    BY DEF Grows, Report!Idle, ReportInv, ReportType
  <2> SUFFICES ASSUME ~Report!Idle
               PROVE  /\ at.book \in Seq(Entries) /\ Continues(at.book, postings')
                      /\ at.chart \subseteq chart'
                      /\ at.due \in [Report!Docs -> Nat] /\ \A d \in Report!Docs : due'[d] <= at.due[d]
    BY <2>1 DEF SinceInv
  <2>2. /\ at.book \in Seq(Entries) /\ Continues(at.book, postings)
        /\ at.chart \subseteq chart
        /\ at.due \in [Report!Docs -> Nat] /\ \A d \in Report!Docs : due[d] <= at.due[d]
    BY DEF ReportInv, SinceInv
  <2>3. Continues(at.book, postings')
    <3> DEFINE b == at.book
    <3>1. b \in Seq(Entries) /\ Continues(b, postings)
      BY <2>2
    <3> HIDE DEF b
    <3>2. DOMAIN b \subseteq DOMAIN postings
      BY <2>1, <3>1 DEF Continues
    <3> QED
      BY <2>1, <3>1, <3>2 DEF Continues, b
  <2>4. \A d \in Report!Docs : due'[d] <= at.due[d]
    <3> DEFINE b == at.due
    <3>1. b \in [Report!Docs -> Nat] /\ \A d \in Report!Docs : due[d] <= b[d]
      BY <2>2
    <3> HIDE DEF b
    <3>2. \A d \in Report!Docs : b[d] \in Nat /\ due[d] \in Nat /\ due'[d] \in Nat
      BY <2>1, <3>1
    <3> QED
      BY <2>1, <3>1, <3>2 DEF b
  <2> QED
    BY <2>1, <2>2, <2>3, <2>4
<1> QED
  BY <1>1, GrowsProfit, GrowsBooks, GrowsDues, GrowsStatement DEF ReportInv

\* A change that leaves the type right is growth or does not touch the report.
LEMMA AccountGrows ==
  ASSUME ReportInv, NEW a \in Report!Accounts, Report!CreateAccount(a)
  PROVE  ReportType' /\ Grows
<1>1. /\ chart' = chart \cup {a}
      /\ UNCHANGED <<report, keptInMemory, journals, postings, due, todo, returned, at, profits>>
  BY DEF Report!CreateAccount
<1>2. postings \in Seq(Entries) /\ ReportType /\ SinceInv /\ due \in [Report!Docs -> Nat]
  BY DEF ReportInv, ReportType
<1>3. \A n \in DOMAIN postings : OnBooks(postings[n])'
  BY <1>1, <1>2 DEF ReportType, OnBooks
<1>4. ReportType'
  BY <1>1, <1>2, <1>3 DEF ReportType, Report!Idle, Nothing
<1>5. Continues(postings, postings') /\ \A d \in Report!Docs : due'[d] <= due[d]
  BY <1>1, <1>2 DEF Continues
<1> QED
  BY <1>1, <1>2, <1>4, <1>5 DEF Grows, SinceInv

LEMMA JournalGrows ==
  ASSUME ReportInv, Report!CreateJournal
  PROVE  ReportType' /\ Grows
<1>1. /\ journals' = {1, 2} /\ journals = {1}
      /\ UNCHANGED <<report, keptInMemory, chart, postings, due, todo, returned, at, profits>>
  BY DEF Report!CreateJournal
<1>2. postings \in Seq(Entries) /\ ReportType /\ SinceInv /\ due \in [Report!Docs -> Nat]
  BY DEF ReportInv, ReportType
<1>3. \A n \in DOMAIN postings : OnBooks(postings[n])'
  BY <1>1, <1>2 DEF ReportType, OnBooks
<1>4. IsFiniteSet({1, 2}) /\ {1} \subseteq {1, 2}
  <2>1. IsFiniteSet({1} \cup {2})
    BY FS_Singleton, FS_Union, Zenon
  <2>2. {1} \cup {2} = {1, 2}
    OBVIOUS
  <2> QED
    BY <2>1, <2>2
<1>5. {1, 2} \subseteq Nat
  OBVIOUS
<1>6. ReportType'
  BY <1>1, <1>2, <1>3, <1>4, <1>5 DEF ReportType, Report!Idle, Nothing
<1>7. Continues(postings, postings') /\ \A d \in Report!Docs : due'[d] <= due[d]
  BY <1>1, <1>2 DEF Continues
<1> QED
  BY <1>1, <1>2, <1>4, <1>6, <1>7 DEF Grows, SinceInv

LEMMA EntryGrows ==
  ASSUME ReportInv, NEW e \in Entries, Report!PostEntry(e)
  PROVE  ReportType' /\ Grows
<1>1. /\ postings' = Append(postings, e)
      /\ e.journal \in journals /\ \A i \in DOMAIN e.legs : e.legs[i].account \in chart
      /\ profits' = IF Report!Idle THEN profits
                    ELSE profits \cup {Report!Profit(postings', Report!Accounts)}
      /\ UNCHANGED <<report, keptInMemory, chart, journals, due, todo, returned, at>>
  BY DEF Report!PostEntry
<1>2. postings \in Seq(Entries) /\ ReportType /\ SinceInv /\ due \in [Report!Docs -> Nat]
  BY DEF ReportInv, ReportType
<1>3. /\ postings' \in Seq(Entries) /\ Continues(postings, postings')
      /\ \A n \in DOMAIN postings' : (n \in DOMAIN postings /\ postings'[n] = postings[n]) \/ postings'[n] = e
  BY <1>1, <1>2 DEF Continues
<1>4. \A n \in DOMAIN postings' : OnBooks(postings[n])'
  BY <1>1, <1>2, <1>3 DEF ReportType, OnBooks
<1>5. ReportType'
  BY <1>1, <1>2, <1>3, <1>4 DEF ReportType, Report!Idle, Nothing
<1>6. \A d \in Report!Docs : due'[d] <= due[d]
  BY <1>1, <1>2
<1> QED
  BY <1>1, <1>3, <1>5, <1>6 DEF Grows

LEMMA PaymentGrows ==
  ASSUME ReportInv, NEW d \in Report!Docs, NEW n, Report!RecordPayment(d, n)
  PROVE  ReportType' /\ Grows
<1>1. /\ n \in 1 .. due[d] /\ due' = [due EXCEPT ![d] = @ - n]
      /\ UNCHANGED <<report, keptInMemory, chart, journals, postings, todo, returned, at, profits>>
  BY DEF Report!RecordPayment
<1>2. postings \in Seq(Entries) /\ ReportType /\ SinceInv /\ due \in [Report!Docs -> Nat]
  BY DEF ReportInv, ReportType
<1>3. due[d] \in Nat /\ n \in Nat /\ n <= due[d]
  BY <1>1, <1>2
<1>4. due' \in [Report!Docs -> Nat] /\ \A x \in Report!Docs : due'[x] <= due[x]
  BY <1>1, <1>2, <1>3
<1>5. \A m \in DOMAIN postings : OnBooks(postings[m])'
  BY <1>1, <1>2 DEF ReportType, OnBooks
<1>6. ReportType'
  BY <1>1, <1>2, <1>4, <1>5 DEF ReportType, Report!Idle, Nothing
<1>7. Continues(postings, postings')
  BY <1>1, <1>2 DEF Continues
<1> QED
  BY <1>1, <1>2, <1>4, <1>6, <1>7 DEF Grows, SinceInv

\* The documents, the pieces and the countries are of no matter to the invariant.
LEMMA OthersGrow ==
  ASSUME ReportInv,
         UNCHANGED <<report, keptInMemory, chart, journals, postings, due, todo, returned, at, profits>>
  PROVE  ReportType' /\ Grows
<1>1. postings \in Seq(Entries) /\ ReportType /\ SinceInv /\ due \in [Report!Docs -> Nat]
  BY DEF ReportInv, ReportType
<1>2. \A n \in DOMAIN postings : OnBooks(postings[n])'
  BY <1>1 DEF ReportType, OnBooks
<1>3. ReportType'
  BY <1>1, <1>2 DEF ReportType, Report!Idle, Nothing
<1>4. Continues(postings, postings') /\ \A d \in Report!Docs : due'[d] <= due[d]
  BY <1>1 DEF Continues
<1> QED
  BY <1>1, <1>3, <1>4 DEF Grows, SinceInv

\* Each: one statement for each item, each item once.
Listed(t, w, items) ==
  /\ t \in Seq({w} \X items)
  /\ \A i, j \in DOMAIN t : t[i] = t[j] => i = j
  /\ \A x \in items : \E i \in DOMAIN t : t[i] = <<w, x>>

LEMMA EachIs ==
  ASSUME NEW w, NEW items, IsFiniteSet(items), items \subseteq Nat
  PROVE  Listed(Report!Each(w, items), w, items)
<1> DEFINE c == Cardinality(items)
           f == [n \in 1 .. c |-> CHOOSE i \in items : Cardinality(Below(items, i)) = n - 1]
           t == [n \in 1 .. c |-> <<w, f[n]>>]
<1>1. Report!Each(w, items) = t
  <2>1. Report!Cardinality(items) = c /\ \A i : Report!Cardinality(Below(items, i)) = Cardinality(Below(items, i))
    BY ReportCard
  <2>2. ASSUME NEW n PROVE (CHOOSE i \in items : Report!Cardinality(Below(items, i)) = n - 1)
                            = CHOOSE i \in items : Cardinality(Below(items, i)) = n - 1
    BY <2>1
  <2>3. Report!Each(w, items)
          = [n \in 1 .. c |-> <<w, CHOOSE i \in items : Report!Cardinality(Below(items, i)) = n - 1>>]
    BY <2>1 DEF Report!Each, Below
  <2> QED
    BY <2>2, <2>3
<1>2. c \in Nat
  BY FS_CardinalityType
<1>3. \A n \in 1 .. c : f[n] = CHOOSE i \in items : Cardinality(Below(items, i)) = n - 1
  OBVIOUS
<1> HIDE DEF f
<1>4. Renames(f, 1 .. c, items)
  BY <1>3, RanksList
<1> HIDE DEF c
<1>5. t \in Seq({w} \X items) /\ DOMAIN t = 1 .. c
  BY <1>2, <1>4 DEF Renames
<1>6. \A i, j \in 1 .. c : t[i] = t[j] => i = j
  BY <1>4 DEF Renames
<1>7. \A x \in items : \E i \in 1 .. c : t[i] = <<w, x>>
  BY <1>4 DEF Renames
<1> HIDE DEF t
<1> QED
  BY <1>1, <1>5, <1>6, <1>7 DEF Listed

-----------------------------------------------------------------------------
(* A statement at a time. *)

\* Begun: what a report starts from.
LEMMA StartIs ==
  ASSUME ReportInv, Report!Start
  PROVE  /\ ReportType' /\ SinceInv' /\ ~Report!Idle'
         /\ todo' = [i \in DOMAIN Report!Plan(report) |-> <<Report!Plan(report)[i], 0>>]
         /\ report' = report /\ returned' = Nothing
<1>1. /\ Report!Idle /\ at' # << >>
      /\ at'.book = postings /\ at'.chart = chart /\ at'.due = due
      /\ profits' = {Report!Profit(postings, Report!Accounts)}
      /\ todo' = [i \in DOMAIN Report!Plan(report) |-> <<Report!Plan(report)[i], 0>>]
      /\ UNCHANGED <<report, keptInMemory, chart, journals, postings, due, returned>>
  BY DEF Report!Start
<1>2. postings \in Seq(Entries) /\ ReportType /\ due \in [Report!Docs -> Nat]
  BY DEF ReportInv, ReportType
<1>3. \A n \in DOMAIN postings : OnBooks(postings[n])'
  BY <1>1, <1>2 DEF ReportType, OnBooks
<1>4. ~Report!Idle' /\ returned' = Nothing
  BY <1>1, <1>2 DEF ReportType, Report!Idle
<1>5. ReportType'
  BY <1>1, <1>2, <1>3, <1>4 DEF ReportType, Nothing
<1>6. Continues(postings, postings) /\ \A d \in Report!Docs : due[d] <= due[d]
  BY <1>2 DEF Continues
<1>7. SinceInv'
  BY <1>1, <1>2, <1>6 DEF SinceInv
<1> QED
  BY <1>1, <1>4, <1>5, <1>7

LEMMA PlanIs ==
  /\ report \in {"pnl", "preview"} => Report!Plan(report) = <<"accounts", "balance">>
  /\ report = "fec" => Report!Plan(report) = <<"book", "accounts", "journals">>
  /\ report = "ledger" => Report!Plan(report) = <<"journals", "accounts">>
  /\ report = "receivables" => Report!Plan(report) = <<"invoices">>
  /\ report = "statement" => Report!Plan(report) = <<"opening", "legs">>
<1>1. report \in {"pnl", "preview"} => Report!Plan(report) = <<"accounts", "balance">>
  BY DEF Report!Plan
<1>2. report = "fec" => Report!Plan(report) = <<"book", "accounts", "journals">>
  BY DEF Report!Plan
<1>3. report = "ledger" => Report!Plan(report) = <<"journals", "accounts">>
  BY DEF Report!Plan, Report!LedgerPlan
<1>4. report = "receivables" => Report!Plan(report) = <<"invoices">>
  BY DEF Report!Plan
<1>5. report = "statement" => Report!Plan(report) = <<"opening", "legs">>
  BY DEF Report!Plan
<1> QED
  BY <1>1, <1>2, <1>3, <1>4, <1>5

LEMMA ReportStarts == ASSUME ReportInv, Report!Start PROVE ReportInv'
<1>1. /\ ReportType' /\ SinceInv' /\ ~Report!Idle'
      /\ todo' = [i \in DOMAIN Report!Plan(report) |-> <<Report!Plan(report)[i], 0>>]
      /\ report' = report /\ returned' = Nothing
  BY StartIs
<1>2. report \in {"pnl", "preview"} => todo' = <<<<"accounts", 0>>, <<"balance", 0>>>>
  BY <1>1, PlanIs
<1>3. report = "fec" => todo' = <<<<"book", 0>>, <<"accounts", 0>>, <<"journals", 0>>>>
  BY <1>1, PlanIs
<1>4. report = "ledger" => todo' = <<<<"journals", 0>>, <<"accounts", 0>>>>
  BY <1>1, PlanIs
<1>5. report = "receivables" => todo' = <<<<"invoices", 0>>>>
  BY <1>1, PlanIs
<1>6. report = "statement" => todo' = <<<<"opening", 0>>, <<"legs", 0>>>>
  BY <1>1, PlanIs
<1>7. Nothing' = Nothing
  BY DEF Nothing
<1>8. ProfitInv' /\ FecInv' /\ WalkInv' /\ DuesInv' /\ StatementInv'
  BY <1>1, <1>2, <1>3, <1>4, <1>5, <1>6, <1>7 DEF ProfitInv, FecInv, WalkInv, DuesInv, StatementInv
<1> QED
  BY <1>1, <1>8 DEF ReportInv

\* What a statement leaves alone.
LEMMA ReadIs ==
  ASSUME ReportInv, Report!Read
  PROVE  /\ ReportType' /\ SinceInv' /\ ~Report!Idle /\ ~Report!Idle'
         /\ UNCHANGED <<report, keptInMemory, chart, journals, postings, due, at, profits>>
<1>1. /\ todo # << >> /\ DOMAIN returned' = DOMAIN returned
      /\ UNCHANGED <<report, keptInMemory, chart, journals, postings, due, at, profits>>
  BY DEF Report!Read
<1>2. postings \in Seq(Entries) /\ ReportType /\ SinceInv /\ due \in [Report!Docs -> Nat]
  BY DEF ReportInv, ReportType
<1>3. \A n \in DOMAIN postings : OnBooks(postings[n])'
  BY <1>1, <1>2 DEF ReportType, OnBooks
<1>4. ~Report!Idle /\ ~Report!Idle'
  BY <1>1, <1>2 DEF ReportType, Report!Idle
<1>5. ReportType'
  BY <1>1, <1>2, <1>3, <1>4 DEF ReportType
<1>6. SinceInv'
  BY <1>1, <1>2, <1>4 DEF SinceInv
<1> QED
  BY <1>1, <1>4, <1>5, <1>6

\* What it returns is added, and what follows from it comes next.
LEMMA ReadNext ==
  ASSUME ReportInv, Report!Read, NEW w \in Report!Whats, NEW o, Head(todo) = <<w, o>>,
         ~ (report = "statement" /\ keptInMemory)
  PROVE  /\ returned'[w] = returned[w] \cup Report!Result(w, o)
         /\ \A v \in Report!Whats : v # w => returned'[v] = returned[v]
         /\ todo' = Report!Follow(w, Report!Result(w, o)) \o Tail(todo)
<1>0. Head(todo)[1] = w /\ Head(todo)[2] = o
  OBVIOUS
<1>1. /\ returned' = [returned EXCEPT ![w] = @ \cup Report!Result(w, o)]
      /\ todo' = Report!Follow(w, Report!Result(w, o)) \o Tail(todo)
  BY <1>0 DEF Report!Read
<1>2. DOMAIN returned = Report!Whats
  BY DEF ReportInv, ReportType
<1> HIDE DEF Report!Whats
<1> QED
  BY <1>1, <1>2

LEMMA FollowIs ==
  ASSUME NEW got
  PROVE  /\ report \in {"pnl", "preview", "fec"} => \A w : Report!Follow(w, got) = << >>
         /\ report = "ledger" =>
              /\ Report!Follow("journals", got) = Report!Each("entries", got)
              /\ \A w \in {"entries", "accounts"} : Report!Follow(w, got) = << >>
         /\ report = "receivables" =>
              /\ Report!Follow("invoices", got) = Report!Each("dues", got)
              /\ Report!Follow("dues", got) = << >>
<1>1. report \in {"pnl", "preview", "fec"} => \A w : Report!Follow(w, got) = << >>
  BY DEF Report!Follow
<1>2. report = "ledger" =>
        /\ Report!Follow("journals", got) = Report!Each("entries", got)
        /\ \A w \in {"entries", "accounts"} : Report!Follow(w, got) = << >>
  BY DEF Report!Follow
<1>3. report = "receivables" =>
        /\ Report!Follow("invoices", got) = Report!Each("dues", got)
        /\ Report!Follow("dues", got) = << >>
  BY DEF Report!Follow
<1> QED
  BY <1>1, <1>2, <1>3

LEMMA ResultIs ==
  ASSUME NEW o
  PROVE  /\ Report!Result("accounts", o) = chart /\ Report!Result("journals", o) = journals
         /\ Report!Result("entries", o) = {n \in DOMAIN postings : postings[n].journal = o}
         /\ Report!Result("balance", o) = DOMAIN postings /\ Report!Result("book", o) = DOMAIN postings
         /\ Report!Result("opening", o) = {n \in DOMAIN postings : postings[n].date < Period[1]}
         /\ Report!Result("legs", o)
              = {n \in DOMAIN postings : Period[1] <= postings[n].date /\ postings[n].date <= Period[2]}
         /\ Report!Result("invoices", o) \subseteq Report!Docs
         /\ Report!Result("dues", o) = {<<o, due[o]>>}
<1>1. Report!Result("accounts", o) = chart /\ Report!Result("journals", o) = journals
  BY DEF Report!Result
<1>2. Report!Result("entries", o) = {n \in DOMAIN postings : postings[n].journal = o}
  BY DEF Report!Result, Report!EntriesByJournal
<1>3. Report!Result("balance", o) = DOMAIN postings /\ Report!Result("book", o) = DOMAIN postings
  BY DEF Report!Result, Report!TrialBalance, Report!LedgerBook
<1>4. Report!Result("opening", o) = {n \in DOMAIN postings : postings[n].date < Period[1]}
  BY DEF Report!Result, Report!Before
<1>5. Report!Result("legs", o) = DOMAIN Report!Within(postings, Period[1], Period[2])
  BY DEF Report!Result
<1>6. DOMAIN Report!Within(postings, Period[1], Period[2])
        = {n \in DOMAIN postings : Period[1] <= postings[n].date /\ postings[n].date <= Period[2]}
  BY DEF Report!Within, Report!Restrict
<1>7. Report!Result("invoices", o) = Report!ListDocs("dispatch")
  BY DEF Report!Result
<1>8. Report!ListDocs("dispatch") \subseteq Report!Docs
  BY DEF Report!ListDocs, Report!Newest, Report!Side
<1>9. Report!Result("dues", o) = {<<o, due[o]>>}
  BY DEF Report!Result, Report!InvoiceBalance
<1> QED
  BY <1>1, <1>2, <1>3, <1>4, <1>5, <1>6, <1>7, <1>8, <1>9

LEMMA WhatsAre ==
  \A w \in {"accounts", "journals", "entries", "balance", "book", "opening", "legs", "invoices",
            "dues"} : w \in Report!Whats /\ Nothing[w] = {}
BY DEF Report!Whats, Nothing

LEMMA ReadsProfit ==
  ASSUME ReportInv, Report!Read, report \in {"pnl", "preview"}
  PROVE  ProfitInv'
<1>1. /\ UNCHANGED <<report, chart, postings, at, profits>>
      /\ ~Report!Idle /\ todo # << >>
  BY ReadIs DEF Report!Read
<1>2. /\ postings \in Seq(Entries) /\ at.chart \subseteq chart
      /\ Report!Profit(postings, Report!Accounts) \in profits
  BY <1>1 DEF ReportInv, ReportType, SinceInv
<1>3. CASE todo = <<<<"accounts", 0>>, <<"balance", 0>>>> /\ returned = Nothing
  <2>1. Head(todo) = <<"accounts", 0>> /\ Tail(todo) = <<<<"balance", 0>>>>
    BY <1>3
  <2> DEFINE r == Report!Result("accounts", 0)
  <2>2. r = chart /\ Report!Follow("accounts", r) = << >>
    BY ResultIs, FollowIs
  <2>3. /\ returned'["accounts"] = returned["accounts"] \cup r
        /\ \A v \in Report!Whats : v # "accounts" => returned'[v] = returned[v]
        /\ todo' = Report!Follow("accounts", r) \o Tail(todo)
    BY <2>1, ReadNext, WhatsAre
  <2> HIDE DEF r
  <2>4. /\ returned'["accounts"] = returned["accounts"] \cup chart
        /\ returned'["balance"] = returned["balance"]
        /\ todo' = << >> \o <<<<"balance", 0>>>>
    BY <2>1, <2>2, <2>3, WhatsAre
  <2>5. returned'["accounts"] = chart /\ returned'["balance"] = {} /\ todo' = <<<<"balance", 0>>>>
    BY <1>3, <2>4, WhatsAre
  <2> QED
    BY <1>1, <1>2, <2>5 DEF ProfitInv, ChartRead
<1>4. CASE todo = <<<<"balance", 0>>>> /\ ChartRead /\ returned["balance"] = {}
  <2>1. Head(todo) = <<"balance", 0>> /\ Tail(todo) = << >>
    BY <1>4
  <2> DEFINE r == Report!Result("balance", 0)
  <2>2. r = DOMAIN postings /\ Report!Follow("balance", r) = << >>
    BY ResultIs, FollowIs
  <2>3. /\ returned'["balance"] = returned["balance"] \cup r
        /\ \A v \in Report!Whats : v # "balance" => returned'[v] = returned[v]
        /\ todo' = Report!Follow("balance", r) \o Tail(todo)
    BY <2>1, ReadNext, WhatsAre
  <2> HIDE DEF r
  <2>4. /\ returned'["balance"] = returned["balance"] \cup DOMAIN postings
        /\ returned'["accounts"] = returned["accounts"]
        /\ todo' = << >> \o << >>
    BY <2>1, <2>2, <2>3, WhatsAre
  <2>5. returned'["balance"] = DOMAIN postings /\ todo' = << >> /\ ChartRead'
    BY <1>1, <1>4, <2>4 DEF ChartRead
  <2>6. Report!Restrict(postings, DOMAIN postings) = postings
    BY <1>2 DEF Report!Restrict
  <2> QED
    BY <1>1, <1>2, <2>5, <2>6 DEF ProfitInv
<1> QED
  BY <1>1, <1>3, <1>4 DEF ReportInv, ProfitInv

LEMMA ReadsFec ==
  ASSUME ReportInv, Report!Read, report = "fec"
  PROVE  FecInv'
<1>1. /\ UNCHANGED <<report, chart, journals, postings, at>>
      /\ ~Report!Idle /\ todo # << >>
  BY ReadIs DEF Report!Read
<1>2. /\ postings \in Seq(Entries) /\ \A n \in DOMAIN postings : OnBooks(postings[n])
      /\ Continues(at.book, postings) /\ at.book \in Seq(Entries)
  BY <1>1 DEF ReportInv, ReportType, SinceInv
<1>3. DOMAIN at.book \subseteq DOMAIN postings
  <2> DEFINE b == at.book
  <2>1. b \in Seq(Entries) /\ Continues(b, postings)
    BY <1>2
  <2> HIDE DEF b
  <2>2. DOMAIN b \subseteq DOMAIN postings
    BY <1>2, <2>1 DEF Continues
  <2> QED
    BY <2>2 DEF b
<1>4. ASSUME NEW w \in {"book", "accounts", "journals"}, Head(todo) = <<w, 0>>
      PROVE  /\ returned'[w] = returned[w] \cup Report!Result(w, 0)
             /\ \A v \in {"book", "accounts", "journals"} : v # w => returned'[v] = returned[v]
             /\ todo' = << >> \o Tail(todo)
  BY <1>4, ReadNext, FollowIs, WhatsAre
<1>5. CASE todo = <<<<"book", 0>>, <<"accounts", 0>>, <<"journals", 0>>>> /\ returned = Nothing
  <2>1. Head(todo) = <<"book", 0>> /\ Tail(todo) = <<<<"accounts", 0>>, <<"journals", 0>>>>
    BY <1>5
  <2>2. /\ returned'["book"] = returned["book"] \cup DOMAIN postings
        /\ todo' = << >> \o <<<<"accounts", 0>>, <<"journals", 0>>>>
    BY <1>4, <2>1, ResultIs
  <2>3. returned'["book"] = DOMAIN postings /\ todo' = <<<<"accounts", 0>>, <<"journals", 0>>>>
    <3>1. returned'["book"] = DOMAIN postings
      BY <1>5, <2>2, WhatsAre
    <3>2. \A a, b : << >> \o <<a, b>> = <<a, b>>
      OBVIOUS
    <3> QED
      BY <2>2, <3>1, <3>2
  <2> QED
    BY <1>1, <1>3, <2>3 DEF FecInv, BookRead
<1>6. CASE todo = <<<<"accounts", 0>>, <<"journals", 0>>>> /\ BookRead
  <2>1. Head(todo) = <<"accounts", 0>> /\ Tail(todo) = <<<<"journals", 0>>>>
    BY <1>6
  <2>2. /\ returned'["accounts"] = returned["accounts"] \cup chart
        /\ returned'["book"] = returned["book"]
        /\ todo' = << >> \o <<<<"journals", 0>>>>
    BY <1>4, <2>1, ResultIs
  <2>3. todo' = <<<<"journals", 0>>>> /\ BookRead'
    BY <1>1, <1>6, <2>2 DEF BookRead
  <2>4. AccountsCover(returned["book"])'
    BY <1>1, <1>2, <1>6, <2>2 DEF AccountsCover, BookRead, OnBooks
  <2> QED
    BY <1>1, <2>3, <2>4 DEF FecInv
<1>7. CASE todo = <<<<"journals", 0>>>> /\ BookRead /\ AccountsCover(returned["book"])
  <2>1. Head(todo) = <<"journals", 0>> /\ Tail(todo) = << >>
    BY <1>7
  <2>2. /\ returned'["journals"] = returned["journals"] \cup journals
        /\ returned'["book"] = returned["book"] /\ returned'["accounts"] = returned["accounts"]
        /\ todo' = << >> \o << >>
    BY <1>4, <2>1, ResultIs
  <2>3. todo' = << >> /\ BookRead' /\ AccountsCover(returned["book"])'
    BY <1>1, <1>7, <2>2 DEF BookRead, AccountsCover
  <2>4. JournalsCover(returned["book"])'
    BY <1>1, <1>2, <1>7, <2>2 DEF JournalsCover, BookRead, OnBooks
  <2> QED
    BY <1>1, <2>3, <2>4 DEF FecInv
<1> QED
  BY <1>1, <1>5, <1>6, <1>7 DEF ReportInv, FecInv

LEMMA ReadsStatement ==
  ASSUME ReportInv, Report!Read, report = "statement", keptInMemory
  PROVE  StatementInv'
<1>1. /\ UNCHANGED <<report, keptInMemory, postings, at>>
      /\ ~Report!Idle /\ todo # << >>
  BY ReadIs DEF Report!Read
<1>2. /\ postings \in Seq(Entries) /\ Continues(at.book, postings)
  BY <1>1 DEF ReportInv, ReportType, SinceInv
<1>3. /\ returned' = [returned EXCEPT !["opening"] = Report!Result("opening", 0),
                                      !["legs"] = Report!Result("legs", 0)]
      /\ todo' = << >>
  BY DEF Report!Read
<1>4. DOMAIN returned = Report!Whats
  BY DEF ReportInv, ReportType
<1>5. returned'["opening"] = Report!Result("opening", 0) /\ returned'["legs"] = Report!Result("legs", 0)
  BY <1>3, <1>4, WhatsAre
<1>6. DOMAIN postings = 1 .. Len(postings) /\ Len(postings) \in Nat /\ Len(at.book) <= Len(postings)
  BY <1>2 DEF Continues
<1>7. /\ returned'["opening"] = {n \in 1 .. Len(postings) : postings[n].date < Period[1]}
      /\ returned'["legs"] = FirstDated(Len(postings), Period[1], Period[2])
  BY <1>5, <1>6, ResultIs DEF FirstDated
<1>8. Len(postings) \in 0 .. Len(postings)
  BY <1>6
<1> SUFFICES \E k \in 0 .. Len(postings) :
               /\ Len(at.book) <= k
               /\ returned'["opening"] = {n \in 1 .. k : postings[n].date < Period[1]}
               /\ returned'["legs"] = FirstDated(k, Period[1], Period[2])
  BY <1>1, <1>3 DEF StatementInv, FirstDated
<1> QED
  BY <1>6, <1>7, <1>8

LEMMA ReadsDues ==
  ASSUME ReportInv, Report!Read, report = "receivables"
  PROVE  DuesInv'
<1>1. /\ UNCHANGED <<report, due, at>>
      /\ ~Report!Idle /\ todo # << >>
  BY ReadIs DEF Report!Read
<1>2. /\ due \in [Report!Docs -> Nat] /\ at.due \in [Report!Docs -> Nat]
      /\ \A d \in Report!Docs : due[d] <= at.due[d]
  BY <1>1 DEF ReportInv, ReportType, SinceInv
<1>3. CASE todo = <<<<"invoices", 0>>>> /\ returned = Nothing
  <2> DEFINE r == Report!Result("invoices", 0)
             t == Report!Each("dues", r)
  <2>1. Head(todo) = <<"invoices", 0>> /\ Tail(todo) = << >>
    BY <1>3
  <2>2. r \subseteq Report!Docs
    BY ResultIs
  <2>3. /\ returned'["invoices"] = returned["invoices"] \cup r
        /\ returned'["dues"] = returned["dues"]
        /\ todo' = t \o Tail(todo)
    BY SMTT(30), <2>1, ReadNext, FollowIs, WhatsAre
  <2>4. r \subseteq Nat /\ IsFiniteSet(r)
    BY <2>2, ReportConstants, FS_Subset
  <2>5. Listed(t, "dues", r)
    BY <2>4, EachIs
  <2> HIDE DEF t, r
  <2>6. returned'["invoices"] = r /\ returned'["dues"] = {} /\ todo' = t
    <3>1. t \in Seq({"dues"} \X r)
      BY <2>5 DEF Listed
    <3>2. t \o << >> = t
      BY <3>1
    <3> QED
      BY <1>3, <2>1, <2>3, <3>2, WhatsAre
  <2>7. DuesRead'
    BY <2>6 DEF DuesRead
  <2>8. /\ t \in Seq({"dues"} \X r) /\ t \in Seq({"dues"} \X Report!Docs)
        /\ \A i \in DOMAIN t : t[i] \in {"dues"} \X r
    BY <2>2, <2>5 DEF Listed
  <2>9. \A i \in DOMAIN t : t[i][2] \in r
    BY <2>8
  <2>10. \A d \in r : \E i \in DOMAIN t : t[i][2] = d
    BY <2>5 DEF Listed
  <2> QED
    BY <1>1, <2>2, <2>5, <2>6, <2>7, <2>8, <2>9, <2>10 DEF DuesInv, Listed
<1>4. CASE todo # <<<<"invoices", 0>>>> \/ returned # Nothing
  <2>1. /\ returned["invoices"] \subseteq Report!Docs /\ DuesRead
        /\ todo \in Seq({"dues"} \X Report!Docs)
        /\ \A i \in DOMAIN todo :
             todo[i][2] \in returned["invoices"] /\ \A x \in returned["dues"] : x[1] # todo[i][2]
        /\ \A i, j \in DOMAIN todo : todo[i] = todo[j] => i = j
        /\ \A d \in returned["invoices"] :
             (\E x \in returned["dues"] : x[1] = d) \/ \E i \in DOMAIN todo : todo[i][2] = d
    BY <1>1, <1>4 DEF ReportInv, DuesInv
  <2> DEFINE d == todo[1][2]
  <2>2. /\ Head(todo) = todo[1] /\ todo[1] \in {"dues"} \X Report!Docs /\ 1 \in DOMAIN todo
        /\ Tail(todo) \in Seq({"dues"} \X Report!Docs)
        /\ DOMAIN todo = 1 .. Len(todo) /\ Len(todo) \in Nat /\ Len(todo) > 0
        /\ DOMAIN Tail(todo) = 1 .. Len(todo) - 1
        /\ \A i \in 1 .. Len(todo) - 1 : Tail(todo)[i] = todo[i + 1]
    BY <1>1, <2>1
  <2>3. Head(todo) = <<"dues", d>> /\ d \in Report!Docs
    BY <2>2
  <2>4. d \in returned["invoices"] /\ \A x \in returned["dues"] : x[1] # d
    BY <2>1, <2>2
  <2> DEFINE r == Report!Result("dues", d)
  <2>5. r = {<<d, due[d]>>} /\ Report!Follow("dues", r) = << >>
    BY ResultIs, FollowIs
  <2>6. /\ returned'["dues"] = returned["dues"] \cup r
        /\ returned'["invoices"] = returned["invoices"]
        /\ todo' = Report!Follow("dues", r) \o Tail(todo)
    BY <2>3, ReadNext, WhatsAre
  <2> HIDE DEF r, d
  <2>7. /\ returned'["dues"] = returned["dues"] \cup {<<d, due[d]>>}
        /\ todo' = Tail(todo)
    <3>1. << >> \o Tail(todo) = Tail(todo)
      BY <2>2
    <3> QED
      BY <2>5, <2>6, <3>1
  <2>8. DuesRead'
    <3>1. due[d] \in Nat /\ due[d] <= at.due[d]
      BY <1>2, <2>3
    <3>2. returned'["dues"] \subseteq returned'["invoices"] \X Nat
      BY <2>1, <2>4, <2>6, <2>7, <3>1 DEF DuesRead
    <3>3. \A x \in returned'["dues"] : due[x[1]] <= x[2] /\ x[2] <= at.due[x[1]]
      <4>1. \A x \in returned["dues"] : due[x[1]] <= x[2] /\ x[2] <= at.due[x[1]]
        BY <2>1 DEF DuesRead
      <4> QED
        BY <2>7, <3>1, <4>1
    <3>4. \A x, y \in returned'["dues"] : x[1] = y[1] => x = y
      BY <2>1, <2>4, <2>7 DEF DuesRead
    <3> QED
      BY <1>1, <3>2, <3>3, <3>4 DEF DuesRead
  <2>9. /\ todo' \in Seq({"dues"} \X Report!Docs) /\ DOMAIN todo' = 1 .. Len(todo) - 1
        /\ \A i \in 1 .. Len(todo) - 1 : todo'[i] = todo[i + 1] /\ i + 1 \in DOMAIN todo /\ i + 1 # 1
    BY <2>2, <2>7
  <2>10. \A i \in DOMAIN todo' : todo'[i][2] # d
    <3> TAKE i \in DOMAIN todo'
    <3>1. todo'[i] = todo[i + 1] /\ i + 1 \in DOMAIN todo /\ i + 1 # 1
      BY <2>9
    <3>2. todo[i + 1] # todo[1]
      BY <2>1, <2>2, <3>1
    <3>3. todo[i + 1] \in {"dues"} \X Report!Docs /\ todo[1] = <<"dues", d>>
      BY <2>1, <2>2, <2>3, <3>1
    <3> QED
      BY <3>1, <3>2, <3>3
  <2>11. \A i \in DOMAIN todo' :
           todo'[i][2] \in returned'["invoices"] /\ \A x \in returned'["dues"] : x[1] # todo'[i][2]
    BY <2>1, <2>6, <2>7, <2>9, <2>10
  <2>12. \A i, j \in DOMAIN todo' : todo'[i] = todo'[j] => i = j
    <3> SUFFICES ASSUME NEW i \in DOMAIN todo', NEW j \in DOMAIN todo', todo'[i] = todo'[j]
                 PROVE  i = j
      OBVIOUS
    <3>1. i + 1 = j + 1
      BY <2>1, <2>9
    <3>2. i \in 1 .. Len(todo) - 1 /\ j \in 1 .. Len(todo) - 1
      BY <2>9
    <3> QED
      BY <2>2, <3>1, <3>2
  <2>13. \A e \in returned'["invoices"] :
           (\E x \in returned'["dues"] : x[1] = e) \/ \E i \in DOMAIN todo' : todo'[i][2] = e
    <3> TAKE e \in returned'["invoices"]
    <3>1. CASE \E x \in returned["dues"] : x[1] = e
      BY <2>7, <3>1
    <3>2. CASE e = d
      <4>1. <<d, due[d]>> \in returned'["dues"] /\ <<d, due[d]>>[1] = d
        BY <2>7
      <4> QED
        BY <3>2, <4>1
    <3>3. ASSUME NEW i \in DOMAIN todo, todo[i][2] = e, e # d
          PROVE  \E k \in DOMAIN todo' : todo'[k][2] = e
      <4>1. i # 1
        BY <3>3 DEF d
      <4>2. i - 1 \in 1 .. Len(todo) - 1 /\ (i - 1) + 1 = i
        BY <2>2, <4>1
      <4> QED
        BY <2>9, <3>3, <4>2
    <3> QED
      BY <2>1, <2>6, <3>1, <3>2, <3>3
  <2> QED
    BY <1>1, <2>1, <2>6, <2>8, <2>9, <2>11, <2>12, <2>13 DEF DuesInv
<1> QED
  BY <1>3, <1>4

LEMMA ReadsLedger ==
  ASSUME ReportInv, Report!Read, report = "ledger"
  PROVE  WalkInv'
<1>1. /\ UNCHANGED <<report, chart, journals, postings, at>>
      /\ ~Report!Idle /\ todo # << >>
  BY ReadIs DEF Report!Read
<1>2. /\ postings \in Seq(Entries) /\ \A n \in DOMAIN postings : OnBooks(postings[n])
      /\ journals \subseteq Nat /\ IsFiniteSet(journals)
  BY DEF ReportInv, ReportType
<1>3. DOMAIN at.book \subseteq DOMAIN postings
  <2> DEFINE b == at.book
  <2>1. b \in Seq(Entries) /\ Continues(b, postings)
    BY <1>1 DEF ReportInv, SinceInv
  <2> HIDE DEF b
  <2>2. DOMAIN b \subseteq DOMAIN postings
    BY <1>2, <2>1 DEF Continues
  <2> QED
    BY <2>2 DEF b
<1>4. CASE todo = <<<<"journals", 0>>, <<"accounts", 0>>>> /\ returned = Nothing
  <2> DEFINE r == Report!Result("journals", 0)
             t == Report!Each("entries", r)
             last == <<<<"accounts", 0>>>>
             all == t \o last
  <2>1. Head(todo) = <<"journals", 0>> /\ Tail(todo) = last
    BY <1>4
  <2>2. r = journals
    BY ResultIs
  <2>3. /\ returned'["journals"] = returned["journals"] \cup r
        /\ returned'["entries"] = returned["entries"]
        /\ todo' = all
    <3>1. Report!Follow("journals", r) = t
      BY FollowIs
    <3> HIDE DEF t
    <3>2. /\ returned'["journals"] = returned["journals"] \cup r
          /\ \A v \in Report!Whats : v # "journals" => returned'[v] = returned[v]
          /\ todo' = Report!Follow("journals", r) \o Tail(todo)
      BY <2>1, ReadNext, WhatsAre
    <3> HIDE DEF r, last
    <3> QED
      BY <2>1, <3>1, <3>2, WhatsAre
  <2>4. Listed(t, "entries", journals)
    BY <1>2, <2>2, EachIs
  <2> HIDE DEF t, r
  <2>5. returned'["journals"] = journals /\ returned'["entries"] = {}
    BY <1>4, <2>2, <2>3, WhatsAre
  <2>6. /\ t \in Seq({"entries"} \X journals)
        /\ t \in Seq({"entries", "accounts"} \X Nat)
        /\ last \in Seq({"entries", "accounts"} \X Nat)
    <3>1. t \in Seq({"entries"} \X journals)
      BY <2>4 DEF Listed
    <3>2. {"entries"} \X journals \subseteq {"entries", "accounts"} \X Nat
      BY <1>2
    <3>3. t \in Seq({"entries", "accounts"} \X Nat)
      BY <3>1, <3>2
    <3>4. <<"accounts", 0>> \in {"entries", "accounts"} \X Nat
      OBVIOUS
    <3>5. last \in Seq({"entries", "accounts"} \X Nat)
      BY <3>4
    <3> QED
      BY <3>1, <3>3, <3>5
  <2>7. /\ Len(t) \in Nat /\ DOMAIN t = 1 .. Len(t)
        /\ all \in Seq({"entries", "accounts"} \X Nat)
        /\ Len(all) = Len(t) + 1 /\ DOMAIN all = 1 .. Len(t) + 1
        /\ all[Len(t) + 1] = <<"accounts", 0>>
        /\ \A i \in 1 .. Len(t) : all[i] = t[i]
    BY <2>6
  <2> HIDE DEF all
  <2>8. \A i \in 1 .. Len(t) : \E j \in journals : all[i] = <<"entries", j>>
    <3>1. \A i \in DOMAIN t : t[i] \in {"entries"} \X journals
      BY <2>6
    <3>2. \A i \in DOMAIN t : \E j \in journals : t[i] = <<"entries", j>>
      BY <3>1
    <3> QED
      BY <2>7, <3>2
  <2>9. AccountsLast'
    <3>1. Len(todo') > 0 /\ todo'[Len(todo')] = <<"accounts", 0>> /\ Len(todo') - 1 = Len(t)
      BY <2>3, <2>7
    <3> QED
      BY <2>3, <2>5, <2>8, <3>1 DEF AccountsLast
  <2>10. \A n \in DOMAIN at.book : Walking(postings[n].journal)'
    <3> TAKE n \in DOMAIN at.book
    <3>1. postings[n].journal \in journals
      BY <1>2, <1>3 DEF OnBooks
    <3>2. \E i \in DOMAIN t : t[i] = <<"entries", postings[n].journal>>
      BY <2>4, <3>1 DEF Listed
    <3>3. \E i \in DOMAIN all : all[i] = <<"entries", postings[n].journal>>
      BY <2>7, <3>2
    <3> QED
      BY <1>1, <2>3, <3>3 DEF Walking
  <2>11. WalkRead'
    BY <2>5 DEF WalkRead, JournalsCover
  <2> QED
    BY <1>1, <2>3, <2>5, <2>7, <2>9, <2>10, <2>11 DEF WalkInv
<1>5. ASSUME todo # <<<<"journals", 0>>, <<"accounts", 0>>>> \/ returned # Nothing
      PROVE  /\ todo \in Seq({"entries", "accounts"} \X Nat) /\ AccountsLast
             /\ returned["journals"] \subseteq journals /\ WalkRead
             /\ \A n \in DOMAIN at.book : n \in returned["entries"] \/ Walking(postings[n].journal)
  BY <1>1, <1>5 DEF ReportInv, WalkInv
<1>6. ASSUME todo # <<<<"journals", 0>>, <<"accounts", 0>>>> \/ returned # Nothing,
             NEW w \in {"entries", "accounts"}, NEW o, Head(todo) = <<w, o>>
      PROVE  /\ returned'[w] = returned[w] \cup Report!Result(w, o)
             /\ \A v \in {"entries", "accounts", "journals"} : v # w => returned'[v] = returned[v]
             /\ todo' = Tail(todo)
  <2>1. /\ returned'[w] = returned[w] \cup Report!Result(w, o)
        /\ \A v \in {"entries", "accounts", "journals"} : v # w => returned'[v] = returned[v]
        /\ todo' = << >> \o Tail(todo)
    BY SMTT(30), <1>6, ReadNext, FollowIs, WhatsAre
  <2>2. Tail(todo) \in Seq({"entries", "accounts"} \X Nat)
    BY <1>1, <1>5, <1>6
  <2>3. << >> \o Tail(todo) = Tail(todo)
    BY <2>2
  <2> QED
    BY <2>1, <2>3
<1>7. CASE (todo # <<<<"journals", 0>>, <<"accounts", 0>>>> \/ returned # Nothing) /\ Len(todo) = 1
  <2>0. /\ todo \in Seq({"entries", "accounts"} \X Nat)
        /\ Len(todo) = 1 /\ todo[Len(todo)] = <<"accounts", 0>>
    BY <1>5, <1>7 DEF AccountsLast
  <2>1. Head(todo) = <<"accounts", 0>> /\ Tail(todo) = << >> /\ DOMAIN todo = {1}
        /\ todo[1] = <<"accounts", 0>>
    <3> DEFINE P == {"entries", "accounts"} \X Nat
    <3>0. todo \in Seq(P) /\ Len(todo) = 1 /\ todo[1] = <<"accounts", 0>>
      BY <2>0
    <3> HIDE DEF P
    <3>1. DOMAIN todo = 1 .. 1 /\ Head(todo) = todo[1] /\ todo[1] = <<"accounts", 0>>
      BY <3>0
    <3>2. Tail(todo) \in Seq(P) /\ Len(Tail(todo)) = 0
      BY SMTT(30), <3>0
    <3>5. \A S : \A t \in Seq(S) : Len(t) = 0 => t = << >>
      OBVIOUS
    <3>3. Tail(todo) = << >>
      BY <3>2, <3>5
    <3>4. 1 .. 1 = {1}
      OBVIOUS
    <3> QED
      BY <3>1, <3>3, <3>4
  <2>2. /\ returned'["accounts"] = returned["accounts"] \cup chart
        /\ returned'["entries"] = returned["entries"] /\ returned'["journals"] = returned["journals"]
        /\ todo' = << >>
    BY <1>6, <1>7, <2>1, ResultIs
  <2>3. \A j : ~Walking(j)
    BY <2>1 DEF Walking
  <2>4. WalkRead' /\ AccountsCover(returned["entries"])'
    BY <1>1, <1>2, <1>5, <1>7, <2>2 DEF WalkRead, JournalsCover, AccountsCover, OnBooks
  <2> QED
    BY <1>1, <1>5, <1>7, <2>2, <2>3, <2>4 DEF WalkInv
<1>8. CASE (todo # <<<<"journals", 0>>, <<"accounts", 0>>>> \/ returned # Nothing) /\ Len(todo) # 1
  <2>1. /\ Len(todo) \in Nat /\ Len(todo) > 1 /\ DOMAIN todo = 1 .. Len(todo)
        /\ Head(todo) = todo[1]
        /\ Tail(todo) \in Seq({"entries", "accounts"} \X Nat)
        /\ Len(Tail(todo)) = Len(todo) - 1 /\ DOMAIN Tail(todo) = 1 .. Len(todo) - 1
        /\ \A i \in 1 .. Len(todo) - 1 : Tail(todo)[i] = todo[i + 1]
    <3> DEFINE P == {"entries", "accounts"} \X Nat
    <3>1. todo \in Seq(P) /\ Len(todo) > 0 /\ Len(todo) # 1
      BY <1>5, <1>8 DEF AccountsLast
    <3> HIDE DEF P
    <3>2. Len(todo) \in Nat /\ Len(todo) > 1 /\ DOMAIN todo = 1 .. Len(todo)
      BY <3>1
    <3>3. /\ Head(todo) = todo[1] /\ Tail(todo) \in Seq(P)
          /\ Len(Tail(todo)) = Len(todo) - 1 /\ DOMAIN Tail(todo) = 1 .. Len(todo) - 1
          /\ \A i \in 1 .. Len(todo) - 1 : Tail(todo)[i] = todo[i + 1]
      BY <3>1
    <3> QED
      BY <3>2, <3>3 DEF P
  <2>2. PICK j \in returned["journals"] : todo[1] = <<"entries", j>>
    BY <1>5, <1>8, <2>1 DEF AccountsLast
  <2> DEFINE r == Report!Result("entries", j)
  <2>3. r = {n \in DOMAIN postings : postings[n].journal = j}
    BY ResultIs
  <2>4. /\ returned'["entries"] = returned["entries"] \cup r
        /\ returned'["journals"] = returned["journals"]
        /\ todo' = Tail(todo)
    BY <1>6, <1>8, <2>1, <2>2
  <2> HIDE DEF r
  <2>5. AccountsLast'
    <3>1. /\ Len(todo') > 0 /\ Len(todo') = Len(todo) - 1 /\ todo'[Len(todo')] = todo[Len(todo)]
          /\ \A i \in 1 .. Len(todo') - 1 : todo'[i] = todo[i + 1] /\ i + 1 \in 1 .. Len(todo) - 1
      BY <2>1, <2>4
    <3> QED
      BY <1>5, <1>8, <2>4, <3>1 DEF AccountsLast
  <2>6. WalkRead'
    <3>1. /\ returned'["entries"] \subseteq DOMAIN postings
          /\ \A n \in returned'["entries"] : postings[n].journal \in returned["journals"]
      BY <1>5, <1>8, <2>2, <2>3, <2>4 DEF WalkRead, JournalsCover
    <3> QED
      BY <1>1, <2>4, <3>1 DEF WalkRead, JournalsCover
  <2>7. \A n \in DOMAIN at.book : n \in returned'["entries"] \/ Walking(postings[n].journal)'
    <3> TAKE n \in DOMAIN at.book
    <3> DEFINE k == postings[n].journal
    <3>1. n \in DOMAIN postings /\ (n \in returned["entries"] \/ Walking(k))
      BY <1>3, <1>5, <1>8
    <3>2. CASE n \in returned["entries"] \/ k = j
      BY <2>3, <2>4, <3>1, <3>2
    <3>3. CASE Walking(k) /\ k # j
      <4>1. PICK i \in DOMAIN todo : todo[i] = <<"entries", k>>
        BY <3>3 DEF Walking
      <4>2. i # 1
        BY <2>2, <3>3, <4>1
      <4>3. i - 1 \in 1 .. Len(todo) - 1 /\ (i - 1) + 1 = i
        BY <2>1, <4>2
      <4>4. todo'[i - 1] = <<"entries", k>> /\ i - 1 \in DOMAIN todo'
        BY <2>1, <2>4, <4>1, <4>3
      <4>5. k' = k
        BY <1>1
      <4> HIDE DEF k
      <4> QED
        BY <4>4, <4>5 DEF Walking, k
    <3> QED
      BY <3>1, <3>2, <3>3
  <2> QED
    BY <1>1, <1>5, <1>8, <2>1, <2>4, <2>5, <2>6, <2>7 DEF WalkInv
<1> QED
  BY <1>4, <1>7, <1>8

LEMMA ReportReads == ASSUME ReportInv, Report!Read PROVE ReportInv'
<1>1. /\ ReportType' /\ SinceInv'
      /\ UNCHANGED <<report, keptInMemory>>
  BY ReadIs
<1>2. ProfitInv'
  BY <1>1, ReadsProfit DEF ProfitInv
<1>3. FecInv'
  BY <1>1, ReadsFec DEF FecInv
<1>4. WalkInv'
  BY <1>1, ReadsLedger DEF WalkInv
<1>5. DuesInv'
  BY <1>1, ReadsDues DEF DuesInv
<1>6. StatementInv'
  BY <1>1, ReadsStatement DEF StatementInv
<1> QED
  BY <1>1, <1>2, <1>3, <1>4, <1>5, <1>6 DEF ReportInv

LEMMA ReportStays == ASSUME ReportInv, UNCHANGED reportVars PROVE ReportInv'
<1>1. ReportType' /\ Grows
  BY OthersGrow DEF reportVars
<1> QED
  BY <1>1, GrowsInv

LEMMA ReportMoves == ASSUME ReportInv, Report!Next PROVE ReportInv'
<1>1. CASE Report!Start
  BY <1>1, ReportStarts
<1>2. CASE Report!Read
  BY <1>2, ReportReads
<1>3. ASSUME NEW a \in Report!Accounts, Report!CreateAccount(a) PROVE ReportInv'
  BY <1>3, AccountGrows, GrowsInv
<1>4. CASE Report!CreateJournal
  BY <1>4, JournalGrows, GrowsInv
<1>5. ASSUME NEW e \in Entries, Report!PostEntry(e) PROVE ReportInv'
  BY <1>5, EntryGrows, GrowsInv
<1>6. ASSUME NEW d, NEW to, Report!SetStatus(d, to) PROVE ReportInv'
  <2>1. UNCHANGED <<report, keptInMemory, chart, journals, postings, due, todo, returned, at, profits>>
    BY <1>6 DEF Report!SetStatus
  <2> QED
    BY <2>1, OthersGrow, GrowsInv
<1>7. ASSUME NEW d \in Report!Side("dispatch"), NEW n, Report!RecordPayment(d, n) PROVE ReportInv'
  <2>1. d \in Report!Docs
    BY DEF Report!Side
  <2> QED
    BY <1>7, <2>1, PaymentGrows, GrowsInv
<1>8. ASSUME NEW p, NEW v, NEW w, Report!Transfer(p, v, w) PROVE ReportInv'
  <2>1. UNCHANGED <<report, keptInMemory, chart, journals, postings, due, todo, returned, at, profits>>
    BY <1>8 DEF Report!Transfer
  <2> QED
    BY <2>1, OthersGrow, GrowsInv
<1>9. ASSUME NEW o, Report!UpdateOrg(o) PROVE ReportInv'
  <2>1. UNCHANGED <<report, keptInMemory, chart, journals, postings, due, todo, returned, at, profits>>
    BY <1>9 DEF Report!UpdateOrg
  <2> QED
    BY <2>1, OthersGrow, GrowsInv
<1> QED
  BY <1>1, <1>2, <1>3, <1>4, <1>5, <1>6, <1>7, <1>8, <1>9 DEF Report!Next

LEMMA ReportSteps == ASSUME ReportInv, [MCNext]_allVars PROVE ReportInv'
<1>1. CASE UNCHANGED reportVars
  BY <1>1, ReportStays
<1>2. CASE MCNext /\ ~UNCHANGED reportVars
  <2>1. Report!Next
    BY <1>2
    DEF MCNext, InRows, InSeats, InTill, InPayment, InLoan, InAsset, InSupply, InBank, InReport,
        Report!Next
  <2> QED
    BY <2>1, ReportMoves
<1> QED
  BY <1>1, <1>2 DEF allVars

-----------------------------------------------------------------------------
(* The sums of a report. *)

LEMMA LegsAddUp ==
  ASSUME NEW e, NEW A, NEW side, NEW f, \A i \in Report!Legs(e, A) : f[i] = e.legs[i][side]
  PROVE  Report!SumOver(e, A, side) = SumOf(f, Report!Legs(e, A))
<1> DEFINE S == Report!Legs(e, A)
           next(g, s) == IF s = {} THEN 0 ELSE e.legs[Pick(s)][side] + g[s \ {Pick(s)}]
<1>1. \A g : \A s \in SUBSET S : next(g, s) = Unfold(f, g, s)
  BY PickIn DEF Unfold
<1>2. Report!SumOver(e, A, side) = (CHOOSE g : g = [s \in SUBSET S |-> next(g, s)])[S]
  BY DEF Report!SumOver, Report!MapThenSumSet, Report!MapThenFoldSet, Pick
<1> HIDE DEF next
<1>3. \A g : [s \in SUBSET S |-> next(g, s)] = [s \in SUBSET S |-> Unfold(f, g, s)]
  BY <1>1
<1> QED
  BY <1>2, <1>3, SumDef

LEMMA EntriesAddUp ==
  ASSUME NEW entries, NEW A, NEW side,
         NEW f, \A n \in DOMAIN entries : f[n] = Report!SumOver(entries[n], A, side)
  PROVE  Report!Sum(entries, A, side) = SumOf(f, DOMAIN entries)
<1> DEFINE S == DOMAIN entries
           next(g, s) == IF s = {} THEN 0
                         ELSE Report!SumOver(entries[Pick(s)], A, side) + g[s \ {Pick(s)}]
<1>1. \A g : \A s \in SUBSET S : next(g, s) = Unfold(f, g, s)
  BY PickIn DEF Unfold
<1>2. Report!Sum(entries, A, side) = (CHOOSE g : g = [s \in SUBSET S |-> next(g, s)])[S]
  BY DEF Report!Sum, Report!MapThenSumSet, Report!MapThenFoldSet, Pick
<1> HIDE DEF next
<1>3. \A g : [s \in SUBSET S |-> next(g, s)] = [s \in SUBSET S |-> Unfold(f, g, s)]
  BY <1>1
<1> QED
  BY <1>2, <1>3, SumDef

LEMMA BalancesAddUp ==
  ASSUME NEW entries, NEW S, NEW f, \A a \in S : f[a] = Report!Balance(entries, a)
  PROVE  Report!MapThenSumSet(LAMBDA a : Report!Balance(entries, a), S) = SumOf(f, S)
<1> DEFINE next(g, s) == IF s = {} THEN 0 ELSE Report!Balance(entries, Pick(s)) + g[s \ {Pick(s)}]
<1>1. \A g : \A s \in SUBSET S : next(g, s) = Unfold(f, g, s)
  BY PickIn DEF Unfold
<1>2. Report!MapThenSumSet(LAMBDA a : Report!Balance(entries, a), S)
        = (CHOOSE g : g = [s \in SUBSET S |-> next(g, s)])[S]
  BY DEF Report!MapThenSumSet, Report!MapThenFoldSet, Pick
<1> HIDE DEF next
<1>3. \A g : [s \in SUBSET S |-> next(g, s)] = [s \in SUBSET S |-> Unfold(f, g, s)]
  BY <1>1
<1> QED
  BY <1>2, <1>3, SumDef

\* What an entry puts on accounts: nothing, if it is on none of them.
LEMMA SumOverIs ==
  ASSUME NEW e \in Entries, NEW A, NEW side \in {"debit", "credit"}
  PROVE  /\ Report!SumOver(e, A, side) \in Nat
         /\ Report!Legs(e, A) = {} => Report!SumOver(e, A, side) = 0
<1> DEFINE S == Report!Legs(e, A)
           f == [i \in S |-> e.legs[i][side]]
<1>1. S \subseteq DOMAIN e.legs /\ IsFiniteSet(DOMAIN e.legs)
  BY EntryIs, FirstAreFinite DEF Report!Legs
<1>2. IsFiniteSet(S)
  BY <1>1, FS_Subset
<1>3. \A i \in S : f[i] = e.legs[i][side]
  OBVIOUS
<1>4. \A i \in S : f[i] \in Nat
  BY <1>1, EntryIs
<1> HIDE DEF f
<1>5. Report!SumOver(e, A, side) = SumOf(f, S)
  BY <1>3, LegsAddUp
<1>6. SumOf(f, S) \in Nat
  BY <1>2, <1>4, SumGrows
<1> HIDE DEF S
<1>7. S = {} => SumOf(f, S) = 0
  BY SumEmpty
<1> QED
  BY <1>5, <1>6, <1>7 DEF S

\* Entries of the book, and what each puts on accounts.
Picked(set) == Report!Restrict(postings, set)
Puts(A, side) == [n \in DOMAIN postings |-> Report!SumOver(postings[n], A, side)]

LEMMA PickedSum ==
  ASSUME postings \in Seq(Entries), NEW set, set \subseteq DOMAIN postings, NEW A,
         NEW side \in {"debit", "credit"}
  PROVE  /\ IsFiniteSet(set) /\ \A n \in set : Puts(A, side)[n] \in Nat
         /\ Report!Sum(Picked(set), A, side) = SumOf(Puts(A, side), set)
         /\ SumOf(Puts(A, side), set) \in Nat
         /\ (\A n \in set : Report!Legs(postings[n], A) = {}) => SumOf(Puts(A, side), set) = 0
<1> DEFINE f == Puts(A, side)
<1>1. DOMAIN postings = 1 .. Len(postings) /\ Len(postings) \in Nat
      /\ \A n \in DOMAIN postings : postings[n] \in Entries
  OBVIOUS
<1>2. IsFiniteSet(DOMAIN postings)
  BY <1>1, FirstAreFinite
<1>3. IsFiniteSet(set)
  BY <1>2, FS_Subset
<1>4. \A n \in set : f[n] = Report!SumOver(postings[n], A, side)
  BY DEF Puts
<1>5. DOMAIN Picked(set) = set /\ \A n \in set : Picked(set)[n] = postings[n]
  BY DEF Picked, Report!Restrict
<1> HIDE DEF f
<1>6. Report!Sum(Picked(set), A, side) = SumOf(f, set)
  BY <1>4, <1>5, EntriesAddUp
<1>7. \A n \in set : f[n] \in Nat /\ (Report!Legs(postings[n], A) = {} => f[n] = 0)
  BY <1>1, <1>4, SumOverIs
<1>8. SumOf(f, set) \in Nat
  BY <1>3, <1>7, SumGrows
<1>9. (\A n \in set : f[n] = 0) => SumOf(f, set) = 0
  BY <1>3, SumZero
<1> QED
  BY <1>3, <1>6, <1>7, <1>8, <1>9 DEF f

-----------------------------------------------------------------------------
(* What reports say. *)

\* The store in memory: the parts of a statement are of the same entries.
LEMMA StatementsAgree ==
  ASSUME ReportInv, Report!Done, report = "statement", keptInMemory, postings = at.book, NEW a
  PROVE  Report!AccountClosing(a) = Report!DrillAccount(postings, a, Period[1], Period[2]).closing
<1> DEFINE X == {n \in DOMAIN postings : postings[n].date < Period[1]}
           Y == {n \in DOMAIN postings : Period[1] <= postings[n].date /\ postings[n].date <= Period[2]}
           d == Puts({a}, "debit")
           c == Puts({a}, "credit")
<1>1. postings \in Seq(Entries) /\ ~Report!Idle /\ todo = << >>
  BY DEF ReportInv, ReportType, Report!Done
<1>2. returned["opening"] = X /\ returned["legs"] = Y
  <2>1. PICK k \in 0 .. Len(postings) :
          /\ Len(at.book) <= k
          /\ returned["opening"] = {n \in 1 .. k : postings[n].date < Period[1]}
          /\ returned["legs"] = FirstDated(k, Period[1], Period[2])
    BY <1>1 DEF ReportInv, StatementInv
  <2>2. Len(postings) \in Nat /\ DOMAIN postings = 1 .. Len(postings) /\ Len(postings) <= k
    BY <1>1, <2>1
  <2>3. k = Len(postings)
    BY <2>2
  <2> QED
    BY <2>1, <2>2, <2>3 DEF FirstDated
<1>3. X \subseteq DOMAIN postings /\ Y \subseteq DOMAIN postings
  OBVIOUS
<1>4. X \cap Y = {}
  <2>1. \A n \in DOMAIN postings : postings[n].date \in Nat
    BY <1>1, EntryIs
  <2> QED
    BY <2>1, ReportConstants
<1>5. Report!Within(postings, Period[1], Period[2]) = Picked(Y)
  BY DEF Report!Within, Picked
<1> HIDE DEF X, Y, d, c
<1>6. /\ IsFiniteSet(X) /\ IsFiniteSet(Y)
      /\ \A n \in X \cup Y : d[n] \in Nat /\ c[n] \in Nat
  BY <1>1, <1>3, PickedSum DEF d, c
<1>7. /\ SumOf(d, X \cup Y) = SumOf(d, X) + SumOf(d, Y)
      /\ SumOf(c, X \cup Y) = SumOf(c, X) + SumOf(c, Y)
  BY <1>4, <1>6, SumUnion
<1>8. /\ Report!Sum(Picked(X \cup Y), {a}, "debit") = SumOf(d, X \cup Y)
      /\ Report!Sum(Picked(X \cup Y), {a}, "credit") = SumOf(c, X \cup Y)
      /\ Report!Sum(Picked(X), {a}, "debit") = SumOf(d, X)
      /\ Report!Sum(Picked(X), {a}, "credit") = SumOf(c, X)
      /\ Report!Sum(Picked(Y), {a}, "debit") = SumOf(d, Y)
      /\ Report!Sum(Picked(Y), {a}, "credit") = SumOf(c, Y)
      /\ SumOf(d, X) \in Nat /\ SumOf(c, X) \in Nat /\ SumOf(d, Y) \in Nat /\ SumOf(c, Y) \in Nat
  <2>1. X \cup Y \subseteq DOMAIN postings
    BY <1>3
  <2> QED
    BY <1>1, <1>3, <2>1, PickedSum DEF d, c
<1>9. Report!AccountClosing(a) = SumOf(d, X \cup Y) - SumOf(c, X \cup Y)
  BY <1>2, <1>8 DEF Report!AccountClosing, Picked
<1>10. Report!DrillAccount(postings, a, Period[1], Period[2]).closing
         = (SumOf(d, X) - SumOf(c, X)) + (SumOf(d, Y) - SumOf(c, Y))
  <2>1. Picked(X) = Report!Restrict(postings, {n \in DOMAIN postings : postings[n].date < Period[1]})
    BY DEF Picked, X
  <2> QED
    BY <1>5, <1>8, <2>1 DEF Report!DrillAccount
<1> QED
  BY <1>7, <1>8, <1>9, <1>10

\* An account that is not there has no balance.
LEMMA ChartSuffices ==
  ASSUME ReportInv, NEW set, set \subseteq DOMAIN postings
  PROVE  Report!Profit(Picked(set), chart) = Report!Profit(Picked(set), Report!Accounts)
<1>1. /\ postings \in Seq(Entries) /\ chart \subseteq Report!Accounts
      /\ \A n \in DOMAIN postings : OnBooks(postings[n])
  BY DEF ReportInv, ReportType
<1> DEFINE f == [a \in Report!Accounts |-> Report!Balance(Picked(set), a)]
<1>2. \A a \in Report!Accounts : f[a] \in Int /\ (a \notin chart => f[a] = 0)
  <2> TAKE a \in Report!Accounts
  <2> DEFINE d == Report!Sum(Picked(set), {a}, "debit")
             c == Report!Sum(Picked(set), {a}, "credit")
  <2>1. d \in Nat /\ c \in Nat
    BY <1>1, PickedSum
  <2>2. ASSUME a \notin chart PROVE d = 0 /\ c = 0
    <3>1. \A n \in set : Report!Legs(postings[n], {a}) = {}
      BY <1>1, <2>2 DEF OnBooks, Report!Legs
    <3> QED
      BY <1>1, <3>1, PickedSum
  <2>3. f[a] = IF AccountType[a] \in {"revenue", "equity", "liability"} THEN c - d ELSE d - c
    BY DEF Report!Balance, Report!SignedBalance
  <2> HIDE DEF d, c, f
  <2> QED
    BY <2>1, <2>2, <2>3
<1>3. \A a \in Report!Accounts : f[a] = Report!Balance(Picked(set), a)
  OBVIOUS
<1> HIDE DEF f
<1>4. ASSUME NEW type
      PROVE  Report!MapThenSumSet(LAMBDA a : Report!Balance(Picked(set), a), Report!OfType(chart, type))
               = Report!MapThenSumSet(LAMBDA a : Report!Balance(Picked(set), a),
                                      Report!OfType(Report!Accounts, type))
  <2> DEFINE S == Report!OfType(Report!Accounts, type)
             T == Report!OfType(chart, type)
  <2>1. S \subseteq Report!Accounts /\ T \in SUBSET S /\ \A a \in S \ T : a \notin chart
    BY <1>1 DEF Report!OfType
  <2>2. IsFiniteSet(S)
    BY <2>1, ReportConstants, FS_Subset
  <2> HIDE DEF S, T
  <2>3. SumOf(f, S) = SumOf(f, T)
    BY <1>2, <2>1, <2>2, SumPart
  <2>4. \A a \in S : f[a] = Report!Balance(Picked(set), a)
    BY <1>3, <2>1
  <2>5. Report!MapThenSumSet(LAMBDA a : Report!Balance(Picked(set), a), S) = SumOf(f, S)
    BY <2>4, BalancesAddUp
  <2>6. Report!MapThenSumSet(LAMBDA a : Report!Balance(Picked(set), a), T) = SumOf(f, T)
    BY <2>1, <2>4, BalancesAddUp
  <2> QED
    BY <2>3, <2>5, <2>6 DEF S, T
<1> DEFINE Total(accounts, type) ==
             Report!MapThenSumSet(LAMBDA a : Report!Balance(Picked(set), a),
                                  Report!OfType(accounts, type))
<1>5. /\ Total(chart, "revenue") = Total(Report!Accounts, "revenue")
      /\ Total(chart, "expense") = Total(Report!Accounts, "expense")
  BY <1>4
<1>6. \A accounts : Report!Profit(Picked(set), accounts) = Total(accounts, "revenue") - Total(accounts, "expense")
  BY DEF Report!Profit
<1> HIDE DEF Total
<1> QED
  BY <1>5, <1>6

LEMMA ProfitWasSo == ReportInv => Report!ProfitIsOfAMoment
<1> SUFFICES ASSUME ReportInv, Report!Done, report \in {"pnl", "preview"}, chart = at.chart
             PROVE  Report!Net \in profits
  BY DEF Report!ProfitIsOfAMoment
<1>1. ~Report!Idle /\ todo = << >>
  BY DEF Report!Done
<1>2. /\ ChartRead /\ returned["balance"] \subseteq DOMAIN postings
      /\ Report!Profit(Picked(returned["balance"]), Report!Accounts) \in profits
  BY <1>1 DEF ReportInv, ProfitInv, Picked
<1>3. returned["accounts"] = chart
  BY <1>2 DEF ChartRead
<1>4. Report!Net = Report!Profit(Picked(returned["balance"]), returned["accounts"])
  BY DEF Report!Net, Picked
<1> QED
  BY <1>2, <1>3, <1>4, ChartSuffices

LEMMA DuesAddUp ==
  ASSUME NEW f, \A x \in Report!Receivables : f[x] = x[2]
  PROVE  Report!ReceivablesTotal = SumOf(f, Report!Receivables)
<1> DEFINE S == Report!Receivables
           next(g, s) == IF s = {} THEN 0 ELSE Pick(s)[2] + g[s \ {Pick(s)}]
<1>1. \A g : \A s \in SUBSET S : next(g, s) = Unfold(f, g, s)
  BY PickIn DEF Unfold
<1>2. Report!ReceivablesTotal = (CHOOSE g : g = [s \in SUBSET S |-> next(g, s)])[S]
  BY DEF Report!ReceivablesTotal, Report!MapThenSumSet, Report!MapThenFoldSet, Pick
<1> HIDE DEF next
<1>3. \A g : [s \in SUBSET S |-> next(g, s)] = [s \in SUBSET S |-> Unfold(f, g, s)]
  BY <1>1
<1>4. SumOf(f, S) = (CHOOSE g : g = [s \in SUBSET S |-> Unfold(f, g, s)])[S]
  BY SumDef
<1> HIDE DEF S
<1>5. (CHOOSE g : g = [s \in SUBSET S |-> next(g, s)]) = CHOOSE g : g = [s \in SUBSET S |-> Unfold(f, g, s)]
  BY <1>3
<1> QED
  BY <1>2, <1>4, <1>5 DEF S

\* What was due on each invoice of the list, read once of each.
LEMMA ReceivablesWereSo == ReportInv => Report!ReceivablesAreBracketed
<1> SUFFICES ASSUME ReportInv, Report!Done, report = "receivables"
             PROVE  /\ Report!ReceivablesTotal
                         <= Report!MapThenSumSet(LAMBDA d : at.due[d], returned["invoices"])
                    /\ Report!ReceivablesTotal
                         >= Report!MapThenSumSet(LAMBDA d : due[d], returned["invoices"])
  BY DEF Report!ReceivablesAreBracketed
<1> DEFINE D == returned["invoices"]
           X == returned["dues"]
           owed == at.due
<1>1. ~Report!Idle /\ todo = << >> /\ due \in [Report!Docs -> Nat] /\ owed \in [Report!Docs -> Nat]
  BY DEF Report!Done, ReportInv, ReportType, SinceInv
<1>2. D \subseteq Report!Docs /\ DuesRead /\ \A d \in D : \E x \in X : x[1] = d
  BY <1>1 DEF ReportInv, DuesInv
<1>3. /\ X \subseteq D \X Nat
      /\ \A x \in X : due[x[1]] <= x[2] /\ x[2] <= owed[x[1]]
      /\ \A x, y \in X : x[1] = y[1] => x = y
  BY <1>2 DEF DuesRead
<1>4. IsFiniteSet(D)
  BY <1>2, ReportConstants, FS_Subset
<1> HIDE DEF D, X, owed
<1> DEFINE g == [d \in D |-> CHOOSE x \in X : x[1] = d]
           v == [x \in X |-> x[2]]
           e == [d \in D |-> v[g[d]]]
<1>5. \A d \in D : g[d] \in X /\ g[d][1] = d
  <2> TAKE d \in D
  <2>1. g[d] = CHOOSE x \in X : x[1] = d
    OBVIOUS
  <2> HIDE DEF g
  <2> QED
    BY <1>2, <2>1
<1>6. \A x \in X : x[1] \in D /\ x[2] \in Nat /\ v[x] = x[2]
  BY <1>3
<1>7. \A d \in D : e[d] = v[g[d]]
  OBVIOUS
<1> HIDE DEF g, v, e
<1>8. Renames(g, D, X)
  BY <1>3, <1>5, <1>6 DEF Renames
<1>9. IsFiniteSet(X)
  BY <1>4, <1>8, CountRenamed
<1>10. \A x \in X : v[x] \in Int
  BY <1>6
<1>11. SumOf(e, D) = SumOf(v, X)
  BY <1>4, <1>7, <1>8, <1>10, SumRenamed
<1> DEFINE T == Report!Receivables
<1>12. T \in SUBSET X /\ \A x \in X \ T : ~ (x[2] > 0)
  BY DEF Report!Receivables, X
<1>13. \A x \in T : v[x] = x[2]
  BY <1>6, <1>12
<1>14. Report!ReceivablesTotal = SumOf(v, T)
  BY <1>13, DuesAddUp
<1> HIDE DEF T
<1>15. \A x \in X \ T : v[x] = 0
  BY <1>6, <1>12
<1>16. SumOf(v, X) = SumOf(v, T)
  BY <1>9, <1>10, <1>12, <1>15, SumPart
<1>17. \A d \in D : e[d] \in Int /\ due[d] \in Int /\ owed[d] \in Int /\ due[d] <= e[d] /\ e[d] <= owed[d]
  <2> TAKE d \in D
  <2>1. g[d] \in X /\ g[d][1] = d /\ v[g[d]] = g[d][2] /\ g[d][2] \in Nat
    BY <1>5, <1>6
  <2>2. due[d] <= e[d] /\ e[d] <= owed[d] /\ e[d] \in Int
    BY <1>3, <1>7, <2>1
  <2> QED
    BY <1>1, <1>2, <2>2
<1>18. SumOf(due, D) <= SumOf(e, D) /\ SumOf(e, D) <= SumOf(owed, D)
  BY <1>4, <1>17, SumOrder
<1>19. SumOf(due, D) \in Int /\ SumOf(e, D) \in Int /\ SumOf(owed, D) \in Int
  BY <1>4, <1>17, SumType
<1>20. /\ Report!MapThenSumSet(LAMBDA d : due[d], D) = SumOf(due, D)
       /\ Report!MapThenSumSet(LAMBDA d : owed[d], D) = SumOf(owed, D)
  BY DEF Report!MapThenSumSet, Report!MapThenFoldSet, SumOf, MapThenSumSet, MapThenFoldSet
<1> QED
  BY <1>11, <1>14, <1>16, <1>18, <1>19, <1>20 DEF D, owed

\* The legs of an entry are even.
LEMMA LegsAreEven ==
  ASSUME NEW e \in Entries, NEW f, \A i \in DOMAIN e.legs : f[i] = e.legs[i].debit - e.legs[i].credit
  PROVE  SumOf(f, DOMAIN e.legs) = 0
<1> DEFINE S == DOMAIN e.legs
           next(g, s) == IF s = {} THEN 0
                         ELSE (e.legs[Pick(s)].debit - e.legs[Pick(s)].credit) + g[s \ {Pick(s)}]
<1>1. \A g : \A s \in SUBSET S : next(g, s) = Unfold(f, g, s)
  BY PickIn DEF Unfold
<1>2. 0 = (CHOOSE g : g = [s \in SUBSET S |-> next(g, s)])[S]
  <2>1. Report!Valid(e)
    BY ReportAssumption DEF Report!ConstantsOK
  <2> QED
    BY <2>1 DEF Report!Valid, Report!MapThenSumSet, Report!MapThenFoldSet, Pick
<1> HIDE DEF next
<1>3. \A g : [s \in SUBSET S |-> next(g, s)] = [s \in SUBSET S |-> Unfold(f, g, s)]
  BY <1>1
<1> QED
  BY <1>2, <1>3, SumDef

\* A row of the general ledger and of the FEC file, and those of some entries.
Named(n, i) ==
  /\ postings[n].legs[i].account \in returned["accounts"]
  /\ postings[n].journal \in returned["journals"]
RowAt(n, i) == [id |-> n, pos |-> i, leg |-> postings[n].legs[i], named |-> Named(n, i)]
RowsIn(set) == UNION {{RowAt(n, i) : i \in DOMAIN postings[n].legs} : n \in set}

LEMMA RowsAdd ==
  ASSUME NEW f, \A x \in Report!Rows : f[x] = x.leg.debit - x.leg.credit
  PROVE  Report!MapThenSumSet(LAMBDA x : x.leg.debit - x.leg.credit, Report!Rows) = SumOf(f, Report!Rows)
<1> DEFINE S == Report!Rows
           next(g, s) == IF s = {} THEN 0
                         ELSE (Pick(s).leg.debit - Pick(s).leg.credit) + g[s \ {Pick(s)}]
<1>1. \A g : \A s \in SUBSET S : next(g, s) = Unfold(f, g, s)
  BY PickIn DEF Unfold
<1>2. Report!MapThenSumSet(LAMBDA x : x.leg.debit - x.leg.credit, S)
        = (CHOOSE g : g = [s \in SUBSET S |-> next(g, s)])[S]
  BY DEF Report!MapThenSumSet, Report!MapThenFoldSet, Pick
<1> HIDE DEF next
<1>3. \A g : [s \in SUBSET S |-> next(g, s)] = [s \in SUBSET S |-> Unfold(f, g, s)]
  BY <1>1
<1>4. SumOf(f, S) = (CHOOSE g : g = [s \in SUBSET S |-> Unfold(f, g, s)])[S]
  BY SumDef
<1> HIDE DEF S
<1>5. (CHOOSE g : g = [s \in SUBSET S |-> next(g, s)]) = CHOOSE g : g = [s \in SUBSET S |-> Unfold(f, g, s)]
  BY <1>3
<1> QED
  BY <1>2, <1>4, <1>5 DEF S

LEMMA RowsAre ==
  ASSUME NEW set, Report!Rows = {[id |-> x.entry, pos |-> x.pos, leg |-> x.leg,
                                  named |-> /\ x.leg.account \in returned["accounts"]
                                            /\ postings[x.entry].journal \in returned["journals"]]
                                   : x \in Report!LegRows(Picked(set))}
  PROVE  Report!Rows = RowsIn(set)
<1> DEFINE L(n, i) == [entry |-> n, pos |-> i, leg |-> postings[n].legs[i]]
           row(x) == [id |-> x.entry, pos |-> x.pos, leg |-> x.leg,
                      named |-> /\ x.leg.account \in returned["accounts"]
                                /\ postings[x.entry].journal \in returned["journals"]]
<1>1. Report!LegRows(Picked(set)) = UNION {{L(n, i) : i \in DOMAIN postings[n].legs} : n \in set}
  BY DEF Report!LegRows, Picked, Report!Restrict
<1>2. \A n, i : L(n, i).entry = n /\ L(n, i).pos = i /\ L(n, i).leg = postings[n].legs[i]
  OBVIOUS
<1>3. ASSUME NEW n, NEW i PROVE row(L(n, i)) = RowAt(n, i)
  <2> HIDE DEF L
  <2> QED
    BY <1>2, Zenon DEF RowAt, Named
<1>4. Report!Rows = {row(x) : x \in Report!LegRows(Picked(set))}
  OBVIOUS
<1> HIDE DEF L, row
<1> QED
  BY <1>1, <1>3, <1>4 DEF RowsIn

LEMMA RowsAreEven ==
  ASSUME postings \in Seq(Entries), NEW set, set \subseteq DOMAIN postings,
         NEW f, \A x \in RowsIn(set) : f[x] = x.leg.debit - x.leg.credit
  PROVE  SumOf(f, RowsIn(set)) = 0
<1> DEFINE H == {s \in SUBSET set : IsFiniteSet(RowsIn(s)) /\ SumOf(f, RowsIn(s)) = 0}
<1>1. /\ IsFiniteSet(set) /\ \A n \in set : postings[n] \in Entries
  <2>1. DOMAIN postings = 1 .. Len(postings) /\ Len(postings) \in Nat
    OBVIOUS
  <2>2. IsFiniteSet(DOMAIN postings)
    BY <2>1, FirstAreFinite
  <2> QED
    BY <2>2, FS_Subset
<1>2. \A n, i : RowAt(n, i).id = n /\ RowAt(n, i).pos = i /\ RowAt(n, i).leg = postings[n].legs[i]
  BY DEF RowAt
<1>3. \A s : \A x : x \in RowsIn(s) <=> \E n \in s : \E i \in DOMAIN postings[n].legs : x = RowAt(n, i)
  BY DEF RowsIn
<1>4. ASSUME NEW n \in set PROVE IsFiniteSet(RowsIn({n})) /\ SumOf(f, RowsIn({n})) = 0
  <2> DEFINE D == DOMAIN postings[n].legs
             g == [i \in D |-> RowAt(n, i)]
             e == [i \in D |-> postings[n].legs[i].debit - postings[n].legs[i].credit]
  <2>1. IsFiniteSet(D) /\ \A i \in D : postings[n].legs[i].debit \in Nat /\ postings[n].legs[i].credit \in Nat
    BY <1>1, EntryIs, FirstAreFinite
  <2>2. /\ \A i \in D : g[i] = RowAt(n, i) /\ e[i] \in Int
        /\ \A i \in D : e[i] = postings[n].legs[i].debit - postings[n].legs[i].credit
    BY <2>1
  <2>3. SumOf(e, D) = 0
    <3> HIDE DEF e
    <3> QED
      BY <1>1, <2>2, LegsAreEven
  <2> HIDE DEF g, e, D
  <2>4. Renames(g, D, RowsIn({n}))
    BY <1>2, <1>3, <2>2 DEF Renames, D
  <2>5. /\ \A i \in D : e[i] = f[g[i]]
        /\ \A y \in RowsIn({n}) : f[y] \in Int
    <3>1. \A i \in D : RowAt(n, i) \in RowsIn(set)
      BY <1>3 DEF D
    <3>2. \A i \in D : f[RowAt(n, i)] = RowAt(n, i).leg.debit - RowAt(n, i).leg.credit
      BY <3>1
    <3>3. \A i \in D : f[g[i]] = e[i] /\ f[g[i]] \in Int
      BY <1>2, <2>2, <3>2
    <3> QED
      BY <2>4, <3>3 DEF Renames
  <2>6. SumOf(e, D) = SumOf(f, RowsIn({n})) /\ IsFiniteSet(RowsIn({n}))
    <3> DEFINE R == RowsIn({n})
    <3>1. IsFiniteSet(D) /\ Renames(g, D, R)
      BY <2>1, <2>4
    <3>2. /\ \A i \in D : e[i] = f[g[i]]
          /\ \A y \in R : f[y] \in Int
      BY <2>5
    <3> HIDE DEF R
    <3>3. SumOf(e, D) = SumOf(f, R)
      BY <3>1, <3>2, SumRenamed
    <3>4. IsFiniteSet(R)
      BY <3>1, CountRenamed
    <3> QED
      BY <3>3, <3>4 DEF R
  <2> QED
    BY <2>3, <2>6
<1>5. \A x \in RowsIn(set) : f[x] \in Int
  <2> TAKE x \in RowsIn(set)
  <2>1. PICK n \in set : \E i \in DOMAIN postings[n].legs : x = RowAt(n, i)
    BY <1>3
  <2>2. PICK i \in DOMAIN postings[n].legs : x = RowAt(n, i)
    BY <2>1
  <2>3. postings[n].legs[i].debit \in Nat /\ postings[n].legs[i].credit \in Nat
    BY <1>1, EntryIs
  <2>4. f[x] = x.leg.debit - x.leg.credit /\ x.leg = postings[n].legs[i]
    BY <1>2, <2>2
  <2> QED
    BY <2>3, <2>4
<1>6. ASSUME NEW s \in SUBSET set, \A n \in s : s \ {n} \in H PROVE s \in H
  <2>1. CASE s = {}
    <3>1. RowsIn(s) = {}
      BY <1>3, <2>1
    <3> QED
      BY <3>1, SumEmpty, FS_EmptySet
  <2>2. CASE s # {}
    <3>1. PICK n \in s : TRUE
      BY <2>2
    <3> DEFINE A == RowsIn({n})
               B == RowsIn(s \ {n})
    <3>2. IsFiniteSet(A) /\ SumOf(f, A) = 0 /\ IsFiniteSet(B) /\ SumOf(f, B) = 0
      BY <1>4, <1>6, <3>1
    <3>3. RowsIn(s) = A \cup B
      BY <1>3, <3>1
    <3>4. A \cap B = {}
      BY <1>2, <1>3
    <3>5. \A x \in A \cup B : f[x] \in Int
      <4>1. RowsIn(s) \subseteq RowsIn(set)
        BY <1>3
      <4> QED
        BY <1>5, <3>3, <4>1
    <3> HIDE DEF A, B
    <3>6. SumOf(f, A \cup B) = SumOf(f, A) + SumOf(f, B) /\ IsFiniteSet(A \cup B)
      BY ZenonT(60), <3>2, <3>4, <3>5, SumUnion, FS_Union
    <3>7. SumOf(f, A \cup B) = 0
      BY <3>2, <3>6
    <3>8. IsFiniteSet(RowsIn(s)) /\ SumOf(f, RowsIn(s)) = 0
      BY <3>3, <3>6, <3>7
    <3> QED
      BY <3>8
  <2> QED
    BY <2>1, <2>2
<1>7. set \in H
  <2> HIDE DEF H
  <2>1. \A s \in SUBSET set : s \in H
    BY <1>1, <1>6, SetInSet
  <2> QED
    BY <2>1
<1> QED
  BY <1>7

LEMMA BooksWereWhole == ReportInv => Report!BooksAreWhole
<1> SUFFICES ASSUME ReportInv, Report!Done, report \in {"ledger", "fec"}
             PROVE  /\ \A x \in Report!Rows : x.named
                    /\ Report!MapThenSumSet(LAMBDA x : x.leg.debit - x.leg.credit, Report!Rows) = 0
                    /\ DOMAIN at.book \subseteq {x.id : x \in Report!Rows}
  BY DEF Report!BooksAreWhole
<1> DEFINE set == IF report = "fec" THEN returned["book"] ELSE returned["entries"]
<1>1. ~Report!Idle /\ todo = << >> /\ postings \in Seq(Entries)
  BY DEF Report!Done, ReportInv, ReportType
<1>2. /\ set \subseteq DOMAIN postings /\ DOMAIN at.book \subseteq set
      /\ AccountsCover(set) /\ JournalsCover(set)
  <2>1. CASE report = "fec"
    BY <1>1, <2>1 DEF ReportInv, FecInv, BookRead
  <2>2. CASE report = "ledger"
    BY <1>1, <2>2 DEF ReportInv, WalkInv, WalkRead, AccountsLast
  <2> QED
    BY <2>1, <2>2
<1>3. Report!Rows = RowsIn(set)
  <2>1. Picked(set) = IF report = "fec" THEN Report!Restrict(postings, returned["book"])
                      ELSE Report!Walked
    BY DEF Picked, Report!Walked
  <2> HIDE DEF set
  <2> QED
    BY <2>1, RowsAre DEF Report!Rows
<1> HIDE DEF set
<1>4. \A x : x \in RowsIn(set) <=> \E n \in set : \E i \in DOMAIN postings[n].legs : x = RowAt(n, i)
  BY DEF RowsIn
<1>5. \A n, i : RowAt(n, i).id = n /\ (RowAt(n, i).named <=> Named(n, i))
  BY DEF RowAt
<1>6. \A x \in RowsIn(set) : x.named
  <2> TAKE x \in RowsIn(set)
  <2>1. PICK n \in set : \E i \in DOMAIN postings[n].legs : x = RowAt(n, i)
    BY <1>4
  <2>2. PICK i \in DOMAIN postings[n].legs : x = RowAt(n, i)
    BY <2>1
  <2>3. Named(n, i)
    BY <1>2 DEF Named, AccountsCover, JournalsCover
  <2> QED
    BY <1>5, <2>2, <2>3
<1> DEFINE f == [x \in RowsIn(set) |-> x.leg.debit - x.leg.credit]
<1>7. \A x \in RowsIn(set) : f[x] = x.leg.debit - x.leg.credit
  OBVIOUS
<1> HIDE DEF f
<1>8. SumOf(f, RowsIn(set)) = 0
  BY <1>1, <1>2, <1>7, RowsAreEven
<1>9. Report!MapThenSumSet(LAMBDA x : x.leg.debit - x.leg.credit, Report!Rows) = SumOf(f, Report!Rows)
  BY <1>3, <1>7, RowsAdd
<1>10. DOMAIN at.book \subseteq {x.id : x \in RowsIn(set)}
  <2> SUFFICES ASSUME NEW n \in DOMAIN at.book PROVE \E x \in RowsIn(set) : x.id = n
    OBVIOUS
  <2>1. n \in set /\ postings[n] \in Entries
    BY <1>1, <1>2
  <2>2. 1 \in DOMAIN postings[n].legs
    BY <2>1, EntryIs
  <2> QED
    BY <1>4, <1>5, <2>1, <2>2
<1> QED
  BY <1>3, <1>6, <1>8, <1>9, <1>10

-----------------------------------------------------------------------------
(* VAT: leg after leg, and by rate. *)

Bucket == [collected : Int, deductible : Int, base : Int]
Buckets == UNION {[R -> Bucket] : R \in SUBSET Nat}
NoVAT == [collected |-> 0, deductible |-> 0, base |-> 0]

LEMMA BucketsAre ==
  /\ \A b : b \in Buckets <=> \E R \in SUBSET Nat : b \in [R -> Bucket]
  /\ << >> \in Buckets /\ NoVAT \in Bucket
<1>1. \A b : b \in Buckets <=> \E R \in SUBSET Nat : b \in [R -> Bucket]
  BY DEF Buckets
<1>2. << >> \in [{} -> Bucket] /\ {} \in SUBSET Nat
  OBVIOUS
<1>3. NoVAT \in Bucket
  BY DEF NoVAT, Bucket
<1> QED
  BY <1>1, <1>2, <1>3

\* The bucket of a rate after a leg, b being it before.
More(b, l) ==
  CASE AccountType[l.account] = "liability" ->
         [b EXCEPT !.collected = @ + l.credit, !.deductible = @ + l.debit]
    [] AccountType[l.account] = "revenue" -> [b EXCEPT !.base = @ + l.credit - l.debit]
    [] AccountType[l.account] = "expense" -> [b EXCEPT !.base = @ + l.debit - l.credit]
    [] OTHER -> b

LEMMA MoreIs ==
  ASSUME NEW b \in Bucket, NEW l \in ReportLeg
  PROVE  /\ More(b, l) \in Bucket
         /\ AccountType[l.account] = "liability" =>
              More(b, l) = [collected |-> b.collected + l.credit,
                            deductible |-> b.deductible + l.debit, base |-> b.base]
         /\ AccountType[l.account] = "revenue" =>
              More(b, l) = [collected |-> b.collected, deductible |-> b.deductible,
                            base |-> b.base + l.credit - l.debit]
         /\ AccountType[l.account] = "expense" =>
              More(b, l) = [collected |-> b.collected, deductible |-> b.deductible,
                            base |-> b.base + l.debit - l.credit]
         /\ AccountType[l.account] \notin {"liability", "revenue", "expense"} => More(b, l) = b
<1>1. /\ b.collected \in Int /\ b.deductible \in Int /\ b.base \in Int
      /\ b = [collected |-> b.collected, deductible |-> b.deductible, base |-> b.base]
      /\ l.debit \in Nat /\ l.credit \in Nat
  BY DEF Bucket, ReportLeg
<1>2. CASE AccountType[l.account] = "liability"
  <2> DEFINE x == b.collected + l.credit
             y == b.deductible + l.debit
  <2>1. More(b, l) = [b EXCEPT !.collected = x, !.deductible = y]
    BY <1>2 DEF More
  <2>2. x \in Int /\ y \in Int
    BY <1>1
  <2> HIDE DEF x, y
  <2>3. /\ [b EXCEPT !.collected = x] = [collected |-> x, deductible |-> b.deductible, base |-> b.base]
        /\ [[collected |-> x, deductible |-> b.deductible, base |-> b.base] EXCEPT !.deductible = y]
             = [collected |-> x, deductible |-> y, base |-> b.base]
    BY <1>1 DEF Bucket
  <2>4. More(b, l) = [collected |-> x, deductible |-> y, base |-> b.base]
    <3>1. [b EXCEPT !.collected = x, !.deductible = y] = [[b EXCEPT !.collected = x] EXCEPT !.deductible = y]
      BY DEF Bucket
    <3> QED
      BY <2>1, <2>3, <3>1
  <2>5. More(b, l) \in Bucket
    BY <1>1, <2>2, <2>4 DEF Bucket
  <2> QED
    BY <1>2, <2>4, <2>5 DEF x, y
<1>3. CASE AccountType[l.account] = "revenue"
  <2>1. More(b, l) = [b EXCEPT !.base = b.base + l.credit - l.debit]
    BY <1>3 DEF More
  <2> QED
    BY <1>1, <1>3, <2>1 DEF Bucket
<1>4. CASE AccountType[l.account] = "expense"
  <2>1. More(b, l) = [b EXCEPT !.base = b.base + l.debit - l.credit]
    BY <1>4 DEF More
  <2> QED
    BY <1>1, <1>4, <2>1 DEF Bucket
<1>5. CASE AccountType[l.account] \notin {"liability", "revenue", "expense"}
  <2>1. More(b, l) = b
    BY <1>5 DEF More
  <2> QED
    BY <1>5, <2>1
<1> QED
  BY <1>2, <1>3, <1>4, <1>5

\* What a leg does to the buckets.
Was(B, r) == IF r \in DOMAIN B THEN B[r] ELSE NoVAT

LEMMA BucketedIs ==
  ASSUME NEW B \in Buckets, NEW l \in ReportLeg
  PROVE  /\ l.rate = 0 => Report!Bucketed(B, l) = B
         /\ l.rate # 0 =>
              Report!Bucketed(B, l) = [r \in DOMAIN B \cup {l.rate} |->
                                         IF r = l.rate THEN More(Was(B, r), l) ELSE B[r]]
         /\ Report!Bucketed(B, l) \in Buckets
<1>1. PICK R \in SUBSET Nat : B \in [R -> Bucket]
  BY BucketsAre
<1>2. l.rate = 0 => Report!Bucketed(B, l) = B
  BY DEF Report!Bucketed
<1>3. l.rate # 0 =>
        Report!Bucketed(B, l) = [r \in DOMAIN B \cup {l.rate} |->
                                   IF r = l.rate THEN More(Was(B, l.rate), l) ELSE B[r]]
  BY DEF Report!Bucketed, More, Was, NoVAT
<1>4. Was(B, l.rate) \in Bucket
  BY <1>1, BucketsAre DEF Was
<1>5. More(Was(B, l.rate), l) \in Bucket
  BY <1>4, MoreIs
<1>6. l.rate \in Nat
  BY DEF ReportLeg
<1>7. l.rate # 0 => Report!Bucketed(B, l) \in [R \cup {l.rate} -> Bucket]
  BY <1>1, <1>3, <1>5
<1>8. Report!Bucketed(B, l) \in Buckets
  BY <1>2, <1>6, <1>7, BucketsAre
<1> QED
  BY <1>2, <1>3, <1>8

\* A run of values, each made of the one before by a leg or by an entry.
LEMMA AddLegsRuns ==
  ASSUME NEW B \in Buckets, NEW e \in Entries
  PROVE  \E F \in [0 .. Len(e.legs) -> Buckets] :
           /\ F[0] = B /\ F[Len(e.legs)] = Report!AddLegs(B, e)
           /\ \A k \in 1 .. Len(e.legs) : F[k] = Report!Bucketed(F[k - 1], e.legs[k])
<1> DEFINE n == Len(e.legs)
           own == e.legs
           G == [k \in Nat |-> [b \in Buckets |->
                   IF k \in 1 .. n THEN Report!Bucketed(b, own[k]) ELSE b]]
           IsRun(g) == g = [s \in SUBSET (1 .. n) |->
                              IF s = {} THEN B ELSE Report!Bucketed(g[s \ {Max(s)}], own[Max(s)])]
           h == CHOOSE g : IsRun(g)
<1>1. n \in Nat /\ DOMAIN own = 1 .. n /\ \A k \in 1 .. n : own[k] \in ReportLeg
  BY EntryIs
<1>2. Report!AddLegs(B, e) = h[1 .. n]
  BY <1>1 DEF Report!AddLegs, Report!FoldLeft, Report!MapThenFoldSet, Report!Max, Max
<1> HIDE DEF n, own
<1>3. G \in [Nat -> [Buckets -> Buckets]]
  <2>1. \A k \in 1 .. n : \A b \in Buckets : Report!Bucketed(b, own[k]) \in Buckets
    BY <1>1, BucketedIs
  <2> QED
    BY <2>1
<1>4. \A k \in 1 .. n : \A b \in Buckets : G[k][b] = Report!Bucketed(b, own[k])
  BY <1>1
<1> HIDE DEF G
<1>5. PICK g : IsFold(g, Buckets, B, G, n)
  BY <1>1, <1>3, FoldExists
<1>6. IsRun(g)
  <2>1. g \in [SUBSET (1 .. n) -> Buckets] /\ \A s \in SUBSET (1 .. n) : g[s] = FoldStep(g, B, G, s)
    BY <1>5 DEF IsFold
  <2>2. ASSUME NEW s \in SUBSET (1 .. n)
        PROVE  g[s] = IF s = {} THEN B ELSE Report!Bucketed(g[s \ {Max(s)}], own[Max(s)])
    <3>1. s # {} => Max(s) \in 1 .. n /\ s \ {Max(s)} \in SUBSET (1 .. n)
      BY <1>1, TopIn
    <3>2. s # {} => g[s \ {Max(s)}] \in Buckets
      BY <2>1, <3>1
    <3>3. s # {} => G[Max(s)][g[s \ {Max(s)}]] = Report!Bucketed(g[s \ {Max(s)}], own[Max(s)])
      BY <1>4, <3>1, <3>2
    <3> QED
      BY <2>1, <3>3 DEF FoldStep
  <2> QED
    BY <2>1, <2>2
<1>7. IsRun(h)
  <2> HIDE DEF IsRun
  <2> QED
    BY <1>6
<1> HIDE DEF h
<1>8. /\ h = [s \in SUBSET (1 .. n) |-> h[s]]
      /\ \A s \in SUBSET (1 .. n) :
           h[s] = IF s = {} THEN B ELSE Report!Bucketed(h[s \ {Max(s)}], own[Max(s)])
  BY <1>7
<1> HIDE DEF IsRun
<1>9. \A s \in SUBSET (1 .. n) : h[s] \in Buckets /\ h[s] = FoldStep(h, B, G, s)
  <2> DEFINE D == 1 .. n
             H == {s \in SUBSET D : h[s] \in Buckets /\ h[s] = FoldStep(h, B, G, s)}
  <2>1. IsFiniteSet(D)
    BY <1>1, FirstAreFinite
  <2>2. ASSUME NEW s \in SUBSET D, \A x \in s : s \ {x} \in H PROVE s \in H
    <3>1. CASE s = {}
      BY <1>8, <3>1 DEF FoldStep
    <3>2. CASE s # {}
      <4> DEFINE x == Max(s)
                 t == h[s \ {x}]
      <4>1. x \in s /\ x \in 1 .. n
        BY <1>1, <3>2, TopIn
      <4>2. t \in Buckets /\ h[s] = Report!Bucketed(t, own[x])
        BY <1>8, <2>2, <3>2, <4>1
      <4> HIDE DEF t, x, H
      <4>3. h[s] \in Buckets
        BY <1>1, <4>1, <4>2, BucketedIs
      <4>4. h[s] = G[x][t]
        BY <1>4, <4>1, <4>2
      <4> QED
        BY <3>2, <4>3, <4>4 DEF FoldStep, t, x, H
    <3> QED
      BY <3>1, <3>2
  <2> HIDE DEF D, H
  <2>3. \A s \in SUBSET D : s \in H
    BY <2>1, <2>2, SetInSet
  <2> QED
    BY <2>3 DEF D, H
<1>10. IsFold(h, Buckets, B, G, n)
  BY <1>8, <1>9 DEF IsFold
<1>11. PICK F : PassesThrough(F, h, Buckets, B, G, n)
  BY <1>1, <1>10, FoldRuns
<1>12. /\ F \in [0 .. n -> Buckets] /\ F[0] = B /\ F[n] = h[1 .. n]
       /\ \A k \in 1 .. n : F[k] = G[k][F[k - 1]]
  BY <1>11 DEF PassesThrough
<1>13. \A k \in 1 .. n : F[k] = Report!Bucketed(F[k - 1], own[k])
  BY <1>1, <1>4, <1>12
<1> QED
  BY <1>2, <1>12, <1>13 DEF n, own

LEMMA AddLegsIn ==
  ASSUME NEW B \in Buckets, NEW e \in Entries
  PROVE  Report!AddLegs(B, e) \in Buckets
<1>1. Len(e.legs) \in Nat
  BY EntryIs
<1>2. PICK F \in [0 .. Len(e.legs) -> Buckets] : F[Len(e.legs)] = Report!AddLegs(B, e)
  BY AddLegsRuns
<1> QED
  BY <1>1, <1>2

LEMMA VATReturnRuns ==
  ASSUME postings \in Seq(Entries)
  PROVE  \E F \in [0 .. Len(postings) -> Buckets] :
           /\ F[0] = << >> /\ F[Len(postings)] = Report!ComputeVATReturn(postings)
           /\ \A k \in 1 .. Len(postings) : F[k] = Report!AddLegs(F[k - 1], postings[k])
<1> DEFINE n == Len(postings)
           B == << >>
           G == [k \in Nat |-> [b \in Buckets |->
                   IF k \in 1 .. n THEN Report!AddLegs(b, postings[k]) ELSE b]]
           IsRun(g) == g = [s \in SUBSET (1 .. n) |->
                              IF s = {} THEN B ELSE Report!AddLegs(g[s \ {Max(s)}], postings[Max(s)])]
           h == CHOOSE g : IsRun(g)
<1>1. B \in Buckets /\ n \in Nat /\ DOMAIN postings = 1 .. n /\ \A k \in 1 .. n : postings[k] \in Entries
  BY BucketsAre
<1>2. Report!ComputeVATReturn(postings) = h[1 .. n]
  BY <1>1 DEF Report!ComputeVATReturn, Report!FoldLeft, Report!MapThenFoldSet, Report!Max, Max
<1> HIDE DEF n, B
<1>3. G \in [Nat -> [Buckets -> Buckets]]
  <2>1. \A k \in 1 .. n : \A b \in Buckets : Report!AddLegs(b, postings[k]) \in Buckets
    BY <1>1, AddLegsIn
  <2> QED
    BY <2>1
<1>4. \A k \in 1 .. n : \A b \in Buckets : G[k][b] = Report!AddLegs(b, postings[k])
  BY <1>1
<1> HIDE DEF G
<1>5. PICK g : IsFold(g, Buckets, B, G, n)
  BY <1>1, <1>3, FoldExists
<1>6. IsRun(g)
  <2>1. g \in [SUBSET (1 .. n) -> Buckets] /\ \A s \in SUBSET (1 .. n) : g[s] = FoldStep(g, B, G, s)
    BY <1>5 DEF IsFold
  <2>2. ASSUME NEW s \in SUBSET (1 .. n)
        PROVE  g[s] = IF s = {} THEN B ELSE Report!AddLegs(g[s \ {Max(s)}], postings[Max(s)])
    <3>1. s # {} => Max(s) \in 1 .. n /\ s \ {Max(s)} \in SUBSET (1 .. n)
      BY <1>1, TopIn
    <3>2. s # {} => g[s \ {Max(s)}] \in Buckets
      BY <2>1, <3>1
    <3>3. s # {} => G[Max(s)][g[s \ {Max(s)}]] = Report!AddLegs(g[s \ {Max(s)}], postings[Max(s)])
      BY <1>4, <3>1, <3>2
    <3> QED
      BY <2>1, <3>3 DEF FoldStep
  <2> QED
    BY <2>1, <2>2
<1>7. IsRun(h)
  <2> HIDE DEF IsRun
  <2> QED
    BY <1>6
<1> HIDE DEF h
<1>8. /\ h = [s \in SUBSET (1 .. n) |-> h[s]]
      /\ \A s \in SUBSET (1 .. n) :
           h[s] = IF s = {} THEN B ELSE Report!AddLegs(h[s \ {Max(s)}], postings[Max(s)])
  BY <1>7
<1> HIDE DEF IsRun
<1>9. \A s \in SUBSET (1 .. n) : h[s] \in Buckets /\ h[s] = FoldStep(h, B, G, s)
  <2> DEFINE D == 1 .. n
             H == {s \in SUBSET D : h[s] \in Buckets /\ h[s] = FoldStep(h, B, G, s)}
  <2>1. IsFiniteSet(D)
    BY <1>1, FirstAreFinite
  <2>2. ASSUME NEW s \in SUBSET D, \A x \in s : s \ {x} \in H PROVE s \in H
    <3>1. CASE s = {}
      BY <1>1, <1>8, <3>1 DEF FoldStep
    <3>2. CASE s # {}
      <4> DEFINE x == Max(s)
                 t == h[s \ {x}]
      <4>1. x \in s /\ x \in 1 .. n
        BY <1>1, <3>2, TopIn
      <4>2. t \in Buckets /\ h[s] = Report!AddLegs(t, postings[x])
        BY <1>8, <2>2, <3>2, <4>1
      <4> HIDE DEF t, x, H
      <4>3. h[s] \in Buckets
        BY <1>1, <4>1, <4>2, AddLegsIn
      <4>4. h[s] = G[x][t]
        BY <1>4, <4>1, <4>2
      <4> QED
        BY <3>2, <4>3, <4>4 DEF FoldStep, t, x, H
    <3> QED
      BY <3>1, <3>2
  <2> HIDE DEF D, H
  <2>3. \A s \in SUBSET D : s \in H
    BY <2>1, <2>2, SetInSet
  <2> QED
    BY <2>3 DEF D, H
<1>10. IsFold(h, Buckets, B, G, n)
  BY <1>8, <1>9 DEF IsFold
<1>11. PICK F : PassesThrough(F, h, Buckets, B, G, n)
  BY <1>1, <1>10, FoldRuns
<1>12. /\ F \in [0 .. n -> Buckets] /\ F[0] = B /\ F[n] = h[1 .. n]
       /\ \A k \in 1 .. n : F[k] = G[k][F[k - 1]]
  BY <1>11 DEF PassesThrough
<1>13. \A k \in 1 .. n : F[k] = Report!AddLegs(F[k - 1], postings[k])
  BY <1>1, <1>4, <1>12
<1> QED
  BY <1>2, <1>12, <1>13 DEF n, B

\* The rows of VATReturn, and what it makes of some of them.
VATRow(n, i) == [entry |-> n, pos |-> i, leg |-> postings[n].legs[i]]
VATRows == Report!LegRows(postings)
Value(side) == [x \in VATRows |-> x.leg[side]]
Of(X, r, type) ==
  {x \in X : x.leg.rate # 0 /\ x.leg.rate = r /\ AccountType[x.leg.account] = type}
VATTotal(X, r, type, side) == SumOf(Value(side), Of(X, r, type))
BucketOf(X, r) ==
  [collected |-> VATTotal(X, r, "liability", "credit"),
   deductible |-> VATTotal(X, r, "liability", "debit"),
   base |-> VATTotal(X, r, "revenue", "credit") - VATTotal(X, r, "revenue", "debit")
              + VATTotal(X, r, "expense", "debit") - VATTotal(X, r, "expense", "credit")]
Rates(X) == {x.leg.rate : x \in {y \in X : y.leg.rate # 0}}
VATOf(X) == [r \in Rates(X) |-> BucketOf(X, r)]

LEMMA VATRowsAre ==
  ASSUME postings \in Seq(Entries)
  PROVE  /\ \A x : x \in VATRows <=> \E n \in DOMAIN postings : \E i \in DOMAIN postings[n].legs : x = VATRow(n, i)
         /\ \A n, i : VATRow(n, i).entry = n /\ VATRow(n, i).pos = i /\ VATRow(n, i).leg = postings[n].legs[i]
         /\ \A x \in VATRows : x.leg \in ReportLeg
<1>1. \A x : x \in VATRows <=> \E n \in DOMAIN postings : \E i \in DOMAIN postings[n].legs : x = VATRow(n, i)
  BY DEF VATRows, VATRow, Report!LegRows
<1>2. \A n, i : VATRow(n, i).entry = n /\ VATRow(n, i).pos = i /\ VATRow(n, i).leg = postings[n].legs[i]
  BY DEF VATRow
<1>3. ASSUME NEW n \in DOMAIN postings, NEW i \in DOMAIN postings[n].legs
      PROVE  postings[n].legs[i] \in ReportLeg
  <2> DEFINE own == postings[n].legs
  <2>1. own \in Seq(ReportLeg) /\ i \in DOMAIN own
    BY EntryIs
  <2> HIDE DEF own
  <2>2. own[i] \in ReportLeg
    BY <2>1
  <2> QED
    BY <2>2 DEF own
<1> QED
  BY <1>1, <1>2, <1>3

\* One more row: one more leg in the totals of its rate and type.
LEMMA TotalAdds ==
  ASSUME postings \in Seq(Entries), NEW X \in SUBSET VATRows, IsFiniteSet(X),
         NEW x \in VATRows, x \notin X, NEW r, NEW type, NEW side \in {"debit", "credit"}
  PROVE  /\ VATTotal(X, r, type, side) \in Nat
         /\ Of(X, r, type) = {} => VATTotal(X, r, type, side) = 0
         /\ x \in Of(X \cup {x}, r, type) =>
              VATTotal(X \cup {x}, r, type, side) = VATTotal(X, r, type, side) + x.leg[side]
         /\ x \notin Of(X \cup {x}, r, type) =>
              VATTotal(X \cup {x}, r, type, side) = VATTotal(X, r, type, side)
<1> DEFINE f == Value(side)
           S == Of(X, r, type)
           T == Of(X \cup {x}, r, type)
<1>1. \A l \in ReportLeg : l[side] \in Nat
  BY DEF ReportLeg
<1>2. \A y \in VATRows : f[y] \in Nat /\ f[y] = y.leg[side]
  BY <1>1, VATRowsAre DEF Value
<1>3. /\ S \subseteq X /\ T \ {x} = S /\ (x \notin T => T = S) /\ T \subseteq X \cup {x}
      /\ X \cup {x} \subseteq VATRows
  BY DEF Of
<1> HIDE DEF f, S, T
<1>4. IsFiniteSet(S) /\ IsFiniteSet(T)
  <2>1. IsFiniteSet(S)
    BY <1>3, FS_Subset
  <2> DEFINE Y == X \cup {x}
  <2>2. IsFiniteSet(Y)
    BY FS_AddElement
  <2>3. T \subseteq Y
    BY <1>3
  <2> HIDE DEF Y
  <2>4. IsFiniteSet(T)
    BY <2>2, <2>3, FS_Subset
  <2> QED
    BY <2>1, <2>4
<1>5. \A y \in T : f[y] \in Nat
  BY <1>2, <1>3
<1>6. \A y \in S : f[y] \in Nat
  BY <1>2, <1>3
<1>7. SumOf(f, S) \in Nat
  BY <1>4, <1>6, SumGrows
<1>8. x \in T => SumOf(f, T) = f[x] + SumOf(f, S)
  <2>1. \A y \in T : f[y] \in Int
    BY <1>5
  <2> QED
    BY <1>3, <1>4, <2>1, SumStep
<1>9. S = {} => SumOf(f, S) = 0
  BY SumEmpty
<1>10. x \in T => SumOf(f, T) = SumOf(f, S) + x.leg[side]
  BY <1>2, <1>7, <1>8
<1> QED
  BY <1>3, <1>7, <1>9, <1>10 DEF VATTotal, f, S, T

LEMMA BucketIs ==
  ASSUME postings \in Seq(Entries), NEW X \in SUBSET VATRows, IsFiniteSet(X),
         NEW x \in VATRows, x \notin X, NEW r
  PROVE  /\ BucketOf(X, r) \in Bucket
         /\ r \notin Rates(X) => BucketOf(X, r) = NoVAT
         /\ (x.leg.rate = 0 \/ x.leg.rate # r) => BucketOf(X \cup {x}, r) = BucketOf(X, r)
         /\ (x.leg.rate # 0 /\ x.leg.rate = r) => BucketOf(X \cup {x}, r) = More(BucketOf(X, r), x.leg)
<1> DEFINE Y == X \cup {x}
           l == x.leg
           Lc(Z) == VATTotal(Z, r, "liability", "credit")
           Ld(Z) == VATTotal(Z, r, "liability", "debit")
           Rc(Z) == VATTotal(Z, r, "revenue", "credit")
           Rd(Z) == VATTotal(Z, r, "revenue", "debit")
           Ed(Z) == VATTotal(Z, r, "expense", "debit")
           Ec(Z) == VATTotal(Z, r, "expense", "credit")
<1>1. Lc(X) \in Nat /\ Ld(X) \in Nat /\ Rc(X) \in Nat /\ Rd(X) \in Nat /\ Ed(X) \in Nat /\ Ec(X) \in Nat
  BY TotalAdds
<1>2. l \in ReportLeg /\ l.debit \in Nat /\ l.credit \in Nat /\ l["debit"] = l.debit /\ l["credit"] = l.credit
  BY VATRowsAre DEF ReportLeg
<1>3. \A Z : BucketOf(Z, r) = [collected |-> Lc(Z), deductible |-> Ld(Z),
                               base |-> Rc(Z) - Rd(Z) + Ed(Z) - Ec(Z)]
  BY DEF BucketOf
<1>4. \A type : x \in Of(Y, r, type) <=> l.rate # 0 /\ l.rate = r /\ AccountType[l.account] = type
  BY DEF Of
<1>4a. \A type : \A side \in {"debit", "credit"} :
         /\ x \in Of(Y, r, type) =>
              VATTotal(Y, r, type, side) = VATTotal(X, r, type, side) + l[side]
         /\ x \notin Of(Y, r, type) => VATTotal(Y, r, type, side) = VATTotal(X, r, type, side)
  BY TotalAdds
<1>5. ASSUME NEW type, ~(l.rate # 0 /\ l.rate = r /\ AccountType[l.account] = type)
      PROVE  /\ VATTotal(Y, r, type, "credit") = VATTotal(X, r, type, "credit")
             /\ VATTotal(Y, r, type, "debit") = VATTotal(X, r, type, "debit")
  <2>1. x \notin Of(Y, r, type)
    BY <1>4, <1>5
  <2> HIDE DEF Y, l
  <2> QED
    BY <1>4a, <2>1
<1>6. ASSUME NEW type, l.rate # 0 /\ l.rate = r /\ AccountType[l.account] = type
      PROVE  /\ VATTotal(Y, r, type, "credit") = VATTotal(X, r, type, "credit") + l.credit
             /\ VATTotal(Y, r, type, "debit") = VATTotal(X, r, type, "debit") + l.debit
  <2>1. x \in Of(Y, r, type)
    BY <1>4, <1>6
  <2> HIDE DEF Y, l
  <2> QED
    BY <1>2, <1>4a, <2>1
<1>7. ASSUME r \notin Rates(X)
      PROVE  Lc(X) = 0 /\ Ld(X) = 0 /\ Rc(X) = 0 /\ Rd(X) = 0 /\ Ed(X) = 0 /\ Ec(X) = 0
  <2>1. \A type : Of(X, r, type) = {}
    BY <1>7 DEF Of, Rates
  <2> QED
    BY ZenonT(60), <2>1, TotalAdds
<1> HIDE DEF Lc, Ld, Rc, Rd, Ed, Ec, Y, l
<1>8. BucketOf(X, r) \in Bucket
  <2>1. Rc(X) - Rd(X) + Ed(X) - Ec(X) \in Int
    BY <1>1
  <2> QED
    BY <1>1, <1>3, <2>1 DEF Bucket
<1>9. r \notin Rates(X) => BucketOf(X, r) = NoVAT
  <2>1. 0 - 0 + 0 - 0 = 0
    OBVIOUS
  <2> QED
    BY <1>3, <1>7, <2>1 DEF NoVAT
<1>10. ASSUME NEW type \in {"liability", "revenue", "expense"},
              ~(l.rate # 0 /\ l.rate = r /\ AccountType[l.account] = type)
       PROVE  /\ type = "liability" => Lc(Y) = Lc(X) /\ Ld(Y) = Ld(X)
              /\ type = "revenue" => Rc(Y) = Rc(X) /\ Rd(Y) = Rd(X)
              /\ type = "expense" => Ed(Y) = Ed(X) /\ Ec(Y) = Ec(X)
  BY <1>5, <1>10 DEF Lc, Ld, Rc, Rd, Ed, Ec
<1>11. ASSUME l.rate # 0, l.rate = r
       PROVE  /\ AccountType[l.account] = "liability" => Lc(Y) = Lc(X) + l.credit /\ Ld(Y) = Ld(X) + l.debit
              /\ AccountType[l.account] = "revenue" => Rc(Y) = Rc(X) + l.credit /\ Rd(Y) = Rd(X) + l.debit
              /\ AccountType[l.account] = "expense" => Ed(Y) = Ed(X) + l.debit /\ Ec(Y) = Ec(X) + l.credit
  BY <1>6, <1>11 DEF Lc, Ld, Rc, Rd, Ed, Ec
<1>12. (l.rate = 0 \/ l.rate # r) => BucketOf(Y, r) = BucketOf(X, r)
  BY <1>3, <1>10
<1>13. ASSUME l.rate # 0, l.rate = r PROVE BucketOf(Y, r) = More(BucketOf(X, r), l)
  <2> DEFINE b == BucketOf(X, r)
  <2>1. b.collected = Lc(X) /\ b.deductible = Ld(X) /\ b.base = Rc(X) - Rd(X) + Ed(X) - Ec(X)
    BY <1>3
  <2> HIDE DEF b
  <2>2. CASE AccountType[l.account] = "liability"
    <3>1. More(b, l) = [collected |-> b.collected + l.credit, deductible |-> b.deductible + l.debit,
                        base |-> b.base]
      BY <1>2, <1>8, <2>2, MoreIs DEF b
    <3>2. /\ Lc(Y) = Lc(X) + l.credit /\ Ld(Y) = Ld(X) + l.debit
          /\ Rc(Y) = Rc(X) /\ Rd(Y) = Rd(X) /\ Ed(Y) = Ed(X) /\ Ec(Y) = Ec(X)
      BY <1>10, <1>11, <1>13, <2>2
    <3> QED
      BY <1>3, <2>1, <3>1, <3>2 DEF b
  <2>3. CASE AccountType[l.account] = "revenue"
    <3>1. More(b, l) = [collected |-> b.collected, deductible |-> b.deductible,
                        base |-> b.base + l.credit - l.debit]
      BY <1>2, <1>8, <2>3, MoreIs DEF b
    <3>2. /\ Rc(Y) = Rc(X) + l.credit /\ Rd(Y) = Rd(X) + l.debit
          /\ Lc(Y) = Lc(X) /\ Ld(Y) = Ld(X) /\ Ed(Y) = Ed(X) /\ Ec(Y) = Ec(X)
      BY <1>10, <1>11, <1>13, <2>3
    <3>3. Rc(Y) - Rd(Y) + Ed(Y) - Ec(Y) = b.base + l.credit - l.debit
      BY SMTT(30), <1>1, <1>2, <2>1, <3>2
    <3> QED
      BY <1>3, <2>1, <3>1, <3>2, <3>3 DEF b
  <2>4. CASE AccountType[l.account] = "expense"
    <3>1. More(b, l) = [collected |-> b.collected, deductible |-> b.deductible,
                        base |-> b.base + l.debit - l.credit]
      BY <1>2, <1>8, <2>4, MoreIs DEF b
    <3>2. /\ Ed(Y) = Ed(X) + l.debit /\ Ec(Y) = Ec(X) + l.credit
          /\ Lc(Y) = Lc(X) /\ Ld(Y) = Ld(X) /\ Rc(Y) = Rc(X) /\ Rd(Y) = Rd(X)
      BY <1>10, <1>11, <1>13, <2>4
    <3>3. Rc(Y) - Rd(Y) + Ed(Y) - Ec(Y) = b.base + l.debit - l.credit
      BY SMTT(30), <1>1, <1>2, <2>1, <3>2
    <3> QED
      BY <1>3, <2>1, <3>1, <3>2, <3>3 DEF b
  <2>5. CASE AccountType[l.account] \notin {"liability", "revenue", "expense"}
    <3>1. More(b, l) = b
      BY <1>2, <1>8, <2>5, MoreIs DEF b
    <3>2. /\ Lc(Y) = Lc(X) /\ Ld(Y) = Ld(X) /\ Rc(Y) = Rc(X) /\ Rd(Y) = Rd(X)
          /\ Ed(Y) = Ed(X) /\ Ec(Y) = Ec(X)
      BY <1>10, <2>5
    <3> QED
      BY <1>3, <3>1, <3>2 DEF b
  <2> QED
    BY <2>2, <2>3, <2>4, <2>5
<1> QED
  BY <1>8, <1>9, <1>12, <1>13 DEF Y, l

LEMMA VATAdds ==
  ASSUME postings \in Seq(Entries), NEW X \in SUBSET VATRows, IsFiniteSet(X),
         NEW x \in VATRows, x \notin X
  PROVE  VATOf(X) \in Buckets /\ Report!Bucketed(VATOf(X), x.leg) = VATOf(X \cup {x})
<1> DEFINE Y == X \cup {x}
           l == x.leg
<1>1. l \in ReportLeg /\ l.rate \in Nat
  BY VATRowsAre DEF ReportLeg
<1>2. Rates(X) \in SUBSET Nat
  <2>1. \A y \in X : y.leg.rate \in Nat
    BY VATRowsAre DEF ReportLeg
  <2> QED
    BY <2>1 DEF Rates
<1>3. /\ l.rate = 0 => Rates(Y) = Rates(X)
      /\ l.rate # 0 => Rates(Y) = Rates(X) \cup {l.rate}
  BY DEF Rates
<1>4. \A r : /\ BucketOf(X, r) \in Bucket
             /\ r \notin Rates(X) => BucketOf(X, r) = NoVAT
             /\ (l.rate = 0 \/ l.rate # r) => BucketOf(Y, r) = BucketOf(X, r)
             /\ (l.rate # 0 /\ l.rate = r) => BucketOf(Y, r) = More(BucketOf(X, r), l)
  BY BucketIs
<1> HIDE DEF Y, l
<1>5. VATOf(X) \in Buckets
  <2>1. VATOf(X) \in [Rates(X) -> Bucket]
    BY <1>4 DEF VATOf
  <2> QED
    BY <1>2, <2>1, BucketsAre
<1>6. \A r \in Rates(X) : VATOf(X)[r] = BucketOf(X, r)
  BY DEF VATOf
<1>7. DOMAIN VATOf(X) = Rates(X)
  BY DEF VATOf
<1>8. CASE l.rate = 0
  <2>1. \A r \in Rates(X) : BucketOf(Y, r) = BucketOf(X, r)
    BY <1>4, <1>8
  <2>2. VATOf(Y) = VATOf(X)
    BY <1>3, <1>8, <2>1 DEF VATOf
  <2>3. Report!Bucketed(VATOf(X), l) = VATOf(X)
    BY <1>1, <1>5, <1>8, BucketedIs
  <2> QED
    BY <1>5, <2>2, <2>3 DEF Y, l
<1>9. CASE l.rate # 0
  <2> DEFINE B == VATOf(X)
  <2>1. Report!Bucketed(B, l) = [r \in DOMAIN B \cup {l.rate} |->
                                   IF r = l.rate THEN More(Was(B, r), l) ELSE B[r]]
    BY <1>1, <1>5, <1>9, BucketedIs
  <2>2. Was(B, l.rate) = BucketOf(X, l.rate)
    BY <1>4, <1>6, <1>7 DEF Was
  <2> HIDE DEF B
  <2>3. \A r \in Rates(Y) : BucketOf(Y, r) = IF r = l.rate THEN More(Was(B, r), l) ELSE B[r]
    BY <1>3, <1>4, <1>6, <1>9, <2>2 DEF B
  <2>4. DOMAIN B \cup {l.rate} = Rates(Y)
    BY <1>3, <1>7, <1>9 DEF B
  <2>5. VATOf(Y) = [r \in Rates(Y) |-> IF r = l.rate THEN More(Was(B, r), l) ELSE B[r]]
    BY <2>3 DEF VATOf
  <2>6. Report!Bucketed(B, l) = VATOf(Y)
    BY <2>1, <2>4, <2>5
  <2> QED
    BY <1>5, <2>6 DEF B, Y, l
<1> QED
  BY <1>8, <1>9

\* Leg after leg of one entry, and entry after entry.
Upto(m) == {x \in VATRows : x.entry <= m}
Part(m, k) == Upto(m - 1) \cup {VATRow(m, i) : i \in 1 .. k}

LEMMA PartIs ==
  ASSUME postings \in Seq(Entries), NEW m \in DOMAIN postings
  PROVE  /\ Part(m, 0) = Upto(m - 1) /\ Part(m, Len(postings[m].legs)) = Upto(m)
         /\ \A k \in 0 .. Len(postings[m].legs) : Part(m, k) \subseteq VATRows
         /\ \A k \in 1 .. Len(postings[m].legs) :
              /\ VATRow(m, k) \in VATRows /\ VATRow(m, k) \notin Part(m, k - 1)
              /\ Part(m, k) = Part(m, k - 1) \cup {VATRow(m, k)}
<1> DEFINE n == Len(postings[m].legs)
           U == Upto(m - 1)
<1>1. /\ n \in Nat /\ DOMAIN postings[m].legs = 1 .. n /\ m \in Nat
      /\ DOMAIN postings = 1 .. Len(postings)
  BY EntryIs
<1>2. \A x \in VATRows : x.entry \in Nat
  BY <1>1, VATRowsAre
<1>3. \A i, j : VATRow(m, i).entry = m /\ VATRow(m, i).pos = i
  BY VATRowsAre
<1>4. \A k \in 1 .. n : VATRow(m, k) \in VATRows
  BY <1>1, VATRowsAre
<1>5. U \subseteq VATRows /\ \A x \in U : x.entry # m
  BY <1>1, <1>2 DEF Upto
<1>6. \A x : x \in Upto(m) <=> x \in U \/ \E i \in 1 .. n : x = VATRow(m, i)
  <2>1. \A x \in VATRows : x.entry = m <=> \E i \in 1 .. n : x = VATRow(m, i)
    BY <1>1, VATRowsAre
  <2>2. \A x \in VATRows : x.entry <= m <=> x.entry <= m - 1 \/ x.entry = m
    BY <1>1, <1>2
  <2> QED
    BY <1>4, <2>1, <2>2 DEF Upto
<1> HIDE DEF n, U
<1>7. \A k \in 1 .. n : 1 .. k = (1 .. k - 1) \cup {k} /\ k \notin 1 .. k - 1
  BY <1>1
<1>8. Part(m, 0) = U /\ Part(m, n) = Upto(m)
  <2>1. 1 .. 0 = {}
    OBVIOUS
  <2>2. Part(m, 0) = U
    BY <2>1 DEF Part, U
  <2>3. Part(m, n) = U \cup {VATRow(m, i) : i \in 1 .. n}
    BY DEF Part, U
  <2> QED
    BY <1>6, <2>2, <2>3
<1>9. \A k \in 0 .. n : 1 .. k \subseteq 1 .. n
  BY <1>1
<1>10. \A k \in 0 .. n : Part(m, k) \subseteq VATRows
  BY <1>4, <1>5, <1>9 DEF Part, U
<1>11. \A k \in 1 .. n : VATRow(m, k) \notin Part(m, k - 1)
  BY <1>3, <1>5, <1>7 DEF Part, U
<1>12. \A k \in 1 .. n : Part(m, k) = Part(m, k - 1) \cup {VATRow(m, k)}
  BY <1>7 DEF Part
<1> QED
  BY <1>4, <1>8, <1>10, <1>11, <1>12 DEF n, U

LEMMA EntryAdds ==
  ASSUME postings \in Seq(Entries), NEW m \in DOMAIN postings, IsFiniteSet(Upto(m - 1)),
         VATOf(Upto(m - 1)) \in Buckets
  PROVE  /\ Report!AddLegs(VATOf(Upto(m - 1)), postings[m]) = VATOf(Upto(m))
         /\ IsFiniteSet(Upto(m)) /\ VATOf(Upto(m)) \in Buckets
<1> DEFINE n == Len(postings[m].legs)
           B == VATOf(Upto(m - 1))
<1>1. /\ n \in Nat /\ DOMAIN postings[m].legs = 1 .. n /\ postings[m] \in Entries
  BY EntryIs
<1>2. PICK F \in [0 .. n -> Buckets] :
        /\ F[0] = B /\ F[n] = Report!AddLegs(B, postings[m])
        /\ \A k \in 1 .. n : F[k] = Report!Bucketed(F[k - 1], postings[m].legs[k])
  BY <1>1, AddLegsRuns
<1>3. /\ Part(m, 0) = Upto(m - 1) /\ Part(m, n) = Upto(m)
      /\ \A k \in 0 .. n : Part(m, k) \subseteq VATRows
      /\ \A k \in 1 .. n : /\ VATRow(m, k) \in VATRows /\ VATRow(m, k) \notin Part(m, k - 1)
                           /\ Part(m, k) = Part(m, k - 1) \cup {VATRow(m, k)}
  BY PartIs
<1> DEFINE H == {k \in Nat : k <= n => IsFiniteSet(Part(m, k)) /\ F[k] = VATOf(Part(m, k))}
<1>4. 0 \in H
  BY <1>2, <1>3
<1>5. ASSUME NEW k \in H PROVE k + 1 \in H
  <2>1. k \in Nat /\ k + 1 \in Nat /\ (k + 1) - 1 = k
    OBVIOUS
  <2>2. CASE k + 1 <= n
    <3> DEFINE j == k + 1
               X == Part(m, k)
               x == VATRow(m, j)
    <3>1. k \in 0 .. n /\ j \in 1 .. n /\ j - 1 = k /\ IsFiniteSet(X) /\ F[k] = VATOf(X)
      BY <1>1, <2>1, <2>2
    <3>2. /\ X \in SUBSET VATRows /\ x \in VATRows /\ x \notin X /\ Part(m, j) = X \cup {x}
      BY <1>3, <3>1
    <3>3. x.leg = postings[m].legs[j]
      BY VATRowsAre
    <3> HIDE DEF X, x, j
    <3>4. Report!Bucketed(VATOf(X), x.leg) = VATOf(X \cup {x})
      BY <3>1, <3>2, VATAdds
    <3>5. IsFiniteSet(X \cup {x})
      BY <3>1, FS_AddElement
    <3>6. F[j] = VATOf(Part(m, j))
      BY <1>2, <3>1, <3>2, <3>3, <3>4
    <3>7. IsFiniteSet(Part(m, j))
      BY <3>2, <3>5
    <3> QED
      BY <2>1, <3>6, <3>7 DEF j
  <2>3. CASE ~(k + 1 <= n)
    BY <2>1, <2>3
  <2> QED
    BY <2>2, <2>3
<1> HIDE DEF H
<1>6. \A k \in Nat : k \in H
  BY <1>4, <1>5, NatInSet
<1>7. IsFiniteSet(Part(m, n)) /\ F[n] = VATOf(Part(m, n))
  <2>1. n \in H /\ n <= n
    BY <1>1, <1>6
  <2> QED
    BY <2>1 DEF H
<1>8. F[n] \in Buckets
  BY <1>1, <1>2
<1> QED
  BY <1>2, <1>3, <1>7, <1>8

LEMMA VATReturnSums ==
  ASSUME postings \in Seq(Entries)
  PROVE  Report!ComputeVATReturn(postings) = VATOf(VATRows) /\ IsFiniteSet(VATRows)
<1> DEFINE n == Len(postings)
<1>1. n \in Nat /\ DOMAIN postings = 1 .. n
  OBVIOUS
<1>2. PICK F \in [0 .. n -> Buckets] :
        /\ F[0] = << >> /\ F[n] = Report!ComputeVATReturn(postings)
        /\ \A k \in 1 .. n : F[k] = Report!AddLegs(F[k - 1], postings[k])
  BY VATReturnRuns
<1>3. \A x \in VATRows : x.entry \in 1 .. n
  BY <1>1, VATRowsAre
<1>4. Upto(0) = {} /\ Upto(n) = VATRows
  BY <1>1, <1>3 DEF Upto
<1>5. VATOf({}) = << >>
  <2>1. Rates({}) = {}
    BY DEF Rates
  <2>2. VATOf({}) \in [{} -> Bucket]
    BY <2>1 DEF VATOf
  <2>3. << >> \in [{} -> Bucket]
    OBVIOUS
  <2>4. \A f, g \in [{} -> Bucket] : f = g
    OBVIOUS
  <2> QED
    BY <2>2, <2>3, <2>4
<1> DEFINE H == {k \in Nat : k <= n => IsFiniteSet(Upto(k)) /\ F[k] = VATOf(Upto(k))}
<1>6. 0 \in H
  <2>1. IsFiniteSet({})
    BY FS_EmptySet
  <2> QED
    BY <1>2, <1>4, <1>5, <2>1
<1>7. ASSUME NEW k \in H PROVE k + 1 \in H
  <2>1. k \in Nat /\ k + 1 \in Nat
    OBVIOUS
  <2>2. CASE k + 1 <= n
    <3> DEFINE j == k + 1
    <3>1. k \in 0 .. n /\ j \in DOMAIN postings /\ j \in 1 .. n /\ j - 1 = k
          /\ IsFiniteSet(Upto(k)) /\ F[k] = VATOf(Upto(k)) /\ F[k] \in Buckets
      BY <1>1, <1>2, <2>1, <2>2
    <3> HIDE DEF j
    <3>2. /\ Report!AddLegs(VATOf(Upto(k)), postings[j]) = VATOf(Upto(j))
          /\ IsFiniteSet(Upto(j))
      BY <3>1, EntryAdds
    <3>3. F[j] = VATOf(Upto(j))
      BY <1>2, <3>1, <3>2
    <3> QED
      BY <2>1, <3>2, <3>3 DEF j
  <2>3. CASE ~(k + 1 <= n)
    BY <2>1, <2>3
  <2> QED
    BY <2>2, <2>3
<1> HIDE DEF H
<1>8. \A k \in Nat : k \in H
  BY <1>6, <1>7, NatInSet
<1>9. IsFiniteSet(Upto(n)) /\ F[n] = VATOf(Upto(n))
  <2>1. n \in H /\ n <= n
    BY <1>1, <1>8
  <2> QED
    BY <2>1 DEF H
<1> QED
  BY <1>2, <1>4, <1>9

\* The store adds up by rate, type and side; leg after leg it comes to the same.
LegTotal(S, side) == Report!MapThenSumSet(LAMBDA x : x.leg[side], S)

LEMMA LegTotalIs ==
  ASSUME NEW S, NEW side, NEW f, \A x \in S : f[x] = x.leg[side]
  PROVE  LegTotal(S, side) = SumOf(f, S)
<1> DEFINE next(g, s) == IF s = {} THEN 0 ELSE Pick(s).leg[side] + g[s \ {Pick(s)}]
<1>1. \A g : \A s \in SUBSET S : next(g, s) = Unfold(f, g, s)
  BY PickIn DEF Unfold
<1>2. LegTotal(S, side) = (CHOOSE g : g = [s \in SUBSET S |-> next(g, s)])[S]
  BY DEF LegTotal, Report!MapThenSumSet, Report!MapThenFoldSet, Pick
<1> HIDE DEF next
<1>3. \A g : [s \in SUBSET S |-> next(g, s)] = [s \in SUBSET S |-> Unfold(f, g, s)]
  BY <1>1
<1> QED
  BY <1>2, <1>3, SumDef

LEMMA VATReturnIs ==
  Report!VATReturn(postings) = VATOf(VATRows)
<1> DEFINE taxed == {x \in VATRows : x.leg.rate # 0}
           Group(r, type) == {x \in taxed : x.leg.rate = r /\ AccountType[x.leg.account] = type}
           T(r, type, side) == LegTotal(Group(r, type), side)
           B(r) == [collected |-> T(r, "liability", "credit"),
                    deductible |-> T(r, "liability", "debit"),
                    base |-> T(r, "revenue", "credit") - T(r, "revenue", "debit")
                               + T(r, "expense", "debit") - T(r, "expense", "credit")]
<1>1. Report!VATReturn(postings) = [r \in {x.leg.rate : x \in taxed} |-> B(r)]
  BY DEF Report!VATReturn, VATRows, LegTotal
<1>2. \A r, type : Group(r, type) = Of(VATRows, r, type)
  BY DEF Of
<1>3. ASSUME NEW r, NEW type, NEW side PROVE T(r, type, side) = VATTotal(VATRows, r, type, side)
  <2> DEFINE f == Value(side)
             S == Of(VATRows, r, type)
  <2>1. \A x \in S : f[x] = x.leg[side]
    BY DEF Of, Value
  <2> HIDE DEF f, S
  <2>2. LegTotal(S, side) = SumOf(f, S)
    BY <2>1, LegTotalIs
  <2> QED
    BY <1>2, <2>2 DEF f, S, VATTotal
<1> HIDE DEF T
<1>4. \A r : B(r) = BucketOf(VATRows, r)
  BY <1>3 DEF BucketOf
<1> HIDE DEF B
<1>5. {x.leg.rate : x \in taxed} = Rates(VATRows)
  BY DEF Rates
<1> QED
  BY <1>1, <1>4, <1>5 DEF VATOf

LEMMA TheStoresAgree ==
  ASSUME ReportInv
  PROVE  Report!StoresAgree
<1>1. postings \in Seq(Entries)
  BY DEF ReportInv, ReportType
<1>2. Report!VATReturn(postings) = Report!ComputeVATReturn(postings)
  BY <1>1, VATReturnIs, VATReturnSums
<1>3. ASSUME Report!Done, report = "statement", keptInMemory, postings = at.book
      PROVE  \A a \in chart : Report!AccountClosing(a)
                                = Report!DrillAccount(postings, a, Period[1], Period[2]).closing
  BY <1>3, StatementsAgree
<1> QED
  BY <1>2, <1>3 DEF Report!StoresAgree

\* However the books, the invoices and the till move while a report is read without a
\* snapshot, and however many entries, accounts and documents there are: the general
\* ledger and the FEC file are even, name every row and miss no entry that was there;
\* the profit was the profit at some moment; the receivables are between what was due
\* then and what is due now; and the two stores agree on VAT and on an account
\* (reporting/report.go:54-241, finance/fec.go:40-85, finance/tax.go:118-160,
\* finance/ledger.go:25-52).
THEOREM ReportsTellTheirTime == MCSpec => []ReportsAreOfTheirTime
<1>1. MCInit => ReportInv
  BY ReportInit DEF MCInit
<1>2. ReportInv /\ [MCNext]_allVars => ReportInv'
  BY ReportSteps
<1>3. ReportInv => ReportsAreOfTheirTime
  BY BooksWereWhole, ProfitWasSo, ReceivablesWereSo, TheStoresAgree DEF ReportsAreOfTheirTime
<1> QED
  BY <1>1, <1>2, <1>3, PTL DEF MCSpec

-----------------------------------------------------------------------------
(* The lives of rows (the theorems are about Lifecycles alone). The proofs *)
(* follow the version of the row and look at no kind's own moves.          *)

\* The kinds of the tables of Lifecycles are all there is to know of Next.
RowStep ==
  \/ \E k \in Kinds, first \in AllStatuses :
       first \in StatusesOf(k) /\ Created(k, first) /\ approved' \in BOOLEAN
  \/ CompleteMOOperation
  \/ \E r \in Requests, k \in Kinds : Moved(r, k)
  \/ \E r \in Requests, k \in DOMAIN Editable : Edited(r, k)
  \/ \E r \in Requests : SetApproval(r)
  \/ \E r \in Requests, k \in Kinds, child \in {"add", "vote"} : Added(r, k, child)

LEMMA MoveStatuses ==
  ASSUME NEW k \in Kinds, NEW from, NEW to, <<from, to>> \in Moves[k]
  PROVE  from \in StatusesOf(k) /\ to \in StatusesOf(k)
BY DEF StatusesOf

LEMMA StatusesAreStatuses ==
  ASSUME NEW k \in Kinds
  PROVE  StatusesOf(k) \subseteq AllStatuses
BY DEF AllStatuses

LEMMA CreatedShape ==
  ASSUME NEW k \in Kinds, NEW first \in StatusesOf(k), approved \in BOOLEAN, New(k, first)
  PROVE  RowStep
BY StatusesAreStatuses DEF RowStep, New

LEMMA CreateShape == ASSUME approved \in BOOLEAN, Create PROVE RowStep
<1>1. CASE CreateBooking
  <2>1. <<"booked", "checked_in">> \in Moves["booking"] /\ "booking" \in Kinds
    BY DEF Kinds, Moves, BookingMoves, From
  <2>2. "booked" \in StatusesOf("booking")
    BY <2>1, MoveStatuses
  <2> QED
    BY <1>1, <2>1, <2>2, CreatedShape DEF CreateBooking
<1>2. CASE CreateEvent
  <2>1. <<"draft", "published">> \in Moves["orgEvent"] /\ "orgEvent" \in Kinds
    BY DEF Kinds, Moves, OrgEventMoves, From
  <2>2. "draft" \in StatusesOf("orgEvent")
    BY <2>1, MoveStatuses
  <2> QED
    BY <1>2, <2>1, <2>2, CreatedShape DEF CreateEvent
<1>3. CASE CreatePosition
  <2>1. <<"draft", "open">> \in Moves["position"] /\ "position" \in Kinds
    BY DEF Kinds, Moves, PositionMoves, From
  <2>2. "draft" \in StatusesOf("position")
    BY <2>1, MoveStatuses
  <2> QED
    BY <1>3, <2>1, <2>2, CreatedShape DEF CreatePosition
<1>4. CASE CreateApplication
  <2>1. <<"received", "screening">> \in Moves["application"] /\ "application" \in Kinds
    BY DEF Kinds, Moves, ApplicationMoves, From
  <2>2. "received" \in StatusesOf("application")
    BY <2>1, MoveStatuses
  <2> QED
    BY <1>4, <2>1, <2>2, CreatedShape DEF CreateApplication
<1>5. CASE CreateLeave
  <2>1. <<"draft", "submitted">> \in Moves["leave"] /\ "leave" \in Kinds
    BY DEF Kinds, Moves, LeaveMoves, From
  <2>2. "draft" \in StatusesOf("leave")
    BY <2>1, MoveStatuses
  <2> QED
    BY <1>5, <2>1, <2>2, CreatedShape DEF CreateLeave
<1>6. CASE CreateSalary
  <2>1. <<"draft", "validated">> \in Moves["salary"] /\ "salary" \in Kinds
    BY DEF Kinds, Moves, SalaryMoves, From
  <2>2. "draft" \in StatusesOf("salary")
    BY <2>1, MoveStatuses
  <2> QED
    BY <1>6, <2>1, <2>2, CreatedShape DEF CreateSalary
<1>7. CASE HireEmployee
  <2>1. <<"active", "suspended">> \in Moves["employee"] /\ "employee" \in Kinds
    BY DEF Kinds, Moves, EmployeeMoves, From
  <2>2. "active" \in StatusesOf("employee")
    BY <2>1, MoveStatuses
  <2> QED
    BY <1>7, <2>1, <2>2, CreatedShape DEF HireEmployee
<1>8. CASE CreatePayrollRun
  <2>1. <<"draft", "posted">> \in Moves["payroll"] /\ "payroll" \in Kinds
    BY DEF Kinds, Moves, PayrollMoves, From
  <2>2. "draft" \in StatusesOf("payroll")
    BY <2>1, MoveStatuses
  <2> QED
    BY <1>8, <2>1, <2>2, CreatedShape DEF CreatePayrollRun
<1>9. CASE CreateProject
  <2>1. <<"draft", "active">> \in Moves["project"] /\ "project" \in Kinds
    BY DEF Kinds, Moves, ProjectMoves, From
  <2>2. "draft" \in StatusesOf("project")
    BY <2>1, MoveStatuses
  <2> QED
    BY <1>9, <2>1, <2>2, CreatedShape DEF CreateProject
<1>10. CASE NewTask
  <2>1. <<"todo", "doing">> \in Moves["task"] /\ "task" \in Kinds
    BY DEF Kinds, Moves, TaskMoves, From
  <2>2. "todo" \in StatusesOf("task")
    BY <2>1, MoveStatuses
  <2> QED
    BY <1>10, <2>1, <2>2, CreatedShape DEF NewTask
<1>11. CASE CreateContract
  <2>1. <<"draft", "active">> \in Moves["contract"] /\ "contract" \in Kinds
    BY DEF Kinds, Moves, ContractMoves, From
  <2>2. "draft" \in StatusesOf("contract")
    BY <2>1, MoveStatuses
  <2> QED
    BY <1>11, <2>1, <2>2, CreatedShape DEF CreateContract
<1>12. CASE CreateIntervention
  <2>1. <<"scheduled", "in_progress">> \in Moves["intervention"] /\ "intervention" \in Kinds
    BY DEF Kinds, Moves, InterventionMoves, From
  <2>2. "scheduled" \in StatusesOf("intervention")
    BY <2>1, MoveStatuses
  <2> QED
    BY <1>12, <2>1, <2>2, CreatedShape DEF CreateIntervention
<1>13. CASE CreateTicket
  <2>1. <<"open", "pending">> \in Moves["ticket"] /\ "ticket" \in Kinds
    BY DEF Kinds, Moves, TicketMoves, From
  <2>2. "open" \in StatusesOf("ticket")
    BY <2>1, MoveStatuses
  <2> QED
    BY <1>13, <2>1, <2>2, CreatedShape DEF CreateTicket
<1>14. CASE CreateAsset
  <2>1. <<"in_service", "maintenance">> \in Moves["asset"] /\ "asset" \in Kinds
    BY DEF Kinds, Moves, AssetMoves, From
  <2>2. "in_service" \in StatusesOf("asset")
    BY <2>1, MoveStatuses
  <2> QED
    BY <1>14, <2>1, <2>2, CreatedShape DEF CreateAsset
<1>15. CASE CreateArticle
  <2>1. <<"draft", "published">> \in Moves["article"] /\ "article" \in Kinds
    BY DEF Kinds, Moves, ArticleMoves, From
  <2>2. "draft" \in StatusesOf("article")
    BY <2>1, MoveStatuses
  <2> QED
    BY <1>15, <2>1, <2>2, CreatedShape DEF CreateArticle
<1>16. CASE CreateSurvey
  <2>1. <<"draft", "open">> \in Moves["survey"] /\ "survey" \in Kinds
    BY DEF Kinds, Moves, SurveyMoves, From
  <2>2. "draft" \in StatusesOf("survey")
    BY <2>1, MoveStatuses
  <2> QED
    BY <1>16, <2>1, <2>2, CreatedShape DEF CreateSurvey
<1>17. CASE CreateMember
  <2>1. <<"draft", "active">> \in Moves["member"] /\ "member" \in Kinds
    BY DEF Kinds, Moves, MemberMoves, From
  <2>2. "draft" \in StatusesOf("member")
    BY <2>1, MoveStatuses
  <2> QED
    BY <1>17, <2>1, <2>2, CreatedShape DEF CreateMember
<1>18. CASE CreateSubscription
  <2>1. <<"draft", "validated">> \in Moves["subscription"] /\ "subscription" \in Kinds
    BY DEF Kinds, Moves, SubscriptionMoves, From
  <2>2. "draft" \in StatusesOf("subscription")
    BY <2>1, MoveStatuses
  <2> QED
    BY <1>18, <2>1, <2>2, CreatedShape DEF CreateSubscription
<1>19. CASE CreateDonation
  <2>1. <<"promised", "paid">> \in Moves["donation"] /\ "donation" \in Kinds
    BY DEF Kinds, Moves, DonationMoves, From
  <2>2. "promised" \in StatusesOf("donation")
    BY <2>1, MoveStatuses
  <2> QED
    BY <1>19, <2>1, <2>2, CreatedShape DEF CreateDonation
<1>20. CASE CreateBatch
  <2>1. <<"draft", "validated">> \in Moves["batch"] /\ "batch" \in Kinds
    BY DEF Kinds, Moves, BatchMoves, From
  <2>2. "draft" \in StatusesOf("batch")
    BY <2>1, MoveStatuses
  <2> QED
    BY <1>20, <2>1, <2>2, CreatedShape DEF CreateBatch
<1>21. CASE CreateTransfer
  <2>1. <<"draft", "validated">> \in Moves["creditTransfer"] /\ "creditTransfer" \in Kinds
    BY DEF Kinds, Moves, CreditTransferMoves, From
  <2>2. "draft" \in StatusesOf("creditTransfer")
    BY <2>1, MoveStatuses
  <2> QED
    BY <1>21, <2>1, <2>2, CreatedShape DEF CreateTransfer
<1>22. CASE CreateBOM
  <2>1. <<"draft", "active">> \in Moves["bom"] /\ "bom" \in Kinds
    BY DEF Kinds, Moves, BomMoves, From
  <2>2. "draft" \in StatusesOf("bom")
    BY <2>1, MoveStatuses
  <2> QED
    BY <1>22, <2>1, <2>2, CreatedShape DEF CreateBOM
<1>23. CASE CreateMO
  <2>1. <<"draft", "validated">> \in Moves["mo"] /\ "mo" \in Kinds
    BY DEF Kinds, Moves, MoMoves, From
  <2>2. "draft" \in StatusesOf("mo")
    BY <2>1, MoveStatuses
  <2> QED
    BY <1>23, <2>1, <2>2, CreatedShape DEF CreateMO
<1>24. CASE PlanOperation
  <2>1. <<"pending", "done">> \in Moves["moOperation"] /\ "moOperation" \in Kinds
    BY DEF Kinds, Moves, OperationMoves, From
  <2>2. "pending" \in StatusesOf("moOperation")
    BY <2>1, MoveStatuses
  <2> QED
    BY <1>24, <2>1, <2>2, CreatedShape DEF PlanOperation
<1>25. CASE CreateMandate
  <2>1. <<"draft", "active">> \in Moves["mandate"] /\ "mandate" \in Kinds
    BY DEF Kinds, Moves, MandateMoves, From
  <2>2. "draft" \in StatusesOf("mandate")
    BY <2>1, MoveStatuses
  <2> QED
    BY <1>25, <2>1, <2>2, CreatedShape DEF CreateMandate
<1>26. CASE CreateStockTransfer
  <2>1. <<"draft", "validated">> \in Moves["stockTransfer"] /\ "stockTransfer" \in Kinds
    BY DEF Kinds, Moves, StockTransferMoves, From
  <2>2. "draft" \in StatusesOf("stockTransfer")
    BY <2>1, MoveStatuses
  <2> QED
    BY <1>26, <2>1, <2>2, CreatedShape DEF CreateStockTransfer
<1>27. CASE CreateReception
  <2>1. <<"draft", "validated">> \in Moves["reception"] /\ "reception" \in Kinds
    BY DEF Kinds, Moves, ReceptionMoves, From
  <2>2. "draft" \in StatusesOf("reception")
    BY <2>1, MoveStatuses
  <2> QED
    BY <1>27, <2>1, <2>2, CreatedShape DEF CreateReception
<1>28. CASE CreateRule
  <2>1. Moves["priceRule"] = {} /\ "priceRule" \in Kinds
    BY DEF Kinds, Moves, KeptMoves
  <2>2. "kept" \in StatusesOf("priceRule")
    BY <2>1 DEF StatusesOf
  <2> QED
    BY <1>28, <2>1, <2>2, CreatedShape DEF CreateRule
<1>29. CASE CreateSheet
  <2>1. Moves["labelSheet"] = {} /\ "labelSheet" \in Kinds
    BY DEF Kinds, Moves, KeptMoves
  <2>2. "kept" \in StatusesOf("labelSheet")
    BY <2>1 DEF StatusesOf
  <2> QED
    BY <1>29, <2>1, <2>2, CreatedShape DEF CreateSheet
<1>30. CASE CreateOrg
  <2>1. Moves["organization"] = {} /\ "organization" \in Kinds
    BY DEF Kinds, Moves, KeptMoves
  <2>2. "kept" \in StatusesOf("organization")
    BY <2>1 DEF StatusesOf
  <2> QED
    BY <1>30, <2>1, <2>2, CreatedShape DEF CreateOrg
<1>31. CASE CreateMemo
  <2>1. Moves["memo"] = {} /\ "memo" \in Kinds
    BY DEF Kinds, Moves, KeptMoves
  <2>2. "kept" \in StatusesOf("memo")
    BY <2>1 DEF StatusesOf
  <2> QED
    BY <1>31, <2>1, <2>2, CreatedShape DEF CreateMemo
<1>32. CASE CreateUser
  <2>1. Moves["user"] = {} /\ "user" \in Kinds
    BY DEF Kinds, Moves, KeptMoves
  <2>2. "kept" \in StatusesOf("user")
    BY <2>1 DEF StatusesOf
  <2> QED
    BY <1>32, <2>1, <2>2, CreatedShape DEF CreateUser
<1>33. CASE CreateSupplierOrder
  <2>1. <<"draft", "validated">> \in Moves["supplierOrder"] /\ "supplierOrder" \in Kinds
    BY DEF Kinds, Moves, SupplierOrderMoves, From
  <2>2. "draft" \in StatusesOf("supplierOrder")
    BY <2>1, MoveStatuses
  <2> QED
    BY <1>33, <2>1, <2>2, StatusesAreStatuses DEF CreateSupplierOrder, RowStep
<1> QED
  BY <1>1, <1>2, <1>3, <1>4, <1>5, <1>6, <1>7, <1>8, <1>9, <1>10, <1>11, <1>12, <1>13, <1>14,
    <1>15, <1>16, <1>17, <1>18, <1>19, <1>20, <1>21, <1>22, <1>23, <1>24, <1>25, <1>26, <1>27,
    <1>28, <1>29, <1>30, <1>31, <1>32, <1>33 DEF Create

LEMMA MoveKind == ASSUME NEW r \in Requests, Move(r) PROVE \E k \in Kinds : Moved(r, k)
<1>1. {"booking", "orgEvent", "position", "application", "leave", "salary", "employee",
       "payroll", "project", "task", "contract", "intervention", "ticket", "asset",
       "article", "survey", "member", "subscription", "donation", "batch",
       "creditTransfer", "bom", "mo", "mandate", "stockTransfer", "supplierOrder",
       "reception"} \subseteq Kinds
  BY DEF Kinds, Moves
<1>2. ASSUME NEW asked, MovedTo(r, "mandate", asked), asked \subseteq StatusesOf("mandate")
      PROVE  Moved(r, "mandate")
  BY <1>2 DEF Moved, MovedTo
<1>3. <<"draft", "active">> \in Moves["mandate"] /\ <<"draft", "canceled">> \in Moves["mandate"]
  BY DEF Moves, MandateMoves, From
<1>4. {"active"} \subseteq StatusesOf("mandate") /\ {"canceled"} \subseteq StatusesOf("mandate")
  BY <1>1, <1>3, MoveStatuses
<1>5. CASE SignMandate(r) \/ CancelMandate(r)
  <2>1. Moved(r, "mandate")
    BY <1>2, <1>4, <1>5 DEF SignMandate, CancelMandate
  <2> QED
    BY <1>1, <2>1
<1>6. CASE SetSupplierDocStatus(r)
  BY <1>1, <1>6 DEF SetSupplierDocStatus
<1>7. CASE ~(SignMandate(r) \/ CancelMandate(r) \/ SetSupplierDocStatus(r))
  BY <1>1, <1>7 DEF Move, SetBookingStatus, SetOrgEventStatus, SetPositionStatus,
      SetApplicationStatus, SetLeaveStatus, SetSalaryStatus, SetEmployeeStatus,
      SetPayrollRunStatus, SetProjectStatus, SetTaskStatus, SetContractStatus,
      SetInterventionStatus, SetTicketStatus, SetAssetStatus, SetArticleStatus,
      SetSurveyStatus, SetMemberStatus, SetSubscriptionStatus, SetDonationStatus,
      SetBatchStatus, SetTransferStatus, SetBOMStatus, SetMOStatus, SetStockTransferStatus
<1> QED
  BY <1>5, <1>6, <1>7

LEMMA EditKind ==
  ASSUME NEW r \in Requests, Edit(r)
  PROVE  SetApproval(r) \/ \E k \in DOMAIN Editable : Edited(r, k)
<1>1. CASE SetApproval(r)
  BY <1>1
<1>2. CASE ~SetApproval(r)
  <2>1. {"article", "asset", "mandate", "stockTransfer", "priceRule", "labelSheet",
         "organization", "memo", "user"} \subseteq DOMAIN Editable
    BY DEF Editable
  <2> QED
    BY <1>2, <2>1 DEF Edit, UpdateArticle, UpdateAsset, AmendMandate, UpdateDraft, UpdateRule,
      UpdateSheet, UpdateOrg, UpdateMemo, UpdateUser
<1> QED
  BY <1>1, <1>2

LEMMA AddKind ==
  ASSUME NEW r \in Requests, Add(r)
  PROVE  \E k \in Kinds, child \in {"add", "vote"} : Added(r, k, child)
<1>1. {"project", "task", "ticket", "survey", "position", "bom", "stockTransfer", "payroll"}
        \subseteq Kinds
  BY DEF Kinds, Moves
<1> QED
  BY <1>1 DEF Add, CreateTask, AddTime, AddMessage, AddQuestion, CastVote, Apply, AddBOMLine,
    AddTransferLine, AddPayrollRunLine

LEMMA NextShape == ASSUME approved \in BOOLEAN, Next PROVE RowStep
BY CreateShape, MoveKind, EditKind, AddKind DEF Next, RowStep

-----------------------------------------------------------------------------
(* The invariant *)

\* Requests whose check was on an earlier version of the parent.
StaleChildren == {r \in Requests : pc[r] \in {"add", "vote"} /\ seen[r].version # version}

\* What a request has checked, said of the row as it is now.
CheckHolds(r) ==
  /\ pc[r] = "move" => <<status, seen[r].to>> \in Moves[kind] /\ ~NeedsApproval(seen[r].to)
  /\ pc[r] = "edit" => status \in Editable[kind] /\ seen[r].content = content
  /\ pc[r] \in {"add", "vote"} => status \in OpenFor(kind, pc[r])

SeenInv == \A r \in Requests : pc[r] # "idle" =>
  /\ seen[r].version \in 1 .. version
  /\ pc[r] \in {"move", "edit", "approve"} => seen[r].version < ChangeLimit
  /\ seen[r].version = version => CheckHolds(r)

\* A late child has left StaleChildren, and a change puts all requests there at most.
LateInv ==
  /\ version = 0 => late = 0
  /\ version > 0 => late + Cardinality(StaleChildren) <= Cardinality(Requests) * (version - 1)

Inv == TypeOK /\ SeenInv /\ LateInv

LEMMA StaleIsFinite ==
  /\ IsFiniteSet(StaleChildren) /\ Cardinality(StaleChildren) \in Nat
  /\ Cardinality(Requests) \in Nat
  /\ Cardinality(StaleChildren) <= Cardinality(Requests)
<1>1. StaleChildren \subseteq Requests
  BY DEF StaleChildren
<1> QED
  BY <1>1, LifecyclesAssumption, FS_Subset, FS_CardinalityType

LEMMA InitInv == Init => Inv
<1> SUFFICES ASSUME Init PROVE Inv
  OBVIOUS
<1>1. TypeOK
  <2>1. NothingRead \in [to : AllStatuses \cup {"none"}, content : Nat, version : 0 .. ChangeLimit]
    BY LifecyclesAssumption DEF NothingRead
  <2>2. large \in BOOLEAN /\ approved \in BOOLEAN
    BY DEF Init
  <2>3. seen \in [Requests -> [to : AllStatuses \cup {"none"}, content : Nat,
                              version : 0 .. ChangeLimit]]
    BY <2>1 DEF Init
  <2>4. pc \in [Requests -> {"idle", "move", "edit", "approve", "add", "vote"}]
    BY DEF Init
  <2>5. version \in 0 .. ChangeLimit /\ content \in Nat /\ late \in Nat
    BY LifecyclesAssumption DEF Init
  <2> QED
    BY <2>2, <2>3, <2>4, <2>5 DEF Init, TypeOK
<1>2. SeenInv
  BY DEF Init, SeenInv
<1>3. LateInv
  BY DEF Init, LateInv
<1> QED
  BY <1>1, <1>2, <1>3 DEF Inv

\* A step that leaves the row alone and gives no request more to do.
LEMMA FinishInv ==
  ASSUME Inv, NEW r \in Requests, Finish(r),
         UNCHANGED <<kind, status, version, large, approved, content, late>>
  PROVE  Inv'
<1>1. TypeOK'
  <2>1. NothingRead \in [to : AllStatuses \cup {"none"}, content : Nat, version : 0 .. ChangeLimit]
    BY LifecyclesAssumption DEF NothingRead
  <2> QED
    BY <2>1 DEF Inv, TypeOK, Finish
<1>2. SeenInv'
  BY DEF Inv, TypeOK, SeenInv, Finish, CheckHolds, NeedsApproval
<1>3. LateInv'
  <2>1. StaleChildren' \subseteq StaleChildren
    BY DEF Inv, TypeOK, Finish, StaleChildren
  <2>2. Cardinality(StaleChildren') <= Cardinality(StaleChildren)
    BY <2>1, StaleIsFinite, FS_Subset
  <2>3. Cardinality(StaleChildren') \in Nat
    BY <2>1, StaleIsFinite, FS_Subset, FS_CardinalityType
  <2>4. late' + Cardinality(StaleChildren') <= late + Cardinality(StaleChildren)
    BY <2>2, <2>3, StaleIsFinite DEF Inv, TypeOK
  <2>5. Cardinality(Requests) * (version - 1) \in Int
    BY StaleIsFinite DEF Inv, TypeOK
  <2> QED
    BY <2>2, <2>3, <2>4, <2>5, StaleIsFinite DEF Inv, TypeOK, LateInv
<1> QED
  BY <1>1, <1>2, <1>3 DEF Inv

\* A new version makes every check one of an earlier version.
LEMMA BumpInv ==
  ASSUME Inv, TypeOK', version > 0, version' = version + 1, late' = late,
         \A q \in Requests : (pc'[q] = pc[q] /\ seen'[q] = seen[q]) \/ pc'[q] = "idle"
  PROVE  Inv'
<1>1. SeenInv'
  BY DEF Inv, TypeOK, SeenInv
<1>2. LateInv'
  <2> DEFINE N == Cardinality(Requests)
  <2>1. Cardinality(StaleChildren') <= N /\ Cardinality(StaleChildren') \in Nat
    <3>1. StaleChildren' \subseteq Requests
      BY DEF StaleChildren
    <3> QED
      BY <3>1, LifecyclesAssumption, FS_Subset, FS_CardinalityType
  <2>2. late <= N * (version - 1)
    <3>1. N * (version - 1) \in Int
      BY StaleIsFinite DEF Inv, TypeOK
    <3> QED
      BY <3>1, StaleIsFinite DEF Inv, TypeOK, LateInv
  <2>3. N * version = N * (version - 1) + N /\ N * (version - 1) \in Int
    BY StaleIsFinite DEF Inv, TypeOK
  <2>4. late' + Cardinality(StaleChildren') <= N * (version' - 1)
    <3>1. version' - 1 = version
      BY DEF Inv, TypeOK
    <3>2. late + Cardinality(StaleChildren') <= N * (version - 1) + N
      BY <2>1, <2>2, <2>3, StaleIsFinite DEF Inv, TypeOK
    <3> QED
      BY <3>1, <3>2, <2>3
  <2> QED
    BY <2>4 DEF Inv, TypeOK, LateInv
<1> QED
  BY <1>1, <1>2 DEF Inv

LEMMA ReadInv ==
  ASSUME Inv, NEW r \in Requests, NEW to \in AllStatuses \cup {"none"},
         NEW k, NEW label \in {"move", "edit", "approve", "add", "vote"}, Read(r, k, label, to),
         label \in {"move", "edit", "approve"} => version < ChangeLimit,
         label = "move" => <<status, to>> \in Moves[kind] /\ ~NeedsApproval(to),
         label = "edit" => status \in Editable[kind],
         label \in {"add", "vote"} => status \in OpenFor(kind, label)
  PROVE  Inv'
<1>1. TypeOK'
  BY DEF Inv, TypeOK, Read
<1>2. SeenInv'
  <2> SUFFICES ASSUME NEW q \in Requests, pc'[q] # "idle"
               PROVE  /\ seen'[q].version \in 1 .. version
                      /\ pc'[q] \in {"move", "edit", "approve"} => seen'[q].version < ChangeLimit
                      /\ seen'[q].version = version => CheckHolds(q)'
    BY DEF SeenInv, Read
  <2>1. CASE q = r
    <3>1. pc'[q] = label /\ seen'[q] = [to |-> to, content |-> content, version |-> version]
      BY <2>1 DEF Inv, TypeOK, Read
    <3>2. version \in 1 .. version
      BY DEF Inv, TypeOK, Read
    <3>3. CheckHolds(q)'
      BY <3>1 DEF CheckHolds, NeedsApproval, Read
    <3> QED
      BY <3>1, <3>2, <3>3
  <2>2. CASE q # r
    <3>1. pc'[q] = pc[q] /\ seen'[q] = seen[q]
      BY <2>2 DEF Inv, TypeOK, Read
    <3> QED
      BY <3>1 DEF Inv, SeenInv, CheckHolds, NeedsApproval, Read
  <2> QED
    BY <2>1, <2>2
<1>3. LateInv'
  <2>1. StaleChildren' = StaleChildren
    BY DEF Inv, TypeOK, Read, StaleChildren
  <2> QED
    BY <2>1 DEF Inv, LateInv, Read
<1> QED
  BY <1>1, <1>2, <1>3 DEF Inv

-----------------------------------------------------------------------------
(* The steps *)

LEMMA CreatedInv ==
  ASSUME Inv, NEW k \in Kinds, NEW first \in AllStatuses, first \in StatusesOf(k),
         Created(k, first), approved' \in BOOLEAN
  PROVE  Inv' /\ LegalStep
<1>1. TypeOK'
  BY LifecyclesAssumption DEF Inv, TypeOK, Created
<1>2. \A q \in Requests : pc[q] = "idle"
  BY DEF Inv, TypeOK, SeenInv, Created
<1>3. SeenInv'
  BY <1>2 DEF SeenInv, Created
<1>4. LateInv'
  <2>1. StaleChildren' = {}
    BY <1>2 DEF StaleChildren, Created
  <2>2. Cardinality(StaleChildren') = 0
    BY <2>1, FS_EmptySet
  <2>3. Cardinality(Requests) * 0 = 0
    BY StaleIsFinite
  <2> QED
    BY <2>2, <2>3 DEF Inv, LateInv, Created
<1>5. LegalStep
  BY DEF LegalStep, Created
<1> QED
  BY <1>1, <1>3, <1>4, <1>5 DEF Inv

LEMMA CompleteInv == ASSUME Inv, CompleteMOOperation PROVE Inv' /\ LegalStep
<1>1. <<"pending", "done">> \in Moves["moOperation"] /\ "moOperation" \in Kinds
  BY DEF Kinds, Moves, OperationMoves, From
<1>2. "done" \in StatusesOf("moOperation")
  BY <1>1, MoveStatuses
<1>3. TypeOK'
  <2>1. version + 1 \in 0 .. ChangeLimit
    BY LifecyclesAssumption DEF CompleteMOOperation
  <2> QED
    BY <1>1, <1>2, <2>1 DEF Inv, TypeOK, CompleteMOOperation
<1>4. Inv'
  <2>1. version > 0 /\ version' = version + 1
    BY LifecyclesAssumption DEF CompleteMOOperation
  <2> QED
    BY <1>3, <2>1, BumpInv DEF CompleteMOOperation
<1>5. LegalStep
  BY <1>1 DEF LegalStep, CompleteMOOperation, NeedsApproval
<1> QED
  BY <1>4, <1>5

\* A write that the row version stops is only the end of its request.
LEMMA MovedInv ==
  ASSUME Inv, NEW r \in Requests, NEW k \in Kinds, Moved(r, k) PROVE Inv' /\ LegalStep
<1>1. CASE \E to \in StatusesOf(k) : /\ version < ChangeLimit
                                   /\ <<status, to>> \in Moves[k]
                                   /\ ~NeedsApproval(to)
                                   /\ Read(r, k, "move", to)
  <2>1. PICK to \in StatusesOf(k) : /\ version < ChangeLimit
                                   /\ <<status, to>> \in Moves[k]
                                   /\ ~NeedsApproval(to)
                                   /\ Read(r, k, "move", to)
    BY <1>1
  <2>2. to \in AllStatuses /\ k = kind
    BY <2>1, StatusesAreStatuses DEF Read
  <2>3. Inv'
    BY <2>1, <2>2, ReadInv
  <2>4. LegalStep
    BY <2>1 DEF LegalStep, Read
  <2> QED
    BY <2>3, <2>4
<1>2. CASE WriteMove(r, k) /\ SameVersion(r)
  <2>1. /\ seen[r].version \in 1 .. version /\ version < ChangeLimit
        /\ <<status, seen[r].to>> \in Moves[k] /\ ~NeedsApproval(seen[r].to)
    BY <1>2 DEF Inv, SeenInv, CheckHolds, WriteMove, SameVersion
  <2>2. seen[r].to \in StatusesOf(kind)
    BY <1>2, <2>1, MoveStatuses DEF WriteMove
  <2>3. NothingRead \in [to : AllStatuses \cup {"none"}, content : Nat, version : 0 .. ChangeLimit]
    BY LifecyclesAssumption DEF NothingRead
  <2>4. version + 1 \in 0 .. ChangeLimit /\ version > 0
    BY <2>1, LifecyclesAssumption DEF Inv, TypeOK
  <2>5. TypeOK'
    BY <1>2, <2>2, <2>3, <2>4 DEF Inv, TypeOK, WriteMove, Finish
  <2>6. Inv'
    BY <1>2, <2>4, <2>5, BumpInv DEF WriteMove, Finish, Inv, TypeOK
  <2>7. LegalStep
    BY <1>2, <2>1 DEF LegalStep, WriteMove, NeedsApproval
  <2> QED
    BY <2>6, <2>7
<1>3. CASE WriteMove(r, k) /\ ~SameVersion(r)
  <2>1. Inv'
    BY <1>3, FinishInv DEF WriteMove
  <2>2. LegalStep
    BY <1>3 DEF LegalStep, WriteMove
  <2> QED
    BY <2>1, <2>2
<1> QED
  BY <1>1, <1>2, <1>3 DEF Moved, MovedTo

LEMMA EditedInv ==
  ASSUME Inv, NEW r \in Requests, NEW k \in DOMAIN Editable, Edited(r, k)
  PROVE  Inv' /\ LegalStep
<1>1. CASE version < ChangeLimit /\ status \in Editable[k] /\ Read(r, k, "edit", status)
  <2>1. status \in AllStatuses \cup {"none"} /\ k = kind
    BY <1>1, StatusesAreStatuses DEF Inv, TypeOK, Read
  <2>2. Inv'
    BY <1>1, <2>1, ReadInv
  <2>3. LegalStep
    BY <1>1 DEF LegalStep, Read
  <2> QED
    BY <2>2, <2>3
<1>2. CASE WriteEdit(r, k) /\ SameVersion(r)
  <2>1. /\ seen[r].version \in 1 .. version /\ version < ChangeLimit
        /\ status \in Editable[kind] /\ seen[r].content = content
    BY <1>2 DEF Inv, SeenInv, CheckHolds, WriteEdit, SameVersion
  <2>2. NothingRead \in [to : AllStatuses \cup {"none"}, content : Nat, version : 0 .. ChangeLimit]
    BY LifecyclesAssumption DEF NothingRead
  <2>3. version + 1 \in 0 .. ChangeLimit /\ version > 0 /\ content + 1 \in Nat
    BY <2>1, LifecyclesAssumption DEF Inv, TypeOK
  <2>4. TypeOK'
    BY <1>2, <2>2, <2>3 DEF Inv, TypeOK, WriteEdit, Finish
  <2>5. Inv'
    BY <1>2, <2>3, <2>4, BumpInv DEF WriteEdit, Finish, Inv, TypeOK
  <2>6. pc[r] = "edit" /\ pc'[r] = "idle"
    BY <1>2 DEF WriteEdit, Finish, Inv, TypeOK
  <2>7. LegalStep
    BY <1>2, <2>1, <2>6 DEF LegalStep, WriteEdit
  <2> QED
    BY <2>5, <2>7
<1>3. CASE WriteEdit(r, k) /\ ~SameVersion(r)
  <2>1. Inv'
    BY <1>3, FinishInv DEF WriteEdit
  <2>2. LegalStep
    BY <1>3 DEF LegalStep, WriteEdit
  <2> QED
    BY <2>1, <2>2
<1> QED
  BY <1>1, <1>2, <1>3 DEF Edited

LEMMA ApprovalInv == ASSUME Inv, NEW r \in Requests, SetApproval(r) PROVE Inv' /\ LegalStep
<1>1. CASE version < ChangeLimit /\ Read(r, "supplierOrder", "approve", status)
  <2>1. status \in AllStatuses \cup {"none"}
    BY StatusesAreStatuses DEF Inv, TypeOK
  <2>2. Inv'
    BY <1>1, <2>1, ReadInv
  <2>3. LegalStep
    BY <1>1 DEF LegalStep, Read
  <2> QED
    BY <2>2, <2>3
<1>2. CASE WriteApproval(r) /\ SameVersion(r)
  <2>1. seen[r].version \in 1 .. version /\ version < ChangeLimit
    BY <1>2 DEF Inv, SeenInv, WriteApproval, SameVersion
  <2>2. NothingRead \in [to : AllStatuses \cup {"none"}, content : Nat, version : 0 .. ChangeLimit]
    BY LifecyclesAssumption DEF NothingRead
  <2>3. version + 1 \in 0 .. ChangeLimit /\ version > 0
    BY <2>1, LifecyclesAssumption DEF Inv, TypeOK
  <2>4. TypeOK'
    BY <1>2, <2>2, <2>3 DEF Inv, TypeOK, WriteApproval, Finish
  <2>5. Inv'
    BY <1>2, <2>3, <2>4, BumpInv DEF WriteApproval, Finish, Inv, TypeOK
  <2>6. LegalStep
    BY <1>2 DEF LegalStep, WriteApproval
  <2> QED
    BY <2>5, <2>6
<1>3. CASE WriteApproval(r) /\ ~SameVersion(r)
  <2>1. Inv'
    BY <1>3, FinishInv DEF WriteApproval
  <2>2. LegalStep
    BY <1>3 DEF LegalStep, WriteApproval
  <2> QED
    BY <2>1, <2>2
<1> QED
  BY <1>1, <1>2, <1>3 DEF SetApproval

\* The child of a parent that has closed meanwhile leaves StaleChildren for late.
LEMMA AddedInv ==
  ASSUME Inv, NEW r \in Requests, NEW k \in Kinds, NEW child \in {"add", "vote"}, Added(r, k, child)
  PROVE  Inv' /\ LegalStep
<1>1. CASE Accepts(k, child) /\ Read(r, k, child, status)
  <2>1. status \in AllStatuses \cup {"none"} /\ k = kind /\ status \in OpenFor(kind, child)
    BY <1>1, StatusesAreStatuses DEF Inv, TypeOK, Read, Accepts
  <2>2. Inv'
    BY <1>1, <2>1, ReadInv
  <2>3. LegalStep
    BY <1>1 DEF LegalStep, Read
  <2> QED
    BY <2>2, <2>3
<1>2. CASE Insert(r, k, child) /\ status \in OpenFor(k, child)
  <2>1. UNCHANGED <<kind, status, version, large, approved, content, late>>
    BY <1>2 DEF Insert
  <2>2. Inv'
    BY <1>2, <2>1, FinishInv DEF Insert
  <2>3. LegalStep
    BY <2>1 DEF LegalStep
  <2> QED
    BY <2>2, <2>3
<1>3. CASE Insert(r, k, child) /\ status \notin OpenFor(k, child)
  <2>1. /\ Finish(r) /\ late' = late + 1 /\ pc[r] = child /\ k = kind
        /\ UNCHANGED <<kind, status, version, large, approved, content>>
    BY <1>3 DEF Insert
  <2>2. r \in StaleChildren /\ version > 0
    <3>1. pc[r] # "idle" /\ pc[r] \in {"add", "vote"} /\ ~CheckHolds(r)
      BY <1>3, <2>1 DEF CheckHolds
    <3>2. seen[r].version \in 1 .. version /\ seen[r].version # version
      BY <3>1 DEF Inv, SeenInv
    <3> QED
      BY <3>1, <3>2 DEF Inv, TypeOK, StaleChildren
  <2>3. TypeOK'
    <3>1. NothingRead \in [to : AllStatuses \cup {"none"}, content : Nat, version : 0 .. ChangeLimit]
      BY LifecyclesAssumption DEF NothingRead
    <3>2. late + 1 \in Nat
      BY DEF Inv, TypeOK
    <3> QED
      BY <2>1, <3>1, <3>2 DEF Inv, TypeOK, Finish
  <2>4. SeenInv'
    BY <2>1 DEF Inv, TypeOK, SeenInv, Finish, CheckHolds, NeedsApproval
  <2>5. LateInv'
    <3>1. StaleChildren' = StaleChildren \ {r}
      BY <2>1 DEF Inv, TypeOK, Finish, StaleChildren
    <3>2. Cardinality(StaleChildren') = Cardinality(StaleChildren) - 1
      BY <2>2, <3>1, StaleIsFinite, FS_RemoveElement
    <3>3. late' + Cardinality(StaleChildren') = late + Cardinality(StaleChildren)
      BY <2>1, <3>2, StaleIsFinite DEF Inv, TypeOK
    <3> QED
      BY <2>1, <2>2, <3>3 DEF Inv, TypeOK, LateInv
  <2>6. LegalStep
    BY <2>1 DEF LegalStep
  <2> QED
    BY <2>3, <2>4, <2>5, <2>6 DEF Inv
<1> QED
  BY <1>1, <1>2, <1>3 DEF Added

LEMMA StepInv == Inv /\ [Next]_vars => Inv' /\ [LegalStep]_vars
<1> SUFFICES ASSUME Inv, [Next]_vars PROVE Inv' /\ [LegalStep]_vars
  OBVIOUS
<1>1. CASE Next
  <2>1. RowStep
    BY <1>1, NextShape DEF Inv, TypeOK
  <2>2. CASE \E k \in Kinds, first \in AllStatuses :
               first \in StatusesOf(k) /\ Created(k, first) /\ approved' \in BOOLEAN
    BY <2>2, CreatedInv
  <2>3. CASE CompleteMOOperation
    BY <2>3, CompleteInv
  <2>4. CASE \E r \in Requests, k \in Kinds : Moved(r, k)
    BY <2>4, MovedInv
  <2>5. CASE \E r \in Requests, k \in DOMAIN Editable : Edited(r, k)
    BY <2>5, EditedInv
  <2>6. CASE \E r \in Requests : SetApproval(r)
    BY <2>6, ApprovalInv
  <2>7. CASE \E r \in Requests, k \in Kinds, child \in {"add", "vote"} : Added(r, k, child)
    BY <2>7, AddedInv
  <2> QED
    BY <2>1, <2>2, <2>3, <2>4, <2>5, <2>6, <2>7 DEF RowStep
<1>2. CASE UNCHANGED vars
  BY <1>2 DEF vars, Inv, TypeOK, SeenInv, LateInv, StaleChildren, CheckHolds, NeedsApproval
<1> QED
  BY <1>1, <1>2

-----------------------------------------------------------------------------
(* The theorems *)

\* Rows, and what requests remember of them, stay well typed: a status is one
\* its kind knows, and no version passes the bound.
THEOREM TypeCorrect == Spec => []TypeOK
<1>1. Spec => []Inv
  BY InitInv, StepInv, PTL DEF Spec
<1>2. Inv => TypeOK
  BY DEF Inv
<1> QED
  BY <1>1, <1>2, PTL

\* With the row version in the update's WHERE, a check made on a row that was
\* read holds when it is written, whatever the other requests do in between
\* (hr/store.go:107-119 and the like).
THEOREM LegalSteps == Spec => StepsAreLegal
<1>1. Spec => []Inv
  BY InitInv, StepInv, PTL DEF Spec
<1> QED
  BY <1>1, StepInv, PTL DEF Spec, StepsAreLegal

\* Without it in the INSERT of a child, no more children come late than
\* requests are in flight at each change of the parent
\* (services/store.go:135-151, survey/store.go:192-233).
THEOREM FewLateChildren == Spec => []LateChildrenAreFew
<1>1. Spec => []Inv
  BY InitInv, StepInv, PTL DEF Spec
<1>2. Inv => LateChildrenAreFew
  <2> SUFFICES ASSUME Inv, version > 0
               PROVE  late <= Cardinality(Requests) * (version - 1)
    BY DEF LateChildrenAreFew
  <2>1. Cardinality(Requests) * (version - 1) \in Int
    BY StaleIsFinite DEF Inv, TypeOK
  <2> QED
    BY <2>1, StaleIsFinite DEF Inv, TypeOK, LateInv
<1> QED
  BY <1>1, <1>2, PTL

-----------------------------------------------------------------------------
(***************************************************************************)
(* Lifecycles implements RowsInMemory, for any number of requests and      *)
(* versions. A read, a refused write and a child are stutters of the       *)
(* in-memory store; a write whose version matches is its one step, because *)
(* what the request has checked still holds (SeenInv).                     *)
(***************************************************************************)

\* Both modules apply the same tables.
LEMMA SameRules ==
  /\ InMemory!Moves = Moves /\ InMemory!Kinds = Kinds /\ InMemory!Editable = Editable
  /\ \A k \in Kinds : InMemory!StatusesOf(k) = StatusesOf(k)
<1>1. InMemory!Moves = Moves
    BY DEF Moves, From, InMemory!Moves, InMemory!From, KeptMoves, BookingMoves,
    OrgEventMoves, PositionMoves, ApplicationMoves, LeaveMoves, SalaryMoves, EmployeeMoves,
    PayrollMoves, ProjectMoves, TaskMoves, ContractMoves, InterventionMoves, TicketMoves,
    AssetMoves, ArticleMoves, SurveyMoves, MemberMoves, SubscriptionMoves, DonationMoves,
    BatchMoves, CreditTransferMoves, BomMoves, MoMoves, MandateMoves, StockTransferMoves,
    SupplierOrderMoves, ReceptionMoves, OperationMoves, InMemory!KeptMoves,
    InMemory!BookingMoves, InMemory!OrgEventMoves, InMemory!PositionMoves,
    InMemory!ApplicationMoves, InMemory!LeaveMoves, InMemory!SalaryMoves,
    InMemory!EmployeeMoves, InMemory!PayrollMoves, InMemory!ProjectMoves,
    InMemory!TaskMoves, InMemory!ContractMoves, InMemory!InterventionMoves,
    InMemory!TicketMoves, InMemory!AssetMoves, InMemory!ArticleMoves, InMemory!SurveyMoves,
    InMemory!MemberMoves, InMemory!SubscriptionMoves, InMemory!DonationMoves,
    InMemory!BatchMoves, InMemory!CreditTransferMoves, InMemory!BomMoves, InMemory!MoMoves,
    InMemory!MandateMoves, InMemory!StockTransferMoves, InMemory!SupplierOrderMoves,
    InMemory!ReceptionMoves, InMemory!OperationMoves
<1>2. InMemory!Kinds = Kinds
  BY <1>1 DEF Kinds, InMemory!Kinds
<1>3. InMemory!Editable = Editable
  BY DEF Editable, InMemory!Editable
<1>4. \A k \in Kinds : InMemory!StatusesOf(k) = StatusesOf(k)
  BY <1>1 DEF StatusesOf, InMemory!StatusesOf
<1> QED
  BY <1>1, <1>2, <1>3, <1>4

-----------------------------------------------------------------------------
(* Every kind has its call *)

LEMMA CreateInMemory == ASSUME Create PROVE InMemory!Create
<1>1. CASE CreateBooking
  BY <1>1 DEF CreateBooking, New, Created, InMemory!CreateBooking, InMemory!New, InMemory!Create
<1>2. CASE CreateEvent
  BY <1>2 DEF CreateEvent, New, Created, InMemory!CreateEvent, InMemory!New, InMemory!Create
<1>3. CASE CreatePosition
  BY <1>3 DEF CreatePosition, New, Created, InMemory!CreatePosition, InMemory!New, InMemory!Create
<1>4. CASE CreateApplication
  BY <1>4 DEF CreateApplication, New, Created, InMemory!CreateApplication, InMemory!New, InMemory!Create
<1>5. CASE CreateLeave
  BY <1>5 DEF CreateLeave, New, Created, InMemory!CreateLeave, InMemory!New, InMemory!Create
<1>6. CASE CreateSalary
  BY <1>6 DEF CreateSalary, New, Created, InMemory!CreateSalary, InMemory!New, InMemory!Create
<1>7. CASE HireEmployee
  BY <1>7 DEF HireEmployee, New, Created, InMemory!CreateEmployee, InMemory!New, InMemory!Create
<1>8. CASE CreatePayrollRun
  BY <1>8 DEF CreatePayrollRun, New, Created, InMemory!CreatePayrollRun, InMemory!New, InMemory!Create
<1>9. CASE CreateProject
  BY <1>9 DEF CreateProject, New, Created, InMemory!CreateProject, InMemory!New, InMemory!Create
<1>10. CASE NewTask
  BY <1>10 DEF NewTask, New, Created, InMemory!CreateTask, InMemory!New, InMemory!Create
<1>11. CASE CreateContract
  BY <1>11 DEF CreateContract, New, Created, InMemory!CreateContract, InMemory!New, InMemory!Create
<1>12. CASE CreateIntervention
  BY <1>12 DEF CreateIntervention, New, Created, InMemory!CreateIntervention, InMemory!New, InMemory!Create
<1>13. CASE CreateTicket
  BY <1>13 DEF CreateTicket, New, Created, InMemory!CreateTicket, InMemory!New, InMemory!Create
<1>14. CASE CreateAsset
  BY <1>14 DEF CreateAsset, New, Created, InMemory!CreateAsset, InMemory!New, InMemory!Create
<1>15. CASE CreateArticle
  BY <1>15 DEF CreateArticle, New, Created, InMemory!CreateArticle, InMemory!New, InMemory!Create
<1>16. CASE CreateSurvey
  BY <1>16 DEF CreateSurvey, New, Created, InMemory!CreateSurvey, InMemory!New, InMemory!Create
<1>17. CASE CreateMember
  BY <1>17 DEF CreateMember, New, Created, InMemory!CreateMember, InMemory!New, InMemory!Create
<1>18. CASE CreateSubscription
  BY <1>18 DEF CreateSubscription, New, Created, InMemory!CreateSubscription, InMemory!New, InMemory!Create
<1>19. CASE CreateDonation
  BY <1>19 DEF CreateDonation, New, Created, InMemory!CreateDonation, InMemory!New, InMemory!Create
<1>20. CASE CreateBatch
  BY <1>20 DEF CreateBatch, New, Created, InMemory!CreateBatch, InMemory!New, InMemory!Create
<1>21. CASE CreateTransfer
  BY <1>21 DEF CreateTransfer, New, Created, InMemory!CreateTransfer, InMemory!New, InMemory!Create
<1>22. CASE CreateBOM
  BY <1>22 DEF CreateBOM, New, Created, InMemory!CreateBOM, InMemory!New, InMemory!Create
<1>23. CASE CreateMO
  BY <1>23 DEF CreateMO, New, Created, InMemory!CreateMO, InMemory!New, InMemory!Create
<1>24. CASE PlanOperation
  BY <1>24 DEF PlanOperation, New, Created, InMemory!ReplaceMOOperations, InMemory!New, InMemory!Create
<1>25. CASE CreateMandate
  BY <1>25 DEF CreateMandate, New, Created, InMemory!CreateMandate, InMemory!New, InMemory!Create
<1>26. CASE CreateStockTransfer
  BY <1>26 DEF CreateStockTransfer, New, Created, InMemory!CreateStockTransfer, InMemory!New, InMemory!Create
<1>27. CASE CreateReception
  BY <1>27 DEF CreateReception, New, Created, InMemory!CreateReception, InMemory!New, InMemory!Create
<1>28. CASE CreateRule
  BY <1>28 DEF CreateRule, New, Created, InMemory!CreateRule, InMemory!New, InMemory!Create
<1>29. CASE CreateSheet
  BY <1>29 DEF CreateSheet, New, Created, InMemory!CreateSheet, InMemory!New, InMemory!Create
<1>30. CASE CreateOrg
  BY <1>30 DEF CreateOrg, New, Created, InMemory!CreateOrg, InMemory!New, InMemory!Create
<1>31. CASE CreateMemo
  BY <1>31 DEF CreateMemo, New, Created, InMemory!CreateMemo, InMemory!New, InMemory!Create
<1>32. CASE CreateUser
  BY <1>32 DEF CreateUser, New, Created, InMemory!CreateUser, InMemory!New, InMemory!Create
<1>33. CASE CreateSupplierOrder
  BY <1>33 DEF CreateSupplierOrder, Created, InMemory!CreateDoc, InMemory!Create
<1> QED
  BY <1>1, <1>2, <1>3, <1>4, <1>5, <1>6, <1>7, <1>8, <1>9, <1>10, <1>11, <1>12, <1>13,
  <1>14, <1>15, <1>16, <1>17, <1>18, <1>19, <1>20, <1>21, <1>22, <1>23, <1>24, <1>25,
  <1>26, <1>27, <1>28, <1>29, <1>30, <1>31, <1>32, <1>33 DEF Create

LEMMA MoveInMemory ==
  ASSUME NEW k \in Kinds, InMemory!Moved(k)
  PROVE  InMemory!Move
<1>1. <<status, status'>> \in Moves[k] /\ InMemory!MovedTo(k, status')
  BY SameRules DEF InMemory!Moved, InMemory!MovedTo
<1>2. CASE k \in {"supplierOrder", "reception"}
  BY <1>2 DEF InMemory!SetStatus, InMemory!Move
<1>3. CASE k = "mandate"
  <2>1. status' \in {"active", "canceled"}
    BY <1>1, <1>3 DEF Moves, MandateMoves, From
  <2> QED
    BY <1>1, <1>3, <2>1 DEF InMemory!SignMandate, InMemory!CancelMandate, InMemory!Move
<1>4. CASE k = "booking"
  BY <1>4 DEF InMemory!SetBookingStatus, InMemory!Move
<1>5. CASE k = "orgEvent"
  BY <1>5 DEF InMemory!SetEventStatus, InMemory!Move
<1>6. CASE k = "position"
  BY <1>6 DEF InMemory!SetPositionStatus, InMemory!Move
<1>7. CASE k = "application"
  BY <1>7 DEF InMemory!SetApplicationStatus, InMemory!Move
<1>8. CASE k = "leave"
  BY <1>8 DEF InMemory!SetLeaveStatus, InMemory!Move
<1>9. CASE k = "salary"
  BY <1>9 DEF InMemory!SetSalaryStatus, InMemory!Move
<1>10. CASE k = "employee"
  BY <1>10 DEF InMemory!SetEmployeeStatus, InMemory!Move
<1>11. CASE k = "payroll"
  BY <1>11 DEF InMemory!SetPayrollRunStatus, InMemory!Move
<1>12. CASE k = "project"
  BY <1>12 DEF InMemory!SetProjectStatus, InMemory!Move
<1>13. CASE k = "task"
  BY <1>13 DEF InMemory!SetTaskStatus, InMemory!Move
<1>14. CASE k = "contract"
  BY <1>14 DEF InMemory!SetContractStatus, InMemory!Move
<1>15. CASE k = "intervention"
  BY <1>15 DEF InMemory!SetInterventionStatus, InMemory!Move
<1>16. CASE k = "ticket"
  BY <1>16 DEF InMemory!SetTicketStatus, InMemory!Move
<1>17. CASE k = "asset"
  BY <1>17 DEF InMemory!SetAssetStatus, InMemory!Move
<1>18. CASE k = "article"
  BY <1>18 DEF InMemory!SetArticleStatus, InMemory!Move
<1>19. CASE k = "survey"
  BY <1>19 DEF InMemory!SetSurveyStatus, InMemory!Move
<1>20. CASE k = "member"
  BY <1>20 DEF InMemory!SetMemberStatus, InMemory!Move
<1>21. CASE k = "subscription"
  BY <1>21 DEF InMemory!SetSubscriptionStatus, InMemory!Move
<1>22. CASE k = "donation"
  BY <1>22 DEF InMemory!SetDonationStatus, InMemory!Move
<1>23. CASE k = "batch"
  BY <1>23 DEF InMemory!SetBatchStatus, InMemory!Move
<1>24. CASE k = "creditTransfer"
  BY <1>24 DEF InMemory!SetTransferStatus, InMemory!Move
<1>25. CASE k = "bom"
  BY <1>25 DEF InMemory!SetBOMStatus, InMemory!Move
<1>26. CASE k = "mo"
  BY <1>26 DEF InMemory!SetMOStatus, InMemory!Move
<1>27. CASE k = "moOperation"
  BY <1>27 DEF InMemory!CompleteMOOperation, InMemory!Move
<1>28. CASE k = "stockTransfer"
  BY <1>28 DEF InMemory!SetStockTransferStatus, InMemory!Move
<1>29. k \notin {"priceRule", "labelSheet", "organization", "memo", "user"}
  BY <1>1 DEF Moves, KeptMoves
<1> QED
  BY <1>2, <1>3, <1>4, <1>5, <1>6, <1>7, <1>8, <1>9, <1>10, <1>11, <1>12, <1>13, <1>14,
  <1>15, <1>16, <1>17, <1>18, <1>19, <1>20, <1>21, <1>22, <1>23, <1>24, <1>25, <1>26,
  <1>27, <1>28, <1>29 DEF Kinds, Moves

LEMMA EditInMemory ==
  ASSUME NEW k \in DOMAIN Editable, InMemory!Edited(k)
  PROVE  InMemory!Edit
<1>1. CASE k = "article"
  BY <1>1 DEF InMemory!UpdateArticle, InMemory!Edit
<1>2. CASE k = "asset"
  BY <1>2 DEF InMemory!UpdateAsset, InMemory!Edit
<1>3. CASE k = "mandate"
  BY <1>3 DEF InMemory!AmendMandate, InMemory!Edit
<1>4. CASE k = "stockTransfer"
  BY <1>4 DEF InMemory!UpdateDraft, InMemory!Edit
<1>5. CASE k = "priceRule"
  BY <1>5 DEF InMemory!UpdateRule, InMemory!Edit
<1>6. CASE k = "labelSheet"
  BY <1>6 DEF InMemory!UpdateSheet, InMemory!Edit
<1>7. CASE k = "organization"
  BY <1>7 DEF InMemory!UpdateOrg, InMemory!Edit
<1>8. CASE k = "memo"
  BY <1>8 DEF InMemory!UpdateMemo, InMemory!Edit
<1>9. CASE k = "user"
  BY <1>9 DEF InMemory!UpdateUser, InMemory!Edit
<1> QED
  BY <1>1, <1>2, <1>3, <1>4, <1>5, <1>6, <1>7, <1>8, <1>9 DEF Editable

-----------------------------------------------------------------------------
(* The steps *)

Same == UNCHANGED InMemory!vars

LEMMA ReadIsStutter ==
  ASSUME NEW r, NEW k, NEW label, NEW to, Read(r, k, label, to)
  PROVE  Same
BY DEF Read, Same, InMemory!vars

LEMMA MovedStep ==
  ASSUME Inv, NEW r \in Requests, NEW k \in Kinds, Moved(r, k)
  PROVE  InMemory!Move \/ Same
<1>1. CASE WriteMove(r, k) /\ SameVersion(r)
  <2>1. /\ <<status, seen[r].to>> \in Moves[kind] /\ ~NeedsApproval(seen[r].to)
        /\ version > 0 /\ k = kind
    BY <1>1 DEF Inv, TypeOK, SeenInv, CheckHolds, WriteMove, SameVersion
  <2>2. seen[r].to \in StatusesOf(k)
    BY <2>1, MoveStatuses
  <2>3. InMemory!MovedTo(k, seen[r].to)
    BY <1>1, <2>1, SameRules DEF InMemory!MovedTo, WriteMove, NeedsApproval
  <2>4. InMemory!Moved(k)
    BY <2>2, <2>3, SameRules DEF InMemory!Moved
  <2> QED
    BY <2>4, MoveInMemory
<1>2. CASE WriteMove(r, k) /\ ~SameVersion(r)
  BY <1>2 DEF WriteMove, Same, InMemory!vars
<1> QED
  BY <1>1, <1>2, ReadIsStutter DEF Moved, MovedTo

LEMMA EditedStep ==
  ASSUME Inv, NEW r \in Requests, NEW k \in DOMAIN Editable, Edited(r, k)
  PROVE  InMemory!Edit \/ Same
<1>1. CASE WriteEdit(r, k) /\ SameVersion(r)
  <2>1. pc[r] = "edit" /\ version = seen[r].version /\ k = kind
    BY <1>1 DEF WriteEdit, SameVersion
  <2>2. seen[r].version \in 1 .. version /\ CheckHolds(r)
    BY <2>1 DEF Inv, SeenInv
  <2>3. status \in Editable[kind] /\ version > 0
    BY <2>1, <2>2 DEF Inv, TypeOK, CheckHolds
  <2>4. InMemory!Edited(k)
    BY <1>1, <2>1, <2>3, SameRules DEF InMemory!Edited, WriteEdit
  <2> QED
    BY <2>4, EditInMemory
<1>2. CASE WriteEdit(r, k) /\ ~SameVersion(r)
  BY <1>2 DEF WriteEdit, Same, InMemory!vars
<1> QED
  BY <1>1, <1>2, ReadIsStutter DEF Edited

LEMMA ApprovalStep ==
  ASSUME Inv, NEW r \in Requests, SetApproval(r)
  PROVE  InMemory!Edit \/ Same
<1>1. CASE WriteApproval(r) /\ SameVersion(r)
  <2>1. version > 0
    BY <1>1 DEF Inv, TypeOK, SeenInv, WriteApproval, SameVersion
  <2> QED
    BY <1>1, <2>1 DEF WriteApproval, InMemory!SetApproval, InMemory!Edit
<1>2. CASE WriteApproval(r) /\ ~SameVersion(r)
  BY <1>2 DEF WriteApproval, Same, InMemory!vars
<1> QED
  BY <1>1, <1>2, ReadIsStutter DEF SetApproval

LEMMA OperationStep == ASSUME CompleteMOOperation PROVE InMemory!Move
<1>1. <<"pending", "done">> \in Moves["moOperation"] /\ "moOperation" \in Kinds
  BY DEF Kinds, Moves, OperationMoves, From
<1>2. "done" \in StatusesOf("moOperation")
  BY <1>1, MoveStatuses
<1>3. InMemory!MovedTo("moOperation", "done")
  BY <1>1, SameRules, LifecyclesAssumption DEF CompleteMOOperation, InMemory!MovedTo
<1>4. InMemory!Moved("moOperation")
  BY <1>1, <1>2, <1>3, SameRules DEF InMemory!Moved
<1> QED
  BY <1>1, <1>4, MoveInMemory

LEMMA StepInMemory == Inv /\ [Next]_vars => [InMemory!Next]_(InMemory!vars)
<1> SUFFICES ASSUME Inv, [Next]_vars PROVE InMemory!Next \/ Same
  BY DEF Same
<1>1. CASE Create
  BY <1>1, CreateInMemory DEF InMemory!Next
<1>2. CASE CompleteMOOperation
  BY <1>2, OperationStep DEF InMemory!Next
<1>3. ASSUME NEW r \in Requests, Move(r) PROVE InMemory!Next \/ Same
  <2>1. PICK k \in Kinds : Moved(r, k)
    BY <1>3, MoveKind
  <2> QED
    BY <2>1, MovedStep DEF InMemory!Next
<1>4. ASSUME NEW r \in Requests, Edit(r) PROVE InMemory!Next \/ Same
  <2>1. SetApproval(r) \/ \E k \in DOMAIN Editable : Edited(r, k)
    BY <1>4, EditKind
  <2> QED
    BY <2>1, EditedStep, ApprovalStep DEF InMemory!Next
<1>5. ASSUME NEW r \in Requests, Add(r) PROVE Same
  <2>1. PICK k \in Kinds, child \in {"add", "vote"} : Added(r, k, child)
    BY <1>5, AddKind
  <2>2. CASE Insert(r, k, child)
    BY <2>2 DEF Insert, Same, InMemory!vars
  <2> QED
    BY <2>1, <2>2, ReadIsStutter DEF Added
<1>6. CASE UNCHANGED vars
  BY <1>6 DEF vars, Same, InMemory!vars
<1> QED
  BY <1>1, <1>2, <1>3, <1>4, <1>5, <1>6 DEF Next

-----------------------------------------------------------------------------
(* The theorem *)

\* The PostgreSQL stores behave like the in-memory ones: between the unlocked read
\* and the guarded write of a request (hr/store.go:107-119 and the like), nothing
\* happens that the one step of the in-memory store (hr/store.go:355-372 and the
\* like) would not allow.
THEOREM ImplementsRowsInMemory == Spec => RowsAreAtomic
<1>1. Init => InMemory!Init
  BY SameRules DEF Init, InMemory!Init
<1>2. Spec => []Inv
  BY InitInv, StepInv, PTL DEF Spec
<1> QED
  BY <1>1, <1>2, StepInMemory, PTL DEF Spec, RowsAreAtomic, InMemory!Spec
=============================================================================
