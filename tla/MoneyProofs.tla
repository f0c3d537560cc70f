------------------------------ MODULE MoneyProofs ------------------------------
(***************************************************************************)
(* Theorems about money. What is due by a plan is booked: a loan is repaid *)
(* when every instalment has been collected, a supplier is paid what the   *)
(* invoice says and an asset is written off period by period, although     *)
(* each of them is read, booked and marked in separate transactions. Their *)
(* schedules are recursive functions: what they compute is proved by       *)
(* induction on Nat, for every term and every plan. And the bank accounts  *)
(* tell what the bank's files say, whatever order their rows come in.      *)
(***************************************************************************)
EXTENDS MCOperations, Sums, TLAPS

-----------------------------------------------------------------------------
(* Sums of differences. *)

\* The sum of what is lost at each step is what is lost.
LEMMA Telescopes ==
  ASSUME NEW n \in Nat, NEW f, \A i \in 0 .. n : f[i] \in Int,
         NEW d, \A i \in 1 .. n : d[i] = f[i - 1] - f[i]
  PROVE  SumOf(d, 1 .. n) = f[0] - f[n]
<1> DEFINE H == {m \in Nat : m <= n => SumOf(d, 1 .. m) = f[0] - f[m]}
<1>1. 0 \in H
  <2>1. 1 .. 0 = {} /\ f[0] \in Int
    OBVIOUS
  <2> QED
    BY <2>1, SumEmpty
<1>2. ASSUME NEW m \in Nat, m \in H PROVE m + 1 \in H
  <2> SUFFICES ASSUME m + 1 <= n PROVE SumOf(d, 1 .. m + 1) = f[0] - f[m + 1]
    OBVIOUS
  <2>1. SumOf(d, 1 .. m) = f[0] - f[m]
    BY <1>2
  <2>2. f[0] \in Int /\ f[m] \in Int /\ f[m + 1] \in Int /\ d[m + 1] = f[m] - f[m + 1]
    OBVIOUS
  <2>3. IsFiniteSet(1 .. m + 1) /\ m + 1 \in 1 .. m + 1 /\ (1 .. m + 1) \ {m + 1} = 1 .. m
    BY FirstAreFinite
  <2>4. \A i \in 1 .. m + 1 : d[i] \in Int
    <3> TAKE i \in 1 .. m + 1
    <3>1. i \in 1 .. n /\ i \in 0 .. n /\ i - 1 \in 0 .. n
      OBVIOUS
    <3> QED
      BY <3>1
  <2>5. SumOf(d, 1 .. m + 1) = d[m + 1] + SumOf(d, (1 .. m + 1) \ {m + 1})
    BY <2>3, <2>4, SumStep
  <2>6. SumOf(d, 1 .. m + 1) = d[m + 1] + (f[0] - f[m])
    BY <2>1, <2>3, <2>5, Zenon
  <2> QED
    BY <2>2, <2>6
<1> HIDE DEF H
<1>3. n \in H
  BY <1>1, <1>2, NatInSet
<1> QED
  BY <1>3 DEF H

\* Equal amounts add up to their multiple.
LEMMA SumOfEquals ==
  ASSUME NEW n \in Nat, NEW c \in Int, NEW d, \A i \in 1 .. n : d[i] = c
  PROVE  SumOf(d, 1 .. n) = n * c
<1> DEFINE f == [i \in 0 .. n |-> - (i * c)]
<1>1. \A i \in Int : i * c \in Int /\ (i + 1) * c = i * c + c /\ (i - 1) * c = i * c - c
  OBVIOUS
<1>2. \A i \in 0 .. n : f[i] = - (i * c) /\ f[i] \in Int
  BY <1>1
<1>3. \A i \in 1 .. n : d[i] = f[i - 1] - f[i]
  <2> TAKE i \in 1 .. n
  <2>1. i \in 0 .. n /\ i - 1 \in 0 .. n /\ i \in Int
    OBVIOUS
  <2> DEFINE x == i * c
  <2>2. f[i] = - x /\ f[i - 1] = - (x - c) /\ x \in Int
    BY <1>1, <1>2, <2>1
  <2> HIDE DEF x, f
  <2> QED
    BY <2>2
<1> HIDE DEF f
<1>4. SumOf(d, 1 .. n) = f[0] - f[n]
  BY <1>2, <1>3, Telescopes
<1>5. f[0] = 0 /\ f[n] = - (n * c) /\ n * c \in Int
  BY <1>1, <1>2
<1> QED
  BY <1>4, <1>5

-----------------------------------------------------------------------------
(* The schedule of a member loan. *)

LEMMA LoanTerms ==
  ASSUME NEW t \in Terms
  PROVE  /\ t.principal \in Nat /\ t.principal > 0
         /\ t.rateBps \in Nat /\ t.periods \in Nat /\ t.periods > 0
<1>1. /\ t.principal \in 1 .. MostLent
      /\ t.rateBps \in 0 .. Loan!HighestRate
      /\ t.periods \in 1 .. 360
  BY LoanAssumption DEF Loan!ConstantsOK
<1>2. MostLent \in Nat
  BY LoanAssumption DEF Loan!ConstantsOK
<1>3. Loan!HighestRate \in Nat
  BY SMT DEF Loan!HighestRate
<1> QED
  BY <1>1, <1>2, <1>3

LEMMA InterestIs ==
  ASSUME NEW x \in Nat, NEW rate \in Nat
  PROVE  Loan!MonthlyInterest(x, rate) \in Nat /\ Loan!MonthlyInterest(0, rate) = 0
<1>1. \A a, b \in Nat : a * b \in Nat /\ 0 * b = 0
  OBVIOUS
<1>2. \A c \in Nat : (c + 60000) \div 120000 \in Nat
  BY SMT
<1>3. (0 + 60000) \div 120000 = 0
  BY SMT
<1> QED
  BY <1>1, <1>2, <1>3, SMT DEF Loan!MonthlyInterest

\* What is left after a line.
LeftAfter(t, i, before) ==
  LET leg == Loan!Annuity(t) - Loan!MonthlyInterest(before, t.rateBps)
  IN  IF i = t.periods \/ leg >= before THEN 0 ELSE before - leg

LEMMA LeftIs ==
  ASSUME NEW t
  PROVE  Loan!Left(t) = CHOOSE left : left = [i \in 0 .. t.periods |->
                          IF i = 0 THEN t.principal ELSE LeftAfter(t, i, left[i - 1])]
BY DEF Loan!Left, LeftAfter

\* The lines pay back all of it, and none of them more than is left.
LEMMA LeftFalls ==
  ASSUME NEW t \in Terms, Loan!Annuity(t) \in Nat
  PROVE  /\ Loan!Left(t) \in [0 .. t.periods -> Nat]
         /\ Loan!Left(t)[0] = t.principal /\ Loan!Left(t)[t.periods] = 0
         /\ \A i \in 1 .. t.periods : Loan!Left(t)[i] = LeftAfter(t, i, Loan!Left(t)[i - 1])
<1> DEFINE P == t.periods
           G == [i \in Nat |-> [x \in Nat |-> LeftAfter(t, i, x)]]
           Body(f) == [i \in 0 .. P |-> IF i = 0 THEN t.principal ELSE LeftAfter(t, i, f[i - 1])]
           left == Loan!Left(t)
<1>1. P \in Nat /\ P > 0 /\ t.principal \in Nat /\ t.rateBps \in Nat
  BY LoanTerms
<1>2. \A i, x \in Nat : LeftAfter(t, i, x) \in Nat
  <2> TAKE i, x \in Nat
  <2>1. Loan!MonthlyInterest(x, t.rateBps) \in Nat
    BY <1>1, InterestIs
  <2> QED
    BY <2>1 DEF LeftAfter
<1>3. G \in [Nat -> [Nat -> Nat]] /\ \A i, x \in Nat : G[i][x] = LeftAfter(t, i, x)
  BY <1>2
<1> HIDE DEF G
<1>4. PICK f : IsChain(f, Nat, t.principal, G, P)
  BY <1>1, <1>3, ChainExists
<1>5. f \in [0 .. P -> Nat] /\ f[0] = t.principal /\ \A i \in 1 .. P : f[i] = G[i][f[i - 1]]
  BY <1>4 DEF IsChain
<1>6. \A i \in 1 .. P : i \in Nat /\ i - 1 \in 0 .. P /\ f[i - 1] \in Nat /\ i # 0
  BY <1>1, <1>5
<1>7. f = Body(f)
  <2>1. \A i \in 0 .. P : f[i] = IF i = 0 THEN t.principal ELSE LeftAfter(t, i, f[i - 1])
    <3> TAKE i \in 0 .. P
    <3>1. i = 0 \/ i \in 1 .. P
      BY <1>1
    <3> QED
      BY <1>3, <1>5, <1>6, <3>1
  <2> HIDE DEF P
  <2> QED
    BY <1>5, <2>1
<1>8. left = Body(left)
  <2> DEFINE c == CHOOSE g : g = Body(g)
  <2>1. c = Body(c)
    <3> HIDE DEF Body
    <3> QED
      BY <1>7
  <2>2. left = c
    BY LeftIs
  <2> QED
    BY <2>1, <2>2
<1> HIDE DEF left
<1>9. \A i \in 0 .. P : left[i] = IF i = 0 THEN t.principal ELSE LeftAfter(t, i, left[i - 1])
  <2> HIDE DEF P
  <2> QED
    BY <1>8
<1>10. left[0] = t.principal /\ \A i \in 1 .. P : left[i] = LeftAfter(t, i, left[i - 1])
  BY <1>1, <1>6, <1>9
<1> DEFINE H == {m \in Nat : m <= P => left[m] \in Nat}
<1>11. 0 \in H
  BY <1>1, <1>10
<1>12. ASSUME NEW m \in Nat, m \in H PROVE m + 1 \in H
  <2> SUFFICES ASSUME m + 1 <= P PROVE left[m + 1] \in Nat
    OBVIOUS
  <2>1. left[m] \in Nat /\ m + 1 \in 1 .. P /\ m + 1 - 1 = m /\ m + 1 \in Nat
    BY <1>1, <1>12
  <2>2. left[m + 1] = LeftAfter(t, m + 1, left[m])
    BY <1>10, <2>1
  <2> QED
    BY <1>2, <2>1, <2>2
<1> HIDE DEF H
<1>13. \A m \in 0 .. P : left[m] \in Nat
  <2>1. \A m \in Nat : m \in H
    BY <1>11, <1>12, NatInSet
  <2> QED
    BY <1>1, <2>1 DEF H
<1>14. left \in [0 .. P -> Nat]
  <2> HIDE DEF P
  <2> QED
    BY <1>8, <1>13
<1>15. left[P] = 0
  <2>1. P \in 1 .. P
    BY <1>1
  <2> QED
    BY <1>10, <2>1 DEF LeftAfter
<1> QED
  BY <1>10, <1>14, <1>15 DEF left

-----------------------------------------------------------------------------
(* The binary search for the least payment. *)

Mid(l, h) == (l + h) \div 2

\* Two searches that agree in the intervals no wider than k.
Agree(s, z, N, k) == \A l, h \in 0 .. N : h - l <= k => s[<<l, h>>] = z[<<l, h>>]

\* One step of a search for the least member of A, in the intervals of 0 .. N.
Halve(s, N, A) ==
  [p \in (0 .. N) \X (0 .. N) |->
     IF p[2] - p[1] <= 1 THEN p[2]
     ELSE IF Mid(p[1], p[2]) \in A THEN s[<<p[1], Mid(p[1], p[2])>>]
     ELSE s[<<Mid(p[1], p[2]), p[2]>>]]

LEMMA Middle ==
  ASSUME NEW l \in Int, NEW h \in Int, h - l > 1
  PROVE  Mid(l, h) \in Int /\ l < Mid(l, h) /\ Mid(l, h) < h
BY DEF Mid

LEMMA HalveEnds ==
  ASSUME NEW s, NEW N \in Nat, NEW A, NEW l \in 0 .. N, NEW h \in 0 .. N, h - l <= 1
  PROVE  Halve(s, N, A)[<<l, h>>] = h
<1>1. <<l, h>> \in (0 .. N) \X (0 .. N) /\ <<l, h>>[1] = l /\ <<l, h>>[2] = h
  OBVIOUS
<1> QED
  BY <1>1 DEF Halve

LEMMA HalveSplits ==
  ASSUME NEW s, NEW N \in Nat, NEW A, NEW l \in 0 .. N, NEW h \in 0 .. N, h - l > 1
  PROVE  /\ Mid(l, h) \in 0 .. N /\ l < Mid(l, h) /\ Mid(l, h) < h
         /\ Halve(s, N, A)[<<l, h>>] =
              IF Mid(l, h) \in A THEN s[<<l, Mid(l, h)>>] ELSE s[<<Mid(l, h), h>>]
<1> DEFINE mid == Mid(l, h)
<1>1. <<l, h>> \in (0 .. N) \X (0 .. N) /\ <<l, h>>[1] = l /\ <<l, h>>[2] = h
  OBVIOUS
<1>2. Halve(s, N, A)[<<l, h>>] =
        IF h - l <= 1 THEN h ELSE IF mid \in A THEN s[<<l, mid>>] ELSE s[<<mid, h>>]
  BY <1>1 DEF Halve
<1>3. mid \in 0 .. N /\ l < mid /\ mid < h /\ ~(h - l <= 1)
  BY Middle
<1> QED
  BY <1>2, <1>3, Zenon

\* Where two searches agree on the narrower intervals, their next steps agree.
LEMMA HalvesAgree ==
  ASSUME NEW s, NEW z, NEW N \in Nat, NEW A, NEW k \in Nat,
         Agree(s, z, N, k), NEW l \in 0 .. N, NEW h \in 0 .. N, h - l <= k + 1
  PROVE  Halve(s, N, A)[<<l, h>>] = Halve(z, N, A)[<<l, h>>]
<1> DEFINE mid == Mid(l, h)
<1>1. <<l, h>> \in (0 .. N) \X (0 .. N) /\ <<l, h>>[1] = l /\ <<l, h>>[2] = h
  OBVIOUS
<1>2. /\ Halve(s, N, A)[<<l, h>>] =
           IF h - l <= 1 THEN h ELSE IF mid \in A THEN s[<<l, mid>>] ELSE s[<<mid, h>>]
      /\ Halve(z, N, A)[<<l, h>>] =
           IF h - l <= 1 THEN h ELSE IF mid \in A THEN z[<<l, mid>>] ELSE z[<<mid, h>>]
  BY <1>1 DEF Halve
<1>3. CASE h - l <= 1
  BY <1>2, <1>3
<1>4. CASE h - l > 1
  <2>1. mid \in 0 .. N /\ mid - l <= k /\ h - mid <= k
    BY <1>4, Middle
  <2>2. s[<<l, mid>>] = z[<<l, mid>>] /\ s[<<mid, h>>] = z[<<mid, h>>]
    BY <2>1 DEF Agree
  <2>3. ~(h - l <= 1)
    BY <1>4
  <2> HIDE DEF mid
  <2> QED
    BY <1>2, <2>2, <2>3, Zenon
<1> QED
  BY <1>3, <1>4

\* The search is a function.
LEMMA SearchExists ==
  ASSUME NEW N \in Nat, NEW A
  PROVE  \E s : s \in [(0 .. N) \X (0 .. N) -> 0 .. N] /\ s = Halve(s, N, A)
<1> DEFINE Q == (0 .. N) \X (0 .. N)
           S == [Q -> 0 .. N]
           a == [p \in Q |-> p[2]]
           G == [i \in Nat |-> [s \in S |-> Halve(s, N, A)]]
<1>1. a \in S
  OBVIOUS
<1>2. ASSUME NEW s \in S PROVE Halve(s, N, A) \in S
  <2>1. ASSUME NEW l \in 0 .. N, NEW h \in 0 .. N PROVE Halve(s, N, A)[<<l, h>>] \in 0 .. N
    <3>1. CASE h - l <= 1
      BY <3>1, HalveEnds
    <3>2. CASE h - l > 1
      <4> DEFINE mid == Mid(l, h)
      <4>1. mid \in 0 .. N /\ Halve(s, N, A)[<<l, h>>] = IF mid \in A THEN s[<<l, mid>>] ELSE s[<<mid, h>>]
        BY <3>2, HalveSplits
      <4> HIDE DEF mid
      <4>2. s[<<l, mid>>] \in 0 .. N /\ s[<<mid, h>>] \in 0 .. N
        BY <1>2, <4>1
      <4> QED
        BY <4>1, <4>2
    <3> QED
      BY <3>1, <3>2
  <2>2. \A p \in Q : Halve(s, N, A)[p] \in 0 .. N
    <3> TAKE p \in Q
    <3>1. PICK l \in 0 .. N, h \in 0 .. N : p = <<l, h>>
      OBVIOUS
    <3> QED
      BY <2>1, <3>1
  <2>3. Halve(s, N, A) = [p \in Q |-> Halve(s, N, A)[p]]
    BY DEF Halve
  <2> HIDE DEF Q
  <2> QED
    BY <2>2, <2>3
<1>3. G \in [Nat -> [S -> S]]
  <2> HIDE DEF S
  <2> QED
    BY <1>2
<1>4. \A i \in Nat : \A s \in S : G[i][s] = Halve(s, N, A)
  <2> HIDE DEF S
  <2> QED
    OBVIOUS
<1> HIDE DEF G
<1>5. N + 1 \in Nat
  OBVIOUS
<1>6. PICK f : IsChain(f, S, a, G, N + 1)
  <2> HIDE DEF S, a
  <2> QED
    BY <1>1, <1>3, <1>5, ChainExists
<1>7. f \in [0 .. N + 1 -> S] /\ f[0] = a /\ \A i \in 1 .. N + 1 : f[i] = G[i][f[i - 1]]
  BY <1>6 DEF IsChain
<1>8. \A i \in 0 .. N : f[i] \in S /\ f[i + 1] \in S /\ f[i + 1] = Halve(f[i], N, A)
  <2> TAKE i \in 0 .. N
  <2>1. i + 1 \in Nat /\ i + 1 \in 1 .. N + 1 /\ i + 1 \in 0 .. N + 1 /\ i \in 0 .. N + 1 /\ i + 1 - 1 = i
    OBVIOUS
  <2> HIDE DEF S
  <2>2. f[i] \in S /\ f[i + 1] \in S /\ f[i + 1] = G[i + 1][f[i]]
    BY <1>7, <2>1
  <2> QED
    BY <1>4, <2>1, <2>2
<1> DEFINE H == {k \in Nat : k <= N =>
                   \A l, h \in 0 .. N : h - l <= k + 1 => f[k + 1][<<l, h>>] = f[k][<<l, h>>]}
<1>9. 0 \in H
  <2> SUFFICES ASSUME NEW l \in 0 .. N, NEW h \in 0 .. N, h - l <= 1
               PROVE  f[1][<<l, h>>] = f[0][<<l, h>>]
    OBVIOUS
  <2>1. f[1] = Halve(f[0], N, A)
    BY <1>8
  <2>2. Halve(f[0], N, A)[<<l, h>>] = h
    BY HalveEnds
  <2>3. a[<<l, h>>] = h
    OBVIOUS
  <2> HIDE DEF a
  <2> QED
    BY <1>7, <2>1, <2>2, <2>3
<1>10. ASSUME NEW k \in Nat, k \in H PROVE k + 1 \in H
  <2> SUFFICES ASSUME k + 1 <= N, NEW l \in 0 .. N, NEW h \in 0 .. N, h - l <= k + 1 + 1
               PROVE  f[k + 1 + 1][<<l, h>>] = f[k + 1][<<l, h>>]
    OBVIOUS
  <2>1. Agree(f[k + 1], f[k], N, k + 1)
    BY <1>10 DEF Agree
  <2>2. k \in 0 .. N /\ k + 1 \in 0 .. N /\ k + 1 \in Nat
    OBVIOUS
  <2>3. f[k + 1] = Halve(f[k], N, A) /\ f[k + 1 + 1] = Halve(f[k + 1], N, A)
    BY <1>8, <2>2
  <2>4. Halve(f[k + 1], N, A)[<<l, h>>] = Halve(f[k], N, A)[<<l, h>>]
    BY <2>1, <2>2, HalvesAgree
  <2> QED
    BY <2>3, <2>4
<1> HIDE DEF H
<1>11. N \in H
  BY <1>9, <1>10, NatInSet
<1>12. \A l, h \in 0 .. N : f[N + 1][<<l, h>>] = f[N][<<l, h>>]
  <2> TAKE l, h \in 0 .. N
  <2>1. h - l <= N + 1
    OBVIOUS
  <2> QED
    BY <1>11, <2>1 DEF H
<1>13. f[N] \in S /\ f[N + 1] \in S /\ f[N + 1] = Halve(f[N], N, A)
  <2>1. N \in 0 .. N
    OBVIOUS
  <2> HIDE DEF S
  <2> QED
    BY <1>8, <2>1
<1>14. \A p \in Q : f[N + 1][p] = f[N][p]
  <2> TAKE p \in Q
  <2>1. PICK l \in 0 .. N, h \in 0 .. N : p = <<l, h>>
    OBVIOUS
  <2> QED
    BY <1>12, <2>1
<1>15. f[N + 1] = f[N]
  <2> HIDE DEF Q
  <2> QED
    BY <1>13, <1>14
<1> QED
  BY <1>13, <1>15

\* It ends at a member of A whose predecessor is none.
LEMMA SearchFinds ==
  ASSUME NEW N \in Nat, NEW A, 0 \notin A, N \in A,
         NEW s, s = Halve(s, N, A)
  PROVE  s[<<0, N>>] \in 1 .. N /\ s[<<0, N>>] \in A /\ s[<<0, N>>] - 1 \notin A
<1>1. s = Halve(s, N, A)
  OBVIOUS
<1> DEFINE Finds(l, h) == s[<<l, h>>] \in 1 .. N /\ s[<<l, h>>] \in A /\ s[<<l, h>>] - 1 \notin A
           H == {k \in Nat : \A l, h \in 0 .. N :
                   l < h /\ h - l <= k /\ l \notin A /\ h \in A => Finds(l, h)}
<1>2. 0 \in H
  OBVIOUS
<1>3. ASSUME NEW k \in Nat, k \in H PROVE k + 1 \in H
  <2> SUFFICES ASSUME NEW l \in 0 .. N, NEW h \in 0 .. N,
                      l < h, h - l <= k + 1, l \notin A, h \in A
               PROVE  Finds(l, h)
    OBVIOUS
  <2>1. CASE h - l <= 1
    <3>1. s[<<l, h>>] = h
      BY <1>1, <2>1, HalveEnds
    <3>2. h - 1 = l /\ h \in 1 .. N
      BY <2>1
    <3> QED
      BY <3>1, <3>2
  <2>2. CASE h - l > 1
    <3> DEFINE mid == Mid(l, h)
    <3>1. /\ mid \in 0 .. N /\ l < mid /\ mid < h
          /\ Halve(s, N, A)[<<l, h>>] = IF mid \in A THEN s[<<l, mid>>] ELSE s[<<mid, h>>]
      BY <2>2, HalveSplits
    <3> HIDE DEF mid
    <3>2. mid - l <= k /\ h - mid <= k
      BY <3>1
    <3>3. CASE mid \in A
      <4>1. Finds(l, mid)
        BY <1>3, <3>1, <3>2, <3>3
      <4>2. s[<<l, h>>] = s[<<l, mid>>]
        BY <1>1, <3>1, <3>3
      <4> QED
        BY <4>1, <4>2
    <3>4. CASE mid \notin A
      <4>1. Finds(mid, h)
        BY <1>3, <3>1, <3>2, <3>4
      <4>2. s[<<l, h>>] = s[<<mid, h>>]
        BY <1>1, <3>1, <3>4
      <4> QED
        BY <4>1, <4>2
    <3> QED
      BY <3>3, <3>4
  <2> QED
    BY <2>1, <2>2
<1> HIDE DEF H
<1>4. N \in H
  BY <1>2, <1>3, NatInSet
<1>5. 0 \in 0 .. N /\ N \in 0 .. N /\ N - 0 <= N /\ 0 # N
  OBVIOUS
<1>6. 0 < N
  BY <1>5
<1>7. Finds(0, N)
  BY <1>4, <1>5, <1>6 DEF H
<1> QED
  BY <1>7

-----------------------------------------------------------------------------
(* The annuity. *)

\* What is left after one payment, when the payment is tried.
After(t, pay, x) ==
  LET leg == pay - Loan!MonthlyInterest(x, t.rateBps)
  IN  IF x <= 0 THEN 0 ELSE IF leg <= 0 THEN x ELSE x - leg

Tried(f, t, pay) ==
  /\ f \in [0 .. t.periods -> Int] /\ f[0] = t.principal
  /\ \A i \in 1 .. t.periods : f[i] = After(t, pay, f[i - 1])
  /\ Loan!Amortizes(t, pay) <=> f[t.periods] <= 0

LEMMA AfterIs ==
  ASSUME NEW t \in Terms, NEW pay \in Int, NEW x \in Int
  PROVE  After(t, pay, x) \in Int
<1>1. CASE x <= 0
  BY <1>1 DEF After
<1>2. CASE x > 0
  <2>1. x \in Nat /\ t.rateBps \in Nat
    BY <1>2, LoanTerms
  <2>2. Loan!MonthlyInterest(x, t.rateBps) \in Nat
    BY <2>1, InterestIs
  <2> QED
    BY <2>2 DEF After
<1> QED
  BY <1>1, <1>2

LEMMA Trials ==
  ASSUME NEW t \in Terms, NEW pay \in Int
  PROVE  \E f : Tried(f, t, pay)
<1> DEFINE P == t.periods
           G == [i \in Nat |-> [x \in Int |-> After(t, pay, x)]]
           Body(f) == [i \in 0 .. P |->
                         IF i = 0 THEN t.principal
                         ELSE IF f[i - 1] <= 0 THEN 0
                         ELSE LET leg == pay - Loan!MonthlyInterest(f[i - 1], t.rateBps)
                              IN IF leg <= 0 THEN f[i - 1] ELSE f[i - 1] - leg]
           left == CHOOSE f : f = Body(f)
<1>1. P \in Nat /\ P > 0 /\ t.principal \in Int
  BY LoanTerms
<1>2. Loan!Amortizes(t, pay) <=> left[P] <= 0
  BY DEF Loan!Amortizes
<1>3. G \in [Nat -> [Int -> Int]] /\ \A i \in Nat : \A x \in Int : G[i][x] = After(t, pay, x)
  BY AfterIs
<1> HIDE DEF G
<1>4. PICK f : IsChain(f, Int, t.principal, G, P)
  BY <1>1, <1>3, ChainExists
<1>5. f \in [0 .. P -> Int] /\ f[0] = t.principal /\ \A i \in 1 .. P : f[i] = G[i][f[i - 1]]
  BY <1>4 DEF IsChain
<1>6. \A i \in 1 .. P : i \in Nat /\ i - 1 \in 0 .. P /\ f[i - 1] \in Int /\ i # 0
  BY SMTT(30), <1>1, <1>5
<1>7. \A i \in 1 .. P : f[i] = After(t, pay, f[i - 1])
  BY <1>3, <1>5, <1>6
<1>8. f = Body(f)
  <2>1. \A i \in 0 .. P : f[i] = IF i = 0 THEN t.principal ELSE After(t, pay, f[i - 1])
    <3> TAKE i \in 0 .. P
    <3>1. i = 0 \/ i \in 1 .. P
      BY <1>1
    <3> QED
      BY <1>5, <1>6, <1>7, <3>1
  <2> HIDE DEF P
  <2> QED
    BY <1>5, <2>1 DEF After
<1>9. left = Body(left)
  <2> HIDE DEF Body
  <2> QED
    BY <1>8
<1> HIDE DEF left
<1>10. \A i \in 0 .. P : left[i] = IF i = 0 THEN t.principal ELSE After(t, pay, left[i - 1])
  <2> HIDE DEF P
  <2> QED
    BY <1>9 DEF After
<1>11. left[0] = t.principal /\ \A i \in 1 .. P : left[i] = After(t, pay, left[i - 1])
  BY <1>1, <1>6, <1>10
<1> DEFINE H == {m \in Nat : m <= P => left[m] \in Int}
<1>12. 0 \in H
  BY <1>1, <1>11
<1>13. ASSUME NEW m \in Nat, m \in H PROVE m + 1 \in H
  <2> SUFFICES ASSUME m + 1 <= P PROVE left[m + 1] \in Int
    OBVIOUS
  <2>1. left[m] \in Int /\ m + 1 \in 1 .. P /\ m + 1 - 1 = m
    BY <1>1, <1>13
  <2>2. left[m + 1] = After(t, pay, left[m])
    BY <1>11, <2>1
  <2> QED
    BY <2>1, <2>2, AfterIs
<1> HIDE DEF H
<1>14. \A m \in 0 .. P : left[m] \in Int
  <2>1. \A m \in Nat : m \in H
    BY <1>12, <1>13, NatInSet
  <2> QED
    BY <1>1, <2>1 DEF H
<1>15. left \in [0 .. P -> Int]
  <2> HIDE DEF P
  <2> QED
    BY <1>9, <1>14
<1> HIDE DEF Body
<1>16. Tried(left, t, pay)
  BY <1>2, <1>11, <1>15 DEF Tried
<1> QED
  BY <1>16

\* Paying nothing never clears the loan, ...
LEMMA NothingFails ==
  ASSUME NEW t \in Terms
  PROVE  ~Loan!Amortizes(t, 0)
<1>1. PICK f : Tried(f, t, 0)
  BY Trials
<1> DEFINE P == t.periods
           H == {m \in Nat : m <= P => f[m] = t.principal}
<1>2. P \in Nat /\ P > 0 /\ t.principal \in Nat /\ t.principal > 0 /\ t.rateBps \in Nat
  BY LoanTerms
<1>3. /\ f[0] = t.principal
      /\ \A i \in 1 .. P : f[i] = After(t, 0, f[i - 1])
      /\ Loan!Amortizes(t, 0) <=> f[P] <= 0
  BY <1>1 DEF Tried
<1>4. 0 \in H
  BY <1>3
<1>5. ASSUME NEW m \in Nat, m \in H PROVE m + 1 \in H
  <2> SUFFICES ASSUME m + 1 <= P PROVE f[m + 1] = t.principal
    OBVIOUS
  <2>1. f[m] = t.principal /\ m + 1 \in 1 .. P /\ m + 1 - 1 = m
    BY <1>2, <1>5
  <2>2. f[m + 1] = After(t, 0, t.principal)
    BY <1>3, <2>1
  <2>3. Loan!MonthlyInterest(t.principal, t.rateBps) \in Nat
    BY <1>2, InterestIs
  <2> QED
    BY <1>2, <2>2, <2>3 DEF After
<1> HIDE DEF H
<1>6. f[P] = t.principal
  <2>1. P \in H
    BY <1>2, <1>4, <1>5, NatInSet
  <2> QED
    BY <1>2, <2>1 DEF H
<1> QED
  BY <1>2, <1>3, <1>6

\* ... and the payment the search starts from clears it at once.
LEMMA SafeHighClears ==
  ASSUME NEW t \in Terms
  PROVE  Loan!SafeHigh(t) \in Nat /\ Loan!Amortizes(t, Loan!SafeHigh(t))
<1> DEFINE P == t.periods
           pay == Loan!SafeHigh(t)
           m == Loan!MonthlyInterest(t.principal, t.rateBps)
<1>1. P \in Nat /\ P > 0 /\ t.principal \in Nat /\ t.principal > 0 /\ t.rateBps \in Nat
  BY LoanTerms
<1>2. m \in Nat
  BY <1>1, InterestIs
<1>3. pay = t.principal + P * m + 1
  BY DEF Loan!SafeHigh
<1> HIDE DEF m, P
<1>4. P * m \in Nat /\ P * m >= m
  <2>1. (P - 1) * m \in Nat /\ P * m = (P - 1) * m + m
    BY <1>1, <1>2
  <2> QED
    BY <1>2, <2>1
<1>5. pay \in Nat /\ pay - m > t.principal
  <2> DEFINE y == P * m
  <2> HIDE DEF y, pay
  <2> QED
    BY <1>1, <1>2, <1>3, <1>4 DEF y
<1> HIDE DEF pay
<1>6. PICK f : Tried(f, t, pay)
  BY <1>5, Trials
<1>7. /\ f[0] = t.principal
      /\ \A i \in 1 .. P : f[i] = After(t, pay, f[i - 1])
      /\ Loan!Amortizes(t, pay) <=> f[P] <= 0
  BY <1>6 DEF Tried, P
<1>8. After(t, pay, t.principal) <= 0
  BY <1>1, <1>2, <1>5 DEF After, m
<1> DEFINE H == {i \in Nat : i + 1 <= P => f[i + 1] \in Int /\ f[i + 1] <= 0}
<1>9. 0 \in H
  <2>1. 1 \in 1 .. P /\ 1 - 1 = 0 /\ 0 + 1 = 1
    BY <1>1
  <2>2. f[1] = After(t, pay, t.principal)
    BY <1>7, <2>1
  <2>3. After(t, pay, t.principal) \in Int
    BY <1>1, <1>5, AfterIs
  <2> QED
    BY <1>8, <2>1, <2>2, <2>3
<1>10. ASSUME NEW i \in Nat, i \in H PROVE i + 1 \in H
  <2> SUFFICES ASSUME i + 1 + 1 <= P PROVE f[i + 1 + 1] \in Int /\ f[i + 1 + 1] <= 0
    OBVIOUS
  <2>1. f[i + 1] \in Int /\ f[i + 1] <= 0 /\ i + 1 + 1 \in 1 .. P /\ i + 1 + 1 - 1 = i + 1
    BY <1>1, <1>10
  <2>2. f[i + 1 + 1] = After(t, pay, f[i + 1])
    BY <1>7, <2>1
  <2> QED
    BY <2>1, <2>2 DEF After
<1> HIDE DEF H
<1>11. f[P] <= 0
  <2>1. P - 1 \in Nat /\ P - 1 + 1 = P
    BY <1>1
  <2>2. P - 1 \in H
    BY <1>9, <1>10, <2>1, NatInSet
  <2> QED
    BY <1>1, <2>1, <2>2 DEF H
<1> QED
  BY <1>5, <1>7, <1>11 DEF pay

\* The annuity is the least payment that clears the loan within its periods.
LEMMA AnnuityIsLeast ==
  ASSUME NEW t \in Terms
  PROVE  /\ Loan!Annuity(t) \in Nat
         /\ Loan!Amortizes(t, Loan!Annuity(t)) /\ ~Loan!Amortizes(t, Loan!Annuity(t) - 1)
<1> DEFINE N == Loan!SafeHigh(t)
           A == {m \in Nat : Loan!Amortizes(t, m)}
           Body(s) == [p \in (0 .. N) \X (0 .. N) |->
             LET mid == (p[1] + p[2]) \div 2
             IN IF p[2] - p[1] <= 1 THEN p[2]
                ELSE IF Loan!Amortizes(t, mid) THEN s[<<p[1], mid>>] ELSE s[<<mid, p[2]>>]]
           s == CHOOSE z : z = Body(z)
<1>1. Loan!Annuity(t) = s[<<0, N>>]
  BY DEF Loan!Annuity
<1>2. N \in Nat /\ 0 \notin A /\ N \in A
  BY NothingFails, SafeHighClears
<1> HIDE DEF N
<1>3. ASSUME NEW z PROVE Body(z) = Halve(z, N, A)
  <2>1. ASSUME NEW p \in (0 .. N) \X (0 .. N), ~(p[2] - p[1] <= 1)
        PROVE  Loan!Amortizes(t, Mid(p[1], p[2])) <=> Mid(p[1], p[2]) \in A
    <3>1. p[1] \in Int /\ p[2] \in Int /\ p[2] - p[1] > 1 /\ p[1] >= 0
      BY <1>2, <2>1
    <3>2. Mid(p[1], p[2]) \in Nat
      BY <3>1, Middle
    <3> QED
      BY <3>2
  <2>2. ASSUME NEW p \in (0 .. N) \X (0 .. N)
        PROVE  Body(z)[p] = Halve(z, N, A)[p]
    <3> DEFINE mid == Mid(p[1], p[2])
    <3>1. Body(z)[p] = IF p[2] - p[1] <= 1 THEN p[2]
                       ELSE IF Loan!Amortizes(t, mid) THEN z[<<p[1], mid>>] ELSE z[<<mid, p[2]>>]
      BY <2>2 DEF Mid
    <3>2. Halve(z, N, A)[p] = IF p[2] - p[1] <= 1 THEN p[2]
                       ELSE IF mid \in A THEN z[<<p[1], mid>>] ELSE z[<<mid, p[2]>>]
      BY <2>2 DEF Halve
    <3>3. ~(p[2] - p[1] <= 1) => (Loan!Amortizes(t, mid) <=> mid \in A)
      BY <2>1
    <3> HIDE DEF mid, A, Body
    <3> QED
      BY <3>1, <3>2, <3>3, Zenon
  <2>3. Halve(z, N, A) = [p \in (0 .. N) \X (0 .. N) |-> Halve(z, N, A)[p]]
    BY DEF Halve
  <2>4. Body(z) = [p \in (0 .. N) \X (0 .. N) |-> Body(z)[p]]
    OBVIOUS
  <2> HIDE DEF Body, A
  <2> QED
    BY <2>2, <2>3, <2>4
<1>4. s = Body(s)
  <2>1. PICK z : z = Halve(z, N, A)
    BY <1>2, SearchExists
  <2>2. z = Body(z)
    BY <1>3, <2>1
  <2> HIDE DEF Body
  <2> QED
    BY <2>2
<1> HIDE DEF s, Body
<1>5. s = Halve(s, N, A)
  BY <1>3, <1>4
<1>6. s[<<0, N>>] \in 1 .. N /\ s[<<0, N>>] \in A /\ s[<<0, N>>] - 1 \notin A
  <2> HIDE DEF A
  <2> QED
    BY <1>2, <1>5, SearchFinds
<1> DEFINE r == s[<<0, N>>]
<1>7. r \in Nat /\ r - 1 \in Nat
  <2> HIDE DEF A
  <2> QED
    BY <1>2, <1>6
<1>8. Loan!Amortizes(t, r) /\ ~Loan!Amortizes(t, r - 1)
  BY <1>6, <1>7
<1> HIDE DEF r
<1>9. Loan!Annuity(t) = r
  BY <1>1 DEF r
<1> QED
  BY <1>7, <1>8, <1>9

-----------------------------------------------------------------------------
(* The lines of the schedule. *)

LEMMA LegsAreSum ==
  ASSUME NEW f, NEW S
  PROVE  Loan!MapThenSumSet(LAMBDA i : f[i], S) = SumOf(f, S)
BY DEF SumOf, MapThenSumSet, MapThenFoldSet, Loan!MapThenSumSet, Loan!MapThenFoldSet

\* Less left, less interest.
LEMMA InterestGrows ==
  ASSUME NEW x \in Nat, NEW y \in Nat, x <= y, NEW rate \in Nat
  PROVE  Loan!MonthlyInterest(x, rate) <= Loan!MonthlyInterest(y, rate)
<1> DEFINE a == x * rate
           b == y * rate
<1>1. a \in Nat /\ b \in Nat /\ a <= b
  <2>1. (y - x) * rate \in Nat /\ y * rate = (y - x) * rate + x * rate /\ x * rate \in Nat
    OBVIOUS
  <2> QED
    BY <2>1
<1>2. Loan!MonthlyInterest(x, rate) = (a + 60000) \div 120000
      /\ Loan!MonthlyInterest(y, rate) = (b + 60000) \div 120000
  BY SMT DEF Loan!MonthlyInterest
<1> HIDE DEF a, b
<1> QED
  BY <1>1, <1>2, SMT

\* A payment that does not cover the first interest clears nothing.
LEMMA StuckFails ==
  ASSUME NEW t \in Terms, NEW pay \in Nat, pay <= Loan!MonthlyInterest(t.principal, t.rateBps)
  PROVE  ~Loan!Amortizes(t, pay)
<1>1. PICK f : Tried(f, t, pay)
  BY Trials
<1> DEFINE P == t.periods
           H == {m \in Nat : m <= P => f[m] = t.principal}
<1>2. P \in Nat /\ P > 0 /\ t.principal \in Nat /\ t.principal > 0 /\ t.rateBps \in Nat
  BY LoanTerms
<1>3. /\ f[0] = t.principal
      /\ \A i \in 1 .. P : f[i] = After(t, pay, f[i - 1])
      /\ Loan!Amortizes(t, pay) <=> f[P] <= 0
  BY <1>1 DEF Tried
<1>4. 0 \in H
  BY <1>3
<1>5. ASSUME NEW m \in Nat, m \in H PROVE m + 1 \in H
  <2> SUFFICES ASSUME m + 1 <= P PROVE f[m + 1] = t.principal
    OBVIOUS
  <2>1. f[m] = t.principal /\ m + 1 \in 1 .. P /\ m + 1 - 1 = m
    BY <1>2, <1>5
  <2>2. f[m + 1] = After(t, pay, t.principal)
    BY <1>3, <2>1
  <2>3. Loan!MonthlyInterest(t.principal, t.rateBps) \in Nat
    BY <1>2, InterestIs
  <2> QED
    BY <1>2, <2>2, <2>3 DEF After
<1> HIDE DEF H
<1>6. f[P] = t.principal
  <2>1. P \in H
    BY <1>2, <1>4, <1>5, NatInSet
  <2> QED
    BY <1>2, <2>1 DEF H
<1> QED
  BY <1>2, <1>3, <1>6

\* The lines are numbered within the periods, each pays something back, and they
\* pay back the principal.
LEMMA LegsMakeUpPrincipal ==
  ASSUME NEW t \in Terms
  PROVE  /\ DOMAIN Loan!BuildAmortisation(t) \in SUBSET (1 .. t.periods)
         /\ Loan!BuildAmortisation(t) \in [DOMAIN Loan!BuildAmortisation(t) -> Nat \ {0}]
         /\ SumOf(Loan!BuildAmortisation(t), DOMAIN Loan!BuildAmortisation(t)) = t.principal
<1> DEFINE P == t.periods
           left == Loan!Left(t)
           legsOf == Loan!BuildAmortisation(t)
           D == {n \in 1 .. P : left[n - 1] > 0}
           d == [i \in 1 .. P |-> left[i - 1] - left[i]]
           pay == Loan!Annuity(t)
           first == Loan!MonthlyInterest(t.principal, t.rateBps)
<1>1. P \in Nat /\ P > 0 /\ t.principal \in Nat /\ t.principal > 0 /\ t.rateBps \in Nat
  BY LoanTerms
<1>2. pay \in Nat /\ Loan!Amortizes(t, pay)
  BY AnnuityIsLeast
<1>3. first \in Nat /\ pay > first
  <2>1. first \in Nat
    BY <1>1, InterestIs
  <2> QED
    BY <1>2, <2>1, StuckFails
<1>4. /\ left \in [0 .. P -> Nat]
      /\ left[0] = t.principal /\ left[P] = 0
      /\ \A i \in 1 .. P : left[i] = LeftAfter(t, i, left[i - 1])
  BY <1>2, LeftFalls
<1>5. legsOf = [i \in D |-> left[i - 1] - left[i]]
  BY DEF Loan!BuildAmortisation
<1> HIDE DEF left, legsOf, pay, first
<1>6. ASSUME NEW x \in Nat, x <= t.principal, NEW i
      PROVE  /\ LeftAfter(t, i, x) \in Nat
             /\ LeftAfter(t, i, x) <= x /\ (x > 0 => LeftAfter(t, i, x) < x)
  <2> DEFINE m == Loan!MonthlyInterest(x, t.rateBps)
  <2>1. m \in Nat /\ m <= first
    BY <1>1, <1>6, InterestIs, InterestGrows DEF first
  <2>2. LeftAfter(t, i, x) = IF i = P \/ pay - m >= x THEN 0 ELSE x - (pay - m)
    BY DEF LeftAfter, pay
  <2> HIDE DEF m
  <2> QED
    BY <1>2, <1>3, <1>6, <2>1, <2>2
<1> DEFINE H == {m \in Nat : m <= P => left[m] <= t.principal}
<1>7. 0 \in H
  BY <1>1, <1>4
<1>8. ASSUME NEW m \in Nat, m \in H PROVE m + 1 \in H
  <2> SUFFICES ASSUME m + 1 <= P PROVE left[m + 1] <= t.principal
    OBVIOUS
  <2>1. left[m] \in Nat /\ left[m] <= t.principal /\ m + 1 \in 1 .. P /\ m + 1 - 1 = m
        /\ left[m + 1] \in Nat
    BY <1>1, <1>4, <1>8
  <2>2. left[m + 1] = LeftAfter(t, m + 1, left[m])
    BY <1>4, <2>1
  <2>3. left[m + 1] <= left[m]
    BY <1>6, <2>1, <2>2
  <2> QED
    BY <1>1, <2>1, <2>3
<1> HIDE DEF H
<1>9. \A i \in 1 .. P : /\ i - 1 \in 0 .. P /\ left[i - 1] \in Nat /\ left[i] \in Nat
                        /\ left[i] <= left[i - 1] /\ (left[i - 1] > 0 => left[i] < left[i - 1])
  <2> TAKE i \in 1 .. P
  <2>1. i - 1 \in 0 .. P /\ i - 1 \in Nat /\ i - 1 <= P /\ i \in 0 .. P
    BY <1>1
  <2>2. i - 1 \in H
    BY <1>7, <1>8, <2>1, NatInSet
  <2>3. left[i - 1] <= t.principal /\ left[i - 1] \in Nat /\ left[i] \in Nat
    BY <1>4, <2>1, <2>2 DEF H
  <2> QED
    BY <1>4, <1>6, <2>1, <2>3
<1>10. \A i \in 1 .. P : d[i] = left[i - 1] - left[i] /\ d[i] \in Int
  BY <1>9
<1>11. \A i \in (1 .. P) \ D : d[i] = 0
  <2> TAKE i \in (1 .. P) \ D
  <2>1. i \in 1 .. P /\ ~(left[i - 1] > 0)
    OBVIOUS
  <2> QED
    BY <1>9, <1>10, <2>1
<1>12. D \in SUBSET (1 .. P) /\ DOMAIN legsOf = D
  BY <1>5
<1>13. \A i \in D : legsOf[i] = d[i] /\ legsOf[i] \in Nat \ {0}
  <2> TAKE i \in D
  <2>1. i \in 1 .. P /\ left[i - 1] > 0
    OBVIOUS
  <2> QED
    BY <1>5, <1>9, <1>10, <2>1
<1>14. SumOf(d, 1 .. P) = t.principal
  <2>1. \A i \in 0 .. P : left[i] \in Int
    BY <1>4
  <2>2. \A i \in 1 .. P : d[i] = left[i - 1] - left[i]
    BY <1>10
  <2> HIDE DEF d, P
  <2>3. SumOf(d, 1 .. P) = left[0] - left[P]
    BY <1>1, <2>1, <2>2, Telescopes
  <2> QED
    BY <1>1, <1>4, <2>3
<1>15. SumOf(d, 1 .. P) = SumOf(d, D) /\ SumOf(legsOf, D) = SumOf(d, D)
  <2>1. IsFiniteSet(1 .. P) /\ IsFiniteSet(D)
    <3>1. IsFiniteSet(1 .. P)
      BY <1>1, FirstAreFinite
    <3> QED
      BY <1>12, <3>1, FS_Subset
  <2>2. (\A i \in 1 .. P : d[i] \in Int) /\ (\A i \in D : d[i] \in Int)
    BY <1>10, <1>12
  <2>3. \A i \in D : legsOf[i] = d[i]
    BY <1>13
  <2> HIDE DEF d, D
  <2> QED
    BY <1>11, <1>12, <2>1, <2>2, <2>3, SumPart, SumSame
<1>16. legsOf \in [D -> Nat \ {0}]
  <2> HIDE DEF D
  <2> QED
    BY <1>5, <1>13
<1> HIDE DEF D, d
<1> QED
  BY <1>12, <1>14, <1>15, <1>16 DEF legsOf

\* The annuity is the least payment that clears the loan within its periods, and
\* the lines of the schedule pay back the principal to the last unit, none of
\* them nothing, for any terms a loan may have (members/loan.go:5-8 and 113-182).
THEOREM AmortisationIsExact == Loan!ScheduleIsExact(Terms)
<1> SUFFICES ASSUME NEW t \in Terms
             PROVE  /\ Loan!Amortizes(t, Loan!Annuity(t)) /\ ~Loan!Amortizes(t, Loan!Annuity(t) - 1)
                    /\ Loan!MapThenSumSet(LAMBDA i : Loan!BuildAmortisation(t)[i],
                                          DOMAIN Loan!BuildAmortisation(t)) = t.principal
                    /\ \A i \in DOMAIN Loan!BuildAmortisation(t) : Loan!BuildAmortisation(t)[i] > 0
  BY DEF Loan!ScheduleIsExact
<1> DEFINE made == Loan!BuildAmortisation(t)
<1>1. made \in [DOMAIN made -> Nat \ {0}] /\ SumOf(made, DOMAIN made) = t.principal
  BY LegsMakeUpPrincipal
<1>2. Loan!MapThenSumSet(LAMBDA i : made[i], DOMAIN made) = SumOf(made, DOMAIN made)
  BY LegsAreSum
<1>3. \A i \in DOMAIN made : made[i] > 0
  <2> HIDE DEF made
  <2> QED
    BY <1>1
<1> QED
  BY <1>1, <1>2, <1>3, AnnuityIsLeast

-----------------------------------------------------------------------------
(* Member loans: what the loan says is in the ledger. *)

LoanLabels == {"idle", "post disbursement", "set disbursed", "post", "mark", "look", "read loan",
               "set repaid"}
LoanWork == [line : DOMAIN legs \cup {0}, journal : Journals \cup {"none"}, version : Nat]

\* A repayment of a line is under way.
Collecting(r) == loanPc[r] \in {"post", "mark", "look", "read loan", "set repaid"}

LoanType ==
  /\ legs \in [DOMAIN legs -> Nat \ {0}]
  /\ IsFiniteSet(DOMAIN legs) /\ SumOf(legs, DOMAIN legs) = principal
  /\ loan \in {"draft", "disbursed", "repaid"}
  /\ loanVersion \in Nat
  /\ paid \in SUBSET DOMAIN legs
  /\ repaid \in [DOMAIN legs -> [Journals -> {0, 1}]]
  /\ loanPc \in [Requests -> LoanLabels]
  /\ loanWork \in [Requests -> LoanWork]

\* The ledger has the disbursement before the loan says so.
DisbursedInv ==
  /\ loan # "draft" => disbursed # {}
  /\ \A r \in Requests : loanPc[r] = "set disbursed" => disbursed # {}

\* What a request that collects a line relies on.
CollectingInv == \A r \in Requests : Collecting(r) =>
  /\ loan # "draft"
  /\ loanWork[r].line \in DOMAIN legs /\ loanWork[r].journal \in Journals
  /\ loanPc[r] = "mark" => repaid[loanWork[r].line][loanWork[r].journal] > 0
  /\ loanPc[r] \in {"read loan", "set repaid"} => paid = DOMAIN legs

CollectedInv ==
  /\ \A i \in DOMAIN legs, j \in Journals : repaid[i][j] > 0 => loan # "draft"
  /\ \A i \in paid : \E j \in Journals : repaid[i][j] > 0
  /\ loan = "repaid" => paid = DOMAIN legs

LoanInv == LoanType /\ DisbursedInv /\ CollectingInv /\ CollectedInv

LEMMA LoanInit == Loan!Init => LoanInv
<1> SUFFICES ASSUME Loan!Init PROVE LoanInv
  OBVIOUS
<1>1. PICK t \in Terms : principal = t.principal /\ legs = Loan!BuildAmortisation(t)
  BY DEF Loan!Init
<1>2. /\ DOMAIN legs \in SUBSET (1 .. t.periods) /\ legs \in [DOMAIN legs -> Nat \ {0}]
      /\ SumOf(legs, DOMAIN legs) = principal
  BY <1>1, LegsMakeUpPrincipal
<1>3. IsFiniteSet(DOMAIN legs)
  <2>1. IsFiniteSet(1 .. t.periods)
    BY LoanTerms, FirstAreFinite
  <2> QED
    BY <1>2, <2>1, FS_Subset
<1>4. /\ loan = "draft" /\ loanVersion = 1 /\ disbursed = {} /\ paid = {}
      /\ repaid = [i \in DOMAIN legs |-> [j \in Journals |-> 0]]
      /\ loanPc = [r \in Requests |-> "idle"]
      /\ loanWork = [r \in Requests |-> [line |-> 0, journal |-> "none", version |-> 0]]
  BY DEF Loan!Init, Loan!Lines, Loan!NoWork
<1>5. LoanType
  BY <1>2, <1>3, <1>4 DEF LoanType, LoanLabels, LoanWork
<1>6. DisbursedInv /\ CollectingInv /\ CollectedInv
  BY <1>4 DEF DisbursedInv, CollectingInv, CollectedInv, Collecting
<1> QED
  BY <1>5, <1>6 DEF LoanInv

\* A step that changes neither the loan nor its entries: a request that collects
\* afterwards knows what it relies on.
LEMMA QuietLoan ==
  ASSUME LoanInv, LoanType', UNCHANGED <<principal, legs, loan, paid, repaid>>,
         disbursed \subseteq disbursed',
         NEW r \in Requests,
         \A q \in Requests \ {r} : loanPc'[q] = loanPc[q] /\ loanWork'[q] = loanWork[q],
         loanPc'[r] = "set disbursed" => disbursed' # {},
         Collecting(r)' =>
           /\ loan # "draft"
           /\ loanWork'[r].line \in DOMAIN legs /\ loanWork'[r].journal \in Journals
           /\ loanPc'[r] = "mark" => repaid[loanWork'[r].line][loanWork'[r].journal] > 0
           /\ loanPc'[r] \in {"read loan", "set repaid"} => paid = DOMAIN legs
  PROVE  LoanInv'
<1>1. DisbursedInv'
  <2>1. disbursed # {} => disbursed' # {}
    OBVIOUS
  <2> QED
    BY <2>1 DEF LoanInv, DisbursedInv
<1>2. CollectingInv'
  <2> SUFFICES ASSUME NEW q \in Requests, Collecting(q)'
               PROVE  /\ loan # "draft"
                      /\ loanWork'[q].line \in DOMAIN legs /\ loanWork'[q].journal \in Journals
                      /\ loanPc'[q] = "mark" => repaid[loanWork'[q].line][loanWork'[q].journal] > 0
                      /\ loanPc'[q] \in {"read loan", "set repaid"} => paid = DOMAIN legs
    BY DEF CollectingInv
  <2>1. CASE q = r
    BY <2>1
  <2>2. CASE q # r
    <3>1. loanPc'[q] = loanPc[q] /\ loanWork'[q] = loanWork[q] /\ Collecting(q)
      BY <2>2 DEF Collecting
    <3> QED
      BY <3>1 DEF LoanInv, CollectingInv
  <2> QED
    BY <2>1, <2>2
<1>3. CollectedInv'
  BY DEF LoanInv, CollectedInv
<1> QED
  BY <1>1, <1>2, <1>3 DEF LoanInv

LEMMA LoanTypeStep == ASSUME LoanInv, Loan!Next PROVE LoanType'
<1>1. LoanType
  BY DEF LoanInv
<1>2. UNCHANGED <<principal, legs>> => LoanWork' = LoanWork
  BY DEF LoanWork
<1>3. Loan!NoWork \in LoanWork
  BY DEF LoanWork, Loan!NoWork
<1>4. ASSUME NEW r \in Requests, Loan!Finish(r), UNCHANGED <<principal, legs, loan, loanVersion, paid, repaid>>
      PROVE  LoanType'
  BY <1>1, <1>3, <1>4 DEF LoanType, LoanLabels, Loan!Finish, Loan!Goto, LoanWork
<1>5. ASSUME NEW r \in Requests, NEW from, NEW to \in {"disbursed", "repaid"}, Loan!SetStatus(r, from, to)
      PROVE  LoanType'
  <2>1. /\ loanWork' = [loanWork EXCEPT ![r] = Loan!NoWork] /\ loanPc' = [loanPc EXCEPT ![r] = "idle"]
        /\ UNCHANGED <<principal, legs, disbursed, paid, repaid>>
    BY <1>5 DEF Loan!SetStatus, Loan!Finish, Loan!Goto
  <2>2. loan' \in {"draft", "disbursed", "repaid"} /\ loanVersion' \in Nat
    BY <1>1, <1>5 DEF LoanType, Loan!SetStatus
  <2>3. loanWork' \in [Requests -> LoanWork'] /\ loanPc' \in [Requests -> LoanLabels]
    BY <1>1, <1>2, <1>3, <2>1 DEF LoanType, LoanLabels
  <2> QED
    BY <1>1, <2>1, <2>2, <2>3 DEF LoanType
<1>6. ASSUME NEW r \in Requests, NEW j \in Journals, NEW v \in 1 .. loanVersion,
             Loan!StartDisburse(r, j, v)
      PROVE  LoanType'
  <2> DEFINE new == [line |-> 0, journal |-> j, version |-> v]
  <2>1. new \in LoanWork
    BY <1>1 DEF LoanType, LoanWork
  <2>2. /\ loanWork' = [loanWork EXCEPT ![r] = new]
        /\ loanPc' = [loanPc EXCEPT ![r] = "post disbursement"]
        /\ UNCHANGED <<principal, legs, loan, loanVersion, disbursed, paid, repaid>>
    BY <1>6 DEF Loan!StartDisburse, Loan!Goto
  <2> HIDE DEF new
  <2>3. loanWork' \in [Requests -> LoanWork'] /\ loanPc' \in [Requests -> LoanLabels]
    BY <1>1, <1>2, <2>1, <2>2 DEF LoanType, LoanLabels
  <2> QED
    BY <1>1, <2>2, <2>3 DEF LoanType
<1>7. ASSUME NEW r \in Requests, Loan!PostDisbursement(r) PROVE LoanType'
  BY <1>1, <1>3, <1>7 DEF LoanType, LoanLabels, Loan!PostDisbursement, Loan!Finish, Loan!Goto, LoanWork
<1>8. ASSUME NEW r \in Requests, Loan!SetDisbursed(r) PROVE LoanType'
  BY <1>5, <1>8 DEF Loan!SetDisbursed
<1>9. ASSUME NEW r \in Requests, NEW i \in DOMAIN legs, NEW j \in Journals, Loan!StartRepay(r, i, j)
      PROVE  LoanType'
  BY <1>1, <1>9 DEF LoanType, LoanLabels, Loan!StartRepay, Loan!Goto, LoanWork
<1>10. ASSUME NEW r \in Requests, Loan!PostRepayment(r) PROVE LoanType'
  <2>1. CASE repaid[loanWork[r].line][loanWork[r].journal] > 0
    BY <1>4, <1>10, <2>1 DEF Loan!PostRepayment
  <2>2. CASE ~(repaid[loanWork[r].line][loanWork[r].journal] > 0)
    <3> DEFINE i == loanWork[r].line
               j == loanWork[r].journal
    <3>1. i \in DOMAIN legs /\ j \in Journals
      BY <1>10 DEF Loan!PostRepayment, LoanInv, CollectingInv, Collecting
    <3>2. repaid[i][j] = 0
      BY <1>1, <2>2, <3>1 DEF LoanType
    <3>3. repaid' = [repaid EXCEPT ![i][j] = @ + 1]
      BY <1>10, <2>2 DEF Loan!PostRepayment
    <3> HIDE DEF i, j
    <3>4. repaid' \in [DOMAIN legs -> [Journals -> {0, 1}]]
      BY <1>1, <3>1, <3>2, <3>3 DEF LoanType
    <3>5. loanPc' = [loanPc EXCEPT ![r] = "mark"]
          /\ UNCHANGED <<principal, legs, loan, loanVersion, disbursed, paid, loanWork>>
      BY <1>10, <2>2 DEF Loan!PostRepayment, Loan!Goto
    <3> QED
      BY <1>1, <3>4, <3>5 DEF LoanType, LoanLabels, LoanWork
  <2> QED
    BY <2>1, <2>2
<1>11. ASSUME NEW r \in Requests, Loan!MarkLoanLinePaid(r) PROVE LoanType'
  <2>1. loanWork[r].line \in DOMAIN legs
    BY <1>11 DEF Loan!MarkLoanLinePaid, LoanInv, CollectingInv, Collecting
  <2> QED
    BY <1>1, <1>4, <1>11, <2>1 DEF Loan!MarkLoanLinePaid, LoanType, LoanLabels, Loan!Goto, LoanWork
<1>12. ASSUME NEW r \in Requests, Loan!LookForOpen(r) PROVE LoanType'
  BY <1>1, <1>4, <1>12 DEF Loan!LookForOpen, LoanType, LoanLabels, Loan!Goto, LoanWork
<1>13. ASSUME NEW r \in Requests, Loan!ReadLoan(r) PROVE LoanType'
  BY <1>1, <1>13 DEF Loan!ReadLoan, LoanType, LoanLabels, Loan!Goto, LoanWork
<1>14. ASSUME NEW r \in Requests, Loan!SetRepaid(r) PROVE LoanType'
  BY <1>5, <1>14 DEF Loan!SetRepaid
<1>15. ASSUME NEW r \in Requests, Loan!Crash(r) PROVE LoanType'
  BY <1>4, <1>15 DEF Loan!Crash
<1> QED
  BY <1>6, <1>7, <1>8, <1>9, <1>10, <1>11, <1>12, <1>13, <1>14, <1>15 DEF Loan!Next, Loan!Lines

LEMMA LoanStep == ASSUME LoanInv, Loan!Next PROVE LoanInv'
<1>1. LoanType /\ LoanType'
  BY LoanTypeStep DEF LoanInv
<1>2. ASSUME NEW r \in Requests, NEW label,
             loanPc' = [loanPc EXCEPT ![r] = label],
             \A q \in Requests \ {r} : loanWork'[q] = loanWork[q]
      PROVE  /\ loanPc'[r] = label
             /\ \A q \in Requests \ {r} : loanPc'[q] = loanPc[q] /\ loanWork'[q] = loanWork[q]
  BY <1>1, <1>2 DEF LoanType
<1>3. ASSUME NEW r \in Requests, Loan!Finish(r),
             UNCHANGED <<principal, legs, loan, disbursed, paid, repaid>>
      PROVE  LoanInv'
  <2>1. /\ loanPc'[r] = "idle"
        /\ \A q \in Requests \ {r} : loanPc'[q] = loanPc[q] /\ loanWork'[q] = loanWork[q]
    BY <1>1, <1>3 DEF LoanType, Loan!Finish, Loan!Goto
  <2>2. ~Collecting(r)' /\ loanPc'[r] # "set disbursed"
    BY <2>1 DEF Collecting
  <2> QED
    BY <1>1, <1>3, <2>1, <2>2, QuietLoan
<1>4. ASSUME NEW r \in Requests, NEW j \in Journals, NEW v \in 1 .. loanVersion,
             Loan!StartDisburse(r, j, v)
      PROVE  LoanInv'
  <2>1. /\ loanPc'[r] = "post disbursement"
        /\ \A q \in Requests \ {r} : loanPc'[q] = loanPc[q] /\ loanWork'[q] = loanWork[q]
        /\ UNCHANGED <<principal, legs, loan, disbursed, paid, repaid>>
    BY <1>1, <1>4 DEF LoanType, Loan!StartDisburse, Loan!Goto
  <2>2. ~Collecting(r)' /\ loanPc'[r] # "set disbursed"
    BY <2>1 DEF Collecting
  <2> QED
    BY <1>1, <2>1, <2>2, QuietLoan
<1>5. ASSUME NEW r \in Requests, Loan!PostDisbursement(r) PROVE LoanInv'
  <2>1. CASE loanWork[r].journal \in disbursed
    BY <1>3, <1>5, <2>1 DEF Loan!PostDisbursement
  <2>2. CASE loanWork[r].journal \notin disbursed
    <3>1. /\ loanPc'[r] = "set disbursed" /\ disbursed' # {} /\ disbursed \subseteq disbursed'
          /\ \A q \in Requests \ {r} : loanPc'[q] = loanPc[q] /\ loanWork'[q] = loanWork[q]
          /\ UNCHANGED <<principal, legs, loan, paid, repaid>>
      BY <1>1, <1>5, <2>2 DEF LoanType, Loan!PostDisbursement, Loan!Goto
    <3>2. ~Collecting(r)'
      BY <3>1 DEF Collecting
    <3> QED
      BY <1>1, <3>1, <3>2, QuietLoan
  <2> QED
    BY <2>1, <2>2
<1>6. ASSUME NEW r \in Requests, Loan!SetDisbursed(r) PROVE LoanInv'
  <2>1. CASE UNCHANGED loan
    BY <1>3, <1>6, <2>1 DEF Loan!SetDisbursed, Loan!SetStatus
  <2>2. CASE loan' # loan
    <3>1. /\ loan = "draft" /\ loan' = "disbursed" /\ disbursed # {}
          /\ UNCHANGED <<principal, legs, disbursed, paid, repaid>>
          /\ loanPc'[r] = "idle"
          /\ \A q \in Requests \ {r} : loanPc'[q] = loanPc[q] /\ loanWork'[q] = loanWork[q]
      BY <1>1, <1>6, <2>2
      DEF Loan!SetDisbursed, Loan!SetStatus, Loan!Finish, Loan!Goto, LoanInv, DisbursedInv, LoanType
    <3>2. \A q \in Requests : ~Collecting(q)'
      BY <3>1 DEF LoanInv, CollectingInv, Collecting
    <3>3. DisbursedInv' /\ CollectingInv'
      BY <3>1, <3>2 DEF DisbursedInv, CollectingInv
    <3>4. CollectedInv'
      BY <3>1 DEF LoanInv, CollectedInv
    <3> QED
      BY <1>1, <3>3, <3>4 DEF LoanInv
  <2> QED
    BY <2>1, <2>2
<1>7. ASSUME NEW r \in Requests, NEW i \in DOMAIN legs, NEW j \in Journals, Loan!StartRepay(r, i, j)
      PROVE  LoanInv'
  <2>1. /\ loanPc'[r] = "post" /\ loan # "draft"
        /\ loanWork'[r].line = i /\ loanWork'[r].journal = j
        /\ \A q \in Requests \ {r} : loanPc'[q] = loanPc[q] /\ loanWork'[q] = loanWork[q]
        /\ UNCHANGED <<principal, legs, loan, disbursed, paid, repaid>>
    BY <1>1, <1>7 DEF LoanType, Loan!StartRepay, Loan!Goto
  <2> QED
    BY <1>1, <2>1, QuietLoan
<1>8. ASSUME NEW r \in Requests, Loan!PostRepayment(r) PROVE LoanInv'
  <2>1. CASE repaid[loanWork[r].line][loanWork[r].journal] > 0
    BY <1>3, <1>8, <2>1 DEF Loan!PostRepayment
  <2>2. CASE ~(repaid[loanWork[r].line][loanWork[r].journal] > 0)
    <3> DEFINE i == loanWork[r].line
               j == loanWork[r].journal
    <3>1. i \in DOMAIN legs /\ j \in Journals /\ loan # "draft"
      BY <1>8 DEF Loan!PostRepayment, LoanInv, CollectingInv, Collecting
    <3>2. /\ repaid' = [repaid EXCEPT ![i][j] = @ + 1]
          /\ loanPc' = [loanPc EXCEPT ![r] = "mark"]
          /\ UNCHANGED <<principal, legs, loan, loanVersion, disbursed, paid, loanWork>>
      BY <1>8, <2>2 DEF Loan!PostRepayment, Loan!Goto
    <3> HIDE DEF i, j
    <3>3. \A n \in DOMAIN legs, k \in Journals : repaid[n][k] > 0 => repaid'[n][k] > 0
      BY <1>1, <3>1, <3>2 DEF LoanType
    <3>4. repaid'[i][j] > 0
      BY <1>1, <3>1, <3>2 DEF LoanType
    <3>5. /\ loanPc'[r] = "mark"
          /\ \A q \in Requests \ {r} : loanPc'[q] = loanPc[q]
      BY <1>1, <3>2 DEF LoanType
    <3>6. DisbursedInv'
      BY <3>2, <3>5 DEF LoanInv, DisbursedInv
    <3>7. CollectingInv'
      <4> SUFFICES ASSUME NEW q \in Requests, Collecting(q)'
                   PROVE  /\ loan # "draft"
                          /\ loanWork[q].line \in DOMAIN legs /\ loanWork[q].journal \in Journals
                          /\ loanPc'[q] = "mark" => repaid'[loanWork[q].line][loanWork[q].journal] > 0
                          /\ loanPc'[q] \in {"read loan", "set repaid"} => paid = DOMAIN legs
        BY <3>2 DEF CollectingInv
      <4>1. CASE q = r
        BY <3>1, <3>4, <3>5, <4>1 DEF i, j
      <4>2. CASE q # r
        <5>1. loanPc'[q] = loanPc[q] /\ Collecting(q)
          BY <3>5, <4>2 DEF Collecting
        <5> QED
          BY <3>3, <5>1 DEF LoanInv, CollectingInv
      <4> QED
        BY <4>1, <4>2
    <3>8. CollectedInv'
      <4>1. \A n \in paid : n \in DOMAIN legs
        BY <1>1 DEF LoanType
      <4> QED
        BY <3>1, <3>2, <3>3, <4>1 DEF LoanInv, CollectedInv
    <3> QED
      BY <1>1, <3>6, <3>7, <3>8 DEF LoanInv
  <2> QED
    BY <2>1, <2>2
<1>9. ASSUME NEW r \in Requests, Loan!MarkLoanLinePaid(r) PROVE LoanInv'
  <2>1. CASE loanWork[r].line \in paid
    BY <1>3, <1>9, <2>1 DEF Loan!MarkLoanLinePaid
  <2>2. CASE loanWork[r].line \notin paid
    <3> DEFINE i == loanWork[r].line
               j == loanWork[r].journal
    <3>1. i \in DOMAIN legs /\ j \in Journals /\ loan # "draft" /\ repaid[i][j] > 0
      BY <1>9 DEF Loan!MarkLoanLinePaid, LoanInv, CollectingInv, Collecting
    <3>2. /\ paid' = paid \cup {i}
          /\ loanPc' = [loanPc EXCEPT ![r] = "look"]
          /\ UNCHANGED <<principal, legs, loan, loanVersion, disbursed, repaid, loanWork>>
      BY <1>9, <2>2 DEF Loan!MarkLoanLinePaid, Loan!Goto
    <3>3. /\ loanPc'[r] = "look"
          /\ \A q \in Requests \ {r} : loanPc'[q] = loanPc[q]
      BY <1>1, <3>2 DEF LoanType
    <3> HIDE DEF i, j
    <3>4. paid = DOMAIN legs => paid' = DOMAIN legs
      BY <3>1, <3>2
    <3>5. DisbursedInv'
      BY <3>2, <3>3 DEF LoanInv, DisbursedInv
    <3>6. CollectingInv'
      <4> SUFFICES ASSUME NEW q \in Requests, Collecting(q)'
                   PROVE  /\ loan # "draft"
                          /\ loanWork[q].line \in DOMAIN legs /\ loanWork[q].journal \in Journals
                          /\ loanPc'[q] = "mark" => repaid[loanWork[q].line][loanWork[q].journal] > 0
                          /\ loanPc'[q] \in {"read loan", "set repaid"} => paid' = DOMAIN legs
        BY <3>2 DEF CollectingInv
      <4>1. CASE q = r
        BY <3>1, <3>3, <4>1 DEF i, j
      <4>2. CASE q # r
        <5>1. loanPc'[q] = loanPc[q] /\ Collecting(q)
          BY <3>3, <4>2 DEF Collecting
        <5> QED
          BY <3>4, <5>1 DEF LoanInv, CollectingInv
      <4> QED
        BY <4>1, <4>2
    <3>7. CollectedInv'
      BY <3>1, <3>2, <3>4 DEF LoanInv, CollectedInv
    <3> QED
      BY <1>1, <3>5, <3>6, <3>7 DEF LoanInv
  <2> QED
    BY <2>1, <2>2
<1>10. ASSUME NEW r \in Requests, Loan!LookForOpen(r) PROVE LoanInv'
  <2>1. CASE Loan!AllPaid
    <3>1. /\ loanPc'[r] = "read loan" /\ loanPc[r] = "look" /\ loanWork' = loanWork
          /\ paid = DOMAIN legs
          /\ \A q \in Requests \ {r} : loanPc'[q] = loanPc[q] /\ loanWork'[q] = loanWork[q]
          /\ UNCHANGED <<principal, legs, loan, disbursed, paid, repaid>>
      BY <1>1, <1>10, <2>1 DEF LoanType, Loan!LookForOpen, Loan!Goto, Loan!AllPaid, Loan!Lines
    <3>2. /\ loan # "draft" /\ loanWork[r].line \in DOMAIN legs /\ loanWork[r].journal \in Journals
      BY <3>1 DEF LoanInv, CollectingInv, Collecting
    <3> QED
      BY <1>1, <3>1, <3>2, QuietLoan
  <2>2. CASE ~Loan!AllPaid
    BY <1>3, <1>10, <2>2 DEF Loan!LookForOpen
  <2> QED
    BY <2>1, <2>2
<1>11. ASSUME NEW r \in Requests, Loan!ReadLoan(r) PROVE LoanInv'
  <2>1. /\ loanPc'[r] = "set repaid" /\ loanPc[r] = "read loan"
        /\ loanWork' = [loanWork EXCEPT ![r].version = loanVersion]
        /\ \A q \in Requests \ {r} : loanPc'[q] = loanPc[q] /\ loanWork'[q] = loanWork[q]
        /\ UNCHANGED <<principal, legs, loan, disbursed, paid, repaid>>
    BY <1>1, <1>11 DEF LoanType, Loan!ReadLoan, Loan!Goto
  <2>2. loanWork'[r].line = loanWork[r].line /\ loanWork'[r].journal = loanWork[r].journal
    BY <1>1, <2>1 DEF LoanType, LoanWork
  <2>3. /\ loan # "draft" /\ loanWork[r].line \in DOMAIN legs /\ loanWork[r].journal \in Journals
        /\ paid = DOMAIN legs
    BY <2>1 DEF LoanInv, CollectingInv, Collecting
  <2> QED
    BY <1>1, <2>1, <2>2, <2>3, QuietLoan
<1>12. ASSUME NEW r \in Requests, Loan!SetRepaid(r) PROVE LoanInv'
  <2>1. CASE UNCHANGED loan
    BY <1>3, <1>12, <2>1 DEF Loan!SetRepaid, Loan!SetStatus
  <2>2. CASE loan' # loan
    <3>1. /\ loan = "disbursed" /\ loan' = "repaid" /\ paid = DOMAIN legs
          /\ UNCHANGED <<principal, legs, disbursed, paid, repaid>>
          /\ loanPc'[r] = "idle"
          /\ \A q \in Requests \ {r} : loanPc'[q] = loanPc[q] /\ loanWork'[q] = loanWork[q]
      BY <1>1, <1>12, <2>2
      DEF Loan!SetRepaid, Loan!SetStatus, Loan!Finish, Loan!Goto, LoanInv, CollectingInv, Collecting,
          LoanType
    <3>2. DisbursedInv'
      BY <3>1 DEF LoanInv, DisbursedInv
    <3>3. CollectingInv'
      <4> SUFFICES ASSUME NEW q \in Requests, Collecting(q)'
                   PROVE  /\ loan' # "draft"
                          /\ loanWork'[q].line \in DOMAIN legs /\ loanWork'[q].journal \in Journals
                          /\ loanPc'[q] = "mark" => repaid[loanWork'[q].line][loanWork'[q].journal] > 0
                          /\ loanPc'[q] \in {"read loan", "set repaid"} => paid = DOMAIN legs
        BY <3>1 DEF CollectingInv
      <4>1. q # r
        BY <3>1 DEF Collecting
      <4>2. loanPc'[q] = loanPc[q] /\ loanWork'[q] = loanWork[q] /\ Collecting(q)
        BY <3>1, <4>1 DEF Collecting
      <4> QED
        BY <3>1, <4>2 DEF LoanInv, CollectingInv
    <3>4. CollectedInv'
      BY <3>1 DEF LoanInv, CollectedInv
    <3> QED
      BY <1>1, <3>2, <3>3, <3>4 DEF LoanInv
  <2> QED
    BY <2>1, <2>2
<1>13. ASSUME NEW r \in Requests, Loan!Crash(r) PROVE LoanInv'
  BY <1>3, <1>13 DEF Loan!Crash
<1> QED
  BY <1>4, <1>5, <1>6, <1>7, <1>8, <1>9, <1>10, <1>11, <1>12, <1>13 DEF Loan!Next, Loan!Lines

LEMMA LoanSteps == ASSUME LoanInv, [MCNext]_allVars PROVE LoanInv'
<1>1. CASE UNCHANGED loanVars
  BY <1>1 DEF loanVars, LoanInv, LoanType, LoanWork, DisbursedInv, CollectingInv, Collecting, CollectedInv
<1>2. CASE MCNext /\ ~UNCHANGED loanVars
  <2>1. Loan!Next
    BY <1>2
    DEF MCNext, InRows, InSeats, InTill, InPayment, InLoan, InAsset, InSupply, InBank, InReport,
        Loan!Next, Loan!Lines
  <2> QED
    BY <2>1, LoanStep
<1> QED
  BY <1>1, <1>2 DEF allVars

LEMMA LoanIsCollected == ASSUME LoanInv PROVE Loan!RepaidIsCollected
<1> DEFINE entered == {i \in DOMAIN legs : \E j \in Journals : repaid[i][j] > 0}
<1>1. /\ loan # "draft" => disbursed # {}
      /\ paid \subseteq entered
  BY DEF LoanInv, LoanType, DisbursedInv, CollectedInv
<1>2. \A i \in entered : loan # "draft" /\ \A j \in Journals : repaid[i][j] <= 1
  BY DEF LoanInv, LoanType, CollectedInv
<1>3. ASSUME loan = "repaid" PROVE Loan!MapThenSumSet(LAMBDA i : legs[i], entered) = principal
  <2>1. entered = DOMAIN legs
    BY <1>1, <1>3 DEF LoanInv, CollectedInv
  <2>2. Loan!MapThenSumSet(LAMBDA i : legs[i], entered) = SumOf(legs, entered)
    BY LegsAreSum
  <2> QED
    BY <2>1, <2>2 DEF LoanInv, LoanType
<1> QED
  BY <1>1, <1>2, <1>3 DEF Loan!RepaidIsCollected, Loan!Lines

-----------------------------------------------------------------------------
(* Supplier payments: what is paid is what the invoices say. *)

SupplyStates == {"draft", "validated", "part_paid", "paid", "canceled"}
PaymentRow == [ref : Nat, amount : Nat]
Spread == [Supply!Invoices -> Nat]
SupplyWork == [todo : Seq(Supply!Invoices), left : Nat, amount : Nat, gets : Spread, read : Spread,
               twice : BOOLEAN, invoice : Supply!Invoices \cup {0},
               to : SupplyStates \cup {"none"}, version : Nat]

SupplyType ==
  /\ invoice \in [Supply!Invoices -> SupplyStates]
  /\ invoiceVersion \in [Supply!Invoices -> Nat]
  /\ byHand \in [Supply!Invoices -> BOOLEAN]
  /\ allocated \in Spread
  /\ payments \in Seq(PaymentRow)
  /\ nextRef = Len(payments) + 1
  /\ supplyPc \in [Requests -> {"idle", "balance", "number", "insert", "move"}]
  /\ supplyWork \in [Requests -> SupplyWork]

\* The amounts of the payments.
Amounts(paidOut) == [n \in DOMAIN paidOut |-> paidOut[n].amount]

\* What a request has spread over the invoices, and what is left to spread, make up
\* its payment.
SpreadInv == \A r \in Requests :
  /\ supplyPc[r] = "idle" => supplyWork[r] = Supply!NoWork
  /\ supplyPc[r] = "balance" =>
       /\ supplyWork[r].todo # << >>
       /\ SumOf(supplyWork[r].gets, Supply!Invoices) + supplyWork[r].left = supplyWork[r].amount
  /\ supplyPc[r] \in {"number", "insert"} =>
       SumOf(supplyWork[r].gets, Supply!Invoices) = supplyWork[r].amount
  /\ supplyPc[r] = "move" => supplyWork[r].invoice \in Supply!Invoices
                             /\ supplyWork[r].to \in SupplyStates

PaidInv ==
  /\ \A n \in DOMAIN payments : payments[n].ref = n
  /\ SumOf(Amounts(payments), DOMAIN payments) = SumOf(allocated, Supply!Invoices)
  /\ \A i \in Supply!Invoices : ~byHand[i] =>
       invoice[i] = IF allocated[i] >= Gross[i] THEN "paid" ELSE "part_paid"

SupplyInv == SupplyType /\ SpreadInv /\ PaidInv

LEMMA InvoicesAre ==
  /\ IsFiniteSet(Supply!Invoices)
  /\ \A i \in Supply!Invoices : Gross[i] \in Nat
<1>1. Gross \in Seq(Nat \ {0})
  BY SupplyAssumption DEF Supply!ConstantsOK
<1>2. Len(Gross) \in Nat /\ Supply!Invoices = 1 .. Len(Gross)
  BY <1>1 DEF Supply!Invoices
<1> QED
  BY <1>1, <1>2, FirstAreFinite

LEMMA ChargesAre ==
  ASSUME NEW c \in Charges
  PROVE  c.invoices \in Seq(Supply!Invoices) /\ c.invoices # << >> /\ c.amount \in Nat
BY SupplyAssumption DEF Supply!ConstantsOK

LEMMA NothingSpread ==
  /\ Supply!NoWork \in SupplyWork
  /\ SumOf(Supply!NoWork.gets, Supply!Invoices) = 0
<1>1. Supply!NoWork \in SupplyWork
  BY DEF Supply!NoWork, SupplyWork, Spread
<1>2. \A i \in Supply!Invoices : Supply!NoWork.gets[i] = 0
  BY DEF Supply!NoWork
<1>3. SumOf(Supply!NoWork.gets, Supply!Invoices) = 0
  BY <1>2, InvoicesAre, SumZero
<1> QED
  BY <1>1, <1>3

\* The lesser of two numbers, as the module computes it.
LEMMA Lesser ==
  ASSUME NEW a \in Int, NEW b \in Int
  PROVE  /\ Supply!Min({a, b}) \in {a, b}
         /\ Supply!Min({a, b}) <= a /\ Supply!Min({a, b}) <= b
<1> DEFINE Least(x) == x \in {a, b} /\ \A y \in {a, b} : x <= y
<1>1. \E x : Least(x)
  <2>1. CASE a <= b
    BY <2>1
  <2>2. CASE b <= a
    BY <2>2
  <2> QED
    BY <2>1, <2>2
<1>2. Supply!Min({a, b}) = CHOOSE x \in {a, b} : \A y \in {a, b} : x <= y
  BY DEF Supply!Min
<1> QED
  BY <1>1, <1>2

LEMMA SupplyInit == Supply!Init => SupplyInv
<1> SUFFICES ASSUME Supply!Init PROVE SupplyInv
  OBVIOUS
<1>1. /\ invoice = [i \in Supply!Invoices |-> "draft"]
      /\ invoiceVersion = [i \in Supply!Invoices |-> 1]
      /\ byHand = [i \in Supply!Invoices |-> TRUE]
      /\ allocated = [i \in Supply!Invoices |-> 0]
      /\ payments = << >> /\ nextRef = 1
      /\ supplyPc = [r \in Requests |-> "idle"]
      /\ supplyWork = [r \in Requests |-> Supply!NoWork]
  BY DEF Supply!Init
<1>2. << >> \in Seq(PaymentRow) /\ Len(<< >>) = 0 /\ DOMAIN << >> = {}
  OBVIOUS
<1>3. SupplyType
  BY <1>1, <1>2, NothingSpread DEF SupplyType, SupplyStates, Spread
<1>4. SpreadInv
  BY <1>1 DEF SpreadInv
<1>5. SumOf(Amounts(payments), DOMAIN payments) = 0
  <2>1. DOMAIN payments = {}
    BY <1>1, <1>2
  <2> QED
    BY <2>1, SumEmpty
<1>6. SumOf(allocated, Supply!Invoices) = 0
  <2>1. \A i \in Supply!Invoices : allocated[i] = 0
    BY <1>1
  <2> QED
    BY <2>1, InvoicesAre, SumZero
<1>7. PaidInv
  BY <1>1, <1>2, <1>5, <1>6 DEF PaidInv
<1> QED
  BY <1>3, <1>4, <1>7 DEF SupplyInv

\* A step that pays nothing and moves no invoice.
LEMMA QuietSupply ==
  ASSUME SupplyInv,
         UNCHANGED <<invoice, invoiceVersion, byHand, allocated, payments, nextRef>>,
         NEW r \in Requests, NEW label \in {"idle", "balance", "number", "insert", "move"},
         NEW w \in SupplyWork,
         supplyPc' = [supplyPc EXCEPT ![r] = label], supplyWork' = [supplyWork EXCEPT ![r] = w],
         label = "idle" => w = Supply!NoWork,
         label = "balance" => w.todo # << >> /\ SumOf(w.gets, Supply!Invoices) + w.left = w.amount,
         label \in {"number", "insert"} => SumOf(w.gets, Supply!Invoices) = w.amount,
         label = "move" => w.invoice \in Supply!Invoices /\ w.to \in SupplyStates
  PROVE  SupplyInv'
<1>1. SupplyType
  BY DEF SupplyInv
<1>2. SupplyType'
  BY <1>1 DEF SupplyType
<1>3. supplyPc'[r] = label /\ supplyWork'[r] = w
      /\ \A q \in Requests \ {r} : supplyPc'[q] = supplyPc[q] /\ supplyWork'[q] = supplyWork[q]
  BY <1>1 DEF SupplyType
<1>4. SpreadInv'
  <2> SUFFICES ASSUME NEW q \in Requests
               PROVE  /\ supplyPc'[q] = "idle" => supplyWork'[q] = Supply!NoWork
                      /\ supplyPc'[q] = "balance" =>
                           /\ supplyWork'[q].todo # << >>
                           /\ SumOf(supplyWork'[q].gets, Supply!Invoices) + supplyWork'[q].left
                                = supplyWork'[q].amount
                      /\ supplyPc'[q] \in {"number", "insert"} =>
                           SumOf(supplyWork'[q].gets, Supply!Invoices) = supplyWork'[q].amount
                      /\ supplyPc'[q] = "move" => supplyWork'[q].invoice \in Supply!Invoices
                                                  /\ supplyWork'[q].to \in SupplyStates
    BY DEF SpreadInv
  <2>1. CASE q = r
    BY <1>3, <2>1
  <2>2. CASE q # r
    <3>1. supplyPc'[q] = supplyPc[q] /\ supplyWork'[q] = supplyWork[q]
      BY <1>3, <2>2
    <3> QED
      BY <3>1 DEF SupplyInv, SpreadInv
  <2> QED
    BY <2>1, <2>2
<1>5. PaidInv'
  BY DEF SupplyInv, PaidInv, Amounts
<1> QED
  BY <1>2, <1>4, <1>5 DEF SupplyInv

LEMMA FinishSupply ==
  ASSUME SupplyInv, NEW r \in Requests, Supply!Finish(r),
         UNCHANGED <<invoice, invoiceVersion, byHand, allocated, payments, nextRef>>
  PROVE  SupplyInv'
<1>1. supplyPc' = [supplyPc EXCEPT ![r] = "idle"]
      /\ supplyWork' = [supplyWork EXCEPT ![r] = Supply!NoWork]
  BY DEF Supply!Finish, Supply!Goto
<1>2. Supply!NoWork \in SupplyWork
  BY NothingSpread
<1> QED
  BY <1>1, <1>2, QuietSupply

LEMMA RestIs ==
  ASSUME NEW S, NEW s \in Seq(S), s # << >>
  PROVE  Head(s) \in S /\ Tail(s) \in Seq(S) /\ (Len(s) # 1 => Tail(s) # << >>)
<1> DEFINE u == Tail(s)
<1>1. Head(s) \in S /\ u \in Seq(S) /\ Len(u) = Len(s) - 1 /\ Len(s) \in Nat
  OBVIOUS
<1>2. Len(<< >>) = 0
  OBVIOUS
<1> HIDE DEF u
<1>3. u = << >> => Len(u) = 0
  BY <1>2, Zenon
<1>4. u = << >> => Len(s) = 1
  BY <1>1, <1>3
<1> QED
  BY <1>1, <1>4 DEF u

LEMMA StartPayStep ==
  ASSUME SupplyInv, NEW r \in Requests, NEW c \in Charges, Supply!StartPay(r, c)
  PROVE  SupplyInv'
<1> DEFINE w == [supplyWork[r] EXCEPT !.todo = c.invoices, !.left = c.amount, !.amount = c.amount]
<1>1. /\ supplyPc[r] = "idle" /\ supplyPc' = [supplyPc EXCEPT ![r] = "balance"]
      /\ UNCHANGED <<invoice, invoiceVersion, byHand, allocated, payments, nextRef>>
  BY DEF Supply!StartPay, Supply!Goto
<1>2. supplyWork \in [Requests -> SupplyWork] /\ supplyWork[r] = Supply!NoWork
  BY <1>1 DEF SupplyInv, SupplyType, SpreadInv
<1>3. supplyWork' = [supplyWork EXCEPT ![r] = w]
  BY <1>2 DEF Supply!StartPay
<1>4. c.invoices \in Seq(Supply!Invoices) /\ c.invoices # << >> /\ c.amount \in Nat
  BY ChargesAre
<1>5. w \in SupplyWork /\ w.todo = c.invoices /\ w.left = c.amount /\ w.amount = c.amount
      /\ w.gets = Supply!NoWork.gets
  BY <1>2, <1>4 DEF SupplyWork
<1> HIDE DEF w
<1>6. SumOf(w.gets, Supply!Invoices) + w.left = w.amount
  BY <1>4, <1>5, NothingSpread
<1> QED
  BY <1>1, <1>3, <1>4, <1>5, <1>6, QuietSupply

\* One more invoice gets its part.
LEMMA ReadBalanceStep ==
  ASSUME SupplyInv, NEW r \in Requests, Supply!ReadBalance(r)
  PROVE  SupplyInv'
<1> DEFINE I == Supply!Invoices
           work == supplyWork[r]
           i == Head(work.todo)
           balance == Gross[i] - allocated[i]
           takes == Supply!Min({balance, work.left})
           last == Len(work.todo) = 1
           w == [work EXCEPT !.todo = Tail(@), !.left = @ - takes,
                             !.gets[i] = @ + takes, !.read[i] = allocated[i],
                             !.twice = @ \/ (work.gets[i] > 0 /\ takes > 0)]
           refused == balance <= 0 \/ (last /\ takes < work.left)
<1>1. /\ supplyPc[r] = "balance"
      /\ UNCHANGED <<invoice, invoiceVersion, byHand, allocated, payments, nextRef>>
      /\ refused => Supply!Finish(r)
      /\ ~refused => /\ supplyPc' = [supplyPc EXCEPT ![r] = IF last THEN "number" ELSE "balance"]
                     /\ supplyWork' =
                          [supplyWork EXCEPT ![r].todo = Tail(@), ![r].left = @ - takes,
                                             ![r].gets[i] = @ + takes, ![r].read[i] = allocated[i],
                                             ![r].twice = @ \/ (work.gets[i] > 0 /\ takes > 0)]
  BY DEF Supply!ReadBalance, Supply!Goto
<1>2. /\ supplyWork \in [Requests -> SupplyWork] /\ work \in SupplyWork
      /\ work.todo # << >>
      /\ SumOf(work.gets, I) + work.left = work.amount
  BY <1>1 DEF SupplyInv, SupplyType, SpreadInv
<1>3. CASE refused
  BY <1>1, <1>3, FinishSupply
<1>4. CASE ~refused
  <2>1. /\ work.todo \in Seq(I) /\ work.left \in Nat /\ work.amount \in Nat
        /\ work.gets \in [I -> Nat] /\ work.read \in [I -> Nat] /\ work.twice \in BOOLEAN
    BY <1>2 DEF SupplyWork, Spread
  <2>2. i \in I /\ Tail(work.todo) \in Seq(I) /\ (~last => Tail(work.todo) # << >>)
    <3> DEFINE s == work.todo
    <3>1. s \in Seq(I) /\ s # << >>
      BY <1>2, <2>1
    <3> HIDE DEF s, I
    <3> QED
      BY <3>1, RestIs DEF s
  <2>3. balance \in Int /\ balance > 0 /\ allocated[i] \in Nat
    <3>1. Gross[i] \in Nat /\ allocated[i] \in Nat
      BY <2>2, InvoicesAre DEF SupplyInv, SupplyType, Spread
    <3>2. ~(balance <= 0)
      BY <1>4
    <3> QED
      BY <3>1, <3>2
  <2>4. takes \in Nat /\ takes <= work.left /\ (last => takes = work.left)
    <3> DEFINE a == balance
               b == work.left
    <3>0. a \in Int /\ b \in Int
      BY <2>1, <2>3
    <3> HIDE DEF a, b
    <3>1. takes \in {balance, work.left} /\ takes <= balance /\ takes <= work.left
      <4>1. /\ Supply!Min({a, b}) \in {a, b}
            /\ Supply!Min({a, b}) <= a /\ Supply!Min({a, b}) <= b
        BY <3>0, Lesser
      <4> QED
        BY <4>1 DEF a, b
    <3> HIDE DEF balance, work
    <3>2. last => ~(takes < work.left)
      BY <1>4
    <3> HIDE DEF takes, last, work
    <3> QED
      BY <2>1, <2>3, <3>1, <3>2
  <2>5. supplyWork' = [supplyWork EXCEPT ![r] = w]
    <3> HIDE DEF takes
    <3> QED
      BY ZenonT(60), <1>1, <1>2, <1>4
  <2> DEFINE g == work.gets
             h == [g EXCEPT ![i] = @ + takes]
  <2>6. w \in SupplyWork /\ w.todo = Tail(work.todo) /\ w.left = work.left - takes
        /\ w.amount = work.amount /\ w.gets = h
    <3> DEFINE rest == Tail(work.todo)
               left == work.left - takes
               read == [work.read EXCEPT ![i] = allocated[i]]
               twice == work.twice \/ (work.gets[i] > 0 /\ takes > 0)
    <3>1. rest \in Seq(I) /\ left \in Nat /\ twice \in BOOLEAN
          /\ h \in [I -> Nat] /\ read \in [I -> Nat]
      <4> HIDE DEF takes, I, i, work
      <4>5. rest \in Seq(I)
        BY <2>2, Zenon
      <4>6. left \in Nat
        BY <2>1, <2>4
      <4>1. rest \in Seq(I) /\ left \in Nat
        BY <4>5, <4>6
      <4>4. read \in [I -> Nat]
        BY <2>1, <2>2, <2>3
      <4>2. h \in [I -> Nat]
        <5>1. g \in [I -> Nat] /\ i \in I /\ takes \in Nat
          BY <2>1, <2>2, <2>4
        <5> HIDE DEF g
        <5> QED
          BY <5>1
      <4>3. twice \in BOOLEAN
        BY <2>1, Zenon
      <4> QED
        BY <4>1, <4>2, <4>3, <4>4
    <3>2. w = [work EXCEPT !.todo = rest, !.left = left, !.gets = h, !.read = read, !.twice = twice]
      <4> HIDE DEF takes, i
      <4> QED
        BY <1>2, <2>1 DEF SupplyWork
    <3> HIDE DEF rest, left, read, twice, h, g, w, work
    <3> QED
      BY <1>2, <3>1, <3>2 DEF SupplyWork, Spread, I, rest, left
  <2>7. SumOf(h, I) = SumOf(g, I) + takes
    <3> HIDE DEF takes, i, work, I
    <3>1. IsFiniteSet(I) /\ g \in [I -> Nat] /\ i \in I /\ takes \in Nat
      BY <2>1, <2>2, <2>4, InvoicesAre DEF I
    <3> HIDE DEF g
    <3>2. h \in [I -> Nat] /\ h[i] = g[i] + takes /\ \A x \in I \ {i} : h[x] = g[x]
      <4> DEFINE n == g[i] + takes
      <4>1. n \in Nat /\ h = [g EXCEPT ![i] = n]
        BY <3>1
      <4>2. n = g[i] + takes
        OBVIOUS
      <4> HIDE DEF n, h
      <4> QED
        BY <3>1, <4>1, <4>2
    <3> HIDE DEF h
    <3>3. SumOf(h, I) = h[i] + SumOf(h, I \ {i})
      BY <3>1, <3>2, SumStep
    <3>4. SumOf(g, I) = g[i] + SumOf(g, I \ {i})
      BY <3>1, SumStep
    <3>5. IsFiniteSet(I \ {i}) /\ (\A x \in I \ {i} : g[x] \in Int)
      BY <3>1, FS_Subset
    <3>6. SumOf(h, I \ {i}) = SumOf(g, I \ {i}) /\ SumOf(g, I \ {i}) \in Int
      BY <3>2, <3>5, SumSame, SumType
    <3> QED
      BY <3>1, <3>2, <3>3, <3>4, <3>6
  <2>8. SumOf(g, I) \in Nat
    <3>1. I \in SUBSET I /\ \A x \in I : g[x] \in Nat
      BY <2>1
    <3> HIDE DEF g, I
    <3> QED
      BY <3>1, InvoicesAre, SumGrows DEF I
  <2>9. SumOf(w.gets, I) + w.left = w.amount /\ (last => w.left = 0)
    <3> DEFINE m == SumOf(g, I)
               n == SumOf(h, I)
    <3>1. n = m + takes /\ m + work.left = work.amount /\ m \in Nat /\ SumOf(w.gets, I) = n
          /\ w.left = work.left - takes /\ w.amount = work.amount
      BY <1>2, <2>6, <2>7, <2>8
    <3> HIDE DEF m, n, takes, work, w, last
    <3> QED
      BY <2>1, <2>4, <3>1
  <2> HIDE DEF w, h, g
  <2>10. CASE last
    <3>1. supplyPc' = [supplyPc EXCEPT ![r] = "number"]
      BY <1>1, <1>4, <2>10
    <3>2. SumOf(w.gets, I) = w.amount
      <4>1. SumOf(w.gets, I) \in Int
        BY <2>6, <2>7, <2>8, <2>4
      <4> QED
        BY <2>9, <2>10, <4>1
    <3> HIDE DEF last, refused, work, takes
    <3> QED
      BY <1>1, <2>5, <2>6, <3>1, <3>2, QuietSupply
  <2>11. CASE ~last
    <3>1. supplyPc' = [supplyPc EXCEPT ![r] = "balance"]
      BY <1>1, <1>4, <2>11
    <3>2. w.todo # << >>
      BY <2>2, <2>6, <2>11
    <3> HIDE DEF last, refused, work, takes
    <3> QED
      BY <1>1, <2>5, <2>6, <2>9, <3>1, <3>2, QuietSupply
  <2> HIDE DEF last
  <2> QED
    BY <2>10, <2>11, Zenon
<1> QED
  BY <1>3, <1>4

\* One more payment.
LEMMA AmountsAppend ==
  ASSUME NEW paidOut \in Seq(PaymentRow), NEW p \in PaymentRow
  PROVE  /\ Append(paidOut, p) \in Seq(PaymentRow) /\ Len(Append(paidOut, p)) = Len(paidOut) + 1
         /\ DOMAIN Append(paidOut, p) = 1 .. Len(paidOut) + 1
         /\ Append(paidOut, p)[Len(paidOut) + 1] = p
         /\ \A k \in DOMAIN paidOut : Append(paidOut, p)[k] = paidOut[k]
         /\ SumOf(Amounts(Append(paidOut, p)), DOMAIN Append(paidOut, p))
              = SumOf(Amounts(paidOut), DOMAIN paidOut) + p.amount
<1> DEFINE more == Append(paidOut, p)
           n == Len(paidOut)
           f == Amounts(paidOut)
           g == Amounts(more)
<1>1. /\ n \in Nat /\ DOMAIN paidOut = 1 .. n /\ more \in Seq(PaymentRow) /\ Len(more) = n + 1
      /\ DOMAIN more = 1 .. n + 1 /\ more[n + 1] = p
      /\ \A k \in 1 .. n : more[k] = paidOut[k] /\ paidOut[k] \in PaymentRow
  OBVIOUS
<1> HIDE DEF n, more
<1>2. n + 1 \in 1 .. n + 1 /\ (1 .. n + 1) \ {n + 1} = 1 .. n /\ \A k \in 1 .. n : k \in 1 .. n + 1
  BY <1>1
<1>3. g[n + 1] = p.amount /\ p.amount \in Int
  BY <1>1, <1>2 DEF Amounts, PaymentRow
<1>4. \A k \in 1 .. n : g[k] = f[k] /\ f[k] \in Int
  BY <1>1, <1>2 DEF Amounts, PaymentRow
<1>5. \A k \in 1 .. n + 1 : g[k] \in Int
  BY <1>1, <1>3, <1>4
<1> HIDE DEF f, g
<1>6. IsFiniteSet(1 .. n) /\ IsFiniteSet(1 .. n + 1)
  <2>1. n + 1 \in Nat
    BY <1>1
  <2> QED
    BY <1>1, <2>1, FirstAreFinite
<1>7. SumOf(g, 1 .. n + 1) = g[n + 1] + SumOf(g, 1 .. n)
  <2>1. SumOf(g, 1 .. n + 1) = g[n + 1] + SumOf(g, (1 .. n + 1) \ {n + 1})
    BY <1>2, <1>5, <1>6, SumStep
  <2> QED
    BY <1>2, <2>1
<1>8. SumOf(g, 1 .. n) = SumOf(f, 1 .. n) /\ SumOf(f, 1 .. n) \in Int
  BY <1>4, <1>6, SumSame, SumType
<1>9. SumOf(g, 1 .. n + 1) = SumOf(f, 1 .. n) + p.amount
  BY <1>3, <1>7, <1>8
<1> QED
  BY <1>1, <1>9 DEF more, n, f, g

LEMMA CommitPaymentStep ==
  ASSUME SupplyInv, NEW r \in Requests, Supply!CommitPayment(r)
  PROVE  SupplyInv'
<1> DEFINE I == Supply!Invoices
           gets == supplyWork[r].gets
           amount == supplyWork[r].amount
           p == [ref |-> nextRef, amount |-> amount]
           paidNow == {i \in I : gets[i] > 0}
<1>1. /\ supplyPc[r] = "insert"
      /\ payments' = Append(payments, p)
      /\ nextRef' = nextRef + 1
      /\ allocated' = [i \in I |-> allocated[i] + gets[i]]
      /\ invoice' = [i \in I |->
           IF i \notin paidNow THEN invoice[i]
           ELSE IF allocated[i] + gets[i] >= Gross[i] THEN "paid" ELSE "part_paid"]
      /\ byHand' = [i \in I |-> i \notin paidNow /\ byHand[i]]
      /\ invoiceVersion' = invoiceVersion
      /\ supplyPc' = [supplyPc EXCEPT ![r] = "idle"]
      /\ supplyWork' = [supplyWork EXCEPT ![r] = Supply!NoWork]
  BY DEF Supply!CommitPayment, Supply!AllocatedNow, Supply!Finish, Supply!Goto
<1>2. SupplyType
  BY DEF SupplyInv
<1>3. /\ gets \in [I -> Nat] /\ amount \in Nat /\ SumOf(gets, I) = amount
      /\ nextRef \in Nat /\ payments \in Seq(PaymentRow) /\ nextRef = Len(payments) + 1
      /\ allocated \in [I -> Nat]
  <2>1. supplyWork[r] \in SupplyWork /\ payments \in Seq(PaymentRow) /\ nextRef = Len(payments) + 1
        /\ allocated \in [I -> Nat]
    BY <1>2 DEF SupplyType, Spread
  <2>2. gets \in [I -> Nat] /\ amount \in Nat
    BY <2>1 DEF SupplyWork, Spread
  <2>3. SumOf(gets, I) = amount
    BY <1>1 DEF SupplyInv, SpreadInv
  <2>4. nextRef \in Nat
    BY <2>1
  <2> QED
    BY <2>1, <2>2, <2>3, <2>4
<1>4. p \in PaymentRow /\ p.amount = amount /\ p.ref = nextRef
  BY <1>3 DEF PaymentRow
<1> HIDE DEF gets, amount, p
<1>5. /\ payments' \in Seq(PaymentRow) /\ Len(payments') = Len(payments) + 1
      /\ DOMAIN payments' = 1 .. Len(payments) + 1
      /\ payments'[Len(payments) + 1] = p
      /\ \A k \in DOMAIN payments : payments'[k] = payments[k]
      /\ SumOf(Amounts(payments'), DOMAIN payments') = SumOf(Amounts(payments), DOMAIN payments) + amount
  BY <1>1, <1>3, <1>4, AmountsAppend
<1>6. SupplyType'
  <2>1. allocated' \in Spread
    BY <1>1, <1>3 DEF Spread
  <2>2. invoice' \in [I -> SupplyStates]
    BY <1>1, <1>2 DEF SupplyType, SupplyStates
  <2>3. byHand' \in [I -> BOOLEAN]
    BY <1>1, Zenon
  <2>4. supplyPc' \in [Requests -> {"idle", "balance", "number", "insert", "move"}]
        /\ supplyWork' \in [Requests -> SupplyWork]
    BY <1>1, <1>2, NothingSpread DEF SupplyType
  <2>5. nextRef' = Len(payments') + 1
    BY <1>1, <1>3, <1>5
  <2> QED
    BY <1>1, <1>2, <1>5, <2>1, <2>2, <2>3, <2>4, <2>5 DEF SupplyType
<1>7. SpreadInv'
  <2>1. supplyPc'[r] = "idle" /\ supplyWork'[r] = Supply!NoWork
        /\ \A q \in Requests \ {r} : supplyPc'[q] = supplyPc[q] /\ supplyWork'[q] = supplyWork[q]
    BY <1>1, <1>2 DEF SupplyType
  <2> SUFFICES ASSUME NEW q \in Requests
               PROVE  /\ supplyPc'[q] = "idle" => supplyWork'[q] = Supply!NoWork
                      /\ supplyPc'[q] = "balance" =>
                           /\ supplyWork'[q].todo # << >>
                           /\ SumOf(supplyWork'[q].gets, Supply!Invoices) + supplyWork'[q].left
                                = supplyWork'[q].amount
                      /\ supplyPc'[q] \in {"number", "insert"} =>
                           SumOf(supplyWork'[q].gets, Supply!Invoices) = supplyWork'[q].amount
                      /\ supplyPc'[q] = "move" => supplyWork'[q].invoice \in Supply!Invoices
                                                  /\ supplyWork'[q].to \in SupplyStates
    BY DEF SpreadInv
  <2>2. CASE q = r
    BY <2>1, <2>2
  <2>3. CASE q # r
    <3>1. supplyPc'[q] = supplyPc[q] /\ supplyWork'[q] = supplyWork[q]
      BY <2>1, <2>3
    <3> QED
      BY <3>1 DEF SupplyInv, SpreadInv
  <2> QED
    BY <2>2, <2>3
<1>8. SumOf(allocated', I) = SumOf(allocated, I) + amount
  <2>1. \A i \in I : allocated[i] \in Int /\ gets[i] \in Int /\ allocated'[i] = allocated[i] + gets[i]
    BY <1>1, <1>3
  <2> HIDE DEF I
  <2>2. SumOf(allocated', I) = SumOf(allocated, I) + SumOf(gets, I)
    BY <2>1, InvoicesAre, SumPlus DEF I
  <2> QED
    BY <1>3, <2>2
<1>9. PaidInv'
  <2>1. \A n \in DOMAIN payments' : payments'[n].ref = n
    <3> TAKE n \in DOMAIN payments'
    <3>1. CASE n = Len(payments) + 1
      BY <1>3, <1>4, <1>5, <3>1
    <3>2. CASE n # Len(payments) + 1
      <4>1. n \in DOMAIN payments
        <5>1. Len(payments) \in Nat /\ DOMAIN payments = 1 .. Len(payments)
          BY <1>3
        <5> QED
          BY <1>5, <3>2, <5>1
      <4> QED
        BY <1>5, <4>1 DEF SupplyInv, PaidInv
    <3> QED
      BY <3>1, <3>2
  <2>2. SumOf(Amounts(payments'), DOMAIN payments') = SumOf(allocated', I)
    BY <1>5, <1>8 DEF SupplyInv, PaidInv
  <2>3. ASSUME NEW i \in I, ~byHand'[i]
        PROVE  invoice'[i] = IF allocated'[i] >= Gross[i] THEN "paid" ELSE "part_paid"
    <3>1. allocated'[i] = allocated[i] + gets[i] /\ gets[i] \in Nat /\ allocated[i] \in Nat
      BY <1>1, <1>3
    <3>2. CASE i \in paidNow
      BY <1>1, <3>1, <3>2
    <3>3. CASE i \notin paidNow
      <4>1. ~byHand[i] /\ invoice'[i] = invoice[i]
        BY <1>1, <2>3, <3>3
      <4>2. gets[i] = 0
        BY <3>1, <3>3
      <4>3. allocated'[i] = allocated[i]
        BY <3>1, <4>2
      <4> QED
        BY <4>1, <4>3 DEF SupplyInv, PaidInv
    <3> QED
      BY <3>2, <3>3
  <2> QED
    BY <2>1, <2>2, <2>3 DEF PaidInv
<1> QED
  BY <1>6, <1>7, <1>9 DEF SupplyInv

LEMMA WriteMoveStep ==
  ASSUME SupplyInv, NEW r \in Requests, Supply!WriteMove(r)
  PROVE  SupplyInv'
<1> DEFINE i == supplyWork[r].invoice
           to == supplyWork[r].to
<1>1. i \in Supply!Invoices /\ to \in SupplyStates
  BY DEF Supply!WriteMove, SupplyInv, SpreadInv
<1>2. CASE invoiceVersion[i] # supplyWork[r].version
  BY <1>2, FinishSupply DEF Supply!WriteMove
<1>3. CASE invoiceVersion[i] = supplyWork[r].version
  <2>1. /\ invoice' = [invoice EXCEPT ![i] = to]
        /\ invoiceVersion' = [invoiceVersion EXCEPT ![i] = @ + 1]
        /\ byHand' = [byHand EXCEPT ![i] = TRUE]
        /\ supplyPc' = [supplyPc EXCEPT ![r] = "idle"]
        /\ supplyWork' = [supplyWork EXCEPT ![r] = Supply!NoWork]
        /\ UNCHANGED <<allocated, payments, nextRef>>
    BY <1>3 DEF Supply!WriteMove, Supply!Finish, Supply!Goto
  <2> HIDE DEF i, to
  <2>2. SupplyType
    BY DEF SupplyInv
  <2>3. invoiceVersion' \in [Supply!Invoices -> Nat]
    BY <1>1, <2>1, <2>2 DEF SupplyType
  <2>4. byHand' \in [Supply!Invoices -> BOOLEAN] /\ invoice' \in [Supply!Invoices -> SupplyStates]
    BY <1>1, <2>1, <2>2 DEF SupplyType
  <2>5. supplyPc' \in [Requests -> {"idle", "balance", "number", "insert", "move"}]
        /\ supplyWork' \in [Requests -> SupplyWork]
    BY <2>1, <2>2, NothingSpread DEF SupplyType
  <2>6. SupplyType'
    BY <2>1, <2>2, <2>3, <2>4, <2>5 DEF SupplyType
  <2>7. SpreadInv'
    <3>1. supplyPc'[r] = "idle" /\ supplyWork'[r] = Supply!NoWork
          /\ \A q \in Requests \ {r} : supplyPc'[q] = supplyPc[q] /\ supplyWork'[q] = supplyWork[q]
      BY <2>1, <2>2 DEF SupplyType
    <3> SUFFICES ASSUME NEW q \in Requests
                 PROVE  /\ supplyPc'[q] = "idle" => supplyWork'[q] = Supply!NoWork
                        /\ supplyPc'[q] = "balance" =>
                             /\ supplyWork'[q].todo # << >>
                             /\ SumOf(supplyWork'[q].gets, Supply!Invoices) + supplyWork'[q].left
                                  = supplyWork'[q].amount
                        /\ supplyPc'[q] \in {"number", "insert"} =>
                             SumOf(supplyWork'[q].gets, Supply!Invoices) = supplyWork'[q].amount
                        /\ supplyPc'[q] = "move" => supplyWork'[q].invoice \in Supply!Invoices
                                                    /\ supplyWork'[q].to \in SupplyStates
      BY DEF SpreadInv
    <3>2. CASE q = r
      BY <3>1, <3>2
    <3>3. CASE q # r
      <4>1. supplyPc'[q] = supplyPc[q] /\ supplyWork'[q] = supplyWork[q]
        BY <3>1, <3>3
      <4> QED
        BY <4>1 DEF SupplyInv, SpreadInv
    <3> QED
      BY <3>2, <3>3
  <2>8. \A k \in Supply!Invoices : ~byHand'[k] => ~byHand[k] /\ invoice'[k] = invoice[k]
    BY <1>1, <2>1, <2>2 DEF SupplyType
  <2>9. PaidInv'
    BY <2>1, <2>8 DEF SupplyInv, PaidInv, Amounts
  <2> QED
    BY <2>6, <2>7, <2>9 DEF SupplyInv
<1> QED
  BY <1>2, <1>3

LEMMA SupplyStep == ASSUME SupplyInv, Supply!Next PROVE SupplyInv'
<1>1. SupplyType
  BY DEF SupplyInv
<1>2. ASSUME Supply!Restart PROVE SupplyInv'
  <2>1. /\ supplyPc' = [r \in Requests |-> "idle"] /\ supplyWork' = [r \in Requests |-> Supply!NoWork]
        /\ UNCHANGED <<invoice, invoiceVersion, byHand, allocated, payments, nextRef>>
    BY <1>2 DEF Supply!Restart
  <2>2. SupplyType'
    BY <1>1, <2>1, NothingSpread DEF SupplyType
  <2>3. SpreadInv' /\ PaidInv'
    BY <2>1 DEF SupplyInv, SpreadInv, PaidInv, Amounts
  <2> QED
    BY <2>2, <2>3 DEF SupplyInv
<1>3. ASSUME NEW r \in Requests, Supply!TakeNumber(r) PROVE SupplyInv'
  <2> DEFINE w == supplyWork[r]
  <2>1. /\ supplyPc[r] = "number" /\ supplyPc' = [supplyPc EXCEPT ![r] = "insert"]
        /\ UNCHANGED <<invoice, invoiceVersion, byHand, allocated, payments, nextRef, supplyWork>>
    BY <1>3 DEF Supply!TakeNumber, Supply!Goto
  <2>2. w \in SupplyWork /\ supplyWork' = [supplyWork EXCEPT ![r] = w]
        /\ SumOf(w.gets, Supply!Invoices) = w.amount
    BY <1>1, <2>1 DEF SupplyType, SupplyInv, SpreadInv
  <2> HIDE DEF w
  <2> QED
    BY <2>1, <2>2, QuietSupply
<1>4. ASSUME NEW r \in Requests, Supply!FailInsert(r) PROVE SupplyInv'
  BY <1>4, FinishSupply DEF Supply!FailInsert
<1>5. ASSUME NEW r \in Requests, Supply!Abort(r) PROVE SupplyInv'
  BY <1>5, FinishSupply DEF Supply!Abort
<1>6. ASSUME NEW r \in Requests, NEW i \in Supply!Invoices,
             NEW to \in {"validated", "part_paid", "paid", "canceled"}, Supply!StartMove(r, i, to)
      PROVE  SupplyInv'
  <2> DEFINE w == [supplyWork[r] EXCEPT !.invoice = i, !.to = to, !.version = invoiceVersion[i]]
  <2>1. /\ supplyPc[r] = "idle" /\ supplyPc' = [supplyPc EXCEPT ![r] = "move"]
        /\ UNCHANGED <<invoice, invoiceVersion, byHand, allocated, payments, nextRef>>
    BY <1>6 DEF Supply!StartMove, Supply!Goto
  <2>2. supplyWork \in [Requests -> SupplyWork] /\ invoiceVersion[i] \in Nat
    BY <1>1 DEF SupplyType
  <2>3. supplyWork' = [supplyWork EXCEPT ![r] = w]
    BY <1>6, <2>2 DEF Supply!StartMove
  <2>4. w \in SupplyWork /\ w.invoice = i /\ w.to = to /\ to \in SupplyStates
    BY <2>2 DEF SupplyWork, SupplyStates
  <2> HIDE DEF w
  <2> QED
    BY <2>1, <2>3, <2>4, QuietSupply
<1>7. ASSUME NEW r \in Requests, NEW c \in Charges, Supply!StartPay(r, c) PROVE SupplyInv'
  BY <1>7, StartPayStep
<1>8. ASSUME NEW r \in Requests, Supply!ReadBalance(r) PROVE SupplyInv'
  BY <1>8, ReadBalanceStep
<1>9. ASSUME NEW r \in Requests, Supply!CommitPayment(r) PROVE SupplyInv'
  BY <1>9, CommitPaymentStep
<1>10. ASSUME NEW r \in Requests, Supply!WriteMove(r) PROVE SupplyInv'
  BY <1>10, WriteMoveStep
<1> QED
  BY <1>2, <1>3, <1>4, <1>5, <1>6, <1>7, <1>8, <1>9, <1>10 DEF Supply!Next

LEMMA SupplySteps == ASSUME SupplyInv, [MCNext]_allVars PROVE SupplyInv'
<1>1. CASE UNCHANGED supplyVars
  BY <1>1 DEF supplyVars, SupplyInv, SupplyType, SpreadInv, PaidInv
<1>2. CASE MCNext /\ ~UNCHANGED supplyVars
  <2>1. Supply!Next
    BY <1>2
    DEF MCNext, InRows, InSeats, InTill, InPayment, InLoan, InAsset, InSupply, InBank, InReport,
        Supply!Next
  <2> QED
    BY <2>1, SupplyStep
<1> QED
  BY <1>1, <1>2 DEF allVars

\* The amounts of the payments, as the module adds them up.
LEMMA PaymentsAreSum ==
  ASSUME payments \in Seq(PaymentRow)
  PROVE  Supply!MapThenSumSet(LAMBDA n : payments[n].amount, DOMAIN payments)
           = SumOf(Amounts(payments), DOMAIN payments)
<1> DEFINE S == DOMAIN payments
           f == Amounts(payments)
           IsBook(g) == g = [s \in SUBSET S |->
                          IF s = {} THEN 0 ELSE payments[Pick(s)].amount + g[s \ {Pick(s)}]]
           h == CHOOSE g : IsBook(g)
<1>1. IsFiniteSet(S) /\ \A n \in S : f[n] = payments[n].amount /\ f[n] \in Int
  <2>1. Len(payments) \in Nat /\ S = 1 .. Len(payments)
    OBVIOUS
  <2>2. \A n \in S : payments[n] \in PaymentRow
    OBVIOUS
  <2> QED
    BY <2>1, <2>2, FirstAreFinite DEF Amounts, PaymentRow
<1>2. \A s \in SUBSET S : s # {} => Pick(s) \in S
  BY PickIn
<1>3. Supply!MapThenSumSet(LAMBDA n : payments[n].amount, S) = h[S]
  BY DEF Supply!MapThenSumSet, Supply!MapThenFoldSet, Pick
<1> HIDE DEF f, S
<1>4. \E g : IsBook(g)
  <2>1. IsFiniteSet(S) /\ \A n \in S : f[n] \in Int
    BY <1>1
  <2>2. PICK g \in [SUBSET S -> Int] : \A s \in SUBSET S : g[s] = Unfold(f, g, s)
    <3> HIDE DEF IsBook, h
    <3> QED
      BY <2>1, TableExists, Zenon
  <2>3. IsBook(g)
    BY <1>1, <1>2, <2>2 DEF Unfold
  <2> QED
    BY <2>3
<1>5. IsBook(h)
  <2> HIDE DEF IsBook
  <2> QED
    BY <1>4
<1>6. IsTable(h, f, S)
  <2> HIDE DEF h
  <2> QED
    BY <1>1, <1>2, <1>5 DEF IsTable, Unfold
<1> HIDE DEF h
<1>7. h[S] = SumOf(f, S)
  <2>1. \A n \in S : f[n] \in Int
    BY <1>1
  <2> QED
    BY <1>1, <1>6, <2>1, TableIsSum
<1> QED
  BY <1>3, <1>7 DEF S, f

LEMMA AllocationsAreSum ==
  ASSUME NEW f, NEW S
  PROVE  Supply!MapThenSumSet(LAMBDA i : f[i], S) = SumOf(f, S)
BY DEF SumOf, MapThenSumSet, MapThenFoldSet, Supply!MapThenSumSet, Supply!MapThenFoldSet

LEMMA SuppliersGetTheirs == ASSUME SupplyInv PROVE Supply!SuppliersArePaid
<1>1. payments \in Seq(PaymentRow)
  BY DEF SupplyInv, SupplyType
<1>2. Supply!MapThenSumSet(LAMBDA n : payments[n].amount, DOMAIN payments)
        = Supply!MapThenSumSet(LAMBDA i : allocated[i], Supply!Invoices)
  BY <1>1, PaymentsAreSum, AllocationsAreSum DEF SupplyInv, PaidInv
<1> QED
  BY <1>2 DEF Supply!SuppliersArePaid, SupplyInv, PaidInv

-----------------------------------------------------------------------------
(* The depreciation schedule. *)

LEMMA PlanTerms ==
  ASSUME NEW p \in Plans
  PROVE  /\ p.cost \in Nat /\ p.cost > 0 /\ p.periods \in Nat /\ p.periods > 0
         /\ p.method = "linear" \/ (p.method = "degressive" /\ p.rateBps \in Nat)
<1>1. /\ p.cost \in Nat \ {0} /\ p.periods \in Nat \ {0}
      /\ p.method \in {"linear", "degressive"}
      /\ p.method = "degressive" => p.rateBps \in 1 .. Assets!WholeRate
  BY AssetsAssumption DEF Assets!ConstantsOK
<1>2. p.method = "degressive" => p.rateBps \in Nat
  <2>1. Assets!WholeRate \in Nat
    BY SMT DEF Assets!WholeRate
  <2> QED
    BY <1>1, <2>1
<1>3. p.cost \in Nat /\ p.cost > 0 /\ p.periods \in Nat /\ p.periods > 0
  BY <1>1, SMT
<1> QED
  BY <1>1, <1>2, <1>3

LEMMA Divided ==
  ASSUME NEW a \in Nat, NEW b \in Nat, b > 0
  PROVE  /\ a \div b \in Nat /\ b * (a \div b) <= a
         /\ (b - 1) * (a \div b) \in Nat /\ (b - 1) * (a \div b) <= a
<1>1. a \div b \in Nat /\ b * (a \div b) <= a
  BY SMT
<1> DEFINE q == a \div b
<1>2. (b - 1) * q \in Nat /\ b * q = (b - 1) * q + q
  <2>1. q \in Nat
    BY <1>1
  <2> HIDE DEF q
  <2> QED
    BY <2>1, SMT
<1> DEFINE x == b * q
           y == (b - 1) * q
<1>3. x <= a /\ x = y + q /\ q \in Nat /\ y \in Nat
  BY <1>1, <1>2
<1> HIDE DEF x, y, q
<1>4. y <= a
  BY <1>3
<1> QED
  BY <1>1, <1>3, <1>4 DEF x, y, q

\* Equal parts, and the last one takes the rest.
LEMMA LinearSums ==
  ASSUME NEW p \in Plans
  PROVE  /\ Assets!Linear(p) \in [1 .. p.periods -> Nat]
         /\ SumOf(Assets!Linear(p), 1 .. p.periods) = p.cost
<1> DEFINE P == p.periods
           C == p.cost
           base == C \div P
           rest == C - (P - 1) * base
           made == Assets!Linear(p)
<1>1. P \in Nat /\ P > 0 /\ C \in Nat
  BY PlanTerms
<1>2. base \in Nat /\ (P - 1) * base \in Nat /\ (P - 1) * base <= C
  <2> HIDE DEF P, C
  <2> QED
    BY <1>1, Divided
<1>3. made = [i \in 1 .. P |-> IF i = P THEN rest ELSE base]
  BY DEF Assets!Linear
<1> HIDE DEF P, C, base, made
<1> DEFINE k == (P - 1) * base
<1>4. rest = C - k /\ k \in Nat /\ k <= C
  BY <1>2
<1> HIDE DEF k, rest
<1>5. rest \in Nat
  BY <1>1, <1>4
<1>6. /\ made \in [1 .. P -> Nat] /\ made[P] = rest
      /\ \A i \in 1 .. P - 1 : i \in 1 .. P /\ made[i] = base
  BY <1>1, <1>2, <1>3, <1>5
<1>7. P - 1 \in Nat /\ P \in 1 .. P /\ (1 .. P) \ {P} = 1 .. P - 1
  BY <1>1
<1>8. SumOf(made, 1 .. P - 1) = k
  <2>1. SumOf(made, 1 .. P - 1) = (P - 1) * base
    <3> DEFINE m == P - 1
    <3>1. m \in Nat /\ base \in Int /\ \A i \in 1 .. m : made[i] = base
      BY <1>2, <1>6, <1>7
    <3> HIDE DEF m
    <3>2. SumOf(made, 1 .. m) = m * base
      BY <3>1, SumOfEquals
    <3> QED
      BY <3>2 DEF m
  <2> QED
    BY <2>1 DEF k
<1>9. SumOf(made, 1 .. P) = made[P] + SumOf(made, 1 .. P - 1)
  <2>1. IsFiniteSet(1 .. P) /\ \A i \in 1 .. P : made[i] \in Int
    BY <1>1, <1>6, FirstAreFinite
  <2>2. SumOf(made, 1 .. P) = made[P] + SumOf(made, (1 .. P) \ {P})
    BY <1>7, <2>1, SumStep
  <2> QED
    BY <1>7, <2>2
<1>10. SumOf(made, 1 .. P) = C
  BY <1>1, <1>4, <1>6, <1>8, <1>9
<1> QED
  BY <1>6, <1>10 DEF made, P, C

\* The lesser of two numbers, as the module computes it.
LEMMA LesserPart ==
  ASSUME NEW a \in Int, NEW b \in Int
  PROVE  /\ Assets!Min({a, b}) \in {a, b}
         /\ Assets!Min({a, b}) <= a /\ Assets!Min({a, b}) <= b
<1> DEFINE Least(x) == x \in {a, b} /\ \A y \in {a, b} : x <= y
<1>1. \E x : Least(x)
  <2>1. CASE a <= b
    BY <2>1
  <2>2. CASE b <= a
    BY <2>2
  <2> QED
    BY <2>1, <2>2
<1>2. Assets!Min({a, b}) = CHOOSE x \in {a, b} : \A y \in {a, b} : x <= y
  BY DEF Assets!Min
<1> QED
  BY <1>1, <1>2

\* What a period writes off.
Part(x, rate) == (x * rate + 5000) \div 10000

LEMMA PartIs ==
  ASSUME NEW x \in Nat, NEW rate \in Nat
  PROVE  Part(x, rate) \in Nat
<1> DEFINE y == x * rate
<1>1. y \in Nat
  OBVIOUS
<1>2. Part(x, rate) = (y + 5000) \div 10000
  BY SMT DEF Part
<1> HIDE DEF y
<1> QED
  BY <1>1, <1>2, SMT

\* What is left after a period.
Keeps(p, i, x) ==
  IF i = p.periods THEN 0 ELSE x - Assets!Min({x, Part(x, p.rateBps)})

LEMMA KeepsIs ==
  ASSUME NEW p \in Plans, p.rateBps \in Nat, NEW i, NEW x \in Nat
  PROVE  Keeps(p, i, x) \in Nat /\ Keeps(p, i, x) <= x
<1> DEFINE m == Part(x, p.rateBps)
           n == Assets!Min({x, m})
<1>1. m \in Nat
  BY PartIs
<1> HIDE DEF m
<1>2. n \in {x, m} /\ n <= x
  BY SMTT(30), <1>1, LesserPart
<1>3. Keeps(p, i, x) = IF i = p.periods THEN 0 ELSE x - n
  BY DEF Keeps, m
<1> HIDE DEF n
<1> QED
  BY <1>1, <1>2, <1>3

LEMMA RemainingFalls ==
  ASSUME NEW p \in Plans, p.rateBps \in Nat
  PROVE  /\ Assets!Remaining(p) \in [0 .. p.periods -> Nat]
         /\ Assets!Remaining(p)[0] = p.cost /\ Assets!Remaining(p)[p.periods] = 0
         /\ \A i \in 1 .. p.periods : Assets!Remaining(p)[i] <= Assets!Remaining(p)[i - 1]
<1> DEFINE P == p.periods
           G == [i \in Nat |-> [x \in Nat |-> Keeps(p, i, x)]]
           Body(f) == [i \in 0 .. P |-> IF i = 0 THEN p.cost ELSE Keeps(p, i, f[i - 1])]
           Loop(f) == [i \in 0 .. P |->
                         IF i = 0 THEN p.cost
                         ELSE IF i = P THEN 0
                         ELSE f[i - 1] - Assets!Min({f[i - 1], (f[i - 1] * p.rateBps + 5000) \div 10000})]
           left == Assets!Remaining(p)
<1>1. P \in Nat /\ P > 0 /\ p.cost \in Nat
  BY PlanTerms
<1>2. left = CHOOSE f : f = Loop(f)
  BY SMT DEF Assets!Remaining
<1>3. ASSUME NEW f PROVE Loop(f) = Body(f)
  <2>1. \A i \in 0 .. P : Loop(f)[i] = Body(f)[i]
    BY SMT DEF Keeps, Part
  <2>2. Loop(f) = [i \in 0 .. P |-> Loop(f)[i]] /\ Body(f) = [i \in 0 .. P |-> Body(f)[i]]
    BY SMT
  <2> HIDE DEF Loop, Body
  <2> QED
    BY <2>1, <2>2
<1> HIDE DEF Loop
<1>4. G \in [Nat -> [Nat -> Nat]] /\ \A i, x \in Nat : G[i][x] = Keeps(p, i, x)
  BY KeepsIs
<1> HIDE DEF G
<1>5. PICK f : IsChain(f, Nat, p.cost, G, P)
  BY <1>1, <1>4, ChainExists
<1>6. f \in [0 .. P -> Nat] /\ f[0] = p.cost /\ \A i \in 1 .. P : f[i] = G[i][f[i - 1]]
  BY <1>5 DEF IsChain
<1>7. \A i \in 1 .. P : i \in Nat /\ i - 1 \in 0 .. P /\ f[i - 1] \in Nat /\ i # 0
  BY <1>1, <1>6
<1>8. f = Body(f)
  <2>1. \A i \in 0 .. P : f[i] = IF i = 0 THEN p.cost ELSE Keeps(p, i, f[i - 1])
    <3> TAKE i \in 0 .. P
    <3>1. i = 0 \/ i \in 1 .. P
      BY <1>1
    <3> QED
      BY <1>4, <1>6, <1>7, <3>1
  <2> HIDE DEF P
  <2> QED
    BY <1>6, <2>1
<1>9. left = Body(left)
  <2> HIDE DEF Body
  <2>1. \E g : g = Loop(g)
    BY <1>3, <1>8
  <2>2. left = Loop(left)
    <3> HIDE DEF left
    <3> QED
      BY <1>2, <2>1, Zenon
  <2> QED
    BY <1>3, <2>2
<1> HIDE DEF left
<1>10. \A i \in 0 .. P : left[i] = IF i = 0 THEN p.cost ELSE Keeps(p, i, left[i - 1])
  <2> HIDE DEF P
  <2> QED
    BY <1>9
<1>11. left[0] = p.cost /\ \A i \in 1 .. P : left[i] = Keeps(p, i, left[i - 1])
  BY <1>1, <1>7, <1>10
<1> DEFINE H == {m \in Nat : m <= P => left[m] \in Nat}
<1>12. 0 \in H
  BY <1>1, <1>11
<1>13. ASSUME NEW m \in Nat, m \in H PROVE m + 1 \in H
  <2> SUFFICES ASSUME m + 1 <= P PROVE left[m + 1] \in Nat
    OBVIOUS
  <2>1. left[m] \in Nat /\ m + 1 \in 1 .. P /\ m + 1 - 1 = m
    BY <1>1, <1>13
  <2>2. left[m + 1] = Keeps(p, m + 1, left[m])
    BY <1>11, <2>1
  <2> QED
    BY <2>1, <2>2, KeepsIs
<1> HIDE DEF H
<1>14. \A m \in 0 .. P : left[m] \in Nat
  <2>1. \A m \in Nat : m \in H
    BY <1>12, <1>13, NatInSet
  <2> QED
    BY <1>1, <2>1 DEF H
<1>15. left \in [0 .. P -> Nat]
  <2> HIDE DEF P
  <2> QED
    BY <1>9, <1>14
<1>16. left[P] = 0
  <2>1. P \in 1 .. P
    BY <1>1
  <2> QED
    BY <1>11, <2>1 DEF Keeps
<1>17. \A i \in 1 .. P : left[i] <= left[i - 1]
  <2> TAKE i \in 1 .. P
  <2>1. left[i - 1] \in Nat /\ left[i] = Keeps(p, i, left[i - 1])
    BY <1>7, <1>11, <1>14
  <2> QED
    BY <2>1, KeepsIs
<1> QED
  BY <1>11, <1>15, <1>16, <1>17 DEF left

\* The periods of a schedule write off the cost, none of them less than nothing.
LEMMA ScheduleSums ==
  ASSUME NEW p \in Plans
  PROVE  /\ Assets!BuildSchedule(p) \in [1 .. p.periods -> Nat]
         /\ SumOf(Assets!BuildSchedule(p), 1 .. p.periods) = p.cost
<1>1. p.method = "linear" \/ (p.method # "linear" /\ p.rateBps \in Nat)
  BY PlanTerms
<1>2. CASE p.method = "linear"
  BY <1>2, LinearSums DEF Assets!BuildSchedule
<1>3. CASE p.method # "linear" /\ p.rateBps \in Nat
  <2> DEFINE P == p.periods
             left == Assets!Remaining(p)
             made == Assets!BuildSchedule(p)
  <2>1. P \in Nat /\ P > 0 /\ p.cost \in Nat
    BY PlanTerms
  <2>2. /\ left \in [0 .. P -> Nat] /\ left[0] = p.cost /\ left[P] = 0
        /\ \A i \in 1 .. P : left[i] <= left[i - 1]
    BY <1>3, RemainingFalls
  <2>3. made = [i \in 1 .. P |-> left[i - 1] - left[i]]
    BY <1>3 DEF Assets!BuildSchedule
  <2> HIDE DEF P, left, made
  <2>4. \A i \in 1 .. P : made[i] = left[i - 1] - left[i] /\ made[i] \in Nat
    <3> TAKE i \in 1 .. P
    <3>1. i \in 0 .. P /\ i - 1 \in 0 .. P
      BY <2>1
    <3> QED
      BY <2>2, <2>3, <3>1
  <2>5. \A i \in 0 .. P : left[i] \in Int
    BY <2>2
  <2>6. SumOf(made, 1 .. P) = left[0] - left[P]
    BY <2>1, <2>4, <2>5, Telescopes
  <2>7. made \in [1 .. P -> Nat] /\ SumOf(made, 1 .. P) = p.cost
    BY <2>1, <2>2, <2>3, <2>4, <2>6
  <2> QED
    BY <2>7 DEF made, P
<1> QED
  BY <1>1, <1>2, <1>3

LEMMA PartsAreSum ==
  ASSUME NEW f, NEW S
  PROVE  Assets!MapThenSumSet(LAMBDA i : f[i], S) = SumOf(f, S)
BY DEF SumOf, MapThenSumSet, MapThenFoldSet, Assets!MapThenSumSet, Assets!MapThenFoldSet

\* A depreciation schedule, linear or degressive, writes off exactly the cost, and
\* no period writes off less than nothing (assets/depreciation.go:81-140).
THEOREM SchedulesAreExact == Assets!SchedulesSumToCost(Plans)
<1> SUFFICES ASSUME NEW p \in Plans
             PROVE  /\ \A i \in DOMAIN Assets!BuildSchedule(p) : Assets!BuildSchedule(p)[i] >= 0
                    /\ Assets!MapThenSumSet(LAMBDA i : Assets!BuildSchedule(p)[i],
                                            DOMAIN Assets!BuildSchedule(p)) = p.cost
  BY DEF Assets!SchedulesSumToCost
<1> DEFINE made == Assets!BuildSchedule(p)
<1>1. made \in [1 .. p.periods -> Nat] /\ SumOf(made, 1 .. p.periods) = p.cost
  BY ScheduleSums
<1>2. Assets!MapThenSumSet(LAMBDA i : made[i], DOMAIN made) = SumOf(made, DOMAIN made)
  BY PartsAreSum
<1>3. DOMAIN made = 1 .. p.periods /\ \A i \in DOMAIN made : made[i] >= 0
  <2> HIDE DEF made
  <2> QED
    BY <1>1
<1> QED
  BY <1>1, <1>2, <1>3

-----------------------------------------------------------------------------
(* Depreciation: what the schedule says is in the ledger. *)

AssetLabels == {"idle", "post entry", "mark", "post disposal", "retire"}
AssetWork == [ref : Nat, journal : Journals \cup {"none"}, amount : Nat, version : Nat,
              posts : BOOLEAN]

AssetType ==
  /\ cost \in Nat /\ Len(plan) \in Nat /\ plan \in [1 .. Len(plan) -> Nat]
  /\ asset.status \in {"in_service", "maintenance", "retired"} /\ asset.version \in Nat
  /\ planPc \in [Requests -> AssetLabels]
  /\ planWork \in [Requests -> AssetWork]

\* The periods that are posted are the first ones, and add up to what has accumulated.
PostedInv ==
  /\ SumOf(plan, 1 .. Len(plan)) = cost
  /\ posted \in 0 .. Len(plan) /\ planVersion = posted + 1
  /\ accumulated = SumOf(plan, 1 .. posted)

\* A period that is posted has one entry, of its amount, or was skipped; the entry
\* of a disposal is there only when the asset is retired.
EntriesInv ==
  /\ skipped \subseteq 1 .. posted
  /\ \A e \in book : e.ref # 0 => e.ref \in 1 .. posted /\ e.amount = plan[e.ref]
  /\ \A e, f \in book : e.ref = f.ref => e = f
  /\ \A i \in 1 .. posted : i \notin skipped => \E e \in book : e.ref = i
  /\ \A e \in book : e.ref \notin skipped
  /\ \A e \in book : e.ref = 0 => asset.status = "retired"

\* A request posts a period it has seen to be next, and its version of the schedule
\* is not later than that.
Posting(r) == planPc[r] \in {"post entry", "mark"}
Disposing(r) == planPc[r] \in {"post disposal", "retire"}

PostingInv == \A r \in Requests : Posting(r) =>
  /\ planWork[r].ref \in 1 .. Len(plan) /\ planWork[r].ref <= posted + 1
  /\ planWork[r].version <= planWork[r].ref
  /\ planWork[r].amount = plan[planWork[r].ref]

DisposingInv == \A r \in Requests : Disposing(r) => planWork[r].ref = 0

AssetInv == AssetType /\ PostedInv /\ EntriesInv /\ PostingInv /\ DisposingInv

LEMMA AssetInit == Assets!Init => AssetInv
<1> SUFFICES ASSUME Assets!Init PROVE AssetInv
  OBVIOUS
<1>1. PICK p \in Plans : cost = p.cost /\ plan = Assets!BuildSchedule(p)
  BY DEF Assets!Init
<1>2. p.cost \in Nat /\ p.periods \in Nat
  BY PlanTerms
<1>3. plan \in [1 .. p.periods -> Nat] /\ SumOf(plan, 1 .. p.periods) = cost
  BY <1>1, ScheduleSums
<1>4. Len(plan) = p.periods
  <2> DEFINE n == p.periods
  <2>1. n \in Nat /\ DOMAIN plan = 1 .. n
    BY <1>2, <1>3
  <2> HIDE DEF n
  <2>2. Len(plan) = n
    BY <2>1, SMT
  <2> QED
    BY <2>2 DEF n
<1>5. /\ posted = 0 /\ accumulated = 0 /\ planVersion = 1
      /\ asset = [status |-> "in_service", version |-> 1]
      /\ book = {} /\ skipped = {}
      /\ planPc = [r \in Requests |-> "idle"]
      /\ planWork = [r \in Requests |-> [ref |-> 0, journal |-> "none", amount |-> 0,
                                         version |-> 0, posts |-> FALSE]]
  BY DEF Assets!Init, Assets!NoWork
<1>6. AssetType
  <2>1. planWork \in [Requests -> AssetWork]
    BY <1>5 DEF AssetWork
  <2> QED
    BY <1>1, <1>2, <1>3, <1>4, <1>5, <2>1 DEF AssetType, AssetLabels
<1>7. PostedInv
  <2>1. 1 .. 0 = {} /\ 0 \in 0 .. Len(plan)
    BY <1>2, <1>4
  <2> QED
    BY <1>3, <1>4, <1>5, <2>1, SumEmpty DEF PostedInv
<1>8. EntriesInv /\ PostingInv /\ DisposingInv
  BY <1>5 DEF EntriesInv, PostingInv, DisposingInv, Posting, Disposing
<1> QED
  BY <1>6, <1>7, <1>8 DEF AssetInv

\* A step that changes neither the schedule nor the ledger.
LEMMA QuietAsset ==
  ASSUME AssetInv, AssetType',
         UNCHANGED <<cost, plan, posted, accumulated, planVersion, book, skipped>>,
         asset.status = "retired" => asset'.status = "retired",
         NEW r \in Requests,
         \A q \in Requests \ {r} : planPc'[q] = planPc[q] /\ planWork'[q] = planWork[q],
         Posting(r)' =>
           /\ planWork'[r].ref \in 1 .. Len(plan) /\ planWork'[r].ref <= posted + 1
           /\ planWork'[r].version <= planWork'[r].ref
           /\ planWork'[r].amount = plan[planWork'[r].ref],
         Disposing(r)' => planWork'[r].ref = 0
  PROVE  AssetInv'
<1>1. PostedInv'
  BY DEF AssetInv, PostedInv
<1>2. EntriesInv'
  BY DEF AssetInv, EntriesInv
<1>3. \A q \in Requests \ {r} : (Posting(q)' <=> Posting(q)) /\ (Disposing(q)' <=> Disposing(q))
  BY DEF Posting, Disposing
<1>4. PostingInv'
  <2> SUFFICES ASSUME NEW q \in Requests, Posting(q)'
               PROVE  /\ planWork'[q].ref \in 1 .. Len(plan) /\ planWork'[q].ref <= posted + 1
                      /\ planWork'[q].version <= planWork'[q].ref
                      /\ planWork'[q].amount = plan[planWork'[q].ref]
    BY DEF PostingInv
  <2>1. CASE q = r
    BY <2>1
  <2>2. CASE q # r
    BY <1>3, <2>2 DEF AssetInv, PostingInv
  <2> QED
    BY <2>1, <2>2
<1>5. DisposingInv'
  BY <1>3 DEF AssetInv, DisposingInv
<1> QED
  BY <1>1, <1>2, <1>4, <1>5 DEF AssetInv

\* A transaction that ends without a change.
LEMMA FinishAsset ==
  ASSUME AssetInv, NEW r \in Requests, Assets!Finish(r),
         UNCHANGED <<cost, plan, posted, accumulated, planVersion, asset, book, skipped>>
  PROVE  AssetInv'
<1>1. Assets!NoWork \in AssetWork
  BY DEF AssetWork, Assets!NoWork
<1>2. /\ planPc' = [planPc EXCEPT ![r] = "idle"]
      /\ planWork' = [planWork EXCEPT ![r] = Assets!NoWork]
  BY DEF Assets!Finish, Assets!Goto
<1>3. AssetType'
  BY <1>1, <1>2 DEF AssetInv, AssetType, AssetLabels
<1>4. /\ planPc'[r] = "idle"
      /\ \A q \in Requests \ {r} : planPc'[q] = planPc[q] /\ planWork'[q] = planWork[q]
  BY <1>2 DEF AssetInv, AssetType
<1> QED
  BY <1>3, <1>4, QuietAsset DEF Posting, Disposing

LEMMA StartPostStep ==
  ASSUME AssetInv, NEW r \in Requests, NEW j \in Journals, NEW v \in 1 .. planVersion,
         Assets!StartPost(r, j, v)
  PROVE  AssetInv'
<1> DEFINE new == [ref |-> posted + 1, journal |-> j, amount |-> plan[posted + 1],
                   version |-> v, posts |-> FALSE]
<1>1. /\ planPc' = [planPc EXCEPT ![r] = "post entry"]
      /\ planWork' = [planWork EXCEPT ![r] = new]
      /\ posted # Len(plan)
      /\ UNCHANGED <<cost, plan, posted, accumulated, planVersion, asset, book, skipped>>
  BY DEF Assets!StartPost, Assets!Goto, Assets!Done, Assets!rowVars
<1>2. /\ posted + 1 \in 1 .. Len(plan) /\ posted + 1 \in Nat /\ v \in Nat /\ v <= posted + 1
      /\ plan[posted + 1] \in Nat
  <2> HIDE DEF new
  <2>1. Len(plan) \in Nat /\ plan \in [1 .. Len(plan) -> Nat]
    BY DEF AssetInv, AssetType
  <2>2. posted \in 0 .. Len(plan) /\ planVersion = posted + 1 /\ posted # Len(plan)
    BY <1>1 DEF AssetInv, PostedInv
  <2> DEFINE n == Len(plan)
  <2>3. n \in Nat /\ posted \in 0 .. n /\ posted # n /\ v \in 1 .. posted + 1
    BY <2>1, <2>2
  <2> HIDE DEF n
  <2>4. posted + 1 \in 1 .. n /\ posted + 1 \in Nat /\ v \in Nat /\ v <= posted + 1
    BY <2>3
  <2> QED
    BY <2>1, <2>4 DEF n
<1>3. /\ new \in AssetWork /\ new.ref = posted + 1 /\ new.version = v
      /\ new.amount = plan[posted + 1]
  BY <1>2 DEF AssetWork
<1> HIDE DEF new
<1>4. AssetType'
  BY <1>1, <1>3 DEF AssetInv, AssetType, AssetLabels
<1>5. /\ planPc'[r] = "post entry" /\ planWork'[r] = new
      /\ \A q \in Requests \ {r} : planPc'[q] = planPc[q] /\ planWork'[q] = planWork[q]
  BY <1>1 DEF AssetInv, AssetType
<1>6. ~Disposing(r)'
  BY <1>5 DEF Disposing
<1>7. posted + 1 <= posted + 1
  BY <1>2
<1> QED
  BY <1>1, <1>2, <1>3, <1>4, <1>5, <1>6, <1>7, QuietAsset

LEMMA StartDisposeStep ==
  ASSUME AssetInv, NEW r \in Requests, NEW j \in Journals, Assets!StartDispose(r, j)
  PROVE  AssetInv'
<1> DEFINE new == [ref |-> 0, journal |-> j, amount |-> accumulated,
                   version |-> asset.version, posts |-> FALSE]
<1>1. /\ planPc' = [planPc EXCEPT ![r] = "post disposal"]
      /\ planWork' = [planWork EXCEPT ![r] = new]
      /\ UNCHANGED <<cost, plan, posted, accumulated, planVersion, asset, book, skipped>>
  BY DEF Assets!StartDispose, Assets!Goto, Assets!Disposal, Assets!rowVars
<1>2. accumulated \in Nat
  <2> DEFINE n == Len(plan)
             S == 1 .. n
             T == 1 .. posted
  <2>1. T \in SUBSET S /\ n \in Nat
    BY DEF AssetInv, AssetType, PostedInv
  <2>2. IsFiniteSet(S) /\ \A i \in S : plan[i] \in Nat
    BY <2>1, FirstAreFinite DEF AssetInv, AssetType
  <2>3. accumulated = SumOf(plan, T)
    BY DEF AssetInv, PostedInv
  <2> HIDE DEF S, T, n
  <2> QED
    BY <2>1, <2>2, <2>3, SumGrows
<1>3. new \in AssetWork /\ new.ref = 0
  BY <1>2 DEF AssetWork, AssetInv, AssetType
<1> HIDE DEF new
<1>4. AssetType'
  BY <1>1, <1>3 DEF AssetInv, AssetType, AssetLabels
<1>5. /\ planPc'[r] = "post disposal" /\ planWork'[r] = new
      /\ \A q \in Requests \ {r} : planPc'[q] = planPc[q] /\ planWork'[q] = planWork[q]
  BY <1>1 DEF AssetInv, AssetType
<1>6. ~Posting(r)'
  BY <1>5 DEF Posting
<1> QED
  BY <1>1, <1>3, <1>4, <1>5, <1>6, QuietAsset

\* With the chain lock the request knows whether it will write an entry.
LEMMA PostEntryStep ==
  ASSUME AssetInv, NEW r \in Requests, NEW next \in AssetLabels, Assets!PostEntry(r, next),
         next = "mark" => planPc[r] = "post entry",
         next = "retire" => planPc[r] = "post disposal",
         next \in {"mark", "retire"}
  PROVE  AssetInv'
<1>0. UNCHANGED <<cost, plan, posted, accumulated, planVersion, asset, book, skipped>>
  BY DEF Assets!PostEntry, Assets!rowVars
<1>1. CASE Assets!Finish(r)
  BY <1>0, <1>1, FinishAsset
<1>2. CASE ~Assets!Finish(r)
  <2>1. /\ planPc' = [planPc EXCEPT ![r] = next]
        /\ planWork' = [planWork EXCEPT ![r].posts = ~locked]
    BY <1>2 DEF Assets!PostEntry, Assets!Goto
  <2> DEFINE will == ~locked
             new == [planWork[r] EXCEPT !.posts = will]
  <2>2. planWork[r] \in AssetWork /\ will \in BOOLEAN
    BY DEF AssetInv, AssetType
  <2>3. planWork' = [planWork EXCEPT ![r] = new]
    BY <2>1
  <2> HIDE DEF will
  <2>4. /\ new \in AssetWork /\ new.ref = planWork[r].ref /\ new.version = planWork[r].version
        /\ new.amount = planWork[r].amount
    BY <2>2 DEF AssetWork
  <2> HIDE DEF new
  <2>5. AssetType'
    BY <1>0, <2>1, <2>3, <2>4 DEF AssetInv, AssetType, AssetLabels
  <2>6. /\ planPc'[r] = next /\ planWork'[r] = new
        /\ \A q \in Requests \ {r} : planPc'[q] = planPc[q] /\ planWork'[q] = planWork[q]
    BY <2>1, <2>3 DEF AssetInv, AssetType
  <2>7. Posting(r)' => Posting(r)
    BY <2>6 DEF Posting
  <2>8. Disposing(r)' => Disposing(r)
    BY <2>6 DEF Disposing
  <2>9. Posting(r)' =>
           /\ new.ref \in 1 .. Len(plan) /\ new.ref <= posted + 1
           /\ new.version <= new.ref
           /\ new.amount = plan[new.ref]
    BY <2>4, <2>7 DEF AssetInv, PostingInv
  <2>10. Disposing(r)' => new.ref = 0
    BY <2>4, <2>8 DEF AssetInv, DisposingInv
  <2> QED
    BY <1>0, <2>5, <2>6, <2>9, <2>10, QuietAsset
<1> QED
  BY <1>1, <1>2

\* The next period is posted: it had no entry, and has one now unless it is skipped.
LEMMA MarkPostedStep ==
  ASSUME AssetInv, NEW r \in Requests, Assets!MarkSchedulePosted(r)
  PROVE  AssetInv'
<1> DEFINE w == planWork[r]
           n == Len(plan)
           m == posted + 1
           e0 == [ref |-> w.ref, journal |-> w.journal, amount |-> w.amount]
           moves == Assets!SameSchedule(r) /\ ~Assets!Done /\ accumulated + w.amount <= cost
<1>0. planPc[r] = "mark" /\ Assets!Finish(r) /\ UNCHANGED <<cost, plan, asset, locked>>
  BY DEF Assets!MarkSchedulePosted
<1>1. CASE ~moves
  BY <1>0, <1>1, FinishAsset DEF Assets!MarkSchedulePosted
<1>2. CASE moves
  <2>1. /\ planVersion = w.version /\ posted # n
        /\ posted' = m /\ accumulated' = accumulated + w.amount /\ planVersion' = planVersion + 1
        /\ book' = (IF w.posts THEN book \cup {e0} ELSE book)
        /\ skipped' = (IF w.posts THEN skipped ELSE skipped \cup {m})
    BY <1>2 DEF Assets!MarkSchedulePosted, Assets!SameSchedule, Assets!Done, Assets!Posted
  <2> HIDE DEF moves
  <2>2. /\ w.ref \in 1 .. n /\ w.ref <= m /\ w.version <= w.ref /\ w.amount = plan[w.ref]
    BY <1>0 DEF AssetInv, PostingInv, Posting
  <2>3. /\ n \in Nat /\ posted \in 0 .. n /\ planVersion = m
        /\ accumulated = SumOf(plan, 1 .. posted) /\ SumOf(plan, 1 .. n) = cost
        /\ plan \in [1 .. n -> Nat]
    BY DEF AssetInv, AssetType, PostedInv
  <2>4. w.ref = m /\ m \in 1 .. n /\ posted' \in 0 .. n /\ planVersion' = posted' + 1
    <3> DEFINE k == w.ref
    <3>1. /\ k \in 1 .. n /\ k <= posted + 1 /\ posted + 1 <= k
          /\ n \in Nat /\ posted \in 0 .. n /\ posted # n
          /\ posted' = posted + 1 /\ planVersion' = posted + 1 + 1
      BY <2>1, <2>2, <2>3
    <3> HIDE DEF k, n
    <3>2. k = posted + 1 /\ posted + 1 \in 1 .. n /\ posted' \in 0 .. n /\ planVersion' = posted' + 1
      BY <3>1
    <3> QED
      BY <3>2 DEF k
  <2>5. accumulated' = SumOf(plan, 1 .. posted')
    <3> HIDE DEF w, n
    <3>1. m \in Nat /\ m \in 1 .. m /\ (1 .. m) \ {m} = 1 .. posted /\ 1 .. m \subseteq 1 .. n
      BY <2>3, <2>4
    <3>2. IsFiniteSet(1 .. m) /\ \A i \in 1 .. m : plan[i] \in Int
      BY <2>3, <3>1, FirstAreFinite
    <3> DEFINE S == 1 .. m
    <3>3. SumOf(plan, S) = plan[m] + SumOf(plan, S \ {m})
      <4> HIDE DEF S, m
      <4>1. m \in S /\ IsFiniteSet(S) /\ \A i \in S : plan[i] \in Int
        BY <3>1, <3>2 DEF S
      <4> QED
        BY <4>1, SumStep
    <3>4. S \ {m} = 1 .. posted /\ posted' = m /\ plan[m] = w.amount
      BY <2>1, <2>2, <2>4, <3>1
    <3>5. plan[m] \in Int /\ SumOf(plan, 1 .. posted) \in Int
      <4>1. IsFiniteSet(1 .. posted) /\ \A i \in 1 .. posted : plan[i] \in Int
        BY <2>3, FirstAreFinite
      <4>2. plan[m] \in Int
        BY <3>1, <3>2
      <4> QED
        BY <4>1, <4>2, SumType
    <3> DEFINE x == plan[m]
               y == SumOf(plan, 1 .. posted)
    <3>6. /\ accumulated' = accumulated + x /\ accumulated = y /\ x \in Int /\ y \in Int
          /\ SumOf(plan, 1 .. posted') = x + y
      <4>1. accumulated' = accumulated + x
        BY <2>1, <3>4
      <4>2. SumOf(plan, 1 .. posted') = x + y
        BY <3>3, <3>4
      <4> QED
        BY <2>3, <3>5, <4>1, <4>2
    <3> HIDE DEF x, y
    <3> QED
      BY <3>6
  <2>6. PostedInv'
    BY <1>0, <2>3, <2>4, <2>5 DEF PostedInv
  <2>7. /\ planPc' = [planPc EXCEPT ![r] = "idle"]
        /\ planWork' = [planWork EXCEPT ![r] = Assets!NoWork]
    BY <1>0 DEF Assets!Finish, Assets!Goto
  <2>8. Assets!NoWork \in AssetWork
    BY DEF AssetWork, Assets!NoWork
  <2>9. AssetType'
    BY <1>0, <2>7, <2>8 DEF AssetInv, AssetType, AssetLabels
  <2>10. /\ planPc'[r] = "idle"
         /\ \A q \in Requests \ {r} : planPc'[q] = planPc[q] /\ planWork'[q] = planWork[q]
    BY <2>7 DEF AssetInv, AssetType
  <2>11. \A q \in Requests : /\ Posting(q)' => Posting(q) /\ planWork'[q] = planWork[q]
                             /\ Disposing(q)' => Disposing(q) /\ planWork'[q] = planWork[q]
    BY <2>10 DEF Posting, Disposing
  <2>12. DisposingInv'
    BY <2>11 DEF AssetInv, DisposingInv
  <2>13. PostingInv'
    <3> SUFFICES ASSUME NEW q \in Requests, Posting(q)'
                 PROVE  /\ planWork'[q].ref \in 1 .. Len(plan) /\ planWork'[q].ref <= posted' + 1
                        /\ planWork'[q].version <= planWork'[q].ref
                        /\ planWork'[q].amount = plan[planWork'[q].ref]
      BY <1>0 DEF PostingInv
    <3> DEFINE u == planWork[q]
    <3>1. /\ u.ref \in 1 .. n /\ u.ref <= m /\ u.version <= u.ref /\ u.amount = plan[u.ref]
          /\ planWork'[q] = u
      BY <2>11 DEF AssetInv, PostingInv
    <3>2. u.ref <= posted' + 1
      <4> DEFINE k == u.ref
      <4>0. k \in 1 .. n /\ k <= posted + 1
        BY <3>1
      <4>1. posted' = posted + 1 /\ posted \in 0 .. n /\ n \in Nat
        BY <2>1, <2>3
      <4> HIDE DEF k, n
      <4>2. k <= posted' + 1
        BY <4>0, <4>1
      <4> QED
        BY <4>2 DEF k
    <3> HIDE DEF u, w
    <3> QED
      BY <3>1, <3>2
  <2>14. EntriesInv'
    <3>1. /\ skipped \subseteq 1 .. posted
          /\ \A e \in book : e.ref # 0 => e.ref \in 1 .. posted /\ e.amount = plan[e.ref]
          /\ \A e, f \in book : e.ref = f.ref => e = f
          /\ \A i \in 1 .. posted : i \notin skipped => \E e \in book : e.ref = i
          /\ \A e \in book : e.ref \notin skipped
          /\ \A e \in book : e.ref = 0 => asset.status = "retired"
      BY DEF AssetInv, EntriesInv
    <3>2. 1 .. posted' = (1 .. posted) \cup {m} /\ m \notin 1 .. posted /\ m # 0
      <4> HIDE DEF w, n
      <4> QED
        BY <2>1, <2>3
    <3>3. e0.ref = m /\ e0.amount = plan[m]
      BY <2>2, <2>4
    <3> HIDE DEF e0
    <3>4. \A e \in book : e.ref # m
      BY <3>1, <3>2
    <3> HIDE DEF m
    <3>5. CASE w.posts
      <4>1. book' = book \cup {e0} /\ skipped' = skipped
        BY <2>1, <3>5
      <4>2. skipped' \subseteq 1 .. posted'
        BY <3>1, <3>2, <4>1
      <4>3. \A e \in book' : e.ref # 0 => e.ref \in 1 .. posted' /\ e.amount = plan[e.ref]
        BY <3>1, <3>2, <3>3, <4>1
      <4>4. \A e, f \in book' : e.ref = f.ref => e = f
        BY <3>1, <3>3, <3>4, <4>1
      <4>5. \A i \in 1 .. posted' : i \notin skipped' => \E e \in book' : e.ref = i
        BY <3>1, <3>2, <3>3, <4>1
      <4>6. \A e \in book' : e.ref \notin skipped'
        BY <3>1, <3>2, <3>3, <4>1
      <4>7. \A e \in book' : e.ref = 0 => asset'.status = "retired"
        BY <1>0, <3>1, <3>2, <3>3, <4>1
      <4> QED
        BY <1>0, <4>2, <4>3, <4>4, <4>5, <4>6, <4>7 DEF EntriesInv
    <3>6. CASE ~w.posts
      <4>1. book' = book /\ skipped' = skipped \cup {m}
        BY <2>1, <3>6
      <4>2. skipped' \subseteq 1 .. posted'
        BY <3>1, <3>2, <4>1
      <4>3. \A e \in book' : e.ref # 0 => e.ref \in 1 .. posted' /\ e.amount = plan[e.ref]
        BY <3>1, <3>2, <4>1
      <4>4. \A e, f \in book' : e.ref = f.ref => e = f
        BY <3>1, <4>1
      <4>5. \A i \in 1 .. posted' : i \notin skipped' => \E e \in book' : e.ref = i
        BY <3>1, <3>2, <4>1
      <4>6. \A e \in book' : e.ref \notin skipped'
        BY <3>1, <3>4, <4>1
      <4>7. \A e \in book' : e.ref = 0 => asset'.status = "retired"
        BY <1>0, <3>1, <4>1
      <4> QED
        BY <1>0, <4>2, <4>3, <4>4, <4>5, <4>6, <4>7 DEF EntriesInv
    <3> QED
      BY <3>5, <3>6
  <2> QED
    BY <2>6, <2>9, <2>12, <2>13, <2>14 DEF AssetInv
<1> QED
  BY <1>1, <1>2

\* An asset is retired once, with the one entry of its disposal.
LEMMA RetireStep ==
  ASSUME AssetInv, NEW r \in Requests, Assets!Retire(r)
  PROVE  AssetInv'
<1> DEFINE w == planWork[r]
           e0 == [ref |-> w.ref, journal |-> w.journal, amount |-> w.amount]
           moves == asset.version = w.version /\ asset.status # "retired"
<1>0. /\ planPc[r] = "retire" /\ Assets!Finish(r)
      /\ UNCHANGED <<cost, plan, posted, accumulated, planVersion, locked, skipped>>
  BY DEF Assets!Retire
<1>1. CASE ~moves
  BY <1>0, <1>1, FinishAsset DEF Assets!Retire
<1>2. CASE moves
  <2>1. /\ asset' = [status |-> "retired", version |-> asset.version + 1]
        /\ asset.status # "retired"
        /\ book' = (IF w.posts THEN book \cup {e0} ELSE book)
    BY <1>2 DEF Assets!Retire, Assets!Posted
  <2>2. w.ref = 0
    BY <1>0 DEF AssetInv, DisposingInv, Disposing
  <2>3. /\ planPc' = [planPc EXCEPT ![r] = "idle"]
        /\ planWork' = [planWork EXCEPT ![r] = Assets!NoWork]
    BY <1>0 DEF Assets!Finish, Assets!Goto
  <2>4. Assets!NoWork \in AssetWork
    BY DEF AssetWork, Assets!NoWork
  <2>5. AssetType'
    <3>1. asset'.status = "retired" /\ asset'.version \in Nat
      BY <2>1 DEF AssetInv, AssetType
    <3>2. planPc' \in [Requests -> AssetLabels] /\ planWork' \in [Requests -> AssetWork]
      BY <2>3, <2>4 DEF AssetInv, AssetType, AssetLabels
    <3> QED
      BY <1>0, <3>1, <3>2 DEF AssetInv, AssetType
  <2>6. /\ planPc'[r] = "idle"
        /\ \A q \in Requests \ {r} : planPc'[q] = planPc[q] /\ planWork'[q] = planWork[q]
    BY <2>3 DEF AssetInv, AssetType
  <2>7. \A q \in Requests : /\ Posting(q)' => Posting(q) /\ planWork'[q] = planWork[q]
                            /\ Disposing(q)' => Disposing(q) /\ planWork'[q] = planWork[q]
    BY <2>6 DEF Posting, Disposing
  <2>8. PostedInv' /\ PostingInv' /\ DisposingInv'
    BY <1>0, <2>7 DEF AssetInv, PostedInv, PostingInv, DisposingInv
  <2>9. EntriesInv'
    <3>1. /\ skipped \subseteq 1 .. posted
          /\ \A e \in book : e.ref # 0 => e.ref \in 1 .. posted /\ e.amount = plan[e.ref]
          /\ \A e, f \in book : e.ref = f.ref => e = f
          /\ \A i \in 1 .. posted : i \notin skipped => \E e \in book : e.ref = i
          /\ \A e \in book : e.ref \notin skipped
          /\ \A e \in book : e.ref # 0
      BY <2>1 DEF AssetInv, EntriesInv
    <3>2. 0 \notin skipped
      <4>1. 0 \notin 1 .. posted
        BY DEF AssetInv, PostedInv
      <4> QED
        BY <3>1, <4>1
    <3>3. e0.ref = 0
      BY <2>2
    <3> HIDE DEF e0
    <3>4. asset'.status = "retired"
      BY <2>1
    <3>5. book' = book \/ book' = book \cup {e0}
      BY <2>1
    <3>6. book \subseteq book' /\ \A e \in book' : e \in book \/ e = e0
      BY <3>5
    <3>7. \A e \in book' : e.ref # 0 => e.ref \in 1 .. posted /\ e.amount = plan[e.ref]
      BY <3>1, <3>3, <3>6
    <3>8. \A e, f \in book' : e.ref = f.ref => e = f
      BY <3>1, <3>3, <3>6
    <3>9. \A i \in 1 .. posted : i \notin skipped => \E e \in book' : e.ref = i
      BY <3>1, <3>6
    <3>10. \A e \in book' : e.ref \notin skipped
      BY <3>1, <3>2, <3>3, <3>6
    <3> QED
      BY <1>0, <3>1, <3>4, <3>7, <3>8, <3>9, <3>10 DEF EntriesInv
  <2> QED
    BY <2>5, <2>8, <2>9 DEF AssetInv
<1> QED
  BY <1>1, <1>2

LEMMA SetAssetStatusStep ==
  ASSUME AssetInv, NEW to \in {"in_service", "maintenance", "retired"}, Assets!SetAssetStatus(to)
  PROVE  AssetInv'
<1>1. /\ asset.status # "retired" /\ asset' = [status |-> to, version |-> asset.version + 1]
      /\ UNCHANGED <<cost, plan, posted, accumulated, planVersion, book, skipped, planPc, planWork>>
  BY DEF Assets!SetAssetStatus
<1>2. AssetType'
  BY <1>1 DEF AssetInv, AssetType
<1>3. PostedInv' /\ PostingInv' /\ DisposingInv'
  BY <1>1 DEF AssetInv, PostedInv, PostingInv, DisposingInv, Posting, Disposing
<1>4. EntriesInv'
  BY <1>1 DEF AssetInv, EntriesInv
<1> QED
  BY <1>2, <1>3, <1>4 DEF AssetInv

LEMMA AssetStep == ASSUME AssetInv, Assets!Next PROVE AssetInv'
<1>1. CASE Assets!LockYear
  <2>1. UNCHANGED <<cost, plan, posted, accumulated, planVersion, asset, book, skipped, planPc, planWork>>
    BY <1>1 DEF Assets!LockYear
  <2> QED
    BY <2>1 DEF AssetInv, AssetType, PostedInv, EntriesInv, PostingInv, DisposingInv, Posting, Disposing
<1>2. ASSUME NEW r \in Requests, Assets!PostPeriod(r) PROVE AssetInv'
  <2>1. planPc[r] = "post entry" /\ Assets!PostEntry(r, "mark")
    BY <1>2 DEF Assets!PostPeriod
  <2>2. "mark" \in AssetLabels /\ "mark" # "retire"
    BY DEF AssetLabels
  <2> QED
    BY <2>1, <2>2, PostEntryStep
<1>3. ASSUME NEW r \in Requests, Assets!PostDisposal(r) PROVE AssetInv'
  <2>1. planPc[r] = "post disposal" /\ Assets!PostEntry(r, "retire")
    BY <1>3 DEF Assets!PostDisposal
  <2>2. "retire" \in AssetLabels /\ "mark" # "retire"
    BY DEF AssetLabels
  <2> QED
    BY <2>1, <2>2, PostEntryStep
<1>4. ASSUME NEW r \in Requests, Assets!Crash(r) PROVE AssetInv'
  BY <1>4, FinishAsset DEF Assets!Crash, Assets!rowVars
<1> QED
  BY <1>1, <1>2, <1>3, <1>4, StartPostStep, StartDisposeStep, MarkPostedStep, RetireStep,
     SetAssetStatusStep
  DEF Assets!Next

LEMMA AssetSteps == ASSUME AssetInv, [MCNext]_allVars PROVE AssetInv'
<1>1. CASE UNCHANGED assetVars
  <2>1. UNCHANGED <<cost, plan, posted, accumulated, planVersion, asset, book, skipped, planPc,
                    planWork>>
    BY <1>1 DEF assetVars
  <2>2. AssetType' /\ PostedInv'
    BY <2>1 DEF AssetInv, AssetType, PostedInv
  <2>3. EntriesInv'
    BY <2>1 DEF AssetInv, EntriesInv
  <2>4. PostingInv' /\ DisposingInv'
    BY <2>1 DEF AssetInv, PostingInv, DisposingInv, Posting, Disposing
  <2> QED
    BY <2>2, <2>3, <2>4 DEF AssetInv
<1>2. CASE MCNext /\ ~UNCHANGED assetVars
  <2>1. Assets!Next
    BY <1>2
    DEF MCNext, InRows, InSeats, InTill, InPayment, InLoan, InAsset, InSupply, InBank, InReport,
        Assets!Next
  <2> QED
    BY <2>1, AssetStep
<1> QED
  BY <1>1, <1>2 DEF allVars

LEMMA AssetIsBooked == AssetInv => Assets!DepreciationIsBooked
<1> SUFFICES ASSUME AssetInv PROVE Assets!DepreciationIsBooked
  OBVIOUS
<1> DEFINE entry(ref) == {e \in book : e.ref = ref}
<1>1. /\ accumulated = SumOf(plan, 1 .. posted) /\ SumOf(plan, 1 .. Len(plan)) = cost
      /\ skipped \subseteq 1 .. posted
      /\ \A e \in book : e.ref # 0 => e.ref \in 1 .. posted /\ e.amount = plan[e.ref]
      /\ \A e, f \in book : e.ref = f.ref => e = f
      /\ \A i \in 1 .. posted : i \notin skipped => \E e \in book : e.ref = i
      /\ \A e \in book : e.ref \notin skipped
      /\ \A e \in book : e.ref = 0 => asset.status = "retired"
  BY DEF AssetInv, PostedInv, EntriesInv
<1>2. accumulated = Assets!MapThenSumSet(LAMBDA i : plan[i], 1 .. posted)
  BY <1>1, PartsAreSum
<1>3. Assets!Done => accumulated = cost
  BY <1>1 DEF Assets!Done
<1>4. \A S : Assets!Cardinality(S) = Cardinality(S)
  BY DEF Assets!Cardinality, Cardinality, Assets!IsFiniteSet, IsFiniteSet
<1>5. \A ref : (\E e \in book : e.ref = ref) => Cardinality(entry(ref)) = 1
  <2> TAKE ref
  <2> SUFFICES ASSUME NEW e \in book, e.ref = ref PROVE Cardinality(entry(ref)) = 1
    OBVIOUS
  <2>1. entry(ref) = {e}
    BY <1>1
  <2> HIDE DEF entry
  <2> QED
    BY <2>1, FS_Singleton
<1>6. \A ref : ~(\E e \in book : e.ref = ref) => Cardinality(entry(ref)) = 0
  <2> TAKE ref
  <2> SUFFICES ASSUME ~(\E e \in book : e.ref = ref) PROVE Cardinality(entry(ref)) = 0
    OBVIOUS
  <2>1. entry(ref) = {}
    OBVIOUS
  <2> HIDE DEF entry
  <2> QED
    BY <2>1, FS_EmptySet
<1>7. \A i \in 1 .. posted : Assets!Cardinality(entry(i)) = IF i \in skipped THEN 0 ELSE 1
  <2> HIDE DEF entry
  <2> TAKE i \in 1 .. posted
  <2>1. CASE i \in skipped
    <3>1. ~ \E e \in book : e.ref = i
      BY <1>1, <2>1
    <3> QED
      BY <1>4, <1>6, <2>1, <3>1, Zenon
  <2>2. CASE i \notin skipped
    <3>1. \E e \in book : e.ref = i
      BY <1>1, <2>2
    <3> QED
      BY <1>4, <1>5, <2>2, <3>1, Zenon
  <2> QED
    BY <2>1, <2>2
<1>8. entry(0) # {} => asset.status = "retired"
  BY <1>1
<1>9. Assets!Cardinality(entry(0)) <= 1
  <2> HIDE DEF entry
  <2>1. Cardinality(entry(0)) = 0 \/ Cardinality(entry(0)) = 1
    BY <1>5, <1>6, Zenon
  <2>2. Assets!Cardinality(entry(0)) = Cardinality(entry(0))
    BY <1>4, Zenon
  <2> QED
    BY <2>1, <2>2
<1> QED
  BY <1>1, <1>2, <1>3, <1>7, <1>8, <1>9 DEF Assets!DepreciationIsBooked, Assets!Disposal

-----------------------------------------------------------------------------
(* The theorem *)

\* What is due by a plan is booked (members/handler.go:484-619,
\* procurement/store.go:218-330, assets/dep_service.go:36-75): a loan that is repaid
\* was collected line by line and the lines make up its principal, what a supplier
\* has been paid is what its invoices say, and an asset is written off period by
\* period, each with its one entry, whatever the loan, the charges and the plan.
THEOREM DebtsGetSettled == MCSpec => []DebtsAreSettled
<1>1. MCInit => LoanInv /\ SupplyInv /\ AssetInv
  BY LoanInit, SupplyInit, AssetInit DEF MCInit
<1>2. (LoanInv /\ SupplyInv /\ AssetInv) /\ [MCNext]_allVars => (LoanInv /\ SupplyInv /\ AssetInv)'
  BY LoanSteps, SupplySteps, AssetSteps
<1>3. (LoanInv /\ SupplyInv /\ AssetInv) => DebtsAreSettled
  BY LoanIsCollected, SuppliersGetTheirs, AssetIsBooked DEF DebtsAreSettled
<1> QED
  BY <1>1, <1>2, <1>3, PTL DEF MCSpec

-----------------------------------------------------------------------------
(* The statement of an account. *)

LEMMA BankCard ==
  ASSUME NEW S
  PROVE  Accounting!Cardinality(S) = Cardinality(S) /\ (Accounting!IsFiniteSet(S) <=> IsFiniteSet(S))
BY DEF Accounting!Cardinality, Cardinality, Accounting!IsFiniteSet, IsFiniteSet

RowAmounts(S) == [t \in S |-> t.amount]

\* The amounts of rows, as the model adds them up.
LEMMA AmountsAreSum ==
  ASSUME NEW S, IsFiniteSet(S), \A t \in S : t.amount \in Int
  PROVE  Accounting!MapThenSumSet(LAMBDA t : t.amount, S) = SumOf(RowAmounts(S), S)
<1> DEFINE f == RowAmounts(S)
           IsBook(g) == g = [s \in SUBSET S |->
                       IF s = {} THEN 0 ELSE Pick(s).amount + g[s \ {Pick(s)}]]
           h == CHOOSE g : IsBook(g)
<1>1. \A t \in S : f[t] \in Int /\ f[t] = t.amount
  BY DEF RowAmounts
<1>2. \A s \in SUBSET S : s # {} => Pick(s) \in S
  BY PickIn
<1>3. Accounting!MapThenSumSet(LAMBDA t : t.amount, S) = h[S]
  BY DEF Accounting!MapThenSumSet, Accounting!MapThenFoldSet, Pick
<1> HIDE DEF f
<1>4. \E g : IsBook(g)
  <2>1. PICK g \in [SUBSET S -> Int] : \A s \in SUBSET S : g[s] = Unfold(f, g, s)
    <3>1. \A t \in S : f[t] \in Int
      BY <1>1
    <3> QED
      BY <3>1, TableExists, Zenon
  <2>2. IsBook(g)
    BY <1>1, <1>2, <2>1 DEF Unfold
  <2> QED
    BY <2>2
<1>5. IsBook(h)
  <2> HIDE DEF IsBook
  <2> QED
    BY <1>4
<1>6. IsTable(h, f, S)
  <2> HIDE DEF h
  <2> QED
    BY <1>1, <1>2, <1>5 DEF IsTable, Unfold
<1> HIDE DEF h
<1>7. h[S] = SumOf(f, S)
  BY <1>1, <1>6, TableIsSum
<1> QED
  BY <1>3, <1>7 DEF f

\* A fold over the lines of a statement takes the last of those left, and adds it
\* to what the others come to.
Runs(h, am, n) ==
  h = [s \in SUBSET (1 .. n) |->
         IF s = {} THEN 0 ELSE h[s \ {Accounting!Max(s)}] + am[Accounting!Max(s)].amount]

LEMMA MaxIn ==
  ASSUME NEW n \in Nat, NEW s \in SUBSET (1 .. n), s # {}
  PROVE  Accounting!Max(s) \in s
<1>1. IsFiniteSet(s) /\ s \subseteq Nat
  <2>1. IsFiniteSet(1 .. n)
    BY FirstAreFinite
  <2>2. s \subseteq Nat
    BY SMT
  <2> DEFINE S == 1 .. n
  <2>3. IsFiniteSet(S) /\ s \in SUBSET S
    BY <2>1
  <2> HIDE DEF S
  <2> QED
    BY <2>2, <2>3, FS_Subset
<1>2. PICK m \in s : \A k \in s : k <= m
  BY <1>1, GreatestNat
<1>3. \A k \in s : m >= k
  BY <1>1, <1>2
<1> QED
  BY <1>3 DEF Accounting!Max

LEMMA RunIsSum ==
  ASSUME NEW n \in Nat, NEW txs, \A i \in 1 .. n : txs[i].amount \in Int,
         NEW am, am = [i \in 1 .. n |-> txs[i].amount]
  PROVE  (CHOOSE h : Runs(h, txs, n))[1 .. n] = SumOf(am, 1 .. n)
<1> DEFINE S == 1 .. n
           g == [s \in SUBSET S |-> SumOf(am, s)]
           h == CHOOSE f : Runs(f, txs, n)
<1>1. IsFiniteSet(S) /\ \A i \in S : am[i] = txs[i].amount /\ am[i] \in Int
  BY FirstAreFinite
<1>2. ASSUME NEW s \in SUBSET S, s # {}
      PROVE  /\ Accounting!Max(s) \in s
             /\ SumOf(am, s) = SumOf(am, s \ {Accounting!Max(s)}) + am[Accounting!Max(s)]
  <2> DEFINE x == Accounting!Max(s)
  <2>1. x \in s
    BY <1>2, MaxIn
  <2> HIDE DEF x
  <2>2. IsFiniteSet(s) /\ IsFiniteSet(s \ {x}) /\ \A i \in s : am[i] \in Int
    BY <1>1, <2>1, FS_Subset, FS_RemoveElement
  <2>3. SumOf(am, s) = am[x] + SumOf(am, s \ {x})
    BY <2>1, <2>2, SumStep
  <2>4. SumOf(am, s \ {x}) \in Int /\ am[x] \in Int
    BY <2>1, <2>2, SumType
  <2> QED
    BY <2>1, <2>3, <2>4 DEF x
<1>3. SumOf(am, {}) = 0
  BY SumEmpty
<1> HIDE DEF S
<1>4. Runs(g, txs, n)
  <2>1. \A s \in SUBSET S : g[s] = IF s = {} THEN 0
          ELSE g[s \ {Accounting!Max(s)}] + txs[Accounting!Max(s)].amount
    <3> TAKE s \in SUBSET S
    <3>1. CASE s = {}
      BY <1>3, <3>1
    <3>2. CASE s # {}
      BY <1>1, <1>2, <3>2
    <3> QED
      BY <3>1, <3>2
  <2>2. g = [s \in SUBSET S |-> g[s]]
    OBVIOUS
  <2> HIDE DEF g
  <2> QED
    BY <2>1, <2>2 DEF Runs, S
<1>5. Runs(h, txs, n)
  BY <1>4
<1> HIDE DEF h, g
<1> DEFINE H == {s \in SUBSET S : h[s] = SumOf(am, s)}
<1>6. ASSUME NEW s \in SUBSET S, \A x \in s : s \ {x} \in H PROVE s \in H
  <2>1. h[s] = IF s = {} THEN 0
               ELSE h[s \ {Accounting!Max(s)}] + txs[Accounting!Max(s)].amount
    BY <1>5 DEF Runs, S
  <2>2. CASE s = {}
    BY <1>3, <2>1, <2>2
  <2>3. CASE s # {}
    BY <1>1, <1>2, <1>6, <2>1, <2>3
  <2> QED
    BY <2>2, <2>3
<1>7. S \in H
  <2> HIDE DEF H
  <2>1. \A s \in SUBSET S : s \in H
    BY <1>1, <1>6, SetInSet
  <2> QED
    BY <2>1
<1> QED
  BY <1>7 DEF S, h

\* The last of the running balances.
LEMMA LastIsSum ==
  ASSUME NEW n \in Nat, n > 0, NEW X, NEW txs \in [1 .. n -> X],
         \A i \in 1 .. n : txs[i].amount \in Int,
         NEW am, am = [i \in 1 .. n |-> txs[i].amount]
  PROVE  Accounting!Last(Accounting!ApplyRunningBalance(txs)) = SumOf(am, 1 .. n)
<1> DEFINE run == Accounting!ApplyRunningBalance(txs)
<1>1. txs \in Seq(X) /\ Len(txs) = n /\ DOMAIN txs = 1 .. n
  OBVIOUS
<1> DEFINE front == SubSeq(txs, 1, n)
<1>2. front = txs
  <2>1. front \in Seq(X) /\ Len(front) = n /\ \A i \in 1 .. n : front[i] = txs[i]
    BY <1>1
  <2> HIDE DEF front
  <2>2. DOMAIN front = 1 .. n /\ front = [i \in DOMAIN front |-> front[i]]
    BY <2>1
  <2>3. txs = [i \in 1 .. n |-> txs[i]]
    OBVIOUS
  <2> QED
    BY <2>1, <2>2, <2>3
<1>3. DOMAIN run = 1 .. n
  BY <1>1
  DEF Accounting!ApplyRunningBalance, Accounting!FoldLeft, Accounting!MapThenFoldSet
<1>4. run[n] = (CHOOSE h : Runs(h, txs, n))[1 .. n]
  <2>1. run[n] = (CHOOSE h : h = [s \in SUBSET (DOMAIN front) |->
                    IF s = {} THEN 0
                    ELSE h[s \ {Accounting!Max(s)}] + front[Accounting!Max(s)].amount])[DOMAIN front]
    <3>1. n \in DOMAIN txs
      BY <1>1
    <3> QED
      BY <3>1
    DEF Accounting!ApplyRunningBalance, Accounting!FoldLeft, Accounting!MapThenFoldSet,
        Accounting!Max
  <2> HIDE DEF front, run
  <2> QED
    BY <1>1, <1>2, <2>1 DEF Runs
<1>5. Accounting!Last(run) = run[n]
  <2> HIDE DEF run
  <2>1. Len(run) = n
    BY <1>3
  <2> QED
    BY <2>1 DEF Accounting!Last
<1> HIDE DEF run
<1> QED
  BY <1>4, <1>5, RunIsSum DEF run

\* The place of a row in the statement is the number of rows before it.
Earlier(S, t) == {u \in S : Accounting!Before(u, t)}
Place(S, t) == Cardinality(Earlier(S, t))

\* Rows that an ORDER BY value_date, id tells apart.
Datable(S) ==
  /\ IsFiniteSet(S)
  /\ \A t \in S : t.id \in Nat /\ t.date \in Nat /\ t.amount \in Int
  /\ \A t, u \in S : t.id = u.id => t = u

LEMMA PlacesDiffer ==
  ASSUME NEW S, Datable(S)
  PROVE  /\ \A t \in S : Place(S, t) \in Nat /\ Place(S, t) + 1 <= Cardinality(S)
         /\ \A t, u \in S : Place(S, t) = Place(S, u) => t = u
<1>1. /\ IsFiniteSet(S)
      /\ \A t \in S : t.id \in Nat /\ t.date \in Nat
      /\ \A t, u \in S : t.id = u.id => t = u
  BY DEF Datable
<1>2. \A t \in S : Earlier(S, t) \subseteq S /\ t \notin Earlier(S, t)
  BY <1>1 DEF Earlier, Accounting!Before
<1>3. \A t \in S : Place(S, t) \in Nat /\ Place(S, t) + 1 <= Cardinality(S)
  BY <1>1, <1>2, PartIsLess DEF Place
<1>4. ASSUME NEW t \in S, NEW u \in S, Accounting!Before(t, u)
      PROVE  Place(S, t) # Place(S, u)
  <2>1. t \in Earlier(S, u)
    BY <1>4 DEF Earlier
  <2>2. Earlier(S, t) \subseteq Earlier(S, u)
    BY <1>1, <1>4 DEF Earlier, Accounting!Before
  <2>3. IsFiniteSet(Earlier(S, u))
    BY <1>1, <1>2, FS_Subset
  <2>4. /\ Place(S, t) \in Nat /\ Place(S, u) \in Nat
        /\ Place(S, t) + 1 <= Place(S, u)
    BY <1>2, <2>1, <2>2, <2>3, PartIsLess DEF Place
  <2> QED
    BY <2>4
<1>5. \A t, u \in S : t # u => Accounting!Before(t, u) \/ Accounting!Before(u, t)
  BY <1>1 DEF Accounting!Before
<1> QED
  BY <1>3, <1>4, <1>5

LEMMA StatementListsRows ==
  ASSUME NEW S, Datable(S), NEW txs,
         txs = [i \in 1 .. Cardinality(S) |->
                  CHOOSE t \in S : Accounting!Cardinality(Earlier(S, t)) = i - 1]
  PROVE  Renames(txs, 1 .. Cardinality(S), S)
<1> DEFINE n == Cardinality(S)
           f == [t \in S |-> Place(S, t)]
           T == 0 .. n - 1
<1>1. IsFiniteSet(S) /\ n \in Nat
  BY FS_CardinalityType DEF Datable
<1>2. /\ \A t \in S : Place(S, t) \in T
      /\ \A t, u \in S : Place(S, t) = Place(S, u) => t = u
  <2>1. \A t \in S : Place(S, t) \in Nat /\ Place(S, t) + 1 <= n
    BY PlacesDiffer
  <2> HIDE DEF n
  <2>2. \A t \in S : Place(S, t) \in 0 .. n - 1
    BY <1>1, <2>1
  <2> QED
    BY <2>2, PlacesDiffer
<1>3. IsFiniteSet(T) /\ Cardinality(T) = n
  <2> HIDE DEF n
  <2>1. /\ IsFiniteSet(0 .. n - 1)
        /\ Cardinality(0 .. n - 1) = IF 0 > n - 1 THEN 0 ELSE n - 1 - 0 + 1
    BY <1>1, FS_Interval
  <2> QED
    BY <1>1, <2>1
<1> HIDE DEF T
<1>4. f \in Injection(S, T)
  BY <1>2 DEF Injection, IsInjective
<1>5. f \in Surjection(S, T)
  <2> HIDE DEF f
  <2> QED
    BY <1>3, <1>4, FS_Injection
<1>6. \A k \in T : \E t \in S : Place(S, t) = k
  BY <1>5 DEF Surjection
<1>7. \A t \in S : Accounting!Cardinality(Earlier(S, t)) = Place(S, t)
  BY BankCard DEF Place
<1>8. ASSUME NEW i \in 1 .. n PROVE txs[i] \in S /\ Place(S, txs[i]) = i - 1
  <2>1. i - 1 \in T
    BY <1>1 DEF T
  <2>2. \E t \in S : Accounting!Cardinality(Earlier(S, t)) = i - 1
    BY <1>6, <1>7, <2>1
  <2>3. txs[i] = CHOOSE t \in S : Accounting!Cardinality(Earlier(S, t)) = i - 1
    OBVIOUS
  <2>4. txs[i] \in S /\ Accounting!Cardinality(Earlier(S, txs[i])) = i - 1
    <3> DEFINE k == i - 1
    <3> HIDE DEF k
    <3> QED
      BY <2>2, <2>3 DEF k
  <2> QED
    BY <1>7, <2>4
<1>9. \A i, j \in 1 .. n : txs[i] = txs[j] => i = j
  <2> SUFFICES ASSUME NEW i \in 1 .. n, NEW j \in 1 .. n, txs[i] = txs[j] PROVE i = j
    OBVIOUS
  <2>1. i - 1 = j - 1
    BY <1>8
  <2> QED
    BY <1>1, <2>1
<1>10. ASSUME NEW t \in S PROVE \E i \in 1 .. n : txs[i] = t
  <2> DEFINE i == Place(S, t) + 1
  <2>1. Place(S, t) \in 0 .. n - 1
    BY <1>2 DEF T
  <2>2. i \in 1 .. n /\ i - 1 = Place(S, t)
    BY <1>1, <2>1
  <2>3. txs[i] \in S /\ Place(S, txs[i]) = Place(S, t)
    BY <1>8, <2>2
  <2> QED
    BY <1>2, <2>2, <2>3
<1> QED
  BY <1>8, <1>9, <1>10 DEF Renames

\* However the rows came, their statement ends with their balance.
LEMMA StatementEnds ==
  ASSUME NEW a, Datable(Accounting!RowsOf(a)), Accounting!BankTransactions(a) # << >>
  PROVE  Accounting!Last(Accounting!ApplyRunningBalance(Accounting!BankTransactions(a)))
           = Accounting!AccountBalance(a)
<1> DEFINE S == Accounting!RowsOf(a)
           n == Cardinality(S)
           txs == Accounting!BankTransactions(a)
           am == [i \in 1 .. n |-> txs[i].amount]
<1>1. IsFiniteSet(S) /\ n \in Nat /\ \A t \in S : t.amount \in Int
  BY FS_CardinalityType DEF Datable
<1>2. txs = [i \in 1 .. n |->
               CHOOSE t \in S : Accounting!Cardinality(Earlier(S, t)) = i - 1]
  BY BankCard DEF Accounting!BankTransactions, Earlier
<1> HIDE DEF S, txs
<1>3. Renames(txs, 1 .. n, S)
  BY <1>2, StatementListsRows DEF S
<1>4. n > 0
  <2>1. ASSUME n = 0 PROVE FALSE
    <3>1. 1 .. n = {}
      BY <2>1
    <3>2. txs = [i \in {} |-> 0]
      BY <1>2, <3>1
    <3> QED
      BY <3>2 DEF txs
  <2> QED
    BY <1>1, <2>1
<1>5. txs \in [1 .. n -> S]
  BY <1>2, <1>3 DEF Renames
<1>6. IsFiniteSet(1 .. n) /\ \A i \in 1 .. n : txs[i].amount \in Int /\ txs[i] \in S
  BY <1>1, <1>5, FirstAreFinite
<1>7. Accounting!Last(Accounting!ApplyRunningBalance(txs)) = SumOf(am, 1 .. n)
  <2> HIDE DEF n
  <2> QED
    BY <1>1, <1>4, <1>5, <1>6, LastIsSum
<1>8. SumOf(am, 1 .. n) = SumOf(RowAmounts(S), S)
  <2>1. \A i \in 1 .. n : am[i] = RowAmounts(S)[txs[i]]
    BY <1>6 DEF RowAmounts
  <2>2. \A t \in S : RowAmounts(S)[t] \in Int
    BY <1>1 DEF RowAmounts
  <2> DEFINE D == 1 .. n
             f == RowAmounts(S)
  <2>3. /\ IsFiniteSet(D) /\ Renames(txs, D, S)
        /\ \A t \in S : f[t] \in Int
        /\ \A i \in D : am[i] = f[txs[i]]
    BY <1>3, <1>6, <2>1, <2>2
  <2> HIDE DEF am, D, f
  <2>4. SumOf(am, D) = SumOf(f, S)
    BY <2>3, SumRenamed
  <2> QED
    BY <2>4 DEF D, f
<1>9. Accounting!AccountBalance(a) = SumOf(RowAmounts(S), S)
  <2>1. Accounting!AccountBalance(a) = Accounting!MapThenSumSet(LAMBDA t : t.amount, S)
    BY DEF Accounting!AccountBalance, S
  <2> QED
    BY <1>1, <2>1, AmountsAreSum
<1> QED
  BY <1>7, <1>8, <1>9 DEF txs

-----------------------------------------------------------------------------
(* A file that the store in memory imports line by line. *)

BankLine == [ref : STRING, amount : Int, date : Nat]

LEMMA FilesHoldLines ==
  ASSUME NEW s \in Statements
  PROVE  /\ s.account \in BankAccounts /\ Len(s.entries) \in Nat
         /\ DOMAIN s.entries = 1 .. Len(s.entries)
         /\ DOMAIN Accounting!LinesOf(s) = 1 .. Len(s.entries)
         /\ \A i \in 1 .. Len(s.entries) : /\ Accounting!LinesOf(s)[i] = Accounting!LineOf(s, i)
                                           /\ Accounting!LineOf(s, i) \in BankLine
<1>1. /\ s.account \in BankAccounts
      /\ \/ s.format = "csv" /\ s.entries \in Seq(Accounting!CsvEntry)
         \/ s.format = "camt053" /\ s.entries \in Seq(Accounting!CamtEntry)
  BY BankAssumption DEF Accounting!ConstantsOK
<1> DEFINE E == s.entries
<1>2. Len(E) \in Nat /\ DOMAIN E = 1 .. Len(E)
  BY <1>1
<1>3. ASSUME NEW i \in 1 .. Len(E) PROVE Accounting!LineOf(s, i) \in BankLine
  <2>1. CASE s.format = "csv" /\ E \in Seq(Accounting!CsvEntry)
    <3>1. E[i] \in Accounting!CsvEntry
      BY <2>1
    <3> HIDE DEF E
    <3> QED
      BY <2>1, <3>1 DEF Accounting!LineOf, Accounting!CsvLine, Accounting!CsvEntry, BankLine, E
  <2>2. CASE s.format = "camt053" /\ E \in Seq(Accounting!CamtEntry)
    <3>1. E[i] \in Accounting!CamtEntry
      BY <2>2
    <3> DEFINE e == E[i]
    <3>2. /\ e.entryRef \in STRING /\ e.servicerRef \in STRING
          /\ e.amount \in Int /\ e.valued \in Nat /\ e.booked \in Nat
      BY <3>1 DEF Accounting!CamtEntry
    <3>3. Accounting!LineOf(s, i) = Accounting!CamtLine(e)
      BY <2>2 DEF Accounting!LineOf
    <3> HIDE DEF e
    <3> QED
      BY <3>2, <3>3 DEF Accounting!CamtLine, Accounting!Abs, BankLine
  <2> QED
    BY <1>1, <2>1, <2>2
<1>4. /\ DOMAIN Accounting!LinesOf(s) = DOMAIN E
      /\ \A i \in DOMAIN E : Accounting!LinesOf(s)[i] = Accounting!LineOf(s, i)
  BY DEF Accounting!LinesOf
<1> QED
  BY <1>1, <1>2, <1>3, <1>4

\* The fold over the lines is a table over sets of them, too.
PutBase(before) == [refused |-> FALSE, seen |-> before, put |-> << >>]
PutNext(g, lines, before, s) ==
  IF s = {} THEN PutBase(before)
  ELSE Accounting!PutLine(g[s \ {Accounting!Max(s)}], lines[Accounting!Max(s)])
IsPuts(g, lines, before, n) ==
  g = [s \in SUBSET (1 .. n) |-> PutNext(g, lines, before, s)]
PutsExist(lines, before, n) == \E g : IsPuts(g, lines, before, n)

LEMMA MaxIs ==
  ASSUME NEW s \in SUBSET Nat, NEW x \in s, \A y \in s : y <= x
  PROVE  Accounting!Max(s) = x
<1>1. x \in Nat /\ \A y \in s : y \in Nat /\ x >= y
  OBVIOUS
<1>2. \A z \in s : (\A y \in s : z >= y) => z = x
  BY <1>1
<1> QED
  BY <1>1, <1>2 DEF Accounting!Max

LEMMA PutsAreThere ==
  ASSUME NEW lines, NEW before, NEW n \in Nat
  PROVE  PutsExist(lines, before, n)
<1> DEFINE H == {m \in Nat : PutsExist(lines, before, m)}
<1>1. 0 \in H
  <2> DEFINE g == [s \in SUBSET (1 .. 0) |-> PutBase(before)]
  <2>1. \A s \in SUBSET (1 .. 0) : PutNext(g, lines, before, s) = PutBase(before)
    BY DEF PutNext
  <2>2. IsPuts(g, lines, before, 0)
    BY <2>1 DEF IsPuts
  <2> QED
    BY <2>2 DEF PutsExist
<1>2. ASSUME NEW m \in Nat, m \in H PROVE m + 1 \in H
  <2> DEFINE D == 1 .. m
             k == m + 1
             E == 1 .. k
  <2>1. PICK g : IsPuts(g, lines, before, m)
    BY <1>2 DEF PutsExist
  <2> DEFINE e == [s \in SUBSET E |->
                     IF k \in s THEN Accounting!PutLine(g[s \ {k}], lines[k]) ELSE g[s]]
  <2>2. /\ k \in Nat /\ k \notin D /\ D \subseteq Nat /\ E \subseteq Nat
        /\ E = D \cup {k} /\ \A y \in E : y <= k
    OBVIOUS
  <2>3. \A s \in SUBSET D : g[s] = PutNext(g, lines, before, s)
    BY <2>1 DEF IsPuts
  <2>4. ASSUME NEW s \in SUBSET D, s # {} PROVE Accounting!Max(s) \in s
    BY <2>4, MaxIn
  <2>5. \A s \in SUBSET E : k \in s => Accounting!Max(s) = k
    <3> HIDE DEF E, k
    <3> QED
      BY <2>2, MaxIs
  <2> HIDE DEF D, E, k
  <2>6. \A s \in SUBSET D : e[s] = g[s]
    BY <2>2
  <2>7. ASSUME NEW s \in SUBSET E PROVE e[s] = PutNext(e, lines, before, s)
    <3>1. CASE k \in s
      <4>1. s \ {k} \in SUBSET D
        BY <2>2
      <4>2. e[s] = Accounting!PutLine(g[s \ {k}], lines[k]) /\ e[s \ {k}] = g[s \ {k}]
        BY <2>6, <3>1, <4>1
      <4> HIDE DEF e
      <4> QED
        BY <2>5, <3>1, <4>2 DEF PutNext
    <3>2. CASE k \notin s
      <4>1. s \in SUBSET D
        BY <2>2, <3>2
      <4>2. s # {} => s \ {Accounting!Max(s)} \in SUBSET D
        BY <4>1
      <4>3. e[s] = g[s] /\ (s # {} => e[s \ {Accounting!Max(s)}] = g[s \ {Accounting!Max(s)}])
        BY <2>6, <4>1, <4>2
      <4>4. g[s] = PutNext(g, lines, before, s)
        BY <2>3, <4>1
      <4> HIDE DEF e
      <4> QED
        BY <4>3, <4>4 DEF PutNext
    <3> QED
      BY <3>1, <3>2
  <2>8. e = [s \in SUBSET E |-> e[s]]
    OBVIOUS
  <2>9. IsPuts(e, lines, before, k)
    <3> HIDE DEF e
    <3> QED
      BY <2>7, <2>8 DEF IsPuts, E
  <2> HIDE DEF e
  <2>10. PutsExist(lines, before, k)
    BY <2>9 DEF PutsExist
  <2> QED
    BY <2>2, <2>10 DEF k
<1> HIDE DEF H
<1>3. n \in H
  BY <1>1, <1>2, NatInSet
<1> QED
  BY <1>3 DEF H

LEMMA PutLinesRun ==
  ASSUME NEW s \in Statements
  PROVE  \E h : /\ IsPuts(h, Accounting!LinesOf(s), Accounting!RefsOf(s.account), Len(s.entries))
                /\ Accounting!PutLines(s) = h[1 .. Len(s.entries)]
<1> DEFINE lines == Accounting!LinesOf(s)
           before == Accounting!RefsOf(s.account)
           n == Len(s.entries)
           h == CHOOSE g : IsPuts(g, lines, before, n)
<1>1. n \in Nat /\ DOMAIN lines = 1 .. n
  BY FilesHoldLines
<1>2. Accounting!PutLines(s) =
        (CHOOSE g : g = [t \in SUBSET (DOMAIN lines) |->
           IF t = {} THEN PutBase(before)
           ELSE Accounting!PutLine(g[t \ {Accounting!Max(t)}], lines[Accounting!Max(t)])])[DOMAIN lines]
  BY DEF Accounting!PutLines, Accounting!FoldLeft, Accounting!MapThenFoldSet, Accounting!Max,
         PutBase
<1> HIDE DEF lines, before, n
<1>3. Accounting!PutLines(s) = h[1 .. n]
  BY <1>1, <1>2 DEF IsPuts, PutNext
<1>4. IsPuts(h, lines, before, n)
  BY <1>1, PutsAreThere DEF PutsExist
<1> HIDE DEF h
<1> QED
  BY <1>3, <1>4 DEF lines, before, n

\* What the first m lines of a file have put, before being the references that were
\* there: one row for each reference that was not.
PutOnce(found, put, before) ==
  /\ found = before \cup ({put[i].ref : i \in DOMAIN put} \ {""})
  /\ \A i \in DOMAIN put : put[i].ref \notin before
  /\ \A i, j \in DOMAIN put : put[i].ref = put[j].ref => i = j \/ put[i].ref = ""
PutAll(put, lines, before, m) ==
  \A i \in 1 .. m : \/ lines[i].ref \in before
                    \/ \E j \in DOMAIN put : put[j].ref = lines[i].ref
PutInv(acc, lines, before, m) ==
  /\ acc \in [refused : BOOLEAN, seen : SUBSET (before \cup STRING), put : Seq(BankLine)]
  /\ PutOnce(acc.seen, acc.put, before)
  /\ ~acc.refused => PutAll(acc.put, lines, before, m)

LEMMA UpToNext ==
  ASSUME NEW m \in Nat
  PROVE  \A i \in 1 .. m + 1 : i \in 1 .. m \/ i = m + 1
OBVIOUS

\* e is q with x at a new index k.
IsMore(e, q, x, k) ==
  /\ DOMAIN e = DOMAIN q \cup {k} /\ k \notin DOMAIN q
  /\ e[k] = x /\ \A i \in DOMAIN q : e[i] = q[i]

LEMMA Appended ==
  ASSUME NEW X, NEW q \in Seq(X), NEW x \in X
  PROVE  Append(q, x) \in Seq(X) /\ \E k : IsMore(Append(q, x), q, x, k)
<1> DEFINE k == Len(q) + 1
           e == Append(q, x)
<1>1. /\ DOMAIN e = DOMAIN q \cup {k} /\ k \notin DOMAIN q
      /\ e \in Seq(X) /\ e[k] = x
      /\ \A i \in DOMAIN q : e[i] = q[i]
  OBVIOUS
<1> HIDE DEF k, e
<1> QED
  BY <1>1 DEF e, IsMore

LEMMA PutLineKeeps ==
  ASSUME NEW before, "" \notin before, NEW m \in Nat, NEW lines, lines[m + 1] \in BankLine,
         NEW acc, PutInv(acc, lines, before, m)
  PROVE  PutInv(Accounting!PutLine(acc, lines[m + 1]), lines, before, m + 1)
<1> DEFINE l == lines[m + 1]
           next == Accounting!PutLine(acc, l)
           put == acc.put
           found == acc.seen
<1>1. /\ acc.refused \in BOOLEAN /\ found \in SUBSET (before \cup STRING) /\ put \in Seq(BankLine)
      /\ acc \in [refused : BOOLEAN, seen : SUBSET (before \cup STRING), put : Seq(BankLine)]
  BY DEF PutInv
<1>2. PutOnce(found, put, before)
  BY DEF PutInv
<1>3. ~acc.refused => PutAll(put, lines, before, m)
  BY DEF PutInv
<1>4. l \in BankLine /\ l.ref \in STRING
  BY DEF BankLine
<1>5. CASE acc.refused \/ l.amount = 0
  <2>1. next = [acc EXCEPT !.refused = TRUE]
    BY <1>5 DEF Accounting!PutLine
  <2> HIDE DEF next
  <2>2. /\ next.refused = TRUE /\ next.seen = found /\ next.put = put
        /\ next \in [refused : BOOLEAN, seen : SUBSET (before \cup STRING), put : Seq(BankLine)]
    BY <1>1, <2>1
  <2> HIDE DEF put, found, l
  <2>3. PutInv(next, lines, before, m + 1)
    BY <1>2, <2>2 DEF PutInv
  <2> QED
    BY <2>3 DEF next, l
<1>6. CASE ~(acc.refused \/ l.amount = 0) /\ l.ref \in found
  <2>1. next = acc
    BY <1>6 DEF Accounting!PutLine
  <2>2. l.ref \in before \/ \E j \in DOMAIN put : put[j].ref = l.ref
    <3> HIDE DEF l, next
    <3> QED
      BY <1>2, <1>6 DEF PutOnce
  <2>3. PutAll(put, lines, before, m + 1)
    <3> SUFFICES ASSUME NEW i \in 1 .. m + 1
                 PROVE  \/ lines[i].ref \in before
                        \/ \E j \in DOMAIN put : put[j].ref = lines[i].ref
      BY DEF PutAll
    <3>1. i \in 1 .. m \/ i = m + 1
      BY UpToNext
    <3> QED
      BY <1>3, <1>6, <2>2, <3>1 DEF PutAll
  <2>4. PutInv(acc, lines, before, m + 1)
    BY <1>1, <1>2, <2>3 DEF PutInv
  <2> QED
    BY <2>1, <2>4
<1>7. CASE ~(acc.refused \/ l.amount = 0) /\ l.ref \notin found
  <2> DEFINE more == Append(put, l)
  <2>1. next = [acc EXCEPT !.seen = IF l.ref = "" THEN @ ELSE @ \cup {l.ref}, !.put = more]
    BY <1>7 DEF Accounting!PutLine, Accounting!None
  <2> DEFINE D == DOMAIN put
             found2 == IF l.ref = "" THEN found ELSE found \cup {l.ref}
  <2>2. more \in Seq(BankLine) /\ \E k : IsMore(more, put, l, k)
    <3>1. put \in Seq(BankLine) /\ l \in BankLine
      BY <1>1, <1>4
    <3> HIDE DEF put, l
    <3> QED
      BY <3>1, Appended
  <2> PICK k : IsMore(more, put, l, k)
    BY <2>2
  <2>3. DOMAIN more = D \cup {k} /\ k \notin D /\ DOMAIN put = D
    <3> HIDE DEF more
    <3> QED
      BY DEF IsMore
  <2> HIDE DEF next, more, D
  <2>4. found2 \in SUBSET (before \cup STRING)
    BY <1>1, <1>4
  <2>5. /\ next.refused = FALSE /\ next.seen = found2 /\ next.put = more
        /\ next \in [refused : BOOLEAN, seen : SUBSET (before \cup STRING), put : Seq(BankLine)]
    <3> HIDE DEF l, found
    <3>1. /\ next.refused = acc.refused /\ next.seen = found2 /\ next.put = more
          /\ next = [refused |-> acc.refused, seen |-> found2, put |-> more]
      BY <1>1, <2>1 DEF found
    <3> HIDE DEF found2
    <3>2. more \in Seq(BankLine) /\ acc.refused = FALSE
      BY <1>1, <1>7, <2>2
    <3> QED
      BY <2>4, <3>1, <3>2
  <2>6. more[k] = l /\ \A i \in D : more[i] = put[i]
    BY DEF IsMore, D
  <2> HIDE DEF put, found, l
  <2>7. l.ref \notin before /\ \A i \in D : put[i].ref = l.ref => l.ref = ""
    BY <1>2, <1>7, <2>3 DEF PutOnce
  <2>8. found2 = before \cup ({more[i].ref : i \in D \cup {k}} \ {""})
    <3>1. {more[i].ref : i \in D \cup {k}} = {put[i].ref : i \in D} \cup {l.ref}
      BY <2>6
    <3> QED
      BY <1>2, <2>3, <3>1 DEF PutOnce
  <2>9. /\ \A i \in D \cup {k} : more[i].ref \notin before
        /\ \A i, j \in D \cup {k} : more[i].ref = more[j].ref => i = j \/ more[i].ref = ""
    BY ZenonT(60), <1>2, <2>3, <2>6, <2>7 DEF PutOnce
  <2>10. PutOnce(found2, more, before)
    <3> HIDE DEF found2
    <3> QED
      BY <2>3, <2>8, <2>9 DEF PutOnce
  <2>11. PutAll(more, lines, before, m + 1)
    <3> SUFFICES ASSUME NEW i \in 1 .. m + 1
                 PROVE  \/ lines[i].ref \in before
                        \/ \E j \in DOMAIN more : more[j].ref = lines[i].ref
      BY DEF PutAll
    <3>1. i \in 1 .. m \/ i = m + 1
      BY UpToNext, Zenon
    <3>2. CASE i \in 1 .. m
      <4>1. \/ lines[i].ref \in before
            \/ \E j \in D : put[j].ref = lines[i].ref
        BY <1>3, <1>7, <2>3, <3>2, Zenon DEF PutAll
      <4> QED
        BY <2>3, <2>6, <4>1
    <3>3. CASE i = m + 1
      <4>1. k \in DOMAIN more /\ more[k].ref = lines[i].ref
        BY <2>3, <2>6, <3>3 DEF l
      <4> QED
        BY <4>1
    <3> QED
      BY <3>1, <3>2, <3>3
  <2> HIDE DEF found2
  <2>12. PutInv(next, lines, before, m + 1)
    BY <2>5, <2>10, <2>11 DEF PutInv
  <2> QED
    BY <2>12 DEF next, l
<1> QED
  BY <1>5, <1>6, <1>7

LEMMA NoneIsNoRef ==
  ASSUME NEW a
  PROVE  "" \notin Accounting!RefsOf(a)
BY DEF Accounting!RefsOf, Accounting!None

\* What an import puts.
LEMMA PutLinesPut ==
  ASSUME NEW s \in Statements
  PROVE  PutInv(Accounting!PutLines(s), Accounting!LinesOf(s), Accounting!RefsOf(s.account),
                Len(s.entries))
<1> DEFINE lines == Accounting!LinesOf(s)
           before == Accounting!RefsOf(s.account)
           n == Len(s.entries)
<1>1. n \in Nat /\ \A i \in 1 .. n : lines[i] \in BankLine
  BY FilesHoldLines
<1>2. PICK h : IsPuts(h, lines, before, n) /\ Accounting!PutLines(s) = h[1 .. n]
  BY PutLinesRun
<1>3. "" \notin before
  BY NoneIsNoRef
<1> HIDE DEF lines, before, n
<1> DEFINE H == {m \in Nat : m <= n => PutInv(h[1 .. m], lines, before, m)}
<1>4. \A t \in SUBSET (1 .. n) : h[t] = PutNext(h, lines, before, t)
  BY <1>2 DEF IsPuts
<1>5. 0 \in H
  <2>1. h[{}] = PutBase(before)
    BY <1>4 DEF PutNext
  <2>2. 1 .. 0 = {}
    OBVIOUS
  <2> DEFINE base == PutBase(before)
  <2>3. base.refused = FALSE /\ base.seen = before /\ base.put = << >>
    BY DEF PutBase
  <2>4. base \in [refused : BOOLEAN, seen : SUBSET (before \cup STRING), put : Seq(BankLine)]
    BY DEF PutBase
  <2>5. DOMAIN base.put = {}
    BY <2>3
  <2> HIDE DEF base
  <2>6. PutInv(base, lines, before, 0)
    BY <2>2, <2>3, <2>4, <2>5 DEF PutInv, PutOnce, PutAll
  <2> QED
    BY <2>1, <2>2, <2>6 DEF base
<1>6. ASSUME NEW m \in Nat, m \in H PROVE m + 1 \in H
  <2> SUFFICES ASSUME m + 1 <= n PROVE PutInv(h[1 .. m + 1], lines, before, m + 1)
    OBVIOUS
  <2> DEFINE k == m + 1
             E == 1 .. k
             D == 1 .. m
  <2>1. PutInv(h[D], lines, before, m) /\ lines[k] \in BankLine
    BY <1>1, <1>6
  <2>2. E \in SUBSET (1 .. n) /\ E # {} /\ E \ {k} = D
    BY <1>1
  <2>3. Accounting!Max(E) = k
    <3>1. E \in SUBSET Nat /\ k \in E /\ \A y \in E : y <= k
      OBVIOUS
    <3> HIDE DEF E, k
    <3> QED
      BY <3>1, MaxIs
  <2>4. h[E] = Accounting!PutLine(h[D], lines[k])
    <3>1. h[E] = PutNext(h, lines, before, E)
      BY <1>4, <2>2
    <3> HIDE DEF E, D, k
    <3> QED
      BY <2>2, <2>3, <3>1 DEF PutNext
  <2> DEFINE acc == h[D]
  <2> HIDE DEF acc
  <2>5. PutInv(Accounting!PutLine(acc, lines[m + 1]), lines, before, m + 1)
    BY <1>3, <2>1, PutLineKeeps DEF acc
  <2> QED
    BY <2>4, <2>5 DEF acc
<1> HIDE DEF H
<1>7. n \in H
  BY <1>1, <1>5, <1>6, NatInSet
<1> QED
  BY <1>1, <1>2, <1>7 DEF H, lines, before, n

-----------------------------------------------------------------------------
(* Counting what imports and transfers have put. *)

ImportRows(R) == {t \in R : t.kind = "import"}
TransferRows(R) == {t \in R : t.kind = "transfer"}
EvenIn(R) ==
  /\ SumOf(RowAmounts(TransferRows(R)), TransferRows(R)) = 0
  /\ Cardinality({t \in TransferRows(R) : t.amount < 0})
       = Cardinality({t \in TransferRows(R) : t.amount > 0})
FiniteRows(R) == IsFiniteSet(R) /\ \A t \in R : t.amount \in Int

LEMMA ImportsCount ==
  ASSUME NEW R, IsFiniteSet(R), NEW P, IsFiniteSet(P), \A t \in P : t \notin R
  PROVE  /\ IsFiniteSet(ImportRows(R)) /\ Cardinality(ImportRows(R)) \in Nat
         /\ (\A t \in P : t.kind = "import") =>
              Cardinality(ImportRows(R \cup P)) = Cardinality(ImportRows(R)) + Cardinality(P)
         /\ (\A t \in P : t.kind # "import") => ImportRows(R \cup P) = ImportRows(R)
<1>1. IsFiniteSet(ImportRows(R)) /\ Cardinality(ImportRows(R)) \in Nat
  <2>1. ImportRows(R) \subseteq R
    BY DEF ImportRows
  <2> QED
    BY <2>1, FS_Subset, FS_CardinalityType
<1>2. ASSUME \A t \in P : t.kind = "import"
      PROVE  Cardinality(ImportRows(R \cup P)) = Cardinality(ImportRows(R)) + Cardinality(P)
  <2>1. ImportRows(R \cup P) = ImportRows(R) \cup P /\ ImportRows(R) \cap P = {}
    BY <1>2 DEF ImportRows
  <2>2. Cardinality(ImportRows(R) \cup P)
          = Cardinality(ImportRows(R)) + Cardinality(P) - Cardinality(ImportRows(R) \cap P)
    BY <1>1, FS_Union
  <2>3. Cardinality(ImportRows(R) \cap P) = 0 /\ Cardinality(P) \in Nat
    BY <2>1, FS_EmptySet, FS_CardinalityType
  <2> DEFINE x == Cardinality(ImportRows(R))
             y == Cardinality(P)
             z == Cardinality(ImportRows(R) \cap P)
  <2>4. x \in Nat /\ y \in Nat /\ z = 0 /\ Cardinality(ImportRows(R \cup P)) = x + y - z
    BY <1>1, <2>1, <2>2, <2>3
  <2> HIDE DEF x, y, z
  <2>5. Cardinality(ImportRows(R \cup P)) = x + y
    BY <2>4
  <2> QED
    BY <2>5 DEF x, y
<1>3. ASSUME \A t \in P : t.kind # "import" PROVE ImportRows(R \cup P) = ImportRows(R)
  BY <1>3 DEF ImportRows
<1> QED
  BY <1>1, <1>2, <1>3

LEMMA EvenStays ==
  ASSUME NEW R, EvenIn(R), NEW P, \A t \in P : t.kind # "transfer"
  PROVE  EvenIn(R \cup P)
<1>1. TransferRows(R \cup P) = TransferRows(R)
  BY DEF TransferRows
<1> QED
  BY <1>1 DEF EvenIn

\* The two legs of a transfer.
LegPair(P) ==
  \E t, u : /\ P = {t, u} /\ t.kind = "transfer" /\ u.kind = "transfer"
            /\ t.amount \in Int /\ t.amount < 0 /\ u.amount = -t.amount

LEMMA EvenAdds ==
  ASSUME NEW R, FiniteRows(R), EvenIn(R), NEW P, LegPair(P), \A t \in P : t \notin R
  PROVE  EvenIn(R \cup P)
<1>1. PICK t, u : /\ P = {t, u} /\ t.kind = "transfer" /\ u.kind = "transfer"
                  /\ t.amount \in Int /\ t.amount < 0 /\ u.amount = -t.amount
  BY DEF LegPair
<1> DEFINE T == TransferRows(R)
           T2 == TransferRows(R \cup P)
           neg == {x \in T : x.amount < 0}
           pos == {x \in T : x.amount > 0}
           a == t.amount
<1>2. /\ u.amount \in Int /\ u.amount > 0 /\ u.amount = -a /\ a \in Int /\ a < 0 /\ t # u
      /\ t \notin R /\ u \notin R
  BY <1>1
<1>3. T2 = T \cup {t, u} /\ t \notin T /\ u \notin T
  BY <1>1, <1>2 DEF TransferRows
<1>4. /\ {x \in T2 : x.amount < 0} = neg \cup {t} /\ t \notin neg
      /\ {x \in T2 : x.amount > 0} = pos \cup {u} /\ u \notin pos
  <2>1. t.amount < 0 /\ ~(t.amount > 0) /\ u.amount > 0 /\ ~(u.amount < 0)
    BY <1>2
  <2> HIDE DEF T, T2
  <2> QED
    BY <1>3, <2>1
<1>5. IsFiniteSet(T) /\ \A x \in T : x.amount \in Int
  <2>1. T \subseteq R
    BY DEF TransferRows
  <2> QED
    BY <2>1, FS_Subset DEF FiniteRows
<1>6. IsFiniteSet(neg) /\ IsFiniteSet(pos)
  <2>1. neg \subseteq T /\ pos \subseteq T
    OBVIOUS
  <2> HIDE DEF neg, pos, T
  <2> QED
    BY <1>5, <2>1, FS_Subset
<1>7. Cardinality(neg) = Cardinality(pos) /\ SumOf(RowAmounts(T), T) = 0
  BY DEF EvenIn
<1>8. Cardinality(neg \cup {t}) = Cardinality(pos \cup {u})
  <2> HIDE DEF neg, pos
  <2>1. /\ Cardinality(neg \cup {t}) = Cardinality(neg) + 1
        /\ Cardinality(pos \cup {u}) = Cardinality(pos) + 1
    BY <1>4, <1>6, FS_AddElement
  <2> QED
    BY <1>7, <2>1
<1> HIDE DEF T, T2
<1>9. SumOf(RowAmounts(T2), T2) = 0
  <2> DEFINE f == RowAmounts(T2)
             g == RowAmounts(T)
             T1 == T \cup {t}
  <2>1. /\ \A x \in T2 : f[x] \in Int /\ f[x] = x.amount
        /\ \A x \in T : g[x] = x.amount /\ f[x] = g[x]
        /\ f[t] = a /\ f[u] = -a
    BY <1>2, <1>3, <1>5 DEF RowAmounts
  <2>2. /\ IsFiniteSet(T1) /\ IsFiniteSet(T2) /\ T2 \ {u} = T1 /\ T1 \ {t} = T
        /\ u \in T2 /\ t \in T1 /\ T1 \subseteq T2 /\ T \subseteq T2
    BY <1>2, <1>3, <1>5, FS_AddElement
  <2> HIDE DEF f, g, T1, a
  <2>3. SumOf(f, T2) = f[u] + SumOf(f, T1)
    BY <2>1, <2>2, SumStep
  <2>4. SumOf(f, T1) = f[t] + SumOf(f, T)
    BY <2>1, <2>2, SumStep
  <2>5. SumOf(f, T) = SumOf(g, T)
    BY <1>5, <2>1, <2>2, SumSame
  <2>6. SumOf(f, T2) = -a + (a + 0)
    BY <1>7, <2>1, <2>3, <2>4, <2>5 DEF g
  <2> QED
    BY <1>2, <2>6 DEF f, a
<1> QED
  BY <1>4, <1>8, <1>9 DEF EvenIn, T2

\* Rows that keep their kind and amount count as before.
LEMMA RenamedCount ==
  ASSUME NEW R, FiniteRows(R), NEW Q, NEW g, Renames(g, R, Q),
         \A t \in R : g[t].kind = t.kind /\ g[t].amount = t.amount
  PROVE  /\ IsFiniteSet(Q)
         /\ Cardinality(ImportRows(Q)) = Cardinality(ImportRows(R))
         /\ EvenIn(R) => EvenIn(Q)
<1>1. IsFiniteSet(R) /\ \A t \in R : t.amount \in Int
  BY DEF FiniteRows
<1>2. IsFiniteSet(Q)
  BY <1>1, CountRenamed
<1>3. /\ Renames(g, ImportRows(R), ImportRows(Q))
      /\ Renames(g, TransferRows(R), TransferRows(Q))
      /\ Renames(g, {t \in TransferRows(R) : t.amount < 0}, {t \in TransferRows(Q) : t.amount < 0})
      /\ Renames(g, {t \in TransferRows(R) : t.amount > 0}, {t \in TransferRows(Q) : t.amount > 0})
  BY DEF Renames, ImportRows, TransferRows
<1>4. /\ IsFiniteSet(ImportRows(R)) /\ IsFiniteSet(TransferRows(R))
      /\ IsFiniteSet({t \in TransferRows(R) : t.amount < 0})
      /\ IsFiniteSet({t \in TransferRows(R) : t.amount > 0})
  <2>1. /\ ImportRows(R) \subseteq R /\ TransferRows(R) \subseteq R
        /\ {t \in TransferRows(R) : t.amount < 0} \subseteq R
        /\ {t \in TransferRows(R) : t.amount > 0} \subseteq R
    BY DEF ImportRows, TransferRows
  <2> QED
    BY <1>1, <2>1, FS_Subset
<1>5. /\ Cardinality(ImportRows(Q)) = Cardinality(ImportRows(R))
      /\ Cardinality({t \in TransferRows(Q) : t.amount < 0})
           = Cardinality({t \in TransferRows(R) : t.amount < 0})
      /\ Cardinality({t \in TransferRows(Q) : t.amount > 0})
           = Cardinality({t \in TransferRows(R) : t.amount > 0})
  BY <1>3, <1>4, CountRenamed
<1>6. SumOf(RowAmounts(TransferRows(R)), TransferRows(R))
        = SumOf(RowAmounts(TransferRows(Q)), TransferRows(Q))
  <2> DEFINE S == TransferRows(R)
             T == TransferRows(Q)
             e == RowAmounts(S)
             f == RowAmounts(T)
  <2>1. \A t \in S : g[t] \in T /\ t \in R
    BY <1>3 DEF Renames, TransferRows
  <2>2. \A y \in T : \E x \in S : g[x] = y
    BY <1>3 DEF Renames
  <2> HIDE DEF S, T
  <2>3. \A y \in T : f[y] \in Int
    BY <1>1, <2>1, <2>2 DEF RowAmounts
  <2>4. \A x \in S : e[x] = f[g[x]]
    BY <2>1 DEF RowAmounts
  <2>5. IsFiniteSet(S) /\ Renames(g, S, T)
    BY <1>3, <1>4 DEF S, T
  <2> HIDE DEF e, f
  <2>6. SumOf(e, S) = SumOf(f, T)
    BY <2>3, <2>4, <2>5, SumRenamed
  <2> QED
    BY <2>6 DEF e, f, S, T
<1> QED
  BY <1>2, <1>5, <1>6 DEF EvenIn

-----------------------------------------------------------------------------
(* The invariant of the bank accounts. *)

\* (For the provers "" is not known to be in STRING.)
BankRefs ==
  STRING \cup {""} \cup References \cup {t.ref \o "/out" : t \in Transfers}
         \cup {t.ref \o "/in" : t \in Transfers}
BankRow == [id : Nat, account : BankAccounts, ref : BankRefs, amount : Int, date : Nat,
            reconciled : Nat, kind : Accounting!Kinds]
BankTodo == [account : BankAccounts, ref : BankRefs, amount : Int, date : Nat]
WorkKinds == {"none", "import", "transfer", "reconcile"}
IsBankWork(w) == w \in [kind : WorkKinds, account : {w.account}, todo : {w.todo}, imported : Nat,
                        skipped : Nat, lines : {w.lines}]

BankType ==
  /\ inMemory \in BOOLEAN /\ bankId \in Nat /\ reported \in Nat
  /\ IsFiniteSet(bankRows) /\ bankRows \in SUBSET BankRow
  /\ pending \in [Requests -> SUBSET BankRow] /\ \A r \in Requests : IsFiniteSet(pending[r])
  /\ bankPc \in [Requests -> {"idle", "insert", "commit", "reconcile"}]
  /\ DOMAIN bankWork = Requests /\ \A r \in Requests : IsBankWork(bankWork[r])

\* Only a transaction holds rows that are not committed, and only PostgreSQL has any.
Writes(r) == bankPc[r] \in {"insert", "commit"}
WritesInv == \A r \in Requests :
  /\ ~Writes(r) => pending[r] = {}
  /\ Writes(r) => ~inMemory /\ bankWork[r].kind \in {"import", "transfer"}
  /\ bankPc[r] = "insert" => bankWork[r].todo \in Seq(BankTodo) /\ bankWork[r].todo # << >>

\* Ids come from one sequence, whether the row is committed or not ...
IdInv ==
  /\ \A t, u \in bankRows : t.id = u.id => t = u
  /\ \A t \in bankRows : t.id < bankId
  /\ \A r \in Requests : \A t \in pending[r] :
       /\ t.id < bankId
       /\ \A u \in bankRows : t.id # u.id
       /\ \A q \in Requests : \A u \in pending[q] : t.id = u.id => t = u /\ r = q

\* ... and so does the unique index see them all.
SameRef(t, u) == t.account = u.account /\ t.ref = u.ref /\ t.ref # ""
RefInv ==
  /\ \A t, u \in IF inMemory THEN ImportRows(bankRows) ELSE bankRows : SameRef(t, u) => t = u
  /\ \A r \in Requests : \A t \in pending[r] :
       /\ \A u \in bankRows : ~SameRef(t, u)
       /\ \A q \in Requests : \A u \in pending[q] : SameRef(t, u) => t = u /\ r = q

KeptInv == \A k \in kept : Accounting!Has(bankRows, k[1], k[2])

\* An import counts what it has inserted, and every line of its file is there, was
\* there or is still to come.
ToCome(label, w, ref) ==
  label = "insert" /\ \E j \in DOMAIN w.todo : w.todo[j].account = w.account /\ w.todo[j].ref = ref
AllLines(label, w, R) ==
  \A i \in DOMAIN w.lines :
    Accounting!Has(R, w.account, w.lines[i].ref) \/ ToCome(label, w, w.lines[i].ref)
ImportingInv == \A r \in Requests : Writes(r) /\ bankWork[r].kind = "import" =>
  /\ bankWork[r].imported = Cardinality(pending[r])
  /\ \A t \in pending[r] : t.kind = "import"
  /\ AllLines(bankPc[r], bankWork[r], bankRows \cup pending[r])

\* A transfer has none of its legs, the first, or both.
LegsLeft(label, left, held) ==
  \E a \in Int :
    /\ a > 0
    /\ \/ /\ label = "insert" /\ held = {}
          /\ Len(left) = 2 /\ left[1].amount = -a /\ left[2].amount = a
       \/ /\ label = "insert" /\ Len(left) = 1 /\ left[1].amount = a
          /\ \E t : held = {t} /\ t.kind = "transfer" /\ t.amount = -a
       \/ label = "commit" /\ LegPair(held)
MovingInv == \A r \in Requests : Writes(r) /\ bankWork[r].kind = "transfer" =>
  LegsLeft(bankPc[r], bankWork[r].todo, pending[r])

CountInv ==
  /\ EvenIn(bankRows)
  /\ IF inMemory THEN reported <= Cardinality(ImportRows(bankRows))
     ELSE reported = Cardinality(ImportRows(bankRows))

BankInv ==
  BankType /\ WritesInv /\ IdInv /\ RefInv /\ KeptInv /\ ImportingInv /\ MovingInv /\ CountInv

\* A request that writes nothing does something else, or begins to write.
LEMMA BankBegins ==
  ASSUME BankInv, NEW r \in Requests, ~Writes(r),
         UNCHANGED <<inMemory, bankRows, pending, bankId, reported, kept>>,
         NEW w, IsBankWork(w), bankWork' = [bankWork EXCEPT ![r] = w],
         NEW to \in {"insert", "commit", "reconcile"}, bankPc' = [bankPc EXCEPT ![r] = to],
         to # "reconcile" => ~inMemory /\ w.kind \in {"import", "transfer"},
         to = "insert" => w.todo \in Seq(BankTodo) /\ w.todo # << >>,
         w.kind = "import" => w.imported = 0 /\ AllLines(to, w, {}),
         w.kind = "transfer" => LegsLeft(to, w.todo, {})
  PROVE  BankInv'
<1>1. /\ bankWork'[r] = w /\ bankPc'[r] = to /\ pending[r] = {}
      /\ \A q \in Requests \ {r} : bankWork'[q] = bankWork[q] /\ bankPc'[q] = bankPc[q]
  BY DEF BankInv, BankType, WritesInv
<1>2. /\ Writes(r)' <=> to # "reconcile"
      /\ \A q \in Requests \ {r} : Writes(q)' <=> Writes(q)
  BY <1>1 DEF Writes
<1>3. BankType'
  <2>1. DOMAIN bankWork' = Requests /\ \A q \in Requests : IsBankWork(bankWork'[q])
    BY <1>1 DEF BankInv, BankType
  <2>2. bankPc' \in [Requests -> {"idle", "insert", "commit", "reconcile"}]
    BY DEF BankInv, BankType
  <2> QED
    BY <2>1, <2>2, Zenon DEF BankInv, BankType
<1>4. WritesInv'
  <2> SUFFICES ASSUME NEW q \in Requests
               PROVE  /\ ~Writes(q)' => pending[q] = {}
                      /\ Writes(q)' => ~inMemory /\ bankWork'[q].kind \in {"import", "transfer"}
                      /\ bankPc'[q] = "insert" =>
                           bankWork'[q].todo \in Seq(BankTodo) /\ bankWork'[q].todo # << >>
    BY DEF WritesInv
  <2>1. CASE q = r
    BY <1>1, <1>2, <2>1
  <2>2. CASE q # r
    BY <1>1, <1>2, <2>2 DEF BankInv, WritesInv
  <2> QED
    BY <2>1, <2>2
<1>5. IdInv' /\ RefInv' /\ KeptInv' /\ CountInv'
  BY DEF BankInv, IdInv, RefInv, KeptInv, CountInv
<1>6. ImportingInv'
  <2> SUFFICES ASSUME NEW q \in Requests, Writes(q)', bankWork'[q].kind = "import"
               PROVE  /\ bankWork'[q].imported = Cardinality(pending[q])
                      /\ \A t \in pending[q] : t.kind = "import"
                      /\ AllLines(bankPc'[q], bankWork'[q], bankRows \cup pending[q])
    BY DEF ImportingInv, AllLines, ToCome, Accounting!Has
  <2>1. CASE q = r
    <3>1. AllLines(to, w, bankRows \cup pending[r])
      BY <1>1, <2>1 DEF AllLines, Accounting!Has
    <3> QED
      BY <1>1, <2>1, <3>1, FS_EmptySet
  <2>2. CASE q # r
    BY <1>1, <1>2, <2>2 DEF BankInv, ImportingInv
  <2> QED
    BY <2>1, <2>2
<1>7. MovingInv'
  <2> SUFFICES ASSUME NEW q \in Requests, Writes(q)', bankWork'[q].kind = "transfer"
               PROVE  LegsLeft(bankPc'[q], bankWork'[q].todo, pending[q])
    BY DEF MovingInv, LegsLeft
  <2>1. CASE q = r
    BY <1>1, <2>1
  <2>2. CASE q # r
    BY <1>1, <1>2, <2>2 DEF BankInv, MovingInv
  <2> QED
    BY <2>1, <2>2
<1> QED
  BY <1>3, <1>4, <1>5, <1>6, <1>7 DEF BankInv

LEMMA NothingIsWork == IsBankWork(Accounting!NoWork)
<1> DEFINE w == Accounting!NoWork
           e == << >>
<1>1. /\ w = [kind |-> "none", account |-> 0, todo |-> e, imported |-> 0,
              skipped |-> 0, lines |-> e]
      /\ w.account = 0 /\ w.todo = e /\ w.lines = e
  BY DEF Accounting!NoWork
<1> HIDE DEF w, e
<1>2. w \in [kind : WorkKinds, account : {0}, todo : {e}, imported : Nat, skipped : Nat,
             lines : {e}]
  BY <1>1 DEF WorkKinds
<1>3. IsBankWork(w)
  BY <1>1, <1>2, Zenon DEF IsBankWork
<1> QED
  BY <1>3 DEF w

LEMMA FinishBank ==
  ASSUME BankInv, NEW r \in Requests, Accounting!Finish(r),
         UNCHANGED <<inMemory, bankRows, bankId, reported, kept>>
  PROVE  BankInv'
<1>1. /\ bankPc' = [bankPc EXCEPT ![r] = "idle"]
      /\ bankWork' = [bankWork EXCEPT ![r] = Accounting!NoWork]
      /\ pending' = [pending EXCEPT ![r] = {}]
  BY DEF Accounting!Finish, Accounting!Goto
<1>2. /\ bankPc'[r] = "idle" /\ pending'[r] = {} /\ bankWork'[r] = Accounting!NoWork
      /\ \A q \in Requests \ {r} : /\ bankWork'[q] = bankWork[q] /\ bankPc'[q] = bankPc[q]
                                   /\ pending'[q] = pending[q]
  BY <1>1 DEF BankInv, BankType
<1>3. ~Writes(r)' /\ \A q \in Requests \ {r} : Writes(q)' <=> Writes(q)
  BY <1>2 DEF Writes
<1>4. BankType'
  <2>2. DOMAIN bankWork' = Requests /\ \A q \in Requests : IsBankWork(bankWork'[q])
    BY <1>1, <1>2, NothingIsWork DEF BankInv, BankType
  <2>3. bankPc' \in [Requests -> {"idle", "insert", "commit", "reconcile"}]
    BY <1>1 DEF BankInv, BankType
  <2>4. pending' \in [Requests -> SUBSET BankRow] /\ \A q \in Requests : IsFiniteSet(pending'[q])
    BY <1>1, <1>2, FS_EmptySet DEF BankInv, BankType
  <2> QED
    BY <2>2, <2>3, <2>4, Zenon DEF BankInv, BankType
<1>5. WritesInv'
  <2> SUFFICES ASSUME NEW q \in Requests
               PROVE  /\ ~Writes(q)' => pending'[q] = {}
                      /\ Writes(q)' => ~inMemory /\ bankWork'[q].kind \in {"import", "transfer"}
                      /\ bankPc'[q] = "insert" =>
                           bankWork'[q].todo \in Seq(BankTodo) /\ bankWork'[q].todo # << >>
    BY DEF WritesInv
  <2> QED
    BY <1>2, <1>3 DEF BankInv, WritesInv
<1>6. \A q \in Requests : pending'[q] \subseteq pending[q]
  BY <1>2
<1>7. IdInv'
  BY <1>2, <1>6 DEF BankInv, IdInv
<1>8. RefInv'
  BY <1>2, <1>6 DEF BankInv, RefInv
<1>9. KeptInv' /\ CountInv'
  BY DEF BankInv, KeptInv, CountInv
<1>10. ImportingInv'
  <2> SUFFICES ASSUME NEW q \in Requests, Writes(q)', bankWork'[q].kind = "import"
               PROVE  /\ bankWork'[q].imported = Cardinality(pending'[q])
                      /\ \A t \in pending'[q] : t.kind = "import"
                      /\ AllLines(bankPc'[q], bankWork'[q], bankRows \cup pending'[q])
    BY DEF ImportingInv, AllLines, ToCome, Accounting!Has
  <2> QED
    BY <1>2, <1>3 DEF BankInv, ImportingInv
<1>11. MovingInv'
  <2> SUFFICES ASSUME NEW q \in Requests, Writes(q)', bankWork'[q].kind = "transfer"
               PROVE  LegsLeft(bankPc'[q], bankWork'[q].todo, pending'[q])
    BY DEF MovingInv, LegsLeft
  <2> QED
    BY <1>2, <1>3 DEF BankInv, MovingInv
<1> QED
  BY <1>4, <1>5, <1>7, <1>8, <1>9, <1>10, <1>11 DEF BankInv

-----------------------------------------------------------------------------
(* What requests begin. *)

LEMMA WorkIs ==
  ASSUME NEW k \in WorkKinds, NEW a, NEW e, NEW n \in Nat, NEW m \in Nat, NEW l,
         NEW w, w \in [kind : {k}, account : {a}, todo : {e}, imported : {n}, skipped : {m},
                       lines : {l}]
  PROVE  /\ IsBankWork(w) /\ w.kind = k /\ w.account = a /\ w.todo = e /\ w.imported = n
         /\ w.lines = l /\ w.skipped = m
<1>1. /\ w.kind = k /\ w.account = a /\ w.todo = e /\ w.imported = n /\ w.lines = l
      /\ w.skipped = m
  OBVIOUS
<1>2. w \in [kind : WorkKinds, account : {a}, todo : {e}, imported : Nat, skipped : Nat,
             lines : {l}]
  OBVIOUS
<1>3. IsBankWork(w)
  BY <1>1, <1>2, Zenon DEF IsBankWork
<1> QED
  BY <1>1, <1>3

LEMMA FileToInsert ==
  ASSUME NEW s \in Statements
  PROVE  /\ Accounting!ToInsert(s) \in Seq(BankTodo)
         /\ DOMAIN Accounting!ToInsert(s) = 1 .. Len(s.entries)
         /\ \A i \in 1 .. Len(s.entries) :
              /\ Accounting!ToInsert(s)[i].account = s.account
              /\ Accounting!ToInsert(s)[i].ref = Accounting!LinesOf(s)[i].ref
<1> DEFINE n == Len(s.entries)
           e == Accounting!ToInsert(s)
           L(i) == Accounting!LineOf(s, i)
<1>1. /\ s.account \in BankAccounts /\ n \in Nat /\ DOMAIN s.entries = 1 .. n
      /\ \A i \in 1 .. n : Accounting!LinesOf(s)[i] = L(i) /\ L(i) \in BankLine
  BY FilesHoldLines
<1>2. /\ DOMAIN e = DOMAIN s.entries /\ e = [i \in DOMAIN s.entries |-> e[i]]
      /\ \A i \in DOMAIN s.entries :
           e[i] = [account |-> s.account, ref |-> L(i).ref, amount |-> L(i).amount,
                   date |-> L(i).date]
  BY DEF Accounting!ToInsert
<1> HIDE DEF e, n, L
<1>3. \A i \in 1 .. n : e[i] \in BankTodo /\ e[i].account = s.account /\ e[i].ref = L(i).ref
  <2> TAKE i \in 1 .. n
  <2>1. /\ L(i).ref \in BankRefs /\ L(i).amount \in Int /\ L(i).date \in Nat
        /\ e[i] = [account |-> s.account, ref |-> L(i).ref, amount |-> L(i).amount,
                   date |-> L(i).date]
    BY <1>1, <1>2 DEF BankLine, BankRefs
  <2> QED
    BY <1>1, <2>1 DEF BankTodo
<1>4. e \in Seq(BankTodo)
  <2>1. e \in [1 .. n -> BankTodo]
    BY <1>1, <1>2, <1>3
  <2> QED
    BY <1>1, <2>1
<1> QED
  BY <1>1, <1>2, <1>3, <1>4 DEF e, n

\* A file without lines has only the transaction to end.
LEMMA StartImportStep ==
  ASSUME BankInv, NEW r \in Requests, NEW s \in Statements, Accounting!StartImport(r, s)
  PROVE  BankInv'
<1> DEFINE w == [Accounting!NoWork EXCEPT !.kind = "import", !.lines = Accounting!LinesOf(s),
                   !.account = s.account, !.todo = Accounting!ToInsert(s)]
           to == IF s.entries = << >> THEN "commit" ELSE "insert"
           e == Accounting!ToInsert(s)
           l == Accounting!LinesOf(s)
           n == Len(s.entries)
<1>1. /\ bankPc[r] = "idle" /\ ~inMemory
      /\ UNCHANGED <<inMemory, bankRows, pending, bankId, reported, kept>>
      /\ bankWork' = [bankWork EXCEPT ![r] = w] /\ bankPc' = [bankPc EXCEPT ![r] = to]
  BY DEF Accounting!StartImport, Accounting!Goto
<1>2. /\ e \in Seq(BankTodo) /\ DOMAIN e = 1 .. n /\ n \in Nat /\ DOMAIN l = 1 .. n
      /\ \A i \in 1 .. n : e[i].account = s.account /\ e[i].ref = l[i].ref
  BY FileToInsert, FilesHoldLines
<1>3. (s.entries = << >>) <=> n = 0
  BY FilesHoldLines
<1>4. w \in [kind : {"import"}, account : {s.account}, todo : {e}, imported : {0}, skipped : {0},
             lines : {l}]
  BY DEF Accounting!NoWork
<1> HIDE DEF w, e, l
<1>5. /\ IsBankWork(w) /\ w.kind = "import" /\ w.account = s.account /\ w.todo = e
      /\ w.imported = 0 /\ w.lines = l
  <2>1. "import" \in WorkKinds
    BY DEF WorkKinds
  <2> QED
    BY <1>4, <2>1, WorkIs
<1>6. ~Writes(r) /\ to \in {"insert", "commit", "reconcile"} /\ to # "reconcile"
  BY <1>1 DEF Writes
<1>7. to = "insert" => w.todo \in Seq(BankTodo) /\ w.todo # << >>
  <2> SUFFICES ASSUME n # 0 PROVE e \in Seq(BankTodo) /\ e # << >>
    BY <1>3, <1>5
  <2>1. 1 \in DOMAIN e
    BY <1>2
  <2> QED
    BY <1>2, <2>1
<1>8. AllLines(to, w, {})
  <2> SUFFICES ASSUME NEW i \in DOMAIN w.lines PROVE ToCome(to, w, w.lines[i].ref)
    BY DEF AllLines
  <2>1. i \in 1 .. n /\ n # 0
    BY <1>2, <1>5
  <2>2. to = "insert"
    BY <1>3, <2>1
  <2>3. i \in DOMAIN w.todo /\ w.todo[i].account = w.account /\ w.todo[i].ref = w.lines[i].ref
    BY <1>2, <1>5, <2>1
  <2> HIDE DEF to
  <2> QED
    BY <2>2, <2>3 DEF ToCome
<1> HIDE DEF to
<1> QED
  BY <1>1, <1>5, <1>6, <1>7, <1>8, BankBegins

LEMMA LegsOfTransfer ==
  ASSUME NEW t \in Transfers, Accounting!Valid(t)
  PROVE  /\ Accounting!LegsOf(t) \in Seq(BankTodo) /\ Len(Accounting!LegsOf(t)) = 2
         /\ Accounting!LegsOf(t)[1].amount = -t.amount /\ Accounting!LegsOf(t)[2].amount = t.amount
         /\ t.amount \in Int /\ t.amount > 0
<1> DEFINE x == [account |-> t.from, amount |-> -t.amount, date |-> 1,
                 ref |-> IF t.ref = "" THEN "" ELSE t.ref \o "/out"]
           y == [account |-> t.to, amount |-> t.amount, date |-> 1,
                 ref |-> IF t.ref = "" THEN "" ELSE t.ref \o "/in"]
<1>1. t.amount \in Int /\ t.amount > 0 /\ t.from \in BankAccounts /\ t.to \in BankAccounts
  BY BankAssumption DEF Accounting!ConstantsOK, Accounting!Valid
<1>2. Accounting!LegsOf(t) = <<x, y>>
  BY DEF Accounting!LegsOf, Accounting!None
<1>3. x.amount = -t.amount /\ y.amount = t.amount
  OBVIOUS
<1>4. x \in BankTodo
  <2> DEFINE ref == IF t.ref = "" THEN "" ELSE t.ref \o "/out"
  <2>1. ref \in BankRefs
    BY DEF BankRefs
  <2>2. -t.amount \in Int /\ 1 \in Nat
    BY <1>1
  <2> HIDE DEF ref
  <2>3. [account |-> t.from, amount |-> -t.amount, date |-> 1, ref |-> ref] \in BankTodo
    BY <1>1, <2>1, <2>2 DEF BankTodo
  <2> QED
    BY <2>3 DEF ref
<1>5. y \in BankTodo
  <2> DEFINE ref == IF t.ref = "" THEN "" ELSE t.ref \o "/in"
  <2>1. ref \in BankRefs
    BY DEF BankRefs
  <2> HIDE DEF ref
  <2>2. [account |-> t.to, amount |-> t.amount, date |-> 1, ref |-> ref] \in BankTodo
    BY <1>1, <2>1 DEF BankTodo
  <2> QED
    BY <2>2 DEF ref
<1> HIDE DEF x, y
<1>6. <<x, y>> \in Seq(BankTodo) /\ Len(<<x, y>>) = 2 /\ <<x, y>>[1] = x /\ <<x, y>>[2] = y
  BY <1>4, <1>5
<1> QED
  BY <1>1, <1>2, <1>3, <1>6

LEMMA StartTransferStep ==
  ASSUME BankInv, NEW r \in Requests, NEW t \in Transfers, Accounting!StartTransfer(r, t)
  PROVE  BankInv'
<1> DEFINE e == Accounting!LegsOf(t)
           w == [Accounting!NoWork EXCEPT !.kind = "transfer", !.todo = e]
           to == "insert"
           l == << >>
<1>1. /\ bankPc[r] = "idle" /\ ~inMemory /\ Accounting!Valid(t)
      /\ UNCHANGED <<inMemory, bankRows, pending, bankId, reported, kept>>
      /\ bankWork' = [bankWork EXCEPT ![r] = w] /\ bankPc' = [bankPc EXCEPT ![r] = to]
  BY DEF Accounting!StartTransfer, Accounting!Goto
<1>2. /\ e \in Seq(BankTodo) /\ Len(e) = 2 /\ e[1].amount = -t.amount /\ e[2].amount = t.amount
      /\ t.amount \in Int /\ t.amount > 0
  BY <1>1, LegsOfTransfer
<1>3. w \in [kind : {"transfer"}, account : {0}, todo : {e}, imported : {0}, skipped : {0},
             lines : {l}]
  BY DEF Accounting!NoWork
<1> HIDE DEF w, e, l
<1>4. IsBankWork(w) /\ w.kind = "transfer" /\ w.todo = e
  <2>1. "transfer" \in WorkKinds
    BY DEF WorkKinds
  <2> QED
    BY <1>3, <2>1, WorkIs
<1>5. ~Writes(r) /\ to \in {"insert", "commit", "reconcile"} /\ to # "reconcile"
  BY <1>1 DEF Writes
<1>6. w.todo \in Seq(BankTodo) /\ w.todo # << >>
  <2>1. 1 \in DOMAIN e
    BY <1>2
  <2>2. e # << >>
    BY <2>1
  <2> QED
    BY <1>2, <1>4, <2>2
<1>7. LegsLeft(to, w.todo, {})
  BY <1>2, <1>4 DEF LegsLeft
<1> HIDE DEF to
<1> QED
  BY <1>1, <1>4, <1>5, <1>6, <1>7, BankBegins

LEMMA ReconcileMatchStep ==
  ASSUME BankInv, NEW r \in Requests, NEW s, Accounting!ReconcileMatch(r, s, 1)
  PROVE  BankInv'
<1> DEFINE Matched(e) == [Accounting!NoWork EXCEPT !.kind = "reconcile", !.todo = e]
           to == "reconcile"
           l == << >>
<1>1. \E e : /\ bankPc[r] = "idle"
             /\ UNCHANGED <<inMemory, bankRows, pending, bankId, reported, kept>>
             /\ bankWork' = [bankWork EXCEPT ![r] = Matched(e)]
             /\ bankPc' = [bankPc EXCEPT ![r] = to]
  BY DEF Accounting!ReconcileMatch, Accounting!Goto
<1>2. PICK e : /\ bankPc[r] = "idle"
               /\ UNCHANGED <<inMemory, bankRows, pending, bankId, reported, kept>>
               /\ bankWork' = [bankWork EXCEPT ![r] = Matched(e)]
               /\ bankPc' = [bankPc EXCEPT ![r] = to]
  BY <1>1
<1> DEFINE w == Matched(e)
<1>3. w \in [kind : {"reconcile"}, account : {0}, todo : {e}, imported : {0}, skipped : {0},
             lines : {l}]
  BY DEF Accounting!NoWork
<1>4. bankWork' = [bankWork EXCEPT ![r] = w]
  BY <1>2
<1> HIDE DEF w, l
<1>5. IsBankWork(w) /\ w.kind = "reconcile"
  <2>1. "reconcile" \in WorkKinds
    BY DEF WorkKinds
  <2> QED
    BY <1>3, <2>1, WorkIs
<1>6. ~Writes(r) /\ to \in {"insert", "commit", "reconcile"} /\ w.kind # "import" /\ w.kind # "transfer"
  BY <1>2, <1>5 DEF Writes
<1>7. to # "insert" /\ to = "reconcile" /\ bankPc' = [bankPc EXCEPT ![r] = to]
  BY <1>2
<1> HIDE DEF to
<1> QED
  BY <1>2, <1>4, <1>5, <1>6, <1>7, BankBegins

-----------------------------------------------------------------------------
(* The store in memory: each call puts its rows at once. *)

LEMMA BankInMemory ==
  ASSUME BankInv, inMemory, UNCHANGED <<inMemory, pending, bankPc, bankWork>>,
         NEW P, IsFiniteSet(P), P \in SUBSET BankRow, bankRows' = bankRows \cup P,
         bankId' \in Nat, bankId <= bankId', reported' \in Nat,
         \A t \in P : bankId <= t.id /\ t.id < bankId',
         \A t, u \in P : t.id = u.id => t = u,
         \A t \in ImportRows(P) : \A u \in ImportRows(bankRows \cup P) : SameRef(t, u) => t = u,
         \A k \in kept' : Accounting!Has(bankRows', k[1], k[2]),
         EvenIn(bankRows'), reported' <= Cardinality(ImportRows(bankRows'))
  PROVE  BankInv'
<1>1. \A r \in Requests : ~Writes(r) /\ pending[r] = {}
  BY DEF BankInv, WritesInv
<1>2. BankType'
  <2>1. IsFiniteSet(bankRows') /\ bankRows' \in SUBSET BankRow
    BY FS_Union DEF BankInv, BankType
  <2> QED
    BY <2>1 DEF BankInv, BankType
<1>3. WritesInv'
  BY <1>1 DEF BankInv, WritesInv, Writes
<1>4. IdInv'
  <2>1. \A t \in bankRows : t.id < bankId /\ t.id \in Nat
    BY DEF BankInv, IdInv, BankType, BankRow
  <2>2. bankId \in Nat /\ \A t \in P : t.id \in Nat
    BY DEF BankInv, BankType, BankRow
  <2>3. \A t \in bankRows' : t.id < bankId'
    BY <2>1, <2>2
  <2>4. \A t \in bankRows : \A u \in P : t.id # u.id
    BY <2>1, <2>2
  <2>5. \A t, u \in bankRows' : t.id = u.id => t = u
    BY <2>4 DEF BankInv, IdInv
  <2> QED
    BY <1>1, <2>3, <2>5 DEF IdInv
<1>5. RefInv'
  <2>1. \A t, u \in ImportRows(bankRows) : SameRef(t, u) => t = u
    BY DEF BankInv, RefInv
  <2>2. \A t, u : SameRef(t, u) => SameRef(u, t)
    BY DEF SameRef
  <2>3. ImportRows(bankRows') = ImportRows(bankRows) \cup ImportRows(P)
    BY DEF ImportRows
  <2>4. \A t, u \in ImportRows(bankRows') : SameRef(t, u) => t = u
    BY ZenonT(60), <2>1, <2>2, <2>3
  <2>5. \A r \in Requests : pending'[r] = {}
    BY <1>1
  <2> QED
    BY <2>4, <2>5 DEF RefInv, SameRef
<1>6. KeptInv' /\ CountInv'
  BY DEF KeptInv, CountInv, Accounting!Has
<1>7. ImportingInv' /\ MovingInv'
  BY <1>1 DEF ImportingInv, MovingInv, Writes
<1> QED
  BY <1>2, <1>3, <1>4, <1>5, <1>6, <1>7 DEF BankInv

LEMMA RowIs ==
  ASSUME NEW l, NEW a, NEW k, NEW n
  PROVE  [Accounting!NewRow(l, a, k) EXCEPT !.id = n]
           = [id |-> n, account |-> a, ref |-> l.ref, amount |-> l.amount, date |-> l.date,
              reconciled |-> 0, kind |-> k]
BY DEF Accounting!NewRow

\* What has been kept stays.
LEMMA KeptStays ==
  ASSUME KeptInv, NEW P
  PROVE  \A k \in kept : Accounting!Has(bankRows \cup P, k[1], k[2])
BY DEF KeptInv, Accounting!Has

LEMMA RecordInMemoryStep ==
  ASSUME BankInv, NEW a \in BankAccounts, NEW ref \in References,
         Accounting!RecordInMemory(a, ref)
  PROVE  BankInv'
<1> DEFINE row == [id |-> bankId, account |-> a, ref |-> ref, amount |-> 1, date |-> 1,
                   reconciled |-> 0, kind |-> "record"]
           P == {row}
<1>1. /\ inMemory /\ UNCHANGED <<inMemory, pending, reported, kept, bankPc, bankWork>>
      /\ bankRows' = bankRows \cup {row} /\ bankId' = bankId + 1
  BY DEF Accounting!RecordInMemory, Accounting!NewRow
<1>2. bankId \in Nat /\ reported \in Nat
  BY DEF BankInv, BankType
<1>3. row \in BankRow
  <2>1. ref \in BankRefs
    BY DEF BankRefs
  <2> QED
    BY <1>2, <2>1 DEF BankRow, Accounting!Kinds
<1>4. row.id = bankId /\ row.kind = "record"
  OBVIOUS
<1> HIDE DEF row
<1>5. IsFiniteSet(P) /\ P \in SUBSET BankRow /\ bankRows' = bankRows \cup P
  BY <1>1, <1>3, FS_Singleton
<1>6. /\ \A t \in P : bankId <= t.id /\ t.id < bankId'
      /\ \A t, u \in P : t.id = u.id => t = u
  BY <1>1, <1>2, <1>4
<1>7. ImportRows(P) = {} /\ ImportRows(bankRows \cup P) = ImportRows(bankRows)
  BY <1>4 DEF ImportRows
<1>8. EvenIn(bankRows')
  BY <1>1, <1>4, EvenStays DEF BankInv, CountInv
<1>9. reported' <= Cardinality(ImportRows(bankRows'))
  BY <1>1, <1>7 DEF BankInv, CountInv
<1>10. \A k \in kept' : Accounting!Has(bankRows', k[1], k[2])
  BY <1>1, KeptStays DEF BankInv
<1> HIDE DEF P
<1> QED
  BY <1>1, <1>2, <1>5, <1>6, <1>7, <1>8, <1>9, <1>10, BankInMemory

LEMMA TransferInMemoryStep ==
  ASSUME BankInv, NEW t \in Transfers, Accounting!TransferInMemory(t)
  PROVE  BankInv'
<1> DEFINE e == Accounting!LegsOf(t)
           RowAt(l, n) == [id |-> n, account |-> l.account, ref |-> l.ref, amount |-> l.amount,
                           date |-> l.date, reconciled |-> 0, kind |-> "transfer"]
           x == RowAt(e[1], bankId)
           y == RowAt(e[2], bankId + 1)
           P == {x, y}
<1>1. /\ inMemory /\ UNCHANGED <<inMemory, pending, reported, kept, bankPc, bankWork>>
      /\ Accounting!Valid(t) /\ bankId' = bankId + 2
      /\ bankRows' = bankRows \cup {[Accounting!NewRow(e[i], e[i].account, "transfer")
                                       EXCEPT !.id = bankId + i - 1] : i \in {1, 2}}
  BY DEF Accounting!TransferInMemory
<1>2. bankId \in Nat /\ reported \in Nat /\ bankId + 1 - 1 = bankId /\ bankId + 2 - 1 = bankId + 1
  BY DEF BankInv, BankType
<1>3. {[Accounting!NewRow(e[i], e[i].account, "transfer") EXCEPT !.id = bankId + i - 1]
          : i \in {1, 2}} = P
  <2>1. \A i \in {1, 2} :
          [Accounting!NewRow(e[i], e[i].account, "transfer") EXCEPT !.id = bankId + i - 1]
            = RowAt(e[i], bankId + i - 1)
    BY RowIs
  <2>2. /\ RowAt(e[1], bankId + 1 - 1) = x /\ RowAt(e[2], bankId + 2 - 1) = y
    BY <1>2
  <2> HIDE DEF RowAt, x, y, e
  <2> QED
    BY <2>1, <2>2
<1>4. /\ e \in Seq(BankTodo) /\ Len(e) = 2 /\ e[1].amount = -t.amount /\ e[2].amount = t.amount
      /\ t.amount \in Int /\ t.amount > 0
  BY <1>1, LegsOfTransfer
<1>5. e[1] \in BankTodo /\ e[2] \in BankTodo
  <2>1. e \in Seq(BankTodo) /\ 1 \in 1 .. Len(e) /\ 2 \in 1 .. Len(e)
    BY <1>4
  <2> HIDE DEF e
  <2> QED
    BY <2>1
<1>6. /\ x.id = bankId /\ x.kind = "transfer" /\ x.amount = e[1].amount
      /\ y.id = bankId + 1 /\ y.kind = "transfer" /\ y.amount = e[2].amount
  OBVIOUS
<1>7. x \in BankRow /\ y \in BankRow
  <2> HIDE DEF e
  <2> QED
    BY <1>2, <1>5 DEF BankTodo, BankRow, Accounting!Kinds
<1> HIDE DEF x, y, e
<1>8. bankRows' = bankRows \cup P
  BY <1>1, <1>3
<1>9. IsFiniteSet(P) /\ P \in SUBSET BankRow
  <2>1. IsFiniteSet({x}) /\ IsFiniteSet({x} \cup {y}) /\ {x} \cup {y} = P
    BY FS_Singleton, FS_AddElement
  <2> QED
    BY <1>7, <2>1
<1>10. /\ \A l \in P : bankId <= l.id /\ l.id < bankId'
       /\ \A l, u \in P : l.id = u.id => l = u
  BY <1>1, <1>2, <1>6
<1>11. ImportRows(P) = {} /\ ImportRows(bankRows \cup P) = ImportRows(bankRows)
  BY <1>6 DEF ImportRows
<1>12. LegPair(P)
  <2>1. x.amount \in Int /\ x.amount < 0 /\ y.amount = -x.amount
    BY <1>4, <1>6
  <2> QED
    BY <1>6, <2>1 DEF LegPair
<1>13. EvenIn(bankRows')
  <2>1. \A l \in P : l \notin bankRows
    <3>1. \A u \in bankRows : u.id < bankId /\ u.id \in Nat
      BY DEF BankInv, IdInv, BankType, BankRow
    <3> QED
      BY <1>2, <1>6, <3>1
  <2>2. FiniteRows(bankRows) /\ EvenIn(bankRows)
    BY DEF BankInv, BankType, BankRow, FiniteRows, CountInv
  <2> HIDE DEF P
  <2> QED
    BY <1>8, <1>12, <2>1, <2>2, EvenAdds
<1>14. reported' <= Cardinality(ImportRows(bankRows'))
  <2>1. reported <= Cardinality(ImportRows(bankRows))
    BY <1>1 DEF BankInv, CountInv
  <2>2. ImportRows(bankRows') = ImportRows(bankRows) /\ reported' = reported
    BY <1>1, <1>8, <1>11
  <2> QED
    BY <2>1, <2>2
<1>15. \A k \in kept' : Accounting!Has(bankRows', k[1], k[2])
  BY ZenonT(60), <1>1, <1>8, KeptStays DEF BankInv
<1>16. bankId' \in Nat /\ bankId <= bankId' /\ reported' \in Nat
  BY <1>1, <1>2
<1> HIDE DEF P
<1> QED
  BY <1>1, <1>8, <1>9, <1>10, <1>11, <1>13, <1>14, <1>15, <1>16, BankInMemory

\* The rows of an import in memory, numbered on from the last.
PutRow(a, l, n) ==
  [id |-> n, account |-> a, ref |-> l.ref, amount |-> l.amount, date |-> l.date,
   reconciled |-> 0, kind |-> "import"]

LEMMA PutRowIs ==
  ASSUME NEW a \in BankAccounts, NEW l \in BankLine, NEW n \in Nat
  PROVE  /\ PutRow(a, l, n) \in BankRow
         /\ PutRow(a, l, n).id = n /\ PutRow(a, l, n).account = a /\ PutRow(a, l, n).ref = l.ref
         /\ PutRow(a, l, n).kind = "import"
<1>1. l.ref \in BankRefs /\ l.amount \in Int /\ l.date \in Nat
  BY DEF BankLine, BankRefs
<1> QED
  BY <1>1 DEF PutRow, BankRow, Accounting!Kinds

LEMMA ImportInMemoryStep ==
  ASSUME BankInv, NEW s \in Statements, Accounting!ImportInMemory(s)
  PROVE  BankInv'
<1> DEFINE got == Accounting!PutLines(s)
           put == got.put
           a == s.account
           n == Len(s.entries)
           lines == Accounting!LinesOf(s)
           before == Accounting!RefsOf(a)
           D == DOMAIN put
           f == [i \in D |-> PutRow(a, put[i], bankId + i - 1)]
           P == {f[i] : i \in D}
           N == Cardinality(ImportRows(bankRows))
           M == Len(put)
<1>1. /\ inMemory /\ UNCHANGED <<inMemory, pending, bankPc, bankWork>>
      /\ bankRows' = bankRows \cup {[Accounting!NewRow(put[i], a, "import")
                                       EXCEPT !.id = bankId + i - 1] : i \in D}
      /\ bankId' = bankId + M
      /\ reported' = IF got.refused THEN reported ELSE reported + M
      /\ kept' = IF got.refused THEN kept
                 ELSE kept \cup {<<a, l.ref>> : l \in Accounting!ToSet(lines)}
  BY DEF Accounting!ImportInMemory
<1>2. /\ a \in BankAccounts /\ n \in Nat /\ DOMAIN lines = 1 .. n
      /\ PutInv(got, lines, before, n)
  BY FilesHoldLines, PutLinesPut
<1>3. bankId \in Nat /\ reported \in Nat /\ IsFiniteSet(bankRows)
  BY DEF BankInv, BankType
<1>4. {[Accounting!NewRow(put[i], a, "import") EXCEPT !.id = bankId + i - 1] : i \in D} = P
  <2>1. \A i \in D : [Accounting!NewRow(put[i], a, "import") EXCEPT !.id = bankId + i - 1] = f[i]
    BY RowIs DEF PutRow
  <2> HIDE DEF f, D, put
  <2> QED
    BY <2>1
<1> HIDE DEF got, lines, before
<1>5. /\ got.refused \in BOOLEAN /\ put \in Seq(BankLine)
      /\ PutOnce(got.seen, put, before)
      /\ ~got.refused => PutAll(put, lines, before, n)
  BY <1>2 DEF PutInv
<1> HIDE DEF put
<1>6. M \in Nat /\ D = 1 .. M /\ \A i \in D : put[i] \in BankLine
  BY <1>5
<1>7. IsFiniteSet(D) /\ Cardinality(D) = M
  <2>1. IsFiniteSet(1 .. M) /\ Cardinality(1 .. M) = IF 1 > M THEN 0 ELSE M - 1 + 1
    BY <1>6, FS_Interval
  <2> HIDE DEF M, D
  <2> QED
    BY <1>6, <2>1
<1>8. \A i \in D : /\ i \in Nat /\ 1 <= i /\ i <= M
                   /\ bankId + i - 1 \in Nat /\ bankId <= bankId + i - 1
                   /\ bankId + i - 1 < bankId + M
  BY <1>3, <1>6
<1> HIDE DEF D, M
<1>9. \A i \in D : /\ f[i] \in BankRow /\ f[i].id = bankId + i - 1 /\ f[i].account = a
                   /\ f[i].ref = put[i].ref /\ f[i].kind = "import"
  BY <1>2, <1>6, <1>8, PutRowIs
<1> HIDE DEF f
<1>10. \A i, j \in D : f[i].id = f[j].id => i = j
  <2> SUFFICES ASSUME NEW i \in D, NEW j \in D, f[i].id = f[j].id PROVE i = j
    OBVIOUS
  <2>1. bankId + i - 1 = bankId + j - 1 /\ i \in Nat /\ j \in Nat
    BY <1>8, <1>9
  <2> QED
    BY <1>3, <2>1
<1>11. IsFiniteSet(P) /\ Cardinality(P) = M
  <2>1. Renames(f, D, P)
    BY <1>10 DEF Renames
  <2> HIDE DEF P
  <2> QED
    BY <1>7, <2>1, CountRenamed
<1>12. /\ P \in SUBSET BankRow /\ \A t \in P : t.kind = "import"
       /\ \A t \in P : bankId <= t.id /\ t.id < bankId'
       /\ \A t, u \in P : t.id = u.id => t = u
  <2>1. \A t \in P : t \in BankRow /\ t.kind = "import" /\ bankId <= t.id /\ t.id < bankId'
    BY <1>1, <1>8, <1>9
  <2>2. \A t, u \in P : t.id = u.id => t = u
    BY <1>10
  <2> HIDE DEF P
  <2> QED
    BY <2>1, <2>2
<1>13. ASSUME NEW t \in ImportRows(P), NEW u \in ImportRows(bankRows \cup P), SameRef(t, u)
       PROVE  t = u
  <2>1. PICK i \in D : t = f[i]
    BY DEF ImportRows
  <2>2. t.account = a /\ t.ref = put[i].ref /\ t.ref # "" /\ u.account = a /\ u.ref = t.ref
    BY <1>9, <1>13, <2>1 DEF SameRef
  <2>3. put[i].ref \notin before
    BY <1>5, <2>1 DEF PutOnce, D
  <2>4. u \notin bankRows
    <3> SUFFICES ASSUME u \in bankRows PROVE u.ref \in before
      BY <2>2, <2>3
    <3> QED
      BY <2>2 DEF before, Accounting!RefsOf, Accounting!RowsOf, Accounting!None
  <2>5. PICK j \in D : u = f[j]
    BY <2>4 DEF ImportRows
  <2>6. put[j].ref = put[i].ref
    BY <1>9, <2>2, <2>5
  <2>7. i = j
    BY <1>5, <2>2, <2>6 DEF PutOnce, D
  <2> QED
    BY <2>1, <2>5, <2>7
<1>14. \A k \in kept' : Accounting!Has(bankRows \cup P, k[1], k[2])
  <2>1. \A k \in kept : Accounting!Has(bankRows \cup P, k[1], k[2])
    BY KeptStays DEF BankInv
  <2>2. CASE got.refused
    BY <1>1, <2>1, <2>2
  <2>3. CASE ~got.refused
    <3>1. ASSUME NEW l \in Accounting!ToSet(lines)
          PROVE  Accounting!Has(bankRows \cup P, a, l.ref)
      <4>1. PICK i \in 1 .. n : l = lines[i]
        BY <1>2 DEF Accounting!ToSet
      <4>2. CASE l.ref \in before
        <5>1. PICK t \in bankRows : t.account = a /\ t.ref = l.ref
          BY <4>2 DEF before, Accounting!RefsOf, Accounting!RowsOf
        <5> QED
          BY <5>1 DEF Accounting!Has
      <4>3. CASE l.ref \notin before
        <5>1. PICK j \in D : put[j].ref = l.ref
          BY <1>5, <2>3, <4>1, <4>3 DEF PutAll, D
        <5>2. f[j] \in P /\ f[j].account = a /\ f[j].ref = l.ref
          BY <1>9, <5>1
        <5> QED
          BY <5>2 DEF Accounting!Has
      <4> QED
        BY <4>2, <4>3
    <3>2. \A k \in {<<a, l.ref>> : l \in Accounting!ToSet(lines)} :
            Accounting!Has(bankRows \cup P, k[1], k[2])
      <4> HIDE DEF a, P
      <4> SUFFICES ASSUME NEW l \in Accounting!ToSet(lines)
                   PROVE  Accounting!Has(bankRows \cup P, <<a, l.ref>>[1], <<a, l.ref>>[2])
        OBVIOUS
      <4> QED
        BY <3>1
    <3> QED
      BY <1>1, <2>1, <2>3, <3>2
  <2> QED
    BY <2>2, <2>3
<1>15. EvenIn(bankRows \cup P)
  BY <1>12, EvenStays DEF BankInv, CountInv
<1>16. N \in Nat /\ Cardinality(ImportRows(bankRows \cup P)) = N + M
  <2>1. \A t \in P : t \notin bankRows
    <3>1. \A u \in bankRows : u.id < bankId /\ u.id \in Nat
      BY DEF BankInv, IdInv, BankType, BankRow
    <3>2. \A t \in P : t.id \in Nat
      BY <1>12 DEF BankRow
    <3> QED
      BY <1>3, <1>12, <3>1, <3>2
  <2> HIDE DEF P
  <2> QED
    BY <1>3, <1>11, <1>12, <2>1, ImportsCount
<1> HIDE DEF P, N
<1>17. bankRows' = bankRows \cup P
  BY <1>1, <1>4
<1>18. /\ bankId' \in Nat /\ bankId <= bankId' /\ reported' \in Nat
       /\ reported' <= Cardinality(ImportRows(bankRows'))
  <2>1. reported <= N
    BY <1>1 DEF BankInv, CountInv, N
  <2>2. M \in Nat /\ bankId' = bankId + M /\ (reported' = reported \/ reported' = reported + M)
    BY <1>1, <1>6
  <2> QED
    BY <1>3, <1>16, <1>17, <2>1, <2>2
<1> QED
  BY <1>1, <1>11, <1>12, <1>13, <1>14, <1>15, <1>17, <1>18, BankInMemory

-----------------------------------------------------------------------------
(* A row recorded on the pool, while transactions insert theirs. *)

\* The unique index has the reference of no row, committed or not.
LEMMA NobodyHas ==
  ASSUME NEW r \in Requests, NEW a, NEW ref,
         ~Accounting!Waits(r, a, ref), ~Accounting!Taken(r, a, ref), NEW t,
         t.account = a, t.ref = ref
  PROVE  /\ \A u \in bankRows : ~SameRef(t, u) /\ ~SameRef(u, t)
         /\ \A q \in Requests : \A u \in pending[q] : ~SameRef(t, u) /\ ~SameRef(u, t)
<1>1. ref # "" => /\ \A u \in bankRows \cup pending[r] : ~(u.account = a /\ u.ref = ref)
                  /\ \A q \in Requests \ {r} : \A u \in pending[q] : ~(u.account = a /\ u.ref = ref)
  BY DEF Accounting!Waits, Accounting!Taken, Accounting!Has, Accounting!None
<1> QED
  BY <1>1 DEF SameRef

LEMMA RecordTransactionStep ==
  ASSUME BankInv, NEW r \in Requests, NEW a \in BankAccounts, NEW ref \in References,
         Accounting!RecordTransaction(r, a, ref)
  PROVE  BankInv'
<1> DEFINE row == [id |-> bankId, account |-> a, ref |-> ref, amount |-> 1, date |-> 1,
                   reconciled |-> 0, kind |-> "record"]
           P == {row}
<1>1. /\ ~inMemory /\ UNCHANGED <<inMemory, pending, reported, kept, bankPc, bankWork>>
      /\ ~Accounting!Waits(r, a, ref) /\ ~Accounting!Taken(r, a, ref)
      /\ bankRows' = bankRows \cup {row} /\ bankId' = bankId + 1
  BY DEF Accounting!RecordTransaction, Accounting!NewRow
<1>2. bankId \in Nat /\ reported \in Nat /\ IsFiniteSet(bankRows)
  BY DEF BankInv, BankType
<1>3. row \in BankRow
  <2>1. ref \in BankRefs
    BY DEF BankRefs
  <2> QED
    BY <1>2, <2>1 DEF BankRow, Accounting!Kinds
<1>4. row.id = bankId /\ row.kind = "record" /\ row.account = a /\ row.ref = ref
  OBVIOUS
<1> HIDE DEF row
<1>5. /\ \A u \in bankRows : ~SameRef(row, u) /\ ~SameRef(u, row)
      /\ \A q \in Requests : \A u \in pending[q] : ~SameRef(row, u) /\ ~SameRef(u, row)
  BY <1>1, <1>4, NobodyHas
<1>6. /\ \A u \in bankRows : u.id < bankId /\ u.id \in Nat
      /\ \A q \in Requests : \A u \in pending[q] : u.id < bankId /\ u.id \in Nat
  BY DEF BankInv, IdInv, BankType, BankRow
<1>7. BankType'
  <2>1. IsFiniteSet(bankRows')
    BY <1>1, <1>2, FS_AddElement
  <2>2. bankRows' \in SUBSET BankRow /\ bankId' \in Nat
    BY <1>1, <1>2, <1>3 DEF BankInv, BankType
  <2> QED
    BY <1>1, <2>1, <2>2 DEF BankInv, BankType
<1>8. WritesInv'
  BY <1>1 DEF BankInv, WritesInv, Writes
<1>9. IdInv'
  <2>1. \A t \in bankRows' : t.id < bankId'
    BY <1>1, <1>2, <1>4, <1>6
  <2>2. \A t, u \in bankRows' : t.id = u.id => t = u
    BY <1>1, <1>2, <1>4, <1>6 DEF BankInv, IdInv
  <2>3. ASSUME NEW q \in Requests, NEW t \in pending[q]
        PROVE  /\ t.id < bankId' /\ \A u \in bankRows' : t.id # u.id
               /\ \A p \in Requests : \A u \in pending[p] : t.id = u.id => t = u /\ q = p
    BY <1>1, <1>2, <1>4, <1>6 DEF BankInv, IdInv
  <2> QED
    BY <1>1, <2>1, <2>2, <2>3 DEF IdInv
<1>10. RefInv'
  <2>1. \A t, u \in bankRows' : SameRef(t, u) => t = u
    BY <1>1, <1>5 DEF BankInv, RefInv
  <2>2. ASSUME NEW q \in Requests, NEW t \in pending[q]
        PROVE  /\ \A u \in bankRows' : ~SameRef(t, u)
               /\ \A p \in Requests : \A u \in pending[p] : SameRef(t, u) => t = u /\ q = p
    BY <1>1, <1>5 DEF BankInv, RefInv
  <2> QED
    BY <1>1, <2>1, <2>2 DEF RefInv, SameRef
<1>11. KeptInv'
  BY <1>1 DEF BankInv, KeptInv, Accounting!Has
<1>12. ImportingInv'
  <2> SUFFICES ASSUME NEW q \in Requests, Writes(q), bankWork[q].kind = "import"
               PROVE  /\ bankWork[q].imported = Cardinality(pending[q])
                      /\ \A t \in pending[q] : t.kind = "import"
                      /\ AllLines(bankPc[q], bankWork[q], bankRows' \cup pending[q])
    BY <1>1 DEF ImportingInv, AllLines, ToCome, Accounting!Has, Writes
  <2>1. /\ bankWork[q].imported = Cardinality(pending[q])
        /\ \A t \in pending[q] : t.kind = "import"
        /\ AllLines(bankPc[q], bankWork[q], bankRows \cup pending[q])
    BY DEF BankInv, ImportingInv
  <2>2. AllLines(bankPc[q], bankWork[q], bankRows' \cup pending[q])
    BY <1>1, <2>1 DEF AllLines, Accounting!Has
  <2> QED
    BY <2>1, <2>2
<1>13. MovingInv'
  BY <1>1 DEF BankInv, MovingInv, Writes, LegsLeft
<1>14. CountInv'
  <2>1. EvenIn(bankRows')
    BY <1>1, <1>4, EvenStays DEF BankInv, CountInv
  <2>2. ImportRows(bankRows') = ImportRows(bankRows)
    BY <1>1, <1>4 DEF ImportRows
  <2> QED
    BY <1>1, <2>1, <2>2 DEF BankInv, CountInv
<1> QED
  BY <1>7, <1>8, <1>9, <1>10, <1>11, <1>12, <1>13, <1>14 DEF BankInv

\* Reading the tail of what is left to insert.
LEMMA TheRest ==
  ASSUME NEW S, NEW e \in Seq(S), e # << >>
  PROVE  /\ Head(e) \in S /\ Head(e) = e[1] /\ Tail(e) \in Seq(S) /\ Len(e) \in Nat /\ Len(e) > 0
         /\ Len(Tail(e)) = Len(e) - 1 /\ (Tail(e) = << >> <=> Len(e) = 1)
         /\ DOMAIN Tail(e) = 1 .. Len(e) - 1 /\ DOMAIN e = 1 .. Len(e)
         /\ \A j \in 1 .. Len(e) - 1 : Tail(e)[j] = e[j + 1]
<1>1. Len(e) \in Nat /\ Len(e) > 0 /\ DOMAIN e = 1 .. Len(e)
  OBVIOUS
<1>2. Tail(e) \in Seq(S) /\ Len(Tail(e)) = Len(e) - 1 /\ DOMAIN Tail(e) = 1 .. Len(e) - 1
  BY <1>1
<1>3. Head(e) \in S /\ Head(e) = e[1]
  <2>1. Head(e) = e[1]
    OBVIOUS
  <2>2. e[1] \in S
    BY <1>1
  <2> QED
    BY <2>1, <2>2
<1>4. Tail(e) = << >> <=> Len(e) = 1
  <2> DEFINE d == Tail(e)
             n == Len(e)
  <2>1. d \in Seq(S) /\ Len(d) = n - 1 /\ n \in Nat
    BY <1>1, <1>2
  <2> HIDE DEF d, n
  <2>2. n = 1 => d = << >>
    BY <2>1
  <2>3. d = << >> => n = 1
    <3>1. Len(<< >>) = 0
      OBVIOUS
    <3> QED
      BY <2>1, <3>1
  <2> QED
    BY <2>2, <2>3 DEF d, n
<1>5. \A j \in 1 .. Len(e) - 1 : Tail(e)[j] = e[j + 1]
  BY <1>1
<1> QED
  BY <1>1, <1>2, <1>3, <1>4, <1>5

-----------------------------------------------------------------------------
(* One INSERT of a transaction. *)

\* A transaction goes on, with a row of its own that nobody has or without one.
GoesOn(r, row, N, P, w, to) ==
  /\ Writes(r) /\ UNCHANGED <<inMemory, bankRows, reported, kept>>
  /\ N \in SUBSET {row}
  /\ row \in N => /\ row \in BankRow /\ row.id = bankId /\ bankId' = bankId + 1
                  /\ \A u \in bankRows : ~SameRef(row, u) /\ ~SameRef(u, row)
                  /\ \A q \in Requests :
                       \A u \in pending[q] : ~SameRef(row, u) /\ ~SameRef(u, row)
  /\ row \notin N => bankId' = bankId
  /\ P = pending[r] \cup N /\ pending' = [pending EXCEPT ![r] = P]
  /\ IsBankWork(w) /\ bankWork' = [bankWork EXCEPT ![r] = w] /\ w.kind = bankWork[r].kind
  /\ to \in {"insert", "commit"} /\ bankPc' = [bankPc EXCEPT ![r] = to]
  /\ to = "insert" => w.todo \in Seq(BankTodo) /\ w.todo # << >>
  /\ w.kind = "import" => /\ w.imported = Cardinality(P) /\ \A t \in P : t.kind = "import"
                          /\ AllLines(to, w, bankRows \cup P)
  /\ w.kind = "transfer" => LegsLeft(to, w.todo, P)

LEMMA WritesOn ==
  ASSUME BankInv, NEW r \in Requests, NEW row, NEW N, NEW P, NEW w, NEW to,
         GoesOn(r, row, N, P, w, to)
  PROVE  BankInv'
<1> USE DEF GoesOn
<1>1. /\ bankWork'[r] = w /\ bankPc'[r] = to /\ pending'[r] = P
      /\ \A q \in Requests \ {r} : /\ bankWork'[q] = bankWork[q] /\ bankPc'[q] = bankPc[q]
                                   /\ pending'[q] = pending[q]
  BY DEF BankInv, BankType
<1>2. Writes(r)' /\ \A q \in Requests \ {r} : Writes(q)' <=> Writes(q)
  BY <1>1 DEF Writes
<1>3. /\ bankId \in Nat /\ (bankId' = bankId \/ bankId' = bankId + 1)
      /\ \A u \in bankRows : u.id < bankId /\ u.id \in Nat
      /\ \A q \in Requests : \A u \in pending[q] : u.id < bankId /\ u.id \in Nat
  BY DEF BankInv, IdInv, BankType, BankRow
<1>4. ASSUME NEW q \in Requests, NEW t \in pending'[q], t \notin pending[q]
      PROVE  q = r /\ t = row /\ row \in N
  BY <1>1, <1>4
<1>5. BankType'
  <2>1. DOMAIN bankWork' = Requests /\ \A q \in Requests : IsBankWork(bankWork'[q])
    BY <1>1 DEF BankInv, BankType
  <2>2. bankPc' \in [Requests -> {"idle", "insert", "commit", "reconcile"}]
    BY DEF BankInv, BankType
  <2>3. IsFiniteSet(P) /\ P \in SUBSET BankRow
    <3>1. IsFiniteSet(pending[r]) /\ pending[r] \in SUBSET BankRow
      BY DEF BankInv, BankType
    <3>2. N = {} \/ N = {row}
      OBVIOUS
    <3>3. CASE N = {}
      BY <3>1, <3>3
    <3>4. CASE N = {row}
      <4>1. IsFiniteSet(pending[r] \cup {row}) /\ row \in BankRow
        BY <3>1, <3>4, FS_AddElement
      <4> QED
        BY <3>1, <3>4, <4>1
    <3> QED
      BY <3>2, <3>3, <3>4
  <2>4. pending' \in [Requests -> SUBSET BankRow] /\ \A q \in Requests : IsFiniteSet(pending'[q])
    BY <1>1, <2>3 DEF BankInv, BankType
  <2>5. bankId' \in Nat
    BY <1>3
  <2> QED
    BY <2>1, <2>2, <2>4, <2>5, Zenon DEF BankInv, BankType
<1>6. WritesInv'
  <2> SUFFICES ASSUME NEW q \in Requests
               PROVE  /\ ~Writes(q)' => pending'[q] = {}
                      /\ Writes(q)' => ~inMemory /\ bankWork'[q].kind \in {"import", "transfer"}
                      /\ bankPc'[q] = "insert" =>
                           bankWork'[q].todo \in Seq(BankTodo) /\ bankWork'[q].todo # << >>
    BY DEF WritesInv
  <2>1. CASE q = r
    BY <1>1, <1>2, <2>1 DEF BankInv, WritesInv
  <2>2. CASE q # r
    BY <1>1, <1>2, <2>2 DEF BankInv, WritesInv
  <2> QED
    BY <2>1, <2>2
<1>7. IdInv'
  <2>1. \A t \in bankRows : t.id < bankId'
    BY <1>3
  <2>2. ASSUME NEW q \in Requests, NEW t \in pending'[q]
        PROVE  t.id < bankId' /\ \A u \in bankRows : t.id # u.id
    BY <1>3, <1>4 DEF BankInv, IdInv
  <2>3. ASSUME NEW q \in Requests, NEW t \in pending'[q],
               NEW p \in Requests, NEW u \in pending'[p], t.id = u.id
        PROVE  t = u /\ q = p
    <3>1. CASE t \in pending[q] /\ u \in pending[p]
      BY <2>3, <3>1 DEF BankInv, IdInv
    <3>2. CASE t \notin pending[q] /\ u \in pending[p]
      BY <1>3, <1>4, <2>3, <3>2
    <3>3. CASE t \in pending[q] /\ u \notin pending[p]
      BY <1>3, <1>4, <2>3, <3>3
    <3>4. CASE t \notin pending[q] /\ u \notin pending[p]
      BY <1>4, <3>4
    <3> QED
      BY <3>1, <3>2, <3>3, <3>4
  <2> QED
    BY <2>1, <2>2, <2>3 DEF BankInv, IdInv
<1>8. RefInv'
  <2>1. ASSUME NEW q \in Requests, NEW t \in pending'[q]
        PROVE  \A u \in bankRows : ~SameRef(t, u)
    BY <1>4 DEF BankInv, RefInv
  <2>2. ASSUME NEW q \in Requests, NEW t \in pending'[q],
               NEW p \in Requests, NEW u \in pending'[p], SameRef(t, u)
        PROVE  t = u /\ q = p
    <3>1. CASE t \in pending[q] /\ u \in pending[p]
      BY <2>2, <3>1 DEF BankInv, RefInv
    <3>2. CASE t \notin pending[q] /\ u \in pending[p]
      BY <1>4, <2>2, <3>2
    <3>3. CASE t \in pending[q] /\ u \notin pending[p]
      BY <1>4, <2>2, <3>3
    <3>4. CASE t \notin pending[q] /\ u \notin pending[p]
      BY <1>4, <3>4
    <3> QED
      BY <3>1, <3>2, <3>3, <3>4
  <2>3. \A t, u \in IF inMemory THEN ImportRows(bankRows) ELSE bankRows : SameRef(t, u) => t = u
    BY DEF BankInv, RefInv
  <2> QED
    BY ZenonT(60), <2>1, <2>2, <2>3 DEF RefInv, SameRef
<1>9. KeptInv' /\ CountInv'
  BY DEF BankInv, KeptInv, CountInv
<1>10. ImportingInv'
  <2> SUFFICES ASSUME NEW q \in Requests, Writes(q)', bankWork'[q].kind = "import"
               PROVE  /\ bankWork'[q].imported = Cardinality(pending'[q])
                      /\ \A t \in pending'[q] : t.kind = "import"
                      /\ AllLines(bankPc'[q], bankWork'[q], bankRows' \cup pending'[q])
    BY Zenon DEF ImportingInv, AllLines, ToCome, Accounting!Has
  <2>1. CASE q = r
    BY <1>1, <2>1
  <2>2. CASE q # r
    BY <1>1, <1>2, <2>2 DEF BankInv, ImportingInv
  <2> QED
    BY <2>1, <2>2
<1>11. MovingInv'
  <2> SUFFICES ASSUME NEW q \in Requests, Writes(q)', bankWork'[q].kind = "transfer"
               PROVE  LegsLeft(bankPc'[q], bankWork'[q].todo, pending'[q])
    BY DEF MovingInv, LegsLeft
  <2>1. CASE q = r
    BY <1>1, <2>1
  <2>2. CASE q # r
    BY <1>1, <1>2, <2>2 DEF BankInv, MovingInv
  <2> QED
    BY <2>1, <2>2
<1> QED
  BY <1>5, <1>6, <1>7, <1>8, <1>9, <1>10, <1>11 DEF BankInv

\* The work of a request whose first row is done with.
WithLeft(w, e) == [w EXCEPT !.todo = e]
Skipped(w, e) == [WithLeft(w, e) EXCEPT !.skipped = @ + 1]
Inserted(w, e) == [WithLeft(w, e) EXCEPT !.imported = @ + 1]

LEMMA WorkGoesOn ==
  ASSUME NEW w, IsBankWork(w), NEW e, NEW x,
         x = Skipped(w, e) \/ x = Inserted(w, e) \/ x = WithLeft(w, e)
  PROVE  /\ IsBankWork(x) /\ x.kind = w.kind /\ x.account = w.account /\ x.lines = w.lines
         /\ x.todo = e
<1> DEFINE a == w.account
           l == w.lines
           k == w.kind
           y == [w EXCEPT !.todo = e]
           Works(v) == [kind : {k}, account : {a}, todo : {v}, imported : Nat, skipped : Nat,
                        lines : {l}]
<1>0. k \in WorkKinds
  BY DEF IsBankWork
<1>1. w \in Works(w.todo)
  BY DEF IsBankWork
<1> HIDE DEF a, l, k
<1>2. y \in Works(e)
  BY <1>1
<1>3. x = [y EXCEPT !.skipped = @ + 1] \/ x = [y EXCEPT !.imported = @ + 1] \/ x = y
  BY DEF Skipped, Inserted, WithLeft
<1> HIDE DEF y
<1>4. x \in Works(e)
  <2>1. y.skipped + 1 \in Nat /\ y.imported + 1 \in Nat
    BY <1>2
  <2>2. CASE x = [y EXCEPT !.skipped = @ + 1]
    BY <1>2, <2>1, <2>2
  <2>3. CASE x = [y EXCEPT !.imported = @ + 1]
    BY <1>2, <2>1, <2>3
  <2>4. CASE x = y
    BY <1>2, <2>4
  <2> QED
    BY <1>3, <2>2, <2>3, <2>4
<1>5. x.kind = k /\ x.account = a /\ x.todo = e /\ x.lines = l
  BY <1>4
<1>6. x \in [kind : WorkKinds, account : {a}, todo : {e}, imported : Nat, skipped : Nat,
              lines : {l}]
  BY <1>0, <1>4
<1>7. IsBankWork(x)
  BY <1>5, <1>6, Zenon DEF IsBankWork
<1> QED
  BY <1>5, <1>7 DEF a, l, k

LEMMA LinesGoOn ==
  ASSUME NEW w, NEW x, NEW R, NEW Q, R \subseteq Q, w.todo \in Seq(BankTodo), w.todo # << >>,
         x.todo = Tail(w.todo), x.account = w.account, x.lines = w.lines,
         AllLines("insert", w, R), Accounting!Has(Q, Head(w.todo).account, Head(w.todo).ref),
         NEW to, to = IF Tail(w.todo) = << >> THEN "commit" ELSE "insert"
  PROVE  AllLines(to, x, Q)
<1> SUFFICES ASSUME NEW i \in DOMAIN w.lines
             PROVE  \/ Accounting!Has(Q, w.account, w.lines[i].ref)
                    \/ ToCome(to, x, w.lines[i].ref)
  BY DEF AllLines
<1> DEFINE e == w.todo
           n == Len(e)
<1>1. /\ Head(e) = e[1] /\ n \in Nat /\ n > 0 /\ (Tail(e) = << >> <=> n = 1)
      /\ DOMAIN Tail(e) = 1 .. n - 1 /\ DOMAIN e = 1 .. n
      /\ \A j \in 1 .. n - 1 : Tail(e)[j] = e[j + 1]
  BY TheRest
<1>2. \/ Accounting!Has(R, w.account, w.lines[i].ref)
      \/ \E j \in DOMAIN e : e[j].account = w.account /\ e[j].ref = w.lines[i].ref
  BY DEF AllLines, ToCome
<1>3. CASE Accounting!Has(R, w.account, w.lines[i].ref)
  BY <1>3 DEF Accounting!Has
<1>4. CASE \E j \in DOMAIN e : e[j].account = w.account /\ e[j].ref = w.lines[i].ref
  <2>1. PICK j \in DOMAIN e : e[j].account = w.account /\ e[j].ref = w.lines[i].ref
    BY <1>4
  <2> HIDE DEF e, n
  <2>2. CASE j = 1
    BY <1>1, <2>1, <2>2 DEF e
  <2>3. CASE j # 1
    <3>1. j - 1 \in 1 .. n - 1 /\ j - 1 + 1 = j /\ n # 1
      BY <1>1, <2>1, <2>3
    <3>2. Tail(e)[j - 1] = e[j] /\ j - 1 \in DOMAIN Tail(e) /\ Tail(e) # << >>
      BY <1>1, <3>1
    <3>3. to = "insert" /\ x.todo = Tail(e)
      BY <3>2 DEF e
    <3> QED
      BY <2>1, <3>2, <3>3 DEF ToCome
  <2> QED
    BY <2>2, <2>3
<1> QED
  BY <1>2, <1>3, <1>4

LEMMA LegsGoOn ==
  ASSUME NEW e \in Seq(BankTodo), e # << >>, NEW held, LegsLeft("insert", e, held),
         NEW row, row.kind = "transfer", row.amount = Head(e).amount,
         NEW to, to = IF Tail(e) = << >> THEN "commit" ELSE "insert"
  PROVE  LegsLeft(to, Tail(e), held \cup {row})
<1> DEFINE n == Len(e)
           d == Tail(e)
<1>1. PICK a \in Int :
        /\ a > 0
        /\ \/ held = {} /\ n = 2 /\ e[1].amount = -a /\ e[2].amount = a
           \/ n = 1 /\ e[1].amount = a /\ \E t : held = {t} /\ t.kind = "transfer" /\ t.amount = -a
  BY DEF LegsLeft
<1>2. /\ Head(e) = e[1] /\ n \in Nat /\ Len(d) = n - 1 /\ (d = << >> <=> n = 1)
      /\ \A j \in 1 .. n - 1 : d[j] = e[j + 1]
  BY TheRest
<1> HIDE DEF n, d
<1>3. CASE held = {} /\ n = 2 /\ e[1].amount = -a /\ e[2].amount = a
  <2>1. 1 \in 1 .. n - 1 /\ n - 1 = 1 /\ 1 + 1 = 2 /\ n # 1
    BY <1>3
  <2>2. Len(d) = 1 /\ d[1].amount = a /\ to = "insert"
    BY <1>2, <1>3, <2>1 DEF d
  <2>3. held \cup {row} = {row} /\ row.amount = -a
    BY <1>2, <1>3
  <2> QED
    BY <1>1, <2>2, <2>3 DEF LegsLeft, d
<1>4. CASE n = 1 /\ e[1].amount = a /\ \E t : held = {t} /\ t.kind = "transfer" /\ t.amount = -a
  <2>1. PICK t : held = {t} /\ t.kind = "transfer" /\ t.amount = -a
    BY <1>4
  <2>2. held \cup {row} = {t, row} /\ row.amount = a /\ to = "commit"
    BY <1>2, <1>4, <2>1 DEF d
  <2>3. -a \in Int /\ -a < 0 /\ -(-a) = a
    BY <1>1
  <2>4. LegPair(held \cup {row})
    BY <2>1, <2>2, <2>3 DEF LegPair
  <2> QED
    BY <1>1, <2>2, <2>4 DEF LegsLeft
<1> QED
  BY <1>1, <1>3, <1>4

LEMMA InsertRowStep ==
  ASSUME BankInv, NEW r \in Requests, Accounting!InsertRow(r)
  PROVE  BankInv'
<1> DEFINE w == bankWork[r]
           e == w.todo
           l == Head(e)
           isThere == Accounting!Taken(r, l.account, l.ref)
           to == IF Tail(e) = << >> THEN "commit" ELSE "insert"
           rest == [bankWork EXCEPT ![r].todo = Tail(@)]
           row == Accounting!NewRow(l, l.account, w.kind)
           skip == [[w EXCEPT !.todo = Tail(e)] EXCEPT !.skipped = @ + 1]
           put == [[w EXCEPT !.todo = Tail(e)] EXCEPT !.imported = @ + 1]
<1>1. /\ bankPc[r] = "insert" /\ ~Accounting!Waits(r, l.account, l.ref)
      /\ UNCHANGED <<inMemory, bankRows, reported, kept>>
  BY DEF Accounting!InsertRow
<1>2. /\ Writes(r) /\ ~inMemory /\ w.kind \in {"import", "transfer"}
      /\ e \in Seq(BankTodo) /\ e # << >> /\ IsBankWork(w) /\ bankId \in Nat
      /\ DOMAIN bankWork = Requests
  BY <1>1 DEF BankInv, WritesInv, BankType, Writes
<1>3. /\ l \in BankTodo /\ Tail(e) \in Seq(BankTodo)
  BY <1>2, TheRest
<1>4. to \in {"insert", "commit"} /\ (to = "insert" => Tail(e) # << >>)
  OBVIOUS
<1>5. CASE Accounting!Finish(r) /\ UNCHANGED bankId
  BY <1>1, <1>5, FinishBank
<1>6. CASE /\ isThere /\ w.kind # "transfer" /\ bankPc' = [bankPc EXCEPT ![r] = to]
           /\ bankWork' = [rest EXCEPT ![r].skipped = @ + 1] /\ UNCHANGED <<pending, bankId>>
  <2>1. bankWork' = [bankWork EXCEPT ![r] = skip]
    BY <1>2, <1>6
  <2>2. /\ IsBankWork(skip) /\ skip.kind = w.kind /\ skip.account = w.account
        /\ skip.lines = w.lines /\ skip.todo = Tail(e)
    <3> DEFINE d == Tail(e)
    <3>1. IsBankWork(w) /\ skip = Skipped(w, d)
      BY <1>2 DEF Skipped, WithLeft
    <3> HIDE DEF w, d, skip
    <3>2. skip.todo = d /\ IsBankWork(skip) /\ skip.kind = w.kind /\ skip.account = w.account
          /\ skip.lines = w.lines
      BY <3>1, WorkGoesOn
    <3> QED
      BY <3>2 DEF d
  <2>3. skip.imported = w.imported
    BY <1>2 DEF IsBankWork
  <2>4. Accounting!Has(bankRows \cup pending[r], l.account, l.ref)
    BY <1>6 DEF Accounting!Taken
  <2>5. /\ w.imported = Cardinality(pending[r])
        /\ \A t \in pending[r] : t.kind = "import"
        /\ AllLines("insert", w, bankRows \cup pending[r])
    BY <1>1, <1>2, <1>6 DEF BankInv, ImportingInv
  <2> DEFINE R == bankRows \cup pending[r]
  <2>6. AllLines(to, skip, R)
    <3> HIDE DEF w, skip, R
    <3> QED
      BY <1>2, <2>2, <2>4, <2>5, LinesGoOn DEF R
  <2> DEFINE P == pending[r]
             N == {}
  <2>7. /\ pending' = [pending EXCEPT ![r] = P] /\ P = pending[r] \cup N
        /\ N \in SUBSET {row} /\ row \notin N
    BY <1>6 DEF BankInv, BankType
  <2>8. skip.kind = bankWork[r].kind /\ skip.kind # "transfer"
    BY <1>6, <2>2
  <2>9. to = "insert" => skip.todo \in Seq(BankTodo) /\ skip.todo # << >>
    BY <1>3, <1>4, <2>2
  <2>10. skip.kind = "import" => /\ skip.imported = Cardinality(P) /\ \A t \in P : t.kind = "import"
                                 /\ AllLines(to, skip, bankRows \cup P)
    BY <2>3, <2>5, <2>6
  <2>11. bankPc' = [bankPc EXCEPT ![r] = to] /\ bankId' = bankId
    BY <1>6
  <2> HIDE DEF w, skip, to, row, P, N
  <2>12. GoesOn(r, row, N, P, skip, to)
    BY <1>1, <1>2, <1>4, <2>1, <2>2, <2>7, <2>8, <2>9, <2>10, <2>11 DEF GoesOn
  <2> QED
    BY <2>12, WritesOn
<1>7. CASE /\ ~isThere /\ bankPc' = [bankPc EXCEPT ![r] = to]
           /\ bankWork' = [rest EXCEPT ![r].imported = @ + 1]
           /\ pending' = [pending EXCEPT ![r] = @ \cup {row}] /\ bankId' = bankId + 1
  <2>1. bankWork' = [bankWork EXCEPT ![r] = put]
    BY <1>2, <1>7
  <2>2. /\ IsBankWork(put) /\ put.kind = w.kind /\ put.account = w.account
        /\ put.lines = w.lines /\ put.todo = Tail(e)
    <3> DEFINE d == Tail(e)
    <3>1. IsBankWork(w) /\ put = Inserted(w, d)
      BY <1>2 DEF Inserted, WithLeft
    <3> HIDE DEF w, d, put
    <3>2. put.todo = d /\ IsBankWork(put) /\ put.kind = w.kind /\ put.account = w.account
          /\ put.lines = w.lines
      BY <3>1, WorkGoesOn
    <3> QED
      BY <3>2 DEF d
  <2>3. put.imported = w.imported + 1
    BY <1>2 DEF IsBankWork
  <2> DEFINE P == pending[r] \cup {row}
             R == bankRows \cup pending[r]
             Q == bankRows \cup P
  <2>4. /\ row.id = bankId /\ row.account = l.account /\ row.ref = l.ref /\ row.kind = w.kind
        /\ row.amount = l.amount /\ row \in BankRow
    <3> HIDE DEF l, w
    <3>1. w.kind \in Accounting!Kinds
      BY <1>2 DEF Accounting!Kinds
    <3> QED
      BY <1>2, <1>3, <3>1 DEF Accounting!NewRow, BankTodo, BankRow
  <2> HIDE DEF row
  <2>5. /\ \A u \in bankRows : ~SameRef(row, u) /\ ~SameRef(u, row)
        /\ \A q \in Requests : \A u \in pending[q] : ~SameRef(row, u) /\ ~SameRef(u, row)
    BY <1>1, <1>7, <2>4, NobodyHas
  <2>6. pending' = [pending EXCEPT ![r] = P]
    BY <1>7
  <2>7. row \notin pending[r] /\ IsFiniteSet(pending[r])
    <3>1. \A u \in pending[r] : u.id < bankId
      BY DEF BankInv, IdInv
    <3> QED
      BY <1>2, <2>4, <3>1 DEF BankInv, BankType
  <2>8. w.kind = "import" => /\ put.imported = Cardinality(P) /\ \A t \in P : t.kind = "import"
                             /\ AllLines(to, put, Q)
    <3> SUFFICES ASSUME w.kind = "import"
                 PROVE  /\ put.imported = Cardinality(P) /\ \A t \in P : t.kind = "import"
                        /\ AllLines(to, put, Q)
      OBVIOUS
    <3>1. /\ w.imported = Cardinality(pending[r])
          /\ \A t \in pending[r] : t.kind = "import"
          /\ AllLines("insert", w, R)
      BY <1>1, <1>2 DEF BankInv, ImportingInv
    <3>2. Cardinality(P) = Cardinality(pending[r]) + 1
      BY <2>7, FS_AddElement
    <3>3. R \subseteq Q /\ Accounting!Has(Q, l.account, l.ref)
      BY <2>4 DEF Accounting!Has
    <3>4. AllLines(to, put, Q)
      <4> HIDE DEF w, put, R, Q
      <4> QED
        BY <1>2, <2>2, <3>1, <3>3, LinesGoOn
    <3>5. put.imported = Cardinality(P)
      BY <2>3, <3>1, <3>2
    <3> HIDE DEF put
    <3> QED
      BY <2>4, <3>1, <3>4, <3>5
  <2>9. w.kind = "transfer" => LegsLeft(to, Tail(e), P)
    <3> SUFFICES ASSUME w.kind = "transfer" PROVE LegsLeft(to, Tail(e), P)
      OBVIOUS
    <3>1. LegsLeft("insert", e, pending[r])
      BY <1>1, <1>2 DEF BankInv, MovingInv
    <3> HIDE DEF w
    <3> QED
      BY <1>2, <2>4, <3>1, LegsGoOn
  <2> DEFINE N == {row}
  <2>10. P = pending[r] \cup N /\ row \in N /\ N \in SUBSET {row}
    OBVIOUS
  <2>11. put.kind = bankWork[r].kind
    BY <2>2
  <2>12. to = "insert" => put.todo \in Seq(BankTodo) /\ put.todo # << >>
    BY <1>3, <1>4, <2>2
  <2>13. put.kind = "import" => /\ put.imported = Cardinality(P) /\ \A t \in P : t.kind = "import"
                                /\ AllLines(to, put, bankRows \cup P)
    BY <2>2, <2>8
  <2>14. put.kind = "transfer" => LegsLeft(to, put.todo, P)
    BY <2>2, <2>9
  <2>15. bankPc' = [bankPc EXCEPT ![r] = to] /\ bankId' = bankId + 1
    BY <1>7
  <2>16. /\ row \in N => /\ row \in BankRow /\ row.id = bankId /\ bankId' = bankId + 1
                         /\ \A u \in bankRows : ~SameRef(row, u) /\ ~SameRef(u, row)
                         /\ \A q \in Requests :
                              \A u \in pending[q] : ~SameRef(row, u) /\ ~SameRef(u, row)
         /\ row \notin N => bankId' = bankId
    BY <2>4, <2>5, <2>10, <2>15
  <2>17. Writes(r) /\ IsBankWork(put) /\ UNCHANGED <<inMemory, bankRows, reported, kept>>
    BY <1>1, <1>2, <2>2
  <2> HIDE DEF w, put, to, P, N
  <2>18. GoesOn(r, row, N, P, put, to)
    BY <1>4, <2>1, <2>6, <2>10, <2>11, <2>12, <2>13, <2>14, <2>15, <2>16, <2>17 DEF GoesOn
  <2> QED
    BY <2>18, WritesOn
<1>8. \/ Accounting!Finish(r) /\ UNCHANGED bankId
      \/ /\ isThere /\ w.kind # "transfer" /\ bankPc' = [bankPc EXCEPT ![r] = to]
         /\ bankWork' = [rest EXCEPT ![r].skipped = @ + 1] /\ UNCHANGED <<pending, bankId>>
      \/ /\ ~isThere /\ bankPc' = [bankPc EXCEPT ![r] = to]
         /\ bankWork' = [rest EXCEPT ![r].imported = @ + 1]
         /\ pending' = [pending EXCEPT ![r] = @ \cup {row}] /\ bankId' = bankId + 1
  BY DEF Accounting!InsertRow, Accounting!Goto
<1> QED
  BY <1>5, <1>6, <1>7, <1>8

-----------------------------------------------------------------------------
(* The end of a transaction. *)

\* What a request commits in the database: its rows join the committed ones.
LEMMA CommitRows ==
  ASSUME BankInv, NEW r \in Requests, bankPc[r] = "commit"
  PROVE  /\ ~inMemory /\ IsFiniteSet(bankRows) /\ IsFiniteSet(pending[r])
         /\ \A t \in pending[r] : t \notin bankRows
         /\ bankWork[r].kind = "import" =>
              /\ bankWork[r].imported = Cardinality(pending[r])
              /\ \A t \in pending[r] : t.kind = "import"
              /\ \A i \in DOMAIN bankWork[r].lines :
                   Accounting!Has(bankRows \cup pending[r], bankWork[r].account,
                                  bankWork[r].lines[i].ref)
         /\ bankWork[r].kind # "import" =>
              LegPair(pending[r]) /\ \A t \in pending[r] : t.kind = "transfer"
<1>1. Writes(r) /\ ~inMemory /\ bankWork[r].kind \in {"import", "transfer"}
  BY DEF BankInv, WritesInv, Writes
<1>2. IsFiniteSet(bankRows) /\ IsFiniteSet(pending[r])
  BY DEF BankInv, BankType
<1>3. \A t \in pending[r] : t \notin bankRows
  BY DEF BankInv, IdInv
<1>4. ASSUME bankWork[r].kind = "import"
      PROVE  /\ bankWork[r].imported = Cardinality(pending[r])
             /\ \A t \in pending[r] : t.kind = "import"
             /\ \A i \in DOMAIN bankWork[r].lines :
                  Accounting!Has(bankRows \cup pending[r], bankWork[r].account,
                                 bankWork[r].lines[i].ref)
  <2>1. /\ bankWork[r].imported = Cardinality(pending[r])
        /\ \A t \in pending[r] : t.kind = "import"
        /\ AllLines("commit", bankWork[r], bankRows \cup pending[r])
    BY <1>1, <1>4 DEF BankInv, ImportingInv
  <2> QED
    BY <2>1 DEF AllLines, ToCome
<1>5. ASSUME bankWork[r].kind # "import"
      PROVE  LegPair(pending[r]) /\ \A t \in pending[r] : t.kind = "transfer"
  <2>1. LegsLeft("commit", bankWork[r].todo, pending[r])
    BY <1>1, <1>5 DEF BankInv, MovingInv
  <2>2. LegPair(pending[r])
    BY <2>1 DEF LegsLeft
  <2> QED
    BY <2>2 DEF LegPair
<1> QED
  BY <1>1, <1>2, <1>3, <1>4, <1>5

LEMMA CommitStep ==
  ASSUME BankInv, NEW r \in Requests, Accounting!Commit(r)
  PROVE  BankInv'
<1> DEFINE w == bankWork[r]
           P == pending[r]
           Q == bankRows \cup P
<1>1. /\ bankPc[r] = "commit" /\ bankRows' = Q /\ UNCHANGED <<inMemory, bankId>>
      /\ IF w.kind = "import"
         THEN /\ reported' = reported + w.imported
              /\ kept' = kept \cup {<<w.account, l.ref>> : l \in Accounting!ToSet(w.lines)}
         ELSE UNCHANGED <<reported, kept>>
      /\ bankPc' = [bankPc EXCEPT ![r] = "idle"]
      /\ bankWork' = [bankWork EXCEPT ![r] = Accounting!NoWork]
      /\ pending' = [pending EXCEPT ![r] = {}]
  BY DEF Accounting!Commit, Accounting!Finish, Accounting!Goto
<1>2. /\ bankPc'[r] = "idle" /\ pending'[r] = {} /\ bankWork'[r] = Accounting!NoWork
      /\ \A q \in Requests \ {r} : /\ bankWork'[q] = bankWork[q] /\ bankPc'[q] = bankPc[q]
                                   /\ pending'[q] = pending[q]
  BY <1>1 DEF BankInv, BankType
<1>3. ~Writes(r)' /\ \A q \in Requests \ {r} : Writes(q)' <=> Writes(q)
  BY <1>2 DEF Writes
<1>4. /\ ~inMemory /\ IsFiniteSet(bankRows) /\ IsFiniteSet(P) /\ \A t \in P : t \notin bankRows
      /\ w.kind = "import" =>
           /\ w.imported = Cardinality(P) /\ \A t \in P : t.kind = "import"
           /\ \A i \in DOMAIN w.lines : Accounting!Has(Q, w.account, w.lines[i].ref)
      /\ w.kind # "import" => LegPair(P) /\ \A t \in P : t.kind = "transfer"
  BY <1>1, CommitRows
<1>5. BankType'
  <2>1. DOMAIN bankWork' = Requests /\ \A q \in Requests : IsBankWork(bankWork'[q])
    BY <1>1, <1>2, NothingIsWork DEF BankInv, BankType
  <2>2. bankPc' \in [Requests -> {"idle", "insert", "commit", "reconcile"}]
    BY <1>1 DEF BankInv, BankType
  <2>3. pending' \in [Requests -> SUBSET BankRow] /\ \A q \in Requests : IsFiniteSet(pending'[q])
    BY <1>1, <1>2, FS_EmptySet DEF BankInv, BankType
  <2>4. IsFiniteSet(bankRows') /\ bankRows' \in SUBSET BankRow
    <3>1. IsFiniteSet(Q)
      BY <1>4, FS_Union
    <3> QED
      BY <1>1, <3>1 DEF BankInv, BankType
  <2>5. reported' \in Nat
    <3>1. reported \in Nat
      BY DEF BankInv, BankType
    <3>2. w.kind = "import" => w.imported \in Nat
      BY <1>4, FS_CardinalityType
    <3> HIDE DEF w
    <3> QED
      BY <1>1, <3>1, <3>2
  <2> QED
    BY <1>1, <2>1, <2>2, <2>3, <2>4, <2>5, Zenon DEF BankInv, BankType
<1>6. WritesInv'
  <2> SUFFICES ASSUME NEW q \in Requests
               PROVE  /\ ~Writes(q)' => pending'[q] = {}
                      /\ Writes(q)' => ~inMemory' /\ bankWork'[q].kind \in {"import", "transfer"}
                      /\ bankPc'[q] = "insert" =>
                           bankWork'[q].todo \in Seq(BankTodo) /\ bankWork'[q].todo # << >>
    BY DEF WritesInv
  <2> QED
    BY <1>1, <1>2, <1>3 DEF BankInv, WritesInv
<1>7. \A q \in Requests : \A t \in pending'[q] : q # r /\ t \in pending[q]
  BY <1>2
<1>8. IdInv'
  <2>1. \A t \in Q : t.id < bankId
    BY DEF BankInv, IdInv
  <2>2. \A t, u \in Q : t.id = u.id => t = u
    BY DEF BankInv, IdInv
  <2>3. ASSUME NEW q \in Requests, NEW t \in pending'[q]
        PROVE  /\ t.id < bankId /\ \A u \in Q : t.id # u.id
               /\ \A p \in Requests : \A u \in pending'[p] : t.id = u.id => t = u /\ q = p
    BY <1>7 DEF BankInv, IdInv
  <2> HIDE DEF Q
  <2> QED
    BY <1>1, <2>1, <2>2, <2>3 DEF IdInv
<1>9. RefInv'
  <2>1. \A t, u \in Q : SameRef(t, u) => t = u
    <3>1. \A t, u : SameRef(t, u) => SameRef(u, t)
      BY DEF SameRef
    <3> QED
      BY <1>4, <3>1 DEF BankInv, RefInv
  <2>2. ASSUME NEW q \in Requests, NEW t \in pending'[q]
        PROVE  /\ \A u \in Q : ~SameRef(t, u)
               /\ \A p \in Requests : \A u \in pending'[p] : SameRef(t, u) => t = u /\ q = p
    BY <1>7 DEF BankInv, RefInv
  <2> HIDE DEF Q
  <2> QED
    BY <1>1, <1>4, <2>1, <2>2 DEF RefInv, SameRef
<1>10. KeptInv'
  <2>1. \A k \in kept : Accounting!Has(Q, k[1], k[2])
    BY KeptStays DEF BankInv
  <2>2. CASE w.kind = "import"
    <3>1. \A l \in Accounting!ToSet(w.lines) : Accounting!Has(Q, w.account, l.ref)
      BY <1>4, <2>2 DEF Accounting!ToSet
    <3>2. \A k \in {<<w.account, l.ref>> : l \in Accounting!ToSet(w.lines)} :
            Accounting!Has(Q, k[1], k[2])
      <4> HIDE DEF w, Q
      <4> SUFFICES ASSUME NEW l \in Accounting!ToSet(w.lines)
                   PROVE  Accounting!Has(Q, <<w.account, l.ref>>[1], <<w.account, l.ref>>[2])
        OBVIOUS
      <4> QED
        BY <3>1
    <3>3. \A k \in kept' : Accounting!Has(bankRows', k[1], k[2])
      BY <1>1, <2>1, <2>2, <3>2
    <3> QED
      BY <3>3 DEF KeptInv, Accounting!Has
  <2>3. CASE w.kind # "import"
    <3>1. \A k \in kept' : Accounting!Has(bankRows', k[1], k[2])
      BY <1>1, <2>1, <2>3
    <3> QED
      BY <3>1 DEF KeptInv, Accounting!Has
  <2> QED
    BY <2>2, <2>3
<1>11. ImportingInv'
  <2> SUFFICES ASSUME NEW q \in Requests, Writes(q)', bankWork'[q].kind = "import"
               PROVE  /\ bankWork'[q].imported = Cardinality(pending'[q])
                      /\ \A t \in pending'[q] : t.kind = "import"
                      /\ AllLines(bankPc'[q], bankWork'[q], bankRows' \cup pending'[q])
    BY Zenon DEF ImportingInv, AllLines, ToCome, Accounting!Has
  <2>1. /\ q # r /\ Writes(q) /\ bankWork'[q] = bankWork[q] /\ bankPc'[q] = bankPc[q]
        /\ pending'[q] = pending[q]
    BY <1>2, <1>3
  <2>2. /\ bankWork[q].imported = Cardinality(pending[q])
        /\ \A t \in pending[q] : t.kind = "import"
        /\ AllLines(bankPc[q], bankWork[q], bankRows \cup pending[q])
    BY <2>1 DEF BankInv, ImportingInv
  <2>3. AllLines(bankPc[q], bankWork[q], Q \cup pending[q])
    BY <2>2 DEF AllLines, Accounting!Has
  <2> QED
    BY <1>1, <2>1, <2>2, <2>3
<1>12. MovingInv'
  <2> SUFFICES ASSUME NEW q \in Requests, Writes(q)', bankWork'[q].kind = "transfer"
               PROVE  LegsLeft(bankPc'[q], bankWork'[q].todo, pending'[q])
    BY DEF MovingInv, LegsLeft
  <2> QED
    BY <1>2, <1>3 DEF BankInv, MovingInv
<1>13. CountInv'
  <2>1. FiniteRows(bankRows) /\ EvenIn(bankRows) /\ reported = Cardinality(ImportRows(bankRows))
    BY <1>4 DEF BankInv, BankType, BankRow, FiniteRows, CountInv
  <2>2. /\ Cardinality(ImportRows(bankRows)) \in Nat
        /\ (\A t \in P : t.kind = "import") =>
             Cardinality(ImportRows(Q)) = Cardinality(ImportRows(bankRows)) + Cardinality(P)
        /\ (\A t \in P : t.kind # "import") => ImportRows(Q) = ImportRows(bankRows)
    BY <1>4, ImportsCount
  <2> HIDE DEF P, Q, w
  <2>3. EvenIn(Q) /\ reported' = Cardinality(ImportRows(Q))
    <3>1. CASE w.kind = "import"
      <4>1. EvenIn(Q)
        BY <1>4, <2>1, <3>1, EvenStays DEF Q
      <4> QED
        BY <1>1, <1>4, <2>1, <2>2, <3>1, <4>1
    <3>2. CASE w.kind # "import"
      <4>1. EvenIn(Q)
        BY <1>4, <2>1, <3>2, EvenAdds DEF Q
      <4> QED
        BY <1>1, <1>4, <2>1, <2>2, <3>2, <4>1
    <3> QED
      BY <3>1, <3>2
  <2> QED
    BY <1>1, <1>4, <2>3 DEF CountInv
<1> QED
  BY <1>5, <1>6, <1>8, <1>9, <1>10, <1>11, <1>12, <1>13 DEF BankInv

LEMMA AbortStep ==
  ASSUME BankInv, NEW r \in Requests, Accounting!Abort(r)
  PROVE  BankInv'
BY FinishBank DEF Accounting!Abort

-----------------------------------------------------------------------------
(* Reconciling marks rows and changes nothing else of them. *)

Marked(g) ==
  /\ Renames(g, bankRows, bankRows')
  /\ \A t \in bankRows : /\ g[t] \in BankRow /\ g[t].id = t.id /\ g[t].account = t.account
                         /\ g[t].ref = t.ref /\ g[t].amount = t.amount /\ g[t].kind = t.kind

LEMMA MarkedRows ==
  ASSUME BankInv, UNCHANGED <<inMemory, bankId, reported, kept, pending>>, NEW g, Marked(g),
         NEW r \in Requests, ~Writes(r), NEW to \in {"idle", "reconcile"},
         bankPc' = [bankPc EXCEPT ![r] = to],
         NEW w, IsBankWork(w), bankWork' = [bankWork EXCEPT ![r] = w]
  PROVE  BankInv'
<1>1. /\ bankPc'[r] = to /\ bankWork'[r] = w /\ pending[r] = {}
      /\ \A q \in Requests \ {r} : bankWork'[q] = bankWork[q] /\ bankPc'[q] = bankPc[q]
  BY DEF BankInv, BankType, WritesInv
<1>2. ~Writes(r)' /\ \A q \in Requests \ {r} : Writes(q)' <=> Writes(q)
  BY <1>1 DEF Writes
<1>3. FiniteRows(bankRows)
  BY DEF BankInv, BankType, BankRow, FiniteRows
<1>4. /\ IsFiniteSet(bankRows')
      /\ Cardinality(ImportRows(bankRows')) = Cardinality(ImportRows(bankRows))
      /\ EvenIn(bankRows) => EvenIn(bankRows')
  BY <1>3, RenamedCount DEF Marked
<1>5. /\ \A t \in bankRows : g[t] \in bankRows'
      /\ \A u \in bankRows' : \E t \in bankRows : u = g[t]
  BY DEF Marked, Renames
<1>6. BankType'
  <2>1. DOMAIN bankWork' = Requests /\ \A q \in Requests : IsBankWork(bankWork'[q])
    BY <1>1 DEF BankInv, BankType
  <2>2. bankPc' \in [Requests -> {"idle", "insert", "commit", "reconcile"}]
    BY DEF BankInv, BankType
  <2>3. bankRows' \in SUBSET BankRow
    BY <1>5 DEF Marked
  <2> QED
    BY <1>4, <2>1, <2>2, <2>3, Zenon DEF BankInv, BankType
<1>7. WritesInv'
  <2> SUFFICES ASSUME NEW q \in Requests
               PROVE  /\ ~Writes(q)' => pending'[q] = {}
                      /\ Writes(q)' => ~inMemory' /\ bankWork'[q].kind \in {"import", "transfer"}
                      /\ bankPc'[q] = "insert" =>
                           bankWork'[q].todo \in Seq(BankTodo) /\ bankWork'[q].todo # << >>
    BY DEF WritesInv
  <2>1. CASE q = r
    BY <1>1, <1>2, <2>1
  <2>2. CASE q # r
    BY <1>1, <1>2, <2>2 DEF BankInv, WritesInv
  <2> QED
    BY <2>1, <2>2
<1>8. IdInv'
  <2>1. \A t \in bankRows' : t.id < bankId
    BY <1>5 DEF BankInv, IdInv, Marked
  <2>2. \A t, u \in bankRows' : t.id = u.id => t = u
    BY <1>5 DEF BankInv, IdInv, Marked
  <2>3. ASSUME NEW q \in Requests, NEW t \in pending[q]
        PROVE  /\ t.id < bankId /\ \A u \in bankRows' : t.id # u.id
               /\ \A p \in Requests : \A u \in pending[p] : t.id = u.id => t = u /\ q = p
    BY <1>5 DEF BankInv, IdInv, Marked
  <2> QED
    BY <2>1, <2>2, <2>3 DEF IdInv
<1>9. RefInv'
  <2>1. /\ \A t, u \in bankRows : SameRef(g[t], g[u]) => SameRef(t, u)
        /\ \A t \in bankRows : g[t] \in ImportRows(bankRows') => t \in ImportRows(bankRows)
        /\ \A q \in Requests : \A t \in pending[q] : \A u \in bankRows :
             SameRef(t, g[u]) => SameRef(t, u)
    BY DEF Marked, SameRef, ImportRows
  <2>2. \A t, u \in IF inMemory THEN ImportRows(bankRows') ELSE bankRows' :
          SameRef(t, u) => t = u
    <3>1. \A t, u \in IF inMemory THEN ImportRows(bankRows) ELSE bankRows :
            SameRef(t, u) => t = u
      BY DEF BankInv, RefInv
    <3>2. ImportRows(bankRows') \subseteq bankRows'
      BY DEF ImportRows
    <3>3. CASE inMemory
      BY <1>5, <2>1, <3>1, <3>2, <3>3
    <3>4. CASE ~inMemory
      BY <1>5, <2>1, <3>1, <3>4
    <3> QED
      BY <3>3, <3>4
  <2>3. ASSUME NEW q \in Requests, NEW t \in pending[q]
        PROVE  /\ \A u \in bankRows' : ~SameRef(t, u)
               /\ \A p \in Requests : \A u \in pending[p] : SameRef(t, u) => t = u /\ q = p
    BY <1>5, <2>1 DEF BankInv, RefInv
  <2> QED
    BY ZenonT(60), <2>2, <2>3 DEF RefInv, SameRef
<1>10. \A P, a, ref : Accounting!Has(bankRows \cup P, a, ref) =>
                        Accounting!Has(bankRows' \cup P, a, ref)
  <2> SUFFICES ASSUME NEW P, NEW a, NEW ref,
                      NEW t \in bankRows \cup P, t.account = a, t.ref = ref
               PROVE  \E u \in bankRows' \cup P : u.account = a /\ u.ref = ref
    BY DEF Accounting!Has
  <2>1. CASE t \in P
    BY <2>1
  <2>2. CASE t \in bankRows
    BY <1>5, <2>2 DEF Marked
  <2> QED
    BY <2>1, <2>2
<1>11. KeptInv'
  <2>1. \A k \in kept : Accounting!Has(bankRows', k[1], k[2])
    <3> SUFFICES ASSUME NEW k \in kept PROVE Accounting!Has(bankRows', k[1], k[2])
      OBVIOUS
    <3>1. PICK t \in bankRows : t.account = k[1] /\ t.ref = k[2]
      BY DEF BankInv, KeptInv, Accounting!Has
    <3>2. g[t] \in bankRows' /\ g[t].account = k[1] /\ g[t].ref = k[2]
      BY <1>5, <3>1 DEF Marked
    <3> QED
      BY <3>2 DEF Accounting!Has
  <2> QED
    BY <2>1 DEF KeptInv, Accounting!Has
<1>12. ImportingInv'
  <2> SUFFICES ASSUME NEW q \in Requests, Writes(q)', bankWork'[q].kind = "import"
               PROVE  /\ bankWork'[q].imported = Cardinality(pending'[q])
                      /\ \A t \in pending'[q] : t.kind = "import"
                      /\ AllLines(bankPc'[q], bankWork'[q], bankRows' \cup pending'[q])
    BY Zenon DEF ImportingInv, AllLines, ToCome, Accounting!Has
  <2>1. q # r /\ Writes(q) /\ bankWork'[q] = bankWork[q] /\ bankPc'[q] = bankPc[q]
    BY <1>1, <1>2
  <2>2. /\ bankWork[q].imported = Cardinality(pending[q])
        /\ \A t \in pending[q] : t.kind = "import"
        /\ AllLines(bankPc[q], bankWork[q], bankRows \cup pending[q])
    BY <2>1 DEF BankInv, ImportingInv
  <2>3. AllLines(bankPc[q], bankWork[q], bankRows' \cup pending[q])
    BY <1>10, <2>2 DEF AllLines
  <2> QED
    BY <2>1, <2>2, <2>3
<1>13. MovingInv'
  <2> SUFFICES ASSUME NEW q \in Requests, Writes(q)', bankWork'[q].kind = "transfer"
               PROVE  LegsLeft(bankPc'[q], bankWork'[q].todo, pending'[q])
    BY DEF MovingInv, LegsLeft
  <2> QED
    BY <1>1, <1>2 DEF BankInv, MovingInv
<1>14. CountInv'
  BY <1>4 DEF BankInv, CountInv
<1> QED
  BY <1>6, <1>7, <1>8, <1>9, <1>11, <1>12, <1>13, <1>14 DEF BankInv

LEMMA ReconcileStep ==
  ASSUME BankInv, NEW r \in Requests, Accounting!Reconcile(r)
  PROVE  BankInv'
<1> DEFINE w == bankWork[r]
           id == Head(w.todo)
           free == {t \in bankRows : t.id = id /\ t.reconciled = 0}
           g == [t \in bankRows |-> IF t \in free THEN [t EXCEPT !.reconciled = 1] ELSE t]
           rest == WithLeft(w, Tail(w.todo))
<1>1. /\ bankPc[r] = "reconcile" /\ UNCHANGED <<inMemory, bankId, reported, kept>>
      /\ bankRows' = (bankRows \ free) \cup {[t EXCEPT !.reconciled = 1] : t \in free}
      /\ IF Len(w.todo) = 1 THEN Accounting!Finish(r)
         ELSE /\ bankWork' = [bankWork EXCEPT ![r].todo = Tail(@)]
              /\ UNCHANGED <<bankPc, pending>>
  BY DEF Accounting!Reconcile
<1>2. /\ ~Writes(r) /\ pending \in [Requests -> SUBSET BankRow] /\ pending[r] = {}
      /\ DOMAIN bankWork = Requests /\ IsBankWork(w)
      /\ bankPc \in [Requests -> {"idle", "insert", "commit", "reconcile"}]
  BY <1>1 DEF BankInv, WritesInv, BankType, Writes
<1>3. Marked(g)
  <2>1. \A t \in bankRows : t \in BankRow
    BY DEF BankInv, BankType
  <2>2. ASSUME NEW t \in bankRows
        PROVE  /\ g[t] \in BankRow /\ g[t].id = t.id /\ g[t].account = t.account
               /\ g[t].ref = t.ref /\ g[t].amount = t.amount /\ g[t].kind = t.kind
    <3>1. g[t] = t \/ g[t] = [t EXCEPT !.reconciled = 1]
      OBVIOUS
    <3> HIDE DEF g
    <3>2. CASE g[t] = t
      BY <2>1, <3>2
    <3>3. CASE g[t] = [t EXCEPT !.reconciled = 1]
      BY <2>1, <3>3 DEF BankRow
    <3> QED
      BY <3>1, <3>2, <3>3
  <2>3. Renames(g, bankRows, bankRows')
    <3>1. \A t \in bankRows : g[t] \in bankRows'
      BY <1>1
    <3>2. \A u \in bankRows' : \E t \in bankRows : g[t] = u
      <4> TAKE u \in bankRows'
      <4>1. u \in bankRows \ free \/ \E t \in free : u = [t EXCEPT !.reconciled = 1]
        BY <1>1
      <4>2. CASE u \in bankRows \ free
        BY <4>2
      <4>3. CASE \E t \in free : u = [t EXCEPT !.reconciled = 1]
        BY <4>3
      <4> QED
        BY <4>1, <4>2, <4>3
    <3>3. \A t, u \in bankRows : g[t] = g[u] => t = u
      <4> HIDE DEF g
      <4> QED
        BY <2>2 DEF BankInv, IdInv
    <3> HIDE DEF g
    <3> QED
      BY <3>1, <3>2, <3>3 DEF Renames
  <2> HIDE DEF g
  <2> QED
    BY <2>2, <2>3 DEF Marked
<1> HIDE DEF g
<1>4. CASE Len(w.todo) = 1
  <2>1. /\ bankPc' = [bankPc EXCEPT ![r] = "idle"]
        /\ bankWork' = [bankWork EXCEPT ![r] = Accounting!NoWork]
        /\ pending' = [pending EXCEPT ![r] = {}]
    BY <1>1, <1>4 DEF Accounting!Finish, Accounting!Goto
  <2>2. pending' = pending
    BY <1>2, <2>1
  <2> QED
    BY <1>1, <1>2, <1>3, <2>1, <2>2, NothingIsWork, MarkedRows
<1>5. CASE Len(w.todo) # 1
  <2>1. /\ bankWork' = [bankWork EXCEPT ![r] = rest] /\ pending' = pending
        /\ bankPc' = [bankPc EXCEPT ![r] = "reconcile"]
    BY <1>1, <1>2, <1>5 DEF WithLeft
  <2>2. IsBankWork(rest)
    BY <1>2, WorkGoesOn
  <2> HIDE DEF rest
  <2> QED
    BY <1>1, <1>2, <1>3, <2>1, <2>2, MarkedRows
<1> QED
  BY <1>4, <1>5

-----------------------------------------------------------------------------
(* The accounts tell the bank. *)

LEMMA BankInit == Accounting!Init => BankInv
<1> SUFFICES ASSUME Accounting!Init PROVE BankInv
  OBVIOUS
<1>1. /\ inMemory \in BOOLEAN /\ bankRows = {} /\ bankId = 1 /\ reported = 0 /\ kept = {}
      /\ pending = [r \in Requests |-> {}] /\ bankPc = [r \in Requests |-> "idle"]
      /\ bankWork = [r \in Requests |-> Accounting!NoWork]
  BY DEF Accounting!Init
<1>2. BankType
  <2>1. DOMAIN bankWork = Requests /\ \A r \in Requests : IsBankWork(bankWork[r])
    BY <1>1, NothingIsWork
  <2>2. IsFiniteSet(bankRows) /\ \A r \in Requests : IsFiniteSet(pending[r])
    BY <1>1, FS_EmptySet
  <2>3. /\ bankPc \in [Requests -> {"idle", "insert", "commit", "reconcile"}]
        /\ pending \in [Requests -> SUBSET BankRow]
    BY <1>1
  <2> QED
    BY <1>1, <2>1, <2>2, <2>3 DEF BankType
<1>3. \A r \in Requests : ~Writes(r) /\ pending[r] = {} /\ bankPc[r] = "idle"
  BY <1>1 DEF Writes
<1>4. WritesInv /\ IdInv /\ RefInv /\ KeptInv /\ ImportingInv /\ MovingInv
  BY <1>1, <1>3 DEF WritesInv, IdInv, RefInv, KeptInv, ImportingInv, MovingInv, ImportRows
<1>5. CountInv
  <2>1. ImportRows({}) = {} /\ TransferRows({}) = {} /\ \A S : {t \in {} : t \in S} = {}
    BY DEF ImportRows, TransferRows
  <2>2. /\ {t \in TransferRows({}) : t.amount < 0} = {}
        /\ {t \in TransferRows({}) : t.amount > 0} = {}
    BY <2>1
  <2>3. SumOf(RowAmounts({}), {}) = 0
    BY SumEmpty
  <2>4. EvenIn({})
    BY <2>1, <2>2, <2>3 DEF EvenIn
  <2>5. Cardinality(ImportRows({})) = 0
    BY <2>1, FS_EmptySet
  <2> QED
    BY <1>1, <2>4, <2>5 DEF CountInv
<1> QED
  BY <1>2, <1>4, <1>5 DEF BankInv

LEMMA BankStep == ASSUME BankInv, Accounting!Next PROVE BankInv'
BY ImportInMemoryStep, TransferInMemoryStep, RecordInMemoryStep, StartImportStep,
   ReconcileMatchStep, StartTransferStep, RecordTransactionStep, InsertRowStep, CommitStep,
   AbortStep, ReconcileStep
DEF Accounting!Next

LEMMA BankSteps == ASSUME BankInv, [MCNext]_allVars PROVE BankInv'
<1>1. CASE UNCHANGED bankVars
  <2>1. UNCHANGED <<inMemory, bankRows, pending, bankId, reported, kept, bankPc, bankWork>>
    BY <1>1 DEF bankVars
  <2>2. BankType' /\ WritesInv'
    <3>1. BankType'
      BY <2>1 DEF BankInv, BankType
    <3>2. WritesInv'
      BY <2>1 DEF BankInv, WritesInv, Writes
    <3> QED
      BY <3>1, <3>2
  <2>3. IdInv' /\ RefInv'
    <3>1. IdInv'
      BY <2>1 DEF BankInv, IdInv
    <3>2. RefInv'
      BY <2>1 DEF BankInv, RefInv
    <3> QED
      BY <3>1, <3>2
  <2>4. KeptInv' /\ CountInv'
    BY <2>1 DEF BankInv, KeptInv, Accounting!Has, CountInv
  <2>5. ImportingInv'
    BY <2>1 DEF BankInv, ImportingInv, Writes, AllLines, ToCome, Accounting!Has
  <2>6. MovingInv'
    BY <2>1 DEF BankInv, MovingInv, Writes, LegsLeft
  <2> QED
    BY <2>2, <2>3, <2>4, <2>5, <2>6 DEF BankInv
<1>2. CASE MCNext /\ ~UNCHANGED bankVars
  <2>1. Accounting!Next
    BY <1>2
    DEF MCNext, InRows, InSeats, InTill, InPayment, InLoan, InAsset, InSupply, InBank, InReport,
        Accounting!Next
  <2> QED
    BY <2>1, BankStep
<1> QED
  BY <1>1, <1>2 DEF allVars

LEMMA LinesCountOnce == ASSUME BankInv PROVE Accounting!StatementsCountOnce
<1>1. Accounting!ImportedRows = ImportRows(bankRows)
  BY DEF Accounting!ImportedRows, ImportRows
<1>2. \A t, u \in IF inMemory THEN ImportRows(bankRows) ELSE bankRows :
        t # u /\ t.account = u.account => t.ref # u.ref \/ t.ref = ""
  BY DEF BankInv, RefInv, SameRef
<1>3. \A k \in kept : \E t \in bankRows : t.account = k[1] /\ t.ref = k[2]
  BY DEF BankInv, KeptInv, Accounting!Has
<1>4. Accounting!Cardinality(ImportRows(bankRows)) = Cardinality(ImportRows(bankRows))
  BY BankCard
<1>5. IF inMemory THEN reported <= Accounting!Cardinality(ImportRows(bankRows))
      ELSE reported = Accounting!Cardinality(ImportRows(bankRows))
  BY <1>4 DEF BankInv, CountInv
<1> QED
  BY <1>1, <1>2, <1>3, <1>5 DEF Accounting!StatementsCountOnce, Accounting!None

LEMMA FundsStayEven == ASSUME BankInv PROVE Accounting!TransfersAreEven
<1> DEFINE L == TransferRows(bankRows)
           N == {t \in L : t.amount < 0}
           M == {t \in L : t.amount > 0}
<1>1. IsFiniteSet(L) /\ \A t \in L : t.amount \in Int
  <2>1. L \subseteq bankRows
    BY DEF TransferRows
  <2> QED
    BY <2>1, FS_Subset DEF BankInv, BankType, BankRow
<1>2. SumOf(RowAmounts(L), L) = 0 /\ Cardinality(N) = Cardinality(M)
  BY DEF BankInv, CountInv, EvenIn
<1>3. L = {t \in bankRows : t.kind = "transfer"}
  BY DEF TransferRows
<1> HIDE DEF L
<1>4. Accounting!MapThenSumSet(LAMBDA t : t.amount, L) = 0
  BY <1>1, <1>2, AmountsAreSum
<1>5. Accounting!Cardinality(N) = Accounting!Cardinality(M)
  <2> HIDE DEF N, M
  <2> QED
    BY <1>2, BankCard
<1> QED
  BY <1>3, <1>4, <1>5 DEF Accounting!TransfersAreEven

LEMMA StatementsEnd == ASSUME BankInv PROVE Accounting!StatementEndsWithBalance
<1>1. ASSUME NEW a PROVE Datable(Accounting!RowsOf(a))
  <2>1. Accounting!RowsOf(a) \subseteq bankRows
    BY DEF Accounting!RowsOf
  <2>2. IsFiniteSet(Accounting!RowsOf(a))
    BY <2>1, FS_Subset DEF BankInv, BankType
  <2>3. \A t \in bankRows : t.id \in Nat /\ t.date \in Nat /\ t.amount \in Int
    BY DEF BankInv, BankType, BankRow
  <2>4. \A t, u \in bankRows : t.id = u.id => t = u
    BY DEF BankInv, IdInv
  <2> QED
    BY <2>1, <2>2, <2>3, <2>4 DEF Datable
<1> QED
  BY <1>1, StatementEnds DEF Accounting!StatementEndsWithBalance

\* However bank statements, transfers and rows recorded by hand are sent, sent again,
\* given up and interleaved, in PostgreSQL or in memory (finance/service.go:37-64,
\* finance/store_phase2.go:20-121), an account has every reference once and every line of
\* an import that was answered, imports have counted what they put, transfers add up to
\* nothing and the statement of an account ends with its balance: for all files, transfers
\* and accounts, and however many requests there are.
THEOREM BankAddsUp == MCSpec => []AccountsTellTheBank
<1>1. MCInit => BankInv
  BY BankInit DEF MCInit
<1>2. BankInv /\ [MCNext]_allVars => BankInv'
  BY BankSteps
<1>3. BankInv => AccountsTellTheBank
  BY LinesCountOnce, FundsStayEven, StatementsEnd DEF AccountsTellTheBank
<1> QED
  BY <1>1, <1>2, <1>3, PTL DEF MCSpec
=============================================================================
