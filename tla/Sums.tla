-------------------------------- MODULE Sums --------------------------------
(***************************************************************************)
(* Facts about sums over finite sets, proved from the definition of        *)
(* MapThenSumSet: what a trial balance, the legs of an entry, the balance  *)
(* of an invoice and a list of payments add up to.                         *)
(*                                                                         *)
(* Induction is stated with sets instead of operators: a property of       *)
(* numbers or of finite sets is the set of those that have it (NatInSet,   *)
(* SetInSet), which first-order provers can instantiate.  They rest on the *)
(* well-foundedness of < on Nat.                                           *)
(***************************************************************************)
EXTENDS Integers, FiniteSetsExt, FiniteSetTheorems, WellFoundedInduction, TLAPS

SumOf(f, S) == MapThenSumSet(LAMBDA x : f[x], S)

\* The element that MapThenSumSet takes out of a set first.
Pick(s) == CHOOSE x \in s : TRUE

\* One step of its recursion, g being the sums over smaller sets.
Unfold(f, g, s) == IF s = {} THEN 0 ELSE f[Pick(s)] + g[s \ {Pick(s)}]

\* The subsets of S with at most n elements.
UpTo(S, n) == {s \in SUBSET S : Cardinality(s) <= n}

\* g satisfies the recursion on all subsets of S, and holds their sums.
IsTable(g, f, S) == \A s \in SUBSET S : g[s] = Unfold(f, g, s)

IsSumTable(g, f, S) ==
  /\ IsTable(g, f, S)
  /\ \A s \in SUBSET S : g[s] \in Int /\ SumOf(f, s) = g[s]

-----------------------------------------------------------------------------
(* Induction. *)

\* Every set of natural numbers has a least element.
LEMMA LeastNat ==
  ASSUME NEW T, T \subseteq Nat, T # {}
  PROVE  \E n \in T : \A m \in T : n <= m
<1> DEFINE R == OpToRel(<, Nat)
<1>1. IsWellFoundedOn(R, Nat)
  BY NatLessThanWellFounded
<1>2. \A m, n \in Nat : (<<m, n>> \in R) <=> m < n
  BY DEF OpToRel
<1> HIDE DEF R
<1>3. PICK n \in T : \A m \in T : ~ (<<m, n>> \in R)
  BY <1>1, WFMin
<1>4. \A m \in T : ~ (m < n)
  BY <1>2, <1>3
<1>5. \A m \in T : m \in Nat
  OBVIOUS
<1> QED
  BY <1>4, <1>5, <1>3

\* What holds of 0 and of n + 1 if of n, holds of every number.
LEMMA NatInSet ==
  ASSUME NEW G, 0 \in G, \A n \in Nat : n \in G => n + 1 \in G
  PROVE  \A n \in Nat : n \in G
<1> SUFFICES ASSUME NEW k \in Nat, k \notin G PROVE FALSE
  OBVIOUS
<1> DEFINE Bad == {n \in Nat : n \notin G}
<1>1. PICK n \in Bad : \A m \in Bad : n <= m
  <2> HIDE DEF Bad
  <2>1. Bad \subseteq Nat /\ Bad # {}
    BY DEF Bad
  <2> QED
    BY <2>1, LeastNat
<1>2. n # 0 /\ n - 1 \in Nat
  BY <1>1
<1>3. n - 1 \in G
  BY <1>1, <1>2
<1> QED
  BY <1>1, <1>2, <1>3

LEMMA Smaller ==
  ASSUME NEW S, IsFiniteSet(S), NEW s \in SUBSET S, NEW x \in s
  PROVE  /\ Cardinality(s) \in Nat /\ Cardinality(s \ {x}) \in Nat
         /\ Cardinality(s \ {x}) = Cardinality(s) - 1
<1>1. IsFiniteSet(s)
  BY FS_Subset
<1> QED
  BY <1>1, FS_RemoveElement, FS_CardinalityType

\* What holds of a finite set if it holds of the set without any one element,
\* holds of every subset.
LEMMA SetInSet ==
  ASSUME NEW S, IsFiniteSet(S), NEW G,
         \A s \in SUBSET S : (\A x \in s : s \ {x} \in G) => s \in G
  PROVE  \A s \in SUBSET S : s \in G
<1> DEFINE H == {n \in Nat : \A s \in UpTo(S, n) : s \in G}
<1>1. \A s \in SUBSET S : IsFiniteSet(s) /\ Cardinality(s) \in Nat
  BY FS_Subset, FS_CardinalityType
<1>2. 0 \in H
  <2>1. \A s \in UpTo(S, 0) : s = {}
    BY <1>1, FS_EmptySet DEF UpTo
  <2> QED
    BY <2>1
<1>3. ASSUME NEW n \in Nat, n \in H PROVE n + 1 \in H
  <2>1. ASSUME NEW s \in UpTo(S, n + 1) PROVE s \in G
    <3>1. \A x \in s : s \ {x} \in UpTo(S, n)
      BY <2>1, Smaller DEF UpTo
    <3> QED
      BY <1>3, <2>1, <3>1 DEF UpTo
  <2> QED
    BY <2>1
<1>4. \A n \in Nat : n \in H
  <2> HIDE DEF H
  <2> QED
    BY <1>2, <1>3, NatInSet
<1> QED
  BY <1>1, <1>4 DEF UpTo

-----------------------------------------------------------------------------
(* The recursion of MapThenSumSet has one solution. *)

LEMMA PickIn == \A s : s # {} => Pick(s) \in s
BY DEF Pick

LEMMA SumDef ==
  ASSUME NEW f, NEW S
  PROVE  SumOf(f, S) = (CHOOSE g : g = [s \in SUBSET S |-> Unfold(f, g, s)])[S]
BY DEF SumOf, MapThenSumSet, MapThenFoldSet, Unfold, Pick

\* The recursion has a solution on the subsets with up to n elements ...
LEMMA PartialTable ==
  ASSUME NEW S, IsFiniteSet(S), NEW f, \A x \in S : f[x] \in Int
  PROVE  \A n \in Nat : \E g \in [UpTo(S, n) -> Int] : \A s \in UpTo(S, n) : g[s] = Unfold(f, g, s)
<1> DEFINE Table(n) == \E g \in [UpTo(S, n) -> Int] : \A s \in UpTo(S, n) : g[s] = Unfold(f, g, s)
           H == {n \in Nat : Table(n)}
<1>1. \A s \in SUBSET S : IsFiniteSet(s) /\ Cardinality(s) \in Nat
  BY FS_Subset, FS_CardinalityType
<1>2. Table(0)
  <2>1. \A s \in UpTo(S, 0) : s = {}
    BY <1>1, FS_EmptySet DEF UpTo
  <2> DEFINE g == [s \in UpTo(S, 0) |-> 0]
  <2>2. g \in [UpTo(S, 0) -> Int] /\ \A s \in UpTo(S, 0) : g[s] = Unfold(f, g, s)
    BY <2>1 DEF Unfold
  <2> QED
    BY <2>2
<1>3. ASSUME NEW n \in Nat, Table(n) PROVE Table(n + 1)
  <2>1. PICK h \in [UpTo(S, n) -> Int] : \A s \in UpTo(S, n) : h[s] = Unfold(f, h, s)
    BY <1>3
  <2> DEFINE g == [s \in UpTo(S, n + 1) |-> Unfold(f, h, s)]
  <2>2. ASSUME NEW s \in UpTo(S, n + 1), s # {}
        PROVE  Pick(s) \in S /\ s \ {Pick(s)} \in UpTo(S, n)
    <3>1. Pick(s) \in s
      BY <2>2, PickIn
    <3> QED
      BY <2>2, <3>1, Smaller DEF UpTo
  <2>3. ASSUME NEW s \in UpTo(S, n + 1) PROVE Unfold(f, h, s) \in Int
    <3>1. CASE s = {}
      BY <3>1 DEF Unfold
    <3>2. CASE s # {}
      BY <3>2, <2>1, <2>2 DEF Unfold
    <3> QED
      BY <3>1, <3>2
  <2>4. \A s \in UpTo(S, n) : s \in UpTo(S, n + 1) /\ g[s] = h[s]
    BY <1>1, <2>1 DEF UpTo
  <2>5. ASSUME NEW s \in UpTo(S, n + 1) PROVE g[s] = Unfold(f, g, s)
    <3>1. CASE s = {}
      BY <3>1 DEF Unfold
    <3>2. CASE s # {}
      <4>1. g[s \ {Pick(s)}] = h[s \ {Pick(s)}]
        BY <3>2, <2>2, <2>4
      <4> QED
        BY <3>2, <4>1 DEF Unfold
    <3> QED
      BY <3>1, <3>2
  <2>6. g \in [UpTo(S, n + 1) -> Int]
    BY <2>3
  <2> QED
    BY <2>5, <2>6
<1>4. \A n \in Nat : n \in H
  <2>1. 0 \in H /\ \A n \in Nat : n \in H => n + 1 \in H
    BY <1>2, <1>3
  <2> HIDE DEF H
  <2> QED
    BY <2>1, NatInSet
<1> QED
  BY <1>4

\* ... on all subsets ...
LEMMA TableExists ==
  ASSUME NEW S, IsFiniteSet(S), NEW f, \A x \in S : f[x] \in Int
  PROVE  \E g \in [SUBSET S -> Int] : \A s \in SUBSET S : g[s] = Unfold(f, g, s)
<1>1. \A s \in SUBSET S : Cardinality(s) <= Cardinality(S)
  BY FS_Subset
<1>2. Cardinality(S) \in Nat /\ UpTo(S, Cardinality(S)) = SUBSET S
  BY <1>1, FS_CardinalityType DEF UpTo
<1>3. \A n \in Nat : \E g \in [UpTo(S, n) -> Int] :
        \A s \in UpTo(S, n) : g[s] = Unfold(f, g, s)
  BY PartialTable, ZenonT(60)
<1>4. \E g \in [UpTo(S, Cardinality(S)) -> Int] :
        \A s \in UpTo(S, Cardinality(S)) : g[s] = Unfold(f, g, s)
  BY <1>2, <1>3, Zenon
<1> QED
  BY <1>2, <1>4, Zenon

\* ... and no other.
LEMMA TablesAgree ==
  ASSUME NEW S, IsFiniteSet(S), NEW f,
         NEW g, IsTable(g, f, S),
         NEW h, IsTable(h, f, S)
  PROVE  \A s \in SUBSET S : g[s] = h[s]
<1> DEFINE G == {s \in SUBSET S : g[s] = h[s]}
<1>1. ASSUME NEW s \in SUBSET S, \A x \in s : s \ {x} \in G PROVE s \in G
  <2>1. CASE s = {}
    BY <2>1 DEF Unfold, IsTable
  <2>2. CASE s # {}
    <3>1. g[s \ {Pick(s)}] = h[s \ {Pick(s)}]
      BY <1>1, <2>2, PickIn
    <3> QED
      BY <2>2, <3>1 DEF Unfold, IsTable
  <2> QED
    BY <2>1, <2>2
<1>2. \A s \in SUBSET S : s \in G
  <2> HIDE DEF G
  <2> QED
    BY <1>1, SetInSet
<1> QED
  BY <1>2

\* What MapThenSumSet chooses is a table.
LEMMA ChosenTable ==
  ASSUME NEW S, IsFiniteSet(S), NEW f, \A x \in S : f[x] \in Int
  PROVE  \E h : IsTable(h, f, S) /\ SumOf(f, S) = h[S]
<1> DEFINE h == CHOOSE g : g = [s \in SUBSET S |-> Unfold(f, g, s)]
<1>1. \E g : g = [s \in SUBSET S |-> Unfold(f, g, s)]
  <2>1. \E g \in [SUBSET S -> Int] : \A s \in SUBSET S : g[s] = Unfold(f, g, s)
    BY TableExists, Zenon
  <2> QED
    BY <2>1
<1>2. h = [s \in SUBSET S |-> Unfold(f, h, s)]
  BY <1>1
<1>3. SumOf(f, S) = h[S]
  BY SumDef
<1> HIDE DEF h
<1>4. IsTable(h, f, S)
  BY <1>2 DEF IsTable
<1> QED
  BY <1>3, <1>4

\* One table holds the sums over all subsets.
LEMMA SumTable ==
  ASSUME NEW S, IsFiniteSet(S), NEW f, \A x \in S : f[x] \in Int
  PROVE  \E g : IsSumTable(g, f, S)
<1>1. PICK g \in [SUBSET S -> Int] : IsTable(g, f, S)
  <2>1. \E g \in [SUBSET S -> Int] : \A s \in SUBSET S : g[s] = Unfold(f, g, s)
    BY TableExists, Zenon
  <2> QED
    BY <2>1 DEF IsTable
<1>2. ASSUME NEW T \in SUBSET S PROVE SumOf(f, T) = g[T]
  <2>1. IsFiniteSet(T) /\ \A x \in T : f[x] \in Int
    BY FS_Subset
  <2>2. PICK h : IsTable(h, f, T) /\ SumOf(f, T) = h[T]
    BY <2>1, ChosenTable
  <2>3. IsTable(g, f, T)
    BY <1>1 DEF IsTable
  <2>4. \A s \in SUBSET T : g[s] = h[s]
    BY <2>1, <2>2, <2>3, TablesAgree
  <2> QED
    BY <2>2, <2>4
<1> QED
  BY <1>1, <1>2 DEF IsSumTable

-----------------------------------------------------------------------------
(* Sums. *)

LEMMA SumEmpty == ASSUME NEW f PROVE SumOf(f, {}) = 0
<1>1. IsFiniteSet({}) /\ \A x \in {} : f[x] \in Int
  BY FS_EmptySet
<1>2. \E g : IsSumTable(g, f, {})
  BY <1>1, SumTable
<1> QED
  BY <1>2 DEF IsSumTable, IsTable, Unfold

LEMMA SumType ==
  ASSUME NEW S, IsFiniteSet(S), NEW f, \A x \in S : f[x] \in Int
  PROVE  SumOf(f, S) \in Int
<1>1. \E g : IsSumTable(g, f, S)
  BY SumTable
<1> QED
  BY <1>1 DEF IsSumTable

\* A sum does not depend on the order: any element can be the last.
LEMMA SumStep ==
  ASSUME NEW S, IsFiniteSet(S), NEW f, \A x \in S : f[x] \in Int, NEW x \in S
  PROVE  SumOf(f, S) = f[x] + SumOf(f, S \ {x})
<1>1. PICK g : IsSumTable(g, f, S)
  BY SumTable
<1> DEFINE G == {s \in SUBSET S : \A y \in s : g[s] = f[y] + g[s \ {y}]}
<1>2. ASSUME NEW s \in SUBSET S, \A y \in s : s \ {y} \in G PROVE s \in G
  <2> SUFFICES ASSUME NEW y \in s PROVE g[s] = f[y] + g[s \ {y}]
    OBVIOUS
  <2> DEFINE p == Pick(s)
  <2>1. p \in s
    BY PickIn
  <2> HIDE DEF p
  <2>2. g[s] = f[p] + g[s \ {p}]
    BY <1>1 DEF IsSumTable, IsTable, Unfold, p
  <2>3. CASE y = p
    BY <2>2, <2>3
  <2>4. CASE y # p
    <3> DEFINE rest == (s \ {p}) \ {y}
    <3>1. rest = (s \ {y}) \ {p} /\ rest \in SUBSET S
      OBVIOUS
    <3>2. g[s \ {p}] = f[y] + g[rest]
      BY <1>2, <2>1, <2>4
    <3>3. g[s \ {y}] = f[p] + g[rest]
      BY <1>2, <2>1, <2>4, <3>1
    <3>4. f[y] \in Int /\ f[p] \in Int /\ g[rest] \in Int
      BY <1>1, <2>1, <3>1 DEF IsSumTable
    <3> HIDE DEF rest
    <3> QED
      BY <2>2, <3>2, <3>3, <3>4
  <2> QED
    BY <2>3, <2>4
<1>3. \A s \in SUBSET S : s \in G
  <2> HIDE DEF G
  <2> QED
    BY <1>2, SetInSet
<1> QED
  BY ZenonT(60), <1>1, <1>3 DEF IsSumTable

\* A sum depends on the values in its set only.
LEMMA SumSame ==
  ASSUME NEW S, IsFiniteSet(S), NEW f, \A x \in S : f[x] \in Int,
         NEW g, \A x \in S : g[x] = f[x]
  PROVE  SumOf(g, S) = SumOf(f, S)
<1> DEFINE G == {s \in SUBSET S : SumOf(g, s) = SumOf(f, s)}
<1>1. ASSUME NEW s \in SUBSET S, \A x \in s : s \ {x} \in G PROVE s \in G
  <2>1. CASE s = {}
    BY <2>1, SumEmpty
  <2>2. CASE s # {}
    <3>1. PICK x \in s : TRUE
      BY <2>2
    <3>2. IsFiniteSet(s)
      BY FS_Subset
    <3>3. SumOf(g, s) = g[x] + SumOf(g, s \ {x})
      BY <3>2, SumStep
    <3>4. SumOf(f, s) = f[x] + SumOf(f, s \ {x})
      BY <3>2, SumStep
    <3> QED
      BY <1>1, <3>3, <3>4
  <2> QED
    BY <2>1, <2>2
<1>2. \A s \in SUBSET S : s \in G
  <2> HIDE DEF G
  <2> QED
    BY <1>1, SetInSet
<1> QED
  BY <1>2

\* The sum of pointwise sums.
LEMMA SumPlus ==
  ASSUME NEW S, IsFiniteSet(S), NEW f, \A x \in S : f[x] \in Int,
         NEW g, \A x \in S : g[x] \in Int,
         NEW h, \A x \in S : h[x] = f[x] + g[x]
  PROVE  SumOf(h, S) = SumOf(f, S) + SumOf(g, S)
<1> DEFINE G == {s \in SUBSET S : SumOf(h, s) = SumOf(f, s) + SumOf(g, s)}
<1>1. ASSUME NEW s \in SUBSET S, \A x \in s : s \ {x} \in G PROVE s \in G
  <2>1. CASE s = {}
    BY <2>1, SumEmpty
  <2>2. CASE s # {}
    <3>1. PICK x \in s : TRUE
      BY <2>2
    <3>2. IsFiniteSet(s) /\ IsFiniteSet(s \ {x})
      BY FS_Subset
    <3>3. SumOf(h, s) = h[x] + SumOf(h, s \ {x})
      BY <3>2, SumStep
    <3>4. SumOf(f, s) = f[x] + SumOf(f, s \ {x})
      BY <3>2, SumStep
    <3>5. SumOf(g, s) = g[x] + SumOf(g, s \ {x})
      BY <3>2, SumStep
    <3>6. SumOf(f, s \ {x}) \in Int /\ SumOf(g, s \ {x}) \in Int
      BY <3>2, SumType
    <3> QED
      BY <1>1, <3>3, <3>4, <3>5, <3>6
  <2> QED
    BY <2>1, <2>2
<1>2. \A s \in SUBSET S : s \in G
  <2> HIDE DEF G
  <2> QED
    BY <1>1, SetInSet
<1> QED
  BY <1>2

\* What is zero outside a part adds up to the sum of the part.
LEMMA SumPart ==
  ASSUME NEW S, IsFiniteSet(S), NEW T \in SUBSET S,
         NEW f, \A x \in S : f[x] \in Int, \A x \in S \ T : f[x] = 0
  PROVE  SumOf(f, S) = SumOf(f, T)
<1> DEFINE G == {s \in SUBSET (S \ T) : SumOf(f, T \cup s) = SumOf(f, T)}
<1>1. ASSUME NEW s \in SUBSET (S \ T), \A x \in s : s \ {x} \in G PROVE s \in G
  <2>1. CASE s = {}
    BY <2>1
  <2>2. CASE s # {}
    <3>1. PICK x \in s : TRUE
      BY <2>2
    <3>2. IsFiniteSet(T \cup s) /\ (T \cup s) \ {x} = T \cup (s \ {x}) /\ T \cup s \subseteq S
      BY <3>1, FS_Subset
    <3>3. SumOf(f, T \cup s) = f[x] + SumOf(f, T \cup (s \ {x}))
      BY <3>1, <3>2, SumStep
    <3>4. SumOf(f, T) \in Int
      BY FS_Subset, SumType
    <3> QED
      BY <1>1, <3>1, <3>3, <3>4
  <2> QED
    BY <2>1, <2>2
<1>2. IsFiniteSet(S \ T)
  BY FS_Subset
<1>3. \A s \in SUBSET (S \ T) : s \in G
  <2> HIDE DEF G
  <2> QED
    BY ZenonT(60), <1>1, <1>2, SetInSet
<1>4. T \cup (S \ T) = S /\ S \ T \in SUBSET (S \ T)
  OBVIOUS
<1>5. S \ T \in G
  BY <1>3, <1>4, Zenon
<1> QED
  BY <1>4, <1>5

\* What is zero everywhere, and what is zero but at one place.
LEMMA SumZero ==
  ASSUME NEW S, IsFiniteSet(S), NEW f, \A x \in S : f[x] = 0
  PROVE  SumOf(f, S) = 0
<1>1. {} \in SUBSET S /\ \A x \in S : f[x] \in Int
  OBVIOUS
<1>2. SumOf(f, S) = SumOf(f, {})
  BY <1>1, SumPart
<1> QED
  BY <1>2, SumEmpty

LEMMA SumSingle ==
  ASSUME NEW S, IsFiniteSet(S), NEW x \in S, NEW f, f[x] \in Int,
         \A y \in S \ {x} : f[y] = 0
  PROVE  SumOf(f, S) = f[x]
<1>1. \A y \in S : f[y] \in Int
  OBVIOUS
<1>2. SumOf(f, S) = f[x] + SumOf(f, S \ {x})
  BY <1>1, SumStep
<1>3. SumOf(f, S \ {x}) = 0
  BY FS_Subset, SumZero
<1> QED
  BY <1>2, <1>3

\* What satisfies the recursion is the sum: the way to a sum of other terms
\* than the values of a function.
LEMMA TableIsSum ==
  ASSUME NEW S, IsFiniteSet(S), NEW f, \A x \in S : f[x] \in Int,
         NEW g, IsTable(g, f, S)
  PROVE  g[S] = SumOf(f, S)
<1>1. PICK h : IsSumTable(h, f, S)
  BY SumTable
<1>2. \A s \in SUBSET S : g[s] = h[s]
  BY <1>1, TablesAgree DEF IsSumTable
<1> QED
  BY <1>1, <1>2 DEF IsSumTable
\* A sum of what is not negative grows with its set.
LEMMA SumGrows ==
  ASSUME NEW S, IsFiniteSet(S), NEW T \in SUBSET S, NEW f, \A x \in S : f[x] \in Nat
  PROVE  SumOf(f, T) \in Nat /\ SumOf(f, S) \in Nat /\ SumOf(f, T) <= SumOf(f, S)
<1> DEFINE G == {s \in SUBSET S : SumOf(f, s) \in Nat}
           H == {s \in SUBSET (S \ T) : SumOf(f, T) <= SumOf(f, T \cup s)}
<1>1. ASSUME NEW s \in SUBSET S, \A x \in s : s \ {x} \in G PROVE s \in G
  <2>1. CASE s = {}
    BY <2>1, SumEmpty
  <2>2. CASE s # {}
    <3>1. PICK x \in s : TRUE
      BY <2>2
    <3>2. IsFiniteSet(s) /\ \A y \in s : f[y] \in Int
      BY FS_Subset
    <3>3. SumOf(f, s) = f[x] + SumOf(f, s \ {x})
      BY <3>1, <3>2, SumStep
    <3>4. SumOf(f, s \ {x}) \in Nat /\ f[x] \in Nat
      BY <1>1, <3>1
    <3> QED
      BY <3>3, <3>4
  <2> QED
    BY <2>1, <2>2
<1>2. \A s \in SUBSET S : s \in G
  <2> HIDE DEF G
  <2> QED
    BY <1>1, SetInSet
<1>3. ASSUME NEW s \in SUBSET (S \ T), \A x \in s : s \ {x} \in H PROVE s \in H
  <2>1. CASE s = {}
    <3>1. T \cup s = T
      BY <2>1
    <3> QED
      BY <1>2, <3>1
  <2>2. CASE s # {}
    <3>1. PICK x \in s : TRUE
      BY <2>2
    <3>2. IsFiniteSet(T \cup s) /\ \A y \in T \cup s : f[y] \in Int
      BY FS_Subset
    <3>3. x \in T \cup s /\ (T \cup s) \ {x} = T \cup (s \ {x})
      BY <3>1
    <3>4. SumOf(f, T \cup s) = f[x] + SumOf(f, T \cup (s \ {x}))
      BY <3>2, <3>3, SumStep
    <3>5. SumOf(f, T) <= SumOf(f, T \cup (s \ {x}))
      BY <1>3, <3>1
    <3>6. /\ SumOf(f, T) \in Nat /\ SumOf(f, T \cup (s \ {x})) \in Nat
          /\ f[x] \in Nat
      BY <1>2, <3>1
    <3> QED
      BY <3>4, <3>5, <3>6
  <2> QED
    BY <2>1, <2>2
<1>4. \A s \in SUBSET (S \ T) : s \in H
  <2>1. IsFiniteSet(S \ T)
    BY FS_Subset
  <2> HIDE DEF H
  <2> QED
    BY <1>3, <2>1, SetInSet
<1>5. T \cup (S \ T) = S
  OBVIOUS
<1> QED
  BY <1>2, <1>4, <1>5

\* One more term at most.
LEMMA SumAdds ==
  ASSUME NEW S, IsFiniteSet(S), NEW x, NEW T \in SUBSET (S \cup {x}),
         NEW f, \A y \in S \cup {x} : f[y] \in Nat
  PROVE  SumOf(f, T) \in Nat /\ SumOf(f, S) \in Nat /\ SumOf(f, T) <= SumOf(f, S) + f[x]
<1>1. IsFiniteSet(S \cup {x})
  BY FS_AddElement
<1>2. /\ SumOf(f, T) \in Nat /\ SumOf(f, S \cup {x}) \in Nat
      /\ SumOf(f, T) <= SumOf(f, S \cup {x})
  BY <1>1, SumGrows
<1>3. SumOf(f, S) \in Nat
  BY SumGrows
<1>4. SumOf(f, S \cup {x}) <= SumOf(f, S) + f[x]
  <2>1. CASE x \in S
    <3>1. S \cup {x} = S /\ f[x] \in Nat
      BY <2>1
    <3> QED
      BY <1>3, <3>1
  <2>2. CASE x \notin S
    <3>1. (S \cup {x}) \ {x} = S /\ x \in S \cup {x}
      BY <2>2
    <3>2. \A y \in S \cup {x} : f[y] \in Int
      OBVIOUS
    <3>3. SumOf(f, S \cup {x}) = f[x] + SumOf(f, S)
      BY <1>1, <3>1, <3>2, SumStep
    <3>4. f[x] \in Nat
      OBVIOUS
    <3> QED
      BY <1>3, <3>3, <3>4
  <2> QED
    BY <2>1, <2>2
<1>5. f[x] \in Nat
  OBVIOUS
<1> QED
  BY <1>2, <1>3, <1>4, <1>5

\* A finite set of numbers has a greatest.
LEMMA GreatestNat ==
  ASSUME NEW S, IsFiniteSet(S), S \subseteq Nat, S # {}
  PROVE  \E m \in S : \A n \in S : n <= m
<1> DEFINE G == {s \in SUBSET S : s = {} \/ \E m \in s : \A n \in s : n <= m}
<1>1. ASSUME NEW s \in SUBSET S, \A x \in s : s \ {x} \in G PROVE s \in G
  <2>1. CASE s = {}
    BY <2>1
  <2>2. CASE s # {}
    <3>1. PICK x \in s : TRUE
      BY <2>2
    <3>2. s \ {x} = {} \/ \E m \in s \ {x} : \A n \in s \ {x} : n <= m
      BY <1>1, <3>1
    <3> QED
      BY <3>1, <3>2
  <2> QED
    BY <2>1, <2>2
<1>2. \A s \in SUBSET S : s \in G
  <2> HIDE DEF G
  <2> QED
    BY <1>1, SetInSet
<1> QED
  BY <1>2

\* The places of a sequence.
LEMMA FirstAreFinite ==
  ASSUME NEW n \in Nat
  PROVE  IsFiniteSet(1 .. n)
<1>1. 1 \in Int /\ n \in Int
  OBVIOUS
<1> QED
  BY <1>1, FS_Interval, Zenon

-----------------------------------------------------------------------------
(* Recursion over numbers. *)

IsChain(f, S, a, G, n) ==
  f \in [0 .. n -> S] /\ f[0] = a /\ \A i \in 1 .. n : f[i] = G[i][f[i - 1]]

\* A start and a rule for the next one make a sequence.
LEMMA ChainExists ==
  ASSUME NEW S, NEW a \in S, NEW G \in [Nat -> [S -> S]], NEW n \in Nat
  PROVE  \E f : IsChain(f, S, a, G, n)
<1> DEFINE Chain(m) == \E f \in [0 .. m -> S] : f[0] = a /\ \A i \in 1 .. m : f[i] = G[i][f[i - 1]]
           H == {m \in Nat : Chain(m)}
<1>1. Chain(0)
  <2> DEFINE f == [i \in 0 .. 0 |-> a]
  <2>1. f \in [0 .. 0 -> S] /\ f[0] = a /\ \A i \in 1 .. 0 : f[i] = G[i][f[i - 1]]
    OBVIOUS
  <2> QED
    BY <2>1
<1>2. ASSUME NEW m \in Nat, Chain(m) PROVE Chain(m + 1)
  <2>1. PICK f \in [0 .. m -> S] : f[0] = a /\ \A i \in 1 .. m : f[i] = G[i][f[i - 1]]
    BY <1>2
  <2> DEFINE last == G[m + 1][f[m]]
             g == [i \in 0 .. m + 1 |-> IF i = m + 1 THEN last ELSE f[i]]
  <2>2. last \in S
    OBVIOUS
  <2>3. \A i \in 0 .. m + 1 : i = m + 1 \/ (i \in 0 .. m /\ i # m + 1)
    OBVIOUS
  <2>4. g \in [0 .. m + 1 -> S] /\ g[0] = a
    BY <2>1, <2>2, <2>3
  <2>5. \A i \in 1 .. m + 1 : g[i] = G[i][g[i - 1]]
    <3> TAKE i \in 1 .. m + 1
    <3>1. CASE i = m + 1
      <4>1. g[i] = last /\ i - 1 = m /\ g[m] = f[m]
        BY <3>1
      <4> QED
        BY <3>1, <4>1
    <3>2. CASE i # m + 1
      <4>1. i \in 1 .. m /\ i - 1 \in 0 .. m /\ g[i] = f[i] /\ g[i - 1] = f[i - 1]
        BY <3>2
      <4> QED
        BY <2>1, <4>1
    <3> QED
      BY <3>1, <3>2
  <2> HIDE DEF g
  <2> QED
    BY <2>4, <2>5
<1> HIDE DEF Chain
<1>3. 0 \in H /\ \A m \in Nat : m \in H => m + 1 \in H
  BY <1>1, <1>2
<1> HIDE DEF H
<1>4. n \in H
  BY <1>3, NatInSet
<1> QED
  BY <1>4 DEF H, Chain, IsChain

-----------------------------------------------------------------------------
(* What a bijection keeps. *)

\* g renames the elements of S to those of T.
Renames(g, S, T) ==
  /\ \A x \in S : g[x] \in T
  /\ \A x, y \in S : g[x] = g[y] => x = y
  /\ \A y \in T : \E x \in S : g[x] = y

LEMMA CountRenamed ==
  ASSUME NEW S, IsFiniteSet(S), NEW T, NEW g, Renames(g, S, T)
  PROVE  IsFiniteSet(T) /\ Cardinality(T) = Cardinality(S)
<1> DEFINE f == [x \in S |-> g[x]]
<1>1. f \in Bijection(S, T)
  BY DEF Renames, Bijection, Injection, Surjection, IsInjective
<1>2. ExistsBijection(S, T)
  BY <1>1 DEF ExistsBijection
<1> QED
  BY <1>2, FS_Bijection

\* A sum does not depend on the names of what is added.
LEMMA SumRenamed ==
  ASSUME NEW S, IsFiniteSet(S), NEW T, NEW g, Renames(g, S, T),
         NEW f, \A y \in T : f[y] \in Int,
         NEW e, \A x \in S : e[x] = f[g[x]]
  PROVE  SumOf(e, S) = SumOf(f, T)
<1> DEFINE Img(s) == {g[x] : x \in s}
           H == {s \in SUBSET S : IsFiniteSet(Img(s)) /\ SumOf(e, s) = SumOf(f, Img(s))}
<1>1. ASSUME NEW s \in SUBSET S, \A x \in s : s \ {x} \in H PROVE s \in H
  <2>1. IsFiniteSet(s)
    BY FS_Subset
  <2>2. CASE s = {}
    <3>1. Img(s) = {}
      BY <2>2
    <3>2. SumOf(e, s) = 0 /\ SumOf(f, Img(s)) = 0 /\ IsFiniteSet(Img(s))
      <4> HIDE DEF Img
      <4> QED
        BY <2>2, <3>1, FS_EmptySet, SumEmpty
    <3> QED
      BY <3>2
  <2>3. CASE s # {}
    <3>1. PICK x \in s : TRUE
      BY <2>3
    <3>2. IsFiniteSet(Img(s \ {x})) /\ SumOf(e, s \ {x}) = SumOf(f, Img(s \ {x}))
      BY <1>1
    <3>3. /\ Img(s) = Img(s \ {x}) \cup {g[x]}
          /\ Img(s) \ {g[x]} = Img(s \ {x})
      BY DEF Renames
    <3>4. g[x] \in Img(s) /\ \A y \in Img(s) : f[y] \in Int
      BY DEF Renames
    <3>5. \A y \in s : e[y] \in Int
      BY DEF Renames
    <3> DEFINE I == Img(s)
               J == Img(s \ {x})
    <3>0. IsFiniteSet(J) /\ I = J \cup {g[x]}
      BY <3>2, <3>3
    <3> HIDE DEF I, J, H, Img
    <3>6. IsFiniteSet(I)
      BY <3>0, FS_AddElement
    <3>7. SumOf(f, I) = f[g[x]] + SumOf(f, I \ {g[x]})
      <4>1. g[x] \in I /\ \A y \in I : f[y] \in Int
        BY <3>4 DEF I
      <4> QED
        BY <3>6, <4>1, SumStep
    <3>8. SumOf(e, s) = e[x] + SumOf(e, s \ {x})
      BY <2>1, <3>5, SumStep
    <3>9. SumOf(e, s) = SumOf(f, I)
      BY <3>2, <3>3, <3>7, <3>8 DEF I, J
    <3> QED
      BY <3>6, <3>9 DEF H, I
  <2> QED
    BY <2>2, <2>3
<1>2. S \in H
  <2> HIDE DEF H
  <2>1. \A s \in SUBSET S : s \in H
    BY <1>1, SetInSet
  <2> QED
    BY <2>1
<1>3. Img(S) = T
  BY DEF Renames
<1> QED
  BY <1>2, <1>3

\* A set that misses an element is the smaller one.
LEMMA PartIsLess ==
  ASSUME NEW S, IsFiniteSet(S), NEW T, T \subseteq S, NEW x \in S, x \notin T
  PROVE  /\ Cardinality(T) \in Nat /\ Cardinality(S) \in Nat
         /\ Cardinality(T) + 1 <= Cardinality(S)
<1>1. /\ IsFiniteSet(T) /\ Cardinality(T) \in Nat /\ Cardinality(S) \in Nat
      /\ Cardinality(T) <= Cardinality(S)
  BY FS_Subset, FS_CardinalityType
<1>2. Cardinality(S) # Cardinality(T)
  BY FS_Subset
<1> QED
  BY <1>1, <1>2

\* The elements below x.
Below(S, x) == {j \in S : j < x}

\* The numbers of a finite set in their order: the n-th has n - 1 below it.
LEMMA RanksList ==
  ASSUME NEW S, IsFiniteSet(S), S \subseteq Nat, NEW f,
         \A n \in 1 .. Cardinality(S) : f[n] = CHOOSE i \in S : Cardinality(Below(S, i)) = n - 1
  PROVE  Renames(f, 1 .. Cardinality(S), S)
<1> DEFINE c == Cardinality(S)
           R == [i \in S |-> Cardinality(Below(S, i))]
           T == 0 .. c - 1
<1>1. c \in Nat
  BY FS_CardinalityType
<1>2. \A i \in S : R[i] \in Nat /\ R[i] + 1 <= c
  <2> TAKE i \in S
  <2>1. Below(S, i) \subseteq S /\ i \notin Below(S, i)
    BY DEF Below
  <2> QED
    BY <2>1, PartIsLess
<1>3. ASSUME NEW i \in S, NEW j \in S, i < j PROVE R[i] # R[j]
  <2>0. \A k \in S : k < i => k < j
    BY <1>3
  <2>1. /\ Below(S, i) \subseteq Below(S, j) /\ i \notin Below(S, i) /\ i \in Below(S, j)
        /\ Below(S, j) \subseteq S
    <3> HIDE DEF R, T, c
    <3>1. ~ (i < i) /\ i < j
      BY <1>3
    <3>2. Below(S, i) \subseteq Below(S, j)
      BY <2>0 DEF Below
    <3> QED
      BY <3>1, <3>2 DEF Below
  <2>2. IsFiniteSet(Below(S, j))
    BY <2>1, FS_Subset
  <2>3. R[i] \in Nat /\ R[j] \in Nat /\ R[i] + 1 <= R[j]
    BY <2>1, <2>2, PartIsLess
  <2> QED
    BY <2>3
<1>4. \A i, j \in S : i # j => i < j \/ j < i
  OBVIOUS
<1>5. DOMAIN R = S
  OBVIOUS
<1>6. \A i \in S : Cardinality(Below(S, i)) = R[i]
  OBVIOUS
<1> HIDE DEF R
<1>7. \A i, j \in S : R[i] = R[j] => i = j
  BY <1>3, <1>4
<1>8. IsFiniteSet(T) /\ Cardinality(T) = c
  <2> HIDE DEF c
  <2>1. IsFiniteSet(0 .. c - 1) /\ Cardinality(0 .. c - 1) = IF 0 > c - 1 THEN 0 ELSE c - 1 - 0 + 1
    BY <1>1, FS_Interval
  <2> QED
    BY <1>1, <2>1
<1>9. \A i \in S : R[i] \in T
  <2> HIDE DEF c
  <2> QED
    BY <1>1, <1>2
<1> DEFINE g == [i \in S |-> R[i]]
<1>10. g \in Injection(S, T)
  <2> HIDE DEF T
  <2> QED
    BY <1>7, <1>9 DEF Injection, IsInjective
<1>11. g \in Surjection(S, T)
  <2> HIDE DEF g, T
  <2> QED
    BY <1>8, <1>10, FS_Injection
<1>12. \A k \in T : \E i \in S : R[i] = k
  <2> HIDE DEF T
  <2> QED
    BY <1>11 DEF Surjection
<1> HIDE DEF T, g
<1>13. ASSUME NEW n \in 1 .. c PROVE f[n] \in S /\ R[f[n]] = n - 1
  <2>1. n - 1 \in T
    BY <1>1 DEF T
  <2> DEFINE k == n - 1
  <2>2. \E i \in S : Cardinality(Below(S, i)) = k
    BY <1>6, <1>12, <2>1
  <2>3. f[n] = CHOOSE i \in S : Cardinality(Below(S, i)) = k
    OBVIOUS
  <2> HIDE DEF k
  <2>4. f[n] \in S /\ Cardinality(Below(S, f[n])) = k
    BY <2>2, <2>3
  <2> QED
    BY <1>6, <2>4 DEF k
<1>14. \A i, j \in 1 .. c : f[i] = f[j] => i = j
  <2> SUFFICES ASSUME NEW i \in 1 .. c, NEW j \in 1 .. c, f[i] = f[j] PROVE i = j
    OBVIOUS
  <2>1. i - 1 = j - 1
    BY <1>13
  <2> QED
    BY <1>1, <2>1
<1>15. ASSUME NEW i \in S PROVE \E n \in 1 .. c : f[n] = i
  <2> DEFINE n == R[i] + 1
  <2>1. n \in 1 .. c /\ n - 1 = R[i]
    <3> HIDE DEF c
    <3> QED
      BY <1>1, <1>2
  <2>2. f[n] \in S /\ R[f[n]] = R[i]
    BY <1>13, <2>1
  <2> HIDE DEF n
  <2> QED
    BY <1>7, <2>1, <2>2
<1> QED
  BY <1>13, <1>14, <1>15 DEF Renames

\* The sum over two sets that share nothing.
LEMMA SumUnion ==
  ASSUME NEW S, IsFiniteSet(S), NEW T, IsFiniteSet(T), S \cap T = {},
         NEW f, \A x \in S \cup T : f[x] \in Int
  PROVE  SumOf(f, S \cup T) = SumOf(f, S) + SumOf(f, T)
<1> DEFINE U == S \cup T
           g == [x \in U |-> IF x \in S THEN f[x] ELSE 0]
           h == [x \in U |-> IF x \in T THEN f[x] ELSE 0]
<1>1. IsFiniteSet(U) /\ S \in SUBSET U /\ T \in SUBSET U
  BY FS_Union
<1>2. /\ \A x \in U : g[x] \in Int /\ h[x] \in Int /\ f[x] = g[x] + h[x]
      /\ \A x \in U \ S : g[x] = 0
      /\ \A x \in U \ T : h[x] = 0
      /\ \A x \in S : f[x] = g[x]
      /\ \A x \in T : f[x] = h[x]
  OBVIOUS
<1> HIDE DEF U, g, h
<1>3. SumOf(f, U) = SumOf(g, U) + SumOf(h, U)
  BY <1>1, <1>2, SumPlus
<1>4. SumOf(g, U) = SumOf(g, S) /\ SumOf(h, U) = SumOf(h, T)
  BY <1>1, <1>2, SumPart
<1>5. SumOf(f, S) = SumOf(g, S)
  BY <1>1, <1>2, SumSame
<1>6. SumOf(f, T) = SumOf(h, T)
  BY <1>1, <1>2, SumSame
<1> QED
  BY <1>3, <1>4, <1>5, <1>6 DEF U

\* The greatest of the first numbers.
LEMMA TopOf ==
  ASSUME NEW s \in SUBSET Nat, NEW x \in s, \A y \in s : y <= x
  PROVE  Max(s) = x
<1>1. x \in Nat /\ \A y \in s : y \in Nat /\ x >= y
  OBVIOUS
<1>2. \A z \in s : (\A y \in s : z >= y) => z = x
  BY <1>1
<1> QED
  BY <1>1, <1>2 DEF Max

LEMMA TopIn ==
  ASSUME NEW n \in Nat, NEW s \in SUBSET (1 .. n), s # {}
  PROVE  Max(s) \in s
<1> DEFINE S == 1 .. n
<1>1. IsFiniteSet(S) /\ S \subseteq Nat /\ s \in SUBSET S
  BY FirstAreFinite
<1> HIDE DEF S
<1>2. IsFiniteSet(s) /\ s \subseteq Nat
  BY <1>1, FS_Subset
<1>3. PICK m \in s : \A k \in s : k <= m
  BY <1>2, GreatestNat
<1>4. Max(s) = m
  BY <1>2, <1>3, TopOf
<1> QED
  BY <1>4

\* What the items of s come to, the last of them taken by its rule.
FoldStep(h, a, G, s) == IF s = {} THEN a ELSE G[Max(s)][h[s \ {Max(s)}]]
IsFold(h, S, a, G, n) ==
  h \in [SUBSET (1 .. n) -> S] /\ \A s \in SUBSET (1 .. n) : h[s] = FoldStep(h, a, G, s)

\* A start and a rule for each item make a fold over the first n items.
LEMMA FoldExists ==
  ASSUME NEW S, NEW a \in S, NEW G \in [Nat -> [S -> S]], NEW n \in Nat
  PROVE  \E h : IsFold(h, S, a, G, n)
<1> DEFINE H == {m \in Nat : \E h : IsFold(h, S, a, G, m)}
<1>1. 0 \in H
  <2> DEFINE h == [s \in SUBSET (1 .. 0) |-> a]
  <2>1. \A s \in SUBSET (1 .. 0) : FoldStep(h, a, G, s) = a
    BY DEF FoldStep
  <2>2. IsFold(h, S, a, G, 0)
    BY <2>1 DEF IsFold
  <2> QED
    BY <2>2
<1>2. ASSUME NEW m \in Nat, m \in H PROVE m + 1 \in H
  <2> DEFINE D == 1 .. m
             k == m + 1
             E == 1 .. k
  <2>1. PICK g : IsFold(g, S, a, G, m)
    BY <1>2
  <2> DEFINE h == [s \in SUBSET E |-> IF k \in s THEN G[k][g[s \ {k}]] ELSE g[s]]
  <2>2. /\ k \in Nat /\ k \notin D /\ D \subseteq Nat /\ E \subseteq Nat
        /\ E = D \cup {k} /\ \A y \in E : y <= k
    OBVIOUS
  <2>3. g \in [SUBSET D -> S] /\ \A s \in SUBSET D : g[s] = FoldStep(g, a, G, s)
    BY <2>1 DEF IsFold
  <2>4. ASSUME NEW s \in SUBSET D, s # {} PROVE Max(s) \in s
    BY <2>4, TopIn
  <2>5. \A s \in SUBSET E : k \in s => Max(s) = k
    <3> HIDE DEF E, k
    <3> QED
      BY <2>2, TopOf
  <2> HIDE DEF D, E, k
  <2>6. \A s \in SUBSET D : h[s] = g[s]
    BY <2>2
  <2>7. ASSUME NEW s \in SUBSET E PROVE h[s] \in S /\ h[s] = FoldStep(h, a, G, s)
    <3>1. CASE k \in s
      <4>1. s \ {k} \in SUBSET D
        BY <2>2
      <4>2. h[s] = G[k][g[s \ {k}]] /\ h[s \ {k}] = g[s \ {k}] /\ G[k] \in [S -> S]
        BY <2>2, <2>6, <3>1, <4>1
      <4> HIDE DEF h
      <4> QED
        BY <2>3, <2>5, <3>1, <4>1, <4>2 DEF FoldStep
    <3>2. CASE k \notin s
      <4>1. s \in SUBSET D
        BY <2>2, <3>2
      <4>2. s # {} => s \ {Max(s)} \in SUBSET D
        BY <4>1
      <4>3. h[s] = g[s] /\ (s # {} => h[s \ {Max(s)}] = g[s \ {Max(s)}])
        BY <2>6, <4>1, <4>2
      <4>4. g[s] = FoldStep(g, a, G, s) /\ g[s] \in S
        BY <2>3, <4>1
      <4> HIDE DEF h
      <4> QED
        BY <4>3, <4>4 DEF FoldStep
    <3> QED
      BY <3>1, <3>2
  <2>8. h = [s \in SUBSET E |-> h[s]]
    OBVIOUS
  <2>9. h \in [SUBSET E -> S]
    <3> HIDE DEF h
    <3> QED
      BY <2>7, <2>8
  <2>10. IsFold(h, S, a, G, k)
    <3> HIDE DEF h
    <3> QED
      BY <2>7, <2>9 DEF IsFold, E
  <2> HIDE DEF h
  <2>11. \E f : IsFold(f, S, a, G, k)
    BY <2>10
  <2> QED
    BY <2>2, <2>11 DEF k
<1> HIDE DEF H
<1>3. n \in H
  BY <1>1, <1>2, NatInSet
<1> QED
  BY <1>3 DEF H

\* What a fold over the first numbers takes last.
LEMMA FirstTop ==
  ASSUME NEW n \in Nat
  PROVE  /\ 1 .. n + 1 # {} /\ Max(1 .. n + 1) = n + 1 /\ (1 .. n + 1) \ {n + 1} = 1 .. n
         /\ 1 .. 0 = {}
<1>1. n + 1 \in 1 .. n + 1 /\ \A y \in 1 .. n + 1 : y <= n + 1
  OBVIOUS
<1>2. (1 .. n + 1) \ {n + 1} = 1 .. n /\ 1 .. 0 = {}
  OBVIOUS
<1>3. 1 .. n + 1 \in SUBSET Nat
  OBVIOUS
<1>4. Max(1 .. n + 1) = n + 1
  BY <1>1, <1>3, TopOf
<1> QED
  BY <1>1, <1>2, <1>4

\* What is less for each is less in all.
LEMMA SumOrder ==
  ASSUME NEW S, IsFiniteSet(S), NEW f, \A x \in S : f[x] \in Int,
         NEW g, \A x \in S : g[x] \in Int /\ f[x] <= g[x]
  PROVE  SumOf(f, S) <= SumOf(g, S)
<1> DEFINE h == [x \in S |-> g[x] - f[x]]
<1>1. \A x \in S : h[x] \in Nat /\ g[x] = f[x] + h[x]
  OBVIOUS
<1> HIDE DEF h
<1>2. \A x \in S : h[x] \in Int
  BY <1>1
<1>3. SumOf(g, S) = SumOf(f, S) + SumOf(h, S)
  BY <1>1, <1>2, SumPlus
<1>4. SumOf(h, S) \in Nat
  BY <1>1, SumGrows
<1>5. SumOf(f, S) \in Int
  BY SumType
<1> QED
  BY <1>3, <1>4, <1>5

\* A fold passes through what the first items come to.
PassesThrough(F, h, S, a, G, n) ==
  /\ F \in [0 .. n -> S] /\ F[0] = a /\ F[n] = h[1 .. n]
  /\ \A k \in 1 .. n : F[k] = G[k][F[k - 1]]

LEMMA FoldRuns ==
  ASSUME NEW S, NEW a, NEW G, NEW n \in Nat, NEW h, IsFold(h, S, a, G, n)
  PROVE  \E F : PassesThrough(F, h, S, a, G, n)
<1> DEFINE F == [k \in 0 .. n |-> h[1 .. k]]
<1>1. h \in [SUBSET (1 .. n) -> S] /\ \A s \in SUBSET (1 .. n) : h[s] = FoldStep(h, a, G, s)
  BY DEF IsFold
<1>2. \A k \in 0 .. n : 1 .. k \in SUBSET (1 .. n)
  OBVIOUS
<1>3. \A k \in 0 .. n : h[1 .. k] \in S
  BY <1>1, <1>2
<1>4. F \in [0 .. n -> S]
  BY <1>3
<1>5. F[0] = a /\ F[n] = h[1 .. n]
  <2>1. 1 .. 0 = {} /\ {} \in SUBSET (1 .. n)
    OBVIOUS
  <2>2. h[{}] = a
    BY <1>1, <2>1 DEF FoldStep
  <2>3. 0 \in 0 .. n /\ n \in 0 .. n
    OBVIOUS
  <2> QED
    BY <2>1, <2>2, <2>3
<1>6. ASSUME NEW k \in 1 .. n PROVE F[k] = G[k][F[k - 1]]
  <2> DEFINE m == k - 1
             K == 1 .. k
  <2>1. m \in Nat /\ k = m + 1 /\ k \in 0 .. n /\ m \in 0 .. n
    OBVIOUS
  <2>2. K # {} /\ Max(K) = k /\ K \ {k} = 1 .. m
    <3> HIDE DEF m
    <3> QED
      BY <2>1, FirstTop
  <2>3. K \in SUBSET (1 .. n)
    BY <1>2, <2>1
  <2>4. F[k] = h[K] /\ F[m] = h[1 .. m]
    BY <2>1
  <2> HIDE DEF F, K, m
  <2>5. h[K] = G[k][h[1 .. m]]
    BY <1>1, <2>2, <2>3 DEF FoldStep
  <2> QED
    BY <2>4, <2>5 DEF m
<1> HIDE DEF F
<1> QED
  BY <1>4, <1>5, <1>6 DEF PassesThrough
=============================================================================
