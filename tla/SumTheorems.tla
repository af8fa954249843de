---------------------------- MODULE SumTheorems ----------------------------
(***************************************************************************)
(* Sums of integer functions over finite sets, in the form in which the    *)
(* modules write them, FoldFunction of the community modules: the sum does *)
(* not depend on the order of the elements, and what it is after an update *)
(* of one element, of a sum of functions, of a function extended by zero.  *)
(*                                                                         *)
(* A fold is a CHOOSE among the functions that satisfy its recursion, so   *)
(* first such a function is shown to exist, by induction on the size of    *)
(* the sets it is defined for.  Induction is by the least element of a set *)
(* of natural numbers.                                                     *)
(***************************************************************************)
EXTENDS Integers, FiniteSets, Functions, FiniteSetTheorems, WellFoundedInduction, TLAPS

SumOf(f) == FoldFunction(LAMBDA x, y : x + y, 0, f)

-----------------------------------------------------------------------------
(* Induction *)

\* A set of natural numbers that is not empty has a least element.
LEMMA LeastOf ==
    ASSUME NEW T, T \subseteq Nat, T # {}
    PROVE  \E n \in T : \A m \in T : ~ (m < n)
<1>1. PICK n \in T : \A m \in T : ~ (<<m, n>> \in OpToRel(<, Nat))
  BY WFMin, NatLessThanWellFounded
<1> QED
  BY <1>1 DEF OpToRel

\* A set that holds 0 and with every number the next one holds all of them.
LEMMA Counting ==
    ASSUME NEW N, 0 \in N, \A n \in Nat : n \in N => n + 1 \in N
    PROVE  \A n \in Nat : n \in N
<1> SUFFICES ASSUME Nat \ N # {} PROVE FALSE
  OBVIOUS
<1>1. PICK n \in Nat \ N : \A m \in Nat \ N : ~ (m < n)
  <2>1. Nat \ N \subseteq Nat
    OBVIOUS
  <2> QED
    BY <2>1, LeastOf
<1>2. n # 0 /\ n - 1 \in Nat
  BY <1>1
<1>3. n - 1 \in N
  BY <1>1, <1>2
<1> QED
  BY <1>1, <1>2, <1>3

\* What holds of a subset of S whenever it holds of it without any one of its
\* elements, holds of all subsets of a finite set S.
LEMMA SubsetInduction ==
    ASSUME NEW S, IsFiniteSet(S), NEW K,
           \A s \in SUBSET S : (\A a \in s : s \ {a} \in K) => s \in K
    PROVE  \A s \in SUBSET S : s \in K
<1> SUFFICES ASSUME NEW s \in SUBSET S, s \notin K PROVE FALSE
  OBVIOUS
<1> DEFINE T == {Cardinality(t) : t \in {u \in SUBSET S : u \notin K}}
<1>1. \A t \in SUBSET S : IsFiniteSet(t) /\ Cardinality(t) \in Nat
  BY FS_Subset, FS_CardinalityType
<1>2. T \subseteq Nat /\ T # {}
  BY <1>1
<1> HIDE DEF T
<1>3. PICK n \in T : \A m \in T : ~ (m < n)
  BY <1>2, LeastOf
<1>4. PICK t \in SUBSET S : t \notin K /\ Cardinality(t) = n
  BY <1>3 DEF T
<1>5. ASSUME NEW a \in t PROVE t \ {a} \in K
  <2>1. Cardinality(t \ {a}) = Cardinality(t) - 1 /\ Cardinality(t) \in Nat
    BY <1>1, FS_RemoveElement
  <2>2. t \ {a} \notin K => Cardinality(t \ {a}) \in T
    BY DEF T
  <2> QED
    BY <1>3, <1>4, <2>1, <2>2
<1> QED
  BY <1>4, <1>5

-----------------------------------------------------------------------------
(* The recursion of a fold *)

Choice(s) == CHOOSE x \in s : TRUE

\* What the fold of f is for the set s, given what it is for smaller sets.
Unfolded(f, g, s) == IF s = {} THEN 0 ELSE f[Choice(s)] + g[s \ {Choice(s)}]

\* If some function satisfies the recursion, the sum is the value of one.
LEMMA FoldUnfolds ==
    ASSUME NEW f, NEW S, S = DOMAIN f,
           NEW g, g = [s \in SUBSET S |-> Unfolded(f, g, s)]
    PROVE  \E i : i = [s \in SUBSET S |-> Unfolded(f, i, s)] /\ SumOf(f) = i[S]
<1> DEFINE i == CHOOSE i : i = [s \in SUBSET S |-> Unfolded(f, i, s)]
<1>1. i = [s \in SUBSET S |-> Unfolded(f, i, s)]
  OBVIOUS
<1>2. SumOf(f) = i[S]
  BY DEF SumOf, FoldFunction, FoldFunctionOnSet, MapThenFoldSet, Unfolded, Choice
<1> QED
  BY <1>1, <1>2

\* The subsets of S with at most n elements.
UpTo(S, n) == {s \in SUBSET S : Cardinality(s) <= n}

\* On a finite set such a function exists: it grows with the size of the sets.
LEMMA FoldExists ==
    ASSUME NEW f, NEW S, IsFiniteSet(S)
    PROVE  \E g : g = [s \in SUBSET S |-> Unfolded(f, g, s)]
<1> DEFINE N == {n \in Nat : \E g : g = [s \in UpTo(S, n) |-> Unfolded(f, g, s)]}
<1>1. \A s \in SUBSET S : IsFiniteSet(s) /\ Cardinality(s) \in Nat
  BY FS_Subset, FS_CardinalityType
<1>2. \A s : s # {} => Choice(s) \in s
  BY DEF Choice
<1>3. 0 \in N
  <2>1. UpTo(S, 0) = {{}}
    BY <1>1, FS_EmptySet DEF UpTo
  <2> DEFINE g == [s \in UpTo(S, 0) |-> 0]
  <2>2. g = [s \in UpTo(S, 0) |-> Unfolded(f, g, s)]
    BY <2>1 DEF Unfolded
  <2> QED
    BY <2>2
<1>4. ASSUME NEW n \in Nat, n \in N PROVE n + 1 \in N
  <2>1. PICK g : g = [s \in UpTo(S, n) |-> Unfolded(f, g, s)]
    BY <1>4
  <2> DEFINE value(s) == IF s \in UpTo(S, n) THEN g[s] ELSE Unfolded(f, g, s)
             k == [s \in UpTo(S, n + 1) |-> value(s)]
  <2>2. ASSUME NEW s \in UpTo(S, n + 1) PROVE value(s) = Unfolded(f, k, s)
    <3>1. CASE s = {}
      BY <2>1, <3>1 DEF Unfolded
    <3>2. CASE s # {}
      <4> DEFINE r == s \ {Choice(s)}
      <4>1. Choice(s) \in s /\ s \in SUBSET S /\ Cardinality(s) <= n + 1
        BY <1>2, <3>2 DEF UpTo
      <4>2. Cardinality(r) = Cardinality(s) - 1 /\ Cardinality(s) \in Nat
        BY <1>1, <4>1, FS_RemoveElement
      <4>3. r \in UpTo(S, n) /\ r \in UpTo(S, n + 1)
        BY <4>1, <4>2 DEF UpTo
      <4>4. k[r] = g[r]
        BY <4>3
      <4>5. value(s) = Unfolded(f, g, s)
        BY <2>1
      <4> QED
        BY <3>2, <4>4, <4>5 DEF Unfolded
    <3> QED
      BY <3>1, <3>2
  <2>3. k = [s \in UpTo(S, n + 1) |-> Unfolded(f, k, s)]
    BY <2>2
  <2> HIDE DEF k
  <2> QED
    BY <2>3
<1>5. Cardinality(S) \in N
  <2> HIDE DEF N
  <2>1. \A n \in Nat : n \in N
    BY <1>3, <1>4, Counting
  <2> QED
    BY <1>1, <2>1
<1>6. UpTo(S, Cardinality(S)) = SUBSET S
  BY FS_Subset DEF UpTo
<1> QED
  BY <1>5, <1>6

-----------------------------------------------------------------------------
(* What a sum is *)

\* i gives for every subset of S what f adds up to on it, whichever element
\* is taken out first.
Sums(f, S, i) ==
    /\ i \in [SUBSET S -> Int]
    /\ i[{}] = 0
    /\ \A s \in SUBSET S : \A a \in s : i[s] = f[a] + i[s \ {a}]

\* A sum over a finite set does not depend on the order of its elements.
LEMMA SumCharacter ==
    ASSUME NEW S, IsFiniteSet(S), NEW f \in [S -> Int]
    PROVE  \E i : Sums(f, S, i) /\ SumOf(f) = i[S]
<1>1. PICK i : i = [s \in SUBSET S |-> Unfolded(f, i, s)] /\ SumOf(f) = i[S]
  <2>1. S = DOMAIN f
    OBVIOUS
  <2>2. PICK g : g = [s \in SUBSET S |-> Unfolded(f, g, s)]
    BY FoldExists
  <2> QED
    BY <2>1, <2>2, FoldUnfolds
<1>2. i[{}] = 0
  <2>1. i[{}] = Unfolded(f, i, {})
    BY <1>1
  <2> QED
    BY <2>1 DEF Unfolded
<1>3. ASSUME NEW s \in SUBSET S, s # {}
      PROVE  Choice(s) \in s /\ i[s] = f[Choice(s)] + i[s \ {Choice(s)}]
  <2>1. i[s] = Unfolded(f, i, s)
    BY <1>1
  <2> QED
    BY <1>3, <2>1 DEF Unfolded, Choice
<1>4. \A s \in SUBSET S : i[s] \in Int
  <2> DEFINE K == {s \in SUBSET S : i[s] \in Int}
  <2>1. ASSUME NEW s \in SUBSET S, \A a \in s : s \ {a} \in K PROVE s \in K
    <3>1. CASE s = {}
      BY <1>2, <3>1
    <3>2. CASE s # {}
      <4>1. f[Choice(s)] \in Int /\ s \ {Choice(s)} \in K
        BY <1>3, <2>1, <3>2
      <4>2. i[s \ {Choice(s)}] \in Int
        BY <4>1
      <4>3. i[s] = f[Choice(s)] + i[s \ {Choice(s)}]
        BY <1>3, <3>2
      <4>4. i[s] \in Int
        BY <4>1, <4>2, <4>3
      <4> QED
        BY <4>4
    <3> QED
      BY <3>1, <3>2
  <2>2. \A s \in SUBSET S : s \in K
    <3> HIDE DEF K
    <3> QED
      BY <2>1, SubsetInduction
  <2> QED
    BY <2>2
<1>5. \A s \in SUBSET S : \A a \in s : i[s] = f[a] + i[s \ {a}]
  <2> DEFINE K == {s \in SUBSET S : \A a \in s : i[s] = f[a] + i[s \ {a}]}
  <2>1. ASSUME NEW s \in SUBSET S, \A a \in s : s \ {a} \in K PROVE s \in K
    <3> SUFFICES ASSUME NEW a \in s PROVE i[s] = f[a] + i[s \ {a}]
      OBVIOUS
    <3> DEFINE c == Choice(s)
    <3>1. c \in s /\ i[s] = f[c] + i[s \ {c}]
      BY <1>3
    <3>2. CASE a = c
      BY <3>1, <3>2
    <3>3. CASE a # c
      <4>1. i[s \ {c}] = f[a] + i[(s \ {c}) \ {a}]
        BY <2>1, <3>1, <3>3
      <4>2. i[s \ {a}] = f[c] + i[(s \ {a}) \ {c}]
        BY <2>1, <3>1, <3>3
      <4>3. (s \ {c}) \ {a} = (s \ {a}) \ {c}
        OBVIOUS
      <4>4. f[a] \in Int /\ f[c] \in Int /\ i[(s \ {a}) \ {c}] \in Int
        BY <1>4, <3>1
      <4>5. i[s] = f[c] + (f[a] + i[(s \ {a}) \ {c}])
        BY <3>1, <4>1, <4>3
      <4> HIDE DEF c
      <4> QED
        BY <4>2, <4>4, <4>5
    <3> QED
      BY <3>2, <3>3
  <2>2. \A s \in SUBSET S : s \in K
    <3> HIDE DEF K
    <3> QED
      BY <2>1, SubsetInduction
  <2> QED
    BY <2>2
<1>6. i \in [SUBSET S -> Int]
  BY <1>1, <1>4
<1> QED
  BY <1>1, <1>2, <1>5, <1>6 DEF Sums

\* and that property alone says what it is.
LEMMA SumIs ==
    ASSUME NEW S, IsFiniteSet(S), NEW f \in [S -> Int], NEW j, Sums(f, S, j)
    PROVE  SumOf(f) = j[S]
<1>1. PICK i : Sums(f, S, i) /\ SumOf(f) = i[S]
  BY SumCharacter
<1> DEFINE K == {s \in SUBSET S : i[s] = j[s]}
<1>2. ASSUME NEW s \in SUBSET S, \A a \in s : s \ {a} \in K PROVE s \in K
  <2>1. CASE s = {}
    BY <1>1, <2>1 DEF Sums
  <2>2. CASE s # {}
    <3>1. PICK a \in s : TRUE
      BY <2>2
    <3>2. i[s \ {a}] = j[s \ {a}]
      BY <1>2
    <3>3. i[s] = f[a] + i[s \ {a}] /\ j[s] = f[a] + j[s \ {a}]
      BY <1>1 DEF Sums
    <3> QED
      BY <3>2, <3>3
  <2> QED
    BY <2>1, <2>2
<1>3. \A s \in SUBSET S : s \in K
  <2> HIDE DEF K
  <2> QED
    BY <1>2, SubsetInduction
<1>4. S \in K
  BY <1>3
<1> QED
  BY <1>1, <1>4

-----------------------------------------------------------------------------
(* The lemmas the money needs *)

\* A sum of integers is an integer.
LEMMA SumType ==
    ASSUME NEW S, IsFiniteSet(S), NEW f \in [S -> Int]
    PROVE  SumOf(f) \in Int
<1>1. PICK i : Sums(f, S, i) /\ SumOf(f) = i[S]
  BY SumCharacter
<1> QED
  BY <1>1 DEF Sums

\* Nothing but zeros adds up to zero.
LEMMA SumZero ==
    ASSUME NEW S, IsFiniteSet(S)
    PROVE  SumOf([p \in S |-> 0]) = 0
<1> DEFINE f == [p \in S |-> 0]
           j == [s \in SUBSET S |-> 0]
<1>1. Sums(f, S, j) /\ f \in [S -> Int]
  BY DEF Sums
<1>2. j[S] = 0
  OBVIOUS
<1> HIDE DEF f, j
<1>3. SumOf(f) = 0
  BY <1>1, <1>2, SumIs
<1> QED
  BY <1>3 DEF f

\* The sum of two functions.
LEMMA SumPlus ==
    ASSUME NEW S, IsFiniteSet(S), NEW f \in [S -> Int], NEW g \in [S -> Int],
           NEW h \in [S -> Int], \A p \in S : h[p] = f[p] + g[p]
    PROVE  SumOf(h) = SumOf(f) + SumOf(g)
<1>1. PICK i : Sums(f, S, i) /\ SumOf(f) = i[S]
  BY SumCharacter
<1>2. PICK k : Sums(g, S, k) /\ SumOf(g) = k[S]
  BY SumCharacter
<1> DEFINE j == [s \in SUBSET S |-> i[s] + k[s]]
<1>3. \A s \in SUBSET S : i[s] \in Int /\ k[s] \in Int
  BY <1>1, <1>2 DEF Sums
<1>4. j \in [SUBSET S -> Int] /\ \A s \in SUBSET S : j[s] = i[s] + k[s]
  BY <1>3
<1> HIDE DEF j
<1>5. j[{}] = 0
  BY <1>1, <1>2, <1>4 DEF Sums
<1>6. ASSUME NEW s \in SUBSET S, NEW a \in s PROVE j[s] = h[a] + j[s \ {a}]
  <2>1. i[s] = f[a] + i[s \ {a}] /\ k[s] = g[a] + k[s \ {a}]
    BY <1>1, <1>2 DEF Sums
  <2>2. i[s \ {a}] \in Int /\ k[s \ {a}] \in Int /\ f[a] \in Int /\ g[a] \in Int
    BY <1>3
  <2>3. j[s] = i[s] + k[s] /\ j[s \ {a}] = i[s \ {a}] + k[s \ {a}]
    BY <1>4
  <2> QED
    BY <2>1, <2>2, <2>3
<1>7. SumOf(h) = j[S]
  BY <1>4, <1>5, <1>6, SumIs DEF Sums
<1> QED
  BY <1>1, <1>2, <1>4, <1>7

SameBut(f, h, S, x) == \A p \in S \ {x} : h[p] = f[p]

\* A sum after a change of one element.
LEMMA SumUpdate ==
    ASSUME NEW S, IsFiniteSet(S), NEW f \in [S -> Int], NEW x \in S,
           NEW h \in [S -> Int], SameBut(f, h, S, x)
    PROVE  SumOf(h) = SumOf(f) - f[x] + h[x]
<1>1. PICK i : Sums(f, S, i) /\ SumOf(f) = i[S]
  BY SumCharacter
<1> DEFINE j == [s \in SUBSET S |-> IF x \in s THEN i[s] - f[x] + h[x] ELSE i[s]]
<1>2. /\ f[x] \in Int /\ h[x] \in Int
      /\ \A s \in SUBSET S : i[s] \in Int
  BY <1>1 DEF Sums
<1>3. /\ j \in [SUBSET S -> Int]
      /\ \A s \in SUBSET S : j[s] = IF x \in s THEN i[s] - f[x] + h[x] ELSE i[s]
  BY <1>2
<1> HIDE DEF j
<1>4. j[{}] = 0
  BY <1>1, <1>3 DEF Sums
<1>5. ASSUME NEW s \in SUBSET S, NEW a \in s PROVE j[s] = h[a] + j[s \ {a}]
  <2>1. i[s] = f[a] + i[s \ {a}] /\ i[s \ {a}] \in Int /\ f[a] \in Int
    BY <1>1, <1>2 DEF Sums
  <2>2. CASE a = x
    <3>1. j[s] = i[s] - f[x] + h[x] /\ j[s \ {a}] = i[s \ {a}]
      BY <1>3, <2>2
    <3> QED
      BY <1>2, <2>1, <2>2, <3>1
  <2>3. CASE a # x /\ x \in s
    <3>1. j[s] = i[s] - f[x] + h[x] /\ h[a] = f[a] /\ j[s \ {a}] = i[s \ {a}] - f[x] + h[x]
      BY <1>3, <2>3 DEF SameBut
    <3> QED
      BY <1>2, <2>1, <3>1
  <2>4. CASE a # x /\ x \notin s
    <3>1. j[s] = i[s] /\ h[a] = f[a] /\ j[s \ {a}] = i[s \ {a}]
      BY <1>3, <2>4 DEF SameBut
    <3> QED
      BY <2>1, <3>1
  <2> QED
    BY <2>2, <2>3, <2>4
<1>6. Sums(h, S, j)
  BY <1>3, <1>4, <1>5 DEF Sums
<1>7. SumOf(h) = j[S]
  BY <1>6, SumIs
<1> QED
  BY <1>1, <1>3, <1>7

\* Naturals add up to a natural.
LEMMA SumNat ==
    ASSUME NEW S, IsFiniteSet(S), NEW f \in [S -> Nat]
    PROVE  SumOf(f) \in Nat
<1>0. f \in [S -> Int]
  OBVIOUS
<1>1. PICK i : Sums(f, S, i) /\ SumOf(f) = i[S]
  BY <1>0, SumCharacter
<1> DEFINE K == {s \in SUBSET S : i[s] \in Nat}
<1>2. ASSUME NEW s \in SUBSET S, \A a \in s : s \ {a} \in K PROVE s \in K
  <2>1. CASE s = {}
    BY <1>1, <2>1 DEF Sums
  <2>2. CASE s # {}
    <3>1. PICK a \in s : TRUE
      BY <2>2
    <3>2. i[s \ {a}] \in Nat /\ f[a] \in Nat
      BY <1>2
    <3>3. i[s] = f[a] + i[s \ {a}]
      BY <1>1 DEF Sums
    <3>4. i[s] \in Nat
      BY <3>2, <3>3
    <3> QED
      BY <3>4
  <2> QED
    BY <2>1, <2>2
<1>3. \A s \in SUBSET S : s \in K
  <2> HIDE DEF K
  <2> QED
    BY <1>2, SubsetInduction
<1>4. S \in K
  BY <1>3
<1> QED
  BY <1>1, <1>4

\* No term of a sum of naturals is more than the sum.
LEMMA SumBounds ==
    ASSUME NEW S, IsFiniteSet(S), NEW f \in [S -> Nat], NEW x \in S
    PROVE  f[x] <= SumOf(f)
<1> DEFINE g == [f EXCEPT ![x] = 0]
<1>1. /\ g \in [S -> Nat] /\ g \in [S -> Int] /\ f \in [S -> Int] /\ f[x] \in Nat
      /\ g[x] = 0 /\ SameBut(f, g, S, x)
  BY DEF SameBut
<1> HIDE DEF g
<1>2. SumOf(g) = SumOf(f) - f[x] + g[x]
  BY <1>1, SumUpdate
<1>3. SumOf(g) \in Nat /\ SumOf(f) \in Int
  BY <1>1, SumNat, SumType
<1> QED
  BY <1>1, <1>2, <1>3

\* A function on a subset, extended by zeros, keeps its sum.
LEMMA SumExtend ==
    ASSUME NEW S, IsFiniteSet(S), NEW T \in SUBSET S, NEW d \in [T -> Int],
           NEW h \in [S -> Int], \A p \in S : h[p] = IF p \in T THEN d[p] ELSE 0
    PROVE  SumOf(h) = SumOf(d)
<1>0. IsFiniteSet(T)
  BY FS_Subset
<1>1. PICK i : Sums(d, T, i) /\ SumOf(d) = i[T]
  BY <1>0, SumCharacter
<1> DEFINE j == [s \in SUBSET S |-> i[s \cap T]]
<1>2. j \in [SUBSET S -> Int]
  BY <1>1 DEF Sums
<1>3. j[{}] = 0
  <2>1. {} \cap T = {}
    OBVIOUS
  <2>2. j[{}] = i[{} \cap T]
    OBVIOUS
  <2> QED
    BY <1>1, <2>1, <2>2 DEF Sums
<1>4. ASSUME NEW s \in SUBSET S, NEW a \in s PROVE j[s] = h[a] + j[s \ {a}]
  <2>1. j[s] = i[s \cap T] /\ j[s \ {a}] = i[(s \ {a}) \cap T]
    OBVIOUS
  <2>2. s \cap T \in SUBSET T /\ i[s \cap T] \in Int
    BY <1>1 DEF Sums
  <2>3. CASE a \in T
    <3>1. (s \ {a}) \cap T = (s \cap T) \ {a} /\ a \in s \cap T
      BY <2>3
    <3>2. h[a] = d[a]
      BY <2>3
    <3>3. i[s \cap T] = d[a] + i[(s \cap T) \ {a}]
      BY <1>1, <2>2, <3>1 DEF Sums
    <3> HIDE DEF j
    <3> QED
      BY <2>1, <3>1, <3>2, <3>3
  <2>4. CASE a \notin T
    <3>1. (s \ {a}) \cap T = s \cap T
      BY <2>4
    <3>2. h[a] = 0
      BY <2>4
    <3>3. j[s \ {a}] = i[s \cap T]
      BY <2>1, <3>1
    <3> HIDE DEF j
    <3> QED
      BY <2>1, <2>2, <3>2, <3>3
  <2> QED
    BY <2>3, <2>4
<1>5. j[S] = i[T]
  <2>1. S \cap T = T
    OBVIOUS
  <2>2. j[S] = i[S \cap T]
    OBVIOUS
  <2> QED
    BY <2>1, <2>2
<1> HIDE DEF j
<1>6. Sums(h, S, j)
  BY <1>2, <1>3, <1>4 DEF Sums
<1>7. SumOf(h) = j[S]
  BY <1>6, SumIs
<1> QED
  BY <1>1, <1>5, <1>7

\* No element of an image comes from two.
OneToOne(b, S) == \A x, y \in S : b[x] = b[y] => x = y

\* A sum over other names for the same terms.
LEMMA SumBijection ==
    ASSUME NEW S, IsFiniteSet(S), NEW T, IsFiniteSet(T), NEW b \in [S -> T], OneToOne(b, S),
           \A y \in T : \E x \in S : b[x] = y,
           NEW f \in [T -> Int], NEW h \in [S -> Int], \A x \in S : h[x] = f[b[x]]
    PROVE  SumOf(h) = SumOf(f)
<1>1. PICK i : Sums(f, T, i) /\ SumOf(f) = i[T]
  BY SumCharacter
<1> DEFINE image(s) == {b[x] : x \in s}
           j == [s \in SUBSET S |-> i[image(s)]]
<1>2. \A s \in SUBSET S : image(s) \in SUBSET T
  OBVIOUS
<1>3. j \in [SUBSET S -> Int] /\ \A s \in SUBSET S : j[s] = i[image(s)]
  BY <1>1, <1>2 DEF Sums
<1> HIDE DEF j
<1>4. j[{}] = 0
  <2>1. image({}) = {} /\ {} \in SUBSET S
    OBVIOUS
  <2> QED
    BY <1>1, <1>3, <2>1 DEF Sums
<1>5. ASSUME NEW s \in SUBSET S, NEW a \in s PROVE j[s] = h[a] + j[s \ {a}]
  <2>1. image(s \ {a}) = image(s) \ {b[a]}
    BY DEF OneToOne
  <2>2. b[a] \in image(s) /\ image(s) \in SUBSET T /\ s \ {a} \in SUBSET S
    OBVIOUS
  <2>3. i[image(s)] = f[b[a]] + i[image(s) \ {b[a]}]
    BY <1>1, <2>2 DEF Sums
  <2>4. h[a] = f[b[a]] /\ j[s] = i[image(s)] /\ j[s \ {a}] = i[image(s \ {a})]
    BY <1>3, <2>2
  <2> QED
    BY <2>1, <2>3, <2>4
<1>6. SumOf(h) = j[S]
  <2>1. Sums(h, S, j)
    BY <1>3, <1>4, <1>5 DEF Sums
  <2> QED
    BY <2>1, SumIs
<1>7. image(S) = T
  OBVIOUS
<1>8. j[S] = i[image(S)]
  BY <1>3
<1> QED
  BY <1>1, <1>6, <1>7, <1>8

\* A sum of multiples.
LEMMA SumScale ==
    ASSUME NEW S, IsFiniteSet(S), NEW f \in [S -> Int], NEW c \in Int,
           NEW h \in [S -> Int], \A p \in S : h[p] = c * f[p]
    PROVE  SumOf(h) = c * SumOf(f)
<1>1. PICK i : Sums(f, S, i) /\ SumOf(f) = i[S]
  BY SumCharacter
<1> DEFINE j == [s \in SUBSET S |-> c * i[s]]
<1>2. \A s \in SUBSET S : i[s] \in Int
  BY <1>1 DEF Sums
<1>3. j \in [SUBSET S -> Int] /\ \A s \in SUBSET S : j[s] = c * i[s]
  BY <1>2
<1> HIDE DEF j
<1>4. j[{}] = 0
  <2>1. i[{}] = 0 /\ j[{}] = c * i[{}]
    BY <1>1, <1>3 DEF Sums
  <2> QED
    BY <2>1
<1>5. ASSUME NEW s \in SUBSET S, NEW a \in s PROVE j[s] = h[a] + j[s \ {a}]
  <2>1. i[s] = f[a] + i[s \ {a}] /\ h[a] = c * f[a]
    BY <1>1 DEF Sums
  <2>2. j[s] = c * i[s] /\ j[s \ {a}] = c * i[s \ {a}]
    BY <1>3
  <2>3. f[a] \in Int /\ i[s \ {a}] \in Int
    BY <1>2
  <2>4. \A u, v \in Int : c * (u + v) = c * u + c * v
    OBVIOUS
  <2> QED
    BY <2>1, <2>2, <2>3, <2>4
<1>6. SumOf(h) = j[S]
  BY <1>3, <1>4, <1>5, SumIs DEF Sums
<1> QED
  BY <1>1, <1>3, <1>6

\* A sum of terms none of which is more than its counterpart.
LEMMA SumMonotone ==
    ASSUME NEW S, IsFiniteSet(S), NEW f \in [S -> Int], NEW g \in [S -> Int],
           \A p \in S : f[p] <= g[p]
    PROVE  SumOf(f) <= SumOf(g)
<1> DEFINE d == [p \in S |-> g[p] - f[p]]
<1>1. /\ d \in [S -> Nat] /\ d \in [S -> Int]
      /\ \A p \in S : g[p] = f[p] + d[p]
  OBVIOUS
<1> HIDE DEF d
<1>2. SumOf(g) = SumOf(f) + SumOf(d)
  BY <1>1, SumPlus
<1>3. SumOf(d) \in Nat /\ SumOf(f) \in Int
  BY <1>1, SumNat, SumType
<1> QED
  BY <1>2, <1>3

\* Ones on a part of a set add up to the size of that part.
LEMMA SumCount ==
    ASSUME NEW S, IsFiniteSet(S), NEW R \in SUBSET S,
           NEW h \in [S -> Int], \A p \in S : h[p] = IF p \in R THEN 1 ELSE 0
    PROVE  SumOf(h) = Cardinality(R)
<1> DEFINE j == [s \in SUBSET S |-> Cardinality(s \cap R)]
<1>1. \A s \in SUBSET S : IsFiniteSet(s \cap R) /\ Cardinality(s \cap R) \in Nat
  <2>1. \A s \in SUBSET S : s \cap R \in SUBSET S
    OBVIOUS
  <2> QED
    BY <2>1, FS_Subset, FS_CardinalityType
<1>2. j \in [SUBSET S -> Int] /\ \A s \in SUBSET S : j[s] = Cardinality(s \cap R)
  <2>1. \A s \in SUBSET S : Cardinality(s \cap R) \in Int
    BY <1>1
  <2> QED
    BY <2>1
<1> HIDE DEF j
<1>3. j[{}] = 0
  <2>1. {} \cap R = {} /\ {} \in SUBSET S
    OBVIOUS
  <2> QED
    BY <1>2, <2>1, FS_EmptySet
<1>4. ASSUME NEW s \in SUBSET S, NEW a \in s PROVE j[s] = h[a] + j[s \ {a}]
  <2>1. /\ j[s] = Cardinality(s \cap R) /\ j[s \ {a}] = Cardinality((s \ {a}) \cap R)
        /\ j[s] \in Nat /\ (s \ {a}) \cap R = (s \cap R) \ {a}
    BY <1>1, <1>2
  <2>2. IsFiniteSet(s \cap R)
    BY <1>1
  <2>3. Cardinality((s \cap R) \ {a}) = IF a \in s \cap R THEN Cardinality(s \cap R) - 1
                                        ELSE Cardinality(s \cap R)
    BY <2>2, FS_RemoveElement
  <2>4. CASE a \in R
    <3>1. h[a] = 1 /\ a \in s \cap R
      BY <2>4
    <3>2. j[s \ {a}] = j[s] - 1
      BY <2>1, <2>3, <3>1
    <3> QED
      BY <2>1, <3>1, <3>2
  <2>5. CASE a \notin R
    <3>1. h[a] = 0 /\ a \notin s \cap R
      BY <2>5
    <3>2. j[s \ {a}] = j[s]
      BY <2>1, <2>3, <3>1
    <3> QED
      BY <2>1, <3>1, <3>2
  <2> QED
    BY <2>4, <2>5
<1>5. SumOf(h) = j[S]
  BY <1>2, <1>3, <1>4, SumIs DEF Sums
<1>6. S \cap R = R
  OBVIOUS
<1>7. j[S] = Cardinality(S \cap R)
  BY <1>2
<1> QED
  BY <1>5, <1>6, <1>7

\* Terms that are zero do not count: two sums over different sets.
LEMMA SumSupport ==
    ASSUME NEW A, IsFiniteSet(A), NEW B, IsFiniteSet(B), NEW f \in [A -> Int], NEW g \in [B -> Int],
           \A x \in A : f[x] = IF x \in B THEN g[x] ELSE 0,
           \A x \in B : x \notin A => g[x] = 0
    PROVE  SumOf(f) = SumOf(g)
<1> DEFINE S == A \cup B
           h == [x \in S |-> IF x \in A THEN f[x] ELSE 0]
<1>1. IsFiniteSet(S) /\ A \in SUBSET S /\ B \in SUBSET S
  BY FS_Union
<1>2. /\ h \in [S -> Int]
      /\ \A x \in S : h[x] = IF x \in A THEN f[x] ELSE 0
  OBVIOUS
<1>3. \A x \in S : h[x] = IF x \in B THEN g[x] ELSE 0
  BY <1>2
<1> HIDE DEF S, h
<1>4. SumOf(h) = SumOf(f)
  BY <1>1, <1>2, SumExtend
<1>5. SumOf(h) = SumOf(g)
  BY <1>1, <1>2, <1>3, SumExtend
<1> QED
  BY <1>4, <1>5

\* h is d and a value for x.
OneMore(d, h, T, x) ==
    /\ x \notin T /\ d \in [T -> Int] /\ h \in [T \cup {x} -> Int]
    /\ \A p \in T : h[p] = d[p]

\* A sum over one element more.
LEMMA SumInsert ==
    ASSUME NEW T, IsFiniteSet(T), NEW x, NEW d, NEW h, OneMore(d, h, T, x)
    PROVE  SumOf(h) = SumOf(d) + h[x]
<1> USE DEF OneMore
<1> DEFINE S == T \cup {x}
           g == [h EXCEPT ![x] = 0]
<1>1. IsFiniteSet(S) /\ T \in SUBSET S /\ x \in S
  BY FS_AddElement
<1>2. /\ g \in [S -> Int] /\ h \in [S -> Int] /\ h[x] \in Int /\ g[x] = 0
      /\ SameBut(g, h, S, x)
  BY DEF SameBut
<1>3. \A p \in S : g[p] = IF p \in T THEN d[p] ELSE 0
  OBVIOUS
<1> HIDE DEF S, g
<1>4. SumOf(g) = SumOf(d)
  BY <1>1, <1>2, <1>3, SumExtend
<1>5. SumOf(h) = SumOf(g) - g[x] + h[x]
  BY <1>1, <1>2, SumUpdate
<1>6. SumOf(d) \in Int
  BY SumType
<1> QED
  BY <1>2, <1>4, <1>5, <1>6
=============================================================================
