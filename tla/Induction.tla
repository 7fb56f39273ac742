------------------------------ MODULE Induction ------------------------------
(***************************************************************************)
(* What the proofs need of numbers: a set of naturals has a least element, *)
(* bounded sets of integers have a Min and a Max, sums over finite sets    *)
(* are what one expects of sums, and running totals have one value.        *)
(*                                                                         *)
(* The least element is what proofs by induction rest on: of the numbers   *)
(* that refute a claim there would be a least one.                         *)
(***************************************************************************)
EXTENDS Sums, FiniteSetsExt, FiniteSetTheorems, TLAPS

-----------------------------------------------------------------------------
(* Least and greatest elements *)

LEMMA LeastNatural ==
  ASSUME NEW S \in SUBSET Nat, S # {}
  PROVE  \E x \in S : \A y \in S : x <= y
<1> DEFINE Cuts == {0..n : n \in S}
<1>1. Cuts \subseteq FiniteSubsetsOf(Nat) /\ Cuts # {}
  <2>1. \A n \in S : 0..n \in SUBSET Nat /\ IsFiniteSet(0..n)
    BY FS_Interval
  <2> QED
    BY <2>1 DEF FiniteSubsetsOf
<1> HIDE DEF Cuts
<1>2. PICK cut \in Cuts : \A other \in Cuts : <<other, cut>> \notin StrictSubsetOrdering(Nat)
  BY <1>1, WFMin, FS_StrictSubsetOrderingWellFounded
<1>3. PICK x \in S : cut = 0..x
  BY <1>2 DEF Cuts
<1>4. ASSUME NEW y \in S, y < x PROVE FALSE
  <2>1. <<0..y, 0..x>> \notin StrictSubsetOrdering(Nat)
    BY <1>2, <1>3 DEF Cuts
  <2>2. 0..y \in SUBSET Nat /\ 0..x \in SUBSET Nat /\ 0..y \subseteq 0..x /\ x \in 0..x /\ x \notin 0..y
    BY <1>4
  <2> QED
    BY <2>1, <2>2 DEF StrictSubsetOrdering
<1>5. \A y \in S : x <= y
  BY <1>4
<1> QED
  BY <1>5

\* A set of integers that has a lower bound, such as a finite one, has a Min.
LEMMA MinIs ==
  ASSUME NEW S \in SUBSET Int, S # {}, NEW bound \in Int, \A y \in S : bound <= y
  PROVE  Min(S) \in S /\ \A y \in S : Min(S) <= y
<1> DEFINE T == {y - bound : y \in S}
<1>1. T \in SUBSET Nat /\ T # {}
  <2>1. \A y \in S : y - bound \in Nat /\ y - bound \in T
    OBVIOUS
  <2> QED
    BY <2>1
<1>2. PICK x \in S : \A y \in T : x - bound <= y
  BY <1>1, LeastNatural
<1>3. \A y \in S : x <= y
  BY <1>2
<1> QED
  BY <1>3 DEF Min

\* And one with an upper bound has a Max.
LEMMA MaxIs ==
  ASSUME NEW S \in SUBSET Int, S # {}, NEW bound \in Int, \A y \in S : y <= bound
  PROVE  Max(S) \in S /\ \A y \in S : y <= Max(S)
<1> DEFINE T == {bound - y : y \in S}
<1>1. T \in SUBSET Nat /\ T # {}
  <2>1. \A y \in S : bound - y \in Nat /\ bound - y \in T
    OBVIOUS
  <2> QED
    BY <2>1
<1>2. PICK x \in S : \A y \in T : bound - x <= y
  BY <1>1, LeastNatural
<1>3. \A y \in S : y <= x
  BY <1>2
<1>4. \E m \in S : \A y \in S : m >= y
  BY <1>3
<1>5. Max(S) \in S /\ \A y \in S : Max(S) >= y
  BY <1>4 DEF Max
<1>6. Max(S) \in Int
  BY <1>5
<1> QED
  BY <1>5, <1>6

LEMMA MinOfTwo ==
  ASSUME NEW a \in Int, NEW b \in Int
  PROVE  Min({a, b}) = IF a <= b THEN a ELSE b
<1>1. \A y \in {a, b} : (IF a <= b THEN a ELSE b) <= y
  OBVIOUS
<1>2. Min({a, b}) \in {a, b} /\ \A y \in {a, b} : Min({a, b}) <= y
  BY <1>1, MinIs
<1> QED
  BY <1>2

-----------------------------------------------------------------------------
(* Induction *)

\* The numbers that a claim holds of, if they include 0 and with every number the next, are all.
LEMMA NaturalInduction ==
  ASSUME NEW Good, 0 \in Good, \A n \in Nat : n \in Good => n + 1 \in Good
  PROVE  Nat \subseteq Good
<1> DEFINE Bad == Nat \ Good
<1> SUFFICES ASSUME Bad # {} PROVE FALSE
  OBVIOUS
<1>1. PICK n \in Bad : \A m \in Bad : n <= m
  BY LeastNatural
<1>2. n - 1 \in Nat /\ n - 1 \notin Bad
  BY <1>1
<1>3. (n - 1) + 1 = n
  BY <1>1
<1> QED
  BY <1>1, <1>2, <1>3

\* A claim about subsets of a finite set that holds of one if it holds of it without any
\* one of its elements holds of all.
LEMMA SubsetInduction ==
  ASSUME NEW S, IsFiniteSet(S), NEW Good,
         \A T \in SUBSET S : (\A x \in T : T \ {x} \in Good) => T \in Good
  PROVE  SUBSET S \subseteq Good
<1> DEFINE Sizes == {n \in Nat : \A T \in SUBSET S : Cardinality(T) = n => T \in Good}
<1>1. \A T \in SUBSET S : IsFiniteSet(T) /\ Cardinality(T) \in Nat /\ (Cardinality(T) = 0 <=> T = {})
  BY FS_Subset, FS_CardinalityType, FS_EmptySet
<1>2. 0 \in Sizes
  BY <1>1
<1>3. ASSUME NEW n \in Sizes PROVE n + 1 \in Sizes
  <2> SUFFICES ASSUME NEW T \in SUBSET S, Cardinality(T) = n + 1 PROVE T \in Good
    OBVIOUS
  <2>1. ASSUME NEW x \in T PROVE Cardinality(T \ {x}) = n /\ T \ {x} \in SUBSET S
    <3>1. IsFiniteSet(T)
      BY <1>1
    <3>2. Cardinality(T \ {x}) = Cardinality(T) - 1
      BY <3>1, FS_RemoveElement
    <3> QED
      BY <3>2
  <2>2. \A x \in T : T \ {x} \in Good
    BY <2>1
  <2> QED
    BY <2>2
<1> HIDE DEF Sizes
<1>4. Nat \subseteq Sizes
  BY <1>2, <1>3, NaturalInduction
<1> QED
  BY <1>1, <1>4 DEF Sizes

\* What a function makes of a finite set is finite.
LEMMA ImageIsFinite ==
  ASSUME NEW S, IsFiniteSet(S), NEW f
  PROVE  IsFiniteSet({f[x] : x \in S})
<1> DEFINE T == {f[x] : x \in S}
           g == [x \in S |-> f[x]]
<1>1. g \in Surjection(S, T)
  BY DEF Surjection
<1> QED
  BY <1>1, FS_Surjection

-----------------------------------------------------------------------------
(* Sums over finite sets *)

\* A sum of the values of a function, as MapThenSumSet has it.
SumOn(g, S) == MapThenSumSet(LAMBDA x : g[x], S)

Chosen(s) == CHOOSE x \in s : TRUE
\* it[s] adds up g over s, for the members s of D.
Adds(it, g, D) == it = [s \in D |-> IF s = {} THEN 0 ELSE g[Chosen(s)] + it[s \ {Chosen(s)}]]

LEMMA ChosenIs == ASSUME NEW s, s # {} PROVE Chosen(s) \in s
BY DEF Chosen

\* There is one such function.
LEMMA AddsOnce ==
  ASSUME NEW g, NEW S, IsFiniteSet(S), NEW u, Adds(u, g, SUBSET S), NEW v, Adds(v, g, SUBSET S)
  PROVE  u = v
<1> DEFINE Good == {T \in SUBSET S : u[T] = v[T]}
<1>1. ASSUME NEW T \in SUBSET S, \A x \in T : T \ {x} \in Good
      PROVE  T \in Good
  <2>1. /\ u[T] = IF T = {} THEN 0 ELSE g[Chosen(T)] + u[T \ {Chosen(T)}]
        /\ v[T] = IF T = {} THEN 0 ELSE g[Chosen(T)] + v[T \ {Chosen(T)}]
    BY DEF Adds
  <2>2. T # {} => u[T \ {Chosen(T)}] = v[T \ {Chosen(T)}]
    BY <1>1, ChosenIs
  <2> QED
    BY <2>1, <2>2
<1>2. u = [s \in SUBSET S |-> u[s]] /\ v = [s \in SUBSET S |-> v[s]]
  BY DEF Adds
<1> HIDE DEF Good
<1>3. SUBSET S \subseteq Good
  BY <1>1, SubsetInduction
<1>4. \A T \in SUBSET S : u[T] = v[T]
  BY <1>3 DEF Good
<1> QED
  BY <1>2, <1>4

\* For subsets of n elements and fewer first, and so for all.
LEMMA AddsExists ==
  ASSUME NEW g, NEW S, IsFiniteSet(S)
  PROVE  \E it : Adds(it, g, SUBSET S)
<1> DEFINE Small(n) == {T \in SUBSET S : Cardinality(T) <= n}
           Sizes == {n \in Nat : \E it : Adds(it, g, Small(n))}
<1>1. \A T \in SUBSET S : IsFiniteSet(T) /\ Cardinality(T) \in Nat /\ (Cardinality(T) = 0 <=> T = {})
  BY FS_Subset, FS_CardinalityType, FS_EmptySet
<1>2. 0 \in Sizes
  <2> DEFINE it == [s \in Small(0) |-> 0]
  <2>1. \A s \in Small(0) : s = {}
    BY <1>1
  <2> HIDE DEF Small
  <2>2. Adds(it, g, Small(0))
    BY <2>1 DEF Adds
  <2> QED
    BY <2>2
<1>3. ASSUME NEW n \in Sizes PROVE n + 1 \in Sizes
  <2>1. PICK it : Adds(it, g, Small(n))
    OBVIOUS
  <2> DEFINE more == [s \in Small(n + 1) |-> IF s \in Small(n) THEN it[s] ELSE g[Chosen(s)] + it[s \ {Chosen(s)}]]
  <2>2. ASSUME NEW s \in Small(n + 1), s # {}
        PROVE  s \ {Chosen(s)} \in Small(n)
    <3>1. Chosen(s) \in s
      BY <2>2, ChosenIs
    <3>2. Cardinality(s \ {Chosen(s)}) = Cardinality(s) - 1 /\ Cardinality(s) \in Nat /\ Cardinality(s) <= n + 1
      BY <1>1, <3>1, FS_RemoveElement
    <3> QED
      BY <3>2
  <2>3. \A s \in Small(n) : s \in Small(n + 1)
    BY <1>1
  <2>4. \A s \in Small(n + 1) : s = {} => s \in Small(n)
    BY <1>1, FS_EmptySet
  <2> HIDE DEF Small, Sizes
  <2>5. \A s \in Small(n) : it[s] = IF s = {} THEN 0 ELSE g[Chosen(s)] + it[s \ {Chosen(s)}]
    BY <2>1 DEF Adds
  <2>6. ASSUME NEW s \in Small(n + 1)
        PROVE  more[s] = IF s = {} THEN 0 ELSE g[Chosen(s)] + more[s \ {Chosen(s)}]
    <3>1. CASE s = {}
      BY <2>4, <2>5, <3>1
    <3>2. CASE s # {}
      <4>1. more[s \ {Chosen(s)}] = it[s \ {Chosen(s)}]
        BY <2>2, <2>3, <3>2
      <4>2. more[s] = g[Chosen(s)] + it[s \ {Chosen(s)}]
        BY <2>5, <3>2
      <4> QED
        BY <3>2, <4>1, <4>2
    <3> QED
      BY <3>1, <3>2
  <2>7. Adds(more, g, Small(n + 1))
    BY <2>6 DEF Adds
  <2> QED
    BY <2>7 DEF Sizes
<1>4. Cardinality(S) \in Nat
  BY <1>1
<1>5. Small(Cardinality(S)) = SUBSET S
  BY <1>1, FS_Subset
<1> HIDE DEF Sizes
<1>6. Cardinality(S) \in Sizes
  BY <1>2, <1>3, <1>4, NaturalInduction
<1> QED
  BY <1>5, <1>6 DEF Sizes

LEMMA SumOnIs ==
  ASSUME NEW g, NEW S, IsFiniteSet(S), NEW it, Adds(it, g, SUBSET S)
  PROVE  SumOn(g, S) = it[S]
<1>1. \A u : Adds(u, g, SUBSET S) => u = it
  BY AddsOnce
<1> QED
  BY <1>1 DEF SumOn, MapThenSumSet, MapThenFoldSet, Adds, Chosen

LEMMA SumOnNothing == ASSUME NEW g PROVE SumOn(g, {}) = 0
<1>1. IsFiniteSet({})
  BY FS_EmptySet
<1>2. PICK it : Adds(it, g, SUBSET {})
  BY <1>1, AddsExists
<1>3. it[{}] = 0
  BY <1>2 DEF Adds
<1> QED
  BY <1>1, <1>2, <1>3, SumOnIs

\* It takes the chosen element off.
LEMMA SumOnChosen ==
  ASSUME NEW g, NEW S, IsFiniteSet(S), S # {}
  PROVE  SumOn(g, S) = g[Chosen(S)] + SumOn(g, S \ {Chosen(S)})
<1> DEFINE R == S \ {Chosen(S)}
<1>1. PICK it : Adds(it, g, SUBSET S)
  BY AddsExists
<1>2. it[S] = g[Chosen(S)] + it[R]
  BY <1>1 DEF Adds
<1>3. IsFiniteSet(R)
  BY FS_Subset
<1> DEFINE part == [s \in SUBSET R |-> it[s]]
<1>4. ASSUME NEW s \in SUBSET R
      PROVE  part[s] = IF s = {} THEN 0 ELSE g[Chosen(s)] + part[s \ {Chosen(s)}]
  <2>1. s \in SUBSET S /\ s \ {Chosen(s)} \in SUBSET R
    OBVIOUS
  <2>2. it[s] = IF s = {} THEN 0 ELSE g[Chosen(s)] + it[s \ {Chosen(s)}]
    BY <1>1, <2>1 DEF Adds
  <2> QED
    BY <2>1, <2>2
<1>5. Adds(part, g, SUBSET R)
  BY <1>4 DEF Adds
<1>6. part[R] = it[R]
  OBVIOUS
<1> HIDE DEF part, R
<1>7. SumOn(g, R) = it[R]
  BY <1>3, <1>5, <1>6, SumOnIs
<1>8. SumOn(g, S) = it[S]
  BY <1>1, SumOnIs
<1> QED
  BY <1>2, <1>7, <1>8 DEF R

LEMMA SumOnInt ==
  ASSUME NEW g, NEW S, IsFiniteSet(S), \A x \in S : g[x] \in Int
  PROVE  SumOn(g, S) \in Int
<1> DEFINE Good == {T \in SUBSET S : SumOn(g, T) \in Int}
<1>1. ASSUME NEW T \in SUBSET S, \A x \in T : T \ {x} \in Good
      PROVE  T \in Good
  <2>1. IsFiniteSet(T)
    BY FS_Subset
  <2>2. CASE T = {}
    BY <2>2, SumOnNothing
  <2>3. CASE T # {}
    <3>1. SumOn(g, T) = g[Chosen(T)] + SumOn(g, T \ {Chosen(T)}) /\ Chosen(T) \in T
      BY <2>1, <2>3, SumOnChosen, ChosenIs
    <3>2. SumOn(g, T \ {Chosen(T)}) \in Int /\ g[Chosen(T)] \in Int
      BY <1>1, <3>1
    <3> QED
      BY <3>1, <3>2
  <2> QED
    BY <2>2, <2>3
<1> HIDE DEF Good
<1>2. SUBSET S \subseteq Good
  BY <1>1, SubsetInduction
<1> QED
  BY <1>2 DEF Good

LEMMA SumOnNat ==
  ASSUME NEW g, NEW S, IsFiniteSet(S), \A x \in S : g[x] \in Nat
  PROVE  SumOn(g, S) \in Nat
<1> DEFINE Good == {T \in SUBSET S : SumOn(g, T) \in Nat}
<1>1. ASSUME NEW T \in SUBSET S, \A x \in T : T \ {x} \in Good
      PROVE  T \in Good
  <2>1. IsFiniteSet(T)
    BY FS_Subset
  <2>2. CASE T = {}
    BY <2>2, SumOnNothing
  <2>3. CASE T # {}
    <3>1. SumOn(g, T) = g[Chosen(T)] + SumOn(g, T \ {Chosen(T)}) /\ Chosen(T) \in T
      BY <2>1, <2>3, SumOnChosen, ChosenIs
    <3>2. SumOn(g, T \ {Chosen(T)}) \in Nat /\ g[Chosen(T)] \in Nat
      BY <1>1, <3>1
    <3> QED
      BY <3>1, <3>2
  <2> QED
    BY <2>2, <2>3
<1> HIDE DEF Good
<1>2. SUBSET S \subseteq Good
  BY <1>1, SubsetInduction
<1> QED
  BY <1>2 DEF Good

\* It takes any element off.
LEMMA SumOnRemoved ==
  ASSUME NEW g, NEW S, IsFiniteSet(S), \A x \in S : g[x] \in Int, NEW y \in S
  PROVE  SumOn(g, S) = g[y] + SumOn(g, S \ {y})
<1> DEFINE Good == {T \in SUBSET S : \A x \in T : SumOn(g, T) = g[x] + SumOn(g, T \ {x})}
<1>1. ASSUME NEW T \in SUBSET S, \A x \in T : T \ {x} \in Good
      PROVE  T \in Good
  <2> SUFFICES ASSUME NEW x \in T PROVE SumOn(g, T) = g[x] + SumOn(g, T \ {x})
    OBVIOUS
  <2> DEFINE c == Chosen(T)
  <2>1. IsFiniteSet(T) /\ c \in T
    BY FS_Subset, ChosenIs
  <2>2. SumOn(g, T) = g[c] + SumOn(g, T \ {c})
    BY <2>1, SumOnChosen
  <2>3. CASE x = c
    BY <2>2, <2>3
  <2>4. CASE x # c
    <3> DEFINE U == (T \ {x}) \ {c}
    <3>1. U = (T \ {c}) \ {x} /\ IsFiniteSet(U) /\ \A z \in U : g[z] \in Int
      BY <2>1, FS_Subset
    <3>2. SumOn(g, T \ {c}) = g[x] + SumOn(g, U)
      BY <1>1, <2>1, <2>4, <3>1
    <3>3. SumOn(g, T \ {x}) = g[c] + SumOn(g, U)
      BY <1>1, <2>1, <2>4
    <3> HIDE DEF U, c, Good
    <3>4. SumOn(g, U) \in Int /\ g[x] \in Int /\ g[c] \in Int
      BY <2>1, <3>1, SumOnInt
    <3> QED
      BY <2>2, <3>2, <3>3, <3>4
  <2> QED
    BY <2>3, <2>4
<1> HIDE DEF Good
<1>2. SUBSET S \subseteq Good
  BY <1>1, SubsetInduction
<1> QED
  BY <1>2 DEF Good

LEMMA SumOnAdded ==
  ASSUME NEW g, NEW S, IsFiniteSet(S), NEW y, y \notin S, \A x \in S \cup {y} : g[x] \in Int
  PROVE  SumOn(g, S \cup {y}) = SumOn(g, S) + g[y]
<1>1. IsFiniteSet(S \cup {y}) /\ (S \cup {y}) \ {y} = S
  BY FS_AddElement
<1>2. SumOn(g, S \cup {y}) = g[y] + SumOn(g, S)
  BY <1>1, SumOnRemoved
<1>3. SumOn(g, S) \in Int
  BY SumOnInt
<1> QED
  BY <1>2, <1>3

LEMMA SumOnOne ==
  ASSUME NEW g, NEW y, g[y] \in Int
  PROVE  SumOn(g, {y}) = g[y]
<1>1. IsFiniteSet({}) /\ {} \cup {y} = {y}
  BY FS_EmptySet
<1> QED
  BY <1>1, SumOnAdded, SumOnNothing

\* Only the values over the set matter.
LEMMA SumOnSame ==
  ASSUME NEW g, NEW h, NEW S, IsFiniteSet(S), \A x \in S : g[x] = h[x] /\ g[x] \in Int
  PROVE  SumOn(g, S) = SumOn(h, S)
<1> DEFINE Good == {T \in SUBSET S : SumOn(g, T) = SumOn(h, T)}
<1>1. ASSUME NEW T \in SUBSET S, \A x \in T : T \ {x} \in Good
      PROVE  T \in Good
  <2>1. IsFiniteSet(T)
    BY FS_Subset
  <2>2. CASE T = {}
    BY <2>2, SumOnNothing
  <2>3. CASE T # {}
    <3>1. /\ Chosen(T) \in T
          /\ SumOn(g, T) = g[Chosen(T)] + SumOn(g, T \ {Chosen(T)})
          /\ SumOn(h, T) = h[Chosen(T)] + SumOn(h, T \ {Chosen(T)})
      BY <2>1, <2>3, SumOnChosen, ChosenIs
    <3>2. SumOn(g, T \ {Chosen(T)}) = SumOn(h, T \ {Chosen(T)}) /\ g[Chosen(T)] = h[Chosen(T)]
      BY <1>1, <3>1
    <3> QED
      BY <3>1, <3>2
  <2> QED
    BY <2>2, <2>3
<1> HIDE DEF Good
<1>2. SUBSET S \subseteq Good
  BY <1>1, SubsetInduction
<1> QED
  BY <1>2 DEF Good

LEMMA SumOnUnion ==
  ASSUME NEW g, NEW S, IsFiniteSet(S), NEW T, IsFiniteSet(T), S \cap T = {}, \A x \in S \cup T : g[x] \in Int
  PROVE  SumOn(g, S \cup T) = SumOn(g, S) + SumOn(g, T)
<1> DEFINE Good == {U \in SUBSET T : SumOn(g, S \cup U) = SumOn(g, S) + SumOn(g, U)}
<1>1. ASSUME NEW U \in SUBSET T, \A x \in U : U \ {x} \in Good
      PROVE  U \in Good
  <2>1. CASE U = {}
    <3>1. S \cup U = S /\ SumOn(g, S) \in Int
      BY <2>1, SumOnInt
    <3> QED
      BY <2>1, <3>1, SumOnNothing
  <2>2. CASE U # {}
    <3>1. PICK x \in U : TRUE
      BY <2>2
    <3>2. IsFiniteSet(U) /\ IsFiniteSet(U \ {x}) /\ IsFiniteSet(S \cup U) /\ (S \cup U) \ {x} = S \cup (U \ {x})
      BY <3>1, FS_Subset, FS_Union
    <3>3. SumOn(g, S \cup U) = g[x] + SumOn(g, S \cup (U \ {x}))
      BY <3>1, <3>2, SumOnRemoved
    <3>4. SumOn(g, U) = g[x] + SumOn(g, U \ {x})
      BY <3>1, <3>2, SumOnRemoved
    <3>5. SumOn(g, S \cup (U \ {x})) = SumOn(g, S) + SumOn(g, U \ {x})
      BY <1>1, <3>1
    <3>6. SumOn(g, S) \in Int /\ SumOn(g, U \ {x}) \in Int /\ g[x] \in Int
      BY <3>1, <3>2, SumOnInt
    <3> QED
      BY <3>3, <3>4, <3>5, <3>6
  <2> QED
    BY <2>1, <2>2
<1> HIDE DEF Good
<1>2. SUBSET T \subseteq Good
  BY <1>1, SubsetInduction
<1> QED
  BY <1>2 DEF Good

\* A sum of sums.
LEMMA SumOnPlus ==
  ASSUME NEW g, NEW h, NEW k, NEW S, IsFiniteSet(S),
         \A x \in S : g[x] \in Int /\ h[x] \in Int /\ k[x] = g[x] + h[x]
  PROVE  SumOn(k, S) = SumOn(g, S) + SumOn(h, S)
<1> DEFINE Good == {U \in SUBSET S : SumOn(k, U) = SumOn(g, U) + SumOn(h, U)}
<1>1. ASSUME NEW U \in SUBSET S, \A x \in U : U \ {x} \in Good
      PROVE  U \in Good
  <2>1. CASE U = {}
    BY <2>1, SumOnNothing
  <2>2. CASE U # {}
    <3>1. PICK x \in U : TRUE
      BY <2>2
    <3>2. IsFiniteSet(U) /\ IsFiniteSet(U \ {x})
      BY FS_Subset
    <3>3. /\ SumOn(g, U) = g[x] + SumOn(g, U \ {x})
          /\ SumOn(h, U) = h[x] + SumOn(h, U \ {x})
          /\ SumOn(k, U) = k[x] + SumOn(k, U \ {x})
      BY <3>1, <3>2, SumOnRemoved
    <3>4. SumOn(g, U \ {x}) \in Int /\ SumOn(h, U \ {x}) \in Int /\ g[x] \in Int /\ h[x] \in Int
      BY <3>1, <3>2, SumOnInt
    <3>5. k[x] = g[x] + h[x] /\ SumOn(k, U \ {x}) = SumOn(g, U \ {x}) + SumOn(h, U \ {x})
      BY <1>1, <3>1
    <3> QED
      BY <3>3, <3>4, <3>5
  <2> QED
    BY <2>1, <2>2
<1> HIDE DEF Good
<1>2. SUBSET S \subseteq Good
  BY <1>1, SubsetInduction
<1> QED
  BY <1>2 DEF Good

\* Values that are zero do not count.
LEMMA SumOnNonzero ==
  ASSUME NEW g, NEW S, IsFiniteSet(S), NEW T \in SUBSET S, \A x \in S : g[x] \in Int, \A x \in S \ T : g[x] = 0
  PROVE  SumOn(g, S) = SumOn(g, T)
<1> DEFINE Good == {U \in SUBSET S : (\A x \in U : g[x] = 0) => SumOn(g, U) = 0}
<1>1. ASSUME NEW U \in SUBSET S, \A x \in U : U \ {x} \in Good
      PROVE  U \in Good
  <2> SUFFICES ASSUME \A x \in U : g[x] = 0 PROVE SumOn(g, U) = 0
    OBVIOUS
  <2>1. IsFiniteSet(U)
    BY FS_Subset
  <2>2. CASE U = {}
    BY <2>2, SumOnNothing
  <2>3. CASE U # {}
    <3>1. SumOn(g, U) = g[Chosen(U)] + SumOn(g, U \ {Chosen(U)}) /\ Chosen(U) \in U
      BY <2>1, <2>3, SumOnChosen, ChosenIs
    <3> QED
      BY <1>1, <3>1
  <2> QED
    BY <2>2, <2>3
<1> HIDE DEF Good
<1>2. SUBSET S \subseteq Good
  BY <1>1, SubsetInduction
<1>3. SumOn(g, S \ T) = 0
  BY <1>2 DEF Good
<1>4. IsFiniteSet(T) /\ IsFiniteSet(S \ T) /\ T \cap (S \ T) = {} /\ T \cup (S \ T) = S
  BY FS_Subset
<1>5. SumOn(g, S) = SumOn(g, T) + SumOn(g, S \ T)
  <2> DEFINE R == S \ T
  <2> HIDE DEF R
  <2>1. IsFiniteSet(R) /\ T \cap R = {} /\ T \cup R = S
    BY <1>4 DEF R
  <2>2. SumOn(g, T \cup R) = SumOn(g, T) + SumOn(g, R)
    BY <1>4, <2>1, SumOnUnion
  <2> QED
    BY <2>1, <2>2 DEF R
<1>6. SumOn(g, T) \in Int
  BY <1>4, SumOnInt
<1> QED
  BY <1>3, <1>5, <1>6

LEMMA SumOnScaled ==
  ASSUME NEW g, NEW h, NEW S, IsFiniteSet(S), NEW factor \in Int, \A x \in S : g[x] \in Int /\ h[x] = factor * g[x]
  PROVE  SumOn(h, S) = factor * SumOn(g, S)
<1> DEFINE Good == {U \in SUBSET S : SumOn(h, U) = factor * SumOn(g, U)}
<1>1. ASSUME NEW U \in SUBSET S, \A x \in U : U \ {x} \in Good
      PROVE  U \in Good
  <2>1. IsFiniteSet(U) /\ IsFiniteSet(U \ {Chosen(U)})
    BY FS_Subset
  <2>2. CASE U = {}
    BY <2>2, SumOnNothing
  <2>3. CASE U # {}
    <3> DEFINE c == Chosen(U)
               rest == SumOn(g, U \ {c})
    <3>1. SumOn(g, U) = g[c] + rest /\ SumOn(h, U) = h[c] + SumOn(h, U \ {c}) /\ c \in U
      BY <2>1, <2>3, SumOnChosen, ChosenIs
    <3>2. SumOn(h, U \ {c}) = factor * rest
      BY <1>1, <3>1
    <3>3. rest \in Int
      BY <2>1, SumOnInt
    <3>4. g[c] \in Int /\ h[c] = factor * g[c]
      BY <3>1
    <3> HIDE DEF c, rest, Good
    <3>5. factor * (g[c] + rest) = factor * g[c] + factor * rest
      BY <3>3, <3>4
    <3> QED
      BY <3>1, <3>2, <3>4, <3>5 DEF Good
  <2> QED
    BY <2>2, <2>3
<1> HIDE DEF Good
<1>2. SUBSET S \subseteq Good
  BY <1>1, SubsetInduction
<1> QED
  BY <1>2 DEF Good

\* Under other names the values add up to the same.
LEMMA SumOnRenamed ==
  ASSUME NEW g, NEW name, NEW S, IsFiniteSet(S), NEW h,
         \A x \in S : h[x] = g[name[x]] /\ h[x] \in Int, \A x, y \in S : name[x] = name[y] => x = y
  PROVE  SumOn(g, {name[x] : x \in S}) = SumOn(h, S)
<1> DEFINE Names(U) == {name[x] : x \in U}
           Good == {U \in SUBSET S : SumOn(g, Names(U)) = SumOn(h, U)}
<1>1. ASSUME NEW U \in SUBSET S, \A x \in U : U \ {x} \in Good
      PROVE  U \in Good
  <2>1. IsFiniteSet(U) /\ IsFiniteSet(Names(U))
    BY FS_Subset, ImageIsFinite
  <2>2. CASE U = {}
    <3>1. Names(U) = {}
      BY <2>2
    <3> QED
      BY <2>2, <3>1, SumOnNothing
  <2>3. CASE U # {}
    <3>1. PICK x \in U : TRUE
      BY <2>3
    <3>2. SumOn(h, U) = h[x] + SumOn(h, U \ {x})
      BY <2>1, <3>1, SumOnRemoved
    <3>3. Names(U) \ {name[x]} = Names(U \ {x}) /\ name[x] \in Names(U)
      BY <3>1
    <3>4. \A n \in Names(U) : g[n] \in Int
      OBVIOUS
    <3>5. SumOn(g, Names(U \ {x})) = SumOn(h, U \ {x})
      BY <1>1, <3>1
    <3> HIDE DEF Names
    <3>6. SumOn(g, Names(U)) = g[name[x]] + SumOn(g, Names(U) \ {name[x]})
      BY <2>1, <3>3, <3>4, SumOnRemoved
    <3> QED
      BY <3>1, <3>2, <3>3, <3>5, <3>6
  <2> QED
    BY <2>2, <2>3
<1> HIDE DEF Good
<1>2. SUBSET S \subseteq Good
  BY <1>1, SubsetInduction
<1> QED
  BY <1>2 DEF Good

PartOf(S, part, c) == {x \in S : part[x] = c}

\* A sum is that of the sums of its parts.
LEMMA SumOnParts ==
  ASSUME NEW g, NEW S, IsFiniteSet(S), \A x \in S : g[x] \in Int,
         NEW C, IsFiniteSet(C), NEW part, \A x \in S : part[x] \in C,
         NEW totals, \A c \in C : totals[c] = SumOn(g, PartOf(S, part, c))
  PROVE  SumOn(g, S) = SumOn(totals, C)
<1> USE DEF PartOf
<1> DEFINE Of(c) == {x \in S : part[x] = c}
           In(D) == {x \in S : part[x] \in D}
           Good == {D \in SUBSET C : SumOn(g, In(D)) = SumOn(totals, D)}
<1>1. \A c \in C : totals[c] \in Int
  <2> SUFFICES ASSUME NEW c \in C PROVE SumOn(g, Of(c)) \in Int
    OBVIOUS
  <2>1. IsFiniteSet(Of(c)) /\ \A x \in Of(c) : g[x] \in Int
    BY FS_Subset
  <2> HIDE DEF Of
  <2> QED
    BY <2>1, SumOnInt
<1>2. ASSUME NEW D \in SUBSET C, \A c \in D : D \ {c} \in Good
      PROVE  D \in Good
  <2>1. IsFiniteSet(D)
    BY FS_Subset
  <2>2. CASE D = {}
    <3>1. In(D) = {}
      BY <2>2
    <3> QED
      BY <2>2, <3>1, SumOnNothing
  <2>3. CASE D # {}
    <3>1. PICK c \in D : TRUE
      BY <2>3
    <3> DEFINE E == In(D \ {c})
    <3>2. In(D) = E \cup Of(c) /\ E \cap Of(c) = {} /\ IsFiniteSet(E) /\ IsFiniteSet(Of(c))
      BY <3>1, FS_Subset
    <3>3. \A x \in E \cup Of(c) : g[x] \in Int
      OBVIOUS
    <3>4. SumOn(g, E) = SumOn(totals, D \ {c}) /\ totals[c] = SumOn(g, Of(c))
      BY <1>2, <3>1
    <3>5. SumOn(totals, D) = totals[c] + SumOn(totals, D \ {c})
      BY <1>1, <2>1, <3>1, SumOnRemoved
    <3> DEFINE F == Of(c)
    <3> HIDE DEF E, F
    <3>a. IsFiniteSet(E) /\ IsFiniteSet(F) /\ E \cap F = {} /\ \A x \in E \cup F : g[x] \in Int
      BY <3>2, <3>3 DEF F
    <3>b. SumOn(g, E \cup F) = SumOn(g, E) + SumOn(g, F)
      BY <3>a, SumOnUnion
    <3>c. SumOn(g, E) \in Int /\ SumOn(g, F) \in Int
      BY <3>a, SumOnInt
    <3>6. SumOn(g, E \cup F) = SumOn(g, E) + SumOn(g, F) /\ SumOn(g, E) \in Int /\ SumOn(g, F) \in Int
      BY <3>b, <3>c
    <3>7. In(D) = E \cup F /\ totals[c] = SumOn(g, F)
      BY <3>2, <3>4 DEF F
    <3> HIDE DEF In, Of, Good
    <3>8. SumOn(g, In(D)) = SumOn(totals, D)
      BY <3>4, <3>5, <3>6, <3>7
    <3> QED
      BY <3>8 DEF Good
  <2> QED
    BY <2>2, <2>3
<1>3. In(C) = S
  OBVIOUS
<1> HIDE DEF Good, In
<1>4. SUBSET C \subseteq Good
  BY <1>2, SubsetInduction
<1> QED
  BY <1>3, <1>4 DEF Good

\* A sum of nothing negative is no less than any of its values.
LEMMA SumOnBounds ==
  ASSUME NEW g, NEW S, IsFiniteSet(S), \A x \in S : g[x] \in Nat, NEW y \in S
  PROVE  g[y] <= SumOn(g, S)
<1>1. SumOn(g, S) = g[y] + SumOn(g, S \ {y})
  BY SumOnRemoved
<1> DEFINE R == S \ {y}
<1>2. IsFiniteSet(R) /\ \A x \in R : g[x] \in Nat
  BY FS_Subset
<1> HIDE DEF R
<1>3. SumOn(g, R) \in Nat
  BY <1>2, SumOnNat
<1> QED
  BY <1>1, <1>3 DEF R

-----------------------------------------------------------------------------
(* Running totals *)

\* s is the running total of f[1], ..., f[n].
IsRunning(s, f, n) == s = [i \in 0..n |-> IF i = 0 THEN 0 ELSE s[i - 1] + f[i]]

\* There is one running total, and it ends in total.  Existence and uniqueness
\* are carried along with the journal, one event at a time, because a recursive
\* function says nothing of its value until both are known.
Totals(f, n, total) ==
  \E s : /\ IsRunning(s, f, n)
        /\ s[n] = total
        /\ \A u : IsRunning(u, f, n) => u = s

LEMMA TotalIsSum ==
  ASSUME NEW f, NEW n \in Nat, NEW total, Totals(f, n, total)
  PROVE  SumTo(f, n) = total
<1>1. PICK s : IsRunning(s, f, n) /\ s[n] = total /\ \A u : IsRunning(u, f, n) => u = s
  BY DEF Totals
<1> DEFINE running == CHOOSE u : u = [i \in 0..n |-> IF i = 0 THEN 0 ELSE u[i - 1] + f[i]]
<1>2. running = s
  BY <1>1 DEF IsRunning
<1>3. SumTo(f, n) = running[n]
  BY DEF SumTo
<1> HIDE DEF running
<1> QED BY <1>1, <1>2, <1>3

LEMMA NothingTotals == ASSUME NEW f PROVE Totals(f, 0, 0)
<1> DEFINE s == [i \in 0..0 |-> 0]
<1>1. IsRunning(s, f, 0)
  BY DEF IsRunning
<1>2. \A u : IsRunning(u, f, 0) => u = s
  BY DEF IsRunning
<1>3. s[0] = 0
  OBVIOUS
<1> HIDE DEF s
<1> QED BY <1>1, <1>2, <1>3 DEF Totals

\* Only the first n values matter.
LEMMA TotalsOfSame ==
  ASSUME NEW f, NEW g, NEW n \in Nat, NEW total, Totals(f, n, total),
         \A i \in 1..n : g[i] = f[i]
  PROVE  Totals(g, n, total)
<1>1. ASSUME NEW u PROVE IsRunning(u, f, n) <=> IsRunning(u, g, n)
  <2>1. [i \in 0..n |-> IF i = 0 THEN 0 ELSE u[i - 1] + f[i]]
          = [i \in 0..n |-> IF i = 0 THEN 0 ELSE u[i - 1] + g[i]]
    OBVIOUS
  <2> QED BY <2>1 DEF IsRunning
<1> QED BY <1>1 DEF Totals

\* One value more.
LEMMA TotalsOfMore ==
  ASSUME NEW f, NEW n \in Nat, NEW total, Totals(f, n, total)
  PROVE  Totals(f, n + 1, total + f[n + 1])
<1>1. PICK s : IsRunning(s, f, n) /\ s[n] = total /\ \A u : IsRunning(u, f, n) => u = s
  BY DEF Totals
<1> DEFINE more == [i \in 0..(n + 1) |-> IF i = n + 1 THEN total + f[n + 1] ELSE s[i]]
<1>2. IsRunning(more, f, n + 1)
  <2>1. ASSUME NEW i \in 0..(n + 1)
        PROVE  more[i] = IF i = 0 THEN 0 ELSE more[i - 1] + f[i]
    <3>1. CASE i = n + 1
      BY <1>1, <3>1
    <3>2. CASE i \in 0..n
      <4>1. s[i] = IF i = 0 THEN 0 ELSE s[i - 1] + f[i]
        BY <1>1, <3>2 DEF IsRunning
      <4>2. more[i] = s[i] /\ (i # 0 => more[i - 1] = s[i - 1])
        BY <3>2
      <4> HIDE DEF more
      <4> QED BY <4>1, <4>2
    <3> QED BY <3>1, <3>2
  <2> QED BY <2>1 DEF IsRunning
<1>3. ASSUME NEW u, IsRunning(u, f, n + 1)
      PROVE  u = more
  <2> DEFINE part == [i \in 0..n |-> u[i]]
  <2>1. \A i \in 0..(n + 1) : u[i] = IF i = 0 THEN 0 ELSE u[i - 1] + f[i]
    BY <1>3 DEF IsRunning
  <2>2. IsRunning(part, f, n)
    <3>1. ASSUME NEW i \in 0..n
          PROVE  part[i] = IF i = 0 THEN 0 ELSE part[i - 1] + f[i]
      BY <2>1
    <3> QED BY <3>1 DEF IsRunning
  <2>3. part = s
    BY <1>1, <2>2
  <2>4. \A i \in 0..n : u[i] = s[i]
    BY <2>3
  <2>5. u[n + 1] = total + f[n + 1]
    BY <1>1, <2>1, <2>4
  <2>6. u = [i \in 0..(n + 1) |-> u[i]]
    BY <1>3 DEF IsRunning
  <2> HIDE DEF part
  <2>7. \A i \in 0..(n + 1) : u[i] = more[i]
    BY <2>4, <2>5
  <2> QED BY <2>6, <2>7
<1>4. more[n + 1] = total + f[n + 1]
  OBVIOUS
<1> HIDE DEF more
<1> QED BY <1>2, <1>3, <1>4 DEF Totals
=============================================================================
