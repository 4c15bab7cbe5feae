----------------------------- MODULE FoldTheorems -----------------------------
(***************************************************************************)
(* What the folds of the community modules compute: MapThenSumSet adds up  *)
(* every element once, whatever order it picks them in, and FoldLeft goes  *)
(* through a sequence from left to right.                                  *)
(*                                                                         *)
(* Both are recursive functions on the subsets of a finite set; such a    *)
(* function exists and is unique.  Induction is stated for sets of good    *)
(* numbers and good subsets, which a proof can name.                       *)
(***************************************************************************)
EXTENDS Integers, Sequences, FiniteSets, FiniteSetsExt, SequencesExt, Folds,
        FiniteSetTheorems, WellFoundedInduction, TLAPS

\* A nonempty set of natural numbers has a least element.
LEMMA LeastElement ==
    ASSUME NEW T, T \subseteq Nat, T # {}
    PROVE  \E n \in T : \A m \in T : n <= m
<1> DEFINE R == {ss \in Nat \X Nat : ss[1] < ss[2]}
<1>1. IsWellFoundedOn(R, Nat)
  BY NatLessThanWellFounded DEF OpToRel
<1>2. \E x \in T : \A y \in T : ~(<<y, x>> \in R)
  <2> HIDE DEF R
  <2> QED BY <1>1, WFMin
<1>3. PICK x \in T : \A y \in T : ~(<<y, x>> \in R)
  BY <1>2
<1>4. ASSUME NEW y \in T PROVE x <= y
  <2>1. ~(<<y, x>> \in R)
    BY <1>3
  <2>2. x \in Nat /\ y \in Nat
    OBVIOUS
  <2> QED
    BY <2>1, <2>2
<1> QED
  BY <1>4

\* Induction on natural numbers, Good being those the claim holds of.
LEMMA NatInduct ==
    ASSUME NEW Good, 0 \in Good, \A n \in Nat : n \in Good => n + 1 \in Good
    PROVE  Nat \subseteq Good
<1> DEFINE Bad == Nat \ Good
<1> SUFFICES ASSUME Bad # {} PROVE FALSE
  OBVIOUS
<1>1. PICK n \in Bad : \A m \in Bad : n <= m
  <2>1. Bad \subseteq Nat
    OBVIOUS
  <2> HIDE DEF Bad
  <2> QED
    BY <2>1, LeastElement
<1>2. n \in Nat /\ n \notin Good /\ n # 0
  OBVIOUS
<1>3. n - 1 \in Nat /\ n - 1 \in Good
  BY <1>1, <1>2
<1>4. n - 1 + 1 \in Good /\ n - 1 + 1 = n
  BY <1>2, <1>3
<1> QED
  BY <1>2, <1>4

\* g is the fold over the subsets of S that takes pick[s] from s first and
\* combines it with the fold over the rest.
IsFold(g, S, pick, step, base) ==
    g = [s \in SUBSET S |-> IF s = {} THEN base ELSE step[<<pick[s], g[s \ {pick[s]}]>>]]

Picks(pick, S) == \A s \in SUBSET S : s # {} => pick[s] \in s

Small(S, n) == {s \in SUBSET S : Cardinality(s) <= n}

\* Taking an element away makes a finite set smaller by one.
LEMMA RestIsSmaller ==
    ASSUME NEW S, IsFiniteSet(S), NEW s \in SUBSET S, NEW x \in s
    PROVE  /\ IsFiniteSet(s) /\ s \ {x} \in SUBSET S
           /\ Cardinality(s) \in Nat /\ Cardinality(s \ {x}) \in Nat
           /\ Cardinality(s \ {x}) = Cardinality(s) - 1
           /\ Cardinality(s) > 0
<1>1. IsFiniteSet(s)
  BY FS_Subset
<1>2. IsFiniteSet(s \ {x}) /\ Cardinality(s \ {x}) = Cardinality(s) - 1
  BY <1>1, FS_RemoveElement
<1>3. Cardinality(s) \in Nat /\ Cardinality(s \ {x}) \in Nat
  BY <1>1, <1>2, FS_CardinalityType
<1> QED
  BY <1>1, <1>2, <1>3

\* Induction on the subsets of a finite set.
LEMMA SubsetInduct ==
    ASSUME NEW S, IsFiniteSet(S), NEW Good, {} \in Good,
           \A s \in SUBSET S : s # {} /\ (\A x \in s : s \ {x} \in Good) => s \in Good
    PROVE  SUBSET S \subseteq Good
<1> DEFINE Fine == {n \in Nat : \A s \in SUBSET S : Cardinality(s) = n => s \in Good}
<1>1. ASSUME NEW s \in SUBSET S
      PROVE  Cardinality(s) \in Nat /\ (Cardinality(s) = 0 <=> s = {})
  BY FS_Subset, FS_CardinalityType, FS_EmptySet
<1>2. 0 \in Fine
  BY <1>1
<1>3. ASSUME NEW n \in Nat, n \in Fine PROVE n + 1 \in Fine
  <2> SUFFICES ASSUME NEW s \in SUBSET S, Cardinality(s) = n + 1 PROVE s \in Good
    BY DEF Fine
  <2>1. s # {}
    BY <1>1
  <2>2. ASSUME NEW x \in s PROVE s \ {x} \in Good
    <3>1. s \ {x} \in SUBSET S /\ Cardinality(s \ {x}) = n + 1 - 1
      BY RestIsSmaller
    <3> QED
      BY <3>1, <1>3
  <2> QED
    BY <2>1, <2>2
<1>4. Nat \subseteq Fine
  <2> HIDE DEF Fine
  <2> QED
    BY <1>2, <1>3, NatInduct
<1> QED
  BY <1>1, <1>4

\* The fold exists.
LEMMA FoldExists ==
    ASSUME NEW S, IsFiniteSet(S), NEW V, NEW base \in V, NEW pick, Picks(pick, S), NEW step,
           \A x \in S, v \in V : step[<<x, v>>] \in V
    PROVE  \E g \in [SUBSET S -> V] : IsFold(g, S, pick, step, base)
<1> DEFINE Rec(g, s) == IF s = {} THEN base ELSE step[<<pick[s], g[s \ {pick[s]}]>>]
           Partial(n) == \E g \in [Small(S, n) -> V] : \A s \in Small(S, n) : g[s] = Rec(g, s)
           Good == {n \in Nat : Partial(n)}
<1>1. Partial(0)
  <2> DEFINE g == [s \in Small(S, 0) |-> base]
  <2>1. ASSUME NEW s \in Small(S, 0) PROVE s = {}
    <3>1. IsFiniteSet(s) /\ Cardinality(s) <= 0
      BY FS_Subset DEF Small
    <3> QED
      BY <3>1, FS_CardinalityType, FS_EmptySet
  <2>2. \A s \in Small(S, 0) : g[s] = Rec(g, s)
    BY <2>1
  <2>3. g \in [Small(S, 0) -> V]
    OBVIOUS
  <2> QED
    BY <2>2, <2>3
<1>2. ASSUME NEW n \in Nat, Partial(n) PROVE Partial(n + 1)
  <2>1. PICK h \in [Small(S, n) -> V] : \A s \in Small(S, n) : h[s] = Rec(h, s)
    BY <1>2
  <2> DEFINE g == [s \in Small(S, n + 1) |-> Rec(h, s)]
  <2>2. ASSUME NEW s \in Small(S, n + 1), s # {}
        PROVE  pick[s] \in S /\ s \ {pick[s]} \in Small(S, n) /\ s \ {pick[s]} \in Small(S, n + 1)
    <3>1. s \in SUBSET S /\ pick[s] \in s /\ Cardinality(s) <= n + 1
      BY <2>2 DEF Small, Picks
    <3>2. /\ s \ {pick[s]} \in SUBSET S /\ Cardinality(s \ {pick[s]}) = Cardinality(s) - 1
          /\ Cardinality(s) \in Nat
      BY <3>1, RestIsSmaller
    <3> QED
      BY <3>1, <3>2 DEF Small
  <2>3. ASSUME NEW s \in Small(S, n + 1) PROVE Rec(h, s) \in V
    <3>1. CASE s = {}
      BY <3>1
    <3>2. CASE s # {}
      BY <3>2, <2>2, <2>1
    <3> QED
      BY <3>1, <3>2
  <2>4. g \in [Small(S, n + 1) -> V]
    BY <2>3
  <2>5. ASSUME NEW s \in Small(S, n + 1) PROVE g[s] = Rec(g, s)
    <3>1. CASE s = {}
      BY <3>1
    <3>2. CASE s # {}
      <4>1. g[s \ {pick[s]}] = h[s \ {pick[s]}]
        BY <3>2, <2>2, <2>1
      <4> QED
        BY <4>1, <3>2
    <3> QED
      BY <3>1, <3>2
  <2> QED
    BY <2>4, <2>5
<1>3. Nat \subseteq Good
  <2> HIDE DEF Partial
  <2>1. 0 \in Good /\ \A n \in Nat : n \in Good => n + 1 \in Good
    BY <1>1, <1>2
  <2> HIDE DEF Good
  <2> QED
    BY <2>1, NatInduct
<1>4. Cardinality(S) \in Nat
  BY FS_CardinalityType
<1>5. Partial(Cardinality(S))
  <2> HIDE DEF Partial
  <2> QED BY <1>3, <1>4
<1>6. Small(S, Cardinality(S)) = SUBSET S
  <2>1. ASSUME NEW s \in SUBSET S PROVE Cardinality(s) <= Cardinality(S)
    BY FS_Subset
  <2> QED
    BY <2>1 DEF Small
<1>7. PICK g \in [SUBSET S -> V] : \A s \in SUBSET S : g[s] = Rec(g, s)
  BY <1>5, <1>6
<1>8. IsFold(g, S, pick, step, base)
  BY <1>7 DEF IsFold
<1> QED
  BY <1>8

-----------------------------------------------------------------------------
(* Sums                                                                    *)

Total(w, S) == MapThenSumSet(LAMBDA i : w[i], S)

\* The element the fold takes first, and the function it computes.
Pick(s) == CHOOSE x \in s : TRUE

IsSum(g, w, S) ==
    g = [s \in SUBSET S |-> IF s = {} THEN 0 ELSE w[Pick(s)] + g[s \ {Pick(s)}]]

\* Pick() takes an element.
LEMMA PickIn == \A s : s # {} => Pick(s) \in s
BY DEF Pick

\* The definition of the community modules, unfolded.
LEMMA SumUnfolds ==
    ASSUME NEW w, NEW S
    PROVE  Total(w, S) = (CHOOSE g : IsSum(g, w, S))[S]
BY DEF Total, MapThenSumSet, MapThenFoldSet, IsSum, Pick

\* The function exists ...
LEMMA SumExists ==
    ASSUME NEW S, IsFiniteSet(S), NEW w, \A x \in S : w[x] \in Int
    PROVE  \E g \in [SUBSET S -> Int] : IsSum(g, w, S)
<1> DEFINE pick == [s \in SUBSET S |-> Pick(s)]
           step == [xv \in S \X Int |-> w[xv[1]] + xv[2]]
<1>1. Picks(pick, S)
  BY PickIn DEF Picks
<1>2. \A x \in S, v \in Int : step[<<x, v>>] = w[x] + v
  OBVIOUS
<1>5. ASSUME NEW x \in S, NEW v \in Int PROVE step[<<x, v>>] \in Int
  <2>1. w[x] \in Int
    OBVIOUS
  <2>2. \A a, b \in Int : a + b \in Int
    OBVIOUS
  <2> HIDE DEF step
  <2> QED
    BY <2>1, <2>2, <1>2
<1>6. 0 \in Int
  OBVIOUS
<1>3. PICK g \in [SUBSET S -> Int] : IsFold(g, S, pick, step, 0)
  <2> HIDE DEF pick, step
  <2> QED
    BY <1>1, <1>5, <1>6, FoldExists
<1>4. ASSUME NEW s \in SUBSET S
      PROVE  g[s] = IF s = {} THEN 0 ELSE w[Pick(s)] + g[s \ {Pick(s)}]
  <2>1. g[s] = IF s = {} THEN 0 ELSE step[<<pick[s], g[s \ {pick[s]}]>>]
    <3> HIDE DEF pick, step
    <3> QED
      BY <1>3 DEF IsFold
  <2>2. pick[s] = Pick(s)
    OBVIOUS
  <2>3. CASE s = {}
    BY <2>1, <2>3
  <2>4. CASE s # {}
    <3>1. Pick(s) \in S /\ g[s \ {Pick(s)}] \in Int
      BY <2>4, PickIn
    <3>2. step[<<Pick(s), g[s \ {Pick(s)}]>>] = w[Pick(s)] + g[s \ {Pick(s)}]
      BY <3>1, <1>2
    <3> HIDE DEF pick, step
    <3> QED
      BY <2>1, <2>2, <2>4, <3>2
  <2> QED
    BY <2>3, <2>4
<1> QED
  BY <1>4 DEF IsSum

\* ... and is unique: two of them agree where their weights do.
LEMMA SumsAgree ==
    ASSUME NEW S, NEW T, S \subseteq T, IsFiniteSet(T), NEW w, NEW v, \A x \in S : w[x] = v[x],
           NEW g, NEW h, IsSum(g, w, S), IsSum(h, v, T)
    PROVE  \A s \in SUBSET S : g[s] = h[s]
<1> DEFINE Good == {s \in SUBSET S : g[s] = h[s]}
<1>1. IsFiniteSet(S)
  BY FS_Subset
<1>2. {} \in Good
  BY DEF IsSum
<1>3. ASSUME NEW s \in SUBSET S, s # {}, \A x \in s : s \ {x} \in Good
      PROVE  s \in Good
  <2>1. /\ g[s] = w[Pick(s)] + g[s \ {Pick(s)}]
        /\ h[s] = v[Pick(s)] + h[s \ {Pick(s)}]
    BY <1>3 DEF IsSum
  <2>2. Pick(s) \in s
    BY <1>3, PickIn
  <2>3. g[s \ {Pick(s)}] = h[s \ {Pick(s)}] /\ w[Pick(s)] = v[Pick(s)]
    BY <2>2, <1>3
  <2> QED
    BY <2>1, <2>3
<1>4. SUBSET S \subseteq Good
  <2> HIDE DEF Good
  <2> QED
    BY <1>1, <1>2, <1>3, SubsetInduct
<1> QED
  BY <1>4

\* So Sum is the value of any such function.
LEMMA SumIs ==
    ASSUME NEW S, NEW T, S \subseteq T, IsFiniteSet(T), NEW w, \A x \in S : w[x] \in Int,
           NEW v, \A x \in S : w[x] = v[x], NEW g, IsSum(g, v, T)
    PROVE  Total(w, S) = g[S]
<1> DEFINE h == CHOOSE h : IsSum(h, w, S)
<1>1. IsFiniteSet(S)
  BY FS_Subset
<1>2. IsSum(h, w, S)
  BY <1>1, SumExists
<1>3. Total(w, S) = h[S]
  BY SumUnfolds
<1> HIDE DEF h
<1> QED
  BY <1>2, <1>3, SumsAgree

\* The sum of nothing, and of integers.
LEMMA SumEmpty ==
    ASSUME NEW w
    PROVE  Total(w, {}) = 0
<1>1. IsFiniteSet({})
  BY FS_EmptySet
<1>2. PICK g : IsSum(g, w, {})
  BY <1>1, SumExists
<1>3. Total(w, {}) = g[{}]
  BY <1>1, <1>2, SumIs
<1>4. g[{}] = 0
  BY <1>2 DEF IsSum
<1> QED
  BY <1>3, <1>4

\* A sum of integers is an integer.
LEMMA SumInt ==
    ASSUME NEW S, IsFiniteSet(S), NEW w, \A x \in S : w[x] \in Int
    PROVE  Total(w, S) \in Int
<1>1. PICK g \in [SUBSET S -> Int] : IsSum(g, w, S)
  BY SumExists
<1>2. Total(w, S) = g[S]
  BY <1>1, SumIs
<1> QED
  BY <1>2

\* Equal weights have equal sums.
LEMMA SumSame ==
    ASSUME NEW S, IsFiniteSet(S), NEW w, NEW v, \A x \in S : w[x] \in Int /\ w[x] = v[x]
    PROVE  Total(w, S) = Total(v, S)
<1>1. PICK g : IsSum(g, v, S)
  BY SumExists
<1>2. Total(w, S) = g[S]
  BY <1>1, SumIs
<1>3. Total(v, S) = g[S]
  BY <1>1, SumIs
<1> QED
  BY <1>2, <1>3

\* Any element can be taken out first.
LEMMA SumRemove ==
    ASSUME NEW S, IsFiniteSet(S), NEW w, \A x \in S : w[x] \in Int, NEW x \in S
    PROVE  Total(w, S) = w[x] + Total(w, S \ {x})
<1>1. PICK g \in [SUBSET S -> Int] : IsSum(g, w, S)
  BY SumExists
<1> DEFINE Good == {s \in SUBSET S : \A y \in s : g[s] = w[y] + g[s \ {y}]}
<1>2. {} \in Good
  OBVIOUS
<1>3. ASSUME NEW s \in SUBSET S, s # {}, \A y \in s : s \ {y} \in Good
      PROVE  s \in Good
  <2> SUFFICES ASSUME NEW y \in s PROVE g[s] = w[y] + g[s \ {y}]
    OBVIOUS
  <2> DEFINE p == Pick(s)
  <2>1. p \in s
    BY <1>3, PickIn
  <2>2. g[s] = w[p] + g[s \ {p}]
    BY <1>1, <1>3 DEF IsSum
  <2> HIDE DEF p
  <2>3. CASE y = p
    BY <2>2, <2>3
  <2>4. CASE y # p
    <3>1. g[s \ {p}] = w[y] + g[(s \ {p}) \ {y}]
      BY <2>1, <2>4, <1>3
    <3>2. g[s \ {y}] = w[p] + g[(s \ {y}) \ {p}]
      BY <2>1, <2>4, <1>3
    <3>3. (s \ {p}) \ {y} = (s \ {y}) \ {p}
      OBVIOUS
    <3>4. w[p] \in Int /\ w[y] \in Int /\ g[(s \ {y}) \ {p}] \in Int
      BY <2>1
    <3>5. g[s] = w[p] + (w[y] + g[(s \ {y}) \ {p}])
      BY <2>2, <3>1, <3>3
    <3>6. \A a, b, c \in Int : a + (b + c) = b + (a + c)
      OBVIOUS
    <3>7. g[s] = w[y] + (w[p] + g[(s \ {y}) \ {p}])
      BY <3>4, <3>5, <3>6
    <3> QED
      BY <3>2, <3>7
  <2> QED
    BY <2>3, <2>4
<1>4. SUBSET S \subseteq Good
  <2> HIDE DEF Good
  <2> QED
    BY <1>2, <1>3, SubsetInduct
<1>5. g[S] = w[x] + g[S \ {x}]
  BY <1>4
<1>6. Total(w, S) = g[S]
  BY <1>1, SumIs
<1>7. Total(w, S \ {x}) = g[S \ {x}]
  BY <1>1, SumIs
<1> QED
  BY <1>5, <1>6, <1>7

\* An element more.
LEMMA SumAdd ==
    ASSUME NEW S, IsFiniteSet(S), NEW w, NEW x, x \notin S, \A y \in S \cup {x} : w[y] \in Int
    PROVE  Total(w, S \cup {x}) = Total(w, S) + w[x]
<1>1. IsFiniteSet(S \cup {x})
  BY FS_AddElement
<1>2. Total(w, S \cup {x}) = w[x] + Total(w, (S \cup {x}) \ {x})
  BY <1>1, SumRemove
<1>3. (S \cup {x}) \ {x} = S
  OBVIOUS
<1>4. Total(w, S) \in Int /\ w[x] \in Int
  BY SumInt
<1>5. \A a, b \in Int : a + b = b + a
  OBVIOUS
<1> QED
  BY <1>2, <1>3, <1>4, <1>5

\* A part of a sum of natural numbers is no more than the whole.
LEMMA SumPart ==
    ASSUME NEW T, IsFiniteSet(T), NEW w, \A x \in T : w[x] \in Nat, NEW S \in SUBSET T
    PROVE  Total(w, S) \in Nat /\ Total(w, S) <= Total(w, T)
<1> DEFINE Good == {s \in SUBSET T : /\ Total(w, s) \in Nat
                                     /\ \A r \in SUBSET s : Total(w, r) \in Nat /\ Total(w, r) <= Total(w, s)}
<1>1. {} \in Good
  BY SumEmpty
<1>2. ASSUME NEW s \in SUBSET T, s # {}, \A x \in s : s \ {x} \in Good
      PROVE  s \in Good
  <2>1. ASSUME NEW x \in s
        PROVE  Total(w, s) = w[x] + Total(w, s \ {x}) /\ w[x] \in Nat /\ Total(w, s \ {x}) \in Nat
    <3>1. IsFiniteSet(s)
      BY FS_Subset
    <3>2. \A y \in s : w[y] \in Int
      OBVIOUS
    <3>3. Total(w, s \ {x}) \in Nat
      BY <1>2
    <3> QED
      BY <3>1, <3>2, <3>3, SumRemove
  <2>2. Total(w, s) \in Nat
    <3>1. PICK x \in s : TRUE
      BY <1>2
    <3>2. Total(w, s) = w[x] + Total(w, s \ {x}) /\ w[x] \in Nat /\ Total(w, s \ {x}) \in Nat
      BY <2>1
    <3>3. \A a, b \in Nat : a + b \in Nat
      OBVIOUS
    <3> QED
      BY <3>2, <3>3
  <2>3. ASSUME NEW r \in SUBSET s PROVE Total(w, r) \in Nat /\ Total(w, r) <= Total(w, s)
    <3>1. CASE r = s
      BY <2>2, <3>1
    <3>2. CASE r # s
      <4>1. PICK x \in s : x \notin r
        BY <3>2
      <4>2. r \in SUBSET (s \ {x}) /\ s \ {x} \in Good
        BY <4>1, <1>2
      <4>3. Total(w, r) \in Nat /\ Total(w, r) <= Total(w, s \ {x})
        BY <4>2
      <4> QED
        BY <4>3, <2>1
    <3> QED
      BY <3>1, <3>2
  <2> QED
    BY <2>2, <2>3
<1>3. SUBSET T \subseteq Good
  <2> HIDE DEF Good
  <2> QED
    BY <1>1, <1>2, SubsetInduct
<1> QED
  BY <1>3

\* Disjoint finite sets have as many elements together as their sizes add up to.
LEMMA SizesAddUp ==
    ASSUME NEW S, IsFiniteSet(S), NEW f, \A x \in S : IsFiniteSet(f[x]),
           \A x, y \in S : x # y => f[x] \cap f[y] = {},
           NEW w, \A x \in S : w[x] = Cardinality(f[x])
    PROVE  Total(w, S) = Cardinality(UNION {f[x] : x \in S})
<1> DEFINE All(s) == UNION {f[x] : x \in s}
           Good == {s \in SUBSET S : IsFiniteSet(All(s)) /\ Total(w, s) = Cardinality(All(s))}
<1>1. {} \in Good
  <2>1. All({}) = {}
    OBVIOUS
  <2> QED
    BY <2>1, SumEmpty, FS_EmptySet
<1>2. ASSUME NEW s \in SUBSET S, s # {}, \A x \in s : s \ {x} \in Good
      PROVE  s \in Good
  <2>1. PICK x \in s : TRUE
    BY <1>2
  <2>2. All(s) = f[x] \cup All(s \ {x}) /\ f[x] \cap All(s \ {x}) = {}
    OBVIOUS
  <2>3. /\ IsFiniteSet(All(s \ {x})) /\ IsFiniteSet(f[x])
        /\ Total(w, s \ {x}) = Cardinality(All(s \ {x})) /\ w[x] = Cardinality(f[x])
    BY <1>2
  <2>4. Total(w, s) = w[x] + Total(w, s \ {x})
    <3>1. \A y \in s : w[y] \in Int
      BY FS_CardinalityType
    <3>2. IsFiniteSet(s)
      BY FS_Subset
    <3> QED
      BY <3>1, <3>2, SumRemove
  <2>5. /\ IsFiniteSet(All(s))
        /\ Cardinality(All(s)) = Cardinality(f[x]) + Cardinality(All(s \ {x})) - Cardinality({})
    <3>1. PICK A, B : A = f[x] /\ B = All(s \ {x})
      OBVIOUS
    <3>2. IsFiniteSet(A) /\ IsFiniteSet(B) /\ All(s) = A \cup B /\ A \cap B = {}
      BY <2>2, <2>3, <3>1
    <3>3. /\ IsFiniteSet(A \cup B)
          /\ Cardinality(A \cup B) = Cardinality(A) + Cardinality(B) - Cardinality({})
      BY <3>2, FS_Union
    <3> HIDE DEF All
    <3> QED
      BY <3>1, <3>2, <3>3
  <2>6. Cardinality(All(s)) = Cardinality(f[x]) + Cardinality(All(s \ {x}))
    BY <2>3, <2>5, FS_EmptySet, FS_CardinalityType
  <2> QED
    BY <2>3, <2>4, <2>5, <2>6
<1>3. SUBSET S \subseteq Good
  <2> HIDE DEF Good
  <2> QED
    BY <1>1, <1>2, SubsetInduct
<1> QED
  BY <1>3

SizeTotal(f, S) == MapThenSumSet(LAMBDA x : Cardinality(f[x]), S)

IsSizeSum(g, f, S) ==
    g = [s \in SUBSET S |-> IF s = {} THEN 0 ELSE Cardinality(f[Pick(s)]) + g[s \ {Pick(s)}]]

\* The sum of the sizes as the community modules write it.
LEMMA SizeSumUnfolds ==
    ASSUME NEW f, NEW S
    PROVE  SizeTotal(f, S) = (CHOOSE g : IsSizeSum(g, f, S))[S]
  BY DEF SizeTotal, MapThenSumSet, MapThenFoldSet, IsSizeSum, Pick

\* That is the size of the union.
LEMMA SizeSum ==
    ASSUME NEW S, IsFiniteSet(S), NEW f, \A x \in S : IsFiniteSet(f[x]),
           \A x, y \in S : x # y => f[x] \cap f[y] = {}
    PROVE  SizeTotal(f, S) = Cardinality(UNION {f[x] : x \in S})
<1> DEFINE w == [x \in S |-> Cardinality(f[x])]
           h == CHOOSE g : IsSizeSum(g, f, S)
<1>1. \A x \in S : w[x] = Cardinality(f[x]) /\ w[x] \in Int
  BY FS_CardinalityType
<1> HIDE DEF w
<1>2. ASSUME NEW s \in SUBSET S, s # {} PROVE w[Pick(s)] = Cardinality(f[Pick(s)])
  BY <1>1, <1>2, PickIn
<1>3. ASSUME NEW g
      PROVE  [s \in SUBSET S |-> IF s = {} THEN 0 ELSE Cardinality(f[Pick(s)]) + g[s \ {Pick(s)}]]
               = [s \in SUBSET S |-> IF s = {} THEN 0 ELSE w[Pick(s)] + g[s \ {Pick(s)}]]
  BY <1>2
<1>4. \A g : IsSizeSum(g, f, S) <=> IsSum(g, w, S)
  BY <1>3 DEF IsSizeSum, IsSum
<1>5. \E g : IsSum(g, w, S)
  BY <1>1, SumExists
<1>6. IsSizeSum(h, f, S)
  BY <1>4, <1>5
<1>7. SizeTotal(f, S) = h[S]
  BY SizeSumUnfolds
<1> HIDE DEF h
<1>8. Total(w, S) = h[S]
  BY <1>1, <1>4, <1>6, SumIs
<1> QED
  BY <1>1, <1>7, <1>8, SizesAddUp

-----------------------------------------------------------------------------
(* Folding a sequence from the left                                        *)

Run(step, base, q) == FoldLeft(LAMBDA v, x : step[<<v, x>>], base, q)

Steps(step, V, E) == step \in [V \X E -> V]

IsRun(g, step, base, q) ==
    g = [s \in SUBSET DOMAIN q |->
            IF s = {} THEN base ELSE step[<<g[s \ {Max(s)}], q[Max(s)]>>]]

\* The definition of the community modules, unfolded.
LEMMA RunUnfolds ==
    ASSUME NEW step, NEW base, NEW q
    PROVE  Run(step, base, q) = (CHOOSE g : IsRun(g, step, base, q))[DOMAIN q]
BY DEF Run, FoldLeft, MapThenFoldSet, IsRun

\* A nonempty set of positions has a last one.
LEMMA MaxIn ==
    ASSUME NEW n \in Nat, NEW s \in SUBSET (1 .. n), s # {}
    PROVE  Max(s) \in s /\ \A y \in s : y <= Max(s)
<1> DEFINE T == {n - y : y \in s}
<1>1. T \subseteq Nat /\ T # {}
  <2>1. ASSUME NEW y \in s PROVE n - y \in Nat
    <3>1. y \in 1 .. n
      OBVIOUS
    <3> QED
      BY <3>1
  <2>2. T # {}
    OBVIOUS
  <2> QED
    BY <2>1, <2>2
<1>2. PICK d \in T : \A m \in T : d <= m
  <2> HIDE DEF T
  <2> QED
    BY <1>1, LeastElement
<1>3. PICK x \in s : d = n - x
  OBVIOUS
<1>4. ASSUME NEW y \in s PROVE x >= y
  <2>1. n - x <= n - y
    BY <1>2, <1>3
  <2> QED
    BY <2>1
<1>5. \E z \in s : \A y \in s : z >= y
  BY <1>4
<1>6. Max(s) \in s /\ \A y \in s : Max(s) >= y
  BY <1>5 DEF Max
<1> QED
  BY <1>6

\* The last position of a sequence, and the ones before it.
LEMMA MaxOfPrefix ==
    ASSUME NEW n \in Nat
    PROVE  Max(1 .. n + 1) = n + 1 /\ (1 .. n + 1) \ {n + 1} = 1 .. n
<1>1. n + 1 \in 1 .. n + 1 /\ 1 .. n + 1 # {}
  OBVIOUS
<1>2. Max(1 .. n + 1) \in 1 .. n + 1 /\ n + 1 <= Max(1 .. n + 1)
  BY <1>1, MaxIn, n + 1 \in Nat
<1> QED
  BY <1>2

\* The numbers from 1 to n are n.
LEMMA CountUp ==
    ASSUME NEW n \in Nat
    PROVE  IsFiniteSet(1 .. n) /\ Cardinality(1 .. n) = n
  BY FS_Interval

\* A sequence has finitely many positions.
LEMMA FinitePositions ==
    ASSUME NEW E, NEW q \in Seq(E)
    PROVE  IsFiniteSet(DOMAIN q)
<1>1. Len(q) \in Nat /\ DOMAIN q = 1 .. Len(q)
  OBVIOUS
<1>2. IsFiniteSet(1 .. Len(q))
  BY <1>1, FS_Interval
<1> QED
  BY <1>1, <1>2

\* The fold exists ...
LEMMA RunExists ==
    ASSUME NEW V, NEW E, NEW base \in V, NEW step \in [V \X E -> V], NEW q \in Seq(E)
    PROVE  \E g \in [SUBSET DOMAIN q -> V] : IsRun(g, step, base, q)
<1> DEFINE S    == DOMAIN q
           pick == [s \in SUBSET S |-> Max(s)]
           back == [xv \in S \X V |-> step[<<xv[2], q[xv[1]]>>]]
<1>1. S = 1 .. Len(q) /\ Len(q) \in Nat /\ \A x \in S : q[x] \in E
  OBVIOUS
<1>2. IsFiniteSet(S)
  BY <1>1, FS_Interval
<1>3. Picks(pick, S)
  BY <1>1, MaxIn DEF Picks
<1>4. \A x \in S, v \in V : back[<<x, v>>] = step[<<v, q[x]>>]
  OBVIOUS
<1>5. \A x \in S, v \in V : back[<<x, v>>] \in V
  BY <1>1, <1>4
<1>6. PICK g \in [SUBSET S -> V] : IsFold(g, S, pick, back, base)
  <2> HIDE DEF S, pick, back
  <2> QED
    BY <1>2, <1>3, <1>5, FoldExists
<1>7. ASSUME NEW s \in SUBSET S
      PROVE  g[s] = IF s = {} THEN base ELSE step[<<g[s \ {Max(s)}], q[Max(s)]>>]
  <2>1. g[s] = IF s = {} THEN base ELSE back[<<pick[s], g[s \ {pick[s]}]>>]
    <3> HIDE DEF S, pick, back
    <3> QED
      BY <1>6 DEF IsFold
  <2>2. pick[s] = Max(s)
    OBVIOUS
  <2>3. CASE s = {}
    BY <2>1, <2>3
  <2>4. CASE s # {}
    <3>1. Max(s) \in S /\ g[s \ {Max(s)}] \in V
      BY <2>4, <1>1, MaxIn
    <3>2. back[<<Max(s), g[s \ {Max(s)}]>>] = step[<<g[s \ {Max(s)}], q[Max(s)]>>]
      BY <3>1, <1>4
    <3> HIDE DEF S, pick, back
    <3> QED
      BY <2>1, <2>2, <2>4, <3>2
  <2> QED
    BY <2>3, <2>4
<1> QED
  BY <1>7 DEF IsRun

\* ... and the value on a prefix depends on the prefix only.
LEMMA RunsAgree ==
    ASSUME NEW n \in Nat, NEW q, NEW p, NEW step, NEW base, NEW g, NEW h,
           1 .. n \subseteq DOMAIN q, 1 .. n \subseteq DOMAIN p, \A i \in 1 .. n : q[i] = p[i],
           IsRun(g, step, base, q), IsRun(h, step, base, p)
    PROVE  g[1 .. n] = h[1 .. n]
<1> DEFINE Good == {s \in SUBSET (1 .. n) : g[s] = h[s]}
<1>1. IsFiniteSet(1 .. n)
  BY FS_Interval
<1>2. {} \in Good
  BY DEF IsRun
<1>3. ASSUME NEW s \in SUBSET (1 .. n), s # {}, \A x \in s : s \ {x} \in Good
      PROVE  s \in Good
  <2>1. s \in SUBSET DOMAIN q /\ s \in SUBSET DOMAIN p
    OBVIOUS
  <2>2. /\ g[s] = step[<<g[s \ {Max(s)}], q[Max(s)]>>]
        /\ h[s] = step[<<h[s \ {Max(s)}], p[Max(s)]>>]
    BY <2>1, <1>3 DEF IsRun
  <2>3. Max(s) \in s
    BY <1>3, MaxIn
  <2>4. g[s \ {Max(s)}] = h[s \ {Max(s)}] /\ q[Max(s)] = p[Max(s)]
    BY <2>3, <1>3
  <2> QED
    BY <2>2, <2>4
<1>4. SUBSET (1 .. n) \subseteq Good
  <2> DEFINE S == 1 .. n
  <2>1. IsFiniteSet(S) /\ \A s \in SUBSET S : s # {} /\ (\A x \in s : s \ {x} \in Good) => s \in Good
    <3> HIDE DEF Good
    <3> QED BY <1>1, <1>3
  <2> HIDE DEF S, Good
  <2>2. SUBSET S \subseteq Good
    BY <2>1, <1>2, SubsetInduct
  <2> QED
    BY <2>2 DEF S
<1> QED
  BY <1>4

\* So Run is the value of any such function.
LEMMA RunIs ==
    ASSUME NEW E, NEW q \in Seq(E), NEW step, NEW base, NEW g, IsRun(g, step, base, q)
    PROVE  Run(step, base, q) = g[DOMAIN q]
<1> DEFINE h == CHOOSE f : IsRun(f, step, base, q)
<1>1. IsRun(h, step, base, q)
  OBVIOUS
<1>2. Run(step, base, q) = h[DOMAIN q]
  BY RunUnfolds
<1>3. Len(q) \in Nat /\ DOMAIN q = 1 .. Len(q)
  OBVIOUS
<1> HIDE DEF h
<1>4. h[1 .. Len(q)] = g[1 .. Len(q)]
  BY <1>1, <1>3, RunsAgree
<1> QED
  BY <1>2, <1>3, <1>4

\* Nothing to fold.
LEMMA RunEmpty ==
    ASSUME NEW V, NEW E, NEW base \in V, NEW step \in [V \X E -> V]
    PROVE  Run(step, base, << >>) = base
<1> DEFINE q == << >>
           h == CHOOSE g : IsRun(g, step, base, q)
<1>1. q \in Seq(E) /\ DOMAIN q = {}
  OBVIOUS
<1>2. \E g : IsRun(g, step, base, q)
  <2> HIDE DEF q, h
  <2>1. \E g \in [SUBSET DOMAIN q -> V] : IsRun(g, step, base, q)
    BY <1>1, RunExists
  <2> QED
    BY <2>1
<1>3. IsRun(h, step, base, q)
  BY <1>2
<1>4. Run(step, base, q) = h[DOMAIN q]
  BY RunUnfolds
<1> HIDE DEF h, q
<1>5. h[DOMAIN q] = base
  BY <1>1, <1>3 DEF IsRun
<1>6. Run(step, base, q) = base
  BY <1>4, <1>5
<1> QED
  BY <1>6 DEF q

\* The last element is folded in last.
LEMMA RunAppend ==
    ASSUME NEW V, NEW E, NEW base \in V, NEW step, Steps(step, V, E), NEW q \in Seq(E), NEW e \in E
    PROVE  /\ Run(step, base, q) \in V
           /\ Run(step, base, Append(q, e)) = step[<<Run(step, base, q), e>>]
<1> DEFINE p == Append(q, e)
           n == Len(q)
           h == CHOOSE g : IsRun(g, step, base, q)
           k == CHOOSE g : IsRun(g, step, base, p)
<1>1. /\ p \in Seq(E) /\ n \in Nat /\ DOMAIN q = 1 .. n /\ DOMAIN p = 1 .. n + 1
      /\ p[n + 1] = e /\ \A i \in 1 .. n : p[i] = q[i]
  OBVIOUS
<1>0. step \in [V \X E -> V]
  BY DEF Steps
<1>2. PICK g \in [SUBSET DOMAIN q -> V] : IsRun(g, step, base, q)
  BY <1>0, RunExists
<1>3. IsRun(h, step, base, q)
  BY <1>2
<1>4. \E f : IsRun(f, step, base, p)
  <2> HIDE DEF p
  <2> QED BY <1>0, <1>1, RunExists
<1>5. IsRun(k, step, base, p)
  BY <1>4
<1>6. Run(step, base, q) = h[1 .. n] /\ Run(step, base, p) = k[1 .. n + 1]
  <2>1. Run(step, base, q) = h[DOMAIN q]
    BY RunUnfolds
  <2>2. Run(step, base, p) = k[DOMAIN p]
    BY RunUnfolds
  <2> QED
    BY <2>1, <2>2, <1>1
<1> HIDE DEF h, k, p, n
<1>7. h[1 .. n] = g[1 .. n]
  BY <1>1, <1>2, <1>3, RunsAgree
<1>8. k[1 .. n] = h[1 .. n]
  BY <1>1, <1>3, <1>5, RunsAgree
<1>9. k[1 .. n + 1] = step[<<k[(1 .. n + 1) \ {Max(1 .. n + 1)}], p[Max(1 .. n + 1)]>>]
  <2>1. n + 1 \in 1 .. n + 1 /\ 1 .. n + 1 \in SUBSET DOMAIN p
    BY <1>1
  <2> QED
    BY <2>1, <1>5 DEF IsRun
<1>10. k[1 .. n + 1] = step[<<k[1 .. n], e>>]
  BY <1>1, <1>9, MaxOfPrefix
<1>11. g[1 .. n] \in V
  BY <1>1, <1>2
<1>12. Run(step, base, p) = step[<<Run(step, base, q), e>>] /\ Run(step, base, q) \in V
  BY <1>6, <1>7, <1>8, <1>10, <1>11
<1> QED
  BY <1>12 DEF p
=============================================================================
