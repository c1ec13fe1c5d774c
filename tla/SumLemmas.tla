------------------------------- MODULE SumLemmas -------------------------------
(***************************************************************************)
(* Lemmas about MapThenSumSet over finite sets, and the two inductions they *)
(* rest on.  An induction theorem of the library takes the property as an  *)
(* operator; here it is a set G of what has the property, so that a goal   *)
(* is instantiated with a set constructor.                                 *)
(*                                                                         *)
(* MapThenSumSet chooses the order in which it adds: the lemmas show that   *)
(* the sum does not depend on it.                                          *)
(***************************************************************************)
EXTENDS Integers, FiniteSetsExt, FiniteSetTheorems, WellFoundedInduction, TLAPS

-----------------------------------------------------------------------------
(* Induction *)

\* What holds of a finite set when it holds of its proper subsets holds of every subset.
LEMMA SubsetInduct ==
  ASSUME NEW S, IsFiniteSet(S), NEW G,
         \A T \in SUBSET S : (\A U \in SUBSET T : U # T => U \in G) => T \in G
  PROVE  SUBSET S \subseteq G
<1> DEFINE Bad == {T \in SUBSET S : T \notin G}
<1> SUFFICES ASSUME Bad # {}
             PROVE  FALSE
  OBVIOUS
<1>1. IsWellFoundedOn(StrictSubsetOrdering(S), FiniteSubsetsOf(S))
  BY FS_StrictSubsetOrderingWellFounded
<1>2. Bad \subseteq FiniteSubsetsOf(S)
  BY FS_Subset DEF FiniteSubsetsOf
<1>3. \E T \in Bad : \A U \in Bad : <<U, T>> \notin StrictSubsetOrdering(S)
  <2> HIDE DEF Bad
  <2> QED
    BY <1>1, <1>2, WFMin
<1>4. PICK T \in Bad : \A U \in Bad : <<U, T>> \notin StrictSubsetOrdering(S)
  BY <1>3
<1>5. \A U \in SUBSET T : U # T => U \in G
  BY <1>4 DEF StrictSubsetOrdering
<1> QED
  BY <1>4, <1>5

\* Induction over the natural numbers.
LEMMA NatInduct ==
  ASSUME NEW G, 0 \in G, \A n \in Nat : n \in G => n + 1 \in G
  PROVE  Nat \subseteq G
<1> SUFFICES ASSUME NEW n \in Nat
             PROVE  n \in G
  OBVIOUS
<1> DEFINE Upto == {T \in SUBSET (0 .. n) : \A k \in 0 .. n : T = 0 .. k => k \in G}
<1>1. IsFiniteSet(0 .. n)
  BY FS_Interval
<1>2. ASSUME NEW T \in SUBSET (0 .. n), \A U \in SUBSET T : U # T => U \in Upto
      PROVE  T \in Upto
  <2>1. ASSUME NEW k \in 0 .. n, T = 0 .. k
        PROVE  k \in G
    <3>1. CASE k = 0
      BY <3>1
    <3>2. CASE k # 0
      <4>1. 0 .. (k - 1) \in SUBSET T /\ 0 .. (k - 1) # T /\ k - 1 \in 0 .. n
        BY <2>1, <3>2
      <4>2. k - 1 \in G
        BY <1>2, <4>1
      <4> QED
        BY <4>1, <4>2
    <3> QED
      BY <3>1, <3>2
  <2> QED
    BY <2>1
<1>3. SUBSET (0 .. n) \subseteq Upto
  <2> DEFINE I == 0 .. n
  <2>1. IsFiniteSet(I) /\ \A T \in SUBSET I : (\A U \in SUBSET T : U # T => U \in Upto) => T \in Upto
    BY <1>1, <1>2
  <2> HIDE DEF Upto, I
  <2>2. SUBSET I \subseteq Upto
    BY <2>1, SubsetInduct
  <2> QED
    BY <2>2 DEF I
<1>4. 0 .. n \in Upto
  BY <1>3
<1> QED
  BY <1>4

-----------------------------------------------------------------------------
(* The sum as a function on the subsets of a set *)

Chosen(s) == CHOOSE x \in s : TRUE

SumFcn(f, S) ==
  CHOOSE g : g = [s \in SUBSET S |-> IF s = {} THEN 0 ELSE f[Chosen(s)] + g[s \ {Chosen(s)}]]

SumOf(f, S) == SumFcn(f, S)[S]

\* The sum of the community modules is SumOf.
LEMMA SumIsSumOf ==
  ASSUME NEW f, NEW S
  PROVE  MapThenSumSet(LAMBDA x : f[x], S) = SumOf(f, S)
BY DEF MapThenSumSet, MapThenFoldSet, SumOf, SumFcn, Chosen

\* The recursion has a solution: on the subsets of at most n elements, for every n.
LEMMA SumFcnExists ==
  ASSUME NEW f, NEW S, IsFiniteSet(S)
  PROVE  \A s \in SUBSET S :
           SumFcn(f, S)[s] = IF s = {} THEN 0 ELSE f[Chosen(s)] + SumFcn(f, S)[s \ {Chosen(s)}]
<1> DEFINE Small(n) == {s \in SUBSET S : Cardinality(s) <= n}
           Solves(g, n) == g = [s \in Small(n) |->
                                  IF s = {} THEN 0 ELSE f[Chosen(s)] + g[s \ {Chosen(s)}]]
           G == {n \in Nat : \E g : Solves(g, n)}
<1>0. \A s \in SUBSET S : IsFiniteSet(s) /\ Cardinality(s) \in Nat /\ Cardinality(s) <= Cardinality(S)
  BY FS_Subset, FS_CardinalityType
<1>1. \A s \in SUBSET S : s # {} =>
        /\ Chosen(s) \in s /\ s \ {Chosen(s)} \in SUBSET S
        /\ Cardinality(s \ {Chosen(s)}) = Cardinality(s) - 1
  BY <1>0, FS_RemoveElement DEF Chosen
<1>2. 0 \in G
  <2>1. \A s \in Small(0) : s = {}
    BY <1>0, FS_EmptySet
  <2> DEFINE z == [s \in Small(0) |-> 0]
  <2>2. Solves(z, 0)
    BY <2>1
  <2> QED
    BY <2>2
<1>3. ASSUME NEW n \in Nat, n \in G
      PROVE  n + 1 \in G
  <2>1. PICK g : Solves(g, n)
    BY <1>3
  <2> DEFINE h == [s \in Small(n + 1) |-> IF s = {} THEN 0 ELSE f[Chosen(s)] + g[s \ {Chosen(s)}]]
  <2>2. ASSUME NEW s \in Small(n + 1), s # {}
        PROVE  h[s \ {Chosen(s)}] = g[s \ {Chosen(s)}]
    <3> DEFINE t == s \ {Chosen(s)}
    <3>1. t \in Small(n) /\ t \in Small(n + 1)
      BY <1>0, <1>1, <2>2
    <3>2. g[t] = IF t = {} THEN 0 ELSE f[Chosen(t)] + g[t \ {Chosen(t)}]
      BY <2>1, <3>1
    <3>3. h[t] = IF t = {} THEN 0 ELSE f[Chosen(t)] + g[t \ {Chosen(t)}]
      BY <3>1
    <3> QED
      BY <3>2, <3>3
  <2>3. Solves(h, n + 1)
    BY <2>2
  <2>4. \E k : Solves(k, n + 1)
    <3> HIDE DEF h, Solves
    <3> QED
      BY <2>3
  <2> HIDE DEF Solves
  <2> QED
    BY <2>4
<1>4. Cardinality(S) \in G
  <2> HIDE DEF G
  <2>1. Nat \subseteq G
    BY <1>2, <1>3, NatInduct
  <2> QED
    BY <2>1, <1>0
<1>5. Small(Cardinality(S)) = SUBSET S
  BY <1>0
<1>6. PICK g : g = [s \in SUBSET S |-> IF s = {} THEN 0 ELSE f[Chosen(s)] + g[s \ {Chosen(s)}]]
  BY <1>4, <1>5
<1>7. SumFcn(f, S) = [s \in SUBSET S |-> IF s = {} THEN 0 ELSE f[Chosen(s)] + SumFcn(f, S)[s \ {Chosen(s)}]]
  BY <1>6 DEF SumFcn
<1> QED
  BY <1>7

\* The sum of integers is an integer.
LEMMA SumFcnType ==
  ASSUME NEW S, IsFiniteSet(S), NEW f, \A x \in S : f[x] \in Int
  PROVE  \A s \in SUBSET S : SumFcn(f, S)[s] \in Int
<1> DEFINE G == {s \in SUBSET S : SumFcn(f, S)[s] \in Int}
<1>1. ASSUME NEW s \in SUBSET S, \A U \in SUBSET s : U # s => U \in G
      PROVE  s \in G
  <2>1. CASE s = {}
    BY <2>1, SumFcnExists
  <2>2. CASE s # {}
    <3>1. Chosen(s) \in s
      BY <2>2 DEF Chosen
    <3>2. s \ {Chosen(s)} \in SUBSET s /\ s \ {Chosen(s)} # s
      BY <3>1
    <3>3. SumFcn(f, S)[s \ {Chosen(s)}] \in Int
      BY <1>1, <3>2
    <3>4. SumFcn(f, S)[s] = f[Chosen(s)] + SumFcn(f, S)[s \ {Chosen(s)}]
      BY <2>2, SumFcnExists
    <3> QED
      BY <3>1, <3>3, <3>4
  <2> QED
    BY <2>1, <2>2
<1>2. SUBSET S \subseteq G
  <2> HIDE DEF G
  <2> QED
    BY <1>1, SubsetInduct
<1> QED
  BY <1>2

\* Any element may be added first.
LEMMA SumFcnAny ==
  ASSUME NEW S, IsFiniteSet(S), NEW f, \A x \in S : f[x] \in Int
  PROVE  \A s \in SUBSET S : \A x \in s : SumFcn(f, S)[s] = f[x] + SumFcn(f, S)[s \ {x}]
<1> DEFINE g == SumFcn(f, S)
           G == {s \in SUBSET S : \A x \in s : g[s] = f[x] + g[s \ {x}]}
<1>0. \A s \in SUBSET S : g[s] \in Int
  BY SumFcnType
<1>1. ASSUME NEW s \in SUBSET S, \A U \in SUBSET s : U # s => U \in G
      PROVE  s \in G
  <2> SUFFICES ASSUME NEW x \in s
               PROVE  g[s] = f[x] + g[s \ {x}]
    OBVIOUS
  <2> DEFINE y == Chosen(s)
  <2>1. y \in s /\ g[s] = f[y] + g[s \ {y}]
    BY SumFcnExists DEF Chosen
  <2> HIDE DEF y, g
  <2>2. CASE x = y
    BY <2>1, <2>2
  <2>3. CASE x # y
    <3>1. s \ {y} \in G /\ s \ {x} \in G /\ x \in s \ {y} /\ y \in s \ {x}
      BY <1>1, <2>1, <2>3
    <3>2. g[s \ {y}] = f[x] + g[(s \ {y}) \ {x}] /\ g[s \ {x}] = f[y] + g[(s \ {x}) \ {y}]
      BY <3>1
    <3>3. g[(s \ {y}) \ {x}] = g[(s \ {x}) \ {y}] /\ g[(s \ {y}) \ {x}] \in Int
      <4>1. (s \ {y}) \ {x} = (s \ {x}) \ {y}
        OBVIOUS
      <4>2. (s \ {y}) \ {x} \in SUBSET S
        OBVIOUS
      <4>3. g[(s \ {y}) \ {x}] \in Int
        BY <1>0, <4>2
      <4> QED
        BY <4>1, <4>3, Zenon
    <3>4. f[x] \in Int /\ f[y] \in Int
      BY <2>1
    <3> QED
      BY <2>1, <3>2, <3>3, <3>4
  <2> QED
    BY <2>2, <2>3
<1>2. SUBSET S \subseteq G
  <2> HIDE DEF G
  <2> QED
    BY <1>1, SubsetInduct
<1> QED
  BY <1>2

\* The sum over a set does not depend on the set it is taken as a subset of, nor on
\* what the function is elsewhere.
LEMMA SumFcnLocal ==
  ASSUME NEW S, IsFiniteSet(S), NEW T, IsFiniteSet(T), NEW f, NEW h,
         \A x \in S \cap T : f[x] = h[x]
  PROVE  \A s \in SUBSET (S \cap T) : SumFcn(f, S)[s] = SumFcn(h, T)[s]
<1> DEFINE I == S \cap T
           G == {s \in SUBSET I : SumFcn(f, S)[s] = SumFcn(h, T)[s]}
<1>0. IsFiniteSet(I)
  BY FS_Intersection
<1>1. ASSUME NEW s \in SUBSET I, \A U \in SUBSET s : U # s => U \in G
      PROVE  s \in G
  <2>1. CASE s = {}
    BY <2>1, SumFcnExists
  <2>2. CASE s # {}
    <3>1. Chosen(s) \in s
      BY <2>2 DEF Chosen
    <3>2. s \ {Chosen(s)} \in SUBSET s /\ s \ {Chosen(s)} # s
      BY <3>1
    <3>3. SumFcn(f, S)[s \ {Chosen(s)}] = SumFcn(h, T)[s \ {Chosen(s)}]
      BY <1>1, <3>2
    <3>4. /\ SumFcn(f, S)[s] = f[Chosen(s)] + SumFcn(f, S)[s \ {Chosen(s)}]
          /\ SumFcn(h, T)[s] = h[Chosen(s)] + SumFcn(h, T)[s \ {Chosen(s)}]
      BY <2>2, SumFcnExists
    <3>5. f[Chosen(s)] = h[Chosen(s)]
      BY <3>1
    <3> QED
      BY <3>3, <3>4, <3>5
  <2> QED
    BY <2>1, <2>2
<1>2. SUBSET I \subseteq G
  <2> HIDE DEF G, I
  <2> QED
    BY <1>0, <1>1, SubsetInduct
<1> QED
  BY <1>2

-----------------------------------------------------------------------------
(* What the models use *)

LEMMA SumType ==
  ASSUME NEW S, IsFiniteSet(S), NEW f, \A x \in S : f[x] \in Int
  PROVE  SumOf(f, S) \in Int
BY SumFcnType DEF SumOf

LEMMA SumNone == ASSUME NEW f PROVE SumOf(f, {}) = 0
BY SumFcnExists, FS_EmptySet DEF SumOf

\* Functions that agree on the set have the same sum over it.
LEMMA SumAgree ==
  ASSUME NEW S, IsFiniteSet(S), NEW f, NEW h, \A x \in S : f[x] = h[x]
  PROVE  SumOf(f, S) = SumOf(h, S)
BY SumFcnLocal DEF SumOf

\* One element less.
LEMMA SumWithout ==
  ASSUME NEW S, IsFiniteSet(S), NEW f, \A x \in S : f[x] \in Int, NEW x \in S
  PROVE  SumOf(f, S) = f[x] + SumOf(f, S \ {x})
<1>1. SumFcn(f, S)[S] = f[x] + SumFcn(f, S)[S \ {x}]
  BY SumFcnAny
<1>2. SumFcn(f, S)[S \ {x}] = SumFcn(f, S \ {x})[S \ {x}]
  <2> DEFINE T == S \ {x}
  <2>1. IsFiniteSet(T) /\ S \cap T = T /\ \A y \in S \cap T : f[y] = f[y]
    BY FS_RemoveElement
  <2> HIDE DEF T
  <2>2. SumFcn(f, S)[T] = SumFcn(f, T)[T]
    BY <2>1, SumFcnLocal
  <2> QED
    BY <2>2 DEF T
<1> QED
  BY <1>1, <1>2 DEF SumOf

\* Two sets that differ in x at most, and two functions that do: the sums differ by
\* what each has at x.
LEMMA SumMove ==
  ASSUME NEW S, IsFiniteSet(S), NEW T, IsFiniteSet(T), NEW f, NEW h, NEW x,
         S \ {x} = T \ {x}, \A y \in S : f[y] \in Int, \A y \in T : h[y] \in Int,
         \A y \in S \ {x} : h[y] = f[y]
  PROVE  SumOf(h, T) = SumOf(f, S) - (IF x \in S THEN f[x] ELSE 0) + (IF x \in T THEN h[x] ELSE 0)
<1> DEFINE R == S \ {x}
<1>1. IsFiniteSet(R) /\ \A y \in R : f[y] \in Int /\ h[y] = f[y]
  BY FS_RemoveElement
<1>2. R = S \ {x} /\ R = T \ {x}
  OBVIOUS
<1> HIDE DEF R
<1>3. SumOf(h, R) = SumOf(f, R) /\ SumOf(f, R) \in Int
  BY <1>1, SumAgree, SumType
<1>4. SumOf(f, S) = SumOf(f, R) + (IF x \in S THEN f[x] ELSE 0)
  <2>1. CASE x \in S
    <3>1. SumOf(f, S) = f[x] + SumOf(f, S \ {x})
      BY <2>1, SumWithout
    <3>2. SumOf(f, S \ {x}) = SumOf(f, R)
      BY <1>2, Zenon
    <3> QED
      BY <3>1, <3>2, <1>3, <2>1
  <2>2. CASE x \notin S
    <3>1. R = S
      BY <1>2, <2>2
    <3> QED
      BY <3>1, <1>3, <2>2
  <2> QED
    BY <2>1, <2>2
<1>5. SumOf(h, T) = SumOf(h, R) + (IF x \in T THEN h[x] ELSE 0)
  <2>1. CASE x \in T
    <3>1. SumOf(h, T) = h[x] + SumOf(h, T \ {x})
      BY <2>1, SumWithout
    <3>2. SumOf(h, T \ {x}) = SumOf(h, R)
      BY <1>2, Zenon
    <3> QED
      BY <3>1, <3>2, <1>3, <2>1
  <2>2. CASE x \notin T
    <3>1. R = T
      BY <1>2, <2>2
    <3> QED
      BY <3>1, <1>3, <2>2
  <2> QED
    BY <2>1, <2>2
<1> QED
  BY <1>3, <1>4, <1>5

\* A sum of naturals is a natural, and no term is more than the sum.
LEMMA SumNat ==
  ASSUME NEW S, IsFiniteSet(S), NEW f, \A x \in S : f[x] \in Nat
  PROVE  SumOf(f, S) \in Nat /\ \A x \in S : f[x] <= SumOf(f, S)
<1> DEFINE G == {s \in SUBSET S : SumOf(f, s) \in Nat}
<1>0. \A s \in SUBSET S : IsFiniteSet(s)
  BY FS_Subset
<1>1. ASSUME NEW s \in SUBSET S, \A U \in SUBSET s : U # s => U \in G
      PROVE  s \in G
  <2>1. CASE s = {}
    BY <2>1, SumNone
  <2>2. CASE s # {}
    <3>1. PICK x \in s : TRUE
      BY <2>2
    <3>2. SumOf(f, s) = f[x] + SumOf(f, s \ {x})
      BY <1>0, SumWithout
    <3>3. s \ {x} \in SUBSET s /\ s \ {x} # s
      OBVIOUS
    <3>4. SumOf(f, s \ {x}) \in Nat
      BY <1>1, <3>3
    <3> QED
      BY <3>2, <3>4
  <2> QED
    BY <2>1, <2>2
<1>2. SUBSET S \subseteq G
  <2> HIDE DEF G
  <2> QED
    BY <1>1, SubsetInduct
<1>3. ASSUME NEW x \in S
      PROVE  f[x] <= SumOf(f, S)
  <2>1. SumOf(f, S) = f[x] + SumOf(f, S \ {x})
    BY SumWithout
  <2>2. SumOf(f, S \ {x}) \in Nat
    BY <1>2
  <2> QED
    BY <2>1, <2>2
<1> QED
  BY <1>2, <1>3

\* The sum of zeros and ones counts the ones.
LEMMA SumOnes ==
  ASSUME NEW S, IsFiniteSet(S), NEW f, \A x \in S : f[x] \in {0, 1}
  PROVE  SumOf(f, S) = Cardinality({x \in S : f[x] = 1})
<1> DEFINE Ones(T) == {x \in T : f[x] = 1}
           G == {T \in SUBSET S : SumOf(f, T) = Cardinality(Ones(T))}
<1>1. ASSUME NEW T \in SUBSET S, \A U \in SUBSET T : U # T => U \in G
      PROVE  T \in G
  <2>1. CASE T = {}
    <3>1. SumOf(f, T) = 0
      BY <2>1, SumNone
    <3>2. Ones(T) = {}
      BY <2>1
    <3> QED
      BY <3>1, <3>2, FS_EmptySet
  <2>2. CASE T # {}
    <3>1. PICK x \in T : TRUE
      BY <2>2
    <3> DEFINE U == T \ {x}
    <3>2. U \in SUBSET T /\ U # T
      BY <3>1
    <3>3. SumOf(f, U) = Cardinality(Ones(U))
      BY <1>1, <3>2
    <3>4. IsFiniteSet(T) /\ IsFiniteSet(Ones(U)) /\ Cardinality(Ones(U)) \in Nat
      <4>1. Ones(U) \in SUBSET S /\ T \in SUBSET S
        OBVIOUS
      <4> HIDE DEF Ones, U
      <4>2. IsFiniteSet(T) /\ IsFiniteSet(Ones(U))
        BY <4>1, FS_Subset
      <4> QED
        BY <4>2, FS_CardinalityType
    <3>5. SumOf(f, T) = f[x] + SumOf(f, U)
      <4>1. \A y \in T : f[y] \in Int
        OBVIOUS
      <4> QED
        BY <3>1, <3>4, <4>1, SumWithout
    <3>6. CASE f[x] = 1
      <4>1. Ones(T) = Ones(U) \cup {x} /\ x \notin Ones(U)
        BY <3>1, <3>6
      <4> HIDE DEF Ones, U
      <4>2. Cardinality(Ones(T)) = Cardinality(Ones(U)) + 1
        BY <3>4, <4>1, FS_AddElement
      <4> QED
        BY <3>3, <3>4, <3>5, <3>6, <4>2
    <3>7. CASE f[x] = 0
      <4>1. Ones(T) = Ones(U)
        BY <3>1, <3>7
      <4> HIDE DEF Ones, U
      <4> QED
        BY <3>3, <3>4, <3>5, <3>7, <4>1
    <3> QED
      BY <3>1, <3>6, <3>7
  <2> QED
    BY <2>1, <2>2
<1> HIDE DEF G
<1>2. SUBSET S \subseteq G
  BY <1>1, SubsetInduct
<1>3. S \in G
  BY <1>2
<1> QED
  BY <1>3 DEF G

\* The sum over two disjoint sets is the sum of their sums.
LEMMA SumUnion ==
  ASSUME NEW A, IsFiniteSet(A), NEW B, IsFiniteSet(B), A \cap B = {},
         NEW f, \A x \in A \cup B : f[x] \in Int
  PROVE  SumOf(f, A \cup B) = SumOf(f, A) + SumOf(f, B)
<1> DEFINE G == {s \in SUBSET B : SumOf(f, A \cup s) = SumOf(f, A) + SumOf(f, s)}
<1>0. SumOf(f, A) \in Int
  BY SumType
<1>1. ASSUME NEW s \in SUBSET B, \A U \in SUBSET s : U # s => U \in G
      PROVE  s \in G
  <2>0. IsFiniteSet(s) /\ IsFiniteSet(A \cup s)
    BY FS_Subset, FS_Union
  <2>1. CASE s = {}
    <3>1. A \cup s = A
      BY <2>1
    <3> QED
      BY <3>1, <2>1, <1>0, SumNone
  <2>2. CASE s # {}
    <3>1. PICK x \in s : TRUE
      BY <2>2
    <3> DEFINE t == s \ {x}
               V == A \cup s
    <3>2. t \in SUBSET s /\ t # s /\ IsFiniteSet(t) /\ x \in V /\ V \ {x} = A \cup t
      BY <3>1, <2>0, FS_Subset
    <3>3. t \in G
      BY <1>1, <3>2
    <3>4. \A y \in V : f[y] \in Int
      OBVIOUS
    <3> HIDE DEF V
    <3>5. SumOf(f, V) = f[x] + SumOf(f, V \ {x})
      BY <3>2, <3>4, <2>0, SumWithout DEF V
    <3>6. SumOf(f, V) = f[x] + SumOf(f, A \cup t)
      BY <3>2, <3>5
    <3>7. SumOf(f, s) = f[x] + SumOf(f, t)
      BY <2>0, SumWithout
    <3>8. SumOf(f, t) \in Int /\ f[x] \in Int
      BY <3>2, SumType
    <3> HIDE DEF t
    <3>9. SumOf(f, A \cup t) = SumOf(f, A) + SumOf(f, t)
      BY <3>3
    <3>10. SumOf(f, V) = SumOf(f, A) + SumOf(f, s)
      BY <3>6, <3>7, <3>8, <3>9, <1>0
    <3> QED
      BY <3>10 DEF V
  <2> QED
    BY <2>1, <2>2
<1>2. SUBSET B \subseteq G
  <2> HIDE DEF G
  <2> QED
    BY <1>1, SubsetInduct
<1> QED
  BY <1>2

\* What is zero adds nothing.
LEMMA SumZeros ==
  ASSUME NEW S, IsFiniteSet(S), NEW f, \A x \in S : f[x] = 0
  PROVE  SumOf(f, S) = 0
<1> DEFINE G == {s \in SUBSET S : SumOf(f, s) = 0}
<1>1. ASSUME NEW s \in SUBSET S, \A U \in SUBSET s : U # s => U \in G
      PROVE  s \in G
  <2>1. CASE s = {}
    BY <2>1, SumNone
  <2>2. CASE s # {}
    <3>1. PICK x \in s : TRUE
      BY <2>2
    <3>2. IsFiniteSet(s) /\ s \ {x} \in SUBSET s /\ s \ {x} # s /\ \A y \in s : f[y] \in Int
      BY FS_Subset
    <3>3. SumOf(f, s) = f[x] + SumOf(f, s \ {x})
      BY <3>1, <3>2, SumWithout
    <3> QED
      BY <1>1, <3>2, <3>3
  <2> QED
    BY <2>1, <2>2
<1>2. SUBSET S \subseteq G
  <2> HIDE DEF G
  <2> QED
    BY <1>1, SubsetInduct
<1> QED
  BY <1>2

\* What the members of P name of S are disjoint parts, and f is zero outside them:
\* the sum of f is the sum over P of what f adds up to on each part.
LEMMA SumFamily ==
  ASSUME NEW S, IsFiniteSet(S), NEW f, \A x \in S : f[x] \in Int,
         NEW P, IsFiniteSet(P), NEW part, \A p \in P : part[p] \subseteq S,
         \A p, q \in P : p # q => part[p] \cap part[q] = {},
         \A x \in S : (\A p \in P : x \notin part[p]) => f[x] = 0,
         NEW g, \A p \in P : g[p] = SumOf(f, part[p])
  PROVE  SumOf(f, S) = SumOf(g, P)
<1> DEFINE Whole(Q) == UNION {part[p] : p \in Q}
           G == {Q \in SUBSET P : SumOf(f, Whole(Q)) = SumOf(g, Q)}
<1>0. \A Q \in SUBSET P : IsFiniteSet(Q) /\ IsFiniteSet(Whole(Q)) /\ Whole(Q) \subseteq S
  BY FS_Subset
<1>1. ASSUME NEW Q \in SUBSET P, \A U \in SUBSET Q : U # Q => U \in G
      PROVE  Q \in G
  <2>1. CASE Q = {}
    <3>1. Whole(Q) = {}
      BY <2>1
    <3> QED
      BY <3>1, <2>1, SumNone
  <2>2. CASE Q # {}
    <3>1. PICK p \in Q : TRUE
      BY <2>2
    <3> DEFINE R == Q \ {p}
    <3>2. R \in SUBSET Q /\ R # Q /\ R \in SUBSET P
      BY <3>1
    <3>3. SumOf(f, Whole(R)) = SumOf(g, R)
      BY <1>1, <3>2
    <3>4. Whole(Q) = Whole(R) \cup part[p] /\ Whole(R) \cap part[p] = {}
      BY <3>1
    <3>5. IsFiniteSet(part[p]) /\ part[p] \subseteq S
      BY FS_Subset
    <3> DEFINE A == Whole(R)
               B == part[p]
    <3>6. IsFiniteSet(A) /\ IsFiniteSet(B) /\ A \cap B = {} /\ \A x \in A \cup B : f[x] \in Int
      BY <1>0, <3>2, <3>4, <3>5
    <3> HIDE DEF A, B
    <3>7. SumOf(f, A \cup B) = SumOf(f, A) + SumOf(f, B)
      BY <3>6, SumUnion
    <3>8. SumOf(f, A) \in Int /\ SumOf(f, B) \in Int
      BY <3>6, SumType
    <3>9. \A q \in Q : g[q] \in Int
      <4>1. SUFFICES ASSUME NEW q \in Q PROVE SumOf(f, part[q]) \in Int
        OBVIOUS
      <4>2. IsFiniteSet(part[q]) /\ \A x \in part[q] : f[x] \in Int
        BY FS_Subset
      <4> DEFINE C == part[q]
      <4> HIDE DEF C
      <4>3. SumOf(f, C) \in Int
        BY <4>2, SumType DEF C
      <4> QED
        BY <4>3 DEF C
    <3>10. SumOf(g, Q) = g[p] + SumOf(g, R)
      BY <3>1, <3>9, <1>0, SumWithout
    <3>11. g[p] = SumOf(f, B)
      BY <3>1 DEF B
    <3>12. SumOf(f, A \cup B) = SumOf(g, Q)
      BY <3>3, <3>7, <3>8, <3>10, <3>11 DEF A
    <3> QED
      BY <3>12, <3>4 DEF A, B
  <2> QED
    BY <2>1, <2>2
<1>2. SUBSET P \subseteq G
  <2> HIDE DEF G
  <2> QED
    BY <1>1, SubsetInduct
<1>3. SumOf(f, Whole(P)) = SumOf(g, P)
  BY <1>2
<1> DEFINE W == Whole(P)
           Z == S \ W
<1>4. IsFiniteSet(W) /\ IsFiniteSet(Z) /\ W \cap Z = {} /\ W \cup Z = S /\ \A x \in Z : f[x] = 0
  BY <1>0, FS_Subset
<1> HIDE DEF W, Z
<1>5. SumOf(f, W \cup Z) = SumOf(f, W) + SumOf(f, Z)
  BY <1>4, SumUnion
<1>6. SumOf(f, Z) = 0 /\ SumOf(f, W) \in Int
  BY <1>4, SumZeros, SumType
<1>7. SumOf(f, W \cup Z) = SumOf(f, W)
  BY <1>5, <1>6
<1>8. SumOf(f, S) = SumOf(f, W)
  BY <1>4, <1>7
<1> QED
  BY <1>3, <1>8 DEF W
================================================================================
