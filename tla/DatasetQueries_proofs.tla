------------------------ MODULE DatasetQueries_proofs -------------------------
(***************************************************************************)
(* What the change ledgers, the exposures and the reconciliation promise   *)
(* of any tables, and what holdings answers beside an export.  The ledgers *)
(* and totals do not depend on the steps of the readers and writers: those *)
(* facts are about the operators, for every set of rows, and the theorems  *)
(* ask them of the tables of a reachable state.                            *)
(***************************************************************************)
EXTENDS DatasetQueries, FiniteSetTheorems, WellFoundedInduction, TLAPS

-----------------------------------------------------------------------------
(***************************************************************************)
(* Sums over finite sets                                                   *)
(***************************************************************************)
\* Induction over the naturals, for a set of them.
LEMMA NatSetInduction ==
    ASSUME NEW T, 0 \in T, \A n \in Nat : n \in T => n + 1 \in T
    PROVE  Nat \subseteq T
  <1> SUFFICES ASSUME NEW k \in Nat \ T  PROVE  FALSE
    OBVIOUS
  <1>1. IsWellFoundedOn(OpToRel(<, Nat), Nat)
    BY NatLessThanWellFounded
  <1>2. PICK n \in Nat \ T : \A m \in Nat \ T : ~ (<<m, n>> \in OpToRel(<, Nat))
    BY <1>1, WFMin
  <1>3. n \in Nat /\ n \notin T /\ n # 0
    BY <1>2
  <1>4. n - 1 \in Nat /\ n - 1 < n /\ (n - 1) + 1 = n
    BY <1>3
  <1>5. n - 1 \in T
    <2>1. <<n - 1, n>> \in OpToRel(<, Nat)
      BY <1>3, <1>4 DEF OpToRel
    <2> QED  BY <1>2, <1>4, <2>1
  <1> QED  BY <1>3, <1>4, <1>5

\* The element a sum over s takes first, and the function of the subsets of S that
\* sums w over each of them.
Chosen(s) == CHOOSE x \in s : TRUE

IsIter(w, S, g) ==
    g = [s \in SUBSET S |-> IF s = {} THEN 0 ELSE w[Chosen(s)] + g[s \ {Chosen(s)}]]

\* A sum is the last value of that function.
LEMMA SumIs ==
    ASSUME NEW w, NEW S
    PROVE  SumFunctionOnSet(w, S) = (CHOOSE g : IsIter(w, S, g))[S]
  BY DEF SumFunctionOnSet, FoldFunctionOnSet, MapThenFoldSet, IsIter, Chosen

LEMMA ChosenIn == ASSUME NEW s, s # {} PROVE Chosen(s) \in s
  BY DEF Chosen

\* A set without one of its elements
LEMMA OneLess ==
    ASSUME NEW s, IsFiniteSet(s), NEW x \in s
    PROVE  /\ IsFiniteSet(s \ {x}) /\ Cardinality(s) \in Nat /\ Cardinality(s \ {x}) \in Nat 
          /\ Cardinality(s) = Cardinality(s \ {x}) + 1
  <1>1. IsFiniteSet(s \ {x}) /\ Cardinality(s \ {x}) = Cardinality(s) - 1
    BY FS_RemoveElement
  <1>2. Cardinality(s) \in Nat /\ Cardinality(s \ {x}) \in Nat
    BY <1>1, FS_CardinalityType
  <1> QED  BY <1>1, <1>2

\* Two of them agree wherever both are defined, and on a finite set there is one.
LEMMA IterUnique ==
    ASSUME NEW w, NEW S, NEW R, NEW g, NEW h, IsFiniteSet(S), IsIter(w, S, g), IsIter(w, R, h)
    PROVE  \A s \in SUBSET S : s \in SUBSET R => g[s] = h[s]
  <1> DEFINE T == {n \in Nat : \A s \in SUBSET S : s \in SUBSET R /\ Cardinality(s) = n => g[s] = h[s]}
  <1>1. \A s \in SUBSET S : IsFiniteSet(s) /\ Cardinality(s) \in Nat
    BY FS_Subset, FS_CardinalityType
  <1>2. 0 \in T
    <2> SUFFICES ASSUME NEW s \in SUBSET S, s \in SUBSET R, Cardinality(s) = 0  PROVE  g[s] = h[s]
      OBVIOUS
    <2>1. s = {}
      BY <1>1, FS_EmptySet
    <2> QED  BY <2>1 DEF IsIter
  <1>3. ASSUME NEW n \in Nat, n \in T  PROVE  n + 1 \in T
    <2> SUFFICES ASSUME NEW s \in SUBSET S, s \in SUBSET R, Cardinality(s) = n + 1  PROVE  g[s] = h[s]
      OBVIOUS
    <2>1. s # {}
      BY FS_EmptySet
    <2> DEFINE x == Chosen(s)
    <2>2. x \in s
      BY <2>1, ChosenIn
    <2>3. Cardinality(s \ {x}) = n
      BY <1>1, <2>2, OneLess
    <2>4. g[s \ {x}] = h[s \ {x}]
      BY <1>3, <2>3
    <2> QED  BY <2>1, <2>4 DEF IsIter
  <1> HIDE DEF T
  <1>4. Nat \subseteq T
    BY <1>2, <1>3, NatSetInduction
  <1> QED  BY <1>1, <1>4 DEF T

LEMMA IterRestricts ==
    ASSUME NEW w, NEW S, NEW g, IsIter(w, S, g), NEW R \in SUBSET S
    PROVE  IsIter(w, R, [s \in SUBSET R |-> g[s]])
  <1> DEFINE h == [s \in SUBSET R |-> g[s]]
  <1>1. \A s \in SUBSET R : s # {} => s \ {Chosen(s)} \in SUBSET R
    OBVIOUS
  <1>2. \A s \in SUBSET R : h[s] = IF s = {} THEN 0 ELSE w[Chosen(s)] + h[s \ {Chosen(s)}]
    BY <1>1 DEF IsIter
  <1> QED  BY <1>2 DEF IsIter

IterOf(w, S) == CHOOSE g : IsIter(w, S, g)

LEMMA IterExists ==
    ASSUME NEW w, NEW S, IsFiniteSet(S)
    PROVE  IsIter(w, S, IterOf(w, S))
  <1> DEFINE Small(n) == \A s \in SUBSET S : Cardinality(s) <= n => IsIter(w, s, IterOf(w, s))
             T == {n \in Nat : Small(n)}
  <1>1. \A s \in SUBSET S : IsFiniteSet(s) /\ Cardinality(s) \in Nat
    BY FS_Subset, FS_CardinalityType
  <1>2. ASSUME NEW s \in SUBSET S, \A t \in SUBSET s : t # s => IsIter(w, t, IterOf(w, t))
         PROVE  IsIter(w, s, IterOf(w, s))
    <2> DEFINE v == [t \in (SUBSET s) \ {s} |-> IterOf(w, t)[t]]
               x == Chosen(s)
               top == IF s = {} THEN 0 ELSE w[x] + v[s \ {x}]
               g == [t \in SUBSET s |-> IF t = s THEN top ELSE v[t]]
    <2>1. ASSUME NEW t \in SUBSET s, t # s
           PROVE  v[t] = IF t = {} THEN 0 ELSE w[Chosen(t)] + v[t \ {Chosen(t)}]
      <3>1. IsIter(w, t, IterOf(w, t))
        BY <1>2, <2>1
      <3>2. CASE t = {}
        BY <2>1, <3>1, <3>2 DEF IsIter
      <3>3. CASE t # {}
        <4> DEFINE r == t \ {Chosen(t)}
        <4>1. Chosen(t) \in t
          BY <3>3, ChosenIn
        <4>2. r \in SUBSET t /\ r \in SUBSET s /\ r # s
          BY <4>1
        <4>3. IsIter(w, r, IterOf(w, r))
          BY <1>2, <4>2
        <4>4. IterOf(w, t)[r] = IterOf(w, r)[r]
          <5>1. IsFiniteSet(t)
            BY <1>1
          <5> HIDE DEF r
          <5> QED  BY <3>1, <4>2, <4>3, <5>1, IterUnique
        <4>5. IterOf(w, t)[t] = w[Chosen(t)] + IterOf(w, t)[r]
          <5> DEFINE h == IterOf(w, t)
          <5>1. IsIter(w, t, h)
            BY <3>1
          <5>2. h[t] = w[Chosen(t)] + h[t \ {Chosen(t)}]
            <6> HIDE DEF h
            <6> QED  BY <3>3, <5>1 DEF IsIter
          <5> QED  BY <5>2
        <4> QED  BY <2>1, <3>3, <4>2, <4>4, <4>5
      <3> QED  BY <3>2, <3>3
    <2>2. s # {} => s \ {x} \in SUBSET s /\ s \ {x} # s
      BY ChosenIn
    <2>3. ASSUME NEW t \in SUBSET s 
           PROVE  g[t] = IF t = {} THEN 0 ELSE w[Chosen(t)] + g[t \ {Chosen(t)}]
      <3>1. CASE t = s
        <4>1. g[t] = top
          BY <3>1
        <4>2. s # {} => g[s \ {x}] = v[s \ {x}]
          BY <2>2
        <4> QED  BY <3>1, <4>1, <4>2
      <3>2. CASE t # s
        <4>1. t # {} => t \ {Chosen(t)} \in SUBSET s /\ t \ {Chosen(t)} # s
          BY <3>2, ChosenIn
        <4>2. g[t] = v[t] /\ (t # {} => g[t \ {Chosen(t)}] = v[t \ {Chosen(t)}])
          BY <3>2, <4>1
        <4> HIDE DEF g, v
        <4> QED  BY <2>1, <3>2, <4>2
      <3> QED  BY <3>1, <3>2
    <2>4. IsIter(w, s, g)
      <3>1. g = [t \in SUBSET s |-> g[t]]
        OBVIOUS
      <3> HIDE DEF g
      <3> QED  BY <2>3, <3>1 DEF IsIter
    <2> HIDE DEF g
    <2> QED  BY <2>4 DEF IterOf
  <1>3. 0 \in T
    <2> SUFFICES ASSUME NEW s \in SUBSET S, Cardinality(s) <= 0  PROVE  IsIter(w, s, IterOf(w, s))
      OBVIOUS
    <2>1. Cardinality(s) = 0
      BY <1>1
    <2>2. s = {}
      BY <1>1, <2>1, FS_EmptySet
    <2> QED  BY <1>2, <2>2
  <1>4. ASSUME NEW n \in Nat, n \in T  PROVE  n + 1 \in T
    <2> SUFFICES ASSUME NEW s \in SUBSET S, Cardinality(s) <= n + 1  PROVE  IsIter(w, s, IterOf(w, s))
      OBVIOUS
    <2>1. ASSUME NEW t \in SUBSET s, t # s  PROVE  IsIter(w, t, IterOf(w, t))
      <3>1. Cardinality(t) < Cardinality(s)
        BY <1>1, <2>1, FS_Subset
      <3>2. Cardinality(t) <= n
        BY <1>1, <3>1
      <3> QED  BY <1>4, <3>2
    <2> QED  BY <1>2, <2>1
  <1>5. Nat \subseteq T
    <2> HIDE DEF T
    <2> QED  BY <1>3, <1>4, NatSetInduction
  <1> QED  BY <1>1, <1>5
\* The facts that are used of a sum: they do not mention how it is computed.
Sum(w, S) == SumFunctionOnSet(w, S)

LEMMA SumEmpty == ASSUME NEW w  PROVE  Sum(w, {}) = 0
  <1> DEFINE g == IterOf(w, {})
  <1>1. IsIter(w, {}, g)
    BY FS_EmptySet, IterExists
  <1> QED  BY <1>1, SumIs DEF IsIter, IterOf, Sum

LEMMA SumFirst ==
    ASSUME NEW w, NEW S, IsFiniteSet(S), S # {}
    PROVE  Sum(w, S) = w[Chosen(S)] + Sum(w, S \ {Chosen(S)})
  <1> DEFINE g == IterOf(w, S)
             R == S \ {Chosen(S)}
             h == IterOf(w, R)
  <1>1. IsIter(w, S, g)
    BY IterExists
  <1>2. IsFiniteSet(R) /\ R \in SUBSET S
    BY FS_Subset
  <1>3. IsIter(w, R, h)
    BY <1>2, IterExists
  <1>4. g[R] = h[R]
    <2> HIDE DEF g, h, R
    <2> QED  BY <1>1, <1>2, <1>3, IterUnique
  <1>5. g[S] = w[Chosen(S)] + g[R]
    <2> HIDE DEF g
    <2> QED  BY <1>1 DEF IsIter
  <1>6. Sum(w, S) = g[S] /\ Sum(w, R) = h[R]
    BY SumIs DEF IterOf, Sum
  <1> QED  BY <1>4, <1>5, <1>6

\* Induction over a finite set, one element at a time
LEMMA FiniteSetInduction ==
    ASSUME NEW S, IsFiniteSet(S), NEW U, {} \in U,
           \A s \in SUBSET S : s # {} /\ s \ {Chosen(s)} \in U => s \in U
    PROVE  S \in U
  <1> DEFINE T == {n \in Nat : \A s \in SUBSET S : Cardinality(s) = n => s \in U}
  <1>1. \A s \in SUBSET S : IsFiniteSet(s) /\ Cardinality(s) \in Nat
    BY FS_Subset, FS_CardinalityType
  <1>2. 0 \in T
    BY <1>1, FS_EmptySet
  <1>3. ASSUME NEW n \in Nat, n \in T  PROVE  n + 1 \in T
    <2> SUFFICES ASSUME NEW s \in SUBSET S, Cardinality(s) = n + 1  PROVE  s \in U
      OBVIOUS
    <2>1. s # {}
      BY FS_EmptySet
    <2>2. Cardinality(s \ {Chosen(s)}) = n
      BY <1>1, <2>1, ChosenIn, OneLess
    <2> QED  BY <1>3, <2>1, <2>2
  <1>4. Nat \subseteq T
    <2> HIDE DEF T
    <2> QED  BY <1>2, <1>3, NatSetInduction
  <1> QED  BY <1>1, <1>4

LEMMA SumType ==
    ASSUME NEW w, NEW S, IsFiniteSet(S), \A x \in S : w[x] \in Int
    PROVE  Sum(w, S) \in Int
  <1> DEFINE U == {s \in SUBSET S : Sum(w, s) \in Int}
  <1>1. {} \in U
    BY SumEmpty
  <1>2. \A s \in SUBSET S : s # {} /\ s \ {Chosen(s)} \in U => s \in U
    BY ChosenIn, SumFirst, FS_Subset
  <1> HIDE DEF U
  <1>3. S \in U
    BY <1>1, <1>2, FiniteSetInduction
  <1> QED  BY <1>3 DEF U

LEMMA SumAgrees ==
    ASSUME NEW w, NEW v, NEW S, IsFiniteSet(S), \A x \in S : w[x] = v[x]
    PROVE  Sum(w, S) = Sum(v, S)
  <1> DEFINE U == {s \in SUBSET S : Sum(w, s) = Sum(v, s)}
  <1>1. {} \in U
    BY SumEmpty
  <1>2. \A s \in SUBSET S : s # {} /\ s \ {Chosen(s)} \in U => s \in U
    BY ChosenIn, SumFirst, FS_Subset
  <1> HIDE DEF U
  <1>3. S \in U
    BY <1>1, <1>2, FiniteSetInduction
  <1> QED  BY <1>3 DEF U

\* Whichever element is taken out
LEMMA SumStep ==
    ASSUME NEW w, NEW S, IsFiniteSet(S), \A x \in S : w[x] \in Int, NEW x \in S
    PROVE  Sum(w, S) = w[x] + Sum(w, S \ {x})
  <1> DEFINE T == {n \in Nat : \A s \in SUBSET S : Cardinality(s) = n =>
                        \A y \in s : Sum(w, s) = w[y] + Sum(w, s \ {y})}
  <1>1. \A s \in SUBSET S : IsFiniteSet(s) /\ Cardinality(s) \in Nat /\ Sum(w, s) \in Int
    BY FS_Subset, FS_CardinalityType, SumType
  <1>2. 0 \in T
    BY <1>1, FS_EmptySet
  <1>3. ASSUME NEW n \in Nat, n \in T  PROVE  n + 1 \in T
    <2> SUFFICES ASSUME NEW s \in SUBSET S, Cardinality(s) = n + 1, NEW y \in s
                  PROVE  Sum(w, s) = w[y] + Sum(w, s \ {y})
      OBVIOUS
    <2> DEFINE z == Chosen(s)
               r == s \ {y, z}
    <2>1. z \in s /\ Sum(w, s) = w[z] + Sum(w, s \ {z})
      BY <1>1, ChosenIn, SumFirst
    <2>2. CASE y = z
      BY <2>1, <2>2
    <2>3. CASE y # z
      <3>1. Cardinality(s \ {z}) = n /\ Cardinality(s \ {y}) = n
        BY <1>1, <2>1, OneLess
      <3>2. (s \ {z}) \ {y} = r /\ (s \ {y}) \ {z} = r
        OBVIOUS
      <3>3. Sum(w, s \ {z}) = w[y] + Sum(w, r)
        BY <1>3, <2>3, <3>1, <3>2
      <3>4. Sum(w, s \ {y}) = w[z] + Sum(w, r)
        BY <1>3, <2>1, <2>3, <3>1, <3>2
      <3>5. w[y] \in Int /\ w[z] \in Int /\ Sum(w, r) \in Int
        BY <1>1, <2>1
      <3> QED  BY <2>1, <3>3, <3>4, <3>5
    <2> QED  BY <2>2, <2>3
  <1>4. Nat \subseteq T
    <2> HIDE DEF T
    <2> QED  BY <1>2, <1>3, NatSetInduction
  <1> QED  BY <1>1, <1>4

LEMMA SumAdds ==
    ASSUME NEW w, NEW A, NEW B, IsFiniteSet(A), IsFiniteSet(B), A \cap B = {},
           \A x \in A \cup B : w[x] \in Int
    PROVE  Sum(w, A \cup B) = Sum(w, A) + Sum(w, B)
  <1> DEFINE U == {s \in SUBSET B : Sum(w, A \cup s) = Sum(w, A) + Sum(w, s)}
  <1>1. \A s \in SUBSET B : /\ IsFiniteSet(s) /\ Sum(w, s) \in Int
                            /\ IsFiniteSet(A \cup s) /\ Sum(w, A \cup s) \in Int
    BY FS_Subset, FS_Union, SumType
  <1>2. Sum(w, A) \in Int
    BY SumType
  <1>3. {} \in U
    BY <1>2, SumEmpty
  <1>4. ASSUME NEW s \in SUBSET B, s # {}, s \ {Chosen(s)} \in U  PROVE  s \in U
    <2> DEFINE x == Chosen(s)
               r == s \ {x}
    <2>1. x \in s /\ x \in B /\ w[x] \in Int
      BY <1>4, ChosenIn
    <2>2. Sum(w, s) = w[x] + Sum(w, r)
      BY <1>1, <1>4, SumFirst
    <2>3. (A \cup s) \ {x} = A \cup r
      BY <2>1
    <2>4. Sum(w, A \cup s) = w[x] + Sum(w, A \cup r)
      <3>1. x \in A \cup s /\ IsFiniteSet(A \cup s) /\ \A y \in A \cup s : w[y] \in Int
        BY <1>1, <2>1
      <3>2. Sum(w, A \cup s) = w[x] + Sum(w, (A \cup s) \ {x})
        <4> HIDE DEF x
        <4> QED  BY <3>1, SumStep
      <3> QED  BY <2>3, <3>2
    <2>5. Sum(w, A \cup r) = Sum(w, A) + Sum(w, r) /\ Sum(w, r) \in Int
      BY <1>1, <1>4
    <2> QED  BY <1>2, <2>1, <2>2, <2>4, <2>5
  <1> HIDE DEF U
  <1>5. B \in U
    BY <1>3, <1>4, FiniteSetInduction
  <1> QED  BY <1>5 DEF U
LEMMA SumOfOne == ASSUME NEW w, NEW x, w[x] \in Int  PROVE  Sum(w, {x}) = w[x]
  <1>1. IsFiniteSet({x})
    BY FS_Singleton
  <1>2. {x} \ {x} = {}
    OBVIOUS
  <1>3. Sum(w, {x}) = w[x] + Sum(w, {x} \ {x})
    BY <1>1, SumStep
  <1> QED  BY <1>2, <1>3, SumEmpty

\* The elements that a function puts in one class.
ClassOf(S, f, i) == {x \in S : f[x] = i}

\* Summing part by part.
LEMMA SumByParts ==
    ASSUME NEW w, NEW S, IsFiniteSet(S), \A x \in S : w[x] \in Int,
           NEW I, IsFiniteSet(I), NEW f, \A x \in S : f[x] \in I,
           NEW g, \A i \in I : g[i] = Sum(w, ClassOf(S, f, i))
    PROVE  Sum(g, I) = Sum(w, S)
  <1> DEFINE Part(J) == {x \in S : f[x] \in J}
             U == {J \in SUBSET I : Sum(g, J) = Sum(w, Part(J))}
  <1>1. {} \in U
    <2>1. Part({}) = {}
      OBVIOUS
    <2> QED  BY <2>1, SumEmpty
  <1>2. ASSUME NEW J \in SUBSET I, J # {}, J \ {Chosen(J)} \in U  PROVE  J \in U
    <2> DEFINE i == Chosen(J)
               A == Part(J \ {i})
               B == {x \in S : f[x] = i}
    <2>1. i \in J /\ IsFiniteSet(J)
      BY <1>2, ChosenIn, FS_Subset
    <2>2. Part(J) = A \cup B /\ A \cap B = {}
      BY <2>1
    <2>3. IsFiniteSet(A) /\ IsFiniteSet(B) /\ \A x \in A \cup B : w[x] \in Int
      BY FS_Subset
    <2>4. Sum(w, A \cup B) = Sum(w, A) + Sum(w, B)
      <3> HIDE DEF A, B
      <3> QED  BY <2>2, <2>3, SumAdds
    <2>5. Sum(w, A) \in Int /\ Sum(w, B) \in Int
      <3> HIDE DEF A, B
      <3> QED  BY <2>3, SumType
    <2>6. Sum(g, J) = g[i] + Sum(g, J \ {i})
      BY <1>2, <2>1, SumFirst
    <2>7. g[i] = Sum(w, B)
      BY <2>1 DEF ClassOf
    <2>8. Sum(g, J \ {i}) = Sum(w, A)
      BY <1>2
    <2>9. Sum(g, J) = Sum(w, Part(J))
      <3> HIDE DEF A, B, Part
      <3> QED  BY <2>2, <2>4, <2>5, <2>6, <2>7, <2>8
    <2> QED  BY <2>9
  <1>3. I \in U
    <2> HIDE DEF U
    <2> QED  BY <1>1, <1>2, FiniteSetInduction
  <1>4. Part(I) = S
    OBVIOUS
  <1> QED  BY <1>3, <1>4

LEMMA SumOfOnes ==
    ASSUME NEW w, NEW S, IsFiniteSet(S), \A x \in S : w[x] = 1
    PROVE  Sum(w, S) = Cardinality(S)
  <1> DEFINE U == {s \in SUBSET S : Sum(w, s) = Cardinality(s)}
  <1>1. {} \in U
    BY SumEmpty, FS_EmptySet
  <1>2. ASSUME NEW s \in SUBSET S, s # {}, s \ {Chosen(s)} \in U  PROVE  s \in U
    <2>1. IsFiniteSet(s) /\ Chosen(s) \in s
      BY <1>2, ChosenIn, FS_Subset
    <2>2. Sum(w, s) = 1 + Sum(w, s \ {Chosen(s)})
      BY <1>2, <2>1, SumFirst
    <2>3. Cardinality(s) = Cardinality(s \ {Chosen(s)}) + 1 /\ Cardinality(s \ {Chosen(s)}) \in Nat
      BY <2>1, OneLess
    <2> QED  BY <1>2, <2>2, <2>3
  <1> HIDE DEF U
  <1>3. S \in U
    BY <1>1, <1>2, FiniteSetInduction
  <1> QED  BY <1>3 DEF U

\* Counting part by part
LEMMA CountByParts ==
    ASSUME NEW S, IsFiniteSet(S), NEW I, IsFiniteSet(I), NEW f, \A x \in S : f[x] \in I,
           NEW g, \A i \in I : g[i] = Cardinality(ClassOf(S, f, i))
    PROVE  Sum(g, I) = Cardinality(S)
  <1> DEFINE w == [x \in S |-> 1]
  <1>1. \A x \in S : w[x] = 1 /\ w[x] \in Int
    OBVIOUS
  <1> HIDE DEF w
  <1>2. ASSUME NEW i \in I  PROVE  g[i] = Sum(w, ClassOf(S, f, i))
    <2> DEFINE B == ClassOf(S, f, i)
    <2>1. IsFiniteSet(B) /\ \A x \in B : w[x] = 1
      BY <1>1, FS_Subset DEF ClassOf
    <2>2. Sum(w, B) = Cardinality(B)
      <3> HIDE DEF B
      <3> QED  BY <2>1, SumOfOnes
    <2> QED  BY <2>2
  <1>3. Sum(g, I) = Sum(w, S)
    BY <1>1, <1>2, SumByParts
  <1>4. Sum(w, S) = Cardinality(S)
    BY <1>1, SumOfOnes
  <1> QED  BY <1>3, <1>4

LEMMA SumIsNat ==
    ASSUME NEW w, NEW S, IsFiniteSet(S), \A x \in S : w[x] \in Nat
    PROVE  Sum(w, S) \in Nat
  <1> DEFINE U == {s \in SUBSET S : Sum(w, s) \in Nat}
  <1>1. {} \in U
    BY SumEmpty
  <1>2. \A s \in SUBSET S : s # {} /\ s \ {Chosen(s)} \in U => s \in U
    BY ChosenIn, SumFirst, FS_Subset
  <1> HIDE DEF U
  <1>3. S \in U
    BY <1>1, <1>2, FiniteSetInduction
  <1> QED  BY <1>3 DEF U

\* A part of amounts that are not negative
LEMMA SumOfPart ==
    ASSUME NEW w, NEW S, IsFiniteSet(S), \A x \in S : w[x] \in Nat, NEW R \in SUBSET S
    PROVE  Sum(w, R) <= Sum(w, S)
  <1> DEFINE Q == S \ R
  <1>1. IsFiniteSet(R) /\ IsFiniteSet(Q) /\ R \cap Q = {} /\ R \cup Q = S
    BY FS_Subset
  <1>2. Sum(w, R) \in Nat /\ Sum(w, Q) \in Nat
    <2> HIDE DEF Q
    <2> QED  BY <1>1, SumIsNat
  <1>3. \A x \in R \cup Q : w[x] \in Int
    BY <1>1
  <1>4. Sum(w, R \cup Q) = Sum(w, R) + Sum(w, Q)
    <2> HIDE DEF Q
    <2> QED  BY <1>1, <1>3, SumAdds
  <1>5. Sum(w, S) = Sum(w, R) + Sum(w, Q)
    BY <1>1, <1>4
  <1> QED  BY <1>2, <1>5

\* The same amounts under other names.
LEMMA SumRenamed ==
    ASSUME NEW w, NEW S, IsFiniteSet(S), \A x \in S : w[x] \in Int,
           NEW v, NEW T, IsFiniteSet(T), NEW f,
           \A x \in S : f[x] \in T /\ v[f[x]] = w[x],
           \A t \in T : \E x \in S : f[x] = t,
           \A x, y \in S : f[x] = f[y] => x = y
    PROVE  Sum(v, T) = Sum(w, S)
  <1>1. ASSUME NEW t \in T  PROVE  v[t] = Sum(w, ClassOf(S, f, t))
    <2>1. PICK x \in S : f[x] = t
      OBVIOUS
    <2>2. ClassOf(S, f, t) = {x}
      BY <2>1 DEF ClassOf
    <2> QED  BY <2>1, <2>2, SumOfOne
  <1> QED  BY <1>1, SumByParts

\* Amounts that are near one by one are near in sum.
LEMMA SumNear ==
    ASSUME NEW p, NEW a, NEW b, NEW S, IsFiniteSet(S),
           \A x \in S : /\ p[x] \in Int /\ a[x] \in Int /\ b[x] = Abs(a[x])
                        /\ Abs(p[x] - a[x]) * 100 <= b[x]
    PROVE  /\ Sum(p, S) \in Int /\ Sum(a, S) \in Int /\ Sum(b, S) \in Int
           /\ Abs(Sum(a, S)) <= Sum(b, S)
           /\ Abs(Sum(p, S) - Sum(a, S)) * 100 <= Sum(b, S)
  <1> DEFINE Near(s) == /\ Sum(p, s) \in Int /\ Sum(a, s) \in Int /\ Sum(b, s) \in Int
                        /\ Abs(Sum(a, s)) <= Sum(b, s)
                        /\ Abs(Sum(p, s) - Sum(a, s)) * 100 <= Sum(b, s)
             U == {s \in SUBSET S : Near(s)}
  <1>1. {} \in U
    BY SumEmpty DEF Abs
  <1>2. ASSUME NEW s \in SUBSET S, s # {}, s \ {Chosen(s)} \in U  PROVE  s \in U
    <2> DEFINE x == Chosen(s)
               r == s \ {x}
    <2>1. IsFiniteSet(s) /\ x \in S
      BY <1>2, ChosenIn, FS_Subset
    <2>2. /\ Sum(p, s) = p[x] + Sum(p, r) /\ Sum(a, s) = a[x] + Sum(a, r)
          /\ Sum(b, s) = b[x] + Sum(b, r)
      BY <1>2, <2>1, SumFirst
    <2>3. Near(r)
      BY <1>2
    <2>4. p[x] \in Int /\ a[x] \in Int /\ b[x] = Abs(a[x]) /\ Abs(p[x] - a[x]) * 100 <= b[x]
      BY <2>1
    <2>5. \A p1, a1, p2, a2, b2 \in Int :
            /\ Abs(p1 - a1) * 100 <= Abs(a1)
            /\ Abs(a2) <= b2 /\ Abs(p2 - a2) * 100 <= b2
            => /\ Abs(a1) \in Int
               /\ Abs(a1 + a2) <= Abs(a1) + b2
               /\ Abs((p1 + p2) - (a1 + a2)) * 100 <= Abs(a1) + b2
      BY DEF Abs
    <2>6. Near(s)
      <3> HIDE DEF x, r
      <3>1. /\ Abs(a[x]) \in Int
            /\ Abs(a[x] + Sum(a, r)) <= Abs(a[x]) + Sum(b, r)
            /\ Abs((p[x] + Sum(p, r)) - (a[x] + Sum(a, r))) * 100 <= Abs(a[x]) + Sum(b, r)
        <4> HIDE DEF U
        <4>1. /\ Sum(p, r) \in Int /\ Sum(a, r) \in Int /\ Sum(b, r) \in Int
              /\ Abs(Sum(a, r)) <= Sum(b, r)
              /\ Abs(Sum(p, r) - Sum(a, r)) * 100 <= Sum(b, r)
          BY <2>3
        <4>2. /\ p[x] \in Int /\ a[x] \in Int
              /\ Abs(p[x] - a[x]) * 100 <= Abs(a[x])
          BY <2>4
        <4> HIDE DEF Near
        <4> QED  BY <2>5, <4>1, <4>2
      <3>2. Sum(p, s) \in Int /\ Sum(a, s) \in Int /\ Sum(b, s) \in Int
        BY <2>2, <2>3, <2>4, <3>1
      <3> QED  BY <2>2, <2>4, <3>1, <3>2
    <2> QED  BY <2>6
  <1>3. S \in U
    <2> HIDE DEF U
    <2> QED  BY <1>1, <1>2, FiniteSetInduction
  <1> QED  BY <1>3

-----------------------------------------------------------------------------
(***************************************************************************)
(* Matching: a row of either side is in one pair at most                   *)
(***************************************************************************)
LEMMA OnePairEach ==
    ASSUME NEW old, NEW new, NEW p \in Pairs(old, new), NEW q \in Pairs(old, new)
    PROVE  /\ p = <<p[1], p[2]>> /\ p[1] \in old /\ p[2] \in new
           /\ p[1] = q[1] \/ p[2] = q[2] => p = q
  <1>1. CASE p \in IsinPairs(old, new)
    <2>1. p = <<p[1], p[2]>> /\ p[1] \in Valid(old) /\ p[2] \in Valid(new)
      BY <1>1 DEF IsinPairs
    <2>2. ASSUME p[1] = q[1] \/ p[2] = q[2]
          PROVE  p = q
      <3>1. q \in IsinPairs(old, new)
        BY <2>1, <2>2 DEF Pairs, SignaturePairs, Valid, Unvalidated
      <3>2. q = <<q[1], q[2]>> /\ q[1] \in Valid(old) /\ q[2] \in Valid(new)
        BY <3>1 DEF IsinPairs
      <3>3. q[1] \in Of(old, p[1].isin_raw) /\ q[2] \in Of(new, p[1].isin_raw)
        BY <1>1, <2>2, <3>1, <3>2 DEF IsinPairs, Of
      <3>4. p[1] \in Of(old, p[1].isin_raw) /\ p[2] \in Of(new, p[1].isin_raw)
        BY <1>1, <2>1 DEF IsinPairs, Of
      <3>5. p[1] = q[1] /\ p[2] = q[2]
        BY <1>1, <3>3, <3>4 DEF IsinPairs, Alone
      <3> QED  BY <2>1, <3>2, <3>5
    <2> QED  BY <2>1, <2>2 DEF Valid
  <1>2. CASE p \in SignaturePairs(old, new)
    <2>1. p = <<p[1], p[2]>> /\ p[1] \in Unvalidated(old) /\ p[2] \in Unvalidated(new)
      BY <1>2 DEF SignaturePairs
    <2>2. ASSUME p[1] = q[1] \/ p[2] = q[2]
          PROVE  p = q
      <3>1. q \in SignaturePairs(old, new)
        BY <2>1, <2>2 DEF Pairs, IsinPairs, Valid, Unvalidated
      <3>2. q = <<q[1], q[2]>> /\ q[1] \in Unvalidated(old) /\ q[2] \in Unvalidated(new)
        BY <3>1 DEF SignaturePairs
      <3>3. q[1] \in Signed(old, p[1].sig) /\ q[2] \in Signed(new, p[1].sig)
        BY <1>2, <2>2, <3>1, <3>2 DEF SignaturePairs, Signed
      <3>4. p[1] \in Signed(old, p[1].sig) /\ p[2] \in Signed(new, p[1].sig)
        BY <1>2, <2>1 DEF SignaturePairs, Signed
      <3>5. p[1] = q[1] /\ p[2] = q[2]
        BY <1>2, <3>3, <3>4 DEF SignaturePairs, Alone
      <3> QED  BY <2>1, <3>2, <3>5
    <2> QED  BY <2>1, <2>2 DEF Unvalidated
  <1> QED  BY <1>1, <1>2 DEF Pairs

\* A matching has as many pairs as rows of one side in them.
LEMMA CountBySide ==
    ASSUME NEW M, NEW S, NEW f, IsFiniteSet(S),
           \A p \in M : f[p] \in S,
           \A p, q \in M : f[p] = f[q] => p = q
    PROVE  Cardinality(M) = Cardinality({f[p] : p \in M})
  <1> DEFINE T == {f[p] : p \in M}
             g == [t \in T |-> CHOOSE p \in M : f[p] = t]
  <1>1. IsFiniteSet(T)
    BY FS_Subset
  <1>2. \A t \in T : g[t] \in M /\ f[g[t]] = t
    OBVIOUS
  <1>3. g \in Injection(T, M)
    <2>1. g \in [T -> M]
      BY <1>2
    <2>2. \A a, b \in T : g[a] = g[b] => a = b
      BY <1>2
    <2> QED  BY <2>1, <2>2 DEF Injection, IsInjective
  <1>4. \A p \in M : \E t \in T : g[t] = p
    <2> SUFFICES ASSUME NEW p \in M
                 PROVE  \E t \in T : g[t] = p
      OBVIOUS
    <2>1. f[p] \in T
      OBVIOUS
    <2>2. g[f[p]] \in M /\ f[g[f[p]]] = f[p]
      BY <1>2, <2>1
    <2>3. g[f[p]] = p
      <3> HIDE DEF g
      <3> QED  BY <2>2
    <2> QED  BY <2>1, <2>3
  <1>5. g \in Surjection(T, M)
    BY <1>3, <1>4 DEF Surjection, Injection
  <1>6. ExistsBijection(T, M)
    BY <1>3, <1>5 DEF ExistsBijection, Bijection
  <1> QED  BY <1>1, <1>6, FS_Bijection

\* The cardinalities of two disjoint finite sets add up.
LEMMA CountTwo ==
    ASSUME NEW A, NEW B, IsFiniteSet(A), IsFiniteSet(B), A \cap B = {}
    PROVE  /\ IsFiniteSet(A \cup B)
           /\ Cardinality(A \cup B) = Cardinality(A) + Cardinality(B)
  <1>1. Cardinality(A \cap B) = 0
    BY FS_EmptySet
  <1>2. Cardinality(A \cup B) = Cardinality(A) + Cardinality(B) - Cardinality(A \cap B)
    BY FS_Union
  <1>3. Cardinality(A) \in Nat /\ Cardinality(B) \in Nat
    BY FS_CardinalityType
  <1> QED  BY <1>1, <1>2, <1>3, FS_Union

\* Three disjoint parts add up.
LEMMA CountParts ==
    ASSUME NEW S, NEW A, NEW B, NEW C, IsFiniteSet(S), S = A \cup B \cup C,
           A \cap B = {}, A \cap C = {}, B \cap C = {}
    PROVE  Cardinality(A) + Cardinality(B) + Cardinality(C) = Cardinality(S)
  <1>1. IsFiniteSet(A) /\ IsFiniteSet(B) /\ IsFiniteSet(C)
    BY FS_Subset
  <1>2. IsFiniteSet(A \cup B) /\ Cardinality(A \cup B) = Cardinality(A) + Cardinality(B)
    BY <1>1, CountTwo
  <1>3. (A \cup B) \cap C = {}
    OBVIOUS
  <1>4. Cardinality((A \cup B) \cup C) = Cardinality(A \cup B) + Cardinality(C)
    BY <1>1, <1>2, <1>3, CountTwo
  <1> QED  BY <1>2, <1>4

-----------------------------------------------------------------------------
(***************************************************************************)
(* Conservation                                                            *)
(***************************************************************************)
\* Every earlier row is matched, removed or in an ambiguous group, and only one
\* of them.
LEMMA EarlierParts ==
    ASSUME NEW old, NEW new
    PROVE  LET S == {p[1] : p \in Pairs(old, new)}
               R == Removed(old, new)
               U == Unresolved(old, Ambiguous(old, new))
           IN  /\ old = S \cup R \cup U
               /\ S \cap R = {} /\ S \cap U = {} /\ R \cap U = {}
  <1> DEFINE S == {p[1] : p \in Pairs(old, new)}
             R == Removed(old, new)
             U == Unresolved(old, Ambiguous(old, new))
  <1>1. ASSUME NEW r \in S
        PROVE  r \in old /\ r \notin R /\ r \notin U
    <2>1. PICK p \in Pairs(old, new) : p[1] = r
      OBVIOUS
    <2>2. CASE p \in IsinPairs(old, new)
      <3>1. r \in Valid(old) /\ p[2] \in Valid(new) /\ r.isin_raw = p[2].isin_raw
        BY <2>1, <2>2 DEF IsinPairs
      <3>2. r.isin_raw \in Isins(new)
        BY <3>1 DEF Isins
      <3>3. r.isin_raw \notin Ambiguous(old, new)
        BY <2>1, <2>2 DEF IsinPairs, Ambiguous
      <3> QED  BY <3>1, <3>2, <3>3 DEF Removed, Unresolved, Valid, Unvalidated
    <2>3. CASE p \in SignaturePairs(old, new)
      <3>1. r \in Unvalidated(old)
        BY <2>1, <2>3 DEF SignaturePairs
      <3> QED  BY <2>1, <2>3, <3>1 DEF Removed, Unresolved, Valid, Unvalidated
    <2> QED  BY <2>2, <2>3 DEF Pairs
  <1>2. ASSUME NEW r \in old, r \notin S
        PROVE  r \in R \/ r \in U
    <2>1. CASE r \in Unvalidated(old)
      BY <1>2, <2>1 DEF Pairs, Removed
    <2>2. CASE r \in Valid(old) /\ r.isin_raw \notin Isins(new)
      BY <2>2 DEF Removed
    <2>3. CASE r \in Valid(old) /\ r.isin_raw \in Isins(new)
      <3>1. r.isin_raw \in Isins(old)
        BY <2>3 DEF Isins
      <3>2. PICK s \in Valid(new) : r.isin_raw = s.isin_raw
        BY <2>3 DEF Isins
      <3>3. <<r, s>> \notin IsinPairs(old, new)
        BY <1>2 DEF Pairs
      <3>4. <<r, s>> \in Valid(old) \X Valid(new)
        BY <2>3, <3>2
      <3>5. r.isin_raw \in Ambiguous(old, new)
        BY <2>3, <3>1, <3>2, <3>3, <3>4 DEF IsinPairs, Ambiguous
      <3> QED  BY <2>3, <3>5 DEF Unresolved
    <2> QED  BY <2>1, <2>2, <2>3 DEF Valid, Unvalidated
  <1>3. R \cap U = {}
    BY DEF Removed, Unresolved, Ambiguous, Valid, Unvalidated
  <1>4. R \subseteq old /\ U \subseteq old
    BY DEF Removed, Unresolved, Valid, Unvalidated
  <1> QED  BY <1>1, <1>2, <1>3, <1>4

\* The same of every later row.
LEMMA LaterParts ==
    ASSUME NEW old, NEW new
    PROVE  LET S == {p[2] : p \in Pairs(old, new)}
               R == Added(old, new)
               U == Unresolved(new, Ambiguous(old, new))
           IN  /\ new = S \cup R \cup U
               /\ S \cap R = {} /\ S \cap U = {} /\ R \cap U = {}
  <1> DEFINE S == {p[2] : p \in Pairs(old, new)}
             R == Added(old, new)
             U == Unresolved(new, Ambiguous(old, new))
  <1>1. ASSUME NEW r \in S
        PROVE  r \in new /\ r \notin R /\ r \notin U
    <2>1. PICK p \in Pairs(old, new) : p[2] = r
      OBVIOUS
    <2>2. CASE p \in IsinPairs(old, new)
      <3>1. r \in Valid(new) /\ p[1] \in Valid(old) /\ r.isin_raw = p[1].isin_raw
        BY <2>1, <2>2 DEF IsinPairs
      <3>2. r.isin_raw \in Isins(old)
        BY <3>1 DEF Isins
      <3>3. r.isin_raw \notin Ambiguous(old, new)
        BY <2>1, <2>2 DEF IsinPairs, Ambiguous
      <3> QED  BY <3>1, <3>2, <3>3 DEF Added, Unresolved, Valid, Unvalidated
    <2>3. CASE p \in SignaturePairs(old, new)
      <3>1. r \in Unvalidated(new)
        BY <2>1, <2>3 DEF SignaturePairs
      <3> QED  BY <2>1, <2>3, <3>1 DEF Added, Unresolved, Valid, Unvalidated
    <2> QED  BY <2>2, <2>3 DEF Pairs
  <1>2. ASSUME NEW r \in new, r \notin S
        PROVE  r \in R \/ r \in U
    <2>1. CASE r \in Unvalidated(new)
      BY <1>2, <2>1 DEF Pairs, Added
    <2>2. CASE r \in Valid(new) /\ r.isin_raw \notin Isins(old)
      BY <2>2 DEF Added
    <2>3. CASE r \in Valid(new) /\ r.isin_raw \in Isins(old)
      <3>1. r.isin_raw \in Isins(new)
        BY <2>3 DEF Isins
      <3>2. PICK s \in Valid(old) : r.isin_raw = s.isin_raw
        BY <2>3 DEF Isins
      <3>3. <<s, r>> \notin IsinPairs(old, new)
        BY <1>2 DEF Pairs
      <3>4. <<s, r>> \in Valid(old) \X Valid(new)
        BY <2>3, <3>2
      <3>5. r.isin_raw \in Ambiguous(old, new)
        BY <2>3, <3>1, <3>2, <3>3, <3>4 DEF IsinPairs, Ambiguous
      <3> QED  BY <2>3, <3>5 DEF Unresolved
    <2> QED  BY <2>1, <2>2, <2>3 DEF Valid, Unvalidated
  <1>3. R \cap U = {}
    BY DEF Added, Unresolved, Ambiguous, Valid, Unvalidated
  <1>4. R \subseteq new /\ U \subseteq new
    BY DEF Added, Unresolved, Valid, Unvalidated
  <1> QED  BY <1>1, <1>2, <1>3, <1>4

\* The conservation section of a diff always balances.
LEMMA DiffBalances ==
    ASSUME NEW old, NEW new, IsFiniteSet(old), IsFiniteSet(new)
    PROVE  Conserved(old, new)
  <1> DEFINE M == Pairs(old, new)
             first == [p \in M |-> p[1]]
             second == [p \in M |-> p[2]]
             S == {p[1] : p \in M}
             T == {p[2] : p \in M}
  <1>1. Cardinality(M) = Cardinality(S)
    <2>1. \A p \in M : first[p] \in old
      BY OnePairEach
    <2>2. \A p, q \in M : first[p] = first[q] => p = q
      BY OnePairEach
    <2>3. Cardinality(M) = Cardinality({first[p] : p \in M})
      <3> HIDE DEF M, first
      <3> QED  BY <2>1, <2>2, CountBySide
    <2>4. {first[p] : p \in M} = S
      OBVIOUS
    <2> QED  BY <2>3, <2>4
  <1>2. Cardinality(M) = Cardinality(T)
    <2>1. \A p \in M : second[p] \in new
      BY OnePairEach
    <2>2. \A p, q \in M : second[p] = second[q] => p = q
      BY OnePairEach
    <2>3. Cardinality(M) = Cardinality({second[p] : p \in M})
      <3> HIDE DEF M, second
      <3> QED  BY <2>1, <2>2, CountBySide
    <2>4. {second[p] : p \in M} = T
      OBVIOUS
    <2> QED  BY <2>3, <2>4
  <1>3. Cardinality(S) + Cardinality(Removed(old, new))
            + Cardinality(Unresolved(old, Ambiguous(old, new))) = Cardinality(old)
    BY EarlierParts, CountParts
  <1>4. Cardinality(T) + Cardinality(Added(old, new))
            + Cardinality(Unresolved(new, Ambiguous(old, new))) = Cardinality(new)
    BY LaterParts, CountParts
  <1> QED  BY <1>1, <1>2, <1>3, <1>4 DEF Conserved, Diff

\* The periods, of two, that the history of an identifier has.
PeriodsWith(p, q, snapshots, isin) ==
    {x \in {p, q} : \E h \in History(snapshots, isin) : h.period = x}

\* A row carries the identifier.
Carried(rows, isin) == \E r \in rows : r.isin_raw = isin

\* The class of an identifier is a function of the identifier.
Classified(rows) ==
    \A r, s \in rows : r.isin_raw = s.isin_raw => r.isin_state = s.isin_state

\* An ISIN is removed just where the history of the owner has it before and not
\* after.
LEMMA RemovedIsGone ==
    ASSUME NEW p, NEW q, NEW snapshots, NEW isin,
           DOMAIN snapshots = {p, q},
           Classified(snapshots[p] \cup snapshots[q]),
           isin \in Isins(snapshots[p]) \cup Isins(snapshots[q])
    PROVE  PeriodsWith(p, q, snapshots, isin) = {p} \ {q}
           <=> Carried(Removed(snapshots[p], snapshots[q]), isin)
  <1> DEFINE old == snapshots[p]
             new == snapshots[q]
             Has(rows) == Carried(rows, isin)
             P == PeriodsWith(p, q, snapshots, isin)
  <1>1. ASSUME NEW x \in {p, q}
        PROVE  x \in P <=> Has(snapshots[x])
    <2>1. ASSUME NEW h \in History(snapshots, isin), h.period = x
          PROVE  Has(snapshots[x])
      BY <2>1 DEF History, Carried
    <2>2. ASSUME NEW r \in snapshots[x], r.isin_raw = isin
          PROVE  \E h \in History(snapshots, isin) : h.period = x
      <3> DEFINE h == [period |-> x, row |-> r]
      <3>1. h \in {[period |-> x, row |-> y] : y \in {z \in snapshots[x] : z.isin_raw = isin}}
        BY <2>2
      <3>2. x \in DOMAIN snapshots
        OBVIOUS
      <3>3. h \in History(snapshots, isin)
        <4> HIDE DEF h
        <4> QED  BY <3>1, <3>2 DEF History
      <3>4. h.period = x
        OBVIOUS
      <3> QED  BY <3>3, <3>4
    <2> QED  BY <2>1, <2>2 DEF PeriodsWith, Carried
  <1>2. PICK v \in old \cup new : v.isin_raw = isin /\ v.isin_state = "valid"
    BY DEF Isins, Valid
  <1>3. \A r \in old \cup new : r.isin_raw = isin => r.isin_state = "valid"
    BY <1>2 DEF Classified
  <1>4. Has(old) <=> isin \in Isins(old)
    BY <1>3 DEF Isins, Valid, Carried
  <1>5. Has(new) <=> isin \in Isins(new)
    BY <1>3 DEF Isins, Valid, Carried
  <1>6. Carried(Removed(old, new), isin) <=> Has(old) /\ ~Has(new)
    <2>1. ASSUME NEW r \in Removed(old, new), r.isin_raw = isin
          PROVE  r \in Valid(old) /\ r.isin_raw \notin Isins(new)
      BY <1>3, <2>1 DEF Removed, Unvalidated
    <2>2. ASSUME Has(old), ~Has(new)
          PROVE  Carried(Removed(old, new), isin)
      BY <1>4, <1>5, <2>2 DEF Removed, Isins, Carried
    <2> QED  BY <1>4, <1>5, <2>1, <2>2 DEF Isins, Carried
  <1>7. P = {p} \ {q} <=> Has(old) /\ ~Has(new)
    <2>1. P \subseteq {p, q} /\ (p \in P <=> Has(old)) /\ (q \in P <=> Has(new))
      BY <1>1 DEF PeriodsWith
    <2>2. Has(old) \/ Has(new)
      BY <1>4, <1>5
    <2> HIDE DEF P, Has
    <2>3. CASE p = q
      BY <2>1, <2>2, <2>3
    <2>4. CASE p # q
      BY <2>1, <2>2, <2>4
    <2> QED  BY <2>3, <2>4
  <1> QED  BY <1>6, <1>7

\* The rows of a snapshot are published ones.
LEMMA SnapshotRows ==
    ASSUME NEW p, NEW o
    PROVE  /\ IsFiniteSet(Snapshot(p, o))
           /\ \A r \in Snapshot(p, o) : \E v \in Version : r \in Zip[v].positions
  <1> DEFINE v == file[p]["positions"]
  <1>1. CASE v \in Version
    <2>1. Content(p, "positions") = Zip[v].positions
      BY <1>1 DEF Content, RowsOf
    <2>2. IsFiniteSet(Zip[v].positions)
      BY <1>1, RowsAssumption
    <2> HIDE DEF v
    <2>3. Snapshot(p, o) \in SUBSET Zip[v].positions
      BY <2>1 DEF Snapshot
    <2> QED  BY <1>1, <2>2, <2>3, FS_Subset
  <1>2. CASE v \notin Version
    <2>1. Content(p, "positions") = {}
      BY <1>2 DEF Content, RowsOf
    <2>2. Snapshot(p, o) = {}
      BY <2>1 DEF Snapshot
    <2> QED  BY <2>2, FS_EmptySet
  <1> QED  BY <1>1, <1>2

LEMMA DiffConservesNow == DiffConserves
  <1> SUFFICES ASSUME NEW from \in Loaded, NEW to \in Loaded, NEW o \in Owners
               PROVE  LET old == Snapshot(from, o)
                          new == Snapshot(to, o)
                          snapshots == [p \in {from, to} |-> Snapshot(p, o)]
                      IN  /\ Conserved(old, new)
                          /\ \A isin \in Isins(old) \cup Isins(new) :
                                {p \in {from, to} :
                                    \E h \in History(snapshots, isin) : h.period = p}
                                    = {from} \ {to}
                                <=> \E r \in Removed(old, new) : r.isin_raw = isin
    BY DEF DiffConserves
  <1> DEFINE old == Snapshot(from, o)
             new == Snapshot(to, o)
             snapshots == [p \in {from, to} |-> Snapshot(p, o)]
  <1>1. Conserved(old, new)
    BY SnapshotRows, DiffBalances
  <1>2. Classified(old \cup new)
    BY SnapshotRows, RowsAssumption DEF Classified
  <1>3. DOMAIN snapshots = {from, to} /\ snapshots[from] = old /\ snapshots[to] = new
    OBVIOUS
  <1> HIDE DEF old, new, snapshots
  <1>4. ASSUME NEW isin \in Isins(old) \cup Isins(new)
        PROVE  PeriodsWith(from, to, snapshots, isin) = {from} \ {to}
               <=> Carried(Removed(old, new), isin)
    <2>1. Classified(snapshots[from] \cup snapshots[to])
      BY <1>2, <1>3
    <2>2. isin \in Isins(snapshots[from]) \cup Isins(snapshots[to])
      BY <1>3
    <2>3. DOMAIN snapshots = {from, to}
      BY <1>3
    <2>4. PeriodsWith(from, to, snapshots, isin) = {from} \ {to}
          <=> Carried(Removed(snapshots[from], snapshots[to]), isin)
      BY <2>1, <2>2, <2>3, RemovedIsGone
    <2> QED  BY <1>3, <2>4
  <1> QED  BY <1>1, <1>4 DEF old, new, snapshots, PeriodsWith, Carried

\* query.portfolio_diff accounts for every row of both snapshots once, and calls
\* an ISIN removed just where position_history has it before and not after, in
\* every dataset of published rows.
THEOREM DiffsConserve == Spec => []DiffConserves
  BY DiffConservesNow, PTL

-----------------------------------------------------------------------------
(***************************************************************************)
(* Composition of change ledgers                                           *)
(***************************************************************************)
\* A row matched twice in a row is matched across.
LEMMA PairsCompose ==
    ASSUME NEW A, NEW B, NEW C, NEW p \in Pairs(A, B), NEW q \in Pairs(B, C), p[2] = q[1]
    PROVE  <<p[1], q[2]>> \in Pairs(A, C)
  <1>1. CASE p \in IsinPairs(A, B)
    <2>1. p[1] \in Valid(A) /\ p[2] \in Valid(B) /\ p[1].isin_raw = p[2].isin_raw
      BY <1>1 DEF IsinPairs
    <2>2. q \in IsinPairs(B, C)
      BY <2>1 DEF Pairs, SignaturePairs, Valid, Unvalidated
    <2>3. q[2] \in Valid(C) /\ q[1].isin_raw = q[2].isin_raw
      BY <2>2 DEF IsinPairs
    <2>4. Alone(Of(A, p[1].isin_raw)) /\ Alone(Of(C, p[1].isin_raw))
      BY <1>1, <2>1, <2>2 DEF IsinPairs
    <2> QED  BY <2>1, <2>3, <2>4 DEF Pairs, IsinPairs
  <1>2. CASE p \in SignaturePairs(A, B)
    <2>1. p[1] \in Unvalidated(A) /\ p[2] \in Unvalidated(B) /\ p[1].sig = p[2].sig
      BY <1>2 DEF SignaturePairs
    <2>2. q \in SignaturePairs(B, C)
      BY <2>1 DEF Pairs, IsinPairs, Valid, Unvalidated
    <2>3. q[2] \in Unvalidated(C) /\ q[1].sig = q[2].sig
      BY <2>2 DEF SignaturePairs
    <2>4. Alone(Signed(A, p[1].sig)) /\ Alone(Signed(C, p[1].sig))
      BY <1>2, <2>1, <2>2 DEF SignaturePairs
    <2> QED  BY <2>1, <2>3, <2>4 DEF Pairs, SignaturePairs
  <1> QED  BY <1>1, <1>2 DEF Pairs

\* Unchanged is: nothing that is compared differs.
LEMMA UnchangedMeans ==
    ASSUME NEW a, NEW b
    PROVE  Change(a, b) = "unchanged_position"
           <=> a.value = b.value /\ a.weight = b.weight
               /\ a.sig = b.sig /\ a.isin_raw = b.isin_raw
  BY DEF Change, MetaChanged

LEMMA UnchangedComposesNow == UnchangedComposes
  <1> SUFFICES ASSUME NEW A, NEW B, NEW C, NEW p \in Unchanged(A, B), NEW q \in Unchanged(B, C),
                      p[2] = q[1]
               PROVE  <<p[1], q[2]>> \in Unchanged(A, C)
    BY DEF UnchangedComposes
  <1>1. p \in Pairs(A, B) /\ Change(p[1], p[2]) = "unchanged_position"
    BY DEF Unchanged
  <1>2. q \in Pairs(B, C) /\ Change(q[1], q[2]) = "unchanged_position"
    BY DEF Unchanged
  <1>3. <<p[1], q[2]>> \in Pairs(A, C)
    BY <1>1, <1>2, PairsCompose
  <1>4. Change(p[1], q[2]) = "unchanged_position"
    BY <1>1, <1>2, UnchangedMeans
  <1> QED  BY <1>3, <1>4 DEF Unchanged

\* A position that two consecutive diffs call unchanged is unchanged in the diff
\* across both, whichever portfolios the three are.
THEOREM UnchangedIsTransitive == Spec => []UnchangedComposes
  BY UnchangedComposesNow, PTL

-----------------------------------------------------------------------------
(***************************************************************************)
(* Accumulation of registry events                                         *)
(***************************************************************************)
\* What a fund's events are about
Named(old, new, key, subject) == \E f \in Events(old, new) : f.fund = key /\ f.subject = subject

\* An event of each kind, where two registries differ in a fund of both.
LEMMA AttributeNamed ==
    ASSUME NEW R, NEW S, NEW k \in FundKeys(R) \cap FundKeys(S), NEW a \in Attributes,
           Attribute(R, k, a) # Attribute(S, k, a)
    PROVE  Named(R, S, k, <<a, 0, 0>>)
  <1> DEFINE f == Event(EventOf[a], k, <<a, 0, 0>>, Attribute(R, k, a), Attribute(S, k, a))
  <1>1. f \in AttributeEvents(R, S, k)
    BY DEF AttributeEvents
  <1>2. f.fund = k /\ f.subject = <<a, 0, 0>>
    BY DEF Event
  <1> HIDE DEF f
  <1> QED  BY <1>1, <1>2 DEF Named, Events

\* A compartment that is in one of two registries only is named by an event.
LEMMA CompartmentNamed ==
    ASSUME NEW R, NEW S, NEW k \in FundKeys(R) \cap FundKeys(S), NEW c,
           (c \in Comps(R, k)) # (c \in Comps(S, k))
    PROVE  Named(R, S, k, <<"compartment", c, 0>>)
  <1>1. CASE c \in Comps(S, k) \ Comps(R, k)
    <2> DEFINE f == CompartmentEvent("compartment_added", k, c)
    <2>1. f \in CompartmentEvents(R, S, k)
      BY <1>1 DEF CompartmentEvents
    <2>2. f.fund = k /\ f.subject = <<"compartment", c, 0>>
      BY DEF CompartmentEvent, Event
    <2> HIDE DEF f
    <2> QED  BY <2>1, <2>2 DEF Named, Events
  <1>2. CASE c \in Comps(R, k) \ Comps(S, k)
    <2> DEFINE f == CompartmentEvent("compartment_removed", k, c)
    <2>1. f \in CompartmentEvents(R, S, k)
      BY <1>2 DEF CompartmentEvents
    <2>2. f.fund = k /\ f.subject = <<"compartment", c, 0>>
      BY DEF CompartmentEvent, Event
    <2> HIDE DEF f
    <2> QED  BY <2>1, <2>2 DEF Named, Events
  <1> QED  BY <1>1, <1>2

\* A class that is in one of two registries only is named by an event.
LEMMA ClassNamed ==
    ASSUME NEW R, NEW S, NEW k \in FundKeys(R) \cap FundKeys(S), NEW c,
           (c \in ClassKeys(R, k)) # (c \in ClassKeys(S, k))
    PROVE  Named(R, S, k, <<"class", c[1], c[2]>>)
  <1>1. CASE c \in ClassKeys(S, k) \ ClassKeys(R, k)
    <2> DEFINE f == ClassEvent("share_class_added", k, c, NoValue, NoValue)
    <2>1. f \in ClassEvents(R, S, k)
      BY <1>1 DEF ClassEvents
    <2>2. f.fund = k /\ f.subject = <<"class", c[1], c[2]>>
      BY DEF ClassEvent, Event
    <2> HIDE DEF f
    <2> QED  BY <2>1, <2>2 DEF Named, Events
  <1>2. CASE c \in ClassKeys(R, k) \ ClassKeys(S, k)
    <2> DEFINE f == ClassEvent("share_class_removed", k, c, NoValue, NoValue)
    <2>1. f \in ClassEvents(R, S, k)
      BY <1>2 DEF ClassEvents
    <2>2. f.fund = k /\ f.subject = <<"class", c[1], c[2]>>
      BY DEF ClassEvent, Event
    <2> HIDE DEF f
    <2> QED  BY <2>1, <2>2 DEF Named, Events
  <1> QED  BY <1>1, <1>2

\* So is a class of both whose ISIN differs.
LEMMA IsinNamed ==
    ASSUME NEW R, NEW S, NEW k \in FundKeys(R) \cap FundKeys(S),
           NEW c \in ClassKeys(R, k) \cap ClassKeys(S, k), IsinOf(R, k, c) # IsinOf(S, k, c)
    PROVE  Named(R, S, k, <<"class", c[1], c[2]>>)
  <1> DEFINE f == ClassEvent("isin_changed", k, c, IsinOf(R, k, c), IsinOf(S, k, c))
  <1>1. f \in IsinEvents(R, S, k)
    BY DEF IsinEvents
  <1>2. f.fund = k /\ f.subject = <<"class", c[1], c[2]>>
    BY DEF ClassEvent, Event
  <1> HIDE DEF f
  <1> QED  BY <1>1, <1>2 DEF Named, Events

\* An event across three registries is named in one of the two steps.
LEMMA EventsCompose ==
    ASSUME NEW R, NEW S, NEW T, NEW e \in Events(R, T), e.fund \in FundKeys(S)
    PROVE  Named(R, S, e.fund, e.subject) \/ Named(S, T, e.fund, e.subject)
  <1>1. PICK k \in FundKeys(R) \cap FundKeys(T) :
            e \in AttributeEvents(R, T, k) \cup CompartmentEvents(R, T, k)
                      \cup ClassEvents(R, T, k) \cup IsinEvents(R, T, k)
    BY DEF Events
  <1>2. CASE e \in AttributeEvents(R, T, k)
    <2>1. PICK a \in Attributes :
              /\ Attribute(R, k, a) # Attribute(T, k, a)
              /\ e = Event(EventOf[a], k, <<a, 0, 0>>, Attribute(R, k, a), Attribute(T, k, a))
      BY <1>2 DEF AttributeEvents
    <2>2. e.fund = k /\ e.subject = <<a, 0, 0>>
      BY <2>1 DEF Event
    <2>3. Attribute(R, k, a) # Attribute(S, k, a) \/ Attribute(S, k, a) # Attribute(T, k, a)
      BY <2>1
    <2> QED  BY <1>1, <2>2, <2>3, AttributeNamed
  <1>3. CASE e \in CompartmentEvents(R, T, k)
    <2>1. PICK c : /\ (c \in Comps(R, k)) # (c \in Comps(T, k))
                   /\ e.fund = k /\ e.subject = <<"compartment", c, 0>>
      BY <1>3 DEF CompartmentEvents, CompartmentEvent, Event
    <2>2. (c \in Comps(R, k)) # (c \in Comps(S, k)) \/ (c \in Comps(S, k)) # (c \in Comps(T, k))
      BY <2>1
    <2> QED  BY <1>1, <2>1, <2>2, CompartmentNamed
  <1>4. CASE e \in ClassEvents(R, T, k)
    <2>1. PICK c : /\ (c \in ClassKeys(R, k)) # (c \in ClassKeys(T, k))
                   /\ e.fund = k /\ e.subject = <<"class", c[1], c[2]>>
      BY <1>4 DEF ClassEvents, ClassEvent, Event
    <2>2. (c \in ClassKeys(R, k)) # (c \in ClassKeys(S, k))
              \/ (c \in ClassKeys(S, k)) # (c \in ClassKeys(T, k))
      BY <2>1
    <2> QED  BY <1>1, <2>1, <2>2, ClassNamed
  <1>5. CASE e \in IsinEvents(R, T, k)
    <2>1. PICK c \in ClassKeys(R, k) \cap ClassKeys(T, k) :
              /\ IsinOf(R, k, c) # IsinOf(T, k, c)
              /\ e = ClassEvent("isin_changed", k, c, IsinOf(R, k, c), IsinOf(T, k, c))
      BY <1>5 DEF IsinEvents
    <2>2. e.fund = k /\ e.subject = <<"class", c[1], c[2]>>
      BY <2>1 DEF ClassEvent, Event
    <2>3. CASE c \in ClassKeys(S, k)
      <3>1. IsinOf(R, k, c) # IsinOf(S, k, c) \/ IsinOf(S, k, c) # IsinOf(T, k, c)
        BY <2>1
      <3> QED  BY <1>1, <2>1, <2>2, <2>3, <3>1, IsinNamed
    <2>4. CASE c \notin ClassKeys(S, k)
      <3>1. (c \in ClassKeys(R, k)) # (c \in ClassKeys(S, k))
        BY <2>1, <2>4
      <3> QED  BY <1>1, <2>1, <2>2, <3>1, ClassNamed
    <2> QED  BY <2>3, <2>4
  <1> QED  BY <1>1, <1>2, <1>3, <1>4, <1>5

LEMMA EventsAccumulateNow == EventsAccumulate
  <1> SUFFICES ASSUME NEW a, NEW b, NEW c, NEW e \in Events(Registry(a), Registry(c)),
                      e.fund \in FundKeys(Registry(b))
               PROVE  \E f \in Events(Registry(a), Registry(b))
                                   \cup Events(Registry(b), Registry(c)) :
                          f.fund = e.fund /\ f.subject = e.subject
    BY DEF EventsAccumulate
  <1>1. \/ Named(Registry(a), Registry(b), e.fund, e.subject)
        \/ Named(Registry(b), Registry(c), e.fund, e.subject)
    BY EventsCompose
  <1> QED  BY <1>1 DEF Named

\* diff_registry loses nothing between two months: whatever it reports across
\* them was reported, of the same subject, in one of the steps through any third
\* registry that holds the fund.
THEOREM EventsAddUp == Spec => []EventsAccumulate
  BY EventsAccumulateNow, PTL

-----------------------------------------------------------------------------
(***************************************************************************)
(* Exposures of an issuer                                                  *)
(***************************************************************************)
\* The size of a position, over any set of them.
Sized(rows) == [r \in rows |-> IF r.value < 0 THEN -r.value ELSE r.value]

\* The gross value of a part of the rows
LEMMA GrossOfPart ==
    ASSUME NEW rows, IsFiniteSet(rows), \A r \in rows : r.value \in Int, NEW part \in SUBSET rows
    PROVE  /\ Gross(part) = Sum(Sized(rows), part)
           /\ Gross(part) \in Nat
  <1> DEFINE w == Sized(rows)
             v == Sized(part)
  <1>1. IsFiniteSet(part)
    BY FS_Subset
  <1>2. \A r \in part : v[r] = w[r] /\ w[r] \in Nat
    BY DEF Sized
  <1>3. Gross(part) = Sum(v, part)
    BY DEF Gross, SumFunction, Sum, Sized
  <1>4. Sum(v, part) = Sum(w, part)
    <2> HIDE DEF v, w
    <2> QED  BY <1>1, <1>2, SumAgrees
  <1>5. Sum(w, part) \in Nat
    <2> HIDE DEF w
    <2> QED  BY <1>1, <1>2, SumIsNat
  <1> QED  BY <1>3, <1>4, <1>5

\* Two parts that share no row.
LEMMA GrossOfTwo ==
    ASSUME NEW rows, IsFiniteSet(rows), \A r \in rows : r.value \in Int,
           NEW A \in SUBSET rows, NEW B \in SUBSET rows, A \cap B = {}
    PROVE  Gross(A \cup B) = Gross(A) + Gross(B)
  <1> DEFINE w == Sized(rows)
  <1>1. \A x \in A \cup B : w[x] \in Int
    BY DEF Sized
  <1>2. IsFiniteSet(A) /\ IsFiniteSet(B)
    BY FS_Subset
  <1>3. Sum(w, A \cup B) = Sum(w, A) + Sum(w, B)
    <2> HIDE DEF w
    <2> QED  BY <1>1, <1>2, SumAdds
  <1>4. A \cup B \in SUBSET rows
    OBVIOUS
  <1> QED  BY <1>3, <1>4, GrossOfPart

\* More rows, no less value
LEMMA GrossGrows ==
    ASSUME NEW rows, IsFiniteSet(rows), \A r \in rows : r.value \in Int,
           NEW A \in SUBSET rows, NEW B \in SUBSET A
    PROVE  Gross(B) <= Gross(A)
  <1> DEFINE w == Sized(rows)
  <1>1. IsFiniteSet(A) /\ \A r \in A : w[r] \in Nat
    BY FS_Subset DEF Sized
  <1>2. Sum(w, B) <= Sum(w, A)
    <2> HIDE DEF w
    <2> QED  BY <1>1, SumOfPart
  <1>3. B \in SUBSET rows
    OBVIOUS
  <1> QED  BY <1>2, <1>3, GrossOfPart

\* The states, and which of them each filter admits
LEMMA StrengthsAre ==
    /\ DOMAIN Strength = {"corroborated", "gleif_only", "firds_only", "conflict",
                          "multiple_candidates", "no_authoritative_match"}
    /\ IsFiniteSet(DOMAIN Strength)
    /\ Admitted("all-resolved") = DOMAIN Strength \ Excluded
    /\ Admitted("corroborated") = {"corroborated"}
    /\ Admitted("single-source") = {"gleif_only", "firds_only"}
    /\ DOMAIN Strength \ Excluded = {"corroborated", "gleif_only", "firds_only"}
  <1>1. DOMAIN Strength = {"corroborated", "gleif_only", "firds_only", "conflict",
                          "multiple_candidates", "no_authoritative_match"}
    BY DEF Strength
  <1>2. IsFiniteSet(DOMAIN Strength)
    <2> DEFINE A == {"corroborated"} \cup {"gleif_only"} \cup {"firds_only"} \cup {"conflict"}
                    \cup {"multiple_candidates"} \cup {"no_authoritative_match"}
    <2>1. DOMAIN Strength = A
      BY <1>1
    <2>2. IsFiniteSet(A)
      BY FS_Singleton, FS_Union
    <2> QED  BY <2>1, <2>2
  <1>3. Strength["corroborated"] = "corroborated" /\ Strength["gleif_only"] = "single_source"
        /\ Strength["firds_only"] = "single_source"
    BY DEF Strength
  <1> QED  BY <1>1, <1>2, <1>3 DEF Admitted, Excluded

\* The exposures of one set of rows, whatever the adjudication was run over.
LEMMA ExposuresAddUp ==
    ASSUME NEW rows, IsFiniteSet(rows), \A r \in rows : r.value \in Int,
           NEW covered \in SUBSET DOMAIN Evidence
    PROVE  LET verdicts == [i \in covered |-> Evidence[i]]
               Share(l, evidence) == Gross(Known(rows, verdicts, l, evidence))
               total == Coverage(rows, verdicts)
           IN  /\ SumFunction([l \in Issuers |-> Share(l, "all-resolved")])
                     = total.resolved
               /\ total.resolved + total.unresolved <= total.valid
               /\ SumFunction([s \in DOMAIN Strength |-> StateCount(verdicts, s)])
                     = Cardinality(covered)
               /\ \A l \in Issuers :
                     /\ Share(l, "all-resolved")
                           = Share(l, "corroborated") + Share(l, "single-source")
                     /\ Known(rows, verdicts, l, "all-resolved")
                           \cap Candidate(rows, verdicts, l) = {}
                     /\ \A r \in Known(rows, verdicts, l, "all-resolved") :
                           r.isin_raw \notin Conflicts(verdicts)
  <1> DEFINE verdicts == [i \in covered |-> Evidence[i]]
             All(l) == Known(rows, verdicts, l, "all-resolved")
             resolved == {r \in Joined(rows, verdicts) : verdicts[r.isin_raw].resolved # NoIssuer}
             valid == {r \in rows : r.isin_state = "valid"}
             total == Coverage(rows, verdicts)
  <1>1. DOMAIN verdicts = covered
        /\ \A i \in covered : /\ verdicts[i] = Evidence[i]
                              /\ verdicts[i].state \in DOMAIN Strength
                              /\ verdicts[i].resolved = NoIssuer <=> verdicts[i].state \in Excluded
                              /\ verdicts[i].resolved # NoIssuer => verdicts[i].resolved \in Issuers
    BY EvidenceAssumption DEF Issuers
  <1>2. total.resolved = Gross(resolved) /\ total.valid = Gross(valid)
        /\ total.unresolved = Gross(InState(rows, verdicts, Excluded))
    BY DEF Coverage
  <1> HIDE DEF verdicts
  <1>3. IsFiniteSet(Issuers)
    <2> DEFINE D == DOMAIN Evidence
               f == [i \in D |-> Evidence[i].resolved]
               T == {Evidence[i].resolved : i \in D}
    <2>1. f \in Surjection(D, T)
      BY DEF Surjection
    <2>2. IsFiniteSet(D)
      BY EvidenceAssumption
    <2>3. IsFiniteSet(T)
      <3> HIDE DEF D, f, T
      <3> QED  BY <2>1, <2>2, FS_Surjection
    <2> QED  BY <2>3, FS_Subset DEF Issuers
  <1>4. \A r \in Joined(rows, verdicts) : r.isin_raw \in covered /\ r \in rows /\ r.isin_state = "valid"
    BY <1>1 DEF Joined
  <1>5. ASSUME NEW l \in Issuers
        PROVE  All(l) = {r \in resolved : verdicts[r.isin_raw].resolved = l}
    <2>1. l # NoIssuer
      BY DEF Issuers
    <2>2. All(l) = {r \in Joined(rows, verdicts) : /\ verdicts[r.isin_raw].state \in DOMAIN Strength \ Excluded
                                                   /\ verdicts[r.isin_raw].resolved = l}
      BY StrengthsAre DEF Known, InState
    <2> QED  BY <1>1, <1>4, <2>1, <2>2
  <1>6. SumFunction([l \in Issuers |-> Gross(All(l))]) = total.resolved
    <2> DEFINE g == [l \in Issuers |-> Gross(All(l))]
               f == [r \in resolved |-> verdicts[r.isin_raw].resolved]
               w == Sized(rows)
    <2>1. resolved \in SUBSET rows /\ IsFiniteSet(resolved)
      BY <1>4, FS_Subset
    <2>2. \A r \in resolved : w[r] \in Int /\ f[r] \in Issuers
      BY <1>1, <1>4 DEF Sized
    <2>3. ASSUME NEW l \in Issuers  PROVE  g[l] = Sum(w, ClassOf(resolved, f, l))
      <3>1. All(l) = ClassOf(resolved, f, l)
        BY <1>5 DEF ClassOf
      <3>2. All(l) \in SUBSET rows
        BY <2>1, <3>1 DEF ClassOf
      <3>3. Gross(All(l)) = Sum(w, All(l))
        <4> HIDE DEF All
        <4> QED  BY <3>2, GrossOfPart
      <3> QED  BY <3>1, <3>3
    <2>4. Sum(g, Issuers) = Sum(w, resolved)
      <3> HIDE DEF g, w, f, resolved
      <3> QED  BY <1>3, <2>1, <2>2, <2>3, SumByParts
    <2>5. Gross(resolved) = Sum(w, resolved)
      <3> HIDE DEF resolved
      <3> QED  BY <2>1, GrossOfPart
    <2>6. SumFunction(g) = Sum(g, Issuers)
      BY DEF SumFunction, Sum
    <2> QED  BY <1>2, <2>4, <2>5, <2>6
  <1>7. total.resolved + total.unresolved <= total.valid
    <2> DEFINE A == resolved
               B == InState(rows, verdicts, Excluded)
    <2>1. A \cap B = {} /\ A \in SUBSET rows /\ B \in SUBSET rows
      BY <1>1, <1>4 DEF InState
    <2>2. A \cup B \in SUBSET valid /\ valid \in SUBSET rows
      BY <1>4 DEF InState
    <2>3. Gross(A \cup B) = Gross(A) + Gross(B)
      <3> HIDE DEF A, B
      <3> QED  BY <2>1, GrossOfTwo
    <2>4. Gross(A \cup B) <= Gross(valid)
      <3> HIDE DEF A, B, valid
      <3> QED  BY <2>2, GrossGrows
    <2> QED  BY <1>2, <2>3, <2>4
  <1>8. SumFunction([s \in DOMAIN Strength |-> StateCount(verdicts, s)]) = Cardinality(covered)
    <2> DEFINE g == [s \in DOMAIN Strength |-> StateCount(verdicts, s)]
               f == [i \in covered |-> verdicts[i].state]
    <2>1. IsFiniteSet(covered)
      BY EvidenceAssumption, FS_Subset
    <2>2. \A i \in covered : f[i] \in DOMAIN Strength
      BY <1>1
    <2>3. ASSUME NEW s \in DOMAIN Strength  PROVE  g[s] = Cardinality(ClassOf(covered, f, s))
      <3>1. ClassOf(covered, f, s) = {i \in DOMAIN verdicts : verdicts[i].state = s}
        BY <1>1 DEF ClassOf
      <3> QED  BY <3>1 DEF StateCount
    <2>4. Sum(g, DOMAIN Strength) = Cardinality(covered)
      <3> DEFINE I == DOMAIN Strength
      <3>1. IsFiniteSet(I) /\ (\A i \in covered : f[i] \in I)
            /\ \A s \in I : g[s] = Cardinality(ClassOf(covered, f, s))
        BY <2>2, <2>3, StrengthsAre
      <3> HIDE DEF g, f, I
      <3>2. Sum(g, I) = Cardinality(covered)
        BY <2>1, <3>1, CountByParts
      <3> QED  BY <3>2 DEF I
    <2> QED  BY <2>4 DEF SumFunction, Sum
  <1>9. ASSUME NEW l \in Issuers
        PROVE  /\ Gross(All(l)) = Gross(Known(rows, verdicts, l, "corroborated"))
                                    + Gross(Known(rows, verdicts, l, "single-source"))
               /\ All(l) \cap Candidate(rows, verdicts, l) = {}
               /\ \A r \in All(l) : r.isin_raw \notin Conflicts(verdicts)
    <2> DEFINE A == Known(rows, verdicts, l, "corroborated")
               B == Known(rows, verdicts, l, "single-source")
    <2>1. All(l) = A \cup B /\ A \cap B = {}
      BY StrengthsAre DEF Known, InState
    <2>2. A \in SUBSET rows /\ B \in SUBSET rows
      BY <1>4 DEF Known, InState
    <2>3. Gross(A \cup B) = Gross(A) + Gross(B)
      <3> HIDE DEF A, B
      <3> QED  BY <2>1, <2>2, GrossOfTwo
    <2>4. \A r \in All(l) : verdicts[r.isin_raw].state \notin Excluded
      BY StrengthsAre DEF Known, InState
    <2>5. All(l) \cap Candidate(rows, verdicts, l) = {}
      BY <2>4 DEF Candidate, InState, Excluded
    <2>6. \A r \in All(l) : r.isin_raw \notin Conflicts(verdicts)
      BY <2>4 DEF Conflicts, Excluded
    <2> QED  BY <2>1, <2>3, <2>5, <2>6
  <1> QED  BY <1>6, <1>7, <1>8, <1>9 DEF verdicts

LEMMA ExposureTilesNow == ExposureTiles
  <1> SUFFICES ASSUME NEW p \in Loaded, NEW covered \in SUBSET DOMAIN Evidence
               PROVE  LET rows == Content(p, "positions")
                          verdicts == [i \in covered |-> Evidence[i]]
                          Share(l, evidence) == Gross(Known(rows, verdicts, l, evidence))
                          total == Coverage(rows, verdicts)
                      IN  /\ SumFunction([l \in Issuers |-> Share(l, "all-resolved")])
                                = total.resolved
                          /\ total.resolved + total.unresolved <= total.valid
                          /\ SumFunction([s \in DOMAIN Strength |-> StateCount(verdicts, s)])
                                = Cardinality(covered)
                          /\ \A l \in Issuers :
                                /\ Share(l, "all-resolved")
                                      = Share(l, "corroborated") + Share(l, "single-source")
                                /\ Known(rows, verdicts, l, "all-resolved")
                                      \cap Candidate(rows, verdicts, l) = {}
                                /\ \A r \in Known(rows, verdicts, l, "all-resolved") :
                                      r.isin_raw \notin Conflicts(verdicts)
    BY DEF ExposureTiles
  <1>1. IsFiniteSet(Content(p, "positions"))
        /\ \A r \in Content(p, "positions") : r.value \in Int
    BY RowsAssumption, FS_EmptySet DEF Content, RowsOf
  <1> QED  BY <1>1, ExposuresAddUp

\* The totals of query.funds_exposed_to tile the resolved part of every period: no
\* position counts twice and none counts for an issuer that it only names, whatever
\* the rows are and whatever part of the evidence the adjudication covers.
THEOREM ExposuresTile == Spec => []ExposureTiles
  BY ExposureTilesNow, PTL

-----------------------------------------------------------------------------
(***************************************************************************)
(* Reconciliation                                                          *)
(***************************************************************************)
\* A size is not negative.
LEMMA AbsType == ASSUME NEW n \in Int PROVE Abs(n) \in Nat
  BY DEF Abs

\* What holds of the figures of a period, whichever versions its tables are of
Keyed(z) ==
    /\ IsFiniteSet(z.daily) /\ IsFiniteSet(z.quarterly)
    /\ \A d, e \in z.daily : d.class = e.class /\ d.day = e.day => d = e
    /\ \A q, r \in z.quarterly : q.class = r.class => q = r
    /\ \A t, u \in z.patrimony : t.comp = u.comp => t = u
    /\ \A d \in z.daily : d.day \in Nat /\ d.aum \in Int \cup {Missing}
    /\ \A q \in z.quarterly : q.patrimonio \in Int \cup {Missing}
    /\ \A t \in z.patrimony : t.total \in Int \cup {Missing}

\* Each table is one version's, or empty.
LEMMA FiguresAreKeyed == ASSUME NEW p PROVE Keyed(Figures(p))
  <1> DEFINE d == Content(p, "daily")
             q == Content(p, "quarterly")
             t == Content(p, "patrimony")
  <1>1. d = {} \/ \E v \in Version : d = Zip[v].daily
    BY DEF Content, RowsOf
  <1>2. q = {} \/ \E v \in Version : q = Zip[v].quarterly
    BY DEF Content, RowsOf
  <1>3. t = {} \/ \E v \in Version : t = Zip[v].patrimony
    BY DEF Content, RowsOf
  <1>4. Figures(p).daily = d /\ Figures(p).quarterly = q /\ Figures(p).patrimony = t
    BY DEF Figures
  <1> HIDE DEF d, q, t
  <1>5. /\ IsFiniteSet(d)
        /\ \A x, y \in d : x.class = y.class /\ x.day = y.day => x = y
        /\ \A x \in d : x.day \in Nat /\ x.aum \in Int \cup {Missing}
    BY <1>1, FiguresAssumption, FS_EmptySet
  <1>6. /\ IsFiniteSet(q)
        /\ \A x, y \in q : x.class = y.class => x = y
        /\ \A x \in q : x.patrimonio \in Int \cup {Missing}
    BY <1>2, FiguresAssumption, FS_EmptySet
  <1>7. /\ \A x, y \in t : x.comp = y.comp => x = y
        /\ \A x \in t : x.total \in Int \cup {Missing}
    BY <1>3, FiguresAssumption
  <1> QED  BY <1>4, <1>5, <1>6, <1>7 DEF Keyed

\* A class has one month-end row at most
LEMMA MonthEndRows ==
    ASSUME NEW z, Keyed(z), NEW d \in MonthEnd(z.daily)
    PROVE  /\ d \in z.daily /\ d.aum \in Int /\ d.aum # Missing
           /\ \A e \in MonthEnd(z.daily) : e.class = d.class => e = d
           /\ AumOf(z.daily, d.class) = d.aum
  <1> DEFINE daily == z.daily
             M == MonthEnd(daily)
  <1>1. \A e \in M : /\ e \in daily /\ e.aum # Missing /\ e.aum \in Int /\ e.day \in Nat
                     /\ \A f \in M : f.class = e.class => f.day <= e.day
    BY DEF MonthEnd, Keyed
  <1>2. \A e \in M : e.class = d.class => e = d
    <2> SUFFICES ASSUME NEW e \in M, e.class = d.class  PROVE  e = d
      OBVIOUS
    <2>1. e.day \in Nat /\ d.day \in Nat /\ e.day <= d.day /\ d.day <= e.day
      BY <1>1
    <2>2. e.day = d.day
      BY <2>1
    <2> QED  BY <1>1, <2>2 DEF Keyed
  <1>3. {e \in M : e.class = d.class} = {d}
    BY <1>2
  <1>4. AumOf(daily, d.class) = SumAum({d})
    BY <1>3 DEF AumOf
  <1>5. SumAum({d}) = d.aum
    <2> DEFINE w == [e \in {d} |-> e.aum]
    <2>1. {e \in {d} : e.aum # Missing} = {d}
      BY <1>1
    <2>2. SumAum({d}) = Sum(w, {d})
      BY <2>1 DEF SumAum, SumFunction, Sum
    <2>3. w[d] \in Int /\ w[d] = d.aum
      BY <1>1
    <2> QED  BY <2>2, <2>3, SumOfOne
  <1> QED  BY <1>1, <1>2, <1>4, <1>5

\* No subject is compared twice.
LEMMA NoneTwice ==
    ASSUME NEW z, Keyed(z)
    PROVE  ComparedOnce(z)
  <1> DEFINE A == {Comparison("patrimonio_vs_mens_aum", q.class, ClassState(q, z.daily)) :
                     q \in z.quarterly}
             B == {Comparison("total_vs_trim_class_sum", p.comp, TotalState(p, z.quarterly)) :
                     p \in z.patrimony}
             C == {Comparison("total_vs_mens_aum_sum", p.comp, AumState(p, z.daily)) :
                     p \in z.patrimony}
             D == DerivativeCoverage(z.coverage, z.patrimony)
             Once(S) == \A c, e \in S : c.subject = e.subject => c = e
  <1>1. /\ \A q, r \in z.quarterly : q.class = r.class => q = r
        /\ \A t, u \in z.patrimony : t.comp = u.comp => t = u
    BY DEF Keyed
  <1>2. /\ \A c \in A : c.metric = "patrimonio_vs_mens_aum"
        /\ Once(A)
    BY <1>1 DEF Comparison
  <1>3. (\A c \in B : c.metric = "total_vs_trim_class_sum") /\ Once(B)
    BY <1>1 DEF Comparison
  <1>4. (\A c \in C : c.metric = "total_vs_mens_aum_sum") /\ Once(C)
    BY <1>1 DEF Comparison
  <1>5. (\A c \in D : c.metric = "derivative_reporting_vs_patrimony") /\ Once(D)
    BY DEF Comparison, DerivativeCoverage
  <1>6. Comparisons(z.daily, z.quarterly, z.patrimony) \cup D = A \cup B \cup C \cup D
    BY DEF Comparisons
  <1> HIDE DEF A, B, C, D
  <1>7. \A c, e \in A \cup B \cup C \cup D : c.metric = e.metric /\ c.subject = e.subject => c = e
    BY <1>2, <1>3, <1>4, <1>5
  <1> QED  BY <1>6, <1>7 DEF D, ComparedOnce

\* What a match of two amounts says, and what two of them in a row say.
LEMMA MatchIs ==
    ASSUME NEW left \in Int \cup {Missing}, NEW right \in Int \cup {Missing}
    PROVE  State(left, right) = "match" <=>
             /\ left \in Int /\ right \in Int
             /\ Abs(left - right) * 100 <= Abs(right)
  BY NoAmount DEF State, Tolerance

LEMMA NearTwice ==
    ASSUME NEW t \in Int, NEW p \in Int, NEW a \in Int, NEW b \in Int,
           Abs(t - p) * 100 <= Abs(p), Abs(p - a) * 100 <= b, Abs(a) <= b
    PROVE  Abs(t - a) * 10000 <= 201 * b
  BY DEF Abs

\* The third comparison follows from the other two.
LEMMA ThirdFollows ==
    ASSUME NEW z, Keyed(z), NEW t \in z.patrimony,
           NEW own, own = OwnRows(z, t), NEW month, month = MonthRows(z, t),
           AllMatch(z, t, own, month)
    PROVE  ThirdNear(z, t, month)
  <1> DEFINE daily == z.daily
             quarterly == z.quarterly
  <1>0. /\ own = {q \in quarterly : q.comp = t.comp}
        /\ month = {d \in MonthEnd(daily) : d.comp = t.comp}
        /\ TotalState(t, quarterly) = "match"
        /\ {d.class : d \in month} = {q.class : q \in own}
        /\ \A q \in own : ClassState(q, daily) = "match"
    BY DEF OwnRows, MonthRows, AllMatch
  <1>1. /\ IsFiniteSet(daily) /\ IsFiniteSet(quarterly)
        /\ \A q, r \in quarterly : q.class = r.class => q = r
        /\ \A q \in quarterly : q.patrimonio \in Int \cup {Missing}
        /\ t.total \in Int \cup {Missing}
    BY DEF Keyed
  <1> HIDE DEF daily, quarterly
  <1>2. own \subseteq quarterly /\ month \subseteq MonthEnd(daily) /\ month \subseteq daily
    BY <1>0 DEF MonthEnd
  <1>3. IsFiniteSet(own) /\ IsFiniteSet(month)
    BY <1>1, <1>2, FS_Subset
  <1>4. ASSUME NEW d \in month
        PROVE  /\ d.aum \in Int /\ d.aum # Missing
               /\ \A e \in month : e.class = d.class => e = d
               /\ AumOf(daily, d.class) = d.aum
    BY <1>0, <1>2, MonthEndRows DEF daily
  <1>5. ASSUME NEW q \in own
        PROVE  \E d \in month : /\ d.class = q.class
                                /\ q.patrimonio \in Int /\ q.patrimonio # Missing
                                /\ q.currency = Euro
                                /\ Abs(q.patrimonio - d.aum) * 100 <= Abs(d.aum)
    <2>1. PICK d \in month : d.class = q.class
      BY <1>0
    <2>2. AumOf(daily, q.class) = d.aum /\ d.aum \in Int
      BY <1>4, <2>1
    <2>3. ClassState(q, daily) = "match"
      BY <1>0
    <2>4. /\ q.patrimonio # Missing /\ q.currency = Euro
          /\ State(q.patrimonio, AumOf(daily, q.class)) = "match"
      BY <2>3 DEF ClassState
    <2>5. q.patrimonio \in Int \cup {Missing}
      BY <1>1, <1>2
    <2>6. Abs(q.patrimonio - d.aum) * 100 <= Abs(d.aum) /\ q.patrimonio \in Int
      BY <2>2, <2>4, <2>5, MatchIs
    <2> QED  BY <2>1, <2>4, <2>6
  <1> DEFINE rowOf == [d \in month |-> CHOOSE q \in own : q.class = d.class]
             stated == [q \in own |-> q.patrimonio]
             p == [d \in month |-> rowOf[d].patrimonio]
             a == [d \in month |-> d.aum]
             b == [d \in month |-> Abs(d.aum)]
  <1>6. \A d \in month : rowOf[d] \in own /\ rowOf[d].class = d.class
    BY <1>0
  <1> HIDE DEF rowOf
  <1>7. ASSUME NEW d \in month
        PROVE  /\ p[d] \in Int /\ a[d] \in Int /\ b[d] = Abs(a[d])
               /\ Abs(p[d] - a[d]) * 100 <= b[d]
    <2> DEFINE q == rowOf[d]
    <2>1. q \in own /\ q.class = d.class
      BY <1>6
    <2>2. PICK e \in month : /\ e.class = q.class /\ q.patrimonio \in Int
                             /\ Abs(q.patrimonio - e.aum) * 100 <= Abs(e.aum)
      BY <1>5, <2>1
    <2>3. e = d
      BY <1>4, <2>1, <2>2
    <2> QED  BY <1>4, <2>2, <2>3
  <1>8. Sum(stated, own) = Sum(p, month)
    <2>1. \A d \in month : rowOf[d] \in own /\ stated[rowOf[d]] = p[d]
      BY <1>6
    <2>2. \A q \in own : \E d \in month : rowOf[d] = q
      <3> SUFFICES ASSUME NEW q \in own  PROVE  \E d \in month : rowOf[d] = q
        OBVIOUS
      <3>1. PICK d \in month : d.class = q.class
        BY <1>0
      <3>2. rowOf[d] \in own /\ rowOf[d].class = q.class
        BY <1>6, <3>1
      <3> QED  BY <1>1, <1>2, <3>2
    <2>3. \A d, e \in month : rowOf[d] = rowOf[e] => d = e
      BY <1>4, <1>6
    <2>4. \A d \in month : p[d] \in Int
      BY <1>7
    <2> HIDE DEF stated, p
    <2> QED  BY <1>3, <2>1, <2>2, <2>3, <2>4, SumRenamed
  <1>9. /\ Sum(p, month) \in Int /\ Sum(a, month) \in Int /\ Sum(b, month) \in Int
        /\ Abs(Sum(a, month)) <= Sum(b, month)
        /\ Abs(Sum(p, month) - Sum(a, month)) * 100 <= Sum(b, month)
    <2> HIDE DEF p, a, b
    <2> QED  BY <1>3, <1>7, SumNear
  <1>10. own # {} /\ SumPatrimonio(own) = Sum(stated, own)
    <2>1. {q \in own : q.patrimonio # Missing} = own
      BY <1>5
    <2>2. own # {}
      <3> SUFFICES ASSUME own = {}  PROVE  FALSE
        OBVIOUS
      <3>1. SumPatrimonio(own) = Missing
        BY DEF SumPatrimonio
      <3> QED  BY <1>0, <3>1 DEF TotalState
    <2> QED  BY <2>1, <2>2 DEF SumPatrimonio, SumFunction, Sum
  <1>11. month # {} /\ SumAum(month) = Sum(a, month)
    <2>1. {d \in month : d.aum # Missing} = month
      BY <1>4
    <2>2. month # {}
      BY <1>5, <1>10
    <2> QED  BY <2>1, <2>2 DEF SumAum, SumFunction, Sum
  <1>12. /\ t.total \in Int /\ t.currency = Euro
         /\ Abs(t.total - Sum(p, month)) * 100 <= Abs(Sum(p, month))
    <2>1. SumPatrimonio(own) = Sum(p, month) /\ Sum(p, month) \in Int
      BY <1>8, <1>9, <1>10
    <2>2. {q.currency : q \in own} = {Euro}
      BY <1>5, <1>10
    <2>3. /\ {q.currency : q \in own} \ {Missing} = {t.currency}
          /\ State(t.total, SumPatrimonio(own)) = "match"
      BY <1>0 DEF TotalState
    <2>4. t.currency = Euro
      BY <2>2, <2>3
    <2> HIDE DEF p
    <2> QED  BY <1>1, <2>1, <2>3, <2>4, MatchIs
  <1>13. SumFunction([d \in month |-> Abs(d.aum)]) = Sum(b, month)
    BY DEF SumFunction, Sum
  <1>14. Abs(t.total - SumAum(month)) * 10000 <= 201 * Sum(b, month)
    <2> DEFINE P == Sum(p, month)
               A == Sum(a, month)
               B == Sum(b, month)
    <2>1. /\ t.total \in Int /\ P \in Int /\ A \in Int /\ B \in Int
          /\ Abs(t.total - P) * 100 <= Abs(P) /\ Abs(P - A) * 100 <= B /\ Abs(A) <= B
      BY <1>9, <1>12
    <2> HIDE DEF P, A, B
    <2>2. Abs(t.total - A) * 10000 <= 201 * B
      BY <2>1, NearTwice
    <2> QED  BY <1>11, <2>2 DEF A, B
  <1>15. AumState(t, daily) \in {"match", "diff"}
    <2>1. SumAum(month) \in Int /\ SumAum(month) # Missing /\ t.total # Missing
      BY <1>9, <1>11, <1>12, NoAmount
    <2>2. AumState(t, daily) = State(t.total, SumAum(month))
      BY <1>0, <1>12, <2>1 DEF AumState
    <2> QED  BY <2>1, <2>2 DEF State
  <1> QED  BY <1>13, <1>14, <1>15 DEF daily, ThirdNear

LEMMA ReconciliationCoheresNow == ReconciliationCoheres
  BY FiguresAreKeyed, NoneTwice, ThirdFollows DEF ReconciliationCoheres

\* query.patrimony_reconciliation compares no subject twice, and where every class
\* matches and their sum does, it makes the third comparison too, which differs by
\* the two tolerances at most: whatever figures the adapters let through.
THEOREM ComparisonsCohere == Spec => []ReconciliationCoheres
  BY ReconciliationCoheresNow, PTL

-----------------------------------------------------------------------------
(***************************************************************************)
(* holdings beside an export                                               *)
(***************************************************************************)
\* Periods are bounded, so that a set of them has a latest one.
LEMMA LatestIs ==
    ASSUME NEW S, S \subseteq Period, S # {}
    PROVE  Latest(S) \in S /\ \A p \in S : p <= Latest(S)
  <1>1. PICK last \in Period : \A p \in Period : p <= last
    BY VersionsAssumption
  <1> DEFINE T == {last - p : p \in S}
  <1>2. T \subseteq Nat /\ T # {}
    <2>1. \A p \in S : last \in Nat /\ p \in Nat /\ p <= last
      BY <1>1, VersionsAssumption
    <2>2. \A p \in S : last - p \in Nat
      BY <2>1
    <2> QED  BY <2>2
  <1>3. PICK d \in T : \A e \in T : ~ (<<e, d>> \in OpToRel(<, Nat))
    <2> HIDE DEF T
    <2> QED  BY <1>2, NatLessThanWellFounded, WFMin
  <1>4. PICK q \in S : d = last - q
    OBVIOUS
  <1>5. \A p \in S : p <= q
    <2> SUFFICES ASSUME NEW p \in S  PROVE  p <= q
      OBVIOUS
    <2>1. last - p \in T
      OBVIOUS
    <2>2. ~ (last - p < d)
      BY <1>2, <1>3, <2>1 DEF OpToRel
    <2> QED  BY <1>1, <1>4, <2>2, VersionsAssumption
  <1> QED  BY <1>5 DEF Latest

\* No period is the mark of a missing one.
LEMMA PeriodsAreMonths ==
    ASSUME NEW p \in Period
    PROVE  p \in Nat /\ p # NoPeriod
  <1>1. p \in Nat
    BY VersionsAssumption
  <1>2. p \in Int
    BY <1>1
  <1>3. NoPeriod \notin Int
    BY PeriodAssumption
  <1> QED  BY <1>1, <1>2, <1>3

\* The next table to write is the first one left, 9 when none is.
LEMMA NextTableIs ==
    ASSUME NEW v, NEW n \in 0..8
    PROVE  LET m == NextTable(v, n)
           IN  /\ m \in (n + 1)..9
               /\ m # 9 => IsWritten(v, Tables[m])
               /\ \A k \in (n + 1)..8 : IsWritten(v, Tables[k]) => m <= k
  <1> DEFINE later == {m \in (n + 1)..8 : IsWritten(v, Tables[m])}
             First(m) == m \in later \cup {9} /\ \A k \in later : m <= k
             Skipped(i) == \A k \in later : i < k
  <1>1. later \subseteq 1..8
    OBVIOUS
  <1>2. \E m : First(m)
    <2> HIDE DEF later
    <2>1. Skipped(0)
      BY <1>1
    <2>2. \A i \in 0..7 : Skipped(i) => First(i + 1) \/ Skipped(i + 1)
      BY <1>1
    <2>3. Skipped(8) => First(9)
      BY <1>1
    <2> HIDE DEF First, Skipped
    <2>4. SUFFICES ASSUME \A m : ~First(m)  PROVE  FALSE
      OBVIOUS
    <2>5. \A i \in 0..7 : Skipped(i) => Skipped(i + 1)
      BY <2>2, <2>4
    <2>6. Skipped(1) /\ Skipped(2) /\ Skipped(3) /\ Skipped(4)
      BY <2>1, <2>5
    <2>7. Skipped(5) /\ Skipped(6) /\ Skipped(7) /\ Skipped(8)
      BY <2>5, <2>6
    <2> QED  BY <2>3, <2>4, <2>7
  <1>3. First(NextTable(v, n))
    <2> HIDE DEF later
    <2>1. First(CHOOSE m \in later \cup {9} : \A k \in later : m <= k)
      BY <1>2
    <2> QED  BY <2>1 DEF NextTable, later
  <1> QED  BY <1>3

\* What a file holds: a version of its period, once there never nothing again;
\* a registry has its compartments before its share classes.
FilesInv ==
    /\ file \in [Period -> [Table -> Version \cup {NoVersion, Torn}]]
    /\ \A p \in Period, t \in Table : file[p][t] \in Versions[p] \cup {NoVersion, Torn}
    /\ \A p \in Period :
          file[p]["share_classes"] # NoVersion => file[p]["compartments"] # NoVersion

WriterInv ==
    writer # Idle =>
        /\ writer.period \in Period /\ writer.version \in Versions[writer.period]
        /\ writer.at \in 1..8 /\ file[writer.period][Tables[writer.at]] = Torn

\* What the resolution of one registry version can be
ResolvedIn(id, registry, resolution) ==
    \E v \in Versions[registry] :
        resolution = Resolve(id, Zip[v].share_classes, Zip[v].compartments)

Resolutions ==
    {NotResolved("not_found")} \cup
        {Resolve(id, Zip[v].share_classes, Zip[w].compartments) :
            id \in Identifiers, v \in Version, w \in Version}

Readings ==
    [step : {"period", "registry", "classes", "owners", "rows"}, id : Identifiers,
     asOf : AsOf \cup {NoPeriod}, exact : BOOLEAN, registered : BOOLEAN,
     period : Period \cup {NoPeriod}, registry : Period \cup {NoPeriod},
     classes : Version \cup {NoVersion}, resolution : Resolutions]

Dated(asOf, exact, period) ==
    asOf # NoPeriod => period <= asOf /\ (exact => period = asOf)

ReaderInv ==
    reader # Idle =>
        /\ reader \in Readings
        /\ reader.step # "period" =>
              /\ reader.period \in Period /\ file[reader.period]["positions"] # NoVersion
              /\ Dated(reader.asOf, reader.exact, reader.period)
        /\ reader.step \in {"period", "registry"} =>
              reader.registry = NoPeriod /\ reader.resolution = NotResolved("not_found")
        /\ reader.step \in {"classes", "owners"} =>
              /\ reader.registry \in Period /\ reader.registry <= reader.period
              /\ file[reader.registry]["share_classes"] # NoVersion
        /\ reader.step = "owners" => reader.classes \in Versions[reader.registry]
        /\ reader.step = "rows" =>
              IF reader.registry = NoPeriod
              THEN reader.resolution = NotResolved("not_found")
              ELSE /\ reader.registry \in Period /\ reader.registry <= reader.period
                   /\ ResolvedIn(reader.id, reader.registry, reader.resolution)

Inv == FilesInv /\ WriterInv /\ ReaderInv /\ AnswerOfOneVersion

\* The eight tables in the order in which an export writes them
LEMMA TableNames ==
    /\ \A n \in 1..8 : Tables[n] \in Table
    /\ {"positions", "compartments", "share_classes"} \subseteq Table
    /\ \A n \in 1..8 : Tables[n] = "share_classes" <=> n = 4
    /\ \A n \in 1..8 : Tables[n] = "compartments" <=> n = 3
  <1>1. /\ Tables[1] = "positions" /\ Tables[2] = "funds" /\ Tables[3] = "compartments"
        /\ Tables[4] = "share_classes" /\ Tables[5] = "daily" /\ Tables[6] = "quarterly"
        /\ Tables[7] = "patrimony" /\ Tables[8] = "derivative_coverage"
    BY DEF Tables
  <1>2. \A n \in 1..8 : \/ n = 1 \/ n = 2 \/ n = 3 \/ n = 4
                        \/ n = 5 \/ n = 6 \/ n = 7 \/ n = 8
    OBVIOUS
  <1>3. \A n \in 1..8 : Tables[n] \in Table
    BY DEF Table
  <1> QED  BY <1>1, <1>2, <1>3 DEF Table

\* The registry tables are written by every export.
LEMMA AlwaysWritten ==
    ASSUME NEW v
    PROVE  IsWritten(v, Tables[2]) /\ IsWritten(v, Tables[3]) /\ IsWritten(v, Tables[4])
  BY DEF IsWritten, Tables, RegistryTables

LEMMA VersionsOf ==
    ASSUME NEW p \in Period, NEW v \in Versions[p]
    PROVE  v \in Version /\ v # NoVersion /\ v # Torn
  BY VersionsAssumption DEF Version

\* No registry query mixes two versions: each form of identifier is looked up in
\* one of the two tables.
LEMMA OneTableEach ==
    ASSUME NEW id, NEW r, NEW v \in Versions[r], NEW w \in Versions[r]
    PROVE  ResolvedIn(id, r, Resolve(id, Zip[v].share_classes, Zip[w].compartments))
  <1>1. CASE id.form \in {"isin", "class"}
    BY <1>1 DEF ResolvedIn, Resolve
  <1>2. CASE id.form \in {"compartment", "fund", "number"}
    BY <1>2 DEF ResolvedIn, Resolve
  <1>3. CASE id.form \notin {"isin", "class", "compartment", "fund", "number"}
    BY <1>3 DEF ResolvedIn, Resolve
  <1> QED  BY <1>1, <1>2, <1>3

LEMMA InitInv == Init => Inv
  <1> SUFFICES ASSUME Init  PROVE  Inv
    OBVIOUS
  <1>1. FilesInv
    BY TableNames DEF Init, FilesInv
  <1>2. WriterInv /\ ReaderInv
    BY DEF Init, WriterInv, ReaderInv
  <1>3. AnswerOfOneVersion
    BY DEF Init, AnswerOfOneVersion, NoAnswer
  <1> QED  BY <1>1, <1>2, <1>3 DEF Inv

(***************************************************************************)
(* The steps of the writer                                                 *)
(***************************************************************************)
\* A file that is there stays there.
Stays == \A p \in Period, t \in Table : file[p][t] # NoVersion => file'[p][t] # NoVersion

\* One table becomes a version of its period, the next one is opened.
LEMMA StartFiles ==
    ASSUME FilesInv, NEW p \in Period, NEW v \in Versions[p], StartExport(p, v)
    PROVE  FilesInv' /\ WriterInv' /\ Stays
  <1> DEFINE n == NextTable(v, 0)
  <1>1. n \in 1..2
    <2>1. n \in 1..9 /\ n <= 2
      BY NextTableIs, AlwaysWritten
    <2> QED  BY <2>1
  <1>2. Tables[n] \in Table /\ Tables[n] \notin {"share_classes", "compartments"}
    BY <1>1, TableNames
  <1>3. file' = [file EXCEPT ![p][Tables[n]] = Torn] /\ writer' = WriterAt(p, v, n)
    BY DEF StartExport
  <1> HIDE DEF n
  <1>4. FilesInv' /\ Stays
    BY <1>2, <1>3, TableNames, VersionsAssumption DEF FilesInv, Stays
  <1>5. WriterInv'
    <2>1. file'[p][Tables[n]] = Torn
      BY <1>2, <1>3 DEF FilesInv
    <2> QED  BY <1>1, <1>3, <2>1 DEF WriterInv, WriterAt
  <1> QED  BY <1>4, <1>5

\* An export replaces one table by that of its version, in the order of Tables.
LEMMA WriteFiles ==
    ASSUME FilesInv, WriterInv, WriteTable
    PROVE  FilesInv' /\ WriterInv' /\ Stays
  <1> DEFINE p == writer.period
             v == writer.version
             a == writer.at
             n == NextTable(v, a)
             done == [file EXCEPT ![p][Tables[a]] = v]
  <1>1. p \in Period /\ v \in Versions[p] /\ a \in 1..8
    BY DEF WriteTable, WriterInv
  <1>2. n \in (a + 1)..9 /\ (a < 3 => n <= 3)
    <2>1. n \in (a + 1)..9 /\ \A k \in (a + 1)..8 : IsWritten(v, Tables[k]) => n <= k
      BY <1>1, NextTableIs
    <2> HIDE DEF n
    <2>2. a < 3 => n <= 3
      BY <1>1, <2>1, AlwaysWritten
    <2> QED  BY <2>1, <2>2
  <1>3. /\ writer' = WriterAt(p, v, n)
        /\ file' = IF n = 9 THEN done ELSE [done EXCEPT ![p][Tables[n]] = Torn]
    BY DEF WriteTable, Done
  <1>4. v \in Version /\ v # NoVersion
    BY <1>1, VersionsOf
  <1>5. Tables[a] \in Table /\ (n # 9 => Tables[n] \in Table)
    BY <1>1, <1>2, TableNames
  <1>6. n # 9 /\ Tables[n] = "share_classes" => Tables[a] = "compartments"
    BY <1>1, <1>2, TableNames
  <1>7. file[p][Tables[a]] = Torn
    BY DEF WriteTable, WriterInv
  <1> HIDE DEF p, v, a, n
  <1>8. /\ done \in [Period -> [Table -> Version \cup {NoVersion, Torn}]]
        /\ \A q \in Period, t \in Table :
              done[q][t] = IF q = p /\ t = Tables[a] THEN v ELSE file[q][t]
    BY <1>1, <1>4, <1>5 DEF FilesInv
  <1> HIDE DEF done
  <1>9. /\ file' \in [Period -> [Table -> Version \cup {NoVersion, Torn}]]
        /\ \A q \in Period, t \in Table :
              file'[q][t] = IF n # 9 /\ q = p /\ t = Tables[n] THEN Torn ELSE done[q][t]
    BY <1>1, <1>3, <1>5, <1>8
  <1>10. Stays
    BY <1>4, <1>8, <1>9, VersionsAssumption DEF Stays
  <1>11. \A q \in Period, t \in Table : file'[q][t] \in Versions[q] \cup {NoVersion, Torn}
    BY <1>1, <1>8, <1>9 DEF FilesInv
  <1>12. ASSUME NEW q \in Period, file'[q]["share_classes"] # NoVersion
         PROVE  file'[q]["compartments"] # NoVersion
    <2>1. CASE file[q]["share_classes"] # NoVersion
      BY <1>10, <2>1, TableNames DEF FilesInv, Stays
    <2>2. CASE q = p /\ Tables[a] = "share_classes"
      BY <1>7, <2>1, <2>2, VersionsAssumption
    <2>3. CASE q = p /\ n # 9 /\ Tables[n] = "share_classes"
      BY <1>4, <1>6, <1>8, <1>9, <2>3, TableNames, VersionsAssumption
    <2> QED  BY <1>8, <1>9, <1>12, <2>1, <2>2, <2>3, TableNames
  <1>13. WriterInv'
    <2>1. n # 9 => n \in 1..8
      BY <1>1, <1>2
    <2>2. n # 9 => file'[p][Tables[n]] = Torn
      BY <1>1, <1>5, <1>9
    <2> QED  BY <1>1, <1>3, <2>1, <2>2 DEF WriterInv, WriterAt
  <1> QED  BY <1>9, <1>10, <1>11, <1>12, <1>13 DEF FilesInv

\* A dead export leaves its table torn, or whole and the next one as it was.
LEMMA DeathFiles ==
    ASSUME FilesInv, WriterInv, WriterDies
    PROVE  FilesInv' /\ WriterInv' /\ Stays
  <1> DEFINE p == writer.period
             v == writer.version
             a == writer.at
  <1>1. /\ p \in Period /\ v \in Versions[p] /\ a \in 1..8
        /\ file[p][Tables[a]] = Torn
    BY DEF WriterDies, WriterInv
  <1>2. WriterInv'
    BY DEF WriterDies, WriterInv
  <1>3. CASE file' = file
    BY <1>2, <1>3 DEF FilesInv, Stays
  <1>4. CASE file' = [file EXCEPT ![p][Tables[a]] = v]
    <2>1. v \in Version /\ v # NoVersion /\ Tables[a] \in Table
      BY <1>1, VersionsOf, TableNames
    <2> HIDE DEF p, v, a
    <2>2. /\ file' \in [Period -> [Table -> Version \cup {NoVersion, Torn}]]
          /\ \A q \in Period, t \in Table :
                file'[q][t] = IF q = p /\ t = Tables[a] THEN v ELSE file[q][t]
      BY <1>1, <1>4, <2>1 DEF FilesInv
    <2>3. Stays
      BY <2>1, <2>2 DEF Stays
    <2>4. \A q \in Period, t \in Table : file'[q][t] \in Versions[q] \cup {NoVersion, Torn}
      BY <1>1, <2>2 DEF FilesInv
    <2>5. ASSUME NEW q \in Period, file'[q]["share_classes"] # NoVersion
          PROVE  file'[q]["compartments"] # NoVersion
      <3>1. file[q]["share_classes"] # NoVersion
        BY <1>1, <2>2, <2>5, TableNames, VersionsAssumption
      <3> QED  BY <2>3, <3>1, TableNames DEF FilesInv, Stays
    <2> QED  BY <1>2, <2>2, <2>3, <2>4, <2>5 DEF FilesInv
  <1> QED  BY <1>3, <1>4 DEF WriterDies, Done

\* The reader's position survives what an export does to the files.
LEMMA ReaderStays ==
    ASSUME ReaderInv, Stays, reader' = reader
    PROVE  ReaderInv'
  <1> SUFFICES ASSUME reader # Idle  PROVE  ReaderInv'
    BY DEF ReaderInv
  <1>1. reader.step # "period" => file'[reader.period]["positions"] # NoVersion
    BY TableNames DEF ReaderInv, Stays
  <1>2. reader.step \in {"classes", "owners"} => file'[reader.registry]["share_classes"] # NoVersion
    BY TableNames DEF ReaderInv, Stays
  <1> QED  BY <1>1, <1>2 DEF ReaderInv, Readings, ResolvedIn, Dated

(***************************************************************************)
(* The steps of the reader                                                 *)
(***************************************************************************)
LEMMA FilesStay ==
    ASSUME FilesInv, WriterInv, UNCHANGED <<file, writer>>
    PROVE  FilesInv' /\ WriterInv'
  BY DEF FilesInv, WriterInv

\* A file that can be read, and is there, is a version of its period.
LEMMA ReadableFile ==
    ASSUME FilesInv, NEW p \in Period, NEW t \in Table, file[p][t] # NoVersion,
           file[p][t] # Torn
    PROVE  file[p][t] \in Versions[p] /\ file[p][t] \in Version
  BY VersionsOf DEF FilesInv

\* A table with rows is there.
LEMMA LoadedFile ==
    ASSUME NEW t, NEW p \in PeriodsOf(t)
    PROVE  p \in Period /\ file[p][t] # NoVersion /\ file[p][t] # Torn
  BY VersionsAssumption DEF PeriodsOf, Content, RowsOf

\* A query begins: nothing is read yet.
LEMMA AskReads ==
    ASSUME NEW id \in Identifiers, NEW p \in AsOf \cup {NoPeriod}, NEW e \in BOOLEAN,
           Ask(id, p, e)
    PROVE  ReaderInv' /\ AnswerOfOneVersion'
  <1>1. Exists("share_classes") \in BOOLEAN
    BY DEF Exists
  <1>2. reader' \in Readings /\ reader'.step = "period" /\ reader'.registry = NoPeriod
        /\ reader'.resolution = NotResolved("not_found")
    BY <1>1 DEF Ask, Readings, Resolutions
  <1> QED  BY <1>2 DEF Ask, ReaderInv, AnswerOfOneVersion, NoAnswer

\* The period chosen is one whose positions are on disk.
LEMMA PeriodReads ==
    ASSUME FilesInv, ReaderInv, AnswerOfOneVersion, PickPeriod
    PROVE  ReaderInv' /\ AnswerOfOneVersion'
  <1> DEFINE found == PeriodsOf("positions") \cap Searched
  <1>1. CASE found = {}
    BY <1>1 DEF PickPeriod, Answered, ReaderInv, AnswerOfOneVersion
  <1>2. CASE found # {}
    <2>1. reader \in Readings /\ reader.step = "period" /\ reader.registry = NoPeriod
          /\ reader.resolution = NotResolved("not_found")
      BY DEF PickPeriod, ReaderInv, Idle
    <2>2. /\ reader' = [reader EXCEPT !.step = "registry", !.period = Latest(found)]
          /\ answer' = answer /\ file' = file
      BY <1>2 DEF PickPeriod
    <2>3. found \subseteq Period
      BY DEF PeriodsOf
    <2>4. Latest(found) \in found
      BY <1>2, <2>3, LatestIs
    <2>5. Latest(found) \in Period /\ file[Latest(found)]["positions"] # NoVersion
      BY <2>4, LoadedFile
    <2>6. Dated(reader.asOf, reader.exact, Latest(found))
      <3>1. reader.asOf # NoPeriod => reader.asOf \in Nat
        BY <2>1, VersionsAssumption DEF Readings
      <3>2. reader.asOf # NoPeriod => Latest(found) <= reader.asOf
        BY <2>4, <3>1 DEF Searched, UpTo
      <3>3. reader.exact /\ reader.asOf # NoPeriod => Latest(found) = reader.asOf
        BY <2>4 DEF Searched
      <3> HIDE DEF found
      <3> QED  BY <3>2, <3>3 DEF Dated
    <2> HIDE DEF found
    <2>7. reader' \in Readings /\ reader'.step = "registry" /\ reader'.period = Latest(found)
          /\ reader'.asOf = reader.asOf /\ reader'.exact = reader.exact
          /\ reader'.registry = NoPeriod /\ reader'.resolution = NotResolved("not_found")
      BY <2>1, <2>2, <2>5 DEF Readings
    <2> QED  BY <2>2, <2>5, <2>6, <2>7 DEF ReaderInv, AnswerOfOneVersion
  <1> QED  BY <1>1, <1>2

\* So is the registry, and it is no later than asked for.
LEMMA RegistryReads ==
    ASSUME FilesInv, ReaderInv, AnswerOfOneVersion, PickRegistry
    PROVE  ReaderInv' /\ AnswerOfOneVersion'
  <1> DEFINE loaded == UpTo(PeriodsOf("share_classes"), RegistryCutoff)
             found == reader.registered /\ loaded # {}
  <1>1. /\ reader \in Readings /\ reader.step = "registry"
        /\ reader.period \in Period /\ file[reader.period]["positions"] # NoVersion
        /\ Dated(reader.asOf, reader.exact, reader.period)
        /\ reader.resolution = NotResolved("not_found")
    BY DEF PickRegistry, ReaderInv, Idle
  <1>2. /\ reader' = [reader EXCEPT !.step = IF found THEN "classes" ELSE "rows",
                                    !.registry = IF found THEN Latest(loaded) ELSE NoPeriod]
        /\ answer' = answer /\ file' = file
    BY DEF PickRegistry
  <1>3. ASSUME found
        PROVE  /\ Latest(loaded) \in Period /\ Latest(loaded) <= reader.period
               /\ file[Latest(loaded)]["share_classes"] # NoVersion
    <2>1. reader.period # NoPeriod
      BY <1>1, PeriodsAreMonths
    <2>2. loaded = {q \in PeriodsOf("share_classes") : q <= reader.period}
      BY <2>1 DEF UpTo, RegistryCutoff
    <2>3. loaded \subseteq Period
      BY <2>2 DEF PeriodsOf
    <2>4. Latest(loaded) \in loaded
      BY <1>3, <2>3, LatestIs
    <2> QED  BY <2>2, <2>4, LoadedFile
  <1> HIDE DEF loaded, found
  <1>4. CASE found
    <2>1. reader' \in Readings /\ reader'.step = "classes" /\ reader'.registry = Latest(loaded)
          /\ reader'.period = reader.period /\ reader'.asOf = reader.asOf
          /\ reader'.exact = reader.exact
      BY <1>1, <1>2, <1>3, <1>4 DEF Readings
    <2> QED  BY <1>1, <1>2, <1>3, <1>4, <2>1 DEF ReaderInv, AnswerOfOneVersion
  <1>5. CASE ~found
    <2>1. reader' \in Readings /\ reader'.step = "rows" /\ reader'.registry = NoPeriod
          /\ reader'.period = reader.period /\ reader'.asOf = reader.asOf
          /\ reader'.exact = reader.exact /\ reader'.resolution = reader.resolution
      BY <1>1, <1>2, <1>5 DEF Readings
    <2> QED  BY <1>1, <1>2, <2>1 DEF ReaderInv, AnswerOfOneVersion
  <1> QED  BY <1>4, <1>5

\* The classes read are those of one version of the registry.
LEMMA ClassesRead ==
    ASSUME FilesInv, ReaderInv, AnswerOfOneVersion, ReadClasses
    PROVE  ReaderInv' /\ AnswerOfOneVersion'
  <1> DEFINE v == file[reader.registry]["share_classes"]
  <1>1. /\ reader \in Readings /\ reader.step = "classes"
        /\ reader.period \in Period /\ file[reader.period]["positions"] # NoVersion
        /\ Dated(reader.asOf, reader.exact, reader.period)
        /\ reader.registry \in Period /\ reader.registry <= reader.period /\ v # NoVersion
    BY DEF ReadClasses, ReaderInv, Idle
  <1>2. /\ reader' = [reader EXCEPT !.step = "owners", !.classes = v]
        /\ answer' = answer /\ file' = file
    BY DEF ReadClasses
  <1>3. v \in Versions[reader.registry] /\ v \in Version
    <2>1. v # Torn
      BY DEF ReadClasses, Readable
    <2> QED  BY <1>1, <2>1, TableNames, ReadableFile
  <1>4. file[reader.registry]["share_classes"] # NoVersion
    BY <1>1
  <1> HIDE DEF v
  <1>5. reader' \in Readings /\ reader'.step = "owners" /\ reader'.registry = reader.registry
        /\ reader'.period = reader.period /\ reader'.asOf = reader.asOf
        /\ reader'.exact = reader.exact /\ reader'.classes = v
    BY <1>1, <1>2, <1>3 DEF Readings
  <1> QED  BY <1>1, <1>2, <1>3, <1>4, <1>5 DEF ReaderInv, AnswerOfOneVersion

\* The owners read are those of one version of the registry.
LEMMA OwnersRead ==
    ASSUME FilesInv, ReaderInv, AnswerOfOneVersion, ReadOwners
    PROVE  ReaderInv' /\ AnswerOfOneVersion'
  <1> DEFINE v == reader.classes
             w == file[reader.registry]["compartments"]
             found == Resolve(reader.id, RowsOf(v, "share_classes"),
                              Content(reader.registry, "compartments"))
  <1>1. /\ reader \in Readings /\ reader.step = "owners"
        /\ reader.period \in Period /\ file[reader.period]["positions"] # NoVersion
        /\ Dated(reader.asOf, reader.exact, reader.period)
        /\ reader.registry \in Period /\ reader.registry <= reader.period
        /\ file[reader.registry]["share_classes"] # NoVersion
        /\ v \in Versions[reader.registry]
    BY DEF ReadOwners, ReaderInv, Idle
  <1>2. reader.registry # NoPeriod
    BY <1>1, PeriodsAreMonths
  <1>3. w \in Versions[reader.registry] /\ w \in Version /\ v \in Version
    <2>1. w # Torn
      BY DEF ReadOwners, Readable
    <2>2. w # NoVersion
      BY <1>1 DEF FilesInv
    <2> QED  BY <1>1, <2>1, <2>2, TableNames, ReadableFile, VersionsOf
  <1>4. found = Resolve(reader.id, Zip[v].share_classes, Zip[w].compartments)
    BY <1>3 DEF RowsOf, Content
  <1>5. ResolvedIn(reader.id, reader.registry, found)
    BY <1>3, <1>4, <1>1, OneTableEach
  <1>6. found \in Resolutions
    BY <1>1, <1>3, <1>4 DEF Resolutions, Readings
  <1>7. \/ Answered("not_found")
        \/ /\ reader' = [reader EXCEPT !.step = "rows", !.resolution = found,
                                       !.classes = NoVersion]
           /\ answer' = answer
    BY DEF ReadOwners
  <1>8. file' = file
    BY DEF ReadOwners
  <1> HIDE DEF v, w, found
  <1>9. CASE Answered("not_found")
    BY <1>9 DEF Answered, ReaderInv, AnswerOfOneVersion
  <1>10. CASE /\ reader' = [reader EXCEPT !.step = "rows", !.resolution = found,
                                          !.classes = NoVersion]
              /\ answer' = answer
    <2>1. reader' \in Readings /\ reader'.step = "rows" /\ reader'.registry = reader.registry
          /\ reader'.period = reader.period /\ reader'.asOf = reader.asOf
          /\ reader'.exact = reader.exact /\ reader'.id = reader.id
          /\ reader'.resolution = found
      BY <1>1, <1>6, <1>10 DEF Readings
    <2> QED  BY <1>1, <1>2, <1>5, <1>8, <1>10, <2>1 DEF ReaderInv, AnswerOfOneVersion
  <1> QED  BY <1>7, <1>9, <1>10

\* The positions read are those of one version of the period.
LEMMA PositionsRead ==
    ASSUME FilesInv, ReaderInv, AnswerOfOneVersion, ReadPositions
    PROVE  ReaderInv' /\ AnswerOfOneVersion'
  <1> DEFINE v == file[reader.period]["positions"]
             rows == Content(reader.period, "positions")
             owners == reader.resolution.owners
             r == reader
  <1>1. /\ reader \in Readings /\ reader.step = "rows"
        /\ reader.period \in Period /\ v # NoVersion
        /\ Dated(reader.asOf, reader.exact, reader.period)
        /\ IF reader.registry = NoPeriod
           THEN reader.resolution = NotResolved("not_found")
           ELSE /\ reader.registry \in Period /\ reader.registry <= reader.period
                /\ ResolvedIn(reader.id, reader.registry, reader.resolution)
    BY DEF ReadPositions, ReaderInv, Idle
  <1>2. v \in Versions[reader.period] /\ v \in Version
    <2>1. v # Torn
      BY DEF ReadPositions, Readable
    <2> QED  BY <1>1, <2>1, TableNames, ReadableFile
  <1>3. rows = Zip[v].positions /\ Zip[v] \in Contents(reader.period)
    BY <1>2 DEF Content, RowsOf, Contents
  <1>4. \/ Answered("not_found")
        \/ /\ answer' = [status |-> "rows", id |-> reader.id, asOf |-> reader.asOf,
                         exact |-> reader.exact, period |-> reader.period,
                         registry |-> reader.registry,
                         rows |-> IF owners = {} THEN ByKey(reader.id, rows)
                                  ELSE {x \in rows : x.owner \in owners}]
           /\ reader' = Idle
    BY DEF ReadPositions
  <1>5. CASE Answered("not_found")
    BY <1>5 DEF Answered, ReaderInv, AnswerOfOneVersion
  <1>6. CASE /\ answer' = [status |-> "rows", id |-> reader.id, asOf |-> reader.asOf,
                           exact |-> reader.exact, period |-> reader.period,
                           registry |-> reader.registry,
                           rows |-> IF owners = {} THEN ByKey(reader.id, rows)
                                    ELSE {x \in rows : x.owner \in owners}]
             /\ reader' = Idle
    <2>1. /\ answer'.id = reader.id /\ answer'.asOf = reader.asOf
          /\ answer'.exact = reader.exact /\ answer'.period = reader.period
          /\ answer'.registry = reader.registry
          /\ answer'.rows = IF owners = {} THEN ByKey(reader.id, rows)
                            ELSE {x \in rows : x.owner \in owners}
      BY <1>6
    <2>2. CASE reader.registry = NoPeriod
      <3>1. owners = {}
        BY <1>1, <2>2 DEF NotResolved
      <3> QED  BY <1>1, <1>3, <1>6, <2>1, <2>2, <3>1
                 DEF AnswerOfOneVersion, ReaderInv, Dated
    <2>3. CASE reader.registry # NoPeriod
      <3>1. PICK w \in Versions[reader.registry] :
                reader.resolution = Resolve(reader.id, Zip[w].share_classes, Zip[w].compartments)
        BY <1>1, <2>3 DEF ResolvedIn
      <3>2. Zip[w] \in Contents(reader.registry)
        BY DEF Contents
      <3>3. AnswerIs(answer', Zip[v], Zip[w])
        BY <1>3, <2>1, <3>1 DEF AnswerIs
      <3> QED  BY <1>1, <1>3, <1>6, <2>1, <2>3, <3>2, <3>3
                 DEF AnswerOfOneVersion, ReaderInv, Dated
    <2> QED  BY <2>2, <2>3
  <1> QED  BY <1>4, <1>5, <1>6

\* A torn file ends the query without an answer, or it does not begin.
LEMMA FailReads ==
    ASSUME ReaderInv, ReadFails \/ AskFails
    PROVE  ReaderInv' /\ AnswerOfOneVersion'
  BY DEF ReadFails, AskFails, Answered, ReaderInv, AnswerOfOneVersion

LEMMA StepInv == Inv /\ [Next]_vars => Inv'
  <1> SUFFICES ASSUME Inv, [Next]_vars  PROVE  Inv'
    OBVIOUS
  <1> USE DEF Inv
  <1>1. ASSUME NEW p \in Period, NEW v \in Versions[p], StartExport(p, v)
        PROVE  Inv'
    <2>1. FilesInv' /\ WriterInv' /\ Stays
      BY <1>1, StartFiles
    <2>2. ReaderInv'
      BY <1>1, <2>1, ReaderStays DEF StartExport
    <2>3. AnswerOfOneVersion'
      BY <1>1 DEF StartExport, AnswerOfOneVersion, NoAnswer
    <2> QED  BY <2>1, <2>2, <2>3
  <1>2. CASE WriteTable
    <2>1. FilesInv' /\ WriterInv' /\ Stays
      BY <1>2, WriteFiles
    <2>2. ReaderInv'
      BY <1>2, <2>1, ReaderStays DEF WriteTable
    <2>3. AnswerOfOneVersion'
      BY <1>2 DEF WriteTable, AnswerOfOneVersion, NoAnswer
    <2> QED  BY <2>1, <2>2, <2>3
  <1>3. ASSUME NEW id \in Identifiers, NEW p \in AsOf \cup {NoPeriod}, NEW e \in BOOLEAN,
               Ask(id, p, e)
        PROVE  Inv'
    <2>1. FilesInv' /\ WriterInv'
      BY <1>3, FilesStay DEF Ask
    <2> QED  BY <1>3, <2>1, AskReads
  <1>4. CASE PickPeriod
    <2>1. FilesInv' /\ WriterInv'
      BY <1>4, FilesStay DEF PickPeriod
    <2> QED  BY <1>4, <2>1, PeriodReads
  <1>5. CASE PickRegistry
    <2>1. FilesInv' /\ WriterInv'
      BY <1>5, FilesStay DEF PickRegistry
    <2> QED  BY <1>5, <2>1, RegistryReads
  <1>6. CASE ReadClasses
    <2>1. FilesInv' /\ WriterInv'
      BY <1>6, FilesStay DEF ReadClasses
    <2> QED  BY <1>6, <2>1, ClassesRead
  <1>7. CASE ReadOwners
    <2>1. FilesInv' /\ WriterInv'
      BY <1>7, FilesStay DEF ReadOwners
    <2> QED  BY <1>7, <2>1, OwnersRead
  <1>8. CASE ReadPositions
    <2>1. FilesInv' /\ WriterInv'
      BY <1>8, FilesStay DEF ReadPositions
    <2> QED  BY <1>8, <2>1, PositionsRead
  <1>9. CASE ReadFails \/ AskFails
    <2>1. FilesInv' /\ WriterInv'
      BY <1>9, FilesStay DEF ReadFails, AskFails
    <2> QED  BY <1>9, <2>1, FailReads
  <1>10. CASE UNCHANGED vars
    <2>1. FilesInv' /\ WriterInv'
      BY <1>10, FilesStay DEF vars
    <2>2. ReaderInv' /\ AnswerOfOneVersion'
      BY <1>10 DEF vars, ReaderInv, AnswerOfOneVersion
    <2> QED  BY <2>1, <2>2
  <1>11. CASE WriterDies
    <2>1. FilesInv' /\ WriterInv' /\ Stays
      BY <1>11, DeathFiles
    <2>2. ReaderInv'
      BY <1>11, <2>1, ReaderStays DEF WriterDies
    <2>3. AnswerOfOneVersion'
      BY <1>11 DEF WriterDies, AnswerOfOneVersion, NoAnswer
    <2> QED  BY <2>1, <2>2, <2>3
  <1> QED  BY <1>1, <1>2, <1>3, <1>4, <1>5, <1>6, <1>7, <1>8, <1>9, <1>10, <1>11 DEF Next

\* What holdings answers while any exports rewrite any periods beside it is what
\* one published registry and one published portfolio say, neither later than
\* asked for.  It is why a torn file stops the reader and why an identifier is
\* looked up in one registry table only: had Resolve read both, the two could be
\* of different versions.
THEOREM OneVersionAnswers == Spec => []AnswerOfOneVersion
  <1>1. Inv => AnswerOfOneVersion
    BY DEF Inv
  <1> QED  BY <1>1, InitInv, StepInv, PTL DEF Spec

=============================================================================
