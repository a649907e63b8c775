------------------------------ MODULE FoldFacts ------------------------------
(***************************************************************************)
(* Facts about the folds of the community modules that the proofs of other *)
(* modules need: that a fold is what its recursive definition says, what a *)
(* sum over a finite set is, and what is in sequences put together out of  *)
(* others.  Inductions go over the members of a set instead of over a      *)
(* predicate, so that any prover can use them.                             *)
(***************************************************************************)
EXTENDS SequencesExt, SequenceTheorems, FiniteSetTheorems, TLAPS

\* A set with zero and with every successor of its members has all numbers.
LEMMA NatSetInduction ==
    ASSUME NEW A, 0 \in A, \A n \in Nat : n \in A => n + 1 \in A
    PROVE  \A n \in Nat : n \in A
<1> SUFFICES ASSUME Nat \ A # {} PROVE FALSE
  OBVIOUS
<1> DEFINE B == Nat \ A
<1>a. B \subseteq Nat /\ B # {}
  OBVIOUS
<1> HIDE DEF B
<1>1. PICK m \in B : \A n \in B : ~ (<<n, m>> \in OpToRel(<, Nat))
  BY <1>a, NatLessThanWellFounded, WFMin
<1>2. m \in Nat /\ m \notin A
  BY <1>1 DEF B
<1>3. \A n \in Nat : n \notin A => ~ (n < m)
  BY <1>1, <1>2 DEF OpToRel, B
<1>4. m # 0
  BY <1>2
<1>5. m - 1 \in Nat /\ m - 1 < m
  BY <1>2, <1>4
<1>6. m - 1 \in A
  BY <1>3, <1>5
<1>7. (m - 1) + 1 \in A
  BY <1>5, <1>6
<1>8. (m - 1) + 1 = m
  BY <1>2
<1> QED
  BY <1>2, <1>7, <1>8

\* The same for the subsets of a finite set.
LEMMA SubsetInduction ==
    ASSUME NEW S, IsFiniteSet(S), NEW A, {} \in A,
           \A s \in SUBSET S : \A x \in S \ s : s \in A => s \cup {x} \in A
    PROVE  \A s \in SUBSET S : s \in A
<1> DEFINE B == {n \in Nat : \A s \in SUBSET S : Cardinality(s) = n => s \in A}
<1>1. \A s \in SUBSET S : IsFiniteSet(s) /\ Cardinality(s) \in Nat
  BY FS_Subset, FS_CardinalityType
<1>2. 0 \in B
  BY <1>1, FS_EmptySet
<1>3. ASSUME NEW n \in Nat, n \in B PROVE n + 1 \in B
  <2> SUFFICES ASSUME NEW s \in SUBSET S, Cardinality(s) = n + 1 PROVE s \in A
    OBVIOUS
  <2>1. s # {}
    BY <1>1, FS_EmptySet
  <2>2. PICK x : x \in s
    BY <2>1
  <2>3. Cardinality(s \ {x}) = n
    <3>1. IsFiniteSet(s)
      BY <1>1
    <3>2. Cardinality(s \ {x}) = Cardinality(s) - 1
      BY <3>1, <2>2, FS_RemoveElement
    <3> QED
      BY <3>2
  <2>4. s \ {x} \in A
    BY <1>3, <2>3
  <2>5. s = (s \ {x}) \cup {x} /\ x \in S \ (s \ {x})
    BY <2>2
  <2>6. PICK r \in SUBSET S : r = s \ {x}
    OBVIOUS
  <2> QED
    BY <2>4, <2>5, <2>6
<1> HIDE DEF B
<1>4. \A n \in Nat : n \in B
  BY <1>2, <1>3, NatSetInduction
<1> QED
  BY <1>1, <1>4 DEF B

-----------------------------------------------------------------------------
(* Recursion over the subsets of a finite set, an element taken out of     *)
(* each by ch and put to the value for the rest by F.                      *)

\* ch takes an element out of every set.
Picks(ch, S) == \A s \in SUBSET S : s # {} => ch[s] \in s

\* g is the recursion.
Recurs(g, S, V, base, F, ch) ==
    /\ g \in [SUBSET S -> V]
    /\ \A s \in SUBSET S : g[s] = IF s = {} THEN base ELSE F[<<ch[s], g[s \ {ch[s]}]>>]

LEMMA RecursionExists ==
    ASSUME NEW S, IsFiniteSet(S), NEW V, NEW base \in V, NEW F \in [S \X V -> V],
           NEW ch, Picks(ch, S)
    PROVE  \E g : Recurs(g, S, V, base, F, ch)
<1> DEFINE Small(n) == {s \in SUBSET S : Cardinality(s) <= n}
           Good(g, n) == \A s \in Small(n) :
                            g[s] = IF s = {} THEN base ELSE F[<<ch[s], g[s \ {ch[s]}]>>]
           A == {n \in Nat : \E g \in [Small(n) -> V] : Good(g, n)}
<1>1. \A s \in SUBSET S : IsFiniteSet(s) /\ Cardinality(s) \in Nat
  BY FS_Subset, FS_CardinalityType
<1>2. 0 \in A
  <2>1. \A s \in Small(0) : s = {}
    BY <1>1, FS_EmptySet
  <2>2. Good([s \in Small(0) |-> base], 0)
    BY <2>1
  <2> QED
    BY <2>2
<1>3. ASSUME NEW n \in Nat, n \in A PROVE n + 1 \in A
  <2>1. PICK g \in [Small(n) -> V] : Good(g, n)
    BY <1>3
  <2> DEFINE h == [s \in Small(n + 1) |->
                      IF s = {} THEN base ELSE F[<<ch[s], g[s \ {ch[s]}]>>]]
  <2>2. ASSUME NEW s \in Small(n + 1), s # {} PROVE s \ {ch[s]} \in Small(n)
    <3>1. /\ IsFiniteSet(s) /\ Cardinality(s) \in Nat /\ Cardinality(s) <= n + 1
          /\ ch[s] \in s /\ s \in SUBSET S
      BY <1>1, <2>2 DEF Picks
    <3>2. Cardinality(s \ {ch[s]}) = Cardinality(s) - 1
      BY <3>1, FS_RemoveElement
    <3>3. Cardinality(s \ {ch[s]}) <= n
      BY <3>1, <3>2
    <3> QED
      BY <3>1, <3>3
  <2>3. h \in [Small(n + 1) -> V]
    BY <2>1, <2>2 DEF Picks
  <2>4. ASSUME NEW s \in Small(n) PROVE s \in Small(n + 1) /\ h[s] = g[s]
    <3>1. s \in Small(n + 1)
      BY <1>1
    <3>2. g[s] = IF s = {} THEN base ELSE F[<<ch[s], g[s \ {ch[s]}]>>]
      BY <2>1
    <3> QED
      BY <3>1, <3>2
  <2>5. Good(h, n + 1)
    BY <2>2, <2>4
  <2> HIDE DEF Small, Good, h
  <2> QED
    BY <2>3, <2>5
<1> HIDE DEF A
<1>4. Cardinality(S) \in A
  BY <1>1, <1>2, <1>3, NatSetInduction
<1>5. \A s \in SUBSET S : Cardinality(s) <= Cardinality(S)
  BY FS_Subset
<1>6. Small(Cardinality(S)) = SUBSET S
  BY <1>5
<1> QED
  BY <1>4, <1>6 DEF A, Recurs

-----------------------------------------------------------------------------
(* Sums.                                                                   *)

\* Two functions that go the same way from each rest to the whole are the same.
SameWay(g, h, S, ch) ==
    /\ g[{}] = h[{}]
    /\ \A s \in SUBSET S : s # {} /\ g[s \ {ch[s]}] = h[s \ {ch[s]}] => g[s] = h[s]

LEMMA RecursionUnique ==
    ASSUME NEW S, IsFiniteSet(S), NEW ch, Picks(ch, S), NEW g, NEW h, SameWay(g, h, S, ch)
    PROVE  \A s \in SUBSET S : g[s] = h[s]
<1> DEFINE A == {n \in Nat : \A s \in SUBSET S : Cardinality(s) = n => g[s] = h[s]}
<1>1. \A s \in SUBSET S : IsFiniteSet(s) /\ Cardinality(s) \in Nat
  BY FS_Subset, FS_CardinalityType
<1>2. 0 \in A
  BY <1>1, FS_EmptySet DEF SameWay
<1>3. ASSUME NEW n \in Nat, n \in A PROVE n + 1 \in A
  <2> SUFFICES ASSUME NEW s \in SUBSET S, Cardinality(s) = n + 1 PROVE g[s] = h[s]
    OBVIOUS
  <2>1. s # {}
    BY <1>1, FS_EmptySet
  <2>2. ch[s] \in s /\ IsFiniteSet(s) /\ s \ {ch[s]} \in SUBSET S
    BY <1>1, <2>1 DEF Picks
  <2>3. Cardinality(s \ {ch[s]}) = Cardinality(s) - 1
    BY <2>2, FS_RemoveElement
  <2>4. g[s \ {ch[s]}] = h[s \ {ch[s]}]
    BY <1>3, <2>2, <2>3
  <2> QED
    BY <2>1, <2>4 DEF SameWay
<1> HIDE DEF A
<1>4. \A n \in Nat : n \in A
  BY <1>2, <1>3, NatSetInduction
<1> QED
  BY <1>1, <1>4 DEF A

\* g sums f up over the subsets of S.
SumsUp(g, S, f) ==
    /\ g \in [SUBSET S -> Nat]
    /\ \A s \in SUBSET S :
          g[s] = IF s = {} THEN 0
                 ELSE f[CHOOSE x \in s : TRUE] + g[s \ {CHOOSE x \in s : TRUE}]

\* The sum over a set is what its recursive definition says.
LEMMA SumRecursion ==
    ASSUME NEW S, IsFiniteSet(S), NEW f, \A x \in S : f[x] \in Nat
    PROVE  \E g : SumsUp(g, S, f) /\ g[S] = SumFunctionOnSet(f, S)
<1> DEFINE ch == [s \in SUBSET S |-> CHOOSE x \in s : TRUE]
           F == [p \in S \X Nat |-> f[p[1]] + p[2]]
           Body(g) == [s \in SUBSET S |->
                         IF s = {} THEN 0
                         ELSE f[CHOOSE x \in s : TRUE] + g[s \ {CHOOSE x \in s : TRUE}]]
           it == CHOOSE g : g = Body(g)
<1>1. Picks(ch, S)
  BY DEF Picks
<1>2. F \in [S \X Nat -> Nat]
  OBVIOUS
<1>3. PICK g \in [SUBSET S -> Nat] :
         \A s \in SUBSET S : g[s] = IF s = {} THEN 0 ELSE F[<<ch[s], g[s \ {ch[s]}]>>]
  <2>1. PICK N, z : N = Nat /\ z = 0
    OBVIOUS
  <2>2. F \in [S \X N -> N] /\ z \in N
    BY <1>2, <2>1
  <2> HIDE DEF ch, F
  <2>3. \E h : Recurs(h, S, N, z, F, ch)
    BY <1>1, <2>2, RecursionExists
  <2> QED
    BY <2>1, <2>3 DEF Recurs
<1>4. g = Body(g)
  BY <1>1, <1>3 DEF Picks
<1>5. it = Body(it)
  BY <1>4
<1>6. SumFunctionOnSet(f, S) = it[S]
  BY DEF SumFunctionOnSet, FoldFunctionOnSet, MapThenFoldSet
<1>7. \A s \in SUBSET S : it[s] = g[s]
  <2>1. ASSUME NEW h, h = Body(h) PROVE \A s \in SUBSET S : h[s] = g[s]
    <3>1. \A s \in SUBSET S :
            /\ h[s] = IF s = {} THEN 0
                      ELSE f[CHOOSE x \in s : TRUE] + h[s \ {CHOOSE x \in s : TRUE}]
            /\ g[s] = IF s = {} THEN 0
                      ELSE f[CHOOSE x \in s : TRUE] + g[s \ {CHOOSE x \in s : TRUE}]
      BY <2>1, <1>4
    <3>2. h[{}] = g[{}]
      BY <3>1
    <3>3. \A s \in SUBSET S :
              s # {} /\ h[s \ {ch[s]}] = g[s \ {ch[s]}] => h[s] = g[s]
      BY <3>1
    <3>4. SameWay(h, g, S, ch)
      BY <3>2, <3>3 DEF SameWay
    <3> HIDE DEF ch
    <3> QED
      BY <1>1, <3>4, RecursionUnique
  <2> QED
    BY <1>5, <2>1
<1>8. SumsUp(g, S, f)
  BY <1>4 DEF SumsUp
<1>9. g[S] = SumFunctionOnSet(f, S)
  BY <1>6, <1>7
<1> QED
  BY <1>8, <1>9

LEMMA SumType ==
    ASSUME NEW S, IsFiniteSet(S), NEW f, \A x \in S : f[x] \in Nat
    PROVE  SumFunctionOnSet(f, S) \in Nat
<1>1. PICK g : SumsUp(g, S, f) /\ g[S] = SumFunctionOnSet(f, S)
  BY SumRecursion
<1> QED
  BY <1>1 DEF SumsUp

LEMMA SumEmpty == \A f : SumFunctionOnSet(f, {}) = 0
<1> SUFFICES ASSUME NEW f PROVE SumFunctionOnSet(f, {}) = 0
  OBVIOUS
<1>1. IsFiniteSet({})
  BY FS_EmptySet
<1>2. PICK S : S = {}
  OBVIOUS
<1>3. PICK g : SumsUp(g, S, f) /\ g[S] = SumFunctionOnSet(f, S)
  <2>1. IsFiniteSet(S) /\ \A x \in S : f[x] \in Nat
    BY <1>1, <1>2
  <2> QED
    BY <2>1, SumRecursion
<1>4. g[S] = 0
  BY <1>2, <1>3 DEF SumsUp
<1> QED
  BY <1>2, <1>3, <1>4

\* An element may be taken first: the one the definition takes.
LEMMA SumChosen ==
    ASSUME NEW S, IsFiniteSet(S), S # {}, NEW f, \A x \in S : f[x] \in Nat
    PROVE  \E c \in S : SumFunctionOnSet(f, S) = f[c] + SumFunctionOnSet(f, S \ {c})
<1>0. PICK c : c = CHOOSE x \in S : TRUE
  OBVIOUS
<1> DEFINE Step(g, s) == g[s] = IF s = {} THEN 0
                                ELSE f[CHOOSE x \in s : TRUE] + g[s \ {CHOOSE x \in s : TRUE}]
           T == S \ {c}
           ch == [s \in SUBSET T |-> CHOOSE x \in s : TRUE]
<1>1. c \in S
  BY <1>0
<1>2. IsFiniteSet(T) /\ (\A x \in T : f[x] \in Nat)
  BY FS_RemoveElement
<1>3. PICK g : SumsUp(g, S, f) /\ g[S] = SumFunctionOnSet(f, S)
  BY SumRecursion
<1>4. PICK h : SumsUp(h, T, f) /\ h[T] = SumFunctionOnSet(f, T)
  <2> HIDE DEF T
  <2> QED
    BY <1>2, SumRecursion
<1>5. g[S] = f[c] + g[T]
  BY <1>0, <1>3 DEF SumsUp
<1>6. Picks(ch, T)
  BY DEF Picks
<1>7. SameWay(g, h, T, ch)
  <2>1. \A s \in SUBSET T : Step(g, s) /\ Step(h, s)
    BY <1>3, <1>4 DEF SumsUp
  <2>2. g[{}] = h[{}]
    BY <2>1
  <2>3. ASSUME NEW s \in SUBSET T, s # {}, g[s \ {ch[s]}] = h[s \ {ch[s]}]
        PROVE  g[s] = h[s]
    <3>1. ch[s] = CHOOSE x \in s : TRUE
      OBVIOUS
    <3>2. g[s] = f[ch[s]] + g[s \ {ch[s]}]
      BY <2>1, <2>3, <3>1
    <3>3. h[s] = f[ch[s]] + h[s \ {ch[s]}]
      BY <2>1, <2>3, <3>1
    <3> QED
      BY <2>3, <3>2, <3>3
  <2> QED
    BY <2>2, <2>3 DEF SameWay
<1>8. g[T] = h[T]
  <2> HIDE DEF T, ch
  <2>1. T \in SUBSET T
    OBVIOUS
  <2> QED
    BY <1>2, <1>6, <1>7, <2>1, RecursionUnique
<1> QED
  BY <1>1, <1>3, <1>4, <1>5, <1>8

\* Any element may be taken first.
LEMMA SumRemove ==
    ASSUME NEW S, IsFiniteSet(S), NEW f, \A x \in S : f[x] \in Nat, NEW a \in S
    PROVE  SumFunctionOnSet(f, S) = f[a] + SumFunctionOnSet(f, S \ {a})
<1> DEFINE A == {n \in Nat : \A s \in SUBSET S : Cardinality(s) = n =>
                   \A b \in s : SumFunctionOnSet(f, s) = f[b] + SumFunctionOnSet(f, s \ {b})}
<1>1. \A s \in SUBSET S : /\ IsFiniteSet(s) /\ Cardinality(s) \in Nat
                          /\ SumFunctionOnSet(f, s) \in Nat
  BY FS_Subset, FS_CardinalityType, SumType
<1>2. 0 \in A
  BY <1>1, FS_EmptySet
<1>3. ASSUME NEW n \in Nat, n \in A PROVE n + 1 \in A
  <2> SUFFICES ASSUME NEW s \in SUBSET S, Cardinality(s) = n + 1, NEW b \in s
               PROVE  SumFunctionOnSet(f, s) = f[b] + SumFunctionOnSet(f, s \ {b})
    OBVIOUS
  <2>1. IsFiniteSet(s) /\ s # {} /\ \A x \in s : f[x] \in Nat
    BY <1>1
  <2>2. PICK c \in s : SumFunctionOnSet(f, s) = f[c] + SumFunctionOnSet(f, s \ {c})
    BY <2>1, SumChosen
  <2>3. CASE b = c
    BY <2>2, <2>3
  <2>4. CASE b # c
    <3>1. IsFiniteSet(s)
      BY <1>1
    <3>2. Cardinality(s \ {b}) = n /\ Cardinality(s \ {c}) = n
      <4>1. Cardinality(s \ {b}) = Cardinality(s) - 1
        BY <3>1, FS_RemoveElement
      <4>2. Cardinality(s \ {c}) = Cardinality(s) - 1
        BY <2>2, <3>1, FS_RemoveElement
      <4> QED
        BY <4>1, <4>2
    <3>3. SumFunctionOnSet(f, s \ {c}) = f[b] + SumFunctionOnSet(f, (s \ {c}) \ {b})
      BY <1>3, <2>4, <3>2
    <3>4. SumFunctionOnSet(f, s \ {b}) = f[c] + SumFunctionOnSet(f, (s \ {b}) \ {c})
      BY <1>3, <2>2, <2>4, <3>2
    <3>5. (s \ {b}) \ {c} = (s \ {c}) \ {b} /\ (s \ {b}) \ {c} \in SUBSET S
      OBVIOUS
    <3>6. /\ f[b] \in Nat /\ f[c] \in Nat
          /\ SumFunctionOnSet(f, (s \ {b}) \ {c}) \in Nat
      BY <1>1, <2>2, <3>5
    <3>7. \A x, y, z \in Nat : x + (y + z) = y + (x + z)
      OBVIOUS
    <3> QED
      BY <2>2, <3>3, <3>4, <3>5, <3>6, <3>7
  <2> QED
    BY <2>3, <2>4
<1> HIDE DEF A
<1>4. \A n \in Nat : n \in A
  BY <1>2, <1>3, NatSetInduction
<1> QED
  BY <1>1, <1>4 DEF A

LEMMA SumAdd ==
    ASSUME NEW S, IsFiniteSet(S), NEW f, \A x \in S : f[x] \in Nat,
           NEW a, a \notin S, f[a] \in Nat
    PROVE  SumFunctionOnSet(f, S \cup {a}) = f[a] + SumFunctionOnSet(f, S)
<1>1. PICK T : T = S \cup {a}
  OBVIOUS
<1>2. IsFiniteSet(T) /\ a \in T /\ T \ {a} = S /\ (\A x \in T : f[x] \in Nat)
  BY <1>1, FS_AddElement
<1>3. SumFunctionOnSet(f, T) = f[a] + SumFunctionOnSet(f, T \ {a})
  BY <1>2, SumRemove
<1> QED
  BY <1>1, <1>2, <1>3

\* Only the values on the set count.
LEMMA SumSame ==
    ASSUME NEW S, IsFiniteSet(S), NEW f, NEW g, \A x \in S : f[x] \in Nat /\ g[x] = f[x]
    PROVE  SumFunctionOnSet(f, S) = SumFunctionOnSet(g, S)
<1> DEFINE A == {s \in SUBSET S : SumFunctionOnSet(f, s) = SumFunctionOnSet(g, s)}
<1>1. {} \in A
  BY SumEmpty
<1>2. ASSUME NEW s \in SUBSET S, NEW x \in S \ s, s \in A PROVE s \cup {x} \in A
  <2>1. IsFiniteSet(s)
    BY FS_Subset
  <2>2. SumFunctionOnSet(f, s \cup {x}) = f[x] + SumFunctionOnSet(f, s)
    BY <2>1, SumAdd
  <2>3. SumFunctionOnSet(g, s \cup {x}) = g[x] + SumFunctionOnSet(g, s)
    BY <2>1, SumAdd
  <2> QED
    BY <1>2, <2>2, <2>3
<1> HIDE DEF A
<1>3. \A s \in SUBSET S : s \in A
  BY <1>1, <1>2, SubsetInduction
<1> QED
  BY <1>3 DEF A

\* Sets that are apart from each other have as many elements as all of them together.
LEMMA SumOfSizes ==
    ASSUME NEW S, IsFiniteSet(S), NEW D, \A x \in S : IsFiniteSet(D[x]),
           \A x, y \in S : x # y => D[x] \cap D[y] = {},
           NEW f, \A x \in S : f[x] = Cardinality(D[x])
    PROVE  /\ IsFiniteSet(UNION {D[x] : x \in S})
           /\ Cardinality(UNION {D[x] : x \in S}) = SumFunctionOnSet(f, S)
<1> DEFINE U(s) == UNION {D[x] : x \in s}
           A == {s \in SUBSET S : IsFiniteSet(U(s)) /\ Cardinality(U(s)) = SumFunctionOnSet(f, s)}
<1>0. \A x \in S : f[x] \in Nat
  BY FS_CardinalityType
<1>1. {} \in A
  <2>1. U({}) = {}
    OBVIOUS
  <2> QED
    BY <2>1, SumEmpty, FS_EmptySet
<1>2. ASSUME NEW s \in SUBSET S, NEW x \in S \ s, s \in A PROVE s \cup {x} \in A
  <2>1. IsFiniteSet(s)
    BY FS_Subset
  <2>2. SumFunctionOnSet(f, s \cup {x}) = f[x] + SumFunctionOnSet(f, s)
    BY <1>0, <2>1, SumAdd
  <2>3. U(s \cup {x}) = U(s) \cup D[x]
    OBVIOUS
  <2>4. U(s) \cap D[x] = {}
    OBVIOUS
  <2>5. IsFiniteSet(U(s)) /\ IsFiniteSet(D[x]) /\ Cardinality(U(s)) = SumFunctionOnSet(f, s)
    BY <1>2
  <2> HIDE DEF U
  <2>6. /\ IsFiniteSet(U(s) \cup D[x])
        /\ Cardinality(U(s) \cup D[x]) = Cardinality(U(s)) + Cardinality(D[x]) - Cardinality({})
    BY <2>4, <2>5, FS_Union
  <2>7. Cardinality({}) = 0 /\ Cardinality(U(s)) \in Nat /\ Cardinality(D[x]) \in Nat
    BY <2>5, FS_EmptySet, FS_CardinalityType
  <2>8. f[x] = Cardinality(D[x])
    OBVIOUS
  <2>9. Cardinality(U(s \cup {x})) = SumFunctionOnSet(f, s \cup {x})
    <3>1. Cardinality(U(s) \cup D[x]) = Cardinality(U(s)) + Cardinality(D[x])
      BY <2>6, <2>7
    <3>2. Cardinality(U(s)) + Cardinality(D[x]) = Cardinality(D[x]) + Cardinality(U(s))
      BY <2>7
    <3>3. Cardinality(D[x]) + Cardinality(U(s)) = SumFunctionOnSet(f, s \cup {x})
      BY <2>2, <2>5, <2>8
    <3> QED
      BY <2>3, <3>1, <3>2, <3>3
  <2>10. IsFiniteSet(U(s \cup {x})) /\ s \cup {x} \in SUBSET S
    BY <2>3, <2>6
  <2> QED
    BY <2>9, <2>10
<1> HIDE DEF A
<1>3. \A s \in SUBSET S : s \in A
  BY <1>1, <1>2, SubsetInduction
<1> QED
  BY <1>3 DEF A

-----------------------------------------------------------------------------
(* Recursion along the numbers up to n.                                    *)

\* g begins with first, and F leads from each number to the next.
Chains(g, n, V, first, F) ==
    /\ g \in [1..n -> V]
    /\ \A i \in 1..n : g[i] = IF i = 1 THEN first ELSE F[<<g[i - 1], i>>]

LEMMA ChainExists ==
    ASSUME NEW n \in Nat, NEW V, NEW first \in V, NEW F \in [V \X (1..n) -> V]
    PROVE  \E g : Chains(g, n, V, first, F)
<1> DEFINE A == {k \in Nat : k <= n => \E g : Chains(g, k, V, first, F)}
<1>1. 0 \in A
  <2>1. [i \in 1..0 |-> first] \in [1..0 -> V]
    OBVIOUS
  <2>2. Chains([i \in 1..0 |-> first], 0, V, first, F)
    BY <2>1 DEF Chains
  <2> QED
    BY <2>2
<1>2. ASSUME NEW k \in Nat, k \in A PROVE k + 1 \in A
  <2> SUFFICES ASSUME k + 1 <= n PROVE \E g : Chains(g, k + 1, V, first, F)
    OBVIOUS
  <2>1. PICK g : Chains(g, k, V, first, F)
    BY <1>2
  <2> DEFINE h == [i \in 1..(k + 1) |-> IF i <= k THEN g[i]
                                        ELSE IF i = 1 THEN first ELSE F[<<g[i - 1], i>>]]
  <2>2. ASSUME NEW i \in 1..(k + 1)
        PROVE  h[i] \in V /\ h[i] = IF i = 1 THEN first ELSE F[<<h[i - 1], i>>]
    <3>1. CASE i = 1
      <4>1. ASSUME 1 <= k PROVE g[1] = first
        <5>1. 1 \in 1..k
          BY <4>1
        <5> HIDE DEF A, h
        <5> QED
          BY <2>1, <5>1 DEF Chains
      <4>2. h[1] = first
        BY <3>1, <4>1
      <4> QED
        BY <3>1, <4>2
    <3>2. CASE i # 1
      <4>1. i - 1 \in 1..k /\ i - 1 \in 1..(k + 1) /\ i \in 1..n
        BY <3>2
      <4>2. h[i - 1] = g[i - 1] /\ g[i - 1] \in V
        BY <2>1, <4>1 DEF Chains
      <4>3. h[i] = F[<<g[i - 1], i>>]
        BY <2>1, <3>2 DEF Chains
      <4> HIDE DEF h
      <4> QED
        BY <3>2, <4>1, <4>2, <4>3
    <3> QED
      BY <3>1, <3>2
  <2>3. h \in [1..(k + 1) -> V]
    BY <2>2
  <2> HIDE DEF h
  <2> QED
    BY <2>2, <2>3 DEF Chains
<1> HIDE DEF A
<1>3. n \in A
  BY <1>1, <1>2, NatSetInduction
<1> QED
  BY <1>3 DEF A

-----------------------------------------------------------------------------
(* Sequences put together out of others.                                   *)

LEMMA SeqIs ==
    ASSUME NEW S, NEW s, NEW n \in Nat, s \in [1..n -> S]
    PROVE  s \in Seq(S) /\ Len(s) = n
<1>1. s \in Seq(S)
  BY SeqDef
<1> QED
  BY <1>1, LenProperties

\* What FlattenSeq goes through: the first sequences joined, one more at a time.
Joins(g, seqs, S) ==
    /\ g \in [1..Len(seqs) -> Seq(S)]
    /\ \A i \in 1..Len(seqs) : g[i] = IF i = 1 THEN seqs[1] ELSE g[i - 1] \o seqs[i]

LEMMA FlattenSteps ==
    ASSUME NEW S, NEW seqs \in Seq(Seq(S)), Len(seqs) # 0
    PROVE  \E g : Joins(g, seqs, S) /\ FlattenSeq(seqs) = g[Len(seqs)]
<1> DEFINE n == Len(seqs)
           Body(h) == [i \in 1..n |-> IF i = 1 THEN seqs[i] ELSE h[i - 1] \o seqs[i]]
           it == CHOOSE h : h = Body(h)
           F == [p \in Seq(S) \X (1..n) |-> p[1] \o seqs[p[2]]]
<1>1. n \in Nat /\ \A i \in 1..n : seqs[i] \in Seq(S)
  BY ElementOfSeq, LenProperties
<1>2. 1 \in 1..n
  BY <1>1
<1>3. F \in [Seq(S) \X (1..n) -> Seq(S)]
  BY <1>1, ConcatProperties
<1>4. PICK g : Chains(g, n, Seq(S), seqs[1], F)
  <2> HIDE DEF n, F
  <2>1. seqs[1] \in Seq(S)
    BY <1>1, <1>2
  <2> QED
    BY <1>1, <1>3, <2>1, ChainExists
<1>5. ASSUME NEW i \in 1..n
      PROVE  g[i] = IF i = 1 THEN seqs[i] ELSE g[i - 1] \o seqs[i]
  <2>1. i = 1 \/ i - 1 \in 1..n
    BY <1>1
  <2> QED
    BY <1>4, <2>1 DEF Chains
<1>6. g = Body(g)
  BY <1>4, <1>5 DEF Chains
<1>7. it = Body(it)
  BY <1>6
<1>8. \A i \in 1..n : it[i] = IF i = 1 THEN seqs[i] ELSE it[i - 1] \o seqs[i]
  BY <1>7
<1>9. \A i \in 1..n : it[i] \in Seq(S)
  <2> DEFINE A == {k \in Nat : k + 1 \in 1..n => it[k + 1] \in Seq(S)}
  <2>1. 0 \in A
    <3>1. PICK i \in 1..n : i = 1
      BY <1>2
    <3> HIDE DEF it, n
    <3>2. it[i] = seqs[i]
      BY <1>8, <3>1
    <3>3. it[i] \in Seq(S) /\ i = 0 + 1
      BY <1>1, <3>1, <3>2
    <3> QED
      BY <3>3
  <2>2. ASSUME NEW k \in Nat, k \in A PROVE k + 1 \in A
    <3> SUFFICES ASSUME k + 2 \in 1..n PROVE it[k + 2] \in Seq(S)
      OBVIOUS
    <3>1. k + 1 \in 1..n /\ (k + 2) - 1 = k + 1 /\ k + 2 # 1
      OBVIOUS
    <3>2. it[k + 1] \in Seq(S)
      BY <2>2, <3>1
    <3>3. it[k + 2] = it[k + 1] \o seqs[k + 2]
      BY <1>8, <3>1
    <3> QED
      BY <1>1, <3>2, <3>3, ConcatProperties
  <2> HIDE DEF A
  <2>3. \A k \in Nat : k \in A
    BY <2>1, <2>2, NatSetInduction
  <2>4. \A i \in 1..n : i - 1 \in Nat /\ (i - 1) + 1 = i
    OBVIOUS
  <2> HIDE DEF it
  <2> QED
    BY <2>3, <2>4 DEF A
<1>10. it \in [1..n -> Seq(S)]
  BY <1>7, <1>9
<1>11. FlattenSeq(seqs) = it[n]
  BY DEF FlattenSeq
<1>12. Joins(it, seqs, S)
  <2> HIDE DEF it
  <2>1. \A i \in 1..n : it[i] = IF i = 1 THEN seqs[1] ELSE it[i - 1] \o seqs[i]
    BY <1>8
  <2> QED
    BY <1>10, <2>1 DEF Joins
<1> QED
  BY <1>11, <1>12

\* Sequences joined are a sequence, as long as all of them.
LEMMA FlattenFacts ==
    ASSUME NEW S, NEW seqs \in Seq(Seq(S)), NEW f, \A i \in 1..Len(seqs) : f[i] = Len(seqs[i])
    PROVE  /\ FlattenSeq(seqs) \in Seq(S)
           /\ Len(FlattenSeq(seqs)) = SumFunctionOnSet(f, 1..Len(seqs))
<1> DEFINE n == Len(seqs)
<1>1. n \in Nat /\ \A i \in 1..n : seqs[i] \in Seq(S) /\ f[i] \in Nat
  BY ElementOfSeq, LenProperties
<1>2. CASE n = 0
  <2>1. seqs = <<>>
    BY <1>2, EmptySeq
  <2>2. FlattenSeq(seqs) = <<>>
    BY <1>2, <2>1 DEF FlattenSeq
  <2>3. 1..n = {}
    BY <1>2
  <2> QED
    BY <2>2, <2>3, SumEmpty, EmptySeq
<1>3. CASE n # 0
  <2>1. PICK g : Joins(g, seqs, S) /\ FlattenSeq(seqs) = g[n]
    BY <1>3, FlattenSteps
  <2> DEFINE A == {k \in Nat : k + 1 <= n => Len(g[k + 1]) = SumFunctionOnSet(f, 1..(k + 1))}
  <2>2. ASSUME NEW k \in Nat, k + 1 <= n
        PROVE  /\ IsFiniteSet(1..k) /\ 1..(k + 1) = (1..k) \cup {k + 1} /\ k + 1 \notin 1..k
               /\ SumFunctionOnSet(f, 1..(k + 1)) = f[k + 1] + SumFunctionOnSet(f, 1..k)
    <3>1. IsFiniteSet(1..k)
      BY FS_Interval
    <3>2. 1..(k + 1) = (1..k) \cup {k + 1} /\ k + 1 \notin 1..k
      OBVIOUS
    <3>3. \A x \in 1..k : f[x] \in Nat
      BY <1>1, <2>2
    <3>4. f[k + 1] \in Nat
      BY <1>1, <2>2
    <3>5. SumFunctionOnSet(f, (1..k) \cup {k + 1}) = f[k + 1] + SumFunctionOnSet(f, 1..k)
      BY <3>1, <3>2, <3>3, <3>4, SumAdd
    <3> QED
      BY <3>1, <3>2, <3>5
  <2>3. 0 \in A
    <3>1. 1 <= n
      BY <1>1, <1>3
    <3>2. SumFunctionOnSet(f, 1..(0 + 1)) = f[0 + 1] + SumFunctionOnSet(f, 1..0)
      <4>1. PICK z \in Nat : z = 0 /\ z + 1 <= n
        BY <3>1
      <4>2. SumFunctionOnSet(f, 1..(z + 1)) = f[z + 1] + SumFunctionOnSet(f, 1..z)
        BY <2>2, <4>1
      <4> QED
        BY <4>1, <4>2
    <3>3. 1..0 = {} /\ 0 + 1 = 1 /\ f[1] = Len(seqs[1]) /\ Len(seqs[1]) \in Nat
      BY <1>1, <3>1, LenProperties
    <3>4. SumFunctionOnSet(f, 1..1) = Len(seqs[1])
      BY <3>2, <3>3, SumEmpty
    <3>5. g[1] = seqs[1]
      <4>1. PICK i \in 1..Len(seqs) : i = 1
        BY <1>1, <3>1
      <4>2. g[i] = seqs[1]
        BY <2>1, <4>1 DEF Joins
      <4> QED
        BY <4>1, <4>2
    <3> QED
      BY <3>3, <3>4, <3>5
  <2>4. ASSUME NEW k \in Nat, k \in A PROVE k + 1 \in A
    <3> SUFFICES ASSUME (k + 1) + 1 <= n
                 PROVE  Len(g[(k + 1) + 1]) = SumFunctionOnSet(f, 1..((k + 1) + 1))
      OBVIOUS
    <3>1. PICK i \in 1..n : i = (k + 1) + 1 /\ i # 1 /\ i - 1 = k + 1
      BY <1>1
    <3>2. g[i] = g[k + 1] \o seqs[i]
      BY <2>1, <3>1 DEF Joins
    <3>3. k + 1 \in 1..n
      BY <1>1
    <3>4. g[k + 1] \in Seq(S) /\ seqs[i] \in Seq(S)
      BY <1>1, <2>1, <3>1, <3>3 DEF Joins
    <3>5. Len(g[i]) = Len(g[k + 1]) + Len(seqs[i])
      BY <3>2, <3>4, ConcatProperties
    <3>6. Len(g[k + 1]) = SumFunctionOnSet(f, 1..(k + 1))
      BY <2>4, <3>3
    <3>7. SumFunctionOnSet(f, 1..i) = f[i] + SumFunctionOnSet(f, 1..(k + 1))
      BY <2>2, <3>1
    <3>8. f[i] = Len(seqs[i]) /\ f[i] \in Nat /\ Len(g[k + 1]) \in Nat
      BY <1>1, <3>1, <3>4, LenProperties
    <3>9. Len(g[i]) = SumFunctionOnSet(f, 1..i)
      BY <3>5, <3>6, <3>7, <3>8
    <3> QED
      BY <3>1, <3>9
  <2> HIDE DEF A
  <2>5. \A k \in Nat : k \in A
    BY <2>3, <2>4, NatSetInduction
  <2>6. n - 1 \in Nat /\ (n - 1) + 1 = n
    BY <1>1, <1>3
  <2>7. Len(g[n]) = SumFunctionOnSet(f, 1..n)
    <3>1. PICK k \in Nat : k + 1 = n
      BY <2>6
    <3>2. k + 1 <= n /\ k \in A
      BY <1>1, <2>5, <3>1
    <3> QED
      BY <3>1, <3>2 DEF A
  <2>8. g[n] \in Seq(S)
    BY <1>1, <1>3, <2>1 DEF Joins
  <2> QED
    BY <2>1, <2>7, <2>8
<1> QED
  BY <1>2, <1>3

\* Where the elements of the first n sequences are.
Places(seqs, n) == UNION {{<<i, j>> : j \in 1..Len(seqs[i])} : i \in 1..n}

\* b tells where they are in the whole, each once.
Leads(b, places, seqs, whole) ==
    /\ b \in [places -> 1..Len(whole)]
    /\ \A p, q \in places : b[p] = b[q] => p = q
    /\ \A k \in 1..Len(whole) : \E p \in places : b[p] = k
    /\ \A p \in places : whole[b[p]] = seqs[p[1]][p[2]]

\* A further sequence takes the places behind.
LEMMA LeadsOn ==
    ASSUME NEW S, NEW seqs \in Seq(Seq(S)), NEW n \in Nat, n + 1 <= Len(seqs),
           NEW whole \in Seq(S), NEW b, Leads(b, Places(seqs, n), seqs, whole)
    PROVE  \E d : Leads(d, Places(seqs, n + 1), seqs, whole \o seqs[n + 1])
<1> DEFINE old == Places(seqs, n)
           all == Places(seqs, n + 1)
           next == seqs[n + 1]
           m == Len(whole)
           d == [p \in all |-> IF p[1] = n + 1 THEN m + p[2] ELSE b[p]]
<1>1. next \in Seq(S) /\ Len(next) \in Nat /\ m \in Nat
  <2>1. n + 1 \in 1..Len(seqs)
    BY LenProperties
  <2> QED
    BY <2>1, ElementOfSeq, LenProperties
<1>2. /\ whole \o next \in Seq(S) /\ Len(whole \o next) = m + Len(next)
      /\ \A i \in 1..(m + Len(next)) : (whole \o next)[i] = IF i <= m THEN whole[i] ELSE next[i - m]
  <2> HIDE DEF next
  <2> QED
    BY <1>1, ConcatProperties
<1>3. \A p \in all : \/ p \in old /\ p[1] # n + 1
                     \/ p = <<n + 1, p[2]>> /\ p[1] = n + 1 /\ p[2] \in 1..Len(next)
  BY DEF Places
<1>4. (\A p \in old : p \in all /\ p[1] # n + 1) /\ (\A j \in 1..Len(next) : <<n + 1, j>> \in all)
  BY DEF Places
<1> HIDE DEF next, all, old, m
<1>5. /\ b \in [old -> 1..m] /\ (\A p, q \in old : b[p] = b[q] => p = q)
      /\ (\A k \in 1..m : \E p \in old : b[p] = k)
      /\ (\A p \in old : whole[b[p]] = seqs[p[1]][p[2]])
  BY DEF Leads, old, m
<1>6. ASSUME NEW p \in all, p \in old, p[1] # n + 1
      PROVE  d[p] = b[p] /\ d[p] \in 1..m /\ (whole \o next)[d[p]] = seqs[p[1]][p[2]]
  <2>1. d[p] = b[p] /\ b[p] \in 1..m
    BY <1>5, <1>6
  <2>2. b[p] \in 1..(m + Len(next)) /\ b[p] <= m
    BY <1>1, <2>1
  <2>3. (whole \o next)[b[p]] = whole[b[p]]
    BY <1>2, <2>2
  <2> QED
    BY <1>5, <1>6, <2>1, <2>3
<1>7. ASSUME NEW p \in all, p[1] = n + 1, p[2] \in 1..Len(next)
      PROVE  /\ d[p] = m + p[2] /\ d[p] \in 1..(m + Len(next)) /\ d[p] > m
             /\ (whole \o next)[d[p]] = seqs[p[1]][p[2]]
  <2>1. d[p] = m + p[2]
    BY <1>7
  <2>2. PICK j \in 1..Len(next) : j = p[2]
    BY <1>7
  <2>3. m + j \in 1..(m + Len(next)) /\ m + j > m /\ (m + j) - m = j
    BY <1>1
  <2>4. (whole \o next)[m + j] = next[j]
    BY <1>1, <1>2, <2>3
  <2>5. next = seqs[p[1]]
    BY <1>7 DEF next
  <2> QED
    BY <2>1, <2>2, <2>3, <2>4, <2>5
<1> HIDE DEF d
<1>8. d \in [all -> 1..(m + Len(next))]
  <2>1. d = [p \in all |-> d[p]]
    BY DEF d
  <2>2. ASSUME NEW p \in all PROVE d[p] \in 1..(m + Len(next))
    <3>1. CASE p \in old /\ p[1] # n + 1
      <4>1. d[p] \in 1..m
        BY <1>6, <3>1
      <4> QED
        BY <1>1, <4>1
    <3>2. CASE p[1] = n + 1 /\ p[2] \in 1..Len(next)
      BY <1>7, <3>2
    <3> QED
      BY <1>3, <3>1, <3>2
  <2> QED
    BY <2>1, <2>2
<1>9. ASSUME NEW p \in all, NEW q \in all, d[p] = d[q] PROVE p = q
  <2>1. CASE p \in old /\ p[1] # n + 1 /\ q \in old /\ q[1] # n + 1
    BY <1>5, <1>6, <1>9, <2>1
  <2>2. CASE p[1] = n + 1 /\ p[2] \in 1..Len(next) /\ q[1] = n + 1 /\ q[2] \in 1..Len(next)
    <3>1. m + p[2] = m + q[2]
      BY <1>7, <1>9, <2>2
    <3>2. p[2] = q[2]
      BY <1>1, <2>2, <3>1
    <3> QED
      BY <1>3, <2>2, <3>2
  <2>3. CASE p \in old /\ p[1] # n + 1 /\ q[1] = n + 1 /\ q[2] \in 1..Len(next)
    BY <1>1, <1>6, <1>7, <1>9, <2>3
  <2>4. CASE q \in old /\ q[1] # n + 1 /\ p[1] = n + 1 /\ p[2] \in 1..Len(next)
    BY <1>1, <1>6, <1>7, <1>9, <2>4
  <2> QED
    BY <1>3, <2>1, <2>2, <2>3, <2>4
<1>10. ASSUME NEW k \in 1..(m + Len(next)) PROVE \E p \in all : d[p] = k
  <2>1. CASE k <= m
    <3>1. PICK p \in old : b[p] = k
      BY <1>1, <1>5, <2>1
    <3> QED
      BY <1>4, <1>6, <3>1
  <2>2. CASE k > m
    <3>1. PICK j \in 1..Len(next) : m + j = k
      <4>1. k - m \in 1..Len(next) /\ m + (k - m) = k
        BY <1>1, <2>2
      <4> QED
        BY <4>1
    <3>2. <<n + 1, j>> \in all /\ <<n + 1, j>>[1] = n + 1 /\ <<n + 1, j>>[2] = j
      BY <1>4
    <3> QED
      BY <1>7, <3>1, <3>2
  <2> QED
    BY <1>1, <2>1, <2>2
<1>11. \A p \in all : (whole \o next)[d[p]] = seqs[p[1]][p[2]]
  BY <1>3, <1>6, <1>7
<1>12. Leads(d, all, seqs, whole \o next)
  BY <1>2, <1>8, <1>9, <1>10, <1>11 DEF Leads
<1> QED
  BY <1>12 DEF all, next

\* Every element of the sequences is in the whole, and nothing else is.
LEMMA FlattenLeads ==
    ASSUME NEW S, NEW seqs \in Seq(Seq(S))
    PROVE  \E b : Leads(b, Places(seqs, Len(seqs)), seqs, FlattenSeq(seqs))
<1> DEFINE n == Len(seqs)
<1>1. n \in Nat /\ \A i \in 1..n : seqs[i] \in Seq(S)
  BY ElementOfSeq, LenProperties
<1>2. Places(seqs, 0) = {}
  BY DEF Places
<1>3. Leads(<<>>, Places(seqs, 0), seqs, <<>>)
  <2>1. Len(<<>>) = 0 /\ 1..0 = {}
    BY EmptySeq
  <2>2. DOMAIN <<>> = {}
    BY EmptySeq, LenProperties
  <2>3. <<>> \in [{} -> 1..0]
    BY <2>2
  <2> QED
    BY <1>2, <2>1, <2>3 DEF Leads
<1>4. CASE n = 0
  <2>1. FlattenSeq(seqs) = <<>>
    BY <1>4, EmptySeq DEF FlattenSeq
  <2> QED
    BY <1>3, <1>4, <2>1
<1>5. CASE n # 0
  <2>1. PICK g : Joins(g, seqs, S) /\ FlattenSeq(seqs) = g[n]
    BY <1>5, FlattenSteps
  <2> DEFINE A == {k \in Nat : k + 1 <= n =>
                      \E b : Leads(b, Places(seqs, k + 1), seqs, g[k + 1])}
  <2>2. 0 \in A
    <3>1. PICK z \in Nat : z = 0 /\ z + 1 <= Len(seqs) /\ z + 1 = 1
      BY <1>1, <1>5
    <3>2. <<>> \in Seq(S)
      BY EmptySeq
    <3>3. \E d : Leads(d, Places(seqs, z + 1), seqs, <<>> \o seqs[z + 1])
      BY <1>3, <3>1, <3>2, LeadsOn
    <3>4. g[1] = seqs[1] /\ seqs[1] \in Seq(S)
      <4>1. PICK i \in 1..Len(seqs) : i = 1
        BY <1>1, <3>1
      <4> QED
        BY <1>1, <2>1, <4>1 DEF Joins
    <3>5. <<>> \o seqs[1] = g[1]
      BY <3>4, ConcatEmptySeq
    <3> QED
      BY <3>1, <3>3, <3>5
  <2>3. ASSUME NEW k \in Nat, k \in A PROVE k + 1 \in A
    <3> SUFFICES ASSUME (k + 1) + 1 <= n
                 PROVE  \E b : Leads(b, Places(seqs, (k + 1) + 1), seqs, g[(k + 1) + 1])
      OBVIOUS
    <3>1. k + 1 \in Nat /\ k + 1 \in 1..n /\ (k + 1) + 1 \in 1..n /\ ((k + 1) + 1) - 1 = k + 1
      BY <1>1
    <3>2. PICK b : Leads(b, Places(seqs, k + 1), seqs, g[k + 1])
      BY <2>3, <3>1
    <3>3. g[k + 1] \in Seq(S)
      BY <2>1, <3>1 DEF Joins
    <3>4. g[(k + 1) + 1] = g[k + 1] \o seqs[(k + 1) + 1]
      <4>1. PICK i \in 1..Len(seqs) : i = (k + 1) + 1 /\ i # 1 /\ i - 1 = k + 1
        BY <3>1
      <4>2. g[i] = g[i - 1] \o seqs[i]
        BY <2>1, <4>1 DEF Joins
      <4> QED
        BY <4>1, <4>2
    <3>5. PICK l \in Nat : l = k + 1 /\ l + 1 <= Len(seqs)
      BY <3>1
    <3>6. \E d : Leads(d, Places(seqs, l + 1), seqs, g[l] \o seqs[l + 1])
      BY <3>2, <3>3, <3>5, LeadsOn
    <3> QED
      BY <3>4, <3>5, <3>6
  <2> HIDE DEF A
  <2>4. \A k \in Nat : k \in A
    BY <2>2, <2>3, NatSetInduction
  <2>5. PICK k \in Nat : k + 1 = n
    <3>1. n - 1 \in Nat /\ (n - 1) + 1 = n
      BY <1>1, <1>5
    <3> QED
      BY <3>1
  <2>6. k + 1 <= n /\ k \in A
    BY <1>1, <2>4, <2>5
  <2>7. \E b : Leads(b, Places(seqs, n), seqs, g[n])
    BY <2>5, <2>6 DEF A
  <2> QED
    BY <2>1, <2>7
<1> QED
  BY <1>4, <1>5

LEMMA MaxIsThere ==
    ASSUME NEW n \in Nat, NEW T \in SUBSET (1..n), T # {}
    PROVE  Max(T) \in T
<1> DEFINE A == {k \in Nat : \A U \in SUBSET (1..k) :
                                U # {} => \E x \in U : \A y \in U : x >= y}
<1>1. 0 \in A
  <2>1. 1..0 = {}
    OBVIOUS
  <2> QED
    BY <2>1
<1>2. ASSUME NEW k \in Nat, k \in A PROVE k + 1 \in A
  <2> SUFFICES ASSUME NEW U \in SUBSET (1..(k + 1)), U # {}
               PROVE  \E x \in U : \A y \in U : x >= y
    OBVIOUS
  <2>1. CASE k + 1 \in U
    BY <2>1
  <2>2. CASE k + 1 \notin U
    <3>1. U \in SUBSET (1..k)
      BY <2>2
    <3> QED
      BY <1>2, <3>1
  <2> QED
    BY <2>1, <2>2
<1> HIDE DEF A
<1>3. n \in A
  BY <1>1, <1>2, NatSetInduction
<1> QED
  BY <1>3 DEF A, Max

LEMMA SameInterval == \A k, l \in Nat : 1..k = 1..l => k = l
<1>1. SUFFICES ASSUME NEW k \in Nat, NEW l \in Nat, 1..k = 1..l PROVE k = l
  OBVIOUS
<1>2. Cardinality(1..k) = k /\ Cardinality(1..l) = l
  BY FS_Interval
<1> QED
  BY <1>1, <1>2

LEMMA LeastIsThere ==
    ASSUME NEW T \in SUBSET Nat, T # {} PROVE \E m \in T : \A k \in T : m <= k
<1> DEFINE A == {n \in Nat : \A U \in SUBSET Nat :
                                (\E x \in U : x <= n) => \E m \in U : \A k \in U : m <= k}
<1>1. 0 \in A
  OBVIOUS
<1>2. ASSUME NEW n \in Nat, n \in A PROVE n + 1 \in A
  <2> SUFFICES ASSUME NEW U \in SUBSET Nat, NEW x \in U, x <= n + 1
               PROVE  \E m \in U : \A k \in U : m <= k
    OBVIOUS
  <2>1. CASE \E y \in U : y <= n
    BY <1>2, <2>1
  <2>2. CASE \A y \in U : ~(y <= n)
    <3>1. \A y \in U : x <= y
      BY <2>2
    <3> QED
      BY <3>1
  <2> QED
    BY <2>1, <2>2
<1> HIDE DEF A
<1>3. \A n \in Nat : n \in A
  BY <1>1, <1>2, NatSetInduction
<1>4. PICK x : x \in T
  OBVIOUS
<1>5. x \in Nat /\ x <= x
  BY <1>4
<1> QED
  BY <1>3, <1>4, <1>5 DEF A

LEMMA FlattenAppend ==
    ASSUME NEW S, NEW seqs \in Seq(Seq(S)), NEW s \in Seq(S)
    PROVE  FlattenSeq(Append(seqs, s)) = FlattenSeq(seqs) \o s
<1> DEFINE n == Len(seqs)
           more == Append(seqs, s)
<1>1. n \in Nat /\ \A i \in 1..n : seqs[i] \in Seq(S)
  BY ElementOfSeq, LenProperties
<1>2. /\ more \in Seq(Seq(S)) /\ Len(more) = n + 1 /\ more[n + 1] = s
      /\ \A i \in 1..n : more[i] = seqs[i]
  BY AppendProperties
<1> HIDE DEF more, n
<1>3. PICK g : Joins(g, more, S) /\ FlattenSeq(more) = g[n + 1]
  <2>1. Len(more) # 0
    BY <1>1, <1>2
  <2> QED
    BY <1>2, <2>1, FlattenSteps
<1>4. CASE n = 0
  <2>1. FlattenSeq(seqs) = <<>>
    BY <1>4, EmptySeq DEF FlattenSeq, n
  <2>2. g[1] = more[1]
    <3>1. PICK i \in 1..Len(more) : i = 1
      BY <1>2, <1>4
    <3> QED
      BY <1>3, <3>1 DEF Joins
  <2>3. n + 1 = 1
    BY <1>4
  <2>4. FlattenSeq(more) = s
    BY <1>2, <1>3, <2>2, <2>3
  <2> QED
    BY <2>1, <2>4, ConcatEmptySeq DEF more
<1>5. CASE n # 0
  <2>1. PICK h : Joins(h, seqs, S) /\ FlattenSeq(seqs) = h[n]
    BY <1>5, FlattenSteps DEF n
  <2> DEFINE A == {k \in Nat : k + 1 <= n => g[k + 1] = h[k + 1]}
  <2>2. 0 \in A
    <3>1. PICK i \in 1..n : i = 1
      BY <1>1, <1>5
    <3>2. i \in 1..Len(more)
      BY <1>1, <1>2
    <3>3. g[i] = more[1] /\ h[i] = seqs[1] /\ more[1] = seqs[1]
      BY <1>2, <1>3, <2>1, <3>1, <3>2 DEF Joins, n
    <3> QED
      BY <3>1, <3>3
  <2>3. ASSUME NEW k \in Nat, k \in A PROVE k + 1 \in A
    <3> SUFFICES ASSUME (k + 1) + 1 <= n PROVE g[(k + 1) + 1] = h[(k + 1) + 1]
      OBVIOUS
    <3>1. PICK i \in 1..n : i = (k + 1) + 1 /\ i # 1 /\ i - 1 = k + 1
      BY <1>1
    <3>2. i \in 1..Len(more) /\ k + 1 <= n
      BY <1>1, <1>2, <3>1
    <3>3. g[i] = g[i - 1] \o more[i]
      BY <1>3, <3>1, <3>2 DEF Joins
    <3>4. h[i] = h[i - 1] \o seqs[i]
      BY <2>1, <3>1 DEF Joins, n
    <3>5. g[k + 1] = h[k + 1]
      BY <2>3, <3>2
    <3> QED
      BY <1>2, <3>1, <3>3, <3>4, <3>5
  <2> HIDE DEF A
  <2>4. \A k \in Nat : k \in A
    BY <2>2, <2>3, NatSetInduction
  <2>5. PICK k \in Nat : k + 1 = n
    <3>1. n - 1 \in Nat /\ (n - 1) + 1 = n
      BY <1>1, <1>5
    <3> QED
      BY <3>1
  <2>6. k + 1 <= n /\ k \in A
    BY <1>1, <2>4, <2>5
  <2>7. g[n] = h[n]
    BY <2>5, <2>6 DEF A
  <2>8. g[n + 1] = g[n] \o more[n + 1]
    <3>1. PICK i \in 1..Len(more) : i = n + 1 /\ i # 1 /\ i - 1 = n
      BY <1>1, <1>2, <1>5
    <3>2. g[i] = g[i - 1] \o more[i]
      BY <1>3, <3>1 DEF Joins
    <3> QED
      BY <3>1, <3>2
  <2> QED
    BY <1>2, <1>3, <2>1, <2>7, <2>8 DEF more
<1> QED
  BY <1>4, <1>5
=============================================================================
