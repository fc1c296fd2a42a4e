---------------------------- MODULE ReportProofs ----------------------------
(***************************************************************************)
(* The two reports that add something up.                                  *)
(*                                                                         *)
(* spreadsheet-cleanup, for every export, whatever its cells read as: no   *)
(* row is lost, the first row without a blocking problem is the one that   *)
(* is kept, and the sheets add up.                                         *)
(*                                                                         *)
(* costcheck, for every plan and all prices: the total is what the         *)
(* resources cost one by one, what could be saved is part of it, and no    *)
(* resource that costs something is missing from the report.               *)
(*                                                                         *)
(* First what both rest on: sums over finite sets, and sorting by rank.    *)
(***************************************************************************)
EXTENDS OrderCleanup, CostCheck, FiniteSetTheorems, SequenceTheorems, WellFoundedInduction, TLAPS

----------------------------------------------------------------------------
(* Induction on finite sets, and sums over them. *)

\* Every set of natural numbers with an element has a least one.
LEMMA Least ==
    ASSUME NEW S, S \subseteq Nat, NEW e \in S
    PROVE  \E i \in S : \A j \in S : i <= j
<1>1. IsWellFoundedOn(OpToRel(<, Nat), Nat)
    BY NatLessThanWellFounded
<1>2. PICK i \in S : \A j \in S : <<j, i>> \notin OpToRel(<, Nat)
    BY <1>1, WFMin
<1>3. \A j \in S : ~(j < i)
    BY <1>2 DEF OpToRel
<1> QED
    BY <1>3

\* Induction on the natural numbers, for a set of them.
LEMMA Upward ==
    ASSUME NEW T, 0 \in T, \A i \in Nat : i \in T => i + 1 \in T
    PROVE  \A i \in Nat : i \in T
<1> SUFFICES ASSUME NEW e \in Nat, e \notin T PROVE FALSE
    OBVIOUS
<1> DEFINE Bad == {i \in Nat : i \notin T}
<1>1. Bad \subseteq Nat /\ e \in Bad
    OBVIOUS
<1>2. PICK i \in Bad : \A j \in Bad : i <= j
    BY <1>1, Least
<1>3. i \in Nat /\ i \notin T /\ i # 0
    OBVIOUS
<1>4. i - 1 \in Nat /\ (i - 1) + 1 = i /\ ~(i <= i - 1)
    BY <1>3
<1>5. i - 1 \in T
    BY <1>2, <1>4
<1> QED
    BY <1>3, <1>4, <1>5

\* Induction on the subsets of a finite set by their size, for a set of subsets.
LEMMA BySize ==
    ASSUME NEW S, IsFiniteSet(S), NEW P,
           \A T \in SUBSET S : (\A U \in SUBSET S : Cardinality(U) < Cardinality(T) => U \in P) => T \in P
    PROVE  \A T \in SUBSET S : T \in P
<1> DEFINE Q == {n \in Nat : \A T \in SUBSET S : Cardinality(T) <= n => T \in P}
<1>1. \A T \in SUBSET S : IsFiniteSet(T) /\ Cardinality(T) \in Nat
    BY FS_Subset, FS_CardinalityType
<1>2. 0 \in Q
    BY <1>1
<1>3. ASSUME NEW n \in Nat, n \in Q PROVE n + 1 \in Q
    <2>1. ASSUME NEW T \in SUBSET S, Cardinality(T) <= n + 1 PROVE T \in P
        <3>1. \A U \in SUBSET S : Cardinality(U) < Cardinality(T) => Cardinality(U) <= n
            BY <1>1, <1>3, <2>1
        <3> QED
            BY <1>3, <3>1
    <2> QED
        BY <2>1
<1> HIDE DEF Q
<1>4. \A n \in Nat : n \in Q
    BY <1>2, <1>3, Upward
<1> QED
    BY <1>1, <1>4 DEF Q

\* Induction on the subsets of a finite set by adding one element after another.
LEMMA ByAdding ==
    ASSUME NEW S, IsFiniteSet(S), NEW P, {} \in P,
           \A T \in SUBSET S : \A x \in S \ T : T \in P => T \cup {x} \in P
    PROVE  S \in P
<1>1. ASSUME NEW T \in SUBSET S, \A U \in SUBSET S : Cardinality(U) < Cardinality(T) => U \in P
      PROVE  T \in P
    <2>1. CASE T = {}
        BY <2>1
    <2>2. ASSUME NEW x \in T PROVE T \in P
        <3>1. IsFiniteSet(T) /\ Cardinality(T) \in Nat
            BY FS_Subset, FS_CardinalityType
        <3>2. Cardinality(T \ {x}) = Cardinality(T) - 1
            BY <3>1, FS_RemoveElement
        <3>3. T \ {x} \in P
            BY <1>1, <3>1, <3>2
        <3>4. x \in S \ (T \ {x}) /\ (T \ {x}) \cup {x} = T
            OBVIOUS
        <3> QED
            BY <3>3, <3>4
    <2> QED
        BY <2>1, <2>2
<1> QED
    BY <1>1, BySize

\* g gives the sum of f over each subset of S.
IsSum(f, S, g) ==
    /\ g \in [SUBSET S -> Nat] /\ g[{}] = 0
    /\ \A s \in SUBSET S : \A x \in s : g[s] = f[x] + g[s \ {x}]

LEMMA SumExists ==
    ASSUME NEW S, IsFiniteSet(S), NEW f, \A x \in S : f[x] \in Nat
    PROVE  \E g : IsSum(f, S, g)
<1> DEFINE P == {T \in SUBSET S : \E g : IsSum(f, T, g)}
<1>1. {} \in P
    <2>1. IsSum(f, {}, [s \in SUBSET {} |-> 0])
        BY DEF IsSum
    <2> QED
        BY <2>1
<1>2. ASSUME NEW T \in SUBSET S, NEW x \in S \ T, T \in P PROVE T \cup {x} \in P
    <2>1. PICK g : IsSum(f, T, g)
        BY <1>2
    <2> DEFINE h == [s \in SUBSET (T \cup {x}) |-> IF x \in s THEN f[x] + g[s \ {x}] ELSE g[s]]
    <2>2. \A s \in SUBSET (T \cup {x}) : s \ {x} \in SUBSET T /\ (x \notin s => s \in SUBSET T)
        BY <1>2
    <2>3. h \in [SUBSET (T \cup {x}) -> Nat]
        BY <1>2, <2>1, <2>2 DEF IsSum
    <2>4. h[{}] = 0
        BY <2>1 DEF IsSum
    <2>5. ASSUME NEW s \in SUBSET (T \cup {x}), NEW y \in s PROVE h[s] = f[y] + h[s \ {y}]
        <3>1. CASE x \notin s
            <4>1. s \in SUBSET T /\ x \notin s \ {y} /\ s \ {y} \in SUBSET (T \cup {x})
                BY <2>2, <3>1
            <4>2. h[s] = g[s] /\ h[s \ {y}] = g[s \ {y}]
                BY <3>1, <4>1
            <4> HIDE DEF h
            <4> QED
                BY <2>1, <4>1, <4>2 DEF IsSum
        <3>2. CASE x \in s /\ y = x
            <4>1. h[s] = f[x] + g[s \ {x}] /\ h[s \ {x}] = g[s \ {x}]
                BY <3>2
            <4> HIDE DEF h
            <4> QED
                BY <3>2, <4>1
        <3>3. CASE x \in s /\ y # x
            <4> DEFINE r == (s \ {x}) \ {y}
            <4>1. s \ {x} \in SUBSET T /\ y \in s \ {x} /\ (s \ {y}) \ {x} = r /\ r \in SUBSET T /\ y \in S
                BY <1>2, <2>2, <3>3
            <4>2. h[s] = f[x] + g[s \ {x}] /\ h[s \ {y}] = f[x] + g[(s \ {y}) \ {x}]
                BY <3>3
            <4>3. h[s \ {y}] = f[x] + g[r]
                BY <4>1, <4>2
            <4>4. g[s \ {x}] = f[y] + g[r] /\ g[r] \in Nat /\ f[x] \in Nat /\ f[y] \in Nat
                BY <1>2, <2>1, <4>1 DEF IsSum
            <4> HIDE DEF h, r
            <4> QED
                BY <4>2, <4>3, <4>4
        <3> QED
            BY <3>1, <3>2, <3>3
    <2> HIDE DEF h
    <2>6. IsSum(f, T \cup {x}, h)
        BY <2>3, <2>4, <2>5 DEF IsSum
    <2> QED
        BY <1>2, <2>6
<1> HIDE DEF P
<1>3. S \in P
    BY <1>1, <1>2, ByAdding
<1> QED
    BY <1>3 DEF P

\* A recursion that takes some element away at each step, as Folds does.
Recurs(f, T, h) ==
    \A s \in SUBSET T : h[s] = IF s = {} THEN 0
                               ELSE f[CHOOSE x \in s : TRUE] + h[s \ {CHOOSE x \in s : TRUE}]

\* Whichever it is, the recursion gives the sum.
LEMMA SumUnique ==
    ASSUME NEW S, IsFiniteSet(S), NEW f, NEW g, IsSum(f, S, g), NEW T \in SUBSET S, NEW h, Recurs(f, T, h)
    PROVE  h[T] = g[T]
<1> DEFINE P == {U \in SUBSET T : h[U] = g[U]}
<1>0. IsFiniteSet(T)
    BY FS_Subset
<1>1. ASSUME NEW A \in SUBSET T, \A U \in SUBSET T : Cardinality(U) < Cardinality(A) => U \in P
      PROVE  A \in P
    <2>1. CASE A = {}
        BY <2>1 DEF IsSum, Recurs
    <2>2. CASE A # {}
        <3>1. PICK c : c = CHOOSE x \in A : TRUE
            OBVIOUS
        <3>2. c \in A
            BY <2>2, <3>1
        <3>3. IsFiniteSet(A) /\ Cardinality(A) \in Nat
            BY <1>0, FS_Subset, FS_CardinalityType
        <3>4. Cardinality(A \ {c}) = Cardinality(A) - 1
            BY <3>2, <3>3, FS_RemoveElement
        <3>5. h[A \ {c}] = g[A \ {c}]
            BY <1>1, <3>3, <3>4
        <3>6. h[A] = f[c] + h[A \ {c}]
            BY <2>2, <3>1 DEF Recurs
        <3>7. g[A] = f[c] + g[A \ {c}]
            BY <3>2 DEF IsSum
        <3> QED
            BY <3>5, <3>6, <3>7
    <2> QED
        BY <2>1, <2>2
<1> HIDE DEF P
<1>2. T \in P
    BY <1>0, <1>1, BySize
<1> QED
    BY <1>2 DEF P

SumOf(f, T) == MapThenSumSet(LAMBDA i : f[i], T)

\* The library's sum is the sum.
LEMMA SumIs ==
    ASSUME NEW S, IsFiniteSet(S), NEW f, NEW g, IsSum(f, S, g), NEW T \in SUBSET S
    PROVE  SumOf(f, T) = g[T]
<1> DEFINE it == CHOOSE iter : iter = [s \in SUBSET T |->
                    IF s = {} THEN 0 ELSE f[CHOOSE x \in s : TRUE] + iter[s \ {CHOOSE x \in s : TRUE}]]
           h0 == [s \in SUBSET T |-> g[s]]
<1>1. ASSUME NEW s \in SUBSET T, s # {}
      PROVE  h0[s] = f[CHOOSE x \in s : TRUE] + h0[s \ {CHOOSE x \in s : TRUE}]
    <2>1. PICK c : c = CHOOSE x \in s : TRUE
        OBVIOUS
    <2>2. c \in s
        BY <1>1, <2>1
    <2>3. s \in SUBSET S /\ s \ {c} \in SUBSET T
        OBVIOUS
    <2>4. g[s] = f[c] + g[s \ {c}]
        BY <2>2, <2>3 DEF IsSum
    <2>5. h0[s] = f[c] + h0[s \ {c}]
        BY <2>3, <2>4
    <2> QED
        BY <2>1, <2>5
<1>2. h0[{}] = 0
    BY DEF IsSum
<1>3. h0 = [s \in SUBSET T |->
              IF s = {} THEN 0 ELSE f[CHOOSE x \in s : TRUE] + h0[s \ {CHOOSE x \in s : TRUE}]]
    <2>1. ASSUME NEW s \in SUBSET T
          PROVE h0[s] = IF s = {} THEN 0 ELSE f[CHOOSE x \in s : TRUE] + h0[s \ {CHOOSE x \in s : TRUE}]
        <3> HIDE DEF h0
        <3> QED
            BY <1>1, <1>2
    <2> QED
        BY <2>1
<1> HIDE DEF h0
<1>4. it = [s \in SUBSET T |->
              IF s = {} THEN 0 ELSE f[CHOOSE x \in s : TRUE] + it[s \ {CHOOSE x \in s : TRUE}]]
    BY <1>3
<1>5. SumOf(f, T) = it[T]
    BY DEF SumOf, MapThenSumSet, MapThenFoldSet
<1> HIDE DEF it
<1>6. Recurs(f, T, it)
    BY <1>4 DEF Recurs
<1>7. it[T] = g[T]
    BY <1>6, SumUnique
<1> QED
    BY <1>5, <1>7

LEMMA SumOfUnion ==
    ASSUME NEW S, IsFiniteSet(S), NEW f, \A x \in S : f[x] \in Nat, NEW g, IsSum(f, S, g),
           NEW A \in SUBSET S, NEW B \in SUBSET S, A \cap B = {}
    PROVE  g[A \cup B] = g[A] + g[B]
<1> DEFINE P == {T \in SUBSET B : g[A \cup T] = g[A] + g[T]}
<1>0. IsFiniteSet(B) /\ \A T \in SUBSET S : g[T] \in Nat
    BY FS_Subset DEF IsSum
<1>1. {} \in P
    <2>1. A \cup {} = A /\ g[{}] = 0 /\ g[A] \in Nat
        BY <1>0 DEF IsSum
    <2> QED
        BY <2>1
<1>2. ASSUME NEW T \in SUBSET B, NEW x \in B \ T, T \in P PROVE T \cup {x} \in P
    <2> DEFINE U == A \cup (T \cup {x})
    <2>1. U \in SUBSET S /\ x \in U /\ U \ {x} = A \cup T /\ T \cup {x} \in SUBSET S
          /\ (T \cup {x}) \ {x} = T /\ T \in SUBSET S /\ x \in S
        BY <1>2
    <2>2. g[U] = f[x] + g[A \cup T] /\ g[T \cup {x}] = f[x] + g[T]
        BY <2>1 DEF IsSum
    <2>3. g[A \cup T] = g[A] + g[T] /\ g[A] \in Nat /\ g[T] \in Nat /\ f[x] \in Nat
        BY <1>0, <1>2, <2>1
    <2>4. g[U] = g[A] + g[T \cup {x}]
        BY <2>2, <2>3
    <2> QED
        BY <1>2, <2>4
<1> HIDE DEF P
<1>3. B \in P
    BY <1>0, <1>1, <1>2, ByAdding
<1> QED
    BY <1>3 DEF P

Part(S, key, k) == {x \in S : key[x] = k}

\* The sums of the parts add up to the sum of the whole.
LEMMA SumOfParts ==
    ASSUME NEW S, IsFiniteSet(S), NEW f, \A x \in S : f[x] \in Nat, NEW g, IsSum(f, S, g),
           NEW K, IsFiniteSet(K), NEW key \in [S -> K],
           NEW p, \A k \in K : p[k] = g[Part(S, key, k)],
           NEW G, IsSum(p, K, G)
    PROVE  G[K] = g[S]
<1> DEFINE in(L) == {x \in S : key[x] \in L}
           P == {L \in SUBSET K : G[L] = g[in(L)]}
<1>1. {} \in P
    <2>1. in({}) = {}
        OBVIOUS
    <2> QED
        BY <2>1 DEF IsSum
<1>2. ASSUME NEW L \in SUBSET K, NEW k \in K \ L, L \in P PROVE L \cup {k} \in P
    <2>1. L \cup {k} \in SUBSET K /\ k \in L \cup {k} /\ (L \cup {k}) \ {k} = L
        BY <1>2
    <2>2. G[L \cup {k}] = p[k] + G[L]
        BY <2>1 DEF IsSum
    <2> DEFINE part == {x \in S : key[x] = k}
    <2>3. in(L \cup {k}) = part \cup in(L) /\ part \cap in(L) = {} /\ part \in SUBSET S /\ in(L) \in SUBSET S
        BY <1>2
    <2>4. p[k] = g[part] /\ G[L] = g[in(L)]
        BY <1>2 DEF Part
    <2> HIDE DEF part, in
    <2>5. g[part \cup in(L)] = g[part] + g[in(L)]
        BY <2>3, SumOfUnion
    <2>6. G[L \cup {k}] = g[in(L \cup {k})]
        BY <2>2, <2>3, <2>4, <2>5
    <2> QED
        BY <2>1, <2>6
<1> HIDE DEF P
<1>3. K \in P
    BY <1>1, <1>2, ByAdding
<1>4. in(K) = S
    OBVIOUS
<1> QED
    BY <1>3, <1>4 DEF P

\* Of a quantity that adds up over rows, the sums of the parts of a table add up.
LEMMA PartsAddUp ==
    ASSUME NEW S, IsFiniteSet(S), NEW f, \A x \in S : f[x] \in Nat,
           NEW K, IsFiniteSet(K), NEW key \in [S -> K],
           NEW p, \A k \in K : p[k] = SumOf(f, Part(S, key, k))
    PROVE  SumOf(p, K) = SumOf(f, S)
<1>1. PICK g : IsSum(f, S, g)
    BY SumExists
<1>2. ASSUME NEW R \in SUBSET S PROVE SumOf(f, R) = g[R] /\ g[R] \in Nat
    <2>1. SumOf(f, R) = g[R]
        BY <1>1, SumIs
    <2> QED
        BY <1>1, <2>1 DEF IsSum
<1>3. \A k \in K : Part(S, key, k) \in SUBSET S
    BY DEF Part
<1>4. \A k \in K : p[k] = g[Part(S, key, k)] /\ p[k] \in Nat
    BY <1>2, <1>3
<1>5. PICK G : IsSum(p, K, G)
    BY <1>4, SumExists
<1>6. G[K] = g[S]
    BY <1>1, <1>4, <1>5, SumOfParts
<1>7. SumOf(p, K) = G[K]
    BY <1>5, SumIs
<1> QED
    BY <1>2, <1>6, <1>7

\* The sum of ones is the number of elements.
LEMMA SumOfOnes ==
    ASSUME NEW S, IsFiniteSet(S)
    PROVE  \A R \in SUBSET S : SumOf([x \in S |-> 1], R) = Cardinality(R)
<1> DEFINE f == [x \in S |-> 1]
           g == [R \in SUBSET S |-> Cardinality(R)]
<1>1. \A R \in SUBSET S : IsFiniteSet(R) /\ Cardinality(R) \in Nat
    BY FS_Subset, FS_CardinalityType
<1>2. ASSUME NEW R \in SUBSET S, NEW x \in R PROVE g[R] = f[x] + g[R \ {x}]
    <2>1. Cardinality(R \ {x}) = Cardinality(R) - 1 /\ Cardinality(R) \in Nat
        BY <1>1, FS_RemoveElement
    <2>2. g[R] = Cardinality(R) /\ g[R \ {x}] = Cardinality(R \ {x}) /\ f[x] = 1
        OBVIOUS
    <2> HIDE DEF f, g
    <2> QED
        BY <2>1, <2>2
<1>3. g \in [SUBSET S -> Nat] /\ g[{}] = 0
    BY <1>1, FS_EmptySet
<1>4. \A R \in SUBSET S : g[R] = Cardinality(R)
    OBVIOUS
<1> HIDE DEF f, g
<1>5. IsSum(f, S, g)
    BY <1>2, <1>3 DEF IsSum
<1>6. \A R \in SUBSET S : SumOf(f, R) = Cardinality(R)
    BY <1>4, <1>5, SumIs
<1> QED
    BY <1>6 DEF f

\* The laws of sums that the totals need, in terms of the library's sum.
LEMMA SumLaws ==
    ASSUME NEW S, IsFiniteSet(S), NEW f, \A x \in S : f[x] \in Nat
    PROVE  /\ SumOf(f, {}) = 0
           /\ \A T \in SUBSET S : SumOf(f, T) \in Nat
           /\ \A T \in SUBSET S : \A x \in S \ T : SumOf(f, T \cup {x}) = f[x] + SumOf(f, T)
           /\ \A x \in S : SumOf(f, {x}) = f[x]
           /\ \A A, B \in SUBSET S : A \cap B = {} => SumOf(f, A \cup B) = SumOf(f, A) + SumOf(f, B)
<1>1. PICK g : IsSum(f, S, g)
    BY SumExists
<1>2. \A T \in SUBSET S : SumOf(f, T) = g[T]
    BY <1>1, SumIs
<1>3. SumOf(f, {}) = 0 /\ \A T \in SUBSET S : SumOf(f, T) \in Nat
    BY <1>1, <1>2 DEF IsSum
<1>4. ASSUME NEW T \in SUBSET S, NEW x \in S \ T
      PROVE  SumOf(f, T \cup {x}) = f[x] + SumOf(f, T)
    <2>1. T \cup {x} \in SUBSET S /\ (T \cup {x}) \ {x} = T /\ x \in T \cup {x}
        OBVIOUS
    <2>2. g[T \cup {x}] = f[x] + g[T]
        BY <1>1, <2>1 DEF IsSum
    <2> QED
        BY <1>2, <2>1, <2>2
<1>5. ASSUME NEW x \in S PROVE SumOf(f, {x}) = f[x]
    <2>1. {} \in SUBSET S /\ x \in S \ {} /\ {} \cup {x} = {x}
        OBVIOUS
    <2>2. SumOf(f, {x}) = f[x] + SumOf(f, {})
        BY <1>4, <2>1
    <2> QED
        BY <1>3, <2>2
<1>6. ASSUME NEW A \in SUBSET S, NEW B \in SUBSET S, A \cap B = {}
      PROVE  SumOf(f, A \cup B) = SumOf(f, A) + SumOf(f, B)
    <2>1. IsFiniteSet(S) /\ \A x \in S : f[x] \in Nat
        OBVIOUS
    <2>2. g[A \cup B] = g[A] + g[B]
        BY ONLY <1>1, <1>6, <2>1, SumOfUnion, SMTT(60)
    <2> QED
        BY <1>2, <2>2
<1> QED
    BY <1>3, <1>4, <1>5, <1>6

\* The sum over one element is what it counts for.
LEMMA SumOfOne ==
    ASSUME NEW S, IsFiniteSet(S), NEW f, \A x \in S : f[x] \in Nat, NEW x \in S
    PROVE  SumOf(f, {x}) = f[x]
BY SumLaws

\* The sum with one more element
LEMMA SumWithOneMore ==
    ASSUME NEW S, IsFiniteSet(S), NEW f, \A x \in S : f[x] \in Nat, NEW T \in SUBSET S, NEW x \in S \ T
    PROVE  SumOf(f, T \cup {x}) = f[x] + SumOf(f, T)
BY SumLaws

\* Of two quantities, the one that is never larger has the sum that is not larger.
LEMMA SumIsMonotone ==
    ASSUME NEW S, IsFiniteSet(S), NEW f, NEW g, \A x \in S : f[x] \in Nat /\ g[x] \in Nat /\ f[x] <= g[x]
    PROVE  SumOf(f, S) <= SumOf(g, S)
<1> DEFINE P == {T \in SUBSET S : SumOf(f, T) <= SumOf(g, T)}
<1>1. {} \in P
    BY SumLaws
<1>2. ASSUME NEW T \in SUBSET S, NEW x \in S \ T, T \in P PROVE T \cup {x} \in P
    <2>1. SumOf(f, T) \in Nat /\ SumOf(g, T) \in Nat
        BY SumLaws
    <2>2. SumOf(f, T \cup {x}) = f[x] + SumOf(f, T)
        BY SumLaws
    <2>3. SumOf(g, T \cup {x}) = g[x] + SumOf(g, T)
        BY SumLaws
    <2>4. SumOf(f, T) <= SumOf(g, T)
        BY <1>2
    <2>5. SumOf(f, T \cup {x}) <= SumOf(g, T \cup {x})
        BY <2>1, <2>2, <2>3, <2>4
    <2> QED
        BY <2>5
<1> HIDE DEF P
<1>3. S \in P
    BY <1>1, <1>2, ByAdding
<1> QED
    BY <1>3 DEF P

\* A quantity that is k times another, where the other is, and nothing elsewhere
LEMMA SumIsLinear ==
    ASSUME NEW S, IsFiniteSet(S), NEW R \in SUBSET S, NEW k \in Nat, NEW f, NEW g,
           \A x \in R : f[x] \in Nat /\ g[x] = f[x] * k,
           \A x \in S \ R : g[x] = 0
    PROVE  SumOf(g, S) = SumOf(f, R) * k
<1> DEFINE P == {T \in SUBSET S : SumOf(g, T) = SumOf(f, T \cap R) * k}
<1>1. \A x \in S : g[x] \in Nat
    <2>1. ASSUME NEW n \in Nat PROVE n * k \in Nat
        OBVIOUS
    <2> QED
        BY <2>1
<1>2. IsFiniteSet(R)
    BY FS_Subset
<1>3. {} \in P
    <2>1. SumOf(g, {}) = 0
        BY <1>1, SumLaws
    <2>2. SumOf(f, {} \cap R) = 0
        BY <1>2, SumLaws
    <2> QED
        BY <2>1, <2>2
<1>4. ASSUME NEW T \in SUBSET S, NEW x \in S \ T, T \in P PROVE T \cup {x} \in P
    <2>1. SumOf(g, T \cup {x}) = g[x] + SumOf(g, T)
        BY <1>1, SumLaws
    <2>2. SumOf(g, T) = SumOf(f, T \cap R) * k
        BY <1>4
    <2>3. SumOf(f, T \cap R) \in Nat
        BY <1>2, SumLaws
    <2>4. CASE x \in R
        <3>1. (T \cup {x}) \cap R = (T \cap R) \cup {x} /\ T \cap R \in SUBSET R /\ x \in R \ (T \cap R)
            BY <2>4
        <3>2. SumOf(f, (T \cap R) \cup {x}) = f[x] + SumOf(f, T \cap R)
            <4>1. \A y \in R : f[y] \in Nat
                OBVIOUS
            <4> QED
                BY ONLY <1>2, <3>1, <4>1, SumWithOneMore
        <3>3. ASSUME NEW m \in Nat, NEW n \in Nat PROVE m * k + n * k = (m + n) * k
            OBVIOUS
        <3>4. g[x] = f[x] * k /\ f[x] \in Nat
            BY <2>4
        <3>5. SumOf(g, T \cup {x}) = SumOf(f, (T \cup {x}) \cap R) * k
            BY <2>1, <2>2, <2>3, <3>1, <3>2, <3>3, <3>4
        <3> QED
            BY <3>5
    <2>5. CASE x \notin R
        <3>1. (T \cup {x}) \cap R = T \cap R /\ g[x] = 0 /\ SumOf(g, T) \in Nat
            <4>1. SumOf(g, T) \in Nat
                BY <1>1, SumLaws
            <4> QED
                BY <2>5, <4>1
        <3>2. SumOf(g, T \cup {x}) = SumOf(g, T)
            BY <2>1, <3>1
        <3> QED
            BY <2>2, <3>1, <3>2
    <2> QED
        BY <2>4, <2>5
<1> HIDE DEF P
<1>5. S \in P
    BY <1>2, <1>3, <1>4, ByAdding
<1>6. S \cap R = R
    OBVIOUS
<1> QED
    BY <1>5, <1>6 DEF P

\* The sum of nothings is nothing.
LEMMA NoSum ==
    ASSUME NEW S, IsFiniteSet(S), NEW f, \A x \in S : f[x] = 0
    PROVE  SumOf(f, S) = 0
<1>1. {} \in SUBSET S /\ 0 \in Nat /\ (\A x \in {} : f[x] \in Nat /\ f[x] = f[x] * 0) /\ \A x \in S \ {} : f[x] = 0
    OBVIOUS
<1>2. SumOf(f, S) = SumOf(f, {}) * 0
    BY <1>1, SumIsLinear
<1>3. SumOf(f, {}) = 0
    <2>1. IsFiniteSet({}) /\ \A x \in {} : f[x] \in Nat
        BY FS_EmptySet
    <2> QED
        BY <2>1, SumLaws
<1> QED
    BY <1>2, <1>3

\* A sum over the elements of S is one over what they are mapped to, one to one.
LEMMA SumIsRenamed ==
    ASSUME NEW S, IsFiniteSet(S), NEW K, NEW h \in Bijection(S, K),
           NEW f, NEW p, \A k \in K : p[k] \in Nat, \A x \in S : f[x] = p[h[x]]
    PROVE  SumOf(f, S) = SumOf(p, K)
<1>1. h \in [S -> K] /\ h \in Surjection(S, K) /\ \A x, y \in S : h[x] = h[y] => x = y
    BY DEF Bijection, Surjection, Injection, IsInjective
<1>2. IsFiniteSet(K)
    BY <1>1, FS_Surjection
<1>3. \A x \in S : f[x] \in Nat
    BY <1>1
<1>4. ASSUME NEW k \in K PROVE p[k] = SumOf(f, Part(S, h, k))
    <2>1. PICK x \in S : h[x] = k
        BY <1>1 DEF Surjection
    <2>2. Part(S, h, k) = {x}
        BY <1>1, <2>1 DEF Part
    <2>3. SumOf(f, {x}) = f[x]
        BY <1>3, SumLaws
    <2> QED
        BY <2>1, <2>2, <2>3
<1>5. \A x \in S : f[x] \in Nat
    BY <1>3
<1> QED
    BY <1>1, <1>2, <1>4, <1>5, PartsAddUp

\* What a finite set is mapped to is finite.
LEMMA RangeIsFinite ==
    ASSUME NEW S, IsFiniteSet(S), NEW f, f = [x \in S |-> f[x]]
    PROVE  IsFiniteSet({f[x] : x \in S})
<1>1. f \in Surjection(S, {f[x] : x \in S})
    BY DEF Surjection
<1> QED
    BY <1>1, FS_Surjection

\* The products of natural numbers are natural numbers.
LEMMA Products ==
    ASSUME NEW m \in Nat, NEW n \in Nat
    PROVE  m * n \in Nat
OBVIOUS

----------------------------------------------------------------------------
(* Ranks. *)

Before(S, R, x) == {y \in S : <<y, x>> \in R}

\* R puts the elements of S in an order, without ties.
IsOrder(S, R) ==
    /\ \A x \in S : <<x, x>> \notin R
    /\ \A x, y, z \in S : <<x, y>> \in R /\ <<y, z>> \in R => <<x, z>> \in R
    /\ \A x, y \in S : x # y => <<x, y>> \in R \/ <<y, x>> \in R

\* The places of the elements, counted by what comes before each, are 1 to their number.
LEMMA Ranked ==
    ASSUME NEW S, IsFiniteSet(S), NEW R, IsOrder(S, R)
    PROVE  /\ \A x \in S : Cardinality(Before(S, R, x)) \in 0..(Cardinality(S) - 1)
           /\ \A n \in 1..Cardinality(S) : \E x \in S : Cardinality(Before(S, R, x)) = n - 1
           /\ \A x, z \in S : Cardinality(Before(S, R, x)) = Cardinality(Before(S, R, z)) => x = z
<1> DEFINE before(x) == Before(S, R, x)
           N == Cardinality(S)
           place == [x \in S |-> Cardinality(before(x))]
<1>1. N \in Nat /\ \A T \in SUBSET S : IsFiniteSet(T) /\ Cardinality(T) \in Nat
    BY FS_Subset, FS_CardinalityType
<1>2. ASSUME NEW x \in S PROVE Cardinality(before(x)) \in 0..(N - 1)
    <2>1. before(x) \in SUBSET (S \ {x}) /\ before(x) \in SUBSET S
        BY DEF IsOrder, Before
    <2>2. IsFiniteSet(S \ {x}) /\ Cardinality(S \ {x}) = N - 1
        BY FS_RemoveElement
    <2> HIDE DEF before, N
    <2>3. Cardinality(before(x)) <= N - 1
        BY <2>1, <2>2, FS_Subset
    <2> QED
        BY <1>1, <2>1, <2>3
<1>3. ASSUME NEW x \in S, NEW y \in S, <<x, y>> \in R PROVE Cardinality(before(x)) < Cardinality(before(y))
    <2>1. x \notin before(x) /\ before(x) \cup {x} \in SUBSET before(y)
          /\ before(x) \in SUBSET S /\ before(y) \in SUBSET S
        BY <1>3 DEF IsOrder, Before
    <2> HIDE DEF before
    <2>2. IsFiniteSet(before(x)) /\ IsFiniteSet(before(y))
          /\ Cardinality(before(x)) \in Nat /\ Cardinality(before(y)) \in Nat
        BY <1>1, <2>1
    <2>3. Cardinality(before(x) \cup {x}) = Cardinality(before(x)) + 1
        BY <2>1, <2>2, FS_AddElement
    <2>4. Cardinality(before(x) \cup {x}) <= Cardinality(before(y))
        BY <2>1, <2>2, FS_Subset
    <2> QED
        BY <2>2, <2>3, <2>4
<1>4. place \in [S -> 0..(N - 1)]
    BY <1>2
<1>5. ASSUME NEW x \in S, NEW y \in S, place[x] = place[y] PROVE x = y
    <2>1. ~(place[x] < place[y]) /\ ~(place[y] < place[x])
        BY <1>1, <1>4, <1>5
    <2>2. <<x, y>> \notin R /\ <<y, x>> \notin R
        BY <1>3, <2>1
    <2> QED
        BY <2>2 DEF IsOrder
<1>6. place \in Injection(S, 0..(N - 1))
    BY <1>4, <1>5 DEF Injection, IsInjective
<1> HIDE DEF N, place
<1>7. IsFiniteSet(0..(N - 1)) /\ Cardinality(0..(N - 1)) = N
    <2>1. 0 \in Int /\ N - 1 \in Int /\ (0 > N - 1 => N = 0)
        BY <1>1
    <2> QED
        BY <1>1, <2>1, FS_Interval
<1>8. place \in Surjection(S, 0..(N - 1))
    BY <1>6, <1>7, FS_Injection DEF N
<1>9. \A m \in 0..(N - 1) : \E x \in S : place[x] = m
    BY <1>8 DEF Surjection
<1>10. \A x \in S : place[x] = Cardinality(before(x))
    BY DEF place
<1>11. \A n \in 1..N : \E x \in S : Cardinality(before(x)) = n - 1
    <2> HIDE DEF before
    <2> TAKE n \in 1..N
    <2>1. n - 1 \in 0..(N - 1)
        BY <1>1
    <2> QED
        BY <1>9, <1>10, <2>1
<1>12. \A x, z \in S : Cardinality(before(x)) = Cardinality(before(z)) => x = z
    <2> HIDE DEF before
    <2> QED
        BY <1>5, <1>10
<1> QED
    BY <1>2, <1>11, <1>12 DEF N

----------------------------------------------------------------------------
(* spreadsheet-cleanup: the rows. *)

\* What the loop over the rows has found before it comes to the n-th.
KeptBefore(n) == {i \in RowNumbers \ Duplicates : i < n /\ ~Blocks(i)}

ProblemsBefore(n) ==
    UNION {{Issue(i, f, "problem") : f \in Problems(i)} : i \in {k \in RowNumbers \ Duplicates : k < n}}

Good == KeptBefore(Len(raw) + 1)

AllProblems == ProblemsBefore(Len(raw) + 1)

Conflicts == {Issue(i, "order_id", "conflict") : i \in {k \in kept : Repeated(k)}}

Dropped == frame = RowNumbers \ Duplicates

Normalised ==
    /\ at \in 1..(Len(raw) + 1)
    /\ kept = KeptBefore(at) /\ issues = ProblemsBefore(at) /\ clean = {}

Sorted ==
    /\ kept = Good
    /\ issues = AllProblems \cup Conflicts
    /\ clean = {i \in kept : ~Repeated(i)}

IInv ==
    /\ raw \in Exports
    /\ pc \in {"loading", "dropping"} => at = 1 /\ kept = {} /\ issues = {} /\ clean = {}
    /\ pc = "normalising" => Dropped /\ Normalised
    /\ Cleaned => Dropped /\ Sorted

LEMMA RawType ==
    ASSUME IInv
    PROVE  Len(raw) \in Nat /\ RowNumbers = 1..Len(raw) /\ RowNumbers \subseteq Nat
<1>1. raw \in Seq([Fields -> Texts])
    BY ExportsAssumption DEF IInv
<1> QED
    BY <1>1 DEF RowNumbers

LEMMA InitIInv == Init => IInv
BY DEF Init, IInv, Cleaned

\* A step that leaves the rows and what was found about them alone
LEMMA SameFound ==
    ASSUME IInv, UNCHANGED <<raw, found>>
    PROVE  /\ Dropped => Dropped'
           /\ Sorted => Sorted'
           /\ (at = 1 /\ kept = {} /\ issues = {} /\ clean = {})
              => (at = 1 /\ kept = {} /\ issues = {} /\ clean = {})'
<1>1. raw' = raw /\ frame' = frame /\ at' = at /\ kept' = kept /\ issues' = issues /\ clean' = clean
    BY DEF found
<1>2. Good' = Good /\ AllProblems' = AllProblems
    BY <1>1 DEF Good, AllProblems, KeptBefore, ProblemsBefore, RowNumbers, Duplicates, Blocks,
                Problems, IsWrong, Value
<1>3. Conflicts' = Conflicts /\ {i \in kept : ~Repeated(i)}' = {i \in kept : ~Repeated(i)}
    BY <1>1 DEF Conflicts, Repeated, Value
<1>4. Dropped => Dropped'
    BY <1>1 DEF Dropped, RowNumbers, Duplicates
<1>5. Sorted => Sorted'
    BY <1>1, <1>2, <1>3 DEF Sorted
<1> QED
    BY <1>1, <1>4, <1>5

\* The next row is normalised: what was found before it, and what is found in it.
LEMMA NormaliseRowIInv ==
    ASSUME IInv, NormaliseRow
    PROVE  IInv'
<1>1. Len(raw) \in Nat /\ RowNumbers = 1..Len(raw)
    BY RawType
<1>2. /\ Dropped /\ kept = KeptBefore(at) /\ issues = ProblemsBefore(at) /\ clean = {}
      /\ at \in 1..Len(raw)
    BY <1>1 DEF NormaliseRow, IInv, Normalised
<1>3. raw' = raw /\ frame' = frame /\ clean' = clean /\ at' = at + 1 /\ pc' = "normalising"
    BY DEF NormaliseRow
<1> DEFINE n == at + 1
<1>4. \A i \in RowNumbers : i < n <=> (i < at \/ i = at)
    BY <1>1, <1>2
<1>5. KeptBefore(n) = IF at \in frame /\ ~Blocks(at) THEN KeptBefore(at) \cup {at} ELSE KeptBefore(at)
    BY <1>1, <1>2, <1>4 DEF KeptBefore, Dropped
<1>6. ProblemsBefore(n) =
        IF at \in frame
        THEN ProblemsBefore(at) \cup {Issue(at, f, "problem") : f \in Problems(at)}
        ELSE ProblemsBefore(at)
    <2> DEFINE rows(m) == {k \in RowNumbers \ Duplicates : k < m}
               of(i) == {Issue(i, f, "problem") : f \in Problems(i)}
    <2>1. rows(n) = IF at \in frame THEN rows(at) \cup {at} ELSE rows(at)
        BY <1>1, <1>2, <1>4 DEF Dropped
    <2>2. ProblemsBefore(n) = UNION {of(i) : i \in rows(n)}
          /\ ProblemsBefore(at) = UNION {of(i) : i \in rows(at)}
        BY DEF ProblemsBefore
    <2> HIDE DEF of, rows
    <2>3. ASSUME NEW R PROVE UNION {of(i) : i \in R \cup {at}} = (UNION {of(i) : i \in R}) \cup of(at)
        <3> DEFINE larger == UNION {of(i) : i \in R \cup {at}}
                   smaller == UNION {of(i) : i \in R}
        <3>1. ASSUME NEW x
              PROVE  x \in larger <=> \E i \in R \cup {at} : x \in of(i)
            OBVIOUS
        <3>2. ASSUME NEW x
              PROVE  x \in smaller <=> \E i \in R : x \in of(i)
            OBVIOUS
        <3>3. \A x : x \in larger <=> x \in smaller \/ x \in of(at)
            BY <3>1, <3>2
        <3> HIDE DEF larger, smaller
        <3>4. larger = smaller \cup of(at)
            BY <3>3
        <3> QED
            BY <3>4 DEF larger, smaller
    <2>4. CASE at \in frame
        BY <2>1, <2>2, <2>3, <2>4 DEF of
    <2>5. CASE at \notin frame
        BY <2>1, <2>2, <2>5
    <2> QED
        BY <2>4, <2>5
<1>7. kept' = KeptBefore(n) /\ issues' = ProblemsBefore(n)
    BY <1>2, <1>5, <1>6 DEF NormaliseRow
<1>8. KeptBefore(n) = (KeptBefore(at))' /\ ProblemsBefore(n) = (ProblemsBefore(at))'
    BY <1>3 DEF KeptBefore, ProblemsBefore, RowNumbers, Duplicates, Blocks, Problems, IsWrong, Value
<1>9. Normalised'
    BY <1>1, <1>2, <1>3, <1>7, <1>8 DEF Normalised
<1>10. Dropped'
    BY <1>2, <1>3 DEF Dropped, RowNumbers, Duplicates
<1> QED
    BY <1>3, <1>9, <1>10 DEF IInv, Cleaned

LEMMA FindConflictsIInv ==
    ASSUME IInv, FindConflicts
    PROVE  IInv'
<1>1. Len(raw) \in Nat /\ RowNumbers = 1..Len(raw)
    BY RawType
<1>2. Dropped /\ Normalised /\ at \notin RowNumbers
    BY DEF FindConflicts, Goes, IInv
<1>3. at = Len(raw) + 1
    BY <1>1, <1>2 DEF Normalised
<1>4. kept = Good /\ issues = AllProblems
    BY <1>2, <1>3 DEF Normalised, Good, AllProblems
<1>5. /\ raw' = raw /\ frame' = frame /\ kept' = kept /\ pc' = "summarising"
      /\ issues' = issues \cup Conflicts /\ clean' = {i \in kept : ~Repeated(i)}
    BY DEF FindConflicts, Goes, Conflicts
<1>6. Good' = Good /\ AllProblems' = AllProblems
    BY <1>5 DEF Good, AllProblems, KeptBefore, ProblemsBefore, RowNumbers, Duplicates, Blocks,
                Problems, IsWrong, Value
<1>7. Conflicts' = Conflicts /\ {i \in kept : ~Repeated(i)}' = {i \in kept : ~Repeated(i)}
    BY <1>5 DEF Conflicts, Repeated, Value
<1>8. Sorted'
    BY <1>4, <1>5, <1>6, <1>7 DEF Sorted
<1>9. Dropped'
    BY <1>2, <1>5 DEF Dropped, RowNumbers, Duplicates
<1> QED
    BY <1>5, <1>8, <1>9 DEF IInv

LEMMA StepIInv ==
    ASSUME IInv, [Next]_vars
    PROVE  IInv'
<1>1. CASE DropDuplicates
    <2>1. Len(raw) \in Nat /\ RowNumbers = 1..Len(raw)
        BY RawType
    <2>2. /\ raw' = raw /\ frame' = RowNumbers \ Duplicates /\ pc' = "normalising"
          /\ at' = 1 /\ kept' = {} /\ issues' = {} /\ clean' = {}
        BY <1>1 DEF DropDuplicates, Goes, IInv
    <2>3. Dropped'
        BY <2>2 DEF Dropped, RowNumbers, Duplicates
    <2>4. (KeptBefore(at))' = {} /\ (ProblemsBefore(at))' = {}
        BY <2>1, <2>2 DEF KeptBefore, ProblemsBefore, RowNumbers
    <2>5. Normalised'
        BY <2>1, <2>2, <2>4 DEF Normalised
    <2> QED
        BY <2>2, <2>3, <2>5 DEF IInv, Cleaned
<1>2. CASE NormaliseRow
    BY <1>2, NormaliseRowIInv
<1>3. CASE FindConflicts
    BY <1>3, FindConflictsIInv
<1>4. CASE Load
    BY <1>4, SameFound DEF Load, Goes, IInv, Cleaned
<1>5. CASE LoadFails \/ Kill
    BY <1>5 DEF LoadFails, Kill, Goes, IInv, Cleaned
<1>6. CASE Summarise
    BY <1>6, SameFound DEF Summarise, Goes, IInv, Cleaned
<1>7. CASE OpenWorkbook \/ CloseWorkbook \/ WriteFails
    BY <1>7, SameFound DEF OpenWorkbook, CloseWorkbook, WriteFails, Goes, IInv, Cleaned
<1>8. CASE UNCHANGED vars
    <2>1. Normalised => Normalised'
        BY <1>8 DEF vars, found, Normalised, KeptBefore, ProblemsBefore, RowNumbers, Duplicates,
                    Blocks, Problems, IsWrong, Value
    <2> QED
        BY <1>8, <2>1, SameFound DEF vars, IInv, Cleaned
<1> QED
    BY <1>1, <1>2, <1>3, <1>4, <1>5, <1>6, <1>7, <1>8 DEF Next

----------------------------------------------------------------------------
(* spreadsheet-cleanup: what the invariant says of a row. *)

LEMMA KeptRows ==
    ASSUME IInv, Cleaned
    PROVE  /\ frame \subseteq RowNumbers /\ kept = {i \in frame : ~Blocks(i)}
           /\ clean = {i \in kept : ~Repeated(i)}
           /\ \A i \in RowNumbers : \A f, k : Issue(i, f, k) \in issues <=>
                \/ i \in frame /\ f \in Problems(i) /\ k = "problem"
                \/ i \in kept /\ Repeated(i) /\ f = "order_id" /\ k = "conflict"
           /\ \A x \in issues : x = Issue(x.row, x.field, x.kind) /\ x.row \in RowNumbers
<1>1. Len(raw) \in Nat /\ RowNumbers = 1..Len(raw)
    BY RawType
<1>2. Dropped /\ Sorted
    BY DEF IInv
<1>3. \A i \in RowNumbers : i < Len(raw) + 1
    BY <1>1
<1>4. kept = {i \in frame : ~Blocks(i)} /\ frame \subseteq RowNumbers
    BY <1>2, <1>3 DEF Dropped, Sorted, Good, KeptBefore
<1>5. AllProblems = UNION {{Issue(i, f, "problem") : f \in Problems(i)} : i \in frame}
    <2>1. {k \in RowNumbers \ Duplicates : k < Len(raw) + 1} = frame
        BY <1>2, <1>3 DEF Dropped
    <2> QED
        BY <2>1 DEF AllProblems, ProblemsBefore
<1>6. \A i, f, k, j, g, l : Issue(i, f, k) = Issue(j, g, l) => i = j /\ f = g /\ k = l
    BY DEF Issue
<1>7. ASSUME NEW x
      PROVE  x \in AllProblems <=> \E i \in frame : \E f \in Problems(i) : x = Issue(i, f, "problem")
    BY <1>5
<1>8. ASSUME NEW x
      PROVE  x \in Conflicts <=> \E i \in kept : Repeated(i) /\ x = Issue(i, "order_id", "conflict")
    BY DEF Conflicts
<1>9. issues = AllProblems \cup Conflicts
    BY <1>2 DEF Sorted
<1>10. ASSUME NEW i \in RowNumbers, NEW f, NEW k
       PROVE  Issue(i, f, k) \in issues <=>
                \/ i \in frame /\ f \in Problems(i) /\ k = "problem"
                \/ i \in kept /\ Repeated(i) /\ f = "order_id" /\ k = "conflict"
    BY <1>6, <1>7, <1>8, <1>9
<1>11. ASSUME NEW x \in issues
       PROVE  x = Issue(x.row, x.field, x.kind) /\ x.row \in RowNumbers
    <2>1. PICK i \in RowNumbers : \E f, k : x = Issue(i, f, k)
        BY <1>4, <1>7, <1>8, <1>9
    <2> QED
        BY <2>1 DEF Issue
<1> QED
    BY <1>2, <1>4, <1>10, <1>11 DEF Sorted

LEMMA HasIssueIs ==
    ASSUME IInv, Cleaned, NEW i \in RowNumbers
    PROVE  /\ HasIssue(i, "problem", Fields \ {"email"}) <=> i \in frame /\ Blocks(i)
           /\ HasIssue(i, "conflict", Fields) <=> i \in kept /\ Repeated(i)
<1>1. ASSUME NEW k, NEW F
      PROVE  HasIssue(i, k, F) <=> \E f \in F : Issue(i, f, k) \in issues
    <2>1. ASSUME HasIssue(i, k, F) PROVE \E f \in F : Issue(i, f, k) \in issues
        <3>1. PICK x \in issues : x.row = i /\ x.kind = k /\ x.field \in F
            BY <2>1 DEF HasIssue
        <3>2. x = Issue(i, x.field, k)
            BY <3>1, KeptRows
        <3> QED
            BY <3>1, <3>2
    <2>2. ASSUME NEW f \in F, Issue(i, f, k) \in issues PROVE HasIssue(i, k, F)
        BY <2>2 DEF HasIssue, Issue
    <2> QED
        BY <2>1, <2>2
<1>2. "problem" # "conflict" /\ "order_id" \in Fields
    BY DEF Fields
<1>3. HasIssue(i, "problem", Fields \ {"email"}) <=> i \in frame /\ Blocks(i)
    <2>1. \A f : Issue(i, f, "problem") \in issues <=> i \in frame /\ f \in Problems(i)
        BY <1>2, KeptRows
    <2>2. Blocks(i) <=> \E f \in Fields \ {"email"} : f \in Problems(i)
        BY DEF Blocks, Problems
    <2> QED
        BY <1>1, <2>1, <2>2
<1>4. HasIssue(i, "conflict", Fields) <=> i \in kept /\ Repeated(i)
    <2>1. \A f : Issue(i, f, "conflict") \in issues <=> i \in kept /\ Repeated(i) /\ f = "order_id"
        BY <1>2, KeptRows
    <2> QED
        BY <1>1, <1>2, <2>1
<1> QED
    BY <1>3, <1>4

\* A row that was dropped repeats an earlier one that was not.
LEMMA DroppedRepeats ==
    ASSUME IInv, Cleaned, NEW i \in RowNumbers, i \notin frame
    PROVE  \E j \in frame : j < i /\ raw[j] = raw[i]
<1>1. Len(raw) \in Nat /\ RowNumbers = 1..Len(raw) /\ RowNumbers \subseteq Nat
    BY RawType
<1>2. frame = RowNumbers \ Duplicates
    BY DEF IInv, Dropped
<1> DEFINE S == {j \in RowNumbers : raw[j] = raw[i]}
<1>3. i \in S /\ S \subseteq Nat
    BY <1>1
<1>4. PICK j \in S : \A k \in S : j <= k
    BY <1>3, Least
<1>5. j \in RowNumbers /\ raw[j] = raw[i]
    OBVIOUS
<1>6. j \notin Duplicates
    <2>1. ASSUME NEW k \in 1..(j - 1), raw[k] = raw[j] PROVE FALSE
        <3>1. k \in RowNumbers /\ k < j
            BY <1>1, <1>5
        <3>2. k \in S
            BY <1>5, <2>1, <3>1
        <3> QED
            BY <1>1, <1>4, <1>5, <3>1, <3>2
    <2> QED
        BY <2>1 DEF Duplicates
<1>7. j # i /\ j <= i
    BY <1>2, <1>3, <1>4, <1>6
<1>8. j < i
    BY <1>1, <1>5, <1>7
<1> QED
    BY <1>2, <1>5, <1>6, <1>8

----------------------------------------------------------------------------
\* The inductive invariant holds in every reachable state.
THEOREM Invariance == Spec => []IInv
<1>1. Init => IInv
    BY InitIInv
<1>2. IInv /\ [Next]_vars => IInv'
    BY StepIInv
<1> QED
    BY <1>1, <1>2, PTL DEF Spec

\* Every row of every export is in the clean table, or has an issue that says why
\* not, or repeats an earlier row, and only one of these.
THEOREM RowsAreNeverLost == Spec => []NoRowLost
<1>1. IInv => NoRowLost
    <2> SUFFICES ASSUME IInv, Cleaned, NEW i \in RowNumbers
                 PROVE  /\ \E f \in Fates(i) : Fates(i) = {f}
                        /\ i \notin frame => \E j \in frame : j < i /\ raw[j] = raw[i]
        BY DEF NoRowLost
    <2>1. i \notin frame => \E j \in frame : j < i /\ raw[j] = raw[i]
        BY DroppedRepeats
    <2>2. /\ i \in clean <=> i \in kept /\ ~Repeated(i)
          /\ i \in kept <=> i \in frame /\ ~Blocks(i)
        BY KeptRows
    <2>3. /\ "clean" \in Fates(i) <=> i \in kept /\ ~Repeated(i)
          /\ "rejected" \in Fates(i) <=> i \in frame /\ Blocks(i)
          /\ "conflict" \in Fates(i) <=> i \in kept /\ Repeated(i)
          /\ "duplicate" \in Fates(i) <=> i \notin frame
          /\ Fates(i) \subseteq {"clean", "rejected", "conflict", "duplicate"}
        BY <2>2, HasIssueIs DEF Fates
    <2>4. \E f \in Fates(i) : Fates(i) = {f}
        <3>1. CASE i \notin frame
            BY <2>2, <2>3, <3>1
        <3>2. CASE i \in frame /\ Blocks(i)
            BY <2>2, <2>3, <3>2
        <3>3. CASE i \in kept /\ Repeated(i)
            BY <2>2, <2>3, <3>3
        <3>4. CASE i \in kept /\ ~Repeated(i)
            BY <2>2, <2>3, <3>4
        <3> QED
            BY <2>2, <3>1, <3>2, <3>3, <3>4
    <2> QED
        BY <2>1, <2>4
<1> QED
    BY <1>1, Invariance, PTL

\* Of the rows with one order_id and no blocking problem the first is in the
\* clean table, and no other.
THEOREM FirstGoodRowWins == Spec => []FirstGoodRowKept
<1>1. IInv => FirstGoodRowKept
    <2> SUFFICES ASSUME IInv, Cleaned, NEW i \in frame, ~Blocks(i)
                 PROVE  \E c \in clean :
                            /\ c <= i /\ Value(c, "order_id") = Value(i, "order_id")
                            /\ \A d \in clean : Value(d, "order_id") = Value(i, "order_id") => d = c
        BY DEF FirstGoodRowKept
    <2>1. RowNumbers \subseteq Nat /\ frame \subseteq RowNumbers /\ i \in kept
          /\ kept \subseteq frame /\ clean = {k \in kept : ~Repeated(k)}
        BY RawType, KeptRows
    <2> DEFINE S == {k \in kept : Value(k, "order_id") = Value(i, "order_id")}
    <2>2. S \subseteq Nat /\ i \in S
        BY <2>1
    <2>3. PICK c \in S : \A k \in S : c <= k
        BY <2>2, Least
    <2>4. c \in kept /\ Value(c, "order_id") = Value(i, "order_id") /\ c <= i
        BY <2>2, <2>3
    <2>5. ~Repeated(c)
        <3> SUFFICES ASSUME NEW j \in kept, j < c, Value(j, "order_id") = Value(c, "order_id")
                     PROVE  FALSE
            BY DEF Repeated
        <3>1. j \in S
            BY <2>4
        <3> QED
            BY <2>1, <2>3, <2>4, <3>1
    <2>6. ASSUME NEW d \in clean, Value(d, "order_id") = Value(i, "order_id") PROVE d = c
        <3>1. d \in kept /\ ~Repeated(d)
            BY <2>1
        <3>2. ~(c < d)
            BY <2>4, <2>6, <3>1 DEF Repeated
        <3>3. c <= d
            BY <2>3, <2>6, <3>1
        <3> QED
            BY <2>1, <2>4, <3>1, <3>2, <3>3
    <2> QED
        BY <2>1, <2>4, <2>5, <2>6
<1> QED
    BY <1>1, Invariance, PTL

----------------------------------------------------------------------------
(* spreadsheet-cleanup: the sheets. *)

\* What the rows of the clean table have been parsed to
LEMMA CleanRows ==
    ASSUME IInv, Cleaned
    PROVE  /\ clean \subseteq RowNumbers /\ RowNumbers \subseteq Nat /\ IsFiniteSet(clean)
           /\ \A i \in clean : /\ Value(i, "quantity") \in Nat /\ LineTotal(i) \in Nat
                              /\ DateOf(i) \in Int
<1>1. Len(raw) \in Nat /\ RowNumbers = 1..Len(raw) /\ RowNumbers \subseteq Nat
    BY RawType
<1>2. clean \subseteq RowNumbers /\ \A i \in clean : ~Blocks(i)
    BY KeptRows
<1>3. IsFiniteSet(clean)
    <2>1. IsFiniteSet(1..Len(raw))
        BY <1>1, FS_Interval
    <2> QED
        BY <1>1, <1>2, <2>1, FS_Subset
<1>4. raw \in Exports /\ DOMAIN raw = RowNumbers
    BY <1>1, ExportsAssumption DEF IInv
<1>5. ASSUME NEW i \in clean
      PROVE  Value(i, "quantity") \in Nat /\ LineTotal(i) \in Nat /\ DateOf(i) \in Int
    <2>1. Value(i, "order_date") \in Int \cup {None} /\ Value(i, "quantity") \in Nat \cup {None}
        BY <1>2, <1>4, ParsersAssumption DEF Value
    <2>2. \A f \in {"order_date", "quantity", "unit_price"} : f \notin Problems(i)
        BY <1>2 DEF Blocks
    <2>3. Value(i, "order_date") # None /\ Value(i, "quantity") # None /\ Value(i, "unit_price") \in Nat
        BY <2>2 DEF Problems, IsWrong, Fields
    <2>4. ASSUME NEW q \in Nat, NEW u \in Nat PROVE q * u \in Nat
        OBVIOUS
    <2> QED
        BY <2>1, <2>3, <2>4 DEF LineTotal, DateOf
<1> QED
    BY <1>1, <1>2, <1>3, <1>5

\* The lines of the clean sheet are the clean rows, each once.
LEMMA SheetOfClean ==
    ASSUME IInv, Cleaned
    PROVE  /\ Len(CleanSheet) = Cardinality(clean)
           /\ {CleanSheet[n] : n \in 1..Len(CleanSheet)} = clean
<1> DEFINE R == {p \in clean \X clean : InOrder(p[1], p[2])}
           before(i) == {j \in clean : InOrder(j, i)}
<1>1. clean \subseteq Nat /\ IsFiniteSet(clean) /\ \A i \in clean : DateOf(i) \in Int
    BY CleanRows
<1>2. \A i, j \in clean : <<i, j>> \in R <=> InOrder(i, j)
    OBVIOUS
<1>3. IsOrder(clean, R)
    BY <1>1, <1>2 DEF IsOrder, InOrder
<1>4. \A i \in clean : Before(clean, R, i) = before(i)
    BY <1>2 DEF Before
<1>5. Cardinality(clean) \in Nat
    BY <1>1, FS_CardinalityType
<1> HIDE DEF R
<1>6. /\ \A i \in clean : Cardinality(Before(clean, R, i)) \in 0..(Cardinality(clean) - 1)
      /\ \A n \in 1..Cardinality(clean) : \E i \in clean : Cardinality(Before(clean, R, i)) = n - 1
      /\ \A i, k \in clean :
            Cardinality(Before(clean, R, i)) = Cardinality(Before(clean, R, k)) => i = k
    BY <1>1, <1>3, Ranked
<1> DEFINE place(i) == Cardinality(before(i))
           N == Cardinality(clean)
<1>7. /\ \A i \in clean : place(i) \in 0..(N - 1)
      /\ \A n \in 1..N : \E i \in clean : place(i) = n - 1
      /\ \A i, k \in clean : place(i) = place(k) => i = k
    BY <1>4, <1>6
<1>8. CleanSheet = [n \in 1..N |-> CHOOSE i \in clean : place(i) = n - 1]
    BY DEF CleanSheet
<1> HIDE DEF place, N
<1>9. \A n \in 1..N : CleanSheet[n] \in clean /\ place(CleanSheet[n]) = n - 1
    BY <1>7, <1>8
<1>10. CleanSheet \in [1..N -> clean]
    BY <1>8, <1>9
<1>11. Len(CleanSheet) = N
    BY <1>5, <1>10, SeqDef DEF N
<1>12. ASSUME NEW i \in clean PROVE \E n \in 1..N : CleanSheet[n] = i
    <2>1. place(i) + 1 \in 1..N /\ (place(i) + 1) - 1 = place(i)
        BY <1>5, <1>7 DEF N
    <2>2. place(CleanSheet[place(i) + 1]) = place(i) /\ CleanSheet[place(i) + 1] \in clean
        BY <1>9, <2>1
    <2> QED
        BY <1>7, <2>1, <2>2
<1>13. {CleanSheet[n] : n \in 1..N} = clean
    BY <1>9, <1>12
<1> QED
    BY <1>11, <1>13 DEF N

\* What the rows in R amount to
Units == [i \in clean |-> Value(i, "quantity")]

Revenue == [i \in clean |-> LineTotal(i)]

LEMMA TotalsAre ==
    ASSUME NEW R \in SUBSET clean
    PROVE  /\ Totals(R) = [orders |-> Cardinality(R), units |-> SumOf(Units, R), revenue |-> SumOf(Revenue, R)]
<1>1. MapThenSumSet(LAMBDA i : Value(i, "quantity"), R) = SumOf(Units, R)
    BY DEF Units, SumOf, MapThenSumSet, MapThenFoldSet
<1>2. MapThenSumSet(LineTotal, R) = SumOf(Revenue, R)
    BY DEF Revenue, SumOf, MapThenSumSet, MapThenFoldSet
<1> QED
    BY <1>1, <1>2 DEF Totals

LEMMA AddedUpIs ==
    ASSUME NEW T
    PROVE  AddedUp(T) =
            [orders |-> SumOf([k \in DOMAIN T |-> T[k].orders], DOMAIN T),
             units |-> SumOf([k \in DOMAIN T |-> T[k].units], DOMAIN T),
             revenue |-> SumOf([k \in DOMAIN T |-> T[k].revenue], DOMAIN T)]
<1>1. MapThenSumSet(LAMBDA k : T[k].orders, DOMAIN T) = SumOf([k \in DOMAIN T |-> T[k].orders], DOMAIN T)
    BY DEF SumOf, MapThenSumSet, MapThenFoldSet
<1>2. MapThenSumSet(LAMBDA k : T[k].units, DOMAIN T) = SumOf([k \in DOMAIN T |-> T[k].units], DOMAIN T)
    BY DEF SumOf, MapThenSumSet, MapThenFoldSet
<1>3. MapThenSumSet(LAMBDA k : T[k].revenue, DOMAIN T) = SumOf([k \in DOMAIN T |-> T[k].revenue], DOMAIN T)
    BY DEF SumOf, MapThenSumSet, MapThenFoldSet
<1> QED
    BY <1>1, <1>2, <1>3 DEF AddedUp

\* A summary by any column adds up to the totals of the clean rows.
LEMMA SummaryAddsUp ==
    ASSUME IInv, Cleaned, NEW key, DOMAIN key = clean, NEW T,
           T = [k \in {key[i] : i \in clean} |-> Totals({i \in clean : key[i] = k})]
    PROVE  AddedUp(T) = Totals(clean)
<1> DEFINE K == {key[i] : i \in clean}
           part(k) == {i \in clean : key[i] = k}
           ones == [i \in clean |-> 1]
           orders == [k \in DOMAIN T |-> T[k].orders]
           units == [k \in DOMAIN T |-> T[k].units]
           revenue == [k \in DOMAIN T |-> T[k].revenue]
<1>1. IsFiniteSet(clean) /\ \A i \in clean : Units[i] \in Nat /\ Revenue[i] \in Nat /\ ones[i] \in Nat
    BY CleanRows DEF Units, Revenue
<1>2. IsFiniteSet(K) /\ DOMAIN T = K
    <2> DEFINE to == [i \in clean |-> key[i]]
    <2>1. to \in Surjection(clean, K)
        BY DEF Surjection
    <2> HIDE DEF to, K
    <2>2. IsFiniteSet(K)
        BY <1>1, <2>1, FS_Surjection
    <2> QED
        BY <2>2 DEF K
<1>3. ASSUME NEW k \in K
      PROVE  /\ orders[k] = SumOf(ones, part(k))
             /\ units[k] = SumOf(Units, part(k))
             /\ revenue[k] = SumOf(Revenue, part(k))
    <2>1. part(k) \in SUBSET clean /\ T[k] = Totals(part(k)) /\ k \in DOMAIN T
        OBVIOUS
    <2>2. orders[k] = T[k].orders /\ units[k] = T[k].units /\ revenue[k] = T[k].revenue
        BY <2>1
    <2> HIDE DEF part, K, ones, orders, units, revenue
    <2>3. SumOf(ones, part(k)) = Cardinality(part(k))
        BY <1>1, <2>1, SumOfOnes DEF ones
    <2>4. T[k] = [orders |-> Cardinality(part(k)), units |-> SumOf(Units, part(k)),
                  revenue |-> SumOf(Revenue, part(k))]
        BY <2>1, TotalsAre
    <2> QED
        BY <2>2, <2>3, <2>4
<1> DEFINE to == [i \in clean |-> key[i]]
<1>4. to \in [clean -> K] /\ \A k : Part(clean, to, k) = part(k)
    BY DEF Part
<1> HIDE DEF K, to, part, ones, orders, units, revenue
<1>5. \A k \in K : /\ orders[k] = SumOf(ones, Part(clean, to, k))
                   /\ units[k] = SumOf(Units, Part(clean, to, k))
                   /\ revenue[k] = SumOf(Revenue, Part(clean, to, k))
    BY <1>3, <1>4
<1>6. SumOf(orders, K) = SumOf(ones, clean)
    BY <1>1, <1>2, <1>4, <1>5, PartsAddUp
<1>7. SumOf(units, K) = SumOf(Units, clean)
    <2>1. \A i \in clean : Units[i] \in Nat
        BY <1>1
    <2>2. \A k \in K : units[k] = SumOf(Units, Part(clean, to, k))
        BY <1>5
    <2>3. IsFiniteSet(clean) /\ IsFiniteSet(K) /\ to \in [clean -> K]
        BY <1>1, <1>2, <1>4
    <2> QED
        BY ONLY <2>1, <2>2, <2>3, PartsAddUp
<1>8. SumOf(revenue, K) = SumOf(Revenue, clean)
    <2>1. \A i \in clean : Revenue[i] \in Nat
        BY <1>1
    <2>2. \A k \in K : revenue[k] = SumOf(Revenue, Part(clean, to, k))
        BY <1>5
    <2>3. IsFiniteSet(clean) /\ IsFiniteSet(K) /\ to \in [clean -> K]
        BY <1>1, <1>2, <1>4
    <2> QED
        BY ONLY <2>1, <2>2, <2>3, PartsAddUp
<1>9. SumOf(ones, clean) = Cardinality(clean)
    BY <1>1, SumOfOnes DEF ones
<1>10. AddedUp(T) = [orders |-> SumOf(orders, K), units |-> SumOf(units, K), revenue |-> SumOf(revenue, K)]
    BY <1>2, AddedUpIs DEF orders, units, revenue
<1>11. Totals(clean) =
        [orders |-> Cardinality(clean), units |-> SumOf(Units, clean), revenue |-> SumOf(Revenue, clean)]
    BY TotalsAre
<1> QED
    BY <1>6, <1>7, <1>8, <1>9, <1>10, <1>11

\* From the summaries on, what they are of does not change, and the file holds
\* the sheets once it is closed.
Summed ==
    /\ by_month = [m \in {MonthOf(i) : i \in clean} |-> Totals({i \in clean : MonthOf(i) = m})]
    /\ by_category = [c \in {CategoryOf(i) : i \in clean} |-> Totals({i \in clean : CategoryOf(i) = c})]

Saved ==
    /\ pc \in {"opening", "writing", "done", "broken"} => Summed
    /\ pc = "done" => workbook = Sheets
    /\ code = 0 => pc = "done"

LEMMA SavedInit == Init => Saved
BY NoneAssumption DEF Init, Saved

LEMMA SavedStep ==
    ASSUME Saved, [Next]_vars
    PROVE  Saved'
<1>1. ASSUME UNCHANGED <<raw, found, sums>>
      PROVE  Summed => Summed'
    BY <1>1 DEF Summed, found, sums, Totals, MonthOf, CategoryOf, LineTotal, Value,
           MapThenSumSet, MapThenFoldSet
<1>2. ASSUME UNCHANGED <<raw, found, sums>>
      PROVE  Sheets' = Sheets
    BY <1>2 DEF Sheets, CleanSheet, IssueSheet, InOrder, ByRow, DateOf, Place, Value, found, sums
<1>3. CASE Load \/ DropDuplicates \/ NormaliseRow \/ FindConflicts
    BY <1>3 DEF Load, DropDuplicates, NormaliseRow, FindConflicts, Goes, Saved
<1>4. CASE LoadFails
    BY <1>4 DEF LoadFails, Goes, Saved
<1>5. CASE Summarise
    <2>1. Summed'
        BY <1>5 DEF Summarise, Summed, found, Totals, MonthOf, CategoryOf, LineTotal, Value,
           MapThenSumSet, MapThenFoldSet
    <2> QED
        BY <1>5, <2>1 DEF Summarise, Goes, Saved
<1>6. CASE OpenWorkbook
    BY <1>1, <1>6 DEF OpenWorkbook, Goes, Saved
<1>7. CASE CloseWorkbook
    BY <1>1, <1>2, <1>7 DEF CloseWorkbook, Goes, Saved
<1>8. CASE WriteFails
    BY <1>1, <1>8 DEF WriteFails, Goes, Saved
<1>9. CASE Kill
    BY <1>9 DEF Kill, Ended, Saved
<1>10. CASE UNCHANGED vars
    BY <1>1, <1>2, <1>10 DEF vars, Saved
<1> QED
    BY <1>3, <1>4, <1>5, <1>6, <1>7, <1>8, <1>9, <1>10 DEF Next

\* The sheets of a workbook that main answers 0 for agree, for any export: each
\* summary adds up to the rows of the clean sheet (cleaning.py:152-164).
THEOREM TheSheetsAgree == Spec => []SheetsAgree
<1>1. Init => Saved
    BY SavedInit
<1>2. Saved /\ [Next]_vars => Saved'
    BY SavedStep
<1>3. Spec => []Saved
    BY <1>1, <1>2, PTL DEF Spec
<1>4. IInv /\ Saved => SheetsAgree
    <2> SUFFICES ASSUME IInv, Saved, code = 0
                 PROVE  LET rows == {workbook[1][n] : n \in 1..Len(workbook[1])}
                        IN  /\ Len(workbook[1]) = Cardinality(rows)
                            /\ AddedUp(workbook[2]) = Totals(rows) /\ AddedUp(workbook[3]) = Totals(rows)
        BY DEF SheetsAgree
    <2>1. pc = "done" /\ Summed /\ workbook = Sheets
        BY DEF Saved
    <2>2. Cleaned
        BY <2>1 DEF Cleaned
    <2>3. workbook[1] = CleanSheet /\ workbook[2] = by_month /\ workbook[3] = by_category
        BY <2>1 DEF Sheets
    <2>4. Len(CleanSheet) = Cardinality(clean) /\ {CleanSheet[n] : n \in 1..Len(CleanSheet)} = clean
        BY <2>2, SheetOfClean
    <2>5. AddedUp(by_month) = Totals(clean)
        <3> DEFINE key == [i \in clean |-> MonthOf(i)]
        <3>1. by_month = [k \in {key[i] : i \in clean} |-> Totals({i \in clean : key[i] = k})]
            <4>1. {key[i] : i \in clean} = {MonthOf(i) : i \in clean}
                OBVIOUS
            <4>2. \A k : {i \in clean : key[i] = k} = {i \in clean : MonthOf(i) = k}
                OBVIOUS
            <4> HIDE DEF key
            <4> QED
                BY <2>1, <4>1, <4>2 DEF Summed
        <3>2. DOMAIN key = clean
            OBVIOUS
        <3> HIDE DEF key
        <3> QED
            BY <2>2, <3>1, <3>2, SummaryAddsUp
    <2>6. AddedUp(by_category) = Totals(clean)
        <3> DEFINE key == [i \in clean |-> CategoryOf(i)]
        <3>1. by_category = [k \in {key[i] : i \in clean} |-> Totals({i \in clean : key[i] = k})]
            <4>1. {key[i] : i \in clean} = {CategoryOf(i) : i \in clean}
                OBVIOUS
            <4>2. \A k : {i \in clean : key[i] = k} = {i \in clean : CategoryOf(i) = k}
                OBVIOUS
            <4> HIDE DEF key
            <4> QED
                BY <2>1, <4>1, <4>2 DEF Summed
        <3>2. DOMAIN key = clean
            OBVIOUS
        <3> HIDE DEF key
        <3> QED
            BY <2>2, <3>1, <3>2, SummaryAddsUp
    <2> QED
        BY <2>3, <2>4, <2>5, <2>6
<1> QED
    BY <1>3, <1>4, Invariance, PTL

----------------------------------------------------------------------------
(* costcheck: the plan. *)

Reading == plan \in Plans /\ rates \in RateFiles /\ rs = Resources(plan)

\* A module's own resources are finitely many.
LEMMA PlacedIsFinite ==
    ASSUME NEW module, Len(module.resources) \in Nat, NEW m
    PROVE  IsFiniteSet(Placed(module, m))
<1> DEFINE N == 1..Len(module.resources)
           f == [n \in N |-> <<m, n>>]
<1>1. IsFiniteSet(N)
    BY FS_Interval
<1>2. Placed(module, m) = {f[n] : n \in N}
    BY DEF Placed
<1>3. f = [n \in N |-> f[n]]
    OBVIOUS
<1> HIDE DEF f, N
<1> QED
    BY <1>1, <1>2, <1>3, RangeIsFinite

\* What is read are the resources of the plan that a place names.
LEMMA PlacesAre ==
    ASSUME Reading
    PROVE  /\ rs = Places /\ IsFiniteSet(rs)
           /\ \A a \in rs : a[1] \in Nat /\ a[2] \in Nat /\ a = <<a[1], a[2]>>
<1> DEFINE M == 1..Len(plan.child_modules)
           of == [m \in M |-> Placed(plan.child_modules[m], m)]
<1>1. /\ Len(plan.resources) \in Nat /\ Len(plan.child_modules) \in Nat
      /\ \A m \in M : Len(plan.child_modules[m].resources) \in Nat
    BY PlansAssumption DEF Reading
<1>2. rs = Placed(plan, 0) \cup UNION {of[m] : m \in M}
    <2>1. {of[m] : m \in M} = {Placed(plan.child_modules[m], m) : m \in M}
        OBVIOUS
    <2> QED
        BY <2>1 DEF Reading, Resources
<1>3. rs = Places
    BY DEF Reading, Resources, Places, Placed
<1>4. IsFiniteSet(UNION {of[m] : m \in M})
    <2>1. \A m \in M : IsFiniteSet(of[m])
        BY <1>1, PlacedIsFinite
    <2>2. IsFiniteSet(M) /\ of = [m \in M |-> of[m]]
        BY <1>1, FS_Interval
    <2> HIDE DEF of, M
    <2>3. IsFiniteSet({of[m] : m \in M})
        BY <2>2, RangeIsFinite
    <2> QED
        BY <2>1, <2>3, FS_UNION
<1>5. IsFiniteSet(Placed(plan, 0))
    BY <1>1, PlacedIsFinite
<1>6. IsFiniteSet(rs)
    BY <1>2, <1>4, <1>5, FS_Union
<1>7. ASSUME NEW a \in rs PROVE a[1] \in Nat /\ a[2] \in Nat /\ a = <<a[1], a[2]>>
    <2>1. CASE a \in Placed(plan, 0)
        BY <1>1, <2>1 DEF Placed
    <2>2. CASE a \in UNION {of[m] : m \in M}
        <3>1. PICK m \in M : a \in Placed(plan.child_modules[m], m)
            BY <2>2
        <3> QED
            BY <1>1, <3>1 DEF Placed
    <2> QED
        BY <1>2, <2>1, <2>2
<1> QED
    BY <1>3, <1>6, <1>7

\* The resources of one type, and those that a rule looks at
LEMMA TypesAre ==
    ASSUME Reading
    PROVE  /\ \A type : OfType(type) = All(type) /\ OfType(type) \in SUBSET rs /\ IsFiniteSet(OfType(type))
                        /\ Cardinality(OfType(type)) \in Nat
           /\ ForeverGroups \in SUBSET rs /\ BigLambdas \in SUBSET rs /\ Gp2Volumes \in SUBSET rs
           /\ IsFiniteSet(BigLambdas) /\ IsFiniteSet(Gp2Volumes)
           /\ \A db \in Databases : Default(Values(db).allocated_storage, 0) \in Nat
           /\ \A v \in Gp2Volumes : Size(v) \in Nat
<1>1. rs = Places /\ IsFiniteSet(rs)
    BY PlacesAre
<1>2. ASSUME NEW type
      PROVE  OfType(type) = All(type) /\ OfType(type) \in SUBSET rs /\ IsFiniteSet(OfType(type))
             /\ Cardinality(OfType(type)) \in Nat
    <2>1. OfType(type) = All(type) /\ OfType(type) \in SUBSET rs
        BY <1>1 DEF OfType, All
    <2>2. IsFiniteSet(OfType(type))
        BY <1>1, <2>1, FS_Subset
    <2> QED
        BY <2>1, <2>2, FS_CardinalityType
<1>3. ForeverGroups \in SUBSET rs /\ BigLambdas \in SUBSET rs /\ Gp2Volumes \in SUBSET rs
    BY DEF ForeverGroups, BigLambdas, Gp2Volumes, OfType
<1>4. IsFiniteSet(BigLambdas) /\ IsFiniteSet(Gp2Volumes)
    BY <1>1, <1>3, FS_Subset
<1>5. \A a \in rs : LET v == ValuesIn(plan, a)
                    IN  /\ v.type = "aws_db_instance" => v.allocated_storage \in Nat \cup {Null}
                        /\ v.type = "aws_ebs_volume" => v.size \in Nat \cup {Null}
    BY PlansAssumption DEF Reading
<1>6. \A x : x \in Nat \cup {Null} => Default(x, 0) \in Nat
    BY DEF Default
<1>7. \A db \in Databases : Default(Values(db).allocated_storage, 0) \in Nat
    BY <1>5, <1>6 DEF Databases, OfType, Values
<1>8. \A v \in Gp2Volumes : Size(v) \in Nat
    BY <1>5, <1>6 DEF Gp2Volumes, OfType, Values, Size
<1> QED
    BY <1>2, <1>3, <1>4, <1>7, <1>8

----------------------------------------------------------------------------
(* costcheck: what the checks find. *)

\* Every price that a rule uses is there, and is a price.
LEMMA PricesAre ==
    ASSUME Reading, PricesFound
    PROVE  /\ Cardinality(Gateways) > NAT_GATEWAYS_BEFORE_FLAGGING =>
                /\ {"nat_gateway_hourly", "hours_per_month"} \subseteq DOMAIN rates
                /\ rates.nat_gateway_hourly \in Nat /\ rates.hours_per_month \in Nat
           /\ \A db \in Databases : HasPrice(db) =>
                /\ rates.rds_instance_hourly[Values(db).instance_class] \in Nat
                /\ rates.hours_per_month \in Nat /\ \A type : PricedStorage(type) \in Nat
           /\ Gp2Volumes # {} => LET ebs == rates.ebs_per_gb_month
                                 IN  ebs.gp2 \in Nat /\ ebs.gp3 \in Nat /\ ebs.gp3 <= ebs.gp2
           /\ Idle > 0 => rates.eip_idle_hourly \in Nat /\ rates.hours_per_month \in Nat
<1>1. /\ \A k \in {"nat_gateway_hourly", "hours_per_month", "eip_idle_hourly"} \cap DOMAIN rates : rates[k] \in Nat
      /\ \A k \in {"rds_instance_hourly", "rds_storage_per_gb_month"} \cap DOMAIN rates :
            \A x \in DOMAIN rates[k] : rates[k][x] \in Nat
      /\ "ebs_per_gb_month" \in DOMAIN rates =>
            LET ebs == rates.ebs_per_gb_month
            IN  /\ \A x \in {"gp2", "gp3"} \cap DOMAIN ebs : ebs[x] \in Nat
                /\ {"gp2", "gp3"} \subseteq DOMAIN ebs => ebs.gp3 <= ebs.gp2
    BY RatesAssumption DEF Reading
<1>2. Lookups \subseteq DOMAIN rates
    BY DEF PricesFound
<1>3. Cardinality(Gateways) > NAT_GATEWAYS_BEFORE_FLAGGING => {"nat_gateway_hourly", "hours_per_month"} \subseteq DOMAIN rates
    BY <1>2 DEF Lookups
<1>4. Databases # {} => "rds_instance_hourly" \in DOMAIN rates
    BY <1>2 DEF Lookups
<1>5. ASSUME NEW db \in Databases, HasPrice(db)
      PROVE  {"hours_per_month", "rds_storage_per_gb_month"} \subseteq DOMAIN rates
    BY <1>2, <1>4, <1>5 DEF Lookups
<1>6. Gp2Volumes # {} => "ebs_per_gb_month" \in DOMAIN rates /\ {"gp2", "gp3"} \subseteq DOMAIN rates.ebs_per_gb_month
    BY <1>2 DEF Lookups, PricesFound
<1>7. Idle > 0 => {"eip_idle_hourly", "hours_per_month"} \subseteq DOMAIN rates
    BY <1>2 DEF Lookups
<1>8. ASSUME NEW db \in Databases, HasPrice(db)
      PROVE  /\ rates.rds_instance_hourly[Values(db).instance_class] \in Nat
             /\ rates.hours_per_month \in Nat /\ \A type : PricedStorage(type) \in Nat
    BY <1>1, <1>4, <1>5, <1>8 DEF HasPrice, PricedStorage
<1> QED
    BY <1>1, <1>3, <1>6, <1>7, <1>8

\* What a finding puts into the totals
Fair(x) ==
    /\ Amount(x.monthly) \in Nat /\ Amount(x.monthly_avoidable) \in Nat
    /\ Amount(x.monthly_avoidable) <= Amount(x.monthly)

\* Findings with a price, without one, and with part of it to be saved
LEMMA FairIf ==
    ASSUME NEW rule, NEW S, NEW monthly \in Nat
    PROVE  /\ Fair(Finding(rule, S, monthly, Null)) /\ Fair(Finding(rule, S, Null, Null))
           /\ \A saved \in Nat : saved <= monthly => Fair(Finding(rule, S, monthly, saved))
BY NullAssumption DEF Fair, Finding, Amount

\* What a database costs by the rule is what it costs.
LEMMA DbMonthlyIs ==
    ASSUME Reading, PricesFound, NEW db \in Databases, HasPrice(db)
    PROVE  DbMonthly(Values(db)) \in Nat /\ DbMonthly(Values(db)) = DbCost(db)
<1> DEFINE v == Values(db)
           hourly == rates.rds_instance_hourly[v.instance_class]
           hours == rates.hours_per_month
           size == Default(v.allocated_storage, 0)
           per_gb == PricedStorage(OrGp2(v.storage_type))
<1>1. hourly \in Nat /\ hours \in Nat /\ per_gb \in Nat
    BY PricesAre
<1>2. size \in Nat
    BY TypesAre
<1>3. size = IF v.allocated_storage = Null THEN 0 ELSE v.allocated_storage
    BY DEF Default
<1>4. per_gb = LET kind == IF v.storage_type = Null THEN "gp2" ELSE v.storage_type
               IN  IF kind \in DOMAIN rates.rds_storage_per_gb_month THEN rates.rds_storage_per_gb_month[kind] ELSE 0
    BY DEF PricedStorage, OrGp2
<1>5. DbMonthly(v) = (hourly * hours) * Multiplier(v) + (size * per_gb) * Multiplier(v)
    BY DEF DbMonthly
<1>6. DbCost(db) = LET az == IF v.multi_az = TRUE THEN 2 ELSE 1
                   IN  (az * hourly) * hours + (az * size) * per_gb
    BY <1>3, <1>4 DEF DbCost, HasPrice
<1>7. hourly * hours \in Nat /\ size * per_gb \in Nat
    BY <1>1, <1>2, Products
<1> HIDE DEF v, hourly, hours, size, per_gb
<1>8. (1 * hourly) * hours = hourly * hours /\ (2 * hourly) * hours = (hourly * hours) * 2
      /\ (1 * size) * per_gb = size * per_gb /\ (2 * size) * per_gb = (size * per_gb) * 2
    BY <1>1, <1>2
<1>9. DbMonthly(v) \in Nat /\ DbMonthly(v) = DbCost(db)
    <2>1. CASE v.multi_az = TRUE
        BY <1>5, <1>6, <1>7, <1>8, <2>1 DEF Multiplier, MULTI_AZ_MULTIPLIER
    <2>2. CASE v.multi_az # TRUE
        <3>1. Multiplier(v) = 1
            BY <2>2 DEF Multiplier
        <3>2. DbMonthly(v) = hourly * hours + size * per_gb
            BY <1>5, <1>7, <3>1
        <3>3. DbCost(db) = hourly * hours + size * per_gb
            BY <1>6, <1>8, <2>2
        <3> QED
            BY <1>7, <3>2, <3>3
    <2> QED
        BY <2>1, <2>2
<1> QED
    BY <1>9 DEF v

\* More than one gateway is found, at the price of them all.
LEMMA NatGateways ==
    ASSUME Reading, PricesFound
    PROVE  \/ ~(Cardinality(Gateways) > 1) /\ CheckNatGateways = {}
           \/ LET monthly == (Cardinality(Gateways) * rates.nat_gateway_hourly) * rates.hours_per_month
              IN  /\ Cardinality(Gateways) > 1 /\ monthly \in Nat
                  /\ \E saved \in Nat :
                        /\ saved <= monthly
                        /\ CheckNatGateways = {Finding("nat-gateway-per-az", Gateways, monthly, saved)}
<1> DEFINE each == rates.nat_gateway_hourly * rates.hours_per_month
           n == Cardinality(Gateways)
<1>1. CASE n <= NAT_GATEWAYS_BEFORE_FLAGGING
    <2>1. n \in Nat
        BY TypesAre DEF Gateways
    <2>2. ~(n > 1)
        BY <1>1, <2>1 DEF NAT_GATEWAYS_BEFORE_FLAGGING
    <2> QED
        BY <1>1, <2>2 DEF CheckNatGateways
<1>2. CASE ~(n <= NAT_GATEWAYS_BEFORE_FLAGGING)
    <2>1. n \in Nat /\ n > 1
        <3>1. n \in Nat
            BY TypesAre DEF Gateways
        <3> QED
            BY <1>2, <3>1 DEF NAT_GATEWAYS_BEFORE_FLAGGING
    <2>2. rates.nat_gateway_hourly \in Nat /\ rates.hours_per_month \in Nat
        BY <2>1, PricesAre DEF NAT_GATEWAYS_BEFORE_FLAGGING
    <2>3. CheckNatGateways = {Finding("nat-gateway-per-az", Gateways, each * n, each * (n - 1))}
        BY <1>2 DEF CheckNatGateways
    <2>4. ASSUME NEW e \in Nat PROVE e * n \in Nat /\ e * (n - 1) \in Nat /\ e * (n - 1) <= e * n
        <3>1. n - 1 \in Nat
            BY <2>1
        <3>2. e * n \in Nat /\ e * (n - 1) \in Nat
            BY <2>1, <3>1, Products
        <3>3. e * n = e * (n - 1) + e
            BY <2>1
        <3> QED
            BY <3>2, <3>3
    <2>5. each \in Nat
        BY <2>2, Products
    <2>6. each * n = (n * rates.nat_gateway_hourly) * rates.hours_per_month
        BY <2>1, <2>2
    <2> QED
        BY <2>1, <2>3, <2>4, <2>5, <2>6
<1> QED
    BY <1>1, <1>2

\* The gp2 volumes are found as one, at the price of all their gigabytes.
LEMMA Volumes ==
    ASSUME Reading, PricesFound
    PROVE  LET gp2 == rates.ebs_per_gb_month.gp2
               monthly == MapThenSumSet(Size, Gp2Volumes) * gp2
           IN  \/ Gp2Volumes = {} /\ CheckGp2Volumes = {}
               \/ /\ Gp2Volumes # {} /\ gp2 \in Nat /\ monthly \in Nat
                  /\ \E saved \in Nat : /\ saved <= monthly
                                        /\ CheckGp2Volumes = {Finding("ebs-gp2-not-gp3", Gp2Volumes, monthly, saved)}
<1> DEFINE total_gb == MapThenSumSet(Size, Gp2Volumes)
           gp2 == rates.ebs_per_gb_month.gp2
           gp3 == rates.ebs_per_gb_month.gp3
           size == [v \in Gp2Volumes |-> Size(v)]
<1>1. CASE Gp2Volumes = {}
    BY <1>1 DEF CheckGp2Volumes
<1>2. CASE Gp2Volumes # {}
    <2>1. gp2 \in Nat /\ gp3 \in Nat /\ gp3 <= gp2
        BY <1>2, PricesAre
    <2>2. total_gb = SumOf(size, Gp2Volumes)
        BY DEF SumOf, MapThenSumSet, MapThenFoldSet
    <2>3. IsFiniteSet(Gp2Volumes) /\ \A v \in Gp2Volumes : size[v] \in Nat
        BY TypesAre
    <2> HIDE DEF size
    <2>4. SumOf(size, Gp2Volumes) \in Nat
        BY <2>3, SumLaws
    <2>5. total_gb \in Nat
        BY <2>2, <2>4
    <2>6. CheckGp2Volumes = {Finding("ebs-gp2-not-gp3", Gp2Volumes, total_gb * gp2, total_gb * (gp2 - gp3))}
        BY <1>2 DEF CheckGp2Volumes
    <2> HIDE DEF total_gb, gp2, gp3
    <2>7. total_gb * (gp2 - gp3) \in Nat /\ total_gb * (gp2 - gp3) <= total_gb * gp2 /\ total_gb * gp2 \in Nat
        <3>1. gp2 - gp3 \in Nat
            BY <2>1
        <3>2. total_gb * (gp2 - gp3) \in Nat /\ total_gb * gp2 \in Nat /\ total_gb * gp3 \in Nat
            BY <2>1, <2>5, <3>1, Products
        <3>3. total_gb * (gp2 - gp3) + total_gb * gp3 = total_gb * gp2
            BY <2>1, <2>5
        <3> QED
            BY <3>2, <3>3
    <2> QED
        BY <1>2, <2>1, <2>6, <2>7 DEF total_gb, gp2
<1> QED
    BY <1>1, <1>2

\* The addresses beyond the gateways are found as one.
LEMMA IdleEips ==
    ASSUME Reading, PricesFound
    PROVE  \/ Idle <= 0 /\ CheckIdleEips = {}
           \/ LET monthly == (Idle * rates.eip_idle_hourly) * rates.hours_per_month
              IN  /\ Idle > 0 /\ monthly \in Nat
                  /\ CheckIdleEips = {Finding("elastic-ip-idle", OfType("aws_eip"), monthly, Null)}
<1>1. Idle \in Int
    BY TypesAre DEF Idle, Gateways
<1>2. CASE Idle <= 0
    BY <1>2 DEF CheckIdleEips
<1>3. CASE Idle > 0
    <2>1. Idle \in Nat /\ rates.eip_idle_hourly \in Nat /\ rates.hours_per_month \in Nat
        BY <1>1, <1>3, PricesAre
    <2>2. (Idle * rates.eip_idle_hourly) * rates.hours_per_month \in Nat
        BY <2>1, Products
    <2> QED
        BY <1>1, <1>3, <2>2 DEF CheckIdleEips
<1> QED
    BY <1>1, <1>2, <1>3

Checks ==
    <<CheckNatGateways, CheckLogRetention, CheckRds, CheckLambdaMemory, CheckGp2Volumes, CheckIdleEips>>

\* What a check finds is fair, and is of its resources alone.
LEMMA ChecksAre ==
    ASSUME Reading, PricesFound
    PROVE  /\ Found = UNION {Checks[i] : i \in 1..6}
           /\ \A i \in 1..6 : IsFiniteSet(Checks[i])
           /\ \A i \in 1..6 : \A x \in Checks[i] :
                x.rule \in CHECKS[i] /\ x.resources \in SUBSET rs /\ Fair(x)
           /\ \A i \in 1..6 : \A x, y \in Checks[i] :
                x = y \/ \E a, b \in rs : a # b /\ x.resources = {a} /\ y.resources = {b}
<1> DEFINE Proper(C, i) ==
            /\ IsFiniteSet(C)
            /\ \A x \in C : x.rule \in CHECKS[i] /\ x.resources \in SUBSET rs /\ Fair(x)
            /\ \A x, y \in C : x = y \/ \E a, b \in rs : a # b /\ x.resources = {a} /\ y.resources = {b}
<1>1. ASSUME NEW C, NEW i, NEW x, C = {} \/ C = {x}, x.rule \in CHECKS[i], x.resources \in SUBSET rs, Fair(x)
      PROVE  Proper(C, i)
    BY <1>1, FS_EmptySet, FS_Singleton
<1>2. \A rule, S, monthly, saved : /\ Finding(rule, S, monthly, saved).rule = rule
                                   /\ Finding(rule, S, monthly, saved).resources = S
    BY DEF Finding
<1>3. /\ Gateways \in SUBSET rs /\ ForeverGroups \in SUBSET rs /\ Gp2Volumes \in SUBSET rs
      /\ OfType("aws_eip") \in SUBSET rs /\ Databases \in SUBSET rs /\ BigLambdas \in SUBSET rs
      /\ IsFiniteSet(Databases) /\ IsFiniteSet(BigLambdas)
    BY TypesAre DEF Gateways, Databases
<1>4. /\ "nat-gateway-per-az" \in CHECKS[1] /\ "log-group-never-expires" \in CHECKS[2]
      /\ "rds-cost-drivers" \in CHECKS[3] /\ "rds-unpriced-class" \in CHECKS[3]
      /\ "lambda-memory-reserved-not-measured" \in CHECKS[4]
      /\ "ebs-gp2-not-gp3" \in CHECKS[5] /\ "elastic-ip-idle" \in CHECKS[6]
    BY DEF CHECKS
<1>5. Proper(CheckNatGateways, 1)
    <2>1. CASE CheckNatGateways = {}
        BY <2>1, FS_EmptySet
    <2>2. ASSUME NEW monthly \in Nat, NEW saved \in Nat, saved <= monthly,
                 CheckNatGateways = {Finding("nat-gateway-per-az", Gateways, monthly, saved)}
          PROVE  Proper(CheckNatGateways, 1)
        <3>1. Fair(Finding("nat-gateway-per-az", Gateways, monthly, saved))
            BY <2>2, FairIf
        <3> HIDE DEF Proper
        <3> QED
            BY <1>1, <1>2, <1>3, <1>4, <2>2, <3>1
    <2> HIDE DEF Proper
    <2> QED
        BY <2>1, <2>2, NatGateways
<1>6. Proper(CheckLogRetention, 2)
    <2>1. Fair(Finding("log-group-never-expires", ForeverGroups, Null, Null))
        BY FairIf
    <2> HIDE DEF Proper
    <2> QED
        BY <1>1, <1>2, <1>3, <1>4, <2>1 DEF CheckLogRetention
<1>7. Proper(CheckRds, 3)
    <2>1. ASSUME NEW db \in Databases
          PROVE  Fair(CheckDb(db)) /\ CheckDb(db).rule \in CHECKS[3] /\ CheckDb(db).resources = {db}
        <3>1. CASE HasPrice(db)
            BY <1>2, <1>4, <3>1, DbMonthlyIs, FairIf DEF CheckDb
        <3>2. CASE ~HasPrice(db)
            BY <1>2, <1>4, <3>2, FairIf DEF CheckDb
        <3> QED
            BY <3>1, <3>2
    <2>2. IsFiniteSet(CheckRds)
        <3> DEFINE f == [db \in Databases |-> CheckDb(db)]
        <3>1. CheckRds = {f[db] : db \in Databases}
            BY DEF CheckRds
        <3>2. f = [db \in Databases |-> f[db]]
            OBVIOUS
        <3> HIDE DEF f
        <3> QED
            BY <1>3, <3>1, <3>2, RangeIsFinite
    <2> QED
        BY <1>3, <2>1, <2>2 DEF CheckRds
<1>8. Proper(CheckLambdaMemory, 4)
    <2> DEFINE of(f) == Finding("lambda-memory-reserved-not-measured", {f}, Null, Null)
    <2>1. ASSUME NEW f \in BigLambdas
          PROVE  Fair(of(f)) /\ of(f).rule \in CHECKS[4] /\ of(f).resources = {f}
        <3>1. Fair(of(f))
            BY FairIf
        <3>2. of(f).rule \in CHECKS[4] /\ of(f).resources = {f}
            BY <1>2, <1>4
        <3> QED
            BY <3>1, <3>2
    <2>2. CheckLambdaMemory = {of(f) : f \in BigLambdas}
        BY DEF CheckLambdaMemory
    <2> HIDE DEF of
    <2>3. IsFiniteSet(CheckLambdaMemory)
        <3> DEFINE g == [f \in BigLambdas |-> of(f)]
        <3>1. CheckLambdaMemory = {g[f] : f \in BigLambdas}
            BY <2>2
        <3>2. g = [f \in BigLambdas |-> g[f]]
            OBVIOUS
        <3> HIDE DEF g
        <3> QED
            BY <1>3, <3>1, <3>2, RangeIsFinite
    <2> QED
        BY <1>3, <2>1, <2>2, <2>3
<1>9. Proper(CheckGp2Volumes, 5)
    <2>1. CASE CheckGp2Volumes = {}
        BY <2>1, FS_EmptySet
    <2>2. ASSUME NEW monthly \in Nat, NEW saved \in Nat, saved <= monthly,
                 CheckGp2Volumes = {Finding("ebs-gp2-not-gp3", Gp2Volumes, monthly, saved)}
          PROVE  Proper(CheckGp2Volumes, 5)
        <3>1. Fair(Finding("ebs-gp2-not-gp3", Gp2Volumes, monthly, saved))
            BY <2>2, FairIf
        <3> HIDE DEF Proper
        <3> QED
            BY <1>1, <1>2, <1>3, <1>4, <2>2, <3>1
    <2> HIDE DEF Proper
    <2> QED
        BY <2>1, <2>2, Volumes
<1>10. Proper(CheckIdleEips, 6)
    <2>1. CASE CheckIdleEips = {}
        BY <2>1, FS_EmptySet
    <2>2. ASSUME NEW monthly \in Nat,
                 CheckIdleEips = {Finding("elastic-ip-idle", OfType("aws_eip"), monthly, Null)}
          PROVE  Proper(CheckIdleEips, 6)
        <3>1. Fair(Finding("elastic-ip-idle", OfType("aws_eip"), monthly, Null))
            BY FairIf
        <3> HIDE DEF Proper
        <3> QED
            BY <1>1, <1>2, <1>3, <1>4, <2>2, <3>1
    <2> HIDE DEF Proper
    <2> QED
        BY <2>1, <2>2, IdleEips
<1>11. /\ Checks[1] = CheckNatGateways /\ Checks[2] = CheckLogRetention /\ Checks[3] = CheckRds
       /\ Checks[4] = CheckLambdaMemory /\ Checks[5] = CheckGp2Volumes /\ Checks[6] = CheckIdleEips
    BY DEF Checks
<1>12. \A i \in 1..6 : i = 1 \/ i = 2 \/ i = 3 \/ i = 4 \/ i = 5 \/ i = 6
    OBVIOUS
<1>13. \A i \in 1..6 : Proper(Checks[i], i)
    <2> HIDE DEF Proper
    <2> QED
        BY <1>5, <1>6, <1>7, <1>8, <1>9, <1>10, <1>11, <1>12
<1>14. Found = UNION {Checks[i] : i \in 1..6}
    <2>1. ASSUME NEW x
          PROVE  x \in UNION {Checks[i] : i \in 1..6} <=> \E i \in 1..6 : x \in Checks[i]
        OBVIOUS
    <2>2. \A x : x \in Found <=> x \in UNION {Checks[i] : i \in 1..6}
        BY <1>11, <1>12, <2>1 DEF Found
    <2> QED
        BY <2>2
<1> QED
    BY <1>13, <1>14

\* The findings have an order without ties: by cost, then by check, then by resource.
LEMMA FoundIsOrdered ==
    ASSUME Reading, PricesFound
    PROVE  IsFiniteSet(Found) /\ IsOrder(Found, {p \in Found \X Found : Above(p[1], p[2])})
<1>1. IsFiniteSet(Found)
    <2>1. IsFiniteSet(1..6)
        <3>1. 1 \in Int /\ 6 \in Int
            OBVIOUS
        <3> QED
            BY ONLY <3>1, FS_Interval
    <2>2. Checks = [i \in 1..6 |-> Checks[i]]
        BY DEF Checks
    <2>3. IsFiniteSet({Checks[i] : i \in 1..6})
        BY <2>1, <2>2, RangeIsFinite
    <2>4. IsFiniteSet(UNION {Checks[i] : i \in 1..6})
        <3>1. \A T \in {Checks[i] : i \in 1..6} : IsFiniteSet(T)
            BY ChecksAre
        <3> QED
            BY ONLY <2>3, <3>1, FS_UNION
    <2> QED
        BY <2>4, ChecksAre
<1>2. DOMAIN CHECKS = 1..6 /\ \A i, j \in 1..6 : \A r : r \in CHECKS[i] /\ r \in CHECKS[j] => i = j
    BY DEF CHECKS
<1>3. PICK at6 \in [Found -> 1..6] : \A x \in Found : x \in Checks[at6[x]]
    <2>1. \A x \in Found : \E i \in 1..6 : x \in Checks[i]
        BY ChecksAre
    <2> DEFINE c == [x \in Found |-> CHOOSE i \in 1..6 : x \in Checks[i]]
    <2>2. \A x \in Found : c[x] \in 1..6 /\ x \in Checks[c[x]]
        BY <2>1
    <2>3. c \in [Found -> 1..6]
        BY <2>2
    <2> HIDE DEF c
    <2> QED
        BY <2>2, <2>3
<1> DEFINE within(x, y) == \E a \in x.resources : \A b \in y.resources : Precedes(a, b)
<1>4. ASSUME NEW x \in Found, NEW y \in Found
      PROVE  FoundBefore(x, y) <=> at6[x] < at6[y] \/ (at6[x] = at6[y] /\ within(x, y))
    <2>1. x.rule \in CHECKS[at6[x]] /\ y.rule \in CHECKS[at6[y]] /\ at6[x] \in 1..6 /\ at6[y] \in 1..6
        BY <1>3, ChecksAre
    <2> HIDE DEF within
    <2>2. FoundBefore(x, y) <=>
            \E m, n \in 1..6 : /\ x.rule \in CHECKS[m] /\ y.rule \in CHECKS[n]
                               /\ m < n \/ (m = n /\ within(x, y))
        BY <1>2 DEF FoundBefore, within
    <2> QED
        BY <1>2, <2>1, <2>2
<1>5. ASSUME NEW a \in rs, NEW b \in rs
      PROVE  /\ ~Precedes(a, a) /\ (a # b => Precedes(a, b) \/ Precedes(b, a))
             /\ \A c \in rs : Precedes(a, b) /\ Precedes(b, c) => Precedes(a, c)
    BY PlacesAre DEF Precedes
<1>6. \A x \in Found : x.resources \in SUBSET rs /\ Amount(x.monthly) \in Nat /\ at6[x] \in Nat
    BY <1>3, ChecksAre DEF Fair
<1>7. \A x \in Found : ~within(x, x)
    BY <1>5, <1>6
<1>8. \A x, y, z \in Found : within(x, y) /\ within(y, z) => within(x, z)
    BY <1>5, <1>6
<1>9. ASSUME NEW x \in Found, NEW y \in Found, x # y, at6[x] = at6[y] PROVE within(x, y) \/ within(y, x)
    <2>1. PICK a, b \in rs : a # b /\ x.resources = {a} /\ y.resources = {b}
        BY <1>3, <1>9, ChecksAre
    <2> QED
        BY <1>5, <2>1
<1> DEFINE R == {p \in Found \X Found : Above(p[1], p[2])}
           price == [x \in Found |-> Amount(x.monthly)]
<1> HIDE DEF within
<1>10. ASSUME NEW x \in Found, NEW y \in Found
       PROVE  <<x, y>> \in R <=>
                \/ price[x] > price[y]
                \/ price[x] = price[y] /\ (at6[x] < at6[y] \/ (at6[x] = at6[y] /\ within(x, y)))
    BY <1>4 DEF Above
<1>11. \A x \in Found : price[x] \in Nat /\ at6[x] \in Nat
    BY <1>6
<1> HIDE DEF R, price
<1>12. IsOrder(Found, R)
    <2>1. \A x \in Found : <<x, x>> \notin R
        BY <1>7, <1>10, <1>11
    <2>2. \A x, y, z \in Found : <<x, y>> \in R /\ <<y, z>> \in R => <<x, z>> \in R
        BY <1>8, <1>10, <1>11
    <2>3. \A x, y \in Found : x # y => <<x, y>> \in R \/ <<y, x>> \in R
        BY <1>9, <1>10, <1>11
    <2> QED
        BY <2>1, <2>2, <2>3 DEF IsOrder
<1> QED
    BY <1>1, <1>12 DEF R

\* The report has each finding once.
LEMMA ReportIs ==
    ASSUME Reading, PricesFound
    PROVE  /\ DOMAIN ByCost = 1..Cardinality(Found) /\ IsFiniteSet(DOMAIN ByCost)
           /\ ByCost \in Bijection(DOMAIN ByCost, Found)
<1> DEFINE R == {p \in Found \X Found : Above(p[1], p[2])}
           N == Cardinality(Found)
           place(x) == Cardinality({y \in Found : Above(y, x)})
<1>1. IsFiniteSet(Found) /\ IsOrder(Found, R)
    BY FoundIsOrdered
<1>2. N \in Nat
    BY <1>1, FS_CardinalityType
<1>3. \A x \in Found : Before(Found, R, x) = {y \in Found : Above(y, x)}
    BY DEF Before
<1> HIDE DEF R
<1>4. /\ \A x \in Found : Cardinality(Before(Found, R, x)) \in 0..(N - 1)
      /\ \A n \in 1..N : \E x \in Found : Cardinality(Before(Found, R, x)) = n - 1
      /\ \A x, z \in Found : Cardinality(Before(Found, R, x)) = Cardinality(Before(Found, R, z)) => x = z
    BY <1>1, Ranked
<1>5. /\ \A x \in Found : place(x) \in 0..(N - 1)
      /\ \A n \in 1..N : \E x \in Found : place(x) = n - 1
      /\ \A x, z \in Found : place(x) = place(z) => x = z
    BY <1>3, <1>4
<1>6. ByCost = [n \in 1..N |-> CHOOSE x \in Found : place(x) = n - 1]
    BY DEF ByCost
<1> HIDE DEF place, N
<1>7. \A n \in 1..N : ByCost[n] \in Found /\ place(ByCost[n]) = n - 1
    BY <1>5, <1>6
<1>8. ByCost \in [1..N -> Found] /\ DOMAIN ByCost = 1..N
    BY <1>6, <1>7
<1>9. ASSUME NEW x \in Found PROVE \E n \in 1..N : ByCost[n] = x
    <2>1. place(x) + 1 \in 1..N /\ (place(x) + 1) - 1 = place(x)
        BY <1>2, <1>5
    <2>2. place(ByCost[place(x) + 1]) = place(x) /\ ByCost[place(x) + 1] \in Found
        BY <1>7, <2>1
    <2> QED
        BY <1>5, <2>1, <2>2
<1>10. ASSUME NEW m \in 1..N, NEW n \in 1..N, ByCost[m] = ByCost[n] PROVE m = n
    <2>1. m - 1 = n - 1
        BY <1>7, <1>10
    <2> QED
        BY <1>2, <2>1
<1>11. ByCost \in Bijection(1..N, Found)
    BY <1>8, <1>9, <1>10 DEF Bijection, Injection, Surjection, IsInjective
<1>12. IsFiniteSet(1..N)
    BY <1>2, FS_Interval
<1> QED
    BY <1>8, <1>11, <1>12 DEF N

----------------------------------------------------------------------------
(* costcheck: what the report and the totals are, once they are made. *)

CostInv ==
    /\ plan \in Plans /\ rates \in RateFiles /\ fail_over \in Thresholds
    /\ stage \in {"checking", "totalling", "deciding", "done"} => rs = Resources(plan)
    /\ stage \in {"totalling", "deciding", "done"} => PricesFound /\ findings = ByCost
    /\ stage \in {"deciding", "done"} =>
        /\ total = MapThenSumSet(Monthly, DOMAIN findings)
        /\ avoidable = MapThenSumSet(Avoidable, DOMAIN findings)
    /\ exit_code = 0 => stage = "done" /\ ~(fail_over # Null /\ total > fail_over)

\* The report is made from the plan, the prices and the resources alone.
LEMMA SameReport ==
    ASSUME UNCHANGED <<plan, rates, rs>>
    PROVE  (PricesFound <=> PricesFound') /\ ByCost' = ByCost
<1>1. ASSUME NEW type PROVE (OfType(type))' = OfType(type)
    BY DEF OfType, Values, ValuesIn
<1>2. \A a : (Values(a))' = Values(a)
    BY DEF Values, ValuesIn
<1>3. /\ Gateways' = Gateways /\ Databases' = Databases /\ OfType("aws_eip")' = OfType("aws_eip")
      /\ ForeverGroups' = ForeverGroups /\ BigLambdas' = BigLambdas /\ Gp2Volumes' = Gp2Volumes
    BY <1>1, <1>2 DEF Gateways, Databases, ForeverGroups, BigLambdas, Gp2Volumes
<1>4. Idle' = Idle
    BY <1>3 DEF Idle
<1>5. \A db : HasPrice(db)' <=> HasPrice(db)
    BY <1>2 DEF HasPrice
<1>6. Lookups' = Lookups
    BY <1>3, <1>4, <1>5 DEF Lookups
<1>7. \A v : DbMonthly(v)' = DbMonthly(v)
    BY DEF DbMonthly, PricedStorage
<1>8. \A db : CheckDb(db)' = CheckDb(db)
    BY <1>2, <1>5, <1>7 DEF CheckDb
<1>9. MapThenSumSet(Size, Gp2Volumes)' = MapThenSumSet(Size, Gp2Volumes)
    BY <1>2, <1>3 DEF MapThenSumSet, MapThenFoldSet, Size
<1>10. CheckGp2Volumes' = CheckGp2Volumes
    BY <1>3, <1>9 DEF CheckGp2Volumes
<1>11. Found' = Found
    <2>1. CheckNatGateways' = CheckNatGateways /\ CheckLogRetention' = CheckLogRetention
        BY <1>3 DEF CheckNatGateways, CheckLogRetention
    <2>2. CheckRds' = CheckRds
        BY <1>3, <1>8 DEF CheckRds
    <2>3. CheckLambdaMemory' = CheckLambdaMemory
        BY <1>3 DEF CheckLambdaMemory
    <2>4. CheckIdleEips' = CheckIdleEips
        BY <1>3, <1>4 DEF CheckIdleEips
    <2> QED
        BY <1>10, <2>1, <2>2, <2>3, <2>4 DEF Found
<1>12. PricesFound' <=> PricesFound
    BY <1>3, <1>6 DEF PricesFound
<1>13. ByCost' = ByCost
    BY <1>11 DEF ByCost
<1> QED
    BY <1>12, <1>13

\* The invariant holds before the plan is read.
LEMMA CostInvInit == CostInit => CostInv
BY NullAssumption DEF CostInit, CostInv

\* Every step keeps it.
LEMMA CostInvStep ==
    ASSUME CostInv, [CostNext]_costVars
    PROVE  CostInv'
<1>1. CASE ReadPlan
    BY <1>1 DEF ReadPlan, Moves, input, CostInv
<1>2. CASE ReadFails \/ RateMissing
    BY <1>2 DEF ReadFails, RateMissing, Moves, input, CostInv
<1>3. CASE RunChecks
    <2>1. UNCHANGED <<plan, rates, rs>> /\ findings' = ByCost /\ PricesFound
        BY <1>3 DEF RunChecks, input
    <2>2. PricesFound' /\ findings' = ByCost'
        BY <2>1, SameReport
    <2>3. Resources(plan)' = Resources(plan)
        BY <2>1
    <2> QED
        BY <1>3, <2>1, <2>2 DEF RunChecks, Moves, input, CostInv
<1>4. CASE AddUp
    <2>1. UNCHANGED <<plan, rates, rs, findings>>
        BY <1>4 DEF AddUp, input
    <2>2. (PricesFound /\ findings = ByCost) => (PricesFound /\ findings = ByCost)'
        BY <2>1, SameReport
    <2>3. /\ MapThenSumSet(Monthly, DOMAIN findings)' = MapThenSumSet(Monthly, DOMAIN findings)
          /\ MapThenSumSet(Avoidable, DOMAIN findings)' = MapThenSumSet(Avoidable, DOMAIN findings)
        BY <2>1 DEF MapThenSumSet, MapThenFoldSet, Monthly, Avoidable
    <2> QED
        BY <1>4, <2>1, <2>2, <2>3 DEF AddUp, Moves, input, CostInv
<1>5. ASSUME UNCHANGED <<input, rs, findings, total, avoidable>>
      PROVE  /\ (PricesFound /\ findings = ByCost) => (PricesFound /\ findings = ByCost)'
             /\ MapThenSumSet(Monthly, DOMAIN findings)' = MapThenSumSet(Monthly, DOMAIN findings)
             /\ MapThenSumSet(Avoidable, DOMAIN findings)' = MapThenSumSet(Avoidable, DOMAIN findings)
    <2>1. UNCHANGED <<plan, rates, rs, findings>>
        BY <1>5 DEF input
    <2>2. (PricesFound /\ findings = ByCost) => (PricesFound /\ findings = ByCost)'
        BY <2>1, SameReport
    <2> QED
        BY <2>1, <2>2 DEF MapThenSumSet, MapThenFoldSet, Monthly, Avoidable
<1>6. CASE Decide
    BY <1>5, <1>6 DEF Decide, Moves, input, CostInv
<1>7. CASE UNCHANGED costVars
    BY <1>5, <1>7 DEF costVars, input, CostInv
<1> QED
    BY <1>1, <1>2, <1>3, <1>4, <1>6, <1>7 DEF CostNext

\* The report and the totals are what the plan and the prices make them.
THEOREM CostInvariance == CostSpec => []CostInv
<1>1. CostInit => CostInv
    BY CostInvInit
<1>2. CostInv /\ [CostNext]_costVars => CostInv'
    BY CostInvStep
<1> QED
    BY <1>1, <1>2, PTL DEF CostSpec

----------------------------------------------------------------------------
(* costcheck: the totals. *)

Price == [x \in Found |-> Amount(x.monthly)]

\* The total is over the findings, in whatever order the report has them.
LEMMA TotalIs ==
    ASSUME Reading, PricesFound, findings = ByCost
    PROVE  MapThenSumSet(Monthly, DOMAIN findings) = SumOf(Price, Found)
<1> DEFINE f == [n \in DOMAIN findings |-> Monthly(n)]
<1>1. MapThenSumSet(Monthly, DOMAIN findings) = SumOf(f, DOMAIN findings)
    BY DEF SumOf, MapThenSumSet, MapThenFoldSet
<1>2. IsFiniteSet(DOMAIN findings) /\ findings \in Bijection(DOMAIN findings, Found)
    BY ReportIs
<1>3. \A x \in Found : Price[x] \in Nat
    BY ChecksAre DEF Price, Fair
<1>4. \A n \in DOMAIN findings : f[n] = Price[findings[n]]
    BY <1>2 DEF Monthly, Price, Bijection, Injection
<1> HIDE DEF f
<1>5. SumOf(f, DOMAIN findings) = SumOf(Price, Found)
    BY ONLY <1>2, <1>3, <1>4, SumIsRenamed
<1> QED
    BY <1>1, <1>5

\* The sum over the findings is the sum over those of each check.
LEMMA SumByCheck ==
    ASSUME Reading, PricesFound
    PROVE  /\ \A i \in 1..6 : SumOf(Price, Checks[i]) \in Nat
           /\ SumOf(Price, Found) =
                SumOf(Price, Checks[1]) + SumOf(Price, Checks[2]) + SumOf(Price, Checks[3])
                + SumOf(Price, Checks[4]) + SumOf(Price, Checks[5]) + SumOf(Price, Checks[6])
<1> DEFINE A(i) == UNION {Checks[j] : j \in 1..i}
<1>1. IsFiniteSet(Found) /\ \A x \in Found : Price[x] \in Nat
    BY FoundIsOrdered, ChecksAre DEF Price, Fair
<1>2. \A i, j \in 1..6 : \A r : r \in CHECKS[i] /\ r \in CHECKS[j] => i = j
    BY DEF CHECKS
<1>3. \A i, j \in 1..6 : i # j => Checks[i] \cap Checks[j] = {}
    BY <1>2, ChecksAre
<1>4. \A i \in 1..6 : Checks[i] \in SUBSET Found
    BY ChecksAre
<1>5. \A T \in SUBSET Found : SumOf(Price, T) \in Nat
    BY ONLY <1>1, SumLaws
<1>6. ASSUME NEW i \in 1..5
      PROVE  /\ A(i + 1) = A(i) \cup Checks[i + 1] /\ A(i) \cap Checks[i + 1] = {} /\ A(i) \in SUBSET Found
    <2>1. i + 1 \in 1..6 /\ \A j \in 1..i : j \in 1..6 /\ j # i + 1
        OBVIOUS
    <2>2. \A j : j \in 1..(i + 1) <=> j \in 1..i \/ j = i + 1
        OBVIOUS
    <2>3. ASSUME NEW k, NEW x PROVE x \in A(k) <=> \E j \in 1..k : x \in Checks[j]
        OBVIOUS
    <2> HIDE DEF A
    <2>4. \A x : x \in A(i + 1) <=> x \in A(i) \/ x \in Checks[i + 1]
        BY <2>2, <2>3
    <2>5. A(i) \cap Checks[i + 1] = {}
        BY <1>3, <2>1, <2>3
    <2>6. A(i) \in SUBSET Found
        BY <1>4, <2>1, <2>3
    <2> QED
        BY <2>4, <2>5, <2>6
<1>7. ASSUME NEW i \in 1..5 PROVE SumOf(Price, A(i + 1)) = SumOf(Price, A(i)) + SumOf(Price, Checks[i + 1])
    <2>1. i + 1 \in 1..6
        OBVIOUS
    <2>2. Checks[i + 1] \in SUBSET Found
        BY <1>4, <2>1
    <2>3. A(i + 1) = A(i) \cup Checks[i + 1] /\ A(i) \cap Checks[i + 1] = {} /\ A(i) \in SUBSET Found
        BY <1>6
    <2> HIDE DEF A
    <2>4. SumOf(Price, A(i) \cup Checks[i + 1]) = SumOf(Price, A(i)) + SumOf(Price, Checks[i + 1])
        BY ONLY <1>1, <2>2, <2>3, SumLaws
    <2> QED
        BY <2>3, <2>4
<1>8. A(1) = Checks[1] /\ A(6) = Found
    <2>1. 1..1 = {1}
        OBVIOUS
    <2> QED
        BY <2>1, ChecksAre
<1> HIDE DEF A
<1>9. \A i \in 1..6 : SumOf(Price, Checks[i]) \in Nat
    BY <1>4, <1>5
<1>10. /\ SumOf(Price, A(2)) = SumOf(Price, Checks[1]) + SumOf(Price, Checks[2])
       /\ SumOf(Price, A(3)) = SumOf(Price, A(2)) + SumOf(Price, Checks[3])
       /\ SumOf(Price, A(4)) = SumOf(Price, A(3)) + SumOf(Price, Checks[4])
       /\ SumOf(Price, A(5)) = SumOf(Price, A(4)) + SumOf(Price, Checks[5])
       /\ SumOf(Price, Found) = SumOf(Price, A(5)) + SumOf(Price, Checks[6])
    <2>1. 1 \in 1..5 /\ 2 \in 1..5 /\ 3 \in 1..5 /\ 4 \in 1..5 /\ 5 \in 1..5
          /\ 1 + 1 = 2 /\ 2 + 1 = 3 /\ 3 + 1 = 4 /\ 4 + 1 = 5 /\ 5 + 1 = 6
        OBVIOUS
    <2>2. SumOf(Price, A(2)) = SumOf(Price, A(1)) + SumOf(Price, Checks[2])
        BY <1>7, <2>1
    <2>3. SumOf(Price, A(3)) = SumOf(Price, A(2)) + SumOf(Price, Checks[3])
        BY <1>7, <2>1
    <2>4. SumOf(Price, A(4)) = SumOf(Price, A(3)) + SumOf(Price, Checks[4])
        BY <1>7, <2>1
    <2>5. SumOf(Price, A(5)) = SumOf(Price, A(4)) + SumOf(Price, Checks[5])
        BY <1>7, <2>1
    <2>6. SumOf(Price, A(6)) = SumOf(Price, A(5)) + SumOf(Price, Checks[6])
        BY <1>7, <2>1
    <2> QED
        BY <1>8, <2>2, <2>3, <2>4, <2>5, <2>6
<1> QED
    BY <1>9, <1>10

\* What the databases cost by the findings is what they cost one by one.
LEMMA DatabasesAddUp ==
    ASSUME Reading, PricesFound
    PROVE  SumOf(Price, CheckRds) = MapThenSumSet(DbCost, Databases)
<1> DEFINE h == [db \in Databases |-> CheckDb(db)]
           f == [db \in Databases |-> DbCost(db)]
<1>1. MapThenSumSet(DbCost, Databases) = SumOf(f, Databases)
    BY DEF SumOf, MapThenSumSet, MapThenFoldSet
<1>2. IsFiniteSet(Databases) /\ CheckRds \in SUBSET Found /\ \A x \in CheckRds : Price[x] \in Nat
    <2>1. CheckRds \in SUBSET Found
        BY DEF Found
    <2> QED
        BY <2>1, TypesAre, ChecksAre DEF Databases, Price, Fair
<1>3. \A db \in Databases : CheckDb(db).resources = {db}
    BY DEF CheckDb, Finding
<1>4. h \in Bijection(Databases, CheckRds)
    BY <1>3 DEF Bijection, Injection, Surjection, IsInjective, CheckRds
<1>5. ASSUME NEW db \in Databases PROVE f[db] = Price[h[db]]
    <2>1. h[db] = CheckDb(db) /\ CheckDb(db) \in CheckRds
        BY DEF CheckRds
    <2>2. Price[h[db]] = Amount(CheckDb(db).monthly)
        BY <1>2, <2>1 DEF Price
    <2>3. CASE HasPrice(db)
        <3>1. Amount(CheckDb(db).monthly) = DbMonthly(Values(db))
            BY <2>3, NullAssumption, DbMonthlyIs DEF CheckDb, Finding, Amount
        <3> QED
            BY <2>2, <2>3, <3>1, DbMonthlyIs
    <2>4. CASE ~HasPrice(db)
        BY <2>2, <2>4 DEF CheckDb, Finding, Amount, DbCost, HasPrice
    <2> QED
        BY <2>3, <2>4
<1> HIDE DEF f, h
<1>6. SumOf(f, Databases) = SumOf(Price, CheckRds)
    BY ONLY <1>2, <1>4, <1>5, SumIsRenamed
<1> QED
    BY <1>1, <1>6

\* What the gp2 volumes cost together is what they cost one by one.
LEMMA VolumesAddUp ==
    ASSUME Reading, PricesFound
    PROVE  SumOf(Price, CheckGp2Volumes) = MapThenSumSet(VolumeCost, OfType("aws_ebs_volume"))
<1> DEFINE gp2 == rates.ebs_per_gb_month.gp2
           all == OfType("aws_ebs_volume")
           size == [v \in Gp2Volumes |-> Size(v)]
           cost == [v \in all |-> VolumeCost(v)]
<1>1. MapThenSumSet(VolumeCost, all) = SumOf(cost, all) /\ MapThenSumSet(Size, Gp2Volumes) = SumOf(size, Gp2Volumes)
    BY DEF SumOf, MapThenSumSet, MapThenFoldSet
<1>2. IsFiniteSet(all) /\ IsFiniteSet(CheckGp2Volumes) /\ Gp2Volumes \in SUBSET all
    <2>1. CheckGp2Volumes = Checks[5]
        BY DEF Checks
    <2> QED
        BY <2>1, TypesAre, ChecksAre DEF Gp2Volumes
<1>3. \A v \in all : v \in Gp2Volumes <=> Values(v).volume \in {Null, "gp2"}
    BY DEF Gp2Volumes, OrGp2
<1>4. \A v \in all \ Gp2Volumes : cost[v] = 0
    BY <1>3 DEF VolumeCost
<1>5. \A x \in CheckGp2Volumes : x \in Found
    BY DEF Found
<1>6. CASE Gp2Volumes = {}
    <2>1. SumOf(cost, all) = 0
        <3>1. \A v \in all : cost[v] = 0
            BY <1>4, <1>6
        <3> HIDE DEF cost, all
        <3> QED
            BY <1>2, <3>1, NoSum
    <2>2. SumOf(Price, CheckGp2Volumes) = 0
        <3>1. CheckGp2Volumes = {} /\ \A x \in {} : Price[x] = 0
            BY <1>6 DEF CheckGp2Volumes
        <3> QED
            BY <1>2, <3>1, NoSum
    <2> QED
        BY <1>1, <2>1, <2>2
<1>7. CASE Gp2Volumes # {}
    <2>1. gp2 \in Nat
        BY <1>7, PricesAre
    <2>2. \A v \in Gp2Volumes : size[v] \in Nat
        BY TypesAre
    <2>3. ASSUME NEW v \in Gp2Volumes PROVE cost[v] = size[v] * gp2
        <3>1. cost[v] = IF Values(v).size # Null THEN Values(v).size * gp2 ELSE 0
            BY <1>2, <1>3 DEF VolumeCost
        <3>2. size[v] = IF Values(v).size = Null THEN 0 ELSE Values(v).size
            BY DEF Size, Default
        <3>3. 0 * gp2 = 0
            BY <2>1
        <3> QED
            BY <3>1, <3>2, <3>3
    <2> HIDE DEF size, cost, all, gp2
    <2>4. SumOf(cost, all) = SumOf(size, Gp2Volumes) * gp2
        BY ONLY <1>2, <1>4, <2>1, <2>2, <2>3, SumIsLinear
    <2>5. PICK x : /\ CheckGp2Volumes = {x} /\ x \in Found
                   /\ Amount(x.monthly) = MapThenSumSet(Size, Gp2Volumes) * gp2
        <3>1. PICK saved \in Nat, monthly \in Nat :
                /\ CheckGp2Volumes = {Finding("ebs-gp2-not-gp3", Gp2Volumes, monthly, saved)}
                /\ monthly = MapThenSumSet(Size, Gp2Volumes) * gp2
            BY <1>7, Volumes DEF gp2
        <3>2. Amount(Finding("ebs-gp2-not-gp3", Gp2Volumes, monthly, saved).monthly) = monthly
            BY NullAssumption DEF Amount, Finding
        <3> QED
            BY <1>5, <3>1, <3>2
    <2>6. SumOf(Price, CheckGp2Volumes) = Price[x]
        <3>1. IsFiniteSet(Found) /\ \A y \in Found : Price[y] \in Nat
            BY FoundIsOrdered, ChecksAre DEF Price, Fair
        <3>2. SumOf(Price, {x}) = Price[x]
            BY ONLY <2>5, <3>1, SumOfOne
        <3> QED
            BY <2>5, <3>2
    <2>7. Price[x] = MapThenSumSet(Size, Gp2Volumes) * gp2
        BY <2>5 DEF Price
    <2> QED
        BY <1>1, <2>4, <2>6, <2>7 DEF all
<1> QED
    BY <1>6, <1>7

\* A gateway's price is a number, and none if the file lacks it.
LEMMA GatewayCostType == ASSUME Reading PROVE GatewayCost \in Nat
<1>1. \A k \in {"nat_gateway_hourly", "hours_per_month", "eip_idle_hourly"} \cap DOMAIN rates : rates[k] \in Nat
    BY RatesAssumption DEF Reading
<1>2. CASE {"nat_gateway_hourly", "hours_per_month"} \subseteq DOMAIN rates
    <2>1. rates.nat_gateway_hourly \in Nat /\ rates.hours_per_month \in Nat
        BY <1>1, <1>2
    <2> QED
        BY <1>2, <2>1, Products DEF GatewayCost
<1> QED
    BY <1>2 DEF GatewayCost

\* All gateways but a lone one: what the rule about them finds is their price.
LEMMA GatewaysButOne ==
    ASSUME Reading, PricesFound
    PROVE  LET n == Count("aws_nat_gateway")
           IN  /\ LoneGateway \in Nat
               /\ n * GatewayCost =
                    (IF n > 1 THEN (n * rates.nat_gateway_hourly) * rates.hours_per_month ELSE 0) + LoneGateway
<1> DEFINE n == Count("aws_nat_gateway")
<1>1. n \in Nat /\ n = Cardinality(Gateways) /\ GatewayCost \in Nat
    BY TypesAre, GatewayCostType DEF Count, Gateways
<1>2. LoneGateway = IF n = 1 THEN GatewayCost ELSE 0
    BY DEF LoneGateway
<1>3. CASE n > 1
    <2>1. rates.nat_gateway_hourly \in Nat /\ rates.hours_per_month \in Nat
          /\ GatewayCost = rates.nat_gateway_hourly * rates.hours_per_month
        BY <1>1, <1>3, PricesAre DEF NAT_GATEWAYS_BEFORE_FLAGGING, GatewayCost
    <2>2. n * GatewayCost = (n * rates.nat_gateway_hourly) * rates.hours_per_month
        BY <1>1, <2>1
    <2>3. (n * rates.nat_gateway_hourly) * rates.hours_per_month \in Nat
        BY <1>1, <2>1, Products
    <2> QED
        BY <1>1, <1>2, <1>3, <2>2, <2>3
<1>4. CASE n = 1
    BY <1>1, <1>2, <1>4
<1>5. CASE n = 0
    BY <1>1, <1>2, <1>5
<1>6. n > 1 \/ n = 1 \/ n = 0
    BY <1>1
<1> QED
    BY <1>3, <1>4, <1>5, <1>6

\* The total of the report, whatever the plan, is the bill but for a lone gateway.
LEMMA TotalIsTheBill ==
    ASSUME Reading, PricesFound, findings = ByCost
    PROVE  MapThenSumSet(Monthly, DOMAIN findings) = Bill - LoneGateway /\ Bill - LoneGateway \in Nat
<1> DEFINE n == Cardinality(Gateways)
           gateways == IF n > 1 THEN (n * rates.nat_gateway_hourly) * rates.hours_per_month ELSE 0
           eips == IF Idle > 0 THEN (Idle * rates.eip_idle_hourly) * rates.hours_per_month ELSE 0
<1>1. IsFiniteSet(Found) /\ \A x \in Found : Price[x] \in Nat
    BY FoundIsOrdered, ChecksAre DEF Price, Fair
<1>2. ASSUME NEW x \in Found PROVE SumOf(Price, {x}) = Amount(x.monthly)
    <2>1. SumOf(Price, {x}) = Price[x]
        BY ONLY <1>1, SumOfOne
    <2> QED
        BY <2>1 DEF Price
<1>3. SumOf(Price, {}) = 0
    BY ONLY <1>1, SumLaws
<1>4. ASSUME NEW rule, NEW S, NEW monthly \in Nat \cup {Null}, NEW saved
      PROVE  Amount(Finding(rule, S, monthly, saved).monthly) = IF monthly = Null THEN 0 ELSE monthly
    BY DEF Amount, Finding
<1>5. /\ \A x : x \in Nat => x # Null
      /\ \A rule, S, saved : Amount(Finding(rule, S, Null, saved).monthly) = 0
    BY NullAssumption DEF Amount, Finding
<1>6. SumOf(Price, CheckNatGateways) = gateways
    <2>1. CASE ~(n > 1) /\ CheckNatGateways = {}
        BY <1>3, <2>1
    <2>2. ASSUME NEW monthly \in Nat, NEW saved, n > 1,
                 monthly = (n * rates.nat_gateway_hourly) * rates.hours_per_month,
                 CheckNatGateways = {Finding("nat-gateway-per-az", Gateways, monthly, saved)}
          PROVE  SumOf(Price, CheckNatGateways) = gateways
        <3>1. Finding("nat-gateway-per-az", Gateways, monthly, saved) \in Found
            BY <2>2 DEF Found
        <3>2. SumOf(Price, CheckNatGateways) = monthly
            BY <1>2, <1>4, <1>5, <2>2, <3>1
        <3> QED
            BY <2>2, <3>2
    <2> HIDE DEF gateways
    <2> QED
        BY <2>1, <2>2, NatGateways
<1>7. SumOf(Price, CheckIdleEips) = eips
    <2>1. CASE Idle <= 0 /\ CheckIdleEips = {}
        <3>1. ~(Idle > 0)
            BY <2>1, TypesAre DEF Idle, Gateways
        <3> QED
            BY <1>3, <2>1, <3>1
    <2>2. ASSUME NEW monthly \in Nat, Idle > 0,
                 monthly = (Idle * rates.eip_idle_hourly) * rates.hours_per_month,
                 CheckIdleEips = {Finding("elastic-ip-idle", OfType("aws_eip"), monthly, Null)}
          PROVE  SumOf(Price, CheckIdleEips) = eips
        <3>1. Finding("elastic-ip-idle", OfType("aws_eip"), monthly, Null) \in Found
            BY <2>2 DEF Found
        <3>2. SumOf(Price, CheckIdleEips) = monthly
            BY <1>2, <1>4, <1>5, <2>2, <3>1
        <3> QED
            BY <2>2, <3>2
    <2> HIDE DEF eips
    <2> QED
        BY <2>1, <2>2, IdleEips
<1>8. SumOf(Price, CheckLogRetention) = 0
    <2>1. CASE ForeverGroups = {}
        BY <1>3, <2>1 DEF CheckLogRetention
    <2>2. CASE ForeverGroups # {}
        <3>1. CheckLogRetention = {Finding("log-group-never-expires", ForeverGroups, Null, Null)}
            BY <2>2 DEF CheckLogRetention
        <3>2. Finding("log-group-never-expires", ForeverGroups, Null, Null) \in Found
            BY <3>1 DEF Found
        <3> QED
            BY <1>2, <1>5, <3>1, <3>2
    <2> QED
        BY <2>1, <2>2
<1>9. SumOf(Price, CheckLambdaMemory) = 0
    <2>1. IsFiniteSet(CheckLambdaMemory)
        BY ChecksAre DEF Checks
    <2>2. ASSUME NEW x \in CheckLambdaMemory PROVE Price[x] = 0
        <3>1. x \in Found
            BY DEF Found
        <3>2. Amount(x.monthly) = 0
            BY <1>5 DEF CheckLambdaMemory
        <3> QED
            BY <3>1, <3>2 DEF Price
    <2> QED
        BY <2>1, <2>2, NoSum
<1>10. SumOf(Price, CheckRds) = MapThenSumSet(DbCost, All("aws_db_instance"))
    <2>1. Databases = All("aws_db_instance")
        BY TypesAre DEF Databases
    <2> QED
        BY <2>1, DatabasesAddUp
<1>11. SumOf(Price, CheckGp2Volumes) = MapThenSumSet(VolumeCost, All("aws_ebs_volume"))
    <2>1. OfType("aws_ebs_volume") = All("aws_ebs_volume")
        BY TypesAre
    <2> QED
        BY <2>1, VolumesAddUp
<1>12. /\ n = Count("aws_nat_gateway") /\ Idle = Count("aws_eip") - Count("aws_nat_gateway")
       /\ Count("aws_nat_gateway") \in Nat /\ Count("aws_eip") \in Nat
    BY TypesAre DEF Count, Idle, Gateways
<1>13. Bill = MapThenSumSet(DbCost, All("aws_db_instance")) + MapThenSumSet(VolumeCost, All("aws_ebs_volume"))
              + (gateways + LoneGateway) + eips
    <2>1. Idle > 0 <=> Count("aws_eip") > Count("aws_nat_gateway")
        BY <1>12
    <2>2. Count("aws_nat_gateway") * GatewayCost = gateways + LoneGateway
        BY <1>12, GatewaysButOne
    <2> HIDE DEF gateways
    <2> QED
        BY <1>12, <2>1, <2>2 DEF Bill
<1>14. /\ Checks[1] = CheckNatGateways /\ Checks[2] = CheckLogRetention /\ Checks[3] = CheckRds
       /\ Checks[4] = CheckLambdaMemory /\ Checks[5] = CheckGp2Volumes /\ Checks[6] = CheckIdleEips
    BY DEF Checks
<1> HIDE DEF gateways, eips, n
<1>15. /\ SumOf(Price, Checks[1]) = gateways /\ SumOf(Price, Checks[2]) = 0
       /\ SumOf(Price, Checks[3]) = MapThenSumSet(DbCost, All("aws_db_instance"))
       /\ SumOf(Price, Checks[4]) = 0
       /\ SumOf(Price, Checks[5]) = MapThenSumSet(VolumeCost, All("aws_ebs_volume"))
       /\ SumOf(Price, Checks[6]) = eips
    BY <1>6, <1>7, <1>8, <1>9, <1>10, <1>11, <1>14
<1>16. /\ gateways \in Nat /\ eips \in Nat
       /\ MapThenSumSet(DbCost, All("aws_db_instance")) \in Nat
       /\ MapThenSumSet(VolumeCost, All("aws_ebs_volume")) \in Nat
    <2>1. \A i \in 1..6 : SumOf(Price, Checks[i]) \in Nat
        BY SumByCheck
    <2>2. 1 \in 1..6 /\ 3 \in 1..6 /\ 5 \in 1..6 /\ 6 \in 1..6
        OBVIOUS
    <2> QED
        BY <1>15, <2>1, <2>2
<1>17. SumOf(Price, Found) = Bill - LoneGateway /\ Bill - LoneGateway \in Nat
    <2>1. LoneGateway \in Nat
        BY GatewaysButOne
    <2>2. SumOf(Price, Found) = MapThenSumSet(DbCost, All("aws_db_instance"))
                                 + MapThenSumSet(VolumeCost, All("aws_ebs_volume")) + gateways + eips
        BY <1>15, <1>16, SumByCheck
    <2> QED
        BY <1>13, <1>16, <2>1, <2>2
<1> QED
    BY <1>17, TotalIs

\* For any plan and prices, the total is the bill but for a lone gateway, and the
\* exit code is that of as much (costcheck.py:39-44, 57-58, 282-293).
THEOREM TheBillAddsUp == CostSpec => []BillAddsUp
<1>1. CostInv => BillAddsUp
    <2> SUFFICES ASSUME CostInv
                 PROVE  /\ stage = "done" => total = Bill - LoneGateway
                        /\ exit_code = 0 /\ fail_over # Null => Bill - LoneGateway <= fail_over
        BY DEF BillAddsUp
    <2>1. ASSUME stage = "done" PROVE total = Bill - LoneGateway /\ Bill - LoneGateway \in Nat
        <3>1. Reading /\ PricesFound /\ findings = ByCost
            BY <2>1 DEF CostInv, Reading
        <3>2. total = MapThenSumSet(Monthly, DOMAIN findings)
            BY <2>1 DEF CostInv
        <3> QED
            BY <3>1, <3>2, TotalIsTheBill
    <2>2. ASSUME exit_code = 0, fail_over # Null PROVE Bill - LoneGateway <= fail_over
        <3>1. stage = "done" /\ ~(total > fail_over) /\ fail_over \in Int
            BY <2>2, ThresholdsAssumption DEF CostInv
        <3> QED
            BY <2>1, <3>1
    <2> QED
        BY <2>1, <2>2
<1> QED
    BY <1>1, CostInvariance, PTL

\* For any plan and prices, what could be saved is part of the total
\* (costcheck.py:61, 187, 245-246).
THEOREM SavingsAreWithinTheTotal == CostSpec => []AvoidableWithinTotal
<1>1. CostInv => AvoidableWithinTotal
    <2> SUFFICES ASSUME CostInv, stage = "done" PROVE 0 <= avoidable /\ avoidable <= total
        BY DEF AvoidableWithinTotal
    <2> DEFINE f == [n \in DOMAIN findings |-> Monthly(n)]
               g == [n \in DOMAIN findings |-> Avoidable(n)]
    <2>1. Reading /\ PricesFound /\ findings = ByCost
        BY DEF CostInv, Reading
    <2>2. total = SumOf(f, DOMAIN findings) /\ avoidable = SumOf(g, DOMAIN findings)
        <3>1. total = MapThenSumSet(Monthly, DOMAIN findings) /\ avoidable = MapThenSumSet(Avoidable, DOMAIN findings)
            BY DEF CostInv
        <3>2. MapThenSumSet(Monthly, DOMAIN findings) = SumOf(f, DOMAIN findings)
            BY DEF SumOf, MapThenSumSet, MapThenFoldSet
        <3>3. MapThenSumSet(Avoidable, DOMAIN findings) = SumOf(g, DOMAIN findings)
            BY DEF SumOf, MapThenSumSet, MapThenFoldSet
        <3> QED
            BY <3>1, <3>2, <3>3
    <2>3. IsFiniteSet(DOMAIN findings) /\ \A n \in DOMAIN findings : findings[n] \in Found
        BY <2>1, ReportIs DEF Bijection, Injection
    <2>4. \A x \in Found : Fair(x)
        BY <2>1, ChecksAre
    <2>5. \A n \in DOMAIN findings : f[n] \in Nat /\ g[n] \in Nat /\ g[n] <= f[n]
        BY <2>3, <2>4 DEF Monthly, Avoidable, Fair
    <2> HIDE DEF f, g
    <2>6. SumOf(g, DOMAIN findings) <= SumOf(f, DOMAIN findings)
        BY <2>3, <2>5, SumIsMonotone
    <2>7. SumOf(g, DOMAIN findings) \in Nat
        BY <2>3, <2>5, SumLaws
    <2> QED
        BY <2>2, <2>6, <2>7
<1> QED
    BY <1>1, CostInvariance, PTL

\* The one type of resource that each check is about
TYPES ==
    <<"aws_nat_gateway", "aws_cloudwatch_log_group", "aws_db_instance",
      "aws_lambda_function", "aws_ebs_volume", "aws_eip">>

\* A check finds resources of its own type only.
LEMMA TypeOfFinding ==
    ASSUME Reading, NEW i \in 1..6, NEW x \in Checks[i], NEW a \in x.resources
    PROVE  Values(a).type = TYPES[i]
<1>1. \A rule, S, monthly, saved : Finding(rule, S, monthly, saved).resources = S
    BY DEF Finding
<1>2. CASE i = 1
    BY <1>1, <1>2 DEF Checks, TYPES, CheckNatGateways, Gateways, OfType
<1>3. CASE i = 2
    BY <1>1, <1>3 DEF Checks, TYPES, CheckLogRetention, ForeverGroups, OfType
<1>4. CASE i = 3
    <2>1. \A db : CheckDb(db).resources = {db}
        BY DEF CheckDb, Finding
    <2>2. a \in OfType("aws_db_instance")
        BY <1>4, <2>1 DEF Checks, CheckRds, Databases
    <2> QED
        BY <1>4, <2>2 DEF TYPES, OfType
<1>5. CASE i = 4
    <2>1. PICK f \in BigLambdas : x = Finding("lambda-memory-reserved-not-measured", {f}, Null, Null)
        BY <1>5 DEF Checks, CheckLambdaMemory
    <2>2. a \in BigLambdas
        BY <1>1, <2>1
    <2> QED
        BY <1>5, <2>2 DEF TYPES, BigLambdas, OfType
<1>6. CASE i = 5
    BY <1>1, <1>6 DEF Checks, TYPES, CheckGp2Volumes, Gp2Volumes, OfType
<1>7. CASE i = 6
    BY <1>1, <1>7 DEF Checks, TYPES, CheckIdleEips, OfType
<1> QED
    BY <1>2, <1>3, <1>4, <1>5, <1>6, <1>7

\* For any plan and prices, each resource that costs something, or may, is
\* reported, and reported once (costcheck.py:81-113, 175-192).
THEOREM NoResourceVanishes == CostSpec => []NothingVanishes
<1>1. ASSUME CostInv, stage = "done", NEW a \in Places,
             LET v == Values(a)
             IN  \/ v.type = "aws_db_instance"
                 \/ v.type = "aws_ebs_volume" /\ v.volume \in {Null, "gp2"}
                 \/ v.type = "aws_cloudwatch_log_group" /\ v.retention_in_days \in {Null, 0}
      PROVE  \E n \in DOMAIN findings : {m \in DOMAIN findings : a \in findings[m].resources} = {n}
    <2>1. Reading /\ PricesFound /\ findings = ByCost
        BY <1>1 DEF CostInv, Reading
    <2>2. a \in rs
        BY <2>1, PlacesAre
    <2>3. /\ Found = UNION {Checks[i] : i \in 1..6}
          /\ Checks[2] = CheckLogRetention /\ Checks[3] = CheckRds /\ Checks[5] = CheckGp2Volumes
        BY <2>1, ChecksAre DEF Checks
    <2>4. \E x \in Found : a \in x.resources
        <3>1. CASE Values(a).type = "aws_db_instance"
            <4>1. CheckDb(a) \in CheckRds /\ CheckDb(a).resources = {a}
                BY <2>2, <3>1 DEF CheckRds, CheckDb, Finding, Databases, OfType
            <4> QED
                BY <4>1 DEF Found
        <3>2. CASE Values(a).type = "aws_ebs_volume" /\ Values(a).volume \in {Null, "gp2"}
            <4>1. a \in Gp2Volumes
                BY <2>2, <3>2 DEF Gp2Volumes, OfType, OrGp2
            <4>2. \E x \in CheckGp2Volumes : x.resources = Gp2Volumes
                BY <4>1 DEF CheckGp2Volumes, Finding
            <4> QED
                BY <4>1, <4>2 DEF Found
        <3>3. CASE Values(a).type = "aws_cloudwatch_log_group" /\ Values(a).retention_in_days \in {Null, 0}
            <4>1. a \in ForeverGroups
                BY <2>2, <3>3 DEF ForeverGroups, OfType
            <4>2. \E x \in CheckLogRetention : x.resources = ForeverGroups
                BY <4>1 DEF CheckLogRetention, Finding
            <4> QED
                BY <4>1, <4>2 DEF Found
        <3> QED
            BY <1>1, <3>1, <3>2, <3>3
    <2>5. ASSUME NEW x \in Found, NEW y \in Found, a \in x.resources, a \in y.resources PROVE x = y
        <3>1. PICK i \in 1..6, j \in 1..6 : x \in Checks[i] /\ y \in Checks[j]
            BY <2>3
        <3>2. TYPES[i] = TYPES[j]
            BY <2>1, <2>5, <3>1, TypeOfFinding
        <3>3. \A k, l \in 1..6 : TYPES[k] = TYPES[l] => k = l
            BY DEF TYPES
        <3>4. y \in Checks[i]
            BY <3>1, <3>2, <3>3
        <3> QED
            BY <2>1, <2>5, <3>1, <3>4, ChecksAre
    <2>6. findings \in Bijection(DOMAIN findings, Found)
        BY <2>1, ReportIs
    <2>7. PICK x \in Found : a \in x.resources
        BY <2>4
    <2>8. PICK n \in DOMAIN findings : findings[n] = x
        BY <2>6 DEF Bijection, Surjection
    <2>9. ASSUME NEW m \in DOMAIN findings, a \in findings[m].resources PROVE m = n
        <3>1. findings[m] \in Found
            BY <2>6 DEF Bijection, Injection
        <3>2. findings[m] = findings[n]
            BY <2>5, <2>7, <2>8, <2>9, <3>1
        <3> QED
            BY <2>6, <3>2 DEF Bijection, Injection, IsInjective
    <2>10. {m \in DOMAIN findings : a \in findings[m].resources} = {n}
        BY <2>7, <2>8, <2>9
    <2> QED
        BY <2>10
<1>2. CostInv => NothingVanishes
    BY <1>1 DEF NothingVanishes
<1> QED
    BY <1>2, CostInvariance, PTL
=============================================================================
