----------------------------- MODULE DataLemmas -----------------------------
(***************************************************************************)
(* What the proofs use of the operators on sets and sequences: induction,  *)
(* stated over sets since no prover here instantiates a predicate; what    *)
(* recursive functions and folds amount to; and what RemoveAt and          *)
(* FlattenSeq return.                                                      *)
(***************************************************************************)
EXTENDS Naturals, Sequences, SequencesExt, SequenceTheorems, FiniteSetTheorems, TLAPS

(* Induction: any family of finite sets has a least one,                   *)
LEMMA LeastSubset ==
  ASSUME NEW F, F # {}, \A s \in F : IsFiniteSet(s)
  PROVE  \E s \in F : \A t \in F : t \subseteq s => t = s
<1> DEFINE S == UNION F
<1>1. F \subseteq FiniteSubsetsOf(S)
  BY DEF FiniteSubsetsOf
<1>2. IsWellFoundedOn(StrictSubsetOrdering(S), FiniteSubsetsOf(S))
  BY FS_StrictSubsetOrderingWellFounded
<1>3. PICK s \in F : \A t \in F : ~(<<t, s>> \in StrictSubsetOrdering(S))
  BY <1>1, <1>2, WFMin
<1> QED
  BY <1>3 DEF StrictSubsetOrdering

(* and any set of natural numbers a least number.                         *)
LEMMA LeastNatural ==
  ASSUME NEW U, U \subseteq Nat, U # {}
  PROVE  \E x \in U : \A y \in U : x <= y
<1> DEFINE F == {0..x : x \in U}
<1>1. F # {}
  OBVIOUS
<1>2. ASSUME NEW s \in F PROVE IsFiniteSet(s)
  <2>1. PICK x \in U : s = 0..x
    OBVIOUS
  <2> QED
    BY <2>1, FS_Interval
<1>3. PICK s \in F : \A t \in F : t \subseteq s => t = s
  <2> HIDE DEF F
  <2> QED
    BY <1>1, <1>2, LeastSubset
<1>4. PICK x \in U : s = 0..x
  OBVIOUS
<1>5. ASSUME NEW y \in U PROVE x <= y
  <2>1. 0..y \in F /\ x \in Nat /\ y \in Nat
    OBVIOUS
  <2>2. CASE y < x
    <3>1. 0..y \subseteq 0..x /\ x \notin 0..y /\ x \in 0..x
      BY <2>1, <2>2
    <3> QED
      BY <1>3, <1>4, <2>1, <3>1
  <2> QED
    BY <2>1, <2>2
<1> QED
  BY <1>5

(* A set that does not begin at 0, nor anywhere after it, is empty.        *)
LEMMA NothingFrom ==
  ASSUME NEW n \in Nat, NEW U, U \subseteq 0..n, 0 \notin U, \A k \in 1..n : k \in U => k - 1 \in U
  PROVE  U = {}
<1> SUFFICES ASSUME U # {} PROVE FALSE
  OBVIOUS
<1>1. PICK x \in U : \A y \in U : x <= y
  <2>1. U \subseteq Nat
    OBVIOUS
  <2> QED
    BY <2>1, LeastNatural
<1>2. x \in 1..n /\ x - 1 < x
  <2>1. x \in 0..n /\ x # 0
    OBVIOUS
  <2> QED
    BY <2>1
<1> QED
  BY <1>1, <1>2

(* A function on the subsets of S that folds op over each, taking out the  *)
(* element that ch chooses.                                                *)
Chooses(ch, S) == \A s \in SUBSET S : s # {} => ch[s] \in s

FoldsTo(g, S, base, op, ch) ==
  \A s \in SUBSET S : g[s] = IF s = {} THEN base ELSE op[<<ch[s], g[s \ {ch[s]}]>>]

(* There is one, for any finite S.                                         *)
LEMMA SubsetRecursion ==
  ASSUME NEW S, IsFiniteSet(S), NEW V, NEW base \in V, NEW op \in [S \X V -> V],
         NEW ch, Chooses(ch, S)
  PROVE  \E g \in [SUBSET S -> V] : FoldsTo(g, S, base, op, ch)
<1> USE DEF Chooses
<1> DEFINE Obeys(g, T) == \A s \in SUBSET T : g[s] = IF s = {} THEN base ELSE op[<<ch[s], g[s \ {ch[s]}]>>]
           Defined(T) == \E g \in [SUBSET T -> V] : Obeys(g, T)
           The(T) == CHOOSE g \in [SUBSET T -> V] : Obeys(g, T)
<1>0. ASSUME NEW T \in SUBSET S PROVE IsFiniteSet(T)
  BY FS_Subset
<1>1. ASSUME NEW g, NEW h, NEW T \in SUBSET S, NEW U \in SUBSET S, Obeys(g, T), Obeys(h, U)
      PROVE  \A s \in SUBSET (T \cap U) : g[s] = h[s]
  <2> DEFINE F == {s \in SUBSET (T \cap U) : g[s] # h[s]}
  <2> SUFFICES ASSUME F # {} PROVE FALSE
    OBVIOUS
  <2>1. F \subseteq SUBSET S /\ \A s \in F : IsFiniteSet(s)
    BY <1>0
  <2>2. PICK s \in F : \A t \in F : t \subseteq s => t = s
    <3> HIDE DEF F
    <3> QED
      BY <2>1, LeastSubset
  <2>3. s # {} /\ s \in SUBSET S /\ s \in SUBSET T /\ s \in SUBSET U
    BY <1>1
  <2>4. ch[s] \in s
    BY <2>3
  <2>5. s \ {ch[s]} \notin F
    BY <2>2, <2>4
  <2>6. g[s \ {ch[s]}] = h[s \ {ch[s]}]
    BY <2>5, <2>3
  <2>7. g[s] = op[<<ch[s], g[s \ {ch[s]}]>>] /\ h[s] = op[<<ch[s], h[s \ {ch[s]}]>>]
    BY <1>1, <2>3
  <2> QED
    BY <2>6, <2>7
<1>2. ASSUME NEW T \in SUBSET S PROVE Defined(T)
  <2> DEFINE F == {U \in SUBSET S : ~Defined(U)}
  <2> SUFFICES ASSUME F # {} PROVE FALSE
    OBVIOUS
  <2>1. F \subseteq SUBSET S /\ \A s \in F : IsFiniteSet(s)
    BY <1>0
  <2>2. PICK W \in F : \A t \in F : t \subseteq W => t = W
    <3> HIDE DEF F
    <3> QED
      BY <2>1, LeastSubset
  <2>3. ASSUME NEW s \in SUBSET W, s # W PROVE The(s) \in [SUBSET s -> V] /\ Obeys(The(s), s)
    <3>1. Defined(s)
      BY <2>2, <2>3
    <3> HIDE DEF Obeys
    <3> QED
      BY <3>1
  <2> HIDE DEF The, Obeys
  <2> DEFINE g == [s \in SUBSET W |-> IF s # W THEN The(s)[s]
                    ELSE IF W = {} THEN base ELSE op[<<ch[W], The(W \ {ch[W]})[W \ {ch[W]}]>>]]
  <2>4. ASSUME NEW s \in SUBSET W, s # W PROVE The(s)[s] \in V
    <3>1. The(s) \in [SUBSET s -> V] /\ s \in SUBSET s
      BY <2>3, <2>4
    <3> QED
      BY <3>1
  <2>5. g \in [SUBSET W -> V]
    <3>1. CASE W = {}
      BY <3>1, <2>4
    <3>2. CASE W # {}
      <4>1. ch[W] \in W /\ ch[W] \in S
        BY <3>2
      <4>2. W \ {ch[W]} \in SUBSET W /\ W \ {ch[W]} # W
        BY <4>1
      <4>3. The(W \ {ch[W]})[W \ {ch[W]}] \in V
        BY <4>2, <2>4
      <4>4. op[<<ch[W], The(W \ {ch[W]})[W \ {ch[W]}]>>] \in V
        BY <4>1, <4>3
      <4> QED
        BY <3>2, <4>4, <2>4
    <3> QED
      BY <3>1, <3>2
  <2>6. ASSUME NEW s \in SUBSET W PROVE g[s] = IF s = {} THEN base ELSE op[<<ch[s], g[s \ {ch[s]}]>>]
    <3>1. CASE s = W
      <4>1. CASE W = {}
        BY <4>1, <3>1
      <4>2. CASE W # {}
        <5>1. ch[W] \in W
          BY <4>2
        <5>2. g[W \ {ch[W]}] = The(W \ {ch[W]})[W \ {ch[W]}]
          BY <5>1
        <5> QED
          BY <3>1, <4>2, <5>2
      <4> QED
        BY <4>1, <4>2
    <3>2. CASE s # W
      <4>1. g[s] = The(s)[s]
        BY <3>2
      <4>2. The(s)[s] = IF s = {} THEN base ELSE op[<<ch[s], The(s)[s \ {ch[s]}]>>]
        <5>1. Obeys(The(s), s)
          BY <2>3, <3>2
        <5> QED
          BY <5>1 DEF Obeys
      <4>3. CASE s # {}
        <5>1. ch[s] \in s
          BY <4>3
        <5> DEFINE r == s \ {ch[s]}
        <5>2. r \in SUBSET W /\ r # W /\ r \subseteq s /\ r \in SUBSET (s \cap r) /\ r \in SUBSET S /\ s \in SUBSET S
          BY <5>1
        <5>3. g[r] = The(r)[r]
          BY <5>2
        <5>4. Obeys(The(s), s) /\ Obeys(The(r), r)
          BY <2>3, <3>2, <5>2
        <5>5. The(s)[r] = The(r)[r]
          BY <1>1, <5>2, <5>4
        <5> QED
          BY <4>1, <4>2, <4>3, <5>3, <5>5
      <4> QED
        BY <4>1, <4>2, <4>3
    <3> QED
      BY <3>1, <3>2
  <2>7. Obeys(g, W)
    BY <2>6 DEF Obeys
  <2>8. Defined(W)
    <3> HIDE DEF g
    <3> QED
      BY <2>5, <2>7
  <2> QED
    BY <2>2, <2>8
<1> QED
  BY <1>2 DEF FoldsTo

(* Two functions that agree on a subset when they agree without the chosen *)
(* element agree.                                                          *)
Agrees(g, h, S, ch) ==
  /\ g[{}] = h[{}]
  /\ \A s \in SUBSET S : s # {} /\ g[s \ {ch[s]}] = h[s \ {ch[s]}] => g[s] = h[s]

(* Two functions that the recursion defines are the same.                   *)
LEMMA SubsetAgreement ==
  ASSUME NEW S, IsFiniteSet(S), NEW ch, Chooses(ch, S), NEW g, NEW h, Agrees(g, h, S, ch)
  PROVE  \A s \in SUBSET S : g[s] = h[s]
<1> USE DEF Agrees
<1> DEFINE F == {s \in SUBSET S : g[s] # h[s]}
<1> SUFFICES ASSUME F # {} PROVE FALSE
  OBVIOUS
<1>1. \A s \in F : IsFiniteSet(s)
  BY FS_Subset
<1>2. PICK s \in F : \A t \in F : t \subseteq s => t = s
  <2> HIDE DEF F
  <2> QED
    BY <1>1, LeastSubset
<1>3. s # {} /\ s \in SUBSET S /\ ch[s] \in s
  BY DEF Chooses
<1>4. s \ {ch[s]} \notin F
  BY <1>2, <1>3
<1> QED
  BY <1>3, <1>4

----------------------------------------------------------------------------
(* Sums.                                                                   *)

SumOf(f) == FoldFunction(LAMBDA a, b : a + b, 0, f)

AnyOf(S) == [s \in SUBSET S |-> CHOOSE x \in s : TRUE]

IsSum(g, f, S) ==
  \A s \in SUBSET S : g[s] = IF s = {} THEN 0 ELSE f[AnyOf(S)[s]] + g[s \ {AnyOf(S)[s]}]

(* CHOOSE takes an element of a set that has one.                           *)
LEMMA AnyOfChooses == ASSUME NEW S PROVE Chooses(AnyOf(S), S)
  BY DEF AnyOf, Chooses

(* A sum is made up of partial ones.                                       *)
LEMMA PartialSums ==
  ASSUME NEW S, IsFiniteSet(S), NEW f \in [S -> Nat]
  PROVE  \E g \in [SUBSET S -> Nat] : SumOf(f) = g[S] /\ IsSum(g, f, S)
<1> DEFINE op == [p \in S \X Nat |-> f[p[1]] + p[2]]
           ch == AnyOf(S)
           P(h) == h = [s \in SUBSET S |-> IF s = {} THEN 0
                          ELSE f[CHOOSE x \in s : TRUE] + h[s \ {CHOOSE x \in s : TRUE}]]
           sum == CHOOSE h : P(h)
<1>1. op \in [S \X Nat -> Nat]
  OBVIOUS
<1>2. Chooses(ch, S)
  BY AnyOfChooses
<1>3. PICK g \in [SUBSET S -> Nat] : FoldsTo(g, S, 0, op, ch)
  <2> HIDE DEF op, ch
  <2>1. 0 \in Nat
    OBVIOUS
  <2> QED
    BY <1>1, <1>2, <2>1, SubsetRecursion
<1>4. ASSUME NEW s \in SUBSET S
      PROVE  /\ s # {} => ch[s] \in S /\ ch[s] = CHOOSE x \in s : TRUE
             /\ g[s] = IF s = {} THEN 0 ELSE f[ch[s]] + g[s \ {ch[s]}]
  <2>1. s # {} => ch[s] \in S /\ g[s \ {ch[s]}] \in Nat
    BY <1>2 DEF Chooses
  <2>2. s # {} => ch[s] = CHOOSE x \in s : TRUE
    BY DEF AnyOf
  <2> QED
    BY <1>3, <2>1, <2>2 DEF FoldsTo
<1>5. P(g)
  BY <1>4
<1>6. P(sum)
  <2> HIDE DEF P
  <2>1. \E h : P(h)
    BY <1>5
  <2> QED
    BY <2>1
<1>7. SumOf(f) = sum[S]
  BY DEF SumOf, FoldFunction, FoldFunctionOnSet, MapThenFoldSet
<1>8. \A s \in SUBSET S : sum[s] = g[s]
  <2>0. \A s \in SUBSET S : sum[s] = IF s = {} THEN 0
                          ELSE f[CHOOSE x \in s : TRUE] + sum[s \ {CHOOSE x \in s : TRUE}]
    <3>1. P(sum) => \A s \in SUBSET S : sum[s] = IF s = {} THEN 0
                          ELSE f[CHOOSE x \in s : TRUE] + sum[s \ {CHOOSE x \in s : TRUE}]
      <4> HIDE DEF sum
      <4> QED
        OBVIOUS
    <3> QED
      BY <1>6, <3>1
  <2> HIDE DEF sum, ch, P
  <2>1. sum[{}] = g[{}]
    BY <1>4, <2>0
  <2>2. ASSUME NEW s \in SUBSET S, s # {}, sum[s \ {ch[s]}] = g[s \ {ch[s]}] PROVE sum[s] = g[s]
    <3>1. sum[s] = f[CHOOSE x \in s : TRUE] + sum[s \ {CHOOSE x \in s : TRUE}]
      BY <2>0, <2>2
    <3> QED
      BY <1>4, <2>2, <3>1
  <2>3. Agrees(sum, g, S, ch)
    BY <2>1, <2>2 DEF Agrees
  <2> QED
    BY <1>2, <2>3, SubsetAgreement
<1>9. IsSum(g, f, S)
  BY <1>4 DEF IsSum
<1> QED
  <2> HIDE DEF sum
  <2>1. SumOf(f) = g[S]
    BY <1>7, <1>8
  <2> QED
    BY <2>1, <1>9

(* Where one summand changes, the sum changes by as much.                  *)
SameBut(f, e, S, x) == \A y \in S : y # x => e[y] = f[y]

(* A sum changes by as much as the one summand that changes.                *)
LEMMA SumChanges ==
  ASSUME NEW S, IsFiniteSet(S), NEW f \in [S -> Nat], NEW e \in [S -> Nat], NEW x \in S,
         SameBut(f, e, S, x)
  PROVE  SumOf(f) \in Nat /\ SumOf(e) \in Nat /\ SumOf(e) + f[x] = SumOf(f) + e[x]
<1> DEFINE ch == AnyOf(S)
           v == e[x]
<1>0. v \in Nat /\ \A y \in S : y # x => e[y] = f[y]
  BY DEF SameBut
<1>1. PICK g \in [SUBSET S -> Nat] : SumOf(f) = g[S] /\ IsSum(g, f, S)
  BY PartialSums
<1>2. PICK h \in [SUBSET S -> Nat] : SumOf(e) = h[S] /\ IsSum(h, e, S)
  BY PartialSums
<1> HIDE DEF ch
<1> DEFINE F == {s \in SUBSET S : ~(h[s] + (IF x \in s THEN f[x] ELSE 0) = g[s] + (IF x \in s THEN v ELSE 0))}
<1>3. F = {}
  <2> SUFFICES ASSUME F # {} PROVE FALSE
    OBVIOUS
  <2>1. \A s \in F : IsFiniteSet(s)
    BY FS_Subset
  <2>2. PICK s \in F : \A t \in F : t \subseteq s => t = s
    <3> HIDE DEF F
    <3> QED
      BY <2>1, LeastSubset
  <2>3. s # {}
    BY <1>1, <1>2 DEF IsSum
  <2>4. ch[s] \in s /\ ch[s] \in S /\ s \in SUBSET S
    BY <2>3, AnyOfChooses DEF Chooses, ch
  <2> DEFINE r == s \ {ch[s]}
  <2>5. r \notin F /\ r \in SUBSET S
    BY <2>2, <2>4
  <2>6. h[r] + (IF x \in r THEN f[x] ELSE 0) = g[r] + (IF x \in r THEN v ELSE 0)
    BY <2>5
  <2>7. h[s] = e[ch[s]] + h[r] /\ g[s] = f[ch[s]] + g[r]
    BY <1>1, <1>2, <2>3, <2>4 DEF IsSum, ch
  <2>8. h[r] \in Nat /\ g[r] \in Nat /\ f[ch[s]] \in Nat /\ f[x] \in Nat
    BY <2>4, <2>5
  <2>9. h[s] + (IF x \in s THEN f[x] ELSE 0) = g[s] + (IF x \in s THEN v ELSE 0)
    <3>1. CASE x = ch[s]
      <4>1. x \notin r /\ x \in s /\ e[ch[s]] = v
        BY <2>4, <3>1
      <4> HIDE DEF r
      <4> QED
        BY <2>6, <2>7, <2>8, <3>1, <4>1
    <3>2. CASE x # ch[s]
      <4>1. (x \in r <=> x \in s) /\ e[ch[s]] = f[ch[s]]
        BY <1>0, <2>4, <3>2
      <4> HIDE DEF r
      <4> QED
        BY <2>6, <2>7, <2>8, <4>1
    <3> QED
      BY <3>1, <3>2
  <2> QED
    BY <2>9, <2>2
<1> QED
  BY <1>1, <1>2, <1>3

(* A sum of zeros is zero.                                                  *)
LEMMA SumOfZeros ==
  ASSUME NEW S, IsFiniteSet(S), NEW f \in [S -> Nat], \A x \in S : f[x] = 0
  PROVE  SumOf(f) = 0
<1>1. PICK g \in [SUBSET S -> Nat] : SumOf(f) = g[S] /\ IsSum(g, f, S)
  BY PartialSums
<1> DEFINE z == [s \in SUBSET S |-> 0]
<1>2. \A s \in SUBSET S : g[s] = z[s]
  <2>1. g[{}] = z[{}]
    BY <1>1 DEF IsSum
  <2>2. ASSUME NEW s \in SUBSET S, s # {}, g[s \ {AnyOf(S)[s]}] = z[s \ {AnyOf(S)[s]}] PROVE g[s] = z[s]
    <3>1. AnyOf(S)[s] \in S
      BY <2>2, AnyOfChooses DEF Chooses
    <3>2. g[s] = f[AnyOf(S)[s]] + g[s \ {AnyOf(S)[s]}]
      BY <1>1, <2>2 DEF IsSum
    <3> QED
      BY <2>2, <3>1, <3>2
  <2> HIDE DEF z
  <2>3. Agrees(g, z, S, AnyOf(S))
    BY <2>1, <2>2 DEF Agrees
  <2> QED
    BY <2>3, AnyOfChooses, SubsetAgreement
<1> QED
  BY <1>1, <1>2

(* A sum is the greater if no summand is less and one is greater.          *)
LEMMA SumGreater ==
  ASSUME NEW S, IsFiniteSet(S), NEW f \in [S -> Nat], NEW e \in [S -> Nat],
         \A y \in S : f[y] <= e[y], NEW x \in S, f[x] < e[x]
  PROVE  SumOf(f) \in Nat /\ SumOf(e) \in Nat /\ SumOf(f) < SumOf(e)
<1> DEFINE ch == AnyOf(S)
<1>1. PICK g \in [SUBSET S -> Nat] : SumOf(f) = g[S] /\ IsSum(g, f, S)
  BY PartialSums
<1>2. PICK h \in [SUBSET S -> Nat] : SumOf(e) = h[S] /\ IsSum(h, e, S)
  BY PartialSums
<1> HIDE DEF ch
<1> DEFINE F == {s \in SUBSET S : ~(g[s] <= h[s] /\ (x \in s => g[s] < h[s]))}
<1>3. F = {}
  <2> SUFFICES ASSUME F # {} PROVE FALSE
    OBVIOUS
  <2>1. \A s \in F : IsFiniteSet(s)
    BY FS_Subset
  <2>2. PICK s \in F : \A t \in F : t \subseteq s => t = s
    <3> HIDE DEF F
    <3> QED
      BY <2>1, LeastSubset
  <2>3. s # {}
    BY <1>1, <1>2 DEF IsSum
  <2>4. ch[s] \in s /\ ch[s] \in S /\ s \in SUBSET S
    BY <2>3, AnyOfChooses DEF Chooses, ch
  <2> DEFINE r == s \ {ch[s]}
  <2>5. r \notin F /\ r \in SUBSET S
    BY <2>2, <2>4
  <2>6. g[r] <= h[r] /\ (x \in r => g[r] < h[r])
    BY <2>5
  <2>7. h[s] = e[ch[s]] + h[r] /\ g[s] = f[ch[s]] + g[r]
    BY <1>1, <1>2, <2>3, <2>4 DEF IsSum, ch
  <2>8. h[r] \in Nat /\ g[r] \in Nat /\ f[ch[s]] \in Nat /\ e[ch[s]] \in Nat /\ f[ch[s]] <= e[ch[s]]
    BY <2>4, <2>5
  <2>9. x \in s => x = ch[s] \/ x \in r
    OBVIOUS
  <2> HIDE DEF r
  <2>10. g[s] <= h[s] /\ (x \in s => g[s] < h[s])
    BY <2>6, <2>7, <2>8, <2>9
  <2> QED
    BY <2>10, <2>2
<1>4. g[S] < h[S] /\ g[S] \in Nat /\ h[S] \in Nat
  <2>1. S \in SUBSET S /\ S \notin F
    BY <1>3
  <2> QED
    BY <2>1
<1> QED
  BY <1>1, <1>2, <1>4

(* What the elements of the subsets of S add up to, in whatever order.     *)
Totals(g, S, w) ==
  /\ g \in [SUBSET S -> Nat] /\ g[{}] = 0
  /\ \A T \in SUBSET S : \A x \in T : g[T] = w[x] + g[T \ {x}]

(* They do add up to something,                                            *)
LEMMA TotalsExist ==
  ASSUME NEW S, IsFiniteSet(S), NEW w \in [S -> Nat]
  PROVE  \E g : Totals(g, S, w)
<1> DEFINE Part(T) == [x \in S |-> IF x \in T THEN w[x] ELSE 0]
           g == [T \in SUBSET S |-> SumOf(Part(T))]
<1>1. ASSUME NEW T \in SUBSET S PROVE Part(T) \in [S -> Nat]
  OBVIOUS
<1>2. ASSUME NEW T \in SUBSET S, NEW x \in T PROVE SumOf(Part(T)) \in Nat /\ SumOf(Part(T)) = w[x] + SumOf(Part(T \ {x}))
  <2>1. PICK f \in [S -> Nat], e \in [S -> Nat] : f = Part(T) /\ e = Part(T \ {x})
    <3>1. T \ {x} \in SUBSET S
      OBVIOUS
    <3>2. Part(T) \in [S -> Nat] /\ Part(T \ {x}) \in [S -> Nat]
      BY <1>1, <3>1
    <3> QED
      BY <3>2
  <2>2. f[x] = w[x] /\ e[x] = 0 /\ \A y \in S : y # x => e[y] = f[y]
    BY <2>1
  <2>3. SumOf(f) \in Nat /\ SumOf(e) \in Nat /\ SumOf(e) + f[x] = SumOf(f) + e[x]
    BY <2>2, SumChanges DEF SameBut
  <2>4. w[x] \in Nat
    OBVIOUS
  <2> QED
    BY <2>1, <2>2, <2>3, <2>4
<1>3. SumOf(Part({})) = 0
  <2>1. PICK f \in [S -> Nat] : f = Part({}) /\ \A x \in S : f[x] = 0
    <3>1. Part({}) = [x \in S |-> 0]
      OBVIOUS
    <3>2. [x \in S |-> 0] \in [S -> Nat] /\ \A x \in S : [y \in S |-> 0][x] = 0
      OBVIOUS
    <3> QED
      BY <3>1, <3>2
  <2> QED
    BY <2>1, SumOfZeros
<1> HIDE DEF Part
<1>4. \A T \in SUBSET S : g[T] \in Nat
  <2>1. ASSUME NEW T \in SUBSET S, T # {} PROVE g[T] \in Nat
    <3>1. PICK x \in T : TRUE
      BY <2>1
    <3> QED
      BY <1>2, <3>1
  <2>2. g[{}] \in Nat
    BY <1>3
  <2> HIDE DEF g
  <2> QED
    BY <2>1, <2>2
<1>5. g \in [SUBSET S -> Nat] /\ g[{}] = 0
  BY <1>3, <1>4
<1>6. ASSUME NEW T \in SUBSET S, NEW x \in T PROVE g[T] = w[x] + g[T \ {x}]
  <2>1. T \ {x} \in SUBSET S
    OBVIOUS
  <2> QED
    BY <1>2, <2>1
<1> HIDE DEF g
<1>7. Totals(g, S, w)
  BY <1>5, <1>6 DEF Totals
<1> QED
  BY <1>7

(* and two sets that share nothing to what each does.                      *)
LEMMA TotalsAdd ==
  ASSUME NEW S, IsFiniteSet(S), NEW w \in [S -> Nat], NEW g, Totals(g, S, w),
         NEW A \in SUBSET S, NEW B \in SUBSET S, A \cap B = {}
  PROVE  g[A \cup B] = g[A] + g[B]
<1> DEFINE F == {T \in SUBSET A : g[T \cup B] # g[T] + g[B]}
<1> SUFFICES ASSUME F # {} PROVE FALSE
  <2>1. A \in SUBSET A
    OBVIOUS
  <2> QED
    BY <2>1
<1>1. \A T \in F : IsFiniteSet(T)
  BY FS_Subset
<1>2. PICK T \in F : \A U \in F : U \subseteq T => U = T
  <2> HIDE DEF F
  <2> QED
    BY <1>1, LeastSubset
<1>3. T \in SUBSET A /\ g[T \cup B] # g[T] + g[B]
  OBVIOUS
<1>4. g[B] \in Nat /\ g[{}] = 0 /\ {} \cup B = B
  BY DEF Totals
<1>5. T # {}
  <2>1. T = {} => T \cup B = B /\ g[T] + g[B] = g[B]
    BY <1>4
  <2> QED
    BY <1>3, <2>1
<1>6. PICK x \in T : TRUE
  BY <1>5
<1>7. T \ {x} \notin F
  BY <1>2, <1>6
<1>8. g[(T \ {x}) \cup B] = g[T \ {x}] + g[B]
  BY <1>3, <1>7
<1>9. (T \cup B) \ {x} = (T \ {x}) \cup B /\ T \cup B \in SUBSET S /\ T \in SUBSET S /\ T \ {x} \in SUBSET S /\ x \in S
  BY <1>3, <1>6
<1>10. g[T \cup B] = w[x] + g[(T \ {x}) \cup B] /\ g[T] = w[x] + g[T \ {x}]
  BY <1>6, <1>9 DEF Totals
<1>11. w[x] \in Nat /\ g[T \ {x}] \in Nat
  BY <1>9 DEF Totals
<1> QED
  BY <1>3, <1>4, <1>8, <1>10, <1>11

----------------------------------------------------------------------------
(* Folds of a sequence, from the left.                                     *)

Greatest(n) == [s \in SUBSET (1..n) |-> Max(s)]

(* They take the last element first.                                       *)
LEMMA GreatestChooses ==
  ASSUME NEW n \in Nat
  PROVE  /\ IsFiniteSet(1..n) /\ Chooses(Greatest(n), 1..n)
         /\ \A k \in 1..n : Greatest(n)[1..k] = k /\ (1..k) \ {k} = 1..(k - 1)
         /\ \A s \in SUBSET (1..n) : Greatest(n)[s] = Max(s)
<1>1. IsFiniteSet(1..n)
  BY FS_Interval
<1>2. ASSUME NEW s \in SUBSET (1..n), s # {} PROVE \E x \in s : \A y \in s : x >= y
  <2> DEFINE U == {n - x : x \in s}
  <2>1. U \subseteq Nat /\ U # {}
    <3>1. \A x \in s : n - x \in Nat
      OBVIOUS
    <3> QED
      BY <1>2, <3>1
  <2>2. PICK u \in U : \A y \in U : u <= y
    <3> HIDE DEF U
    <3> QED
      BY <2>1, LeastNatural
  <2>3. PICK x \in s : u = n - x
    OBVIOUS
  <2>4. ASSUME NEW y \in s PROVE x >= y
    <3>1. n - x <= n - y /\ x \in Nat /\ y \in Nat
      BY <2>2, <2>3
    <3> QED
      BY <3>1
  <2> QED
    BY <2>4
<1>3. Chooses(Greatest(n), 1..n)
  BY <1>2 DEF Chooses, Greatest, Max
<1>4. ASSUME NEW k \in 1..n PROVE Greatest(n)[1..k] = k
  <2>1. 1..k \in SUBSET (1..n) /\ k \in 1..k
    OBVIOUS
  <2>2. Greatest(n)[1..k] = Max(1..k)
    BY <2>1 DEF Greatest
  <2>3. Max(1..k) \in 1..k /\ \A y \in 1..k : Max(1..k) >= y
    BY <1>2, <2>1 DEF Max
  <2> QED
    BY <2>1, <2>2, <2>3
<1>5. \A k \in 1..n : (1..k) \ {k} = 1..(k - 1)
  OBVIOUS
<1>6. \A s \in SUBSET (1..n) : Greatest(n)[s] = Max(s)
  BY DEF Greatest
<1> QED
  BY <1>1, <1>3, <1>4, <1>5, <1>6

(* There is such a fold,                                                   *)
Computes(g, n, V, base, op) ==
  /\ g[{}] = base
  /\ \A s \in SUBSET (1..n) :
       s # {} => Max(s) \in 1..n /\ g[s \ {Max(s)}] \in V /\ g[s] = op[<<Max(s), g[s \ {Max(s)}]>>]

(* The recursion of a left fold over 1..n defines a function on the subsets.*)
LEMMA LeftRecursion ==
  ASSUME NEW n \in Nat, NEW V, NEW base \in V, NEW op \in [(1..n) \X V -> V]
  PROVE  \E g \in [SUBSET (1..n) -> V] : Computes(g, n, V, base, op)
<1>1. PICK D : D = 1..n
  OBVIOUS
<1>2. IsFiniteSet(D) /\ Chooses(Greatest(n), D)
  BY <1>1, GreatestChooses
<1>3. PICK g \in [SUBSET D -> V] : FoldsTo(g, D, base, op, Greatest(n))
  <2>1. op \in [D \X V -> V]
    BY <1>1
  <2> QED
    BY <1>2, <2>1, SubsetRecursion
<1>4. ASSUME NEW s \in SUBSET D, s # {} PROVE Greatest(n)[s] = Max(s) /\ Max(s) \in D
  <2>1. Greatest(n)[s] \in D
    BY <1>2, <1>4 DEF Chooses
  <2>2. Greatest(n)[s] = Max(s)
    BY <1>1 DEF Greatest
  <2> QED
    BY <2>1, <2>2
<1>5. g[{}] = base
  BY <1>3 DEF FoldsTo
<1>6. ASSUME NEW s \in SUBSET D, s # {} PROVE g[s \ {Max(s)}] \in V /\ g[s] = op[<<Max(s), g[s \ {Max(s)}]>>]
  BY <1>3, <1>4, <1>6 DEF FoldsTo
<1> QED
  BY <1>1, <1>4, <1>5, <1>6 DEF Computes

(* and whatever follows its rule passes through the values at the ends of  *)
(* the prefixes.                                                           *)
Follows(h, n, V, base, op) ==
  /\ h[{}] = base
  /\ \A s \in SUBSET (1..n) : s # {} /\ h[s \ {Max(s)}] \in V => h[s] = op[<<Max(s), h[s \ {Max(s)}]>>]

Passes(p, n, base, op) == p[0] = base /\ \A k \in 1..n : p[k] = op[<<k, p[k - 1]>>]

(* Such a function takes the elements in order: its values on 0..n are the  *)
(* passes of a loop.                                                        *)
LEMMA LeftFold ==
  ASSUME NEW n \in Nat, NEW V, NEW base \in V, NEW op \in [(1..n) \X V -> V],
         NEW h, Follows(h, n, V, base, op)
  PROVE  \E p \in [0..n -> V] : p[n] = h[1..n] /\ Passes(p, n, base, op)
<1> DEFINE p == [k \in 0..n |-> h[1..k]]
<1>1. h[{}] = base
  BY DEF Follows
<1>2. p[0] = base
  <2>1. 1..0 = {} /\ 0 \in 0..n
    OBVIOUS
  <2> QED
    BY <1>1, <2>1
<1>3. ASSUME NEW k \in 1..n, p[k - 1] \in V PROVE p[k] = op[<<k, p[k - 1]>>] /\ p[k] \in V
  <2>1. 1..k \in SUBSET (1..n) /\ 1..k # {} /\ k - 1 \in 0..n /\ k \in 0..n
    OBVIOUS
  <2>2. Max(1..k) = k /\ (1..k) \ {k} = 1..(k - 1)
    BY <2>1, GreatestChooses
  <2>3. h[1..k] = op[<<k, h[1..(k - 1)]>>]
    BY <1>3, <2>1, <2>2 DEF Follows
  <2> QED
    BY <1>3, <2>1, <2>3
<1> HIDE DEF p
<1>4. ASSUME NEW k \in 0..n PROVE p[k] \in V
  <2> DEFINE U == {i \in 0..n : p[i] \notin V}
  <2> SUFFICES ASSUME U # {} PROVE FALSE
    OBVIOUS
  <2>1. PICK i \in U : \A j \in U : i <= j
    <3>1. U \subseteq Nat
      OBVIOUS
    <3> HIDE DEF U
    <3> QED
      BY <3>1, LeastNatural
  <2>2. i \in 1..n /\ i - 1 \in 0..n /\ i - 1 \notin U
    BY <1>2, <2>1
  <2> QED
    BY <1>3, <2>1, <2>2
<1>5. Passes(p, n, base, op)
  <2>1. \A k \in 1..n : k - 1 \in 0..n
    OBVIOUS
  <2> QED
    BY <1>2, <1>3, <1>4, <2>1 DEF Passes
<1>6. p[n] = h[1..n] /\ p \in [0..n -> V]
  BY <1>4 DEF p
<1> QED
  BY <1>5, <1>6

----------------------------------------------------------------------------
(* Sequences.                                                              *)

(* What RemoveAt leaves.                                                   *)
LEMMA Spliced ==
  ASSUME NEW S, NEW s \in Seq(S), NEW k \in 1..Len(s)
  PROVE  /\ RemoveAt(s, k) \in Seq(S) /\ Len(RemoveAt(s, k)) = Len(s) - 1
         /\ \A i \in 1..(Len(s) - 1) : RemoveAt(s, k)[i] = IF i < k THEN s[i] ELSE s[i + 1]
<1>1. Len(s) \in Nat /\ k \in Nat /\ \A i \in 1..Len(s) : s[i] \in S
  OBVIOUS
<1>2. PICK before \in Seq(S) : before = SubSeq(s, 1, k - 1)
  <2>1. SubSeq(s, 1, k - 1) \in Seq(S)
    BY <1>1
  <2> QED
    BY <2>1
<1>3. Len(before) = k - 1 /\ \A i \in 1..(k - 1) : before[i] = s[i]
  BY <1>1, <1>2
<1>4. PICK after \in Seq(S) : after = SubSeq(s, k + 1, Len(s))
  <2>1. SubSeq(s, k + 1, Len(s)) \in Seq(S)
    BY <1>1
  <2> QED
    BY <2>1
<1>5. Len(after) = Len(s) - k /\ \A i \in 1..(Len(s) - k) : after[i] = s[i + k]
  BY <1>1, <1>4
<1>6. RemoveAt(s, k) = before \o after
  BY <1>2, <1>4 DEF RemoveAt
<1>7. /\ before \o after \in Seq(S)
      /\ Len(before \o after) = Len(before) + Len(after)
      /\ \A i \in 1..(Len(before) + Len(after)) :
           (before \o after)[i] = IF i <= Len(before) THEN before[i] ELSE after[i - Len(before)]
  BY ConcatProperties
<1>8. ASSUME NEW i \in 1..(Len(s) - 1) PROVE (before \o after)[i] = IF i < k THEN s[i] ELSE s[i + 1]
  <2>1. CASE i < k
    BY <1>1, <1>3, <1>5, <1>7, <2>1
  <2>2. CASE ~(i < k)
    <3>1. i - (k - 1) \in 1..(Len(s) - k) /\ ~(i <= k - 1) /\ i \in 1..(Len(before) + Len(after))
      BY <1>1, <1>3, <1>5, <2>2
    <3>2. (before \o after)[i] = after[i - (k - 1)]
      BY <1>3, <1>7, <3>1
    <3>3. (i - (k - 1)) + k = i + 1
      BY <1>1
    <3> QED
      BY <1>5, <2>2, <3>1, <3>2, <3>3
  <2> QED
    BY <2>1, <2>2
<1> QED
  BY <1>1, <1>3, <1>5, <1>6, <1>7, <1>8

(* FlattenSeq appends one sequence after another.                          *)
Appends(f, seqs) ==
  f[1] = seqs[1] /\ \A i \in 2..Len(seqs) : f[i] = f[i - 1] \o seqs[i]

(* Flattening a sequence of sequences appends them one after the other.     *)
LEMMA FlattenedParts ==
  ASSUME NEW S, NEW seqs \in Seq(Seq(S)), seqs # <<>>
  PROVE  \E f \in [1..Len(seqs) -> Seq(S)] : FlattenSeq(seqs) = f[Len(seqs)] /\ Appends(f, seqs)
<1> DEFINE n == Len(seqs)
           P(h) == h = [i \in 1..n |-> IF i = 1 THEN seqs[i] ELSE h[i - 1] \o seqs[i]]
           flat == CHOOSE h : P(h)
           op == [q \in (1..n) \X Seq(S) |-> q[2] \o seqs[q[1]]]
<1>0. n \in Nat /\ n # 0 /\ \A i \in 1..n : seqs[i] \in Seq(S)
  OBVIOUS
<1> HIDE DEF n
<1>1. op \in [(1..n) \X Seq(S) -> Seq(S)]
  BY <1>0
<1>2. <<>> \in Seq(S)
  OBVIOUS
<1>3. PICK g \in [SUBSET (1..n) -> Seq(S)] : Computes(g, n, Seq(S), <<>>, op)
  <2> HIDE DEF op
  <2> QED
    BY <1>0, <1>1, <1>2, LeftRecursion
<1>4. Follows(g, n, Seq(S), <<>>, op)
  BY <1>3 DEF Computes, Follows
<1>5. PICK p \in [0..n -> Seq(S)] : p[n] = g[1..n] /\ Passes(p, n, <<>>, op)
  <2> HIDE DEF op
  <2> QED
    BY <1>0, <1>1, <1>2, <1>4, LeftFold
<1>6. ASSUME NEW k \in 1..n PROVE p[k] = p[k - 1] \o seqs[k] /\ p[k - 1] \in Seq(S)
  <2>1. k - 1 \in 0..n
    BY <1>0
  <2> QED
    BY <1>5, <2>1 DEF Passes
<1>7. p[1] = seqs[1]
  <2>0. 1 \in 1..n /\ 1 - 1 = 0
    BY <1>0
  <2>1. p[1] = p[0] \o seqs[1] /\ p[0] = <<>>
    <3>1. p[1] = p[1 - 1] \o seqs[1]
      BY <1>6, <2>0
    <3> QED
      BY <1>5, <2>0, <3>1 DEF Passes
  <2>2. seqs[1] \in Seq(S)
    BY <1>0
  <2> QED
    BY <2>1, <2>2, ConcatEmptySeq
<1> DEFINE f == [i \in 1..n |-> p[i]]
<1>8. P(f)
  <2>1. ASSUME NEW i \in 1..n, i # 1 PROVE f[i] = f[i - 1] \o seqs[i]
    <3>1. i - 1 \in 1..n
      BY <1>0, <2>1
    <3> QED
      BY <1>6, <3>1
  <2>2. f[1] = seqs[1] /\ 1 \in 1..n
    BY <1>0, <1>7
  <2> QED
    BY <2>1, <2>2
<1>9. P(flat)
  <2> HIDE DEF P, f
  <2> QED
    BY <1>8
<1>10. FlattenSeq(seqs) = flat[n]
  BY <1>0 DEF FlattenSeq, n
<1>11. ASSUME NEW h, P(h) PROVE h[1] = seqs[1] /\ \A i \in 2..n : h[i] = h[i - 1] \o seqs[i]
  <2>1. \A i \in 1..n : h[i] = IF i = 1 THEN seqs[i] ELSE h[i - 1] \o seqs[i]
    BY <1>11
  <2>2. 1 \in 1..n /\ \A i \in 2..n : i \in 1..n /\ i # 1
    BY <1>0
  <2> QED
    BY <2>1, <2>2
<1>12. Appends(flat, seqs) /\ flat = [i \in 1..n |-> flat[i]]
  <2>1. ASSUME NEW h, P(h) PROVE h = [i \in 1..n |-> h[i]]
    BY <2>1
  <2> HIDE DEF flat, P
  <2> QED
    BY <1>9, <1>11, <2>1 DEF Appends, n
<1> HIDE DEF flat, P
<1>13. ASSUME NEW i \in 1..n PROVE flat[i] \in Seq(S)
  <2> DEFINE U == {k \in 1..n : flat[k] \notin Seq(S)}
  <2> SUFFICES ASSUME U # {} PROVE FALSE
    OBVIOUS
  <2>1. PICK k \in U : \A j \in U : k <= j
    <3>1. U \subseteq Nat
      OBVIOUS
    <3> HIDE DEF U
    <3> QED
      BY <3>1, LeastNatural
  <2>2. k # 1
    BY <1>0, <1>12 DEF Appends
  <2>3. k - 1 \in 1..n /\ k - 1 \notin U /\ k \in 2..n
    BY <1>0, <2>1, <2>2
  <2>4. flat[k] = flat[k - 1] \o seqs[k] /\ flat[k - 1] \in Seq(S) /\ seqs[k] \in Seq(S)
    BY <1>0, <1>12, <2>3 DEF Appends, n
  <2>5. flat[k - 1] \o seqs[k] \in Seq(S)
    BY <2>4, ConcatProperties
  <2>6. flat[k] \notin Seq(S)
    BY <2>1
  <2> QED
    BY <2>4, <2>5, <2>6
<1> QED
  <2>1. flat \in [1..n -> Seq(S)]
    BY <1>12, <1>13
  <2> QED
    BY <1>10, <1>12, <2>1 DEF n

(* What a flattened sequence holds is in one of its parts.                 *)
LEMMA FlattenedElements ==
  ASSUME NEW S, NEW seqs \in Seq(Seq(S))
  PROVE  /\ FlattenSeq(seqs) \in Seq(S)
         /\ \A m \in Range(FlattenSeq(seqs)) : \E i \in DOMAIN seqs : m \in Range(seqs[i])
<1>1. CASE seqs = <<>>
  BY <1>1 DEF FlattenSeq, Range
<1>2. CASE seqs # <<>>
  <2>1. PICK f \in [1..Len(seqs) -> Seq(S)] : FlattenSeq(seqs) = f[Len(seqs)] /\ Appends(f, seqs)
    BY <1>2, FlattenedParts
  <2>2. Len(seqs) \in Nat /\ Len(seqs) # 0 /\ \A i \in 1..Len(seqs) : seqs[i] \in Seq(S)
    BY <1>2
  <2>3. ASSUME NEW k \in 1..Len(seqs) PROVE \A m \in Range(f[k]) : \E i \in 1..Len(seqs) : m \in Range(seqs[i])
    <3> DEFINE U == {i \in 1..Len(seqs) : \E m \in Range(f[i]) : \A j \in 1..Len(seqs) : m \notin Range(seqs[j])}
    <3> SUFFICES ASSUME U # {} PROVE FALSE
      OBVIOUS
    <3>1. PICK i \in U : \A j \in U : i <= j
      <4>1. U \subseteq Nat
        OBVIOUS
      <4> HIDE DEF U
      <4> QED
        BY <4>1, LeastNatural
    <3>2. i # 1
      BY <2>1, <2>2 DEF Appends
    <3>3. i - 1 \in 1..Len(seqs) /\ i \in 2..Len(seqs) /\ i - 1 < i /\ i \in Nat
      BY <2>2, <3>1, <3>2
    <3>7. i - 1 \notin U
      <4> HIDE DEF U
      <4> QED
        BY <3>1, <3>3
    <3>4. f[i] = f[i - 1] \o seqs[i] /\ f[i - 1] \in Seq(S) /\ seqs[i] \in Seq(S)
      BY <2>1, <2>2, <3>3 DEF Appends
    <3>5. Range(f[i]) = Range(f[i - 1]) \cup Range(seqs[i])
      BY <3>4, RangeConcatenation
    <3>6. PICK m \in Range(f[i]) : \A j \in 1..Len(seqs) : m \notin Range(seqs[j])
      OBVIOUS
    <3> QED
      BY <3>3, <3>5, <3>6, <3>7
  <2>4. DOMAIN seqs = 1..Len(seqs)
    OBVIOUS
  <2>5. FlattenSeq(seqs) \in Seq(S) /\ Len(seqs) \in 1..Len(seqs)
    BY <2>1, <2>2
  <2>6. \A m \in Range(f[Len(seqs)]) : \E i \in 1..Len(seqs) : m \in Range(seqs[i])
    BY <2>3, <2>5
  <2> QED
    BY <2>1, <2>4, <2>5, <2>6
<1> QED
  BY <1>1, <1>2

(* Flattening takes the parts of a concatenation apart,                    *)
LEMMA FlattenConcat ==
  ASSUME NEW S, NEW s \in Seq(Seq(S)), NEW t \in Seq(Seq(S))
  PROVE  FlattenSeq(s \o t) = FlattenSeq(s) \o FlattenSeq(t)
<1>1. CASE s = <<>>
  <2>1. s \o t = t /\ FlattenSeq(s) = <<>>
    BY <1>1, ConcatEmptySeq DEF FlattenSeq
  <2> QED
    BY <2>1, FlattenedElements, ConcatEmptySeq
<1>2. CASE t = <<>>
  <2>1. s \o t = s /\ FlattenSeq(t) = <<>>
    BY <1>2, ConcatEmptySeq DEF FlattenSeq
  <2> QED
    BY <2>1, FlattenedElements, ConcatEmptySeq
<1>3. CASE s # <<>> /\ t # <<>>
  <2>0. Len(s) \in Nat /\ Len(t) \in Nat /\ Len(s) >= 1 /\ Len(t) >= 1
    <3>1. Len(s) \in Nat /\ Len(s) # 0
      BY <1>3
    <3>2. Len(t) \in Nat /\ Len(t) # 0
      BY <1>3
    <3> QED
      BY <3>1, <3>2
  <2>1. PICK n, k : n = Len(s) /\ k = Len(t) /\ n \in Nat /\ k \in Nat /\ n >= 1 /\ k >= 1
    BY <2>0
  <2>2. /\ s \o t \in Seq(Seq(S)) /\ Len(s \o t) = n + k /\ s \o t # <<>>
        /\ \A i \in 1..n : (s \o t)[i] = s[i]
        /\ \A j \in 1..k : (s \o t)[n + j] = t[j]
    <3>1. /\ s \o t \in Seq(Seq(S)) /\ Len(s \o t) = n + k
          /\ \A i \in 1..(n + k) : (s \o t)[i] = IF i <= n THEN s[i] ELSE t[i - n]
      BY <2>1, ConcatProperties
    <3>2. ASSUME NEW j \in 1..k PROVE (s \o t)[n + j] = t[j]
      <4>1. n + j \in 1..(n + k) /\ ~(n + j <= n) /\ (n + j) - n = j
        BY <2>1
      <4> QED
        BY <3>1, <4>1
    <3>3. \A i \in 1..n : i \in 1..(n + k) /\ i <= n
      BY <2>1
    <3>4. n + k # 0
      BY <2>1
    <3> QED
      BY <3>1, <3>2, <3>3, <3>4
  <2>3. PICK f \in [1..(n + k) -> Seq(S)] : FlattenSeq(s \o t) = f[n + k] /\ Appends(f, s \o t)
    BY <2>2, FlattenedParts
  <2>4. PICK a \in [1..n -> Seq(S)] : FlattenSeq(s) = a[n] /\ Appends(a, s)
    BY <1>3, <2>1, FlattenedParts
  <2>5. PICK b \in [1..k -> Seq(S)] : FlattenSeq(t) = b[k] /\ Appends(b, t)
    BY <1>3, <2>1, FlattenedParts
  <2>6. f[1] = (s \o t)[1] /\ \A i \in 2..(n + k) : f[i] = f[i - 1] \o (s \o t)[i]
    BY <2>2, <2>3 DEF Appends
  <2>7. a[1] = s[1] /\ \A i \in 2..n : a[i] = a[i - 1] \o s[i]
    BY <2>1, <2>4 DEF Appends
  <2>8. b[1] = t[1] /\ \A i \in 2..k : b[i] = b[i - 1] \o t[i]
    BY <2>1, <2>5 DEF Appends
  <2>9. f[n] = a[n]
    <3> DEFINE U == {i \in 0..(n - 1) : f[i + 1] # a[i + 1]}
    <3>1. U \subseteq 0..(n - 1) /\ n - 1 \in Nat
      BY <2>1
    <3>2. 0 \notin U
      BY <2>1, <2>2, <2>6, <2>7
    <3>3. ASSUME NEW i \in 1..(n - 1), i - 1 \notin U PROVE i \notin U
      <4>1. i - 1 \in 0..(n - 1) /\ (i - 1) + 1 = i /\ i + 1 \in 2..(n + k) /\ i + 1 \in 2..n /\ (i + 1) - 1 = i /\ i + 1 \in 1..n
        BY <2>1
      <4>2. f[i] = a[i]
        BY <3>3, <4>1
      <4>3. f[i + 1] = f[i] \o s[i + 1] /\ a[i + 1] = a[i] \o s[i + 1]
        BY <2>2, <2>6, <2>7, <4>1
      <4> QED
        BY <4>2, <4>3
    <3>4. U = {}
      <4> HIDE DEF U
      <4> QED
        BY <3>1, <3>2, <3>3, NothingFrom
    <3>5. n - 1 \in 0..(n - 1) /\ (n - 1) + 1 = n
      BY <2>1
    <3> QED
      BY <3>4, <3>5
  <2>10. f[n + k] = a[n] \o b[k]
    <3> DEFINE U == {j \in 0..(k - 1) : f[n + (j + 1)] # a[n] \o b[j + 1]}
    <3>1. U \subseteq 0..(k - 1) /\ k - 1 \in Nat
      BY <2>1
    <3>2. 0 \notin U
      <4>1. n + 1 \in 2..(n + k) /\ (n + 1) - 1 = n /\ 1 \in 1..k /\ 0 + 1 = 1
        BY <2>1
      <4>2. f[n + 1] = f[n] \o t[1]
        BY <2>2, <2>6, <4>1
      <4>3. f[n + 1] = a[n] \o b[1]
        BY <2>8, <2>9, <4>2
      <4> QED
        BY <4>1, <4>3
    <3>3. ASSUME NEW j \in 1..(k - 1), j - 1 \notin U PROVE j \notin U
      <4>1. /\ j - 1 \in 0..(k - 1) /\ (j - 1) + 1 = j /\ j + 1 \in 2..k /\ (j + 1) - 1 = j /\ j + 1 \in 1..k /\ j \in 1..k
            /\ n + (j + 1) \in 2..(n + k) /\ (n + (j + 1)) - 1 = n + j /\ n \in 1..n
        BY <2>1
      <4>2. f[n + j] = a[n] \o b[j]
        BY <3>3, <4>1
      <4>3. f[n + (j + 1)] = f[n + j] \o t[j + 1]
        BY <2>2, <2>6, <4>1
      <4>4. b[j + 1] = b[j] \o t[j + 1]
        BY <2>8, <4>1
      <4>5. a[n] \in Seq(S) /\ b[j] \in Seq(S)
        BY <2>1, <2>4, <2>5, <4>1
      <4>8. t[j + 1] \in Seq(S)
        BY <2>1, <4>1
      <4>9. \A x, y, z \in Seq(S) : (x \o y) \o z = x \o (y \o z)
        BY ConcatAssociative
      <4>6. (a[n] \o b[j]) \o t[j + 1] = a[n] \o (b[j] \o t[j + 1])
        BY <4>5, <4>8, <4>9
      <4>7. f[n + (j + 1)] = a[n] \o b[j + 1]
        BY <4>2, <4>3, <4>4, <4>6
      <4> QED
        BY <4>7
    <3>4. U = {}
      <4> HIDE DEF U
      <4> QED
        BY <3>1, <3>2, <3>3, NothingFrom
    <3>5. k - 1 \in 0..(k - 1) /\ (k - 1) + 1 = k
      BY <2>1
    <3>6. f[n + ((k - 1) + 1)] = a[n] \o b[(k - 1) + 1]
      BY <3>4, <3>5
    <3> QED
      BY <3>5, <3>6
  <2> QED
    BY <2>3, <2>4, <2>5, <2>10
<1> QED
  BY <1>1, <1>2, <1>3

(* and so does replacing each element of a sequence by what g makes of it, *)
Expanded(g, u) == FlattenSeq([k \in DOMAIN u |-> g[u[k]]])
Expands(g, S, T) == g \in [S -> Seq(T)]

(* which concatenation commutes with,                                      *)
LEMMA ExpandedConcat ==
  ASSUME NEW S, NEW T, NEW g, Expands(g, S, T), NEW u \in Seq(S), NEW v \in Seq(S)
  PROVE  Expanded(g, u) \in Seq(T) /\ Expanded(g, u \o v) = Expanded(g, u) \o Expanded(g, v)
<1> DEFINE Mapped(w) == [k \in DOMAIN w |-> g[w[k]]]
<1>0. g \in [S -> Seq(T)]
  BY DEF Expands
<1>1. ASSUME NEW w \in Seq(S)
      PROVE  /\ Mapped(w) \in Seq(Seq(T)) /\ Len(Mapped(w)) = Len(w)
             /\ \A i \in 1..Len(w) : Mapped(w)[i] = g[w[i]]
  <2>1. DOMAIN w = 1..Len(w) /\ Len(w) \in Nat /\ \A i \in 1..Len(w) : w[i] \in S
    OBVIOUS
  <2>2. Mapped(w) \in [1..Len(w) -> Seq(T)]
    BY <1>0, <2>1
  <2> QED
    BY <2>1, <2>2
<1>2. Mapped(u \o v) = Mapped(u) \o Mapped(v)
  <2>0. Len(u) \in Nat /\ Len(v) \in Nat
    OBVIOUS
  <2>1. PICK n, k : n = Len(u) /\ k = Len(v) /\ n \in Nat /\ k \in Nat
    BY <2>0
  <2>2. /\ u \o v \in Seq(S) /\ Len(u \o v) = n + k
        /\ \A i \in 1..(n + k) : (u \o v)[i] = IF i <= n THEN u[i] ELSE v[i - n]
    BY <2>1, ConcatProperties
  <2>3. PICK a \in Seq(Seq(T)) : a = Mapped(u)
    BY <1>1
  <2>4. PICK b \in Seq(Seq(T)) : b = Mapped(v)
    BY <1>1
  <2>5. PICK c \in Seq(Seq(T)) : c = Mapped(u \o v)
    BY <1>1, <2>2
  <2>6. /\ Len(a) = n /\ Len(b) = k /\ Len(c) = n + k
        /\ \A i \in 1..n : a[i] = g[u[i]]
        /\ \A i \in 1..k : b[i] = g[v[i]]
        /\ \A i \in 1..(n + k) : c[i] = g[(u \o v)[i]]
    BY <1>1, <2>1, <2>2, <2>3, <2>4, <2>5
  <2>7. /\ a \o b \in Seq(Seq(T)) /\ Len(a \o b) = n + k
        /\ \A i \in 1..(n + k) : (a \o b)[i] = IF i <= n THEN a[i] ELSE b[i - n]
    <3>1. a \in Seq(Seq(T)) /\ b \in Seq(Seq(T))
      BY <2>3, <2>4
    <3>2. /\ a \o b \in Seq(Seq(T)) /\ Len(a \o b) = Len(a) + Len(b)
          /\ \A i \in 1..(Len(a) + Len(b)) : (a \o b)[i] = IF i <= Len(a) THEN a[i] ELSE b[i - Len(a)]
      BY <3>1, ConcatProperties
    <3> QED
      BY <2>6, <3>2
  <2>8. ASSUME NEW i \in 1..(n + k) PROVE c[i] = (a \o b)[i]
    <3>1. i <= n => i \in 1..n
      BY <2>1
    <3>2. ~(i <= n) => i - n \in 1..k
      BY <2>1
    <3>3. CASE i <= n
      <4>1. c[i] = g[u[i]]
        BY <2>2, <2>6, <3>3
      <4>2. (a \o b)[i] = a[i]
        BY <2>7, <3>3
      <4> QED
        BY <2>6, <3>1, <3>3, <4>1, <4>2
    <3>4. CASE ~(i <= n)
      <4>1. c[i] = g[v[i - n]]
        BY <2>2, <2>6, <3>4
      <4>2. (a \o b)[i] = b[i - n]
        BY <2>7, <3>4
      <4> QED
        BY <2>6, <3>2, <3>4, <4>1, <4>2
    <3> QED
      BY <3>3, <3>4
  <2>9. c = a \o b
    BY <2>1, <2>6, <2>7, <2>8, SeqEqual
  <2> QED
    BY <2>3, <2>4, <2>5, <2>9
<1>3. FlattenSeq(Mapped(u)) \in Seq(T)
  BY <1>1, FlattenedElements
<1>4. FlattenSeq(Mapped(u) \o Mapped(v)) = FlattenSeq(Mapped(u)) \o FlattenSeq(Mapped(v))
  <2>1. Mapped(u) \in Seq(Seq(T)) /\ Mapped(v) \in Seq(Seq(T))
    BY <1>1
  <2> HIDE DEF Mapped
  <2> QED
    BY <2>1, FlattenConcat
<1> QED
  BY <1>2, <1>3, <1>4 DEF Expanded

(* and flattening too.                                                     *)
LEMMA ExpandedFlat ==
  ASSUME NEW S, NEW T, NEW g, Expands(g, S, T), NEW seqs \in Seq(Seq(S))
  PROVE  Expanded(g, FlattenSeq(seqs)) = FlattenSeq([i \in DOMAIN seqs |-> Expanded(g, seqs[i])])
<1> DEFINE parts == [i \in DOMAIN seqs |-> Expanded(g, seqs[i])]
<1>1. \A u, v \in Seq(S) : Expanded(g, u) \in Seq(T) /\ Expanded(g, u \o v) = Expanded(g, u) \o Expanded(g, v)
  BY ExpandedConcat
<1>2. PICK n \in Nat : n = Len(seqs) /\ DOMAIN seqs = 1..n /\ \A i \in 1..n : seqs[i] \in Seq(S)
  OBVIOUS
<1>3. /\ parts \in Seq(Seq(T)) /\ Len(parts) = n
      /\ \A i \in 1..n : parts[i] = Expanded(g, seqs[i])
  <2>1. parts \in [1..n -> Seq(T)]
    BY <1>1, <1>2
  <2> QED
    BY <1>2, <2>1
<1>4. CASE n = 0
  <2>1. seqs = <<>> /\ parts = <<>>
    BY <1>2, <1>3, <1>4
  <2>2. \A w : w = <<>> => Expanded(g, w) = <<>>
    <3>1. \A w : w = <<>> => [k \in DOMAIN w |-> g[w[k]]] = <<>>
      OBVIOUS
    <3> QED
      BY <3>1 DEF Expanded, FlattenSeq
  <2>3. FlattenSeq(seqs) = <<>> /\ FlattenSeq(parts) = <<>>
    BY <2>1 DEF FlattenSeq
  <2> HIDE DEF parts
  <2>4. FlattenSeq(parts) = Expanded(g, FlattenSeq(seqs))
    BY <2>2, <2>3
  <2> QED
    BY <2>4 DEF parts
<1>5. CASE n # 0
  <2> HIDE DEF parts
  <2>1. PICK f \in [1..n -> Seq(S)] : FlattenSeq(seqs) = f[n] /\ Appends(f, seqs)
    BY <1>2, <1>5, FlattenedParts
  <2>2. PICK h \in [1..n -> Seq(T)] : FlattenSeq(parts) = h[n] /\ Appends(h, parts)
    <3>1. parts # <<>>
      BY <1>3, <1>5
    <3> QED
      BY <1>3, <3>1, FlattenedParts
  <2>3. f[1] = seqs[1] /\ \A i \in 2..n : f[i] = f[i - 1] \o seqs[i]
    BY <1>2, <2>1 DEF Appends
  <2>4. h[1] = parts[1] /\ \A i \in 2..n : h[i] = h[i - 1] \o parts[i]
    BY <1>3, <2>2 DEF Appends
  <2> DEFINE U == {i \in 0..(n - 1) : h[i + 1] # Expanded(g, f[i + 1])}
  <2>5. U \subseteq 0..(n - 1) /\ n - 1 \in Nat
    BY <1>5
  <2>6. 0 \notin U
    BY <1>2, <1>3, <1>5, <2>3, <2>4
  <2>7. ASSUME NEW i \in 1..(n - 1), i - 1 \notin U PROVE i \notin U
    <3>1. i - 1 \in 0..(n - 1) /\ (i - 1) + 1 = i /\ i + 1 \in 2..n /\ (i + 1) - 1 = i /\ i + 1 \in 1..n /\ i \in 1..n
      BY <1>2
    <3>2. h[i] = Expanded(g, f[i])
      BY <2>7, <3>1
    <3>3. f[i + 1] = f[i] \o seqs[i + 1] /\ h[i + 1] = h[i] \o Expanded(g, seqs[i + 1])
      BY <1>3, <2>3, <2>4, <3>1
    <3>4. f[i] \in Seq(S) /\ seqs[i + 1] \in Seq(S)
      BY <1>2, <3>1
    <3>5. Expanded(g, f[i] \o seqs[i + 1]) = Expanded(g, f[i]) \o Expanded(g, seqs[i + 1])
      BY <1>1, <3>4
    <3>6. h[i + 1] = Expanded(g, f[i + 1])
      BY <3>2, <3>3, <3>5
    <3> QED
      BY <3>6
  <2>8. U = {}
    <3> HIDE DEF U
    <3> QED
      BY <2>5, <2>6, <2>7, NothingFrom
  <2>9. n - 1 \in 0..(n - 1) /\ (n - 1) + 1 = n
    BY <1>2, <1>5
  <2>10. h[(n - 1) + 1] = Expanded(g, f[(n - 1) + 1])
    BY <2>8, <2>9
  <2> QED
    BY <2>1, <2>2, <2>9, <2>10 DEF parts
<1> QED
  BY <1>2, <1>4, <1>5

(* Two sequences of one element make a pair.                              *)
LEMMA PairOfTwo ==
  ASSUME NEW T, NEW a \in Seq(T), NEW b \in Seq(T), NEW pair \in Seq(T),
         Len(a) = 1, Len(b) = 1, Len(pair) = 2, pair[1] = a[1], pair[2] = b[1]
  PROVE  a \o b = pair
<1>1. /\ a \o b \in Seq(T) /\ Len(a \o b) = 2
      /\ \A i \in 1..2 : (a \o b)[i] = IF i <= 1 THEN a[i] ELSE b[i - 1]
  BY ConcatProperties
<1>2. ASSUME NEW i \in 1..2 PROVE (a \o b)[i] = pair[i]
  <2>1. i = 1 \/ i = 2
    OBVIOUS
  <2>2. CASE i = 1
    BY <1>1, <2>2
  <2>3. CASE i = 2
    <3>1. (a \o b)[i] = b[i - 1] /\ i - 1 = 1
      BY <1>1, <2>3
    <3> QED
      BY <2>3, <3>1
  <2> QED
    BY <2>1, <2>2, <2>3
<1> QED
  BY <1>1, <1>2, SeqEqual

(* Flattening one sequence gives that, and flattening two their            *)
(* concatenation.                                                          *)
LEMMA FlattenShort ==
  ASSUME NEW S, NEW x \in Seq(S), NEW y \in Seq(S)
  PROVE  FlattenSeq(<<x>>) = x /\ FlattenSeq(<<x, y>>) = x \o y
<1>1. ASSUME NEW z \in Seq(S) PROVE FlattenSeq(<<z>>) = z
  <2>1. <<z>> \in Seq(Seq(S)) /\ Len(<<z>>) = 1 /\ <<z>> # <<>> /\ <<z>>[1] = z
    OBVIOUS
  <2>2. PICK f \in [1..1 -> Seq(S)] : FlattenSeq(<<z>>) = f[1] /\ Appends(f, <<z>>)
    BY <2>1, FlattenedParts
  <2> QED
    BY <2>1, <2>2 DEF Appends
<1>2. <<x>> \o <<y>> = <<x, y>> /\ <<x>> \in Seq(Seq(S)) /\ <<y>> \in Seq(Seq(S))
  <2> DEFINE T == Seq(S)
             a == <<x>>
             b == <<y>>
             pair == <<x, y>>
  <2>1. a \in Seq(T) /\ Len(a) = 1 /\ a[1] = x
    OBVIOUS
  <2>2. b \in Seq(T) /\ Len(b) = 1 /\ b[1] = y
    OBVIOUS
  <2>3. pair \in Seq(T) /\ Len(pair) = 2 /\ pair[1] = x /\ pair[2] = y
    OBVIOUS
  <2> HIDE DEF T, a, b, pair
  <2>4. a \o b = pair
    BY <2>1, <2>2, <2>3, PairOfTwo
  <2> QED
    BY <2>1, <2>2, <2>4 DEF T, a, b, pair
<1>3. FlattenSeq(<<x>> \o <<y>>) = FlattenSeq(<<x>>) \o FlattenSeq(<<y>>)
  BY <1>2, FlattenConcat
<1> QED
  BY <1>1, <1>2, <1>3

(* What one of its parts holds a flattened sequence holds.                 *)
LEMMA FlattenedHolds ==
  ASSUME NEW S, NEW seqs \in Seq(Seq(S)), NEW part \in DOMAIN seqs, NEW m \in Range(seqs[part])
  PROVE  m \in Range(FlattenSeq(seqs))
<1>1. Len(seqs) \in Nat /\ DOMAIN seqs = 1..Len(seqs) /\ seqs # <<>> /\ \A i \in 1..Len(seqs) : seqs[i] \in Seq(S)
  OBVIOUS
<1>2. PICK f \in [1..Len(seqs) -> Seq(S)] : FlattenSeq(seqs) = f[Len(seqs)] /\ Appends(f, seqs)
  BY <1>1, FlattenedParts
<1> DEFINE U == {k \in part..Len(seqs) : m \notin Range(f[k])}
<1>3. U = {}
  <2> SUFFICES ASSUME U # {} PROVE FALSE
    OBVIOUS
  <2>1. PICK k \in U : \A j \in U : k <= j
    <3>1. U \subseteq Nat
      BY <1>1
    <3> HIDE DEF U
    <3> QED
      BY <3>1, LeastNatural
  <2>2. k \in 1..Len(seqs) /\ part <= k /\ part >= 1 /\ m \notin Range(f[k])
    BY <1>1
  <2>3. CASE k = 1
    <3>1. f[k] = seqs[part]
      BY <1>1, <1>2, <2>2, <2>3 DEF Appends
    <3> QED
      BY <2>2, <3>1
  <2>4. CASE k # 1
    <3>1. k \in 2..Len(seqs) /\ k - 1 \in 1..Len(seqs)
      BY <1>1, <2>2, <2>4
    <3>2. f[k] = f[k - 1] \o seqs[k] /\ f[k - 1] \in Seq(S) /\ seqs[k] \in Seq(S)
      <4>1. \A i \in 2..Len(seqs) : f[i] = f[i - 1] \o seqs[i]
        BY <1>2 DEF Appends
      <4>2. f[k - 1] \in Seq(S) /\ seqs[k] \in Seq(S)
        BY <1>1, <1>2, <2>2, <3>1
      <4> QED
        BY <3>1, <4>1, <4>2
    <3>3. Range(f[k]) = Range(f[k - 1]) \cup Range(seqs[k])
      BY <3>2, RangeConcatenation
    <3>4. part # k
      BY <2>2, <3>3
    <3>5. k - 1 \in part..Len(seqs) /\ k - 1 < k
      BY <1>1, <2>2, <3>1, <3>4
    <3>6. k - 1 \in U
      BY <2>2, <3>3, <3>5
    <3> HIDE DEF U
    <3> QED
      BY <1>1, <2>1, <2>2, <3>5, <3>6
  <2> QED
    BY <2>3, <2>4
<1>4. Len(seqs) \in part..Len(seqs)
  BY <1>1
<1> QED
  BY <1>2, <1>3, <1>4

(* The least of some numbers.                                              *)
LEMMA LeastIs ==
  ASSUME NEW I \in SUBSET Nat, I # {} PROVE Min(I) \in I /\ \A j \in I : Min(I) <= j
<1>1. PICK k \in I : \A j \in I : k <= j
  BY LeastNatural
<1> QED
  BY <1>1 DEF Min

(* Some numbers with a bound have a greatest.                              *)
LEMMA BoundedGreatest ==
  ASSUME NEW K, K \subseteq Nat, K # {}, NEW b \in Nat, \A x \in K : x <= b
  PROVE  \E x \in K : \A y \in K : y <= x
<1> DEFINE U == {b - x : x \in K}
<1>1. U \subseteq Nat /\ U # {}
  <2>1. \A x \in K : x \in Nat /\ x <= b
    OBVIOUS
  <2>2. \A x \in K : b - x \in Nat
    BY <2>1
  <2> QED
    BY <2>2
<1>2. PICK u \in U : \A y \in U : u <= y
  <2> HIDE DEF U
  <2> QED
    BY <1>1, LeastNatural
<1>3. PICK x \in K : u = b - x
  OBVIOUS
<1>4. ASSUME NEW y \in K PROVE y <= x
  <2>1. b - x <= b - y /\ x \in Nat /\ y \in Nat
    BY <1>2, <1>3
  <2> QED
    BY <2>1
<1> QED
  BY <1>4

(* Each element of a set in one of n places.                               *)
Enumerates(f, S, n) ==
  /\ f \in [1..n -> S] /\ \A i, j \in 1..n : f[i] = f[j] => i = j
  /\ \A x \in S : \E i \in 1..n : f[i] = x

(* So does SetToSeq with a finite set.                                     *)
LEMMA InSomeOrder ==
  ASSUME NEW S, IsFiniteSet(S)
  PROVE  \E n \in Nat : n = Cardinality(S) /\ Enumerates(SetToSeq(S), S, n)
<1>1. PICK n \in Nat : n = Cardinality(S) /\ IsFiniteSet(1..n) /\ Cardinality(1..n) = n
  BY FS_CardinalityType, FS_Interval
<1>2. \E f \in [1..n -> S] : IsInjective(f)
  <2>1. ExistsBijection(1..n, S)
    BY <1>1, FS_CardinalityType
  <2>2. PICK f : f \in Bijection(1..n, S)
    BY <2>1 DEF ExistsBijection
  <2>3. f \in [1..n -> S] /\ IsInjective(f)
    BY <2>2 DEF Bijection, Injection, IsInjective
  <2> QED
    BY <2>3
<1>3. PICK order : order = SetToSeq(S)
  OBVIOUS
<1>4. order \in [1..n -> S] /\ IsInjective(order)
  BY <1>1, <1>2, <1>3 DEF SetToSeq
<1>5. order \in Injection(1..n, S)
  BY <1>4 DEF Injection, IsInjective
<1>6. order \in Surjection(1..n, S)
  BY <1>1, <1>5, FS_Injection
<1> QED
  BY <1>1, <1>3, <1>4, <1>6 DEF Surjection, IsInjective, Enumerates

(* An order of a set: a sequence of each of its elements once.             *)
LEMMA OrderOf ==
  ASSUME NEW S, IsFiniteSet(S), NEW p \in SetToSeqs(S)
  PROVE  \E n \in Nat : /\ n = Cardinality(S) /\ Len(p) = n /\ DOMAIN p = 1..n /\ p \in [1..n -> S]
                        /\ \A i, j \in 1..n : p[i] = p[j] => i = j
                        /\ \A x \in S : \E i \in 1..n : p[i] = x
<1>1. PICK n \in Nat : n = Cardinality(S)
  BY FS_CardinalityType
<1>2. p \in [1..n -> S] /\ \A i, j \in 1..n : p[i] = p[j] => i = j
  BY <1>1 DEF SetToSeqs
<1>3. p \in Injection(1..n, S)
  BY <1>2 DEF Injection, IsInjective
<1>4. p \in Surjection(1..n, S)
  BY <1>1, <1>3, FS_Injection, FS_Interval
<1>5. Len(p) = n
  BY <1>2
<1> QED
  BY <1>1, <1>2, <1>4, <1>5 DEF Surjection

(* An order, given as the set of its pairs, that tells all elements apart. *)
StrictOrder(R, S) ==
  /\ \A x \in S : <<x, x>> \notin R
  /\ \A x, y \in S : x # y => <<x, y>> \in R \/ <<y, x>> \in R
  /\ \A x, y, z \in S : <<x, y>> \in R /\ <<y, z>> \in R => <<x, z>> \in R

(* The elements of any finite set can be put in such an order: each goes   *)
(* where the number of those before it says.                               *)
LEMMA Sortable ==
  ASSUME NEW S, IsFiniteSet(S), NEW R, StrictOrder(R, S)
  PROVE  \E q \in SetToSeqs(S) : \A i, j \in DOMAIN q : i < j => <<q[i], q[j]>> \in R
<1>0. PICK n \in Nat : n = Cardinality(S)
  BY FS_CardinalityType
<1> DEFINE D == 1..n
           below(x) == {y \in S : <<y, x>> \in R}
           pos == [x \in S |-> Cardinality(below(x)) + 1]
<1>1. IsFiniteSet(D) /\ Cardinality(D) = n
  BY FS_Interval
<1>3. ASSUME NEW x \in S
      PROVE  IsFiniteSet(below(x)) /\ Cardinality(below(x)) \in 0..(n - 1)
  <2>1. below(x) \in SUBSET (S \ {x})
    BY DEF StrictOrder
  <2>2. IsFiniteSet(S \ {x}) /\ Cardinality(S \ {x}) = n - 1
    BY <1>0, FS_RemoveElement
  <2> HIDE DEF below
  <2>3. IsFiniteSet(below(x)) /\ Cardinality(below(x)) <= n - 1
    BY <2>1, <2>2, FS_Subset
  <2>4. Cardinality(below(x)) \in Nat
    BY <2>3, FS_CardinalityType
  <2> QED
    BY <2>3, <2>4
<1>4. ASSUME NEW x \in S, NEW y \in S, <<x, y>> \in R PROVE pos[x] < pos[y]
  <2>1. below(x) \in SUBSET below(y) /\ x \in below(y) /\ x \notin below(x)
    BY <1>4 DEF StrictOrder
  <2>2. below(x) # below(y)
    BY <2>1
  <2> HIDE DEF below
  <2>3. Cardinality(below(x)) <= Cardinality(below(y)) /\ Cardinality(below(x)) # Cardinality(below(y))
    BY <1>3, <2>1, <2>2, FS_Subset
  <2>4. Cardinality(below(x)) \in Nat /\ Cardinality(below(y)) \in Nat
    BY <1>3
  <2> QED
    BY <2>3, <2>4
<1>5. pos \in [S -> D]
  <2> HIDE DEF below
  <2>1. ASSUME NEW x \in S PROVE Cardinality(below(x)) + 1 \in 1..n
    BY <1>0, <1>3
  <2> QED
    BY <2>1
<1> HIDE DEF pos
<1>6. ASSUME NEW x \in S, NEW y \in S, x # y PROVE pos[x] # pos[y]
  <2>1. <<x, y>> \in R \/ <<y, x>> \in R
    BY <1>6 DEF StrictOrder
  <2>2. pos[x] \in Nat /\ pos[y] \in Nat
    BY <1>5
  <2> QED
    BY <1>4, <2>1, <2>2
<1>7. pos \in Injection(S, D)
  BY <1>5, <1>6 DEF Injection, IsInjective
<1>8. pos \in Surjection(S, D)
  BY <1>0, <1>1, <1>7, FS_Injection
<1> DEFINE q == [k \in D |-> CHOOSE x \in S : pos[x] = k]
<1>9. ASSUME NEW k \in D PROVE q[k] \in S /\ pos[q[k]] = k
  BY <1>8 DEF Surjection
<1>10. q \in [D -> S]
  BY <1>9
<1> HIDE DEF q
<1>11. q \in SetToSeqs(S)
  BY <1>0, <1>9, <1>10 DEF SetToSeqs
<1>12. ASSUME NEW i \in D, NEW j \in D, i < j PROVE <<q[i], q[j]>> \in R
  <2>1. q[i] \in S /\ q[j] \in S /\ pos[q[i]] = i /\ pos[q[j]] = j
    BY <1>9
  <2>2. q[i] # q[j] /\ ~(pos[q[j]] < pos[q[i]])
    BY <1>12, <2>1
  <2> QED
    BY <1>4, <2>1, <2>2 DEF StrictOrder
<1> QED
  BY <1>10, <1>11, <1>12

(* There is a first.                                                       *)
LEMMA FirstPlace ==
  ASSUME NEW S, IsFiniteSet(S), S # {}, NEW R, StrictOrder(R, S)
  PROVE  \E x \in S : \A y \in S : y = x \/ <<x, y>> \in R
<1>1. PICK q \in SetToSeqs(S) : \A i, j \in DOMAIN q : i < j => <<q[i], q[j]>> \in R
  BY Sortable
<1>2. PICK n \in Nat : /\ n = Cardinality(S) /\ DOMAIN q = 1..n /\ q \in [1..n -> S]
                       /\ \A x \in S : \E i \in 1..n : q[i] = x
  BY OrderOf
<1>3. 1 \in 1..n
  BY <1>2
<1>4. ASSUME NEW y \in S PROVE y = q[1] \/ <<q[1], y>> \in R
  <2>1. PICK i \in 1..n : q[i] = y
    BY <1>2
  <2>2. i = 1 \/ 1 < i
    OBVIOUS
  <2> QED
    BY <1>1, <1>2, <1>3, <2>1, <2>2
<1>5. q[1] \in S
  BY <1>2, <1>3
<1> QED
  BY <1>4, <1>5
=============================================================================
