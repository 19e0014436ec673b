------------------------------ MODULE DataFacts ------------------------------
(***************************************************************************)
(* What the proofs about pages and about the two map tools need of data:   *)
(* division with remainder; induction over the natural numbers and over    *)
(* finite sets, stated with sets in place of predicates; what a recursive  *)
(* function computes; sums over finite sets; what run-length compression   *)
(* makes of an array; and sequences given by their elements.               *)
(***************************************************************************)
EXTENDS RunLength, FiniteSetTheorems, SequenceTheorems, FiniteSetsExt, TLAPS

-------------------------------------------------------------------------------
(* Quotient and remainder, as TLA+ defines them. *)
LEMMA DivMod ==
  ASSUME NEW a \in Nat, NEW n \in Nat \ {0}
  PROVE  /\ a \div n \in Nat
         /\ a % n \in 0..(n - 1)
         /\ a = (a \div n) * n + (a % n)
<1>1. a \div n \in Int /\ a % n \in 0..(n - 1)
  BY SMTT(30)
<1>2. a = n * (a \div n) + (a % n)
  BY SMTT(30)
<1>3. n * (a \div n) = (a \div n) * n
  BY <1>1, SMTT(30)
<1>4. a \div n >= 0
  BY SMTT(30)
<1> QED BY <1>1, <1>2, <1>3, <1>4

(* They are the only ones. *)
LEMMA DivModUnique ==
  ASSUME NEW q \in Nat, NEW n \in Nat \ {0}, NEW r \in 0..(n - 1)
  PROVE  (q * n + r) \div n = q /\ (q * n + r) % n = r
<1> DEFINE a == q * n + r
           d == a \div n
           m == a % n
<1>1. q * n \in Nat /\ a \in Nat
  BY SMTT(30)
<1>2. d \in Nat /\ m \in 0..(n - 1) /\ a = d * n + m
  BY <1>1, DivMod
<1>3. q * n + r = d * n + m
  BY <1>2
<1> HIDE DEF a, d, m
<1>4. ~(d < q)
  <2> SUFFICES ASSUME d < q PROVE FALSE
    OBVIOUS
  <2>1. d + 1 <= q
    BY <1>2
  <2>2. (d + 1) * n <= q * n
    BY <1>2, <2>1, SMTT(30)
  <2>3. (d + 1) * n = d * n + n /\ d * n \in Nat
    BY <1>2, SMTT(30)
  <2> QED BY <1>1, <1>2, <1>3, <2>2, <2>3
<1>5. ~(q < d)
  <2> SUFFICES ASSUME q < d PROVE FALSE
    OBVIOUS
  <2>1. q + 1 <= d
    BY <1>2
  <2>2. (q + 1) * n <= d * n
    BY <1>2, <2>1, SMTT(30)
  <2>3. (q + 1) * n = q * n + n /\ d * n \in Nat
    BY <1>2, SMTT(30)
  <2> QED BY <1>1, <1>2, <1>3, <2>2, <2>3
<1>6. d = q
  BY <1>2, <1>4, <1>5
<1>7. m = r
  BY <1>1, <1>2, <1>3, <1>6
<1> QED BY <1>6, <1>7 DEF a, d, m

-------------------------------------------------------------------------------
(* Induction over finite sets: a family that has the empty set, and with a *)
(* part of S that part and one more element, has S.  No set is the least   *)
(* one outside the family.                                                 *)
LEMMA SetInduction ==
  ASSUME NEW S, IsFiniteSet(S), NEW F, {} \in F,
         \A T \in SUBSET S : \A x \in S \ T : T \in F => T \cup {x} \in F
  PROVE  S \in F
<1> SUFFICES ASSUME S \notin F PROVE FALSE
  OBVIOUS
<1> DEFINE Others == {T \in SUBSET S : T \notin F}
<1>1. S \in Others /\ Others # {}
  OBVIOUS
<1>2. Others \subseteq FiniteSubsetsOf(S)
  BY FS_FiniteSubsetsOfFinite
<1>3. PICK T \in Others : \A U \in Others : ~ (<<U, T>> \in StrictSubsetOrdering(S))
  <2> HIDE DEF Others
  <2> QED BY <1>1, <1>2, FS_StrictSubsetOrderingWellFounded, WFMin
<1>4. PICK x : x \in T
  BY <1>3
<1>5. T \ {x} \in SUBSET S /\ x \in S \ (T \ {x})
  BY <1>3, <1>4
<1>6. <<T \ {x}, T>> \in StrictSubsetOrdering(S)
  BY <1>3, <1>4 DEF StrictSubsetOrdering
<1>7. T \ {x} \in F
  BY <1>3, <1>5, <1>6
<1>8. (T \ {x}) \cup {x} \in F
  BY <1>5, <1>7
<1>9. (T \ {x}) \cup {x} = T
  BY <1>4
<1> QED BY <1>3, <1>8, <1>9

(* Induction over the numbers up to N, and over all of them.               *)
LEMMA UpTo ==
  ASSUME NEW N \in Nat, NEW P, 0 \in P, \A n \in 0..(N - 1) : n \in P => n + 1 \in P
  PROVE  0..N \subseteq P
<1> SUFFICES ASSUME NEW k \in 0..N, k \notin P PROVE FALSE
  OBVIOUS
<1> DEFINE Others == {T \in SUBSET (1..N) : \E n \in 0..N : n \notin P /\ T = 1..n}
<1>1. 1..k \in Others
  OBVIOUS
<1>2. IsFiniteSet(1..N)
  BY FS_Interval
<1>3. Others \subseteq FiniteSubsetsOf(1..N) /\ Others # {}
  BY <1>1, <1>2, FS_FiniteSubsetsOfFinite
<1>4. PICK T \in Others : \A U \in Others : ~ (<<U, T>> \in StrictSubsetOrdering(1..N))
  <2> HIDE DEF Others
  <2> QED BY <1>3, FS_StrictSubsetOrderingWellFounded, WFMin
<1>5. PICK n \in 0..N : n \notin P /\ T = 1..n
  BY <1>4
<1>6. n # 0 /\ n - 1 \in 0..(N - 1) /\ n - 1 \notin P
  BY <1>5
<1>7. 1..(n - 1) \in Others
  BY <1>6
<1>8. <<1..(n - 1), T>> \in StrictSubsetOrdering(1..N)
  <2>1. n \in T /\ n \notin 1..(n - 1) /\ 1..(n - 1) \subseteq T
    BY <1>5, <1>6
  <2> QED BY <1>4, <1>7, <2>1 DEF StrictSubsetOrdering
<1> QED BY <1>4, <1>7, <1>8

LEMMA NatInduct ==
  ASSUME NEW P, 0 \in P, \A n \in Nat : n \in P => n + 1 \in P
  PROVE  Nat \subseteq P
<1> SUFFICES ASSUME NEW k \in Nat PROVE k \in P
  OBVIOUS
<1>1. 0..k \subseteq P
  BY UpTo
<1> QED BY <1>1

-------------------------------------------------------------------------------
(* A function that is defined from its value one place before exists.      *)
Recurs(h, N, A, e, g) == /\ h \in [0..N -> A] /\ h[0] = e
                         /\ \A i \in 1..N : h[i] = g[<<h[i - 1], i>>]

LEMMA Recursion ==
  ASSUME NEW N \in Nat, NEW A, NEW e \in A, NEW g \in [A \X (1..N) -> A]
  PROVE  \E h : Recurs(h, N, A, e, g)
<1> DEFINE Good(n, h) == h[0] = e /\ \A i \in 1..n : h[i] = g[<<h[i - 1], i>>]
           P == {n \in 0..N : \E h \in [0..N -> A] : Good(n, h)}
<1>1. 0 \in P
  <2>1. [i \in 0..N |-> e] \in [0..N -> A] /\ Good(0, [i \in 0..N |-> e])
    OBVIOUS
  <2>2. \E h \in [0..N -> A] : Good(0, h)
    BY <2>1
  <2> HIDE DEF Good
  <2> QED BY <2>2
<1>2. ASSUME NEW n \in 0..(N - 1), n \in P
      PROVE  n + 1 \in P
  <2>1. PICK h \in [0..N -> A] : Good(n, h)
    BY <1>2
  <2>2. g[<<h[n], n + 1>>] \in A /\ n + 1 \in 1..N
    OBVIOUS
  <2> DEFINE k == [h EXCEPT ![n + 1] = g[<<h[n], n + 1>>]]
  <2>3. k \in [0..N -> A]
    BY <2>2
  <2>4. k[0] = e
    BY <2>1
  <2>5. ASSUME NEW i \in 1..(n + 1)
        PROVE  k[i] = g[<<k[i - 1], i>>]
    <3>1. CASE i = n + 1
      <4>1. k[i - 1] = h[n] /\ k[i] = g[<<h[n], n + 1>>]
        BY <3>1
      <4> QED BY <4>1, <3>1
    <3>2. CASE i # n + 1
      <4>1. i \in 1..n /\ i - 1 # n + 1 /\ i - 1 \in 0..N /\ i \in 0..N
        BY <3>2
      <4>2. k[i - 1] = h[i - 1] /\ k[i] = h[i]
        BY <4>1, <3>2
      <4> QED BY <4>1, <4>2, <2>1
    <3> QED BY <3>1, <3>2
  <2> HIDE DEF k
  <2> QED BY <2>3, <2>4, <2>5
<1> HIDE DEF P
<1>3. 0..N \subseteq P
  BY <1>1, <1>2, UpTo
<1>4. N \in P
  BY <1>3
<1>5. PICK h \in [0..N -> A] : Good(N, h)
  BY <1>4 DEF P
<1>6. Recurs(h, N, A, e, g)
  BY <1>5 DEF Recurs
<1> QED BY <1>6
-------------------------------------------------------------------------------
(* SumFunctionOnSet(f, S), the sum of f[x] over the elements of a finite   *)
(* set S, as the library defines it: one element after the other.          *)
Pick(s) == CHOOSE x \in s : TRUE
Unfolds(f, h, S) ==
  \A s \in SUBSET S : h[s] = IF s = {} THEN 0 ELSE f[Pick(s)] + h[s \ {Pick(s)}]

LEMMA SumUnfolds ==
  ASSUME NEW f, NEW S, IsFiniteSet(S), \A x \in S : f[x] \in Int
  PROVE  \E h \in [SUBSET S -> Int] : SumFunctionOnSet(f, S) = h[S] /\ Unfolds(f, h, S)
<1> DEFINE Def(h, s) == IF s = {} THEN 0 ELSE f[Pick(s)] + h[s \ {Pick(s)}]
           P == {n \in Nat : \E h \in [SUBSET S -> Int] :
                               \A s \in SUBSET S : Cardinality(s) <= n => h[s] = Def(h, s)}
<1>0. \A s \in SUBSET S : Cardinality(s) \in Nat
  BY FS_Subset, FS_CardinalityType
<1>1. ASSUME NEW s \in SUBSET S
      PROVE  /\ IsFiniteSet(s) /\ Cardinality(s) \in Nat
             /\ Cardinality(s) = 0 => s = {}
             /\ s # {} => /\ Pick(s) \in s /\ s \ {Pick(s)} \in SUBSET S
                         /\ f[Pick(s)] \in Int
                         /\ Cardinality(s \ {Pick(s)}) = Cardinality(s) - 1
  <2>1. IsFiniteSet(s) /\ Cardinality(s) \in Nat
    BY FS_Subset, FS_CardinalityType
  <2>2. Cardinality(s) = 0 => s = {}
    BY <2>1, FS_EmptySet
  <2>3. s # {} => Pick(s) \in s
    BY DEF Pick
  <2>4. s # {} => Cardinality(s \ {Pick(s)}) = Cardinality(s) - 1
    BY <2>1, <2>3, FS_RemoveElement
  <2> QED BY <2>1, <2>2, <2>3, <2>4
<1>2. 0 \in P
  <2>1. [s \in SUBSET S |-> 0] \in [SUBSET S -> Int]
    OBVIOUS
  <2>2. ASSUME NEW s \in SUBSET S, Cardinality(s) <= 0
        PROVE  [t \in SUBSET S |-> 0][s] = Def([t \in SUBSET S |-> 0], s)
    <3>1. Cardinality(s) = 0
      BY <1>0, <2>2
    <3>2. s = {}
      BY <1>1, <3>1
    <3> QED BY <3>2
  <2> HIDE DEF Def
  <2> QED BY <2>1, <2>2
<1>3. ASSUME NEW n \in Nat, n \in P
      PROVE  n + 1 \in P
  <2>1. PICK h \in [SUBSET S -> Int] :
          \A s \in SUBSET S : Cardinality(s) <= n => h[s] = Def(h, s)
    BY <1>3
  <2> DEFINE k == [s \in SUBSET S |-> IF Cardinality(s) <= n THEN h[s] ELSE Def(h, s)]
  <2>2. ASSUME NEW s \in SUBSET S PROVE Def(h, s) \in Int
    <3>1. CASE s = {}
      BY <3>1
    <3>2. CASE s # {}
      <4>1. f[Pick(s)] \in Int /\ h[s \ {Pick(s)}] \in Int
        BY <1>1, <3>2
      <4> QED BY <3>2, <4>1
    <3> QED BY <3>1, <3>2
  <2>3. k \in [SUBSET S -> Int]
    <3> HIDE DEF Def
    <3> QED BY <2>2
  <2>4. ASSUME NEW s \in SUBSET S, Cardinality(s) <= n + 1
        PROVE  k[s] = Def(k, s)
    <3>1. CASE s = {}
      <4>1. Cardinality(s) = 0
        BY <3>1, FS_EmptySet
      <4> QED BY <4>1, <3>1, <2>1
    <3>2. CASE s # {}
      <4>1. Cardinality(s \ {Pick(s)}) <= n /\ s \ {Pick(s)} \in SUBSET S
        BY <1>1, <2>4, <3>2
      <4>2. k[s \ {Pick(s)}] = h[s \ {Pick(s)}]
        BY <4>1
      <4>3. Def(k, s) = Def(h, s)
        <5> HIDE DEF k
        <5> QED BY <3>2, <4>2
      <4>4. k[s] = Def(h, s)
        <5> HIDE DEF Def
        <5> QED BY <2>1
      <4> QED BY <4>3, <4>4
    <3> QED BY <3>1, <3>2
  <2> HIDE DEF k, Def
  <2> QED BY <2>3, <2>4
<1>4. Nat \subseteq P
  <2> HIDE DEF P
  <2> QED BY <1>2, <1>3, NatInduct
<1>5. Cardinality(S) \in P
  BY <1>1, <1>4
<1>6. PICK h \in [SUBSET S -> Int] :
        \A s \in SUBSET S : Cardinality(s) <= Cardinality(S) => h[s] = Def(h, s)
  BY <1>5
<1>7. \A s \in SUBSET S : h[s] = Def(h, s)
  <2> HIDE DEF Def
  <2> QED BY <1>6, FS_Subset
<1> DEFINE iter == CHOOSE g : g = [s \in SUBSET S |-> IF s = {} THEN 0
                     ELSE LET x == CHOOSE y \in s : TRUE IN f[x] + g[s \ {x}]]
<1>8. h = [s \in SUBSET S |-> IF s = {} THEN 0
                     ELSE LET x == CHOOSE y \in s : TRUE IN f[x] + h[s \ {x}]]
  BY <1>7 DEF Pick
<1>9. iter = [s \in SUBSET S |-> IF s = {} THEN 0
                     ELSE LET x == CHOOSE y \in s : TRUE IN f[x] + iter[s \ {x}]]
  BY <1>8
<1>10. SumFunctionOnSet(f, S) = iter[S]
  BY DEF SumFunctionOnSet, FoldFunctionOnSet, MapThenFoldSet
<1> HIDE DEF iter
<1> DEFINE Q == {n \in Nat : \A s \in SUBSET S : Cardinality(s) <= n => iter[s] = h[s]}
<1>11. 0 \in Q
  <2> SUFFICES ASSUME NEW s \in SUBSET S, Cardinality(s) <= 0 PROVE iter[s] = h[s]
    OBVIOUS
  <2>1. Cardinality(s) = 0
    BY <1>0
  <2>2. s = {}
    BY <1>1, <2>1
  <2> QED BY <1>8, <1>9, <2>2
<1>12. ASSUME NEW n \in Nat, n \in Q
       PROVE  n + 1 \in Q
  <2> SUFFICES ASSUME NEW s \in SUBSET S, Cardinality(s) <= n + 1 PROVE iter[s] = h[s]
    OBVIOUS
  <2>1. CASE s = {}
    BY <1>8, <1>9, <2>1
  <2>2. CASE s # {}
    <3>1. Cardinality(s \ {Pick(s)}) <= n /\ s \ {Pick(s)} \in SUBSET S
      <4> HIDE DEF Def
      <4> QED BY <1>1, <2>2
    <3>2. iter[s \ {Pick(s)}] = h[s \ {Pick(s)}]
      BY <1>12, <3>1
    <3>3. iter[s] = f[Pick(s)] + iter[s \ {Pick(s)}]
      BY <1>9, <2>2 DEF Pick
    <3>4. h[s] = f[Pick(s)] + h[s \ {Pick(s)}]
      BY <1>7, <2>2
    <3> QED BY <3>2, <3>3, <3>4
  <2> QED BY <2>1, <2>2
<1>13. Nat \subseteq Q
  <2> HIDE DEF Q
  <2> QED BY <1>11, <1>12, NatInduct
<1>14. Cardinality(S) \in Nat /\ Cardinality(S) \in Q
  <2> HIDE DEF Q
  <2> QED BY <1>0, <1>13
<1>15. iter[S] = h[S]
  BY <1>14
<1> HIDE DEF Q
<1> QED BY <1>7, <1>10, <1>15 DEF Unfolds

(* Two such functions agree where both are defined.                        *)
LEMMA SumsAgree ==
  ASSUME NEW f, NEW S, IsFiniteSet(S), NEW T \in SUBSET S, NEW h, NEW k,
         Unfolds(f, h, S), Unfolds(f, k, T)
  PROVE  \A s \in SUBSET T : h[s] = k[s]
<1> DEFINE Q == {n \in Nat : \A s \in SUBSET T : Cardinality(s) <= n => h[s] = k[s]}
<1>1. ASSUME NEW s \in SUBSET T
      PROVE  /\ IsFiniteSet(s) /\ Cardinality(s) \in Nat /\ s \in SUBSET S
             /\ s # {} => /\ Pick(s) \in s /\ s \ {Pick(s)} \in SUBSET T
                         /\ Cardinality(s \ {Pick(s)}) = Cardinality(s) - 1
  <2>1. IsFiniteSet(s) /\ Cardinality(s) \in Nat /\ s \in SUBSET S
    BY FS_Subset, FS_CardinalityType
  <2>2. s # {} => Pick(s) \in s
    BY DEF Pick
  <2>3. s # {} => Cardinality(s \ {Pick(s)}) = Cardinality(s) - 1
    BY <2>1, <2>2, FS_RemoveElement
  <2> QED BY <2>1, <2>2, <2>3
<1>2. ASSUME NEW s \in SUBSET T, s # {} => h[s \ {Pick(s)}] = k[s \ {Pick(s)}]
      PROVE  h[s] = k[s]
  BY <1>1, <1>2 DEF Unfolds
<1>3. 0 \in Q
  <2> SUFFICES ASSUME NEW s \in SUBSET T, Cardinality(s) <= 0 PROVE h[s] = k[s]
    OBVIOUS
  <2>1. IsFiniteSet(s) /\ Cardinality(s) \in Nat
    BY <1>1
  <2>2. Cardinality(s) = 0
    BY <2>1
  <2>3. s = {}
    BY <2>1, <2>2, FS_EmptySet
  <2> QED BY <1>2, <2>3
<1>4. ASSUME NEW n \in Nat, n \in Q
      PROVE  n + 1 \in Q
  <2> SUFFICES ASSUME NEW s \in SUBSET T, Cardinality(s) <= n + 1 PROVE h[s] = k[s]
    OBVIOUS
  <2>1. ASSUME s # {} PROVE h[s \ {Pick(s)}] = k[s \ {Pick(s)}]
    <3>1. Cardinality(s \ {Pick(s)}) <= n /\ s \ {Pick(s)} \in SUBSET T
      BY <1>1, <2>1
    <3> QED BY <1>4, <3>1
  <2> QED BY <1>2, <2>1
<1>5. Nat \subseteq Q
  <2> HIDE DEF Q
  <2> QED BY <1>3, <1>4, NatInduct
<1>6. ASSUME NEW s \in SUBSET T PROVE h[s] = k[s]
  <2>1. Cardinality(s) \in Nat /\ Cardinality(s) \in Q
    <3> HIDE DEF Q
    <3> QED BY <1>1, <1>5
  <2> QED BY <2>1
<1> QED BY <1>6

LEMMA SumStep ==
  ASSUME NEW f, NEW S, IsFiniteSet(S), \A x \in S : f[x] \in Int
  PROVE  /\ SumFunctionOnSet(f, S) \in Int
         /\ S = {} => SumFunctionOnSet(f, S) = 0
         /\ S # {} => /\ Pick(S) \in S
                     /\ SumFunctionOnSet(f, S)
                          = f[Pick(S)] + SumFunctionOnSet(f, S \ {Pick(S)})
<1>1. PICK h \in [SUBSET S -> Int] : SumFunctionOnSet(f, S) = h[S] /\ Unfolds(f, h, S)
  BY SumUnfolds
<1>2. SumFunctionOnSet(f, S) \in Int /\ (S = {} => SumFunctionOnSet(f, S) = 0)
  BY <1>1 DEF Unfolds
<1>3. ASSUME S # {}
      PROVE  Pick(S) \in S /\ SumFunctionOnSet(f, S)
                               = f[Pick(S)] + SumFunctionOnSet(f, S \ {Pick(S)})
  <2> DEFINE T == S \ {Pick(S)}
  <2>1. Pick(S) \in S
    BY <1>3 DEF Pick
  <2>2. T \in SUBSET S /\ IsFiniteSet(T) /\ \A x \in T : f[x] \in Int
    BY FS_Subset
  <2>3. PICK k \in [SUBSET T -> Int] : SumFunctionOnSet(f, T) = k[T] /\ Unfolds(f, k, T)
    <3> HIDE DEF T
    <3> QED BY <2>2, SumUnfolds
  <2>4. h[T] = k[T]
    <3> HIDE DEF T
    <3>1. \A s \in SUBSET T : h[s] = k[s]
      BY <1>1, <2>2, <2>3, SumsAgree
    <3> QED BY <3>1
  <2>5. h[S] = f[Pick(S)] + h[T]
    BY <1>1, <1>3 DEF Unfolds
  <2> QED BY <1>1, <2>1, <2>3, <2>4, <2>5
<1> QED BY <1>2, <1>3

(* The order does not matter: any element may be taken first.              *)
LEMMA SumTakes ==
  ASSUME NEW f, NEW S, IsFiniteSet(S), \A x \in S : f[x] \in Int, NEW x \in S
  PROVE  SumFunctionOnSet(f, S) = f[x] + SumFunctionOnSet(f, S \ {x})
<1> DEFINE Sum(s) == SumFunctionOnSet(f, s)
           Q == {n \in Nat : \A s \in SUBSET S : \A y \in s :
                               Cardinality(s) <= n => Sum(s) = f[y] + Sum(s \ {y})}
<1>1. ASSUME NEW s \in SUBSET S
      PROVE  /\ IsFiniteSet(s) /\ Cardinality(s) \in Nat /\ (Cardinality(s) = 0 => s = {})
             /\ Sum(s) \in Int /\ \A y \in s : f[y] \in Int
             /\ \A y \in s : Cardinality(s \ {y}) = Cardinality(s) - 1 /\ s \ {y} \in SUBSET S
             /\ s # {} => Pick(s) \in s /\ Sum(s) = f[Pick(s)] + Sum(s \ {Pick(s)})
  <2>1. IsFiniteSet(s) /\ Cardinality(s) \in Nat /\ \A y \in s : f[y] \in Int
    BY FS_Subset, FS_CardinalityType
  <2>2. Cardinality(s) = 0 => s = {}
    BY <2>1, FS_EmptySet
  <2>3. \A y \in s : Cardinality(s \ {y}) = Cardinality(s) - 1
    BY <2>1, FS_RemoveElement
  <2>4. /\ Sum(s) \in Int
        /\ s # {} => Pick(s) \in s /\ Sum(s) = f[Pick(s)] + Sum(s \ {Pick(s)})
    BY <2>1, SumStep
  <2> QED BY <2>1, <2>2, <2>3, <2>4
<1> HIDE DEF Sum
<1>2. 0 \in Q
  <2> SUFFICES ASSUME NEW s \in SUBSET S, NEW y \in s, Cardinality(s) <= 0
               PROVE  FALSE
    OBVIOUS
  <2>1. Cardinality(s) \in Nat
    BY <1>1
  <2>2. Cardinality(s) = 0
    BY <2>1
  <2> QED BY <1>1, <2>2
<1>3. ASSUME NEW n \in Nat, n \in Q
      PROVE  n + 1 \in Q
  <2> SUFFICES ASSUME NEW s \in SUBSET S, NEW y \in s, Cardinality(s) <= n + 1
               PROVE  Sum(s) = f[y] + Sum(s \ {y})
    OBVIOUS
  <2> DEFINE p == Pick(s)
  <2>1. p \in s /\ Sum(s) = f[p] + Sum(s \ {p})
    BY <1>1
  <2> HIDE DEF p
  <2>2. CASE y = p
    BY <2>1, <2>2
  <2>3. CASE y # p
    <3>1. /\ s \ {p} \in SUBSET S /\ Cardinality(s \ {p}) <= n /\ y \in s \ {p}
          /\ s \ {y} \in SUBSET S /\ Cardinality(s \ {y}) <= n /\ p \in s \ {y}
      <4>1. Cardinality(s) \in Nat /\ Cardinality(s) - 1 <= n
        <5>1. Cardinality(s) \in Nat
          BY <1>1
        <5> QED BY <5>1
      <4>2. \A q \in s : Cardinality(s \ {q}) = Cardinality(s) - 1 /\ s \ {q} \in SUBSET S
        BY <1>1
      <4>3. \A q \in s : Cardinality(s \ {q}) <= n /\ s \ {q} \in SUBSET S
        BY <4>1, <4>2
      <4> QED BY <4>3, <2>1, <2>3
    <3>2. Sum(s \ {p}) = f[y] + Sum((s \ {p}) \ {y})
      BY <1>3, <3>1
    <3>3. Sum(s \ {y}) = f[p] + Sum((s \ {y}) \ {p})
      BY <1>3, <3>1
    <3>4. (s \ {p}) \ {y} = (s \ {y}) \ {p} /\ (s \ {p}) \ {y} \in SUBSET S
      BY <3>1
    <3>5. f[y] \in Int /\ f[p] \in Int /\ Sum((s \ {p}) \ {y}) \in Int
      BY <1>1, <2>1, <3>4
    <3> DEFINE r == Sum((s \ {p}) \ {y})
    <3>6. /\ Sum(s) = f[p] + Sum(s \ {p}) /\ Sum(s \ {p}) = f[y] + r
          /\ Sum(s \ {y}) = f[p] + r /\ r \in Int
      BY <2>1, <3>2, <3>3, <3>4, <3>5
    <3> HIDE DEF r
    <3>7. Sum(s) = f[p] + (f[y] + r) /\ f[y] + Sum(s \ {y}) = f[y] + (f[p] + r)
      BY <3>6
    <3>8. f[p] + (f[y] + r) = f[y] + (f[p] + r)
      BY <3>5, <3>6
    <3> QED BY <3>7, <3>8
  <2> QED BY <2>2, <2>3
<1>4. Nat \subseteq Q
  <2> HIDE DEF Q
  <2> QED BY <1>2, <1>3, NatInduct
<1>5. Cardinality(S) \in Nat /\ Cardinality(S) \in Q
  <2> HIDE DEF Q
  <2>1. S \in SUBSET S
    OBVIOUS
  <2> QED BY <1>1, <1>4, <2>1
<1>6. Sum(S) = f[x] + Sum(S \ {x})
  BY <1>5
<1> QED BY <1>6 DEF Sum

LEMMA SumAdd ==
  ASSUME NEW f, NEW S, IsFiniteSet(S), NEW x, x \notin S, \A y \in S \cup {x} : f[y] \in Int
  PROVE  SumFunctionOnSet(f, S \cup {x}) = f[x] + SumFunctionOnSet(f, S)
<1>1. IsFiniteSet(S \cup {x}) /\ x \in S \cup {x} /\ (S \cup {x}) \ {x} = S
  BY FS_AddElement
<1> QED BY <1>1, SumTakes

LEMMA SumType ==
  ASSUME NEW f, NEW S, IsFiniteSet(S), \A x \in S : f[x] \in Int
  PROVE  SumFunctionOnSet(f, S) \in Int
BY SumStep

LEMMA SumEmpty == ASSUME NEW f PROVE SumFunctionOnSet(f, {}) = 0
BY SumStep, FS_EmptySet

(* What is added up may be added up part by part.                          *)
LEMMA SumOfSums ==
  ASSUME NEW S, IsFiniteSet(S), NEW f, NEW g, NEW h,
         \A x \in S : f[x] \in Int /\ g[x] \in Int /\ h[x] = f[x] + g[x]
  PROVE  SumFunctionOnSet(h, S) = SumFunctionOnSet(f, S) + SumFunctionOnSet(g, S)
<1> DEFINE F == {T \in SUBSET S : SumFunctionOnSet(h, T)
                                    = SumFunctionOnSet(f, T) + SumFunctionOnSet(g, T)}
<1>1. {} \in F
  BY SumEmpty
<1>2. ASSUME NEW T \in SUBSET S, NEW x \in S \ T, T \in F
      PROVE  T \cup {x} \in F
  <2>1. IsFiniteSet(T) /\ \A y \in T \cup {x} : f[y] \in Int /\ g[y] \in Int /\ h[y] \in Int
    BY FS_Subset
  <2>2. /\ SumFunctionOnSet(f, T \cup {x}) = f[x] + SumFunctionOnSet(f, T)
        /\ SumFunctionOnSet(g, T \cup {x}) = g[x] + SumFunctionOnSet(g, T)
        /\ SumFunctionOnSet(h, T \cup {x}) = h[x] + SumFunctionOnSet(h, T)
    BY <2>1, SumAdd
  <2>3. SumFunctionOnSet(f, T) \in Int /\ SumFunctionOnSet(g, T) \in Int
    BY <2>1, SumType
  <2>4. f[x] \in Int /\ g[x] \in Int /\ h[x] = f[x] + g[x]
    OBVIOUS
  <2>5. SumFunctionOnSet(h, T) = SumFunctionOnSet(f, T) + SumFunctionOnSet(g, T)
    BY <1>2
  <2>6. T \cup {x} \in SUBSET S
    OBVIOUS
  <2> QED BY <2>2, <2>3, <2>4, <2>5, <2>6
<1>3. S \in F
  <2> HIDE DEF F
  <2> QED BY <1>1, <1>2, SetInduction
<1> QED BY <1>3

LEMMA SumZero ==
  ASSUME NEW S, IsFiniteSet(S), NEW f, \A x \in S : f[x] = 0
  PROVE  SumFunctionOnSet(f, S) = 0
<1>1. SumFunctionOnSet(f, S) = SumFunctionOnSet(f, S) + SumFunctionOnSet(f, S)
  BY SumOfSums
<1> QED BY <1>1, SumType

LEMMA SumSame ==
  ASSUME NEW S, IsFiniteSet(S), NEW f, NEW g, \A x \in S : f[x] \in Int /\ f[x] = g[x]
  PROVE  SumFunctionOnSet(f, S) = SumFunctionOnSet(g, S)
<1> DEFINE z == [x \in S |-> 0]
<1>1. \A x \in S : f[x] \in Int /\ z[x] \in Int /\ z[x] = 0 /\ g[x] = f[x] + z[x]
  OBVIOUS
<1> HIDE DEF z
<1>2. SumFunctionOnSet(g, S) = SumFunctionOnSet(f, S) + SumFunctionOnSet(z, S)
  BY <1>1, SumOfSums
<1>3. SumFunctionOnSet(z, S) = 0 /\ SumFunctionOnSet(f, S) \in Int
  BY <1>1, SumZero, SumType
<1> QED BY <1>2, <1>3

(* One term is changed.                                                    *)
LEMMA SumChange ==
  ASSUME NEW S, IsFiniteSet(S), NEW f, NEW g, NEW x \in S, g[x] \in Int,
         \A y \in S : f[y] \in Int /\ (y # x => g[y] = f[y])
  PROVE  SumFunctionOnSet(g, S) = SumFunctionOnSet(f, S) + (g[x] - f[x])
<1> DEFINE T == S \ {x}
<1>1. IsFiniteSet(T) /\ \A y \in T : f[y] \in Int /\ f[y] = g[y]
  BY FS_RemoveElement
<1>2. SumFunctionOnSet(f, T) = SumFunctionOnSet(g, T) /\ SumFunctionOnSet(f, T) \in Int
  <2> HIDE DEF T
  <2> QED BY <1>1, SumSame, SumType
<1>3. \A y \in S : g[y] \in Int
  OBVIOUS
<1>4. /\ SumFunctionOnSet(f, S) = f[x] + SumFunctionOnSet(f, T)
      /\ SumFunctionOnSet(g, S) = g[x] + SumFunctionOnSet(g, T)
  BY <1>3, SumTakes
<1>5. f[x] \in Int
  OBVIOUS
<1> HIDE DEF T
<1> QED BY <1>2, <1>4, <1>5

(* Terms that are 0 do not count.                                          *)
LEMMA SumNonZero ==
  ASSUME NEW S, IsFiniteSet(S), NEW f, NEW R \in SUBSET S,
         \A x \in S : f[x] \in Int /\ (x \notin R => f[x] = 0)
  PROVE  SumFunctionOnSet(f, S) = SumFunctionOnSet(f, R)
<1> DEFINE F == {T \in SUBSET S : SumFunctionOnSet(f, T) = SumFunctionOnSet(f, T \cap R)}
<1>1. {} \in F
  <2>1. {} \cap R = {}
    OBVIOUS
  <2> QED BY <2>1
<1>2. ASSUME NEW T \in SUBSET S, NEW x \in S \ T, T \in F
      PROVE  T \cup {x} \in F
  <2>1. /\ IsFiniteSet(T) /\ IsFiniteSet(T \cap R) /\ x \notin T \cap R
        /\ \A y \in T \cup {x} : f[y] \in Int
    BY FS_Subset
  <2>2. SumFunctionOnSet(f, T \cup {x}) = f[x] + SumFunctionOnSet(f, T)
    BY <2>1, SumAdd
  <2>3. SumFunctionOnSet(f, T) \in Int /\ SumFunctionOnSet(f, T) = SumFunctionOnSet(f, T \cap R)
    BY <2>1, SumType, <1>2
  <2>4. CASE x \in R
    <3>1. (T \cup {x}) \cap R = (T \cap R) \cup {x}
      BY <2>4
    <3>2. \A y \in (T \cap R) \cup {x} : f[y] \in Int
      BY <2>1
    <3>3. SumFunctionOnSet(f, (T \cap R) \cup {x}) = f[x] + SumFunctionOnSet(f, T \cap R)
      BY <2>1, <3>2, SumAdd
    <3> QED BY <2>2, <2>3, <3>1, <3>3
  <2>5. CASE x \notin R
    <3>1. (T \cup {x}) \cap R = T \cap R /\ f[x] = 0
      BY <2>5
    <3>2. SumFunctionOnSet(f, T \cup {x}) = SumFunctionOnSet(f, T)
      BY <2>2, <2>3, <3>1
    <3> QED BY <2>3, <3>1, <3>2
  <2> QED BY <2>4, <2>5
<1>3. S \in F
  <2> HIDE DEF F
  <2> QED BY <1>1, <1>2, SetInduction
<1>4. S \cap R = R
  OBVIOUS
<1> QED BY <1>3, <1>4

(* The same term for each element.                                         *)
LEMMA SumConstant ==
  ASSUME NEW S, IsFiniteSet(S), NEW f, NEW c \in Int, \A x \in S : f[x] = c
  PROVE  SumFunctionOnSet(f, S) = Cardinality(S) * c
<1> DEFINE F == {T \in SUBSET S : SumFunctionOnSet(f, T) = Cardinality(T) * c}
<1>1. {} \in F
  BY SumEmpty, FS_EmptySet
<1>2. ASSUME NEW T \in SUBSET S, NEW x \in S \ T, T \in F
      PROVE  T \cup {x} \in F
  <2>1. IsFiniteSet(T) /\ Cardinality(T) \in Nat /\ \A y \in T \cup {x} : f[y] \in Int
    BY FS_Subset, FS_CardinalityType
  <2>2. Cardinality(T \cup {x}) = Cardinality(T) + 1
    BY <2>1, FS_AddElement
  <2>3. SumFunctionOnSet(f, T \cup {x}) = c + Cardinality(T) * c
    BY <1>2, <2>1, SumAdd
  <2>4. \A n \in Nat : c + n * c = (n + 1) * c
    OBVIOUS
  <2>5. SumFunctionOnSet(f, T \cup {x}) = Cardinality(T \cup {x}) * c
    BY <2>1, <2>2, <2>3, <2>4
  <2> QED BY <2>5
<1>3. S \in F
  <2> HIDE DEF F
  <2> QED BY <1>1, <1>2, SetInduction
<1> QED BY <1>3

(* A sum over two disjoint sets.                                           *)
LEMMA SumUnion ==
  ASSUME NEW f, NEW S, IsFiniteSet(S), NEW T, IsFiniteSet(T), S \cap T = {},
         \A x \in S \cup T : f[x] \in Int
  PROVE  SumFunctionOnSet(f, S \cup T) = SumFunctionOnSet(f, S) + SumFunctionOnSet(f, T)
<1> DEFINE F == {U \in SUBSET T : SumFunctionOnSet(f, S \cup U)
                                    = SumFunctionOnSet(f, S) + SumFunctionOnSet(f, U)}
<1>1. {} \in F
  <2>1. S \cup {} = S /\ SumFunctionOnSet(f, {}) = 0 /\ SumFunctionOnSet(f, S) \in Int
    BY SumEmpty, SumType
  <2> QED BY <2>1
<1>2. ASSUME NEW U \in SUBSET T, NEW x \in T \ U, U \in F
      PROVE  U \cup {x} \in F
  <2>1. IsFiniteSet(U) /\ IsFiniteSet(S \cup U) /\ x \notin S \cup U
    BY FS_Subset, FS_Union
  <2>2. S \cup (U \cup {x}) = (S \cup U) \cup {x}
    OBVIOUS
  <2>3. \A y \in (S \cup U) \cup {x} : f[y] \in Int
    OBVIOUS
  <2>4. SumFunctionOnSet(f, (S \cup U) \cup {x}) = f[x] + SumFunctionOnSet(f, S \cup U)
    BY <2>1, <2>3, SumAdd
  <2>5. SumFunctionOnSet(f, U \cup {x}) = f[x] + SumFunctionOnSet(f, U)
    BY <2>1, <2>3, SumAdd
  <2>6. /\ SumFunctionOnSet(f, S) \in Int /\ SumFunctionOnSet(f, U) \in Int /\ f[x] \in Int
    BY <2>1, SumType
  <2>7. SumFunctionOnSet(f, S \cup U) = SumFunctionOnSet(f, S) + SumFunctionOnSet(f, U)
    BY <1>2
  <2>8. SumFunctionOnSet(f, S \cup (U \cup {x})) =
          SumFunctionOnSet(f, S) + SumFunctionOnSet(f, U \cup {x})
    <3>1. \A a \in Int, b \in Int, c \in Int : c + (a + b) = a + (c + b)
      OBVIOUS
    <3>2. f[x] + (SumFunctionOnSet(f, S) + SumFunctionOnSet(f, U))
            = SumFunctionOnSet(f, S) + (f[x] + SumFunctionOnSet(f, U))
      BY <2>6, <3>1
    <3> QED BY <2>2, <2>4, <2>5, <2>7, <3>2
  <2> QED BY <2>8
<1>3. T \in F
  <2> HIDE DEF F
  <2> QED BY <1>1, <1>2, SetInduction
<1> QED BY <1>3

(* A sum of numbers that are not negative is not negative.                 *)
LEMMA SumNat ==
  ASSUME NEW S, IsFiniteSet(S), NEW f, \A x \in S : f[x] \in Nat
  PROVE  SumFunctionOnSet(f, S) \in Nat
<1> DEFINE F == {T \in SUBSET S : SumFunctionOnSet(f, T) \in Nat}
<1>1. {} \in F
  BY SumEmpty
<1>2. ASSUME NEW T \in SUBSET S, NEW x \in S \ T, T \in F
      PROVE  T \cup {x} \in F
  <2>1. IsFiniteSet(T) /\ \A y \in T \cup {x} : f[y] \in Int
    BY FS_Subset
  <2>2. SumFunctionOnSet(f, T \cup {x}) = f[x] + SumFunctionOnSet(f, T)
    BY <2>1, SumAdd
  <2>3. f[x] \in Nat /\ SumFunctionOnSet(f, T) \in Nat
    BY <1>2
  <2>4. SumFunctionOnSet(f, T \cup {x}) \in Nat
    BY <2>2, <2>3
  <2> QED BY <2>4
<1>3. S \in F
  <2> HIDE DEF F
  <2> QED BY <1>1, <1>2, SetInduction
<1> QED BY <1>3

(* A sum can be taken over the images of the elements under an injection.  *)
LEMMA SumImage ==
  ASSUME NEW S, IsFiniteSet(S), NEW p, \A x, y \in S : p[x] = p[y] => x = y, NEW f, NEW g,
         \A x \in S : f[x] \in Int /\ g[p[x]] = f[x],
         NEW I, I = {p[x] : x \in S}
  PROVE  IsFiniteSet(I) /\ SumFunctionOnSet(g, I) = SumFunctionOnSet(f, S)
<1> DEFINE M(T) == {p[x] : x \in T}
           F == {T \in SUBSET S : /\ IsFiniteSet(M(T))
                                  /\ SumFunctionOnSet(g, M(T)) = SumFunctionOnSet(f, T)}
<1>1. {} \in F
  <2>1. M({}) = {} /\ IsFiniteSet({})
    BY FS_EmptySet
  <2> HIDE DEF M
  <2> QED BY <2>1, SumEmpty
<1>2. ASSUME NEW T \in SUBSET S, NEW x \in S \ T, T \in F
      PROVE  T \cup {x} \in F
  <2>1. IsFiniteSet(T) /\ IsFiniteSet(M(T))
    BY <1>2, FS_Subset
  <2>2. M(T \cup {x}) = M(T) \cup {p[x]}
    OBVIOUS
  <2>3. p[x] \notin M(T)
    OBVIOUS
  <2>4. \A y \in T \cup {x} : f[y] \in Int /\ g[p[y]] = f[y]
    OBVIOUS
  <2>5. \A z \in M(T) \cup {p[x]} : g[z] \in Int
    BY <2>4
  <2>6. SumFunctionOnSet(g, M(T)) = SumFunctionOnSet(f, T)
    BY <1>2
  <2>7. T \cup {x} \in SUBSET S
    OBVIOUS
  <2> HIDE DEF M
  <2>8. /\ IsFiniteSet(M(T) \cup {p[x]})
        /\ SumFunctionOnSet(g, M(T) \cup {p[x]}) = g[p[x]] + SumFunctionOnSet(g, M(T))
    BY <2>1, <2>3, <2>5, SumAdd, FS_AddElement
  <2>9. SumFunctionOnSet(f, T \cup {x}) = f[x] + SumFunctionOnSet(f, T)
    BY <2>1, <2>4, SumAdd
  <2>10. SumFunctionOnSet(g, M(T \cup {x})) = SumFunctionOnSet(f, T \cup {x})
    BY <2>2, <2>4, <2>6, <2>8, <2>9
  <2> QED BY <2>2, <2>7, <2>8, <2>10
<1>3. S \in F
  <2> HIDE DEF F
  <2> QED BY <1>1, <1>2, SetInduction
<1>4. I = M(S)
  OBVIOUS
<1>5. IsFiniteSet(M(S)) /\ SumFunctionOnSet(g, M(S)) = SumFunctionOnSet(f, S)
  BY <1>3
<1> HIDE DEF M
<1> QED BY <1>4, <1>5

LEMMA SumShift ==
  ASSUME NEW S, IsFiniteSet(S), S \subseteq Int, NEW d \in Int, NEW f, NEW g,
         \A x \in S : f[x] \in Int /\ g[x + d] = f[x]
  PROVE  /\ IsFiniteSet({x + d : x \in S})
         /\ SumFunctionOnSet(g, {x + d : x \in S}) = SumFunctionOnSet(f, S)
<1> DEFINE p == [x \in S |-> x + d]
<1>1. \A x, y \in S : x + d = y + d => x = y
  OBVIOUS
<1>2. \A x, y \in S : p[x] = p[y] => x = y
  BY <1>1
<1>3. \A x \in S : f[x] \in Int /\ g[p[x]] = f[x]
  OBVIOUS
<1>4. {p[x] : x \in S} = {x + d : x \in S}
  OBVIOUS
<1> DEFINE I == {x + d : x \in S}
<1>5. I = {p[x] : x \in S}
  BY <1>4
<1> HIDE DEF p, I
<1>6. IsFiniteSet(I) /\ SumFunctionOnSet(g, I) = SumFunctionOnSet(f, S)
  <2>1. IsFiniteSet(S)
    OBVIOUS
  <2> QED BY ONLY <2>1, <1>2, <1>3, <1>5, SumImage
<1> QED BY <1>6 DEF I

(* The terms of two sequences, one behind the other.                       *)
LEMMA SumConcat ==
  ASSUME NEW n \in Nat, NEW m \in Nat, NEW f, NEW g, NEW h,
         \A i \in 1..n : g[i] \in Int /\ f[i] = g[i],
         \A j \in 1..m : h[j] \in Int /\ f[j + n] = h[j]
  PROVE  SumFunctionOnSet(f, 1..(n + m))
           = SumFunctionOnSet(g, 1..n) + SumFunctionOnSet(h, 1..m)
<1> DEFINE A == 1..n
           B == {j + n : j \in 1..m}
<1>1. IsFiniteSet(A) /\ IsFiniteSet(1..m) /\ 1..m \subseteq Int
  BY FS_Interval
<1>2. 1..(n + m) = A \cup B
  <2>1. ASSUME NEW k \in 1..(n + m), k \notin A PROVE k \in B
    <3>1. k - n \in 1..m /\ k = (k - n) + n
      BY <2>1
    <3> QED BY <3>1
  <2>2. A \subseteq 1..(n + m)
    OBVIOUS
  <2>3. B \subseteq 1..(n + m)
    OBVIOUS
  <2> QED BY <2>1, <2>2, <2>3
<1>3. A \cap B = {}
  OBVIOUS
<1>4. IsFiniteSet(B) /\ SumFunctionOnSet(f, B) = SumFunctionOnSet(h, 1..m)
  <2> DEFINE C == 1..m
  <2>1. IsFiniteSet(C) /\ C \subseteq Int /\ n \in Int
    BY <1>1
  <2>2. \A x \in C : h[x] \in Int /\ f[x + n] = h[x]
    OBVIOUS
  <2>3. IsFiniteSet({x + n : x \in C}) /\ SumFunctionOnSet(f, {x + n : x \in C})
          = SumFunctionOnSet(h, C)
    <3> HIDE DEF C, B
    <3> QED BY <2>1, <2>2, SumShift
  <2> QED BY <2>3
<1>5. SumFunctionOnSet(g, A) = SumFunctionOnSet(f, A)
  <2>1. \A i \in A : g[i] \in Int /\ g[i] = f[i]
    OBVIOUS
  <2> HIDE DEF A
  <2> QED BY <1>1, <2>1, SumSame
<1>6. \A x \in A \cup B : f[x] \in Int
  <2>1. \A x \in A : f[x] \in Int
    OBVIOUS
  <2>2. \A x \in B : f[x] \in Int
    <3> SUFFICES ASSUME NEW x \in B PROVE f[x] \in Int
      OBVIOUS
    <3>1. PICK j \in 1..m : x = j + n
      OBVIOUS
    <3> QED BY <3>1
  <2> QED BY <2>1, <2>2
<1> HIDE DEF A, B
<1>7. SumFunctionOnSet(f, A \cup B) = SumFunctionOnSet(f, A) + SumFunctionOnSet(f, B)
  BY <1>1, <1>3, <1>4, <1>6, SumUnion
<1> QED BY <1>2, <1>4, <1>5, <1>7 DEF A

(* Weights added up over places, and over values with the number of places *)
(* that have them.                                                         *)
LEMMA CountsWeighed ==
  ASSUME NEW D, IsFiniteSet(D), NEW C, IsFiniteSet(C), NEW v, \A s \in D : v[s] \in C,
         NEW w, \A c \in C : w[c] \in Int
  PROVE  SumFunctionOnSet([c \in C |-> Cardinality({s \in D : v[s] = c}) * w[c]], C)
           = SumFunctionOnSet([s \in D |-> w[v[s]]], D)
<1> DEFINE N(T, c) == Cardinality({s \in T : v[s] = c})
           f(T) == [c \in C |-> N(T, c) * w[c]]
           g == [s \in D |-> w[v[s]]]
           F == {T \in SUBSET D : SumFunctionOnSet(f(T), C) = SumFunctionOnSet(g, T)}
<1>1. ASSUME NEW T \in SUBSET D, NEW c
      PROVE  IsFiniteSet({s \in T : v[s] = c}) /\ N(T, c) \in Nat
  BY FS_Subset, FS_CardinalityType
<1>2. {} \in F
  <2>1. \A c : {s \in {} : v[s] = c} = {}
    OBVIOUS
  <2>2. \A c \in C : f({})[c] = 0
    BY <2>1, FS_EmptySet
  <2> HIDE DEF f
  <2> QED BY <2>2, SumZero, SumEmpty
<1>3. ASSUME NEW T \in SUBSET D, NEW x \in D \ T, T \in F
      PROVE  T \cup {x} \in F
  <2> DEFINE k == v[x]
             a == f(T)
             b == f(T \cup {x})
  <2>1. k \in C /\ w[k] \in Int
    OBVIOUS
  <2>2. {s \in T \cup {x} : v[s] = k} = {s \in T : v[s] = k} \cup {x}
    OBVIOUS
  <2>3. \A c \in C : c # k => {s \in T \cup {x} : v[s] = c} = {s \in T : v[s] = c}
    OBVIOUS
  <2>4. N(T \cup {x}, k) = N(T, k) + 1
    <3> DEFINE R == {s \in T : v[s] = k}
    <3>1. IsFiniteSet(R) /\ x \notin R
      BY <1>1
    <3>2. Cardinality(R \cup {x}) = Cardinality(R) + 1
      <4> HIDE DEF R
      <4> QED BY <3>1, FS_AddElement
    <3> QED BY <2>2, <3>2
  <2>5. \A c \in C : c # k => N(T \cup {x}, c) = N(T, c)
    BY <2>3
  <2>6. \A c \in C : N(T, c) \in Int
    BY <1>1
  <2>7. T \cup {x} \in SUBSET D
    OBVIOUS
  <2> HIDE DEF N
  <2>8. \A c \in C : a[c] \in Int /\ (c # k => b[c] = a[c])
    BY <2>5, <2>6
  <2>9. a[k] = N(T, k) * w[k] /\ b[k] = (N(T, k) + 1) * w[k]
    BY <2>1, <2>4
  <2>10. \A n \in Int, m \in Int : (n + 1) * m \in Int /\ (n + 1) * m - n * m = m
    OBVIOUS
  <2>11. b[k] \in Int /\ b[k] - a[k] = w[k]
    <3> HIDE DEF a, b
    <3> QED BY <2>1, <2>6, <2>9, <2>10
  <2>12. SumFunctionOnSet(b, C) = SumFunctionOnSet(a, C) + (b[k] - a[k])
    <3> HIDE DEF a, b, k
    <3> QED BY <2>1, <2>8, <2>11, SumChange
  <2>13. SumFunctionOnSet(a, C) \in Int
    <3> HIDE DEF a, b
    <3> QED BY <2>8, SumType
  <2>14. g[x] = w[k] /\ \A s \in D : g[s] \in Int
    OBVIOUS
  <2>15. SumFunctionOnSet(g, T \cup {x}) = g[x] + SumFunctionOnSet(g, T)
    <3>1. IsFiniteSet(T)
      BY FS_Subset
    <3> HIDE DEF g
    <3> QED BY <3>1, <2>14, SumAdd
  <2>16. SumFunctionOnSet(a, C) = SumFunctionOnSet(g, T)
    BY <1>3
  <2>17. SumFunctionOnSet(b, C) = SumFunctionOnSet(g, T \cup {x})
    <3> HIDE DEF a, b, g, k
    <3> QED BY <2>1, <2>11, <2>12, <2>13, <2>14, <2>15, <2>16
  <2> HIDE DEF a, g
  <2> QED BY <2>7, <2>17
<1>4. D \in F
  <2> HIDE DEF F
  <2> QED BY <1>2, <1>3, SetInduction
<1> QED BY <1>4
-------------------------------------------------------------------------------
(* The runs stand, in order and without overlap, for exactly the places P  *)
(* of arr, and each of them for places that hold its value.                *)
RunsIn(V) == [start : Int, end : Int, value : V]

Cover(runs, arr, P) ==
  /\ P \subseteq Int /\ P \subseteq DOMAIN arr
  /\ runs \in Seq(RunsIn(Range(arr)))
  /\ \A i \in 1..Len(runs) :
       /\ runs[i].start <= runs[i].end
       /\ \A t \in runs[i].start..runs[i].end : t \in P /\ arr[t] = runs[i].value
  /\ \A i, j \in 1..Len(runs) : i < j => runs[i].end < runs[j].start
  /\ \A t \in P : \E i \in 1..Len(runs) : t \in runs[i].start..runs[i].end

LEMMA CoverNone == ASSUME NEW arr PROVE Cover(<<>>, arr, {})
BY DEF Cover

LEMMA CoverOne ==
  ASSUME NEW arr, NEW k \in Int, NEW m \in Int, k <= m, NEW v,
         \A t \in k..m : t \in DOMAIN arr /\ arr[t] = v
  PROVE  Cover(<<Run(k, m, v)>>, arr, k..m)
<1> DEFINE r == Run(k, m, v)
<1>1. v \in Range(arr)
  BY DEF Range
<1>2. r \in RunsIn(Range(arr)) /\ r.start = k /\ r.end = m /\ r.value = v
  BY <1>1 DEF RunsIn, Run
<1> HIDE DEF r
<1>3. Len(<<r>>) = 1 /\ <<r>>[1] = r /\ <<r>> \in Seq(RunsIn(Range(arr)))
  BY <1>2
<1>4. Cover(<<r>>, arr, k..m)
  BY <1>2, <1>3 DEF Cover
<1> QED BY <1>4 DEF r

LEMMA CoverConcat ==
  ASSUME NEW arr, NEW a, NEW P, Cover(a, arr, P), NEW b, NEW Q, Cover(b, arr, Q),
         \A p \in P, q \in Q : p < q
  PROVE  Cover(a \o b, arr, P \cup Q)
<1> DEFINE R == RunsIn(Range(arr))
           n == Len(a)
           m == Len(b)
           c == a \o b
<1>1. /\ a \in Seq(R) /\ b \in Seq(R) /\ n \in Nat /\ m \in Nat
      /\ c \in Seq(R) /\ Len(c) = n + m
      /\ \A i \in 1..n : c[i] = a[i]
      /\ \A i \in 1..m : c[n + i] = b[i]
  BY ConcatProperties DEF Cover
<1>2. \A i \in 1..(n + m) : i \in 1..n \/ \E j \in 1..m : i = n + j
  <2> SUFFICES ASSUME NEW i \in 1..(n + m), i \notin 1..n PROVE i - n \in 1..m /\ i = n + (i - n)
    OBVIOUS
  <2> QED BY <1>1
<1>3. \A i \in 1..n : i \in 1..(n + m)
  BY <1>1
<1>4. \A i \in 1..m : n + i \in 1..(n + m)
  BY <1>1
<1>a. \A r \in R : r.start \in Int /\ r.end \in Int
  BY DEF RunsIn
<1>b. /\ \A i \in 1..n : a[i].start \in Int /\ a[i].end \in Int
      /\ \A i \in 1..m : b[i].start \in Int /\ b[i].end \in Int
  <2> HIDE DEF R
  <2> QED BY <1>1, <1>a
<1> HIDE DEF c, n, m
<1>5. ASSUME NEW i \in 1..(n + m)
      PROVE  /\ c[i].start <= c[i].end
             /\ \A t \in c[i].start..c[i].end : t \in P \cup Q /\ arr[t] = c[i].value
  <2>1. CASE i \in 1..n
    BY <1>1, <2>1 DEF Cover, n
  <2>2. CASE \E j \in 1..m : i = n + j
    BY <1>1, <2>2 DEF Cover, m
  <2> QED BY <1>2, <2>1, <2>2
<1>6. ASSUME NEW i \in 1..(n + m), NEW j \in 1..(n + m), i < j
      PROVE  c[i].end < c[j].start
  <2>1. CASE i \in 1..n /\ j \in 1..n
    BY <1>1, <1>6, <2>1 DEF Cover, n
  <2>2. CASE i \in 1..n /\ j \notin 1..n
    <3>1. PICK k \in 1..m : j = n + k
      BY <1>2, <2>2
    <3>2. a[i].end \in P /\ b[k].start \in Q
      <4>1. a[i].start <= a[i].end /\ b[k].start <= b[k].end
        BY <2>2, <3>1 DEF Cover, n, m
      <4>2. a[i].end \in a[i].start..a[i].end /\ b[k].start \in b[k].start..b[k].end
        BY <1>b, <2>2, <3>1, <4>1
      <4> QED BY <2>2, <3>1, <4>2 DEF Cover, n, m
    <3>3. a[i].end < b[k].start
      BY <3>2
    <3> QED BY <1>1, <2>2, <3>1, <3>3
  <2>3. CASE i \notin 1..n
    <3>1. PICK k \in 1..m : i = n + k
      BY <1>2, <2>3
    <3>2. j \notin 1..n
      BY <1>1, <1>6, <2>3
    <3>3. PICK l \in 1..m : j = n + l
      BY <1>2, <3>2
    <3>4. k < l
      BY <1>1, <1>6, <3>1, <3>3
    <3>5. b[k].end < b[l].start
      BY <3>4 DEF Cover, m
    <3> QED BY <1>1, <3>1, <3>3, <3>5
  <2> QED BY <2>1, <2>2, <2>3
<1>7. ASSUME NEW t \in P \cup Q
      PROVE  \E i \in 1..(n + m) : t \in c[i].start..c[i].end
  <2>1. CASE t \in P
    <3>1. PICK i \in 1..n : t \in a[i].start..a[i].end
      BY <2>1 DEF Cover, n
    <3>2. i \in 1..(n + m) /\ c[i] = a[i]
      BY <1>1, <1>3
    <3> QED BY <3>1, <3>2
  <2>2. CASE t \in Q
    <3>1. PICK i \in 1..m : t \in b[i].start..b[i].end
      BY <2>2 DEF Cover, m
    <3>2. n + i \in 1..(n + m) /\ c[n + i] = b[i]
      BY <1>1, <1>4
    <3> QED BY <3>1, <3>2
  <2> QED BY <2>1, <2>2
<1>8. P \cup Q \subseteq Int /\ P \cup Q \subseteq DOMAIN arr
  BY DEF Cover
<1>9. Cover(c, arr, P \cup Q)
  BY <1>1, <1>5, <1>6, <1>7, <1>8 DEF Cover
<1> QED BY <1>9 DEF c

LEMMA CoverAppend ==
  ASSUME NEW arr, NEW a, NEW P, Cover(a, arr, P),
         NEW k \in Int, NEW m \in Int, k <= m, NEW v,
         \A t \in k..m : t \in DOMAIN arr /\ arr[t] = v, \A p \in P : p < k
  PROVE  Cover(Append(a, Run(k, m, v)), arr, P \cup k..m)
<1> DEFINE R == RunsIn(Range(arr))
           r == Run(k, m, v)
<1>1. Cover(<<r>>, arr, k..m)
  BY CoverOne
<1>2. r \in R
  BY DEF Range, RunsIn, Run
<1>3. a \in Seq(R)
  BY DEF Cover
<1> HIDE DEF R, r
<1>4. Append(a, r) = a \o <<r>>
  BY <1>2, <1>3, AppendIsConcat
<1>5. \A p \in P, q \in k..m : p < q
  BY DEF Cover
<1>6. Cover(a \o <<r>>, arr, P \cup k..m)
  BY <1>1, <1>5, CoverConcat
<1> QED BY <1>4, <1>6 DEF r

(* compress_byte_range and its likes: the runs cover the whole array.      *)
LEMMA CompressCovers ==
  ASSUME NEW S, NEW arr \in Seq(S)
  PROVE  Cover(Compress(arr), arr, 1..Len(arr))
<1> DEFINE n == Len(arr)
           V == Range(arr)
           A == [runs : Seq(RunsIn(V)), start : 1..n, val : V]
           e == [runs |-> <<>>, start |-> 1, val |-> arr[1]]
           g == [z \in A \X (1..n) |-> Advance(arr, z[1], z[2])]
           Makes(h) == h = [i \in 0..n |-> IF i = 0 THEN e ELSE Advance(arr, h[i - 1], i)]
           acc == CHOOSE h : Makes(h)
           last == acc[n]
<1>1. n \in Nat /\ DOMAIN arr = 1..n /\ \A t \in 1..n : arr[t] \in V
  BY DEF Range
<1>2. CASE arr = <<>>
  <2>1. Compress(arr) = <<>> /\ 1..n = {}
    BY <1>2 DEF Compress
  <2> QED BY <2>1, CoverNone
<1>3. CASE arr # <<>>
  <2>1. n \in Nat \ {0} /\ 1 \in 1..n
    BY <1>1, <1>3
  <2>2. e \in A
    BY <1>1, <2>1
  <2>3. ASSUME NEW c \in A, NEW i \in 1..n
        PROVE  Advance(arr, c, i) \in A
    <3>1. arr[i] \in V /\ Run(c.start, i - 1, c.val) \in RunsIn(V)
      BY <1>1 DEF Run, RunsIn
    <3> HIDE DEF V
    <3>2. Append(c.runs, Run(c.start, i - 1, c.val)) \in Seq(RunsIn(V))
      BY <3>1
    <3> QED BY <3>1, <3>2 DEF Advance
  <2>4. g \in [A \X (1..n) -> A]
    <3> HIDE DEF A, n
    <3> QED BY <2>3
  <2>5. \E h : Recurs(h, n, A, e, g)
    <3>1. n \in Nat
      BY <1>1
    <3> HIDE DEF A, e, g, n
    <3> QED BY <3>1, <2>2, <2>4, Recursion
  <2>6. PICK h \in [0..n -> A] : h[0] = e /\ \A i \in 1..n : h[i] = g[<<h[i - 1], i>>]
    <3> HIDE DEF A, e, g, n
    <3> QED BY <2>5 DEF Recurs
  <2>7. ASSUME NEW i \in 1..n
        PROVE  h[i] = Advance(arr, h[i - 1], i)
    <3>1. i - 1 \in 0..n
      BY <1>1
    <3>2. <<h[i - 1], i>> \in A \X (1..n)
      <4> HIDE DEF A, n
      <4> QED BY <3>1, <2>6
    <3> HIDE DEF A, n
    <3> QED BY <2>6, <3>2
  <2>8. Makes(h)
    <3>1. \A i \in 0..n : i = 0 \/ i \in 1..n
      BY <1>1
    <3> HIDE DEF A, e, g, n
    <3> QED BY <2>6, <2>7, <3>1
  <2>9. Makes(acc)
    <3> HIDE DEF Makes
    <3> QED BY <2>8
  <2> DEFINE Good(i) == /\ acc[i] \in A
                        /\ i = 0 => acc[i] = e
                        /\ i > 0 => /\ acc[i].start <= i
                                    /\ Cover(acc[i].runs, arr, 1..(acc[i].start - 1))
                                    /\ \A t \in acc[i].start..i : arr[t] = acc[i].val
             P == {i \in 0..n : Good(i)}
  <2>10. acc[0] = e
    <3>1. 0 \in 0..n
      BY <1>1
    <3> HIDE DEF n, acc, e
    <3> QED BY <2>9, <3>1
  <2>11. \A i \in 1..n : acc[i] = Advance(arr, acc[i - 1], i)
    <3>1. \A i \in 1..n : i \in 0..n /\ i # 0
      BY <1>1
    <3> HIDE DEF n, acc, e
    <3> QED BY <2>9, <3>1
  <2> HIDE DEF acc, Makes
  <2>12. 0 \in P
    <3>1. 0 \in 0..n /\ ~(0 > 0)
      BY <1>1
    <3> HIDE DEF n, A, e
    <3> QED BY <2>2, <2>10, <3>1
  <2>13. ASSUME NEW i \in 0..(n - 1), i \in P
         PROVE  i + 1 \in P
    <3> DEFINE j == i + 1
               b == acc[i]
               c == acc[j]
    <3>1. j \in 1..n /\ j \in 0..n /\ c = Advance(arr, b, j) /\ b \in A
      <4>1. j - 1 = i /\ j \in 1..n /\ j \in 0..n
        BY <1>1
      <4>2. acc[j] = Advance(arr, acc[j - 1], j)
        BY <2>11, <4>1
      <4> QED BY <4>1, <4>2, <2>13
    <3>2. c \in A
      <4> HIDE DEF A, n, c, b
      <4> QED BY <3>1, <2>3
    <3>3. CASE i = 0
      <4>1. b = e /\ j = 1
        BY <2>10, <3>3
      <4>2. c = e
        BY <3>1, <4>1 DEF Advance
      <4>3. 1..(c.start - 1) = {} /\ c.start = 1 /\ c.runs = <<>>
        BY <4>2
      <4>4. \A t \in c.start..j : arr[t] = c.val
        BY <4>1, <4>2
      <4>5. Cover(c.runs, arr, 1..(c.start - 1))
        BY <4>3, CoverNone
      <4> QED BY <3>1, <3>2, <4>1, <4>3, <4>4, <4>5
    <3>4. CASE i # 0
      <4>1. /\ i > 0 /\ i \in Nat /\ b.start \in 1..n /\ b.start <= i
            /\ Cover(b.runs, arr, 1..(b.start - 1))
            /\ \A t \in b.start..i : arr[t] = b.val
        BY <1>1, <2>13, <3>1, <3>4
      <4>2. CASE arr[j] = b.val
        <5>1. c = b
          BY <3>1, <4>2 DEF Advance
        <5>2. \A t \in b.start..j : arr[t] = b.val
          <6>1. \A t \in b.start..j : t \in b.start..i \/ t = j
            BY <1>1, <4>1
          <6> QED BY <4>1, <4>2, <6>1
        <5> QED BY <3>1, <3>2, <4>1, <5>1, <5>2
      <4>3. CASE arr[j] # b.val
        <5>1. /\ c.runs = Append(b.runs, Run(b.start, i, b.val))
              /\ c.start = j /\ c.val = arr[j]
          <6>1. j - 1 = i
            BY <1>1
          <6> QED BY <3>1, <4>3, <6>1 DEF Advance
        <5>2. 1..(c.start - 1) = 1..(b.start - 1) \cup b.start..i
          BY <1>1, <4>1, <5>1
        <5>3. \A t \in b.start..i : t \in DOMAIN arr /\ arr[t] = b.val
          BY <1>1, <4>1
        <5>4. \A p \in 1..(b.start - 1) : p < b.start
          BY <4>1
        <5>5. b.start \in Int /\ i \in Int
          BY <4>1
        <5>6. Cover(Append(b.runs, Run(b.start, i, b.val)), arr, 1..(b.start - 1) \cup b.start..i)
          <6> HIDE DEF b
          <6> QED BY <4>1, <5>3, <5>4, <5>5, CoverAppend
        <5>7. c.start <= j /\ \A t \in c.start..j : arr[t] = c.val
          BY <3>1, <5>1
        <5>8. Cover(c.runs, arr, 1..(c.start - 1))
          BY <5>1, <5>2, <5>6
        <5>9. j # 0
          BY <4>1
        <5> HIDE DEF A, e, n, b
        <5> QED BY <3>1, <3>2, <5>7, <5>8, <5>9
      <4> QED BY <4>2, <4>3
    <3> QED BY <3>3, <3>4
  <2>14. n \in P
    <3>1. 0..n \subseteq P
      <4> HIDE DEF P, n
      <4> QED BY <1>1, <2>12, <2>13, UpTo
    <3> QED BY <1>1, <3>1
  <2>15. /\ last.start \in 1..n /\ last.start <= n
         /\ Cover(last.runs, arr, 1..(last.start - 1))
         /\ \A t \in last.start..n : arr[t] = last.val
    BY <2>1, <2>14
  <2>16. Compress(arr) = Append(last.runs, Run(last.start, n, last.val))
    BY <1>3 DEF Compress, acc, Makes, e
  <2> HIDE DEF last
  <2>17. 1..n = 1..(last.start - 1) \cup last.start..n
    BY <1>1, <2>15
  <2>18. /\ last.start \in Int /\ n \in Int
         /\ \A t \in last.start..n : t \in DOMAIN arr /\ arr[t] = last.val
         /\ \A p \in 1..(last.start - 1) : p < last.start
    BY <1>1, <2>15
  <2>19. Cover(Append(last.runs, Run(last.start, n, last.val)), arr,
               1..(last.start - 1) \cup last.start..n)
    <3> HIDE DEF n
    <3> QED BY <2>15, <2>18, CoverAppend
  <2> QED BY <2>16, <2>17, <2>19
<1> QED BY <1>2, <1>3

(* The runs with values in T cover the places that hold such a value.      *)
LEMMA KeptCovers ==
  ASSUME NEW arr, NEW runs, NEW P, Cover(runs, arr, P), NEW T
  PROVE  Cover(Kept(runs, T), arr, {t \in P : arr[t] \in T})
<1> DEFINE n == Len(runs)
           R == RunsIn(Range(arr))
           A == Seq(R)
           Turn(s, i) == IF runs[i].value \in T THEN Append(s, runs[i]) ELSE s
           g == [z \in A \X (1..n) |-> Turn(z[1], z[2])]
           Makes(h) == h = [i \in 0..n |-> IF i = 0 THEN <<>>
                                           ELSE IF runs[i].value \in T
                                                THEN Append(h[i - 1], runs[i])
                                           ELSE h[i - 1]]
           kept == CHOOSE h : Makes(h)
           Place(i) == runs[i].start..runs[i].end
           Part(i) == {t \in P : arr[t] \in T /\ \E j \in 1..i : t \in Place(j)}
           D == {i \in 0..n : Cover(kept[i], arr, Part(i))}
<1>1. /\ n \in Nat /\ runs \in Seq(R) /\ \A i \in 1..n : runs[i] \in R
      /\ P \subseteq Int /\ P \subseteq DOMAIN arr
  BY DEF Cover
<1>2. /\ \A i \in 1..n : runs[i].start <= runs[i].end
      /\ \A i \in 1..n : \A t \in Place(i) : t \in P /\ arr[t] = runs[i].value
      /\ \A i, j \in 1..n : i < j => runs[i].end < runs[j].start
      /\ \A t \in P : \E i \in 1..n : t \in Place(i)
  BY DEF Cover
<1>3. \A s \in A, i \in 1..n : Turn(s, i) \in A
  <2> HIDE DEF R, n
  <2> QED BY <1>1
<1>4. <<>> \in A
  OBVIOUS
<1>5. g \in [A \X (1..n) -> A]
  <2> HIDE DEF A, n, Turn
  <2> QED BY <1>3
<1>6. \E h : Recurs(h, n, A, <<>>, g)
  <2> HIDE DEF A, n, g
  <2> QED BY <1>1, <1>4, <1>5, Recursion
<1>7. PICK h \in [0..n -> A] : h[0] = <<>> /\ \A i \in 1..n : h[i] = g[<<h[i - 1], i>>]
  <2> HIDE DEF A, n, g
  <2> QED BY <1>6 DEF Recurs
<1>8. ASSUME NEW i \in 1..n
      PROVE  h[i] = Turn(h[i - 1], i)
  <2>1. i - 1 \in 0..n
    BY <1>1
  <2>2. <<h[i - 1], i>> \in A \X (1..n)
    <3> HIDE DEF A, n
    <3> QED BY <1>7, <2>1
  <2> HIDE DEF A, n, Turn
  <2> QED BY <1>7, <2>2
<1>9. Makes(h)
  <2>1. \A i \in 0..n : i = 0 \/ i \in 1..n
    BY <1>1
  <2> HIDE DEF A, g, n
  <2> QED BY <1>7, <1>8, <2>1
<1>10. Makes(kept)
  <2> HIDE DEF Makes
  <2> QED BY <1>9
<1>11. Kept(runs, T) = kept[n]
  BY DEF Kept, kept, Makes
<1>12. kept[0] = <<>>
  <2>1. 0 \in 0..n
    BY <1>1
  <2> HIDE DEF n, kept
  <2> QED BY <1>10, <2>1
<1>13. \A i \in 1..n : kept[i] = Turn(kept[i - 1], i)
  <2>1. \A i \in 1..n : i \in 0..n /\ i # 0
    BY <1>1
  <2> HIDE DEF n, kept
  <2> QED BY <1>10, <2>1
<1> HIDE DEF kept, Makes
<1>14. 0 \in D
  <2>1. 0 \in 0..n
    BY <1>1
  <2>2. Part(0) = {}
    OBVIOUS
  <2> HIDE DEF Part, n
  <2> QED BY <1>12, <2>1, <2>2, CoverNone
<1>15. ASSUME NEW i \in 0..(n - 1), i \in D
       PROVE  i + 1 \in D
  <2> DEFINE j == i + 1
             r == runs[j]
  <2>1. j \in 1..n /\ j \in 0..n /\ i \in Nat
    BY <1>1
  <2>2. kept[j] = Turn(kept[i], j)
    <3>1. j - 1 = i
      BY <1>1
    <3> QED BY <1>13, <2>1, <3>1
  <2>3. Cover(kept[i], arr, Part(i))
    BY <1>15
  <2>4. \A k \in 1..j : k \in 1..i \/ k = j
    BY <2>1
  <2>5. 1..i \subseteq 1..j /\ j \in 1..j
    BY <2>1
  <2>6. CASE r.value \in T
    <3>1. Part(j) = Part(i) \cup Place(j)
      <4>1. Place(j) \subseteq Part(j)
        <5>1. ASSUME NEW t \in Place(j) PROVE t \in Part(j)
          <6>1. t \in P /\ arr[t] \in T
            BY <1>2, <2>1, <2>6
          <6> HIDE DEF Place, j
          <6> QED BY <2>5, <6>1
        <5> QED BY <5>1
      <4>2. Part(i) \subseteq Part(j)
        <5> HIDE DEF Place, j
        <5> QED BY <2>5
      <4>3. Part(j) \subseteq Part(i) \cup Place(j)
        <5> HIDE DEF Place, j
        <5> QED BY <2>4
      <4> QED BY <4>1, <4>2, <4>3
    <3>2. r = Run(r.start, r.end, r.value) /\ r.start \in Int /\ r.end \in Int
      BY <1>1, <2>1 DEF RunsIn, Run
    <3>3. r.start <= r.end /\ \A t \in r.start..r.end : t \in DOMAIN arr /\ arr[t] = r.value
      BY <1>1, <1>2, <2>1
    <3>4. \A p \in Part(i) : p < r.start
      <4> SUFFICES ASSUME NEW p \in Part(i) PROVE p < r.start
        OBVIOUS
      <4>1. PICK k \in 1..i : p \in Place(k)
        OBVIOUS
      <4>2. k \in 1..n /\ k < j
        BY <2>1
      <4>3. runs[k].end < r.start
        BY <1>2, <2>1, <4>2
      <4>4. runs[k].start \in Int /\ runs[k].end \in Int
        BY <1>1, <4>2 DEF RunsIn
      <4> QED BY <3>2, <4>1, <4>3, <4>4
    <3>5. Cover(Append(kept[i], Run(r.start, r.end, r.value)), arr, Part(i) \cup r.start..r.end)
      <4> HIDE DEF Part, r
      <4> QED BY <2>3, <3>2, <3>3, <3>4, CoverAppend
    <3>6. kept[j] = Append(kept[i], r)
      BY <2>2, <2>6
    <3>7. Cover(kept[j], arr, Part(j))
      <4> HIDE DEF Part
      <4> QED BY <3>1, <3>2, <3>5, <3>6
    <3> HIDE DEF Part
    <3> QED BY <2>1, <3>7
  <2>7. CASE r.value \notin T
    <3>1. Part(j) = Part(i)
      <4>1. \A t \in Place(j) : arr[t] \notin T
        BY <1>2, <2>1, <2>7
      <4> HIDE DEF Place, j
      <4> QED BY <2>4, <2>5, <4>1
    <3>2. kept[j] = kept[i]
      BY <2>2, <2>7
    <3>3. Cover(kept[j], arr, Part(j))
      <4> HIDE DEF Part
      <4> QED BY <2>3, <3>1, <3>2
    <3> HIDE DEF Part
    <3> QED BY <2>1, <3>3
  <2> QED BY <2>6, <2>7
<1>16. n \in D
  <2>1. 0..n \subseteq D
    <3> HIDE DEF D, n
    <3> QED BY <1>1, <1>14, <1>15, UpTo
  <2> QED BY <1>1, <2>1
<1>17. Part(n) = {t \in P : arr[t] \in T}
  BY <1>2
<1>18. Cover(kept[n], arr, Part(n))
  <2> HIDE DEF Part
  <2> QED BY <1>16
<1> HIDE DEF Part
<1> QED BY <1>11, <1>17, <1>18

(* Weighing each run's value by its length is weighing each place's.       *)
LEMMA RunsWeighed ==
  ASSUME NEW arr, NEW runs, NEW P, IsFiniteSet(P), Cover(runs, arr, P),
         NEW w, \A v \in Range(arr) : w[v] \in Int
  PROVE  SumFunctionOnSet([i \in DOMAIN runs |-> LengthOf(runs[i]) * w[runs[i].value]],
                          DOMAIN runs)
           = SumFunctionOnSet([t \in P |-> w[arr[t]]], P)
<1> DEFINE n == Len(runs)
           R == RunsIn(Range(arr))
           f == [i \in DOMAIN runs |-> LengthOf(runs[i]) * w[runs[i].value]]
           g == [t \in P |-> w[arr[t]]]
           Place(i) == runs[i].start..runs[i].end
           Part(i) == {t \in P : \E j \in 1..i : t \in Place(j)}
           D == {i \in 0..n : SumFunctionOnSet(f, 1..i) = SumFunctionOnSet(g, Part(i))}
<1>1. /\ n \in Nat /\ DOMAIN runs = 1..n /\ \A i \in 1..n : runs[i] \in R
      /\ P \subseteq Int /\ P \subseteq DOMAIN arr
  BY DEF Cover
<1>2. /\ \A i \in 1..n : runs[i].start <= runs[i].end
      /\ \A i \in 1..n : \A t \in Place(i) : t \in P /\ arr[t] = runs[i].value
      /\ \A i, j \in 1..n : i < j => runs[i].end < runs[j].start
      /\ \A t \in P : \E i \in 1..n : t \in Place(i)
  BY DEF Cover
<1>3. \A i \in 1..n : /\ runs[i].start \in Int /\ runs[i].end \in Int
                      /\ runs[i].value \in Range(arr) /\ w[runs[i].value] \in Int
  BY <1>1 DEF RunsIn
<1>4. \A i \in 1..n : /\ LengthOf(runs[i]) \in Int
                      /\ f[i] = LengthOf(runs[i]) * w[runs[i].value] /\ f[i] \in Int
  BY <1>1, <1>3 DEF LengthOf
<1>5. \A t \in P : g[t] = w[arr[t]] /\ g[t] \in Int
  BY <1>1 DEF Range
<1> HIDE DEF f, g, R
<1>6. 0 \in D
  <2>1. 1..0 = {} /\ Part(0) = {} /\ 0 \in 0..n
    BY <1>1
  <2> HIDE DEF Part, n
  <2> QED BY <2>1, SumEmpty
<1>7. ASSUME NEW i \in 0..(n - 1), i \in D
      PROVE  i + 1 \in D
  <2> DEFINE j == i + 1
             v == runs[j].value
  <2>1. j \in 1..n /\ j \in 0..n /\ i \in Nat /\ 1..j = (1..i) \cup {j} /\ j \notin 1..i
    BY <1>1
  <2>2. IsFiniteSet(1..i) /\ \A k \in (1..i) \cup {j} : f[k] \in Int
    <3>1. (1..i) \cup {j} \subseteq 1..n
      BY <1>1, <2>1
    <3> QED BY <1>4, <2>1, <3>1, FS_Interval
  <2>3. SumFunctionOnSet(f, 1..j) = f[j] + SumFunctionOnSet(f, 1..i)
    <3> HIDE DEF j
    <3> QED BY <2>1, <2>2, SumAdd
  <2>4. Part(j) = Part(i) \cup Place(j)
    <3>1. Place(j) \subseteq P
      BY <1>2, <2>1
    <3>2. \A k \in 1..j : k \in 1..i \/ k = j
      BY <2>1
    <3>3. 1..i \subseteq 1..j /\ j \in 1..j
      BY <2>1
    <3> HIDE DEF Place, j
    <3> QED BY <3>1, <3>2, <3>3
  <2>5. Part(i) \cap Place(j) = {}
    <3> SUFFICES ASSUME NEW p \in Part(i), p \in Place(j) PROVE FALSE
      OBVIOUS
    <3>1. PICK k \in 1..i : p \in Place(k)
      OBVIOUS
    <3>2. k \in 1..n /\ k < j
      BY <2>1
    <3>3. runs[k].end < runs[j].start
      BY <1>2, <2>1, <3>2
    <3> QED BY <1>3, <2>1, <3>1, <3>2, <3>3
  <2>6. Part(i) \subseteq P /\ Place(j) \subseteq P /\ IsFiniteSet(Part(i)) /\ IsFiniteSet(Place(j))
    <3>1. Part(i) \subseteq P /\ Place(j) \subseteq P
      BY <1>2, <2>1
    <3> HIDE DEF Part, Place
    <3> QED BY <3>1, FS_Subset
  <2>7. SumFunctionOnSet(g, Part(j)) = SumFunctionOnSet(g, Part(i)) + SumFunctionOnSet(g, Place(j))
    <3>1. \A t \in Part(i) \cup Place(j) : g[t] \in Int
      BY <1>5, <2>6
    <3> HIDE DEF Part, Place, j
    <3> QED BY <2>4, <2>5, <2>6, <3>1, SumUnion
  <2>8. \A t \in Place(j) : g[t] = w[v]
    BY <1>2, <1>5, <2>1
  <2>9. SumFunctionOnSet(g, Place(j)) = Cardinality(Place(j)) * w[v]
    <3>1. w[v] \in Int
      BY <1>3, <2>1
    <3> HIDE DEF Place, v
    <3> QED BY <2>6, <2>8, <3>1, SumConstant
  <2>10. Cardinality(Place(j)) = LengthOf(runs[j])
    <3>1. runs[j].start \in Int /\ runs[j].end \in Int /\ runs[j].start <= runs[j].end
      BY <1>2, <1>3, <2>1
    <3> HIDE DEF j
    <3>2. Cardinality(Place(j)) = IF runs[j].start > runs[j].end THEN 0
                                  ELSE runs[j].end - runs[j].start + 1
      BY <3>1, FS_Interval
    <3> QED BY <3>1, <3>2 DEF LengthOf
  <2>11. f[j] = LengthOf(runs[j]) * w[v] /\ f[j] \in Int
    BY <1>4, <2>1
  <2>12. SumFunctionOnSet(f, 1..i) = SumFunctionOnSet(g, Part(i))
    BY <1>7
  <2>13. SumFunctionOnSet(f, 1..i) \in Int
    <3>1. \A k \in 1..i : f[k] \in Int
      BY <2>2
    <3> QED BY <2>2, <3>1, SumType
  <2> HIDE DEF Part, Place, v
  <2>14. SumFunctionOnSet(f, 1..j) = SumFunctionOnSet(g, Part(j))
    BY <2>3, <2>7, <2>9, <2>10, <2>11, <2>12, <2>13
  <2> QED BY <2>1, <2>14
<1>8. n \in D
  <2>1. 0..n \subseteq D
    <3> HIDE DEF D, n
    <3> QED BY <1>1, <1>6, <1>7, UpTo
  <2>2. n \in 0..n
    BY <1>1
  <2> HIDE DEF D, n
  <2> QED BY <2>1, <2>2
<1>9. Part(n) = P
  BY <1>2
<1> HIDE DEF Part
<1>10. SumFunctionOnSet(f, DOMAIN runs) = SumFunctionOnSet(g, P)
  BY <1>1, <1>8, <1>9
<1> QED BY <1>10 DEF f, g

(* The runs with values in T are as long as there are places with them.    *)
LEMMA LengthCounts ==
  ASSUME NEW arr, NEW runs, NEW P, IsFiniteSet(P), Cover(runs, arr, P), NEW T
  PROVE  TotalLength(runs, T) = Cardinality({t \in P : arr[t] \in T})
<1> DEFINE w == [v \in Range(arr) |-> IF v \in T THEN 1 ELSE 0]
           f == [i \in DOMAIN runs |-> LengthOf(runs[i]) * w[runs[i].value]]
           l == [i \in DOMAIN runs |-> LengthOf(runs[i])]
           I == {i \in DOMAIN runs : runs[i].value \in T}
           g == [t \in P |-> w[arr[t]]]
           Q == {t \in P : arr[t] \in T}
<1>1. /\ DOMAIN runs = 1..Len(runs) /\ Len(runs) \in Nat
      /\ \A i \in DOMAIN runs : runs[i] \in RunsIn(Range(arr))
      /\ P \subseteq DOMAIN arr
  BY DEF Cover
<1>2. \A i \in DOMAIN runs : LengthOf(runs[i]) \in Int /\ runs[i].value \in Range(arr)
  BY <1>1 DEF RunsIn, LengthOf
<1>3. \A v \in Range(arr) : w[v] \in Int
  OBVIOUS
<1>4. SumFunctionOnSet(f, DOMAIN runs) = SumFunctionOnSet(g, P)
  <2> HIDE DEF w
  <2> QED BY <1>3, RunsWeighed
<1>5. IsFiniteSet(DOMAIN runs) /\ IsFiniteSet(I) /\ IsFiniteSet(Q) /\ I \in SUBSET DOMAIN runs
  <2>1. IsFiniteSet(DOMAIN runs)
    BY <1>1, FS_Interval
  <2> QED BY <2>1, FS_Subset
<1>6. \A i \in DOMAIN runs : f[i] \in Int /\ (i \notin I => f[i] = 0) /\ (i \in I => f[i] = l[i])
  BY <1>2
<1>7. \A t \in P : g[t] \in Int /\ (t \notin Q => g[t] = 0) /\ (t \in Q => g[t] = 1)
  BY <1>1 DEF Range
<1> HIDE DEF f, l, g
<1>8. SumFunctionOnSet(f, DOMAIN runs) = SumFunctionOnSet(f, I)
  <2> HIDE DEF I
  <2> QED BY <1>5, <1>6, SumNonZero
<1>9. SumFunctionOnSet(f, I) = SumFunctionOnSet(l, I)
  BY <1>5, <1>6, SumSame
<1>10. SumFunctionOnSet(g, P) = SumFunctionOnSet(g, Q)
  <2>1. Q \in SUBSET P
    OBVIOUS
  <2> HIDE DEF Q
  <2> QED BY <2>1, <1>7, SumNonZero
<1>11. SumFunctionOnSet(g, Q) = Cardinality(Q) * 1
  BY <1>5, <1>7, SumConstant
<1>12. Cardinality(Q) * 1 = Cardinality(Q)
  <2>1. Cardinality(Q) \in Nat
    BY <1>5, FS_CardinalityType
  <2> QED BY <2>1
<1>13. TotalLength(runs, T) = SumFunctionOnSet(l, I)
  BY DEF TotalLength, l
<1> QED BY <1>4, <1>8, <1>9, <1>10, <1>11, <1>12, <1>13

(* The runs of a part of an array, told with their places in the whole.    *)
LEMMA CoverShift ==
  ASSUME NEW arr, NEW runs, NEW P, Cover(runs, arr, P), NEW big, NEW d \in Int,
         \A t \in P : t + d \in DOMAIN big /\ big[t + d] = arr[t]
  PROVE  Cover([i \in 1..Len(runs) |-> Run(runs[i].start + d, runs[i].end + d, runs[i].value)],
               big, {t + d : t \in P})
<1> DEFINE n == Len(runs)
           new(i) == Run(runs[i].start + d, runs[i].end + d, runs[i].value)
           moved == [i \in 1..n |-> new(i)]
           Q == {t + d : t \in P}
<1>1. /\ n \in Nat /\ P \subseteq Int
      /\ \A i \in 1..n : /\ runs[i].start \in Int /\ runs[i].end \in Int
                         /\ runs[i].start <= runs[i].end
                         /\ \A t \in runs[i].start..runs[i].end : t \in P /\ arr[t] = runs[i].value
  <2>1. runs \in Seq(RunsIn(Range(arr)))
    BY DEF Cover
  <2>2. \A i \in 1..n : runs[i].start \in Int /\ runs[i].end \in Int
    <3> DEFINE V == Range(arr)
    <3>1. \A r \in RunsIn(V) : r.start \in Int /\ r.end \in Int
      BY DEF RunsIn
    <3>2. \A i \in 1..n : runs[i] \in RunsIn(V)
      BY <2>1
    <3> HIDE DEF V, n
    <3> QED BY <3>1, <3>2
  <2> QED BY <2>1, <2>2 DEF Cover
<1>2. /\ \A i, j \in 1..n : i < j => runs[i].end < runs[j].start
      /\ \A t \in P : \E i \in 1..n : t \in runs[i].start..runs[i].end
  BY DEF Cover
<1>3. \A i \in 1..n : /\ moved[i] = new(i)
                      /\ moved[i].start = runs[i].start + d /\ moved[i].end = runs[i].end + d
                      /\ moved[i].value = runs[i].value
  BY DEF Run
<1>4. Q \subseteq Int /\ Q \subseteq DOMAIN big
  BY <1>1
<1>5. ASSUME NEW i \in 1..n
      PROVE  /\ new(i) \in RunsIn(Range(big))
             /\ moved[i].start <= moved[i].end
             /\ \A u \in moved[i].start..moved[i].end : u \in Q /\ big[u] = moved[i].value
  <2> DEFINE a == runs[i].start
             b == runs[i].end
             c == runs[i].value
  <2>1. a \in Int /\ b \in Int /\ a <= b /\ \A t \in a..b : t \in P /\ arr[t] = c
    BY <1>1
  <2>2. new(i) = Run(a + d, b + d, c)
    OBVIOUS
  <2>3. moved[i].start = a + d /\ moved[i].end = b + d /\ moved[i].value = c
    BY <1>3
  <2> HIDE DEF a, b, c, new, moved
  <2>4. ASSUME NEW u \in (a + d)..(b + d) PROVE u \in Q /\ big[u] = c
    <3>1. u - d \in a..b /\ (u - d) + d = u
      BY <2>1
    <3>2. u - d \in P /\ arr[u - d] = c
      BY <2>1, <3>1
    <3>3. u \in Q
      BY <3>1, <3>2
    <3> QED BY <3>1, <3>2, <3>3
  <2>5. c \in Range(big)
    <3>1. a + d \in (a + d)..(b + d)
      BY <2>1
    <3>2. a + d \in Q /\ big[a + d] = c
      BY <2>4, <3>1
    <3> HIDE DEF Q
    <3> QED BY <1>4, <3>2 DEF Range
  <2>6. new(i) \in RunsIn(Range(big))
    BY <2>1, <2>2, <2>5 DEF RunsIn, Run
  <2>7. moved[i].start <= moved[i].end
    BY <2>1, <2>3
  <2> QED BY <2>3, <2>4, <2>6, <2>7
<1>6. \A i, j \in 1..n : i < j => moved[i].end < moved[j].start
  <2> SUFFICES ASSUME NEW i \in 1..n, NEW j \in 1..n, i < j PROVE moved[i].end < moved[j].start
    OBVIOUS
  <2>1. runs[i].end < runs[j].start /\ runs[i].end \in Int /\ runs[j].start \in Int
    BY <1>1, <1>2
  <2>2. moved[i].end = runs[i].end + d /\ moved[j].start = runs[j].start + d
    BY <1>3
  <2> HIDE DEF moved
  <2> QED BY <2>1, <2>2
<1>7. ASSUME NEW u \in Q PROVE \E i \in 1..n : u \in moved[i].start..moved[i].end
  <2>1. PICK t \in P : u = t + d
    OBVIOUS
  <2>2. PICK i \in 1..n : t \in runs[i].start..runs[i].end
    BY <1>2
  <2>3. moved[i].start = runs[i].start + d /\ moved[i].end = runs[i].end + d
    BY <1>3
  <2>4. u \in moved[i].start..moved[i].end
    <3> HIDE DEF moved
    <3> QED BY <1>1, <2>1, <2>2, <2>3
  <2> QED BY <2>4
<1> HIDE DEF new
<1>8. moved \in Seq(RunsIn(Range(big))) /\ Len(moved) = n
  <2>1. \A i \in 1..n : new(i) \in RunsIn(Range(big))
    BY <1>5
  <2> HIDE DEF n
  <2> QED BY <1>1, <2>1, IsASeq
<1> HIDE DEF moved, Q, n
<1>9. Cover(moved, big, Q)
  BY <1>4, <1>5, <1>6, <1>7, <1>8 DEF Cover
<1> QED BY <1>9 DEF moved, Q, new, n

(* One run for each place.                                                 *)
LEMMA SinglesCover ==
  ASSUME NEW S, NEW arr \in Seq(S)
  PROVE  Cover([s \in 1..Len(arr) |-> Run(s, s, arr[s])], arr, 1..Len(arr))
<1> DEFINE n == Len(arr)
           single(s) == Run(s, s, arr[s])
           runs == [s \in 1..n |-> single(s)]
<1>1. n \in Nat /\ DOMAIN arr = 1..n
  OBVIOUS
<1>2. \A s \in 1..n : /\ runs[s].start = s /\ runs[s].end = s /\ runs[s].value = arr[s]
                      /\ s \in Int
  BY <1>1 DEF Run
<1>3. \A s \in 1..n : single(s) \in RunsIn(Range(arr))
  BY <1>1 DEF Run, RunsIn, Range
<1>4. runs \in Seq(RunsIn(Range(arr))) /\ Len(runs) = n
  <2> HIDE DEF n, single
  <2> QED BY <1>1, <1>3, IsASeq
<1> HIDE DEF runs, n, single
<1>5. \A s \in 1..n : /\ runs[s].start <= runs[s].end
                      /\ \A t \in runs[s].start..runs[s].end : t \in 1..n /\ arr[t] = runs[s].value
  BY <1>2
<1>6. \A i, j \in 1..n : i < j => runs[i].end < runs[j].start
  BY <1>2
<1>7. \A t \in 1..n : \E i \in 1..n : t \in runs[i].start..runs[i].end
  BY <1>2
<1>8. 1..n \subseteq Int /\ 1..n \subseteq DOMAIN arr
  BY <1>1
<1>9. /\ \A i \in 1..Len(runs) :
           /\ runs[i].start <= runs[i].end
           /\ \A t \in runs[i].start..runs[i].end : t \in 1..n /\ arr[t] = runs[i].value
      /\ \A i, j \in 1..Len(runs) : i < j => runs[i].end < runs[j].start
      /\ \A t \in 1..n : \E i \in 1..Len(runs) : t \in runs[i].start..runs[i].end
  BY <1>4, <1>5, <1>6, <1>7
<1> DEFINE P == 1..n
<1> HIDE DEF P
<1>10. Cover(runs, arr, P)
  BY <1>4, <1>8, <1>9 DEF Cover, P
<1> QED BY <1>10 DEF runs, n, single, P

-------------------------------------------------------------------------------
(* A finite set of numbers that is not empty has a greatest and a least    *)
(* one.                                                                    *)
LEMMA MaxIs ==
  ASSUME NEW S, IsFiniteSet(S), S # {}, S \subseteq Int
  PROVE  Max(S) \in S /\ \A x \in S : x <= Max(S)
<1> DEFINE F == {T \in SUBSET S : T = {} \/ \E m \in T : \A y \in T : m >= y}
<1>1. {} \in F
  OBVIOUS
<1>2. ASSUME NEW T \in SUBSET S, NEW x \in S \ T, T \in F
      PROVE  T \cup {x} \in F
  <2>1. CASE T = {}
    <3>1. \A y \in T \cup {x} : x >= y
      BY <2>1
    <3> QED BY <3>1
  <2>2. CASE T # {}
    <3>1. PICK m \in T : \A y \in T : m >= y
      BY <1>2, <2>2
    <3>2. CASE x >= m
      <4>1. \A y \in T \cup {x} : x >= y
        BY <3>1, <3>2
      <4> QED BY <4>1
    <3>3. CASE ~(x >= m)
      <4>1. \A y \in T \cup {x} : m >= y
        BY <3>1, <3>3
      <4> QED BY <4>1
    <3> QED BY <3>2, <3>3
  <2> QED BY <2>1, <2>2
<1>3. S \in F
  <2> HIDE DEF F
  <2> QED BY <1>1, <1>2, SetInduction
<1>4. \E m \in S : \A y \in S : m >= y
  BY <1>3
<1>5. Max(S) \in S /\ \A y \in S : Max(S) >= y
  BY <1>4 DEF Max
<1> QED BY <1>5

LEMMA MinIs ==
  ASSUME NEW S, IsFiniteSet(S), S # {}, S \subseteq Int
  PROVE  Min(S) \in S /\ \A x \in S : Min(S) <= x
<1> DEFINE F == {T \in SUBSET S : T = {} \/ \E m \in T : \A y \in T : m <= y}
<1>1. {} \in F
  OBVIOUS
<1>2. ASSUME NEW T \in SUBSET S, NEW x \in S \ T, T \in F
      PROVE  T \cup {x} \in F
  <2>1. CASE T = {}
    <3>1. \A y \in T \cup {x} : x <= y
      BY <2>1
    <3> QED BY <3>1
  <2>2. CASE T # {}
    <3>1. PICK m \in T : \A y \in T : m <= y
      BY <1>2, <2>2
    <3>2. CASE x <= m
      <4>1. \A y \in T \cup {x} : x <= y
        BY <3>1, <3>2
      <4> QED BY <4>1
    <3>3. CASE ~(x <= m)
      <4>1. \A y \in T \cup {x} : m <= y
        BY <3>1, <3>3
      <4> QED BY <4>1
    <3> QED BY <3>2, <3>3
  <2> QED BY <2>1, <2>2
<1>3. S \in F
  <2> HIDE DEF F
  <2> QED BY <1>1, <1>2, SetInduction
<1>4. \E m \in S : \A y \in S : m <= y
  BY <1>3
<1> QED BY <1>4 DEF Min

(* A finite set is counted in two parts.                                   *)
LEMMA CountSplit ==
  ASSUME NEW A, IsFiniteSet(A), NEW B
  PROVE  /\ IsFiniteSet(A \cap B) /\ IsFiniteSet(A \ B)
         /\ Cardinality(A) \in Nat /\ Cardinality(A \cap B) \in Nat
         /\ Cardinality(A \ B) \in Nat
         /\ Cardinality(A) = Cardinality(A \cap B) + Cardinality(A \ B)
<1>1. IsFiniteSet(A \cap B) /\ IsFiniteSet(A \ B)
  BY FS_Subset
<1>2. /\ Cardinality(A) \in Nat /\ Cardinality(A \cap B) \in Nat
      /\ Cardinality(A \ B) \in Nat
  BY <1>1, FS_CardinalityType
<1>3. (A \cap B) \cup (A \ B) = A /\ (A \cap B) \cap (A \ B) = {}
  OBVIOUS
<1> DEFINE P == A \cap B
           Q == A \ B
<1>4. IsFiniteSet(P) /\ IsFiniteSet(Q) /\ P \cup Q = A /\ P \cap Q = {}
  BY <1>1, <1>3
<1> HIDE DEF P, Q
<1>5. Cardinality(P \cup Q) = Cardinality(P) + Cardinality(Q) - Cardinality(P \cap Q)
  BY <1>4, FS_Union
<1>6. Cardinality(P \cap Q) = 0
  BY <1>4, FS_EmptySet
<1>7. Cardinality(A) = Cardinality(P) + Cardinality(Q) - 0
  BY <1>4, <1>5, <1>6
<1>8. Cardinality(P) \in Nat /\ Cardinality(Q) \in Nat
  BY <1>2 DEF P, Q
<1> QED BY <1>1, <1>2, <1>7, <1>8 DEF P, Q

-------------------------------------------------------------------------------
(* Sequences. *)
LEMMA RangeAppend ==
  ASSUME NEW S, NEW s \in Seq(S), NEW e \in S
  PROVE  Append(s, e) \in Seq(S) /\ Range(Append(s, e)) = Range(s) \cup {e}
<1> DEFINE n == Len(s)
           t == Append(s, e)
<1>1. /\ n \in Nat /\ DOMAIN s = 1..n /\ t \in Seq(S) /\ Len(t) = n + 1 /\ DOMAIN t = 1..(n + 1)
      /\ t[n + 1] = e /\ \A i \in 1..n : t[i] = s[i]
  OBVIOUS
<1> HIDE DEF n, t
<1>2. 1..(n + 1) = 1..n \cup {n + 1}
  BY <1>1
<1>3. Range(t) = Range(s) \cup {e}
  BY <1>1, <1>2 DEF Range
<1> QED BY <1>1, <1>3 DEF t
===============================================================================
