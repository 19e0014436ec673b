----------------------------- MODULE FsmFileProofs -----------------------------
(***************************************************************************)
(* classify_fsm_page and heap_page_to_fsm_slot for every number of slots   *)
(* per page and every page number.                                         *)
(***************************************************************************)
EXTENDS FsmFile, DataFacts

-------------------------------------------------------------------------------
(* The place of page group * GroupSize + offset + 1, offset # 0. *)
LEMMA LeafPlace ==
  ASSUME NEW g \in Nat, NEW o \in 1..LeafNodesPerPage
  PROVE  LET p == g * GroupSize + o + 1
         IN  /\ p \in Nat /\ p # 0
             /\ Level(p) = 2
             /\ LogPageNo(p) = g * LeafNodesPerPage + o - 1
             /\ ParentId(p) = 1 + g * GroupSize
<1> DEFINE p == g * GroupSize + o + 1
<1>1. GroupSize \in Nat \ {0} /\ o \in 0..(GroupSize - 1) /\ o \in Nat
  BY TreeAssumption DEF GroupSize
<1>2. g * GroupSize \in Nat
  BY <1>1, SMTT(30)
<1>3. p \in Nat /\ p # 0 /\ p - 1 = g * GroupSize + o
  BY <1>1, <1>2
<1>4. GroupOf(p) = g /\ OffsetOf(p) = o
  BY <1>1, <1>3, DivModUnique DEF GroupOf, OffsetOf
<1>5. o # 0
  BY TreeAssumption
<1> HIDE DEF p
<1>6. Level(p) = 2
  BY <1>3, <1>4, <1>5 DEF Level
<1>7. LogPageNo(p) = g * LeafNodesPerPage + o - 1 /\ ParentId(p) = 1 + g * GroupSize
  BY <1>3, <1>4, <1>6 DEF LogPageNo, ParentId
<1> QED BY <1>3, <1>6, <1>7 DEF p

(* heap_page_to_fsm_slot finds, for every heap page, a leaf page and a     *)
(* slot of it that the dump lists under exactly that heap page: "inverse   *)
(* of classify_fsm_page for leaf pages".                                   *)
THEOREM LookupIsInverse ==
  ASSUME NEW h \in Nat
  PROVE  /\ FsmPage(h) \in Nat /\ Level(FsmPage(h)) = 2
         /\ FsmSlot(h) \in 0..(LeafNodesPerPage - 1)
         /\ HeapPage(FsmPage(h), FsmSlot(h)) = h
<1> DEFINE k == LeafOf(h)
           g == k \div LeafNodesPerPage
           r == k % LeafNodesPerPage
           o == r + 1
<1>1. /\ k \in Nat /\ FsmSlot(h) \in 0..(LeafNodesPerPage - 1)
      /\ h = k * LeafNodesPerPage + FsmSlot(h)
  BY DivMod, TreeAssumption DEF LeafOf, FsmSlot
<1>2. /\ g \in Nat /\ r \in 0..(LeafNodesPerPage - 1)
      /\ k = g * LeafNodesPerPage + r
  <2> HIDE DEF k
  <2> QED BY <1>1, DivMod, TreeAssumption
<1>a. FsmPage(h) = g * GroupSize + r + 1 + 1
  BY DEF FsmPage
<1> HIDE DEF k, g, r
<1>b. o \in 1..LeafNodesPerPage
  BY <1>2, TreeAssumption
<1>3. FsmPage(h) = g * GroupSize + o + 1
  <2>1. g * GroupSize \in Nat
    BY <1>2, TreeAssumption, SMTT(30) DEF GroupSize
  <2> DEFINE m == g * GroupSize
  <2>2. m \in Nat /\ r \in Nat /\ FsmPage(h) = m + r + 1 + 1
    BY <2>1, <1>2, <1>a
  <2> HIDE DEF m
  <2>3. FsmPage(h) = m + o + 1
    BY <2>2
  <2> QED BY <2>3 DEF m
<1> HIDE DEF o
<1>4. /\ FsmPage(h) \in Nat /\ Level(FsmPage(h)) = 2
      /\ LogPageNo(FsmPage(h)) = g * LeafNodesPerPage + o - 1
  BY <1>2, <1>b, <1>3, LeafPlace
<1>5. g * LeafNodesPerPage \in Nat
  BY <1>2, TreeAssumption, SMTT(30)
<1>6. LogPageNo(FsmPage(h)) = k
  <2> DEFINE m == g * LeafNodesPerPage
  <2>1. m \in Nat /\ r \in Nat /\ k = m + r /\ LogPageNo(FsmPage(h)) = m + o - 1
    BY <1>2, <1>4, <1>5
  <2> HIDE DEF m
  <2> QED BY <2>1 DEF o
<1> QED BY <1>1, <1>4, <1>6 DEF HeapPage

(* And back: looking up the heap page a slot is listed under leads to that *)
(* page and slot, so no two slots of the file are listed under one heap    *)
(* page.                                                                   *)
THEOREM ListedSlotIsFound ==
  ASSUME NEW p \in Nat, Level(p) = 2, NEW s \in 0..(LeafNodesPerPage - 1)
  PROVE  FsmPage(HeapPage(p, s)) = p /\ FsmSlot(HeapPage(p, s)) = s
<1> DEFINE g == GroupOf(p)
           o == OffsetOf(p)
           k == LogPageNo(p)
<1>1. p # 0 /\ o # 0
  BY DEF Level
<1>2. p - 1 \in Nat /\ GroupSize \in Nat \ {0}
  BY <1>1, TreeAssumption DEF GroupSize
<1>3. g \in Nat /\ o \in 0..(GroupSize - 1) /\ p - 1 = g * GroupSize + o
  BY <1>2, DivMod DEF GroupOf, OffsetOf
<1>4. k = g * LeafNodesPerPage + o - 1
  BY <1>1 DEF LogPageNo
<1> HIDE DEF g, o, k
<1>5. o - 1 \in 0..(LeafNodesPerPage - 1)
  BY <1>1, <1>3, TreeAssumption DEF GroupSize
<1>6. g * LeafNodesPerPage \in Nat /\ k = g * LeafNodesPerPage + (o - 1)
  <2>1. g * LeafNodesPerPage \in Nat
    BY <1>3, TreeAssumption, SMTT(30)
  <2> QED BY <2>1, <1>4, <1>5
<1>7. k \div LeafNodesPerPage = g /\ k % LeafNodesPerPage = o - 1 /\ k \in Nat
  <2> DEFINE r == o - 1
  <2>1. r \in 0..(LeafNodesPerPage - 1) /\ k = g * LeafNodesPerPage + r
    BY <1>5, <1>6
  <2> HIDE DEF r
  <2>2. (g * LeafNodesPerPage + r) \div LeafNodesPerPage = g
        /\ (g * LeafNodesPerPage + r) % LeafNodesPerPage = r
    BY <2>1, <1>3, DivModUnique, TreeAssumption
  <2>3. k \in Nat
    BY <2>1, <1>6
  <2> QED BY <2>1, <2>2, <2>3 DEF r
<1>8. HeapPage(p, s) = k * LeafNodesPerPage + s
  BY DEF HeapPage, k
<1>9. LeafOf(HeapPage(p, s)) = k /\ FsmSlot(HeapPage(p, s)) = s
  <2>1. (k * LeafNodesPerPage + s) \div LeafNodesPerPage = k
        /\ (k * LeafNodesPerPage + s) % LeafNodesPerPage = s
    BY <1>7, DivModUnique, TreeAssumption
  <2> QED BY <2>1, <1>8 DEF LeafOf, FsmSlot
<1>10. FsmPage(HeapPage(p, s)) = g * GroupSize + (o - 1) + 1 + 1
  BY <1>7, <1>9 DEF FsmPage
<1>11. g * GroupSize \in Nat
  BY <1>2, <1>3, SMTT(30)
<1>12. FsmPage(HeapPage(p, s)) = p
  <2> DEFINE m == g * GroupSize
  <2>1. m \in Nat /\ p - 1 = m + o /\ FsmPage(HeapPage(p, s)) = m + (o - 1) + 1 + 1
    BY <1>3, <1>10, <1>11
  <2>2. o \in Nat /\ p \in Nat
    BY <1>2, <1>3
  <2> HIDE DEF m
  <2> QED BY <2>1, <2>2
<1> QED BY <1>9, <1>12

(* Every page but the root has its parent before it in the file, one level *)
(* up.  build_fsm_children therefore indexes a tree, and the recursion of  *)
(* dump_node and diff_node from page 0 ends.                               *)
THEOREM ParentsComeFirst ==
  ASSUME NEW p \in Nat \ {0}
  PROVE  ParentId(p) \in 0..(p - 1) /\ Level(ParentId(p)) = Level(p) - 1
<1> DEFINE g == GroupOf(p)
           o == OffsetOf(p)
<1>1. p - 1 \in Nat /\ GroupSize \in Nat \ {0}
  BY TreeAssumption DEF GroupSize
<1>2. g \in Nat /\ o \in 0..(GroupSize - 1) /\ p - 1 = g * GroupSize + o
  BY <1>1, DivMod DEF GroupOf, OffsetOf
<1>3. CASE o = 0
  BY <1>3 DEF ParentId, Level
<1>4. CASE o # 0
  <2>1. Level(p) = 2 /\ ParentId(p) = 1 + g * GroupSize
    BY <1>4 DEF Level, ParentId
  <2> HIDE DEF g, o
  <2>2. g * GroupSize \in Nat
    BY <1>1, <1>2, SMTT(30)
  <2> DEFINE q == 1 + g * GroupSize
  <2>3. q \in Nat /\ q # 0 /\ q \in 0..(p - 1) /\ q - 1 = g * GroupSize + 0
    BY <1>2, <1>4, <2>2
  <2>4. 0 \in 0..(GroupSize - 1)
    BY <1>1
  <2>5. OffsetOf(q) = 0
    BY <1>1, <1>2, <2>3, <2>4, DivModUnique DEF OffsetOf
  <2> HIDE DEF q
  <2>6. Level(q) = 1
    BY <2>3, <2>5 DEF Level
  <2> QED BY <2>1, <2>3, <2>6 DEF q
<1> QED BY <1>3, <1>4

-------------------------------------------------------------------------------
(* Products grow with a factor.                                            *)
LEMMA Products ==
  ASSUME NEW a \in Nat, NEW b \in Nat, NEW n \in Nat
  PROVE  /\ a * n \in Nat /\ (a + 1) * n = a * n + n
         /\ a < b => a * n + n <= b * n
         /\ a <= b => a * n <= b * n
<1>1. a * n \in Nat /\ b * n \in Nat
  BY SMTT(30)
<1>2. (a + 1) * n = a * n + n
  BY SMTT(30)
<1>3. ASSUME a <= b PROVE a * n <= b * n
  <2>1. b - a \in Nat /\ (b - a) * n \in Nat
    BY <1>3, SMTT(30)
  <2>2. b * n = a * n + (b - a) * n
    BY SMTT(30)
  <2> QED BY <1>1, <2>1, <2>2
<1>4. ASSUME a < b PROVE a * n + n <= b * n
  <2>1. b - a - 1 \in Nat /\ (b - a - 1) * n \in Nat
    BY <1>4, SMTT(30)
  <2>2. b * n = (a * n + n) + (b - a - 1) * n
    BY SMTT(30)
  <2> QED BY <1>1, <2>1, <2>2
<1> QED BY <1>1, <1>2, <1>3, <1>4

(* The place of a page behind the root.                                    *)
LEMMA PlaceInGroup ==
  ASSUME NEW p \in Nat \ {0}
  PROVE  /\ GroupOf(p) \in Nat /\ OffsetOf(p) \in 0..LeafNodesPerPage
         /\ GroupOf(p) * GroupSize \in Nat
         /\ p = GroupOf(p) * GroupSize + OffsetOf(p) + 1
<1>1. p - 1 \in Nat /\ GroupSize \in Nat \ {0} /\ GroupSize - 1 = LeafNodesPerPage
  BY TreeAssumption DEF GroupSize
<1>2. /\ GroupOf(p) \in Nat /\ OffsetOf(p) \in 0..(GroupSize - 1)
      /\ p - 1 = GroupOf(p) * GroupSize + OffsetOf(p)
  BY <1>1, DivMod DEF GroupOf, OffsetOf
<1>3. GroupOf(p) * GroupSize \in Nat
  BY <1>1, <1>2, Products
<1> QED BY <1>1, <1>2, <1>3

(* Leaf pages come in the order of the heap pages they have slots for.     *)
LEMMA LeafOrder ==
  ASSUME NEW p \in Nat, NEW q \in Nat, Level(p) = 2, Level(q) = 2, p < q,
         NEW s \in 0..(LeafNodesPerPage - 1), NEW t \in 0..(LeafNodesPerPage - 1)
  PROVE  HeapPage(p, s) < HeapPage(q, t)
<1> DEFINE L == LeafNodesPerPage
           g == GroupOf(p)
           o == OffsetOf(p)
           h == GroupOf(q)
           u == OffsetOf(q)
           j == LogPageNo(p)
           k == LogPageNo(q)
<1>1. p # 0 /\ q # 0 /\ o # 0 /\ u # 0 /\ L \in Nat \ {0} /\ GroupSize = L + 1
  BY TreeAssumption DEF Level, GroupSize
<1>2. /\ g \in Nat /\ o \in 0..L /\ g * GroupSize \in Nat /\ p = g * GroupSize + o + 1
      /\ h \in Nat /\ u \in 0..L /\ h * GroupSize \in Nat /\ q = h * GroupSize + u + 1
  BY <1>1, PlaceInGroup
<1>3. j = g * L + o - 1 /\ k = h * L + u - 1
  BY <1>1 DEF LogPageNo
<1>4. HeapPage(p, s) = j * L + s /\ HeapPage(q, t) = k * L + t
  BY DEF HeapPage
<1>5. s \in 0..(L - 1) /\ t \in 0..(L - 1)
  OBVIOUS
<1> HIDE DEF L, g, o, h, u, j, k
<1>6. g * L \in Nat /\ h * L \in Nat
  BY <1>1, <1>2, Products
<1>7. g <= h
  <2> SUFFICES ASSUME h < g PROVE FALSE
    BY <1>2
  <2>1. h * GroupSize + GroupSize <= g * GroupSize
    BY <1>1, <1>2, Products
  <2> DEFINE a == h * GroupSize
             b == g * GroupSize
  <2>2. a \in Nat /\ b \in Nat /\ p = b + o + 1 /\ q = a + u + 1 /\ a + (L + 1) <= b
    BY <1>1, <1>2, <2>1
  <2> HIDE DEF a, b
  <2> QED BY <1>1, <1>2, <2>2
<1>8. j \in Nat /\ k \in Nat /\ j < k
  <2> DEFINE a == g * L
             b == h * L
  <2>1. a \in Nat /\ b \in Nat /\ j = a + o - 1 /\ k = b + u - 1
    BY <1>3, <1>6
  <2>2. CASE g < h
    <3>1. a + L <= b
      BY <1>1, <1>2, <2>2, Products
    <3> HIDE DEF a, b
    <3> QED BY <1>1, <1>2, <2>1, <3>1
  <2>3. CASE g = h
    <3>1. a = b
      BY <2>3
    <3>2. o < u
      <4> DEFINE c == g * GroupSize
      <4>1. c \in Nat /\ p = c + o + 1 /\ q = c + u + 1
        BY <1>2, <2>3
      <4> HIDE DEF c
      <4> QED BY <1>2, <4>1
    <3> HIDE DEF a, b
    <3> QED BY <1>1, <1>2, <2>1, <3>1, <3>2
  <2> QED BY <1>2, <1>7, <2>2, <2>3
<1>9. j * L + L <= k * L /\ j * L \in Nat /\ k * L \in Nat
  BY <1>1, <1>8, Products
<1> DEFINE a == j * L
           b == k * L
<1>10. a \in Nat /\ b \in Nat /\ a + L <= b /\ HeapPage(p, s) = a + s /\ HeapPage(q, t) = b + t
  BY <1>4, <1>9
<1> HIDE DEF a, b
<1> QED BY <1>1, <1>5, <1>10

(* A page's children come behind it and before every page whose parent is  *)
(* an earlier one and which is still to come.                              *)
LEMMA TreeOrder ==
  ASSUME NEW v \in Nat, NEW c \in Nat, NEW q \in Nat,
         ParentId(c) = v, ParentId(q) < v, v < q
  PROVE  c < q
<1>1. c # 0 /\ q # 0
  BY DEF ParentId
<1> DEFINE L == LeafNodesPerPage
           g == GroupOf(c)
           o == OffsetOf(c)
           h == GroupOf(q)
           u == OffsetOf(q)
<1>2. L \in Nat \ {0} /\ GroupSize = L + 1 /\ GroupSize \in Nat
  BY TreeAssumption DEF GroupSize
<1>3. /\ g \in Nat /\ o \in 0..L /\ g * GroupSize \in Nat /\ c = g * GroupSize + o + 1
      /\ h \in Nat /\ u \in 0..L /\ h * GroupSize \in Nat /\ q = h * GroupSize + u + 1
  BY <1>1, PlaceInGroup
<1>4. /\ ParentId(c) = IF o = 0 THEN 0 ELSE 1 + g * GroupSize
      /\ ParentId(q) = IF u = 0 THEN 0 ELSE 1 + h * GroupSize
  BY <1>1 DEF ParentId, Level
<1> HIDE DEF L, g, o, h, u
<1>5. v # 0
  BY <1>3, <1>4
<1>6. o # 0 /\ v = 1 + g * GroupSize
  BY <1>4, <1>5
<1>7. CASE u # 0
  <2>1. q = h * GroupSize + u + 1 /\ 1 + h * GroupSize < 1 + g * GroupSize
    BY <1>3, <1>4, <1>6, <1>7
  <2>2. h < g
    <3> SUFFICES ASSUME g <= h PROVE FALSE
      BY <1>3
    <3>1. g * GroupSize <= h * GroupSize
      BY <1>2, <1>3, Products
    <3> QED BY <1>3, <2>1, <3>1
  <2>3. h * GroupSize + GroupSize <= g * GroupSize
    BY <1>2, <1>3, <2>2, Products
  <2> DEFINE a == h * GroupSize
             b == g * GroupSize
  <2>4. a \in Nat /\ b \in Nat /\ a + (L + 1) <= b /\ q = a + u + 1 /\ v = 1 + b
    BY <1>2, <1>3, <1>6, <2>3
  <2> HIDE DEF a, b
  <2> QED BY <1>2, <1>3, <2>4
<1>8. CASE u = 0
  <2>1. g * GroupSize < h * GroupSize
    BY <1>3, <1>6, <1>8
  <2>2. g < h
    <3> SUFFICES ASSUME h <= g PROVE FALSE
      BY <1>3
    <3>1. h * GroupSize <= g * GroupSize
      BY <1>2, <1>3, Products
    <3> QED BY <1>3, <2>1, <3>1
  <2>3. g * GroupSize + GroupSize <= h * GroupSize
    BY <1>2, <1>3, <2>2, Products
  <2> DEFINE a == h * GroupSize
             b == g * GroupSize
  <2>4. a \in Nat /\ b \in Nat /\ b + (L + 1) <= a /\ q = a + u + 1 /\ c = b + o + 1
    BY <1>2, <1>3, <2>3
  <2> HIDE DEF a, b
  <2> QED BY <1>2, <1>3, <2>4
<1> QED BY <1>7, <1>8

-------------------------------------------------------------------------------
(* A sequence that has the numbers of S, each once and in rising order.    *)
Sorted(seq, S) ==
  /\ S \subseteq Nat /\ seq \in Seq(Nat)
  /\ \A i \in 1..Len(seq) : seq[i] \in S
  /\ \A i, j \in 1..Len(seq) : i < j => seq[i] < seq[j]
  /\ \A x \in S : \E i \in 1..Len(seq) : seq[i] = x

LEMMA SortedNone == Sorted(<<>>, {})
BY DEF Sorted

LEMMA SortedOne == ASSUME NEW x \in Nat PROVE Sorted(<<x>>, {x})
<1>1. <<x>> \in Seq(Nat) /\ Len(<<x>>) = 1 /\ <<x>>[1] = x
  OBVIOUS
<1> QED BY <1>1 DEF Sorted

LEMMA SortedConcat ==
  ASSUME NEW a, NEW P, Sorted(a, P), NEW b, NEW Q, Sorted(b, Q), \A p \in P, q \in Q : p < q
  PROVE  Sorted(a \o b, P \cup Q)
<1> DEFINE n == Len(a)
           m == Len(b)
           c == a \o b
<1>1. /\ n \in Nat /\ m \in Nat /\ c \in Seq(Nat) /\ Len(c) = n + m
      /\ \A i \in 1..n : c[i] = a[i]
      /\ \A i \in 1..m : c[n + i] = b[i]
  BY ConcatProperties DEF Sorted
<1>2. /\ \A i \in 1..n : a[i] \in P
      /\ \A i \in 1..m : b[i] \in Q
      /\ \A i, j \in 1..n : i < j => a[i] < a[j]
      /\ \A i, j \in 1..m : i < j => b[i] < b[j]
      /\ \A x \in P : \E i \in 1..n : a[i] = x
      /\ \A x \in Q : \E i \in 1..m : b[i] = x
      /\ P \subseteq Nat /\ Q \subseteq Nat
  BY DEF Sorted
<1> HIDE DEF n, m, c
<1>3. \A i \in 1..(n + m) : i \in 1..n \/ (i - n \in 1..m /\ i = n + (i - n) /\ n < i)
  BY <1>1
<1>4. \A i \in 1..n : i \in 1..(n + m)
  BY <1>1
<1>5. \A i \in 1..m : n + i \in 1..(n + m)
  BY <1>1
<1>6. \A i \in 1..(n + m) : c[i] \in P \cup Q
  <2> SUFFICES ASSUME NEW i \in 1..(n + m) PROVE c[i] \in P \cup Q
    OBVIOUS
  <2>1. CASE i \in 1..n
    BY <1>1, <1>2, <2>1
  <2>2. CASE i \notin 1..n
    <3>1. i - n \in 1..m /\ i = n + (i - n)
      BY <1>3, <2>2
    <3>2. c[i] = b[i - n]
      BY <1>1, <3>1
    <3> QED BY <1>2, <3>1, <3>2
  <2> QED BY <2>1, <2>2
<1>7. ASSUME NEW i \in 1..(n + m), NEW j \in 1..(n + m), i < j
      PROVE  c[i] < c[j]
  <2>1. CASE i \in 1..n /\ j \in 1..n
    BY <1>1, <1>2, <1>7, <2>1
  <2>2. CASE i \in 1..n /\ j \notin 1..n
    <3>1. j - n \in 1..m /\ j = n + (j - n)
      BY <1>3, <2>2
    <3>2. c[i] \in P /\ c[j] \in Q
      BY <1>1, <1>2, <2>2, <3>1
    <3> QED BY <3>2
  <2>3. CASE i \notin 1..n
    <3>1. j \notin 1..n
      BY <1>1, <1>7, <2>3
    <3> DEFINE k == i - n
               l == j - n
    <3>2. k \in 1..m /\ i = n + k /\ l \in 1..m /\ j = n + l /\ k < l
      BY <1>1, <1>3, <1>7, <2>3, <3>1
    <3> HIDE DEF k, l
    <3>3. c[i] = b[k] /\ c[j] = b[l]
      BY <1>1, <3>2
    <3> QED BY <1>2, <3>2, <3>3
  <2> QED BY <2>1, <2>2, <2>3
<1>8. ASSUME NEW x \in P \cup Q PROVE \E i \in 1..(n + m) : c[i] = x
  <2>1. CASE x \in P
    <3>1. PICK i \in 1..n : a[i] = x
      BY <1>2, <2>1
    <3> QED BY <1>1, <1>4, <3>1
  <2>2. CASE x \in Q
    <3>1. PICK i \in 1..m : b[i] = x
      BY <1>2, <2>2
    <3> QED BY <1>1, <1>5, <3>1
  <2> QED BY <2>1, <2>2
<1>9. Sorted(c, P \cup Q)
  BY <1>1, <1>2, <1>6, <1>7, <1>8 DEF Sorted
<1> QED BY <1>9 DEF c

LEMMA SortedTail ==
  ASSUME NEW seq, NEW S, Sorted(seq, S), seq # <<>>
  PROVE  /\ Head(seq) \in S /\ \A x \in S : Head(seq) <= x
         /\ Sorted(Tail(seq), S \ {Head(seq)})
<1> DEFINE n == Len(seq)
           t == Tail(seq)
<1>1. /\ n \in Nat /\ n # 0 /\ Head(seq) = seq[1] /\ t \in Seq(Nat) /\ Len(t) = n - 1
      /\ \A i \in 1..(n - 1) : t[i] = seq[i + 1]
  BY HeadTailProperties, EmptySeq DEF Sorted
<1>2. /\ S \subseteq Nat
      /\ \A i \in 1..n : seq[i] \in S
      /\ \A i, j \in 1..n : i < j => seq[i] < seq[j]
      /\ \A x \in S : \E i \in 1..n : seq[i] = x
  BY DEF Sorted
<1> HIDE DEF n, t
<1>3. 1 \in 1..n /\ \A i \in 1..(n - 1) : i + 1 \in 1..n /\ 1 < i + 1
  BY <1>1
<1>4. seq[1] \in S /\ \A i \in 1..n : i = 1 \/ seq[1] < seq[i]
  BY <1>1, <1>2, <1>3
<1>5. \A x \in S : seq[1] <= x
  <2> SUFFICES ASSUME NEW x \in S PROVE seq[1] <= x
    OBVIOUS
  <2>1. PICK k \in 1..n : seq[k] = x
    BY <1>2
  <2>2. k = 1 \/ seq[1] < seq[k]
    BY <1>4
  <2>3. seq[1] \in Nat /\ x \in Nat
    BY <1>2, <1>4
  <2> QED BY <2>1, <2>2, <2>3
<1>6. \A i \in 1..(n - 1) : t[i] \in S \ {seq[1]}
  <2> SUFFICES ASSUME NEW i \in 1..(n - 1) PROVE t[i] \in S \ {seq[1]}
    OBVIOUS
  <2>1. i + 1 \in 1..n /\ seq[1] < seq[i + 1] /\ seq[i + 1] \in S
    BY <1>2, <1>3
  <2>2. t[i] = seq[i + 1] /\ seq[1] \in Nat /\ seq[i + 1] \in Nat
    BY <1>1, <1>2, <1>4, <2>1
  <2> QED BY <2>1, <2>2
<1>7. \A i, j \in 1..(n - 1) : i < j => t[i] < t[j]
  <2> SUFFICES ASSUME NEW i \in 1..(n - 1), NEW j \in 1..(n - 1), i < j PROVE t[i] < t[j]
    OBVIOUS
  <2>1. i + 1 \in 1..n /\ j + 1 \in 1..n /\ i + 1 < j + 1
    BY <1>3
  <2> QED BY <1>1, <1>2, <2>1
<1>8. \A x \in S \ {seq[1]} : \E i \in 1..(n - 1) : t[i] = x
  <2> SUFFICES ASSUME NEW x \in S \ {seq[1]} PROVE \E i \in 1..(n - 1) : t[i] = x
    OBVIOUS
  <2>1. PICK k \in 1..n : seq[k] = x
    BY <1>2
  <2>2. k - 1 \in 1..(n - 1) /\ (k - 1) + 1 = k
    BY <1>1, <2>1
  <2>3. t[k - 1] = seq[k]
    BY <1>1, <2>2
  <2> QED BY <2>1, <2>2, <2>3
<1>9. Sorted(t, S \ {seq[1]})
  BY <1>1, <1>2, <1>6, <1>7, <1>8 DEF Sorted
<1> QED BY <1>1, <1>4, <1>5, <1>9 DEF t

LEMMA SortedWithin ==
  ASSUME NEW n \in Nat, NEW S \in SUBSET (0..n), NEW seq, Sorted(seq, S)
  PROVE  Range(seq) \subseteq 0..n
<1>1. DOMAIN seq = 1..Len(seq) /\ \A i \in 1..Len(seq) : seq[i] \in 0..n
  BY DEF Sorted
<1> QED BY <1>1 DEF Range

(* The index has each page's children, in file order.                      *)
ChildrenOf(p, total) == {q \in 0..(total - 1) : ParentId(q) = p}

LEMMA ChildrenInOrder ==
  ASSUME NEW total \in Nat
  PROVE  /\ BuildChildren(total) \in [0..(total - 1) -> Seq(Nat)]
         /\ \A p \in 0..(total - 1) : Sorted(BuildChildren(total)[p], ChildrenOf(p, total))
<1> DEFINE K == 0..(total - 1)
           A == [K -> Seq(Nat)]
           e == [q \in K |-> <<>>]
           Turn(s, i) == LET parent == ParentId(i - 1)
                         IN  IF parent >= 0 /\ parent < total
                             THEN [s EXCEPT ![parent] = Append(@, i - 1)]
                             ELSE s
           g == [z \in A \X (1..total) |-> Turn(z[1], z[2])]
           Makes(h) == h = [n \in 0..total |->
                              IF n = 0 THEN [q \in 0..(total - 1) |-> <<>>]
                              ELSE LET parent == ParentId(n - 1)
                                   IN  IF parent >= 0 /\ parent < total
                                       THEN [h[n - 1] EXCEPT ![parent] = Append(@, n - 1)]
                                       ELSE h[n - 1]]
           index == CHOOSE h : Makes(h)
           D == {n \in 0..total : \A q \in K : Sorted(index[n][q], ChildrenOf(q, n))}
<1>1. \A n \in Nat : ParentId(n) \in Int /\ (n # 0 => ParentId(n) \in 0..(n - 1))
  BY ParentsComeFirst DEF ParentId
<1>2. e \in A
  OBVIOUS
<1>3. \A s \in A, i \in 1..total : Turn(s, i) \in A
  <2> SUFFICES ASSUME NEW s \in A, NEW i \in 1..total PROVE Turn(s, i) \in A
    OBVIOUS
  <2>1. i - 1 \in Nat
    OBVIOUS
  <2> DEFINE k == i - 1
             v == ParentId(k)
  <2>2. v \in Int /\ k \in Nat
    BY <1>1, <2>1
  <2>3. Turn(s, i) = IF v >= 0 /\ v < total THEN [s EXCEPT ![v] = Append(@, k)] ELSE s
    OBVIOUS
  <2> HIDE DEF v, k, Turn
  <2>4. CASE v >= 0 /\ v < total
    <3>1. v \in K
      BY <2>2, <2>4
    <3>2. Append(s[v], k) \in Seq(Nat)
      BY <2>2, <3>1
    <3> QED BY <2>3, <2>4, <3>1, <3>2
  <2>5. CASE ~(v >= 0 /\ v < total)
    BY <2>3, <2>5
  <2> QED BY <2>4, <2>5
<1>4. g \in [A \X (1..total) -> A]
  <2> HIDE DEF A, Turn
  <2> QED BY <1>3
<1>5. \E h : Recurs(h, total, A, e, g)
  <2> HIDE DEF A, e, g
  <2> QED BY <1>2, <1>4, Recursion
<1>6. PICK h \in [0..total -> A] : h[0] = e /\ \A i \in 1..total : h[i] = g[<<h[i - 1], i>>]
  <2> HIDE DEF A, e, g
  <2> QED BY <1>5 DEF Recurs
<1>7. ASSUME NEW i \in 1..total
      PROVE  h[i] = Turn(h[i - 1], i)
  <2>1. i - 1 \in 0..total
    OBVIOUS
  <2>2. <<h[i - 1], i>> \in A \X (1..total)
    <3> HIDE DEF A
    <3> QED BY <1>6, <2>1
  <2> HIDE DEF A, Turn
  <2> QED BY <1>6, <2>2
<1>8. Makes(h)
  <2>1. \A i \in 0..total : i = 0 \/ i \in 1..total
    OBVIOUS
  <2> HIDE DEF A, g
  <2> QED BY <1>6, <1>7, <2>1
<1>9. Makes(index)
  <2> HIDE DEF Makes
  <2> QED BY <1>8
<1>10. BuildChildren(total) = index[total]
  BY DEF BuildChildren
<1>11. index[0] = e
  <2>1. 0 \in 0..total
    OBVIOUS
  <2> HIDE DEF index
  <2> QED BY <1>9, <2>1
<1>12. \A i \in 1..total : index[i] = Turn(index[i - 1], i)
  <2>1. \A i \in 1..total : i \in 0..total /\ i # 0
    OBVIOUS
  <2> HIDE DEF index
  <2> QED BY <1>9, <2>1
<1> HIDE DEF index, Makes
<1>13. 0 \in D
  <2>1. \A q \in K : index[0][q] = <<>> /\ ChildrenOf(q, 0) = {}
    BY <1>11 DEF ChildrenOf
  <2>2. \A q \in K : Sorted(index[0][q], ChildrenOf(q, 0))
    <3> HIDE DEF K
    <3> QED BY <2>1, SortedNone
  <2>3. 0 \in 0..total
    OBVIOUS
  <2> QED BY <2>2, <2>3
<1>14. \A n \in 0..total : index[n] \in A
  <2> DEFINE E == {n \in 0..total : index[n] \in A}
  <2>1. 0 \in E
    <3> HIDE DEF A
    <3> QED BY <1>2, <1>11
  <2>2. ASSUME NEW n \in 0..(total - 1), n \in E PROVE n + 1 \in E
    <3>1. n + 1 \in 1..total /\ (n + 1) - 1 = n /\ n + 1 \in 0..total
      OBVIOUS
    <3> HIDE DEF A, Turn
    <3>2. index[n + 1] = Turn(index[n], n + 1)
      BY <1>12, <3>1
    <3> QED BY <1>3, <2>2, <3>1, <3>2
  <2> HIDE DEF E
  <2>3. 0..total \subseteq E
    BY <2>1, <2>2, UpTo
  <2> QED BY <2>3 DEF E
<1>15. ASSUME NEW n \in 0..(total - 1), n \in D
       PROVE  n + 1 \in D
  <2> DEFINE v == ParentId(n)
             s == index[n]
             t == index[n + 1]
  <2>1. n \in Nat /\ n + 1 \in 1..total /\ (n + 1) - 1 = n /\ n + 1 \in 0..total /\ n \in 0..total
    OBVIOUS
  <2>2. v \in Int /\ (v \in K \/ v = -1)
    <3>1. n = 0 => v = -1
      BY DEF ParentId
    <3>2. v \in Int /\ (n # 0 => v \in 0..(n - 1))
      BY <1>1, <2>1
    <3> HIDE DEF v
    <3> QED BY <3>1, <3>2
  <2>3. s \in A
    BY <1>14, <2>1
  <2>4. t = Turn(s, n + 1)
    <3> HIDE DEF Turn
    <3> QED BY <1>12, <2>1
  <2>5. t = IF v >= 0 /\ v < total THEN [s EXCEPT ![v] = Append(@, n)] ELSE s
    BY <2>1, <2>4
  <2>6. \A q \in K : Sorted(s[q], ChildrenOf(q, n))
    BY <1>15
  <2> HIDE DEF Turn, s, t
  <2>7. ASSUME NEW q \in K
        PROVE  Sorted(t[q], ChildrenOf(q, n + 1))
    <3>1. CASE q = v
      <4>a. v >= 0 /\ v < total
        BY <2>2, <3>1
      <4>b. t = [s EXCEPT ![v] = Append(@, n)]
        BY <2>5, <4>a
      <4>c. DOMAIN s = K
        BY <2>3
      <4>1. t[q] = Append(s[q], n)
        <5> HIDE DEF v, K, A
        <5> QED BY <3>1, <4>b, <4>c
      <4>2. ChildrenOf(q, n + 1) = ChildrenOf(q, n) \cup {n}
        BY <2>1, <3>1 DEF ChildrenOf
      <4>3. \A x \in ChildrenOf(q, n), y \in {n} : x < y
        BY <2>1 DEF ChildrenOf
      <4>4. Sorted(s[q] \o <<n>>, ChildrenOf(q, n) \cup {n})
        BY <2>1, <2>6, <4>3, SortedOne, SortedConcat
      <4>5. Append(s[q], n) = s[q] \o <<n>>
        <5>1. s[q] \in Seq(Nat) /\ n \in Nat
          BY <2>1, <2>6 DEF Sorted
        <5> HIDE DEF v
        <5> QED BY <5>1, AppendIsConcat
      <4> QED BY <4>1, <4>2, <4>4, <4>5
    <3>2. CASE q # v
      <4>1. t[q] = s[q]
        BY <2>2, <2>3, <2>5, <3>2
      <4>2. ChildrenOf(q, n + 1) = ChildrenOf(q, n)
        BY <2>1, <3>2 DEF ChildrenOf
      <4> QED BY <2>6, <4>1, <4>2
    <3> QED BY <3>1, <3>2
  <2> QED BY <2>1, <2>7 DEF t
<1>16. total \in D
  <2>1. 0..total \subseteq D
    <3> HIDE DEF D
    <3> QED BY <1>13, <1>15, UpTo
  <2> QED BY <2>1
<1>17. index[total] \in A
  <2>1. total \in 0..total
    OBVIOUS
  <2> HIDE DEF A
  <2> QED BY <1>14, <2>1
<1>18. \A p \in K : Sorted(index[total][p], ChildrenOf(p, total))
  BY <1>16
<1> HIDE DEF D
<1> QED BY <1>10, <1>17, <1>18

(* What dump_node and diff_node still have to visit when pages 0 to v - 1  *)
(* have been visited: the pages from v on whose parent was.  They stand in *)
(* file order, so v is the first of them.                                  *)
Waiting(v, total) == {q \in v..(total - 1) : ParentId(q) < v}

LEMMA WalkStarts ==
  ASSUME NEW total \in Nat \ {0}
  PROVE  Sorted(<<0>>, Waiting(0, total))
<1>2. ParentId(0) = -1
  BY DEF ParentId
<1>3. Waiting(0, total) = {0}
  <2>1. \A q \in 0..(total - 1) : q \in Nat
    OBVIOUS
  <2>2. \A q \in 0..(total - 1) : q # 0 => ~(ParentId(q) < 0)
    <3> SUFFICES ASSUME NEW q \in 0..(total - 1), q # 0 PROVE ~(ParentId(q) < 0)
      OBVIOUS
    <3>1. ParentId(q) \in 0..(q - 1)
      BY <2>1, ParentsComeFirst
    <3> QED BY <3>1
  <2>3. 0 \in 0..(total - 1) /\ ParentId(0) < 0
    BY <1>2
  <2> QED BY <2>2, <2>3 DEF Waiting
<1> QED BY <1>3, SortedOne

LEMMA WalkGoesOn ==
  ASSUME NEW total \in Nat, NEW v \in 0..total, NEW stack, Sorted(stack, Waiting(v, total)),
         stack # <<>>
  PROVE  /\ Head(stack) = v /\ v < total
         /\ Sorted(BuildChildren(total)[v] \o Tail(stack), Waiting(v + 1, total))
<1>1. \A q \in Nat : ParentId(q) \in Int /\ ParentId(q) < q
  BY ParentsComeFirst DEF ParentId
<1>2. Head(stack) \in Waiting(v, total) /\ (\A q \in Waiting(v, total) : Head(stack) <= q)
      /\ Sorted(Tail(stack), Waiting(v, total) \ {Head(stack)})
  BY SortedTail
<1>3. v < total
  BY <1>2 DEF Waiting
<1>4. v \in Waiting(v, total)
  BY <1>1, <1>3 DEF Waiting
<1>5. Head(stack) = v
  BY <1>2, <1>4 DEF Waiting
<1>6. Sorted(BuildChildren(total)[v], ChildrenOf(v, total))
  BY <1>3, ChildrenInOrder
<1>7. \A c \in ChildrenOf(v, total), q \in Waiting(v, total) \ {v} : c < q
  <2> SUFFICES ASSUME NEW c \in ChildrenOf(v, total), NEW q \in Waiting(v, total) \ {v}
               PROVE  c < q
    OBVIOUS
  <2>1. c \in Nat /\ q \in Nat /\ ParentId(c) = v /\ ParentId(q) < v /\ v < q /\ v \in Nat
    BY DEF ChildrenOf, Waiting
  <2> QED BY <2>1, TreeOrder
<1>8. Waiting(v + 1, total) = ChildrenOf(v, total) \cup (Waiting(v, total) \ {v})
  <2>1. ASSUME NEW q \in 0..(total - 1)
        PROVE  q \in Waiting(v + 1, total)
                 <=> q \in ChildrenOf(v, total) \/ q \in Waiting(v, total) \ {v}
    <3>1. ParentId(q) \in Int /\ ParentId(q) < q
      BY <1>1
    <3> DEFINE r == ParentId(q)
    <3>2. /\ q \in Waiting(v + 1, total) <=> q \in (v + 1)..(total - 1) /\ r < v + 1
          /\ q \in ChildrenOf(v, total) <=> r = v
          /\ q \in Waiting(v, total) \ {v} <=> q \in v..(total - 1) /\ r < v /\ q # v
      BY DEF Waiting, ChildrenOf
    <3>3. r \in Int /\ r < q
      BY <3>1
    <3> HIDE DEF r
    <3> QED BY <3>2, <3>3
  <2>2. /\ Waiting(v + 1, total) \subseteq 0..(total - 1)
        /\ ChildrenOf(v, total) \subseteq 0..(total - 1)
        /\ Waiting(v, total) \ {v} \subseteq 0..(total - 1)
    BY DEF Waiting, ChildrenOf
  <2> QED BY <2>1, <2>2
<1>9. Sorted(BuildChildren(total)[v] \o Tail(stack),
             ChildrenOf(v, total) \cup (Waiting(v, total) \ {v}))
  BY <1>2, <1>5, <1>6, <1>7, SortedConcat
<1> QED BY <1>3, <1>5, <1>8, <1>9

LEMMA WalkEnds ==
  ASSUME NEW total \in Nat, NEW v \in 0..total, Sorted(<<>>, Waiting(v, total))
  PROVE  v = total
<1> SUFFICES ASSUME v # total PROVE FALSE
  OBVIOUS
<1>1. ParentId(v) < v
  BY ParentsComeFirst DEF ParentId
<1>2. v \in Waiting(v, total)
  BY <1>1 DEF Waiting
<1>3. \E i \in 1..Len(<<>>) : <<>>[i] = v
  BY <1>2 DEF Sorted
<1> QED BY <1>3

-------------------------------------------------------------------------------
(* The slots of a leaf page. *)
SlotArrays == [1..LeafNodesPerPage -> Categories]

LEMMA LeafSlots ==
  ASSUME NEW leaf \in SlotArrays
  PROVE  /\ DOMAIN leaf = 1..LeafNodesPerPage /\ Len(leaf) = LeafNodesPerPage
         /\ leaf \in Seq(Categories)
BY TreeAssumption DEF SlotArrays

LEMMA CategoryBytes == ASSUME NEW c \in Categories PROVE CatToBytes(c) \in Nat
<1>1. FSM_CAT_STEP \in Nat
  BY SizeAssumption, SMTT(30) DEF FSM_CAT_STEP
<1>2. c \in Nat
  BY DEF Categories
<1> DEFINE step == FSM_CAT_STEP
<1> HIDE DEF step
<1>3. c * step \in Nat
  BY <1>1, <1>2, Products DEF step
<1> QED BY <1>3, SizeAssumption DEF CatToBytes, step

LEMMA CategoriesAreFinite == IsFiniteSet(Categories)
<1>1. 0 \in Int /\ 255 \in Int
  OBVIOUS
<1>2. IsFiniteSet(0..255)
  BY <1>1, FS_Interval
<1> QED BY <1>2 DEF Categories

(* compute_leaf_agg finds the highest category and the first slot with it. *)
LEMMA HighestSlot ==
  ASSUME NEW leaf \in SlotArrays
  PROVE  /\ MaxCat(leaf) \in Categories
         /\ \A s \in 1..LeafNodesPerPage : leaf[s] <= MaxCat(leaf)
         /\ MaxSlot(leaf) \in Int
         /\ MaxCat(leaf) # 0 =>
              /\ MaxSlot(leaf) + 1 \in 1..LeafNodesPerPage
              /\ leaf[MaxSlot(leaf) + 1] = MaxCat(leaf)
              /\ \A s \in 1..LeafNodesPerPage :
                   leaf[s] = MaxCat(leaf) => MaxSlot(leaf) + 1 <= s
<1> DEFINE L == LeafNodesPerPage
           m == MaxCat(leaf)
           T == {s \in DOMAIN leaf : leaf[s] = m}
<1>1. DOMAIN leaf = 1..L /\ 1 \in 1..L
  BY LeafSlots, TreeAssumption
<1>2. Range(leaf) \in SUBSET Categories /\ leaf[1] \in Range(leaf)
  BY <1>1 DEF Range, SlotArrays
<1>3. IsFiniteSet(Range(leaf)) /\ Range(leaf) # {} /\ Range(leaf) \subseteq Int
  BY <1>2, CategoriesAreFinite, FS_Subset DEF Categories
<1>4. m \in Range(leaf) /\ \A x \in Range(leaf) : x <= m
  BY <1>3, MaxIs DEF MaxCat
<1>5. m \in Categories
  BY <1>2, <1>4
<1>6. \A s \in 1..L : leaf[s] <= m
  BY <1>1, <1>4 DEF Range
<1>7. IsFiniteSet(T) /\ T # {} /\ T \subseteq Int
  <2>1. IsFiniteSet(1..L)
    BY FS_Interval, TreeAssumption
  <2>2. T \in SUBSET (1..L)
    BY <1>1
  <2>3. T # {}
    BY <1>4 DEF Range
  <2>4. 1..L \subseteq Int
    BY TreeAssumption
  <2> HIDE DEF T, L
  <2>5. IsFiniteSet(T)
    BY <2>1, <2>2, FS_Subset
  <2> QED BY <2>2, <2>3, <2>4, <2>5
<1>8. Min(T) \in T /\ \A s \in T : Min(T) <= s
  <2> HIDE DEF T
  <2> QED BY <1>7, MinIs
<1>9. MaxSlot(leaf) = IF m = 0 THEN -1 ELSE Min(T) - 1
  BY DEF MaxSlot
<1>10. Min(T) \in 1..L /\ leaf[Min(T)] = m
  BY <1>1, <1>8
<1>11. \A s \in 1..L : leaf[s] = m => Min(T) <= s
  BY <1>1, <1>8
<1> DEFINE k == Min(T)
<1>12. k \in 1..L /\ leaf[k] = m /\ \A s \in 1..L : leaf[s] = m => k <= s
  BY <1>10, <1>11
<1>13. MaxSlot(leaf) = IF m = 0 THEN -1 ELSE k - 1
  BY <1>9
<1> HIDE DEF T, k, m
<1>14. k \in Int /\ (k - 1) + 1 = k
  BY <1>12
<1>15. m # 0 => MaxSlot(leaf) + 1 = k
  BY <1>13, <1>14
<1>16. MaxSlot(leaf) \in Int
  BY <1>13, <1>14
<1> QED BY <1>5, <1>6, <1>12, <1>15, <1>16 DEF m

(* Its sums are those of the slots, category by category.                  *)
SlotsWith(leaf, c) == Cardinality({s \in DOMAIN leaf : leaf[s] = c})

LEMMA LeafSums ==
  ASSUME NEW leaf \in SlotArrays
  PROVE  /\ \A c \in Categories : SlotsWith(leaf, c) \in Nat
         /\ TotalAvail(leaf) \in Nat
         /\ TotalAvail(leaf)
              = SumFunctionOnSet([c \in Categories |-> SlotsWith(leaf, c) * CatToBytes(c)],
                                 Categories)
         /\ LeafNodesPerPage
              = SumFunctionOnSet([c \in Categories |-> SlotsWith(leaf, c)], Categories)
<1> DEFINE D == 1..LeafNodesPerPage
           C == Categories
           w == [c \in C |-> CatToBytes(c)]
           one == [c \in C |-> 1]
<1>1. /\ DOMAIN leaf = D /\ IsFiniteSet(D) /\ IsFiniteSet(C)
      /\ Cardinality(D) = LeafNodesPerPage /\ \A s \in D : leaf[s] \in C
  BY LeafSlots, FS_Interval, TreeAssumption, CategoriesAreFinite DEF SlotArrays
<1>2. \A c \in C : SlotsWith(leaf, c) \in Nat
  BY <1>1, FS_Subset, FS_CardinalityType DEF SlotsWith
<1>3. \A c \in C : CatToBytes(c) \in Int /\ CatToBytes(c) \in Nat
  BY CategoryBytes
<1> HIDE DEF D, C
<1>4. SumFunctionOnSet([c \in C |-> Cardinality({s \in D : leaf[s] = c}) * w[c]], C)
        = SumFunctionOnSet([s \in D |-> w[leaf[s]]], D)
  <2>1. \A c \in C : w[c] \in Int
    BY <1>3
  <2> HIDE DEF w
  <2> QED BY <1>1, <2>1, CountsWeighed
<1>5. [s \in D |-> w[leaf[s]]] = [s \in D |-> CatToBytes(leaf[s])]
  BY <1>1
<1>6. [c \in C |-> Cardinality({s \in D : leaf[s] = c}) * w[c]]
        = [c \in C |-> SlotsWith(leaf, c) * CatToBytes(c)]
  BY <1>1 DEF SlotsWith
<1>7. TotalAvail(leaf) = SumFunctionOnSet([s \in D |-> CatToBytes(leaf[s])], D)
  BY <1>1 DEF TotalAvail, SumFunction
<1>8. TotalAvail(leaf) \in Nat
  <2> DEFINE f == [s \in D |-> CatToBytes(leaf[s])]
  <2>1. \A s \in D : f[s] \in Nat
    BY <1>1, <1>3
  <2> HIDE DEF f
  <2>2. SumFunctionOnSet(f, D) \in Nat
    BY <1>1, <2>1, SumNat
  <2> QED BY <1>7, <2>2 DEF f
<1>9. SumFunctionOnSet([c \in C |-> Cardinality({s \in D : leaf[s] = c}) * one[c]], C)
        = SumFunctionOnSet([s \in D |-> one[leaf[s]]], D)
  <2>1. \A c \in C : one[c] \in Int
    OBVIOUS
  <2> HIDE DEF one
  <2> QED BY <1>1, <2>1, CountsWeighed
<1>10. SumFunctionOnSet([s \in D |-> one[leaf[s]]], D) = LeafNodesPerPage
  <2> DEFINE f == [s \in D |-> one[leaf[s]]]
  <2>1. \A s \in D : f[s] = 1
    BY <1>1
  <2> HIDE DEF f
  <2>2. SumFunctionOnSet(f, D) = Cardinality(D) * 1
    BY <1>1, <2>1, SumConstant
  <2> QED BY <1>1, <2>2, TreeAssumption DEF f
<1>11. [c \in C |-> Cardinality({s \in D : leaf[s] = c}) * one[c]]
         = [c \in C |-> SlotsWith(leaf, c)]
  <2>1. \A c \in C : Cardinality({s \in D : leaf[s] = c}) * one[c] = SlotsWith(leaf, c)
    <3> SUFFICES ASSUME NEW c \in C
                 PROVE  Cardinality({s \in D : leaf[s] = c}) * one[c] = SlotsWith(leaf, c)
      OBVIOUS
    <3>1. Cardinality({s \in D : leaf[s] = c}) = SlotsWith(leaf, c) /\ one[c] = 1
      BY <1>1 DEF SlotsWith
    <3>2. SlotsWith(leaf, c) \in Nat
      BY <1>2
    <3> QED BY <3>1, <3>2
  <2> QED BY <2>1
<1> HIDE DEF w, one
<1> QED BY <1>2, <1>4, <1>5, <1>6, <1>7, <1>8, <1>9, <1>10, <1>11 DEF C

(* What load_fsm keeps of a page. *)
Infos == [allzero : BOOLEAN, valid : BOOLEAN, header : Headers,
          inner : [1..NonLeafNodesPerPage -> Categories], leaf : SlotArrays]

LEMMA PageIsKept ==
  ASSUME NEW raw \in RawPages
  PROVE  /\ PageInfo(raw) \in Infos
         /\ PageInfo(raw).valid <=> raw.kind = "ok"
         /\ PageInfo(raw).allzero <=> raw.kind \in {"zero", "short"}
         /\ raw.leaf \in SlotArrays
         /\ raw.kind = "ok" => /\ PageInfo(raw).leaf = raw.leaf
                               /\ PageInfo(raw).inner = raw.inner
         /\ raw.kind # "ok" => TotalAvail(PageInfo(raw).leaf) = 0
<1> DEFINE info == PageInfo(raw)
<1>1. /\ raw.leaf \in SlotArrays /\ raw.header \in Headers
      /\ raw.inner \in [1..NonLeafNodesPerPage -> Categories]
  BY DEF RawPages, SlotArrays
<1>2. /\ Cleared(raw.leaf) \in SlotArrays
      /\ Cleared(raw.inner) \in [1..NonLeafNodesPerPage -> Categories]
  BY <1>1 DEF Cleared, SlotArrays, Categories
<1>3. /\ info.allzero = (raw.kind \in {"zero", "short"}) /\ info.valid = (raw.kind = "ok")
      /\ info.header = raw.header
      /\ info.inner = IF raw.kind = "ok" THEN raw.inner ELSE Cleared(raw.inner)
      /\ info.leaf = IF raw.kind = "ok" THEN raw.leaf ELSE Cleared(raw.leaf)
  BY DEF PageInfo
<1>4. info \in Infos
  BY <1>1, <1>2 DEF PageInfo, Infos
<1>5. TotalAvail(Cleared(raw.leaf)) = 0
  <2> DEFINE f == [s \in 1..LeafNodesPerPage |-> CatToBytes(Cleared(raw.leaf)[s])]
  <2>1. DOMAIN raw.leaf = 1..LeafNodesPerPage
    BY <1>1 DEF SlotArrays
  <2>2. /\ DOMAIN Cleared(raw.leaf) = 1..LeafNodesPerPage
        /\ \A s \in 1..LeafNodesPerPage : Cleared(raw.leaf)[s] = 0
    BY <2>1 DEF Cleared
  <2>3. CatToBytes(0) = 0
    <3>1. FSM_CAT_STEP \in Nat
      BY SizeAssumption, SMTT(30) DEF FSM_CAT_STEP
    <3> QED BY <3>1 DEF CatToBytes
  <2>4. \A s \in 1..LeafNodesPerPage : f[s] = 0
    BY <2>2, <2>3
  <2>5. IsFiniteSet(1..LeafNodesPerPage)
    BY TreeAssumption, FS_Interval
  <2>6. TotalAvail(Cleared(raw.leaf)) = SumFunctionOnSet(f, 1..LeafNodesPerPage)
    BY <2>2 DEF TotalAvail, SumFunction
  <2> HIDE DEF f
  <2> QED BY <2>4, <2>5, <2>6, SumZero
<1> QED BY <1>1, <1>3, <1>4, <1>5

-------------------------------------------------------------------------------
(* The first n pages of a file that are in S. *)
First(n, S) == (0..(n - 1)) \cap S

LEMMA OneMore ==
  ASSUME NEW n \in Nat, NEW S
  PROVE  /\ Cardinality(First(n, S)) \in Nat
         /\ n \in S => First(n + 1, S) = First(n, S) \cup {n}
         /\ n \notin S => First(n + 1, S) = First(n, S)
         /\ Cardinality(First(n + 1, S)) = Cardinality(First(n, S)) + IF n \in S THEN 1 ELSE 0
<1>1. IsFiniteSet(First(n, S)) /\ n \notin First(n, S)
  <2>1. IsFiniteSet(0..(n - 1))
    BY FS_Interval
  <2> QED BY <2>1, FS_Subset DEF First
<1>2. Cardinality(First(n, S)) \in Nat
  BY <1>1, FS_CardinalityType
<1>3. \A q : q \in 0..((n + 1) - 1) <=> q \in 0..(n - 1) \/ q = n
  OBVIOUS
<1>4. n \in S => First(n + 1, S) = First(n, S) \cup {n}
  BY <1>3 DEF First
<1>5. n \notin S => First(n + 1, S) = First(n, S)
  BY <1>3 DEF First
<1>6. Cardinality(First(n, S) \cup {n}) = Cardinality(First(n, S)) + 1
  BY <1>1, FS_AddElement
<1> QED BY <1>2, <1>4, <1>5, <1>6
===============================================================================
