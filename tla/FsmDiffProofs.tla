----------------------------- MODULE FsmDiffProofs -----------------------------
(***************************************************************************)
(* For every pair of files, all options, every number of slots and nodes   *)
(* of a page and every block size: the report names the pages that differ, *)
(* and the totals of its summary are those of the two files.               *)
(***************************************************************************)
EXTENDS FsmDiff, FsmFileProofs

-------------------------------------------------------------------------------
(* Two node arrays of a page and its counterpart: the runs that are not    *)
(* skipped stand for the places that differ.                               *)
LEMMA PairRuns ==
  ASSUME NEW N \in Nat, NEW a \in [1..N -> Categories], NEW b \in [1..N -> Categories]
  PROVE  /\ Pairs(a, b) \in Seq(CategoryPairs) /\ Len(Pairs(a, b)) = N
         /\ \A i \in 1..N : Pairs(a, b)[i] = <<a[i], b[i]>>
         /\ Differs(a, b) \subseteq 1..N /\ IsFiniteSet(Differs(a, b))
         /\ Cover(ChangedRuns(a, b), Pairs(a, b), Differs(a, b))
<1> DEFINE arr == Pairs(a, b)
           T == {v \in CategoryPairs : v[1] # v[2]}
<1>1. DOMAIN a = 1..N /\ Len(a) = N
  OBVIOUS
<1>2. \A i \in 1..N : a[i] \in Categories /\ b[i] \in Categories
  OBVIOUS
<1>3. arr = [i \in 1..N |-> <<a[i], b[i]>>]
  BY <1>1 DEF Pairs
<1>4. \A i \in 1..N : arr[i] = <<a[i], b[i]>> /\ arr[i] \in CategoryPairs
  BY <1>2, <1>3 DEF CategoryPairs
<1>5. arr \in Seq(CategoryPairs) /\ Len(arr) = N
  <2>1. arr \in [1..N -> CategoryPairs]
    BY <1>3, <1>4
  <2> HIDE DEF arr
  <2> QED BY <2>1
<1>6. {t \in 1..N : arr[t] \in T} = Differs(a, b)
  BY <1>1, <1>4 DEF Differs
<1>7. IsFiniteSet(1..N)
  BY FS_Interval
<1>8. Differs(a, b) \subseteq 1..N /\ IsFiniteSet(Differs(a, b))
  BY <1>1, <1>7, FS_Subset DEF Differs
<1>9. ChangedRuns(a, b) = Kept(Compress(arr), T)
  BY DEF ChangedRuns
<1> HIDE DEF arr, T
<1>10. Cover(Compress(arr), arr, 1..N)
  BY <1>5, CompressCovers
<1>11. Cover(Kept(Compress(arr), T), arr, {t \in 1..N : arr[t] \in T})
  BY <1>10, KeptCovers
<1> QED BY <1>4, <1>5, <1>6, <1>8, <1>9, <1>11 DEF arr

(* The totals of the runs, by what the caller takes for a gain.            *)
LEMMA PairCounts ==
  ASSUME NEW N \in Nat, NEW a \in [1..N -> Categories], NEW b \in [1..N -> Categories],
         NEW G \in SUBSET CategoryPairs
  PROVE  LET all == TotalLength(ChangedRuns(a, b), CategoryPairs)
             up == TotalLength(ChangedRuns(a, b), G)
             down == TotalLength(ChangedRuns(a, b), CategoryPairs \ G)
         IN  /\ all \in Nat /\ up \in Nat /\ down \in Nat /\ all = up + down
             /\ all = Cardinality(Differs(a, b))
             /\ G = Higher => up = Cardinality(Gains(a, b))
<1> DEFINE arr == Pairs(a, b)
           runs == ChangedRuns(a, b)
           D == Differs(a, b)
           U == {t \in D : arr[t] \in G}
<1>1. /\ D \subseteq 1..N /\ IsFiniteSet(D) /\ Cover(runs, arr, D)
      /\ \A t \in 1..N : arr[t] = <<a[t], b[t]>>
  BY PairRuns
<1>2. \A t \in 1..N : arr[t] \in CategoryPairs /\ a[t] \in Categories /\ b[t] \in Categories
  <2>1. \A t \in 1..N : a[t] \in Categories /\ b[t] \in Categories
    OBVIOUS
  <2>2. \A c, d \in Categories : <<c, d>> \in CategoryPairs
    BY DEF CategoryPairs
  <2> HIDE DEF arr
  <2> QED BY <1>1, <2>1, <2>2
<1>3. {t \in D : arr[t] \in CategoryPairs} = D
  BY <1>1, <1>2
<1>4. {t \in D : arr[t] \in CategoryPairs \ G} = D \ U
  BY <1>1, <1>2
<1>5. D \cap U = U
  OBVIOUS
<1>6. G = Higher => U = Gains(a, b)
  <2> SUFFICES ASSUME G = Higher PROVE U = Gains(a, b)
    OBVIOUS
  <2>1. DOMAIN a = 1..N
    OBVIOUS
  <2>2. \A t \in 1..N : a[t] \in Int /\ b[t] \in Int
    <3>1. Categories \subseteq Int
      BY DEF Categories
    <3> QED BY <1>2, <3>1
  <2>3. \A t \in 1..N : arr[t] \in G <=> b[t] > a[t]
    <3> SUFFICES ASSUME NEW t \in 1..N PROVE arr[t] \in G <=> b[t] > a[t]
      OBVIOUS
    <3>1. arr[t] = <<a[t], b[t]>> /\ <<a[t], b[t]>> \in CategoryPairs
      BY <1>1, <1>2
    <3> HIDE DEF arr
    <3> QED BY <3>1 DEF Higher
  <2>4. \A t \in 1..N : t \in D <=> a[t] # b[t]
    BY <2>1 DEF Differs
  <2>5. \A t : t \in Gains(a, b) <=> t \in 1..N /\ b[t] > a[t]
    BY <2>1 DEF Gains
  <2>6. \A t : t \in U <=> t \in D /\ arr[t] \in G
    OBVIOUS
  <2> HIDE DEF arr, D, U
  <2>7. \A t : t \in U <=> t \in Gains(a, b)
    <3> SUFFICES ASSUME NEW t PROVE t \in U <=> t \in Gains(a, b)
      OBVIOUS
    <3>1. CASE t \in 1..N
      <4>1. /\ a[t] \in Int /\ b[t] \in Int /\ (arr[t] \in G <=> b[t] > a[t])
            /\ t \in D <=> a[t] # b[t]
        BY <2>2, <2>3, <2>4, <3>1
      <4> QED BY <2>5, <2>6, <3>1, <4>1
    <3>2. CASE t \notin 1..N
      <4>1. t \notin D
        BY <1>1, <3>2
      <4> QED BY <2>5, <2>6, <3>2, <4>1
    <3> QED BY <3>1, <3>2
  <2> QED BY <2>7
<1> HIDE DEF arr, runs, D, U
<1>7. /\ TotalLength(runs, CategoryPairs) = Cardinality({t \in D : arr[t] \in CategoryPairs})
      /\ TotalLength(runs, G) = Cardinality({t \in D : arr[t] \in G})
      /\ TotalLength(runs, CategoryPairs \ G)
           = Cardinality({t \in D : arr[t] \in CategoryPairs \ G})
  BY <1>1, LengthCounts
<1>8. /\ TotalLength(runs, CategoryPairs) = Cardinality(D)
      /\ TotalLength(runs, G) = Cardinality(U)
      /\ TotalLength(runs, CategoryPairs \ G) = Cardinality(D \ U)
  BY <1>3, <1>4, <1>7 DEF U
<1>9. /\ Cardinality(D) \in Nat /\ Cardinality(U) \in Nat /\ Cardinality(D \ U) \in Nat
      /\ Cardinality(D) = Cardinality(U) + Cardinality(D \ U)
  BY <1>1, <1>5, CountSplit
<1> QED BY <1>6, <1>8, <1>9 DEF runs, D

LEMMA NodeSets ==
  ASSUME NEW N \in Nat, NEW a \in [1..N -> Categories], NEW b \in [1..N -> Categories]
  PROVE  Cardinality(Differs(a, b)) \in Nat /\ Cardinality(Gains(a, b)) \in Nat
<1>1. DOMAIN a = 1..N /\ IsFiniteSet(1..N)
  BY FS_Interval
<1>2. Differs(a, b) \subseteq 1..N /\ Gains(a, b) \subseteq 1..N
  BY <1>1 DEF Differs, Gains
<1>3. IsFiniteSet(Differs(a, b)) /\ IsFiniteSet(Gains(a, b))
  BY <1>1, <1>2, FS_Subset
<1> QED BY <1>3, FS_CardinalityType

(* Comparing bytes is comparing categories when the bytes of a category    *)
(* rise with it up to the highest one: for a block size of 256 bytes or    *)
(* more, and as long as 254 steps are less than the largest tuple.         *)
BytesRise == 0 < FSM_CAT_STEP /\ 254 * FSM_CAT_STEP < MaxHeapTupleSize

LEMMA HigherInBytes == ASSUME BytesRise PROVE HigherBytes = Higher
<1> DEFINE step == FSM_CAT_STEP
<1>1. step \in Nat /\ MaxHeapTupleSize \in Nat
  BY SizeAssumption, SMTT(30) DEF FSM_CAT_STEP
<1>2. 0 < step /\ 254 * step < MaxHeapTupleSize
  BY DEF BytesRise
<1>3. ASSUME NEW c \in Categories, NEW d \in Categories, c < d
      PROVE  CatToBytes(c) < CatToBytes(d)
  <2>1. c \in 0..254 /\ d \in 1..255
    BY <1>3 DEF Categories
  <2>2. CatToBytes(c) = c * step
    BY <2>1 DEF CatToBytes
  <2>3. /\ c \in Nat /\ d \in Nat
        /\ c * step \in Nat /\ d * step \in Nat /\ 254 * step \in Nat
        /\ c * step + step <= d * step /\ c * step <= 254 * step
    <3>1. c \in Nat /\ d \in Nat /\ 254 \in Nat /\ c <= 254
      BY <2>1
    <3> HIDE DEF step
    <3>2. d * step \in Nat /\ 254 * step \in Nat
      BY <1>1, <3>1, Products
    <3> QED BY <1>1, <1>3, <3>1, <3>2, Products
  <2> HIDE DEF step
  <2>4. CASE d = 255
    <3>1. CatToBytes(d) = MaxHeapTupleSize
      BY <2>4 DEF CatToBytes
    <3> QED BY <1>1, <1>2, <2>2, <2>3, <3>1
  <2>5. CASE d # 255
    <3>1. CatToBytes(d) = d * step
      BY <2>5 DEF CatToBytes, step
    <3> QED BY <1>1, <1>2, <2>2, <2>3, <3>1
  <2> QED BY <2>4, <2>5
<1>4. \A c, d \in Categories : CatToBytes(d) > CatToBytes(c) <=> d > c
  <2> SUFFICES ASSUME NEW c \in Categories, NEW d \in Categories
               PROVE  CatToBytes(d) > CatToBytes(c) <=> d > c
    OBVIOUS
  <2>1. c \in Int /\ d \in Int /\ CatToBytes(c) \in Int /\ CatToBytes(d) \in Int
    BY CategoryBytes DEF Categories
  <2>2. c < d \/ d < c \/ c = d
    BY <2>1
  <2> QED BY <1>3, <2>1, <2>2
<1>5. \A v \in CategoryPairs : v[1] \in Categories /\ v[2] \in Categories
  BY DEF CategoryPairs
<1> QED BY <1>4, <1>5 DEF HigherBytes, Higher
-------------------------------------------------------------------------------
(* The values of the totals. *)
DiffStats == [changed : Nat, headers : Nat, structural : Nat, slots : Nat, up : Nat,
              down : Nat, added : Nat, removed : Nat, oldAvail : Nat, newAvail : Nat]

LEMMA TotalsBegin == ZeroStats \in DiffStats
BY DEF ZeroStats, DiffStats

LEMMA RunsAdded ==
  ASSUME NEW st \in DiffStats, NEW N \in Nat, NEW a \in [1..N -> Categories],
         NEW b \in [1..N -> Categories], NEW G \in SUBSET CategoryPairs
  PROVE  LET totals == CountRuns(st, ChangedRuns(a, b), G)
         IN  /\ totals \in DiffStats
             /\ totals.slots = st.slots + Cardinality(Differs(a, b))
             /\ totals.up + totals.down = st.up + st.down + Cardinality(Differs(a, b))
             /\ G = Higher => totals.up = st.up + Cardinality(Gains(a, b))
             /\ totals.changed = st.changed
             /\ totals.added = st.added /\ totals.removed = st.removed
<1> DEFINE all == TotalLength(ChangedRuns(a, b), CategoryPairs)
           up == TotalLength(ChangedRuns(a, b), G)
           down == TotalLength(ChangedRuns(a, b), CategoryPairs \ G)
           after == CountRuns(st, ChangedRuns(a, b), G)
<1>1. /\ all \in Nat /\ up \in Nat /\ down \in Nat /\ all = up + down
      /\ all = Cardinality(Differs(a, b))
      /\ G = Higher => up = Cardinality(Gains(a, b))
  BY PairCounts
<1> DEFINE s2 == st.slots + all
           u2 == st.up + up
           d2 == st.down + down
<1>2. after = [st EXCEPT !.slots = s2, !.up = u2, !.down = d2]
  BY DEF CountRuns
<1>6. s2 \in Nat /\ u2 \in Nat /\ d2 \in Nat
  <2>1. st.slots \in Nat /\ st.up \in Nat /\ st.down \in Nat
    BY DEF DiffStats
  <2> HIDE DEF all, up, down
  <2>2. s2 \in Nat
    BY <1>1, <2>1
  <2>3. u2 \in Nat
    BY <1>1, <2>1
  <2>4. d2 \in Nat
    BY <1>1, <2>1
  <2> QED BY <2>2, <2>3, <2>4
<1> HIDE DEF all, up, down, after, s2, u2, d2
<1>7. /\ after \in DiffStats /\ after.slots = s2 /\ after.up = u2 /\ after.down = d2
      /\ after.changed = st.changed /\ after.added = st.added /\ after.removed = st.removed
  BY <1>2, <1>6 DEF DiffStats
<1>3. /\ after \in DiffStats /\ after.slots = st.slots + all
      /\ after.up = st.up + up /\ after.down = st.down + down
      /\ after.changed = st.changed /\ after.added = st.added /\ after.removed = st.removed
  BY <1>7 DEF s2, u2, d2
<1>4. st.up \in Nat /\ st.down \in Nat
  BY DEF DiffStats
<1>5. after.up + after.down = st.up + st.down + all
  BY <1>1, <1>3, <1>4
<1> QED BY <1>1, <1>3, <1>5 DEF after

(* What a changed page adds to the totals.                                 *)
NodesOf(a, b) ==
  Cardinality(Differs(a.leaf, b.leaf))
    + (IF options.internal THEN Cardinality(Differs(a.inner, b.inner)) ELSE 0)
GainsOf(a, b) ==
  Cardinality(Gains(a.leaf, b.leaf))
    + (IF options.internal THEN Cardinality(Gains(a.inner, b.inner)) ELSE 0)

LEMMA PageChanged ==
  ASSUME NEW st \in DiffStats, NEW a \in Infos, NEW b \in Infos, options.internal \in BOOLEAN
  PROVE  LET totals == CountChanged(st, a, b)
         IN  /\ totals \in DiffStats
             /\ totals.slots = st.slots + NodesOf(a, b)
             /\ totals.up + totals.down = st.up + st.down + NodesOf(a, b)
             /\ HigherBytes = Higher => totals.up = st.up + GainsOf(a, b)
             /\ totals.changed = st.changed + 1
             /\ totals.added = st.added /\ totals.removed = st.removed
<1> DEFINE one == [st EXCEPT !.changed = @ + 1]
           headed == CountHeaders(one, a.header, b.header)
           inner == IF options.internal THEN CountInternal(headed, a, b) ELSE headed
           after == CountChanged(st, a, b)
<1>1. /\ a.leaf \in [1..LeafNodesPerPage -> Categories]
      /\ b.leaf \in [1..LeafNodesPerPage -> Categories]
      /\ a.inner \in [1..NonLeafNodesPerPage -> Categories]
      /\ b.inner \in [1..NonLeafNodesPerPage -> Categories]
  BY DEF Infos, SlotArrays
<1>2. /\ LeafNodesPerPage \in Nat /\ NonLeafNodesPerPage \in Nat
      /\ Higher \in SUBSET CategoryPairs /\ HigherBytes \in SUBSET CategoryPairs
  BY TreeAssumption, NonLeafAssumption DEF Higher, HigherBytes
<1>3. after = CountLeaf(inner, a, b)
  BY DEF CountChanged
<1>4. /\ one \in DiffStats /\ one.slots = st.slots /\ one.up = st.up /\ one.down = st.down
      /\ one.changed = st.changed + 1 /\ one.added = st.added /\ one.removed = st.removed
  BY DEF DiffStats
<1> HIDE DEF one
<1>5. /\ headed \in DiffStats /\ headed.slots = st.slots /\ headed.up = st.up
      /\ headed.down = st.down /\ headed.changed = st.changed + 1
      /\ headed.added = st.added /\ headed.removed = st.removed
  <2> DEFINE s == IF a.header.shape # b.header.shape THEN 1 ELSE 0
           h2 == one.headers + 1
           s2 == one.structural + s
  <2>1. h2 \in Nat /\ s2 \in Nat
    <3>1. s \in Nat
      OBVIOUS
    <3> HIDE DEF s
    <3> QED BY <1>4, <3>1 DEF DiffStats
  <2>2. headed = IF a.header = b.header THEN one
                 ELSE [one EXCEPT !.headers = h2, !.structural = s2]
    BY DEF CountHeaders
  <2> HIDE DEF h2, s2, headed
  <2>3. CASE a.header = b.header
    BY <1>4, <2>2, <2>3
  <2>4. CASE a.header # b.header
    BY <1>4, <2>1, <2>2, <2>4 DEF DiffStats
  <2> QED BY <2>3, <2>4
<1> HIDE DEF headed
<1>6. /\ inner \in DiffStats
      /\ inner.slots = st.slots + (IF options.internal THEN Cardinality(Differs(a.inner, b.inner))
                                   ELSE 0)
      /\ inner.up + inner.down
           = st.up + st.down + (IF options.internal THEN Cardinality(Differs(a.inner, b.inner))
                                ELSE 0)
      /\ inner.up = st.up + (IF options.internal THEN Cardinality(Gains(a.inner, b.inner))
                             ELSE 0)
      /\ inner.changed = st.changed + 1
      /\ inner.added = st.added /\ inner.removed = st.removed
  <2>1. CASE options.internal
    <3>1. inner = CountRuns(headed, ChangedRuns(a.inner, b.inner), Higher)
      BY <2>1 DEF CountInternal
    <3> HIDE DEF inner
    <3>2. /\ inner \in DiffStats
          /\ inner.slots = headed.slots + Cardinality(Differs(a.inner, b.inner))
          /\ inner.up + inner.down
               = headed.up + headed.down + Cardinality(Differs(a.inner, b.inner))
          /\ inner.up = headed.up + Cardinality(Gains(a.inner, b.inner))
          /\ inner.changed = headed.changed /\ inner.added = headed.added
          /\ inner.removed = headed.removed
      <4> DEFINE n == NonLeafNodesPerPage
                 f == a.inner
                 g == b.inner
                 G == Higher
      <4>1. /\ n \in Nat /\ f \in [1..n -> Categories] /\ g \in [1..n -> Categories]
            /\ headed \in DiffStats /\ G \in SUBSET CategoryPairs /\ G = Higher
        BY <1>1, <1>2, <1>5
      <4>2. inner = CountRuns(headed, ChangedRuns(f, g), G)
        BY <3>1
      <4> HIDE DEF n, f, g, G
      <4>3. LET totals == CountRuns(headed, ChangedRuns(f, g), G)
            IN  /\ totals \in DiffStats
                /\ totals.slots = headed.slots + Cardinality(Differs(f, g))
                /\ totals.up + totals.down = headed.up + headed.down + Cardinality(Differs(f, g))
                /\ G = Higher => totals.up = headed.up + Cardinality(Gains(f, g))
                /\ totals.changed = headed.changed /\ totals.added = headed.added
                /\ totals.removed = headed.removed
        BY <4>1, RunsAdded
      <4> QED BY <4>1, <4>2, <4>3 DEF f, g
    <3>3. /\ inner.slots = st.slots + Cardinality(Differs(a.inner, b.inner))
          /\ inner.up + inner.down
               = st.up + st.down + Cardinality(Differs(a.inner, b.inner))
          /\ inner.up = st.up + Cardinality(Gains(a.inner, b.inner))
          /\ inner.changed = st.changed + 1
          /\ inner.added = st.added /\ inner.removed = st.removed
      BY <1>5, <3>2
    <3> QED BY <2>1, <3>2, <3>3
  <2>2. CASE ~options.internal
    <3>1. inner = headed
      BY <2>2
    <3>2. st.slots \in Nat /\ st.up \in Nat /\ st.down \in Nat
      BY DEF DiffStats
    <3> HIDE DEF inner
    <3> QED BY <1>5, <2>2, <3>1, <3>2
  <2> QED BY <2>1, <2>2
<1> HIDE DEF inner
<1>7. /\ after \in DiffStats
      /\ after.slots = inner.slots + Cardinality(Differs(a.leaf, b.leaf))
      /\ after.up + after.down = inner.up + inner.down + Cardinality(Differs(a.leaf, b.leaf))
      /\ HigherBytes = Higher => after.up = inner.up + Cardinality(Gains(a.leaf, b.leaf))
      /\ after.changed = inner.changed /\ after.added = inner.added
      /\ after.removed = inner.removed
  <2>1. after = CountRuns(inner, ChangedRuns(a.leaf, b.leaf), HigherBytes)
    BY <1>3 DEF CountLeaf
  <2> DEFINE n == LeafNodesPerPage
             f == a.leaf
             g == b.leaf
  <2>2. n \in Nat /\ f \in [1..n -> Categories] /\ g \in [1..n -> Categories]
    BY <1>1, <1>2
  <2>3. after = CountRuns(inner, ChangedRuns(f, g), HigherBytes)
    BY <2>1
  <2> HIDE DEF after, n, f, g
  <2>4. /\ after \in DiffStats
        /\ after.slots = inner.slots + Cardinality(Differs(f, g))
        /\ after.up + after.down = inner.up + inner.down + Cardinality(Differs(f, g))
        /\ HigherBytes = Higher => after.up = inner.up + Cardinality(Gains(f, g))
        /\ after.changed = inner.changed /\ after.added = inner.added
        /\ after.removed = inner.removed
    BY <1>2, <1>6, <2>2, <2>3, RunsAdded
  <2> QED BY <2>4 DEF f, g
<1> HIDE DEF after
<1>8. /\ Cardinality(Differs(a.leaf, b.leaf)) \in Nat
      /\ Cardinality(Differs(a.inner, b.inner)) \in Nat
      /\ Cardinality(Gains(a.leaf, b.leaf)) \in Nat
      /\ Cardinality(Gains(a.inner, b.inner)) \in Nat
  <2>1. \A n \in Nat : \A f, g \in [1..n -> Categories] :
          Cardinality(Differs(f, g)) \in Nat /\ Cardinality(Gains(f, g)) \in Nat
    BY NodeSets
  <2>2. /\ Cardinality(Differs(a.leaf, b.leaf)) \in Nat
        /\ Cardinality(Gains(a.leaf, b.leaf)) \in Nat
    BY <1>1, <1>2, <2>1
  <2>3. /\ Cardinality(Differs(a.inner, b.inner)) \in Nat
        /\ Cardinality(Gains(a.inner, b.inner)) \in Nat
    BY <1>1, <1>2, <2>1
  <2> QED BY <2>2, <2>3
<1>9. /\ st.slots \in Nat /\ st.up \in Nat /\ st.down \in Nat
      /\ inner.up \in Nat /\ inner.down \in Nat /\ after.up \in Nat /\ after.down \in Nat
  BY <1>6, <1>7 DEF DiffStats
<1> DEFINE dl == Cardinality(Differs(a.leaf, b.leaf))
           di == IF options.internal THEN Cardinality(Differs(a.inner, b.inner)) ELSE 0
           gl == Cardinality(Gains(a.leaf, b.leaf))
           gi == IF options.internal THEN Cardinality(Gains(a.inner, b.inner)) ELSE 0
<1>10. /\ dl \in Nat /\ di \in Nat /\ gl \in Nat /\ gi \in Nat
       /\ NodesOf(a, b) = dl + di /\ GainsOf(a, b) = gl + gi
  BY <1>8 DEF NodesOf, GainsOf
<1>11. /\ inner.slots = st.slots + di /\ inner.up + inner.down = st.up + st.down + di
       /\ inner.up = st.up + gi
       /\ after.slots = inner.slots + dl /\ after.up + after.down = inner.up + inner.down + dl
       /\ HigherBytes = Higher => after.up = inner.up + gl
  BY <1>6, <1>7
<1> HIDE DEF dl, di, gl, gi
<1>12. /\ after.slots = st.slots + NodesOf(a, b)
       /\ after.up + after.down = st.up + st.down + NodesOf(a, b)
       /\ HigherBytes = Higher => after.up = st.up + GainsOf(a, b)
  BY <1>9, <1>10, <1>11
<1> QED BY <1>6, <1>7, <1>12 DEF after
-------------------------------------------------------------------------------
(* A page as it was loaded: it is usable if it is valid in the file.       *)
AsLoaded(f) == [i \in DOMAIN f |-> PageInfo(f[i])]

LEMMA LoadedPages ==
  ASSUME NEW f \in Seq(RawPages)
  PROVE  /\ AsLoaded(f) \in Seq(Infos) /\ Len(AsLoaded(f)) = Len(f) /\ Len(f) \in Nat
         /\ DOMAIN f = 1..Len(f)
         /\ \A i \in 1..Len(f) : AsLoaded(f)[i] = PageInfo(f[i]) /\ f[i] \in RawPages
         /\ AsLoaded(f) = <<>> <=> f = <<>>
         /\ GoodIn(f) \subseteq 0..(Len(f) - 1) /\ IsFiniteSet(GoodIn(f))
         /\ \A p \in Nat : Usable(AsLoaded(f), p) <=> p \in GoodIn(f)
         /\ \A p \in GoodIn(f) : /\ AsLoaded(f)[p + 1] \in Infos
                                 /\ AsLoaded(f)[p + 1].inner = f[p + 1].inner
                                 /\ AsLoaded(f)[p + 1].leaf = f[p + 1].leaf
<1> DEFINE g == AsLoaded(f)
           n == Len(f)
<1>1. n \in Nat /\ DOMAIN f = 1..n /\ \A i \in 1..n : f[i] \in RawPages
  OBVIOUS
<1>2. g = [i \in 1..n |-> PageInfo(f[i])]
  BY <1>1 DEF AsLoaded
<1>3. \A i \in 1..n : PageInfo(f[i]) \in Infos
  BY <1>1, PageIsKept
<1>4. g \in Seq(Infos) /\ Len(g) = n /\ \A i \in 1..n : g[i] = PageInfo(f[i])
  <2>1. g \in [1..n -> Infos]
    BY <1>2, <1>3
  <2>2. \A i \in 1..n : g[i] = PageInfo(f[i])
    BY <1>2
  <2> HIDE DEF g, n
  <2> QED BY <1>1, <2>1, <2>2
<1>5. g = <<>> <=> f = <<>>
  BY <1>1, <1>4, EmptySeq
<1>6. GoodIn(f) \subseteq 0..(n - 1)
  BY DEF GoodIn
<1>7. IsFiniteSet(GoodIn(f))
  <2>1. IsFiniteSet(0..(n - 1))
    BY <1>1, FS_Interval
  <2> QED BY <1>6, <2>1, FS_Subset
<1>8. ASSUME NEW p \in Nat
      PROVE  Usable(g, p) <=> p \in GoodIn(f)
  <2>1. CASE p < n
    <3>1. p + 1 \in 1..n /\ p \in 0..(n - 1)
      BY <1>1, <2>1
    <3>2. g[p + 1] = PageInfo(f[p + 1]) /\ f[p + 1] \in RawPages
      BY <1>1, <1>4, <3>1
    <3>3. /\ PageInfo(f[p + 1]).valid <=> f[p + 1].kind = "ok"
          /\ PageInfo(f[p + 1]).allzero <=> f[p + 1].kind \in {"zero", "short"}
      BY <3>2, PageIsKept
    <3> HIDE DEF g
    <3> QED BY <1>4, <2>1, <3>1, <3>2, <3>3 DEF Usable, GoodIn
  <2>2. CASE ~(p < n)
    <3>1. p \notin 0..(n - 1)
      BY <1>1, <2>2
    <3> HIDE DEF g
    <3> QED BY <1>4, <2>2, <3>1 DEF Usable, GoodIn
  <2> QED BY <2>1, <2>2
<1>9. ASSUME NEW p \in GoodIn(f)
      PROVE  /\ g[p + 1] \in Infos
             /\ g[p + 1].inner = f[p + 1].inner /\ g[p + 1].leaf = f[p + 1].leaf
  <2>1. p + 1 \in 1..n /\ f[p + 1].kind = "ok"
    BY <1>1, <1>6 DEF GoodIn
  <2>2. g[p + 1] = PageInfo(f[p + 1]) /\ f[p + 1] \in RawPages
    BY <1>1, <1>4, <2>1
  <2> HIDE DEF g, n
  <2> QED BY <2>1, <2>2, PageIsKept
<1> HIDE DEF g, n
<1> QED BY <1>1, <1>4, <1>5, <1>6, <1>7, <1>8, <1>9 DEF g, n

-------------------------------------------------------------------------------
(* The states of a run: up to the walk nothing has been compared; in and   *)
(* after it both files are loaded, the pages visited are the first ones of *)
(* the longer file and the stack has those whose parent was among them.    *)
Before == /\ phase \in {"load", "failed"}
          /\ stats = ZeroStats /\ visited = <<>> /\ lines = <<>> /\ deltas = <<>>
          /\ children = <<>> /\ stack = <<>>

Walked == /\ phase \in {"walk", "done"} /\ old # <<>> /\ new # <<>>
          /\ oldPages = AsLoaded(old) /\ newPages = AsLoaded(new)
          /\ children = BuildChildren(TotalMax)
          /\ visited \in Seq(Nat) /\ Len(visited) \in 0..TotalMax
          /\ \A i \in 1..Len(visited) : visited[i] = i - 1
          /\ Sorted(stack, Waiting(Len(visited), TotalMax))
          /\ phase = "done" => stack = <<>>

Shape == /\ <<old, new>> \in FilePairs /\ options \in OptionSets
         /\ oldPages \in {<<>>, AsLoaded(old)} /\ newPages \in {<<>>, AsLoaded(new)}
         /\ stats \in DiffStats
         /\ Before \/ Walked

LEMMA FilesArePages ==
  ASSUME <<old, new>> \in FilePairs, options \in OptionSets
  PROVE  /\ old \in Seq(RawPages) /\ new \in Seq(RawPages)
         /\ Len(old) \in Nat /\ Len(new) \in Nat /\ TotalMax \in Nat
         /\ Len(old) <= TotalMax /\ Len(new) <= TotalMax
         /\ options.internal \in BOOLEAN
<1>1. <<old, new>> \in Seq(RawPages) \X Seq(RawPages)
  BY PairsAssumption
<1>2. old \in Seq(RawPages) /\ new \in Seq(RawPages)
  BY <1>1
<1>3. Len(old) \in Nat /\ Len(new) \in Nat
  BY <1>2
<1>4. options.internal \in BOOLEAN
  BY OptionsAssumption
<1> QED BY <1>2, <1>3, <1>4 DEF TotalMax

(* What the two files have of a page. *)
Added == GoodIn(new) \ GoodIn(old)
Removed == GoodIn(old) \ GoodIn(new)
Altered == {p \in InBoth : \/ old[p + 1].inner # new[p + 1].inner
                           \/ old[p + 1].leaf # new[p + 1].leaf}

LEMMA PageSets ==
  ASSUME Shape
  PROVE  /\ GoodIn(old) \subseteq AllPages /\ GoodIn(new) \subseteq AllPages
         /\ AllPages \subseteq Nat /\ IsFiniteSet(AllPages)
         /\ IsFiniteSet(GoodIn(old)) /\ IsFiniteSet(GoodIn(new))
         /\ InBoth \subseteq AllPages /\ IsFiniteSet(InBoth)
         /\ Altered \subseteq InBoth
         /\ \A p : PageDiffers(p) <=> p \in Added \cup Removed \cup Altered
<1>1. /\ old \in Seq(RawPages) /\ new \in Seq(RawPages) /\ TotalMax \in Nat
      /\ Len(old) \in Nat /\ Len(new) \in Nat
      /\ Len(old) <= TotalMax /\ Len(new) <= TotalMax
  BY FilesArePages DEF Shape
<1>2. /\ GoodIn(old) \subseteq 0..(Len(old) - 1) /\ IsFiniteSet(GoodIn(old))
      /\ GoodIn(new) \subseteq 0..(Len(new) - 1) /\ IsFiniteSet(GoodIn(new))
  BY <1>1, LoadedPages
<1>3. /\ 0..(Len(old) - 1) \subseteq AllPages /\ 0..(Len(new) - 1) \subseteq AllPages
      /\ AllPages \subseteq Nat
  BY <1>1 DEF AllPages
<1>4. IsFiniteSet(AllPages)
  BY <1>1, FS_Interval DEF AllPages
<1>5. InBoth \subseteq AllPages /\ IsFiniteSet(InBoth)
  BY <1>2, <1>3, FS_Subset DEF InBoth
<1>6. Altered \subseteq InBoth
  BY DEF Altered
<1>7. \A p : PageDiffers(p) <=> p \in Added \cup Removed \cup Altered
  BY DEF PageDiffers, Added, Removed, Altered
<1> QED BY <1>2, <1>3, <1>4, <1>5, <1>6, <1>7

(* The status of a page is that of the two files.                          *)
LEMMA StatusOf ==
  ASSUME Shape, Walked, NEW p \in AllPages
  PROVE  /\ PageStatus(p) \in {"ADDED", "REMOVED", "CHANGED", "same", "empty"}
         /\ PageStatus(p) = "ADDED" <=> p \in Added
         /\ PageStatus(p) = "REMOVED" <=> p \in Removed
         /\ PageStatus(p) = "CHANGED" <=> p \in Altered
         /\ p \in InBoth =>
              /\ oldPages[p + 1] \in Infos /\ newPages[p + 1] \in Infos
              /\ oldPages[p + 1].leaf = old[p + 1].leaf
              /\ newPages[p + 1].leaf = new[p + 1].leaf
              /\ oldPages[p + 1].inner = old[p + 1].inner
              /\ newPages[p + 1].inner = new[p + 1].inner
<1>1. old \in Seq(RawPages) /\ new \in Seq(RawPages) /\ p \in Nat
  BY FilesArePages, PageSets DEF Shape
<1>2. oldPages = AsLoaded(old) /\ newPages = AsLoaded(new)
  BY DEF Walked
<1>3. /\ Usable(oldPages, p) <=> p \in GoodIn(old)
      /\ Usable(newPages, p) <=> p \in GoodIn(new)
  BY <1>1, <1>2, LoadedPages
<1>4. p \in InBoth => /\ oldPages[p + 1] \in Infos /\ newPages[p + 1] \in Infos
                      /\ oldPages[p + 1].leaf = old[p + 1].leaf
                      /\ newPages[p + 1].leaf = new[p + 1].leaf
                      /\ oldPages[p + 1].inner = old[p + 1].inner
                      /\ newPages[p + 1].inner = new[p + 1].inner
  BY <1>1, <1>2, LoadedPages DEF InBoth
<1>5. p \in Altered <=> /\ p \in GoodIn(old) /\ p \in GoodIn(new)
                        /\ ~(/\ oldPages[p + 1].inner = newPages[p + 1].inner
                             /\ oldPages[p + 1].leaf = newPages[p + 1].leaf)
  BY <1>4 DEF Altered, InBoth
<1>6. /\ p \in Added <=> p \in GoodIn(new) /\ p \notin GoodIn(old)
      /\ p \in Removed <=> p \in GoodIn(old) /\ p \notin GoodIn(new)
  BY DEF Added, Removed
<1>7. /\ PageStatus(p) \in {"ADDED", "REMOVED", "CHANGED", "same", "empty"}
      /\ PageStatus(p) = "ADDED" <=> p \in Added
      /\ PageStatus(p) = "REMOVED" <=> p \in Removed
      /\ PageStatus(p) = "CHANGED" <=> p \in Altered
  BY <1>3, <1>5, <1>6 DEF PageStatus
<1> QED BY <1>4, <1>7

(* A page that diff_node is called for.                                    *)
LEMMA ComparedPage ==
  ASSUME Shape, DiffNode
  PROVE  LET v == Len(visited)
             a == oldPages[v + 1]
             b == newPages[v + 1]
         IN  /\ Walked /\ v \in Nat /\ v \in AllPages /\ v + 1 \in 0..TotalMax
             /\ visited' = Append(visited, v) /\ Len(visited') = v + 1
             /\ Sorted(stack', Waiting(v + 1, TotalMax))
             /\ lines' = IF Shown(v, PageStatus(v)) THEN Append(lines, <<v, PageStatus(v)>>)
                         ELSE lines
             /\ stats' = CASE PageStatus(v) = "ADDED" -> [stats EXCEPT !.added = @ + 1]
                           [] PageStatus(v) = "REMOVED" -> [stats EXCEPT !.removed = @ + 1]
                           [] PageStatus(v) = "CHANGED" -> CountChanged(stats, a, b)
                           [] OTHER -> stats
             /\ deltas' = IF PageStatus(v) = "CHANGED" THEN deltas \o LeafDeltas(v, a, b)
                          ELSE deltas
<1> DEFINE v == Len(visited)
           total == TotalMax
<1>1. phase = "walk" /\ stack # <<>>
  BY DEF DiffNode
<1>2. Walked
  BY <1>1 DEF Shape, Before
<1>3. /\ total \in Nat /\ v \in 0..total /\ Sorted(stack, Waiting(v, total))
      /\ visited \in Seq(Nat)
  BY <1>2, FilesArePages DEF Walked, Shape
<1>4. /\ Head(stack) = v /\ v < total
      /\ Sorted(BuildChildren(total)[v] \o Tail(stack), Waiting(v + 1, total))
  <2> HIDE DEF v, total
  <2> QED BY <1>1, <1>3, WalkGoesOn
<1>5. v \in Nat /\ v \in AllPages /\ v + 1 \in 0..total
  BY <1>3, <1>4 DEF AllPages
<1>6. stack' = BuildChildren(total)[v] \o Tail(stack)
  BY <1>2, <1>4 DEF DiffNode, Walked
<1>7. visited' = Append(visited, v)
  BY <1>4 DEF DiffNode
<1>8. Len(visited') = v + 1
  BY <1>3, <1>5, <1>7
<1>9. /\ lines' = IF Shown(v, PageStatus(v)) THEN Append(lines, <<v, PageStatus(v)>>) ELSE lines
      /\ deltas' = IF PageStatus(v) = "CHANGED"
                   THEN deltas \o LeafDeltas(v, oldPages[v + 1], newPages[v + 1])
                   ELSE deltas
  BY <1>4 DEF DiffNode
<1>10. stats' = CASE PageStatus(v) = "ADDED" -> [stats EXCEPT !.added = @ + 1]
                  [] PageStatus(v) = "REMOVED" -> [stats EXCEPT !.removed = @ + 1]
                  [] PageStatus(v) = "CHANGED"
                       -> CountChanged(stats, oldPages[v + 1], newPages[v + 1])
                  [] OTHER -> stats
  BY <1>4 DEF DiffNode
<1> QED BY <1>2, <1>4, <1>5, <1>6, <1>7, <1>8, <1>9, <1>10
(* What such a page adds to the totals.                                    *)
LEMMA TotalsCompared ==
  ASSUME Shape, DiffNode
  PROVE  LET v == Len(visited)
         IN  /\ stats' \in DiffStats
             /\ stats'.added = stats.added + IF v \in Added THEN 1 ELSE 0
             /\ stats'.removed = stats.removed + IF v \in Removed THEN 1 ELSE 0
             /\ stats'.changed = stats.changed + IF v \in Altered THEN 1 ELSE 0
             /\ v \notin Altered => /\ stats'.slots = stats.slots /\ stats'.up = stats.up
                                    /\ stats'.down = stats.down
             /\ v \in Altered =>
                  /\ stats'.slots = stats.slots + NodesOf(old[v + 1], new[v + 1])
                  /\ stats'.up + stats'.down
                       = stats.up + stats.down + NodesOf(old[v + 1], new[v + 1])
                  /\ HigherBytes = Higher =>
                       stats'.up = stats.up + GainsOf(old[v + 1], new[v + 1])
<1> DEFINE v == Len(visited)
           a == oldPages[v + 1]
           b == newPages[v + 1]
           s == PageStatus(v)
<1>1. Walked /\ v \in AllPages
  BY ComparedPage
<1>2. stats' = CASE s = "ADDED" -> [stats EXCEPT !.added = @ + 1]
                 [] s = "REMOVED" -> [stats EXCEPT !.removed = @ + 1]
                 [] s = "CHANGED" -> CountChanged(stats, a, b)
                 [] OTHER -> stats
  BY ComparedPage
<1>3. /\ s \in {"ADDED", "REMOVED", "CHANGED", "same", "empty"}
      /\ s = "ADDED" <=> v \in Added
      /\ s = "REMOVED" <=> v \in Removed
      /\ s = "CHANGED" <=> v \in Altered
  BY <1>1, StatusOf
<1>4. v \in Altered => /\ a \in Infos /\ b \in Infos
                       /\ NodesOf(a, b) = NodesOf(old[v + 1], new[v + 1])
                       /\ GainsOf(a, b) = GainsOf(old[v + 1], new[v + 1])
  <2>1. v \in Altered => v \in InBoth
    BY DEF Altered
  <2>2. v \in InBoth => /\ a \in Infos /\ b \in Infos
                        /\ a.leaf = old[v + 1].leaf /\ b.leaf = new[v + 1].leaf
                        /\ a.inner = old[v + 1].inner /\ b.inner = new[v + 1].inner
    BY <1>1, StatusOf
  <2> HIDE DEF a, b, v
  <2> QED BY <2>1, <2>2 DEF NodesOf, GainsOf
<1>5. stats \in DiffStats /\ options.internal \in BOOLEAN
  BY FilesArePages DEF Shape
<1>6. stats.added \in Nat /\ stats.removed \in Nat /\ stats.changed \in Nat
  BY <1>5 DEF DiffStats
<1> HIDE DEF v, a, b, s
<1>7. CASE s = "ADDED"
  <2>1. stats' = [stats EXCEPT !.added = @ + 1]
    BY <1>2, <1>7
  <2>2. /\ stats' \in DiffStats /\ stats'.added = stats.added + 1
        /\ stats'.removed = stats.removed /\ stats'.changed = stats.changed
        /\ stats'.slots = stats.slots /\ stats'.up = stats.up /\ stats'.down = stats.down
    BY <1>5, <2>1 DEF DiffStats
  <2>3. v \in Added /\ v \notin Removed /\ v \notin Altered
    BY <1>3, <1>7
  <2> QED BY <1>6, <2>2, <2>3 DEF v
<1>8. CASE s = "REMOVED"
  <2>1. stats' = [stats EXCEPT !.removed = @ + 1]
    BY <1>2, <1>8
  <2>2. /\ stats' \in DiffStats /\ stats'.removed = stats.removed + 1
        /\ stats'.added = stats.added /\ stats'.changed = stats.changed
        /\ stats'.slots = stats.slots /\ stats'.up = stats.up /\ stats'.down = stats.down
    BY <1>5, <2>1 DEF DiffStats
  <2>3. v \notin Added /\ v \in Removed /\ v \notin Altered
    BY <1>3, <1>8
  <2> QED BY <1>6, <2>2, <2>3 DEF v
<1>9. CASE s = "CHANGED"
  <2>1. stats' = CountChanged(stats, a, b)
    BY <1>2, <1>9
  <2>2. v \notin Added /\ v \notin Removed /\ v \in Altered
    BY <1>3, <1>9
  <2>3. /\ stats' \in DiffStats
        /\ stats'.slots = stats.slots + NodesOf(a, b)
        /\ stats'.up + stats'.down = stats.up + stats.down + NodesOf(a, b)
        /\ HigherBytes = Higher => stats'.up = stats.up + GainsOf(a, b)
        /\ stats'.changed = stats.changed + 1
        /\ stats'.added = stats.added /\ stats'.removed = stats.removed
    <3> DEFINE st == stats
               after == stats'
    <3>1. /\ st \in DiffStats /\ a \in Infos /\ b \in Infos /\ options.internal \in BOOLEAN
          /\ after = CountChanged(st, a, b)
      BY <1>4, <1>5, <2>1, <2>2
    <3> HIDE DEF st, after
    <3>2. /\ after \in DiffStats
          /\ after.slots = st.slots + NodesOf(a, b)
          /\ after.up + after.down = st.up + st.down + NodesOf(a, b)
          /\ HigherBytes = Higher => after.up = st.up + GainsOf(a, b)
          /\ after.changed = st.changed + 1
          /\ after.added = st.added /\ after.removed = st.removed
      BY <3>1, PageChanged
    <3> QED BY <3>2 DEF st, after
  <2> QED BY <1>4, <1>6, <2>2, <2>3 DEF v
<1>10. CASE s \in {"same", "empty"}
  <2>1. stats' = stats
    BY <1>2, <1>10
  <2>2. v \notin Added /\ v \notin Removed /\ v \notin Altered
    BY <1>3, <1>10
  <2> QED BY <1>5, <1>6, <2>1, <2>2 DEF v
<1> QED BY <1>3, <1>7, <1>8, <1>9, <1>10

(* sum_leaf_avail adds up the usable leaf pages: a page that is not has    *)
(* been cleared.                                                           *)
LEMMA AvailOfFile ==
  ASSUME NEW f \in Seq(RawPages)
  PROVE  /\ SumLeafAvail(AsLoaded(f)) \in Nat
         /\ SumLeafAvail(AsLoaded(f)) = AvailOf(f, {p \in GoodIn(f) : Level(p) = 2})
<1> DEFINE g == AsLoaded(f)
           n == Len(f)
           avail == AvailAt(g)
           S == {i \in DOMAIN g : Level(i - 1) = 2 /\ (g[i].allzero \/ g[i].valid)}
           G == {p \in GoodIn(f) : Level(p) = 2}
           R == {p + 1 : p \in G}
           h == [p \in G |-> TotalAvail(f[p + 1].leaf)]
<1>1. /\ n \in Nat /\ DOMAIN g = 1..n /\ GoodIn(f) \subseteq 0..(n - 1) /\ IsFiniteSet(GoodIn(f))
      /\ \A i \in 1..n : g[i] = PageInfo(f[i]) /\ f[i] \in RawPages
      /\ \A p \in GoodIn(f) : g[p + 1].leaf = f[p + 1].leaf
  BY LoadedPages
<1>2. avail = [i \in 1..n |-> TotalAvail(g[i].leaf)]
  BY <1>1 DEF AvailAt
<1>3. ASSUME NEW i \in 1..n
      PROVE  /\ avail[i] \in Nat
             /\ g[i].valid <=> f[i].kind = "ok"
             /\ f[i].kind # "ok" => avail[i] = 0
  <2>1. g[i] = PageInfo(f[i]) /\ f[i] \in RawPages
    BY <1>1
  <2>2. /\ g[i] \in Infos /\ (g[i].valid <=> f[i].kind = "ok")
        /\ f[i].kind # "ok" => TotalAvail(g[i].leaf) = 0
    BY <2>1, PageIsKept
  <2>3. g[i].leaf \in SlotArrays
    BY <2>2 DEF Infos
  <2>4. TotalAvail(g[i].leaf) \in Nat
    BY <2>3, LeafSums
  <2>5. avail[i] = TotalAvail(g[i].leaf)
    BY <1>2
  <2> QED BY <2>2, <2>4, <2>5
<1>4. IsFiniteSet(S) /\ S \subseteq 1..n
  <2>1. IsFiniteSet(1..n)
    <3>1. n \in Int /\ 1 \in Int
      BY <1>1
    <3> HIDE DEF n
    <3> QED BY <3>1, FS_Interval
  <2>2. S \subseteq 1..n
    BY <1>1
  <2> QED BY <2>1, <2>2, FS_Subset
<1>5. IsFiniteSet(G) /\ G \subseteq Int /\ \A p \in G : p + 1 \in 1..n /\ p + 1 - 1 = p
  BY <1>1, FS_Subset
<1>6. R \subseteq S
  <2> SUFFICES ASSUME NEW p \in G PROVE p + 1 \in S
    OBVIOUS
  <2>1. p + 1 \in 1..n /\ p + 1 - 1 = p /\ Level(p) = 2 /\ f[p + 1].kind = "ok"
    BY <1>5 DEF GoodIn
  <2>2. g[p + 1].valid
    BY <1>3, <2>1
  <2> HIDE DEF g
  <2> QED BY <1>1, <2>1, <2>2
<1>7. \A i \in S : i \notin R => avail[i] = 0
  <2> SUFFICES ASSUME NEW i \in S, f[i].kind = "ok" PROVE i \in R
    BY <1>3, <1>4
  <2>1. i \in 1..n /\ i - 1 \in 0..(n - 1) /\ (i - 1) + 1 = i /\ Level(i - 1) = 2
    BY <1>1, <1>4
  <2>2. i - 1 \in GoodIn(f)
    BY <2>1 DEF GoodIn
  <2> QED BY <2>1, <2>2
<1>8. SumLeafAvail(g) = SumFunctionOnSet(avail, S)
  BY DEF SumLeafAvail
<1>9. AvailOf(f, G) = SumFunctionOnSet(h, G)
  BY DEF AvailOf
<1>10. \A p \in G : h[p] \in Int /\ avail[p + 1] = h[p]
  <2> SUFFICES ASSUME NEW p \in G PROVE h[p] \in Int /\ avail[p + 1] = h[p]
    OBVIOUS
  <2>1. h[p] = TotalAvail(f[p + 1].leaf) /\ p \in GoodIn(f) /\ p + 1 \in 1..n
    BY <1>5
  <2>2. avail[p + 1] = TotalAvail(g[p + 1].leaf) /\ g[p + 1].leaf = f[p + 1].leaf
    BY <1>1, <1>2, <2>1
  <2>3. avail[p + 1] \in Nat
    BY <1>3, <2>1
  <2> HIDE DEF avail, h, g
  <2> QED BY <2>1, <2>2, <2>3
<1> HIDE DEF g, avail, S, h
<1>11. SumFunctionOnSet(avail, S) \in Nat
  BY <1>3, <1>4, SumNat
<1>12. SumFunctionOnSet(avail, S) = SumFunctionOnSet(avail, R)
  <2>1. R \in SUBSET S /\ \A i \in S : avail[i] \in Int /\ (i \notin R => avail[i] = 0)
    BY <1>3, <1>4, <1>6, <1>7
  <2> HIDE DEF R
  <2> QED BY <1>4, <2>1, SumNonZero
<1>13. SumFunctionOnSet(avail, R) = SumFunctionOnSet(h, G)
  <2>1. 1 \in Int
    OBVIOUS
  <2> HIDE DEF G
  <2> QED BY <1>5, <1>10, <2>1, SumShift
<1> QED BY <1>8, <1>9, <1>11, <1>12, <1>13 DEF g
-------------------------------------------------------------------------------
LEMMA ShapeBegins == Init => Shape
<1> SUFFICES ASSUME Init PROVE Shape
  OBVIOUS
<1>1. PICK pair \in FilePairs : old = pair[1] /\ new = pair[2]
  BY DEF Init
<1>2. <<old, new>> \in FilePairs
  <2>1. pair \in Seq(RawPages) \X Seq(RawPages)
    BY PairsAssumption
  <2>2. pair = <<pair[1], pair[2]>>
    BY <2>1
  <2> QED BY <1>1, <2>2
<1>3. /\ options \in OptionSets /\ oldPages = <<>> /\ newPages = <<>> /\ stats = ZeroStats
      /\ Before
  BY DEF Init, Before
<1> QED BY <1>2, <1>3, TotalsBegin DEF Shape

LEMMA ShapeStays == Shape /\ [Next]_vars => Shape'
<1> SUFFICES ASSUME Shape, [Next]_vars PROVE Shape'
  OBVIOUS
<1>1. old' = old /\ new' = new /\ options' = options
  BY DEF Next, Step, Ended, LoadFails, LoadOld, LoadNew, OutFails, StartWalk, DiffNode,
         Summarise, vars
<1>2. <<old', new'>> \in FilePairs /\ options' \in OptionSets
  BY <1>1 DEF Shape
<1>3. AsLoaded(old)' = AsLoaded(old) /\ AsLoaded(new)' = AsLoaded(new) /\ TotalMax' = TotalMax
  BY <1>1 DEF AsLoaded, TotalMax
<1>4. CASE LoadFails \/ OutFails
  <2>1. /\ phase = "load" /\ phase' = "failed"
        /\ UNCHANGED <<oldPages, newPages, children, stack, visited, lines, stats, deltas>>
    BY <1>4 DEF LoadFails, OutFails, Loaded
  <2>2. Before'
    BY <2>1 DEF Shape, Before, Walked
  <2> QED BY <1>2, <1>3, <2>1, <2>2 DEF Shape
<1>5. CASE LoadOld \/ LoadNew
  <2>1. /\ phase = "load"
        /\ UNCHANGED <<phase, children, stack, visited, lines, stats, deltas>>
    BY <1>5 DEF LoadOld, LoadNew
  <2>2. Before'
    BY <2>1 DEF Shape, Before, Walked
  <2>3. /\ oldPages' \in {<<>>, AsLoaded(old)} /\ newPages' \in {<<>>, AsLoaded(new)}
    BY <1>5 DEF LoadOld, LoadNew, Shape, AsLoaded
  <2> QED BY <1>2, <1>3, <2>1, <2>2, <2>3 DEF Shape
<1>6. CASE StartWalk
  <2>1. /\ phase = "load" /\ oldPages # <<>> /\ newPages # <<>> /\ phase' = "walk"
        /\ stack' = <<0>> /\ children' = BuildChildren(TotalMax)
        /\ UNCHANGED <<oldPages, newPages, visited, lines, stats, deltas>>
    BY <1>6 DEF StartWalk, Loaded
  <2>2. oldPages = AsLoaded(old) /\ newPages = AsLoaded(new) /\ visited = <<>>
    BY <2>1 DEF Shape, Before, Walked
  <2>3. old # <<>> /\ new # <<>> /\ TotalMax \in Nat \ {0}
    <3>1. old \in Seq(RawPages) /\ new \in Seq(RawPages)
      BY FilesArePages DEF Shape
    <3>2. old # <<>> /\ new # <<>>
      BY <2>1, <2>2, <3>1, LoadedPages
    <3>3. Len(old) # 0 /\ Len(old) <= TotalMax /\ TotalMax \in Nat /\ Len(old) \in Nat
      BY <3>1, <3>2, EmptySeq, FilesArePages DEF Shape
    <3> QED BY <3>2, <3>3
  <2>4. Sorted(stack', Waiting(0, TotalMax))
    BY <2>1, <2>3, WalkStarts
  <2>5. visited' = <<>> /\ Len(visited') = 0 /\ visited' \in Seq(Nat)
    BY <2>1, <2>2
  <2>6. Walked'
    BY <1>1, <1>3, <2>1, <2>2, <2>3, <2>4, <2>5 DEF Walked
  <2>7. stats' \in DiffStats
    BY <2>1 DEF Shape
  <2> QED BY <1>2, <1>3, <2>1, <2>2, <2>6, <2>7 DEF Shape
<1>7. CASE DiffNode
  <2> DEFINE v == Len(visited)
  <2>1. /\ Walked /\ v \in Nat /\ v + 1 \in 0..TotalMax
        /\ visited' = Append(visited, v) /\ Len(visited') = v + 1
        /\ Sorted(stack', Waiting(v + 1, TotalMax))
    BY <1>7, ComparedPage
  <2>2. phase = "walk" /\ UNCHANGED <<phase, oldPages, newPages, children>>
    BY <1>7 DEF DiffNode
  <2>3. stats' \in DiffStats
    BY <1>7, TotalsCompared
  <2>4. visited \in Seq(Nat) /\ \A i \in 1..v : visited[i] = i - 1
    BY <2>1 DEF Walked
  <2>5. visited' \in Seq(Nat) /\ \A i \in 1..(v + 1) : visited'[i] = i - 1
    <3>1. \A i \in 1..(v + 1) : i \in 1..v \/ i = v + 1
      BY <2>1
    <3>2. visited' \in Seq(Nat) /\ visited'[v + 1] = v /\ \A i \in 1..v : visited'[i] = visited[i]
      BY <2>1, <2>4
    <3> QED BY <2>1, <2>4, <3>1, <3>2
  <2> HIDE DEF v
  <2>6. Walked'
    BY <1>1, <1>3, <2>1, <2>2, <2>5 DEF Walked
  <2> QED BY <1>2, <1>3, <2>2, <2>3, <2>6 DEF Shape
<1>8. CASE Summarise
  <2> DEFINE o == SumLeafAvail(oldPages)
             n == SumLeafAvail(newPages)
  <2>1. /\ phase = "walk" /\ stack = <<>> /\ phase' = "done"
        /\ stats' = [stats EXCEPT !.oldAvail = o, !.newAvail = n]
        /\ UNCHANGED <<oldPages, newPages, children, stack, visited, lines, deltas>>
    BY <1>8 DEF Summarise
  <2>2. Walked
    BY <2>1 DEF Shape, Before
  <2>3. Walked'
    BY <1>1, <1>3, <2>1, <2>2 DEF Walked
  <2>4. o \in Nat /\ n \in Nat
    BY <2>2, FilesArePages, AvailOfFile DEF Walked, Shape
  <2> HIDE DEF o, n
  <2>5. stats' \in DiffStats
    BY <2>1, <2>4 DEF Shape, DiffStats
  <2> QED BY <1>2, <1>3, <2>1, <2>3, <2>5 DEF Shape
<1>9. CASE UNCHANGED vars
  <2>1. UNCHANGED <<old, new, options, phase, oldPages, newPages, children, stack, visited,
                    lines, stats, deltas>>
    BY <1>9 DEF vars
  <2>2. Before' = Before /\ Walked' = Walked
    BY <1>3, <2>1 DEF Before, Walked
  <2> QED BY <1>3, <2>1, <2>2 DEF Shape
<1> QED BY <1>4, <1>5, <1>6, <1>7, <1>8, <1>9 DEF Next, Step, Ended

LEMMA ShapeHolds == Spec => []Shape
BY ShapeBegins, ShapeStays, PTL DEF Spec

(* At the end every page has been visited.                                 *)
LEMMA AllVisited ==
  ASSUME Shape, phase = "done"
  PROVE  Walked /\ Len(visited) = TotalMax /\ TotalMax \in Nat
<1>1. Walked
  BY DEF Shape, Before
<1>2. TotalMax \in Nat /\ Len(visited) \in 0..TotalMax
  BY <1>1, FilesArePages DEF Walked, Shape
<1>3. Sorted(<<>>, Waiting(Len(visited), TotalMax))
  BY <1>1 DEF Walked
<1> QED BY <1>1, <1>2, <1>3, WalkEnds

(* A step that does not compare a page leaves what the walk has gathered.  *)
LEMMA OtherSteps ==
  ASSUME Shape, [Next]_vars, ~DiffNode
  PROVE  /\ UNCHANGED <<old, new, options, visited, lines, deltas>>
         /\ stats'.added = stats.added /\ stats'.removed = stats.removed
         /\ stats'.changed = stats.changed
         /\ stats'.slots = stats.slots /\ stats'.up = stats.up /\ stats'.down = stats.down
<1>1. CASE Summarise
  <2>1. UNCHANGED <<old, new, options, visited, lines, deltas>>
    BY <1>1 DEF Summarise
  <2>2. stats' = [stats EXCEPT !.oldAvail = SumLeafAvail(oldPages),
                               !.newAvail = SumLeafAvail(newPages)]
    BY <1>1 DEF Summarise
  <2> QED BY <2>1, <2>2 DEF Shape, DiffStats
<1>2. CASE LoadFails \/ LoadOld \/ LoadNew \/ OutFails \/ StartWalk
  BY <1>2 DEF LoadFails, LoadOld, LoadNew, OutFails, StartWalk
<1>3. CASE UNCHANGED vars
  BY <1>3 DEF vars
<1> QED BY <1>1, <1>2, <1>3 DEF Next, Step, Ended
-------------------------------------------------------------------------------
(* The page counts, up to the pages visited.                               *)
Balanced == LET n == Len(visited)
            IN  /\ stats.added = Cardinality(First(n, Added))
                /\ stats.removed = Cardinality(First(n, Removed))
                /\ stats.changed = Cardinality(First(n, Altered))

LEMMA FirstNone == ASSUME NEW S PROVE First(0, S) = {}
BY DEF First

LEMMA BalancedBegins == Init => Balanced
<1> SUFFICES ASSUME Init PROVE Balanced
  OBVIOUS
<1>1. Len(visited) = 0 /\ stats.added = 0 /\ stats.removed = 0 /\ stats.changed = 0
  BY DEF Init, ZeroStats
<1>2. \A S : Cardinality(First(0, S)) = 0
  BY FirstNone, FS_EmptySet
<1> QED BY <1>1, <1>2 DEF Balanced

LEMMA BalancedStays == Shape /\ Balanced /\ [Next]_vars => Balanced'
<1> SUFFICES ASSUME Shape, Balanced, [Next]_vars PROVE Balanced'
  OBVIOUS
<1> DEFINE v == Len(visited)
<1>1. CASE ~DiffNode
  <2>1. /\ UNCHANGED <<old, new, visited>>
        /\ stats'.added = stats.added /\ stats'.removed = stats.removed
        /\ stats'.changed = stats.changed
    BY <1>1, OtherSteps
  <2>2. Added' = Added /\ Removed' = Removed /\ Altered' = Altered
    BY <2>1 DEF Added, Removed, Altered, GoodIn, InBoth
  <2> QED BY <2>1, <2>2 DEF Balanced
<1>2. CASE DiffNode
  <2>1. v \in Nat /\ Len(visited') = v + 1
    BY <1>2, ComparedPage
  <2>2. /\ stats'.added = stats.added + IF v \in Added THEN 1 ELSE 0
        /\ stats'.removed = stats.removed + IF v \in Removed THEN 1 ELSE 0
        /\ stats'.changed = stats.changed + IF v \in Altered THEN 1 ELSE 0
    BY <1>2, TotalsCompared
  <2>3. Added' = Added /\ Removed' = Removed /\ Altered' = Altered
    BY <1>2 DEF DiffNode, Added, Removed, Altered, GoodIn, InBoth
  <2>4. \A S : Cardinality(First(v + 1, S)) = Cardinality(First(v, S)) + IF v \in S THEN 1 ELSE 0
    BY <2>1, OneMore
  <2>5. /\ stats.added = Cardinality(First(v, Added))
        /\ stats.removed = Cardinality(First(v, Removed))
        /\ stats.changed = Cardinality(First(v, Altered))
    BY DEF Balanced
  <2> HIDE DEF v
  <2>6. /\ stats'.added = Cardinality(First(v + 1, Added))
        /\ stats'.removed = Cardinality(First(v + 1, Removed))
        /\ stats'.changed = Cardinality(First(v + 1, Altered))
    BY <2>2, <2>4, <2>5
  <2> QED BY <2>1, <2>3, <2>6 DEF Balanced
<1> QED BY <1>1, <1>2

(* The page counts of the summary balance over the two files: what was     *)
(* added less what was removed is the difference in usable pages, and the  *)
(* three counts are those of the pages that differ, for every pair of      *)
(* files and all options.                                                  *)
THEOREM CountsBalance == Spec => []PagesBalance
<1>1. Init => Shape /\ Balanced
  BY ShapeBegins, BalancedBegins
<1>2. Shape /\ Balanced /\ [Next]_vars => (Shape /\ Balanced)'
  BY ShapeStays, BalancedStays
<1>3. Shape /\ Balanced => PagesBalance
  <2> SUFFICES ASSUME Shape, Balanced, phase = "done" PROVE PagesBalance
    BY DEF PagesBalance
  <2> DEFINE N == GoodIn(new)
             O == GoodIn(old)
             D == {p \in AllPages : PageDiffers(p)}
             R == D \ Added
  <2>1. Len(visited) = TotalMax
    BY AllVisited
  <2>2. /\ O \subseteq AllPages /\ N \subseteq AllPages /\ IsFiniteSet(O) /\ IsFiniteSet(N)
        /\ InBoth \subseteq AllPages /\ Altered \subseteq InBoth /\ IsFiniteSet(AllPages)
        /\ \A p : PageDiffers(p) <=> p \in Added \cup Removed \cup Altered
    BY PageSets
  <2>3. Added = N \ O /\ Removed = O \ N /\ InBoth = O \cap N
    BY DEF Added, Removed, InBoth
  <2>4. \A S : S \subseteq AllPages => First(TotalMax, S) = S
    BY DEF First, AllPages
  <2>5. /\ stats.added = Cardinality(Added) /\ stats.removed = Cardinality(Removed)
        /\ stats.changed = Cardinality(Altered)
    <3>1. Added \subseteq AllPages /\ Removed \subseteq AllPages /\ Altered \subseteq AllPages
      BY <2>2, <2>3
    <3> QED BY <2>1, <2>4, <3>1 DEF Balanced
  <2>6. /\ Cardinality(N) = Cardinality(N \cap O) + Cardinality(N \ O)
        /\ Cardinality(O) = Cardinality(O \cap N) + Cardinality(O \ N)
        /\ Cardinality(N \cap O) \in Nat /\ Cardinality(N \ O) \in Nat
        /\ Cardinality(O \ N) \in Nat
    <3> HIDE DEF N, O
    <3> QED BY <2>2, CountSplit
  <2>7. N \cap O = O \cap N
    OBVIOUS
  <2>8. stats.added - stats.removed = Cardinality(N) - Cardinality(O)
    <3>1. Cardinality(N \cap O) = Cardinality(O \cap N)
      BY <2>7
    <3> HIDE DEF N, O
    <3> QED BY <2>3, <2>5, <2>6, <3>1
  <2>9. IsFiniteSet(D) /\ IsFiniteSet(R)
    BY <2>2, FS_Subset
  <2>10. D \cap Added = Added /\ R \cap Removed = Removed /\ R \ Removed = Altered
    <3>1. D = Added \cup Removed \cup Altered
      BY <2>2, <2>3
    <3> HIDE DEF D
    <3> QED BY <2>2, <2>3, <3>1
  <2>11. Cardinality(D) = Cardinality(D \cap Added) + Cardinality(D \ Added)
    <3> HIDE DEF D
    <3> QED BY <2>9, CountSplit
  <2>12. /\ Cardinality(R) = Cardinality(R \cap Removed) + Cardinality(R \ Removed)
         /\ Cardinality(R \ Removed) \in Nat
    <3> HIDE DEF R
    <3> QED BY <2>9, CountSplit
  <2>13. stats.added + stats.removed + stats.changed = Cardinality(D)
    <3>1. /\ Cardinality(D) = Cardinality(Added) + Cardinality(R)
          /\ Cardinality(R) = Cardinality(Removed) + Cardinality(Altered)
          /\ Cardinality(Altered) \in Nat
      BY <2>10, <2>11, <2>12
    <3>2. Cardinality(Added) \in Nat /\ Cardinality(Removed) \in Nat
      BY <2>3, <2>6
    <3> HIDE DEF D, R
    <3> QED BY <2>5, <3>1, <3>2
  <2> QED BY <2>8, <2>13 DEF PagesBalance
<1> QED BY <1>1, <1>2, <1>3, PTL DEF Spec

-------------------------------------------------------------------------------
(* The status lines, up to the pages visited.                              *)
Statuses == {"ADDED", "REMOVED", "CHANGED", "same", "empty"}

Wanted(p) == InPageRange(options, p) /\ (options.changedOnly => PageDiffers(p))

Named == LET n == Len(visited)
         IN  /\ lines \in Seq(Nat \X Statuses)
             /\ \A i \in 1..Len(lines) : lines[i][1] < n /\ Wanted(lines[i][1])
             /\ \A i, j \in 1..Len(lines) : i < j => lines[i][1] < lines[j][1]
             /\ \A p \in 0..(n - 1) : Wanted(p) => \E i \in 1..Len(lines) : lines[i][1] = p

LEMMA NamedBegins == Init => Named
<1> SUFFICES ASSUME Init PROVE Named
  OBVIOUS
<1>1. lines = <<>> /\ Len(lines) = 0 /\ Len(visited) = 0 /\ lines \in Seq(Nat \X Statuses)
  BY DEF Init
<1>2. \A p \in 0..(0 - 1) : FALSE
  OBVIOUS
<1> QED BY <1>1, <1>2 DEF Named

LEMMA NamedStays == Shape /\ Named /\ [Next]_vars => Named'
<1> SUFFICES ASSUME Shape, Named, [Next]_vars PROVE Named'
  OBVIOUS
<1> DEFINE v == Len(visited)
           s == PageStatus(v)
           n == Len(lines)
<1>1. old' = old /\ new' = new /\ options' = options
  BY OtherSteps DEF DiffNode
<1>2. \A p : Wanted(p)' = Wanted(p)
  BY <1>1 DEF Wanted, InPageRange, PageDiffers, GoodIn, InBoth
<1>3. CASE ~DiffNode
  <2>1. UNCHANGED <<visited, lines>>
    BY <1>3, OtherSteps
  <2> QED BY <1>2, <2>1 DEF Named
<1>4. CASE DiffNode
  <2>1. /\ Walked /\ v \in Nat /\ v \in AllPages /\ Len(visited') = v + 1
        /\ lines' = IF Shown(v, s) THEN Append(lines, <<v, s>>) ELSE lines
    BY <1>4, ComparedPage
  <2>2. s \in Statuses /\ (s \in {"same", "empty"} <=> ~PageDiffers(v))
    <3>1. /\ s \in {"ADDED", "REMOVED", "CHANGED", "same", "empty"}
          /\ s = "ADDED" <=> v \in Added
          /\ s = "REMOVED" <=> v \in Removed
          /\ s = "CHANGED" <=> v \in Altered
      BY <2>1, StatusOf
    <3>2. PageDiffers(v) <=> v \in Added \cup Removed \cup Altered
      BY PageSets
    <3> HIDE DEF s, v
    <3> QED BY <3>1, <3>2 DEF Statuses
  <2>3. Shown(v, s) <=> Wanted(v)
    <3> HIDE DEF s, v
    <3> QED BY <2>2 DEF Shown, Wanted
  <2>4. /\ lines \in Seq(Nat \X Statuses) /\ n \in Nat
        /\ \A i \in 1..n : lines[i][1] < v /\ Wanted(lines[i][1]) /\ lines[i][1] \in Nat
        /\ \A i, j \in 1..n : i < j => lines[i][1] < lines[j][1]
        /\ \A p \in 0..(v - 1) : Wanted(p) => \E i \in 1..n : lines[i][1] = p
    BY DEF Named
  <2>5. \A p \in 0..(v + 1 - 1) : p \in 0..(v - 1) \/ p = v
    BY <2>1
  <2> HIDE DEF s
  <2>6. CASE ~Wanted(v)
    <3>1. lines' = lines
      BY <2>1, <2>3, <2>6
    <3>2. \A i \in 1..n : lines[i][1] < v + 1
      BY <2>1, <2>4
    <3>3. \A p \in 0..(v + 1 - 1) : Wanted(p) => \E i \in 1..n : lines[i][1] = p
      BY <2>4, <2>5, <2>6
    <3> HIDE DEF v
    <3> QED BY <1>2, <2>1, <2>4, <3>1, <3>2, <3>3 DEF Named
  <2>7. CASE Wanted(v)
    <3> DEFINE more == Append(lines, <<v, s>>)
    <3>1. lines' = more
      BY <2>1, <2>3, <2>7
    <3>2. /\ more \in Seq(Nat \X Statuses) /\ Len(more) = n + 1
          /\ more[n + 1] = <<v, s>> /\ \A i \in 1..n : more[i] = lines[i]
      <4>1. <<v, s>> \in Nat \X Statuses
        BY <2>1, <2>2
      <4> HIDE DEF v
      <4> QED BY <2>4, <4>1
    <3>3. more[n + 1][1] = v
      BY <3>2
    <3> HIDE DEF v, n, more
    <3>4. \A i \in 1..(n + 1) : i \in 1..n \/ i = n + 1
      BY <2>4
    <3>5. \A i \in 1..(n + 1) : more[i][1] < v + 1 /\ Wanted(more[i][1])
      <4> SUFFICES ASSUME NEW i \in 1..(n + 1)
                   PROVE  more[i][1] < v + 1 /\ Wanted(more[i][1])
        OBVIOUS
      <4>1. CASE i \in 1..n
        <5>1. more[i] = lines[i] /\ lines[i][1] < v /\ Wanted(lines[i][1]) /\ lines[i][1] \in Nat
          BY <2>4, <3>2, <4>1
        <5> QED BY <2>1, <5>1
      <4>2. CASE i = n + 1
        BY <2>1, <2>7, <3>3, <4>2
      <4> QED BY <3>4, <4>1, <4>2
    <3>6. \A i, j \in 1..(n + 1) : i < j => more[i][1] < more[j][1]
      <4> SUFFICES ASSUME NEW i \in 1..(n + 1), NEW j \in 1..(n + 1), i < j
                   PROVE  more[i][1] < more[j][1]
        OBVIOUS
      <4>1. i \in 1..n
        BY <2>4
      <4>2. more[i] = lines[i] /\ lines[i][1] < v
        BY <2>4, <3>2, <4>1
      <4>3. CASE j \in 1..n
        BY <2>4, <3>2, <4>1, <4>3
      <4>4. CASE j = n + 1
        BY <3>3, <4>2, <4>4
      <4> QED BY <3>4, <4>3, <4>4
    <3>7. \A p \in 0..(v + 1 - 1) : Wanted(p) => \E i \in 1..(n + 1) : more[i][1] = p
      <4> SUFFICES ASSUME NEW p \in 0..(v + 1 - 1), Wanted(p)
                   PROVE  \E i \in 1..(n + 1) : more[i][1] = p
        OBVIOUS
      <4>1. CASE p = v
        <5>1. n + 1 \in 1..(n + 1)
          BY <2>4
        <5> QED BY <3>3, <4>1, <5>1
      <4>2. CASE p \in 0..(v - 1)
        <5>1. PICK i \in 1..n : lines[i][1] = p
          BY <2>4, <4>2
        <5>2. i \in 1..(n + 1) /\ more[i][1] = p
          BY <2>4, <3>2, <5>1
        <5> QED BY <5>2
      <4> QED BY <2>5, <4>1, <4>2
    <3> DEFINE w == v + 1
               m == n + 1
    <3>8. \A i \in 1..m : lines'[i][1] < w /\ Wanted(lines[i][1])'
      BY <1>2, <3>1, <3>5
    <3>9. \A i, j \in 1..m : i < j => lines'[i][1] < lines'[j][1]
      BY <3>1, <3>6
    <3>10. \A p \in 0..(w - 1) : Wanted(p)' => \E i \in 1..m : lines'[i][1] = p
      <4> SUFFICES ASSUME NEW p \in 0..(w - 1), Wanted(p)'
                   PROVE  \E i \in 1..m : lines'[i][1] = p
        OBVIOUS
      <4>1. p \in 0..(v + 1 - 1) /\ Wanted(p)
        BY <1>2, <2>1
      <4>2. \E i \in 1..m : more[i][1] = p
        BY <3>7, <4>1
      <4> QED BY <3>1, <4>2
    <3>11. lines' \in Seq(Nat \X Statuses) /\ Len(lines') = m
      BY <3>1, <3>2
    <3>12. Len(visited') = w
      BY <2>1
    <3> HIDE DEF v, n, w, m
    <3> QED BY <3>8, <3>9, <3>10, <3>11, <3>12 DEF Named
  <2> QED BY <2>6, <2>7
<1> QED BY <1>3, <1>4

LEMMA ShapeIsTyped == Shape /\ Named => TypeOK
<1> SUFFICES ASSUME Shape, Named PROVE TypeOK
  OBVIOUS
<1> DEFINE total == TotalMax
           v == Len(visited)
<1>1. /\ old \in Seq(RawPages) /\ new \in Seq(RawPages) /\ total \in Nat
      /\ Len(old) \in Nat /\ Len(new) \in Nat
  BY FilesArePages DEF Shape
<1>2. Len(oldPages) \in {0, Len(old)} /\ Len(newPages) \in {0, Len(new)}
  <2>1. Len(AsLoaded(old)) = Len(old) /\ Len(AsLoaded(new)) = Len(new) /\ Len(<<>>) = 0
    BY <1>1, LoadedPages
  <2> QED BY <2>1 DEF Shape
<1>3. phase \in {"load", "walk", "done", "failed"}
  BY DEF Shape, Before, Walked
<1>4. DOMAIN stats = DOMAIN ZeroStats /\ \A f \in DOMAIN stats : stats[f] \in Nat
  BY DEF Shape, DiffStats, ZeroStats
<1>5. CASE Before
  <2>1. Range(stack) = {} /\ Range(visited) = {} /\ Range(lines) = {}
    BY <1>5 DEF Before, Range
  <2> QED BY <1>2, <1>3, <1>4, <2>1 DEF TypeOK, Shape
<1>6. CASE Walked
  <2>1. /\ v \in 0..total /\ Sorted(stack, Waiting(v, total))
        /\ visited \in Seq(Nat) /\ (\A i \in 1..v : visited[i] = i - 1) /\ old # <<>>
    BY <1>6 DEF Walked
  <2>2. total # 0
    <3>1. Len(old) # 0 /\ Len(old) <= total
      BY <1>1, <2>1, EmptySeq, FilesArePages DEF Shape
    <3> QED BY <1>1, <3>1
  <2>3. AllPages = 0..(total - 1) /\ total - 1 \in Nat
    BY <1>1, <2>2 DEF AllPages
  <2>4. Waiting(v, total) \in SUBSET (0..(total - 1))
    BY <1>1, <2>1 DEF Waiting
  <2>5. Range(stack) \subseteq AllPages
    <3> DEFINE m == total - 1
    <3>1. m \in Nat /\ Waiting(v, total) \in SUBSET (0..m) /\ AllPages = 0..m
      BY <2>3, <2>4
    <3> HIDE DEF total, v, m
    <3> QED BY <2>1, <3>1, SortedWithin
  <2>6. \A i \in 1..v : visited[i] \in AllPages
    BY <1>1, <2>1, <2>3
  <2>7. Range(visited) \subseteq AllPages
    BY <2>1, <2>6 DEF Range
  <2>8. \A i \in 1..Len(lines) : lines[i] \in AllPages \X Statuses
    <3> SUFFICES ASSUME NEW i \in 1..Len(lines) PROVE lines[i] \in AllPages \X Statuses
      OBVIOUS
    <3>1. lines[i] \in Nat \X Statuses /\ lines[i][1] < v
      BY DEF Named
    <3>2. lines[i][1] \in AllPages
      BY <1>1, <2>1, <2>3, <3>1
    <3>3. lines[i] = <<lines[i][1], lines[i][2]>> /\ lines[i][2] \in Statuses
      BY <3>1
    <3> QED BY <3>2, <3>3
  <2>9. \A l \in Range(lines) : l \in AllPages \X {"ADDED", "REMOVED", "CHANGED", "same", "empty"}
    <3>1. DOMAIN lines = 1..Len(lines)
      BY DEF Named
    <3> QED BY <2>8, <3>1 DEF Range, Statuses
  <2> QED BY <1>2, <1>3, <1>4, <2>5, <2>7, <2>9 DEF TypeOK, Shape
<1> QED BY <1>5, <1>6 DEF Shape

(* The status lines stand in file order, and at the end they name exactly  *)
(* the pages of the longer file that --range lets through and, with        *)
(* --only-changed, that differ: none is missed below an unchanged or bad   *)
(* parent or because one of the files is shorter.                          *)
THEOREM ReportIsTrue == Spec => []NamesEveryDifference
<1>1. Init => Shape /\ Named
  BY ShapeBegins, NamedBegins
<1>2. Shape /\ Named /\ [Next]_vars => (Shape /\ Named)'
  BY ShapeStays, NamedStays
<1>3. Shape /\ Named => NamesEveryDifference
  <2> SUFFICES ASSUME Shape, Named PROVE NamesEveryDifference
    OBVIOUS
  <2>1. TypeOK
    BY ShapeIsTyped
  <2>2. /\ lines \in Seq(Nat \X Statuses)
        /\ \A i \in 1..Len(lines) : lines[i][1] < Len(visited) /\ Wanted(lines[i][1])
        /\ \A i, j \in 1..Len(lines) : i < j => lines[i][1] < lines[j][1]
    BY DEF Named
  <2>3. ASSUME phase = "done"
        PROVE  {l[1] : l \in Range(lines)} = {p \in AllPages : Wanted(p)}
    <3>1. Len(visited) = TotalMax /\ TotalMax \in Nat
      BY <2>3, AllVisited
    <3>2. \A p \in AllPages : Wanted(p) => \E i \in 1..Len(lines) : lines[i][1] = p
      BY <3>1 DEF Named, AllPages
    <3>3. DOMAIN lines = 1..Len(lines) /\ \A i \in 1..Len(lines) : lines[i][1] \in Nat
      BY <2>2
    <3>4. \A i \in 1..Len(lines) : lines[i][1] \in AllPages
      BY <2>2, <3>1, <3>3 DEF AllPages
    <3>5. \A l : l \in Range(lines) <=> \E i \in 1..Len(lines) : l = lines[i]
      BY <3>3 DEF Range
    <3>6. {l[1] : l \in Range(lines)} = {lines[i][1] : i \in 1..Len(lines)}
      BY <3>5
    <3>7. {lines[i][1] : i \in 1..Len(lines)} = {p \in AllPages : Wanted(p)}
      BY <2>2, <3>2, <3>4
    <3> QED BY <3>6, <3>7
  <2> QED BY <2>1, <2>2, <2>3 DEF NamesEveryDifference, Wanted
<1> QED BY <1>1, <1>2, <1>3, PTL DEF Spec
-------------------------------------------------------------------------------
(* The nodes and slots that differ, by page.                               *)
NodesAt == [p \in InBoth |-> NodesOf(old[p + 1], new[p + 1])]
GainsAt == [p \in InBoth |-> GainsOf(old[p + 1], new[p + 1])]

LEMMA NodesOfPage ==
  ASSUME Shape, NEW p \in InBoth
  PROVE  /\ old[p + 1].leaf \in SlotArrays /\ new[p + 1].leaf \in SlotArrays
         /\ NodesAt[p] \in Nat /\ GainsAt[p] \in Nat
         /\ p \notin Altered => /\ NodesAt[p] = 0 /\ GainsAt[p] = 0
                                /\ old[p + 1].leaf = new[p + 1].leaf
<1> DEFINE a == old[p + 1]
           b == new[p + 1]
           L == [1..LeafNodesPerPage -> Categories]
           I == [1..NonLeafNodesPerPage -> Categories]
<1>1. a \in RawPages /\ b \in RawPages
  <2>1. old \in Seq(RawPages) /\ new \in Seq(RawPages)
    BY FilesArePages DEF Shape
  <2>2. p + 1 \in 1..Len(old) /\ p + 1 \in 1..Len(new)
    BY <2>1 DEF InBoth, GoodIn
  <2> QED BY <2>1, <2>2
<1>2. a.leaf \in L /\ b.leaf \in L /\ a.inner \in I /\ b.inner \in I
  BY <1>1 DEF RawPages
<1>3. LeafNodesPerPage \in Nat /\ NonLeafNodesPerPage \in Nat
  BY TreeAssumption, NonLeafAssumption
<1>4. \A n \in Nat : \A f, g \in [1..n -> Categories] :
        /\ Cardinality(Differs(f, g)) \in Nat /\ Cardinality(Gains(f, g)) \in Nat
        /\ f = g => Cardinality(Differs(f, g)) = 0 /\ Cardinality(Gains(f, g)) = 0
  <2> SUFFICES ASSUME NEW n \in Nat, NEW f \in [1..n -> Categories],
                      NEW g \in [1..n -> Categories]
               PROVE  /\ Cardinality(Differs(f, g)) \in Nat /\ Cardinality(Gains(f, g)) \in Nat
                      /\ f = g => /\ Cardinality(Differs(f, g)) = 0
                                  /\ Cardinality(Gains(f, g)) = 0
    OBVIOUS
  <2>1. Cardinality(Differs(f, g)) \in Nat /\ Cardinality(Gains(f, g)) \in Nat
    BY NodeSets
  <2>2. ASSUME f = g PROVE Differs(f, g) = {} /\ Gains(f, g) = {}
    <3>1. Categories \subseteq Int
      BY DEF Categories
    <3>2. \A t \in DOMAIN f : f[t] \in Int
      BY <3>1
    <3>3. \A t \in DOMAIN f : ~(f[t] > f[t])
      BY <3>2
    <3> QED BY <2>2, <3>3 DEF Differs, Gains
  <2> QED BY <2>1, <2>2, FS_EmptySet
<1>5. NodesAt[p] = NodesOf(a, b) /\ GainsAt[p] = GainsOf(a, b)
  BY DEF NodesAt, GainsAt
<1>6. p \notin Altered => a.leaf = b.leaf /\ a.inner = b.inner
  BY DEF Altered
<1> HIDE DEF a, b
<1>7. NodesOf(a, b) \in Nat /\ GainsOf(a, b) \in Nat
  <2>1. /\ Cardinality(Differs(a.leaf, b.leaf)) \in Nat
        /\ Cardinality(Differs(a.inner, b.inner)) \in Nat
        /\ Cardinality(Gains(a.leaf, b.leaf)) \in Nat
        /\ Cardinality(Gains(a.inner, b.inner)) \in Nat
    BY <1>2, <1>3, <1>4
  <2> QED BY <2>1 DEF NodesOf, GainsOf
<1>8. ASSUME a.leaf = b.leaf /\ a.inner = b.inner
      PROVE  NodesOf(a, b) = 0 /\ GainsOf(a, b) = 0
  <2>1. /\ Cardinality(Differs(a.leaf, b.leaf)) = 0
        /\ Cardinality(Differs(a.inner, b.inner)) = 0
        /\ Cardinality(Gains(a.leaf, b.leaf)) = 0
        /\ Cardinality(Gains(a.inner, b.inner)) = 0
    BY <1>2, <1>3, <1>4, <1>8
  <2> QED BY <2>1 DEF NodesOf, GainsOf
<1> QED BY <1>2, <1>5, <1>6, <1>7, <1>8 DEF a, b, SlotArrays

(* A sum over the pages in both files, one page further.                   *)
LEMMA SumOneMore ==
  ASSUME Shape, NEW v \in Nat, NEW f, \A p \in InBoth : f[p] \in Int
  PROVE  /\ SumFunctionOnSet(f, First(v, InBoth)) \in Int
         /\ v \in InBoth => SumFunctionOnSet(f, First(v + 1, InBoth))
                              = f[v] + SumFunctionOnSet(f, First(v, InBoth))
         /\ v \notin InBoth => First(v + 1, InBoth) = First(v, InBoth)
<1> DEFINE S == First(v, InBoth)
<1>1. IsFiniteSet(InBoth)
  BY PageSets
<1>2. S \subseteq InBoth /\ v \notin S
  BY DEF First
<1>3. IsFiniteSet(S)
  BY <1>1, <1>2, FS_Subset
<1>4. /\ v \in InBoth => First(v + 1, InBoth) = S \cup {v}
      /\ v \notin InBoth => First(v + 1, InBoth) = S
  BY OneMore
<1> HIDE DEF S
<1>5. SumFunctionOnSet(f, S) \in Int
  BY <1>2, <1>3, SumType
<1>6. ASSUME v \in InBoth
      PROVE  SumFunctionOnSet(f, S \cup {v}) = f[v] + SumFunctionOnSet(f, S)
  <2>1. \A y \in S \cup {v} : f[y] \in Int
    BY <1>2, <1>6
  <2> QED BY <1>2, <1>3, <2>1, SumAdd
<1> QED BY <1>4, <1>5, <1>6 DEF S

(* The node counts, up to the pages visited.                               *)
Counted == LET S == First(Len(visited), InBoth)
           IN  /\ stats.slots = SumFunctionOnSet(NodesAt, S)
               /\ stats.up + stats.down = stats.slots
               /\ HigherBytes = Higher => stats.up = SumFunctionOnSet(GainsAt, S)

LEMMA CountedBegins == Init => Counted
<1> SUFFICES ASSUME Init PROVE Counted
  OBVIOUS
<1>1. Len(visited) = 0 /\ stats.slots = 0 /\ stats.up = 0 /\ stats.down = 0
  BY DEF Init, ZeroStats
<1>2. First(0, InBoth) = {}
  BY FirstNone
<1>3. SumFunctionOnSet(NodesAt, {}) = 0 /\ SumFunctionOnSet(GainsAt, {}) = 0
  BY SumEmpty
<1>4. First(Len(visited), InBoth) = {} /\ stats.up + stats.down = 0
  BY <1>1, <1>2
<1> QED BY <1>1, <1>3, <1>4 DEF Counted

LEMMA CountedStays == Shape /\ Counted /\ [Next]_vars => Counted'
<1> SUFFICES ASSUME Shape, Counted, [Next]_vars PROVE Counted'
  OBVIOUS
<1> DEFINE v == Len(visited)
<1>1. old' = old /\ new' = new /\ options' = options
  BY OtherSteps DEF DiffNode
<1>2. InBoth' = InBoth
  BY <1>1 DEF InBoth, GoodIn
<1>3. NodesAt' = NodesAt /\ GainsAt' = GainsAt
  BY <1>1, <1>2 DEF NodesAt, GainsAt, NodesOf, GainsOf
<1>4. CASE ~DiffNode
  <2>1. /\ visited' = visited /\ stats'.slots = stats.slots /\ stats'.up = stats.up
        /\ stats'.down = stats.down
    BY <1>4, OtherSteps
  <2> QED BY <1>2, <1>3, <2>1 DEF Counted
<1>5. CASE DiffNode
  <2> DEFINE S == First(v, InBoth)
             T == First(v + 1, InBoth)
             a == old[v + 1]
             b == new[v + 1]
  <2>1. v \in Nat /\ Len(visited') = v + 1
    BY <1>5, ComparedPage
  <2>2. /\ v \notin Altered => /\ stats'.slots = stats.slots /\ stats'.up = stats.up
                               /\ stats'.down = stats.down
        /\ v \in Altered =>
             /\ stats'.slots = stats.slots + NodesOf(a, b)
             /\ stats'.up + stats'.down = stats.up + stats.down + NodesOf(a, b)
             /\ HigherBytes = Higher => stats'.up = stats.up + GainsOf(a, b)
    BY <1>5, TotalsCompared
  <2>3. \A p \in InBoth : /\ NodesAt[p] \in Int /\ GainsAt[p] \in Int
                          /\ p \notin Altered => NodesAt[p] = 0 /\ GainsAt[p] = 0
    BY NodesOfPage
  <2>4. /\ SumFunctionOnSet(NodesAt, S) \in Int /\ SumFunctionOnSet(GainsAt, S) \in Int
        /\ v \in InBoth => /\ SumFunctionOnSet(NodesAt, T)
                                = NodesAt[v] + SumFunctionOnSet(NodesAt, S)
                           /\ SumFunctionOnSet(GainsAt, T)
                                = GainsAt[v] + SumFunctionOnSet(GainsAt, S)
        /\ v \notin InBoth => T = S
    <3> HIDE DEF v
    <3> QED BY <2>1, <2>3, SumOneMore
  <2>5. v \in InBoth => NodesAt[v] = NodesOf(a, b) /\ GainsAt[v] = GainsOf(a, b)
    BY DEF NodesAt, GainsAt
  <2>6. v \in Altered => v \in InBoth
    BY DEF Altered
  <2>7. /\ stats.slots = SumFunctionOnSet(NodesAt, S)
        /\ stats.up + stats.down = stats.slots
        /\ HigherBytes = Higher => stats.up = SumFunctionOnSet(GainsAt, S)
    BY DEF Counted
  <2>8. /\ stats.slots \in Int /\ stats.up \in Int /\ stats.down \in Int
        /\ stats'.up \in Int /\ stats'.down \in Int
    <3>1. stats \in DiffStats /\ stats' \in DiffStats
      BY <1>5, TotalsCompared DEF Shape
    <3> QED BY <3>1 DEF DiffStats
  <2> HIDE DEF v, S, T, a, b
  <2>9. /\ stats'.slots = SumFunctionOnSet(NodesAt, T)
        /\ stats'.up + stats'.down = stats'.slots
        /\ HigherBytes = Higher => stats'.up = SumFunctionOnSet(GainsAt, T)
    <3>1. CASE v \notin InBoth
      BY <2>2, <2>4, <2>6, <2>7, <3>1
    <3>2. CASE v \in InBoth /\ v \notin Altered
      <4>1. NodesAt[v] = 0 /\ GainsAt[v] = 0
        BY <2>3, <3>2
      <4>2. /\ SumFunctionOnSet(NodesAt, T) = SumFunctionOnSet(NodesAt, S)
            /\ SumFunctionOnSet(GainsAt, T) = SumFunctionOnSet(GainsAt, S)
        BY <2>4, <3>2, <4>1
      <4> QED BY <2>2, <2>7, <3>2, <4>2
    <3>3. CASE v \in Altered
      <4>1. NodesOf(a, b) \in Int /\ GainsOf(a, b) \in Int
        BY <2>3, <2>5, <2>6, <3>3
      <4>2. /\ SumFunctionOnSet(NodesAt, T)
                 = NodesOf(a, b) + SumFunctionOnSet(NodesAt, S)
            /\ SumFunctionOnSet(GainsAt, T)
                 = GainsOf(a, b) + SumFunctionOnSet(GainsAt, S)
        BY <2>4, <2>5, <2>6, <3>3
      <4>3. /\ stats'.slots = stats.slots + NodesOf(a, b)
            /\ stats'.up + stats'.down = stats.up + stats.down + NodesOf(a, b)
            /\ HigherBytes = Higher => stats'.up = stats.up + GainsOf(a, b)
        BY <2>2, <3>3
      <4> QED BY <2>4, <2>7, <2>8, <4>1, <4>2, <4>3
    <3> QED BY <3>1, <3>2, <3>3
  <2> QED BY <1>2, <1>3, <2>1, <2>9 DEF Counted, T
<1> QED BY <1>4, <1>5

(* "node/slots changed: N (gained space: U, lost space: D)": N is the      *)
(* number of single nodes that differ and U that of those with the higher  *)
(* category, although pages are compared run by run and the leaf slots by  *)
(* their bytes.  For that the bytes must rise with the category: when      *)
(* MaxHeapTupleSize is not above 254 steps, as for blocks of 4096 bytes    *)
(* or less, a slot that goes from 254 to 255 counts as lost space.         *)
THEOREM NodesCounted == ASSUME BytesRise PROVE Spec => []SlotsCounted
<1>1. Init => Shape /\ Counted
  BY ShapeBegins, CountedBegins
<1>2. Shape /\ Counted /\ [Next]_vars => (Shape /\ Counted)'
  BY ShapeStays, CountedStays
<1>3. Shape /\ Counted => SlotsCounted
  <2> SUFFICES ASSUME Shape, Counted, phase = "done" PROVE SlotsCounted
    BY DEF SlotsCounted
  <2>1. HigherBytes = Higher
    BY HigherInBytes
  <2>2. Len(visited) = TotalMax
    BY AllVisited
  <2>3. First(TotalMax, InBoth) = InBoth
    BY PageSets DEF First, AllPages
  <2>4. NodeCount(Differs) = SumFunctionOnSet(NodesAt, InBoth)
    BY DEF NodeCount, NodesAt, NodesOf
  <2>5. NodeCount(Gains) = SumFunctionOnSet(GainsAt, InBoth)
    BY DEF NodeCount, GainsAt, GainsOf
  <2> QED BY <2>1, <2>2, <2>3, <2>4, <2>5 DEF Counted, SlotsCounted
<1> QED BY <1>1, <1>2, <1>3, PTL DEF Spec
-------------------------------------------------------------------------------
(* What the deltas of a changed page say is the difference of its slots'   *)
(* space.                                                                  *)
DeltaRuns == [start : Int, end : Int, value : Int]
Weights(ds) == [i \in DOMAIN ds |-> LengthOf(ds[i]) * ds[i].value]

LEMMA DeltasOfPage ==
  ASSUME NEW p \in Nat, NEW a \in Infos, NEW b \in Infos
  PROVE  LET ds == LeafDeltas(p, a, b)
         IN  /\ ds \in Seq(DeltaRuns)
             /\ \A i \in 1..Len(ds) : Weights(ds)[i] \in Int
             /\ SumFunctionOnSet(Weights(ds), 1..Len(ds))
                  = TotalAvail(b.leaf) - TotalAvail(a.leaf)
<1> DEFINE f == a.leaf
           g == b.leaf
           N == LeafNodesPerPage
           K == 1..N
           arr == Pairs(f, g)
           runs == ChangedRuns(f, g)
           D == Differs(f, g)
           n == Len(runs)
           w == [v \in CategoryPairs |-> CatToBytes(v[2]) - CatToBytes(v[1])]
           ds == LeafDeltas(p, a, b)
           base == LogPageNo(p) * LeafNodesPerPage
           af == [s \in K |-> CatToBytes(f[s])]
           ag == [s \in K |-> CatToBytes(g[s])]
           gain == [s \in K |-> CatToBytes(g[s]) - CatToBytes(f[s])]
<1>1. N \in Nat /\ f \in [1..N -> Categories] /\ g \in [1..N -> Categories]
  BY TreeAssumption DEF Infos, SlotArrays
<1>2. /\ arr \in Seq(CategoryPairs) /\ Len(arr) = N
      /\ \A i \in K : arr[i] = <<f[i], g[i]>>
      /\ D \subseteq K /\ IsFiniteSet(D) /\ Cover(runs, arr, D)
  <2> HIDE DEF f, g, N
  <2> QED BY <1>1, PairRuns
<1>3. \A c \in Categories : CatToBytes(c) \in Nat
  BY CategoryBytes
<1>4. \A s \in K : /\ f[s] \in Categories /\ g[s] \in Categories
                   /\ CatToBytes(f[s]) \in Int /\ CatToBytes(g[s]) \in Int
  <2> HIDE DEF f, g, N
  <2> QED BY <1>1, <1>3
<1>5. \A v \in CategoryPairs : w[v] \in Int
  <2> SUFFICES ASSUME NEW v \in CategoryPairs PROVE w[v] \in Int
    OBVIOUS
  <2>1. v[1] \in Categories /\ v[2] \in Categories
    BY DEF CategoryPairs
  <2>2. CatToBytes(v[1]) \in Int /\ CatToBytes(v[2]) \in Int
    BY <1>3, <2>1
  <2> QED BY <2>2
<1>6. Range(arr) \subseteq CategoryPairs
  <2> HIDE DEF arr
  <2> QED BY <1>2 DEF Range
<1>7. /\ n \in Nat /\ DOMAIN runs = 1..n
      /\ \A i \in 1..n : /\ runs[i].start \in Int /\ runs[i].end \in Int
                         /\ runs[i].value \in CategoryPairs
  <2>1. runs \in Seq(RunsIn(Range(arr)))
    BY <1>2 DEF Cover
  <2>2. \A i \in 1..n : runs[i] \in RunsIn(Range(arr))
    BY <2>1
  <2>3. \A r \in RunsIn(Range(arr)) : r.start \in Int /\ r.end \in Int /\ r.value \in Range(arr)
    BY DEF RunsIn
  <2> HIDE DEF runs, arr
  <2> QED BY <1>6, <2>1, <2>2, <2>3
<1>8. base \in Int
  <2>1. LogPageNo(p) \in Int
    <3>1. p # 0 => GroupOf(p) \in Nat /\ OffsetOf(p) \in 0..LeafNodesPerPage
      BY PlaceInGroup
    <3>2. p # 0 => GroupOf(p) * LeafNodesPerPage \in Nat
      BY <1>1, <3>1, Products
    <3> DEFINE q == GroupOf(p) * LeafNodesPerPage
    <3>3. p # 0 => q + OffsetOf(p) - 1 \in Int
      <4> HIDE DEF q
      <4> QED BY <1>1, <3>1, <3>2 DEF q
    <3> QED BY <3>1, <3>3 DEF LogPageNo
  <2>2. \A x \in Int, y \in Nat : x * y \in Int
    OBVIOUS
  <2> QED BY <1>1, <2>1, <2>2
<1>9. ds = [i \in 1..n |-> Run(base + (runs[i].start - 1), base + (runs[i].end - 1),
                               CatToBytes(runs[i].value[2]) - CatToBytes(runs[i].value[1]))]
  BY DEF LeafDeltas, HeapPage
<1> HIDE DEF runs, arr, base, ds, w, n
<1>10. \A i \in 1..n : /\ ds[i].start = base + (runs[i].start - 1)
                       /\ ds[i].end = base + (runs[i].end - 1)
                       /\ ds[i].value = w[runs[i].value]
                       /\ ds[i] \in DeltaRuns
                       /\ LengthOf(ds[i]) = LengthOf(runs[i]) /\ LengthOf(runs[i]) \in Int
  <2> SUFFICES ASSUME NEW i \in 1..n
               PROVE  /\ ds[i].start = base + (runs[i].start - 1)
                      /\ ds[i].end = base + (runs[i].end - 1)
                      /\ ds[i].value = w[runs[i].value]
                      /\ ds[i] \in DeltaRuns
                      /\ LengthOf(ds[i]) = LengthOf(runs[i]) /\ LengthOf(runs[i]) \in Int
    OBVIOUS
  <2> DEFINE r == runs[i]
             x == base + (r.start - 1)
             y == base + (r.end - 1)
  <2>1. r.start \in Int /\ r.end \in Int /\ r.value \in CategoryPairs
    BY <1>7
  <2>2. CatToBytes(r.value[2]) - CatToBytes(r.value[1]) = w[r.value] /\ w[r.value] \in Int
    BY <1>5, <2>1 DEF w
  <2>3. ds[i] = Run(x, y, w[r.value])
    BY <1>9, <2>2
  <2>4. x \in Int /\ y \in Int /\ y - x = r.end - r.start
    <3> HIDE DEF r
    <3> QED BY <1>8, <2>1
  <2>5. LengthOf(r) \in Int /\ LengthOf(r) = r.end - r.start + 1
    BY <2>1 DEF LengthOf
  <2> HIDE DEF r, x, y
  <2>6. ds[i].start = x /\ ds[i].end = y /\ ds[i].value = w[r.value] /\ ds[i] \in DeltaRuns
    BY <2>2, <2>3, <2>4 DEF Run, DeltaRuns
  <2>7. LengthOf(ds[i]) = y - x + 1
    BY <2>6 DEF LengthOf
  <2>8. LengthOf(ds[i]) = LengthOf(r)
    BY <2>4, <2>5, <2>7
  <2> QED BY <2>5, <2>6, <2>8 DEF r, x, y
<1>11. ds \in Seq(DeltaRuns) /\ Len(ds) = n /\ DOMAIN ds = 1..n
  <2>1. DOMAIN ds = 1..n
    BY <1>9
  <2>2. ds \in [1..n -> DeltaRuns]
    BY <1>9, <1>10
  <2> QED BY <1>7, <2>1, <2>2
<1>12. Weights(ds) = [i \in DOMAIN runs |-> LengthOf(runs[i]) * w[runs[i].value]]
  BY <1>7, <1>10, <1>11 DEF Weights
<1>13. \A i \in 1..n : Weights(ds)[i] \in Int
  <2> SUFFICES ASSUME NEW i \in 1..n PROVE Weights(ds)[i] \in Int
    OBVIOUS
  <2>1. Weights(ds)[i] = LengthOf(runs[i]) * w[runs[i].value]
    BY <1>7, <1>12
  <2>2. LengthOf(runs[i]) \in Int /\ w[runs[i].value] \in Int
    BY <1>5, <1>7, <1>10
  <2>3. \A x, y \in Int : x * y \in Int
    OBVIOUS
  <2> QED BY <2>1, <2>2, <2>3
<1>14. SumFunctionOnSet([i \in DOMAIN runs |-> LengthOf(runs[i]) * w[runs[i].value]], DOMAIN runs)
         = SumFunctionOnSet([t \in D |-> w[arr[t]]], D)
  <2>1. \A v \in Range(arr) : w[v] \in Int
    BY <1>5, <1>6
  <2>2. IsFiniteSet(D) /\ Cover(runs, arr, D)
    BY <1>2
  <2> HIDE DEF D
  <2> QED BY <2>1, <2>2, RunsWeighed
<1>15. IsFiniteSet(K)
  <2>1. N \in Int /\ 1 \in Int
    BY <1>1
  <2> HIDE DEF N
  <2> QED BY <2>1, FS_Interval
<1>16. \A s \in K : /\ gain[s] \in Int /\ af[s] \in Int /\ ag[s] \in Int
                    /\ ag[s] = af[s] + gain[s]
                    /\ s \notin D => gain[s] = 0
                    /\ s \in D => w[arr[s]] = gain[s]
  <2> SUFFICES ASSUME NEW s \in K
               PROVE  /\ gain[s] \in Int /\ af[s] \in Int /\ ag[s] \in Int
                      /\ ag[s] = af[s] + gain[s]
                      /\ s \notin D => gain[s] = 0
                      /\ s \in D => w[arr[s]] = gain[s]
    OBVIOUS
  <2> DEFINE c == CatToBytes(f[s])
             d == CatToBytes(g[s])
  <2>1. c \in Int /\ d \in Int /\ f[s] \in Categories /\ g[s] \in Categories
    BY <1>4
  <2>2. gain[s] = d - c /\ af[s] = c /\ ag[s] = d
    OBVIOUS
  <2>3. s \notin D => f[s] = g[s]
    <3>1. DOMAIN f = K
      BY <1>1
    <3> HIDE DEF f, g, K
    <3> QED BY <3>1 DEF Differs
  <2>4. s \notin D => c = d
    BY <2>3
  <2>5. w[arr[s]] = d - c
    <3>1. arr[s] = <<f[s], g[s]>> /\ <<f[s], g[s]>> \in CategoryPairs
      BY <1>2, <2>1 DEF CategoryPairs
    <3>2. w[<<f[s], g[s]>>] = d - c
      BY <3>1 DEF w
    <3> QED BY <3>1, <3>2
  <2> HIDE DEF c, d, gain, af, ag, D
  <2> QED BY <2>1, <2>2, <2>4, <2>5
<1>17. TotalAvail(f) = SumFunctionOnSet(af, K) /\ TotalAvail(g) = SumFunctionOnSet(ag, K)
  <2>1. DOMAIN f = K /\ DOMAIN g = K
    BY <1>1
  <2> HIDE DEF f, g, K
  <2> QED BY <2>1 DEF TotalAvail, SumFunction
<1>18. SumFunctionOnSet([t \in D |-> w[arr[t]]], D) = SumFunctionOnSet(gain, D)
  <2> DEFINE h == [t \in D |-> w[arr[t]]]
  <2>1. \A t \in D : h[t] \in Int /\ h[t] = gain[t]
    BY <1>2, <1>16
  <2> HIDE DEF h, gain, D
  <2>2. SumFunctionOnSet(h, D) = SumFunctionOnSet(gain, D)
    BY <1>2, <2>1, SumSame
  <2> QED BY <2>2 DEF h
<1> HIDE DEF gain, af, ag, D, K, f, g
<1>19. SumFunctionOnSet(gain, K) = SumFunctionOnSet(gain, D)
  <2>1. D \in SUBSET K /\ \A s \in K : gain[s] \in Int /\ (s \notin D => gain[s] = 0)
    BY <1>2, <1>16
  <2> QED BY <1>15, <2>1, SumNonZero
<1>20. SumFunctionOnSet(ag, K) = SumFunctionOnSet(af, K) + SumFunctionOnSet(gain, K)
  BY <1>15, <1>16, SumOfSums
<1>21. SumFunctionOnSet(af, K) \in Int /\ SumFunctionOnSet(gain, K) \in Int
  BY <1>15, <1>16, SumType
<1>22. SumFunctionOnSet(Weights(ds), 1..n) = TotalAvail(g) - TotalAvail(f)
  <2>1. SumFunctionOnSet(Weights(ds), 1..n) = SumFunctionOnSet(gain, K)
    BY <1>7, <1>12, <1>14, <1>18, <1>19
  <2> QED BY <1>17, <1>20, <1>21, <2>1
<1> QED BY <1>11, <1>13, <1>22 DEF ds, f, g
-------------------------------------------------------------------------------
(* The deltas, up to the pages visited.                                    *)
GainAt == [p \in InBoth |-> TotalAvail(new[p + 1].leaf) - TotalAvail(old[p + 1].leaf)]

Spaced == /\ deltas \in Seq(DeltaRuns)
          /\ \A i \in 1..Len(deltas) : Weights(deltas)[i] \in Int
          /\ SumFunctionOnSet(Weights(deltas), 1..Len(deltas))
               = SumFunctionOnSet(GainAt, First(Len(visited), InBoth))

LEMMA SpacedBegins == Init => Spaced
<1> SUFFICES ASSUME Init PROVE Spaced
  OBVIOUS
<1>1. deltas = <<>> /\ Len(deltas) = 0 /\ deltas \in Seq(DeltaRuns) /\ Len(visited) = 0
  BY DEF Init
<1>2. 1..0 = {} /\ First(Len(visited), InBoth) = {}
  BY <1>1, FirstNone
<1>3. \A f : SumFunctionOnSet(f, {}) = 0
  BY SumEmpty
<1>4. \A i \in 1..Len(deltas) : FALSE
  BY <1>1
<1>5. SumFunctionOnSet(Weights(deltas), 1..Len(deltas)) = 0
  BY <1>1, <1>2, <1>3
<1>6. SumFunctionOnSet(GainAt, First(Len(visited), InBoth)) = 0
  BY <1>2, <1>3
<1> QED BY <1>1, <1>4, <1>5, <1>6 DEF Spaced

LEMMA GainsArePages ==
  ASSUME Shape
  PROVE  \A p \in InBoth : GainAt[p] \in Int /\ (p \notin Altered => GainAt[p] = 0)
<1> SUFFICES ASSUME NEW p \in InBoth
             PROVE  GainAt[p] \in Int /\ (p \notin Altered => GainAt[p] = 0)
  OBVIOUS
<1> DEFINE a == old[p + 1].leaf
           b == new[p + 1].leaf
<1>1. a \in SlotArrays /\ b \in SlotArrays /\ (p \notin Altered => a = b)
  BY NodesOfPage
<1>2. GainAt[p] = TotalAvail(b) - TotalAvail(a)
  BY DEF GainAt
<1> HIDE DEF a, b
<1>3. TotalAvail(a) \in Nat /\ TotalAvail(b) \in Nat
  BY <1>1, LeafSums
<1> QED BY <1>1, <1>2, <1>3

LEMMA SpacedStays == Shape /\ Spaced /\ [Next]_vars => Spaced'
<1> SUFFICES ASSUME Shape, Spaced, [Next]_vars PROVE Spaced'
  OBVIOUS
<1> DEFINE v == Len(visited)
<1>1. old' = old /\ new' = new
  BY OtherSteps DEF DiffNode
<1>2. InBoth' = InBoth
  BY <1>1 DEF InBoth, GoodIn
<1>3. GainAt' = GainAt
  BY <1>1, <1>2 DEF GainAt
<1>4. CASE ~DiffNode
  <2>1. visited' = visited /\ deltas' = deltas
    BY <1>4, OtherSteps
  <2>2. Weights(deltas)' = Weights(deltas)
    BY <2>1 DEF Weights
  <2> QED BY <1>2, <1>3, <2>1, <2>2 DEF Spaced
<1>5. CASE DiffNode
  <2> DEFINE a == oldPages[v + 1]
             b == newPages[v + 1]
             S == First(v, InBoth)
             T == First(v + 1, InBoth)
             n == Len(deltas)
  <2>1. /\ Walked /\ v \in Nat /\ v \in AllPages /\ Len(visited') = v + 1
        /\ deltas' = IF PageStatus(v) = "CHANGED" THEN deltas \o LeafDeltas(v, a, b) ELSE deltas
    BY <1>5, ComparedPage
  <2>2. /\ PageStatus(v) = "CHANGED" <=> v \in Altered
        /\ v \in InBoth => /\ a \in Infos /\ b \in Infos
                           /\ a.leaf = old[v + 1].leaf /\ b.leaf = new[v + 1].leaf
    BY <2>1, StatusOf
  <2>3. \A p \in InBoth : GainAt[p] \in Int /\ (p \notin Altered => GainAt[p] = 0)
    BY GainsArePages
  <2>4. /\ SumFunctionOnSet(GainAt, S) \in Int
        /\ v \in InBoth => SumFunctionOnSet(GainAt, T)
                             = GainAt[v] + SumFunctionOnSet(GainAt, S)
        /\ v \notin InBoth => T = S
    <3> HIDE DEF v
    <3> QED BY <2>1, <2>3, SumOneMore
  <2>5. v \in InBoth => GainAt[v] = TotalAvail(b.leaf) - TotalAvail(a.leaf)
    BY <2>2 DEF GainAt
  <2>6. v \in Altered => v \in InBoth
    BY DEF Altered
  <2>7. /\ deltas \in Seq(DeltaRuns) /\ n \in Nat
        /\ \A i \in 1..n : Weights(deltas)[i] \in Int
        /\ SumFunctionOnSet(Weights(deltas), 1..n) = SumFunctionOnSet(GainAt, S)
    BY DEF Spaced
  <2>8. CASE v \notin Altered
    <3>1. deltas' = deltas
      BY <2>1, <2>2, <2>8
    <3>2. Weights(deltas)' = Weights(deltas)
      BY <3>1 DEF Weights
    <3>3. SumFunctionOnSet(GainAt, T) = SumFunctionOnSet(GainAt, S)
      <4>1. CASE v \in InBoth
        <5>1. GainAt[v] = 0
          BY <2>3, <2>8, <4>1
        <5> HIDE DEF S, T
        <5> QED BY <2>4, <4>1, <5>1
      <4>2. CASE v \notin InBoth
        BY <2>4, <4>2
      <4> QED BY <4>1, <4>2
    <3> QED BY <1>2, <1>3, <2>1, <2>7, <3>1, <3>2, <3>3 DEF Spaced
  <2>9. CASE v \in Altered
    <3> DEFINE more == LeafDeltas(v, a, b)
               all == deltas \o more
               m == Len(more)
    <3>1. deltas' = all
      BY <2>1, <2>2, <2>9
    <3>2. /\ more \in Seq(DeltaRuns) /\ m \in Nat
          /\ \A i \in 1..m : Weights(more)[i] \in Int
          /\ SumFunctionOnSet(Weights(more), 1..m) = TotalAvail(b.leaf) - TotalAvail(a.leaf)
      <4>1. a \in Infos /\ b \in Infos /\ v \in Nat
        BY <2>1, <2>2, <2>6, <2>9
      <4> HIDE DEF a, b, v, n
      <4>2. /\ more \in Seq(DeltaRuns)
            /\ \A i \in 1..Len(more) : Weights(more)[i] \in Int
            /\ SumFunctionOnSet(Weights(more), 1..Len(more))
                 = TotalAvail(b.leaf) - TotalAvail(a.leaf)
        BY <4>1, DeltasOfPage
      <4> HIDE DEF more
      <4>3. m \in Nat
        BY <4>2
      <4> QED BY <4>2, <4>3
    <3> HIDE DEF more, m, n
    <3>3. /\ all \in Seq(DeltaRuns) /\ Len(all) = n + m
          /\ \A i \in 1..n : all[i] = deltas[i]
          /\ \A j \in 1..m : all[j + n] = more[j]
      <4>1. /\ all \in Seq(DeltaRuns) /\ Len(all) = n + m
            /\ \A i \in 1..(n + m) : all[i] = IF i <= n THEN deltas[i] ELSE more[i - n]
        BY <2>7, <3>2, ConcatProperties DEF n, m
      <4> HIDE DEF all
      <4>2. ASSUME NEW i \in 1..n PROVE all[i] = deltas[i]
        <5>1. i \in 1..(n + m) /\ i <= n
          BY <2>7, <3>2
        <5> QED BY <4>1, <5>1
      <4>3. ASSUME NEW j \in 1..m PROVE all[j + n] = more[j]
        <5> DEFINE i == j + n
        <5>1. i \in 1..(n + m) /\ ~(i <= n) /\ i - n = j
          BY <2>7, <3>2
        <5> HIDE DEF i
        <5>2. all[i] = more[i - n]
          BY <4>1, <5>1
        <5>3. all[i] = more[j]
          BY <5>1, <5>2
        <5> QED BY <5>3 DEF i
      <4> QED BY <4>1, <4>2, <4>3
    <3> HIDE DEF all
    <3>4. /\ DOMAIN all = 1..(n + m) /\ DOMAIN deltas = 1..n /\ DOMAIN more = 1..m
      BY <2>7, <3>2, <3>3 DEF n, m
    <3>5. /\ \A i \in 1..n : Weights(all)[i] = Weights(deltas)[i]
          /\ \A j \in 1..m : Weights(all)[j + n] = Weights(more)[j]
      <4>1. ASSUME NEW i \in 1..n PROVE Weights(all)[i] = Weights(deltas)[i]
        <5>1. i \in 1..(n + m) /\ all[i] = deltas[i]
          BY <2>7, <3>2, <3>3
        <5> QED BY <3>4, <5>1 DEF Weights
      <4>2. ASSUME NEW j \in 1..m PROVE Weights(all)[j + n] = Weights(more)[j]
        <5>1. j + n \in 1..(n + m) /\ all[j + n] = more[j]
          BY <2>7, <3>2, <3>3
        <5> QED BY <3>4, <5>1 DEF Weights
      <4> QED BY <4>1, <4>2
    <3>6. SumFunctionOnSet(Weights(all), 1..(n + m))
            = SumFunctionOnSet(Weights(deltas), 1..n) + SumFunctionOnSet(Weights(more), 1..m)
      <4> DEFINE f == Weights(all)
                 g == Weights(deltas)
                 h == Weights(more)
      <4>1. /\ n \in Nat /\ m \in Nat
            /\ \A i \in 1..n : g[i] \in Int /\ f[i] = g[i]
            /\ \A j \in 1..m : h[j] \in Int /\ f[j + n] = h[j]
        BY <2>7, <3>2, <3>5
      <4> HIDE DEF f, g, h
      <4>2. SumFunctionOnSet(f, 1..(n + m))
              = SumFunctionOnSet(g, 1..n) + SumFunctionOnSet(h, 1..m)
        BY <4>1, SumConcat
      <4> QED BY <4>2 DEF f, g, h
    <3>7. SumFunctionOnSet(Weights(all), 1..(n + m)) = SumFunctionOnSet(GainAt, T)
      <4>1. GainAt[v] \in Int /\ v \in InBoth
        BY <2>3, <2>6, <2>9
      <4>2. SumFunctionOnSet(Weights(more), 1..m) = GainAt[v]
        BY <2>5, <3>2, <4>1
      <4>3. SumFunctionOnSet(GainAt, T) = GainAt[v] + SumFunctionOnSet(GainAt, S)
        BY <2>4, <4>1
      <4> HIDE DEF S, T
      <4> QED BY <2>4, <2>7, <3>6, <4>1, <4>2, <4>3
    <3>8. \A i \in 1..(n + m) : Weights(all)[i] \in Int
      <4> SUFFICES ASSUME NEW i \in 1..(n + m) PROVE Weights(all)[i] \in Int
        OBVIOUS
      <4>1. CASE i <= n
        <5>1. i \in 1..n
          BY <2>7, <3>2, <4>1
        <5> QED BY <2>7, <3>5, <5>1
      <4>2. CASE ~(i <= n)
        <5>1. i - n \in 1..m /\ (i - n) + n = i
          BY <2>7, <3>2, <4>2
        <5>2. Weights(all)[(i - n) + n] = Weights(more)[i - n] /\ Weights(more)[i - n] \in Int
          BY <3>2, <3>5, <5>1
        <5> QED BY <5>1, <5>2
      <4> QED BY <4>1, <4>2
    <3>9. Weights(deltas)' = Weights(all)
      BY <3>1 DEF Weights
    <3> QED BY <1>2, <1>3, <2>1, <3>1, <3>3, <3>7, <3>8, <3>9 DEF Spaced
  <2> QED BY <2>8, <2>9
<1> QED BY <1>4, <1>5

LEMMA AvailOfPage ==
  ASSUME NEW f \in Seq(RawPages), NEW p \in GoodIn(f)
  PROVE  TotalAvail(f[p + 1].leaf) \in Int
<1>1. p + 1 \in 1..Len(f)
  BY LoadedPages
<1>2. f[p + 1].leaf \in SlotArrays
  BY <1>1, LoadedPages, PageIsKept
<1>3. TotalAvail(f[p + 1].leaf) \in Nat
  BY <1>2, LeafSums
<1> QED BY <1>3

(* The two totals of the summary line.                                     *)
Totalled == phase = "done" => /\ stats.oldAvail = SumLeafAvail(AsLoaded(old))
                              /\ stats.newAvail = SumLeafAvail(AsLoaded(new))

LEMMA TotalledStays == Shape /\ Totalled /\ [Next]_vars => Totalled'
<1> SUFFICES ASSUME Shape, Totalled, [Next]_vars, phase' = "done" PROVE Totalled'
  BY DEF Totalled
<1>1. CASE Summarise
  <2> DEFINE o == SumLeafAvail(oldPages)
             n == SumLeafAvail(newPages)
  <2>1. /\ stats' = [stats EXCEPT !.oldAvail = o, !.newAvail = n]
        /\ old' = old /\ new' = new /\ phase = "walk"
    BY <1>1 DEF Summarise
  <2>2. oldPages = AsLoaded(old) /\ newPages = AsLoaded(new)
    BY <2>1 DEF Shape, Before, Walked
  <2>3. AsLoaded(old)' = AsLoaded(old) /\ AsLoaded(new)' = AsLoaded(new)
    BY <2>1 DEF AsLoaded
  <2>4. /\ SumLeafAvail(AsLoaded(old))' = o /\ SumLeafAvail(AsLoaded(new))' = n
    BY <2>2, <2>3 DEF SumLeafAvail, AvailAt
  <2> HIDE DEF o, n
  <2>5. stats'.oldAvail = o /\ stats'.newAvail = n
    BY <2>1 DEF Shape, DiffStats
  <2> QED BY <2>4, <2>5 DEF Totalled
<1>2. CASE LoadFails \/ LoadOld \/ LoadNew \/ OutFails \/ StartWalk \/ DiffNode
  BY <1>2 DEF LoadFails, LoadOld, LoadNew, Loaded, OutFails, StartWalk, DiffNode
<1>3. CASE UNCHANGED vars \/ Ended
  <2>1. UNCHANGED <<old, new, phase, stats>>
    BY <1>3 DEF vars, Ended
  <2>2. AsLoaded(old)' = AsLoaded(old) /\ AsLoaded(new)' = AsLoaded(new)
    BY <2>1 DEF AsLoaded
  <2>3. /\ SumLeafAvail(AsLoaded(old))' = SumLeafAvail(AsLoaded(old))
        /\ SumLeafAvail(AsLoaded(new))' = SumLeafAvail(AsLoaded(new))
    BY <2>2 DEF SumLeafAvail, AvailAt
  <2> QED BY <2>1, <2>3 DEF Totalled
<1> QED BY <1>1, <1>2, <1>3 DEF Next, Step

(* The space of a set of usable pages, page by page and part by part.      *)
LEMMA AvailSplit ==
  ASSUME NEW f \in Seq(RawPages), NEW S \in SUBSET GoodIn(f), NEW B
  PROVE  /\ AvailOf(f, S) = AvailOf(f, S \cap B) + AvailOf(f, S \ B)
         /\ AvailOf(f, S \cap B) \in Int /\ AvailOf(f, S \ B) \in Int
<1> DEFINE g == [p \in S |-> TotalAvail(f[p + 1].leaf)]
           T == S \cap B
           U == S \ B
           gt == [p \in T |-> TotalAvail(f[p + 1].leaf)]
           gu == [p \in U |-> TotalAvail(f[p + 1].leaf)]
<1>1. IsFiniteSet(S)
  <2>1. IsFiniteSet(GoodIn(f))
    BY LoadedPages
  <2> QED BY <2>1, FS_Subset
<1>2. \A p \in S : g[p] \in Int
  BY AvailOfPage
<1>3. T \cup U = S /\ T \cap U = {} /\ T \subseteq S /\ U \subseteq S
  OBVIOUS
<1>4. IsFiniteSet(T) /\ IsFiniteSet(U)
  BY <1>1, <1>3, FS_Subset
<1>5. \A p \in T : gt[p] = g[p]
  BY <1>3
<1>6. \A p \in U : gu[p] = g[p]
  BY <1>3
<1> HIDE DEF g, gt, gu, T, U
<1>7. SumFunctionOnSet(g, S) = SumFunctionOnSet(g, T) + SumFunctionOnSet(g, U)
  <2>1. \A p \in T \cup U : g[p] \in Int
    BY <1>2, <1>3
  <2>2. SumFunctionOnSet(g, T \cup U) = SumFunctionOnSet(g, T) + SumFunctionOnSet(g, U)
    BY <1>3, <1>4, <2>1, SumUnion
  <2> QED BY <1>3, <2>2
<1>8. SumFunctionOnSet(gt, T) = SumFunctionOnSet(g, T) /\ SumFunctionOnSet(g, T) \in Int
  <2>1. \A p \in T : g[p] \in Int /\ gt[p] \in Int
    BY <1>2, <1>3, <1>5
  <2> QED BY <1>4, <1>5, <2>1, SumSame, SumType
<1>9. SumFunctionOnSet(gu, U) = SumFunctionOnSet(g, U) /\ SumFunctionOnSet(g, U) \in Int
  <2>1. \A p \in U : g[p] \in Int /\ gu[p] \in Int
    BY <1>2, <1>3, <1>6
  <2> QED BY <1>4, <1>6, <2>1, SumSame, SumType
<1> QED BY <1>7, <1>8, <1>9 DEF AvailOf, g, gt, gu, T, U

LEMMA AvailOfBoth ==
  ASSUME Shape
  PROVE  SumFunctionOnSet(GainAt, InBoth) = AvailOf(new, InBoth) - AvailOf(old, InBoth)
<1> DEFINE a == [p \in InBoth |-> TotalAvail(old[p + 1].leaf)]
           b == [p \in InBoth |-> TotalAvail(new[p + 1].leaf)]
<1>1. IsFiniteSet(InBoth)
  BY PageSets
<1>2. old \in Seq(RawPages) /\ new \in Seq(RawPages)
  BY FilesArePages DEF Shape
<1>3. \A p \in InBoth : a[p] \in Int /\ b[p] \in Int /\ GainAt[p] = b[p] - a[p]
  <2> SUFFICES ASSUME NEW p \in InBoth
               PROVE  a[p] \in Int /\ b[p] \in Int /\ GainAt[p] = b[p] - a[p]
    OBVIOUS
  <2>1. p \in GoodIn(old) /\ p \in GoodIn(new)
    BY DEF InBoth
  <2>2. TotalAvail(old[p + 1].leaf) \in Int /\ TotalAvail(new[p + 1].leaf) \in Int
    BY <1>2, <2>1, AvailOfPage
  <2> QED BY <2>2 DEF GainAt
<1> HIDE DEF a, b
<1>4. \A p \in InBoth : a[p] \in Int /\ GainAt[p] \in Int /\ b[p] = a[p] + GainAt[p]
  BY <1>3
<1>5. SumFunctionOnSet(b, InBoth) = SumFunctionOnSet(a, InBoth) + SumFunctionOnSet(GainAt, InBoth)
  BY <1>1, <1>4, SumOfSums
<1>6. SumFunctionOnSet(a, InBoth) \in Int /\ SumFunctionOnSet(GainAt, InBoth) \in Int
  BY <1>1, <1>4, SumType
<1>7. SumFunctionOnSet(GainAt, InBoth) = SumFunctionOnSet(b, InBoth) - SumFunctionOnSet(a, InBoth)
  BY <1>5, <1>6
<1> QED BY <1>7 DEF AvailOf, a, b

(* Free space is conserved by the diff: what the totals of sum_leaf_avail  *)
(* differ by is what the deltas say of the leaf pages both files have,     *)
(* plus the space of leaf pages added, less that of leaf pages removed.    *)
THEOREM SpaceIsConserved == Spec => []SpaceConserved
<1>1. Init => Shape /\ Spaced /\ Totalled
  BY ShapeBegins, SpacedBegins DEF Init, Totalled
<1>2. Shape /\ Spaced /\ Totalled /\ [Next]_vars => (Shape /\ Spaced /\ Totalled)'
  BY ShapeStays, SpacedStays, TotalledStays
<1>3. Shape /\ Spaced /\ Totalled => SpaceConserved
  <2> SUFFICES ASSUME Shape, Spaced, Totalled, phase = "done" PROVE SpaceConserved
    BY DEF SpaceConserved
  <2> DEFINE N == GoodIn(new)
             O == GoodIn(old)
             B == InBoth
             L == Leaves
             ds == [i \in DOMAIN deltas |-> LengthOf(deltas[i]) * deltas[i].value]
  <2>1. old \in Seq(RawPages) /\ new \in Seq(RawPages)
    BY FilesArePages DEF Shape
  <2>2. Len(visited) = TotalMax
    BY AllVisited
  <2>3. /\ O \subseteq AllPages /\ N \subseteq AllPages /\ B \subseteq AllPages /\ B = O \cap N
    BY PageSets DEF InBoth
  <2>4. First(TotalMax, B) = B
    BY <2>3 DEF First, AllPages
  <2>5. SumFunction(ds) = AvailOf(new, B) - AvailOf(old, B)
    <3>1. Weights(deltas) = ds /\ DOMAIN ds = 1..Len(deltas)
      BY DEF Spaced, Weights
    <3>2. SumFunction(ds) = SumFunctionOnSet(Weights(deltas), 1..Len(deltas))
      BY <3>1 DEF SumFunction
    <3>3. SumFunctionOnSet(Weights(deltas), 1..Len(deltas)) = SumFunctionOnSet(GainAt, B)
      BY <2>2, <2>4 DEF Spaced
    <3> QED BY <3>2, <3>3, AvailOfBoth
  <2>6. /\ {p \in N : Level(p) = 2} = N \cap L /\ {p \in O : Level(p) = 2} = O \cap L
    BY <2>3 DEF Leaves
  <2>7. stats.newAvail = AvailOf(new, N \cap L) /\ stats.oldAvail = AvailOf(old, O \cap L)
    BY <2>1, <2>6, AvailOfFile DEF Totalled
  <2> HIDE DEF N, O, B, L, ds
  <2>8. /\ (N \cap L) \cap O = B \cap L /\ (N \cap L) \ O = (N \ O) \cap L
        /\ (O \cap L) \cap N = B \cap L /\ (O \cap L) \ N = (O \ N) \cap L
    BY <2>3
  <2>9. /\ N \cap L \in SUBSET N /\ B \in SUBSET N /\ O \cap L \in SUBSET O /\ B \in SUBSET O
    BY <2>3
  <2>10. /\ AvailOf(new, N \cap L) = AvailOf(new, B \cap L) + AvailOf(new, (N \ O) \cap L)
         /\ AvailOf(new, B \cap L) \in Int /\ AvailOf(new, (N \ O) \cap L) \in Int
    <3>1. /\ AvailOf(new, N \cap L)
               = AvailOf(new, (N \cap L) \cap O) + AvailOf(new, (N \cap L) \ O)
          /\ AvailOf(new, (N \cap L) \cap O) \in Int /\ AvailOf(new, (N \cap L) \ O) \in Int
      <4>1. N \cap L \in SUBSET GoodIn(new)
        BY <2>9 DEF N
      <4> QED BY <2>1, <4>1, AvailSplit
    <3> QED BY <2>8, <3>1
  <2>11. /\ AvailOf(old, O \cap L) = AvailOf(old, B \cap L) + AvailOf(old, (O \ N) \cap L)
         /\ AvailOf(old, B \cap L) \in Int /\ AvailOf(old, (O \ N) \cap L) \in Int
    <3>1. /\ AvailOf(old, O \cap L)
               = AvailOf(old, (O \cap L) \cap N) + AvailOf(old, (O \cap L) \ N)
          /\ AvailOf(old, (O \cap L) \cap N) \in Int /\ AvailOf(old, (O \cap L) \ N) \in Int
      <4>1. O \cap L \in SUBSET GoodIn(old)
        BY <2>9 DEF O
      <4> QED BY <2>1, <4>1, AvailSplit
    <3> QED BY <2>8, <3>1
  <2>12. /\ AvailOf(new, B) = AvailOf(new, B \cap L) + AvailOf(new, B \ L)
         /\ AvailOf(new, B \ L) \in Int
    <3>1. B \in SUBSET GoodIn(new)
      BY <2>9 DEF N
    <3> QED BY <2>1, <3>1, AvailSplit
  <2>13. /\ AvailOf(old, B) = AvailOf(old, B \cap L) + AvailOf(old, B \ L)
         /\ AvailOf(old, B \ L) \in Int
    <3>1. B \in SUBSET GoodIn(old)
      BY <2>9 DEF O
    <3> QED BY <2>1, <3>1, AvailSplit
  <2>14. stats.newAvail - stats.oldAvail
           = SumFunction(ds) - (AvailOf(new, B \ L) - AvailOf(old, B \ L))
             + AvailOf(new, (N \ O) \cap L) - AvailOf(old, (O \ N) \cap L)
    BY <2>5, <2>7, <2>10, <2>11, <2>12, <2>13
  <2> QED BY <2>14 DEF SpaceConserved, N, O, B, L, ds
<1> QED BY <1>1, <1>2, <1>3, PTL DEF Spec
===============================================================================
