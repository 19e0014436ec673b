----------------------------- MODULE FsmDumpProofs -----------------------------
(***************************************************************************)
(* For every file, all options, every number of slots of a page and every  *)
(* block size: dump_node visits the pages of the file in order, the        *)
(* summary and the listing are what the file holds, and --heap-page        *)
(* answers from the slot the listing would show.                           *)
(***************************************************************************)
EXTENDS FsmDump, FsmFileProofs

-------------------------------------------------------------------------------
(* The values the statistics take. *)
Stats == [root : Nat, internal : Nat, leaf : Nat, zero : Nat, invalid : Nat,
          maxCat : Categories, maxPage : Nat, maxSlot : Int,
          avail : Int, slots : Nat, catCount : [Categories -> Nat]]

LEMMA StatsBegin == ZeroStats \in Stats
<1>1. 0 \in Categories /\ [c \in Categories |-> 0] \in [Categories -> Nat]
  BY DEF Categories
<1> QED BY <1>1 DEF ZeroStats, Stats

(* What CountLevel, CountLeaf and CountPage change. *)
LEMMA LevelCounted ==
  ASSUME NEW st \in Stats, NEW p
  PROVE  LET new == CountLevel(st, p)
         IN  /\ new \in Stats
             /\ new.root = st.root + IF Level(p) = 0 THEN 1 ELSE 0
             /\ new.internal = st.internal + IF Level(p) = 1 THEN 1 ELSE 0
             /\ new.leaf = st.leaf + IF Level(p) = 2 THEN 1 ELSE 0
             /\ new.zero = st.zero /\ new.invalid = st.invalid
             /\ new.maxCat = st.maxCat /\ new.maxPage = st.maxPage /\ new.maxSlot = st.maxSlot
             /\ new.avail = st.avail /\ new.slots = st.slots /\ new.catCount = st.catCount
<1>1. Level(p) \in {0, 1, 2}
  BY DEF Level
<1>2. CASE Level(p) = 0
  BY <1>2 DEF CountLevel, Stats
<1>3. CASE Level(p) = 1
  BY <1>3 DEF CountLevel, Stats
<1>4. CASE Level(p) = 2
  BY <1>4 DEF CountLevel, Stats
<1> QED BY <1>1, <1>2, <1>3, <1>4

LEMMA LeafCounted ==
  ASSUME NEW st \in Stats, NEW p \in Nat, NEW leaf \in SlotArrays
  PROVE  LET new == CountLeaf(st, p, leaf)
         IN  /\ new \in Stats
             /\ new.root = st.root /\ new.internal = st.internal /\ new.leaf = st.leaf
             /\ new.zero = st.zero /\ new.invalid = st.invalid
             /\ new.avail = st.avail + TotalAvail(leaf)
             /\ new.slots = st.slots + LeafNodesPerPage
             /\ \A c \in Categories : new.catCount[c] = st.catCount[c] + SlotsWith(leaf, c)
             /\ IF MaxCat(leaf) > st.maxCat
                THEN new.maxCat = MaxCat(leaf) /\ new.maxPage = p /\ new.maxSlot = MaxSlot(leaf)
                ELSE new.maxCat = st.maxCat /\ new.maxPage = st.maxPage /\ new.maxSlot = st.maxSlot
<1> DEFINE a == st.avail + TotalAvail(leaf)
           n == st.slots + LeafNodesPerPage
           k == [c \in Categories |-> st.catCount[c] + SlotsWith(leaf, c)]
           counted == [st EXCEPT !.avail = a, !.slots = n, !.catCount = k]
           m == MaxCat(leaf)
           new == CountLeaf(st, p, leaf)
<1>1. a \in Int /\ n \in Nat /\ k \in [Categories -> Nat]
  <2>1. st.avail \in Int /\ st.slots \in Nat /\ st.catCount \in [Categories -> Nat]
    BY DEF Stats
  <2>2. \A c \in Categories : SlotsWith(leaf, c) \in Nat
    BY LeafSums
  <2>3. TotalAvail(leaf) \in Nat
    BY LeafSums
  <2>4. a \in Int
    BY <2>1, <2>3
  <2>5. n \in Nat
    BY <2>1, TreeAssumption
  <2>6. k \in [Categories -> Nat]
    BY <2>1, <2>2
  <2> QED BY <2>4, <2>5, <2>6
<1>2. m \in Categories /\ MaxSlot(leaf) \in Int
  BY HighestSlot
<1>3. new = IF m > st.maxCat
            THEN [counted EXCEPT !.maxCat = m, !.maxPage = p, !.maxSlot = MaxSlot(leaf)]
            ELSE counted
  BY DEF CountLeaf, SlotsWith
<1>4. \A c \in Categories : k[c] = st.catCount[c] + SlotsWith(leaf, c)
  OBVIOUS
<1> HIDE DEF a, n, k, m, new
<1>5. /\ new \in Stats
      /\ new.root = st.root /\ new.internal = st.internal /\ new.leaf = st.leaf
      /\ new.zero = st.zero /\ new.invalid = st.invalid
      /\ new.avail = a /\ new.slots = n /\ new.catCount = k
      /\ IF m > st.maxCat
         THEN new.maxCat = m /\ new.maxPage = p /\ new.maxSlot = MaxSlot(leaf)
         ELSE new.maxCat = st.maxCat /\ new.maxPage = st.maxPage /\ new.maxSlot = st.maxSlot
  <2>1. CASE m > st.maxCat
    BY <1>1, <1>2, <1>3, <2>1 DEF Stats
  <2>2. CASE ~(m > st.maxCat)
    BY <1>1, <1>2, <1>3, <2>2 DEF Stats
  <2> QED BY <2>1, <2>2
<1> QED BY <1>4, <1>5 DEF a, n, m, new

(* A page's part: one for its level, one for its status if it is zero or   *)
(* bad, and the slots of a valid leaf page.                                *)
LEMMA PageCounted ==
  ASSUME NEW st \in Stats, NEW p \in Nat, NEW info \in Infos
  PROVE  LET new == CountPage(st, p, info)
             leafToo == ~info.allzero /\ info.valid /\ Level(p) = 2
         IN  /\ new \in Stats
             /\ new.root = st.root + IF Level(p) = 0 THEN 1 ELSE 0
             /\ new.internal = st.internal + IF Level(p) = 1 THEN 1 ELSE 0
             /\ new.leaf = st.leaf + IF Level(p) = 2 THEN 1 ELSE 0
             /\ new.zero = st.zero + IF info.allzero THEN 1 ELSE 0
             /\ new.invalid = st.invalid + IF ~info.allzero /\ ~info.valid THEN 1 ELSE 0
             /\ leafToo =>
                  /\ new.avail = st.avail + TotalAvail(info.leaf)
                  /\ new.slots = st.slots + LeafNodesPerPage
                  /\ \A c \in Categories :
                       new.catCount[c] = st.catCount[c] + SlotsWith(info.leaf, c)
                  /\ IF MaxCat(info.leaf) > st.maxCat
                     THEN /\ new.maxCat = MaxCat(info.leaf) /\ new.maxPage = p
                          /\ new.maxSlot = MaxSlot(info.leaf)
                     ELSE /\ new.maxCat = st.maxCat /\ new.maxPage = st.maxPage
                          /\ new.maxSlot = st.maxSlot
             /\ ~leafToo =>
                  /\ new.maxCat = st.maxCat /\ new.maxPage = st.maxPage /\ new.maxSlot = st.maxSlot
                  /\ new.avail = st.avail /\ new.slots = st.slots /\ new.catCount = st.catCount
<1> DEFINE l == CountLevel(st, p)
           new == CountPage(st, p, info)
<1>1. /\ l \in Stats
      /\ l.root = st.root + IF Level(p) = 0 THEN 1 ELSE 0
      /\ l.internal = st.internal + IF Level(p) = 1 THEN 1 ELSE 0
      /\ l.leaf = st.leaf + IF Level(p) = 2 THEN 1 ELSE 0
      /\ l.zero = st.zero /\ l.invalid = st.invalid
      /\ l.maxCat = st.maxCat /\ l.maxPage = st.maxPage /\ l.maxSlot = st.maxSlot
      /\ l.avail = st.avail /\ l.slots = st.slots /\ l.catCount = st.catCount
  BY LevelCounted
<1>2. st.zero \in Nat /\ st.invalid \in Nat /\ info.leaf \in SlotArrays
  BY DEF Stats, Infos
<1>3. new = IF info.allzero THEN [l EXCEPT !.zero = @ + 1]
            ELSE IF ~info.valid THEN [l EXCEPT !.invalid = @ + 1]
            ELSE IF Level(p) = 2 THEN CountLeaf(l, p, info.leaf)
            ELSE l
  BY DEF CountPage
<1> HIDE DEF l, new
<1>4. CASE info.allzero
  <2>1. /\ new \in Stats /\ new.zero = l.zero + 1 /\ new.invalid = l.invalid
        /\ new.root = l.root /\ new.internal = l.internal /\ new.leaf = l.leaf
        /\ new.maxCat = l.maxCat /\ new.maxPage = l.maxPage /\ new.maxSlot = l.maxSlot
        /\ new.avail = l.avail /\ new.slots = l.slots /\ new.catCount = l.catCount
    BY <1>1, <1>3, <1>4 DEF Stats
  <2> QED BY <1>1, <1>2, <1>4, <2>1 DEF new
<1>5. CASE ~info.allzero /\ ~info.valid
  <2>1. /\ new \in Stats /\ new.invalid = l.invalid + 1 /\ new.zero = l.zero
        /\ new.root = l.root /\ new.internal = l.internal /\ new.leaf = l.leaf
        /\ new.maxCat = l.maxCat /\ new.maxPage = l.maxPage /\ new.maxSlot = l.maxSlot
        /\ new.avail = l.avail /\ new.slots = l.slots /\ new.catCount = l.catCount
    BY <1>1, <1>3, <1>5 DEF Stats
  <2> QED BY <1>1, <1>2, <1>5, <2>1 DEF new
<1>6. CASE ~info.allzero /\ info.valid /\ Level(p) # 2
  <2>1. new = l
    BY <1>3, <1>6
  <2> QED BY <1>1, <1>2, <1>6, <2>1 DEF new
<1>7. CASE ~info.allzero /\ info.valid /\ Level(p) = 2
  <2>1. new = CountLeaf(l, p, info.leaf)
    BY <1>3, <1>7
  <2>2. /\ new \in Stats
        /\ new.root = l.root /\ new.internal = l.internal /\ new.leaf = l.leaf
        /\ new.zero = l.zero /\ new.invalid = l.invalid
        /\ new.avail = l.avail + TotalAvail(info.leaf)
        /\ new.slots = l.slots + LeafNodesPerPage
        /\ \A c \in Categories : new.catCount[c] = l.catCount[c] + SlotsWith(info.leaf, c)
        /\ IF MaxCat(info.leaf) > l.maxCat
           THEN /\ new.maxCat = MaxCat(info.leaf) /\ new.maxPage = p
                /\ new.maxSlot = MaxSlot(info.leaf)
           ELSE new.maxCat = l.maxCat /\ new.maxPage = l.maxPage /\ new.maxSlot = l.maxSlot
    <3> DEFINE f == info.leaf
    <3>1. l \in Stats
      BY <1>1
    <3>2. f \in SlotArrays /\ new = CountLeaf(l, p, f)
      BY <1>2, <2>1
    <3> HIDE DEF f
    <3>3. /\ new \in Stats
          /\ new.root = l.root /\ new.internal = l.internal /\ new.leaf = l.leaf
          /\ new.zero = l.zero /\ new.invalid = l.invalid
          /\ new.avail = l.avail + TotalAvail(f)
          /\ new.slots = l.slots + LeafNodesPerPage
          /\ \A c \in Categories : new.catCount[c] = l.catCount[c] + SlotsWith(f, c)
          /\ IF MaxCat(f) > l.maxCat
             THEN new.maxCat = MaxCat(f) /\ new.maxPage = p /\ new.maxSlot = MaxSlot(f)
             ELSE new.maxCat = l.maxCat /\ new.maxPage = l.maxPage /\ new.maxSlot = l.maxSlot
      BY <3>1, <3>2, LeafCounted
    <3> QED BY <3>3 DEF f
  <2>3. \A c \in Categories : new.catCount[c] = st.catCount[c] + SlotsWith(info.leaf, c)
    <3>1. l.catCount = st.catCount
      BY <1>1
    <3>2. \A c \in Categories : new.catCount[c] = l.catCount[c] + SlotsWith(info.leaf, c)
      BY <2>2
    <3> QED BY <3>1, <3>2
  <2>4. IF MaxCat(info.leaf) > st.maxCat
        THEN /\ new.maxCat = MaxCat(info.leaf) /\ new.maxPage = p
             /\ new.maxSlot = MaxSlot(info.leaf)
        ELSE new.maxCat = st.maxCat /\ new.maxPage = st.maxPage /\ new.maxSlot = st.maxSlot
    BY <1>1, <2>2
  <2>5. /\ new \in Stats
        /\ new.root = st.root + IF Level(p) = 0 THEN 1 ELSE 0
        /\ new.internal = st.internal + IF Level(p) = 1 THEN 1 ELSE 0
        /\ new.leaf = st.leaf + IF Level(p) = 2 THEN 1 ELSE 0
    BY <1>1, <2>2
  <2>6. /\ new.zero = st.zero + IF info.allzero THEN 1 ELSE 0
        /\ new.invalid = st.invalid + IF ~info.allzero /\ ~info.valid THEN 1 ELSE 0
    <3>1. (IF info.allzero THEN 1 ELSE 0) = 0
      BY <1>7
    <3>2. (IF ~info.allzero /\ ~info.valid THEN 1 ELSE 0) = 0
      BY <1>7
    <3>3. new.zero = st.zero /\ new.invalid = st.invalid
      BY <1>1, <2>2
    <3> QED BY <1>2, <3>1, <3>2, <3>3
  <2>7. /\ new.avail = st.avail + TotalAvail(info.leaf)
        /\ new.slots = st.slots + LeafNodesPerPage
    BY <1>1, <2>2
  <2> QED BY <1>7, <2>3, <2>4, <2>5, <2>6, <2>7 DEF new
<1> QED BY <1>4, <1>5, <1>6, <1>7

-------------------------------------------------------------------------------
(* The states of a run: up to the tree walk or the lookup nothing has been *)
(* counted or printed; in and after the walk the pages visited are the     *)
(* first ones of the file and the stack has those whose parent was among   *)
(* them; after a lookup there is an answer.                                *)
Unprinted == /\ stats = ZeroStats /\ visited = <<>> /\ listing = <<>>
             /\ children = <<>> /\ stack = <<>>

Answer(h) ==
  LET p == FsmPage(h)
      s == FsmSlot(h)
  IN  [page |-> p, slot |-> s,
       found |-> IF p >= Len(pages) THEN "uncovered"
                 ELSE IF pages[p + 1].allzero THEN "empty"
                 ELSE IF ~pages[p + 1].valid THEN "bad"
                 ELSE "category",
       cat |-> IF p < Len(pages) THEN pages[p + 1].leaf[s + 1] ELSE 0]

Whole == Len(file) \in Nat \ {0} /\ Len(pages) = Len(file)

Before == phase \in {"load", "failed"} /\ Unprinted /\ lookup = NoLookup

Walked == /\ phase \in {"walk", "done"} /\ options.query = -1 /\ Whole /\ lookup = NoLookup
          /\ children = BuildChildren(Len(file))
          /\ visited \in Seq(Nat) /\ Len(visited) \in 0..Len(file)
          /\ \A i \in 1..Len(visited) : visited[i] = i - 1
          /\ Sorted(stack, Waiting(Len(visited), Len(file)))
          /\ phase = "done" => stack = <<>>

LookedUp == /\ phase = "done" /\ options.query # -1 /\ Whole /\ Unprinted
            /\ lookup = Answer(options.query)

Shape == /\ file \in Files /\ options \in OptionSets
         /\ pages \in Seq(Infos) /\ Len(pages) <= Len(file)
         /\ \A i \in 1..Len(pages) : pages[i] = PageInfo(file[i])
         /\ stats \in Stats
         /\ Before \/ Walked \/ LookedUp

LEMMA FileIsPages ==
  ASSUME file \in Files
  PROVE  /\ file \in Seq(RawPages) /\ Len(file) \in Nat
         /\ \A i \in 1..Len(file) : file[i] \in RawPages
<1>1. file \in Seq(RawPages)
  BY FilesAssumption
<1> QED BY <1>1

(* A page that is visited. *)
LEMMA VisitedPage ==
  ASSUME Shape, VisitNode
  PROVE  LET v == Len(visited)
         IN  /\ Walked /\ v \in Nat /\ v \in 0..(Len(file) - 1) /\ Head(stack) = v
             /\ pages[v + 1] \in Infos /\ pages[v + 1] = PageInfo(file[v + 1])
             /\ file[v + 1] \in RawPages
             /\ stats' = CountPage(stats, v, pages[v + 1])
             /\ visited' = Append(visited, v) /\ Len(visited') = v + 1
             /\ Sorted(stack', Waiting(v + 1, Len(file)))
<1> DEFINE v == Len(visited)
           total == Len(file)
<1>1. phase = "walk" /\ stack # <<>>
  BY DEF VisitNode
<1>2. Walked
  BY <1>1 DEF Shape, Before, LookedUp
<1>3. /\ total \in Nat /\ v \in 0..total /\ Sorted(stack, Waiting(v, total))
      /\ Len(pages) = total /\ visited \in Seq(Nat)
  BY <1>2 DEF Walked, Whole
<1>4. /\ Head(stack) = v /\ v < total
      /\ Sorted(BuildChildren(total)[v] \o Tail(stack), Waiting(v + 1, total))
  <2> HIDE DEF v, total
  <2> QED BY <1>1, <1>3, WalkGoesOn
<1>5. v \in Nat /\ v + 1 \in 1..total /\ v \in 0..(total - 1)
  BY <1>3, <1>4
<1>6. pages[v + 1] \in Infos /\ pages[v + 1] = PageInfo(file[v + 1])
  BY <1>3, <1>5 DEF Shape
<1>7. file[v + 1] \in RawPages
  BY <1>5, FileIsPages DEF Shape
<1>8. stack' = BuildChildren(total)[v] \o Tail(stack)
  BY <1>2, <1>4 DEF VisitNode, Walked
<1>9. stats' = CountPage(stats, v, pages[v + 1]) /\ visited' = Append(visited, v)
  BY <1>4 DEF VisitNode
<1>10. Len(visited') = v + 1
  BY <1>3, <1>5, <1>9
<1> QED BY <1>2, <1>4, <1>5, <1>6, <1>7, <1>8, <1>9, <1>10

LEMMA ShapeBegins == Init => Shape
<1> SUFFICES ASSUME Init PROVE Shape
  OBVIOUS
<1>1. /\ file \in Files /\ options \in OptionSets /\ pages = <<>>
      /\ phase = "load" /\ Unprinted /\ lookup = NoLookup
  BY DEF Init, Unprinted
<1>2. Before
  BY <1>1 DEF Before
<1>3. pages \in Seq(Infos) /\ Len(pages) = 0 /\ Len(file) \in Nat
  BY <1>1, FileIsPages
<1>4. stats \in Stats
  BY <1>1, StatsBegin DEF Unprinted
<1> QED BY <1>1, <1>2, <1>3, <1>4 DEF Shape

LEMMA ShapeStays == Shape /\ [Next]_vars => Shape'
<1> SUFFICES ASSUME Shape, [Next]_vars PROVE Shape'
  OBVIOUS
<1>1. file' = file /\ options' = options
  BY DEF Next, Step, Ended, LoadFails, LoadPage, OutFails, Lookup, StartWalk, VisitNode,
         EndWalk, vars
<1>2. file \in Files /\ options \in OptionSets /\ Len(file) \in Nat
  BY FileIsPages DEF Shape
<1>3. ASSUME pages' = pages
      PROVE  /\ pages' \in Seq(Infos) /\ Len(pages') <= Len(file')
             /\ \A i \in 1..Len(pages') : pages'[i] = PageInfo(file'[i])
  BY <1>1, <1>3 DEF Shape
<1>4. CASE LoadFails \/ OutFails
  <2>1. /\ pages' = pages /\ phase = "load" /\ phase' = "failed"
        /\ UNCHANGED <<children, stack, stats, visited, listing, lookup>>
    BY <1>4 DEF LoadFails, OutFails, Loaded
  <2>2. Before'
    BY <2>1 DEF Shape, Before, Walked, LookedUp, Unprinted
  <2>3. stats' \in Stats
    BY <2>1 DEF Shape
  <2> QED BY <1>1, <1>2, <1>3, <2>1, <2>2, <2>3 DEF Shape
<1>5. CASE LoadPage
  <2> DEFINE n == Len(pages)
             new == PageInfo(file[n + 1])
  <2>1. /\ phase = "load" /\ n < Len(file) /\ pages' = Append(pages, new)
        /\ UNCHANGED <<phase, children, stack, stats, visited, listing, lookup>>
    BY <1>5 DEF LoadPage
  <2>2. Before'
    BY <2>1 DEF Shape, Before, Walked, LookedUp, Unprinted
  <2>3. pages \in Seq(Infos) /\ n \in Nat /\ n + 1 \in 1..Len(file)
    BY <1>2, <2>1 DEF Shape
  <2>4. new \in Infos
    BY <1>2, <2>3, FileIsPages, PageIsKept
  <2>5. /\ pages' \in Seq(Infos) /\ Len(pages') = n + 1
        /\ \A i \in 1..n : pages'[i] = pages[i]
        /\ pages'[n + 1] = new
    <3> HIDE DEF new
    <3> QED BY <2>1, <2>3, <2>4
  <2>6. \A i \in 1..(n + 1) : pages'[i] = PageInfo(file[i])
    <3>1. \A i \in 1..(n + 1) : i \in 1..n \/ i = n + 1
      BY <2>3
    <3>2. \A i \in 1..n : pages[i] = PageInfo(file[i])
      BY DEF Shape
    <3> QED BY <2>5, <3>1, <3>2
  <2>7. n + 1 <= Len(file)
    BY <2>3
  <2>8. stats' \in Stats
    BY <2>1 DEF Shape
  <2> QED BY <1>1, <1>2, <2>2, <2>5, <2>6, <2>7, <2>8 DEF Shape
<1>6. CASE Lookup
  <2>1. /\ Loaded /\ options.query # -1 /\ phase' = "done" /\ lookup' = Answer(options.query)
        /\ UNCHANGED <<pages, children, stack, stats, visited, listing>>
    BY <1>6 DEF Lookup, Answer
  <2>2. Before /\ Whole
    BY <1>2, <2>1, EmptySeq, FileIsPages DEF Loaded, Shape, Before, Walked, LookedUp, Whole
  <2>3. Answer(options.query)' = Answer(options.query)
    BY <1>1, <2>1 DEF Answer
  <2>4. LookedUp'
    BY <1>1, <2>1, <2>2, <2>3 DEF LookedUp, Before, Unprinted, Whole
  <2>5. stats' \in Stats
    BY <2>1 DEF Shape
  <2> QED BY <1>1, <1>2, <1>3, <2>1, <2>4, <2>5 DEF Shape
<1>7. CASE StartWalk
  <2>1. /\ Loaded /\ options.query = -1 /\ phase' = "walk" /\ stack' = <<0>>
        /\ children' = BuildChildren(Len(pages))
        /\ UNCHANGED <<pages, stats, visited, listing, lookup>>
    BY <1>7 DEF StartWalk
  <2>2. Before /\ Whole
    BY <1>2, <2>1, EmptySeq, FileIsPages DEF Loaded, Shape, Before, Walked, LookedUp, Whole
  <2>3. visited' = <<>> /\ Len(visited') = 0 /\ lookup' = NoLookup /\ visited' \in Seq(Nat)
    BY <2>1, <2>2 DEF Before, Unprinted
  <2>4. Sorted(stack', Waiting(0, Len(file)))
    BY <2>1, <2>2, WalkStarts DEF Whole
  <2>5. Walked'
    BY <1>1, <2>1, <2>2, <2>3, <2>4 DEF Walked, Whole
  <2>6. stats' \in Stats
    BY <2>1 DEF Shape
  <2> QED BY <1>1, <1>2, <1>3, <2>1, <2>5, <2>6 DEF Shape
<1>8. CASE VisitNode
  <2> DEFINE v == Len(visited)
  <2>1. /\ Walked /\ v \in Nat /\ v \in 0..(Len(file) - 1)
        /\ pages[v + 1] \in Infos
        /\ stats' = CountPage(stats, v, pages[v + 1])
        /\ visited' = Append(visited, v) /\ Len(visited') = v + 1
        /\ Sorted(stack', Waiting(v + 1, Len(file)))
    BY <1>8, VisitedPage
  <2>2. phase = "walk" /\ UNCHANGED <<phase, pages, children, lookup>>
    BY <1>8 DEF VisitNode
  <2>3. stats' \in Stats
    BY <2>1, PageCounted DEF Shape
  <2>4. visited \in Seq(Nat) /\ \A i \in 1..v : visited[i] = i - 1
    BY <2>1 DEF Walked
  <2>5. visited' \in Seq(Nat) /\ \A i \in 1..(v + 1) : visited'[i] = i - 1
    <3>1. \A i \in 1..(v + 1) : i \in 1..v \/ i = v + 1
      BY <2>1
    <3>2. visited' \in Seq(Nat) /\ visited'[v + 1] = v /\ \A i \in 1..v : visited'[i] = visited[i]
      BY <2>1, <2>4
    <3> QED BY <2>1, <2>4, <3>1, <3>2
  <2>6. Len(visited') \in 0..Len(file)
    BY <1>2, <2>1
  <2> HIDE DEF v
  <2>7. Walked'
    BY <1>1, <2>1, <2>2, <2>5, <2>6 DEF Walked, Whole
  <2> QED BY <1>1, <1>2, <1>3, <2>2, <2>3, <2>7 DEF Shape
<1>9. CASE EndWalk
  <2>1. /\ phase = "walk" /\ stack = <<>> /\ phase' = "done"
        /\ UNCHANGED <<pages, children, stack, stats, visited, listing, lookup>>
    BY <1>9 DEF EndWalk
  <2>2. Walked
    BY <2>1 DEF Shape, Before, LookedUp
  <2>3. Walked'
    BY <1>1, <2>1, <2>2 DEF Walked, Whole
  <2>4. stats' \in Stats
    BY <2>1 DEF Shape
  <2> QED BY <1>1, <1>2, <1>3, <2>1, <2>3, <2>4 DEF Shape
<1>10. CASE UNCHANGED vars
  <2>1. /\ UNCHANGED <<file, options, phase, pages, children, stack, stats, visited,
                       listing, lookup>>
    BY <1>10 DEF vars
  <2>2. Before' = Before /\ Walked' = Walked /\ LookedUp' = LookedUp
    BY <2>1 DEF Before, Walked, LookedUp, Unprinted, Whole, Answer
  <2> QED BY <2>1, <2>2 DEF Shape
<1> QED BY <1>4, <1>5, <1>6, <1>7, <1>8, <1>9, <1>10 DEF Next, Step, Ended

LEMMA ShapeHolds == Spec => []Shape
BY ShapeBegins, ShapeStays, PTL DEF Spec

LEMMA ShapeIsTyped == Shape => TypeOK
<1> SUFFICES ASSUME Shape PROVE TypeOK
  OBVIOUS
<1>1. /\ file \in Files /\ options \in OptionSets /\ Len(file) \in Nat
      /\ phase \in {"load", "walk", "done", "failed"}
      /\ Len(pages) <= Len(file)
  BY FileIsPages DEF Shape, Before, Walked, LookedUp
<1>2. \A i \in 1..Len(pages) : /\ pages[i].allzero \in BOOLEAN
                              /\ pages[i].valid \in BOOLEAN
                              /\ pages[i].leaf \in [1..LeafNodesPerPage -> Categories]
  <2>1. \A info \in Infos : /\ info.allzero \in BOOLEAN /\ info.valid \in BOOLEAN
                            /\ info.leaf \in [1..LeafNodesPerPage -> Categories]
    BY DEF Infos, SlotArrays
  <2>2. \A i \in 1..Len(pages) : pages[i] \in Infos
    BY DEF Shape
  <2> QED BY <2>1, <2>2
<1>3. DOMAIN stats = DOMAIN ZeroStats
  BY DEF Shape, Stats, ZeroStats
<1>4. lookup.found \in {"none", "uncovered", "empty", "bad", "category"}
  <2>1. CASE lookup = NoLookup
    BY <2>1 DEF NoLookup
  <2>2. CASE LookedUp
    <3>1. lookup = Answer(options.query)
      BY <2>2 DEF LookedUp
    <3> QED BY <3>1 DEF Answer
  <2> QED BY <2>1, <2>2 DEF Shape, Before, Walked
<1>5. /\ \A p \in DOMAIN children : Range(children[p]) \subseteq 0..LastPage
      /\ Range(stack) \subseteq 0..LastPage
      /\ Range(visited) \subseteq 0..LastPage
  <2>1. CASE Unprinted
    <3>1. children = <<>> /\ stack = <<>> /\ visited = <<>> /\ DOMAIN <<>> = {}
      BY <2>1 DEF Unprinted
    <3> QED BY <3>1 DEF Range
  <2>2. CASE Walked
    <3> DEFINE n == Len(file)
               v == Len(visited)
    <3>1. /\ n \in Nat \ {0} /\ v \in 0..n /\ children = BuildChildren(n)
          /\ Sorted(stack, Waiting(v, n))
          /\ visited \in Seq(Nat) /\ \A i \in 1..v : visited[i] = i - 1
      BY <2>2 DEF Walked, Whole
    <3>2. LastPage = n - 1 /\ LastPage \in Nat
      BY <3>1 DEF LastPage
    <3>3. \A p \in DOMAIN children : Range(children[p]) \subseteq 0..LastPage
      <4> SUFFICES ASSUME NEW p \in DOMAIN children PROVE Range(children[p]) \subseteq 0..LastPage
        OBVIOUS
      <4>1. n \in Nat
        BY <3>1
      <4> HIDE DEF n
      <4>2. p \in 0..(n - 1) /\ Sorted(children[p], ChildrenOf(p, n))
        BY <3>1, <4>1, ChildrenInOrder
      <4>3. ChildrenOf(p, n) \in SUBSET (0..LastPage)
        BY <3>2 DEF ChildrenOf
      <4> QED BY <3>2, <4>2, <4>3, SortedWithin
    <3>4. Waiting(v, n) \in SUBSET (0..LastPage)
      BY <3>1, <3>2 DEF Waiting
    <3>5. Range(stack) \subseteq 0..LastPage
      <4> HIDE DEF n, v
      <4> QED BY <3>1, <3>2, <3>4, SortedWithin
    <3>6. \A i \in 1..v : visited[i] \in 0..LastPage
      BY <3>1, <3>2
    <3>7. Range(visited) \subseteq 0..LastPage
      BY <3>1, <3>6 DEF Range
    <3> QED BY <3>3, <3>5, <3>7
  <2> QED BY <2>1, <2>2 DEF Shape, Before, LookedUp
<1> QED BY <1>1, <1>2, <1>3, <1>4, <1>5 DEF TypeOK

(* dump_node is called for every page of the file, each once and in file   *)
(* order, although it starts from page 0 alone and follows the index that  *)
(* build_fsm_children made: the pages it still has to visit are always     *)
(* those from the next one on whose parent it has seen.                    *)
THEOREM PagesInFileOrder == Spec => []WalkIsFileOrder
<1>1. Shape => WalkIsFileOrder
  <2> SUFFICES ASSUME Shape PROVE WalkIsFileOrder
    OBVIOUS
  <2>1. TypeOK
    BY ShapeIsTyped
  <2>2. \A i \in 1..Len(visited) : visited[i] = i - 1
    BY DEF Shape, Before, Walked, LookedUp, Unprinted
  <2>3. ASSUME phase = "done", options.query = -1 PROVE Len(visited) = Len(file)
    <3> DEFINE n == Len(file)
               v == Len(visited)
    <3>1. n \in Nat /\ v \in 0..n /\ Sorted(<<>>, Waiting(v, n))
      BY <2>3 DEF Shape, Before, Walked, LookedUp, Whole
    <3> HIDE DEF n, v
    <3>2. v = n
      BY <3>1, WalkEnds
    <3> QED BY <3>2 DEF n, v
  <2> QED BY <2>1, <2>2, <2>3 DEF WalkIsFileOrder
<1> QED BY <1>1, ShapeHolds, PTL

(* --heap-page N answers with a category exactly when a valid leaf page of *)
(* the file has the slot that the listing shows as heap page N, with that  *)
(* slot's category, and says "not covered yet" exactly when no leaf page   *)
(* of the file has one.                                                    *)
THEOREM LookupIsListing == Spec => []LookupMatchesListing
<1>1. Shape => LookupMatchesListing
  <2> SUFFICES ASSUME Shape, lookup.found # "none"
               PROVE  LET Covering == {p \in LeafPages : \E s \in 0..(LeafNodesPerPage - 1) :
                                                           HeapPage(p, s) = options.query}
                      IN  /\ lookup.found = "uncovered" <=> Covering = {}
                          /\ lookup.found # "uncovered" =>
                               /\ lookup.page \in Covering
                               /\ HeapPage(lookup.page, lookup.slot) = options.query
                          /\ lookup.found = "category" <=> Covering \cap ValidPages # {}
                          /\ lookup.found = "category" =>
                               lookup.cat = LeafAt(lookup.page)[lookup.slot + 1]
    BY DEF LookupMatchesListing
  <2> DEFINE n == Len(file)
             h == options.query
             p == FsmPage(h)
             s == FsmSlot(h)
             Covering == {q \in LeafPages : \E t \in 0..(LeafNodesPerPage - 1) :
                                              HeapPage(q, t) = h}
  <2>1. LookedUp
    <3>1. lookup # NoLookup
      BY DEF NoLookup
    <3> QED BY <3>1 DEF Shape, Before, Walked
  <2>2. n \in Nat \ {0} /\ Len(pages) = n /\ lookup = Answer(h) /\ h # -1
    BY <2>1 DEF LookedUp, Whole
  <2>3. h \in Nat
    BY <2>2, OptionsAssumption DEF Shape
  <2>4. /\ p \in Nat /\ Level(p) = 2 /\ s \in 0..(LeafNodesPerPage - 1) /\ HeapPage(p, s) = h
    <3> HIDE DEF h
    <3> QED BY <2>3, LookupIsInverse
  <2>5. \A q \in Nat : \A t \in 0..(LeafNodesPerPage - 1) :
          Level(q) = 2 /\ HeapPage(q, t) = h => q = p
    <3> HIDE DEF h
    <3> QED BY ListedSlotIsFound
  <2>6. /\ lookup.page = p /\ lookup.slot = s
        /\ lookup.found = IF p >= n THEN "uncovered"
                          ELSE IF pages[p + 1].allzero THEN "empty"
                          ELSE IF ~pages[p + 1].valid THEN "bad"
                          ELSE "category"
        /\ lookup.cat = IF p < n THEN pages[p + 1].leaf[s + 1] ELSE 0
    BY <2>2 DEF Answer
  <2>7. LeafPages = {q \in 0..(n - 1) : Level(q) = 2}
    BY DEF LeafPages, LastPage
  <2> HIDE DEF n, h, p, s
  <2>8. \A q \in Covering : q = p
    BY <2>5, <2>7
  <2>9. CASE p >= n
    <3>1. p \notin 0..(n - 1)
      BY <2>2, <2>4, <2>9
    <3>2. Covering = {}
      BY <2>7, <2>8, <3>1
    <3>3. lookup.found = "uncovered"
      BY <2>6, <2>9
    <3> QED BY <3>2, <3>3 DEF h
  <2>10. CASE p < n
    <3>1. p \in 0..(n - 1) /\ p + 1 \in 1..n
      BY <2>2, <2>4, <2>10
    <3>2. p \in Covering
      BY <2>4, <2>7, <3>1
    <3>3. pages[p + 1] = PageInfo(file[p + 1]) /\ file[p + 1] \in RawPages
      BY <2>2, <3>1, FileIsPages DEF Shape, n
    <3> DEFINE raw == file[p + 1]
    <3>4. /\ pages[p + 1].valid <=> raw.kind = "ok"
          /\ pages[p + 1].allzero <=> raw.kind \in {"zero", "short"}
          /\ raw.kind = "ok" => pages[p + 1].leaf = raw.leaf
      BY <3>3, PageIsKept
    <3>5. ~(p >= n)
      BY <2>2, <2>4, <2>10
    <3>6. lookup.found # "uncovered" /\ (lookup.found = "category" <=> raw.kind = "ok")
      BY <2>6, <3>4, <3>5
    <3>7. p \in ValidPages <=> raw.kind = "ok"
      BY <3>1 DEF ValidPages, LastPage, n
    <3>8. Covering \cap ValidPages # {} <=> p \in ValidPages
      BY <2>8, <3>2
    <3>9. raw.kind = "ok" => lookup.cat = LeafAt(p)[s + 1]
      BY <2>6, <2>10, <3>4 DEF LeafAt
    <3> HIDE DEF Covering
    <3>10. /\ lookup.found = "uncovered" <=> Covering = {}
           /\ lookup.found # "uncovered" =>
                lookup.page \in Covering /\ HeapPage(lookup.page, lookup.slot) = h
           /\ lookup.found = "category" <=> Covering \cap ValidPages # {}
           /\ lookup.found = "category" => lookup.cat = LeafAt(lookup.page)[lookup.slot + 1]
      BY <2>4, <2>6, <3>2, <3>6, <3>7, <3>8, <3>9
    <3> QED BY <3>10 DEF Covering, h
  <2> QED BY <2>2, <2>4, <2>9, <2>10
<1> QED BY <1>1, ShapeHolds, PTL

-------------------------------------------------------------------------------
(* The categories of the file by heap page, and the heap pages that the    *)
(* first n pages of the file have shown slots for.                         *)
ByHeapPage == [h \in Nat |-> LeafAt(FsmPage(h))[FsmSlot(h) + 1]]

ShownSlots(p) ==
  {HeapPage(p, s - 1) : s \in {t \in 1..LeafNodesPerPage :
                                 InAvailRange(CatToBytes(LeafAt(p)[t]))}}

ShownLeaves(n) == {p \in 0..(n - 1) : /\ Level(p) = 2 /\ file[p + 1].kind = "ok"
                                      /\ InPageRange(options, p)}

Shown(n) == UNION {ShownSlots(p) : p \in ShownLeaves(n)}

(* The lines of a leaf page stand for its shown slots. *)
LEMMA LinesCover ==
  ASSUME NEW p \in Nat, Level(p) = 2, NEW leaf \in SlotArrays, LeafAt(p) = leaf
  PROVE  Cover(LeafLines(p, leaf), ByHeapPage, ShownSlots(p))
<1> DEFINE L == LeafNodesPerPage
           T == {c \in Categories : InAvailRange(CatToBytes(c))}
           runs == IF options.expand THEN Slots(leaf) ELSE Compress(leaf)
           kept == Kept(runs, T)
           base == LogPageNo(p) * L
           d == base - 1
           P == {t \in 1..L : leaf[t] \in T}
<1>1. /\ leaf \in Seq(Categories) /\ Len(leaf) = L /\ L \in Nat \ {0}
      /\ \A t \in 1..L : leaf[t] \in Categories
  BY LeafSlots, TreeAssumption DEF SlotArrays
<1>2. base \in Nat
  <2>1. p # 0
    BY DEF Level
  <2>2. GroupOf(p) \in Nat /\ OffsetOf(p) \in 0..L /\ OffsetOf(p) # 0
    BY <2>1, PlaceInGroup DEF Level
  <2>3. LogPageNo(p) = GroupOf(p) * L + OffsetOf(p) - 1
    BY <2>1 DEF LogPageNo
  <2>4. GroupOf(p) * L \in Nat
    BY <1>1, <2>2, Products
  <2>5. LogPageNo(p) \in Nat
    <3> DEFINE g == GroupOf(p) * L
    <3>1. g \in Nat /\ LogPageNo(p) = g + OffsetOf(p) - 1
      BY <2>3, <2>4
    <3> HIDE DEF g, L
    <3> QED BY <1>1, <2>2, <3>1
  <2> QED BY <1>1, <2>5, Products
<1>3. d \in Int /\ \A x \in Int : HeapPage(p, x - 1) = x + d
  <2>1. \A x \in Int : HeapPage(p, x - 1) = base + (x - 1)
    BY DEF HeapPage
  <2> HIDE DEF base
  <2> QED BY <1>2, <2>1
<1> HIDE DEF L, d, base
<1>4. Cover(runs, leaf, 1..L)
  <2>1. CASE options.expand
    <3>1. runs = [s \in 1..Len(leaf) |-> Run(s, s, leaf[s])]
      BY <2>1 DEF Slots
    <3>2. Cover([s \in 1..Len(leaf) |-> Run(s, s, leaf[s])], leaf, 1..Len(leaf))
      BY <1>1, SinglesCover
    <3> QED BY <1>1, <3>1, <3>2
  <2>2. CASE ~options.expand
    <3>1. Cover(Compress(leaf), leaf, 1..Len(leaf))
      BY <1>1, CompressCovers
    <3> QED BY <1>1, <2>2, <3>1
  <2> QED BY <2>1, <2>2
<1>5. Cover(kept, leaf, P)
  <2> DEFINE R == 1..L
  <2>1. Cover(runs, leaf, R)
    BY <1>4
  <2> HIDE DEF runs, T, R
  <2>2. Cover(Kept(runs, T), leaf, {t \in R : leaf[t] \in T})
    BY <2>1, KeptCovers
  <2> QED BY <2>2 DEF R
<1> HIDE DEF runs
<1>6. \A t \in P : t + d \in DOMAIN ByHeapPage /\ ByHeapPage[t + d] = leaf[t]
  <2> SUFFICES ASSUME NEW t \in 1..L
               PROVE  t + d \in DOMAIN ByHeapPage /\ ByHeapPage[t + d] = leaf[t]
    OBVIOUS
  <2>1. t - 1 \in 0..(LeafNodesPerPage - 1) /\ t \in Int /\ (t - 1) + 1 = t
    BY <1>1 DEF L
  <2>2. HeapPage(p, t - 1) = t + d
    BY <1>3, <2>1
  <2>3. t + d \in Nat
    BY <1>1, <1>2 DEF d
  <2>4. FsmPage(t + d) = p /\ FsmSlot(t + d) = t - 1
    BY <2>1, <2>2, ListedSlotIsFound
  <2>5. ByHeapPage[t + d] = LeafAt(p)[(t - 1) + 1]
    BY <2>3, <2>4 DEF ByHeapPage
  <2>6. t + d \in DOMAIN ByHeapPage
    BY <2>3 DEF ByHeapPage
  <2> QED BY <2>1, <2>5, <2>6
<1>7. Cover([i \in 1..Len(kept) |-> Run(kept[i].start + d, kept[i].end + d, kept[i].value)],
            ByHeapPage, {t + d : t \in P})
  <2> HIDE DEF kept, P
  <2> QED BY <1>3, <1>5, <1>6, CoverShift
<1>8. {t + d : t \in P} = ShownSlots(p)
  <2>1. P = {t \in 1..L : InAvailRange(CatToBytes(LeafAt(p)[t]))}
    BY <1>1
  <2>2. \A t \in 1..L : HeapPage(p, t - 1) = t + d
    BY <1>1, <1>3
  <2> HIDE DEF P
  <2> QED BY <2>1, <2>2 DEF ShownSlots, L
<1>9. LeafLines(p, leaf)
        = [i \in 1..Len(kept) |-> Run(kept[i].start + d, kept[i].end + d, kept[i].value)]
  <2>1. LeafLines(p, leaf)
          = [i \in 1..Len(kept) |-> Run(HeapPage(p, kept[i].start - 1),
                                        HeapPage(p, kept[i].end - 1), kept[i].value)]
    BY DEF LeafLines, runs
  <2>2. \A i \in 1..Len(kept) : kept[i].start \in Int /\ kept[i].end \in Int
    <3> DEFINE V == Range(leaf)
    <3>1. kept \in Seq(RunsIn(V))
      BY <1>5 DEF Cover
    <3>2. \A r \in RunsIn(V) : r.start \in Int /\ r.end \in Int
      BY DEF RunsIn
    <3> HIDE DEF kept, V
    <3>3. \A i \in 1..Len(kept) : kept[i] \in RunsIn(V)
      BY <3>1
    <3> QED BY <3>2, <3>3
  <2> HIDE DEF kept
  <2> QED BY <1>3, <2>1, <2>2
<1> HIDE DEF kept
<1> QED BY <1>7, <1>8, <1>9

(* The lines printed so far stand for the shown slots of the pages visited *)
(* so far.                                                                 *)
Listed == options.slots /\ Walked => Cover(listing, ByHeapPage, Shown(Len(visited)))

LEMMA ListedStays == Shape /\ Listed /\ [Next]_vars => Listed'
<1> SUFFICES ASSUME Shape, Listed, [Next]_vars, options'.slots, Walked'
             PROVE  Cover(listing, ByHeapPage, Shown(Len(visited)))'
  BY DEF Listed
<1>1. file' = file /\ options' = options
  BY DEF Next, Step, Ended, LoadFails, LoadPage, OutFails, Lookup, StartWalk, VisitNode,
         EndWalk, vars
<1>2. \A n : Shown(n)' = Shown(n)
  BY <1>1 DEF Shown, ShownLeaves, ShownSlots, InAvailRange, LeafAt
<1>3. ByHeapPage' = ByHeapPage
  BY <1>1 DEF ByHeapPage, LeafAt
<1> SUFFICES Cover(listing', ByHeapPage, Shown(Len(visited')))
  BY <1>2, <1>3
<1>4. CASE LoadFails \/ OutFails \/ LoadPage \/ Lookup
  <2>1. FALSE
    BY <1>1, <1>4 DEF LoadFails, OutFails, LoadPage, Lookup, Loaded, Walked
  <2> QED BY <2>1
<1>5. CASE StartWalk
  <2>1. listing' = <<>> /\ visited' = <<>>
    BY <1>5 DEF StartWalk, Loaded, Shape, Before, Walked, LookedUp, Unprinted
  <2>2. Shown(Len(visited')) = {}
    BY <2>1 DEF Shown, ShownLeaves
  <2> QED BY <2>1, <2>2, CoverNone
<1>6. CASE VisitNode
  <2> DEFINE v == Len(visited)
             info == pages[v + 1]
             raw == file[v + 1]
  <2>1. /\ Walked /\ v \in Nat /\ Head(stack) = v
        /\ info = PageInfo(raw) /\ raw \in RawPages
        /\ Len(visited') = v + 1
    BY <1>6, VisitedPage
  <2>2. Cover(listing, ByHeapPage, Shown(v))
    BY <1>1, <2>1 DEF Listed
  <2>3. listing' = IF info.valid /\ Level(v) = 2 /\ InPageRange(options, v)
                   THEN listing \o LeafLines(v, info.leaf) ELSE listing
    BY <1>1, <1>6, <2>1 DEF VisitNode
  <2>4. info.valid <=> raw.kind = "ok"
    BY <2>1, PageIsKept
  <2>5. CASE info.valid /\ Level(v) = 2 /\ InPageRange(options, v)
    <3>1. info.leaf \in SlotArrays /\ LeafAt(v) = info.leaf
      BY <2>1, <2>4, <2>5, PageIsKept DEF LeafAt
    <3>2. Cover(LeafLines(v, info.leaf), ByHeapPage, ShownSlots(v))
      BY <2>1, <2>5, <3>1, LinesCover
    <3>3. ShownLeaves(v + 1) = ShownLeaves(v) \cup {v}
      BY <2>1, <2>4, <2>5 DEF ShownLeaves
    <3>4. Shown(v + 1) = Shown(v) \cup ShownSlots(v)
      BY <3>3 DEF Shown
    <3>5. \A x \in Shown(v), y \in ShownSlots(v) : x < y
      <4> SUFFICES ASSUME NEW x \in Shown(v), NEW y \in ShownSlots(v) PROVE x < y
        OBVIOUS
      <4>1. PICK q \in ShownLeaves(v) : x \in ShownSlots(q)
        BY DEF Shown
      <4>2. q \in Nat /\ q < v /\ Level(q) = 2
        BY <2>1, <4>1 DEF ShownLeaves
      <4>3. PICK s \in 1..LeafNodesPerPage : x = HeapPage(q, s - 1)
        BY <4>1 DEF ShownSlots
      <4>4. PICK t \in 1..LeafNodesPerPage : y = HeapPage(v, t - 1)
        BY DEF ShownSlots
      <4>5. s - 1 \in 0..(LeafNodesPerPage - 1) /\ t - 1 \in 0..(LeafNodesPerPage - 1)
        BY TreeAssumption
      <4> HIDE DEF v
      <4> QED BY <2>1, <2>5, <4>2, <4>3, <4>4, <4>5, LeafOrder
    <3>6. Cover(listing \o LeafLines(v, info.leaf), ByHeapPage, Shown(v) \cup ShownSlots(v))
      <4> HIDE DEF v, info
      <4> QED BY <2>2, <3>2, <3>5, CoverConcat
    <3>7. listing' = listing \o LeafLines(v, info.leaf)
      BY <2>3, <2>5
    <3> HIDE DEF v, info
    <3> QED BY <2>1, <3>4, <3>6, <3>7
  <2>6. CASE ~(info.valid /\ Level(v) = 2 /\ InPageRange(options, v))
    <3>1. v \notin ShownLeaves(v + 1)
      BY <2>4, <2>6 DEF ShownLeaves
    <3>2. ShownLeaves(v + 1) = ShownLeaves(v)
      <4>1. \A q : q \in 0..((v + 1) - 1) <=> q \in 0..(v - 1) \/ q = v
        BY <2>1
      <4> HIDE DEF v
      <4> QED BY <3>1, <4>1 DEF ShownLeaves
    <3>3. Shown(v + 1) = Shown(v)
      BY <3>2 DEF Shown
    <3>4. listing' = listing
      BY <2>3, <2>6
    <3> QED BY <2>1, <2>2, <3>3, <3>4
  <2> QED BY <2>5, <2>6
<1>7. CASE EndWalk \/ UNCHANGED vars
  <2>1. listing' = listing /\ visited' = visited
    BY <1>7 DEF EndWalk, vars
  <2>2. Walked
    BY <1>1, <1>7 DEF EndWalk, vars, Walked, Whole, Shape, Before, LookedUp
  <2>3. Cover(listing, ByHeapPage, Shown(Len(visited)))
    BY <1>1, <2>2 DEF Listed
  <2> QED BY <2>1, <2>3
<1> QED BY <1>4, <1>5, <1>6, <1>7 DEF Next, Step, Ended

(* The slot listing names exactly the heap pages that the shown leaf pages *)
(* cover and the --min / --max filter lets through, each once and in the   *)
(* order of the heap, with the category the file has for it.               *)
THEOREM ListingIsFile == Spec => []ListingMatchesFile
<1>1. Init => Listed
  BY DEF Init, Listed, Walked
<1>2. Shape /\ Listed => ListingMatchesFile
  <2> SUFFICES ASSUME Shape, Listed, phase = "done", options.query = -1, options.slots
               PROVE  /\ \A i, j \in 1..Len(listing) : i < j => listing[i].end < listing[j].start
                      /\ HeapPagesOf(listing) =
                           UNION {{HeapPage(p, s - 1) : s \in {t \in 1..LeafNodesPerPage :
                                                 InAvailRange(CatToBytes(LeafAt(p)[t]))}} :
                                    p \in {q \in ValidLeaves : InPageRange(options, q)}}
                      /\ \A l \in Range(listing) : \A h \in l.start..l.end :
                           LeafAt(FsmPage(h))[FsmSlot(h) + 1] = l.value
    BY DEF ListingMatchesFile
  <2> DEFINE n == Len(listing)
             Q == Shown(Len(visited))
  <2>1. Walked /\ Len(visited) = Len(file) /\ Len(file) \in Nat
    <3>1. Walked
      BY DEF Shape, Before, LookedUp
    <3>2. /\ Len(file) \in Nat /\ Len(visited) \in 0..Len(file)
          /\ Sorted(<<>>, Waiting(Len(visited), Len(file)))
      BY <3>1 DEF Walked, Whole
    <3> QED BY <3>1, <3>2, WalkEnds
  <2>2. Cover(listing, ByHeapPage, Q)
    BY <2>1 DEF Listed
  <2>3. ShownLeaves(Len(file)) = {q \in ValidLeaves : InPageRange(options, q)}
    BY <2>1 DEF ShownLeaves, ValidLeaves, LeafPages, ValidPages, LastPage
  <2>4. Q = UNION {ShownSlots(p) : p \in {q \in ValidLeaves : InPageRange(options, q)}}
    BY <2>1, <2>3 DEF Shown
  <2>5. \A i, j \in 1..n : i < j => listing[i].end < listing[j].start
    BY <2>2 DEF Cover
  <2>6. /\ \A i \in 1..n : \A t \in listing[i].start..listing[i].end :
             t \in Q /\ ByHeapPage[t] = listing[i].value
        /\ \A t \in Q : \E i \in 1..n : t \in listing[i].start..listing[i].end
        /\ Q \subseteq DOMAIN ByHeapPage /\ DOMAIN listing = 1..n
    BY <2>2 DEF Cover
  <2> HIDE DEF n, Q
  <2>7. HeapPagesOf(listing) = Q
    BY <2>6 DEF HeapPagesOf, Range
  <2>8. \A t \in DOMAIN ByHeapPage : ByHeapPage[t] = LeafAt(FsmPage(t))[FsmSlot(t) + 1]
    BY DEF ByHeapPage
  <2>9. \A l \in Range(listing) : \A h \in l.start..l.end :
          LeafAt(FsmPage(h))[FsmSlot(h) + 1] = l.value
    BY <2>6, <2>8 DEF Range
  <2>10. Q = UNION {{HeapPage(p, s - 1) : s \in {t \in 1..LeafNodesPerPage :
                                                 InAvailRange(CatToBytes(LeafAt(p)[t]))}} :
                      p \in {q \in ValidLeaves : InPageRange(options, q)}}
    BY <2>4 DEF ShownSlots
  <2> QED BY <2>5, <2>7, <2>9, <2>10 DEF n
<1> QED BY <1>1, <1>2, ShapeHolds, ListedStays, PTL DEF Spec

-------------------------------------------------------------------------------
(* The summary, page by page. *)
OfKinds(kinds) == {p \in 0..LastPage : file[p + 1].kind \in kinds}

Counted(n) ==
  /\ stats.root + stats.internal + stats.leaf = n
  /\ stats.leaf = Cardinality(First(n, LeafPages))
  /\ stats.zero = Cardinality(First(n, OfKinds({"zero", "short"})))
  /\ stats.invalid = Cardinality(First(n, OfKinds({"wrongsize", "badheader"})))

Weighed(counts) == [c \in Categories |-> counts[c] * CatToBytes(c)]

Summed(n) ==
  /\ stats.slots = LeafNodesPerPage * Cardinality(First(n, ValidLeaves))
  /\ stats.slots = SumFunctionOnSet(stats.catCount, Categories)
  /\ stats.avail = SumFunctionOnSet(Weighed(stats.catCount), Categories)

Highest(n) ==
  /\ \A p \in First(n, ValidLeaves), s \in 1..LeafNodesPerPage : LeafAt(p)[s] <= stats.maxCat
  /\ stats.maxCat # 0 =>
       /\ stats.maxPage \in First(n, ValidLeaves)
       /\ stats.maxSlot + 1 \in 1..LeafNodesPerPage
       /\ LeafAt(stats.maxPage)[stats.maxSlot + 1] = stats.maxCat
       /\ \A p \in First(n, ValidLeaves), s \in 1..LeafNodesPerPage :
            LeafAt(p)[s] = stats.maxCat =>
              p > stats.maxPage \/ (p = stats.maxPage /\ stats.maxSlot + 1 <= s)

Summary == Walked => LET n == Len(visited) IN Counted(n) /\ Summed(n) /\ Highest(n)

LEMMA SummaryBegins ==
  ASSUME stats = ZeroStats
  PROVE  Counted(0) /\ Summed(0) /\ Highest(0)
<1>1. \A S : First(0, S) = {}
  BY DEF First
<1>2. Cardinality({}) = 0
  BY FS_EmptySet
<1>3. /\ stats.root = 0 /\ stats.internal = 0 /\ stats.leaf = 0 /\ stats.zero = 0
      /\ stats.invalid = 0 /\ stats.slots = 0 /\ stats.avail = 0 /\ stats.maxCat = 0
      /\ stats.catCount = [c \in Categories |-> 0]
  BY DEF ZeroStats
<1>4. Counted(0)
  BY <1>1, <1>2, <1>3 DEF Counted
<1>5. SumFunctionOnSet(stats.catCount, Categories) = 0
  <2>1. \A c \in Categories : stats.catCount[c] = 0
    BY <1>3
  <2> QED BY <2>1, CategoriesAreFinite, SumZero
<1>6. SumFunctionOnSet(Weighed(stats.catCount), Categories) = 0
  <2> DEFINE f == Weighed(stats.catCount)
  <2>1. \A c \in Categories : f[c] = 0
    <3> SUFFICES ASSUME NEW c \in Categories PROVE f[c] = 0
      OBVIOUS
    <3>1. f[c] = 0 * CatToBytes(c)
      BY <1>3 DEF Weighed
    <3> QED BY <3>1, CategoryBytes
  <2> HIDE DEF f
  <2>2. SumFunctionOnSet(f, Categories) = 0
    BY <2>1, CategoriesAreFinite, SumZero
  <2> QED BY <2>2 DEF f
<1>7. Summed(0)
  BY <1>1, <1>2, <1>3, <1>5, <1>6, TreeAssumption DEF Summed
<1>8. Highest(0)
  BY <1>1, <1>3 DEF Highest
<1> QED BY <1>4, <1>7, <1>8

(* A visit's part of the statistics, in terms of the file. *)
LEMMA Visit ==
  ASSUME Shape, VisitNode
  PROVE  LET v == Len(visited)
             raw == file[v + 1]
             leaf == raw.leaf
         IN  /\ Walked /\ v \in Nat /\ v \in 0..LastPage /\ Len(visited') = v + 1
             /\ stats \in Stats /\ stats' \in Stats
             /\ v \in LeafPages <=> Level(v) = 2
             /\ v \in ValidLeaves <=> Level(v) = 2 /\ raw.kind = "ok"
             /\ leaf \in SlotArrays /\ LeafAt(v) = leaf
             /\ stats'.root = stats.root + IF Level(v) = 0 THEN 1 ELSE 0
             /\ stats'.internal = stats.internal + IF Level(v) = 1 THEN 1 ELSE 0
             /\ stats'.leaf = stats.leaf + IF Level(v) = 2 THEN 1 ELSE 0
             /\ stats'.zero = stats.zero + IF v \in OfKinds({"zero", "short"}) THEN 1 ELSE 0
             /\ stats'.invalid = stats.invalid
                                   + IF v \in OfKinds({"wrongsize", "badheader"}) THEN 1 ELSE 0
             /\ v \in ValidLeaves =>
                  /\ stats'.avail = stats.avail + TotalAvail(leaf)
                  /\ stats'.slots = stats.slots + LeafNodesPerPage
                  /\ \A c \in Categories :
                       stats'.catCount[c] = stats.catCount[c] + SlotsWith(leaf, c)
                  /\ IF MaxCat(leaf) > stats.maxCat
                     THEN /\ stats'.maxCat = MaxCat(leaf) /\ stats'.maxPage = v
                          /\ stats'.maxSlot = MaxSlot(leaf)
                     ELSE /\ stats'.maxCat = stats.maxCat /\ stats'.maxPage = stats.maxPage
                          /\ stats'.maxSlot = stats.maxSlot
             /\ v \notin ValidLeaves =>
                  /\ stats'.maxCat = stats.maxCat /\ stats'.maxPage = stats.maxPage
                  /\ stats'.maxSlot = stats.maxSlot /\ stats'.avail = stats.avail
                  /\ stats'.slots = stats.slots /\ stats'.catCount = stats.catCount
<1> DEFINE v == Len(visited)
           raw == file[v + 1]
           info == pages[v + 1]
           leaf == raw.leaf
           new == CountPage(stats, v, info)
<1>1. /\ Walked /\ v \in Nat /\ v \in 0..(Len(file) - 1)
      /\ info \in Infos /\ info = PageInfo(raw) /\ raw \in RawPages
      /\ stats' = new /\ Len(visited') = v + 1
  BY VisitedPage
<1>2. stats \in Stats
  BY DEF Shape
<1>3. /\ info.valid <=> raw.kind = "ok"
      /\ info.allzero <=> raw.kind \in {"zero", "short"}
      /\ leaf \in SlotArrays /\ (raw.kind = "ok" => info.leaf = leaf)
      /\ raw.kind \in Kinds
  BY <1>1, PageIsKept DEF RawPages
<1>4. /\ v \in 0..LastPage /\ (v \in LeafPages <=> Level(v) = 2)
      /\ v \in ValidLeaves <=> Level(v) = 2 /\ raw.kind = "ok"
      /\ LeafAt(v) = leaf
      /\ v \in OfKinds({"zero", "short"}) <=> raw.kind \in {"zero", "short"}
      /\ v \in OfKinds({"wrongsize", "badheader"}) <=> raw.kind \in {"wrongsize", "badheader"}
  BY <1>1 DEF LastPage, LeafPages, ValidLeaves, ValidPages, LeafAt, OfKinds
<1>5. /\ v \in OfKinds({"zero", "short"}) <=> info.allzero
      /\ v \in OfKinds({"wrongsize", "badheader"}) <=> ~info.allzero /\ ~info.valid
      /\ v \in ValidLeaves <=> ~info.allzero /\ info.valid /\ Level(v) = 2
      /\ v \in ValidLeaves => info.leaf = leaf
  BY <1>3, <1>4 DEF Kinds
<1> HIDE DEF v, raw, info, leaf, new
<1>6. /\ new \in Stats
      /\ new.root = stats.root + IF Level(v) = 0 THEN 1 ELSE 0
      /\ new.internal = stats.internal + IF Level(v) = 1 THEN 1 ELSE 0
      /\ new.leaf = stats.leaf + IF Level(v) = 2 THEN 1 ELSE 0
  BY <1>1, <1>2, PageCounted DEF new
<1>7. /\ new.zero = stats.zero + IF info.allzero THEN 1 ELSE 0
      /\ new.invalid = stats.invalid + IF ~info.allzero /\ ~info.valid THEN 1 ELSE 0
  BY <1>1, <1>2, PageCounted DEF new
<1>8. /\ new.zero = stats.zero + IF v \in OfKinds({"zero", "short"}) THEN 1 ELSE 0
      /\ new.invalid = stats.invalid
                         + IF v \in OfKinds({"wrongsize", "badheader"}) THEN 1 ELSE 0
  BY <1>5, <1>7
<1>9. ASSUME v \in ValidLeaves
      PROVE  /\ new.avail = stats.avail + TotalAvail(leaf)
             /\ new.slots = stats.slots + LeafNodesPerPage
             /\ \A c \in Categories : new.catCount[c] = stats.catCount[c] + SlotsWith(leaf, c)
             /\ IF MaxCat(leaf) > stats.maxCat
                THEN new.maxCat = MaxCat(leaf) /\ new.maxPage = v /\ new.maxSlot = MaxSlot(leaf)
                ELSE new.maxCat = stats.maxCat /\ new.maxPage = stats.maxPage
                     /\ new.maxSlot = stats.maxSlot
  <2>1. ~info.allzero /\ info.valid /\ Level(v) = 2 /\ info.leaf = leaf
    BY <1>5, <1>9
  <2>2. /\ new.avail = stats.avail + TotalAvail(info.leaf)
        /\ new.slots = stats.slots + LeafNodesPerPage
        /\ \A c \in Categories : new.catCount[c] = stats.catCount[c] + SlotsWith(info.leaf, c)
        /\ IF MaxCat(info.leaf) > stats.maxCat
           THEN /\ new.maxCat = MaxCat(info.leaf) /\ new.maxPage = v
                /\ new.maxSlot = MaxSlot(info.leaf)
           ELSE new.maxCat = stats.maxCat /\ new.maxPage = stats.maxPage
                /\ new.maxSlot = stats.maxSlot
    <3>1. stats \in Stats /\ v \in Nat /\ info \in Infos
      BY <1>1, <1>2
    <3> QED BY <2>1, <3>1, PageCounted DEF new
  <2> QED BY <2>1, <2>2
<1>10. ASSUME v \notin ValidLeaves
       PROVE  /\ new.maxCat = stats.maxCat /\ new.maxPage = stats.maxPage
              /\ new.maxSlot = stats.maxSlot /\ new.avail = stats.avail
              /\ new.slots = stats.slots /\ new.catCount = stats.catCount
  <2>1. ~(~info.allzero /\ info.valid /\ Level(v) = 2)
    BY <1>5, <1>10
  <2>2. stats \in Stats /\ v \in Nat /\ info \in Infos
    BY <1>1, <1>2
  <2>3. ~(~info.allzero /\ info.valid /\ Level(v) = 2) =>
          /\ new.maxCat = stats.maxCat /\ new.maxPage = stats.maxPage
          /\ new.maxSlot = stats.maxSlot /\ new.avail = stats.avail
          /\ new.slots = stats.slots /\ new.catCount = stats.catCount
    BY <2>2, PageCounted, Zenon DEF new
  <2> QED BY <2>1, <2>3
<1> QED BY <1>1, <1>2, <1>3, <1>4, <1>6, <1>8, <1>9, <1>10 DEF v, raw, leaf

LEMMA CountedOn ==
  ASSUME Shape, VisitNode, Counted(Len(visited)), NEW n \in Nat, n = Len(visited)
  PROVE  /\ stats'.root + stats'.internal + stats'.leaf = n + 1
         /\ stats'.leaf = Cardinality(First(n + 1, LeafPages))
         /\ stats'.zero = Cardinality(First(n + 1, OfKinds({"zero", "short"})))
         /\ stats'.invalid = Cardinality(First(n + 1, OfKinds({"wrongsize", "badheader"})))
<1>1. /\ stats.root \in Nat /\ stats.internal \in Nat /\ stats.leaf \in Nat
      /\ stats.root + stats.internal + stats.leaf = n
      /\ stats.leaf = Cardinality(First(n, LeafPages))
      /\ stats.zero = Cardinality(First(n, OfKinds({"zero", "short"})))
      /\ stats.invalid = Cardinality(First(n, OfKinds({"wrongsize", "badheader"})))
  BY DEF Counted, Shape, Stats
<1>2. /\ n \in LeafPages <=> Level(n) = 2
      /\ stats'.root = stats.root + IF Level(n) = 0 THEN 1 ELSE 0
      /\ stats'.internal = stats.internal + IF Level(n) = 1 THEN 1 ELSE 0
      /\ stats'.leaf = stats.leaf + IF Level(n) = 2 THEN 1 ELSE 0
  BY Visit
<1>3. /\ stats'.zero = stats.zero + IF n \in OfKinds({"zero", "short"}) THEN 1 ELSE 0
      /\ stats'.invalid = stats.invalid
                            + IF n \in OfKinds({"wrongsize", "badheader"}) THEN 1 ELSE 0
  BY Visit
<1>4. \A S : Cardinality(First(n + 1, S)) = Cardinality(First(n, S)) + IF n \in S THEN 1 ELSE 0
  BY OneMore
<1>5. Level(n) \in {0, 1, 2}
  BY DEF Level
<1>6. stats'.root + stats'.internal + stats'.leaf = n + 1
  BY <1>1, <1>2, <1>5
<1>7. stats'.leaf = Cardinality(First(n + 1, LeafPages))
  BY <1>1, <1>2, <1>4
<1>8. /\ stats'.zero = Cardinality(First(n + 1, OfKinds({"zero", "short"})))
      /\ stats'.invalid = Cardinality(First(n + 1, OfKinds({"wrongsize", "badheader"})))
  BY <1>1, <1>3, <1>4
<1> QED BY <1>6, <1>7, <1>8

LEMMA SummedOn ==
  ASSUME Shape, VisitNode, Summed(Len(visited)), NEW n \in Nat, n = Len(visited)
  PROVE  /\ stats'.slots = LeafNodesPerPage * Cardinality(First(n + 1, ValidLeaves))
         /\ stats'.slots = SumFunctionOnSet(stats'.catCount, Categories)
         /\ stats'.avail = SumFunctionOnSet(Weighed(stats'.catCount), Categories)
<1> DEFINE L == LeafNodesPerPage
           C == Categories
           k == Cardinality(First(n, ValidLeaves))
           leaf == file[n + 1].leaf
           a == stats.catCount
           b == stats'.catCount
           f == [c \in C |-> SlotsWith(leaf, c)]
           g == [c \in C |-> SlotsWith(leaf, c) * CatToBytes(c)]
<1>1. /\ stats.slots = L * k
      /\ stats.slots = SumFunctionOnSet(a, C)
      /\ stats.avail = SumFunctionOnSet(Weighed(a), C)
  BY DEF Summed
<1>2. k \in Nat /\ Cardinality(First(n + 1, ValidLeaves)) = k + IF n \in ValidLeaves THEN 1 ELSE 0
  BY OneMore
<1>3. CASE n \notin ValidLeaves
  <2>1. stats'.avail = stats.avail /\ stats'.slots = stats.slots /\ b = a
    BY <1>3, Visit
  <2>2. Cardinality(First(n + 1, ValidLeaves)) = k
    BY <1>2, <1>3
  <2> HIDE DEF k, a, b
  <2> QED BY <1>1, <2>1, <2>2 DEF b
<1>4. CASE n \in ValidLeaves
  <2>1. /\ stats'.avail = stats.avail + TotalAvail(leaf)
        /\ stats'.slots = stats.slots + L
        /\ leaf \in SlotArrays
    BY <1>4, Visit
  <2>2. \A c \in C : b[c] = a[c] + SlotsWith(leaf, c)
    BY <1>4, Visit
  <2>3. Cardinality(First(n + 1, ValidLeaves)) = k + 1
    BY <1>2, <1>4
  <2>4. a \in [C -> Nat]
    BY DEF Shape, Stats
  <2>5. /\ \A c \in C : SlotsWith(leaf, c) \in Nat
        /\ TotalAvail(leaf) = SumFunctionOnSet(g, C)
        /\ L = SumFunctionOnSet(f, C)
    BY <2>1, LeafSums
  <2>6. L * (k + 1) = L * k + L
    <3>1. (k + 1) * L = k * L + L
      BY <1>2, TreeAssumption, Products
    <3>2. k * L = L * k /\ (k + 1) * L = L * (k + 1)
      BY <1>2, TreeAssumption, SMTT(30)
    <3> QED BY <3>1, <3>2
  <2>7. \A c \in C : f[c] = SlotsWith(leaf, c) /\ g[c] = SlotsWith(leaf, c) * CatToBytes(c)
    OBVIOUS
  <2> HIDE DEF k, a, b, f, g, L, C
  <2>8. SumFunctionOnSet(b, C) = SumFunctionOnSet(a, C) + SumFunctionOnSet(f, C)
    <3>1. \A c \in C : a[c] \in Int /\ f[c] \in Int /\ b[c] = a[c] + f[c]
      BY <2>2, <2>4, <2>5, <2>7
    <3> QED BY <3>1, CategoriesAreFinite, SumOfSums DEF C
  <2>9. SumFunctionOnSet(Weighed(b), C)
          = SumFunctionOnSet(Weighed(a), C) + SumFunctionOnSet(g, C)
    <3>1. \A c \in C : /\ Weighed(a)[c] = a[c] * CatToBytes(c)
                       /\ Weighed(b)[c] = b[c] * CatToBytes(c)
                       /\ CatToBytes(c) \in Nat
      BY CategoryBytes DEF Weighed, C
    <3>2. \A x, y, w \in Nat : x * w \in Int /\ y * w \in Int /\ (x + y) * w = x * w + y * w
      BY SMTT(30)
    <3>3. \A c \in C : /\ Weighed(a)[c] \in Int /\ g[c] \in Int
                       /\ Weighed(b)[c] = Weighed(a)[c] + g[c]
      <4> SUFFICES ASSUME NEW c \in C
                   PROVE  /\ Weighed(a)[c] \in Int /\ g[c] \in Int
                          /\ Weighed(b)[c] = Weighed(a)[c] + g[c]
        OBVIOUS
      <4> DEFINE x == a[c]
                 y == SlotsWith(leaf, c)
                 w == CatToBytes(c)
      <4>1. x \in Nat /\ y \in Nat /\ w \in Nat
        BY <2>4, <2>5, <3>1
      <4>2. Weighed(a)[c] = x * w /\ g[c] = y * w /\ Weighed(b)[c] = (x + y) * w
        BY <2>2, <2>7, <3>1
      <4> HIDE DEF x, y, w
      <4> QED BY <3>2, <4>1, <4>2
    <3> DEFINE wa == Weighed(a)
               wb == Weighed(b)
    <3>4. \A c \in C : wa[c] \in Int /\ g[c] \in Int /\ wb[c] = wa[c] + g[c]
      BY <3>3
    <3> HIDE DEF wa, wb
    <3>5. SumFunctionOnSet(wb, C) = SumFunctionOnSet(wa, C) + SumFunctionOnSet(g, C)
      BY <3>4, CategoriesAreFinite, SumOfSums DEF C
    <3> QED BY <3>5 DEF wa, wb
  <2>10. stats'.slots = L * (k + 1)
    BY <1>1, <2>1, <2>6
  <2>11. stats'.slots = SumFunctionOnSet(b, C) /\ stats'.avail = SumFunctionOnSet(Weighed(b), C)
    BY <1>1, <2>1, <2>5, <2>8, <2>9
  <2> QED BY <2>3, <2>10, <2>11 DEF b, C, L
<1> QED BY <1>3, <1>4

LEMMA HighestOn ==
  ASSUME Shape, VisitNode, Highest(Len(visited)), NEW n \in Nat, n = Len(visited)
  PROVE  LET S == First(n + 1, ValidLeaves)
             m == stats'.maxCat
             q == stats'.maxPage
             k == stats'.maxSlot
         IN  /\ \A p \in S, s \in 1..LeafNodesPerPage : LeafAt(p)[s] <= m
             /\ m # 0 => /\ q \in S /\ k + 1 \in 1..LeafNodesPerPage
                         /\ LeafAt(q)[k + 1] = m
                         /\ \A p \in S, s \in 1..LeafNodesPerPage :
                              LeafAt(p)[s] = m => p > q \/ (p = q /\ k + 1 <= s)
<1> DEFINE L == LeafNodesPerPage
           T == First(n, ValidLeaves)
           S == First(n + 1, ValidLeaves)
           leaf == LeafAt(n)
           m == stats'.maxCat
           q == stats'.maxPage
           k == stats'.maxSlot
           m0 == stats.maxCat
           q0 == stats.maxPage
           k0 == stats.maxSlot
<1>1. /\ \A p \in T, s \in 1..L : LeafAt(p)[s] <= m0
      /\ m0 # 0 => /\ q0 \in T /\ k0 + 1 \in 1..L /\ LeafAt(q0)[k0 + 1] = m0
                   /\ \A p \in T, s \in 1..L :
                        LeafAt(p)[s] = m0 => p > q0 \/ (p = q0 /\ k0 + 1 <= s)
  BY DEF Highest
<1>2. m0 \in Categories /\ Categories \subseteq Nat
  BY DEF Shape, Stats, Categories
<1>3. (n \in ValidLeaves => S = T \cup {n}) /\ (n \notin ValidLeaves => S = T)
  BY OneMore
<1>4. \A p \in T : p \in Nat /\ p < n
  BY DEF First
<1>5. /\ n \in ValidLeaves => IF MaxCat(leaf) > m0
                              THEN m = MaxCat(leaf) /\ q = n /\ k = MaxSlot(leaf)
                              ELSE m = m0 /\ q = q0 /\ k = k0
      /\ n \notin ValidLeaves => m = m0 /\ q = q0 /\ k = k0
      /\ leaf \in SlotArrays
  BY Visit
<1>6. \A p \in T, s \in 1..L : LeafAt(p)[s] \in Nat
  <2> SUFFICES ASSUME NEW p \in T, NEW s \in 1..L PROVE LeafAt(p)[s] \in Nat
    OBVIOUS
  <2>1. p \in 0..LastPage
    BY DEF First, ValidLeaves, LeafPages
  <2>2. p + 1 \in 1..Len(file)
    BY <2>1, FileIsPages DEF LastPage, Shape
  <2>3. file[p + 1] \in RawPages
    BY <2>2, FileIsPages DEF Shape
  <2>4. LeafAt(p) \in SlotArrays
    BY <2>3, PageIsKept DEF LeafAt
  <2> QED BY <2>4, <1>2 DEF SlotArrays
<1>7. /\ MaxCat(leaf) \in Nat /\ \A s \in 1..L : leaf[s] \in Nat /\ leaf[s] <= MaxCat(leaf)
      /\ MaxCat(leaf) # 0 => /\ MaxSlot(leaf) + 1 \in 1..L
                             /\ leaf[MaxSlot(leaf) + 1] = MaxCat(leaf)
                             /\ \A s \in 1..L : leaf[s] = MaxCat(leaf) => MaxSlot(leaf) + 1 <= s
  BY <1>2, <1>5, HighestSlot DEF SlotArrays
<1> HIDE DEF L, T, S, m, q, k, m0, q0, k0
<1>8. CASE n \notin ValidLeaves
  BY <1>1, <1>3, <1>5, <1>8 DEF L, S, m, q, k
<1>9. CASE n \in ValidLeaves /\ MaxCat(leaf) > m0
  <2>1. S = T \cup {n} /\ m = MaxCat(leaf) /\ q = n /\ k = MaxSlot(leaf) /\ m # 0 /\ m \in Nat
    BY <1>2, <1>3, <1>5, <1>7, <1>9
  <2>2. \A p \in T, s \in 1..L : LeafAt(p)[s] < m
    BY <1>1, <1>2, <1>6, <1>7, <1>9, <2>1
  <2>3. \A p \in S, s \in 1..L : LeafAt(p)[s] <= m
    BY <1>6, <1>7, <2>1, <2>2
  <2>4. q \in S /\ k + 1 \in 1..L /\ LeafAt(q)[k + 1] = m
    BY <1>7, <2>1
  <2>5. \A p \in S, s \in 1..L : LeafAt(p)[s] = m => p > q \/ (p = q /\ k + 1 <= s)
    <3> SUFFICES ASSUME NEW p \in S, NEW s \in 1..L, LeafAt(p)[s] = m
                 PROVE  p = q /\ k + 1 <= s
      OBVIOUS
    <3>1. p = n
      BY <1>6, <2>1, <2>2
    <3> QED BY <1>7, <2>1, <3>1
  <2> QED BY <2>3, <2>4, <2>5 DEF L, S, m, q, k
<1>10. CASE n \in ValidLeaves /\ ~(MaxCat(leaf) > m0)
  <2>1. S = T \cup {n} /\ m = m0 /\ q = q0 /\ k = k0 /\ m \in Nat
    BY <1>2, <1>3, <1>5, <1>10
  <2>2. \A s \in 1..L : leaf[s] <= m
    BY <1>2, <1>7, <1>10, <2>1
  <2>3. \A p \in S, s \in 1..L : LeafAt(p)[s] <= m
    BY <1>1, <2>1, <2>2
  <2>4. ASSUME m # 0
        PROVE  /\ q \in S /\ k + 1 \in 1..L /\ LeafAt(q)[k + 1] = m
               /\ \A p \in S, s \in 1..L : LeafAt(p)[s] = m => p > q \/ (p = q /\ k + 1 <= s)
    <3>1. /\ q \in T /\ k + 1 \in 1..L /\ LeafAt(q)[k + 1] = m
          /\ \A p \in T, s \in 1..L : LeafAt(p)[s] = m => p > q \/ (p = q /\ k + 1 <= s)
      BY <1>1, <2>1, <2>4
    <3>2. n > q
      BY <1>4, <3>1
    <3> QED BY <2>1, <3>1, <3>2
  <2> QED BY <2>3, <2>4 DEF L, S, m, q, k
<1> QED BY <1>8, <1>9, <1>10

LEMMA SummaryStays == Shape /\ Summary /\ [Next]_vars => Summary'
<1> SUFFICES ASSUME Shape, Summary, [Next]_vars, Walked'
             PROVE  (LET n == Len(visited) IN Counted(n) /\ Summed(n) /\ Highest(n))'
  BY DEF Summary
<1>1. file' = file /\ options' = options
  BY DEF Next, Step, Ended, LoadFails, LoadPage, OutFails, Lookup, StartWalk, VisitNode,
         EndWalk, vars
<1>2. /\ LeafPages' = LeafPages /\ ValidLeaves' = ValidLeaves
      /\ OfKinds({"zero", "short"})' = OfKinds({"zero", "short"})
      /\ OfKinds({"wrongsize", "badheader"})' = OfKinds({"wrongsize", "badheader"})
      /\ \A p : LeafAt(p)' = LeafAt(p)
  BY <1>1 DEF LeafPages, ValidLeaves, ValidPages, OfKinds, LeafAt, LastPage
<1>3. CASE LoadFails \/ OutFails \/ LoadPage \/ Lookup
  <2>1. FALSE
    BY <1>1, <1>3 DEF LoadFails, OutFails, LoadPage, Lookup, Loaded, Walked
  <2> QED BY <2>1
<1>4. CASE UNCHANGED <<stats, visited>> /\ Walked
  <2>1. Counted(Len(visited)) /\ Summed(Len(visited)) /\ Highest(Len(visited))
    BY <1>4 DEF Summary
  <2> QED BY <1>2, <1>4, <2>1 DEF Counted, Summed, Highest
<1>5. CASE StartWalk
  <2>1. stats' = ZeroStats /\ stats = ZeroStats /\ Len(visited') = 0
    BY <1>5 DEF StartWalk, Loaded, Shape, Before, Walked, LookedUp, Unprinted
  <2>2. Counted(0) /\ Summed(0) /\ Highest(0)
    BY <2>1, SummaryBegins
  <2> QED BY <1>2, <2>1, <2>2 DEF Counted, Summed, Highest
<1>6. CASE VisitNode
  <2> DEFINE n == Len(visited)
  <2>1. Walked /\ n \in Nat /\ Len(visited') = n + 1
    BY <1>6, Visit
  <2>2. Counted(n) /\ Summed(n) /\ Highest(n)
    BY <2>1 DEF Summary
  <2>3. /\ stats'.root + stats'.internal + stats'.leaf = n + 1
        /\ stats'.leaf = Cardinality(First(n + 1, LeafPages))
        /\ stats'.zero = Cardinality(First(n + 1, OfKinds({"zero", "short"})))
        /\ stats'.invalid = Cardinality(First(n + 1, OfKinds({"wrongsize", "badheader"})))
    BY <1>6, <2>1, <2>2, CountedOn
  <2>4. /\ stats'.slots = LeafNodesPerPage * Cardinality(First(n + 1, ValidLeaves))
        /\ stats'.slots = SumFunctionOnSet(stats'.catCount, Categories)
        /\ stats'.avail = SumFunctionOnSet(Weighed(stats'.catCount), Categories)
    BY <1>6, <2>1, <2>2, SummedOn
  <2>5. LET S == First(n + 1, ValidLeaves)
            m == stats'.maxCat
            q == stats'.maxPage
            k == stats'.maxSlot
        IN  /\ \A p \in S, s \in 1..LeafNodesPerPage : LeafAt(p)[s] <= m
            /\ m # 0 => /\ q \in S /\ k + 1 \in 1..LeafNodesPerPage
                        /\ LeafAt(q)[k + 1] = m
                        /\ \A p \in S, s \in 1..LeafNodesPerPage :
                             LeafAt(p)[s] = m => p > q \/ (p = q /\ k + 1 <= s)
    BY <1>6, <2>1, <2>2, HighestOn
  <2>6. Counted(Len(visited))'
    BY <1>2, <2>1, <2>3 DEF Counted
  <2>7. Summed(Len(visited))'
    BY <1>2, <2>1, <2>4 DEF Summed
  <2>8. Highest(Len(visited))'
    BY <1>2, <2>1, <2>5 DEF Highest
  <2> QED BY <2>6, <2>7, <2>8
<1>7. CASE EndWalk \/ UNCHANGED vars
  <2>1. UNCHANGED <<stats, visited>>
    BY <1>7 DEF EndWalk, vars
  <2>2. Walked
    BY <1>1, <1>7 DEF EndWalk, vars, Walked, Whole, Shape, Before, LookedUp
  <2> QED BY <1>4, <2>1, <2>2
<1> QED BY <1>3, <1>5, <1>6, <1>7 DEF Next, Step, Ended

(* "SUMMARY covers the whole file": whatever the options hide, the totals  *)
(* are those of all pages of the file, and the place printed for the       *)
(* highest category is the first slot that has it.                         *)
THEOREM SummaryIsFile == Spec => []SummaryCoversFile
<1>1. Init => Summary
  BY DEF Init, Summary, Walked
<1>2. Shape /\ Summary => SummaryCoversFile
  <2> SUFFICES ASSUME Shape, Summary, phase = "done", options.query = -1
               PROVE  /\ stats.root + stats.internal + stats.leaf = Len(file)
                      /\ stats.leaf = Cardinality(LeafPages)
                      /\ stats.zero = Count({"zero", "short"})
                      /\ stats.invalid = Count({"wrongsize", "badheader"})
                      /\ stats.slots = SumFunctionOnSet(stats.catCount, FoundCategories)
                      /\ stats.slots = LeafNodesPerPage * Cardinality(ValidLeaves)
                      /\ stats.avail = SumFunctionOnSet(Weighed(stats.catCount), FoundCategories)
                      /\ stats.maxCat > 0 =>
                           /\ stats.maxPage \in ValidLeaves
                           /\ LeafAt(stats.maxPage)[stats.maxSlot + 1] = stats.maxCat
                           /\ \A p \in ValidLeaves : \A s \in 1..LeafNodesPerPage :
                                \/ LeafAt(p)[s] < stats.maxCat
                                \/ /\ LeafAt(p)[s] = stats.maxCat
                                   /\ \/ p > stats.maxPage
                                      \/ p = stats.maxPage /\ s - 1 >= stats.maxSlot
    BY DEF SummaryCoversFile, Weighed
  <2> DEFINE n == Len(file)
  <2>1. Walked /\ Len(visited) = n /\ n \in Nat
    <3>1. Walked
      BY DEF Shape, Before, LookedUp
    <3>2. n \in Nat /\ Len(visited) \in 0..n /\ Sorted(<<>>, Waiting(Len(visited), n))
      BY <3>1 DEF Walked, Whole
    <3> QED BY <3>1, <3>2, WalkEnds
  <2>2. Counted(n) /\ Summed(n) /\ Highest(n)
    BY <2>1 DEF Summary
  <2>3. \A S \in SUBSET (0..LastPage) : First(n, S) = S
    BY <2>1 DEF First, LastPage
  <2>4. /\ LeafPages \in SUBSET (0..LastPage) /\ ValidLeaves \in SUBSET (0..LastPage)
        /\ \A kinds : /\ OfKinds(kinds) \in SUBSET (0..LastPage)
                      /\ Count(kinds) = Cardinality(OfKinds(kinds))
    BY DEF LeafPages, ValidLeaves, OfKinds, Count
  <2>5. /\ First(n, LeafPages) = LeafPages /\ First(n, ValidLeaves) = ValidLeaves
        /\ \A kinds : First(n, OfKinds(kinds)) = OfKinds(kinds)
    BY <2>3, <2>4
  <2> HIDE DEF n
  <2>6. /\ stats.root + stats.internal + stats.leaf = n
        /\ stats.leaf = Cardinality(LeafPages)
        /\ stats.zero = Count({"zero", "short"})
        /\ stats.invalid = Count({"wrongsize", "badheader"})
        /\ stats.slots = LeafNodesPerPage * Cardinality(ValidLeaves)
    BY <2>2, <2>4, <2>5 DEF Counted, Summed
  <2>7. /\ stats.catCount \in [Categories -> Nat] /\ stats.maxCat \in Nat
        /\ stats.maxSlot \in Int
        /\ FoundCategories \in SUBSET Categories
        /\ \A c \in Categories : c \notin FoundCategories => stats.catCount[c] = 0
    <3>1. stats.catCount \in [Categories -> Nat] /\ stats.maxCat \in Nat /\ stats.maxSlot \in Int
      <4>1. stats \in Stats /\ Categories \subseteq Nat
        BY DEF Shape, Categories
      <4> QED BY <4>1 DEF Stats
    <3>2. \A c \in Categories : stats.catCount[c] \in Nat
      BY <3>1
    <3> QED BY <3>1, <3>2 DEF FoundCategories
  <2>8. stats.slots = SumFunctionOnSet(stats.catCount, FoundCategories)
    <3>1. \A c \in Categories : stats.catCount[c] \in Int
      BY <2>7
    <3>2. SumFunctionOnSet(stats.catCount, Categories)
            = SumFunctionOnSet(stats.catCount, FoundCategories)
      BY <2>7, <3>1, CategoriesAreFinite, SumNonZero
    <3> QED BY <2>2, <3>2 DEF Summed
  <2>9. stats.avail = SumFunctionOnSet(Weighed(stats.catCount), FoundCategories)
    <3> DEFINE f == Weighed(stats.catCount)
    <3>1. \A c \in Categories : f[c] \in Int /\ (c \notin FoundCategories => f[c] = 0)
      <4> SUFFICES ASSUME NEW c \in Categories
                   PROVE  f[c] \in Int /\ (c \notin FoundCategories => f[c] = 0)
        OBVIOUS
      <4> DEFINE x == stats.catCount[c]
                 w == CatToBytes(c)
      <4>1. f[c] = x * w
        BY DEF Weighed
      <4>2. x \in Nat /\ w \in Nat /\ (c \notin FoundCategories => x = 0)
        BY <2>7, CategoryBytes
      <4> HIDE DEF x, w, f
      <4>3. x * w \in Nat
        BY <4>2, Products
      <4> QED BY <4>1, <4>2, <4>3
    <3> HIDE DEF f
    <3>2. SumFunctionOnSet(f, Categories) = SumFunctionOnSet(f, FoundCategories)
      BY <2>7, <3>1, CategoriesAreFinite, SumNonZero
    <3> QED BY <2>2, <3>2 DEF Summed, f
  <2>10. ASSUME stats.maxCat > 0
         PROVE  /\ stats.maxPage \in ValidLeaves
                /\ LeafAt(stats.maxPage)[stats.maxSlot + 1] = stats.maxCat
                /\ \A p \in ValidLeaves : \A s \in 1..LeafNodesPerPage :
                     \/ LeafAt(p)[s] < stats.maxCat
                     \/ /\ LeafAt(p)[s] = stats.maxCat
                        /\ \/ p > stats.maxPage
                           \/ p = stats.maxPage /\ s - 1 >= stats.maxSlot
    <3>1. /\ stats.maxPage \in ValidLeaves
          /\ LeafAt(stats.maxPage)[stats.maxSlot + 1] = stats.maxCat
          /\ \A p \in ValidLeaves, s \in 1..LeafNodesPerPage :
               /\ LeafAt(p)[s] <= stats.maxCat
               /\ LeafAt(p)[s] = stats.maxCat =>
                    p > stats.maxPage \/ (p = stats.maxPage /\ stats.maxSlot + 1 <= s)
      BY <2>2, <2>5, <2>7, <2>10 DEF Highest
    <3>2. \A p \in ValidLeaves, s \in 1..LeafNodesPerPage : LeafAt(p)[s] \in Nat
      <4> SUFFICES ASSUME NEW p \in ValidLeaves, NEW s \in 1..LeafNodesPerPage
                   PROVE  LeafAt(p)[s] \in Nat
        OBVIOUS
      <4>1. p + 1 \in 1..Len(file)
        BY <2>1 DEF ValidLeaves, LeafPages, LastPage, n
      <4>2. LeafAt(p) \in SlotArrays
        <5>1. file[p + 1] \in RawPages
          BY <4>1, FileIsPages DEF Shape
        <5> QED BY <5>1, PageIsKept DEF LeafAt
      <4>3. Categories \subseteq Nat
        BY DEF Categories
      <4> QED BY <4>2, <4>3 DEF SlotArrays
    <3>3. \A s \in 1..LeafNodesPerPage : stats.maxSlot + 1 <= s => s - 1 >= stats.maxSlot
      BY <2>7
    <3> QED BY <2>7, <3>1, <3>2, <3>3
  <2> QED BY <2>6, <2>8, <2>9, <2>10 DEF n
<1> QED BY <1>1, <1>2, ShapeHolds, SummaryStays, PTL DEF Spec
===============================================================================
