------------------------------- MODULE FsmDump -------------------------------
(***************************************************************************)
(* pg_filedump -F dump: do_fsm_dump of pg_fsm.c.  The file is loaded page  *)
(* by page, the parent -> children index is built, dump_node recurses from *)
(* page 0 and collects the statistics; with --heap-page one lookup is made *)
(* instead.                                                                *)
(***************************************************************************)
EXTENDS FsmFile

CONSTANTS Files,       \* set of contents the FSM file may have
          OptionSets   \* set of FsmOptions records; query = -1 without --heap-page

ASSUME FilesAssumption == Files \subseteq Seq(RawPages)
ASSUME OptionsAssumption ==
  OptionSets \subseteq [range : SUBSET Nat, min : Nat, max : Nat, slots : BOOLEAN,
                       expand : BOOLEAN, query : Nat \cup {-1}]

VARIABLES file,      \* the FSM file
          options,   \* FsmOptions
          phase,     \* "load", "walk", "done" or "failed"
          pages,     \* FsmPageInfo of the pages loaded so far
          children,  \* parent -> children
          stack,     \* pages dump_node still has to visit, innermost call first
          stats,     \* DumpStats
          visited,   \* the pages dump_node was called for, in order
          listing,   \* the slot ranges printed, as runs of heap pages
          lookup     \* what report_heap_page_lookup said

vars == <<file, options, phase, pages, children, stack, stats, visited,
          listing, lookup>>

NoLookup == [page |-> -1, slot |-> -1, found |-> "none", cat |-> 0]

ZeroStats == [root |-> 0, internal |-> 0, leaf |-> 0, zero |-> 0, invalid |-> 0,
              maxCat |-> 0, maxPage |-> 0, maxSlot |-> 0,
              avail |-> 0, slots |-> 0, catCount |-> [c \in Categories |-> 0]]

(* in_avail_range *)
InAvailRange(bytes) == options.min <= bytes /\ bytes <= options.max

(* The heap page ranges printed for leaf page p: print_leaf_compressed, or *)
(* with --extra print_leaf_expanded, which has a line for each slot.       *)
Slots(leaf) == [s \in 1..Len(leaf) |-> Run(s, s, leaf[s])]

LeafLines(p, leaf) ==
  LET runs == IF options.expand THEN Slots(leaf) ELSE Compress(leaf)
      kept == Kept(runs, {c \in Categories : InAvailRange(CatToBytes(c))})
  IN  [i \in 1..Len(kept) |-> Run(HeapPage(p, kept[i].start - 1),
                                  HeapPage(p, kept[i].end - 1), kept[i].value)]

-------------------------------------------------------------------------------
Init == /\ file \in Files
        /\ options \in OptionSets
        /\ phase = "load" /\ pages = <<>>
        /\ children = <<>> /\ stack = <<>> /\ stats = ZeroStats
        /\ visited = <<>> /\ listing = <<>> /\ lookup = NoLookup

(* load_fsm: the file cannot be opened, has not one whole page, or there   *)
(* is no memory for its pages.                                             *)
LoadFails == /\ phase = "load" /\ pages = <<>>
             /\ phase' = "failed"
             /\ UNCHANGED <<file, options, pages, children, stack, stats,
                            visited, listing, lookup>>

LoadPage == /\ phase = "load" /\ Len(pages) < Len(file)
            /\ pages' = Append(pages, PageInfo(file[Len(pages) + 1]))
            /\ UNCHANGED <<file, options, phase, children, stack, stats,
                           visited, listing, lookup>>

Loaded == phase = "load" /\ file # <<>> /\ Len(pages) = Len(file)

(* The output file cannot be opened, or there is no memory for the index. *)
OutFails == /\ Loaded
            /\ phase' = "failed"
            /\ UNCHANGED <<file, options, pages, children, stack, stats,
                           visited, listing, lookup>>

(* --heap-page: report_heap_page_lookup, and nothing else. *)
Lookup ==
  /\ Loaded /\ options.query # -1
  /\ LET p == FsmPage(options.query)
         s == FsmSlot(options.query)
     IN  lookup' = [page |-> p, slot |-> s,
                    found |-> IF p >= Len(pages) THEN "uncovered"
                              ELSE IF pages[p + 1].allzero THEN "empty"
                              ELSE IF ~pages[p + 1].valid THEN "bad"
                              ELSE "category",
                    cat |-> IF p < Len(pages) THEN pages[p + 1].leaf[s + 1] ELSE 0]
  /\ phase' = "done"
  /\ UNCHANGED <<file, options, pages, children, stack, stats, visited, listing>>

(* The tree walk, from page 0. *)
StartWalk == /\ Loaded /\ options.query = -1
             /\ children' = BuildChildren(Len(pages))
             /\ stack' = <<0>>
             /\ phase' = "walk"
             /\ UNCHANGED <<file, options, pages, stats, visited, listing, lookup>>

(* The page's part in the statistics: by level, by status, and for a valid *)
(* leaf page update_leaf_stats.                                            *)
CountLevel(st, p) ==
  CASE Level(p) = 0 -> [st EXCEPT !.root = @ + 1]
    [] Level(p) = 1 -> [st EXCEPT !.internal = @ + 1]
    [] OTHER        -> [st EXCEPT !.leaf = @ + 1]

CountLeaf(st, p, leaf) ==
  LET counted == [st EXCEPT !.avail = @ + TotalAvail(leaf),
                            !.slots = @ + LeafNodesPerPage,
                            !.catCount = [c \in Categories |->
                               @[c] + Cardinality({s \in DOMAIN leaf : leaf[s] = c})]]
  IN  IF MaxCat(leaf) > st.maxCat
      THEN [counted EXCEPT !.maxCat = MaxCat(leaf), !.maxPage = p, !.maxSlot = MaxSlot(leaf)]
      ELSE counted

CountPage(st, p, info) ==
  LET levelled == CountLevel(st, p)
  IN  IF info.allzero THEN [levelled EXCEPT !.zero = @ + 1]
      ELSE IF ~info.valid THEN [levelled EXCEPT !.invalid = @ + 1]
      ELSE IF Level(p) = 2 THEN CountLeaf(levelled, p, info.leaf)
      ELSE levelled

(* dump_node: the page itself, then its children, each with its subtree. *)
VisitNode ==
  /\ phase = "walk" /\ stack # <<>>
  /\ LET p == Head(stack)
         info == pages[p + 1]
     IN  /\ visited' = Append(visited, p)
         /\ stats' = CountPage(stats, p, info)
         /\ listing' = IF info.valid /\ Level(p) = 2 /\ InPageRange(options, p) /\ options.slots
                       THEN listing \o LeafLines(p, info.leaf) ELSE listing
         /\ stack' = children[p] \o Tail(stack)
  /\ UNCHANGED <<file, options, phase, pages, children, lookup>>

EndWalk == /\ phase = "walk" /\ stack = <<>>
           /\ phase' = "done"
           /\ UNCHANGED <<file, options, pages, children, stack, stats,
                          visited, listing, lookup>>

Step == \/ LoadFails \/ LoadPage \/ OutFails \/ Lookup \/ StartWalk \/ VisitNode \/ EndWalk

Ended == phase \in {"done", "failed"} /\ UNCHANGED vars

Next == Step \/ Ended

Spec == Init /\ [][Next]_vars

-------------------------------------------------------------------------------
LastPage == Len(file) - 1
LeafPages == {p \in 0..LastPage : Level(p) = 2}
ValidPages == {p \in 0..LastPage : file[p + 1].kind = "ok"}
ValidLeaves == LeafPages \cap ValidPages
Count(kinds) == Cardinality({p \in 0..LastPage : file[p + 1].kind \in kinds})
LeafAt(p) == file[p + 1].leaf
FoundCategories == {c \in Categories : stats.catCount[c] > 0}

TypeOK ==
  /\ file \in Files /\ options \in OptionSets
  /\ phase \in {"load", "walk", "done", "failed"}
  /\ Len(pages) <= Len(file)
  /\ \A i \in 1..Len(pages) : /\ pages[i].allzero \in BOOLEAN
                              /\ pages[i].valid \in BOOLEAN
                              /\ pages[i].leaf \in [1..LeafNodesPerPage -> Categories]
  /\ \A p \in DOMAIN children : Range(children[p]) \subseteq 0..LastPage
  /\ Range(stack) \subseteq 0..LastPage
  /\ Range(visited) \subseteq 0..LastPage
  /\ DOMAIN stats = DOMAIN ZeroStats
  /\ lookup.found \in {"none", "uncovered", "empty", "bad", "category"}

(* dump_node starts from page 0 alone, yet it is called for every page of  *)
(* the file, each once and in file order: the recursion over the index     *)
(* build_fsm_children makes never skips a page below a bad, zero or        *)
(* filtered one, never meets a page twice and never indexes beyond the     *)
(* file.                                                                   *)
WalkIsFileOrder ==
  /\ TypeOK
  /\ \A i \in 1..Len(visited) : visited[i] = i - 1
  /\ phase = "done" /\ options.query = -1 => Len(visited) = Len(file)

(* "SUMMARY covers the whole file" (print_entire_info): whatever --range,  *)
(* --min and --max hide, the totals are those of all pages of the file,    *)
(* pages that are zero or bad below which nothing is valid included, and   *)
(* the place printed for the highest category is the first slot that has   *)
(* it.                                                                     *)
SummaryCoversFile ==
  phase = "done" /\ options.query = -1 =>
    /\ stats.root + stats.internal + stats.leaf = Len(file)
    /\ stats.leaf = Cardinality(LeafPages)
    /\ stats.zero = Count({"zero", "short"})
    /\ stats.invalid = Count({"wrongsize", "badheader"})
    /\ stats.slots = SumFunctionOnSet(stats.catCount, FoundCategories)
    /\ stats.slots = LeafNodesPerPage * Cardinality(ValidLeaves)
    /\ stats.avail = SumFunctionOnSet([c \in Categories |-> stats.catCount[c] * CatToBytes(c)],
                                      FoundCategories)
    /\ stats.maxCat > 0 =>
         /\ stats.maxPage \in ValidLeaves
         /\ LeafAt(stats.maxPage)[stats.maxSlot + 1] = stats.maxCat
         /\ \A p \in ValidLeaves : \A s \in 1..LeafNodesPerPage :
              \/ LeafAt(p)[s] < stats.maxCat
              \/ /\ LeafAt(p)[s] = stats.maxCat
                 /\ \/ p > stats.maxPage
                    \/ p = stats.maxPage /\ s - 1 >= stats.maxSlot

(* The slot listing names exactly the heap pages that the shown leaf pages *)
(* cover and the --min / --max filter lets through, each once, with the    *)
(* category the file has for it, and in the order of the heap - although   *)
(* it is put together from runs within pages of a tree.                    *)
HeapPagesOf(lines) == UNION {l.start..l.end : l \in Range(lines)}

ListingMatchesFile ==
  phase = "done" /\ options.query = -1 /\ options.slots =>
    /\ \A i, j \in 1..Len(listing) : i < j => listing[i].end < listing[j].start
    /\ HeapPagesOf(listing) =
         UNION {{HeapPage(p, s - 1) : s \in {t \in 1..LeafNodesPerPage :
                                             InAvailRange(CatToBytes(LeafAt(p)[t]))}} :
                p \in {q \in ValidLeaves : InPageRange(options, q)}}
    /\ \A l \in Range(listing) : \A h \in l.start..l.end :
         LeafAt(FsmPage(h))[FsmSlot(h) + 1] = l.value

(* --heap-page N and the listing speak of the same slot: the lookup        *)
(* answers with a category exactly when a valid leaf page of the file has  *)
(* a slot that the listing would name heap page N, and with that slot's    *)
(* category; it says "not covered yet" exactly when no leaf page of the    *)
(* file has one.                                                           *)
LookupMatchesListing ==
  LET Covering == {p \in LeafPages : \E s \in 0..(LeafNodesPerPage - 1) :
                                       HeapPage(p, s) = options.query}
  IN  lookup.found # "none" =>
        /\ lookup.found = "uncovered" <=> Covering = {}
        /\ lookup.found # "uncovered" => /\ lookup.page \in Covering
                                         /\ HeapPage(lookup.page, lookup.slot) = options.query
        /\ lookup.found = "category" <=> Covering \cap ValidPages # {}
        /\ lookup.found = "category" => lookup.cat = LeafAt(lookup.page)[lookup.slot + 1]

===============================================================================
