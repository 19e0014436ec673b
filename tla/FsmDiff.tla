------------------------------- MODULE FsmDiff -------------------------------
(***************************************************************************)
(* pg_filedump -F diff: do_fsm_diff of pg_fsm.c.  Both files are loaded,   *)
(* diff_node recurses from page 0 over the tree of the longer one, gives   *)
(* each page a Status and totals the changed nodes and slots.              *)
(***************************************************************************)
EXTENDS FsmFile

CONSTANTS FilePairs,    \* set of <<old file, new file>>
          OptionSets    \* set of FsmOptions records [range, internal, changedOnly]

ASSUME PairsAssumption == FilePairs \subseteq Seq(RawPages) \X Seq(RawPages)
ASSUME OptionsAssumption ==
  OptionSets \subseteq [range : SUBSET Nat, internal : BOOLEAN, changedOnly : BOOLEAN]

VARIABLES old, new,     \* the two files
          options,
          phase,        \* "load", "walk", "done" or "failed"
          oldPages, newPages,
          children, stack,
          visited,      \* the pages diff_node was called for, in order
          lines,        \* <<page, status>> of the status lines printed
          stats,        \* DiffStats
          deltas        \* LeafDeltaVec

vars == <<old, new, options, phase, oldPages, newPages, children, stack, visited,
          lines, stats, deltas>>

ZeroStats == [changed |-> 0, headers |-> 0, structural |-> 0,
              slots |-> 0, up |-> 0, down |-> 0, added |-> 0, removed |-> 0,
              oldAvail |-> 0, newAvail |-> 0]

TotalMax == IF Len(old) > Len(new) THEN Len(old) ELSE Len(new)

(* A page is usable when the file has it and it is valid. *)
Usable_AnyHeader(pages, p) == p < Len(pages) /\ ~pages[p + 1].allzero
Usable(pages, p) == p < Len(pages) /\ ~pages[p + 1].allzero /\ pages[p + 1].valid

(* page_status *)
PageStatus(p) ==
  LET oldOk == Usable(oldPages, p)
      newOk == Usable(newPages, p)
  IN  IF ~oldOk /\ newOk THEN "ADDED"
      ELSE IF oldOk /\ ~newOk THEN "REMOVED"
      ELSE IF ~oldOk /\ ~newOk THEN "empty"
      ELSE IF /\ oldPages[p + 1].inner = newPages[p + 1].inner
              /\ oldPages[p + 1].leaf = newPages[p + 1].leaf THEN "same"
      ELSE "CHANGED"

(* report_header_diff *)
CountHeaders(st, a, b) ==
  IF a = b THEN st
  ELSE [st EXCEPT !.headers = @ + 1,
                  !.structural = @ + (IF a.shape # b.shape THEN 1 ELSE 0)]

CategoryPairs == Categories \X Categories
Higher == {v \in CategoryPairs : v[2] > v[1]}
HigherBytes == {v \in CategoryPairs : CatToBytes(v[2]) > CatToBytes(v[1])}

ChangedRuns(a, b) == Kept(Compress(Pairs(a, b)), {v \in CategoryPairs : v[1] # v[2]})

(* Changed runs in the totals: `gains` are the pairs that the caller takes *)
(* for a higher new value, any other is taken for a lower one.             *)
CountRuns_EachGains(st, runs, gains) ==
  [st EXCEPT !.slots = @ + TotalLength(runs, CategoryPairs),
             !.up = @ + TotalLength(runs, CategoryPairs)]

CountRuns(st, runs, gains) ==
  [st EXCEPT !.slots = @ + TotalLength(runs, CategoryPairs),
             !.up = @ + TotalLength(runs, gains),
             !.down = @ + TotalLength(runs, CategoryPairs \ gains)]

(* print_internal_diff compares categories ... *)
CountInternal(st, a, b) == CountRuns(st, ChangedRuns(a.inner, b.inner), Higher)

(* ... and print_leaf_diff the bytes they stand for. *)
CountLeaf(st, a, b) == CountRuns(st, ChangedRuns(a.leaf, b.leaf), HigherBytes)

(* The LeafDelta print_leaf_diff pushes for each changed run of page p. *)
LeafDeltas(p, a, b) ==
  LET runs == ChangedRuns(a.leaf, b.leaf)
  IN  [i \in 1..Len(runs) |-> Run(HeapPage(p, runs[i].start - 1),
                                  HeapPage(p, runs[i].end - 1),
                                  CatToBytes(runs[i].value[2]) - CatToBytes(runs[i].value[1]))]

(* report_changed_page *)
CountChanged(st, a, b) ==
  LET headed == CountHeaders([st EXCEPT !.changed = @ + 1], a.header, b.header)
  IN  CountLeaf(IF options.internal THEN CountInternal(headed, a, b) ELSE headed, a, b)

(* sum_leaf_avail *)
AvailAt(pages) == [i \in DOMAIN pages |-> TotalAvail(pages[i].leaf)]

SumLeafAvail_AllLevels(pages) ==
  SumFunctionOnSet(AvailAt(pages), {i \in DOMAIN pages : pages[i].allzero \/ pages[i].valid})

SumLeafAvail(pages) ==
  SumFunctionOnSet(AvailAt(pages),
                   {i \in DOMAIN pages : /\ Level(i - 1) = 2
                                         /\ pages[i].allzero \/ pages[i].valid})

-------------------------------------------------------------------------------
Init == /\ \E pair \in FilePairs : old = pair[1] /\ new = pair[2]
        /\ options \in OptionSets
        /\ phase = "load"
        /\ oldPages = <<>> /\ newPages = <<>>
        /\ children = <<>> /\ stack = <<>>
        /\ visited = <<>> /\ lines = <<>> /\ stats = ZeroStats /\ deltas = <<>>

(* load_fsm fails for either file: it cannot be opened, has not one whole  *)
(* page, or there is no memory.                                            *)
LoadFails == /\ phase = "load" /\ newPages = <<>>
             /\ phase' = "failed"
             /\ UNCHANGED <<old, new, options, oldPages, newPages, children, stack,
                            visited, lines, stats, deltas>>

LoadOld == /\ phase = "load" /\ oldPages = <<>> /\ old # <<>>
           /\ oldPages' = [i \in DOMAIN old |-> PageInfo(old[i])]
           /\ UNCHANGED <<old, new, options, phase, newPages, children, stack,
                          visited, lines, stats, deltas>>

LoadNew == /\ phase = "load" /\ oldPages # <<>> /\ newPages = <<>> /\ new # <<>>
           /\ newPages' = [i \in DOMAIN new |-> PageInfo(new[i])]
           /\ UNCHANGED <<old, new, options, phase, oldPages, children, stack,
                          visited, lines, stats, deltas>>

Loaded == phase = "load" /\ oldPages # <<>> /\ newPages # <<>>

(* No memory for the index, or the output file cannot be opened. *)
OutFails == /\ Loaded
            /\ phase' = "failed"
            /\ UNCHANGED <<old, new, options, oldPages, newPages, children, stack,
                           visited, lines, stats, deltas>>

StartWalk == /\ Loaded
             /\ children' = BuildChildren(TotalMax)
             /\ stack' = <<0>>
             /\ phase' = "walk"
             /\ UNCHANGED <<old, new, options, oldPages, newPages, visited, lines,
                            stats, deltas>>

(* diff_node: the status line, diff_apply_status, the children. *)
Shown_ChangedOnly(p, status) == /\ InPageRange(options, p)
                                /\ options.changedOnly => status = "CHANGED"

Shown(p, status) == /\ InPageRange(options, p)
                    /\ ~(options.changedOnly /\ status \in {"same", "empty"})

DiffNode ==
  /\ phase = "walk" /\ stack # <<>>
  /\ LET p == Head(stack)
         status == PageStatus(p)
         a == oldPages[p + 1]
         b == newPages[p + 1]
     IN  /\ visited' = Append(visited, p)
         /\ lines' = IF Shown(p, status) THEN Append(lines, <<p, status>>) ELSE lines
         /\ stats' = CASE status = "ADDED"   -> [stats EXCEPT !.added = @ + 1]
                       [] status = "REMOVED" -> [stats EXCEPT !.removed = @ + 1]
                       [] status = "CHANGED" -> CountChanged(stats, a, b)
                       [] OTHER              -> stats
         /\ deltas' = IF status = "CHANGED" THEN deltas \o LeafDeltas(p, a, b) ELSE deltas
         /\ stack' = children[p] \o Tail(stack)
  /\ UNCHANGED <<old, new, options, phase, oldPages, newPages, children>>

Summarise == /\ phase = "walk" /\ stack = <<>>
             /\ stats' = [stats EXCEPT !.oldAvail = SumLeafAvail(oldPages),
                                       !.newAvail = SumLeafAvail(newPages)]
             /\ phase' = "done"
             /\ UNCHANGED <<old, new, options, oldPages, newPages, children, stack,
                            visited, lines, deltas>>

Step == LoadFails \/ LoadOld \/ LoadNew \/ OutFails \/ StartWalk \/ DiffNode \/ Summarise

Ended == phase \in {"done", "failed"} /\ UNCHANGED vars

Next == Step \/ Ended

Spec == Init /\ [][Next]_vars

-------------------------------------------------------------------------------
AllPages == 0..(TotalMax - 1)
GoodIn(f) == {p \in 0..(Len(f) - 1) : f[p + 1].kind = "ok"}
InBoth == GoodIn(old) \cap GoodIn(new)
Leaves == {p \in AllPages : Level(p) = 2}
Differs(a, b) == {i \in DOMAIN a : a[i] # b[i]}

(* Free space of the pages in S, by the file's own leaf arrays. *)
AvailOf(f, S) == SumFunctionOnSet([p \in S |-> TotalAvail(f[p + 1].leaf)], S)

TypeOK ==
  /\ <<old, new>> \in FilePairs /\ options \in OptionSets
  /\ phase \in {"load", "walk", "done", "failed"}
  /\ Len(oldPages) \in {0, Len(old)} /\ Len(newPages) \in {0, Len(new)}
  /\ Range(stack) \subseteq AllPages /\ Range(visited) \subseteq AllPages
  /\ \A l \in Range(lines) :
       l \in AllPages \X {"ADDED", "REMOVED", "CHANGED", "same", "empty"}
  /\ DOMAIN stats = DOMAIN ZeroStats /\ \A f \in DOMAIN stats : stats[f] \in Nat

(* A report that --only-changed cuts down still names every page that      *)
(* differs and no other, in file order: a change below an unchanged, bad   *)
(* or missing parent is not hidden with the parent's line, and a page that *)
(* only one of the files has is not missed, whichever is longer.           *)
PageDiffers(p) ==
  \/ p \in GoodIn(old) /\ p \notin GoodIn(new)
  \/ p \notin GoodIn(old) /\ p \in GoodIn(new)
  \/ p \in InBoth /\ \/ old[p + 1].inner # new[p + 1].inner
                     \/ old[p + 1].leaf # new[p + 1].leaf

NamesEveryDifference ==
  /\ TypeOK
  /\ \A i, j \in 1..Len(lines) : i < j => lines[i][1] < lines[j][1]
  /\ phase = "done" =>
       {l[1] : l \in Range(lines)} =
         {p \in AllPages : /\ InPageRange(options, p)
                           /\ options.changedOnly => PageDiffers(p)}

(* The page counts of the summary balance over the two files: what was     *)
(* added less what was removed is the difference in usable pages, whatever *)
(* --range and --only-changed hide.                                        *)
PagesBalance ==
  phase = "done" =>
    /\ stats.added - stats.removed = Cardinality(GoodIn(new)) - Cardinality(GoodIn(old))
    /\ stats.added + stats.removed + stats.changed =
         Cardinality({p \in AllPages : PageDiffers(p)})

(* Free space is conserved by the diff: the difference of the two totals   *)
(* is what the deltas say of leaf pages in both files, plus the space of   *)
(* leaf pages added, less that of leaf pages removed.  The deltas also     *)
(* hold those of root and internal pages, whose leaf arrays are not heap   *)
(* pages; their share is taken out here.                                   *)
SpaceConserved ==
  phase = "done" =>
    stats.newAvail - stats.oldAvail =
      SumFunction([i \in DOMAIN deltas |-> LengthOf(deltas[i]) * deltas[i].value])
      - (AvailOf(new, InBoth \ Leaves) - AvailOf(old, InBoth \ Leaves))
      + AvailOf(new, (GoodIn(new) \ GoodIn(old)) \cap Leaves)
      - AvailOf(old, (GoodIn(old) \ GoodIn(new)) \cap Leaves)

(* "node/slots changed: N (gained space: U, lost space: D)" counts single  *)
(* nodes although the pages are compared run by run: N is the number of    *)
(* positions that differ, U those where the new category is the higher     *)
(* one.                                                                    *)
Gains(a, b) == {i \in DOMAIN a : b[i] > a[i]}
NodeCount(Op(_, _)) ==
  SumFunctionOnSet([p \in InBoth |-> Cardinality(Op(old[p + 1].leaf, new[p + 1].leaf))
                                     + (IF options.internal
                                        THEN Cardinality(Op(old[p + 1].inner, new[p + 1].inner))
                                        ELSE 0)], InBoth)

SlotsCounted ==
  phase = "done" => /\ stats.slots = NodeCount(Differs)
                    /\ stats.up = NodeCount(Gains)
                    /\ stats.slots = stats.up + stats.down

===============================================================================
