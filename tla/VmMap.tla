-------------------------------- MODULE VmMap --------------------------------
(***************************************************************************)
(* pg_filedump -V dump and -V diff: do_vm_dump and do_vm_diff of pg_vm.c.  *)
(* The visibility map file (or both) is loaded; either one heap page is    *)
(* looked up, or the statuses of a range of heap pages are listed, run     *)
(* length compressed or one by one, and totalled.  The two commands run    *)
(* the same loop, over a status or over a pair of them.                    *)
(*                                                                         *)
(* A page of a file is [kind, status]: what fill_vm_page_info finds of its *)
(* header, and the two bits of each heap page the map page covers.         *)
(***************************************************************************)
EXTENDS RunLength, FiniteSetsExt

CONSTANTS MapSize,      \* bytes of bitmap on a map page
          Inputs,       \* set of [mode, old, new]; a dump has only `old`
          OptionSets    \* set of VmOptions records

ASSUME MapSizeAssumption == MapSize \in Nat \ {0}

RawPages == [kind : {"ok", "zero", "short", "bad"}, status : [1..(4 * MapSize) -> 0..3]]
ASSUME InputsAssumption ==
  Inputs \subseteq [mode : {"dump", "diff"}, old : Seq(RawPages), new : Seq(RawPages)]
ASSUME OptionsAssumption ==
  \A o \in OptionSets : /\ o.query \in Nat \cup {-1}
                        /\ o.range = <<>> \/ o.range \in Nat \X Nat
                        /\ {o.expand, o.stats, o.onlyNotVisible, o.onlyNotFrozen,
                             o.onlyChanged} \subseteq BOOLEAN

VARIABLES input, options,
          phase,        \* "load", "scan", "print", "done" or "failed"
          oldPages, newPages,
          from, to,     \* the heap pages to list
          hp,           \* next heap page compute_compressed looks at
          run,          \* the run it is in: [start, status]
          compressed,   \* the runs it has closed
          printed,      \* the runs, or single pages, listed
          summary,      \* the SUMMARY block, or NoSummary
          answer        \* the status --heap-page was told, or NoAnswer

vars == <<input, options, phase, oldPages, newPages, from, to, hp, run,
          compressed, printed, summary, answer>>

HEAPBLOCKS_PER_BYTE == 4
HEAPBLOCKS_PER_PAGE == MapSize * HEAPBLOCKS_PER_BYTE
OutOfFile == -1
Corrupt   == -2
Statuses  == {OutOfFile, Corrupt} \cup 0..3

NoSummary == [given |-> FALSE]
NoAnswer  == -3

(* The value of the lower bit of each heap page's pair within a byte. *)
Places == <<1, 4, 16, 64>>

(* The bitmap of a page as PostgreSQL lays it out: heap page h of the page *)
(* has two bits, the lowest of the byte first.                             *)
Packed(w, x, y, z) == w + 4 * x + 16 * y + 64 * z
Bitmap(raw) ==
  [b \in 0..(MapSize - 1) |-> Packed(raw.status[4 * b + 1], raw.status[4 * b + 2],
                                    raw.status[4 * b + 3], raw.status[4 * b + 4])]

(* fill_vm_page_info *)
PageInfo(raw) ==
  [allzero |-> raw.kind \in {"zero", "short"},
   valid   |-> raw.kind = "ok",
   bitmap  |-> IF raw.kind = "ok" THEN Bitmap(raw) ELSE [b \in 0..(MapSize - 1) |-> 0]]

(* The status in a byte of the bitmap. *)
BitsAt(byte, offset) == (byte \div Places[(offset % HEAPBLOCKS_PER_BYTE) + 1]) % 4

(* heap_page_status *)
HeapPageStatus(pages, h) ==
  LET vmPage == h \div HEAPBLOCKS_PER_PAGE
      offset == h % HEAPBLOCKS_PER_PAGE
      byte   == pages[vmPage + 1].bitmap[offset \div HEAPBLOCKS_PER_BYTE]
  IN  IF vmPage >= Len(pages) THEN OutOfFile
      ELSE IF ~pages[vmPage + 1].allzero /\ ~pages[vmPage + 1].valid THEN Corrupt
      ELSE BitsAt(byte, offset)

(* What the loop compares: a status for dump, <<old, new>> for diff. *)
StatusAt(h) == IF input.mode = "dump" THEN HeapPageStatus(oldPages, h)
               ELSE <<HeapPageStatus(oldPages, h), HeapPageStatus(newPages, h)>>

HasVisible(status) == status > 0 /\ status % 2 = 1
HasFrozen(status)  == status > 0 /\ status \div 2 = 1

(* print_compressed, print_expanded and their two diff forms leave out: *)
Hidden(value) ==
  IF input.mode = "dump"
  THEN \/ options.onlyNotVisible /\ HasVisible(value)
       \/ options.onlyNotFrozen /\ HasFrozen(value)
  ELSE options.onlyChanged /\ value[1] = value[2]

Listed == {value \in IF input.mode = "dump" THEN Statuses ELSE Statuses \X Statuses :
             ~Hidden(value)}

-------------------------------------------------------------------------------
Init == /\ input \in Inputs /\ options \in OptionSets
        /\ phase = "load" /\ oldPages = <<>> /\ newPages = <<>>
        /\ from = 0 /\ to = 0 /\ hp = 0 /\ run = Run(0, 0, 0)
        /\ compressed = <<>> /\ printed = <<>>
        /\ summary = NoSummary /\ answer = NoAnswer

(* load_vm: a file cannot be opened, has not one whole page, or there is   *)
(* no memory; diff loads the old file first.                               *)
LoadFails == /\ phase = "load"
             /\ oldPages = <<>> \/ (input.mode = "diff" /\ newPages = <<>>)
             /\ phase' = "failed"
             /\ UNCHANGED <<input, options, oldPages, newPages, from, to, hp, run,
                            compressed, printed, summary, answer>>

LoadOld == /\ phase = "load" /\ oldPages = <<>> /\ input.old # <<>>
           /\ oldPages' = [i \in DOMAIN input.old |-> PageInfo(input.old[i])]
           /\ UNCHANGED <<input, options, phase, newPages, from, to, hp, run,
                          compressed, printed, summary, answer>>

LoadNew == /\ phase = "load" /\ input.mode = "diff" /\ oldPages # <<>>
           /\ newPages = <<>> /\ input.new # <<>>
           /\ newPages' = [i \in DOMAIN input.new |-> PageInfo(input.new[i])]
           /\ UNCHANGED <<input, options, phase, oldPages, from, to, hp, run,
                          compressed, printed, summary, answer>>

Loaded == /\ phase = "load" /\ oldPages # <<>>
          /\ input.mode = "diff" => newPages # <<>>

(* The output file cannot be opened. *)
OutFails == /\ Loaded
            /\ phase' = "failed"
            /\ UNCHANGED <<input, options, oldPages, newPages, from, to, hp, run,
                           compressed, printed, summary, answer>>

(* do_vm_dump_heap_page; a diff has no use for --heap-page. *)
Lookup == /\ Loaded /\ input.mode = "dump" /\ options.query # -1
          /\ answer' = HeapPageStatus(oldPages, options.query)
          /\ phase' = "done"
          /\ UNCHANGED <<input, options, oldPages, newPages, from, to, hp, run,
                         compressed, printed, summary>>

(* resolve_heap_range: the whole map, of the longer file in a diff, unless *)
(* --heap-range was given; then the first page of compute_compressed.      *)
LastCovered == LET total == IF Len(newPages) > Len(oldPages) THEN Len(newPages)
                            ELSE Len(oldPages)
               IN  total * HEAPBLOCKS_PER_PAGE - 1

StartRange ==
  /\ Loaded /\ (input.mode = "diff" \/ options.query = -1)
  /\ from' = IF options.range = <<>> THEN 0 ELSE options.range[1]
  /\ to' = IF options.range = <<>> THEN LastCovered ELSE options.range[2]
  /\ hp' = from' + 1
  /\ run' = Run(from', from', StatusAt(from'))
  /\ phase' = IF options.expand \/ to' < from' THEN "print" ELSE "scan"
  /\ UNCHANGED <<input, options, oldPages, newPages, compressed, printed, summary, answer>>

(* One turn of the loop of compute_compressed / compute_diff_compressed. *)
ScanHeapPage_Overlapping ==
  /\ phase = "scan" /\ hp <= to
  /\ LET status == StatusAt(hp)
     IN  IF status = run.value THEN UNCHANGED <<run, compressed>>
         ELSE /\ compressed' = Append(compressed, Run(run.start, hp, run.value))
              /\ run' = Run(hp, hp, status)
  /\ hp' = hp + 1
  /\ UNCHANGED <<input, options, phase, oldPages, newPages, from, to, printed,
                 summary, answer>>

ScanHeapPage ==
  /\ phase = "scan" /\ hp <= to
  /\ LET status == StatusAt(hp)
     IN  IF status = run.value THEN UNCHANGED <<run, compressed>>
         ELSE /\ compressed' = Append(compressed, Run(run.start, hp - 1, run.value))
              /\ run' = Run(hp, hp, status)
  /\ hp' = hp + 1
  /\ UNCHANGED <<input, options, phase, oldPages, newPages, from, to, printed,
                 summary, answer>>

(* Behind the loop the last run is pushed. *)
EndScan_LastRunLost ==
  /\ phase = "scan" /\ hp > to
  /\ phase' = "print"
  /\ UNCHANGED <<input, options, oldPages, newPages, from, to, hp, run, compressed,
                 printed, summary, answer>>

EndScan == /\ phase = "scan" /\ hp > to
           /\ compressed' = Append(compressed, Run(run.start, to, run.value))
           /\ phase' = "print"
           /\ UNCHANGED <<input, options, oldPages, newPages, from, to, hp, run,
                          printed, summary, answer>>

(* print_dump_summary and print_diff_summary: sums over the runs. *)
DumpSummary ==
  [given |-> TRUE, pages |-> to - from + 1,
   visible |-> TotalLength(compressed, {s \in Statuses : HasVisible(s)}),
   frozen  |-> TotalLength(compressed, {s \in Statuses : HasFrozen(s)}),
   errors  |-> Len(Kept(compressed, {Corrupt}))]

DiffSummary ==
  LET Both == Statuses \X Statuses
      Changed        == {v \in Both : v[1] # v[2]}
      Gained(Has(_)) == {v \in Both : ~Has(v[1]) /\ Has(v[2])}
      Lost(Has(_))   == {v \in Both : Has(v[1]) /\ ~Has(v[2])}
      PagesIn(values) == TotalLength(compressed, values)
  IN  [given |-> TRUE, pages |-> to - from + 1, changed |-> PagesIn(Changed),
       gainedVisible |-> PagesIn(Gained(HasVisible)), lostVisible |-> PagesIn(Lost(HasVisible)),
       gainedFrozen  |-> PagesIn(Gained(HasFrozen)),  lostFrozen  |-> PagesIn(Lost(HasFrozen))]

(* do_vm_dump_range, do_vm_diff_range: the expanded form returns before    *)
(* the summary.                                                            *)
PrintExpanded ==
  /\ phase = "print" /\ options.expand
  /\ printed' = Kept([i \in 1..(IF to < from THEN 0 ELSE to - from + 1) |->
                       LET h == from + i - 1 IN Run(h, h, StatusAt(h))], Listed)
  /\ phase' = "done"
  /\ UNCHANGED <<input, options, oldPages, newPages, from, to, hp, run, compressed,
                 summary, answer>>

PrintCompressed ==
  /\ phase = "print" /\ ~options.expand
  /\ printed' = Kept(compressed, Listed)
  /\ summary' = IF ~options.stats THEN summary
                ELSE IF input.mode = "dump" THEN DumpSummary ELSE DiffSummary
  /\ phase' = "done"
  /\ UNCHANGED <<input, options, oldPages, newPages, from, to, hp, run, compressed, answer>>

Step == \/ LoadFails \/ LoadOld \/ LoadNew \/ OutFails \/ Lookup \/ StartRange
        \/ ScanHeapPage \/ EndScan \/ PrintExpanded \/ PrintCompressed

Ended == phase \in {"done", "failed"} /\ UNCHANGED vars

Next == Step \/ Ended

Spec == Init /\ [][Next]_vars

-------------------------------------------------------------------------------
(* The status of heap page h read from the file itself. *)
StatusIn(file, h) ==
  LET page == h \div HEAPBLOCKS_PER_PAGE + 1
  IN  IF page > Len(file) THEN OutOfFile
      ELSE CASE file[page].kind = "ok" -> file[page].status[(h % HEAPBLOCKS_PER_PAGE) + 1]
             [] file[page].kind = "bad" -> Corrupt
             [] OTHER -> 0

TrueStatus(h) == IF input.mode = "dump" THEN StatusIn(input.old, h)
                 ELSE <<StatusIn(input.old, h), StatusIn(input.new, h)>>

TypeOK ==
  /\ input \in Inputs /\ options \in OptionSets
  /\ phase \in {"load", "scan", "print", "done", "failed"}
  /\ <<from, to, hp>> \in Int \X Int \X Int
  /\ \A r \in Range(compressed) \cup Range(printed) :
       {r.start, r.end} \subseteq from..to
  /\ summary.given \in BOOLEAN
  /\ answer \in Statuses \cup {NoAnswer}

(* At every turn of the loop the runs closed so far and the one that is    *)
(* open tile the heap pages looked at: nothing is skipped or listed twice  *)
(* across a map page's border, where a map page is corrupt or where the    *)
(* file ends, each page's run has its status in the file, and neighbouring *)
(* runs differ, so the listing is as short as it can be.                   *)
AllRuns == IF phase = "scan" THEN Append(compressed, Run(run.start, hp - 1, run.value))
           ELSE compressed

Tile(runs, first, last) ==
  /\ runs[1].start = first
  /\ runs[Len(runs)].end = last
  /\ \A i \in 1..Len(runs) :
       /\ runs[i].start <= runs[i].end
       /\ \A h \in runs[i].start..runs[i].end : runs[i].value = TrueStatus(h)
       /\ i < Len(runs) => /\ runs[i + 1].start = runs[i].end + 1
                           /\ runs[i + 1].value # runs[i].value
RunsTile == AllRuns # <<>> => Tile(AllRuns, from, hp - 1)

(* Compressed or expanded, the listing names the same heap pages: those of *)
(* the range that no filter hides, in order, each with its status in the   *)
(* file; and --heap-page N says the same of N.                             *)
AnswerMatchesFile == answer # NoAnswer => answer = StatusIn(input.old, options.query)
ListingMatchesFile ==
  /\ AnswerMatchesFile
  /\ phase = "done" /\ answer = NoAnswer =>
    /\ \A i, j \in 1..Len(printed) : i < j => printed[i].end < printed[j].start
    /\ UNION {r.start..r.end : r \in Range(printed)}
         = {h \in from..to : ~Hidden(TrueStatus(h))}
    /\ \A r \in Range(printed) : \A h \in r.start..r.end : r.value = TrueStatus(h)

(* The summary counts heap pages although it adds up runs, and whatever    *)
(* the filters hide: a diff's gains less its losses are the difference     *)
(* between the two files' totals.                                          *)
PagesWith(Has(_), file) == Cardinality({h \in from..to : Has(StatusIn(file, h))})

SummaryMatchesFile ==
  /\ TypeOK
  /\ summary.given =>
    IF input.mode = "dump"
    THEN /\ summary.visible = PagesWith(HasVisible, input.old)
         /\ summary.frozen = PagesWith(HasFrozen, input.old)
    ELSE /\ summary.changed = Cardinality({h \in from..to :
                               StatusIn(input.old, h) # StatusIn(input.new, h)})
         /\ summary.gainedVisible - summary.lostVisible =
              PagesWith(HasVisible, input.new) - PagesWith(HasVisible, input.old)
         /\ summary.gainedFrozen - summary.lostFrozen =
              PagesWith(HasFrozen, input.new) - PagesWith(HasFrozen, input.old)
===============================================================================
