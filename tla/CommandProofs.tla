------------------------------ MODULE CommandProofs ------------------------------
(***************************************************************************)
(* The command line, and the visibility map tool behind it.                *)
(*                                                                         *)
(* For every set of command lines: ConsumeOptions refuses exactly those    *)
(* that are not well formed, tells so in its exit code, and carries out    *)
(* the others as they were written; the map tools obey their flags.        *)
(*                                                                         *)
(* For every size of a map page, all files and all options: the run-length *)
(* loop of pg_vm.c tiles the range with the statuses in the file,          *)
(* --heap-page is told the status in the file, the four listings show what *)
(* the filters ask for, and both summaries count the file.                 *)
(***************************************************************************)
EXTENDS VmMap, CommandLine, DataFacts

-------------------------------------------------------------------------------
(* The two bits of each of the four heap pages of a byte are read as they  *)
(* were written.                                                           *)
LEMMA BitsReadBack ==
  ASSUME NEW q \in [1..4 -> 0..3], NEW k \in Nat
  PROVE  BitsAt(Packed(q[1], q[2], q[3], q[4]), k) = q[(k % 4) + 1]
<1> DEFINE byte == Packed(q[1], q[2], q[3], q[4])
<1>1. (k % 4) \in 0..3
  OBVIOUS
<1>2. BitsAt(byte, k) = (byte \div Places[(k % 4) + 1]) % 4
  BY DEF BitsAt, HEAPBLOCKS_PER_BYTE
<1>3. /\ (byte \div 1) % 4 = q[1] /\ (byte \div 4) % 4 = q[2]
      /\ (byte \div 16) % 4 = q[3] /\ (byte \div 64) % 4 = q[4]
  <2> DEFINE b1 == q[1]
             b2 == q[2]
             b3 == q[3]
             b4 == q[4]
  <2>1. b1 \in 0..3 /\ b2 \in 0..3 /\ b3 \in 0..3 /\ b4 \in 0..3
    OBVIOUS
  <2> HIDE DEF b1, b2, b3, b4
  <2>2. (Packed(b1, b2, b3, b4) \div 1) % 4 = b1
    BY <2>1, SMTT(30) DEF Packed
  <2>3. (Packed(b1, b2, b3, b4) \div 4) % 4 = b2
    BY <2>1, SMTT(30) DEF Packed
  <2>4. (Packed(b1, b2, b3, b4) \div 16) % 4 = b3
    BY <2>1, SMTT(30) DEF Packed
  <2>5. (Packed(b1, b2, b3, b4) \div 64) % 4 = b4
    BY <2>1, SMTT(30) DEF Packed
  <2> QED BY <2>2, <2>3, <2>4, <2>5 DEF b1, b2, b3, b4
<1> HIDE DEF byte
<1>4. CASE k % 4 = 0
  BY <1>2, <1>3, <1>4 DEF Places, byte
<1>5. CASE k % 4 = 1
  BY <1>2, <1>3, <1>5 DEF Places, byte
<1>6. CASE k % 4 = 2
  BY <1>2, <1>3, <1>6 DEF Places, byte
<1>7. CASE k % 4 = 3
  BY <1>2, <1>3, <1>7 DEF Places, byte
<1> QED BY <1>1, <1>4, <1>5, <1>6, <1>7 DEF byte

(* What load_vm makes of a file. *)
Infos(file) == [i \in DOMAIN file |-> PageInfo(file[i])]

(* The place of heap page h: its map page, and byte and pair on the page.  *)
LEMMA PlaceOfHeapPage ==
  ASSUME NEW h \in Nat
  PROVE  LET offset == h % HEAPBLOCKS_PER_PAGE
             byte == offset \div HEAPBLOCKS_PER_BYTE
         IN  /\ h \div HEAPBLOCKS_PER_PAGE \in Nat
             /\ offset \in 0..(4 * MapSize - 1)
             /\ byte \in 0..(MapSize - 1)
             /\ offset % 4 \in 0..3
             /\ offset = 4 * byte + (offset % 4)
<1> DEFINE n == HEAPBLOCKS_PER_PAGE
           offset == h % n
           byte == offset \div 4
<1>1. n \in Nat \ {0} /\ n = 4 * MapSize
  BY MapSizeAssumption DEF HEAPBLOCKS_PER_PAGE, HEAPBLOCKS_PER_BYTE
<1>2. h \div n \in Nat /\ offset \in 0..(n - 1)
  BY <1>1, DivMod
<1>3. offset \in Nat
  BY <1>1, <1>2
<1> HIDE DEF n, offset
<1>4. byte \in Nat /\ offset % 4 \in 0..3 /\ offset = byte * 4 + (offset % 4)
  BY <1>3, DivMod
<1> HIDE DEF byte
<1>5. byte < MapSize
  BY <1>1, <1>2, <1>4, MapSizeAssumption
<1>6. offset = h % HEAPBLOCKS_PER_PAGE /\ h \div n = h \div HEAPBLOCKS_PER_PAGE
  BY DEF n, offset
<1>7. byte = offset \div HEAPBLOCKS_PER_BYTE
  BY DEF byte, HEAPBLOCKS_PER_BYTE
<1>8. byte \in 0..(MapSize - 1) /\ offset \in 0..(4 * MapSize - 1)
  BY <1>1, <1>2, <1>4, <1>5, MapSizeAssumption
<1> QED BY <1>2, <1>4, <1>6, <1>7, <1>8

(* heap_page_status finds what the file holds: past its end, on a corrupt  *)
(* page, on an empty one and on a sound one.                               *)
LEMMA StatusFound ==
  ASSUME NEW file \in Seq(RawPages), NEW h \in Nat
  PROVE  /\ HeapPageStatus(Infos(file), h) = StatusIn(file, h)
         /\ StatusIn(file, h) \in Statuses
<1> DEFINE p == h \div HEAPBLOCKS_PER_PAGE
           offset == h % HEAPBLOCKS_PER_PAGE
           byte == offset \div HEAPBLOCKS_PER_BYTE
           k == offset % 4
<1>1. /\ p \in Nat /\ offset \in 0..(4 * MapSize - 1) /\ byte \in 0..(MapSize - 1)
      /\ k \in 0..3 /\ offset = 4 * byte + k
  BY PlaceOfHeapPage
<1>2. Len(Infos(file)) = Len(file) /\ Len(file) \in Nat /\ DOMAIN file = 1..Len(file)
  BY DEF Infos
<1>3. CASE p >= Len(file)
  BY <1>1, <1>2, <1>3 DEF HeapPageStatus, StatusIn, Statuses
<1>4. CASE p < Len(file)
  <2> DEFINE raw == file[p + 1]
  <2>1. p + 1 \in DOMAIN file
    BY <1>1, <1>2, <1>4
  <2>2. raw \in RawPages /\ Infos(file)[p + 1] = PageInfo(raw)
    BY <2>1 DEF Infos
  <2>3. HeapPageStatus(Infos(file), h) =
          IF raw.kind = "bad" THEN Corrupt ELSE BitsAt(PageInfo(raw).bitmap[byte], offset)
    <3>1. HeapPageStatus(Infos(file), h) =
            IF p >= Len(Infos(file)) THEN OutOfFile
            ELSE IF ~Infos(file)[p + 1].allzero /\ ~Infos(file)[p + 1].valid THEN Corrupt
            ELSE BitsAt(Infos(file)[p + 1].bitmap[byte], offset)
      BY DEF HeapPageStatus
    <3>2. ~(p >= Len(Infos(file)))
      BY <1>1, <1>2, <1>4
    <3>3. ~PageInfo(raw).allzero /\ ~PageInfo(raw).valid <=> raw.kind = "bad"
      BY <2>2 DEF PageInfo, RawPages
    <3> QED BY <2>2, <3>1, <3>2, <3>3
  <2>4. StatusIn(file, h) = CASE raw.kind = "ok" -> raw.status[offset + 1]
                              [] raw.kind = "bad" -> Corrupt
                              [] OTHER -> 0
    BY <1>1, <1>2, <1>4 DEF StatusIn
  <2>5. CASE raw.kind = "ok"
    <3> DEFINE q == [i \in 1..4 |-> raw.status[4 * byte + i]]
    <3>1. raw.status \in [1..(4 * MapSize) -> 0..3]
      BY <2>2 DEF RawPages
    <3>2. byte \in Nat /\ byte < MapSize /\ offset \in Nat
      BY <1>1, MapSizeAssumption
    <3>3. \A i \in 1..4 : 4 * byte + i \in 1..(4 * MapSize)
      <4> HIDE DEF byte
      <4> QED BY <3>2, MapSizeAssumption
    <3>4. q \in [1..4 -> 0..3]
      <4> HIDE DEF byte
      <4> QED BY <3>1, <3>3
    <3>5. PageInfo(raw).bitmap[byte] = Packed(q[1], q[2], q[3], q[4])
      <4> HIDE DEF byte
      <4>1. byte \in 0..(MapSize - 1)
        BY <3>2, MapSizeAssumption
      <4>2. PageInfo(raw).bitmap = Bitmap(raw)
        BY <2>5 DEF PageInfo
      <4> HIDE DEF raw
      <4> QED BY <4>1, <4>2 DEF Bitmap
    <3>6. BitsAt(Packed(q[1], q[2], q[3], q[4]), offset) = q[(offset % 4) + 1]
      <4> HIDE DEF q, offset
      <4> QED BY <3>2, <3>4, BitsReadBack
    <3>7. /\ (offset % 4) + 1 \in 1..4
          /\ offset + 1 = 4 * byte + ((offset % 4) + 1)
      BY <1>1
    <3>8. q[(offset % 4) + 1] = raw.status[offset + 1]
      <4> HIDE DEF byte, offset
      <4> QED BY <3>7
    <3>9. raw.status[offset + 1] \in 0..3
      <4> HIDE DEF byte, offset
      <4> QED BY <3>1, <3>3, <3>7
    <3> QED BY <2>3, <2>4, <2>5, <3>5, <3>6, <3>8, <3>9 DEF Statuses, Corrupt
  <2>6. CASE raw.kind = "bad"
    BY <2>3, <2>4, <2>6 DEF Statuses
  <2>7. CASE raw.kind \in {"zero", "short"}
    <3>1. PageInfo(raw).bitmap[byte] = 0
      BY <1>1, <2>7 DEF PageInfo
    <3>2. offset \in Nat
      BY <1>1, MapSizeAssumption
    <3>3. BitsAt(0, offset) = 0
      <4> DEFINE z == [i \in 1..4 |-> 0]
      <4>1. BitsAt(Packed(z[1], z[2], z[3], z[4]), offset) = z[(offset % 4) + 1]
        <5>1. z \in [1..4 -> 0..3]
          OBVIOUS
        <5> HIDE DEF z, offset
        <5> QED BY <5>1, <3>2, BitsReadBack
      <4>3. (offset % 4) + 1 \in 1..4
        BY <3>2
      <4>2. Packed(0, 0, 0, 0) = 0
        BY DEF Packed
      <4> QED BY <4>1, <4>2, <4>3
    <3> QED BY <2>3, <2>4, <2>7, <3>1, <3>3 DEF Statuses
  <2> QED BY <2>2, <2>5, <2>6, <2>7 DEF RawPages
<1> QED BY <1>1, <1>2, <1>3, <1>4

-------------------------------------------------------------------------------
(* What the loop is told of a heap page is what the files hold.            *)
Values == Statuses \cup (Statuses \X Statuses)
Runs == [start : Int, end : Int, value : Values]
FilesLoaded == /\ oldPages = Infos(input.old)
               /\ input.mode = "diff" => newPages = Infos(input.new)

LEMMA StatusTrue ==
  ASSUME input \in Inputs, FilesLoaded, NEW h \in Nat
  PROVE  StatusAt(h) = TrueStatus(h) /\ TrueStatus(h) \in Values
<1>1. /\ input.old \in Seq(RawPages) /\ input.new \in Seq(RawPages)
      /\ input.mode \in {"dump", "diff"}
  BY InputsAssumption
<1>2. /\ HeapPageStatus(Infos(input.old), h) = StatusIn(input.old, h)
      /\ StatusIn(input.old, h) \in Statuses
  BY <1>1, StatusFound
<1>3. /\ HeapPageStatus(Infos(input.new), h) = StatusIn(input.new, h)
      /\ StatusIn(input.new, h) \in Statuses
  BY <1>1, StatusFound
<1> QED BY <1>1, <1>2, <1>3 DEF StatusAt, TrueStatus, FilesLoaded, Values

(* A heap page with the status of the open run makes the run longer ...    *)
LEMMA TileExtended ==
  ASSUME NEW runs \in Seq(Runs), NEW r \in Runs, NEW first, NEW n \in Int, r.end = n,
         Tile(Append(runs, r), first, n), TrueStatus(n + 1) = r.value
  PROVE  Tile(Append(runs, Run(r.start, n + 1, r.value)), first, n + 1)
<1> DEFINE old == Append(runs, r)
           s == Run(r.start, n + 1, r.value)
           new == Append(runs, s)
           m == Len(runs) + 1
<1>1. s \in Runs /\ s.start = r.start /\ s.end = n + 1 /\ s.value = r.value
  BY DEF Runs, Run
<1>2. /\ Len(runs) \in Nat /\ Len(old) = m /\ Len(new) = m /\ m \in 1..m
      /\ old[m] = r /\ new[m] = s
      /\ \A i \in 1..(m - 1) : old[i] = new[i] /\ old[i] \in Runs
  <2>1. Len(runs) \in Nat /\ m \in 1..m
    OBVIOUS
  <2>2. Len(old) = m /\ old[m] = r
    OBVIOUS
  <2> HIDE DEF s
  <2>3. Len(new) = m /\ new[m] = s
    BY <1>1
  <2>4. \A i \in 1..(m - 1) : old[i] = runs[i] /\ new[i] = runs[i] /\ runs[i] \in Runs
    BY <1>1
  <2> HIDE DEF old, new, m
  <2> QED BY <2>1, <2>2, <2>3, <2>4
<1> HIDE DEF old, new, s, m
<1>3. new[1].start = first
  <2>1. old[1].start = first
    BY DEF Tile, old
  <2>2. 1 \in 1..(m - 1) \/ m = 1
    BY <1>2
  <2> QED BY <1>1, <1>2, <2>1, <2>2
<1>4. ASSUME NEW i \in 1..m
      PROVE  /\ new[i].start <= new[i].end
             /\ \A h \in new[i].start..new[i].end : new[i].value = TrueStatus(h)
             /\ i < m => new[i + 1].start = new[i].end + 1 /\ new[i + 1].value # new[i].value
  <2>1. /\ old[i].start <= old[i].end
        /\ \A h \in old[i].start..old[i].end : old[i].value = TrueStatus(h)
        /\ i < m => old[i + 1].start = old[i].end + 1 /\ old[i + 1].value # old[i].value
    BY <1>2 DEF Tile, old
  <2>2. CASE i = m
    <3>1. r.start <= n /\ r.start \in Int /\ \A h \in r.start..n : r.value = TrueStatus(h)
      BY <1>2, <2>1, <2>2 DEF Runs
    <3>2. \A h \in r.start..(n + 1) : h \in r.start..n \/ h = n + 1
      BY <3>1
    <3> QED BY <1>1, <1>2, <2>2, <3>1, <3>2
  <2>3. CASE i < m
    <3>1. i \in 1..(m - 1) /\ i + 1 \in 1..m
      BY <1>2, <2>3
    <3>2. new[i + 1].start = old[i + 1].start /\ new[i + 1].value = old[i + 1].value
      BY <1>1, <1>2, <3>1
    <3> QED BY <1>2, <2>1, <2>3, <3>1, <3>2
  <2> QED BY <1>2, <2>2, <2>3
<1> QED BY <1>1, <1>2, <1>3, <1>4 DEF Tile, new, s

(* ... and one with another status starts the next.                        *)
LEMMA TileAppended ==
  ASSUME NEW runs \in Seq(Runs), runs # <<>>, NEW first, NEW n \in Int,
         Tile(runs, first, n), NEW v \in Values, TrueStatus(n + 1) = v,
         v # runs[Len(runs)].value
  PROVE  Tile(Append(runs, Run(n + 1, n + 1, v)), first, n + 1)
<1> DEFINE s == Run(n + 1, n + 1, v)
           new == Append(runs, s)
           m == Len(runs) + 1
<1>1. s \in Runs /\ s.start = n + 1 /\ s.end = n + 1 /\ s.value = v
  BY DEF Runs, Run
<1>2. /\ Len(runs) \in Nat /\ Len(runs) > 0 /\ Len(new) = m /\ m \in 1..m /\ new[m] = s
      /\ \A i \in 1..(m - 1) : new[i] = runs[i]
  BY <1>1
<1> HIDE DEF new, s
<1>3. new[1].start = first
  BY <1>2 DEF Tile
<1>4. ASSUME NEW i \in 1..m
      PROVE  /\ new[i].start <= new[i].end
             /\ \A h \in new[i].start..new[i].end : new[i].value = TrueStatus(h)
             /\ i < m => new[i + 1].start = new[i].end + 1 /\ new[i + 1].value # new[i].value
  <2>1. CASE i = m
    BY <1>1, <1>2, <2>1
  <2>2. CASE i = m - 1
    <3>1. i \in 1..Len(runs) /\ i = Len(runs) /\ new[i] = runs[i] /\ new[i + 1] = s
      BY <1>2, <2>2
    <3> QED BY <1>1, <3>1 DEF Tile
  <2>3. CASE i < m - 1
    <3>1. i \in 1..Len(runs) /\ i < Len(runs) /\ new[i] = runs[i] /\ new[i + 1] = runs[i + 1]
      BY <1>2, <2>3
    <3> QED BY <3>1 DEF Tile
  <2> QED BY <1>2, <2>1, <2>2, <2>3
<1> QED BY <1>1, <1>2, <1>3, <1>4 DEF Tile, new, s

-------------------------------------------------------------------------------
(* The inductive invariant: the pages loaded are those of the files, the   *)
(* loop stays in its range, and what it has closed and holds open tiles    *)
(* the heap pages it has passed.                                           *)
LoadInv ==
  /\ input \in Inputs /\ options \in OptionSets
  /\ oldPages \in {<<>>, Infos(input.old)}
  /\ newPages \in {<<>>, Infos(input.new)}
  /\ phase = "scan" => FilesLoaded

LoopInv ==
  /\ compressed \in Seq(Runs)
  /\ phase = "load" => compressed = <<>> /\ answer = NoAnswer
  /\ phase = "scan" =>
       /\ hp \in Nat /\ to \in Nat /\ hp <= to + 1
       /\ run.start \in Int /\ run.value \in Values

IInv == LoadInv /\ LoopInv /\ RunsTile /\ AnswerMatchesFile

(* The range that is resolved.                                             *)
LEMMA RangeIsGiven ==
  ASSUME LoadInv, StartRange
  PROVE  from' \in Nat /\ to' \in Int
<1>1. from' \in Nat
  BY OptionsAssumption DEF StartRange, LoadInv
<1>2. options.range # <<>> => options.range[2] \in Int
  BY OptionsAssumption DEF LoadInv
<1>3. Len(oldPages) \in Nat /\ Len(newPages) \in Nat
  <2>1. input.old \in Seq(RawPages) /\ input.new \in Seq(RawPages)
    BY InputsAssumption DEF LoadInv
  <2>2. Infos(input.old) \in Seq({PageInfo(raw) : raw \in RawPages})
    BY <2>1 DEF Infos
  <2>3. Infos(input.new) \in Seq({PageInfo(raw) : raw \in RawPages})
    BY <2>1 DEF Infos
  <2> QED BY <2>2, <2>3 DEF LoadInv
<1>4. HEAPBLOCKS_PER_PAGE \in Nat
  BY MapSizeAssumption DEF HEAPBLOCKS_PER_PAGE, HEAPBLOCKS_PER_BYTE
<1>5. LastCovered \in Int
  BY <1>3, <1>4, SMTT(30) DEF LastCovered
<1> QED BY <1>1, <1>2, <1>5 DEF StartRange

LEMMA Initially == Init => IInv
<1> SUFFICES ASSUME Init PROVE IInv
  OBVIOUS
<1>1. compressed \in Seq(Runs) /\ AllRuns = <<>>
  BY DEF Init, AllRuns
<1> QED BY <1>1 DEF Init, IInv, LoadInv, LoopInv, RunsTile, AnswerMatchesFile

LEMMA Inductive == IInv /\ [Next]_vars => IInv'
<1> SUFFICES ASSUME IInv, [Next]_vars PROVE IInv'
  OBVIOUS
<1> USE DEF IInv
<1>0. input' = input /\ options' = options
  BY DEF Next, Step, LoadFails, LoadOld, LoadNew, OutFails, Lookup, StartRange, ScanHeapPage,
         EndScan, PrintExpanded, PrintCompressed, Ended, vars
<1>1. (\A h : TrueStatus(h)' = TrueStatus(h)) /\ Infos(input.old)' = Infos(input.old)
      /\ Infos(input.new)' = Infos(input.new)
  BY <1>0 DEF TrueStatus, Infos
<1>2. ASSUME UNCHANGED <<compressed, from, hp, run>>, phase' # "scan", phase # "scan"
      PROVE  RunsTile'
  <2>1. AllRuns' = AllRuns
    BY <1>2 DEF AllRuns
  <2> QED BY <1>1, <1>2, <2>1 DEF RunsTile, Tile
<1>3. CASE LoadFails \/ OutFails \/ LoadOld \/ LoadNew
  <2>1. /\ UNCHANGED <<compressed, from, to, hp, run, answer>>
        /\ phase = "load" /\ phase' \in {"load", "failed"}
    BY <1>3 DEF LoadFails, OutFails, LoadOld, LoadNew, Loaded
  <2>2. LoadInv'
    <3>1. oldPages' \in {oldPages, Infos(input.old)} /\ newPages' \in {newPages, Infos(input.new)}
      BY <1>3 DEF LoadFails, OutFails, LoadOld, LoadNew, Infos
    <3> QED BY <1>0, <1>1, <2>1, <3>1 DEF LoadInv
  <2>3. LoopInv' /\ AnswerMatchesFile'
    BY <1>0, <2>1 DEF LoopInv, AnswerMatchesFile
  <2> QED BY <1>2, <2>1, <2>2, <2>3
<1>4. CASE Lookup
  <2>1. /\ UNCHANGED <<compressed, from, to, hp, run, oldPages, newPages>>
        /\ phase = "load" /\ phase' = "done" /\ answer' = HeapPageStatus(oldPages, options.query)
        /\ oldPages = Infos(input.old) /\ options.query # -1
    BY <1>4 DEF Lookup, Loaded, LoadInv
  <2>2. options.query \in Nat
    BY <2>1, OptionsAssumption DEF LoadInv
  <2>3. input.old \in Seq(RawPages)
    BY InputsAssumption DEF LoadInv
  <2>4. answer' = StatusIn(input.old, options.query)
    BY <2>1, <2>2, <2>3, StatusFound
  <2>5. StatusIn(input.old, options.query)' = StatusIn(input.old, options.query)
    BY <1>0 DEF StatusIn
  <2>6. AnswerMatchesFile'
    BY <2>4, <2>5 DEF AnswerMatchesFile
  <2>7. LoadInv' /\ LoopInv'
    BY <1>0, <1>1, <2>1 DEF LoadInv, LoopInv
  <2> QED BY <1>2, <2>1, <2>6, <2>7
<1>5. CASE StartRange
  <2>1. /\ phase = "load" /\ compressed = <<>> /\ answer = NoAnswer
        /\ UNCHANGED <<compressed, answer, oldPages, newPages>> /\ phase' \in {"scan", "print"}
    BY <1>5 DEF StartRange, Loaded, LoopInv
  <2>2. FilesLoaded
    BY <1>5 DEF StartRange, Loaded, LoadInv, FilesLoaded
  <2>3. FilesLoaded'
    BY <1>0, <1>1, <2>1, <2>2 DEF FilesLoaded
  <2>4. from' \in Nat /\ to' \in Int
    BY <1>5, RangeIsGiven
  <2>5. StatusAt(from') = TrueStatus(from') /\ TrueStatus(from') \in Values
    BY <2>2, <2>4, StatusTrue DEF LoadInv
  <2>6. run' = Run(from', from', TrueStatus(from')) /\ hp' = from' + 1
    BY <1>5, <2>5 DEF StartRange
  <2>7. phase' = "scan" => ~(to' < from')
    BY <1>5 DEF StartRange
  <2>8. LoadInv' /\ LoopInv' /\ AnswerMatchesFile'
    <3>1. LoadInv'
      BY <1>0, <1>1, <2>1, <2>3 DEF LoadInv
    <3>2. ASSUME phase' = "scan" PROVE to' \in Nat /\ hp' \in Nat /\ hp' <= to' + 1
      <4>1. ~(to' < from') /\ hp' = from' + 1
        BY <2>6, <2>7, <3>2
      <4>2. \A a \in Nat, b \in Int : ~(b < a) => b \in Nat /\ a + 1 \in Nat /\ a + 1 <= b + 1
        OBVIOUS
      <4>3. to' \in Nat /\ from' + 1 \in Nat /\ from' + 1 <= to' + 1
        BY <2>4, <4>1, <4>2
      <4> QED BY <4>1, <4>3
    <3>3. run'.start \in Int /\ run'.value \in Values
      BY <2>4, <2>5, <2>6 DEF Run
    <3>4. LoopInv'
      BY <2>1, <3>2, <3>3 DEF LoopInv
    <3> QED BY <2>1, <3>1, <3>4 DEF AnswerMatchesFile
  <2>9. RunsTile'
    <3>1. CASE phase' = "print"
      BY <2>1, <3>1 DEF RunsTile, AllRuns
    <3>2. CASE phase' = "scan"
      <4> DEFINE r == Run(from', from', TrueStatus(from'))
      <4>1. AllRuns' = <<r>>
        BY <2>1, <2>4, <2>6, <3>2 DEF AllRuns, Run
      <4>2. r.start = from' /\ r.end = from' /\ r.value = TrueStatus(from')
        BY DEF Run
      <4>3. \A h \in from'..from' : h = from'
        BY <2>4
      <4> HIDE DEF r
      <4> QED BY <1>1, <2>4, <2>6, <4>1, <4>2, <4>3 DEF RunsTile, Tile
    <3> QED BY <2>1, <3>1, <3>2
  <2> QED BY <2>8, <2>9
<1>6. CASE ScanHeapPage
  <2> DEFINE v == TrueStatus(hp)
             r == Run(run.start, hp - 1, run.value)
  <2>1. /\ phase = "scan" /\ phase' = "scan" /\ hp <= to /\ hp' = hp + 1
        /\ UNCHANGED <<from, to, oldPages, newPages, answer>>
    BY <1>6 DEF ScanHeapPage
  <2>2. /\ hp \in Nat /\ to \in Nat /\ run.start \in Int /\ run.value \in Values /\ FilesLoaded
        /\ compressed \in Seq(Runs)
    BY <2>1 DEF LoopInv, LoadInv
  <2>3. StatusAt(hp) = v /\ v \in Values
    BY <2>2, StatusTrue DEF LoadInv
  <2>4. r \in Runs /\ r.end = hp - 1 /\ r.start = run.start /\ r.value = run.value
    BY <2>2 DEF Runs, Run
  <2>5. AllRuns = Append(compressed, r) /\ AllRuns \in Seq(Runs)
        /\ AllRuns # <<>> /\ AllRuns[Len(AllRuns)] = r
    BY <2>1, <2>2, <2>4 DEF AllRuns
  <2>6. Tile(AllRuns, from, hp - 1)
    BY <2>5 DEF RunsTile
  <2>7. LoadInv' /\ AnswerMatchesFile'
    BY <1>0, <1>1, <2>1, <2>2 DEF LoadInv, FilesLoaded, AnswerMatchesFile, StatusIn
  <2>8. hp - 1 \in Int /\ (hp - 1) + 1 = hp /\ hp' - 1 = hp
    BY <2>1, <2>2
  <2>9. ASSUME Tile(AllRuns', from, hp) PROVE RunsTile'
    BY <1>1, <2>1, <2>8, <2>9 DEF RunsTile, Tile
  <2> HIDE DEF v, r
  <2>10. CASE v = run.value
    <3>1. UNCHANGED <<run, compressed>>
      BY <1>6, <2>3, <2>10 DEF ScanHeapPage
    <3>2. AllRuns' = Append(compressed, Run(r.start, hp, r.value))
      BY <2>1, <2>4, <2>8, <3>1 DEF AllRuns
    <3>3. Tile(Append(compressed, r), from, hp - 1) /\ TrueStatus((hp - 1) + 1) = r.value
      BY <2>4, <2>5, <2>6, <2>8, <2>10 DEF v
    <3>4. Tile(Append(compressed, Run(r.start, (hp - 1) + 1, r.value)), from, (hp - 1) + 1)
      BY <2>2, <2>4, <2>8, <3>3, TileExtended
    <3>5. RunsTile'
      BY <2>8, <2>9, <3>2, <3>4
    <3>6. LoopInv'
      BY <2>1, <2>2, <3>1 DEF LoopInv
    <3> QED BY <2>7, <3>5, <3>6
  <2>11. CASE v # run.value
    <3>1. compressed' = Append(compressed, r) /\ run' = Run(hp, hp, v)
      BY <1>6, <2>3, <2>11 DEF ScanHeapPage, r
    <3>2. compressed' = AllRuns
      BY <2>5, <3>1
    <3>3. AllRuns' = Append(AllRuns, Run(hp, hp, v))
      BY <2>1, <2>8, <3>1, <3>2 DEF AllRuns, Run
    <3>4. TrueStatus((hp - 1) + 1) = v /\ v # AllRuns[Len(AllRuns)].value
      BY <2>4, <2>5, <2>8, <2>11 DEF v
    <3>5. Tile(Append(AllRuns, Run((hp - 1) + 1, (hp - 1) + 1, v)), from, (hp - 1) + 1)
      BY <2>3, <2>5, <2>6, <2>8, <3>4, TileAppended
    <3>6. RunsTile'
      BY <2>8, <2>9, <3>3, <3>5
    <3>7. LoopInv'
      BY <2>1, <2>2, <2>3, <2>5, <3>1, <3>2 DEF LoopInv, Run
    <3> QED BY <2>7, <3>6, <3>7
  <2> QED BY <2>10, <2>11
<1>7. CASE EndScan
  <2>1. /\ phase = "scan" /\ phase' = "print" /\ hp > to
        /\ UNCHANGED <<from, to, hp, run, oldPages, newPages, answer>>
        /\ compressed' = Append(compressed, Run(run.start, to, run.value))
    BY <1>7 DEF EndScan
  <2>2. hp - 1 = to /\ to \in Int /\ run.start \in Int /\ run.value \in Values
    BY <2>1 DEF LoopInv
  <2>3. compressed' = AllRuns /\ AllRuns' = AllRuns
    BY <2>1, <2>2 DEF AllRuns
  <2>4. compressed' \in Seq(Runs)
    BY <2>1, <2>2 DEF LoopInv, Runs, Run
  <2>5. RunsTile'
    BY <1>1, <2>1, <2>3 DEF RunsTile, Tile
  <2>6. LoadInv' /\ LoopInv' /\ AnswerMatchesFile'
    BY <1>0, <1>1, <2>1, <2>4 DEF LoadInv, LoopInv, AnswerMatchesFile, StatusIn
  <2> QED BY <2>5, <2>6
<1>8. CASE PrintExpanded \/ PrintCompressed
  <2>1. /\ phase = "print" /\ phase' = "done"
        /\ UNCHANGED <<from, to, hp, run, compressed, oldPages, newPages, answer>>
    BY <1>8 DEF PrintExpanded, PrintCompressed
  <2>2. LoadInv' /\ LoopInv' /\ AnswerMatchesFile'
    BY <1>0, <1>1, <2>1 DEF LoadInv, LoopInv, AnswerMatchesFile, StatusIn
  <2> QED BY <1>2, <2>1, <2>2
<1>9. CASE UNCHANGED vars
  <2>1. AllRuns' = AllRuns
    BY <1>9 DEF vars, AllRuns
  <2>2. RunsTile'
    BY <1>1, <1>9, <2>1 DEF RunsTile, Tile, vars
  <2>3. LoadInv' /\ LoopInv' /\ AnswerMatchesFile'
    BY <1>0, <1>1, <1>9 DEF LoadInv, LoopInv, AnswerMatchesFile, StatusIn, FilesLoaded, vars
  <2> QED BY <2>2, <2>3
<1> QED BY <1>3, <1>4, <1>5, <1>6, <1>7, <1>8, <1>9 DEF Next, Step, Ended

(* The loop holds its invariant, for every size of a map page, all files   *)
(* and all ranges.                                                         *)
THEOREM InvariantHolds == Spec => []IInv
<1> QED BY Initially, Inductive, PTL DEF Spec

(* The runs of compute_compressed and compute_diff_compressed tile the     *)
(* range, each with the status its heap pages have in the file and another *)
(* than the next run's.                                                    *)
THEOREM RangeIsTiled == Spec => []RunsTile
<1>1. IInv => RunsTile
  BY DEF IInv
<1> QED BY <1>1, InvariantHolds, PTL

(* --heap-page is told what the file holds.                                *)
THEOREM AnswerIsTrue == Spec => []AnswerMatchesFile
<1>1. IInv => AnswerMatchesFile
  BY DEF IInv
<1> QED BY <1>1, InvariantHolds, PTL

-------------------------------------------------------------------------------
(* Runs that tile a range stand for each of its heap pages once, in order. *)
Told == [h \in from..to |-> TrueStatus(h)]
Shown == {h \in from..to : ~Hidden(TrueStatus(h))}

LEMMA TileCovers ==
  ASSUME NEW runs \in Seq(Runs), runs # <<>>, NEW first \in Int, NEW last \in Int,
         Tile(runs, first, last), NEW arr,
         \A h \in first..last : h \in DOMAIN arr /\ arr[h] = TrueStatus(h)
  PROVE  Cover(runs, arr, first..last)
<1> DEFINE n == Len(runs)
           Good(j) == j \in 1..n =>
                     /\ \A i \in 1..j : /\ first <= runs[i].start
                                        /\ i < j => runs[i].end < runs[j].start
                     /\ \A t \in first..runs[j].end :
                          \E i \in 1..j : t \in runs[i].start..runs[i].end
<1>1. /\ n \in Nat /\ n >= 1 /\ DOMAIN runs = 1..n
      /\ \A i \in 1..n : /\ runs[i].start \in Int /\ runs[i].end \in Int
                         /\ runs[i].start <= runs[i].end
                         /\ \A h \in runs[i].start..runs[i].end : runs[i].value = TrueStatus(h)
                         /\ i < n => runs[i + 1].start = runs[i].end + 1
  <2>1. \A r \in Runs : r.start \in Int /\ r.end \in Int
    BY DEF Runs
  <2>2. \A i \in 1..n : runs[i] \in Runs
    OBVIOUS
  <2>3. n \in Nat /\ n >= 1 /\ DOMAIN runs = 1..n
    BY EmptySeq
  <2> QED BY <2>1, <2>2, <2>3 DEF Tile
<1>2. runs[1].start = first /\ runs[n].end = last
  BY DEF Tile
<1> HIDE DEF n
<1>3. Good(0)
  OBVIOUS
<1>4. ASSUME NEW j \in Nat, Good(j) PROVE Good(j + 1)
  <2> SUFFICES ASSUME j + 1 \in 1..n
               PROVE  /\ \A i \in 1..(j + 1) : /\ first <= runs[i].start
                                               /\ i < j + 1 => runs[i].end < runs[j + 1].start
                      /\ \A t \in first..runs[j + 1].end :
                           \E i \in 1..(j + 1) : t \in runs[i].start..runs[i].end
    OBVIOUS
  <2>1. CASE j = 0
    <3>1. j + 1 = 1 /\ 1 \in 1..(j + 1) /\ \A i \in 1..(j + 1) : i = 1
      BY <2>1
    <3>2. runs[1].start \in Int /\ runs[1].end \in Int
      BY <1>1
    <3>3. \A i \in 1..(j + 1) : first <= runs[i].start /\ ~(i < j + 1)
      BY <1>2, <3>1, <3>2
    <3>4. \A t \in first..runs[j + 1].end :
            1 \in 1..(j + 1) /\ t \in runs[1].start..runs[1].end
      BY <1>2, <3>1
    <3> QED BY <3>3, <3>4
  <2>2. CASE j > 0
    <3> DEFINE k == j + 1
               e == runs[j].end
               s == runs[k].start
               f == runs[k].end
    <3>1. j \in 1..n /\ j < n /\ k \in 1..n /\ k \in 1..k /\ j \in 1..j
      BY <1>1, <2>2
    <3>2. e \in Int /\ s \in Int /\ f \in Int /\ s = e + 1 /\ s <= f
      BY <1>1, <3>1
    <3>3. /\ \A i \in 1..j : /\ first <= runs[i].start
                             /\ i < j => runs[i].end < runs[j].start
          /\ \A t \in first..e : \E i \in 1..j : t \in runs[i].start..runs[i].end
      BY <1>4, <3>1
    <3>4. first <= runs[j].start /\ runs[j].start <= e /\ runs[j].start \in Int
      BY <1>1, <3>1, <3>3
    <3>5. \A i \in 1..k : i \in 1..j \/ i = k
      OBVIOUS
    <3>6. \A i \in 1..j : i \in 1..k
      OBVIOUS
    <3> HIDE DEF k, e, s, f
    <3>7. ASSUME NEW i \in 1..j PROVE first <= runs[i].start /\ runs[i].end < s
      <4>1. runs[i].end \in Int /\ first <= runs[i].start
        BY <1>1, <3>1, <3>3
      <4>2. CASE i < j
        BY <3>2, <3>3, <3>4, <4>1, <4>2
      <4>3. CASE i = j
        BY <3>2, <4>1, <4>3 DEF e
      <4> QED BY <4>1, <4>2, <4>3
    <3>8. first <= s
      BY <3>2, <3>4
    <3>9. \A i \in 1..k : first <= runs[i].start /\ (i < k => runs[i].end < s)
      <4>1. \A i \in 1..k : i = k => ~(i < k)
        BY DEF k
      <4> QED BY <3>5, <3>7, <3>8, <4>1 DEF s
    <3>10. ASSUME NEW t \in first..f PROVE \E i \in 1..k : t \in runs[i].start..runs[i].end
      <4>1. CASE t <= e
        <5>1. t \in first..e
          BY <3>2, <4>1
        <5>2. PICK i \in 1..j : t \in runs[i].start..runs[i].end
          BY <3>3, <5>1
        <5> QED BY <3>6, <5>2
      <4>2. CASE ~(t <= e)
        <5>1. t \in s..f
          BY <3>2, <4>2
        <5> QED BY <3>1, <5>1 DEF s, f
      <4> QED BY <4>1, <4>2
    <3> QED BY <3>9, <3>10 DEF k, s, f
  <2> QED BY <2>1, <2>2
<1>5. \A j \in Nat : Good(j)
  <2> DEFINE F == {j \in Nat : Good(j)}
  <2> HIDE DEF Good
  <2>1. 0 \in F /\ \A j \in Nat : j \in F => j + 1 \in F
    BY <1>3, <1>4
  <2> HIDE DEF F
  <2>2. Nat \subseteq F
    BY <2>1, NatInduct
  <2> QED BY <2>2 DEF F
<1>6. ASSUME NEW i \in 1..n, NEW j \in 1..n, i < j PROVE runs[i].end < runs[j].start
  <2> HIDE DEF Good
  <2>0. j \in Nat /\ j \in 1..n /\ i \in 1..j
    BY <1>1, <1>6
  <2>1. Good(j)
    BY <1>5, <2>0
  <2> USE DEF Good
  <2> QED BY <1>6, <2>0, <2>1
<1>7. ASSUME NEW i \in 1..n PROVE first <= runs[i].start /\ runs[i].end <= last
  <2> HIDE DEF Good
  <2>0. i \in Nat /\ i \in 1..i
    BY <1>1
  <2>1. Good(i)
    BY <1>5, <2>0
  <2> USE DEF Good
  <2>2. first <= runs[i].start
    BY <2>0, <2>1
  <2>3. CASE i = n
    BY <1>1, <1>2, <2>2, <2>3
  <2>4. CASE i # n
    <3>1. n \in 1..n /\ i < n
      BY <1>1, <2>4
    <3>2. runs[i].end < runs[n].start /\ runs[n].start <= last
      BY <1>1, <1>2, <1>6, <3>1
    <3>3. runs[i].end \in Int /\ runs[n].start \in Int
      BY <1>1, <3>1
    <3> QED BY <2>2, <3>2, <3>3
  <2> QED BY <2>3, <2>4
<1>8. \A t \in first..last : \E i \in 1..n : t \in runs[i].start..runs[i].end
  <2>1. n \in Nat /\ n \in 1..n /\ Good(n)
    BY <1>1, <1>5
  <2> QED BY <1>2, <2>1
<1> HIDE DEF Good
<1>9. ASSUME NEW i \in 1..n, NEW t \in runs[i].start..runs[i].end
      PROVE  t \in first..last /\ arr[t] = runs[i].value
  <2>1. runs[i].start \in Int /\ runs[i].end \in Int
    BY <1>1
  <2>2. first <= runs[i].start /\ runs[i].end <= last
    BY <1>7
  <2>3. t \in first..last
    BY <2>1, <2>2
  <2>4. runs[i].value = TrueStatus(t)
    BY <1>1
  <2> QED BY <2>3, <2>4
<1>10. runs \in Seq(RunsIn(Range(arr)))
  <2>1. ASSUME NEW i \in 1..n PROVE runs[i] \in RunsIn(Range(arr))
    <3> DEFINE t == runs[i].start
    <3>1. t \in Int /\ runs[i].end \in Int /\ t \in runs[i].start..runs[i].end
      <4>1. runs[i] \in Runs /\ runs[i].start <= runs[i].end
        BY <1>1
      <4>2. runs[i].start \in Int /\ runs[i].end \in Int
        BY <4>1 DEF Runs
      <4> QED BY <4>1, <4>2
    <3>2. t \in DOMAIN arr /\ arr[t] = runs[i].value
      BY <1>9, <3>1
    <3>3. runs[i].value \in Range(arr)
      <4> HIDE DEF t
      <4> QED BY <3>2 DEF Range
    <3>4. runs[i] \in Runs
      BY <1>1
    <3> HIDE DEF t
    <3> QED BY <3>3, <3>4 DEF Runs, RunsIn
  <2>2. runs \in [1..n -> RunsIn(Range(arr))]
    BY <1>1, <2>1
  <2> QED BY <1>1, <2>2
<1>11. first..last \subseteq Int /\ first..last \subseteq DOMAIN arr
  OBVIOUS
<1> QED BY <1>1, <1>6, <1>8, <1>9, <1>10, <1>11 DEF Cover, n

(* Heap page by heap page.                                                 *)
LEMMA SinglesAt ==
  ASSUME NEW first \in Int, NEW last \in Int, NEW arr, first..last \subseteq DOMAIN arr
  PROVE  Cover([i \in 1..(IF last < first THEN 0 ELSE last - first + 1) |->
                  Run(first + i - 1, first + i - 1, arr[first + i - 1])], arr, first..last)
<1> DEFINE n == IF last < first THEN 0 ELSE last - first + 1
           single(i) == Run(first + i - 1, first + i - 1, arr[first + i - 1])
           runs == [i \in 1..n |-> single(i)]
<1>1. n \in Nat /\ \A i \in 1..n : first + i - 1 \in first..last
  OBVIOUS
<1>2. \A t \in first..last : t - first + 1 \in 1..n /\ first + (t - first + 1) - 1 = t
  OBVIOUS
<1> HIDE DEF n
<1>3. ASSUME NEW i \in 1..n
      PROVE  /\ runs[i].start = first + i - 1 /\ runs[i].end = first + i - 1
             /\ runs[i].value = arr[first + i - 1]
  BY DEF Run
<1>4. ASSUME NEW i \in 1..n PROVE single(i) \in RunsIn(Range(arr))
  <2> DEFINE t == first + i - 1
  <2>1. t \in Int /\ t \in DOMAIN arr
    BY <1>1
  <2> HIDE DEF t
  <2>2. arr[t] \in Range(arr)
    BY <2>1 DEF Range
  <2>3. Run(t, t, arr[t]) \in RunsIn(Range(arr))
    BY <2>1, <2>2 DEF Run, RunsIn
  <2> QED BY <2>3 DEF t
<1>5. runs \in Seq(RunsIn(Range(arr))) /\ Len(runs) = n
  <2> HIDE DEF single
  <2>1. runs \in [1..n -> RunsIn(Range(arr))]
    BY <1>4
  <2> HIDE DEF runs
  <2> QED BY <1>1, <2>1
<1> HIDE DEF runs
<1>6. ASSUME NEW i \in 1..n
      PROVE  /\ runs[i].start <= runs[i].end
             /\ \A t \in runs[i].start..runs[i].end : t \in first..last /\ arr[t] = runs[i].value
  <2> DEFINE s == first + i - 1
  <2>1. s \in Int /\ s \in first..last /\ runs[i].start = s /\ runs[i].end = s
        /\ runs[i].value = arr[s]
    BY <1>1, <1>3
  <2> HIDE DEF s
  <2>2. \A t \in s..s : t = s
    BY <2>1
  <2> QED BY <2>1, <2>2
<1>7. \A i, j \in 1..n : i < j => runs[i].end < runs[j].start
  <2> SUFFICES ASSUME NEW i \in 1..n, NEW j \in 1..n, i < j
               PROVE  runs[i].end < runs[j].start
    OBVIOUS
  <2>1. runs[i].end = first + i - 1 /\ runs[j].start = first + j - 1
    BY <1>3
  <2>2. first + i - 1 < first + j - 1
    BY <1>1
  <2> QED BY <2>1, <2>2
<1>8. ASSUME NEW t \in first..last PROVE \E i \in 1..n : t \in runs[i].start..runs[i].end
  <2> DEFINE i == t - first + 1
  <2>1. i \in 1..n /\ first + i - 1 = t
    BY <1>2
  <2>2. runs[i].start = t /\ runs[i].end = t
    BY <1>3, <2>1
  <2>3. t \in t..t
    OBVIOUS
  <2> HIDE DEF i
  <2> QED BY <2>1, <2>2, <2>3
<1>9. first..last \subseteq Int
  OBVIOUS
<1> QED BY <1>5, <1>6, <1>7, <1>8, <1>9 DEF Cover, runs, single, n

-------------------------------------------------------------------------------
(* What is listed and totalled: the runs closed, or the heap pages one by  *)
(* one, are those of the range.                                            *)
Whole == IF options.expand THEN compressed = <<>> ELSE Cover(compressed, Told, from..to)

Totals == IF input.mode = "dump" THEN DumpSummary ELSE DiffSummary

ListInv ==
  /\ phase \in {"load", "scan", "print", "done", "failed"}
  /\ from \in Nat /\ to \in Int /\ hp \in Int
  /\ answer \in Statuses \cup {NoAnswer}
  /\ phase # "done" => printed = <<>> /\ summary = NoSummary /\ answer = NoAnswer
  /\ phase \in {"load", "failed"} => compressed = <<>>
  /\ phase = "scan" => ~options.expand
  /\ phase = "print" => FilesLoaded /\ Whole
  /\ phase = "done" /\ answer # NoAnswer =>
       printed = <<>> /\ summary = NoSummary /\ compressed = <<>>
  /\ phase = "done" /\ answer = NoAnswer => Whole /\ Cover(printed, Told, Shown)
  /\ summary # NoSummary => ~options.expand /\ summary = Totals

LEMMA TrueStatusIs ==
  ASSUME input \in Inputs, NEW h \in Nat
  PROVE  /\ input.mode = "dump" => TrueStatus(h) \in Statuses
         /\ input.mode # "dump" => TrueStatus(h) \in Statuses \X Statuses
         /\ StatusIn(input.old, h) \in Statuses /\ StatusIn(input.new, h) \in Statuses
<1>1. /\ input.old \in Seq(RawPages) /\ input.new \in Seq(RawPages)
  BY InputsAssumption
<1>2. StatusIn(input.old, h) \in Statuses /\ StatusIn(input.new, h) \in Statuses
  BY <1>1, StatusFound
<1> QED BY <1>2 DEF TrueStatus

(* The listings leave out what the filters hide, and no more.              *)
LEMMA KeptIsShown ==
  ASSUME input \in Inputs, from \in Nat, to \in Int,
         NEW runs, Cover(runs, Told, from..to)
  PROVE  Cover(Kept(runs, Listed), Told, Shown)
<1>1. ASSUME NEW h \in from..to PROVE Told[h] \in Listed <=> ~Hidden(TrueStatus(h))
  <2>1. h \in Nat
    OBVIOUS
  <2>2. IF input.mode = "dump" THEN TrueStatus(h) \in Statuses
        ELSE TrueStatus(h) \in Statuses \X Statuses
    BY <2>1, TrueStatusIs
  <2>3. Told[h] = TrueStatus(h)
    BY DEF Told
  <2> QED BY <2>2, <2>3 DEF Listed
<1>2. {h \in from..to : Told[h] \in Listed} = Shown
  BY <1>1 DEF Shown
<1>3. Cover(Kept(runs, Listed), Told, {h \in from..to : Told[h] \in Listed})
  BY KeptCovers
<1> QED BY <1>2, <1>3

LEMMA ListBegins == Init => ListInv
<1> SUFFICES ASSUME Init PROVE ListInv
  OBVIOUS
<1> QED BY DEF Init, ListInv, NoSummary, NoAnswer, Statuses

LEMMA ListStays == IInv /\ ListInv /\ [Next]_vars => ListInv'
<1> SUFFICES ASSUME IInv, ListInv, [Next]_vars PROVE ListInv'
  OBVIOUS
<1>0. input' = input /\ options' = options
  BY DEF Next, Step, LoadFails, LoadOld, LoadNew, OutFails, Lookup, StartRange, ScanHeapPage,
         EndScan, PrintExpanded, PrintCompressed, Ended, vars
<1>1. \A h : TrueStatus(h)' = TrueStatus(h) /\ Hidden(h)' = Hidden(h)
  BY <1>0 DEF TrueStatus, Hidden
<1>2. input \in Inputs /\ options \in OptionSets /\ LoadInv /\ LoopInv
  BY DEF IInv, LoadInv
<1>3. ASSUME from' = from, to' = to PROVE Told' = Told /\ Shown' = Shown
  BY <1>1, <1>3 DEF Told, Shown
<1>4. CASE LoadFails \/ OutFails \/ LoadOld \/ LoadNew
  <2>1. /\ UNCHANGED <<compressed, from, to, hp, answer, printed, summary>>
        /\ phase = "load" /\ phase' \in {"load", "failed"}
    BY <1>4 DEF LoadFails, OutFails, LoadOld, LoadNew, Loaded
  <2> QED BY <2>1 DEF ListInv
<1>5. CASE Lookup
  <2>1. /\ UNCHANGED <<compressed, from, to, hp, oldPages, newPages, printed, summary>>
        /\ phase = "load" /\ phase' = "done" /\ answer' = HeapPageStatus(oldPages, options.query)
        /\ oldPages = Infos(input.old) /\ options.query # -1
    BY <1>2, <1>5 DEF Lookup, Loaded, LoadInv
  <2>2. options.query \in Nat
    BY <1>2, <2>1, OptionsAssumption
  <2>3. input.old \in Seq(RawPages)
    BY <1>2, InputsAssumption
  <2>4. answer' \in Statuses
    BY <2>1, <2>2, <2>3, StatusFound
  <2>5. NoAnswer \notin Statuses
    BY DEF NoAnswer, Statuses, OutOfFile, Corrupt
  <2>6. printed = <<>> /\ summary = NoSummary /\ compressed = <<>>
    BY <2>1 DEF ListInv
  <2> QED BY <2>1, <2>4, <2>5, <2>6 DEF ListInv
<1>6. CASE StartRange
  <2>1. /\ phase = "load" /\ compressed = <<>> /\ answer = NoAnswer
        /\ UNCHANGED <<compressed, answer, oldPages, newPages, printed, summary>>
        /\ phase' = (IF options.expand \/ to' < from' THEN "print" ELSE "scan")
        /\ hp' = from' + 1
    BY <1>2, <1>6 DEF StartRange, Loaded, LoopInv
  <2>2. FilesLoaded
    BY <1>2, <1>6 DEF StartRange, Loaded, LoadInv, FilesLoaded
  <2>3. FilesLoaded'
    BY <1>0, <2>1, <2>2 DEF FilesLoaded, Infos
  <2>4. from' \in Nat /\ to' \in Int
    BY <1>2, <1>6, RangeIsGiven
  <2>5. ASSUME phase' = "print" PROVE Whole'
    <3>1. CASE options.expand
      BY <1>0, <2>1, <3>1 DEF Whole
    <3>2. CASE ~options.expand /\ to' < from'
      <4>1. from'..to' = {}
        BY <2>4, <3>2
      <4>2. Cover(<<>>, Told', {})
        BY CoverNone
      <4>3. Cover(compressed, Told, from..to)'
        BY <2>1, <4>1, <4>2
      <4> QED BY <1>0, <3>2, <4>3 DEF Whole
    <3> QED BY <2>1, <2>5, <3>1, <3>2
  <2>6. printed = <<>> /\ summary = NoSummary
    BY <2>1 DEF ListInv
  <2>7. phase' \in {"scan", "print"} /\ (phase' = "scan" => ~options.expand)
    BY <2>1
  <2>8. hp' \in Int /\ answer' \in {NoAnswer}
    BY <2>1, <2>4
  <2> QED BY <1>0, <2>1, <2>3, <2>4, <2>5, <2>6, <2>7, <2>8 DEF ListInv
<1>7. CASE ScanHeapPage
  <2>1. /\ phase = "scan" /\ phase' = "scan" /\ hp' = hp + 1
        /\ UNCHANGED <<from, to, answer, printed, summary>>
    BY <1>7 DEF ScanHeapPage
  <2> QED BY <1>0, <2>1 DEF ListInv
<1>8. CASE EndScan
  <2>1. /\ phase = "scan" /\ phase' = "print" /\ hp > to
        /\ UNCHANGED <<from, to, hp, oldPages, newPages, answer, printed, summary>>
        /\ compressed' = Append(compressed, Run(run.start, to, run.value))
    BY <1>8 DEF EndScan
  <2>2. /\ hp - 1 = to /\ hp \in Nat /\ to \in Int /\ from \in Nat
        /\ run.start \in Int /\ run.value \in Values
        /\ FilesLoaded /\ compressed \in Seq(Runs) /\ ~options.expand
    BY <1>2, <2>1 DEF LoopInv, LoadInv, ListInv
  <2>3. compressed' = AllRuns
    BY <2>1, <2>2 DEF AllRuns
  <2>4. compressed' \in Seq(Runs) /\ compressed' # <<>>
    <3>1. Run(run.start, to, run.value) \in Runs
      BY <2>2 DEF Runs, Run
    <3> QED BY <2>1, <2>2, <3>1
  <2>5. Tile(compressed', from, to)
    BY <2>2, <2>3, <2>4 DEF IInv, RunsTile
  <2>6. \A h \in from..to : h \in DOMAIN Told /\ Told[h] = TrueStatus(h)
    BY DEF Told
  <2>7. Cover(compressed', Told, from..to)
    <3> DEFINE runs == compressed'
    <3> HIDE DEF runs
    <3>1. runs \in Seq(Runs) /\ runs # <<>> /\ Tile(runs, from, to)
      BY <2>4, <2>5 DEF runs
    <3>2. Cover(runs, Told, from..to)
      BY <2>2, <2>6, <3>1, TileCovers
    <3> QED BY <3>2 DEF runs
  <2>8. Cover(compressed, Told, from..to)'
    BY <1>3, <2>1, <2>7
  <2>9. Whole' /\ FilesLoaded'
    BY <1>0, <2>1, <2>2, <2>8 DEF Whole, FilesLoaded, Infos
  <2> QED BY <1>0, <2>1, <2>9 DEF ListInv
<1>9. CASE PrintExpanded
  <2> DEFINE n == IF to < from THEN 0 ELSE to - from + 1
             runs == [i \in 1..n |-> LET h == from + i - 1 IN Run(h, h, StatusAt(h))]
             singles == [i \in 1..n |-> Run(from + i - 1, from + i - 1, Told[from + i - 1])]
  <2>1. /\ phase = "print" /\ phase' = "done" /\ options.expand /\ printed' = Kept(runs, Listed)
        /\ UNCHANGED <<from, to, hp, compressed, oldPages, newPages, answer, summary>>
    BY <1>9 DEF PrintExpanded
  <2>2. FilesLoaded /\ Whole /\ from \in Nat /\ to \in Int /\ summary = NoSummary
    BY <2>1 DEF ListInv
  <2>3. runs = singles
    <3>1. ASSUME NEW i \in 1..n PROVE StatusAt(from + i - 1) = Told[from + i - 1]
      <4>1. from + i - 1 \in Nat /\ from + i - 1 \in from..to
        BY <2>2
      <4>2. StatusAt(from + i - 1) = TrueStatus(from + i - 1)
        BY <1>2, <2>2, <4>1, StatusTrue
      <4> QED BY <4>1, <4>2 DEF Told
    <3> HIDE DEF n
    <3> QED BY <3>1
  <2>4. Cover(singles, Told, from..to)
    <3>1. from..to \subseteq DOMAIN Told /\ from \in Int
      BY <2>2 DEF Told
    <3> QED BY <2>2, <3>1, SinglesAt
  <2> HIDE DEF runs, singles
  <2>5. Cover(printed', Told, Shown)
    BY <1>2, <2>1, <2>2, <2>3, <2>4, KeptIsShown
  <2>6. Cover(printed, Told, Shown)'
    BY <1>3, <2>1, <2>5
  <2>7. Whole'
    BY <1>0, <2>1, <2>2 DEF Whole
  <2> QED BY <1>0, <2>1, <2>2, <2>6, <2>7 DEF ListInv
<1>10. CASE PrintCompressed
  <2>1. /\ phase = "print" /\ phase' = "done" /\ ~options.expand
        /\ printed' = Kept(compressed, Listed)
        /\ summary' = (IF ~options.stats THEN summary ELSE Totals)
        /\ UNCHANGED <<from, to, hp, compressed, oldPages, newPages, answer>>
    BY <1>10 DEF PrintCompressed, Totals
  <2>2. FilesLoaded /\ Whole /\ from \in Nat /\ to \in Int /\ summary = NoSummary
    BY <2>1 DEF ListInv
  <2>3. Cover(compressed, Told, from..to)
    BY <2>1, <2>2 DEF Whole
  <2>4. Cover(printed', Told, Shown)
    BY <1>2, <2>1, <2>2, <2>3, KeptIsShown
  <2>5. Cover(printed, Told, Shown)'
    BY <1>3, <2>1, <2>4
  <2>6. Whole'
    BY <1>0, <1>3, <2>1, <2>3 DEF Whole
  <2>7. Totals' = Totals
    BY <1>0, <2>1 DEF Totals, DumpSummary, DiffSummary
  <2>8. answer = NoAnswer
    BY <2>1 DEF ListInv
  <2> QED BY <1>0, <2>1, <2>2, <2>5, <2>6, <2>7, <2>8 DEF ListInv
<1>11. CASE UNCHANGED vars
  <2>1. Totals' = Totals
    BY <1>0, <1>11 DEF vars, Totals, DumpSummary, DiffSummary
  <2>2. Whole' = Whole
    BY <1>0, <1>3, <1>11 DEF vars, Whole
  <2> QED BY <1>0, <1>3, <1>11, <2>1, <2>2 DEF ListInv, vars, FilesLoaded, Infos
<1> QED BY <1>4, <1>5, <1>6, <1>7, <1>8, <1>9, <1>10, <1>11 DEF Next, Step, Ended

(* Compressed or expanded, the listing names the heap pages of the range   *)
(* that no filter hides, in order, each with its status in the file.       *)
THEOREM ListingIsFile == Spec => []ListingMatchesFile
<1>1. Init => IInv /\ ListInv
  BY Initially, ListBegins
<1>2. IInv /\ ListInv /\ [Next]_vars => (IInv /\ ListInv)'
  BY Inductive, ListStays
<1>3. IInv /\ ListInv => ListingMatchesFile
  <2> SUFFICES ASSUME IInv, ListInv PROVE ListingMatchesFile
    OBVIOUS
  <2>1. AnswerMatchesFile
    BY DEF IInv
  <2>2. ASSUME phase = "done", answer = NoAnswer
        PROVE  /\ \A i, j \in 1..Len(printed) : i < j => printed[i].end < printed[j].start
               /\ UNION {r.start..r.end : r \in Range(printed)}
                    = {h \in from..to : ~Hidden(TrueStatus(h))}
               /\ \A r \in Range(printed) : \A h \in r.start..r.end : r.value = TrueStatus(h)
    <3>1. Cover(printed, Told, Shown)
      BY <2>2 DEF ListInv
    <3>2. \A i, j \in 1..Len(printed) : i < j => printed[i].end < printed[j].start
      BY <3>1 DEF Cover
    <3>3. \A r : r \in Range(printed) <=> \E i \in 1..Len(printed) : r = printed[i]
      <4>1. DOMAIN printed = 1..Len(printed)
        BY <3>1 DEF Cover
      <4> QED BY <4>1 DEF Range
    <3>4. ASSUME NEW r \in Range(printed), NEW h \in r.start..r.end
          PROVE  h \in Shown /\ r.value = TrueStatus(h)
      <4>1. PICK i \in 1..Len(printed) : r = printed[i]
        BY <3>3
      <4>2. h \in Shown /\ Told[h] = r.value
        BY <3>1, <4>1 DEF Cover
      <4> QED BY <4>2 DEF Shown, Told
    <3>5. ASSUME NEW h \in Shown PROVE \E r \in Range(printed) : h \in r.start..r.end
      <4>1. PICK i \in 1..Len(printed) : h \in printed[i].start..printed[i].end
        BY <3>1 DEF Cover
      <4> QED BY <3>3, <4>1
    <3>6. UNION {r.start..r.end : r \in Range(printed)} = Shown
      BY <3>4, <3>5
    <3> QED BY <3>2, <3>4, <3>6 DEF Shown
  <2> QED BY <2>1, <2>2 DEF ListingMatchesFile
<1> QED BY <1>1, <1>2, <1>3, PTL DEF Spec

(* Runs and messages stay within the range.                                *)
LEMMA MapIsTyped == IInv /\ ListInv => TypeOK
<1> SUFFICES ASSUME IInv, ListInv PROVE TypeOK
  OBVIOUS
<1>1. input \in Inputs /\ options \in OptionSets /\ LoopInv
  BY DEF IInv, LoadInv
<1>2. \A runs, P : Cover(runs, Told, P) /\ P \subseteq from..to =>
        \A r \in Range(runs) : {r.start, r.end} \subseteq from..to
  <2> SUFFICES ASSUME NEW runs, NEW P, Cover(runs, Told, P), P \subseteq from..to,
                      NEW r \in Range(runs)
               PROVE  {r.start, r.end} \subseteq from..to
    OBVIOUS
  <2>1. runs \in Seq(RunsIn(Range(Told)))
    BY DEF Cover
  <2>2. PICK i \in 1..Len(runs) : r = runs[i]
    BY <2>1 DEF Range
  <2>3. r.start \in Int /\ r.end \in Int /\ r.start <= r.end
    <3>1. r \in RunsIn(Range(Told))
      BY <2>1, <2>2
    <3>2. r.start <= r.end
      BY <2>2 DEF Cover
    <3> QED BY <3>1, <3>2 DEF RunsIn
  <2>4. r.start \in r.start..r.end /\ r.end \in r.start..r.end
    BY <2>3
  <2>5. \A t \in r.start..r.end : t \in P
    BY <2>2 DEF Cover
  <2> QED BY <2>4, <2>5
<1>3. \A r \in Range(<<>>) : FALSE
  BY DEF Range
<1>4. \A r \in Range(printed) : {r.start, r.end} \subseteq from..to
  <2>1. CASE phase = "done" /\ answer = NoAnswer
    <3>1. Cover(printed, Told, Shown) /\ Shown \subseteq from..to
      BY <2>1 DEF ListInv, Shown
    <3> QED BY <1>2, <3>1
  <2>2. CASE ~(phase = "done" /\ answer = NoAnswer)
    <3>1. printed = <<>>
      BY <2>2 DEF ListInv
    <3> QED BY <1>3, <3>1
  <2> QED BY <2>1, <2>2
<1>5. \A r \in Range(compressed) : {r.start, r.end} \subseteq from..to
  <2>1. CASE compressed = <<>>
    BY <1>3, <2>1
  <2>2. CASE compressed # <<>> /\ phase # "scan"
    <3>1. Cover(compressed, Told, from..to)
      BY <2>2 DEF ListInv, Whole
    <3> QED BY <1>2, <3>1
  <2>3. CASE phase = "scan"
    <3> DEFINE last == Run(run.start, hp - 1, run.value)
    <3>1. /\ hp \in Nat /\ to \in Nat /\ hp <= to + 1 /\ run.start \in Int /\ run.value \in Values
          /\ compressed \in Seq(Runs) /\ from \in Nat
      BY <1>1, <2>3 DEF LoopInv, ListInv
    <3>2. last \in Runs
      BY <3>1 DEF Runs, Run
    <3>3. AllRuns = Append(compressed, last)
      BY <2>3 DEF AllRuns
    <3> HIDE DEF last
    <3>4. AllRuns \in Seq(Runs) /\ AllRuns # <<>>
      BY <3>1, <3>2, <3>3
    <3>5. Tile(AllRuns, from, hp - 1) /\ hp - 1 \in Int
      BY <3>1, <3>4 DEF IInv, RunsTile
    <3>6. \A h \in from..(hp - 1) : h \in from..to
      BY <3>1
    <3>7. \A h \in from..(hp - 1) : h \in DOMAIN Told /\ Told[h] = TrueStatus(h)
      BY <3>6 DEF Told
    <3>8. Cover(AllRuns, Told, from..(hp - 1))
      BY <3>1, <3>4, <3>5, <3>7, TileCovers
    <3>9. \A r \in Range(AllRuns) : {r.start, r.end} \subseteq from..to
      BY <1>2, <3>6, <3>8
    <3>10. Range(compressed) \subseteq Range(AllRuns)
      <4> DEFINE n == Len(compressed)
      <4>1. n \in Nat /\ DOMAIN compressed = 1..n /\ DOMAIN AllRuns = 1..(n + 1)
            /\ \A i \in 1..n : AllRuns[i] = compressed[i]
        BY <3>1, <3>2, <3>3
      <4> HIDE DEF n
      <4>2. \A i \in 1..n : i \in 1..(n + 1)
        BY <4>1
      <4> QED BY <4>1, <4>2 DEF Range
    <3> QED BY <3>9, <3>10
  <2> QED BY <2>1, <2>2, <2>3
<1>6. summary.given \in BOOLEAN
  <2>1. NoSummary.given = FALSE /\ DumpSummary.given = TRUE
    BY DEF NoSummary, DumpSummary
  <2>2. DiffSummary.given = TRUE
    BY DEF DiffSummary
  <2> QED BY <2>1, <2>2 DEF ListInv, Totals
<1> QED BY <1>1, <1>4, <1>5, <1>6 DEF TypeOK, ListInv

(* The sums over the runs are counts of heap pages.                        *)
LEMMA RunsCounted ==
  ASSUME from \in Nat, to \in Int, Cover(compressed, Told, from..to), NEW T
  PROVE  TotalLength(compressed, T) = Cardinality({h \in from..to : TrueStatus(h) \in T})
<1>1. IsFiniteSet(from..to)
  BY FS_Interval
<1>2. TotalLength(compressed, T) = Cardinality({h \in from..to : Told[h] \in T})
  BY <1>1, LengthCounts
<1>3. {h \in from..to : Told[h] \in T} = {h \in from..to : TrueStatus(h) \in T}
  BY DEF Told
<1> QED BY <1>2, <1>3

LEMMA GainsLessLosses ==
  ASSUME NEW N, IsFiniteSet(N), NEW O, IsFiniteSet(O)
  PROVE  Cardinality(N \ O) - Cardinality(O \ N) = Cardinality(N) - Cardinality(O)
<1>1. /\ Cardinality(N) = Cardinality(N \cap O) + Cardinality(N \ O)
      /\ Cardinality(N \cap O) \in Nat /\ Cardinality(N \ O) \in Nat
  BY CountSplit
<1>2. /\ Cardinality(O) = Cardinality(O \cap N) + Cardinality(O \ N)
      /\ Cardinality(O \cap N) \in Nat /\ Cardinality(O \ N) \in Nat
  BY CountSplit
<1>3. N \cap O = O \cap N
  OBVIOUS
<1>4. Cardinality(N \cap O) = Cardinality(O \cap N)
  BY <1>3
<1> QED BY <1>1, <1>2, <1>4

LEMMA DumpTotals ==
  ASSUME input \in Inputs, input.mode = "dump", from \in Nat, to \in Int,
         Cover(compressed, Told, from..to)
  PROVE  /\ DumpSummary.visible = PagesWith(HasVisible, input.old)
         /\ DumpSummary.frozen = PagesWith(HasFrozen, input.old)
<1> DEFINE V == {s \in Statuses : HasVisible(s)}
           F == {s \in Statuses : HasFrozen(s)}
<1>1. DumpSummary.visible = TotalLength(compressed, V)
      /\ DumpSummary.frozen = TotalLength(compressed, F)
  BY DEF DumpSummary
<1>2. \A h \in from..to : TrueStatus(h) = StatusIn(input.old, h) /\ TrueStatus(h) \in Statuses
  <2>1. \A h \in from..to : h \in Nat
    OBVIOUS
  <2> QED BY <2>1, TrueStatusIs DEF TrueStatus
<1>3. {h \in from..to : TrueStatus(h) \in V}
        = {h \in from..to : HasVisible(StatusIn(input.old, h))}
  BY <1>2
<1>4. {h \in from..to : TrueStatus(h) \in F}
        = {h \in from..to : HasFrozen(StatusIn(input.old, h))}
  BY <1>2
<1> HIDE DEF V, F
<1>5. TotalLength(compressed, V) = Cardinality({h \in from..to : TrueStatus(h) \in V})
  BY RunsCounted
<1>6. TotalLength(compressed, F) = Cardinality({h \in from..to : TrueStatus(h) \in F})
  BY RunsCounted
<1> QED BY <1>1, <1>3, <1>4, <1>5, <1>6 DEF PagesWith

LEMMA DiffTotals ==
  ASSUME input \in Inputs, input.mode # "dump", from \in Nat, to \in Int,
         Cover(compressed, Told, from..to)
  PROVE  /\ DiffSummary.changed
              = Cardinality({h \in from..to : StatusIn(input.old, h) # StatusIn(input.new, h)})
         /\ DiffSummary.gainedVisible - DiffSummary.lostVisible
              = PagesWith(HasVisible, input.new) - PagesWith(HasVisible, input.old)
         /\ DiffSummary.gainedFrozen - DiffSummary.lostFrozen
              = PagesWith(HasFrozen, input.new) - PagesWith(HasFrozen, input.old)
<1> DEFINE Both == Statuses \X Statuses
           C == {v \in Both : v[1] # v[2]}
           GV == {v \in Both : ~HasVisible(v[1]) /\ HasVisible(v[2])}
           LV == {v \in Both : HasVisible(v[1]) /\ ~HasVisible(v[2])}
           GF == {v \in Both : ~HasFrozen(v[1]) /\ HasFrozen(v[2])}
           LF == {v \in Both : HasFrozen(v[1]) /\ ~HasFrozen(v[2])}
           o == [h \in from..to |-> StatusIn(input.old, h)]
           n == [h \in from..to |-> StatusIn(input.new, h)]
           OV == {h \in from..to : HasVisible(StatusIn(input.old, h))}
           NV == {h \in from..to : HasVisible(StatusIn(input.new, h))}
           OF == {h \in from..to : HasFrozen(StatusIn(input.old, h))}
           NF == {h \in from..to : HasFrozen(StatusIn(input.new, h))}
           In(T) == {h \in from..to : TrueStatus(h) \in T}
<1>1. /\ DiffSummary.changed = TotalLength(compressed, C)
      /\ DiffSummary.gainedVisible = TotalLength(compressed, GV)
      /\ DiffSummary.lostVisible = TotalLength(compressed, LV)
      /\ DiffSummary.gainedFrozen = TotalLength(compressed, GF)
      /\ DiffSummary.lostFrozen = TotalLength(compressed, LF)
  BY DEF DiffSummary
<1>2. \A h \in from..to : /\ TrueStatus(h) = <<StatusIn(input.old, h), StatusIn(input.new, h)>>
                          /\ TrueStatus(h) \in Both
  <2>1. \A h \in from..to : h \in Nat
    OBVIOUS
  <2> QED BY <2>1, TrueStatusIs DEF TrueStatus
<1>3. \A h \in from..to : /\ TrueStatus(h) \in Both
                          /\ TrueStatus(h)[1] = StatusIn(input.old, h)
                          /\ TrueStatus(h)[2] = StatusIn(input.new, h)
  BY <1>2
<1>4. In(C) = {h \in from..to : StatusIn(input.old, h) # StatusIn(input.new, h)}
  BY <1>3
<1>5. In(GV) = NV \ OV
  BY <1>3
<1>6. In(LV) = OV \ NV
  BY <1>3
<1>7. In(GF) = NF \ OF
  BY <1>3
<1>8. In(LF) = OF \ NF
  BY <1>3
<1>9. IsFiniteSet(OV) /\ IsFiniteSet(NV) /\ IsFiniteSet(OF) /\ IsFiniteSet(NF)
  <2>1. IsFiniteSet(from..to)
    BY FS_Interval
  <2>2. /\ OV \subseteq from..to /\ NV \subseteq from..to
        /\ OF \subseteq from..to /\ NF \subseteq from..to
    OBVIOUS
  <2> HIDE DEF OV, NV, OF, NF
  <2> QED BY <2>1, <2>2, FS_Subset
<1>10. /\ PagesWith(HasVisible, input.old) = Cardinality(OV)
       /\ PagesWith(HasVisible, input.new) = Cardinality(NV)
       /\ PagesWith(HasFrozen, input.old) = Cardinality(OF)
       /\ PagesWith(HasFrozen, input.new) = Cardinality(NF)
  BY DEF PagesWith
<1>11. \A T : TotalLength(compressed, T) = Cardinality(In(T))
  BY RunsCounted
<1> HIDE DEF C, GV, LV, GF, LF, OV, NV, OF, NF, In
<1>12. /\ Cardinality(NV \ OV) - Cardinality(OV \ NV) = Cardinality(NV) - Cardinality(OV)
       /\ Cardinality(NF \ OF) - Cardinality(OF \ NF) = Cardinality(NF) - Cardinality(OF)
  BY <1>9, GainsLessLosses
<1>13. DiffSummary.changed
         = Cardinality({h \in from..to : StatusIn(input.old, h) # StatusIn(input.new, h)})
  BY <1>1, <1>4, <1>11
<1>14. /\ DiffSummary.gainedVisible = Cardinality(NV \ OV)
       /\ DiffSummary.lostVisible = Cardinality(OV \ NV)
       /\ DiffSummary.gainedFrozen = Cardinality(NF \ OF)
       /\ DiffSummary.lostFrozen = Cardinality(OF \ NF)
  BY <1>1, <1>5, <1>6, <1>7, <1>8, <1>11
<1> QED BY <1>10, <1>12, <1>13, <1>14

(* The summary adds up runs, and counts heap pages: whatever the filters   *)
(* hide, its totals are those of the range in the files, and a diff's      *)
(* gains less its losses are the difference between the two.               *)
THEOREM SummaryIsFile == Spec => []SummaryMatchesFile
<1>1. Init => IInv /\ ListInv
  BY Initially, ListBegins
<1>2. IInv /\ ListInv /\ [Next]_vars => (IInv /\ ListInv)'
  BY Inductive, ListStays
<1>3. IInv /\ ListInv => SummaryMatchesFile
  <2> SUFFICES ASSUME IInv, ListInv PROVE SummaryMatchesFile
    OBVIOUS
  <2>1. TypeOK
    BY MapIsTyped
  <2>2. ASSUME summary.given
        PROVE  /\ input \in Inputs /\ from \in Nat /\ to \in Int /\ summary = Totals
               /\ Cover(compressed, Told, from..to)
    <3>1. summary # NoSummary
      BY <2>2 DEF NoSummary
    <3>2. phase = "done" /\ answer = NoAnswer /\ ~options.expand /\ summary = Totals
      BY <3>1 DEF ListInv
    <3> QED BY <3>2 DEF ListInv, Whole, IInv, LoadInv
  <2>3. CASE summary.given /\ input.mode = "dump"
    <3>1. summary = DumpSummary
      BY <2>2, <2>3 DEF Totals
    <3>2. /\ DumpSummary.visible = PagesWith(HasVisible, input.old)
          /\ DumpSummary.frozen = PagesWith(HasFrozen, input.old)
      BY <2>2, <2>3, DumpTotals
    <3> QED BY <2>1, <2>3, <3>1, <3>2 DEF SummaryMatchesFile
  <2>4. CASE summary.given /\ input.mode # "dump"
    <3>1. summary = DiffSummary
      BY <2>2, <2>4 DEF Totals
    <3>2. /\ DiffSummary.changed
               = Cardinality({h \in from..to : StatusIn(input.old, h) # StatusIn(input.new, h)})
          /\ DiffSummary.gainedVisible - DiffSummary.lostVisible
               = PagesWith(HasVisible, input.new) - PagesWith(HasVisible, input.old)
          /\ DiffSummary.gainedFrozen - DiffSummary.lostFrozen
               = PagesWith(HasFrozen, input.new) - PagesWith(HasFrozen, input.old)
      BY <2>2, <2>4, DiffTotals
    <3> QED BY <2>1, <2>4, <3>1, <3>2 DEF SummaryMatchesFile
  <2>5. CASE ~summary.given
    BY <2>1, <2>5 DEF SummaryMatchesFile
  <2> QED BY <2>3, <2>4, <2>5
<1> QED BY <1>1, <1>2, <1>3, PTL DEF Spec

-------------------------------------------------------------------------------
(* An argument that stands for a value is no switch, and a switch that     *)
(* wants one stands alone.                                                 *)
Kinds == {"switches", "long", "number", "range", "word"}
Chars == STRING \cup {"-"}
Known == LetterSwitches \cup ValueSwitches

LEMMA ArgumentKinds ==
  ASSUME NEW arg \in Arguments
  PROVE  /\ arg.kind \in Kinds
         /\ arg.kind = "switches" => arg.letters \in Seq(STRING)
         /\ arg.kind = "long" => arg.name \in STRING
         /\ arg.kind = "number" => arg.value \in Nat
         /\ arg.kind = "word" => arg.text \in Seq(STRING)
         /\ Dashed(arg) => Letters(arg) \in Seq(Chars)
<1>1. CASE arg \in [kind : {"switches"}, letters : Seq(STRING)]
  <2>1. arg.kind = "switches" /\ arg.letters \in Seq(STRING)
    BY <1>1
  <2>2. arg.letters \in Seq(Chars)
    BY <2>1 DEF Chars
  <2> QED BY <2>1, <2>2 DEF Kinds, Letters
<1>2. CASE arg \in [kind : {"long"}, name : STRING]
  <2>1. arg.kind = "long" /\ arg.name \in STRING
    BY <1>2
  <2>2. Letters(arg) = <<"-">> 
    BY <2>1 DEF Letters
  <2>3. <<"-">> \in Seq(Chars)
    <3>1. "-" \in Chars
      BY DEF Chars
    <3> QED BY <3>1
  <2> QED BY <2>1, <2>2, <2>3 DEF Kinds
<1>3. CASE arg \in [kind : {"number"}, value : Nat]
  BY <1>3 DEF Kinds, Dashed
<1>4. CASE arg \in [kind : {"range"}, lo : Nat, hi : Nat]
  BY <1>4 DEF Kinds, Dashed
<1>5. CASE arg \in [kind : {"word"}, text : Seq(STRING)]
  BY <1>5 DEF Kinds, Dashed
<1> QED BY <1>1, <1>2, <1>3, <1>4, <1>5 DEF Arguments

LEMMA ValuedAlone ==
  ASSUME NEW arg \in Arguments
  PROVE  /\ \A l \in ValueSwitches : Alone(arg, l) <=> Valued(arg) /\ Letters(arg)[1] = l
         /\ Valued(arg) => /\ Dashed(arg) /\ Letters(arg)[1] \in ValueSwitches
                           /\ Len(Letters(arg)) = 1 /\ DOMAIN Letters(arg) = {1}
<1>1. /\ arg.kind = "switches" => arg.letters \in Seq(STRING)
      /\ Dashed(arg) => Letters(arg) \in Seq(Chars)
  BY ArgumentKinds
<1>2. "-" \notin ValueSwitches
  BY DEF ValueSwitches
<1>3. ASSUME NEW l \in ValueSwitches, Alone(arg, l) PROVE Valued(arg) /\ Letters(arg)[1] = l
  BY <1>1, <1>3 DEF Alone, Valued, Letters, Dashed
<1>4. ASSUME NEW l \in ValueSwitches, Valued(arg), Letters(arg)[1] = l PROVE Alone(arg, l)
  <2>1. arg.kind = "switches" /\ Letters(arg) = arg.letters /\ Len(arg.letters) = 1 /\ arg.letters[1] = l
    BY <1>2, <1>4 DEF Valued, Letters, Dashed
  <2>2. arg.letters = <<l>>
    BY <1>1, <2>1
  <2> QED BY <2>1, <2>2 DEF Alone
<1>5. Valued(arg) => /\ Dashed(arg) /\ Letters(arg)[1] \in ValueSwitches
                     /\ Len(Letters(arg)) = 1 /\ DOMAIN Letters(arg) = {1}
  BY <1>1 DEF Valued
<1> QED BY <1>3, <1>4, <1>5

(* What counts as a number: an empty argument as well. *)
Numeric(arg) == arg.kind = "number" \/ Empty(arg)

LEMMA NumbersRead ==
  ASSUME NEW arg \in Arguments
  PROVE  /\ GetOptionValue(arg) \in Int
         /\ GetOptionValue(arg) >= 0 => Numeric(arg)
         /\ Numeric(arg) => ~Dashed(arg)
         /\ Numeric(arg) /\ Fits(arg) => GetOptionValue(arg) = NumberOf(arg)
<1>0. Numeric(arg) => ~Dashed(arg)
  BY DEF Numeric, Empty, Dashed
<1>1. CASE arg.kind = "number"
  <2>1. arg.value \in Nat /\ IntMax \in Nat
    BY <1>1, ArgumentKinds, LimitsAssumption
  <2> DEFINE n == arg.value
             m == IntMax
  <2>8. ~Empty(arg) /\ NumberOf(arg) = n
    BY <1>1 DEF Empty, NumberOf
  <2>2. /\ GetOptionValue(arg) = ((n + m + 1) % (2 * m + 2)) - m - 1
        /\ Fits(arg) <=> n <= m
    BY <1>1, <2>8 DEF GetOptionValue, Fits
  <2>3. n \in Nat /\ m \in Nat /\ n + m + 1 \in Nat /\ 2 * m + 2 \in Nat \ {0}
    BY <2>1
  <2> HIDE DEF n, m
  <2>4. (n + m + 1) % (2 * m + 2) \in 0..(2 * m + 1)
    BY <2>3, DivMod
  <2>5. ASSUME n <= m PROVE (n + m + 1) % (2 * m + 2) = n + m + 1
    <3>1. n + m + 1 \in 0..((2 * m + 2) - 1)
      BY <2>3, <2>5
    <3>2. (0 * (2 * m + 2) + (n + m + 1)) % (2 * m + 2) = n + m + 1
      BY <2>3, <3>1, DivModUnique
    <3> QED BY <2>3, <3>2
  <2>6. GetOptionValue(arg) \in Int
    BY <2>2, <2>3, <2>4
  <2>7. n <= m => GetOptionValue(arg) = n
    BY <2>2, <2>3, <2>5
  <2> QED BY <1>0, <1>1, <2>2, <2>6, <2>7, <2>8 DEF Numeric
<1>2. CASE Empty(arg)
  BY <1>0, <1>2 DEF GetOptionValue, Empty, Numeric, NumberOf
<1>3. CASE arg.kind # "number" /\ ~Empty(arg)
  BY <1>3 DEF GetOptionValue, Numeric
<1> QED BY <1>1, <1>2, <1>3

LEMMA ValuesNotDashed ==
  ASSUME NEW arg \in Arguments, NEW l \in ValueSwitches, ValueGood(l, arg)
  PROVE  /\ ~Dashed(arg)
         /\ l # "D" => Numeric(arg)
<1>1. l = "D" => arg.kind = "word"
  BY DEF ValueGood, TypesKnown
<1>2. l # "D" => GetOptionValue(arg) >= 0
  <2>1. GetOptionValue(arg) \in Int
    BY NumbersRead
  <2> QED BY <2>1 DEF ValueGood
<1>3. l # "D" => Numeric(arg) /\ ~Dashed(arg)
  BY <1>2, NumbersRead
<1> QED BY <1>1, <1>3 DEF Dashed

-------------------------------------------------------------------------------
(* Where the program is, and what it has read so far.                      *)
InGroup == /\ x < Len(args) /\ Dashed(args[x]) /\ ~Valued(args[x])
           /\ y \in 1..(Len(Letters(args[x])) + 1)
AtStart == /\ x = 1 /\ y = 1 /\ rc = "valid" /\ exitCode = 0 /\ optionBits = {} /\ given = Default
           /\ opened = FALSE /\ isRelMapFile = FALSE /\ tool = "filedump"
           /\ flags = {} /\ values = NoValues /\ pos = <<>>
Shape ==
  /\ line \in Seq(Arguments) /\ args \in Seq(Arguments) /\ pos \in Seq(Arguments)
  /\ tool = "filedump" => args = line /\ pc # "flags"
  /\ tool # "filedump" => /\ pc \in {"flags", "done"} /\ Len(args) = Len(line) - 1
                          /\ job \in {"none", "usage", "map", "undefined"}
  /\ pc = "main" => AtStart
  /\ pc = "letters" => InGroup
  /\ pc = "flags" => x >= 2 /\ Len(pos) <= x - 2
  /\ pc # "done" => job = "none"
MainTyped == MainTypeOK /\ Shape

LEMMA MainTypedInit == MainInit => MainTyped
<1> SUFFICES ASSUME MainInit PROVE MainTyped
  OBVIOUS
<1>1. line \in Seq(Arguments)
  BY LinesAssumption DEF MainInit
<1>2. MainTypeOK
  BY <1>1, PosAssumption DEF MainInit, MainTypeOK
<1>3. Shape
  BY <1>1 DEF MainInit, Shape, AtStart
<1> QED BY <1>2, <1>3 DEF MainTyped

(* Every step of ConsumeOptions. *)
ConsumeFrame == UNCHANGED <<args, line, tool, flags, values, pos, job>>

LEMMA ConsumeTyped ==
  ASSUME MainTyped, tool = "filedump", ConsumeOptions, ConsumeFrame
  PROVE  MainTyped'
<1> DEFINE n == Len(line)
<1>1. /\ MainTypeOK /\ Shape /\ args = line /\ line' = line /\ args' = args /\ tool' = tool
      /\ job' = job /\ pos' = pos /\ line \in Seq(Arguments) /\ n \in Nat
      /\ x \in 1..(n + 1) /\ y \in Nat
  BY DEF MainTyped, Shape, ConsumeFrame, MainTypeOK
<1>2. ASSUME AtValued PROVE x <= n /\ Switch \in ValueSwitches
  <2>1. x <= n /\ x \in 1..n /\ line[x] \in Arguments /\ Valued(line[x])
    BY <1>1, <1>2 DEF AtValued, AtArgument
  <2>2. Dashed(line[x]) /\ Letters(line[x])[1] \in ValueSwitches /\ Alone(line[x], Letters(line[x])[1])
    BY <2>1, ValuedAlone
  <2>3. line[x].letters = <<Letters(line[x])[1]>>
    BY <2>2 DEF Alone
  <2> QED BY <1>1, <2>1, <2>2, <2>3 DEF Switch
<1> DEFINE Bounds == /\ x' \in 1..(n + 1) /\ y' \in Nat
                     /\ pc' \in {"args", "letters", "left", "checked"}
                     /\ pc' = "letters" => InGroup'
                     /\ rc' \in {"valid", "invalid", "file", "duplicate", "copyright"}
                     /\ exitCode' \in {0, 1} /\ optionBits' \subseteq Known
<1>3. pc \in {"args", "letters", "left"} /\ rc \in {"valid", "invalid", "file", "duplicate", "copyright"}
      /\ exitCode \in {0, 1} /\ optionBits \subseteq Known /\ job = "none"
  <2>1. pc \in {"args", "letters", "left"}
    BY DEF ConsumeOptions, ValueRepeated, ValueMissing, ValueRefused, ValueTaken, RangeTaken,
           LastArgument, NotSwitches, OpenGroup, Letter, CloseGroup, Finish, AtValued, AtArgument
  <2> QED BY <1>1, <2>1 DEF MainTypeOK, Shape, Known
<1>4. Bounds
  <2>1. CASE ValueRepeated
    BY <1>1, <1>2, <1>3, <2>1 DEF ValueRepeated, Known
  <2>2. CASE ValueMissing
    BY <1>1, <1>2, <1>3, <2>2 DEF ValueMissing, Known
  <2>3. CASE ValueRefused
    BY <1>1, <1>2, <1>3, <2>3 DEF ValueRefused, Known
  <2>4. CASE ValueTaken
    <3>1. x < n - 1 /\ pc = "args"
      BY <1>1, <2>4 DEF ValueTaken, Lacks, AtValued, AtArgument
    <3> QED BY <1>1, <1>2, <1>3, <2>4, <3>1 DEF ValueTaken, Known
  <2>5. CASE RangeTaken
    <3>1. x < n - 1 /\ (HasEnd => x + 2 < n) /\ pc = "args"
      BY <1>1, <2>5 DEF RangeTaken, Lacks, HasEnd, AtValued, AtArgument
    <3>2. x' \in 1..(n + 1) /\ pc' \in {"args", "left"} /\ rc' \in {rc, "invalid"} /\ exitCode' \in {exitCode, 1}
      BY <1>1, <2>5, <3>1 DEF RangeTaken
    <3>3. y' = y /\ optionBits' = optionBits \cup {Switch}
      BY <2>5 DEF RangeTaken
    <3> QED BY <1>1, <1>2, <1>3, <2>5, <3>2, <3>3 DEF RangeTaken, Known
  <2>6. CASE LastArgument
    BY <1>1, <1>3, <2>6 DEF LastArgument, AtArgument
  <2>7. CASE NotSwitches
    BY <1>1, <1>3, <2>7 DEF NotSwitches
  <2>8. CASE OpenGroup
    <3>1. x \in 1..n /\ line[x] \in Arguments /\ Dashed(line[x])
      BY <1>1, <2>8 DEF OpenGroup
    <3>2. Letters(line[x]) \in Seq(Chars)
      BY <3>1, ArgumentKinds
    <3>3. 1 \in 1..(Len(Letters(line[x])) + 1)
      BY <3>2
    <3>4. InGroup'
      BY <1>1, <2>8, <3>3 DEF OpenGroup, InGroup
    <3> QED BY <1>1, <1>3, <2>8, <3>4 DEF OpenGroup, optionVars
  <2>9. CASE Letter
    <3>1. InGroup /\ pc = "letters"
      BY <1>1, <2>9 DEF Letter, Shape
    <3>2. x < n /\ x \in 1..n /\ line[x] \in Arguments /\ Dashed(line[x])
      BY <1>1, <3>1 DEF InGroup
    <3>3. Letters(line[x]) \in Seq(Chars) /\ Len(Letters(line[x])) \in Nat
      BY <3>2, ArgumentKinds
    <3>4. y \in Nat /\ y <= Len(Letters(line[x]))
      BY <1>1, <2>9 DEF Letter
    <3> DEFINE l == Letters(args[x])[y]
    <3>5. /\ rc' \in {rc, "invalid", "duplicate", "copyright"} /\ exitCode' \in {exitCode, 1}
          /\ optionBits' = optionBits \/ (l \in LetterSwitches /\ optionBits' = optionBits \cup {l})
      BY <2>9 DEF Letter, SetOption
    <3>6. \/ pc' = "args" /\ x' = x + 1 /\ y' = y
          \/ pc' = "letters" /\ x' = x /\ y' = y + 1
      BY <2>9, <3>1 DEF Letter
    <3>7. pc' = "letters" => InGroup'
      BY <1>1, <3>1, <3>3, <3>4, <3>6 DEF InGroup
    <3>8. optionBits' \subseteq Known
      BY <1>3, <3>5 DEF Known
    <3> HIDE DEF l
    <3> QED BY <1>1, <1>3, <3>2, <3>4, <3>5, <3>6, <3>7, <3>8
  <2>10. CASE CloseGroup
    <3>1. InGroup
      BY <1>1, <2>10 DEF CloseGroup, Shape
    <3> QED BY <1>1, <1>3, <2>10, <3>1 DEF CloseGroup, optionVars, InGroup
  <2>11. CASE Finish
    <3>1. optionBits' \subseteq optionBits
      BY <2>11 DEF Finish
    <3>2. rc' \in {rc, "invalid"} /\ exitCode' \in {exitCode, 1}
      BY <2>11 DEF Finish
    <3> QED BY <1>1, <1>3, <2>11, <3>1, <3>2 DEF Finish
  <2> QED BY <2>1, <2>2, <2>3, <2>4, <2>5, <2>6, <2>7, <2>8, <2>9, <2>10, <2>11 DEF ConsumeOptions
<1> HIDE DEF n
<1>5. MainTypeOK'
  BY <1>1, <1>3, <1>4 DEF MainTypeOK, n, Known
<1>6. Shape'
  BY <1>1, <1>3, <1>4 DEF Shape
<1> QED BY <1>5, <1>6 DEF MainTyped

(* The line without the -F or -V that decides.                             *)
LEMMA RestOfLine ==
  ASSUME NEW A, NEW l \in Seq(A), NEW i \in DOMAIN l
  PROVE  LET rest == SubSeq(l, 1, i - 1) \o SubSeq(l, i + 1, Len(l))
         IN  rest \in Seq(A) /\ Len(rest) = Len(l) - 1
<1> DEFINE a == SubSeq(l, 1, i - 1)
           b == SubSeq(l, i + 1, Len(l))
<1>1. Len(l) \in Nat /\ i \in 1..Len(l)
  OBVIOUS
<1>2. a \in Seq(A) /\ Len(a) = i - 1
  BY <1>1
<1>3. b \in Seq(A) /\ Len(b) = Len(l) - i
  BY <1>1
<1> HIDE DEF a, b
<1>4. a \o b \in Seq(A) /\ Len(a \o b) = Len(a) + Len(b)
  BY <1>2, <1>3, ConcatProperties
<1>5. Len(a) + Len(b) = Len(l) - 1
  BY <1>1, <1>2, <1>3
<1> QED BY <1>4, <1>5 DEF a, b

LEMMA FirstFlag ==
  ASSUME line \in Seq(Arguments), MapFlagAt # {}
  PROVE  (CHOOSE i \in MapFlagAt : \A j \in MapFlagAt : i <= j) \in DOMAIN line
<1>1. IsFiniteSet(MapFlagAt) /\ MapFlagAt \subseteq Int /\ MapFlagAt \subseteq DOMAIN line
  <2>1. MapFlagAt \subseteq 1..Len(line) /\ Len(line) \in Nat
    BY DEF MapFlagAt
  <2>2. IsFiniteSet(1..Len(line))
    BY <2>1, FS_Interval
  <2>3. IsFiniteSet(MapFlagAt)
    BY <2>1, <2>2, FS_Subset
  <2> QED BY <2>1, <2>3
<1>2. \E i \in MapFlagAt : \A j \in MapFlagAt : i <= j
  BY <1>1, MinIs
<1> QED BY <1>1, <1>2

LEMMA MainTypedStep ==
  ASSUME MainTyped, [MainNext]_mainVars
  PROVE  MainTyped'
<1>1. /\ line \in Seq(Arguments) /\ args \in Seq(Arguments) /\ pos \in Seq(Arguments)
      /\ Len(line) \in Nat /\ Len(args) \in Nat /\ Len(pos) \in Nat /\ MainTypeOK /\ Shape
      /\ x \in 1..(Len(args) + 1) /\ y \in Nat
  BY DEF MainTyped, Shape, MainTypeOK
<1>2. CASE RunModule
  <2> DEFINE i == CHOOSE i \in MapFlagAt : \A j \in MapFlagAt : i <= j
             rest == SubSeq(line, 1, i - 1) \o SubSeq(line, i + 1, Len(line))
  <2>1. i \in DOMAIN line
    BY <1>1, <1>2, FirstFlag DEF RunModule
  <2>2. rest \in Seq(Arguments) /\ Len(rest) = Len(line) - 1
    <3> HIDE DEF i
    <3> QED BY <1>1, <2>1, RestOfLine
  <2>3. args' = rest /\ tool' \in {"fsm", "vm"}
    <3> HIDE DEF rest
    <3>1. args' = rest
      BY <1>2 DEF RunModule, rest
    <3>2. tool' \in {"fsm", "vm"}
      BY <1>2 DEF RunModule
    <3> QED BY <3>1, <3>2
  <2>4. AtStart /\ pc = "main"
    BY <1>1, <1>2 DEF RunModule, Shape
  <2>5. \/ rest # <<>> /\ pc' = "flags" /\ x' = 2 /\ UNCHANGED <<job, exitCode>>
        \/ pc' = "done" /\ job' = "usage" /\ exitCode' = 1 /\ UNCHANGED x
    BY <1>2 DEF RunModule
  <2>6. UNCHANGED <<line, y, rc, optionBits, given, opened, isRelMapFile, mapVars>>
    BY <1>2 DEF RunModule
  <2> HIDE DEF rest
  <2>7. Len(pos) = 0 /\ x = 1 /\ (rest # <<>> => Len(rest) >= 1)
    BY <2>2, <2>4 DEF AtStart
  <2>8. Len(args') = Len(line') - 1 /\ args' \in Seq(Arguments) /\ Len(args') \in Nat
    BY <2>2, <2>3, <2>6
  <2>9. x' \in 1..(Len(args') + 1) /\ (pc' = "flags" => x' = 2)
    <3>1. CASE pc' = "flags"
      <4>1. x' = 2 /\ Len(args') >= 1
        BY <2>3, <2>5, <2>7, <3>1
      <4> QED BY <2>8, <4>1
    <3>2. CASE pc' = "done"
      <4>1. x' = 1
        BY <2>5, <2>7, <3>2
      <4> QED BY <2>8, <3>2, <4>1
    <3> QED BY <2>5, <3>1, <3>2
  <2>10. MainTypeOK'
    BY <1>1, <2>3, <2>5, <2>6, <2>8, <2>9 DEF MainTypeOK, mapVars
  <2>11. Shape'
    <3>1. pc' \in {"flags", "done"} /\ tool' # "filedump"
      BY <2>3, <2>5
    <3>2. pos' = pos /\ line' = line /\ (pc' # "done" => job' = "none")
      <4>1. job = "none"
        BY <1>1, <2>4 DEF Shape
      <4> QED BY <2>5, <2>6, <4>1 DEF mapVars
    <3>3. pc' = "flags" => x' >= 2 /\ Len(pos') <= x' - 2
      <4>1. pc' = "flags" => x' = 2 /\ Len(pos') = 0
        BY <2>7, <2>9, <3>2
      <4> QED BY <4>1
    <3>4. job' \in {"none", "usage"}
      <4>1. job = "none"
        BY <1>1, <2>4 DEF Shape
      <4> QED BY <2>5, <4>1
    <3> QED BY <1>1, <2>8, <3>1, <3>2, <3>3, <3>4 DEF Shape
  <2> QED BY <2>10, <2>11 DEF MainTyped
<1>3. CASE NoParameters
  <2>1. AtStart /\ pc = "main" /\ args = line
    BY <1>1, <1>3 DEF NoParameters, Shape, AtStart
  <2> QED BY <1>1, <1>3, <2>1 DEF NoParameters, MainTyped, MainTypeOK, Shape, mapVars, AtStart
<1>4. CASE StartOptions
  <2>1. AtStart /\ pc = "main" /\ args = line
    BY <1>1, <1>4 DEF StartOptions, Shape, AtStart
  <2> QED BY <1>1, <1>4, <2>1 DEF StartOptions, MainTyped, MainTypeOK, Shape, mapVars, optionVars, AtStart
<1>5. CASE ParseFlag
  <2>1. /\ pc = "flags" /\ x <= Len(args) /\ x >= 2 /\ Len(pos) <= x - 2
        /\ UNCHANGED <<pc, args, y, optionVars, line, tool, job>>
    BY <1>1, <1>5 DEF ParseFlag, ValueFlag, LongFlag, ShortGroup, Positional, AtPositional, AtFlag, Shape
  <2>2. \/ x' = x + 2 /\ x < Len(args) /\ pos' = pos
        \/ x' = x + 1 /\ pos' = pos
        \/ x' = x + 1 /\ pos' = Append(pos, args[x]) /\ Len(pos) < PosMax
    BY <1>5 DEF ParseFlag, ValueFlag, LongFlag, ShortGroup, Positional
  <2>3. args[x] \in Arguments
    BY <1>1, <2>1
  <2>4. /\ pos' \in Seq(Arguments) /\ Len(pos') <= x' - 2 /\ x' \in 2..(Len(args) + 1)
        /\ Len(pos') <= PosMax
    <3>1. x' \in 2..(Len(args) + 1) /\ x' >= x + 1
      BY <1>1, <2>1, <2>2
    <3>2. CASE pos' = pos
      BY <1>1, <2>1, <3>1, <3>2 DEF MainTypeOK
    <3>3. CASE x' = x + 1 /\ pos' = Append(pos, args[x]) /\ Len(pos) < PosMax
      <4>1. pos' \in Seq(Arguments) /\ Len(pos') = Len(pos) + 1
        BY <1>1, <2>3, <3>3, AppendProperties
      <4> QED BY <1>1, <2>1, <3>1, <3>3, <4>1, PosAssumption
    <3> QED BY <2>2, <3>2, <3>3
  <2>5. Len(pos') \in Nat /\ Len(pos') <= Len(args) - 1
    BY <1>1, <2>4
  <2>6. MainTypeOK'
    BY <1>1, <2>1, <2>4, <2>5 DEF MainTypeOK, optionVars
  <2>7. Shape'
    BY <1>1, <2>1, <2>4 DEF Shape, optionVars
  <2> QED BY <2>6, <2>7 DEF MainTyped
<1>6. CASE RunTool
  BY <1>1, <1>6 DEF RunTool, MainTyped, MainTypeOK, Shape, mapVars
<1>6a. CASE PastPositions
  BY <1>1, <1>6a DEF PastPositions, AtPositional, AtFlag, MainTyped, MainTypeOK, Shape, mapVars
<1>7. CASE Consume
  <2>1. ConsumeOptions /\ ConsumeFrame
    <3>1. UNCHANGED args
      BY <1>7 DEF Consume, ConsumeOptions, ValueRepeated, ValueMissing, ValueRefused, ValueTaken, RangeTaken,
           LastArgument, NotSwitches, OpenGroup, Letter, CloseGroup, Finish
    <3> QED BY <1>7, <3>1 DEF Consume, ConsumeFrame, mapVars
  <2>2. tool = "filedump"
    <3>1. pc \in {"args", "letters", "left"}
      BY <1>7 DEF Consume, ConsumeOptions, ValueRepeated, ValueMissing, ValueRefused, ValueTaken, RangeTaken,
           LastArgument, NotSwitches, OpenGroup, Letter, CloseGroup, Finish, AtValued, AtArgument
    <3> QED BY <1>1, <3>1 DEF Shape
  <2> QED BY <2>1, <2>2, ConsumeTyped
<1>8. CASE Dispatch
  <2>1. job' \in {"usage", "relmap", "control", "blocks"}
    BY <1>8 DEF Dispatch
  <2> QED BY <1>1, <1>8, <2>1 DEF Dispatch, MainTyped, MainTypeOK, Shape, mapVars, optionVars
<1>9. CASE UNCHANGED mainVars
  BY <1>1, <1>9 DEF mainVars, mapVars, optionVars, MainTyped, MainTypeOK, Shape, AtStart, InGroup
<1> QED BY <1>2, <1>3, <1>4, <1>5, <1>6, <1>6a, <1>7, <1>8, <1>9 DEF MainNext, MainStep, MainEnded

-------------------------------------------------------------------------------
(* The letters on the line, and those the program has been over.           *)
Spots == {s \in (DOMAIN line) \X Nat : s[2] \in DOMAIN LettersAt(s[1])}
LetterOf(s) == LettersAt(s[1])[s[2]]
Seen == {s \in Spots : s[1] < x \/ (pc = "letters" /\ s[1] = x /\ s[2] < y)}

SwitchesRead ==
  /\ \A s \in Seen : LetterOf(s) \in Known \cup {"m", "v"}
  /\ \A l \in Known : l \in optionBits <=> \E s \in Seen : LetterOf(s) = l
  /\ \A s, t \in Seen : LetterOf(s) = LetterOf(t) /\ LetterOf(s) \in Known => s = t
  /\ isRelMapFile <=> \E s \in Seen : LetterOf(s) = "m"
  /\ ~({"x", "y"} \subseteq optionBits)

ArgumentsRead ==
  /\ \A i \in 1..(x - 1) : /\ i < Len(line) => Expected(i)
                           /\ HasValue(i) /\ InOrder(i) /\ (Valued(line[i]) => i + 1 < x)
  /\ pc = "args" /\ x <= Len(line) => ~RangeEndAt(x)
  /\ x = Len(line) + 1 => line # <<>> /\ ~Dashed(line[Len(line)]) /\ line[Len(line)] \in Files /\ opened
  /\ pc = "letters" => \A j \in 1..(y - 1) : Letters(line[x])[j] \in LetterSwitches \cup {"m", "v"}

Reading == pc \in {"args", "letters"} /\ tool = "filedump"
Judged ==
  tool = "filedump" =>
    /\ rc # "valid" => ~WellFormed
    /\ pc = "left" => rc # "valid"
    /\ rc = "valid" /\ pc \in {"checked", "done"} => WellFormed
    /\ pc = "done" => (job = "usage" <=> rc # "valid")
Accepting == /\ Reading /\ rc = "valid" => ArgumentsRead /\ SwitchesRead
             /\ Judged

LEMMA LineKept ==
  ASSUME line' = line
  PROVE  /\ WellFormed' = WellFormed /\ Spots' = Spots /\ Asked' = Asked
         /\ \A s : LetterOf(s)' = LetterOf(s)
         /\ \A i : /\ Expected(i)' = Expected(i) /\ HasValue(i)' = HasValue(i) /\ InOrder(i)' = InOrder(i)
                  /\ RangeEndAt(i)' = RangeEndAt(i)
<1>1. \A i : LettersAt(i)' = LettersAt(i)
  BY DEF LettersAt
<1>2. Spots' = Spots /\ Asked' = Asked /\ \A s : LetterOf(s)' = LetterOf(s)
  BY <1>1 DEF Spots, LetterOf, Asked
<1>3. \A i : RangeEndAt(i)' = RangeEndAt(i)
  BY DEF RangeEndAt
<1>4. \A i : Expected(i)' = Expected(i) /\ HasValue(i)' = HasValue(i) /\ InOrder(i)' = InOrder(i)
  BY <1>3 DEF Expected, HasValue, InOrder, ValueAt
<1>5. \A l : Once(l)' = Once(l)
  BY <1>1 DEF Once
<1>6. WellFormed' = WellFormed
  BY <1>2, <1>4, <1>5 DEF WellFormed
<1> QED BY <1>2, <1>3, <1>4, <1>6

LEMMA LettersSeen ==
  ASSUME line \in Seq(Arguments)
  PROVE  /\ \A i \in DOMAIN line : LettersAt(i) \in Seq(Chars)
         /\ Asked = {LetterOf(s) : s \in Spots}
         /\ \A l : Once(l) <=> \A s, t \in Spots : LetterOf(s) = l /\ LetterOf(t) = l => s = t
<1>1. ASSUME NEW i \in DOMAIN line PROVE LettersAt(i) \in Seq(Chars)
  <2>1. line[i] \in Arguments
    OBVIOUS
  <2>2. Dashed(line[i]) => Letters(line[i]) \in Seq(Chars)
    BY <2>1, ArgumentKinds
  <2> QED BY <2>2 DEF LettersAt
<1>2. \A i \in DOMAIN line : DOMAIN LettersAt(i) \subseteq Nat
  BY <1>1
<1>3. ASSUME NEW l, l \in Asked PROVE \E s \in Spots : LetterOf(s) = l
  <2>1. PICK i \in DOMAIN line : l \in Range(LettersAt(i))
    BY <1>3 DEF Asked
  <2>2. PICK j \in DOMAIN LettersAt(i) : LettersAt(i)[j] = l
    BY <2>1 DEF Range
  <2>3. <<i, j>> \in Spots /\ LetterOf(<<i, j>>) = l
    BY <1>2, <2>2 DEF Spots, LetterOf
  <2> QED BY <2>3
<1>4. ASSUME NEW s \in Spots PROVE LetterOf(s) \in Asked
  BY DEF Spots, LetterOf, Asked, Range
<1>5. ASSUME NEW l
      PROVE  Once(l) <=> \A s, t \in Spots : LetterOf(s) = l /\ LetterOf(t) = l => s = t
  <2>1. ASSUME Once(l), NEW s \in Spots, NEW t \in Spots, LetterOf(s) = l, LetterOf(t) = l PROVE s = t
    <3>1. s[1] \in DOMAIN line /\ t[1] \in DOMAIN line /\ s[2] \in DOMAIN LettersAt(s[1]) /\ t[2] \in DOMAIN LettersAt(t[1])
          /\ s = <<s[1], s[2]>> /\ t = <<t[1], t[2]>>
      BY DEF Spots
    <3>2. s[1] = t[1] /\ s[2] = t[2]
      BY <2>1, <3>1 DEF Once, LetterOf
    <3> QED BY <3>1, <3>2
  <2>2. ASSUME \A s, t \in Spots : LetterOf(s) = l /\ LetterOf(t) = l => s = t PROVE Once(l)
    <3> SUFFICES ASSUME NEW i \in DOMAIN line, NEW k \in DOMAIN line,
                        NEW j \in DOMAIN LettersAt(i), NEW m \in DOMAIN LettersAt(k),
                        LettersAt(i)[j] = l, LettersAt(k)[m] = l
                 PROVE  i = k /\ j = m
      BY DEF Once
    <3>1. <<i, j>> \in Spots /\ <<k, m>> \in Spots /\ LetterOf(<<i, j>>) = l /\ LetterOf(<<k, m>>) = l
      BY <1>2 DEF Spots, LetterOf
    <3>2. <<i, j>> = <<k, m>>
      BY <2>2, <3>1
    <3> QED BY <3>2
  <2> QED BY <2>1, <2>2
<1> QED BY <1>1, <1>3, <1>4, <1>5

LEMMA RangeEndIs ==
  ASSUME line \in Seq(Arguments), NEW i \in Int, RangeEndAt(i)
  PROVE  /\ i \in DOMAIN line /\ i - 2 \in DOMAIN line /\ i < Len(line)
         /\ Valued(line[i - 2]) /\ Letters(line[i - 2])[1] = "R"
         /\ Numeric(line[i]) /\ ~Dashed(line[i])
<1>1. i > 2 /\ i < Len(line) /\ Alone(line[i - 2], "R") /\ GetOptionValue(line[i]) >= 0
  BY DEF RangeEndAt
<1>2. i \in DOMAIN line /\ i - 2 \in DOMAIN line /\ line[i] \in Arguments /\ line[i - 2] \in Arguments
  BY <1>1
<1>3. "R" \in ValueSwitches
  BY DEF ValueSwitches
<1>4. Valued(line[i - 2]) /\ Letters(line[i - 2])[1] = "R"
  BY <1>1, <1>2, <1>3, ValuedAlone
<1>5. Numeric(line[i]) /\ ~Dashed(line[i])
  BY <1>1, <1>2, NumbersRead
<1> QED BY <1>1, <1>2, <1>4, <1>5

LEMMA NoValueHere ==
  ASSUME MainTyped, ArgumentsRead, x \in 1..Len(line)
  PROVE  ~ValueAt(x)
<1> SUFFICES ASSUME ValueAt(x) PROVE FALSE
  OBVIOUS
<1>1. x - 1 \in 1..(x - 1) /\ Valued(line[x - 1])
  BY DEF ValueAt
<1>2. x - 1 + 1 < x
  BY <1>1 DEF ArgumentsRead
<1> QED BY <1>2

(* At a switch that wants a value. *)
AtSwitch == /\ x \in 1..Len(line) /\ Valued(line[x]) /\ Switch \in ValueSwitches
            /\ Letters(line[x])[1] = Switch /\ Alone(line[x], Switch)
            /\ LettersAt(x) = <<Switch>>
            /\ <<x, 1>> \in Spots /\ LetterOf(<<x, 1>>) = Switch
            /\ line[x] \in Arguments
LEMMA SwitchHere ==
  ASSUME MainTyped, tool = "filedump", AtValued
  PROVE  AtSwitch
<1>1. /\ line \in Seq(Arguments) /\ args = line /\ x \in 1..Len(line) /\ line[x] \in Arguments
      /\ Valued(line[x])
  BY DEF MainTyped, MainTypeOK, Shape, AtValued, AtArgument
<1> DEFINE l == Letters(line[x])[1]
<1>2. Dashed(line[x]) /\ l \in ValueSwitches /\ Alone(line[x], l)
  BY <1>1, ValuedAlone
<1>3. line[x].kind = "switches" /\ line[x].letters = <<l>>
  BY <1>2 DEF Alone
<1>4. LettersAt(x) = <<l>> /\ Switch = l
  BY <1>1, <1>2, <1>3 DEF LettersAt, Letters, Switch
<1>5. x \in DOMAIN line /\ 1 \in DOMAIN LettersAt(x)
  BY <1>1, <1>4
<1>6. <<x, 1>> \in Spots
  BY <1>5 DEF Spots
<1>7. LetterOf(<<x, 1>>) = l
  BY <1>4 DEF LetterOf
<1> QED BY <1>1, <1>2, <1>4, <1>6, <1>7 DEF AtSwitch

(* A letter that comes a second time. *)
LEMMA ComesTwice ==
  ASSUME line \in Seq(Arguments), NEW s \in Spots, NEW t \in Spots, s # t,
         LetterOf(s) = LetterOf(t), LetterOf(s) \in Known
  PROVE  ~WellFormed
<1>1. LetterOf(s) \notin {"m", "v"}
  BY DEF Known, LetterSwitches, ValueSwitches
<1>2. LetterOf(s) \in Asked /\ ~Once(LetterOf(s))
  BY LettersSeen
<1> QED BY <1>1, <1>2 DEF WellFormed

LEMMA ValueRefusedRightly ==
  ASSUME MainTyped, tool = "filedump", rc = "valid", ArgumentsRead, SwitchesRead,
         ValueRepeated \/ ValueMissing \/ ValueRefused \/ (RangeTaken /\ rc' # "valid")
  PROVE  ~WellFormed
<1>1. line \in Seq(Arguments) /\ args = line /\ AtValued /\ pc = "args" /\ Len(line) \in Nat
  BY DEF MainTyped, Shape, ValueRepeated, ValueMissing, ValueRefused, RangeTaken, AtValued, AtArgument
<1>2. AtSwitch
  BY <1>1, SwitchHere
<1>3. x \in 1..Len(line)
  BY <1>2 DEF AtSwitch
<1>4. CASE ValueRepeated
  <2>1. Switch \in optionBits /\ Switch \in Known
    BY <1>2, <1>4 DEF ValueRepeated, Repeated, AtSwitch, Known
  <2>2. PICK s \in Seen : LetterOf(s) = Switch
    BY <2>1 DEF SwitchesRead
  <2>3. s \in Spots /\ s[1] < x
    BY <1>1, <2>2 DEF Seen
  <2>4. s # <<x, 1>>
    BY <1>3, <2>3
  <2>5. <<x, 1>> \in Spots /\ LetterOf(<<x, 1>>) = Switch
    BY <1>2 DEF AtSwitch
  <2> QED BY <1>1, <2>1, <2>2, <2>3, <2>4, <2>5, ComesTwice
<1>5. CASE ValueMissing
  <2>1. ~HasValue(x)
    BY <1>1, <1>2, <1>5 DEF ValueMissing, Lacks, HasValue, AtSwitch
  <2> QED BY <1>3, <2>1 DEF WellFormed
<1>6. CASE ValueRefused
  <2>1. ~HasValue(x)
    BY <1>1, <1>2, <1>6 DEF ValueRefused, HasValue, AtSwitch
  <2> QED BY <1>3, <2>1 DEF WellFormed
<1>7. CASE RangeTaken /\ rc' # "valid"
  <2>1. HasEnd /\ ~(GetOptionValue(line[x + 1]) <= GetOptionValue(line[x + 2])) /\ Switch = "R" /\ ~Lacks
    <3>1. GetOptionValue(line[x + 1]) <= GetOptionValue(line[x + 1])
      <4>1. x + 1 \in 1..Len(line)
        BY <1>1, <1>3, <1>7 DEF RangeTaken, Lacks
      <4>2. line[x + 1] \in Arguments
        BY <1>1, <4>1
      <4>3. GetOptionValue(line[x + 1]) \in Int
        BY <4>2, NumbersRead
      <4> QED BY <4>3
    <3> QED BY <1>1, <1>7, <3>1 DEF RangeTaken
  <2>2. x + 2 < Len(line) /\ GetOptionValue(line[x + 2]) >= 0
    BY <1>1, <2>1 DEF HasEnd
  <2>3. (x + 2) - 2 = x /\ (x + 2) - 1 = x + 1 /\ x + 2 > 2 /\ x + 2 \in 1..Len(line)
    BY <1>1, <1>3, <2>2
  <2>4. RangeEndAt(x + 2)
    BY <1>2, <2>1, <2>2, <2>3 DEF RangeEndAt, AtSwitch
  <2>5. ~InOrder(x + 2)
    BY <2>1, <2>3, <2>4 DEF InOrder
  <2> QED BY <2>3, <2>5 DEF WellFormed
<1> QED BY <1>4, <1>5, <1>6, <1>7

(* At a letter of a group. *)
AtLetter == /\ x \in 1..Len(line) /\ x < Len(line) /\ Dashed(line[x]) /\ ~Valued(line[x]) /\ line[x] \in Arguments
            /\ y \in DOMAIN Letters(line[x]) /\ Letters(line[x]) \in Seq(Chars)
            /\ <<x, y>> \in Spots /\ LetterOf(<<x, y>>) = Letters(line[x])[y]
            /\ LettersAt(x) = Letters(line[x])
LEMMA LetterHere ==
  ASSUME MainTyped, tool = "filedump", pc = "letters", y <= Len(Letters(args[x]))
  PROVE  AtLetter
<1>1. /\ line \in Seq(Arguments) /\ args = line /\ x \in 1..(Len(line) + 1) /\ y \in Nat /\ InGroup
  BY DEF MainTyped, MainTypeOK, Shape
<1>2. /\ x \in 1..Len(line) /\ x < Len(line) /\ Dashed(line[x]) /\ ~Valued(line[x])
      /\ y >= 1 /\ line[x] \in Arguments
  BY <1>1 DEF InGroup
<1>3. Letters(line[x]) \in Seq(Chars)
  BY <1>2, ArgumentKinds
<1>4. y \in DOMAIN Letters(line[x])
  BY <1>1, <1>2, <1>3
<1>5. LettersAt(x) = Letters(line[x])
  BY <1>2 DEF LettersAt
<1>6. <<x, y>> \in Spots
  BY <1>1, <1>2, <1>4, <1>5 DEF Spots
<1>7. LetterOf(<<x, y>>) = Letters(line[x])[y]
  BY <1>5 DEF LetterOf
<1> QED BY <1>2, <1>3, <1>4, <1>5, <1>6, <1>7 DEF AtLetter

LEMMA LetterRefusedRightly ==
  ASSUME MainTyped, tool = "filedump", rc = "valid", ArgumentsRead, SwitchesRead,
         Letter, rc' # "valid"
  PROVE  ~WellFormed
<1>1. line \in Seq(Arguments) /\ args = line /\ pc = "letters"
  BY DEF MainTyped, Shape, Letter
<1>2. AtLetter
  BY <1>1, LetterHere DEF Letter
<1> DEFINE l == Letters(line[x])[y]
           here == <<x, y>>
<1>3. here \in Spots /\ LetterOf(here) = l /\ here \notin Seen
  <2>1. here \in Spots /\ LetterOf(here) = l
    BY <1>2 DEF AtLetter
  <2>2. x \in Nat /\ y \in Nat
    BY DEF MainTyped, MainTypeOK
  <2> QED BY <2>1, <2>2 DEF Seen
<1>4. \/ l \in LetterSwitches /\ Excludes(l)
      \/ l \in LetterSwitches /\ l \in optionBits
      \/ l \notin LetterSwitches \cup {"m", "v"}
  BY <1>1 DEF Letter, SetOption
<1>5. Seen \subseteq Spots
  BY DEF Seen
<1> HIDE DEF here
<1>6. CASE l \in LetterSwitches /\ Excludes(l)
  <2>1. \/ l = "x" /\ "y" \in optionBits
        \/ l = "y" /\ "x" \in optionBits
    BY <1>6 DEF Excludes
  <2>2. "x" \in Known /\ "y" \in Known
    BY DEF Known, LetterSwitches
  <2>3. \/ l = "x" /\ \E s \in Spots : LetterOf(s) = "y"
        \/ l = "y" /\ \E s \in Spots : LetterOf(s) = "x"
    <3>1. "y" \in optionBits => \E s \in Spots : LetterOf(s) = "y"
      BY <1>5, <2>2 DEF SwitchesRead
    <3>2. "x" \in optionBits => \E s \in Spots : LetterOf(s) = "x"
      BY <1>5, <2>2 DEF SwitchesRead
    <3> QED BY <2>1, <3>1, <3>2
  <2>4. {"x", "y"} \subseteq Asked
    BY <1>1, <1>3, <2>3, LettersSeen
  <2> QED BY <2>4 DEF WellFormed
<1>7. CASE l \in LetterSwitches /\ l \in optionBits
  <2>1. l \in Known
    BY <1>7 DEF Known
  <2>2. PICK s \in Seen : LetterOf(s) = l
    BY <1>7, <2>1 DEF SwitchesRead
  <2> QED BY <1>1, <1>3, <1>5, <2>1, <2>2, ComesTwice
<1>8. CASE l \notin LetterSwitches \cup {"m", "v"}
  <2>1. l \in Range(Letters(line[x]))
    BY <1>2 DEF AtLetter, Range
  <2>2. ~Expected(x) /\ x \in 1..(Len(line) - 1)
    BY <1>2, <1>8, <2>1 DEF AtLetter, Expected
  <2> QED BY <2>2 DEF WellFormed
<1> QED BY <1>4, <1>6, <1>7, <1>8

LEMMA RestRefusedRightly ==
  ASSUME MainTyped, tool = "filedump", rc = "valid", ArgumentsRead, SwitchesRead,
         rc' # "valid", LastArgument \/ NotSwitches \/ (Finish /\ pc = "args")
  PROVE  ~WellFormed
<1>1. line \in Seq(Arguments) /\ args = line /\ Len(line) \in Nat /\ x \in 1..(Len(line) + 1)
  BY DEF MainTyped, MainTypeOK, Shape
<1>2. CASE LastArgument
  <2>1. x = Len(line) /\ ~(~Dashed(line[x]) /\ line[x] \in Files)
    BY <1>1, <1>2 DEF LastArgument, Help, Dashed
  <2> QED BY <2>1 DEF WellFormed
<1>3. CASE NotSwitches
  <2>1. pc = "args" /\ x < Len(line) /\ ~Dashed(line[x])
    BY <1>1, <1>3 DEF NotSwitches, AtArgument
  <2>2. ~RangeEndAt(x) /\ x \in 1..Len(line) /\ x \in 1..(Len(line) - 1)
    BY <1>1, <2>1 DEF ArgumentsRead
  <2>3. ~ValueAt(x)
    BY <2>2, NoValueHere
  <2>4. ~Expected(x)
    BY <2>1, <2>2, <2>3 DEF Expected
  <2> QED BY <2>2, <2>4 DEF WellFormed
<1>4. CASE Finish /\ pc = "args"
  <2>1. "c" \in optionBits /\ optionBits \cap ((BlockSwitches \ {"f", "S"}) \cup ItemSwitches) # {}
    BY <1>4 DEF Finish
  <2>2. PICK l : l \in optionBits /\ l \in (BlockSwitches \ {"f", "S"}) \cup ItemSwitches
    BY <2>1
  <2>3. "c" \in Known /\ l \in Known /\ l \notin {"c", "f", "S", "m", "v", "s", "n"}
    BY <2>2 DEF Known, LetterSwitches, ValueSwitches, BlockSwitches, ItemSwitches
  <2>4. \E s \in Spots : LetterOf(s) = "c"
    BY <2>1, <2>3 DEF SwitchesRead, Seen
  <2>5. \E s \in Spots : LetterOf(s) = l
    BY <2>2, <2>3 DEF SwitchesRead, Seen
  <2>6. "c" \in Asked /\ l \in Asked
    BY <1>1, <2>4, <2>5, LettersSeen
  <2> QED BY <2>3, <2>6 DEF WellFormed
<1> QED BY <1>2, <1>3, <1>4

-------------------------------------------------------------------------------
(* What keeps the line acceptable so far. *)
LEMMA LetterAdded ==
  ASSUME SwitchesRead, UNCHANGED line, NEW here \in Spots, Seen' = Seen \cup {here},
         \/ /\ LetterOf(here) \in Known \ optionBits /\ optionBits' = optionBits \cup {LetterOf(here)}
            /\ (isRelMapFile' <=> isRelMapFile) /\ ~({"x", "y"} \subseteq optionBits')
         \/ /\ LetterOf(here) \in {"m", "v"} /\ optionBits' = optionBits
            /\ isRelMapFile' <=> (isRelMapFile \/ LetterOf(here) = "m")
  PROVE  SwitchesRead'
<1>1. \A s : LetterOf(s)' = LetterOf(s)
  BY LineKept
<1>2. Known \cap {"m", "v"} = {}
  BY DEF Known, LetterSwitches, ValueSwitches
<1>3. Known' = Known
  OBVIOUS
<1> DEFINE l == LetterOf(here)
<1> HIDE DEF l, LetterOf
<1>4. /\ \A s \in Seen : LetterOf(s) \in Known \cup {"m", "v"}
      /\ \A k \in Known : k \in optionBits <=> \E s \in Seen : LetterOf(s) = k
      /\ \A s, t \in Seen : LetterOf(s) = LetterOf(t) /\ LetterOf(s) \in Known => s = t
      /\ isRelMapFile <=> \E s \in Seen : LetterOf(s) = "m"
      /\ ~({"x", "y"} \subseteq optionBits)
  BY DEF SwitchesRead
<1>5. \/ /\ l \in Known \ optionBits /\ optionBits' = optionBits \cup {l}
         /\ (isRelMapFile' <=> isRelMapFile) /\ ~({"x", "y"} \subseteq optionBits')
      \/ /\ l \in {"m", "v"} /\ optionBits' = optionBits
         /\ isRelMapFile' <=> (isRelMapFile \/ l = "m")
  BY DEF l
<1>6. \A s \in Seen' : s \in Seen \/ s = here
  OBVIOUS
<1>7. \A s \in Seen' : LetterOf(s) \in Known \cup {"m", "v"}
  BY <1>4, <1>5, <1>6 DEF l
<1>8. \A k \in Known : k \in optionBits' <=> \E s \in Seen' : LetterOf(s) = k
  BY <1>2, <1>4, <1>5 DEF l
<1>9. \A s, t \in Seen' : LetterOf(s) = LetterOf(t) /\ LetterOf(s) \in Known => s = t
  <2>1. CASE l \in {"m", "v"}
    BY <1>2, <1>4, <1>6, <2>1 DEF l
  <2>2. CASE l \in Known \ optionBits
    <3>1. \A s \in Seen : LetterOf(s) # l
      BY <1>4, <2>2
    <3> QED BY <1>4, <1>6, <3>1 DEF l
  <2> QED BY <1>5, <2>1, <2>2
<1>10. isRelMapFile' <=> \E s \in Seen' : LetterOf(s) = "m"
  BY <1>2, <1>4, <1>5 DEF l
<1>11. ~({"x", "y"} \subseteq optionBits')
  BY <1>4, <1>5
<1> QED BY <1>1, <1>7, <1>8, <1>9, <1>10, <1>11 DEF SwitchesRead

LEMMA NoLetterAdded ==
  ASSUME SwitchesRead, UNCHANGED <<line, optionBits, isRelMapFile>>, Seen' = Seen
  PROVE  SwitchesRead'
<1>1. \A s : LetterOf(s)' = LetterOf(s)
  BY LineKept
<1> QED BY <1>1 DEF SwitchesRead, Known

LEMMA SeenSkips ==
  ASSUME MainTyped, tool = "filedump", AtSwitch, UNCHANGED line, pc = "args", pc' = "args",
         NEW k \in {2, 3}, x' = x + k, ~Dashed(line[x + 1]), k = 3 => ~Dashed(line[x + 2])
  PROVE  Seen' = Seen \cup {<<x, 1>>}
<1>1. Spots' = Spots /\ x \in Int
  BY LineKept DEF MainTyped, MainTypeOK
<1>2. LettersAt(x + 1) = <<>> /\ (k = 3 => LettersAt(x + 2) = <<>>)
  BY DEF LettersAt
<1>3. LettersAt(x) = <<Switch>> /\ <<x, 1>> \in Spots
  BY DEF AtSwitch
<1>4. \A s \in Spots : /\ s[1] \in Nat /\ s[2] \in DOMAIN LettersAt(s[1]) /\ s = <<s[1], s[2]>>
  BY DEF MainTyped, Shape, Spots
<1>5. ASSUME NEW s \in Spots, s[1] < x + k PROVE s[1] < x \/ s = <<x, 1>>
  <2>1. s[1] < x \/ s[1] = x \/ s[1] = x + 1 \/ (k = 3 /\ s[1] = x + 2)
    BY <1>1, <1>4, <1>5
  <2>2. CASE s[1] = x
    <3>1. s[2] \in DOMAIN <<Switch>>
      BY <1>3, <1>4, <2>2
    <3>2. s[2] = 1
      BY <3>1
    <3> QED BY <1>4, <2>2, <3>2
  <2>3. CASE s[1] = x + 1
    <3>1. s[2] \in DOMAIN <<>>
      BY <1>2, <1>4, <2>3
    <3> QED BY <3>1
  <2>4. CASE k = 3 /\ s[1] = x + 2
    <3>1. s[2] \in DOMAIN <<>>
      BY <1>2, <1>4, <2>4
    <3> QED BY <3>1
  <2> QED BY <2>1, <2>2, <2>3, <2>4
<1>6. Seen = {s \in Spots : s[1] < x}
  BY DEF Seen
<1>7. Seen' = {s \in Spots : s[1] < x + k}
  BY <1>1 DEF Seen
<1>8. \A s \in Spots : s[1] < x => s[1] < x + k
  BY <1>1, <1>4
<1>9. <<x, 1>>[1] < x + k
  BY <1>1
<1> QED BY <1>3, <1>5, <1>6, <1>7, <1>8, <1>9

(* A value that is taken, and the end of a range with it.                  *)
ValueAccepted(k) ==
  /\ Switch \notin optionBits /\ optionBits' = optionBits \cup {Switch}
  /\ x' = x + k /\ x < Len(line) - 1 /\ pc' = "args"
  /\ ValueGood(Switch, line[x + 1])
  /\ k = 2 => Switch # "R" \/ ~(x + 2 < Len(line) /\ GetOptionValue(line[x + 2]) >= 0)
  /\ k = 3 => /\ Switch = "R" /\ x + 2 < Len(line) /\ GetOptionValue(line[x + 2]) >= 0
             /\ GetOptionValue(line[x + 1]) <= GetOptionValue(line[x + 2])
  /\ UNCHANGED <<line, args, isRelMapFile, y, opened>>

LEMMA ValueTakenShape ==
  ASSUME MainTyped, tool = "filedump", rc = "valid", rc' = "valid", ConsumeFrame,
         ValueTaken \/ RangeTaken
  PROVE  \E k \in {2, 3} : ValueAccepted(k)
<1>1. args = line /\ line' = line /\ pc = "args"
  BY DEF MainTyped, Shape, ConsumeFrame, ValueTaken, RangeTaken, AtValued, AtArgument
<1>2. CASE ValueTaken
  <2>1. ValueAccepted(2)
    <3>1. x < Len(line) - 1 /\ pc' = "args"
      BY <1>1, <1>2 DEF ValueTaken, Lacks, MainTyped, MainTypeOK
    <3> QED BY <1>1, <1>2, <3>1 DEF ValueTaken, ValueAccepted, Repeated
  <2> QED BY <2>1
<1>3. CASE RangeTaken
  <2>1. x < Len(line) - 1 /\ pc' = "args" /\ Switch = "R" /\ "R" \notin optionBits
        /\ optionBits' = optionBits \cup {"R"} /\ ValueGood("R", line[x + 1])
        /\ UNCHANGED <<isRelMapFile, y, opened>>
    BY <1>1, <1>3 DEF RangeTaken, Lacks, MainTyped, MainTypeOK, Repeated
  <2>2. CASE HasEnd
    <3>1. x' = x + 3 /\ GetOptionValue(line[x + 1]) <= GetOptionValue(line[x + 2])
      BY <1>1, <1>3, <2>2 DEF RangeTaken
    <3>2. x + 2 < Len(line) /\ GetOptionValue(line[x + 2]) >= 0
      BY <1>1, <2>2 DEF HasEnd
    <3>3. ValueAccepted(3)
      BY <1>1, <2>1, <3>1, <3>2 DEF ValueAccepted, ConsumeFrame
    <3> QED BY <3>3
  <2>3. CASE ~HasEnd
    <3>1. x' = x + 2
      BY <1>1, <1>3, <2>3 DEF RangeTaken
    <3>2. ~(x + 2 < Len(line) /\ GetOptionValue(line[x + 2]) >= 0)
      BY <1>1, <2>3 DEF HasEnd
    <3>3. ValueAccepted(2)
      BY <1>1, <2>1, <3>1, <3>2 DEF ValueAccepted, ConsumeFrame
    <3> QED BY <3>3
  <2> QED BY <2>2, <2>3
<1> QED BY <1>2, <1>3

(* Behind the arguments a step has gone past, all of them are as they      *)
(* should be.                                                              *)
Past(i, end) == /\ i < Len(line) => Expected(i)
                /\ HasValue(i) /\ InOrder(i) /\ (Valued(line[i]) => i + 1 < end)

LEMMA PastKept ==
  ASSUME MainTyped, ArgumentsRead, UNCHANGED line, NEW end \in Nat, x' = end, end >= x,
         \A i \in x..(end - 1) : Past(i, end)
  PROVE  \A i \in 1..(x' - 1) : /\ i < Len(line') => Expected(i)'
                                /\ HasValue(i)' /\ InOrder(i)' /\ (Valued(line[i])' => i + 1 < x')
<1>1. x \in Nat
  BY DEF MainTyped, MainTypeOK
<1>2. ASSUME NEW i \in 1..(end - 1) PROVE Past(i, end)
  <2>1. CASE i < x
    <3>1. i \in 1..(x - 1)
      BY <1>1, <2>1
    <3> QED BY <1>1, <3>1 DEF ArgumentsRead, Past
  <2>2. CASE i >= x
    <3>1. i \in x..(end - 1)
      BY <1>1, <2>2
    <3> QED BY <3>1
  <2> QED BY <1>1, <2>1, <2>2
<1> QED BY <1>2, LineKept DEF Past

LEMMA RangeEndNext ==
  ASSUME UNCHANGED line, NEW i, x' = i
  PROVE  RangeEndAt(x)' <=> RangeEndAt(i)
BY DEF RangeEndAt

(* Nothing but -R takes a second value. *)
LEMMA NoRangeEnd ==
  ASSUME MainTyped, ArgumentsRead, NEW i \in Int, i - 2 \in 1..(x - 1), i - 1 >= x
  PROVE  ~RangeEndAt(i)
<1> SUFFICES ASSUME RangeEndAt(i) PROVE FALSE
  OBVIOUS
<1>1. line \in Seq(Arguments) /\ x \in Nat
  BY DEF MainTyped, MainTypeOK, Shape
<1>2. Valued(line[i - 2])
  BY <1>1, RangeEndIs
<1>3. (i - 2) + 1 < x
  BY <1>2 DEF ArgumentsRead
<1> QED BY <1>1, <1>3

LEMMA ValueKeepsReading ==
  ASSUME MainTyped, tool = "filedump", pc = "args", ArgumentsRead, SwitchesRead, AtSwitch,
         NEW k \in {2, 3}, ValueAccepted(k)
  PROVE  ArgumentsRead' /\ SwitchesRead'
<1>1. /\ line \in Seq(Arguments) /\ Len(line) \in Nat /\ x \in 1..Len(line) /\ x < Len(line) - 1
      /\ x' = x + k /\ line' = line /\ pc' = "args"
  BY DEF MainTyped, Shape, ValueAccepted, AtSwitch
<1>2. line[x + 1] \in Arguments /\ x + 1 \in DOMAIN line
  BY <1>1
<1>3. ~Dashed(line[x + 1])
  BY <1>2, ValuesNotDashed DEF AtSwitch, ValueAccepted
<1>4. ~RangeEndAt(x)
  BY <1>1 DEF ArgumentsRead
<1>5. ASSUME x - 1 >= 1 PROVE ~RangeEndAt(x + 1)
  <2>1. (x + 1) - 2 \in 1..(x - 1) /\ (x + 1) - 1 >= x /\ x + 1 \in Int
    BY <1>1, <1>5
  <2> QED BY <2>1, NoRangeEnd
<1>6. ~RangeEndAt(x + 1)
  <2>1. x - 1 < 1 => ~(x + 1 > 2)
    BY <1>1
  <2>2. CASE x - 1 >= 1
    BY <1>5, <2>2
  <2>3. CASE x - 1 < 1
    BY <2>1, <2>3 DEF RangeEndAt
  <2> QED BY <1>1, <2>2, <2>3
<1>7. Past(x, x')
  <2>1. Valued(line[x]) /\ Letters(line[x])[1] = Switch /\ Dashed(line[x])
    BY DEF AtSwitch, Valued
  <2>2. Expected(x)
    BY <2>1 DEF Expected
  <2>3. HasValue(x)
    BY <2>1 DEF HasValue, ValueAccepted
  <2>4. x + 1 < x'
    BY <1>1
  <2> QED BY <1>4, <2>2, <2>3, <2>4 DEF Past, InOrder
<1>8. ~Valued(line[x + 1])
  BY <1>3 DEF Valued
<1>9. Past(x + 1, x')
  <2>1. ValueAt(x + 1)
    <3>1. (x + 1) - 1 = x /\ x + 1 > 1
      BY <1>1
    <3> QED BY <3>1 DEF ValueAt, AtSwitch
  <2>2. Expected(x + 1)
    BY <1>3, <2>1 DEF Expected
  <2> QED BY <1>6, <1>8, <2>2 DEF Past, HasValue, InOrder
<1> DEFINE Gone == \A i \in 1..(x' - 1) : /\ i < Len(line') => Expected(i)'
                                          /\ HasValue(i)' /\ InOrder(i)' /\ (Valued(line[i])' => i + 1 < x')
           Goes == /\ Gone
                   /\ ~RangeEndAt(x)' /\ x' # Len(line') + 1
                   /\ Seen' = Seen \cup {<<x, 1>>}
<1>10. ASSUME k = 2 PROVE Goes
  <2>1. \A i \in x..(x' - 1) : i = x \/ i = x + 1
    BY <1>1, <1>10
  <2>2. \A i \in x..(x' - 1) : Past(i, x')
    BY <1>7, <1>9, <2>1
  <2>3. ~RangeEndAt(x + 2)
    <3> SUFFICES ASSUME RangeEndAt(x + 2) PROVE FALSE
      OBVIOUS
    <3>1. x + 2 \in Int /\ (x + 2) - 2 = x
      BY <1>1
    <3>2. Letters(line[x])[1] = "R"
      BY <1>1, <3>1, RangeEndIs
    <3>3. Switch = "R"
      BY <3>2 DEF AtSwitch
    <3>4. x + 2 < Len(line) /\ GetOptionValue(line[x + 2]) >= 0
      BY DEF RangeEndAt
    <3> QED BY <1>10, <3>3, <3>4 DEF ValueAccepted
  <2>4. Gone
    BY <1>1, <2>2, PastKept
  <2>5. ~RangeEndAt(x)' /\ x' # Len(line') + 1
    <3>1. RangeEndAt(x)' <=> RangeEndAt(x + 2)
      BY <1>1, <1>10, RangeEndNext
    <3>2. x' # Len(line') + 1
      BY <1>1, <1>10
    <3> QED BY <2>3, <3>1, <3>2
  <2>6. Seen' = Seen \cup {<<x, 1>>}
    BY <1>1, <1>3, <1>10, SeenSkips
  <2> HIDE DEF Gone
  <2> QED BY <2>4, <2>5, <2>6
<1>11. ASSUME k = 3 PROVE Goes
  <2>1. /\ Switch = "R" /\ x + 2 < Len(line) /\ GetOptionValue(line[x + 2]) >= 0
        /\ GetOptionValue(line[x + 1]) <= GetOptionValue(line[x + 2])
    BY <1>11 DEF ValueAccepted
  <2>2. (x + 2) - 2 = x /\ (x + 2) - 1 = x + 1 /\ x + 2 > 2 /\ x + 2 \in Int
    BY <1>1
  <2>3. RangeEndAt(x + 2)
    BY <2>1, <2>2 DEF RangeEndAt, AtSwitch
  <2>4. ~Dashed(line[x + 2])
    BY <1>1, <2>2, <2>3, RangeEndIs
  <2>5. Past(x + 2, x')
    BY <2>1, <2>2, <2>3, <2>4 DEF Past, Expected, HasValue, Valued, InOrder
  <2>6. \A i \in x..(x' - 1) : i = x \/ i = x + 1 \/ i = x + 2
    BY <1>1, <1>11
  <2>7. \A i \in x..(x' - 1) : Past(i, x')
    BY <1>7, <1>9, <2>5, <2>6
  <2>8. ~RangeEndAt(x + 3)
    <3> SUFFICES ASSUME RangeEndAt(x + 3) PROVE FALSE
      OBVIOUS
    <3>1. x + 3 \in Int /\ (x + 3) - 2 = x + 1
      BY <1>1
    <3>2. Valued(line[x + 1])
      BY <1>1, <3>1, RangeEndIs
    <3> QED BY <1>8, <3>2
  <2>9. Gone
    BY <1>1, <2>7, PastKept
  <2>10. ~RangeEndAt(x)' /\ x' # Len(line') + 1
    <3>1. RangeEndAt(x)' <=> RangeEndAt(x + 3)
      BY <1>1, <1>11, RangeEndNext
    <3>2. x' # Len(line') + 1
      BY <1>1, <1>11, <2>1
    <3> QED BY <2>8, <3>1, <3>2
  <2>11. Seen' = Seen \cup {<<x, 1>>}
    BY <1>1, <1>3, <1>11, <2>4, SeenSkips
  <2> HIDE DEF Gone
  <2> QED BY <2>9, <2>10, <2>11
<1>12. Goes
  <2> HIDE DEF Goes
  <2> QED BY <1>10, <1>11
<1>13. ArgumentsRead'
  BY <1>1, <1>12 DEF ArgumentsRead
<1>14. SwitchesRead'
  <2>1. <<x, 1>> \in Spots /\ LetterOf(<<x, 1>>) = Switch /\ Switch \in ValueSwitches
    BY DEF AtSwitch
  <2>2. Switch \in Known \ optionBits /\ optionBits' = optionBits \cup {Switch} /\ isRelMapFile' = isRelMapFile
    BY <2>1 DEF ValueAccepted, Known
  <2>3. ~({"x", "y"} \subseteq optionBits')
    <3>1. "x" \notin ValueSwitches /\ "y" \notin ValueSwitches
      BY DEF ValueSwitches
    <3>2. ~({"x", "y"} \subseteq optionBits)
      BY DEF SwitchesRead
    <3> QED BY <2>1, <2>2, <3>1, <3>2
  <2> QED BY <1>1, <1>12, <2>1, <2>2, <2>3, LetterAdded
<1> QED BY <1>13, <1>14

LEMMA FileKeepsReading ==
  ASSUME MainTyped, tool = "filedump", rc' = "valid", ConsumeFrame, ArgumentsRead, SwitchesRead,
         LastArgument
  PROVE  ArgumentsRead' /\ SwitchesRead'
<1>1. /\ line \in Seq(Arguments) /\ Len(line) \in Nat /\ x \in 1..Len(line) /\ x = Len(line)
      /\ line' = line /\ args = line /\ pc = "args"
  BY DEF MainTyped, MainTypeOK, Shape, ConsumeFrame, LastArgument, AtArgument
<1>2. /\ ~Dashed(line[x]) /\ line[x] \in Files /\ opened' = TRUE /\ x' = x + 1 /\ pc' = "args"
      /\ UNCHANGED <<optionBits, isRelMapFile>>
  BY <1>1 DEF LastArgument
<1>3. Past(x, x + 1)
  <2>1. ~RangeEndAt(x)
    BY <1>1 DEF ArgumentsRead
  <2> QED BY <1>1, <1>2, <2>1 DEF Past, HasValue, InOrder, Valued
<1>4. \A i \in x..((x + 1) - 1) : Past(i, x + 1)
  <2>1. \A i \in x..((x + 1) - 1) : i = x
    BY <1>1
  <2> QED BY <1>3, <2>1
<1>5. \A i \in 1..(x' - 1) : /\ i < Len(line') => Expected(i)'
                             /\ HasValue(i)' /\ InOrder(i)' /\ (Valued(line[i])' => i + 1 < x')
  <2>1. x + 1 \in Nat /\ x + 1 >= x
    BY <1>1
  <2> QED BY <1>1, <1>2, <1>4, <2>1, PastKept
<1>6. ArgumentsRead'
  <2>1. line # <<>>
    BY <1>1
  <2>2. ~(x' <= Len(line'))
    BY <1>1, <1>2
  <2> QED BY <1>1, <1>2, <1>5, <2>1, <2>2 DEF ArgumentsRead
<1>7. Seen' = Seen
  <2>1. Spots' = Spots
    BY <1>1, LineKept
  <2>2. LettersAt(x) = <<>>
    BY <1>2 DEF LettersAt
  <2>3. \A s \in Spots : s[1] \in Nat /\ s[1] # x
    <3>1. \A s \in Spots : s[1] \in Nat /\ s[2] \in DOMAIN LettersAt(s[1])
      BY <1>1 DEF Spots
    <3>2. \A j : j \notin DOMAIN <<>>
      OBVIOUS
    <3> QED BY <2>2, <3>1, <3>2
  <2>4. \A s \in Spots : s[1] < x + 1 <=> s[1] < x
    BY <1>1, <2>3
  <2> QED BY <1>1, <1>2, <2>1, <2>4 DEF Seen
<1>8. SwitchesRead'
  BY <1>1, <1>2, <1>7, NoLetterAdded
<1> QED BY <1>6, <1>8

LEMMA OpeningKeepsReading ==
  ASSUME MainTyped, tool = "filedump", ConsumeFrame, ArgumentsRead, SwitchesRead, OpenGroup
  PROVE  ArgumentsRead' /\ SwitchesRead'
<1>1. /\ line' = line /\ args = line /\ pc = "args" /\ pc' = "letters" /\ x' = x /\ y' = 1
      /\ x < Len(line) /\ x \in Nat /\ line \in Seq(Arguments)
      /\ UNCHANGED <<optionBits, isRelMapFile, opened>>
  BY DEF MainTyped, MainTypeOK, Shape, ConsumeFrame, OpenGroup, AtArgument, optionVars
<1>2. ArgumentsRead'
  <2>1. \A i \in 1..(x' - 1) : /\ i < Len(line') => Expected(i)'
                               /\ HasValue(i)' /\ InOrder(i)' /\ (Valued(line[i])' => i + 1 < x')
    <3>1. \A i \in x..(x - 1) : Past(i, x)
      BY <1>1
    <3>2. x >= x
      BY <1>1
    <3> QED BY <1>1, <3>1, <3>2, PastKept
  <2>2. x' # Len(line') + 1 /\ 1..(y' - 1) = {}
    BY <1>1
  <2> QED BY <1>1, <2>1, <2>2 DEF ArgumentsRead
<1>3. Seen' = Seen
  <2>1. Spots' = Spots
    BY <1>1, LineKept
  <2>2. \A s \in Spots : ~(s[2] < 1)
    <3>1. \A s \in Spots : s[1] \in DOMAIN line /\ s[2] \in DOMAIN LettersAt(s[1])
      BY DEF Spots
    <3>2. \A i \in DOMAIN line : LettersAt(i) \in Seq(Chars)
      BY <1>1, LettersSeen
    <3> QED BY <3>1, <3>2
  <2> QED BY <1>1, <2>1, <2>2 DEF Seen
<1> QED BY <1>1, <1>2, <1>3, NoLetterAdded

LEMMA LetterKeepsReading ==
  ASSUME MainTyped, tool = "filedump", rc = "valid", rc' = "valid", ConsumeFrame,
         ArgumentsRead, SwitchesRead, Letter
  PROVE  ArgumentsRead' /\ SwitchesRead'
<1>1. /\ line \in Seq(Arguments) /\ args = line /\ line' = line /\ pc = "letters" /\ pc' = "letters"
      /\ x' = x /\ y' = y + 1 /\ x \in Nat /\ y \in Nat /\ opened' = opened
  BY DEF MainTyped, MainTypeOK, Shape, ConsumeFrame, Letter
<1>2. AtLetter
  BY <1>1, LetterHere DEF Letter
<1> DEFINE l == Letters(line[x])[y]
           here == <<x, y>>
<1>3. \/ /\ l \in LetterSwitches /\ ~Excludes(l) /\ l \notin optionBits /\ optionBits' = optionBits \cup {l}
         /\ isRelMapFile' = (isRelMapFile \/ l = "m")
      \/ /\ l \in {"m", "v"} /\ optionBits' = optionBits /\ isRelMapFile' = (isRelMapFile \/ l = "m")
  BY <1>1 DEF Letter, SetOption
<1>4. here \in Spots /\ LetterOf(here) = l /\ x < Len(line) /\ y >= 1
  BY <1>2 DEF AtLetter
<1>5. Seen' = Seen \cup {here}
  <2>1. Spots' = Spots
    BY <1>1, LineKept
  <2>2. \A s \in Spots : s = <<s[1], s[2]>> /\ s[2] \in Nat
    BY DEF Spots
  <2>3. \A s \in Spots : s[1] = x /\ s[2] < y + 1 <=> (s[1] = x /\ s[2] < y) \/ s = here
    BY <1>1, <2>2
  <2>4. Seen = {s \in Spots : s[1] < x \/ (s[1] = x /\ s[2] < y)}
    BY <1>1 DEF Seen
  <2>5. Seen' = {s \in Spots : s[1] < x \/ (s[1] = x /\ s[2] < y + 1)}
    BY <1>1, <2>1 DEF Seen
  <2> HIDE DEF here
  <2> QED BY <1>4, <2>3, <2>4, <2>5
<1> HIDE DEF l, here
<1>6. SwitchesRead'
  <2>1. CASE l \in {"m", "v"} /\ optionBits' = optionBits /\ isRelMapFile' = (isRelMapFile \/ l = "m")
    BY <1>1, <1>4, <1>5, <2>1, LetterAdded
  <2>2. CASE l \in LetterSwitches /\ ~Excludes(l) /\ l \notin optionBits /\ optionBits' = optionBits \cup {l}
             /\ isRelMapFile' = (isRelMapFile \/ l = "m")
    <3>1. l \in Known \ optionBits /\ l # "m"
      BY <2>2 DEF Known, LetterSwitches
    <3>2. isRelMapFile' <=> isRelMapFile
      BY <2>2, <3>1
    <3>3. ~({"x", "y"} \subseteq optionBits')
      <4>1. ~({"x", "y"} \subseteq optionBits)
        BY DEF SwitchesRead
      <4> QED BY <2>2, <4>1 DEF Excludes
    <3> QED BY <1>1, <1>4, <1>5, <2>2, <3>1, <3>2, <3>3, LetterAdded
  <2> QED BY <1>3, <2>1, <2>2
<1>7. ArgumentsRead'
  <2>1. \A i \in 1..(x' - 1) : /\ i < Len(line') => Expected(i)'
                               /\ HasValue(i)' /\ InOrder(i)' /\ (Valued(line[i])' => i + 1 < x')
    <3>1. \A i \in x..(x - 1) : Past(i, x)
      BY <1>1
    <3>2. x >= x
      BY <1>1
    <3> QED BY <1>1, <3>1, <3>2, PastKept
  <2>2. x' # Len(line') + 1
    BY <1>1, <1>4
  <2>3. \A j \in 1..(y' - 1) : Letters(line'[x'])[j] \in LetterSwitches \cup {"m", "v"}
    <3>1. \A j \in 1..(y' - 1) : j \in 1..(y - 1) \/ j = y
      BY <1>1
    <3>2. \A j \in 1..(y - 1) : Letters(line[x])[j] \in LetterSwitches \cup {"m", "v"}
      BY <1>1 DEF ArgumentsRead
    <3>3. Letters(line[x])[y] \in LetterSwitches \cup {"m", "v"}
      BY <1>3 DEF l
    <3> QED BY <1>1, <3>1, <3>2, <3>3
  <2> QED BY <1>1, <2>1, <2>2, <2>3 DEF ArgumentsRead
<1> QED BY <1>6, <1>7

LEMMA ClosingKeepsReading ==
  ASSUME MainTyped, tool = "filedump", ConsumeFrame, ArgumentsRead, SwitchesRead, CloseGroup
  PROVE  ArgumentsRead' /\ SwitchesRead'
<1>1. /\ line' = line /\ args = line /\ pc = "letters" /\ pc' = "args" /\ x' = x + 1
      /\ line \in Seq(Arguments) /\ y > Len(Letters(line[x])) /\ y \in Nat /\ InGroup
      /\ UNCHANGED <<optionBits, isRelMapFile, opened, y>>
  BY DEF MainTyped, MainTypeOK, Shape, ConsumeFrame, CloseGroup, optionVars
<1>2. x \in 1..Len(line) /\ x < Len(line) /\ Dashed(line[x]) /\ ~Valued(line[x]) /\ line[x] \in Arguments
  BY <1>1 DEF InGroup, MainTyped, MainTypeOK
<1>3. Letters(line[x]) \in Seq(Chars) /\ LettersAt(x) = Letters(line[x])
  BY <1>2, ArgumentKinds DEF LettersAt
<1>4. ~RangeEndAt(x)
  BY <1>1, <1>2, RangeEndIs
<1>5. Range(Letters(line[x])) \subseteq LetterSwitches \cup {"m", "v"}
  <2>1. \A j \in 1..(y - 1) : Letters(line[x])[j] \in LetterSwitches \cup {"m", "v"}
    BY <1>1 DEF ArgumentsRead
  <2>2. DOMAIN Letters(line[x]) \subseteq 1..(y - 1)
    BY <1>1, <1>3
  <2> QED BY <2>1, <2>2 DEF Range
<1>6. \A i \in x..((x + 1) - 1) : Past(i, x + 1)
  <2>1. \A i \in x..((x + 1) - 1) : i = x
    BY <1>2
  <2> QED BY <1>2, <1>4, <1>5, <2>1 DEF Past, Expected, HasValue, InOrder
<1>7. \A i \in 1..(x' - 1) : /\ i < Len(line') => Expected(i)'
                             /\ HasValue(i)' /\ InOrder(i)' /\ (Valued(line[i])' => i + 1 < x')
  <2>1. x + 1 \in Nat /\ x + 1 >= x
    BY <1>2
  <2> QED BY <1>1, <1>6, <2>1, PastKept
<1>8. ~RangeEndAt(x)'
  <2>1. CASE x - 1 >= 1
    <3>1. (x + 1) - 2 \in 1..(x - 1) /\ (x + 1) - 1 >= x /\ x + 1 \in Int
      BY <1>2, <2>1
    <3>2. ~RangeEndAt(x + 1)
      BY <3>1, NoRangeEnd
    <3> QED BY <1>1, <3>2, RangeEndNext
  <2>2. CASE x - 1 < 1
    <3>1. ~(x + 1 > 2)
      BY <1>2, <2>2
    <3>2. ~RangeEndAt(x + 1)
      BY <3>1 DEF RangeEndAt
    <3> QED BY <1>1, <3>2, RangeEndNext
  <2> QED BY <1>2, <2>1, <2>2
<1>9. x' # Len(line') + 1
  BY <1>1, <1>2
<1>10. ArgumentsRead'
  BY <1>1, <1>7, <1>8, <1>9 DEF ArgumentsRead
<1>11. Seen' = Seen
  <2>1. Spots' = Spots
    BY <1>1, LineKept
  <2>2. ASSUME NEW s \in Spots PROVE s[1] \in Nat /\ (s[1] = x => s[2] < y)
    <3>1. s[1] \in Nat /\ s[2] \in DOMAIN LettersAt(s[1]) /\ s[2] \in Nat
      BY <1>1 DEF Spots
    <3> QED BY <1>1, <1>3, <3>1
  <2>3. \A s \in Spots : s[1] < x + 1 <=> (s[1] < x \/ (s[1] = x /\ s[2] < y))
    BY <1>2, <2>2
  <2> QED BY <1>1, <2>1, <2>3 DEF Seen
<1> QED BY <1>1, <1>10, <1>11, NoLetterAdded

(* Behind the last argument, the line is well formed, but for options that *)
(* -c does not take.                                                       *)
Mixed == "c" \in optionBits /\ optionBits \cap ((BlockSwitches \ {"f", "S"}) \cup ItemSwitches) # {}
LEMMA AllRead ==
  ASSUME MainTyped, tool = "filedump", pc = "args", x > Len(line), ArgumentsRead, SwitchesRead
  PROVE  /\ x = Len(line) + 1 /\ Seen = Spots /\ line # <<>> /\ opened
         /\ \A l \in Known : l \in optionBits <=> l \in Asked
         /\ Asked \subseteq Known \cup {"m", "v"}
         /\ optionBits = Asked \ {"m", "v"}
         /\ isRelMapFile <=> "m" \in Asked
         /\ ~Mixed => WellFormed
<1>1. /\ line \in Seq(Arguments) /\ args = line /\ Len(line) \in Nat /\ x = Len(line) + 1
      /\ optionBits \subseteq Known
  BY DEF MainTyped, MainTypeOK, Shape, Known
<1>2. Seen = Spots
  <2>1. \A s \in Spots : s[1] < x
    BY <1>1 DEF Spots
  <2> QED BY <2>1 DEF Seen
<1>3. Asked = {LetterOf(s) : s \in Spots}
  BY <1>1, LettersSeen
<1>4. \A l \in Known : l \in optionBits <=> l \in Asked
  BY <1>2, <1>3 DEF SwitchesRead
<1>5. Asked \subseteq Known \cup {"m", "v"}
  BY <1>2, <1>3 DEF SwitchesRead
<1>6. optionBits = Asked \ {"m", "v"}
  <2>1. Known \cap {"m", "v"} = {}
    BY DEF Known, LetterSwitches, ValueSwitches
  <2> QED BY <1>1, <1>4, <1>5, <2>1
<1>7. isRelMapFile <=> "m" \in Asked
  BY <1>2, <1>3 DEF SwitchesRead
<1>8. line # <<>> /\ ~Dashed(line[Len(line)]) /\ line[Len(line)] \in Files /\ opened
  BY <1>1 DEF ArgumentsRead
<1>9. \A i \in 1..Len(line) : (i < Len(line) => Expected(i)) /\ HasValue(i) /\ InOrder(i)
  BY <1>1 DEF ArgumentsRead
<1>10. \A l \in Asked \ {"m", "v"} : Once(l)
  <2> SUFFICES ASSUME NEW l \in Asked \ {"m", "v"} PROVE Once(l)
    OBVIOUS
  <2>1. l \in Known
    BY <1>5
  <2>2. \A s, t \in Spots : LetterOf(s) = l /\ LetterOf(t) = l => s = t
    BY <1>2, <2>1 DEF SwitchesRead
  <2> QED BY <1>1, <2>2, LettersSeen
<1>11. ~({"x", "y"} \subseteq Asked)
  BY <1>6 DEF SwitchesRead
<1>12. ASSUME ~Mixed
       PROVE  "c" \in Asked => Asked \subseteq {"c", "f", "S", "m", "v", "s", "n"}
  <2>1. Known = {"c", "f", "S", "s", "n"} \cup (BlockSwitches \ {"f", "S"}) \cup ItemSwitches
    BY DEF Known, LetterSwitches, ValueSwitches, BlockSwitches, ItemSwitches
  <2> QED BY <1>5, <1>6, <1>12, <2>1 DEF Mixed
<1>13. ASSUME ~Mixed PROVE WellFormed
  <2>1. \A i \in 1..(Len(line) - 1) : Expected(i)
    BY <1>1, <1>9
  <2>2. \A i \in 1..Len(line) : HasValue(i) /\ InOrder(i)
    BY <1>9
  <2>3. "c" \in Asked => Asked \subseteq {"c", "f", "S", "m", "v", "s", "n"}
    BY <1>12, <1>13
  <2> QED BY <1>8, <1>10, <1>11, <2>1, <2>2, <2>3 DEF WellFormed
<1> QED BY <1>1, <1>2, <1>4, <1>5, <1>6, <1>7, <1>8, <1>13

LEMMA ConsumeAccepting ==
  ASSUME MainTyped, Accepting, tool = "filedump", ConsumeOptions, ConsumeFrame
  PROVE  Accepting'
<1>1. /\ line' = line /\ tool' = tool /\ job' = job /\ pc \in {"args", "letters", "left"}
      /\ pc' \in {"args", "letters", "left", "checked"} /\ WellFormed' = WellFormed
  <2>1. line' = line /\ tool' = tool /\ job' = job
    BY DEF ConsumeFrame
  <2>2. pc \in {"args", "letters", "left"} /\ pc' \in {"args", "letters", "left", "checked"}
    BY DEF ConsumeOptions, ValueRepeated, ValueMissing, ValueRefused, ValueTaken, RangeTaken,
           LastArgument, NotSwitches, OpenGroup, Letter, CloseGroup, Finish, AtValued, AtArgument, optionVars
  <2> QED BY <2>1, <2>2, LineKept
<1>2. CASE rc # "valid"
  <2>1. ~WellFormed
    BY <1>2 DEF Accepting, Judged
  <2>2. rc' # "valid"
    BY <1>2 DEF ConsumeOptions, ValueRepeated, ValueMissing, ValueRefused, ValueTaken, RangeTaken,
           LastArgument, NotSwitches, OpenGroup, Letter, CloseGroup, Finish, SetOption, optionVars
  <2> QED BY <1>1, <2>1, <2>2 DEF Accepting, Judged
<1>3. CASE rc = "valid" /\ rc' # "valid"
  <2>1. Reading /\ ArgumentsRead /\ SwitchesRead
    BY <1>1, <1>3 DEF Accepting, Judged, Reading
  <2>2. ~WellFormed
    <3>1. CASE ValueRepeated \/ ValueMissing \/ ValueRefused \/ RangeTaken
      BY <1>3, <2>1, <3>1, ValueRefusedRightly
    <3>2. CASE Letter
      BY <1>3, <2>1, <3>2, LetterRefusedRightly
    <3>3. CASE LastArgument \/ NotSwitches
      BY <1>3, <2>1, <3>3, RestRefusedRightly
    <3>4. CASE Finish
      <4>1. pc = "args"
        BY <1>3, <2>1, <3>4 DEF Finish, Reading
      <4> QED BY <1>3, <2>1, <3>4, <4>1, RestRefusedRightly
    <3>5. CASE ValueTaken \/ OpenGroup \/ CloseGroup
      BY <1>3, <3>5 DEF ValueTaken, OpenGroup, CloseGroup, optionVars
    <3> QED BY <3>1, <3>2, <3>3, <3>4, <3>5 DEF ConsumeOptions
  <2> QED BY <1>1, <1>3, <2>2 DEF Accepting, Judged
<1>4. CASE rc = "valid" /\ rc' = "valid"
  <2>1. Reading /\ ArgumentsRead /\ SwitchesRead
    BY <1>1, <1>4 DEF Accepting, Judged, Reading
  <2>2. CASE ValueTaken \/ RangeTaken
    <3>1. PICK k \in {2, 3} : ValueAccepted(k)
      BY <1>4, <2>2, ValueTakenShape
    <3>2. AtSwitch /\ pc = "args"
      <4>1. AtValued
        BY <2>2 DEF ValueTaken, RangeTaken
      <4> QED BY <4>1, SwitchHere DEF AtValued, AtArgument
    <3>3. ArgumentsRead' /\ SwitchesRead'
      BY <2>1, <3>1, <3>2, ValueKeepsReading
    <3>4. pc' = "args"
      BY <3>1 DEF ValueAccepted
    <3> QED BY <1>4, <3>3, <3>4 DEF Accepting, Judged
  <2>3. CASE LastArgument \/ OpenGroup \/ Letter \/ CloseGroup
    <3>1. ArgumentsRead' /\ SwitchesRead'
      BY <1>4, <2>1, <2>3, FileKeepsReading, OpeningKeepsReading, LetterKeepsReading, ClosingKeepsReading
    <3>2. pc' \in {"args", "letters"}
      BY <1>4, <2>1, <2>3 DEF LastArgument, OpenGroup, Letter, CloseGroup, Reading
    <3> QED BY <1>4, <3>1, <3>2 DEF Accepting, Judged
  <2>4. CASE Finish
    <3>1. pc = "args" /\ x > Len(line) /\ pc' = "checked"
      BY <2>1, <2>4 DEF Finish, Reading, MainTyped, Shape
    <3>2. ~Mixed
      BY <1>4, <2>4 DEF Finish, Mixed
    <3>3. WellFormed
      BY <2>1, <3>1, <3>2, AllRead
    <3> QED BY <1>1, <1>4, <3>1, <3>3 DEF Accepting, Judged, Reading
  <2>5. CASE ValueRepeated \/ ValueMissing \/ ValueRefused \/ NotSwitches
    BY <1>4, <2>5 DEF ValueRepeated, ValueMissing, ValueRefused, NotSwitches
  <2> QED BY <2>2, <2>3, <2>4, <2>5 DEF ConsumeOptions
<1> QED BY <1>2, <1>3, <1>4

LEMMA NothingRead ==
  ASSUME MainTyped, StartOptions
  PROVE  ArgumentsRead' /\ SwitchesRead'
<1>1. /\ line \in Seq(Arguments) /\ line # <<>> /\ line' = line /\ pc' = "args" /\ x' = 1
      /\ optionBits' = {} /\ isRelMapFile' = FALSE
  BY DEF MainTyped, Shape, StartOptions, AtStart, optionVars
<1>2. ArgumentsRead'
  <2>1. ~RangeEndAt(x)'
    <3>1. ~RangeEndAt(1)
      BY DEF RangeEndAt
    <3> QED BY <1>1, <3>1, RangeEndNext
  <2>2. x' # Len(line') + 1 /\ 1..(x' - 1) = {}
    BY <1>1
  <2> QED BY <1>1, <2>1, <2>2 DEF ArgumentsRead
<1>3. SwitchesRead'
  <2>1. Seen' = {}
    <3>1. \A s \in Spots' : s[1] \in DOMAIN line
      BY <1>1 DEF Spots
    <3>2. \A s \in Spots' : ~(s[1] < 1)
      BY <1>1, <3>1
    <3> QED BY <1>1, <3>2 DEF Seen
  <2> QED BY <1>1, <2>1 DEF SwitchesRead
<1> QED BY <1>2, <1>3

LEMMA AcceptingStep ==
  ASSUME MainTyped, Accepting, [MainNext]_mainVars
  PROVE  Accepting'
<1>1. Shape
  BY DEF MainTyped
<1>2. CASE RunModule
  <2>1. tool' # "filedump"
    BY <1>2 DEF RunModule
  <2> QED BY <2>1 DEF Accepting, Reading, Judged
<1>3. CASE NoParameters
  <2>1. line = <<>> /\ line' = line /\ rc' = "copyright" /\ pc' = "checked"
    BY <1>3 DEF NoParameters
  <2>2. ~WellFormed'
    BY <2>1 DEF WellFormed
  <2> QED BY <2>1, <2>2 DEF Accepting, Reading, Judged
<1>4. CASE StartOptions
  <2>1. rc' = "valid" /\ pc' = "args"
    BY <1>1, <1>4 DEF StartOptions, Shape, AtStart, optionVars
  <2> QED BY <1>4, <2>1, NothingRead DEF Accepting, Judged
<1>5. CASE ParseFlag \/ PastPositions \/ RunTool
  <2>1. tool' # "filedump"
    BY <1>1, <1>5 DEF ParseFlag, ValueFlag, LongFlag, ShortGroup, Positional, PastPositions, AtPositional,
           AtFlag, RunTool, Shape
  <2> QED BY <2>1 DEF Accepting, Reading, Judged
<1>6. CASE Consume
  <2>1. ConsumeOptions /\ ConsumeFrame
    <3>1. UNCHANGED args
      BY <1>6 DEF Consume, ConsumeOptions, ValueRepeated, ValueMissing, ValueRefused, ValueTaken, RangeTaken,
           LastArgument, NotSwitches, OpenGroup, Letter, CloseGroup, Finish
    <3> QED BY <1>6, <3>1 DEF Consume, ConsumeFrame, mapVars
  <2>2. tool = "filedump"
    <3>1. pc \in {"args", "letters", "left"}
      BY <2>1 DEF ConsumeOptions, ValueRepeated, ValueMissing, ValueRefused, ValueTaken, RangeTaken,
           LastArgument, NotSwitches, OpenGroup, Letter, CloseGroup, Finish, AtValued, AtArgument
    <3> QED BY <1>1, <3>1 DEF Shape
  <2> QED BY <2>1, <2>2, ConsumeAccepting
<1>7. CASE Dispatch
  <2>1. /\ pc = "checked" /\ pc' = "done" /\ line' = line /\ tool' = tool /\ rc' = rc
        /\ job' = "usage" <=> rc # "valid"
    BY <1>7 DEF Dispatch, optionVars
  <2>2. WellFormed' = WellFormed
    BY <2>1, LineKept
  <2> QED BY <2>1, <2>2 DEF Accepting, Reading, Judged
<1>8. CASE UNCHANGED mainVars
  <2>1. UNCHANGED <<line, tool, rc, pc, job, x, y, optionBits, isRelMapFile, opened>>
    BY <1>8 DEF mainVars, optionVars, mapVars
  <2>2. Seen' = Seen /\ WellFormed' = WellFormed
    BY <2>1, LineKept DEF Seen
  <2>3. SwitchesRead => SwitchesRead'
    BY <2>1, <2>2, NoLetterAdded
  <2>4. ArgumentsRead => ArgumentsRead'
    BY <2>1, LineKept DEF ArgumentsRead
  <2> QED BY <2>1, <2>2, <2>3, <2>4 DEF Accepting, Reading, Judged
<1> QED BY <1>2, <1>3, <1>4, <1>5, <1>6, <1>7, <1>8 DEF MainNext, MainStep, MainEnded

LEMMA AcceptingInit == MainInit => Accepting
BY DEF MainInit, Accepting, Reading, Judged

(* ConsumeOptions refuses exactly the lines that are not well formed, for  *)
(* every set of command lines.                                             *)
THEOREM RefusesTheRest == MainSpec => []AcceptsExactly
<1>1. MainInit => MainTyped /\ Accepting
  BY MainTypedInit, AcceptingInit
<1>2. MainTyped /\ Accepting /\ [MainNext]_mainVars => (MainTyped /\ Accepting)'
  BY MainTypedStep, AcceptingStep
<1>3. MainTyped /\ Accepting => AcceptsExactly
  <2> SUFFICES ASSUME MainTyped, Accepting PROVE AcceptsExactly
    OBVIOUS
  <2>1. Done("filedump") => (job # "usage" <=> WellFormed)
    BY DEF Accepting, Judged, Done
  <2> QED BY <2>1 DEF AcceptsExactly, MainTyped
<1> QED BY <1>1, <1>2, <1>3, PTL DEF MainSpec

-------------------------------------------------------------------------------
(* Which refusals the exit code tells.                                     *)
Excused == \/ line = <<>> \/ "h" \in Asked
           \/ \E i \in {Len(line) - 1, Len(line)} \ {0} : Alone(line[i], "S")
CodeTold == tool = "filedump" =>
          /\ rc = "valid" => exitCode = 0
          /\ rc = "file" => exitCode = 1
          /\ rc \in {"invalid", "copyright"} => exitCode = 1 \/ Excused
          /\ rc = "duplicate" /\ pc \in {"checked", "done"} => exitCode = 1

LEMMA ExcusedKept == ASSUME UNCHANGED line PROVE Excused' = Excused
BY LineKept DEF Excused

LEMMA ConsumeTold ==
  ASSUME MainTyped, CodeTold, tool = "filedump", ConsumeOptions, ConsumeFrame
  PROVE  CodeTold'
<1>1. /\ line \in Seq(Arguments) /\ args = line /\ line' = line /\ tool' = tool /\ Excused' = Excused
      /\ Len(line) \in Nat /\ rc \in {"valid", "invalid", "file", "duplicate", "copyright"}
      /\ pc \notin {"checked", "done"}
  <2>1. pc \notin {"checked", "done"}
    BY DEF ConsumeOptions, ValueRepeated, ValueMissing, ValueRefused, ValueTaken, RangeTaken,
           LastArgument, NotSwitches, OpenGroup, Letter, CloseGroup, Finish, AtValued, AtArgument
  <2> QED BY <2>1, ExcusedKept DEF MainTyped, MainTypeOK, Shape, ConsumeFrame
<1>2. CASE UNCHANGED <<rc, exitCode>> /\ pc' \notin {"checked", "done"}
  BY <1>1, <1>2 DEF CodeTold
<1>3. CASE rc' \in {"invalid", "file"} /\ exitCode' = 1
  BY <1>3 DEF CodeTold
<1>4. CASE rc' \in {"invalid", "copyright"} /\ Excused
  BY <1>1, <1>4 DEF CodeTold
<1>5. CASE rc' = "duplicate" /\ pc' \notin {"checked", "done"}
  BY <1>5 DEF CodeTold
<1>6. CASE ValueRepeated
  BY <1>5, <1>6 DEF ValueRepeated
<1>7. CASE ValueMissing
  <2>1. CASE Switch = "S"
    <3>1. AtSwitch
      BY <1>7, SwitchHere DEF ValueMissing
    <3>2. x \in {Len(line) - 1, Len(line)} \ {0} /\ Alone(line[x], "S")
      BY <1>1, <1>7, <2>1, <3>1 DEF AtSwitch, ValueMissing, Lacks
    <3>3. Excused
      BY <3>2 DEF Excused
    <3> QED BY <1>4, <1>7, <3>3 DEF ValueMissing
  <2>2. CASE Switch # "S"
    BY <1>3, <1>7, <2>2 DEF ValueMissing
  <2> QED BY <2>1, <2>2
<1>8. CASE ValueRefused
  BY <1>3, <1>8 DEF ValueRefused
<1>9. CASE ValueTaken
  BY <1>2, <1>9 DEF ValueTaken, AtValued, AtArgument
<1>10. CASE RangeTaken
  BY <1>2, <1>3, <1>10 DEF RangeTaken, AtValued, AtArgument
<1>11. CASE LastArgument
  <2>1. CASE args[x] = Help /\ rc' = "copyright"
    <3>1. x \in DOMAIN line /\ line[x] = Help
      BY <1>1, <1>11, <2>1 DEF LastArgument, AtArgument, MainTyped, MainTypeOK
    <3>2. LettersAt(x) = <<"h">>
      BY <3>1 DEF LettersAt, Help, Dashed, Letters
    <3>3. "h" \in Range(LettersAt(x))
      BY <3>2 DEF Range
    <3>4. Excused
      BY <3>1, <3>3 DEF Excused, Asked
    <3> QED BY <1>4, <2>1, <3>4
  <2>2. CASE rc' = "file" /\ exitCode' = 1
    BY <1>3, <2>2
  <2>3. CASE UNCHANGED <<rc, exitCode>> /\ pc' = pc
    BY <1>1, <1>2, <2>3
  <2> QED BY <1>11, <2>1, <2>2, <2>3 DEF LastArgument
<1>12. CASE NotSwitches
  BY <1>3, <1>12 DEF NotSwitches
<1>13. CASE OpenGroup
  BY <1>2, <1>13 DEF OpenGroup, optionVars
<1>14. CASE Letter
  <2> DEFINE l == Letters(args[x])[y]
  <2>1. pc = "letters" /\ pc' \in {"args", "letters"}
    BY <1>14 DEF Letter
  <2>2. \/ rc' = "invalid" /\ exitCode' = 1
        \/ rc' = "duplicate"
        \/ UNCHANGED <<rc, exitCode>>
        \/ l = "h" /\ rc' = "copyright"
    BY <1>14 DEF Letter, SetOption
  <2>3. CASE l = "h" /\ rc' = "copyright"
    <3>1. AtLetter
      BY <1>14, LetterHere DEF Letter
    <3>2. args = line /\ line \in Seq(Arguments)
      BY <1>1 DEF MainTyped, MainTypeOK, Shape
    <3>3. /\ x \in 1..Len(line) /\ y \in DOMAIN LettersAt(x)
          /\ LettersAt(x)[y] = Letters(args[x])[y]
      BY <3>1, <3>2 DEF AtLetter
    <3>4. x \in DOMAIN line
      BY <3>2, <3>3
    <3>5. "h" \in Range(LettersAt(x))
      BY <2>3, <3>3 DEF Range
    <3>6. Excused
      BY <3>4, <3>5 DEF Excused, Asked
    <3> QED BY <1>4, <2>3, <3>6
  <2> HIDE DEF l
  <2> QED BY <1>2, <1>3, <1>5, <2>1, <2>2, <2>3
<1>15. CASE CloseGroup
  BY <1>2, <1>15 DEF CloseGroup, optionVars
<1>16. CASE Finish
  <2>1. CASE rc # "valid"
    <3>1. rc' = rc /\ exitCode' = IF rc = "duplicate" THEN 1 ELSE exitCode
      BY <1>16, <2>1 DEF Finish
    <3> QED BY <1>1, <2>1, <3>1 DEF CodeTold
  <2>2. CASE rc = "valid"
    <3>1. \/ rc' = "invalid" /\ exitCode' = 1
          \/ UNCHANGED <<rc, exitCode>>
      BY <1>16, <2>2 DEF Finish
    <3> QED BY <1>1, <1>3, <2>2, <3>1 DEF CodeTold
  <2> QED BY <2>1, <2>2
<1> QED BY <1>6, <1>7, <1>8, <1>9, <1>10, <1>11, <1>12, <1>13, <1>14, <1>15, <1>16 DEF ConsumeOptions

LEMMA ConsumeFramed ==
  ASSUME MainTyped, Consume
  PROVE  ConsumeOptions /\ ConsumeFrame /\ tool = "filedump" /\ pc \in {"args", "letters", "left"}
<1>1. ConsumeOptions /\ ConsumeFrame
  <2>1. UNCHANGED args
    BY DEF Consume, ConsumeOptions, ValueRepeated, ValueMissing, ValueRefused, ValueTaken, RangeTaken,
           LastArgument, NotSwitches, OpenGroup, Letter, CloseGroup, Finish
  <2> QED BY <2>1 DEF Consume, ConsumeFrame, mapVars
<1>2. pc \in {"args", "letters", "left"}
  BY <1>1 DEF ConsumeOptions, ValueRepeated, ValueMissing, ValueRefused, ValueTaken, RangeTaken,
       LastArgument, NotSwitches, OpenGroup, Letter, CloseGroup, Finish, AtValued, AtArgument
<1> QED BY <1>1, <1>2 DEF MainTyped, Shape

LEMMA ToldStep ==
  ASSUME MainTyped, CodeTold, [MainNext]_mainVars
  PROVE  CodeTold'
<1>1. Shape
  BY DEF MainTyped
<1>2. CASE RunModule
  <2>1. tool' # "filedump"
    BY <1>2 DEF RunModule
  <2> QED BY <2>1 DEF CodeTold
<1>3. CASE NoParameters
  <2>1. line' = <<>> /\ rc' = "copyright"
    BY <1>3 DEF NoParameters
  <2> QED BY <2>1 DEF CodeTold, Excused
<1>4. CASE StartOptions
  BY <1>1, <1>4 DEF StartOptions, Shape, AtStart, optionVars, CodeTold
<1>5. CASE ParseFlag \/ PastPositions \/ RunTool
  <2>1. tool' # "filedump"
    BY <1>1, <1>5 DEF ParseFlag, ValueFlag, LongFlag, ShortGroup, Positional, PastPositions, AtPositional,
           AtFlag, RunTool, Shape
  <2> QED BY <2>1 DEF CodeTold
<1>6. CASE Consume
  BY <1>6, ConsumeFramed, ConsumeTold
<1>7. CASE Dispatch
  <2>1. /\ pc = "checked" /\ pc' = "done" /\ UNCHANGED <<line, tool, rc, exitCode>>
    BY <1>7 DEF Dispatch, optionVars
  <2> QED BY <2>1, ExcusedKept DEF CodeTold
<1>8. CASE UNCHANGED mainVars
  <2>1. UNCHANGED <<line, tool, rc, pc, exitCode>>
    BY <1>8 DEF mainVars, optionVars, mapVars
  <2> QED BY <2>1, ExcusedKept DEF CodeTold
<1> QED BY <1>2, <1>3, <1>4, <1>5, <1>6, <1>7, <1>8 DEF MainNext, MainStep, MainEnded

(* A refused line ends with exit code 1, but for help and for -S without   *)
(* its value; the options of an accepted line leave it 0.                  *)
THEOREM RefusalsTold == MainSpec => []RefusalsReported
<1>1. MainInit => MainTyped /\ Accepting /\ CodeTold
  <2>1. MainInit => CodeTold
    BY DEF MainInit, CodeTold
  <2> QED BY <2>1, MainTypedInit, AcceptingInit
<1>2. MainTyped /\ Accepting /\ CodeTold /\ [MainNext]_mainVars => (MainTyped /\ Accepting /\ CodeTold)'
  BY MainTypedStep, AcceptingStep, ToldStep
<1>3. MainTyped /\ Accepting /\ CodeTold => RefusalsReported
  <2> SUFFICES ASSUME MainTyped, Accepting, CodeTold, Done("filedump") PROVE RefusalsReported
    BY DEF RefusalsReported
  <2>1. tool = "filedump" /\ pc = "done" /\ (job = "usage" <=> rc # "valid")
    BY DEF Accepting, Judged, Done
  <2>2. rc \in {"valid", "invalid", "file", "duplicate", "copyright"}
    BY DEF MainTyped, MainTypeOK
  <2> QED BY <2>1, <2>2 DEF RefusalsReported, CodeTold, Excused
<1> QED BY <1>1, <1>2, <1>3, PTL DEF MainSpec

-------------------------------------------------------------------------------
(* What a switch reads of the argument behind it, up to an argument.       *)
Reads(l, arg) == IF l = "D" THEN Callbacks(arg) ELSE GetOptionValue(arg)
HoldsTo(v, l, default, end) ==
  /\ \A i \in 1..(end - 1) : Alone(line[i], l) => v = Reads(l, line[i + 1])
  /\ (\A i \in 1..(end - 1) : ~Alone(line[i], l)) => v = default
EndsTo(v, start, end) ==
  /\ \A i \in 1..(end - 1) : RangeEndAt(i) => v = GetOptionValue(line[i])
  /\ (\A i \in 1..(end - 1) : ~RangeEndAt(i)) => v = start

Given(a, b, c, d, e, f) ==
  [start |-> a, end |-> b, size |-> c, segmentSize |-> d, segmentNumber |-> e, callbacks |-> f]
GivenFields(g) == \E a, b, c, d, e, f : g = Given(a, b, c, d, e, f)
ValuesTo(g, end) ==
  /\ GivenFields(g)
  /\ HoldsTo(g.size, "S", -1, end) /\ HoldsTo(g.segmentSize, "s", -1, end)
  /\ HoldsTo(g.start, "R", -1, end) /\ EndsTo(g.end, g.start, end)
  /\ HoldsTo(g.callbacks, "D", <<>>, end)
  /\ HoldsTo(g.segmentNumber, "n", IF end <= Len(line) THEN 0 ELSE SegmentOf(line[Len(line)]), end)

LEMMA HoldsKept ==
  ASSUME UNCHANGED line, NEW v, NEW l, NEW d, NEW end, NEW g, NEW start
  PROVE  /\ HoldsTo(v, l, d, end)' <=> HoldsTo(v, l, d, end)
         /\ EndsTo(v, start, end)' <=> EndsTo(v, start, end)
         /\ ValuesTo(g, end)' <=> ValuesTo(g, end)
<1>1. \A w, k, e : HoldsTo(w, k, e, end)' <=> HoldsTo(w, k, e, end)
  BY DEF HoldsTo
<1>2. \A w, b : EndsTo(w, b, end)' <=> EndsTo(w, b, end)
  BY LineKept DEF EndsTo
<1>3. ValuesTo(g, end)' <=> ValuesTo(g, end)
  BY <1>1, <1>2 DEF ValuesTo
<1> QED BY <1>1, <1>2, <1>3

(* Past arguments that are not the switch, nothing changes.                *)
LEMMA HoldsOn ==
  ASSUME NEW x0 \in Nat, NEW k \in Nat, NEW v, NEW l, NEW d, HoldsTo(v, l, d, x0),
         \A i \in x0..(x0 + k - 1) : ~Alone(line[i], l)
  PROVE  HoldsTo(v, l, d, x0 + k)
<1>1. \A i \in 1..(x0 + k - 1) : i \in 1..(x0 - 1) \/ i \in x0..(x0 + k - 1)
  OBVIOUS
<1>2. \A i \in 1..(x0 - 1) : i \in 1..(x0 + k - 1)
  OBVIOUS
<1> QED BY <1>1, <1>2 DEF HoldsTo

LEMMA HoldsNew ==
  ASSUME NEW x0 \in Nat, NEW k \in Nat, NEW v, NEW l, NEW d, k >= 1, x0 >= 1,
         \A i \in 1..(x0 - 1) : ~Alone(line[i], l), Alone(line[x0], l), v = Reads(l, line[x0 + 1]),
         \A i \in (x0 + 1)..(x0 + k - 1) : ~Alone(line[i], l)
  PROVE  HoldsTo(v, l, d, x0 + k)
<1>1. \A i \in 1..(x0 + k - 1) : i \in 1..(x0 - 1) \/ i = x0 \/ i \in (x0 + 1)..(x0 + k - 1)
  OBVIOUS
<1>2. x0 \in 1..(x0 + k - 1)
  OBVIOUS
<1> QED BY <1>1, <1>2 DEF HoldsTo

LEMMA EndsOn ==
  ASSUME NEW x0 \in Nat, NEW k \in Nat, NEW v, NEW b, EndsTo(v, b, x0),
         \A i \in x0..(x0 + k - 1) : ~RangeEndAt(i)
  PROVE  EndsTo(v, b, x0 + k)
<1>1. \A i \in 1..(x0 + k - 1) : i \in 1..(x0 - 1) \/ i \in x0..(x0 + k - 1)
  OBVIOUS
<1>2. \A i \in 1..(x0 - 1) : i \in 1..(x0 + k - 1)
  OBVIOUS
<1> QED BY <1>1, <1>2 DEF EndsTo

(* A field that is set leaves the others.                                  *)
LEMMA FieldSet ==
  ASSUME NEW a, NEW b, NEW c, NEW d, NEW e, NEW f, NEW v, NEW w
  PROVE  /\ [Given(a, b, c, d, e, f) EXCEPT !.size = v] = Given(a, b, v, d, e, f)
         /\ [Given(a, b, c, d, e, f) EXCEPT !.segmentSize = v] = Given(a, b, c, v, e, f)
         /\ [Given(a, b, c, d, e, f) EXCEPT !.segmentNumber = v] = Given(a, b, c, d, v, f)
         /\ [Given(a, b, c, d, e, f) EXCEPT !.callbacks = v] = Given(a, b, c, d, e, v)
         /\ [Given(a, b, c, d, e, f) EXCEPT !.start = v, !.end = w] = Given(v, w, c, d, e, f)
<1>1. [Given(a, b, c, d, e, f) EXCEPT !.size = v] = Given(a, b, v, d, e, f)
  BY DEF Given
<1>2. [Given(a, b, c, d, e, f) EXCEPT !.segmentSize = v] = Given(a, b, c, v, e, f)
  BY DEF Given
<1>3. [Given(a, b, c, d, e, f) EXCEPT !.segmentNumber = v] = Given(a, b, c, d, v, f)
  BY DEF Given
<1>4. [Given(a, b, c, d, e, f) EXCEPT !.callbacks = v] = Given(a, b, c, d, e, v)
  BY DEF Given
<1>5. [Given(a, b, c, d, e, f) EXCEPT !.start = v, !.end = w] = Given(v, w, c, d, e, f)
  <2> DEFINE g == Given(a, b, c, d, e, f)
  <2>1. [g EXCEPT !.start = v, !.end = w] = [[g EXCEPT !.start = v] EXCEPT !.end = w]
    <3> HIDE DEF g
    <3> QED OBVIOUS
  <2>2. [g EXCEPT !.start = v] = Given(v, b, c, d, e, f)
    BY DEF Given
  <2>3. [Given(v, b, c, d, e, f) EXCEPT !.end = w] = Given(v, w, c, d, e, f)
    BY DEF Given
  <2> QED BY <2>1, <2>2, <2>3
<1> QED BY <1>1, <1>2, <1>3, <1>4, <1>5

(* The digits behind the last dot of a name are where the program looks.   *)
LEMMA SegmentRead ==
  ASSUME NEW file, file.kind = "word" => file.text \in Seq(STRING)
  PROVE  SegmentOf(file) = IF file.kind = "word" THEN GetSegmentNumberFromFileName(file.text) ELSE 0
<1> SUFFICES ASSUME file.kind = "word"
             PROVE  SegmentOf(file) = GetSegmentNumberFromFileName(file.text)
  BY DEF SegmentOf
<1> DEFINE text == file.text
           n == Len(text)
           DigitsFrom(i) == /\ \A j \in i..n : IsDigit(text[j])
                            /\ i > 1 => ~IsDigit(text[i - 1])
           first == CHOOSE i \in 1..(n + 1) : DigitsFrom(i)
           dot == CHOOSE i \in DOMAIN text : Suffix(text, i)
<1>1. n \in Nat /\ DOMAIN text = 1..n
  OBVIOUS
<1>2. ~IsDigit(".")
  <2>1. "." \notin Range(Digits)
    BY DEF Range, Digits
  <2> QED BY <2>1 DEF IsDigit
<1>3. \E i \in 1..(n + 1) : DigitsFrom(i)
  <2> DEFINE S == {i \in 1..(n + 1) : \A j \in i..n : IsDigit(text[j])}
  <2>1. n + 1 \in S /\ S \subseteq Int /\ S \subseteq 1..(n + 1)
    BY <1>1
  <2>2. IsFiniteSet(1..(n + 1))
    BY <1>1, FS_Interval
  <2>3. IsFiniteSet(S)
    BY <2>1, <2>2, FS_Subset
  <2> HIDE DEF S
  <2>4. PICK m \in S : \A i \in S : m <= i
    BY <2>1, <2>3, MinIs
  <2>5. m \in 1..(n + 1) /\ \A j \in m..n : IsDigit(text[j])
    BY DEF S
  <2>6. ASSUME m > 1, IsDigit(text[m - 1]) PROVE FALSE
    <3>1. m - 1 \in 1..(n + 1) /\ \A j \in (m - 1)..n : j = m - 1 \/ j \in m..n
      BY <1>1, <2>5, <2>6
    <3>2. m - 1 \in S
      BY <2>5, <2>6, <3>1 DEF S
    <3> QED BY <2>4, <2>5, <3>2
  <2> QED BY <2>5, <2>6
<1>4. ASSUME NEW i \in 1..(n + 1), NEW k \in 1..(n + 1), DigitsFrom(i), DigitsFrom(k) PROVE ~(i < k)
  <2> SUFFICES ASSUME i < k PROVE FALSE
    OBVIOUS
  <2>1. k - 1 \in i..n /\ k > 1
    BY <1>1
  <2> QED BY <1>4, <2>1
<1>5. first \in 1..(n + 1) /\ DigitsFrom(first)
  <2> HIDE DEF DigitsFrom
  <2> QED BY <1>3
<1>6. \A i \in 1..(n + 1) : DigitsFrom(i) => i = first
  <2> HIDE DEF DigitsFrom, first, n
  <2>1. \A i \in 1..(n + 1) : DigitsFrom(i) => ~(i < first) /\ ~(first < i)
    BY <1>4, <1>5
  <2>2. \A i \in 1..(n + 1) : i \in Int /\ first \in Int
    BY <1>1, <1>5
  <2> QED BY <2>1, <2>2
<1>7. \A i \in DOMAIN text : Suffix(text, i) <=> text[i] = "." /\ first = i + 1
  <2> SUFFICES ASSUME NEW i \in 1..n PROVE Suffix(text, i) <=> text[i] = "." /\ first = i + 1
    BY <1>1
  <2>1. i + 1 \in 1..(n + 1) /\ i + 1 > 1 /\ (i + 1) - 1 = i
    BY <1>1
  <2>2. ASSUME Suffix(text, i) PROVE text[i] = "." /\ first = i + 1
    <3>1. text[i] = "." /\ \A j \in (i + 1)..n : IsDigit(text[j])
      BY <2>2 DEF Suffix
    <3>2. DigitsFrom(i + 1)
      BY <1>2, <2>1, <3>1
    <3> QED BY <1>6, <2>1, <3>1, <3>2
  <2>3. ASSUME text[i] = ".", first = i + 1 PROVE Suffix(text, i)
    <3>1. \A j \in first..n : IsDigit(text[j])
      <4> HIDE DEF first
      <4> QED BY <1>5
    <3> HIDE DEF first
    <3> QED BY <2>3, <3>1 DEF Suffix
  <2> QED BY <2>2, <2>3
<1>8. GetSegmentNumberFromFileName(text)
        = IF first > 1 /\ text[first - 1] = "." THEN NumberAt(text, first) ELSE 0
  BY DEF GetSegmentNumberFromFileName
<1>9. SegmentOf(file) = IF \E i \in DOMAIN text : Suffix(text, i) THEN NumberAt(text, dot + 1) ELSE 0
  BY DEF SegmentOf
<1> HIDE DEF first, text, n, DigitsFrom
<1>10. CASE first > 1 /\ text[first - 1] = "."
  <2>1. first - 1 \in DOMAIN text /\ (first - 1) + 1 = first
    BY <1>1, <1>5, <1>10
  <2>2. Suffix(text, first - 1)
    BY <1>7, <1>10, <2>1
  <2>3. dot \in DOMAIN text /\ Suffix(text, dot)
    BY <2>1, <2>2
  <2>4. dot + 1 = first
    BY <1>7, <2>3
  <2> HIDE DEF dot
  <2> QED BY <1>8, <1>9, <1>10, <2>1, <2>2, <2>4 DEF text
<1>11. CASE ~(first > 1 /\ text[first - 1] = ".")
  <2>1. ASSUME NEW i \in DOMAIN text, Suffix(text, i) PROVE FALSE
    <3>1. text[i] = "." /\ first = i + 1 /\ i \in 1..n
      BY <1>1, <1>7, <2>1
    <3> QED BY <1>1, <1>11, <3>1
  <2> QED BY <1>8, <1>9, <1>11, <2>1 DEF text
<1> QED BY <1>10, <1>11

-------------------------------------------------------------------------------
(* The values are read at the arguments in front of the next one, also     *)
(* behind a step.                                                          *)
LEMMA ValuesMoved ==
  ASSUME UNCHANGED line, NEW g, NEW end, given' = g, x' = end, ValuesTo(g, end)
  PROVE  ValuesTo(given, x)'
<1>1. \A v, l, d : HoldsTo(v, l, d, x)' <=> HoldsTo(v, l, d, end)
  BY DEF HoldsTo
<1>2. \A v, b : EndsTo(v, b, x)' <=> EndsTo(v, b, end)
  <2>1. \A i : RangeEndAt(i)' = RangeEndAt(i)
    BY LineKept
  <2> QED BY <2>1 DEF EndsTo
<1>3. ValuesTo(given, x)' <=>
        /\ GivenFields(g)
        /\ HoldsTo(g.size, "S", -1, x)' /\ HoldsTo(g.segmentSize, "s", -1, x)'
        /\ HoldsTo(g.start, "R", -1, x)' /\ EndsTo(g.end, g.start, x)'
        /\ HoldsTo(g.callbacks, "D", <<>>, x)'
        /\ HoldsTo(g.segmentNumber, "n", IF end <= Len(line) THEN 0 ELSE SegmentOf(line[Len(line)]), x)'
  BY DEF ValuesTo
<1> QED BY <1>1, <1>2, <1>3 DEF ValuesTo

(* A switch that wants a value is set once it has been come by.            *)
LEMMA SwitchesGiven ==
  ASSUME MainTyped, pc = "args", ArgumentsRead, SwitchesRead, NEW l \in ValueSwitches
  PROVE  l \in optionBits <=> \E i \in 1..(x - 1) : Alone(line[i], l)
<1>1. line \in Seq(Arguments) /\ Len(line) \in Nat /\ x \in 1..(Len(line) + 1) /\ l \in Known /\ l # "-"
  <2>1. pc = "args" => args = line
    BY DEF MainTyped, Shape
  <2> QED BY <2>1 DEF MainTyped, MainTypeOK, Shape, Known, ValueSwitches
<1>2. ASSUME NEW i \in 1..(x - 1), Alone(line[i], l) PROVE l \in optionBits
  <2>1. LettersAt(i) = <<l>>
    BY <1>2 DEF Alone, LettersAt, Dashed, Letters
  <2>2. <<i, 1>> \in Spots /\ LetterOf(<<i, 1>>) = l /\ i < x
    BY <1>1, <2>1 DEF Spots, LetterOf
  <2>3. <<i, 1>> \in Seen
    BY <2>2 DEF Seen
  <2> QED BY <1>1, <2>2, <2>3 DEF SwitchesRead
<1>3. ASSUME l \in optionBits PROVE \E i \in 1..(x - 1) : Alone(line[i], l)
  <2>1. PICK s \in Seen : LetterOf(s) = l
    BY <1>1, <1>3 DEF SwitchesRead
  <2> DEFINE i == s[1]
  <2>2. i \in DOMAIN line /\ i < x /\ s[2] \in DOMAIN LettersAt(i) /\ LettersAt(i)[s[2]] = l
    BY <2>1 DEF Seen, Spots, LetterOf
  <2>3. i \in 1..(x - 1) /\ line[i] \in Arguments
    BY <1>1, <2>2
  <2> HIDE DEF i
  <2>4. Dashed(line[i]) /\ LettersAt(i) = Letters(line[i])
    <3>1. \A j : j \notin DOMAIN <<>>
      OBVIOUS
    <3> QED BY <2>2, <3>1 DEF LettersAt
  <2>5. l \in Range(Letters(line[i]))
    BY <2>2, <2>4 DEF Range
  <2>6. CASE Valued(line[i])
    <3>1. DOMAIN LettersAt(i) = {1}
      BY <2>3, <2>4, <2>6, ValuedAlone
    <3>2. Letters(line[i])[1] = l
      BY <2>2, <2>4, <3>1
    <3>3. Alone(line[i], l)
      BY <2>3, <2>6, <3>2, ValuedAlone
    <3> QED BY <2>3, <3>3
  <2>7. CASE ~Valued(line[i])
    <3>1. l \notin LetterSwitches \cup {"m", "v"}
      BY DEF ValueSwitches, LetterSwitches
    <3>2. i < Len(line) => Expected(i)
      BY <2>3 DEF ArgumentsRead
    <3>3. ~(i < Len(line))
      BY <2>4, <2>5, <2>7, <3>1, <3>2 DEF Expected
    <3>4. i = Len(line) /\ x = Len(line) + 1
      BY <1>1, <2>3, <3>3
    <3>5. ~Dashed(line[i])
      BY <3>4 DEF ArgumentsRead
    <3> QED BY <2>4, <3>5
  <2> QED BY <2>6, <2>7
<1> QED BY <1>2, <1>3

LEMMA AloneHere ==
  ASSUME NEW arg, NEW l, Alone(arg, l)
  PROVE  Dashed(arg) /\ \A k : Alone(arg, k) => k = l
<1>1. ASSUME NEW k, Alone(arg, k) PROVE k = l
  <2>1. <<k>> = <<l>>
    BY <1>1 DEF Alone
  <2>2. <<k>>[1] = <<l>>[1]
    BY <2>1
  <2> QED BY <2>2
<1> QED BY <1>1 DEF Alone, Dashed

(* What a switch and its values leave of the other switches' values. *)
OthersHold(k) == \A l, v, d : l # Switch /\ HoldsTo(v, l, d, x) => HoldsTo(v, l, d, x + k)
ThisHolds(k) == \A v, d : v = Reads(Switch, line[x + 1]) => HoldsTo(v, Switch, d, x + k)

LEMMA ValueHeld ==
  ASSUME MainTyped, tool = "filedump", pc = "args", ArgumentsRead, SwitchesRead, AtSwitch,
         NEW k \in {2, 3}, ValueAccepted(k)
  PROVE  /\ OthersHold(k) /\ ThisHolds(k) /\ x + k <= Len(line) /\ x \in 1..Len(line)
         /\ \A i \in x..(x + k - 1) : RangeEndAt(i) => i = x + 2
         /\ Switch = "R" => \A i \in 1..(x - 1) : ~RangeEndAt(i)
         /\ k = 3 => RangeEndAt(x + 2)
<1>1. /\ line \in Seq(Arguments) /\ Len(line) \in Nat /\ x \in 1..Len(line) /\ x < Len(line) - 1
      /\ x' = x + k /\ x \in Nat
  BY DEF MainTyped, Shape, ValueAccepted, AtSwitch
<1>2. ~Dashed(line[x + 1])
  <2>1. line[x + 1] \in Arguments
    BY <1>1
  <2> QED BY <2>1, ValuesNotDashed DEF AtSwitch, ValueAccepted
<1>3. k = 3 => RangeEndAt(x + 2) /\ ~Dashed(line[x + 2])
  <2> SUFFICES ASSUME k = 3 PROVE RangeEndAt(x + 2) /\ ~Dashed(line[x + 2])
    OBVIOUS
  <2>1. Switch = "R" /\ x + 2 < Len(line) /\ GetOptionValue(line[x + 2]) >= 0
    BY DEF ValueAccepted
  <2>2. x + 2 > 2 /\ (x + 2) - 2 = x /\ x + 2 \in Int
    BY <1>1
  <2>3. RangeEndAt(x + 2)
    BY <2>1, <2>2 DEF RangeEndAt, AtSwitch
  <2> QED BY <1>1, <2>2, <2>3, RangeEndIs
<1>4. x + k <= Len(line)
  <2>1. k = 3 => x + 2 < Len(line)
    BY DEF ValueAccepted
  <2> QED BY <1>1, <2>1
<1>5. \A l : \A i \in (x + 1)..(x + k - 1) : ~Alone(line[i], l)
  <2>1. \A i \in (x + 1)..(x + k - 1) : i = x + 1 \/ (k = 3 /\ i = x + 2)
    BY <1>1
  <2>2. \A i \in (x + 1)..(x + k - 1) : ~Dashed(line[i])
    BY <1>2, <1>3, <2>1
  <2> QED BY <2>2, AloneHere
<1>6. OthersHold(k)
  <2> SUFFICES ASSUME NEW l, NEW v, NEW d, l # Switch, HoldsTo(v, l, d, x)
               PROVE  HoldsTo(v, l, d, x + k)
    BY DEF OthersHold
  <2>1. ~Alone(line[x], l)
    BY AloneHere DEF AtSwitch
  <2>2. \A i \in x..(x + k - 1) : i = x \/ i \in (x + 1)..(x + k - 1)
    BY <1>1
  <2>3. \A i \in x..(x + k - 1) : ~Alone(line[i], l)
    BY <1>5, <2>1, <2>2
  <2>4. x \in Nat /\ k \in Nat
    BY <1>1
  <2> QED BY <2>3, <2>4, HoldsOn
<1>7. ThisHolds(k)
  <2> SUFFICES ASSUME NEW v, NEW d, v = Reads(Switch, line[x + 1])
               PROVE  HoldsTo(v, Switch, d, x + k)
    BY DEF ThisHolds
  <2>1. Switch \notin optionBits /\ Switch \in ValueSwitches /\ Alone(line[x], Switch)
    BY DEF ValueAccepted, AtSwitch
  <2>2. \A i \in 1..(x - 1) : ~Alone(line[i], Switch)
    BY <2>1, SwitchesGiven
  <2>3. x \in Nat /\ k \in Nat /\ k >= 1 /\ x >= 1
    BY <1>1
  <2> QED BY <1>5, <2>1, <2>2, <2>3, HoldsNew
<1>8. \A i \in x..(x + k - 1) : RangeEndAt(i) => i = x + 2
  <2> SUFFICES ASSUME NEW i \in x..(x + k - 1), RangeEndAt(i), i # x + 2 PROVE FALSE
    OBVIOUS
  <2>1. i = x \/ i = x + 1
    BY <1>1
  <2>2. CASE i = x
    BY <1>1, <2>2 DEF ArgumentsRead
  <2>3. CASE i = x + 1
    <3>1. i > 2
      BY DEF RangeEndAt
    <3>2. i - 2 \in 1..(x - 1) /\ i - 1 >= x /\ i \in Int
      BY <1>1, <2>3, <3>1
    <3> QED BY <3>2, NoRangeEnd
  <2> QED BY <2>1, <2>2, <2>3
<1>9. ASSUME Switch = "R", NEW i \in 1..(x - 1), RangeEndAt(i) PROVE FALSE
  <2>1. Switch \notin optionBits /\ Switch \in ValueSwitches
    BY DEF ValueAccepted, AtSwitch
  <2>2. \A j \in 1..(x - 1) : ~Alone(line[j], "R")
    BY <1>9, <2>1, SwitchesGiven
  <2>3. i > 2 /\ Alone(line[i - 2], "R")
    BY <1>9 DEF RangeEndAt
  <2>4. i - 2 \in 1..(x - 1)
    BY <1>1, <2>3
  <2> QED BY <2>2, <2>3, <2>4
<1> QED BY <1>1, <1>3, <1>4, <1>6, <1>7, <1>8, <1>9

LEMMA GivenFieldsAre ==
  ASSUME NEW a, NEW b, NEW c, NEW d, NEW e, NEW f
  PROVE  LET g == Given(a, b, c, d, e, f)
         IN  /\ g.start = a /\ g.end = b /\ g.size = c /\ g.segmentSize = d
             /\ g.segmentNumber = e /\ g.callbacks = f /\ GivenFields(g)
BY DEF Given, GivenFields

LEMMA EndsNowhere ==
  ASSUME NEW v, NEW n, \A i \in 1..(n - 1) : ~RangeEndAt(i)
  PROVE  EndsTo(v, v, n)
BY DEF EndsTo

LEMMA ValueCarried ==
  ASSUME MainTyped, tool = "filedump", rc = "valid", rc' = "valid", ConsumeFrame, ArgumentsRead, SwitchesRead,
         ValuesTo(given, x), ValueTaken \/ RangeTaken
  PROVE  ValuesTo(given, x)'
<1>1. PICK k \in {2, 3} : ValueAccepted(k)
  BY ValueTakenShape
<1>2. AtSwitch /\ pc = "args" /\ args = line /\ line' = line
  <2>1. AtValued /\ pc = "args"
    BY DEF ValueTaken, RangeTaken, AtValued, AtArgument
  <2> QED BY <2>1, SwitchHere DEF MainTyped, Shape, ConsumeFrame
<1>3. /\ OthersHold(k) /\ ThisHolds(k) /\ x + k <= Len(line) /\ x \in 1..Len(line) /\ Len(line) \in Nat
      /\ \A i \in x..(x + k - 1) : RangeEndAt(i) => i = x + 2
      /\ Switch = "R" => \A i \in 1..(x - 1) : ~RangeEndAt(i)
      /\ k = 3 => RangeEndAt(x + 2)
  <2>1. Len(line) \in Nat
    BY DEF MainTyped, Shape
  <2> QED BY <1>1, <1>2, <2>1, ValueHeld
<1>4. x' = x + k /\ x \in Nat /\ x <= Len(line)
  BY <1>1, <1>3 DEF ValueAccepted
<1>5. PICK a, b, c, d, e, f : given = Given(a, b, c, d, e, f)
  BY DEF ValuesTo, GivenFields
<1>6. /\ HoldsTo(c, "S", -1, x) /\ HoldsTo(d, "s", -1, x) /\ HoldsTo(a, "R", -1, x) /\ EndsTo(b, a, x)
      /\ HoldsTo(f, "D", <<>>, x) /\ HoldsTo(e, "n", 0, x)
  BY <1>4, <1>5, GivenFieldsAre DEF ValuesTo
<1> DEFINE next == line[x + 1]
           number == GetOptionValue(next)
           Moved(a1, b1, c1, d1, e1, f1) ==
             /\ HoldsTo(c1, "S", -1, x + k) /\ HoldsTo(d1, "s", -1, x + k) /\ HoldsTo(a1, "R", -1, x + k)
             /\ EndsTo(b1, a1, x + k) /\ HoldsTo(f1, "D", <<>>, x + k) /\ HoldsTo(e1, "n", 0, x + k)
<1>7. ASSUME NEW a1, NEW b1, NEW c1, NEW d1, NEW e1, NEW f1, Moved(a1, b1, c1, d1, e1, f1),
             given' = Given(a1, b1, c1, d1, e1, f1)
      PROVE  ValuesTo(given, x)'
  <2>1. ValuesTo(Given(a1, b1, c1, d1, e1, f1), x + k)
    BY <1>3, <1>7, GivenFieldsAre DEF ValuesTo
  <2> QED BY <1>2, <1>4, <1>7, <2>1, ValuesMoved
<1>8. ASSUME Switch # "R" PROVE EndsTo(b, a, x + k)
  <2>1. k = 2
    BY <1>1, <1>8 DEF ValueAccepted
  <2>2. \A i \in x..(x + k - 1) : ~RangeEndAt(i)
    BY <1>3, <1>4, <2>1
  <2> QED BY <1>4, <1>6, <2>1, <2>2, EndsOn
<1>9. CASE ValueTaken
  <2>1. Switch # "R" /\ Switch \in ValueSwitches
    BY <1>2, <1>9 DEF ValueTaken, AtSwitch
  <2>2. CASE Switch = "S"
    <3>1. given' = Given(a, b, number, d, e, f)
      <4>1. given' = [given EXCEPT !.size = number]
        BY <1>2, <1>9, <2>2 DEF ValueTaken
      <4> HIDE DEF number, next
      <4> QED BY <1>5, <4>1 DEF Given
    <3>2. Moved(a, b, number, d, e, f)
      BY <1>3, <1>6, <1>8, <2>2 DEF OthersHold, ThisHolds, Reads
    <3> QED BY <1>7, <3>1, <3>2
  <2>3. CASE Switch = "s"
    <3>1. given' = Given(a, b, c, number, e, f)
      <4>1. given' = [given EXCEPT !.segmentSize = number]
        BY <1>2, <1>9, <2>3 DEF ValueTaken
      <4> HIDE DEF number, next
      <4> QED BY <1>5, <4>1 DEF Given
    <3>2. Moved(a, b, c, number, e, f)
      BY <1>3, <1>6, <1>8, <2>3 DEF OthersHold, ThisHolds, Reads
    <3> QED BY <1>7, <3>1, <3>2
  <2>4. CASE Switch = "n"
    <3>1. given' = Given(a, b, c, d, number, f)
      <4>1. given' = [given EXCEPT !.segmentNumber = number]
        BY <1>2, <1>9, <2>4 DEF ValueTaken
      <4> HIDE DEF number, next
      <4> QED BY <1>5, <4>1 DEF Given
    <3>2. Moved(a, b, c, d, number, f)
      BY <1>3, <1>6, <1>8, <2>4 DEF OthersHold, ThisHolds, Reads
    <3> QED BY <1>7, <3>1, <3>2
  <2>5. CASE Switch = "D"
    <3>1. given' = Given(a, b, c, d, e, Callbacks(next))
      <4>1. given' = [given EXCEPT !.callbacks = Callbacks(next)]
        BY <1>2, <1>9, <2>5 DEF ValueTaken
      <4> HIDE DEF number, next
      <4> QED BY <1>5, <4>1 DEF Given
    <3>2. Moved(a, b, c, d, e, Callbacks(next))
      BY <1>3, <1>6, <1>8, <2>5 DEF OthersHold, ThisHolds, Reads
    <3> QED BY <1>7, <3>1, <3>2
  <2> QED BY <2>1, <2>2, <2>3, <2>4, <2>5 DEF ValueSwitches
<1>10. CASE RangeTaken
  <2>1. Switch = "R"
    BY <1>10 DEF RangeTaken
  <2> DEFINE end == IF HasEnd THEN GetOptionValue(line[x + 2]) ELSE number
  <2>2. given' = Given(number, end, c, d, e, f)
    <3>1. given' = [given EXCEPT !.start = number, !.end = end] \/ (rc' = "invalid")
      BY <1>2, <1>10 DEF RangeTaken
    <3> HIDE DEF number, end
    <3>2. [given EXCEPT !.start = number, !.end = end] = [[given EXCEPT !.start = number] EXCEPT !.end = end]
      OBVIOUS
    <3>3. [given EXCEPT !.start = number] = Given(number, b, c, d, e, f)
      BY <1>5 DEF Given
    <3>4. [Given(number, b, c, d, e, f) EXCEPT !.end = end] = Given(number, end, c, d, e, f)
      BY DEF Given
    <3> QED BY <3>1, <3>2, <3>3, <3>4
  <2>3. HasEnd <=> k = 3
    <3>1. HasEnd <=> x + 2 < Len(line) /\ GetOptionValue(line[x + 2]) >= 0
      BY <1>2 DEF HasEnd
    <3> QED BY <1>1, <2>1, <3>1 DEF ValueAccepted
  <2>4. EndsTo(end, number, x + k)
    <3>1. ASSUME NEW i \in 1..(x + k - 1), RangeEndAt(i) PROVE i = x + 2 /\ k = 3
      <4>1. i \in 1..(x - 1) \/ i \in x..(x + k - 1)
        BY <1>4
      <4>2. i = x + 2
        BY <1>3, <2>1, <3>1, <4>1
      <4> QED BY <1>4, <4>2
    <3>2. CASE k = 3
      <4>1. x + 2 \in 1..(x + k - 1)
        BY <1>4, <3>2
      <4>2. end = GetOptionValue(line[x + 2])
        BY <2>3, <3>2
      <4> HIDE DEF end, number
      <4> QED BY <1>3, <3>1, <3>2, <4>1, <4>2 DEF EndsTo
    <3>3. CASE k = 2
      <4>1. end = number
        BY <2>3, <3>3
      <4>2. \A i \in 1..(x + k - 1) : ~RangeEndAt(i)
        BY <3>1, <3>3
      <4> HIDE DEF end, number
      <4>3. EndsTo(number, number, x + k)
        BY <1>4, <4>2, EndsNowhere
      <4> QED BY <4>1, <4>3
    <3> QED BY <3>2, <3>3
  <2>5. HoldsTo(number, "R", -1, x + k)
    BY <1>3, <2>1 DEF ThisHolds, Reads
  <2>6. Moved(number, end, c, d, e, f)
    <3> HIDE DEF number, end
    <3> QED BY <1>3, <1>6, <2>1, <2>4, <2>5 DEF OthersHold
  <2> HIDE DEF number, end, Moved
  <2> QED BY <1>7, <2>2, <2>6
<1> QED BY <1>9, <1>10

(* An argument without a value of its own leaves the values.               *)
LEMMA OthersCarried ==
  ASSUME MainTyped, tool = "filedump", rc = "valid", rc' = "valid", ConsumeFrame, ArgumentsRead, SwitchesRead,
         ValuesTo(given, x), LastArgument \/ OpenGroup \/ Letter \/ CloseGroup
  PROVE  ValuesTo(given, x)'
<1>1. /\ args = line /\ line' = line /\ line \in Seq(Arguments) /\ Len(line) \in Nat
      /\ x \in 1..(Len(line) + 1) /\ x \in Nat
  BY DEF MainTyped, MainTypeOK, Shape, ConsumeFrame
<1>2. CASE OpenGroup \/ Letter
  <2>1. given' = given /\ x' = x
    BY <1>2 DEF OpenGroup, Letter, optionVars
  <2> QED BY <1>1, <2>1, ValuesMoved
<1> DEFINE Plain == /\ x <= Len(line) /\ ~RangeEndAt(x) /\ x' = x + 1
                    /\ \A l \in ValueSwitches : ~Alone(line[x], l)
<1>3. ASSUME Plain
      PROVE  /\ \A l \in ValueSwitches : \A v, d : HoldsTo(v, l, d, x) => HoldsTo(v, l, d, x + 1)
             /\ \A v, b : EndsTo(v, b, x) => EndsTo(v, b, x + 1)
  <2>1. \A i \in x..(x + 1 - 1) : i = x
    BY <1>1
  <2>2. \A l \in ValueSwitches : \A i \in x..(x + 1 - 1) : ~Alone(line[i], l)
    BY <1>3, <2>1
  <2>3. \A i \in x..(x + 1 - 1) : ~RangeEndAt(i)
    BY <1>3, <2>1
  <2>4. x \in Nat /\ 1 \in Nat
    BY <1>1
  <2> HIDE DEF Plain
  <2> QED BY <2>2, <2>3, <2>4, HoldsOn, EndsOn
<1>4. CASE CloseGroup
  <2>1. given' = given /\ x' = x + 1 /\ InGroup
    BY <1>4 DEF CloseGroup, optionVars, MainTyped, Shape
  <2>2. x < Len(line) /\ Dashed(line[x]) /\ ~Valued(line[x]) /\ line[x] \in Arguments /\ x + 1 <= Len(line)
    BY <1>1, <2>1 DEF InGroup
  <2>3. ~RangeEndAt(x)
    BY <1>1, <2>2, RangeEndIs
  <2>4. Plain
    BY <1>1, <2>1, <2>2, <2>3, ValuedAlone
  <2>5. ValuesTo(given, x + 1)
    <3>1. "S" \in ValueSwitches /\ "s" \in ValueSwitches /\ "R" \in ValueSwitches /\ "D" \in ValueSwitches
          /\ "n" \in ValueSwitches
      BY DEF ValueSwitches
    <3>2. x <= Len(line)
      BY <1>1, <2>2
    <3> QED BY <1>3, <2>2, <2>4, <3>1, <3>2 DEF ValuesTo
  <2> QED BY <1>1, <2>1, <2>5, ValuesMoved
<1>5. CASE LastArgument
  <2>1. /\ x = Len(line) /\ x <= Len(line) /\ pc = "args" /\ ~Dashed(line[x]) /\ x' = x + 1 /\ line[x] \in Arguments
        /\ given' = IF "n" \in optionBits THEN given
                    ELSE [given EXCEPT !.segmentNumber =
                            IF line[x].kind = "word" THEN GetSegmentNumberFromFileName(line[x].text) ELSE 0]
    BY <1>1, <1>5 DEF LastArgument, AtArgument
  <2>2. SegmentOf(line[x]) = IF line[x].kind = "word" THEN GetSegmentNumberFromFileName(line[x].text) ELSE 0
    BY <2>1, ArgumentKinds, SegmentRead
  <2>3. PICK a, b, c, d, e, f : given = Given(a, b, c, d, e, f)
    BY DEF ValuesTo, GivenFields
  <2>4. /\ HoldsTo(c, "S", -1, x) /\ HoldsTo(d, "s", -1, x) /\ HoldsTo(a, "R", -1, x) /\ EndsTo(b, a, x)
        /\ HoldsTo(f, "D", <<>>, x) /\ HoldsTo(e, "n", 0, x)
    BY <2>1, <2>3, GivenFieldsAre DEF ValuesTo
  <2>5. Plain
    <3>1. ~RangeEndAt(x)
      BY <2>1 DEF ArgumentsRead
    <3> QED BY <2>1, <3>1, AloneHere
  <2> DEFINE segment == SegmentOf(line[x])
             n == IF "n" \in optionBits THEN e ELSE segment
  <2>6. given' = Given(a, b, c, d, n, f)
    <3>1. given' = IF "n" \in optionBits THEN given ELSE [given EXCEPT !.segmentNumber = segment]
      BY <2>1, <2>2
    <3> HIDE DEF segment
    <3> QED BY <2>3, <3>1 DEF Given
  <2>7. HoldsTo(n, "n", segment, x)
    <3>1. "n" \in ValueSwitches
      BY DEF ValueSwitches
    <3>2. "n" \in optionBits <=> \E i \in 1..(x - 1) : Alone(line[i], "n")
      BY <2>1, <3>1, SwitchesGiven
    <3> HIDE DEF segment
    <3> QED BY <2>4, <3>2 DEF HoldsTo
  <2> HIDE DEF n
  <2>8. ValuesTo(Given(a, b, c, d, n, f), x + 1)
    <3>1. "S" \in ValueSwitches /\ "s" \in ValueSwitches /\ "R" \in ValueSwitches /\ "D" \in ValueSwitches
          /\ "n" \in ValueSwitches
      BY DEF ValueSwitches
    <3>2. ~(x + 1 <= Len(line))
      BY <1>1, <2>1
    <3>3. /\ HoldsTo(c, "S", -1, x + 1) /\ HoldsTo(d, "s", -1, x + 1) /\ HoldsTo(a, "R", -1, x + 1)
          /\ EndsTo(b, a, x + 1) /\ HoldsTo(f, "D", <<>>, x + 1) /\ HoldsTo(n, "n", segment, x + 1)
      BY <1>3, <2>4, <2>5, <2>7, <3>1
    <3> QED BY <2>1, <3>2, <3>3, GivenFieldsAre DEF ValuesTo
  <2> QED BY <1>1, <2>1, <2>6, <2>8, ValuesMoved
<1> QED BY <1>2, <1>4, <1>5

-------------------------------------------------------------------------------
(* What an accepted line leaves behind the options. *)
Finished == /\ x = Len(line) + 1 /\ ValuesTo(given, x) /\ opened
            /\ optionBits = (Asked \ {"m", "v"}) \cap Mode
            /\ isRelMapFile <=> "m" \in Asked
Carried == tool = "filedump" /\ rc = "valid" =>
             /\ pc \in {"args", "letters"} => ValuesTo(given, x)
             /\ pc \in {"checked", "done"} => Finished

LEMMA FinishedKept ==
  ASSUME Finished, UNCHANGED <<x, line, given, opened, optionBits, isRelMapFile>>
  PROVE  Finished'
<1>1. Asked' = Asked /\ Mode' = Mode
  BY LineKept DEF Mode
<1>2. ValuesTo(given, x)'
  BY ValuesMoved DEF Finished
<1> QED BY <1>1, <1>2 DEF Finished

LEMMA ConsumeCarried ==
  ASSUME MainTyped, Accepting, Carried, tool = "filedump", ConsumeOptions, ConsumeFrame
  PROVE  Carried'
<1> SUFFICES ASSUME rc' = "valid"
             PROVE  /\ pc' \in {"args", "letters"} => ValuesTo(given, x)'
                    /\ pc' \in {"checked", "done"} => Finished'
  BY DEF Carried
<1>1. rc = "valid"
  BY DEF ConsumeOptions, ValueRepeated, ValueMissing, ValueRefused, ValueTaken, RangeTaken,
         LastArgument, NotSwitches, OpenGroup, Letter, CloseGroup, Finish, SetOption, optionVars
<1>2. Reading /\ ArgumentsRead /\ SwitchesRead /\ ValuesTo(given, x)
  <2>1. pc \in {"args", "letters", "left"}
    BY DEF ConsumeOptions, ValueRepeated, ValueMissing, ValueRefused, ValueTaken, RangeTaken,
           LastArgument, NotSwitches, OpenGroup, Letter, CloseGroup, Finish, AtValued, AtArgument
  <2>2. Reading
    BY <1>1, <2>1 DEF Accepting, Judged, Reading
  <2> QED BY <1>1, <2>2 DEF Accepting, Carried, Reading
<1>3. CASE ValueTaken \/ RangeTaken
  <2>1. PICK k \in {2, 3} : ValueAccepted(k)
    BY <1>1, <1>3, ValueTakenShape
  <2>2. ValuesTo(given, x)' /\ pc' = "args"
    BY <1>1, <1>2, <1>3, <2>1, ValueCarried DEF ValueAccepted
  <2> QED BY <2>2
<1>4. CASE LastArgument \/ OpenGroup \/ Letter \/ CloseGroup
  <2>1. ValuesTo(given, x)'
    BY <1>1, <1>2, <1>4, OthersCarried
  <2>2. pc' \in {"args", "letters"}
    BY <1>1, <1>2, <1>4 DEF LastArgument, OpenGroup, Letter, CloseGroup, Reading
  <2> QED BY <2>1, <2>2
<1>5. CASE Finish
  <2>1. pc = "args" /\ x > Len(line) /\ pc' = "checked" /\ UNCHANGED <<x, given, opened, isRelMapFile, line>>
    BY <1>2, <1>5 DEF Finish, Reading, MainTyped, Shape, ConsumeFrame
  <2>2. /\ x = Len(line) + 1 /\ opened /\ optionBits = Asked \ {"m", "v"}
        /\ Asked \subseteq Known \cup {"m", "v"}
        /\ isRelMapFile <=> "m" \in Asked
    BY <1>2, <2>1, AllRead
  <2>3. Asked' = Asked /\ Mode' = Mode
    BY <2>1, LineKept DEF Mode
  <2>4. ValuesTo(given, x)'
    BY <1>2, <2>1, ValuesMoved
  <2>5. optionBits' = optionBits \cap Mode
    <3>1. "c" \in optionBits <=> "c" \in Asked
      BY <2>2
    <3>2. "b" \in optionBits <=> "b" \in Asked
      BY <2>2
    <3>3. "d" \in optionBits <=> "d" \in Asked
      BY <2>2
    <3>4. CASE "c" \in Asked
      <4>1. optionBits' = optionBits \cap Keeps("c")
        BY <1>1, <1>5, <3>1, <3>4 DEF Finish
      <4>2. Mode = Keeps("c")
        BY <3>4 DEF Mode
      <4> QED BY <4>1, <4>2
    <3>5. CASE "c" \notin Asked /\ "b" \in Asked
      <4>1. optionBits' = optionBits \cap Keeps("b")
        BY <1>1, <1>5, <3>1, <3>2, <3>5 DEF Finish
      <4>2. Mode = Keeps("b")
        BY <3>5 DEF Mode
      <4> QED BY <4>1, <4>2
    <3>6. CASE "c" \notin Asked /\ "b" \notin Asked /\ "d" \in Asked
      <4>1. optionBits' = optionBits \cap Keeps("d")
        BY <1>1, <1>5, <3>1, <3>2, <3>3, <3>6 DEF Finish
      <4>2. Mode = Keeps("d")
        BY <3>6 DEF Mode
      <4> QED BY <4>1, <4>2
    <3>7. CASE "c" \notin Asked /\ "b" \notin Asked /\ "d" \notin Asked
      <4>1. optionBits' = optionBits
        BY <1>1, <1>5, <3>1, <3>2, <3>3, <3>7 DEF Finish
      <4>2. Mode = Known
        BY <3>7 DEF Mode, Known
      <4>3. optionBits \subseteq Known
        BY <2>2
      <4> QED BY <4>1, <4>2, <4>3
    <3> QED BY <3>4, <3>5, <3>6, <3>7
  <2>6. Finished'
    BY <2>1, <2>2, <2>3, <2>4, <2>5 DEF Finished
  <2> QED BY <2>1, <2>6
<1>6. CASE ValueRepeated \/ ValueMissing \/ ValueRefused \/ NotSwitches
  BY <1>6 DEF ValueRepeated, ValueMissing, ValueRefused, NotSwitches
<1> QED BY <1>3, <1>4, <1>5, <1>6 DEF ConsumeOptions

LEMMA CarriedStep ==
  ASSUME MainTyped, Accepting, Carried, [MainNext]_mainVars
  PROVE  Carried'
<1>1. Shape
  BY DEF MainTyped
<1>2. CASE RunModule
  <2>1. tool' # "filedump"
    BY <1>2 DEF RunModule
  <2> QED BY <2>1 DEF Carried
<1>3. CASE NoParameters
  <2>1. rc' = "copyright"
    BY <1>3 DEF NoParameters
  <2> QED BY <2>1 DEF Carried
<1>4. CASE StartOptions
  <2>1. /\ line # <<>> /\ line \in Seq(Arguments) /\ line' = line /\ pc' = "args"
        /\ given' = Default /\ x' = 1
    BY <1>1, <1>4 DEF StartOptions, Shape, AtStart, optionVars
  <2>2. Default = Given(-1, -1, -1, -1, 0, <<>>)
    BY DEF Default, Given
  <2>3. \A v, l : HoldsTo(v, l, v, 1) /\ EndsTo(v, v, 1)
    <3>1. 1..(1 - 1) = {}
      OBVIOUS
    <3> QED BY <3>1 DEF HoldsTo, EndsTo
  <2>4. 1 <= Len(line)
    BY <2>1
  <2>5. ValuesTo(Default, 1)
    BY <2>2, <2>3, <2>4, GivenFieldsAre DEF ValuesTo
  <2>6. ValuesTo(given, x)'
    BY <2>1, <2>5, ValuesMoved
  <2> QED BY <2>1, <2>6 DEF Carried
<1>5. CASE ParseFlag \/ PastPositions \/ RunTool
  <2>1. tool' # "filedump"
    BY <1>1, <1>5 DEF ParseFlag, ValueFlag, LongFlag, ShortGroup, Positional, PastPositions, AtPositional,
           AtFlag, RunTool, Shape
  <2> QED BY <2>1 DEF Carried
<1>6. CASE Consume
  BY <1>6, ConsumeFramed, ConsumeCarried
<1>7. CASE Dispatch
  <2>1. /\ pc = "checked" /\ pc' = "done"
        /\ UNCHANGED <<line, tool, rc, x, given, opened, optionBits, isRelMapFile>>
    BY <1>7 DEF Dispatch, optionVars
  <2> QED BY <2>1, FinishedKept DEF Carried
<1>8. CASE UNCHANGED mainVars
  <2>1. UNCHANGED <<line, tool, rc, pc, x, given, opened, optionBits, isRelMapFile>>
    BY <1>8 DEF mainVars, optionVars, mapVars
  <2> QED BY <2>1, FinishedKept, ValuesMoved DEF Carried
<1> QED BY <1>2, <1>3, <1>4, <1>5, <1>6, <1>7, <1>8 DEF MainNext, MainStep, MainEnded

LEMMA CarriedInit == MainInit => Carried
BY DEF MainInit, Carried

(* What is behind a switch of a well-formed line. *)
LEMMA BehindIs ==
  ASSUME line \in Seq(Arguments), WellFormed, NEW l \in ValueSwitches, NEW i \in DOMAIN line, Alone(line[i], l)
  PROVE  i \in 1..Len(line) /\ ValueGood(l, line[i + 1]) /\ i + 1 \in DOMAIN line /\ line[i + 1] \in Arguments
<1>1. Len(line) \in Nat /\ i \in 1..Len(line) /\ line[i] \in Arguments
  OBVIOUS
<1>2. Valued(line[i]) /\ Letters(line[i])[1] = l
  BY <1>1, ValuedAlone
<1>3. HasValue(i)
  BY <1>1 DEF WellFormed
<1>4. i < Len(line) - 1 /\ ValueGood(l, line[i + 1])
  BY <1>2, <1>3 DEF HasValue
<1>5. i + 1 \in DOMAIN line
  BY <1>1, <1>4
<1> QED BY <1>1, <1>4, <1>5

LEMMA NumberIs ==
  ASSUME line \in Seq(Arguments), WellFormed, \A i \in DOMAIN line : Fits(line[i]),
         NEW l \in ValueSwitches \ {"D"}, NEW v, NEW d, HoldsTo(v, l, d, Len(line) + 1)
  PROVE  v = ValueOf(l, d)
<1>1. Len(line) \in Nat /\ DOMAIN line = 1..Len(line) /\ 1..((Len(line) + 1) - 1) = DOMAIN line
  OBVIOUS
<1>2. CASE GivenAt(l) = {}
  <2>1. \A i \in DOMAIN line : ~Alone(line[i], l)
    BY <1>2 DEF GivenAt
  <2>2. v = d
    BY <1>1, <2>1 DEF HoldsTo
  <2> QED BY <1>2, <2>2 DEF ValueOf
<1>3. CASE GivenAt(l) # {}
  <2> DEFINE i == CHOOSE i \in GivenAt(l) : TRUE
  <2>1. i \in DOMAIN line /\ Alone(line[i], l)
    BY <1>3 DEF GivenAt
  <2>2. ValueOf(l, d) = NumberOf(line[i + 1])
    BY <1>3 DEF ValueOf, Behind
  <2> HIDE DEF i
  <2>3. v = GetOptionValue(line[i + 1])
    BY <1>1, <2>1 DEF HoldsTo, Reads
  <2>4. ValueGood(l, line[i + 1]) /\ i + 1 \in DOMAIN line /\ line[i + 1] \in Arguments
    BY <2>1, BehindIs
  <2>5. Numeric(line[i + 1])
    BY <2>4, ValuesNotDashed
  <2>6. GetOptionValue(line[i + 1]) = NumberOf(line[i + 1])
    BY <2>4, <2>5, NumbersRead
  <2> QED BY <2>2, <2>3, <2>6
<1> QED BY <1>2, <1>3

LEMMA TypesAre ==
  ASSUME line \in Seq(Arguments), NEW v, HoldsTo(v, "D", <<>>, Len(line) + 1)
  PROVE  v = IF GivenAt("D") = {} THEN <<>> ELSE Callbacks(Behind("D"))
<1>1. Len(line) \in Nat /\ DOMAIN line = 1..Len(line) /\ 1..((Len(line) + 1) - 1) = DOMAIN line
  OBVIOUS
<1>2. CASE GivenAt("D") = {}
  <2>1. \A i \in DOMAIN line : ~Alone(line[i], "D")
    BY <1>2 DEF GivenAt
  <2> QED BY <1>1, <1>2, <2>1 DEF HoldsTo
<1>3. CASE GivenAt("D") # {}
  <2> DEFINE i == CHOOSE i \in GivenAt("D") : TRUE
  <2>1. i \in DOMAIN line /\ Alone(line[i], "D")
    BY <1>3 DEF GivenAt
  <2>2. Behind("D") = line[i + 1]
    BY DEF Behind
  <2> HIDE DEF i
  <2>3. v = Callbacks(line[i + 1])
    BY <1>1, <2>1 DEF HoldsTo, Reads
  <2> QED BY <1>3, <2>2, <2>3
<1> QED BY <1>2, <1>3

LEMMA EndIs ==
  ASSUME line \in Seq(Arguments), \A i \in DOMAIN line : Fits(line[i]),
         NEW v, NEW start, EndsTo(v, start, Len(line) + 1)
  PROVE  LET ends == {i \in DOMAIN line : RangeEndAt(i)}
         IN  v = IF ends = {} THEN start ELSE NumberOf(line[CHOOSE i \in ends : TRUE])
<1> DEFINE ends == {i \in DOMAIN line : RangeEndAt(i)}
           i == CHOOSE i \in ends : TRUE
<1>1. Len(line) \in Nat /\ DOMAIN line = 1..Len(line) /\ 1..((Len(line) + 1) - 1) = DOMAIN line
  OBVIOUS
<1>2. CASE ends = {}
  <2>1. v = start
    BY <1>1, <1>2 DEF EndsTo
  <2> QED BY <1>2, <2>1
<1>3. CASE ends # {}
  <2>1. i \in DOMAIN line /\ RangeEndAt(i)
    BY <1>3
  <2> HIDE DEF i
  <2>2. v = GetOptionValue(line[i])
    BY <1>1, <2>1 DEF EndsTo
  <2>3. Numeric(line[i]) /\ line[i] \in Arguments
    BY <1>1, <2>1, RangeEndIs
  <2>4. GetOptionValue(line[i]) = NumberOf(line[i])
    BY <2>1, <2>3, NumbersRead
  <2> QED BY <1>3, <2>2, <2>4 DEF i
<1> QED BY <1>2, <1>3

(* The header of the dump: what is shown fits, with one blank behind it.   *)
LEMMA WidthIs == ASSUME NEW arg \in Arguments PROVE Width(arg) \in Nat
BY ArgumentKinds DEF Width

LEMMA HeaderShown ==
  ASSUME args \in Seq(Arguments), args # <<>>, NEW limit \in Nat
  PROVE  HeaderWidth(limit) < limit + 2
<1> DEFINE last == Len(args) - 1
           A == [width : 0..(limit + 1), full : BOOLEAN]
           e == [width |-> 0, full |-> FALSE]
           Shows(r, k) == IF r.full \/ ~HasRoom(r.width, args[k], limit)
                            THEN [width |-> r.width, full |-> TRUE]
                          ELSE [width |-> r.width + Width(args[k]) + (IF k < last THEN 1 ELSE 0), full |-> FALSE]
           g == [p \in A \X (1..last) |-> Shows(p[1], p[2])]
           Makes(h) == h = [k \in 0..last |-> IF k = 0 THEN e ELSE Shows(h[k - 1], k)]
           shown == CHOOSE h : Makes(h)
<1>1. last \in Nat /\ Len(args) \in Nat /\ \A k \in 1..last : args[k] \in Arguments
  <2>1. Len(args) \in Nat /\ Len(args) # 0 /\ \A k \in 1..Len(args) : args[k] \in Arguments
    OBVIOUS
  <2> QED BY <2>1
<1>2. e \in A
  OBVIOUS
<1>3. ASSUME NEW r \in A, NEW k \in 1..last PROVE Shows(r, k) \in A
  <2>1. r.width \in 0..(limit + 1) /\ Width(args[k]) \in Nat
    BY <1>1, WidthIs
  <2> HIDE DEF last
  <2>2. CASE r.full \/ ~HasRoom(r.width, args[k], limit)
    BY <2>1, <2>2
  <2>3. CASE ~(r.full \/ ~HasRoom(r.width, args[k], limit))
    <3>1. r.width + Width(args[k]) <= limit
      BY <2>3 DEF HasRoom
    <3> DEFINE n == r.width + Width(args[k]) + (IF k < last THEN 1 ELSE 0)
    <3>2. n \in 0..(limit + 1)
      BY <2>1, <3>1
    <3>3. Shows(r, k) = [width |-> n, full |-> FALSE]
      BY <2>3
    <3> HIDE DEF n
    <3> QED BY <3>2, <3>3
  <2> QED BY <2>2, <2>3
<1>4. g \in [A \X (1..last) -> A]
  <2> HIDE DEF A, Shows, last
  <2> QED BY <1>3
<1>5. PICK h : Recurs(h, last, A, e, g)
  <2> HIDE DEF A, e, g, last
  <2> QED BY <1>1, <1>2, <1>4, Recursion
<1>6. Makes(h)
  <2>1. h \in [0..last -> A] /\ h[0] = e /\ \A k \in 1..last : h[k] = g[<<h[k - 1], k>>]
    <3> HIDE DEF A, e, g, last
    <3> QED BY <1>5 DEF Recurs
  <2>2. \A k \in 0..last : k = 0 \/ (k \in 1..last /\ k - 1 \in 0..last)
    BY <1>1
  <2>3. \A k \in 1..last : h[k] = Shows(h[k - 1], k)
    <3> SUFFICES ASSUME NEW k \in 1..last PROVE h[k] = Shows(h[k - 1], k)
      OBVIOUS
    <3>1. h[k] = g[<<h[k - 1], k>>] /\ k - 1 \in 0..last
      <4>1. k \in 0..last /\ k # 0
        BY <1>1
      <4> HIDE DEF A, e, g, last
      <4> QED BY <2>1, <2>2, <4>1
    <3>2. h[k - 1] \in A
      <4> HIDE DEF A, e, g, last
      <4> QED BY <2>1, <3>1
    <3> HIDE DEF A, e, Shows, last
    <3> QED BY <3>1, <3>2
  <2> HIDE DEF A, e, g, Shows, last
  <2> QED BY <2>1, <2>2, <2>3
<1>7. Makes(shown)
  <2> HIDE DEF Makes
  <2> QED BY <1>6
<1>8. HeaderWidth(limit) = shown[last].width
  BY DEF HeaderWidth
<1> HIDE DEF shown
<1>9. shown[0] = e /\ \A k \in 1..last : shown[k] = Shows(shown[k - 1], k)
  <2>1. 0 \in 0..last /\ \A k \in 1..last : k # 0 /\ k \in 0..last
    BY <1>1
  <2>2. shown = [k \in 0..last |-> IF k = 0 THEN e ELSE Shows(shown[k - 1], k)]
    BY <1>7
  <2> HIDE DEF e, Shows, last
  <2> QED BY <2>1, <2>2
<1>10. shown[last] \in A
  <2> DEFINE P == {n \in Nat : n <= last => shown[n] \in A}
  <2>1. 0 \in P
    <3> HIDE DEF A, e, Shows, last
    <3> QED BY <1>2, <1>9
  <2>2. ASSUME NEW n \in Nat, n \in P PROVE n + 1 \in P
    <3> SUFFICES ASSUME n + 1 <= last PROVE shown[n + 1] \in A
      OBVIOUS
    <3>1. n + 1 \in 1..last /\ (n + 1) - 1 = n /\ n <= last
      BY <1>1
    <3>2. shown[n] \in A
      <4> HIDE DEF A, Shows, last
      <4> QED BY <2>2, <3>1
    <3>3. shown[n + 1] = Shows(shown[n], n + 1)
      <4> HIDE DEF A, e, Shows, last
      <4> QED BY <1>9, <3>1
    <3> HIDE DEF A, e, Shows, last, P
    <3> QED BY <1>3, <3>1, <3>2, <3>3
  <2>3. Nat \subseteq P
    <3> HIDE DEF P
    <3> QED BY <2>1, <2>2, NatInduct
  <2> HIDE DEF A, e, Shows, last
  <2> QED BY <1>1, <2>3
<1>11. shown[last].width \in 0..(limit + 1)
  <2> HIDE DEF last
  <2> QED BY <1>10
<1> QED BY <1>8, <1>11

LEMMA AcceptedIs ==
  ASSUME MainTyped, Accepting, Carried, tool = "filedump", pc = "done", job # "usage"
  PROVE  WellFormed /\ Finished /\ line \in Seq(Arguments) /\ args = line
<1>1. rc = "valid" /\ WellFormed
  BY DEF Accepting, Judged
<1> QED BY <1>1 DEF Carried, MainTyped, Shape

LEMMA HeaderHolds ==
  ASSUME MainTyped, Accepting, Carried
  PROVE  HeaderFits
<1> SUFFICES ASSUME job \in {"relmap", "control", "blocks"}
             PROVE  HeaderWidth(HeaderMax) < HeaderMax + 2
  BY DEF HeaderFits
<1>1. tool = "filedump" /\ pc = "done" /\ job # "usage"
  BY DEF MainTyped, Shape
<1>2. args \in Seq(Arguments) /\ args # <<>>
  BY <1>1, AcceptedIs DEF WellFormed
<1> QED BY <1>2, LimitsAssumption, HeaderShown

LEMMA CarriedHolds ==
  ASSUME MainTyped, Accepting, Carried
  PROVE  CarriedOut
<1> DEFINE start == ValueOf("R", -1)
           ends == {i \in DOMAIN line : RangeEndAt(i)}
           Promised ==
             /\ optionBits = (Asked \ {"m", "v"}) \cap Mode
             /\ (isRelMapFile <=> "m" \in Asked) /\ opened
             /\ given.size = ValueOf("S", -1) /\ given.segmentSize = ValueOf("s", -1)
             /\ given.start = start
             /\ given.end = IF ends = {} THEN start ELSE NumberOf(line[CHOOSE i \in ends : TRUE])
             /\ given.segmentNumber = ValueOf("n", SegmentOf(line[Len(line)]))
             /\ given.callbacks = IF GivenAt("D") = {} THEN <<>> ELSE Callbacks(Behind("D"))
<1>1. ASSUME tool = "filedump", pc = "done", job # "usage", \A i \in DOMAIN line : Fits(line[i])
      PROVE  Promised
  <2>1. /\ WellFormed /\ Finished /\ line \in Seq(Arguments) /\ x = Len(line) + 1
        /\ ValuesTo(given, Len(line) + 1) /\ ~(Len(line) + 1 <= Len(line))
    <3>1. WellFormed /\ Finished /\ line \in Seq(Arguments)
      BY <1>1, AcceptedIs
    <3>2. x = Len(line) + 1 /\ ValuesTo(given, x)
      BY <3>1 DEF Finished
    <3>3. Len(line) \in Nat
      BY <3>1
    <3> QED BY <3>1, <3>2, <3>3
  <2>2. /\ HoldsTo(given.size, "S", -1, Len(line) + 1) /\ HoldsTo(given.segmentSize, "s", -1, Len(line) + 1)
        /\ HoldsTo(given.start, "R", -1, Len(line) + 1) /\ EndsTo(given.end, given.start, Len(line) + 1)
        /\ HoldsTo(given.callbacks, "D", <<>>, Len(line) + 1)
        /\ HoldsTo(given.segmentNumber, "n", SegmentOf(line[Len(line)]), Len(line) + 1)
    BY <2>1 DEF ValuesTo
  <2>3. "S" \in ValueSwitches \ {"D"} /\ "s" \in ValueSwitches \ {"D"} /\ "R" \in ValueSwitches \ {"D"}
        /\ "n" \in ValueSwitches \ {"D"}
    BY DEF ValueSwitches
  <2>4. given.size = ValueOf("S", -1) /\ given.segmentSize = ValueOf("s", -1) /\ given.start = start
    BY <1>1, <2>1, <2>2, <2>3, NumberIs
  <2>5. given.segmentNumber = ValueOf("n", SegmentOf(line[Len(line)]))
    BY <1>1, <2>1, <2>2, <2>3, NumberIs
  <2>6. given.callbacks = IF GivenAt("D") = {} THEN <<>> ELSE Callbacks(Behind("D"))
    BY <2>1, <2>2, TypesAre
  <2>7. given.end = IF ends = {} THEN given.start ELSE NumberOf(line[CHOOSE i \in ends : TRUE])
    BY <1>1, <2>1, <2>2, EndIs
  <2> HIDE DEF start, ends
  <2> QED BY <2>1, <2>4, <2>5, <2>6, <2>7 DEF Finished
<1> HIDE DEF Promised
<1>2. Done("filedump") /\ job # "usage" /\ (\A i \in DOMAIN line : Fits(line[i])) => Promised
  BY <1>1 DEF Done
<1> QED BY <1>2, HeaderHolds DEF CarriedOut, Promised

(* An accepted line is carried out as it was written: every switch is in   *)
(* force but those the mode turns off, every value is the one behind its   *)
(* switch, the segment number is that of -n or of the file's name, and the *)
(* header of the dump shows what fits (ConsumeOptions,                     *)
(* CreateDumpFileHeader).                                                  *)
THEOREM LineCarriedOut == MainSpec => []CarriedOut
<1>1. MainInit => MainTyped /\ Accepting /\ Carried
  BY MainTypedInit, AcceptingInit, CarriedInit
<1>2. MainTyped /\ Accepting /\ Carried /\ [MainNext]_mainVars => (MainTyped /\ Accepting /\ Carried)'
  BY MainTypedStep, AcceptingStep, CarriedStep
<1>3. MainTyped /\ Accepting /\ Carried => CarriedOut
  BY CarriedHolds
<1> QED BY <1>1, <1>2, <1>3, PTL DEF MainSpec

-------------------------------------------------------------------------------
(* The map tools' flags.  What a flag that wants a value reads behind it,  *)
(* and the last one up to an argument.                                     *)
Taken(form, arg) == IF form = "pair" THEN IF arg.kind = "range" THEN <<arg.lo, arg.hi>> ELSE <<arg.value, arg.value>>
                    ELSE <<arg.value>>
WantsAt(i, names) == LongAt(i, names \cap ValueFlags)
LastTo(v, names, form, end) ==
  /\ (\A i \in 2..(end - 1) : ~WantsAt(i, names)) => v = <<>>
  /\ \A i \in 2..(end - 1) :
       WantsAt(i, names) /\ (\A j \in (i + 1)..(end - 1) : ~WantsAt(j, names))
         => v = Taken(form, args[i + 1])

LEMMA LastOn ==
  ASSUME NEW x0 \in Nat, NEW k \in Nat, NEW v, NEW names, NEW form, LastTo(v, names, form, x0),
         \A i \in x0..(x0 + k - 1) : ~WantsAt(i, names)
  PROVE  LastTo(v, names, form, x0 + k)
<1>1. \A i \in 2..(x0 + k - 1) : i \in 2..(x0 - 1) \/ i \in x0..(x0 + k - 1)
  OBVIOUS
<1>2. \A i \in 2..(x0 - 1) : i \in 2..(x0 + k - 1)
  OBVIOUS
<1>3. \A i : \A j \in (i + 1)..(x0 - 1) : x0 - 1 \in Int /\ j \in (i + 1)..(x0 + k - 1)
  OBVIOUS
<1> QED BY <1>1, <1>2, <1>3 DEF LastTo

LEMMA LastNew ==
  ASSUME NEW x0 \in Nat, x0 >= 2, NEW v, NEW names, NEW form,
         WantsAt(x0, names), ~WantsAt(x0 + 1, names), v = Taken(form, args[x0 + 1])
  PROVE  LastTo(v, names, form, x0 + 2)
<1>1. x0 \in 2..(x0 + 2 - 1)
  OBVIOUS
<1>2. \A i \in 2..(x0 + 2 - 1) : i = x0 \/ i = x0 + 1 \/ x0 \in (i + 1)..(x0 + 2 - 1)
  OBVIOUS
<1> QED BY <1>1, <1>2 DEF LastTo

(* Files, values and flags up to an argument. *)
FilesTo(end) == {i \in FilesAt : i < end}
PosTo(p, end) == /\ p \in Seq(Arguments) /\ Len(p) = Cardinality(FilesTo(end))
                 /\ \A i \in FilesTo(end) : p[Cardinality({j \in FilesAt : j <= i})] = args[i]
MapValues(a, b, c, d) == [range |-> a, heapPage |-> b, min |-> c, max |-> d]
RangeNames == {"--range", "--page", "--heap-range"}
LastsTo(v, end) == \E a, b, c, d :
  /\ v = MapValues(a, b, c, d)
  /\ LastTo(a, RangeNames, "pair", end) /\ LastTo(b, {"--heap-page"}, "single", end)
  /\ LastTo(c, {"--min"}, "single", end) /\ LastTo(d, {"--max"}, "single", end)
LetterTo(l, end) == \E i \in 1..(end - 1) : args[i].kind = "switches" /\ l \in Range(args[i].letters)
FlagsTo(fs, end) ==
  /\ \A l \in ShortFlags \ {"a"} :
       l \in fs <=> LetterTo(l, end) \/ (tool = "fsm" /\ LetterTo("a", end) /\ l \in {"H", "i", "s"})
  /\ \A f \in LongFlags \ {"--notV", "--notF"} :
       f \in fs <=> \E i \in 1..(end - 1) : LongAt(i, Spellings(f))
ReadTo(p, v, fs, end) == ~IsValue(end) /\ PosTo(p, end) /\ LastsTo(v, end) /\ FlagsTo(fs, end)

(* The arguments the step goes past. *)
LEMMA FilesOn ==
  ASSUME args \in Seq(Arguments), NEW x0 \in Nat, NEW k \in Nat, \A i \in x0..(x0 + k - 1) : i \notin FilesAt
  PROVE  FilesTo(x0 + k) = FilesTo(x0)
<1>1. \A i \in FilesAt : i \in Nat /\ (i < x0 + k => i < x0 \/ i \in x0..(x0 + k - 1))
  <2>1. FilesAt \subseteq 2..Len(args) /\ Len(args) \in Nat
    BY DEF FilesAt
  <2>2. \A i \in FilesAt : i \in Nat
    BY <2>1
  <2> QED BY <2>2
<1>2. \A i \in FilesAt : i < x0 => i < x0 + k
  BY <1>1
<1> QED BY <1>1, <1>2 DEF FilesTo

LEMMA FilesNew ==
  ASSUME args \in Seq(Arguments), NEW x0 \in FilesAt
  PROVE  /\ IsFiniteSet(FilesTo(x0)) /\ Cardinality(FilesTo(x0)) \in Nat
         /\ FilesTo(x0 + 1) = FilesTo(x0) \cup {x0} /\ x0 \notin FilesTo(x0)
         /\ Cardinality(FilesTo(x0 + 1)) = Cardinality(FilesTo(x0)) + 1
         /\ {j \in FilesAt : j <= x0} = FilesTo(x0 + 1)
         /\ \A i \in FilesTo(x0) : Cardinality({j \in FilesAt : j <= i}) \in 1..Cardinality(FilesTo(x0))
<1>1. FilesAt \subseteq 2..Len(args) /\ Len(args) \in Nat /\ \A i \in FilesAt : i \in Nat
  <2>1. FilesAt \subseteq 2..Len(args) /\ Len(args) \in Nat
    BY DEF FilesAt
  <2> QED BY <2>1
<1>2. IsFiniteSet(FilesAt)
  <2>1. IsFiniteSet(2..Len(args))
    BY <1>1, FS_Interval
  <2> QED BY <1>1, <2>1, FS_Subset
<1>3. FilesTo(x0) \subseteq FilesAt /\ x0 \notin FilesTo(x0)
  BY <1>1 DEF FilesTo
<1>4. IsFiniteSet(FilesTo(x0)) /\ Cardinality(FilesTo(x0)) \in Nat
  BY <1>2, <1>3, FS_Subset, FS_CardinalityType
<1>5. \A i \in FilesAt : (i < x0 + 1 <=> i < x0 \/ i = x0) /\ (i <= x0 <=> i < x0 + 1)
  BY <1>1
<1>6. FilesTo(x0 + 1) = FilesTo(x0) \cup {x0} /\ {j \in FilesAt : j <= x0} = FilesTo(x0 + 1)
  BY <1>5 DEF FilesTo
<1>7. Cardinality(FilesTo(x0) \cup {x0}) = Cardinality(FilesTo(x0)) + 1
  BY <1>3, <1>4, FS_AddElement
<1>8. ASSUME NEW i \in FilesTo(x0)
      PROVE  Cardinality({j \in FilesAt : j <= i}) \in 1..Cardinality(FilesTo(x0))
  <2> DEFINE T == {j \in FilesAt : j <= i}
  <2>1. i \in FilesAt /\ i < x0
    BY DEF FilesTo
  <2>2. T \subseteq FilesTo(x0)
    <3>1. \A j \in FilesAt : j <= i => j < x0
      <4>1. i \in Nat /\ x0 \in Nat /\ i < x0 /\ \A j \in FilesAt : j \in Nat
        BY <1>1, <2>1
      <4> QED BY <4>1
    <3> QED BY <3>1 DEF FilesTo
  <2>3. i \in T
    BY <1>1, <2>1
  <2> HIDE DEF T
  <2>4. IsFiniteSet(T) /\ Cardinality(T) <= Cardinality(FilesTo(x0)) /\ Cardinality(T) \in Nat
    BY <1>4, <2>2, FS_Subset, FS_CardinalityType
  <2>5. Cardinality(T) # 0
    BY <2>3, <2>4, FS_EmptySet
  <2> QED BY <1>4, <2>4, <2>5 DEF T
<1> QED BY <1>3, <1>4, <1>6, <1>7, <1>8

LEMMA ReadMoved ==
  ASSUME UNCHANGED <<args, tool>>, NEW p, NEW v, NEW fs, NEW end,
         pos' = p, values' = v, flags' = fs, x' = end, ReadTo(p, v, fs, end)
  PROVE  ReadTo(pos, values, flags, x)'
<1>1. ValueFlags' = ValueFlags /\ LongFlags' = LongFlags /\ ShortFlags' = ShortFlags
  BY DEF ValueFlags, LongFlags, ShortFlags
<1>2. \A i, names : LongAt(i, names)' = LongAt(i, names)
  BY DEF LongAt
<1>3. \A i : IsValue(i)' = IsValue(i) /\ IsFlag(i)' = IsFlag(i)
  BY <1>1, <1>2 DEF IsValue, IsFlag
<1>4. FilesAt' = FilesAt
  BY <1>3 DEF FilesAt
<1>5. \A i : FilesTo(i)' = FilesTo(i)
  BY <1>4 DEF FilesTo
<1>6. PosTo(pos, x)' <=> PosTo(p, end)
  <2>1. PosTo(pos, x)' <=> /\ p \in Seq(Arguments) /\ Len(p) = Cardinality(FilesTo(x)')
                           /\ \A i \in FilesTo(x)' : p[Cardinality({j \in FilesAt' : j <= i})] = args[i]
    BY DEF PosTo
  <2>2. FilesTo(x)' = FilesTo(end)
    BY <1>4 DEF FilesTo
  <2> QED BY <1>4, <2>1, <2>2 DEF PosTo
<1>7. \A i, names : WantsAt(i, names)' = WantsAt(i, names)
  BY <1>1 DEF WantsAt, LongAt
<1>8. \A w, names, form : LastTo(w, names, form, x)' <=> LastTo(w, names, form, end)
  BY <1>7 DEF LastTo
<1>9. LastsTo(values, x)' <=> LastsTo(v, end)
  BY <1>8 DEF LastsTo
<1>10. \A l : LetterTo(l, x)' <=> LetterTo(l, end)
  BY DEF LetterTo
<1>11. FlagsTo(flags, x)' <=> FlagsTo(fs, end)
  BY <1>1, <1>2, <1>10 DEF FlagsTo
<1>12. IsValue(x)' <=> IsValue(end)
  BY <1>1 DEF IsValue, LongAt
<1> QED BY <1>6, <1>9, <1>11, <1>12 DEF ReadTo

LEMMA FilesKept ==
  ASSUME UNCHANGED <<args, tool>>
  PROVE  FilesAt' = FilesAt /\ Proper' = Proper
<1>1. ValueFlags' = ValueFlags /\ LongFlags' = LongFlags
  BY DEF ValueFlags, LongFlags
<1>2. \A i, names : LongAt(i, names)' = LongAt(i, names)
  BY DEF LongAt
<1>3. \A i : IsValue(i)' = IsValue(i) /\ IsFlag(i)' = IsFlag(i)
  BY <1>1, <1>2 DEF IsValue, IsFlag
<1> QED BY <1>1, <1>2, <1>3 DEF FilesAt, Proper

(* A flag, and what it wants. *)
Here == /\ x \in 2..Len(args) /\ x \in Nat /\ Len(args) \in Nat /\ args \in Seq(Arguments)
        /\ args[x] \in Arguments /\ pos \in Seq(Arguments)
LEMMA HereAtFlag ==
  ASSUME MainTyped, AtFlag
  PROVE  Here
<1>1. /\ args \in Seq(Arguments) /\ pos \in Seq(Arguments) /\ x \in 1..(Len(args) + 1) /\ x >= 2 /\ x <= Len(args)
  BY DEF MainTyped, MainTypeOK, Shape, AtFlag
<1>2. Len(args) \in Nat
  BY <1>1
<1> QED BY <1>1, <1>2 DEF Here

LEMMA Spelled ==
  /\ ValueFlags \cap LongFlags = {} /\ RangeNames \cap {"--heap-page", "--min", "--max"} = {}
  /\ ValueFlags \subseteq RangeNames \cup {"--heap-page", "--min", "--max"}
BY DEF ValueFlags, LongFlags, RangeNames

(* The effect of a flag on those that can be switched on. *)
LEMMA LongEffect ==
  ASSUME NEW n \in LongFlags, tool \in {"fsm", "vm"}
  PROVE  /\ \A f \in LongFlags \ {"--notV", "--notF"} : f \in Effect(n) <=> n \in Spellings(f)
         /\ \A l \in ShortFlags : l \notin Effect(n)
<1>1. CASE tool = "fsm"
  BY <1>1 DEF LongFlags, ShortFlags, Effect, Spellings
<1>2. CASE tool # "fsm"
  <2>1. LongFlags = {"--extra", "--only-changed", "--only-not-visible", "--notV", "--only-not-frozen", "--notF"}
        /\ ShortFlags = {"H", "q"}
    BY <1>2 DEF LongFlags, ShortFlags
  <2>2. Effect(n) = IF n = "--notV" THEN {"--only-not-visible"}
                    ELSE IF n = "--notF" THEN {"--only-not-frozen"} ELSE {n}
    BY <2>1 DEF Effect
  <2>3. ASSUME NEW f \in LongFlags \ {"--notV", "--notF"} PROVE f \in Effect(n) <=> n \in Spellings(f)
    BY <2>1, <2>2, <2>3 DEF Spellings
  <2> QED BY <2>1, <2>2, <2>3
<1> QED BY <1>1, <1>2

LEMMA ShortEffect ==
  ASSUME NEW S, tool \in {"fsm", "vm"}
  PROVE  LET U == UNION {Effect(l) : l \in S \cap ShortFlags}
         IN  /\ \A l \in ShortFlags \ {"a"} :
                  l \in U <=> l \in S \/ (tool = "fsm" /\ "a" \in S /\ l \in {"H", "i", "s"})
             /\ \A f \in LongFlags : f \notin U
<1> DEFINE U == UNION {Effect(l) : l \in S \cap ShortFlags}
<1>1. \A l \in ShortFlags : Effect(l) = IF l = "a" THEN {"H", "i", "s"} ELSE {l}
  BY DEF ShortFlags, Effect
<1>2. \A k : k \in U <=> \E l \in S \cap ShortFlags : k \in Effect(l)
  OBVIOUS
<1> HIDE DEF U
<1>3. "a" \in ShortFlags <=> tool = "fsm"
  BY DEF ShortFlags
<1>4. ASSUME NEW k \in ShortFlags \ {"a"}
      PROVE  k \in U <=> k \in S \/ (tool = "fsm" /\ "a" \in S /\ k \in {"H", "i", "s"})
  <2>1. ASSUME k \in U PROVE k \in S \/ (tool = "fsm" /\ "a" \in S /\ k \in {"H", "i", "s"})
    <3>1. PICK l \in S \cap ShortFlags : k \in Effect(l)
      BY <1>2, <2>1
    <3> QED BY <1>1, <1>3, <3>1
  <2>2. ASSUME k \in S PROVE k \in U
    BY <1>1, <1>2, <1>4, <2>2
  <2>3. ASSUME tool = "fsm", "a" \in S, k \in {"H", "i", "s"} PROVE k \in U
    BY <1>1, <1>2, <1>3, <2>3
  <2> QED BY <2>1, <2>2, <2>3
<1>5. ASSUME NEW f \in LongFlags, f \in U PROVE FALSE
  <2>1. PICK l \in S \cap ShortFlags : f \in Effect(l)
    BY <1>2, <1>5
  <2>2. f \in {"a", "H", "i", "s", "q"}
    BY <1>1, <2>1 DEF ShortFlags
  <2> QED BY <2>2 DEF LongFlags
<1> QED BY <1>4, <1>5 DEF U

LEMMA WordBehind ==
  ASSUME Here, Proper, LongAt(x, ValueFlags)
  PROVE  /\ x < Len(args) /\ x + 1 \in 2..Len(args)
         /\ args[x + 1].kind = IF args[x].name \in {"--range", "--heap-range"} THEN "range" ELSE "number"
         /\ ~IsFlag(x + 1) /\ IsValue(x + 1) /\ IsFlag(x)
         /\ \A names : ~LongAt(x + 1, names)
<1>1. x \in 2..Len(args) /\ x \in Nat /\ Len(args) \in Nat
  BY DEF Here
<1>2. /\ x < Len(args)
      /\ args[x + 1].kind = IF args[x].name \in {"--range", "--heap-range"} THEN "range" ELSE "number"
  BY <1>1 DEF Proper
<1>3. args[x + 1].kind \in {"range", "number"}
  BY <1>2
<1>4. \A names : ~LongAt(x + 1, names)
  BY <1>3 DEF LongAt
<1>5. ~IsFlag(x + 1)
  BY <1>3, <1>4 DEF IsFlag
<1>6. IsValue(x + 1)
  <2>1. x + 1 > 2 /\ (x + 1) - 1 = x
    BY <1>1
  <2> QED BY <2>1 DEF IsValue
<1>7. IsFlag(x)
  BY DEF IsFlag, LongAt
<1> QED BY <1>1, <1>2, <1>4, <1>5, <1>6, <1>7

LEMMA NoFileHere ==
  ASSUME Here, NEW k \in Nat, PosTo(pos, x), \A i \in x..(x + k - 1) : IsFlag(i) \/ IsValue(i)
  PROVE  PosTo(pos, x + k)
<1>1. \A i \in x..(x + k - 1) : i \notin FilesAt
  BY DEF FilesAt
<1>2. FilesTo(x + k) = FilesTo(x)
  BY <1>1, FilesOn DEF Here
<1> QED BY <1>2 DEF PosTo

LEMMA FileHere ==
  ASSUME Here, PosTo(pos, x), x \in FilesAt
  PROVE  PosTo(Append(pos, args[x]), x + 1)
<1> DEFINE p == Append(pos, args[x])
           n == Cardinality(FilesTo(x))
           Rank(i) == Cardinality({j \in FilesAt : j <= i})
<1>1. /\ pos \in Seq(Arguments) /\ args[x] \in Arguments /\ args \in Seq(Arguments)
      /\ n \in Nat /\ Len(pos) = n
  BY FilesNew DEF Here, PosTo
<1>2. /\ FilesTo(x + 1) = FilesTo(x) \cup {x} /\ Cardinality(FilesTo(x + 1)) = n + 1
      /\ Rank(x) = n + 1 /\ \A i \in FilesTo(x) : Rank(i) \in 1..n
  BY <1>1, FilesNew
<1>3. \A i \in FilesTo(x) : pos[Rank(i)] = args[i]
  BY DEF PosTo
<1> HIDE DEF n, Rank
<1>4. p \in Seq(Arguments) /\ Len(p) = n + 1 /\ p[n + 1] = args[x] /\ \A j \in 1..n : p[j] = pos[j]
  BY <1>1
<1> HIDE DEF p
<1>5. \A i \in FilesTo(x + 1) : p[Rank(i)] = args[i]
  BY <1>2, <1>3, <1>4
<1> QED BY <1>2, <1>4, <1>5 DEF PosTo, p, Rank

(* The value of a flag. *)
LEMMA ValueStored ==
  ASSUME Here, Proper, LongAt(x, ValueFlags), LastsTo(values, x)
  PROVE  LastsTo(Store(args[x].name, args[x + 1]), x + 2)
<1> DEFINE name == args[x].name
           arg == args[x + 1]
<1>1. x \in Nat /\ x >= 2 /\ 2 \in Nat
  BY DEF Here
<1>2. /\ arg.kind = IF name \in {"--range", "--heap-range"} THEN "range" ELSE "number"
      /\ \A names : ~WantsAt(x + 1, names)
  BY WordBehind DEF WantsAt
<1>3. name \in RangeNames \cup {"--heap-page", "--min", "--max"}
      /\ \A names : WantsAt(x, names) <=> name \in names
  <2>1. name \in ValueFlags /\ args[x].kind = "long"
    BY DEF LongAt
  <2> QED BY <2>1, Spelled DEF WantsAt, LongAt
<1>4. PICK a, b, c, d : /\ values = MapValues(a, b, c, d)
                        /\ LastTo(a, RangeNames, "pair", x) /\ LastTo(b, {"--heap-page"}, "single", x)
                        /\ LastTo(c, {"--min"}, "single", x) /\ LastTo(d, {"--max"}, "single", x)
  BY DEF LastsTo
<1> HIDE DEF arg, name
<1>5. ASSUME NEW w, NEW names, NEW form, name \notin names, LastTo(w, names, form, x)
      PROVE  LastTo(w, names, form, x + 2)
  <2>1. \A i \in x..(x + 2 - 1) : i = x \/ i = x + 1
    BY <1>1
  <2>2. \A i \in x..(x + 2 - 1) : ~WantsAt(i, names)
    BY <1>2, <1>3, <1>5, <2>1
  <2> QED BY <1>1, <1>5, <2>2, LastOn
<1>6. ASSUME NEW names, NEW form, name \in names
      PROVE  LastTo(Taken(form, arg), names, form, x + 2)
  BY <1>1, <1>2, <1>3, <1>6, LastNew DEF arg
<1>7. CASE name \in RangeNames
  <2> DEFINE w == Taken("pair", arg)
  <2>1. LastTo(w, RangeNames, "pair", x + 2)
    BY <1>6, <1>7
  <2>2. name \notin {"--heap-page"} /\ name \notin {"--min"} /\ name \notin {"--max"}
    BY <1>7, Spelled
  <2>3. Store(name, arg) = MapValues(w, b, c, d)
    <3>1. Store(name, arg) = [values EXCEPT !.range = w]
      BY <1>2, <1>7 DEF Store, RangeNames, Taken, Atol
    <3> HIDE DEF w
    <3>2. [MapValues(a, b, c, d) EXCEPT !.range = w] = MapValues(w, b, c, d)
      BY DEF MapValues
    <3> QED BY <1>4, <3>1, <3>2
  <2>4. LastTo(b, {"--heap-page"}, "single", x + 2) /\ LastTo(c, {"--min"}, "single", x + 2) /\ LastTo(d, {"--max"}, "single", x + 2)
    BY <1>4, <1>5, <2>2
  <2> HIDE DEF w
  <2> QED BY <2>1, <2>3, <2>4 DEF LastsTo, name, arg
<1>8. CASE name \in {"--heap-page"}
  <2> DEFINE w == Taken("single", arg)
  <2>1. LastTo(w, {"--heap-page"}, "single", x + 2)
    <3> DEFINE S == {"--heap-page"}
    <3>1. name \in S
      BY <1>8
    <3> HIDE DEF S, w
    <3>2. LastTo(Taken("single", arg), S, "single", x + 2)
      BY <1>6, <3>1
    <3> QED BY <3>2 DEF S, w
  <2>2. name \notin RangeNames /\ name \notin {"--min"} /\ name \notin {"--max"}
    BY <1>8 DEF RangeNames
  <2>3. Store(name, arg) = MapValues(a, w, c, d)
    <3>1. Store(name, arg) = [values EXCEPT !.heapPage = w]
      BY <1>2, <1>8 DEF Store, Taken, Atol
    <3> HIDE DEF w
    <3>2. [MapValues(a, b, c, d) EXCEPT !.heapPage = w] = MapValues(a, w, c, d)
      BY DEF MapValues
    <3> QED BY <1>4, <3>1, <3>2
  <2>4. LastTo(a, RangeNames, "pair", x + 2) /\ LastTo(c, {"--min"}, "single", x + 2) /\ LastTo(d, {"--max"}, "single", x + 2)
    BY <1>4, <1>5, <2>2
  <2> HIDE DEF w
  <2> QED BY <2>1, <2>3, <2>4 DEF LastsTo, name, arg
<1>9. CASE name \in {"--min"}
  <2> DEFINE w == Taken("single", arg)
  <2>1. LastTo(w, {"--min"}, "single", x + 2)
    <3> DEFINE S == {"--min"}
    <3>1. name \in S
      BY <1>9
    <3> HIDE DEF S, w
    <3>2. LastTo(Taken("single", arg), S, "single", x + 2)
      BY <1>6, <3>1
    <3> QED BY <3>2 DEF S, w
  <2>2. name \notin RangeNames /\ name \notin {"--heap-page"} /\ name \notin {"--max"}
    BY <1>9 DEF RangeNames
  <2>3. Store(name, arg) = MapValues(a, b, w, d)
    <3>1. Store(name, arg) = [values EXCEPT !.min = w]
      BY <1>2, <1>9 DEF Store, Taken, Atol
    <3> HIDE DEF w
    <3>2. [MapValues(a, b, c, d) EXCEPT !.min = w] = MapValues(a, b, w, d)
      BY DEF MapValues
    <3> QED BY <1>4, <3>1, <3>2
  <2>4. LastTo(a, RangeNames, "pair", x + 2) /\ LastTo(b, {"--heap-page"}, "single", x + 2) /\ LastTo(d, {"--max"}, "single", x + 2)
    BY <1>4, <1>5, <2>2
  <2> HIDE DEF w
  <2> QED BY <2>1, <2>3, <2>4 DEF LastsTo, name, arg
<1>10. CASE name \in {"--max"}
  <2> DEFINE w == Taken("single", arg)
  <2>1. LastTo(w, {"--max"}, "single", x + 2)
    <3> DEFINE S == {"--max"}
    <3>1. name \in S
      BY <1>10
    <3> HIDE DEF S, w
    <3>2. LastTo(Taken("single", arg), S, "single", x + 2)
      BY <1>6, <3>1
    <3> QED BY <3>2 DEF S, w
  <2>2. name \notin RangeNames /\ name \notin {"--heap-page"} /\ name \notin {"--min"}
    BY <1>10 DEF RangeNames
  <2>3. Store(name, arg) = MapValues(a, b, c, w)
    <3>1. Store(name, arg) = [values EXCEPT !.max = w]
      BY <1>2, <1>10 DEF Store, Taken, Atol
    <3> HIDE DEF w
    <3>2. [MapValues(a, b, c, d) EXCEPT !.max = w] = MapValues(a, b, c, w)
      BY DEF MapValues
    <3> QED BY <1>4, <3>1, <3>2
  <2>4. LastTo(a, RangeNames, "pair", x + 2) /\ LastTo(b, {"--heap-page"}, "single", x + 2) /\ LastTo(c, {"--min"}, "single", x + 2)
    BY <1>4, <1>5, <2>2
  <2> HIDE DEF w
  <2> QED BY <2>1, <2>3, <2>4 DEF LastsTo, name, arg
<1> QED BY <1>3, <1>7, <1>8, <1>9, <1>10

(* No value is wanted by what is no flag with a value. *)
LEMMA LastsOn ==
  ASSUME Here, LastsTo(values, x), ~LongAt(x, ValueFlags)
  PROVE  LastsTo(values, x + 1)
<1>1. \A names : \A i \in x..(x + 1 - 1) : ~WantsAt(i, names)
  <2>1. \A i \in x..(x + 1 - 1) : i = x
    BY DEF Here
  <2> QED BY <2>1 DEF WantsAt, LongAt
<1>2. x \in Nat /\ 1 \in Nat
  BY DEF Here
<1>3. \A w, names, form : LastTo(w, names, form, x) => LastTo(w, names, form, x + 1)
  BY <1>1, <1>2, LastOn
<1> QED BY <1>3 DEF LastsTo

LEMMA FlagsOn ==
  ASSUME Here, NEW fs, NEW U,
         \A l \in ShortFlags \ {"a"} :
           l \in U <=> args[x].kind = "switches"
                       /\ (l \in Range(args[x].letters)
                           \/ (tool = "fsm" /\ "a" \in Range(args[x].letters) /\ l \in {"H", "i", "s"})),
         \A f \in LongFlags \ {"--notV", "--notF"} : f \in U <=> LongAt(x, Spellings(f)),
         FlagsTo(fs, x)
  PROVE  FlagsTo(fs \cup U, x + 1)
<1>1. \A i \in 1..(x + 1 - 1) : i \in 1..(x - 1) \/ i = x
  BY DEF Here
<1>2. (\A i \in 1..(x - 1) : i \in 1..(x + 1 - 1)) /\ x \in 1..(x + 1 - 1)
  BY DEF Here
<1>3. \A l : LetterTo(l, x + 1) <=> LetterTo(l, x) \/ (args[x].kind = "switches" /\ l \in Range(args[x].letters))
  BY <1>1, <1>2 DEF LetterTo
<1>4. \A names : (\E i \in 1..(x + 1 - 1) : LongAt(i, names)) <=> (\E i \in 1..(x - 1) : LongAt(i, names)) \/ LongAt(x, names)
  BY <1>1, <1>2
<1>5. ASSUME NEW l \in ShortFlags \ {"a"}
      PROVE  l \in fs \cup U <=> LetterTo(l, x + 1) \/ (tool = "fsm" /\ LetterTo("a", x + 1) /\ l \in {"H", "i", "s"})
  <2>1. l \in fs <=> LetterTo(l, x) \/ (tool = "fsm" /\ LetterTo("a", x) /\ l \in {"H", "i", "s"})
    BY DEF FlagsTo
  <2> QED BY <1>3, <2>1
<1>6. ASSUME NEW f \in LongFlags \ {"--notV", "--notF"}
      PROVE  f \in fs \cup U <=> \E i \in 1..(x + 1 - 1) : LongAt(i, Spellings(f))
  <2>1. f \in fs <=> \E i \in 1..(x - 1) : LongAt(i, Spellings(f))
    BY DEF FlagsTo
  <2> QED BY <1>4, <2>1
<1> DEFINE W == fs \cup U
           end == x + 1
<1>7. /\ \A l \in ShortFlags \ {"a"} :
           l \in W <=> LetterTo(l, end) \/ (tool = "fsm" /\ LetterTo("a", end) /\ l \in {"H", "i", "s"})
      /\ \A f \in LongFlags \ {"--notV", "--notF"} :
           f \in W <=> \E i \in 1..(end - 1) : LongAt(i, Spellings(f))
  BY <1>5, <1>6 DEF Here
<1>8. FlagsTo(W, end)
  <2> HIDE DEF W, end
  <2> QED BY <1>7 DEF FlagsTo
<1> QED BY <1>8

(* An argument that is no flag switches nothing on. *)
LEMMA FlagsQuiet ==
  ASSUME Here, NEW fs, FlagsTo(fs, x), ~IsShort, ~LongAt(x, LongFlags), tool \in {"fsm", "vm"}
  PROVE  FlagsTo(fs, x + 1)
<1>1. ~(args[x].kind = "switches" /\ \E l : l \in Range(args[x].letters))
  <2>1. args[x].kind = "switches" => args[x].letters = <<>>
    BY DEF IsShort
  <2>2. \A l : l \notin Range(<<>>)
    BY DEF Range
  <2> QED BY <2>1, <2>2
<1>2. \A f \in LongFlags \ {"--notV", "--notF"} : Spellings(f) \subseteq LongFlags
  <2>1. CASE tool = "fsm"
    BY <2>1 DEF LongFlags, Spellings
  <2>2. CASE tool = "vm"
    <3>1. LongFlags = {"--extra", "--only-changed", "--only-not-visible", "--notV", "--only-not-frozen", "--notF"}
      BY <2>2 DEF LongFlags
    <3> QED BY <3>1 DEF Spellings
  <2> QED BY <2>1, <2>2
<1>3. \A f \in LongFlags \ {"--notV", "--notF"} : ~LongAt(x, Spellings(f))
  BY <1>2 DEF LongAt
<1>4. FlagsTo(fs \cup {}, x + 1)
  BY <1>1, <1>3, FlagsOn
<1>5. fs \cup {} = fs
  OBVIOUS
<1> QED BY <1>4, <1>5

(* What takes a place is a file, on a proper line.                         *)
LEMMA PlaceTaken ==
  ASSUME Here, Proper, AtPositional, ~IsValue(x)
  PROVE  ~LongAt(x, ValueFlags) /\ x \in FilesAt
<1>1. ~IsShort /\ ~LongAt(x, LongFlags) /\ (LongAt(x, ValueFlags) => x = Len(args))
  BY DEF AtPositional, IsLong, LongAt
<1>2. ~LongAt(x, ValueFlags)
  <2>1. LongAt(x, ValueFlags) => x < Len(args)
    BY WordBehind
  <2> QED BY <1>1, <2>1 DEF Here
<1>3. ~IsFlag(x)
  BY <1>1, <1>2 DEF IsFlag, IsShort, LongAt
<1> QED BY <1>2, <1>3 DEF FilesAt, Here

(* The file too many: those before it fill all places.                     *)
LEMMA PlacesFull ==
  ASSUME MainTyped, tool \in {"fsm", "vm"}, Proper, pc = "flags", ReadTo(pos, values, flags, x), PastPositions
  PROVE  ~(Cardinality(FilesAt) <= PosMax)
<1>1. Here /\ AtPositional /\ Len(pos) >= PosMax
  <2>1. AtFlag
    BY DEF PastPositions, AtPositional
  <2> QED BY <2>1, HereAtFlag DEF PastPositions
<1>2. x \in FilesAt /\ Len(pos) = Cardinality(FilesTo(x)) /\ args \in Seq(Arguments)
  BY <1>1, PlaceTaken DEF ReadTo, PosTo, Here
<1>3. /\ Cardinality(FilesTo(x)) \in Nat
      /\ Cardinality(FilesTo(x + 1)) = Cardinality(FilesTo(x)) + 1
  BY <1>2, FilesNew
<1>4. Cardinality(FilesTo(x + 1)) <= Cardinality(FilesAt) /\ Cardinality(FilesAt) \in Nat
  <2>1. FilesAt \subseteq 2..Len(args) /\ Len(args) \in Nat /\ FilesTo(x + 1) \subseteq FilesAt
    BY <1>2 DEF FilesAt, FilesTo
  <2>2. IsFiniteSet(2..Len(args))
    BY <2>1, FS_Interval
  <2>3. IsFiniteSet(FilesAt)
    BY <2>1, <2>2, FS_Subset
  <2> QED BY <2>1, <2>3, FS_Subset, FS_CardinalityType
<1> QED BY <1>1, <1>2, <1>3, <1>4, PosAssumption

LEMMA ReadStep ==
  ASSUME MainTyped, tool \in {"fsm", "vm"}, Proper, pc = "flags", ReadTo(pos, values, flags, x), ParseFlag
  PROVE  ReadTo(pos, values, flags, x)'
<1>1. UNCHANGED <<args, tool>>
  BY DEF ParseFlag
<1>2. Here
  <2>1. AtFlag
    BY DEF ParseFlag, ValueFlag, LongFlag, ShortGroup, Positional, AtPositional
  <2> QED BY <2>1, HereAtFlag
<1>3. x \in Nat /\ x \in 2..Len(args) /\ ~IsValue(x) /\ PosTo(pos, x) /\ LastsTo(values, x) /\ FlagsTo(flags, x)
  BY <1>2 DEF Here, ReadTo
<1>4. \A names : IsLong(names) <=> LongAt(x, names)
  BY DEF IsLong, LongAt
<1>5. ValueFlags \cap LongFlags = {}
  BY Spelled
<1> DEFINE Reached(p, v, fs, end) == pos' = p /\ values' = v /\ flags' = fs /\ x' = end /\ ReadTo(p, v, fs, end)
<1>6. ASSUME NEW p, NEW v, NEW fs, NEW end, Reached(p, v, fs, end)
      PROVE  ReadTo(pos, values, flags, x)'
  BY <1>1, <1>6, ReadMoved
<1>7. ~LongAt(x, ValueFlags) => ~IsValue(x + 1)
  <2>1. (x + 1) - 1 = x
    BY <1>3
  <2> QED BY <2>1 DEF IsValue
<1>8. ASSUME IsFlag(x), ~LongAt(x, ValueFlags) PROVE PosTo(pos, x + 1)
  <2>1. \A i \in x..(x + 1 - 1) : IsFlag(i) \/ IsValue(i)
    <3>1. \A i \in x..(x + 1 - 1) : i = x
      BY <1>3
    <3> QED BY <1>8, <3>1
  <2> QED BY <1>2, <1>3, <2>1, NoFileHere
<1>9. CASE ValueFlag
  <2>1. /\ LongAt(x, ValueFlags) /\ pos' = pos /\ flags' = flags /\ x' = x + 2
        /\ values' = Store(args[x].name, args[x + 1])
    BY <1>4, <1>9 DEF ValueFlag
  <2>2. /\ ~IsFlag(x + 1) /\ IsValue(x + 1) /\ IsFlag(x) /\ x + 1 \in 2..Len(args)
        /\ \A names : ~LongAt(x + 1, names)
        /\ args[x + 1].kind \in {"range", "number"}
    BY <1>2, <2>1, WordBehind
  <2>3. PosTo(pos, x + 2)
    <3>1. \A i \in x..(x + 2 - 1) : i = x \/ i = x + 1
      BY <1>3
    <3>2. \A i \in x..(x + 2 - 1) : IsFlag(i) \/ IsValue(i)
      BY <2>2, <3>1
    <3> QED BY <1>2, <1>3, <3>2, NoFileHere
  <2>4. LastsTo(Store(args[x].name, args[x + 1]), x + 2)
    BY <1>2, <1>3, <2>1, ValueStored
  <2>5. ~IsValue(x + 2)
    <3>1. (x + 2) - 1 = x + 1
      BY <1>3
    <3> QED BY <2>2, <3>1 DEF IsValue
  <2>6. FlagsTo(flags, x + 2)
    <3>1. \A i \in 1..(x + 2 - 1) : i \in 1..(x - 1) \/ i = x \/ i = x + 1
      BY <1>3
    <3>2. \A i \in 1..(x - 1) : i \in 1..(x + 2 - 1)
      BY <1>3
    <3>3. args[x].kind # "switches" /\ args[x + 1].kind # "switches"
      BY <2>1, <2>2 DEF LongAt
    <3>4. ASSUME NEW l PROVE LetterTo(l, x + 2) <=> LetterTo(l, x)
      <4> DEFINE Is(i) == args[i].kind = "switches" /\ l \in Range(args[i].letters)
      <4>1. ~Is(x) /\ ~Is(x + 1)
        BY <3>3
      <4>2. /\ LetterTo(l, x + 2) <=> \E i \in 1..(x + 2 - 1) : Is(i)
            /\ LetterTo(l, x) <=> \E i \in 1..(x - 1) : Is(i)
        BY <1>3 DEF LetterTo
      <4> HIDE DEF Is
      <4> QED BY <3>1, <3>2, <4>1, <4>2
    <3>5. ASSUME NEW f \in LongFlags \ {"--notV", "--notF"} PROVE ~LongAt(x, Spellings(f))
      <4>1. Spellings(f) \subseteq {f, "--notV", "--notF"}
        BY DEF Spellings
      <4>2. ValueFlags \cap {f, "--notV", "--notF"} = {}
        BY <1>5 DEF ValueFlags
      <4> QED BY <2>1, <4>1, <4>2 DEF LongAt
    <3>6. \A f \in LongFlags \ {"--notV", "--notF"} :
            (\E i \in 1..(x + 2 - 1) : LongAt(i, Spellings(f))) <=> \E i \in 1..(x - 1) : LongAt(i, Spellings(f))
      BY <2>2, <3>1, <3>2, <3>5
    <3> QED BY <1>3, <3>4, <3>6 DEF FlagsTo
  <2> QED BY <1>6, <2>1, <2>3, <2>4, <2>5, <2>6 DEF ReadTo
<1>10. CASE LongFlag
  <2> DEFINE n == args[x].name
             U == Effect(n)
  <2>1. LongAt(x, LongFlags) /\ flags' = flags \cup U /\ pos' = pos /\ values' = values /\ x' = x + 1
    BY <1>4, <1>10 DEF LongFlag
  <2>2. n \in LongFlags /\ args[x].kind = "long" /\ ~LongAt(x, ValueFlags) /\ IsFlag(x)
    BY <1>5, <2>1 DEF LongAt, IsFlag
  <2>3. /\ \A f \in LongFlags \ {"--notV", "--notF"} : f \in U <=> n \in Spellings(f)
        /\ \A l \in ShortFlags : l \notin U
    BY <2>2, LongEffect
  <2> HIDE DEF U
  <2>4. FlagsTo(flags \cup U, x + 1)
    BY <1>2, <1>3, <2>2, <2>3, FlagsOn DEF LongAt
  <2>5. LastsTo(values, x + 1)
    BY <1>2, <1>3, <2>2, LastsOn
  <2> QED BY <1>6, <1>7, <1>8, <2>1, <2>2, <2>4, <2>5 DEF ReadTo
<1>11. CASE ShortGroup
  <2> DEFINE S == Range(args[x].letters)
             U == UNION {Effect(l) : l \in S \cap ShortFlags}
  <2>1. IsShort /\ flags' = flags \cup U /\ pos' = pos /\ values' = values /\ x' = x + 1
    BY <1>11 DEF ShortGroup
  <2>2. args[x].kind = "switches" /\ IsFlag(x) /\ \A names : ~LongAt(x, names)
    BY <2>1 DEF IsShort, IsFlag, LongAt
  <2>3. /\ \A l \in ShortFlags \ {"a"} :
             l \in U <=> l \in S \/ (tool = "fsm" /\ "a" \in S /\ l \in {"H", "i", "s"})
        /\ \A f \in LongFlags : f \notin U
    BY ShortEffect
  <2> HIDE DEF U
  <2>4. FlagsTo(flags \cup U, x + 1)
    BY <1>2, <1>3, <2>2, <2>3, FlagsOn
  <2>5. LastsTo(values, x + 1)
    BY <1>2, <1>3, <2>2, LastsOn
  <2> QED BY <1>6, <1>7, <1>8, <2>1, <2>2, <2>4, <2>5 DEF ReadTo
<1>12. CASE Positional
  <2>1. /\ pos' = Append(pos, args[x]) /\ x' = x + 1 /\ flags' = flags /\ values' = values
        /\ ~IsShort /\ ~LongAt(x, LongFlags)
    BY <1>4, <1>12 DEF Positional, AtPositional
  <2>2. ~LongAt(x, ValueFlags) /\ x \in FilesAt
    BY <1>2, <1>3, <1>12, PlaceTaken DEF Positional
  <2>5. PosTo(Append(pos, args[x]), x + 1)
    BY <1>2, <1>3, <2>2, FileHere
  <2>6. FlagsTo(flags, x + 1)
    BY <1>2, <1>3, <2>1, FlagsQuiet
  <2>7. LastsTo(values, x + 1)
    BY <1>2, <1>3, <2>2, LastsOn
  <2> QED BY <1>6, <1>7, <2>1, <2>2, <2>5, <2>6, <2>7 DEF ReadTo
<1> QED BY <1>9, <1>10, <1>11, <1>12 DEF ParseFlag

-------------------------------------------------------------------------------
(* A map tool, from its command to its files. *)
Commanded == args # <<>> /\ (Word(args[1], "dump") \/ Word(args[1], "diff"))
Fresh == x = 2 /\ pos = <<>> /\ values = NoValues /\ flags = {} /\ args \in Seq(Arguments) /\ Commanded
Overfull == Proper => ~(Cardinality(FilesAt) <= PosMax)
MapRead ==
  tool # "filedump" =>
    /\ tool \in {"fsm", "vm"}
    /\ pc = "flags" => Commanded /\ (Proper => ReadTo(pos, values, flags, x))
    /\ pc = "done" => \/ job = "usage" /\ ~Commanded
                      \/ Overfull
                      \/ /\ x = Len(args) + 1 /\ Commanded /\ job \in {"map", "usage"}
                         /\ Proper => ReadTo(pos, values, flags, x)
                         /\ job = "map" <=> Len(pos) = FilesOf(args[1])

LEMMA NothingYet == Fresh => ReadTo(pos, values, flags, x)
<1> SUFFICES ASSUME Fresh PROVE ReadTo(pos, values, flags, x)
  OBVIOUS
<1>1. x = 2 /\ pos = <<>> /\ values = NoValues /\ flags = {} /\ args \in Seq(Arguments) /\ args[1].kind = "word"
  BY DEF Fresh, Commanded, Word
<1>2. ~IsValue(x)
  BY <1>1 DEF IsValue
<1>3. PosTo(pos, x)
  <2>1. \A i \in FilesAt : ~(i < 2)
    <3>1. FilesAt \subseteq 2..Len(args) /\ Len(args) \in Nat
      BY <1>1 DEF FilesAt
    <3> QED BY <3>1
  <2>2. FilesTo(x) = {}
    BY <1>1, <2>1 DEF FilesTo
  <2>3. Cardinality({}) = 0
    BY FS_EmptySet
  <2>4. pos \in Seq(Arguments) /\ Len(pos) = 0
    BY <1>1
  <2>5. Len(pos) = Cardinality(FilesTo(x))
    BY <2>2, <2>3, <2>4
  <2> QED BY <2>2, <2>4, <2>5 DEF PosTo
<1>4. LastsTo(values, x)
  <2>1. values = MapValues(<<>>, <<>>, <<>>, <<>>)
    BY <1>1 DEF NoValues, MapValues
  <2>2. 2..(2 - 1) = {}
    OBVIOUS
  <2>3. \A names, form : LastTo(<<>>, names, form, 2)
    BY <2>2 DEF LastTo
  <2> QED BY <1>1, <2>1, <2>3 DEF LastsTo
<1>5. FlagsTo(flags, x)
  <2>1. \A i \in 1..(2 - 1) : i = 1
    OBVIOUS
  <2>2. \A l : ~LetterTo(l, 2)
    BY <1>1, <2>1 DEF LetterTo
  <2>3. \A names : ~\E i \in 1..(2 - 1) : LongAt(i, names)
    BY <1>1, <2>1 DEF LongAt
  <2> QED BY <1>1, <2>2, <2>3 DEF FlagsTo
<1> QED BY <1>2, <1>3, <1>4, <1>5 DEF ReadTo

LEMMA MapReadStep ==
  ASSUME MainTyped, MainTyped', MapRead, [MainNext]_mainVars
  PROVE  MapRead'
<1>1. Shape /\ Shape' /\ tool \in {"filedump", "fsm", "vm"} /\ tool' \in {"filedump", "fsm", "vm"}
  BY DEF MainTyped, MainTypeOK
<1>2. CASE RunModule
  <2>1. AtStart
    BY <1>1, <1>2 DEF RunModule, Shape
  <2> DEFINE rest == args'
  <2>2. \/ pc' = "flags" /\ x' = 2 /\ args' # <<>> /\ (Word(args'[1], "dump") \/ Word(args'[1], "diff"))
        \/ pc' = "done" /\ job' = "usage" /\ ~(args' # <<>> /\ (Word(args'[1], "dump") \/ Word(args'[1], "diff")))
    BY <1>2 DEF RunModule
  <2>3. Commanded' <=> args' # <<>> /\ (Word(args'[1], "dump") \/ Word(args'[1], "diff"))
    BY DEF Commanded, Word
  <2>4. pos' = <<>> /\ values' = NoValues /\ flags' = {} /\ args' \in Seq(Arguments)
    BY <1>1, <1>2, <2>1 DEF RunModule, AtStart, mapVars, Shape
  <2>5. NoValues' = NoValues
    BY DEF NoValues
  <2>6. pc' = "flags" => Fresh'
    BY <2>2, <2>3, <2>4, <2>5 DEF Fresh
  <2>7. Fresh' => ReadTo(pos, values, flags, x)'
    BY NothingYet, PTL
  <2> QED BY <1>1, <2>2, <2>3, <2>6, <2>7 DEF MapRead, Fresh
<1>3. CASE NoParameters \/ StartOptions
  <2>1. tool' = "filedump"
    BY <1>1, <1>3 DEF NoParameters, StartOptions, Shape, AtStart
  <2> QED BY <2>1 DEF MapRead
<1>4. CASE ParseFlag
  <2>1. pc = "flags" /\ tool # "filedump" /\ tool' = tool /\ pc' = pc /\ args' = args
    BY <1>1, <1>4 DEF ParseFlag, ValueFlag, LongFlag, ShortGroup, Positional, AtPositional, AtFlag, Shape
  <2>2. Commanded' = Commanded /\ Proper' = Proper
    BY <2>1 DEF Commanded, Word, Proper, LongAt, ValueFlags
  <2>3. Proper => ReadTo(pos, values, flags, x)'
    BY <1>1, <1>4, <2>1, ReadStep DEF MapRead
  <2> QED BY <1>1, <2>1, <2>2, <2>3 DEF MapRead
<1>5. CASE RunTool
  <2>1. /\ pc = "flags" /\ pc' = "done" /\ tool # "filedump" /\ x = Len(args) + 1
        /\ UNCHANGED <<args, tool, pos, values, flags, x>>
        /\ job' \in {"map", "usage"}
        /\ job' = "map" <=> Len(pos) = FilesOf(args[1])
    <3>1. x = Len(args) + 1
      <4>1. x \in 1..(Len(args) + 1) /\ Len(args) \in Nat /\ x > Len(args)
        BY <1>1, <1>5 DEF RunTool, MainTyped, MainTypeOK, Shape
      <4> QED BY <4>1
    <3> QED BY <1>1, <1>5, <3>1 DEF RunTool, mapVars, Shape
  <2>2. Commanded' = Commanded /\ Proper' = Proper /\ FilesOf(args[1])' = FilesOf(args[1])
    BY <2>1 DEF Commanded, Word, Proper, LongAt, ValueFlags, FilesOf
  <2>3. Proper => ReadTo(pos, values, flags, x)'
    BY <2>1, ReadMoved DEF MapRead
  <2> QED BY <1>1, <2>1, <2>2, <2>3 DEF MapRead
<1>5a. CASE PastPositions
  <2>1. pc = "flags" /\ pc' = "done" /\ tool \in {"fsm", "vm"} /\ UNCHANGED <<args, tool>>
    BY <1>1, <1>5a DEF PastPositions, AtPositional, AtFlag, Shape
  <2>2. Overfull
    BY <1>5a, <2>1, PlacesFull DEF MapRead, Overfull
  <2>3. Overfull' = Overfull
    BY <2>1, FilesKept DEF Overfull
  <2> QED BY <2>1, <2>2, <2>3 DEF MapRead
<1>6. CASE Consume \/ Dispatch
  <2>1. tool = "filedump" /\ tool' = tool
    <3>1. CASE Consume
      BY <3>1, ConsumeFramed DEF ConsumeFrame
    <3>2. CASE Dispatch
      BY <1>1, <3>2 DEF Dispatch, Shape
    <3> QED BY <1>6, <3>1, <3>2
  <2> QED BY <2>1 DEF MapRead
<1>7. CASE UNCHANGED mainVars
  <2>1. UNCHANGED <<pc, job, args, tool, pos, values, flags, x>>
    BY <1>7 DEF mainVars, mapVars
  <2>2. Commanded' = Commanded /\ Proper' = Proper /\ FilesOf(args[1])' = FilesOf(args[1])
    BY <2>1 DEF Commanded, Word, Proper, LongAt, ValueFlags, FilesOf
  <2>3. ReadTo(pos, values, flags, x) => ReadTo(pos, values, flags, x)'
    BY <2>1, ReadMoved
  <2>4. Overfull' = Overfull
    BY <2>1, FilesKept DEF Overfull
  <2> QED BY <1>1, <2>1, <2>2, <2>3, <2>4 DEF MapRead
<1> QED BY <1>2, <1>3, <1>4, <1>5, <1>5a, <1>6, <1>7 DEF MainNext, MainStep, MainEnded

LEMMA MapReadInit == MainInit => MapRead
BY DEF MainInit, MapRead

(* Behind the last argument, the last value is the last one on the line.   *)
LastOf(v, names, form) ==
  \/ v = <<>> /\ LastValue(names) = <<>>
  \/ \E i \in 2..Len(args) :
       /\ LongAt(i, names \cap ValueFlags) /\ v = Taken(form, args[i + 1])
       /\ LastValue(names) = IF args[i + 1].kind = "range" THEN <<args[i + 1].lo, args[i + 1].hi>>
                             ELSE <<args[i + 1].value>>
LEMMA LastIs ==
  ASSUME args \in Seq(Arguments), Proper, NEW v, NEW names, NEW form, LastTo(v, names, form, Len(args) + 1)
  PROVE  LastOf(v, names, form)
<1> DEFINE at == {i \in 2..(Len(args) - 1) : LongAt(i, names \cap ValueFlags)}
           m == CHOOSE i \in at : \A j \in at : j <= i
<1>1. Len(args) \in Nat /\ (Len(args) + 1) - 1 = Len(args)
  OBVIOUS
<1>2. \A i \in 2..Len(args) : LongAt(i, names \cap ValueFlags) => i \in 2..(Len(args) - 1)
  <2> SUFFICES ASSUME NEW i \in 2..Len(args), LongAt(i, names \cap ValueFlags) PROVE i \in 2..(Len(args) - 1)
    OBVIOUS
  <2>1. LongAt(i, ValueFlags)
    BY DEF LongAt
  <2>2. i < Len(args)
    BY <2>1 DEF Proper
  <2> QED BY <1>1, <2>2
<1>3. LastValue(names) = IF at = {} THEN <<>>
                         ELSE IF args[m + 1].kind = "range" THEN <<args[m + 1].lo, args[m + 1].hi>>
                         ELSE <<args[m + 1].value>>
  BY DEF LastValue
<1>4. at \subseteq 2..Len(args) /\ at \subseteq Int /\ IsFiniteSet(at)
  <2>1. at \subseteq 2..(Len(args) - 1) /\ at \subseteq 2..Len(args) /\ at \subseteq Int
    BY <1>1
  <2>2. IsFiniteSet(2..(Len(args) - 1))
    BY <1>1, FS_Interval
  <2> QED BY <2>1, <2>2, FS_Subset
<1>5. /\ (\A i \in 2..Len(args) : ~WantsAt(i, names)) => v = <<>>
      /\ \A i \in 2..Len(args) : WantsAt(i, names) /\ (\A j \in (i + 1)..Len(args) : ~WantsAt(j, names))
           => v = Taken(form, args[i + 1])
  BY <1>1 DEF LastTo
<1>6. \A i \in 2..Len(args) : WantsAt(i, names) <=> i \in at
  BY <1>2 DEF WantsAt
<1>7. CASE at = {}
  BY <1>3, <1>5, <1>6, <1>7 DEF LastOf
<1>8. CASE at # {}
  <2>1. \E i \in at : \A j \in at : j <= i
    <3> HIDE DEF at
    <3> QED BY <1>4, <1>8, MaxIs
  <2>2. m \in at /\ \A j \in at : j <= m
    <3> HIDE DEF at
    <3> QED BY <2>1
  <2> HIDE DEF at, m
  <2>3. \A j \in (m + 1)..Len(args) : j \in 2..Len(args) /\ ~(j <= m)
    <3>1. m \in 2..Len(args)
      BY <1>4, <2>2
    <3> QED BY <1>1, <3>1
  <2>4. v = Taken(form, args[m + 1])
    BY <1>4, <1>5, <1>6, <2>2, <2>3
  <2>5. LongAt(m, names \cap ValueFlags) /\ m \in 2..Len(args)
    BY <1>4, <2>2 DEF at
  <2> QED BY <1>3, <1>8, <2>4, <2>5 DEF LastOf
<1> QED BY <1>7, <1>8

LEMMA TwiceOne ==
  ASSUME NEW n
  PROVE  <<n>> \o <<n>> = <<n, n>>
<1> DEFINE S == {n}
           s == <<n>> \o <<n>>
<1>1. <<n>> \in Seq(S) /\ Len(<<n>>) = 1 /\ <<n>>[1] = n
  OBVIOUS
<1>2. /\ s \in Seq(S) /\ Len(s) = 2
      /\ \A i \in 1..2 : s[i] = n
  <2>1. \A t \in Seq(S) : Len(t) = 1 => \A i \in 1..1 : t[i] = n
    OBVIOUS
  <2> HIDE DEF S
  <2> QED BY <1>1, ConcatProperties
<1> HIDE DEF s
<1>3. s = <<n, n>>
  BY <1>2
<1> QED BY <1>3 DEF s

LEMMA PairIs ==
  ASSUME args \in Seq(Arguments), Proper, NEW v, LastTo(v, RangeNames, "pair", Len(args) + 1)
  PROVE  LET range == LastValue(RangeNames)
         IN  v = IF Len(range) = 1 THEN range \o range ELSE range
<1>1. CASE v = <<>> /\ LastValue(RangeNames) = <<>>
  BY <1>1
<1>2. CASE \E i \in 2..Len(args) :
              /\ LongAt(i, RangeNames \cap ValueFlags) /\ v = Taken("pair", args[i + 1])
              /\ LastValue(RangeNames) = IF args[i + 1].kind = "range" THEN <<args[i + 1].lo, args[i + 1].hi>>
                                         ELSE <<args[i + 1].value>>
  <2>1. PICK i \in 2..Len(args) :
              /\ v = Taken("pair", args[i + 1])
              /\ LastValue(RangeNames) = IF args[i + 1].kind = "range" THEN <<args[i + 1].lo, args[i + 1].hi>>
                                         ELSE <<args[i + 1].value>>
    BY <1>2
  <2> DEFINE n == args[i + 1].value
             range == LastValue(RangeNames)
  <2>2. CASE args[i + 1].kind = "range"
    <3>1. v = range /\ Len(range) = 2
      BY <2>1, <2>2 DEF Taken
    <3> QED BY <3>1
  <2>3. CASE args[i + 1].kind # "range"
    <3>1. v = <<n, n>> /\ range = <<n>>
      BY <2>1, <2>3 DEF Taken
    <3>2. <<n>> \o <<n>> = <<n, n>>
      BY TwiceOne
    <3>3. Len(<<n>>) = 1
      OBVIOUS
    <3> HIDE DEF n, range
    <3>4. v = IF Len(range) = 1 THEN range \o range ELSE range
      BY <3>1, <3>2, <3>3
    <3> QED BY <3>4 DEF range
  <2> QED BY <2>2, <2>3
<1>3. LastOf(v, RangeNames, "pair")
  BY LastIs
<1> QED BY <1>1, <1>2, <1>3 DEF LastOf

LEMMA SingleIs ==
  ASSUME args \in Seq(Arguments), Proper, NEW v, NEW name \in {"--heap-page", "--min", "--max"},
         LastTo(v, {name}, "single", Len(args) + 1)
  PROVE  v = LastValue({name})
<1>1. ASSUME NEW i \in 2..Len(args), LongAt(i, {name} \cap ValueFlags), v = Taken("single", args[i + 1]),
             LastValue({name}) = IF args[i + 1].kind = "range" THEN <<args[i + 1].lo, args[i + 1].hi>>
                                 ELSE <<args[i + 1].value>>
      PROVE  v = LastValue({name})
  <2>1. LongAt(i, ValueFlags) /\ args[i].name = name
    BY <1>1 DEF LongAt
  <2>2. args[i + 1].kind = "number"
    BY <2>1 DEF Proper
  <2> QED BY <1>1, <2>2 DEF Taken
<1>2. LastOf(v, {name}, "single")
  BY LastIs
<1> QED BY <1>1, <1>2 DEF LastOf

LEMMA AllValues ==
  ASSUME args \in Seq(Arguments), Proper, LastsTo(values, Len(args) + 1)
  PROVE  LET range == LastValue({"--range", "--page", "--heap-range"})
         IN  values = [range |-> IF Len(range) = 1 THEN range \o range ELSE range,
                       heapPage |-> LastValue({"--heap-page"}),
                       min |-> LastValue({"--min"}), max |-> LastValue({"--max"})]
<1> DEFINE end == Len(args) + 1
<1>1. PICK a, b, c, d :
        /\ values = MapValues(a, b, c, d)
        /\ LastTo(a, RangeNames, "pair", end) /\ LastTo(b, {"--heap-page"}, "single", end)
        /\ LastTo(c, {"--min"}, "single", end) /\ LastTo(d, {"--max"}, "single", end)
  BY DEF LastsTo
<1> DEFINE range == LastValue(RangeNames)
<1>2. a = IF Len(range) = 1 THEN range \o range ELSE range
  BY <1>1, PairIs
<1>3. b = LastValue({"--heap-page"})
  BY <1>1, SingleIs
<1>4. c = LastValue({"--min"})
  BY <1>1, SingleIs
<1>5. d = LastValue({"--max"})
  BY <1>1, SingleIs
<1>6. range = LastValue({"--range", "--page", "--heap-range"})
  BY DEF RangeNames
<1> HIDE DEF range
<1> QED BY <1>1, <1>2, <1>3, <1>4, <1>5, <1>6 DEF MapValues

LEMMA AllFlags ==
  ASSUME args \in Seq(Arguments), FlagsTo(flags, Len(args) + 1)
  PROVE  /\ \A l \in ShortFlags \ {"a"} :
              l \in flags <=> l \in Switched \/ (tool = "fsm" /\ "a" \in Switched /\ l \in {"H", "i", "s"})
         /\ \A f \in LongFlags \ {"--notV", "--notF"} :
              f \in flags <=> \E i \in DOMAIN args : LongAt(i, Spellings(f))
<1>1. DOMAIN args = 1..((Len(args) + 1) - 1)
  OBVIOUS
<1>2. \A l : LetterTo(l, Len(args) + 1) <=> l \in Switched
  BY <1>1 DEF LetterTo, Switched
<1> QED BY <1>1, <1>2 DEF FlagsTo

LEMMA AllFiles ==
  ASSUME args \in Seq(Arguments), PosTo(pos, Len(args) + 1)
  PROVE  /\ Len(pos) = Cardinality(FilesAt)
         /\ \A i \in FilesAt : pos[Cardinality({j \in FilesAt : j <= i})] = args[i]
<1>1. FilesAt \subseteq 2..Len(args) /\ Len(args) \in Nat
  BY DEF FilesAt
<1>2. \A i \in FilesAt : i < Len(args) + 1
  BY <1>1
<1>3. FilesTo(Len(args) + 1) = FilesAt
  BY <1>2 DEF FilesTo
<1> QED BY <1>3 DEF PosTo

LEMMA MapReadHolds ==
  ASSUME MainTyped, MapRead
  PROVE  FlagsObeyed
<1> SUFFICES ASSUME pc = "done", tool # "filedump", Orderly
             PROVE  /\ job \in {"map", "usage"}
                    /\ job = "map" => Obeyed
                    /\ Word(args[1], "dump") => (job = "map" <=> Cardinality(FilesAt) = 2)
                    /\ Word(args[1], "diff") => (job = "map" <=> Cardinality(FilesAt) = 3)
  BY DEF FlagsObeyed
<1>1. args \in Seq(Arguments) /\ args # <<>> /\ Proper /\ ~Overfull
  BY DEF MainTyped, Shape, Orderly, Overfull
<1>2. CASE job = "usage" /\ ~Commanded
  BY <1>1, <1>2 DEF Commanded
<1>3. CASE /\ x = Len(args) + 1 /\ Commanded /\ job \in {"map", "usage"} /\ ReadTo(pos, values, flags, x)
           /\ job = "map" <=> Len(pos) = FilesOf(args[1])
  <2>1. PosTo(pos, Len(args) + 1) /\ LastsTo(values, Len(args) + 1) /\ FlagsTo(flags, Len(args) + 1)
    BY <1>3 DEF ReadTo
  <2>2. Len(pos) = Cardinality(FilesAt)
        /\ \A i \in FilesAt : pos[Cardinality({j \in FilesAt : j <= i})] = args[i]
    BY <1>1, <2>1, AllFiles
  <2>3. Obeyed
    BY <1>1, <2>1, <2>2, AllValues, AllFlags DEF Obeyed
  <2>4. <<"dump">> # <<"diff">>
    <3>1. <<"dump">>[1] = "dump" /\ <<"diff">>[1] = "diff"
      OBVIOUS
    <3> QED BY <3>1
  <2>5. Word(args[1], "dump") => FilesOf(args[1]) = 2
    BY DEF FilesOf
  <2>6. Word(args[1], "diff") => FilesOf(args[1]) = 3
    BY <2>4 DEF FilesOf, Word
  <2> QED BY <1>3, <2>2, <2>3, <2>5, <2>6
<1> QED BY <1>1, <1>2, <1>3 DEF MapRead

(* A map tool that reaches its end has done what its flags say: the files  *)
(* it opens are the arguments that are neither flags nor their values, in  *)
(* order, every switch is on that the line gives in any spelling, and of   *)
(* every kind of value the last one counts (parse_fsm_flags,               *)
(* parse_vm_flags).  That is so of every line with no more files than pos  *)
(* has places, and on none of those is anything written behind it; lines   *)
(* with more, whose run is undefined, are excepted.                        *)
THEOREM FlagsAreObeyed == MainSpec => []FlagsObeyed
<1>1. MainInit => MainTyped /\ MapRead
  BY MainTypedInit, MapReadInit
<1>2. MainTyped /\ MapRead /\ [MainNext]_mainVars => (MainTyped /\ MapRead)'
  BY MainTypedStep, MapReadStep
<1>3. MainTyped /\ MapRead => FlagsObeyed
  BY MapReadHolds
<1> QED BY <1>1, <1>2, <1>3, PTL DEF MainSpec
================================================================================
