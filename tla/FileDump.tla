------------------------------- MODULE FileDump -------------------------------
(***************************************************************************)
(* One run of pg_filedump over a heap file, or over a pg_filenode.map with *)
(* -m: main, the block loop of DumpFileContents, FormatBlock and           *)
(* FormatItemBlock as they work on the file itself, and with -D the        *)
(* decoding of tuples by FormatDecode (decode.c).  With -t a column that   *)
(* holds a TOAST pointer is restored by ToastRead, which runs the same     *)
(* block loop nested, over another file and over the same globals; this    *)
(* module extends it with the outer dump.                                  *)
(*                                                                         *)
(* A block is as in ToastRead; its line pointers carry `normal`, whether   *)
(* it is LP_NORMAL, and `cols`, what the column decoders find in the       *)
(* tuple, one after the other:                                             *)
(*   [kind |-> "null"]    null by the tuple's bitmap                       *)
(*   [kind |-> "value"]   a value that is decoded                          *)
(*   [kind |-> "bad"]     bytes the decoder refuses                        *)
(*   [kind |-> "toast", rel |-> r, stored |-> s]   a pointer to the value  *)
(*                        relation r holds: "packed" if it is compressed,  *)
(*                        "odd" if its bytes are no value of the column's  *)
(*                        type (a damaged numeric), else "plain"           *)
(* `cols` is shorter than Columns when the tuple runs out of bytes, and    *)
(* `rest` says that bytes are left behind the last column.                 *)
(***************************************************************************)
EXTENDS ToastRead, SequencesExt, FiniteSetsExt

CONSTANTS Columns,      \* ncallbacks: the number of types given to -D
          Heaps,        \* set of heap files, sequences of blocks
          OptionSets,   \* set of option records [mode, forced, decode, toast, range]
          WrapBlocks    \* 2^32 \div blockSize: where a 32-bit file position wraps

(* The range is one that ConsumeOptions lets through. *)
ASSUME OptionsAssumption ==
  \A o \in OptionSets :
    o.range = <<>> \/ (o.range \in Nat \X Nat /\ o.range[1] <= o.range[2])
ASSUME WrapAssumption == WrapBlocks \in Nat \ {0}

VARIABLES heap, options,
          main,          \* where the outer dump is
          pos,           \* block the file position is at
          currentBlock,
          x,             \* line pointer of the outer FormatItemBlock
          attr,          \* curr_attr + 1 of FormatDecode
          copy,          \* columns in copyString
          rows,          \* what FormatDecode put out: <<kind, block, item, columns>>
          dumped,        \* <<currentBlock, block of the file>> of each block dumped
          beyond,        \* <<block, item>> said to extend beyond the block
          noted          \* some step has set exitCode to 1

outer    == <<heap, options, main, pos, currentBlock, x, attr, copy, rows, dumped,
              beyond, noted>>
dumpVars == <<outer, locals, globals>>

ColumnRecord == [kind: {"null", "value", "bad"}]
                \cup [kind: {"toast"}, rel: Relations \cup {NoFile},
                      stored: {"plain", "odd", "packed"}]
TupleRecord == [end: Nat, used: BOOLEAN, xmax: BOOLEAN, normal: BOOLEAN,
                cols: {c \in Seq(ColumnRecord) : Len(c) <= Columns}, rest: BOOLEAN]
BlockRecord == [bytes: Nat \ {0}, header: {"ok", "invalid", "cut"},
                body: {"items", "none", "corrupt"}, special: Specials,
                items: Seq(TupleRecord)]
ASSUME HeapsAssumption == Columns \in Nat /\ Heaps \subseteq Seq(BlockRecord)

NoRange == <<>>
(* The tuples of the block that was read; none behind a cut header. *)
HeapBlock == heap[pos]     \* pos is behind the block while it is formatted
Items == Listed(HeapBlock)

-------------------------------------------------------------------------------
DumpInit ==
  /\ heap \in Heaps /\ options \in OptionSets
  /\ main = "start" /\ pos = 0 /\ currentBlock = 0
  /\ x = 1 /\ attr = 1 /\ copy = <<>>
  /\ rows = <<>> /\ dumped = <<>> /\ beyond = {} /\ noted = FALSE
  /\ rel = NoFile /\ pc = "ended" /\ blk = 1 /\ itm = 1 /\ want = 0
  /\ toastRead = 0 /\ value = <<>> /\ loops = 0 /\ result = 0 /\ report = "none"
  /\ bytesToFormat = 0 /\ specialType = "none" /\ exitCode = 0

(* -m: exitCode = PrintRelMappings(), which is 1 for a file it could read. *)
PrintRelMappings ==
  /\ main = "start" /\ options.mode = "relmap"
  /\ \E complete \in BOOLEAN : /\ exitCode' = IF complete THEN 1 ELSE 0
                               /\ noted' = ~complete
  /\ main' = "exit"
  /\ UNCHANGED <<heap, options, pos, currentBlock, x, attr, copy, rows, dumped, beyond,
                 locals, bytesToFormat, specialType>>

(* GetBlockSize unless -S was given, then the seek to the start of -R's    *)
(* range, in 32-bit arithmetic.                                            *)
Start ==
  /\ main = "start" /\ options.mode # "relmap"
  /\ LET cut == ~options.forced /\ (heap = <<>> \/ heap[1].bytes < HeaderBytes)
     IN  exitCode' = (IF cut THEN 1 ELSE exitCode) /\ noted' = cut
  /\ pos' = IF options.range = NoRange THEN 0 ELSE options.range[1] % WrapBlocks
  /\ currentBlock' = IF options.range = NoRange THEN 0 ELSE options.range[1]
  /\ main' = "fread"
  /\ UNCHANGED <<heap, options, x, attr, copy, rows, dumped, beyond, locals,
                 bytesToFormat, specialType>>

(* There is no memory for a block, or the file cannot be positioned: the   *)
(* one error DumpFileContents returns.                                     *)
StartFails == /\ main = "start" /\ options.mode # "relmap"
              /\ exitCode' = 1 /\ noted' = TRUE
              /\ main' = "failed"
              /\ UNCHANGED <<heap, options, pos, currentBlock, x, attr, copy, rows, dumped,
                             beyond, locals, bytesToFormat, specialType>>

(* No more bytes; "Error: Premature end of file" is said of the first      *)
(* read, and not noted.                                                    *)
DumpEof ==
  /\ main = "fread" /\ pos >= Len(heap)
  /\ bytesToFormat' = 0
  /\ main' = "return"
  /\ UNCHANGED <<heap, options, pos, currentBlock, x, attr, copy, rows, dumped, beyond,
                 noted, locals, specialType, exitCode>>

DumpBlock_KeepsCount ==
  /\ main = "fread" /\ pos < Len(heap)
  /\ LET b == heap[pos + 1]
         flawed == b.header # "ok" \/ b.body = "corrupt"
     IN  /\ bytesToFormat' = IF bytesToFormat = 0 /\ pos > 0 THEN 0 ELSE b.bytes
         /\ specialType' = IF options.mode = "binary" THEN specialType ELSE b.special
         /\ IF options.mode = "format"
            THEN /\ exitCode' = (IF flawed THEN 1 ELSE exitCode)
                 /\ noted' = (noted \/ flawed)
                 /\ main' = "items"
            ELSE UNCHANGED <<exitCode, noted>> /\ main' = "next"
  /\ pos' = pos + 1
  /\ x' = 1
  /\ dumped' = Append(dumped, <<currentBlock, pos>>)
  /\ UNCHANGED <<heap, options, currentBlock, attr, copy, rows, beyond, locals>>

(* Read a block.  -b only copies it out; else FormatBlock looks at the     *)
(* special section and, unless -d wants no interpretation, at the header,  *)
(* and goes on to the items.                                               *)
DumpBlock ==
  /\ main = "fread" /\ pos < Len(heap)
  /\ LET b == heap[pos + 1]
         flawed == b.header # "ok" \/ b.body = "corrupt"
     IN  /\ bytesToFormat' = b.bytes
         /\ specialType' = IF options.mode = "binary" THEN specialType ELSE b.special
         /\ IF options.mode = "format"
            THEN /\ exitCode' = (IF flawed THEN 1 ELSE exitCode)
                 /\ noted' = (noted \/ flawed)
                 /\ main' = "items"
            ELSE UNCHANGED <<exitCode, noted>> /\ main' = "next"
  /\ pos' = pos + 1
  /\ x' = 1
  /\ dumped' = Append(dumped, <<currentBlock, pos>>)
  /\ UNCHANGED <<heap, options, currentBlock, attr, copy, rows, beyond, locals>>

AtLinePointer == main = "items" /\ x <= Len(Items)
LinePointer   == Items[x]
Decoded(it) == it.used /\ ~Old(it) /\ options.decode /\ it.normal

(* "Make sure the item can physically fit on this block". *)
RejectItem == /\ AtLinePointer /\ ~Fits(LinePointer, bytesToFormat)
              /\ beyond' = beyond \cup {<<currentBlock, x>>}
              /\ exitCode' = 1 /\ noted' = TRUE
              /\ x' = x + 1
              /\ UNCHANGED <<heap, options, main, pos, currentBlock, attr, copy, rows,
                             dumped, locals, bytesToFormat, specialType>>

SkipItem == /\ AtLinePointer /\ Fits(LinePointer, bytesToFormat) /\ ~Decoded(LinePointer)
            /\ x' = x + 1
            /\ UNCHANGED <<heap, options, main, pos, currentBlock, attr, copy, rows,
                           dumped, beyond, noted, locals, globals>>

(* FormatDecode: CopyClear, then one turn of its loop for each column.     *)
DecodeTuple_NoClear ==
  /\ AtLinePointer /\ Fits(LinePointer, bytesToFormat) /\ Decoded(LinePointer)
  /\ attr' = 1
  /\ main' = "decode"
  /\ UNCHANGED <<heap, options, pos, currentBlock, x, copy, rows, dumped, beyond,
                 noted, locals, globals>>

DecodeTuple ==
  /\ AtLinePointer /\ Fits(LinePointer, bytesToFormat) /\ Decoded(LinePointer)
  /\ copy' = <<>> /\ attr' = 1
  /\ main' = "decode"
  /\ UNCHANGED <<heap, options, pos, currentBlock, x, rows, dumped, beyond,
                 noted, locals, globals>>

(* The tuple is done, with a COPY line or with an error and partial data.  *)
PutRow(kind, columns) ==
  /\ rows' = Append(rows, <<kind, currentBlock, x, columns>>)
  /\ x' = x + 1
  /\ main' = "items"

Column == LinePointer.cols[attr]
HasColumn == main = "decode" /\ attr <= Columns /\ attr <= Len(LinePointer.cols)

AppendColumn(data) == copy' = Append(copy, data) /\ attr' = attr + 1

DecodeColumn ==
  /\ HasColumn
  /\ \/ Column.kind \in {"null", "value"} /\ AppendColumn(Column.kind)
     \/ Column.kind = "toast" /\ ~options.toast /\ AppendColumn("(TOASTED)")
  /\ UNCHANGED <<heap, options, main, pos, currentBlock, x, rows, dumped, beyond,
                 noted, locals, globals>>

(* A decoder's negative return, no bytes left, bytes left over: the tuple  *)
(* is given up with a message and the exit code stays as it is.            *)
GiveUpTuple ==
  /\ \/ HasColumn /\ Column.kind = "bad"
     \/ main = "decode" /\ attr <= Columns /\ attr > Len(LinePointer.cols)
     \/ main = "decode" /\ attr > Columns /\ LinePointer.rest
  /\ PutRow("error", copy)
  /\ UNCHANGED <<heap, options, pos, currentBlock, attr, copy, dumped, beyond, noted,
                 locals, globals>>

CopyFlush ==
  /\ main = "decode" /\ attr > Columns /\ ~LinePointer.rest
  /\ PutRow("copy", copy)
  /\ UNCHANGED <<heap, options, pos, currentBlock, attr, copy, dumped, beyond, noted,
                 locals, globals>>

(* ReadStringFromToast takes over, with the globals as they are ...        *)
CallToast ==
  /\ HasColumn /\ Column.kind = "toast" /\ options.toast
  /\ rel' = Column.rel /\ pc' = "open" /\ blk' = 1 /\ itm' = 1 /\ want' = 0
  /\ toastRead' = 0 /\ value' = <<>> /\ loops' = 0 /\ result' = 0 /\ report' = "none"
  /\ main' = "toast"
  /\ UNCHANGED <<heap, options, pos, currentBlock, x, attr, copy, rows, dumped, beyond,
                 noted, globals>>

NestedStep ==
  /\ main = "toast" /\ pc # "ended"
  /\ Step
  /\ noted' = (noted \/ exitCode' # exitCode)
  /\ UNCHANGED <<heap, options, main, pos, currentBlock, x, attr, copy, rows, dumped, beyond>>

(* ... and its result decides the column, with that of parse_value(), which *)
(* refuses odd bytes and may refuse those that a damaged relation gave.    *)
(* DumpCompressedString appends the string only when it has its full size; *)
(* lz4 data that comes out short is warned of and, its return value not    *)
(* being negative, passed over.                                            *)
ToastReturns ==
  /\ main = "toast" /\ pc = "ended"
  /\ \/ /\ result = 0 /\ (Column.stored = "odd" => ~Complete(rel))
        /\ AppendColumn(value)
        /\ main' = "decode"
        /\ UNCHANGED <<rows, x>>
     \/ /\ result = 0 /\ Column.stored = "packed"          \* short
        /\ attr' = attr + 1
        /\ main' = "decode"
        /\ UNCHANGED <<rows, x, copy>>
     \/ /\ result # 0 \/ Column.stored \in {"odd", "packed"} \/ ~Complete(rel)
        /\ PutRow("error", copy)
        /\ UNCHANGED <<copy, attr>>
  /\ UNCHANGED <<heap, options, pos, currentBlock, dumped, beyond, noted, locals, globals>>

(* FormatSpecial goes by the global specialType, for a header not cut off. *)
EndItems ==
  /\ main = "items" /\ x > Len(Items)
  /\ LET flawed == HeapBlock.header # "cut" /\ specialType = "error"
     IN  /\ exitCode' = (IF flawed THEN 1 ELSE exitCode)
         /\ noted' = (noted \/ flawed)
  /\ main' = "next"
  /\ UNCHANGED <<heap, options, pos, currentBlock, x, attr, copy, rows, dumped, beyond,
                 locals, bytesToFormat, specialType>>

(* The end of -R's range, or the next block. *)
NextBlock_OneMore ==
  /\ main = "next"
  /\ IF options.range # NoRange /\ currentBlock > options.range[2]
     THEN main' = "return" /\ UNCHANGED currentBlock
     ELSE main' = "fread" /\ currentBlock' = currentBlock + 1
  /\ UNCHANGED <<heap, options, pos, x, attr, copy, rows, dumped, beyond, noted,
                 locals, globals>>

NextBlock ==
  /\ main = "next"
  /\ IF options.range # NoRange /\ currentBlock >= options.range[2]
     THEN main' = "return" /\ UNCHANGED currentBlock
     ELSE main' = "fread" /\ currentBlock' = currentBlock + 1
  /\ UNCHANGED <<heap, options, pos, x, attr, copy, rows, dumped, beyond, noted,
                 locals, globals>>

(* exitCode = DumpFileContents(...), which returns 0. *)
Return == /\ main = "return"
          /\ exitCode' = 0
          /\ main' = "exit"
          /\ UNCHANGED <<heap, options, pos, currentBlock, x, attr, copy, rows, dumped,
                         beyond, noted, locals, bytesToFormat, specialType>>

DumpStep == \/ PrintRelMappings \/ Start \/ StartFails \/ DumpEof \/ DumpBlock
            \/ RejectItem \/ SkipItem \/ DecodeTuple
            \/ DecodeColumn \/ GiveUpTuple \/ CopyFlush
            \/ CallToast \/ NestedStep \/ ToastReturns
            \/ EndItems \/ NextBlock \/ Return

Exited == main \in {"exit", "failed"}

DumpEnded == Exited /\ UNCHANGED dumpVars

DumpNext == DumpStep \/ DumpEnded

DumpSpec == DumpInit /\ [][DumpNext]_dumpVars
(* One sequential process. *)
FairDump == DumpSpec /\ WF_dumpVars(DumpStep)

-------------------------------------------------------------------------------
DumpTypeOK ==
  /\ heap \in Heaps /\ options \in OptionSets
  /\ main \in {"start", "fread", "items", "decode", "toast", "next", "return", "exit",
              "failed"}
  /\ pos \in Nat /\ currentBlock \in Nat /\ x \in Nat \ {0} /\ attr \in 1..(Columns + 1)
  /\ main \in {"items", "decode", "toast"} => pos \in 1..Len(heap)
  /\ main \in {"decode", "toast"} => x <= Len(Items)
  /\ \A r \in Range(rows) : r[1] \in {"copy", "error"} /\ Len(r[4]) <= Columns
  /\ noted \in BOOLEAN
  /\ rel \in Relations \cup {NoFile} /\ (pc # "ended" => main = "toast")
  /\ bytesToFormat \in Nat /\ specialType \in Specials /\ exitCode \in {0, 1}

(* The blocks dumped are those of the range that the file has, each once,  *)
(* in order and under its own number, although nested dumps of other files *)
(* go on between them.                                                     *)
FirstBlock == IF options.range = NoRange THEN 0 ELSE options.range[1]
LastBlock  == IF options.range = NoRange \/ options.range[2] >= Len(heap)
         THEN Len(heap) - 1 ELSE options.range[2]

BlocksAsAsked ==
  /\ \A i \in 1..Len(dumped) : dumped[i] = <<FirstBlock + i - 1, FirstBlock + i - 1>>
  /\ main = "exit" /\ options.mode # "relmap" =>
       Len(dumped) = IF FirstBlock > LastBlock THEN 0 ELSE LastBlock - FirstBlock + 1

(* Every tuple of those blocks that is to be decoded comes out once, in    *)
(* order: as a COPY line of all its columns, restored values included, if  *)
(* each column can be had, and as an error if not, be it that the decoder  *)
(* refuses a restored value.  A tuple that fails                           *)
(* costs no other tuple its line, and no nested dump disturbs the loops    *)
(* it interrupts.  For TOAST relations that are whole, which here also     *)
(* means that their blocks can be read to the end, and whose values are    *)
(* not compressed; and for pointers to them in whole blocks, as a nested   *)
(* dump leaves behind the number of bytes that it has read itself.         *)
FitsIn(it, b) == Fits(it, heap[b + 1].bytes)
Asked ==
  IF options.mode # "format" THEN {}
  ELSE UNION {LET its == Listed(heap[b + 1])
              IN  {<<b, i>> : i \in {k \in DOMAIN its : FitsIn(its[k], b) /\ Decoded(its[k])}} :
              b \in FirstBlock..LastBlock}
Place(row) == <<row[2], row[3]>>
Before(s, t) == s[1] < t[1] \/ (s[1] = t[1] /\ s[2] < t[2])

WholeValue == [k \in 1..NumChunks |-> k - 1]
Shown(c) == IF c.kind # "toast" THEN c.kind
            ELSE IF options.toast THEN WholeValue ELSE "(TOASTED)"
Refused(c) == \/ c.kind = "bad"
              \/ c.kind = "toast" /\ options.toast /\ c.stored = "odd"
ExpectedRow(t) ==
  LET it == Listed(heap[t[1] + 1])[t[2]]
      bad == {k \in DOMAIN it.cols : Refused(it.cols[k])}
      shown == [k \in DOMAIN it.cols |-> Shown(it.cols[k])]
  IN  IF bad = {} /\ Len(it.cols) = Columns /\ ~it.rest
      THEN <<"copy", t[1], t[2], shown>>
      ELSE <<"error", t[1], t[2],
             IF bad = {} THEN shown ELSE SubSeq(shown, 1, Min(bad) - 1)>>

WholeRelation(r) == Complete(r) /\ \A b \in 1..Len(r) : r[b].bytes = BlockSize
ToastIsWhole ==
  \A b \in 1..Len(heap) : \A i \in DOMAIN heap[b].items : \A k \in DOMAIN heap[b].items[i].cols :
    LET c == heap[b].items[i].cols[k]
    IN  c.kind = "toast" /\ options.toast =>
          c.stored # "packed" /\ WholeRelation(c.rel) /\ heap[b].bytes = BlockSize

RowsMatchFile ==
  /\ DumpTypeOK
  /\ ToastIsWhole =>
    /\ \A i \in 1..Len(rows) :
         Place(rows[i]) \in Asked /\ rows[i] = ExpectedRow(Place(rows[i]))
    /\ \A i, j \in 1..Len(rows) : i < j => Before(Place(rows[i]), Place(rows[j]))
    /\ main = "exit" => \A t \in Asked : \E i \in 1..Len(rows) : Place(rows[i]) = t

(* The dump ends, whatever the file and the TOAST relations hold. *)
DumpTerminates == <>Exited

(* "Make sure the item can physically fit on this block before             *)
(* formatting": an item is said to extend beyond its block only if it      *)
(* does, or if a column before it in the block was restored from TOAST:    *)
(* a nested dump that ran to the end of its file leaves bytesToFormat at   *)
(* 0.  The next block that is read puts that right.                        *)
BeyondIsTrue ==
  \A e \in beyond :
    LET its == Listed(heap[e[1] + 1])
    IN  \/ ~FitsIn(its[e[2]], e[1])
        \/ options.decode /\ options.toast
           /\ \E i \in 1..(e[2] - 1) : \E k \in DOMAIN its[i].cols : its[i].cols[k].kind = "toast"

-------------------------------------------------------------------------------
(* What a comment says, and the code does not keep.                        *)

(* "Program exit code": an error that was noted is in it, and nothing else *)
(* is.  main overwrites it with the 0 that DumpFileContents returns; with  *)
(* -m it is the other way round.                                           *)
ErrorsReachExit == Exited => (exitCode = 1 <=> noted)
===============================================================================
