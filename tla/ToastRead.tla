------------------------------- MODULE ToastRead -------------------------------
(***************************************************************************)
(* Restoring one TOASTed value from its TOAST relation: the restart loop   *)
(* of ReadStringFromToast (decode.c), the block loop of DumpFileContents   *)
(* and the item loop of FormatItemBlock (pg_filedump.c) in the form they   *)
(* take when isToast is true, and ToastChunkDecode (decode.c).             *)
(*                                                                         *)
(* A block is what the nested dump sees of it: how many bytes fread()      *)
(* delivered, whether its header can be used, what its special section     *)
(* looks like and its line pointers.  A line pointer is a record: `end` is *)
(* itemOffset + itemSize, `used` says it is not LP_UNUSED, `xmax` that the *)
(* tuple has a deleter, `oid` and `seq` are the chunk's first two columns, *)
(* `len` the payload length its varlena header states, and `form` how that *)
(* payload sits in the tuple:                                              *)
(*   "whole"  a plain varlena that ends exactly where the tuple ends       *)
(*   "torn"   a plain varlena that does not                                *)
(*   "packed" a compressed or short varlena (not what TOAST writes)        *)
(*   "stub"   such a varlena in a tuple with four bytes left               *)
(*   "bare"   the tuple ends right behind its seq                          *)
(*   "oid"    the tuple ends right behind its oid, or within its seq       *)
(*   "cut"    the tuple ends within its oid                                *)
(***************************************************************************)
EXTENDS Integers, Sequences

CONSTANTS ExtSize,      \* toast_ext_size: bytes of the value as stored
          ChunkMax,     \* TOAST_MAX_CHUNK_SIZE
          ToastOid,     \* va_valueid of the TOAST pointer
          BlockSize,    \* the global blockSize
          HeaderBytes,  \* sizeof(PageHeaderData)
          IgnoreOld,    \* -o given: BLOCK_IGNORE_OLD in the global blockOptions
          Relations,    \* the contents the TOAST relation file may have
          NoFile        \* stands for a file that cannot be opened

VARIABLES rel,            \* contents of the TOAST relation file, a sequence of blocks
          pc,             \* "open", "while", "fread", "items", "scanned" or "ended"
          blk,            \* currentBlock + 1 of the nested dump
          itm,            \* x, the line pointer FormatItemBlock is at
          want,           \* want_chunk_id
          toastRead,      \* toastDataRead: where the next chunk goes in toast_data
          value,          \* the chunk numbers whose payload was copied to toast_data
          loops,          \* scans completed
          result,         \* result of ReadStringFromToast
          report,         \* what the verbose line said about the last item
          bytesToFormat,  \* global: bytes the last fread() delivered
          specialType,    \* global: special section of the last block formatted
          exitCode        \* global

locals  == <<rel, pc, blk, itm, want, toastRead, value, loops, result, report>>
globals == <<bytesToFormat, specialType, exitCode>>
vars    == <<locals, globals>>

Specials == {"none", "index", "error"}
Forms == {"whole", "torn", "packed", "stub", "bare", "oid", "cut"}

Item == [end: Nat, used: BOOLEAN, xmax: BOOLEAN, oid: Nat, seq: Nat,
         len: Nat, form: Forms]
Block == [bytes: Nat \ {0}, header: {"ok", "invalid", "cut"},
          body: {"items", "none", "corrupt"}, special: Specials, items: Seq(Item)]

ASSUME SizeAssumption == /\ ExtSize \in Nat \ {0}
                         /\ ChunkMax \in Nat \ {0}
                         /\ BlockSize \in Nat \ {0}
                         /\ HeaderBytes \in Nat \ {0}
                         /\ IgnoreOld \in BOOLEAN
                         /\ ToastOid \in Nat
ASSUME RelationAssumption == /\ Relations \subseteq Seq(Block)
                             /\ NoFile \notin Seq(Block)

NumChunks == ((ExtSize - 1) \div ChunkMax) + 1

(* The line pointers FormatItemBlock walks: none when the header is cut    *)
(* off (FormatHeader returns EOF_ENCOUNTERED), on the meta pages of an     *)
(* index, on an empty block, or when the item array is corrupt.            *)
Listed(b) == IF b.header # "cut" /\ b.body = "items" THEN b.items ELSE <<>>

(* Item contents must lie within the block and within what was read. *)
Fits(it, bytes) == it.end <= BlockSize /\ it.end <= bytes

Old(it) == IgnoreOld /\ it.xmax

(* The tuple has both of the columns that name a chunk. *)
Named(it) == it.form \notin {"oid", "cut"}

-------------------------------------------------------------------------------
Init == /\ rel \in Relations \cup {NoFile}
        /\ pc = "open" /\ blk = 1 /\ itm = 1
        /\ want = 0 /\ toastRead = 0 /\ value = <<>>
        /\ loops = 0 /\ result = 0 /\ report = "none"
        /\ bytesToFormat = BlockSize /\ specialType = "none" /\ exitCode = 0

(* fopen() of <directory of the file>/<va_toastrelid>, then GetBlockSize(), *)
(* which notes an error when block 0 has no full page header.              *)
OpenFails == /\ pc = "open" /\ rel = NoFile
             /\ result' = -1
             /\ pc' = "ended"
             /\ UNCHANGED <<rel, blk, itm, want, toastRead, value, loops, report, globals>>

Open == /\ pc = "open" /\ rel # NoFile
        /\ exitCode' = IF rel = <<>> \/ rel[1].bytes < HeaderBytes THEN 1 ELSE exitCode
        /\ pc' = "while"
        /\ UNCHANGED <<rel, blk, itm, want, toastRead, value, loops, result, report,
                       bytesToFormat, specialType>>

(* while (want_chunk_id < num_chunks): rewind and start another scan. *)
StartScan_NoRewind ==
  /\ pc = "while" /\ want < NumChunks
  /\ pc' = "fread"
  /\ UNCHANGED <<rel, blk, itm, want, toastRead, value, loops, result, report, globals>>

StartScan == /\ pc = "while" /\ want < NumChunks
             /\ blk' = 1
             /\ pc' = "fread"
             /\ UNCHANGED <<rel, itm, want, toastRead, value, loops, result, report, globals>>

(* DumpFileContents reads a block; FormatBlock classifies its special      *)
(* section and FormatHeader checks the header.                             *)
ReadBlock == /\ pc = "fread" /\ blk <= Len(rel)
             /\ bytesToFormat' = rel[blk].bytes
             /\ specialType' = rel[blk].special
             /\ exitCode' = IF \/ rel[blk].header # "ok"
                               \/ rel[blk].body = "corrupt"
                            THEN 1 ELSE exitCode
             /\ itm' = 1
             /\ pc' = "items"
             /\ UNCHANGED <<rel, blk, want, toastRead, value, loops, result, report>>

ReadEof_NotSeen ==
  /\ pc = "fread" /\ blk > Len(rel)
  /\ bytesToFormat' = 0
  /\ UNCHANGED <<locals, specialType, exitCode>>

ReadEof == /\ pc = "fread" /\ blk > Len(rel)
           /\ bytesToFormat' = 0
           /\ pc' = "scanned"
           /\ UNCHANGED <<rel, blk, itm, want, toastRead, value, loops, result, report,
                          specialType, exitCode>>

(* What one pass through FormatItemBlock's loop gets out of a tuple.       *)
(* ToastChunkDecode looks at the payload only when the oid is the value's  *)
(* and the sequence number is the one wanted; DecodeBytesBinary copies it  *)
(* only when it is a plain varlena; and the chunk counts only when nothing *)
(* is left of the tuple.  For a varlena it cannot copy, `processed_size`   *)
(* still holds the four bytes of the sequence number.                      *)
Wanted_AnyChunk(it) == Named(it) /\ it.oid = ToastOid
Wanted(it)  == Named(it) /\ it.oid = ToastOid /\ it.seq = want
Copied_Stale(it) == Wanted(it) \/ (it.form = "whole" /\ it.oid = ToastOid)
Copied(it)  == Wanted(it) /\ it.form \in {"whole", "torn"}
Counted(it) == Wanted(it) /\ it.form \in {"whole", "stub"}

(* The verbose line: written when the oid matches; `chunkId == *want - 1`  *)
(* is how the code tells a chunk it has just read from one it has skipped. *)
(* Of a tuple that ends within the oid, read_toast_oid is uninitialized,   *)
(* so the line may or may not be written.  chunkId is 0 then, as it is for *)
(* a tuple without a whole seq; a bare one has its seq there.              *)
Line_NotIncremented(seq, w) == IF seq = w THEN "read" ELSE "skipped"
Line(seq, w) == IF seq = w - 1 THEN "read" ELSE "skipped"

Reports(it, w) ==
  CASE it.form = "cut"                            -> {"none", Line(0, w)}
    [] it.form # "cut" /\ it.oid # ToastOid       -> {"none"}
    [] it.form = "oid" /\ it.oid = ToastOid       -> {Line(0, w)}
    [] Named(it) /\ it.oid = ToastOid             -> {Line(it.seq, w)}

AtItem == /\ pc = "items"
          /\ itm <= Len(Listed(rel[blk]))

(* Items that do not reach ToastChunkDecode. *)
PassItem == /\ AtItem
            /\ LET it == Listed(rel[blk])[itm]
               IN  /\ ~Fits(it, bytesToFormat) \/ ~it.used \/ Old(it)
                   /\ exitCode' = IF Fits(it, bytesToFormat) THEN exitCode ELSE 1
            /\ itm' = itm + 1
            /\ report' = "none"
            /\ UNCHANGED <<rel, pc, blk, want, toastRead, value, loops, result,
                           bytesToFormat, specialType>>

(* Items that do: `*toastRead += chunkSize`, and the loop is left as soon  *)
(* as the external size is reached.                                        *)
DecodeItem ==
  /\ AtItem
  /\ LET it == Listed(rel[blk])[itm]
     IN  /\ Fits(it, bytesToFormat) /\ it.used /\ ~Old(it)
         /\ want' = IF Counted(it) THEN want + 1 ELSE want
         /\ toastRead' = IF Copied(it) THEN toastRead + it.len ELSE toastRead
         /\ value' = IF Copied(it) THEN Append(value, it.seq) ELSE value
         /\ report' \in Reports(it, want')
         /\ itm' = IF toastRead' >= ExtSize THEN Len(Listed(rel[blk])) + 1 ELSE itm + 1
  /\ UNCHANGED <<rel, pc, blk, loops, result, globals>>

(* The block's items are done.  FormatSpecial notes an error for a special *)
(* section it cannot name, unless FormatHeader stopped at a cut header.    *)
(* The block loop is left when the external size is reached.               *)
EndBlock == /\ pc = "items" /\ itm > Len(Listed(rel[blk]))
            /\ exitCode' = IF rel[blk].header # "cut" /\ specialType = "error"
                           THEN 1 ELSE exitCode
            /\ blk' = blk + 1
            /\ pc' = IF toastRead >= ExtSize THEN "scanned" ELSE "fread"
            /\ UNCHANGED <<rel, itm, want, toastRead, value, loops, result, report,
                           bytesToFormat, specialType>>

(* if (loops++ > num_chunks) give up *)
GivesUp_Early == loops >= NumChunks - 1
GivesUp == loops > NumChunks

EndScan == /\ pc = "scanned"
           /\ loops' = loops + 1
           /\ result' = IF GivesUp THEN -1 ELSE result
           /\ pc' = IF GivesUp THEN "ended" ELSE "while"
           /\ UNCHANGED <<rel, blk, itm, want, toastRead, value, report, globals>>

(* Every chunk was found: the value goes to parse_value(). *)
Deliver == /\ pc = "while" /\ want >= NumChunks
           /\ pc' = "ended"
           /\ UNCHANGED <<rel, blk, itm, want, toastRead, value, loops, result, report, globals>>

Step == \/ OpenFails \/ Open \/ StartScan \/ ReadBlock \/ ReadEof
        \/ PassItem \/ DecodeItem \/ EndBlock \/ EndScan \/ Deliver

Ended == pc = "ended" /\ UNCHANGED vars

Next == Step \/ Ended

Spec == Init /\ [][Next]_vars

(* The program is one sequential process: it keeps running while it can.   *)
FairSpec == Spec /\ WF_vars(Step)

-------------------------------------------------------------------------------
(* What the relation has of the value.  A chunk is reachable when a scan   *)
(* gets as far as its first two columns and they name the value.           *)
Reachable(f, b, i) ==
  /\ b \in 1..Len(f) /\ i \in 1..Len(Listed(f[b]))
  /\ LET it == Listed(f[b])[i]
     IN  /\ Fits(it, f[b].bytes) /\ it.used /\ ~Old(it)
         /\ Named(it) /\ it.oid = ToastOid

Holds(f, s) == \E b \in 1..Len(f) : \E i \in 1..Len(Listed(f[b])) :
                 Reachable(f, b, i) /\ Listed(f[b])[i].seq = s

(* As TOAST writes them: every chunk but the last is full.                 *)
SizeUpTo(k) == IF k < NumChunks THEN k * ChunkMax ELSE ExtSize

Intact(it) == /\ it.form = "whole"
              /\ it.seq < NumChunks
              /\ it.len = SizeUpTo(it.seq + 1) - SizeUpTo(it.seq)

Sound(f) == \A b \in 1..Len(f) : \A i \in 1..Len(Listed(f[b])) :
              Reachable(f, b, i) => Intact(Listed(f[b])[i])

Complete(f) == f # NoFile /\ Sound(f) /\ \A s \in 0..(NumChunks - 1) : Holds(f, s)

(* No chunk of the value is there twice. *)
Distinct(f) == \A b, c \in 1..Len(f) :
                 \A i \in 1..Len(Listed(f[b])), j \in 1..Len(Listed(f[c])) :
                   /\ Reachable(f, b, i) /\ Reachable(f, c, j)
                   /\ Listed(f[b])[i].seq = Listed(f[c])[j].seq
                   => b = c /\ i = j

(* Every tuple of the relation has its first two columns. *)
Uncut(f) == \A b \in 1..Len(f) : \A i \in 1..Len(Listed(f[b])) :
              Named(Listed(f[b])[i])

-------------------------------------------------------------------------------
(* Types of all variables of one detoasting call. *)
TypeOK == /\ rel \in Relations \cup {NoFile}
          /\ pc \in {"open", "while", "fread", "items", "scanned", "ended"}
          /\ pc \notin {"open", "ended"} => rel # NoFile
          /\ blk \in Nat \ {0} /\ itm \in Nat \ {0}
          /\ pc = "items" => blk <= Len(rel)
          /\ want \in Nat /\ toastRead \in Nat /\ value \in Seq(Nat)
          /\ loops \in Nat /\ result \in {-1, 0}
          /\ report \in {"none", "read", "skipped"}
          /\ bytesToFormat \in Nat /\ specialType \in Specials /\ exitCode \in {0, 1}

(* Whatever order the chunks have on disk, what has been put into          *)
(* toast_data is chunks 0, 1, 2, ... of the value, each once, and          *)
(* toastDataRead is exactly the offset at which the next one belongs.      *)
RestoredInOrder ==
  rel # NoFile /\ Sound(rel) => /\ value = [k \in 1..want |-> k - 1]
                                /\ want <= NumChunks
                                /\ toastRead = SizeUpTo(want)

(* A scan that stops early, because the external size is reached, has not  *)
(* missed a chunk: the restart loop ends right after it.                   *)
EarlyStopIsFinal ==
  rel # NoFile /\ Sound(rel) /\ pc = "scanned" /\ bytesToFormat # 0 => want = NumChunks

(* As long as the relation holds every chunk, each rescan finds at least   *)
(* one more, so n chunks never take more than n scans, in the worst case   *)
(* of chunks stored backwards.                                             *)
EveryScanAdvances ==
  rel # NoFile /\ Complete(rel) /\ pc = "while" => loops <= want

(* "Not all TOAST chunks found": never said of a value that is all there.  *)
NoFalseGiveUp == rel # NoFile /\ Complete(rel) => result = 0

(* Detoasting comes to an end, also over a relation that lacks chunks or   *)
(* holds damaged ones: the restart loop cannot go round for ever.          *)
Terminates == <>(pc = "ended")

(* -v says "Read TOAST chunk" of a chunk exactly when it has just been     *)
(* appended, although it tells so only by comparing the chunk's number     *)
(* with the moving want_chunk_id: for a relation that holds each chunk of  *)
(* the value once, and whose tuples all have their first two columns.      *)
ReadReportTrue ==
  [][DecodeItem /\ Complete(rel) /\ Distinct(rel) /\ Uncut(rel)
       => (report' = "read" <=> want' = want + 1)]_vars

-------------------------------------------------------------------------------
(* The inductive invariant behind the safety properties.  InBlock and      *)
(* StopReason say what the loops know of the file position, ResultInLoop   *)
(* that a failure leaves the restart loop; Advancing says that, while the  *)
(* relation holds every chunk, the chunk numbered `loops` is not behind    *)
(* the scan unless it has been restored.  TornIsLast is about damage: a    *)
(* torn chunk is copied, again by each scan, but never counted, so that no *)
(* later chunk is put behind it; for relations that hold no chunk twice    *)
(* and no stub, which is counted without being copied.                     *)
InBlock == pc = "items" => bytesToFormat = rel[blk].bytes

StopReason == pc = "scanned" => \/ toastRead >= ExtSize
                                \/ bytesToFormat = 0 /\ blk > Len(rel)

Passed(b, i) == b < blk \/ (b = blk /\ pc = "items" /\ i < itm)

ResultInLoop == result # 0 => pc = "ended"

Advancing ==
  rel # NoFile /\ Complete(rel) =>
    /\ result = 0
    /\ loops <= want
    /\ pc \in {"fread", "items", "scanned"} =>
         /\ loops < NumChunks
         /\ \/ want > loops
            \/ \A b \in 1..Len(rel) : \A i \in 1..Len(Listed(rel[b])) :
                 Reachable(rel, b, i) /\ Passed(b, i) => Listed(rel[b])[i].seq # loops

Stubless(f) == \A b \in 1..Len(f) : \A i \in 1..Len(Listed(f[b])) :
                 Reachable(f, b, i) => Listed(f[b])[i].form # "stub"

TornIsLast ==
  rel # NoFile /\ Distinct(rel) /\ Stubless(rel) =>
    /\ Len(value) >= want
    /\ \A k \in 1..Len(value) : value[k] = IF k <= want THEN k - 1 ELSE want
    /\ \A b \in 1..Len(rel) : \A i \in 1..Len(Listed(rel[b])) :
         LET it == Listed(rel[b])[i]
         IN  Reachable(rel, b, i) => /\ it.seq < want => it.form = "whole"
                                     /\ it.seq = want /\ Len(value) > want => it.form = "torn"

(* Holds in every reachable state and is preserved by every step; it       *)
(* implies RestoredInOrder, EarlyStopIsFinal, EveryScanAdvances and        *)
(* NoFalseGiveUp.                                                          *)
IInv == /\ TypeOK /\ RestoredInOrder
        /\ InBlock /\ StopReason /\ ResultInLoop /\ Advancing /\ TornIsLast

-------------------------------------------------------------------------------
(* The abstract promise, over relations whose reachable chunks are intact. *)
Outcome == IF pc # "ended" THEN "reading"
           ELSE IF result = 0 THEN "delivered" ELSE "failed"

V == INSTANCE ToastValue WITH N <- NumChunks, chunks <- value, outcome <- Outcome,
                              whole <- (rel # NoFile /\ Complete(rel))

(* The three nested loops deliver a value as ToastValue promises. *)
RestoresValue == V!FairSpec
===============================================================================
