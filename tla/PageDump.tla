-------------------------------- MODULE PageDump --------------------------------
(***************************************************************************)
(* One block that is not part of a nested dump: what FormatBlock           *)
(* (pg_filedump.c) makes of it, from its special section over its header   *)
(* and its items to its special section again, and FormatControl for a     *)
(* control file.  GIN pages are walked by GinBlock; the decoding of heap   *)
(* tuples is left to FileDump and TupleDecode.                             *)
(*                                                                         *)
(* page: the `kind` of file it is from; the `bytes` read of it; `lower`,   *)
(* `upper` and `special` of its header, whether its layout `version` is    *)
(* the supported one and its checksum right; the first `word` of its       *)
(* special section and the `last` two bytes of the block; the `flags` of   *)
(* the special section; its line pointers, `items`; for a GIN page, `gin`. *)
(* A line pointer is [lp |-> its flags, off, len, tuple |-> the tuple].    *)
(***************************************************************************)
EXTENDS GinBlock

CONSTANTS Pages,      \* the blocks to dump
          OptionSets, \* [mode, format (-f), detail (-i), as (-x, -y), checksums (-k)]
          MaxAlign,   \* MAXIMUM_ALIGNOF
          ControlSize \* sizeof(ControlFileData)

BlockSize == 8192
PageHeader == 24     \* sizeof(PageHeaderData)
ItemIdSize == 4

(* The alignments PostgreSQL is built with, and pages whose header can be  *)
(* told of.  As many line pointers are on a page as its header says, if    *)
(* they were read.                                                         *)
ASSUME AlignAssumption == MaxAlign \in {4, 8}
LinePointers(p) == IF p.lower <= PageHeader THEN 0 ELSE (p.lower - PageHeader) \div ItemIdSize
ASSUME PagesAssumption ==
  \A p \in Pages : /\ {p.bytes, p.lower, p.upper, p.special, p.word, p.last} \subseteq Nat
                   /\ p.bytes <= BlockSize
                   /\ p.kind \in {"heap", "sequence", "btree", "hash", "gist", "gin", "spgist",
                                 "new", "control"}
                   /\ p.content \in {"pointers", "meta", "gin", "other"}
                   /\ Len(p.items) \in Nat /\ DOMAIN p.items = 1..Len(p.items)
                   /\ PageHeader + ItemIdSize * LinePointers(p) <= p.bytes =>
                        Len(p.items) = LinePointers(p)
                   /\ \A i \in DOMAIN p.items : {p.items[i].off, p.items[i].len} \subseteq Nat
                   /\ \A i \in DOMAIN p.items : p.items[i].tuple.form = "inner" =>
                        LET t == p.items[i].tuple
                        IN  t.prefix \in Nat /\ t.nodes \in Seq(Nat)
(* What is on a GIN page are lists: of items, of segments, and of tuples   *)
(* that may hold such lists.                                               *)
ASSUME GinAssumption ==
  \A p \in Pages : LET g == p.gin
                   IN  /\ g.maxoff \in Nat
                       /\ g.items \in Seq(Range(g.items)) /\ g.lists \in Seq(Range(g.lists))
                       /\ g.segs \in Seq(Range(g.segs)) /\ g.tuples \in Seq(Range(g.tuples))
                       /\ \A s \in Range(g.segs) : s.bytes \in Seq(Nat)
                       /\ \A t \in Range(g.tuples) :
                            /\ t.tree \in BOOLEAN /\ t.compressed \in BOOLEAN /\ t.count \in Nat
                            /\ t.items \in Seq(Range(t.items)) /\ t.segs \in Seq(Range(t.segs))
                            /\ \A s \in Range(t.segs) : s.bytes \in Seq(Nat)

VARIABLES options, specialType,
          shown,      \* <<from, to, what>>: the bytes FormatBinary has put out
          formatted   \* <<x, format>>: the items formatted, and as what

vars == <<page, options, pc, x, walk, specialType, shown, formatted, errors>>

Aligned(n, a) == ((n + a - 1) \div a) * a
MAXALIGN(n) == Aligned(n, MaxAlign)

(* Sizes of the special sections and of the meta data of an index, and the *)
(* last two bytes by which they are told apart.                            *)
BTOpaque == MAXALIGN(16)   HashOpaque == MAXALIGN(16)   GistOpaque == MAXALIGN(16)
GinOpaque == MAXALIGN(8)   SpGistOpaque == MAXALIGN(8)
BTMetaSize == 48           GinMetaSize == 56          SpGistMetaSize == 68
SEQUENCE_MAGIC == 5911     SPGIST_PAGE_ID == 65410
GIST_PAGE_ID == 65409      HASHO_PAGE_ID == 65408       MAX_BT_CYCLE_ID == 65407

Whole == page.bytes = BlockSize
MaxOffset_OneLess ==
  IF page.lower <= PageHeader THEN 0 ELSE (page.lower - PageHeader - 1) \div ItemIdSize
MaxOffset == LinePointers(page)
SpecialSize == BlockSize - page.special

(* B-tree, hash and GiST sections have one size. *)
LargeSection(n) ==
  CASE page.last <= MAX_BT_CYCLE_ID /\ n = BTOpaque -> "btree"
    [] page.last = HASHO_PAGE_ID /\ n = HashOpaque  -> "hash"
    [] page.last = GIST_PAGE_ID /\ n = GistOpaque   -> "gist"
    [] OTHER -> "unknown"

GetSpecialSectionType_GinFirst ==
  LET n == SpecialSize
  IN  CASE page.bytes <= PageHeader -> "unknown"
        [] page.special \notin 1..Min({BlockSize, page.bytes}) -> "boundary"
        [] n = 0 -> "none"
        [] n = MAXALIGN(4) /\ Whole /\ page.word = SEQUENCE_MAGIC -> "sequence"
        [] n = GinOpaque -> "gin"
        [] Whole /\ n > 2 -> LargeSection(n)
        [] OTHER -> "unknown"

OutOfBounds_OnBlock == page.special = 0 \/ page.special > BlockSize
OutOfBounds == page.special = 0 \/ page.special > BlockSize \/ page.special > page.bytes

(* GetSpecialSectionType: a section of the size of a sequence's is only    *)
(* looked into if the block is whole.                                      *)
GetSpecialSectionType ==
  LET n == SpecialSize
  IN  IF page.bytes <= PageHeader THEN "unknown"
      ELSE IF OutOfBounds THEN "boundary"
      ELSE CASE n = 0 -> "none"
             [] n = MAXALIGN(4) ->
                  IF ~Whole THEN "unknown"
                  ELSE IF page.word = SEQUENCE_MAGIC THEN "sequence"
                  ELSE IF n = SpGistOpaque /\ page.last = SPGIST_PAGE_ID THEN "spgist"
                  ELSE IF n = GinOpaque THEN "gin" ELSE "unknown"
             [] n \notin {0, MAXALIGN(4)} ->
                  IF n = SpGistOpaque /\ Whole /\ page.last = SPGIST_PAGE_ID THEN "spgist"
                  ELSE IF n = GinOpaque THEN "gin"
                  ELSE IF n > 2 /\ Whole THEN LargeSection(n)
                  ELSE "unknown"

(* The pages whose meta data is printed in place of items.                 *)
IsBtreeMetaPage == Whole /\ SpecialSize = BTOpaque
                   /\ page.last <= MAX_BT_CYCLE_ID /\ "META" \in page.flags
IsGinMetaPage == Whole /\ SpecialSize = GinOpaque /\ Flag(8)
IsSpGistMetaPage == Whole /\ SpecialSize = SpGistOpaque
                    /\ page.last = SPGIST_PAGE_ID /\ "META" \in page.flags
IsMetaPage == IsBtreeMetaPage \/ IsGinMetaPage \/ IsSpGistMetaPage

-------------------------------------------------------------------------------
(* FormatBinary, of n bytes from a start on. *)
Binary(from, n, what) == IF n > 0 THEN {<<from, from + n, what>>} ELSE {}
Formatted(from, n, what) == IF options.format THEN Binary(from, n, what) ELSE {}

Init == /\ page \in Pages /\ options \in OptionSets
        /\ pc = "block" /\ x = 1
        /\ seg = 1 /\ at = 0 /\ val = 0 /\ ipd = <<>> /\ listed = <<>>
        /\ specialType = "none" /\ shown = {} /\ formatted = <<>> /\ errors = {}

(* -b copies the bytes out; -d shows them without interpretation.          *)
FormatBlock ==
  /\ pc = "block" /\ options.mode # "control"
  /\ specialType' = IF options.mode = "binary" THEN specialType ELSE GetSpecialSectionType
  /\ shown' = IF options.mode = "format" THEN shown ELSE Binary(0, page.bytes, "block")
  /\ pc' = IF options.mode = "format" THEN "header" ELSE "done"
  /\ UNCHANGED <<page, options, x, walk, formatted, errors>>

(* FormatControl: a version below 72 is said not to be supported, and that *)
(* is all; of a file that is too short the bytes are shown.                *)
FormatControl ==
  /\ pc = "block" /\ options.mode = "control"
  /\ LET supported == page.bytes >= 12 /\ page.version
         short == page.bytes < ControlSize
     IN  /\ errors' = IF supported /\ short THEN errors \cup {"control size"} ELSE errors
         /\ shown' = IF supported /\ (short \/ options.format)
                       THEN Binary(0, page.bytes, "control") ELSE shown
  /\ pc' = "done"
  /\ UNCHANGED <<page, options, x, walk, specialType, formatted>>

(* FormatHeader: how much of the header and its item array is there.       *)
Array == MaxOffset * ItemIdSize
HeaderCut == page.bytes < PageHeader \/ page.bytes < PageHeader + Array
MetaSize == CASE IsBtreeMetaPage -> BTMetaSize
              [] ~IsBtreeMetaPage /\ IsGinMetaPage -> GinMetaSize
              [] OTHER -> 0
HeaderBytes_Array == PageHeader + Array + MetaSize
HeaderBytes ==
  CASE page.bytes < PageHeader -> page.bytes
    [] page.bytes >= PageHeader /\ HeaderCut -> page.bytes + MetaSize
    [] OTHER -> PageHeader + Array + MetaSize

HeaderInvalid ==
  \/ ~page.version
  \/ page.upper > BlockSize \/ page.upper > page.special
  \/ page.lower < PageHeader - ItemIdSize \/ page.lower > BlockSize
  \/ page.upper < page.lower
  \/ page.special > BlockSize

FormatHeader ==
  /\ pc = "header"
  /\ errors' = errors
       \cup (IF page.bytes >= PageHeader /\ HeaderInvalid THEN {"header"} ELSE {})
       \cup (IF page.bytes >= PageHeader /\ options.checksums /\ ~page.checksum
               THEN {"checksum"} ELSE {})
       \cup (IF HeaderCut THEN {"header cut"} ELSE {})
  /\ shown' = shown \cup Formatted(0, HeaderBytes, "header")
  /\ pc' = CASE HeaderCut -> "done"
             [] ~HeaderCut /\ IsMetaPage -> "special"
             [] OTHER -> IF specialType = "gin" THEN "gin" ELSE "item"
  /\ UNCHANGED <<page, options, x, walk, specialType, formatted>>

-------------------------------------------------------------------------------
(* FormatItemBlock. *)
Item == page.items[x]
AtItem == pc = "item" /\ x <= MaxOffset
Fits(it) == it.off + it.len <= BlockSize /\ it.off + it.len <= page.bytes

FormatAs ==
  CASE options.as # "guess" -> options.as
    [] options.as = "guess" /\ specialType \in {"btree", "hash", "gist", "gin"} -> "index"
    [] options.as = "guess" /\ specialType = "spgist" ->
         IF "LEAF" \in page.flags THEN "leaf" ELSE "inner"
    [] OTHER -> "heap"

ItemBeyond ==
  /\ AtItem /\ ~Fits(Item)
  /\ errors' = errors \cup {"item beyond"}
  /\ x' = x + 1
  /\ UNCHANGED <<page, options, pc, walk, specialType, shown, formatted>>

ItemUnused ==
  /\ AtItem /\ Fits(Item) /\ Item.lp = "unused"
  /\ x' = x + 1
  /\ UNCHANGED <<page, options, pc, walk, specialType, shown, formatted, errors>>

(* The header every tuple must have, and the length it says it has.        *)
Least(form) == CASE form = "index" -> 6
                 [] form = "inner" -> 8
                 [] form = "leaf"  -> MAXALIGN(12)
                 [] form = "heap"  -> MAXALIGN(23)
BitmapLength_Always(t) == (t.natts + 7) \div 8
BitmapLength(t) == IF t.hasnull THEN (t.natts + 7) \div 8 ELSE 0
HeapHeader(t) == MAXALIGN(23 + BitmapLength(t))
Consistent(form, it) == IF form = "heap" THEN HeapHeader(it.tuple) = it.tuple.hoff
                        ELSE it.tuple.size = it.len

(* The nodes of an inner tuple: where each starts, up to the first that is *)
(* not whole in the tuple or not aligned.                                  *)
NodeAt(t, i) == 8 + t.prefix + SumFunctionOnSet(t.nodes, 1..(i - 1))
NodesWalked(it) ==
  {i \in DOMAIN it.tuple.nodes :
     /\ NodeAt(it.tuple, i) + 8 <= it.len
     /\ \A j \in 1..(i - 1) : /\ it.tuple.nodes[j] % MaxAlign = 0
                              /\ NodeAt(it.tuple, j) + 8 <= it.len}
InnerShown(it) ==
  LET t == it.tuple
  IN  IF t.size # it.len \/ t.prefix # MAXALIGN(t.prefix) THEN {}
      ELSE (IF 8 + t.prefix <= it.len THEN Formatted(it.off, 8 + t.prefix, "part") ELSE {})
           \cup UNION {Formatted(it.off + NodeAt(t, i), t.nodes[i], "part") :
                         i \in {k \in NodesWalked(it) : NodeAt(t, k) + t.nodes[k] <= it.len}}

(* FormatItem, if -i asks for it.  A tuple that is read as one of another  *)
(* kind may look right or wrong.                                           *)
FormatItem(form, it) ==
  IF ~options.detail THEN errors' = errors /\ shown' = shown \cup Formatted(it.off, it.len, "item")
  ELSE /\ shown' = shown \cup Formatted(it.off, it.len, "item")
                   \cup IF form = "inner" /\ it.tuple.form = "inner" /\ it.len >= 8
                        THEN InnerShown(it) ELSE {}
       /\ \/ it.len = 0 /\ errors' = errors
          \/ it.len \in 1..(Least(form) - 1) /\ errors' = errors \cup {"item size"}
          \/ it.len >= Least(form) /\ it.tuple.form = form
             /\ errors' = IF Consistent(form, it) THEN errors ELSE errors \cup {"item size"}
          \/ it.len >= Least(form) /\ it.tuple.form # form
             /\ errors' \in {errors, errors \cup {"item size"}}

FormatOneItem ==
  /\ AtItem /\ Fits(Item) /\ Item.lp # "unused"
  /\ FormatItem(FormatAs, Item)
  /\ formatted' = Append(formatted, <<x, FormatAs>>)
  /\ x' = x + 1
  /\ UNCHANGED <<page, options, pc, walk, specialType>>

EndItems ==
  /\ pc = "item" /\ x > MaxOffset
  /\ pc' = "special"
  /\ UNCHANGED <<page, options, x, walk, specialType, shown, formatted, errors>>

(* FormatSpecial.  The section is shown to the end of the block, however   *)
(* much of the block was read.                                             *)
FormatSpecial ==
  /\ pc = "special"
  /\ LET bad == specialType \in {"unknown", "boundary"}
     IN  /\ errors' = IF bad THEN errors \cup {"special"} ELSE errors
         /\ shown' = IF specialType \in {"none", "boundary"} THEN shown
                     ELSE shown \cup Formatted(page.special, SpecialSize, "special")
  /\ pc' = "done"
  /\ UNCHANGED <<page, options, x, walk, specialType, formatted>>

GinListing == GinStep /\ UNCHANGED <<options, specialType, shown, formatted>>

Done == pc = "done" /\ UNCHANGED vars
Next == \/ FormatBlock \/ FormatControl \/ FormatHeader
        \/ ItemBeyond \/ ItemUnused \/ FormatOneItem \/ EndItems
        \/ GinListing \/ FormatSpecial \/ Done
Spec == Init /\ [][Next]_vars

-------------------------------------------------------------------------------
(* A page as the server writes it (page.content: what is behind its header *)
(* is line pointers, meta data, or something else, as on the bitmap pages  *)
(* of a hash index).  The first word of an SP-GiST section starts with     *)
(* flags of four bits, that of a GIN section is any block number.          *)
Section == CASE page.kind = "heap" -> 0
             [] page.kind = "sequence" -> MAXALIGN(4)
             [] page.kind \in {"gin", "spgist"} -> MAXALIGN(8)
             [] page.kind \in {"btree", "hash", "gist"} -> MAXALIGN(16)
GinFlags == {0, 1, 2, 3, 131, 64, 65, 66, 67, 195}   \* entry and data pages
            \cup {8, 16, 48, 4, 5, 6, 7, 135}        \* meta, list and deleted pages
Mark == CASE page.kind = "sequence" -> page.word = SEQUENCE_MAGIC
          [] page.kind = "gin"    -> page.last \in GinFlags
          [] page.kind = "spgist" -> page.last = SPGIST_PAGE_ID /\ page.word # SEQUENCE_MAGIC
          [] page.kind = "btree"  -> page.last <= MAX_BT_CYCLE_ID
          [] page.kind = "hash"   -> page.last = HASHO_PAGE_ID
          [] page.kind = "gist"   -> page.last = GIST_PAGE_ID
          [] page.kind = "heap"   -> TRUE
HasTuple(it) == it.lp # "unused" /\ it.len > 0
ItsForm == CASE page.kind \in {"heap", "sequence"} -> "heap"
             [] page.kind = "spgist" -> IF "LEAF" \in page.flags THEN "leaf" ELSE "inner"
             [] OTHER -> "index"
(* An inner page of an SP-GiST index may hold dead tuples, too. *)
Dead(it) == it.tuple.form = "inner" /\ it.tuple.size = 0
(* heap_form_tuple: the header, with a bitmap only if a column is null.     *)
RoomFor(t) == MAXALIGN(23 + IF t.hasnull THEN (t.natts + 7) \div 8 ELSE 0)
SoundItem(it) ==
  IF HasTuple(it)
  THEN /\ page.upper <= it.off /\ it.off + it.len <= page.special
       /\ it.tuple.form = ItsForm /\ it.len >= Least(ItsForm)
       /\ \/ Dead(it)
          \/ ItsForm = "heap" /\ it.tuple.hoff = RoomFor(it.tuple)
          \/ ItsForm # "heap" /\ it.tuple.size = it.len
  ELSE it.len = 0 /\ it.off <= BlockSize       \* a redirect's offset is an item's number
Apart(it1, it2) ==
  HasTuple(it1) /\ HasTuple(it2) =>
    it1.off + it1.len <= it2.off \/ it2.off + it2.len <= it1.off
Sound ==
  /\ page.kind \notin {"new", "control"}
  /\ Whole /\ page.version /\ page.checksum
  /\ PageHeader <= page.lower /\ page.lower <= page.upper /\ page.upper <= page.special
  /\ SpecialSize = Section /\ Mark
  /\ page.content = "pointers" =>
       /\ page.lower = PageHeader + ItemIdSize * Len(page.items)
       /\ \A i \in DOMAIN page.items : SoundItem(page.items[i])
       /\ \A i, j \in DOMAIN page.items : i # j => Apart(page.items[i], page.items[j])
  /\ page.content = "meta" <=> IsMetaPage
  /\ page.content = "meta" => page.lower <= PageHeader + SpGistMetaSize
  /\ page.content = "gin" => page.kind = "gin" /\ Written

Interpreted == pc = "done" /\ options.mode = "format"

TypeOK ==
  /\ page.bytes \in 0..BlockSize
  /\ pc \in {"block", "header", "gin", "item", "special", "done", "segments", "bytes", "tuples",
             "tuple", "tupleBytes"} \cup Plain
  /\ pc \in {"item", "special", "done"} => x \in 1..(MaxOffset + 1) \/ specialType = "gin"
  /\ pc \in {"segments", "bytes"} => seg \in 1..(Len(page.gin.segs) + 1)

(* Every page of an index or of a sequence is told for what it is from the *)
(* size and two words of its special section; but a page of a GIN index    *)
(* whose right neighbour is block 5911 looks like a sequence where both    *)
(* have a section of the same size.                                        *)
Misread == page.kind = "gin" /\ page.word = SEQUENCE_MAGIC /\ MAXALIGN(4) = GinOpaque
RightSection ==
  options.mode = "format" /\ pc # "block" /\ Sound =>
    specialType = CASE page.kind = "heap" -> "none"
                    [] Misread -> "sequence"
                    [] OTHER -> page.kind

(* A true hint of the user, if any; a page of which no error is due.        *)
HintIsTrue == options.as = "guess"
              \/ (options.as = ItsForm /\ page.kind \notin {"spgist", "gin"})
SplitEntry == page.kind = "gin" /\ page.last = 64
Unblemished ==
  /\ Sound /\ ~Misread /\ ~SplitEntry /\ page.content # "other"
  /\ HintIsTrue
  /\ options.detail => \A i \in DOMAIN page.items : ~Dead(page.items[i])

(* No error is reported of a page that has none, unless the user has the   *)
(* items read as what they are not.  Left out is what the code does not    *)
(* know of: line pointers that are none, dead tuples on an inner page of   *)
(* an SP-GiST index, an inner GIN page that is being split, and Misread.   *)
NoFalseAlarm == Interpreted /\ Unblemished => errors = {}

(* A page of which no error is reported has been read to its end, and each *)
(* of its tuples has been formatted.  With 4-byte alignment a GIN section  *)
(* has a size of its own, and of it alone the code does not ask whether    *)
(* the block is whole.                                                     *)
DamageSeen ==
  Interpreted /\ errors = {} =>
    /\ Whole \/ (specialType = "gin" /\ GinOpaque # MAXALIGN(4))
    /\ specialType # "gin" /\ MetaSize = 0 /\ ~IsSpGistMetaPage =>
         {i \in DOMAIN page.items : page.items[i].lp # "unused"} = {f[1] : f \in Range(formatted)}

(* No byte is shown that has not been read, except of two pages: the       *)
(* special section of a block that was cut is shown in full, and so is the *)
(* meta data behind an item array that is said to fill the block.          *)
InsideRead ==
  /\ TypeOK
  /\ \A r \in shown : \/ r[2] <= page.bytes
                      \/ r[3] = "special" /\ ~Whole
                      \/ r[3] = "header" /\ MetaSize > 0 /\ ~Sound

(* -f without -i: of a page with line pointers the header, every tuple and *)
(* the special section are shown once, and nothing else.                   *)
Size(ranges) == SumFunctionOnSet([r \in ranges |-> r[2] - r[1]], ranges)
ShownOnce ==
  Interpreted /\ options.format /\ ~options.detail /\ Sound
  /\ page.content = "pointers" /\ page.kind # "gin" =>
    /\ \A r, s \in shown : r = s \/ r[2] <= s[1] \/ s[2] <= r[1]
    /\ Size(shown) = page.lower + SpecialSize
                     + SumFunctionOnSet([i \in DOMAIN page.items |-> page.items[i].len],
                                        {i \in DOMAIN page.items : HasTuple(page.items[i])})

(* A page of a GIN index is listed entry by entry as it was written, with  *)
(* the differences of its compressed posting lists added up and across the *)
(* borders of their segments; no posting list is read beyond its end.  Of  *)
(* a list page only as many entries are listed as it has heap rows.        *)
ListsContents ==
  Sound /\ page.content = "gin" /\ ~Misread =>
    /\ pc \in {"bytes", "tupleBytes"} => at \in 0..Len(Segment.bytes)
                                      /\ val \in 0..(Offsets * Blocks - 1)
    /\ Interpreted /\ ~SplitEntry /\ ~Deleted =>
         listed = IF Listing = "list" THEN SubSeq(Stored, 1, page.gin.maxoff) ELSE Stored
===============================================================================
