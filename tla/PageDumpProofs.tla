----------------------------- MODULE PageDumpProofs -----------------------------
(***************************************************************************)
(* For all pages and options, for both alignments PostgreSQL is built with *)
(* and for every width of an item pointer and of a varbyte's groups: a     *)
(* page as the server writes it is told for what it is, no error is        *)
(* invented and no damage overlooked, nothing else than the page is shown  *)
(* and every part of it once, and a GIN page is listed as it was written.  *)
(***************************************************************************)
EXTENDS PageDump, DataFacts

LEMMA Alignments ==
  /\ MaxAlign = 4 => MAXALIGN(4) = 4 /\ MAXALIGN(8) = 8 /\ MAXALIGN(16) = 16
  /\ MaxAlign = 8 => MAXALIGN(4) = 8 /\ MAXALIGN(8) = 8 /\ MAXALIGN(16) = 16
BY DEF MAXALIGN, Aligned

(* The type GetSpecialSectionType gives a page the server wrote.           *)
TrueType == CASE page.kind = "heap" -> "none"
              [] Misread -> "sequence"
              [] OTHER -> page.kind

Sizes == BTOpaque = 16 /\ HashOpaque = 16 /\ GistOpaque = 16 /\ GinOpaque = 8 /\ SpGistOpaque = 8
LEMMA SectionSizes ==
  Sizes /\ MAXALIGN(4) \in {4, 8}
BY Alignments, AlignAssumption
   DEF Sizes, BTOpaque, HashOpaque, GistOpaque, GinOpaque, SpGistOpaque

(* The sizes and marks of the access methods do not overlap in the order   *)
(* in which they are tried.                                                *)
LEMMA TypeIsTold ==
  ASSUME page \in Pages, Sound
  PROVE  GetSpecialSectionType = TrueType
<1>1. /\ page.kind \in {"heap", "sequence", "btree", "hash", "gist", "gin", "spgist",
                     "new", "control"}
      /\ page.special \in Nat /\ page.word \in Nat /\ page.last \in Nat
  BY PagesAssumption
<1>2. page.bytes = 8192 /\ Whole /\ SpecialSize = Section /\ Mark
  BY DEF Sound, Whole, BlockSize
<1>3. SpecialSize = 8192 - page.special
  BY DEF SpecialSize, BlockSize
<1>4. Sizes /\ MAXALIGN(4) \in {4, 8} /\ MAXALIGN(8) = 8 /\ MAXALIGN(16) = 16
  BY SectionSizes, Alignments, AlignAssumption
<1>5. GetSpecialSectionType =
        IF OutOfBounds THEN "boundary"
        ELSE CASE SpecialSize = 0 -> "none"
               [] SpecialSize = MAXALIGN(4) ->
                    IF page.word = SEQUENCE_MAGIC THEN "sequence"
                    ELSE IF SpecialSize = 8 /\ page.last = SPGIST_PAGE_ID THEN "spgist"
                    ELSE IF SpecialSize = 8 THEN "gin" ELSE "unknown"
               [] SpecialSize \notin {0, MAXALIGN(4)} ->
                    IF SpecialSize = 8 /\ page.last = SPGIST_PAGE_ID THEN "spgist"
                    ELSE IF SpecialSize = 8 THEN "gin"
                    ELSE IF SpecialSize > 2 THEN LargeSection(SpecialSize)
                    ELSE "unknown"
  BY <1>2, <1>4 DEF GetSpecialSectionType, PageHeader, Sizes
<1>6. CASE page.kind = "heap"
  <2>1. SpecialSize = 0 /\ ~OutOfBounds
    BY <1>1, <1>2, <1>3, <1>6 DEF Section, OutOfBounds, BlockSize
  <2> QED BY <1>4, <1>5, <1>6, <2>1 DEF TrueType, Misread
<1>7. CASE page.kind = "sequence"
  <2>1. SpecialSize = MAXALIGN(4) /\ page.word = SEQUENCE_MAGIC
    BY <1>2, <1>7 DEF Section, Mark
  <2>2. ~OutOfBounds /\ SpecialSize # 0
    BY <1>1, <1>2, <1>3, <1>4, <2>1 DEF OutOfBounds, BlockSize
  <2> QED BY <1>4, <1>5, <1>7, <2>1, <2>2 DEF TrueType, Misread
<1>8. CASE page.kind = "gin"
  <2>1. SpecialSize = 8 /\ page.last \in GinFlags
    BY <1>2, <1>4, <1>8 DEF Section, Mark
  <2>2. ~OutOfBounds /\ page.last # SPGIST_PAGE_ID
    BY <1>1, <1>2, <1>3, <2>1 DEF OutOfBounds, BlockSize, GinFlags, SPGIST_PAGE_ID
  <2> QED BY <1>4, <1>5, <1>8, <2>1, <2>2 DEF TrueType, Misread, Sizes
<1>9. CASE page.kind = "spgist"
  <2>1. SpecialSize = 8 /\ page.last = SPGIST_PAGE_ID /\ page.word # SEQUENCE_MAGIC
    BY <1>2, <1>4, <1>9 DEF Section, Mark
  <2>2. ~OutOfBounds
    BY <1>1, <1>2, <1>3, <2>1 DEF OutOfBounds, BlockSize
  <2> QED BY <1>4, <1>5, <1>9, <2>1, <2>2 DEF TrueType, Misread
<1>10. CASE page.kind \in {"btree", "hash", "gist"}
  <2>1. SpecialSize = 16
    BY <1>2, <1>4, <1>10 DEF Section
  <2>2. ~OutOfBounds
    BY <1>1, <1>2, <1>3, <2>1 DEF OutOfBounds, BlockSize
  <2>3. GetSpecialSectionType = LargeSection(16)
    BY <1>4, <1>5, <2>1, <2>2
  <2>4. LargeSection(16) = CASE page.last <= 65407 -> "btree"
                             [] page.last = 65408  -> "hash"
                             [] page.last = 65409  -> "gist"
                             [] OTHER -> "unknown"
    BY <1>4 DEF LargeSection, Sizes, MAX_BT_CYCLE_ID, HASHO_PAGE_ID, GIST_PAGE_ID
  <2>5. ASSUME page.kind = "btree" PROVE LargeSection(16) = page.kind
    <3>1. page.last <= 65407
      BY <1>2, <2>5 DEF Mark, MAX_BT_CYCLE_ID
    <3> QED BY <1>1, <2>4, <2>5, <3>1
  <2>6. ASSUME page.kind = "hash" PROVE LargeSection(16) = page.kind
    <3>1. page.last = 65408
      BY <1>2, <2>6 DEF Mark, HASHO_PAGE_ID
    <3> QED BY <1>1, <2>4, <2>6, <3>1
  <2>7. ASSUME page.kind = "gist" PROVE LargeSection(16) = page.kind
    <3>1. page.last = 65409
      BY <1>2, <2>7 DEF Mark, GIST_PAGE_ID
    <3> QED BY <1>1, <2>4, <2>7, <3>1
  <2>8. LargeSection(16) = page.kind
    BY <1>10, <2>5, <2>6, <2>7
  <2> QED BY <1>10, <2>3, <2>8 DEF TrueType, Misread
<1> QED BY <1>1, <1>6, <1>7, <1>8, <1>9, <1>10 DEF Sound

-------------------------------------------------------------------------------
(* specialType is set once, when a block is begun, and the page stays.     *)
Begun == /\ page \in Pages
         /\ options.mode = "format" /\ pc # "block" => specialType = GetSpecialSectionType

LEMMA BegunInit == Init => Begun
BY DEF Init, Begun

LEMMA BegunNext == Begun /\ [Next]_vars => Begun'
<1> SUFFICES ASSUME Begun, [Next]_vars PROVE Begun'
  OBVIOUS
<1>1. page' = page => GetSpecialSectionType' = GetSpecialSectionType
  BY DEF GetSpecialSectionType, SpecialSize, OutOfBounds, Whole, LargeSection
<1>2. CASE FormatBlock
  BY <1>1, <1>2 DEF Begun, FormatBlock
<1>3. CASE FormatControl
  BY <1>1, <1>3 DEF Begun, FormatControl
<1>4. CASE FormatHeader \/ ItemBeyond \/ ItemUnused \/ FormatOneItem \/ EndItems \/ FormatSpecial
  <2>1. pc # "block" /\ page' = page /\ options' = options /\ specialType' = specialType
    BY <1>4 DEF FormatHeader, AtItem, ItemBeyond, ItemUnused, FormatOneItem, EndItems, FormatSpecial
  <2> QED BY <1>1, <2>1 DEF Begun
<1>5. CASE GinListing
  <2>1. GinStep => pc # "block" /\ page' = page
    BY DEF GinStep, StartGin, FirstOfSegment, NextOfSegment, EndOfSegment, PrintTuple, EntryTuple,
           Plain, PlainEntry, EndGin
  <2> QED BY <1>1, <1>5, <2>1 DEF Begun, GinListing
<1>6. CASE Done \/ UNCHANGED vars
  <2>1. page' = page /\ options' = options /\ pc' = pc /\ specialType' = specialType
    BY <1>6 DEF Done, vars
  <2> QED BY <1>1, <2>1 DEF Begun
<1> QED BY <1>2, <1>3, <1>4, <1>5, <1>6 DEF Next

(* Every page of an index, of a sequence or of a table that is as the      *)
(* server writes it is told for what it is, from the size and two words of *)
(* its special section.                                                    *)
THEOREM PageIsTold == Spec => []RightSection
<1>1. Begun => RightSection
  BY TypeIsTold DEF Begun, RightSection, TrueType
<1> QED BY <1>1, BegunInit, BegunNext, PTL DEF Spec

-------------------------------------------------------------------------------
(* What an unblemished page looks like to each part of FormatBlock.        *)

(* Its header is whole and raises no error.                                *)
LEMMA HeaderIsSound ==
  ASSUME page \in Pages, Sound
  PROVE  /\ ~HeaderCut /\ ~HeaderInvalid /\ page.checksum
         /\ page.content = "pointers" => MaxOffset = Len(page.items)
<1>1. {page.lower, page.upper, page.special} \subseteq Nat /\ Len(page.items) \in Nat
  BY PagesAssumption
<1>2. /\ page.bytes = 8192 /\ page.version /\ page.checksum
      /\ 24 <= page.lower /\ page.lower <= page.upper /\ page.upper <= page.special
      /\ SpecialSize = Section /\ page.kind \notin {"new", "control"}
      /\ page.content = "pointers" => page.lower = 24 + 4 * Len(page.items)
  BY DEF Sound, Whole, BlockSize, PageHeader, ItemIdSize
<1>3. Section \in Nat
  <2>1. MAXALIGN(4) \in Nat /\ MAXALIGN(8) \in Nat /\ MAXALIGN(16) \in Nat
    BY Alignments, AlignAssumption
  <2> QED BY <1>2, <2>1, PagesAssumption DEF Section
<1>4. page.special <= 8192
  BY <1>1, <1>2, <1>3 DEF SpecialSize, BlockSize
<1>5. ~HeaderInvalid
  BY <1>1, <1>2, <1>4 DEF HeaderInvalid, BlockSize, PageHeader, ItemIdSize
<1>6. MaxOffset = (page.lower - 24) \div 4
  BY <1>1, <1>2 DEF MaxOffset, LinePointers, PageHeader, ItemIdSize
<1>7. MaxOffset \in Nat /\ MaxOffset * 4 <= page.lower - 24
  <2> DEFINE n == page.lower - 24
  <2>1. n \in Nat
    BY <1>1, <1>2
  <2> HIDE DEF n
  <2>2. n \div 4 \in Nat /\ (n \div 4) * 4 <= n
    BY <2>1
  <2> QED BY <1>6, <2>2 DEF n
<1>8. ~HeaderCut
  <2>1. MaxOffset * 4 \in Nat /\ 24 + MaxOffset * 4 <= 8192
    BY <1>1, <1>2, <1>4, <1>7
  <2> QED BY <1>2, <2>1 DEF HeaderCut, Array, PageHeader, ItemIdSize
<1>9. page.content = "pointers" => MaxOffset = Len(page.items)
  BY <1>1, <1>2, <1>6
<1> QED BY <1>2, <1>5, <1>8, <1>9

LEMMA LeastIsPositive == Least(ItsForm) \in Nat \ {0}
<1>1. MAXALIGN(12) \in Nat \ {0} /\ MAXALIGN(23) \in Nat \ {0}
  BY AlignAssumption DEF MAXALIGN, Aligned
<1> QED BY <1>1 DEF Least, ItsForm

(* Each of its items fits, is formatted as what it is, and is consistent.  *)
LEMMA ItemIsSound ==
  ASSUME page \in Pages, Unblemished, page.content = "pointers", x \in 1..MaxOffset,
         specialType = TrueType, specialType # "gin"
  PROVE  /\ Fits(Item)
         /\ Item.lp # "unused" /\ FormatItem(FormatAs, Item) => errors' = errors
<1>1. Sound /\ ~Misread /\ page.bytes = 8192
  BY DEF Unblemished, Sound, Whole, BlockSize
<1>2. x \in DOMAIN page.items
  BY <1>1, HeaderIsSound, PagesAssumption
<1>3. Item.off \in Nat /\ Item.len \in Nat /\ SoundItem(Item)
  BY <1>1, <1>2, PagesAssumption DEF Item, Sound
<1>4. page.special \in Nat /\ page.special <= 8192
  <2>1. page.special \in Nat /\ SpecialSize = Section /\ page.kind \notin {"new", "control"}
    BY <1>1, PagesAssumption DEF Sound
  <2>2. Section \in Nat
    <3>1. MAXALIGN(4) \in Nat /\ MAXALIGN(8) \in Nat /\ MAXALIGN(16) \in Nat
      BY Alignments, AlignAssumption
    <3> QED BY <2>1, <3>1, PagesAssumption DEF Section
  <2> QED BY <2>1, <2>2 DEF SpecialSize, BlockSize
<1>5. Fits(Item)
  BY <1>1, <1>3, <1>4 DEF Fits, SoundItem, BlockSize
<1>6. FormatAs = ItsForm
  <2>1. page.kind \in {"heap", "sequence", "btree", "hash", "gist", "gin", "spgist"}
    BY <1>1, PagesAssumption DEF Sound
  <2>2. /\ page.kind = "heap" => specialType = "none"
        /\ page.kind # "heap" => specialType = page.kind
    BY <1>1, <2>1 DEF TrueType, Misread
  <2>3. CASE options.as = "guess"
    BY <2>1, <2>2, <2>3 DEF FormatAs, ItsForm
  <2>4. CASE options.as # "guess"
    BY <2>4 DEF Unblemished, HintIsTrue, FormatAs
  <2> QED BY <2>3, <2>4
<1>7. ASSUME Item.lp # "unused", FormatItem(FormatAs, Item) PROVE errors' = errors
  <2>1. \/ ~options.detail /\ errors' = errors
        \/ options.detail /\ Item.len = 0 /\ errors' = errors
        \/ options.detail /\ Item.len \in 1..(Least(ItsForm) - 1)
        \/ /\ options.detail /\ Item.len >= Least(ItsForm) /\ Item.tuple.form = ItsForm
           /\ errors' = IF Consistent(ItsForm, Item) THEN errors ELSE errors \cup {"item size"}
        \/ options.detail /\ Item.len >= Least(ItsForm) /\ Item.tuple.form # ItsForm
    BY <1>6, <1>7 DEF FormatItem
  <2>2. CASE options.detail /\ Item.len # 0
    <3>1. HasTuple(Item)
      BY <1>3, <1>7, <2>2 DEF HasTuple
    <3>2. Item.tuple.form = ItsForm /\ Item.len >= Least(ItsForm)
      BY <1>3, <3>1 DEF SoundItem
    <3>3. ~Dead(Item)
      BY <1>2, <2>2 DEF Unblemished, Item
    <3>4. Consistent(ItsForm, Item)
      BY <1>3, <3>1, <3>3 DEF SoundItem, Consistent, HeapHeader, BitmapLength, RoomFor
    <3>5. ~(Item.len \in 1..(Least(ItsForm) - 1))
      BY <1>3, <3>2, LeastIsPositive
    <3> QED BY <2>1, <2>2, <3>2, <3>4, <3>5
  <2>3. CASE ~options.detail
    BY <2>1, <2>3
  <2>4. CASE Item.len = 0
    <3>1. ~(Item.len \in 1..(Least(ItsForm) - 1)) /\ ~(Item.len >= Least(ItsForm))
      BY <2>4, LeastIsPositive
    <3> QED BY <2>1, <3>1
  <2> QED BY <2>2, <2>3, <2>4
<1> QED BY <1>5, <1>7

(* A GIN page of every kind has its loop, except an inner entry page that  *)
(* is being split.                                                         *)
LEMMA GinPageIsKnown ==
  ASSUME page.kind = "gin", Sound, ~SplitEntry
  PROVE  Deleted \/ Listing # "unknown" \/ Flag(8)
<1>1. page.last \in GinFlags
  BY DEF Sound, Mark
<1>2. page.last # 64
  BY DEF SplitEntry
<1>3. CASE page.last \in {4, 5, 6, 7, 135}
  <2>1. (page.last \div 4) % 2 = 1
    BY <1>3
  <2> QED BY <2>1 DEF Deleted, Flag
<1>4. CASE page.last = 8
  <2>1. (page.last \div 8) % 2 = 1
    BY <1>4
  <2> QED BY <2>1 DEF Flag
<1>5. CASE page.last = 0
  BY <1>5 DEF Listing
<1>6. CASE page.last \in {16, 48}
  <2>1. /\ (page.last \div 1) % 2 = 0 /\ (page.last \div 2) % 2 = 0
        /\ (page.last \div 16) % 2 = 1
    BY <1>6
  <2>2. ~Data /\ ~Leaf /\ List
    BY <2>1 DEF Data, Leaf, List, Flag
  <2> QED BY <2>2 DEF Listing
<1>7. CASE page.last \in {1, 65}
  <2>1. (page.last \div 1) % 2 = 1 /\ (page.last \div 2) % 2 = 0
    BY <1>7
  <2>2. Data /\ ~Leaf
    BY <2>1 DEF Data, Leaf, Flag
  <2> QED BY <2>2 DEF Listing
<1>8. CASE page.last \in {2, 3, 66, 67, 131, 195}
  <2>1. (page.last \div 2) % 2 = 1
    BY <1>8
  <2>2. Leaf
    BY <2>1 DEF Leaf, Flag
  <2> QED BY <2>2 DEF Listing
<1> QED BY <1>1, <1>2, <1>3, <1>4, <1>5, <1>6, <1>7, <1>8 DEF GinFlags

(* As long as no error has been raised; what is walked item by item or     *)
(* entry by entry is no meta page, and what has line pointers has them.    *)
Unalarmed ==
  /\ Begun /\ x \in Nat \ {0}
  /\ options.mode = "format" /\ Unblemished =>
       /\ errors = {}
       /\ pc \in {"item", "gin"} => ~IsMetaPage
       /\ pc = "item" => specialType # "gin"
       /\ pc = "gin" => specialType = "gin"

LEMMA PremiseStays ==
  ASSUME page' = page, options' = options
  PROVE  Sound' = Sound /\ Unblemished' = Unblemished /\ IsMetaPage' = IsMetaPage
<1>1. Sound' = Sound /\ IsMetaPage' = IsMetaPage
  <2>1. Whole' = Whole /\ SpecialSize' = SpecialSize /\ Section' = Section /\ Mark' = Mark
    BY DEF Whole, SpecialSize, Section, Mark
  <2>2. IsMetaPage' = IsMetaPage
    BY <2>1 DEF IsMetaPage, IsBtreeMetaPage, IsGinMetaPage, IsSpGistMetaPage, Flag
  <2>3. \A i : SoundItem(page.items[i])' = SoundItem(page.items[i])
    BY DEF SoundItem, HasTuple, ItsForm, Least, Dead, RoomFor
  <2>4. \A i, j : Apart(page.items[i], page.items[j])' = Apart(page.items[i], page.items[j])
    BY DEF Apart, HasTuple
  <2>5. Listing' = Listing /\ Tuples' = Tuples
    BY DEF Listing, Data, Leaf, List, Compressed, Flag, Tuples
  <2>6. Written' = Written
    BY <2>5 DEF Written, PostingList
  <2> QED BY <2>1, <2>2, <2>3, <2>4, <2>6 DEF Sound
<1>2. Misread' = Misread /\ SplitEntry' = SplitEntry /\ HintIsTrue' = HintIsTrue
  BY DEF Misread, SplitEntry, HintIsTrue, ItsForm
<1> QED BY <1>1, <1>2 DEF Unblemished, Dead

LEMMA PageStays ==
  ASSUME [Next]_vars
  PROVE  /\ page' = page /\ options' = options
         /\ Unblemished' = Unblemished /\ IsMetaPage' = IsMetaPage
<1>1. page' = page /\ options' = options
  BY DEF Next, FormatBlock, FormatControl, FormatHeader, ItemBeyond, ItemUnused, FormatOneItem,
         EndItems, GinListing, GinStep, StartGin, FirstOfSegment, NextOfSegment, EndOfSegment,
         PrintTuple, EntryTuple, PlainEntry, EndGin, FormatSpecial, Done, vars
<1> QED BY <1>1, PremiseStays

LEMMA UnalarmedNext == Unalarmed /\ [Next]_vars => Unalarmed'
<1> SUFFICES ASSUME Unalarmed, [Next]_vars PROVE Unalarmed'
  OBVIOUS
<1>1. Begun' /\ page \in Pages
  BY BegunNext DEF Unalarmed, Begun
<1>2. page' = page /\ options' = options
  BY PageStays
<1>3. x' \in Nat \ {0}
  <2>1. x' = x \/ x' = x + 1 \/ x' = 1
    BY DEF Next, FormatBlock, FormatControl, FormatHeader, ItemBeyond, ItemUnused, FormatOneItem,
           EndItems, GinListing, GinStep, StartGin, FirstOfSegment, NextOfSegment, EndOfSegment,
           PrintTuple, EntryTuple, PlainEntry, EndGin, FormatSpecial, Done, vars
  <2> QED BY <2>1 DEF Unalarmed
<1>4. /\ Unblemished' = Unblemished /\ IsMetaPage' = IsMetaPage
  BY PageStays
<1>5. ASSUME options.mode = "format", Unblemished
      PROVE  /\ errors' = {}
             /\ pc' \in {"item", "gin"} => ~IsMetaPage
             /\ pc' = "item" => specialType' # "gin"
             /\ pc' = "gin" => specialType' = "gin"
  <2>1. /\ errors = {}
        /\ pc \in {"item", "gin"} => ~IsMetaPage
        /\ pc = "item" => specialType # "gin"
        /\ pc = "gin" => specialType = "gin"
    BY <1>5 DEF Unalarmed
  <2>2. Sound /\ ~Misread /\ ~SplitEntry
    BY <1>5 DEF Unblemished
  <2>3. GetSpecialSectionType = TrueType
    BY <1>1, <2>2, TypeIsTold
  <2>4. pc # "block" => specialType = TrueType
    BY <1>5, <2>3 DEF Unalarmed, Begun
  <2>5. CASE FormatBlock
    BY <1>5, <2>1, <2>5 DEF FormatBlock
  <2>6. CASE FormatControl
    BY <1>5, <2>6 DEF FormatControl
  <2>7. CASE FormatHeader
    <3>1. errors' = {}
      BY <1>1, <2>1, <2>2, <2>7, HeaderIsSound DEF FormatHeader
    <3>2. /\ pc' = IF IsMetaPage THEN "special" ELSE IF specialType = "gin" THEN "gin" ELSE "item"
          /\ specialType' = specialType
      BY <1>1, <2>2, <2>7, HeaderIsSound DEF FormatHeader
    <3> QED BY <3>1, <3>2
  <2>8. CASE ItemBeyond \/ ItemUnused \/ FormatOneItem
    <3>1. pc = "item" /\ x \in 1..MaxOffset /\ pc' = pc /\ specialType' = specialType
      <4>1. MaxOffset \in Int
        BY <1>1, PagesAssumption DEF MaxOffset, LinePointers, PageHeader, ItemIdSize
      <4>2. pc = "item" /\ x <= MaxOffset /\ pc' = pc /\ specialType' = specialType
        BY <2>8 DEF ItemBeyond, ItemUnused, FormatOneItem, AtItem
      <4>3. x \in Nat \ {0}
        BY DEF Unalarmed
      <4> HIDE DEF MaxOffset
      <4> QED BY <4>1, <4>2, <4>3
    <3>2. page.content = "pointers"
      <4>1. page.content \in {"pointers", "meta", "gin", "other"} /\ page.content # "other"
        BY <1>1, <1>5, PagesAssumption DEF Unblemished
      <4>2. page.kind # "gin"
        BY <2>1, <2>2, <2>4, <3>1 DEF TrueType
      <4> QED BY <2>1, <2>2, <3>1, <4>1, <4>2 DEF Sound
    <3>3. /\ Fits(Item)
          /\ Item.lp # "unused" /\ FormatItem(FormatAs, Item) => errors' = errors
      BY <1>1, <1>5, <2>1, <2>4, <3>1, <3>2, ItemIsSound
    <3>4. errors' = errors
      BY <2>8, <3>3 DEF ItemBeyond, ItemUnused, FormatOneItem
    <3> QED BY <2>1, <3>1, <3>4
  <2>9. CASE EndItems
    BY <2>1, <2>9 DEF EndItems
  <2>10. CASE GinListing
    <3>1. CASE StartGin
      <4>1. specialType = "gin" /\ ~IsMetaPage /\ specialType' = specialType
        BY <2>1, <2>10, <3>1 DEF StartGin, GinListing
      <4>2. page.kind = "gin"
        BY <2>2, <2>4, <3>1, <4>1 DEF StartGin, TrueType
      <4>3. ~Flag(8)
        <5>1. Whole /\ SpecialSize = GinOpaque
          BY <2>2, <4>2, PagesAssumption DEF Sound, Section, GinOpaque
        <5> QED BY <4>1, <5>1 DEF IsMetaPage, IsGinMetaPage
      <4>4. Deleted \/ Listing # "unknown"
        BY <2>2, <4>2, <4>3, GinPageIsKnown
      <4>5. errors' = {}
        BY <2>1, <3>1, <4>4 DEF StartGin
      <4>6. Listing \notin {"item", "gin"}
        BY DEF Listing
      <4> QED BY <3>1, <4>5, <4>6 DEF StartGin
    <3>2. CASE GinStep /\ ~StartGin
      <4>1. errors' = errors /\ pc' \notin {"item", "gin"}
        BY <3>2 DEF GinStep, FirstOfSegment, NextOfSegment, EndOfSegment, PrintTuple, EntryTuple,
                    Plain, PlainEntry, EndGin
      <4> QED BY <2>1, <4>1
    <3> QED BY <2>10, <3>1, <3>2 DEF GinListing
  <2>11. CASE FormatSpecial
    <3>1. specialType \notin {"unknown", "boundary"}
      <4>1. specialType = TrueType
        BY <2>4, <2>11 DEF FormatSpecial
      <4> QED BY <1>1, <4>1, PagesAssumption DEF TrueType
    <3> QED BY <2>1, <2>11, <3>1 DEF FormatSpecial
  <2>12. CASE Done \/ UNCHANGED vars
    BY <2>1, <2>12 DEF Done, vars
  <2> QED BY <2>5, <2>6, <2>7, <2>8, <2>9, <2>10, <2>11, <2>12 DEF Next
<1> QED BY <1>1, <1>2, <1>3, <1>4, <1>5 DEF Unalarmed

(* No error is reported of a page that the server wrote, for every page    *)
(* with any number of items, where the code knows of what is on the page.  *)
THEOREM NoErrorInvented == Spec => []NoFalseAlarm
<1>1. Init => Unalarmed
  BY BegunInit DEF Init, Unalarmed
<1>2. Unalarmed => NoFalseAlarm
  BY DEF Unalarmed, NoFalseAlarm, Interpreted
<1> QED BY <1>1, <1>2, UnalarmedNext, PTL DEF Spec

-------------------------------------------------------------------------------
(* Where each part of FormatBlock is reached from, and what its loops have *)
(* counted to.                                                             *)
GinPcs == {"gin", "segments", "bytes", "tuples", "tuple", "tupleBytes"} \cup Plain
Pcs == {"block", "header", "item", "special", "done"} \cup GinPcs
SegmentPc == pc \in {"segments", "bytes"}

Walked ==
  /\ Begun /\ x \in Nat \ {0} /\ pc \in Pcs
  /\ pc \notin {"block", "done"} => options.mode = "format"
  /\ pc \in {"block", "header"} => x = 1 /\ formatted = <<>> /\ shown = {}
  /\ pc = "item" => ~HeaderCut /\ ~IsMetaPage /\ specialType # "gin"
  /\ pc \in GinPcs => specialType = "gin"
  /\ specialType # "gin" => x <= MaxOffset + 1
  /\ SegmentPc => seg \in 1..(Len(page.gin.segs) + 1)
  /\ pc = "bytes" => seg <= Len(page.gin.segs)

LEMMA StaticStays ==
  ASSUME page' = page
  PROVE  /\ MaxOffset' = MaxOffset /\ HeaderCut' = HeaderCut /\ IsMetaPage' = IsMetaPage
         /\ MetaSize' = MetaSize /\ Whole' = Whole
<1>1. MaxOffset' = MaxOffset /\ Whole' = Whole
  BY DEF MaxOffset, LinePointers, Whole
<1>2. IsBtreeMetaPage' = IsBtreeMetaPage /\ IsGinMetaPage' = IsGinMetaPage
      /\ IsSpGistMetaPage' = IsSpGistMetaPage
  BY <1>1 DEF IsBtreeMetaPage, IsGinMetaPage, IsSpGistMetaPage, SpecialSize, Flag
<1> QED BY <1>1, <1>2 DEF HeaderCut, Array, IsMetaPage, MetaSize

LEMMA CountsAreNat ==
  ASSUME page \in Pages
  PROVE  /\ MaxOffset \in Nat /\ Len(page.gin.segs) \in Nat
         /\ page.bytes \in 0..BlockSize
<1>1. page.lower \in Nat /\ page.bytes \in Nat /\ page.bytes <= BlockSize
  BY PagesAssumption
<1>2. MaxOffset \in Nat
  <2> DEFINE n == page.lower - 24
  <2>1. CASE page.lower <= 24
    BY <2>1 DEF MaxOffset, LinePointers, PageHeader
  <2>2. CASE ~(page.lower <= 24)
    <3>1. n \in Nat /\ MaxOffset = n \div 4
      BY <1>1, <2>2 DEF MaxOffset, LinePointers, PageHeader, ItemIdSize
    <3> HIDE DEF n
    <3> QED BY <3>1
  <2> QED BY <2>1, <2>2
<1>3. Len(page.gin.segs) \in Nat
  <2> DEFINE s == page.gin.segs
             R == Range(s)
  <2>1. s \in Seq(R)
    BY GinAssumption
  <2> HIDE DEF s, R
  <2>2. Len(s) \in Nat
    BY <2>1
  <2> QED BY <2>2 DEF s
<1>4. page.bytes \in 0..BlockSize
  <2> DEFINE b == page.bytes
  <2>1. b \in Nat /\ b <= BlockSize /\ BlockSize \in Nat
    BY <1>1 DEF BlockSize
  <2> HIDE DEF b
  <2>2. b \in 0..BlockSize
    BY <2>1
  <2> QED BY <2>2 DEF b
<1> QED BY <1>2, <1>3, <1>4

(* Where the header is whole, so are the line pointers.                    *)
LEMMA AllPointersRead ==
  ASSUME page \in Pages, ~HeaderCut
  PROVE  Len(page.items) = MaxOffset
<1> DEFINE m == MaxOffset
<1>1. m \in Nat /\ page.bytes \in Nat /\ Array = m * 4
  BY CountsAreNat, PagesAssumption DEF Array, ItemIdSize
<1>2. 24 + 4 * m <= page.bytes
  <2> HIDE DEF m
  <2> QED BY <1>1 DEF HeaderCut, PageHeader
<1>3. PageHeader + ItemIdSize * LinePointers(page) <= page.bytes
        => Len(page.items) = LinePointers(page)
  BY PagesAssumption
<1> QED BY <1>2, <1>3 DEF PageHeader, ItemIdSize, MaxOffset

LEMMA WalkedInit == Init => Walked
<1> SUFFICES ASSUME Init PROVE Walked
  OBVIOUS
<1>1. /\ page \in Pages /\ pc = "block" /\ x = 1 /\ formatted = <<>> /\ shown = {}
      /\ specialType = "none"
  BY DEF Init
<1>2. MaxOffset \in Nat
  BY <1>1, CountsAreNat
<1>3. x <= MaxOffset + 1
  <2> HIDE DEF MaxOffset
  <2> QED BY <1>1, <1>2
<1> QED BY <1>1, <1>3, BegunInit DEF Walked, Pcs, GinPcs, Plain, SegmentPc

LEMMA WalkedNext == Walked /\ [Next]_vars => Walked'
<1> SUFFICES ASSUME Walked, [Next]_vars PROVE Walked'
  OBVIOUS
<1> DEFINE m == MaxOffset
           l == Len(page.gin.segs)
<1>1. Begun' /\ page \in Pages /\ page' = page /\ options' = options
  BY BegunNext, PageStays DEF Walked, Begun
<1>2. m \in Nat /\ l \in Nat
  BY <1>1, CountsAreNat
<1>3. m' = m /\ HeaderCut' = HeaderCut /\ IsMetaPage' = IsMetaPage /\ l' = l
  BY <1>1, StaticStays
<1>4. /\ x \in Nat \ {0} /\ pc \in Pcs
      /\ pc \notin {"block", "done"} => options.mode = "format"
      /\ pc \in {"block", "header"} => x = 1 /\ formatted = <<>> /\ shown = {}
      /\ pc = "item" => ~HeaderCut /\ ~IsMetaPage /\ specialType # "gin"
      /\ pc \in GinPcs => specialType = "gin"
      /\ specialType # "gin" => x <= m + 1
      /\ SegmentPc => seg \in 1..(l + 1)
      /\ pc = "bytes" => seg <= l
  BY DEF Walked
<1> SUFFICES /\ x' \in Nat \ {0} /\ pc' \in Pcs
             /\ pc' \notin {"block", "done"} => options.mode = "format"
             /\ pc' \in {"block", "header"} => x' = 1 /\ formatted' = <<>> /\ shown' = {}
             /\ pc' = "item" => ~HeaderCut /\ ~IsMetaPage /\ specialType' # "gin"
             /\ pc' \in GinPcs => specialType' = "gin"
             /\ specialType' # "gin" => x' <= m + 1
             /\ SegmentPc' => seg' \in 1..(l + 1)
             /\ pc' = "bytes" => seg' <= l
  BY <1>1, <1>3 DEF Walked
<1> HIDE DEF m, l
<1>5. CASE FormatBlock
  BY <1>2, <1>4, <1>5 DEF FormatBlock, Pcs, GinPcs, Plain, SegmentPc
<1>6. CASE FormatControl
  BY <1>2, <1>4, <1>6 DEF FormatControl, Pcs, GinPcs, Plain, SegmentPc
<1>7. CASE FormatHeader
  BY <1>2, <1>4, <1>7 DEF FormatHeader, walk, Pcs, GinPcs, Plain, SegmentPc
<1>8. CASE ItemBeyond \/ ItemUnused \/ FormatOneItem
  <2>1. /\ pc = "item" /\ x <= m /\ x' = x + 1 /\ pc' = pc /\ specialType' = specialType
        /\ seg' = seg
    BY <1>8 DEF ItemBeyond, ItemUnused, FormatOneItem, AtItem, walk, m
  <2> QED BY <1>2, <1>4, <2>1 DEF Pcs, GinPcs, Plain, SegmentPc
<1>9. CASE EndItems \/ FormatSpecial
  <2>1. /\ pc \in {"item", "special"} /\ pc' \in {"special", "done"} /\ x' = x
        /\ specialType' = specialType /\ seg' = seg
    BY <1>9 DEF EndItems, FormatSpecial, walk
  <2> QED BY <1>4, <2>1 DEF Pcs, GinPcs, Plain, SegmentPc
<1>10. CASE GinListing
  <2>1. /\ specialType' = specialType /\ pc \in GinPcs /\ specialType = "gin"
        /\ options.mode = "format"
    <3>1. pc \in GinPcs
      BY <1>10 DEF GinListing, GinStep, StartGin, FirstOfSegment, NextOfSegment, EndOfSegment,
                   PrintTuple, EntryTuple, PlainEntry, EndGin, GinPcs, Plain
    <3>2. pc \notin {"block", "done"}
      BY <3>1 DEF GinPcs, Plain
    <3> QED BY <1>4, <1>10, <3>1, <3>2 DEF GinListing
  <2>2. x' \in Nat \ {0}
    <3>1. x' = x \/ x' = x + 1 \/ x' = 1
      BY <1>10 DEF GinListing, GinStep, StartGin, FirstOfSegment, NextOfSegment, EndOfSegment,
                   PrintTuple, EntryTuple, PlainEntry, EndGin
    <3> QED BY <1>4, <3>1
  <2>3. /\ pc' \in (GinPcs \ {"gin"}) \cup {"special"}
        /\ SegmentPc' => seg' \in 1..(l + 1)
        /\ pc' = "bytes" => seg' <= l
    <3>1. CASE StartGin
      <4>1. Listing \in {"segments", "items", "tuples", "postings", "list", "entries", "unknown"}
        BY DEF Listing
      <4> QED BY <1>2, <3>1, <4>1 DEF StartGin, GinPcs, Plain, SegmentPc
    <3>2. CASE FirstOfSegment
      BY <1>2, <1>4, <3>2 DEF FirstOfSegment, GinPcs, Plain, SegmentPc, InTuple, Segs, l
    <3>3. CASE NextOfSegment
      BY <1>4, <3>3 DEF NextOfSegment, GinPcs, Plain, SegmentPc
    <3>4. CASE EndOfSegment
      BY <1>2, <1>4, <3>4 DEF EndOfSegment, GinPcs, Plain, SegmentPc, InTuple
    <3>5. CASE PrintTuple \/ EntryTuple
      BY <3>5 DEF PrintTuple, EntryTuple, GinPcs, Plain, SegmentPc
    <3>6. CASE PlainEntry \/ EndGin
      BY <3>6 DEF PlainEntry, EndGin, GinPcs, Plain, SegmentPc
    <3> QED BY <1>10, <3>1, <3>2, <3>3, <3>4, <3>5, <3>6 DEF GinListing, GinStep
  <2>4. pc' \in Pcs /\ pc' \notin {"block", "header", "item"}
    BY <2>3 DEF Pcs, GinPcs, Plain
  <2> QED BY <2>1, <2>2, <2>3, <2>4
<1>11. CASE Done \/ UNCHANGED vars
  BY <1>4, <1>11 DEF Done, vars, walk, SegmentPc
<1> QED BY <1>5, <1>6, <1>7, <1>8, <1>9, <1>10, <1>11 DEF Next

-------------------------------------------------------------------------------
(* As long as no error has been raised.                                    *)
Marked == {f[1] : f \in Range(formatted)}
Forms == {options.as, "index", "leaf", "inner", "heap"}
UsedAmong(n) == {i \in 1..n : page.items[i].lp # "unused"}

Inspected ==
  /\ Walked /\ formatted \in Seq(Nat \X Forms)
  /\ options.mode = "format" /\ errors = {} =>
       /\ pc = "item" => Marked = UsedAmong(x - 1)
       /\ pc \in {"special", "done"} =>
            /\ ~HeaderCut
            /\ specialType # "gin" /\ ~IsMetaPage => Marked = UsedAmong(Len(page.items))
       /\ pc \in GinPcs => ~HeaderCut
       /\ pc = "done" => specialType \notin {"unknown", "boundary"}

LEMMA InspectedNext == Inspected /\ [Next]_vars => Inspected'
<1> SUFFICES ASSUME Inspected, [Next]_vars PROVE Inspected'
  OBVIOUS
<1> DEFINE m == MaxOffset
<1>1. Walked /\ Walked' /\ page \in Pages /\ page' = page /\ options' = options
  BY WalkedNext, PageStays DEF Inspected, Walked, Begun
<1>2. m \in Nat /\ HeaderCut' = HeaderCut /\ IsMetaPage' = IsMetaPage /\ m' = m
  BY <1>1, CountsAreNat, StaticStays
<1>3. /\ x \in Nat \ {0} /\ pc \in Pcs
      /\ pc = "header" => x = 1 /\ formatted = <<>>
      /\ pc = "item" => ~HeaderCut /\ ~IsMetaPage /\ specialType # "gin" /\ x <= m + 1
      /\ pc \in GinPcs => specialType = "gin"
  BY <1>1 DEF Walked
<1>4. ~HeaderCut => Len(page.items) = m
  BY <1>1, AllPointersRead
<1>5. Forms' = Forms /\ \A n : UsedAmong(n)' = UsedAmong(n)
  BY <1>1 DEF Forms, UsedAmong
<1> DEFINE Clear == options.mode = "format" /\ errors = {}
<1>6. formatted \in Seq(Nat \X Forms)
  BY DEF Inspected
<1>7. Clear => /\ pc = "item" => Marked = UsedAmong(x - 1)
               /\ pc \in {"special", "done"} =>
                    /\ ~HeaderCut
                    /\ specialType # "gin" /\ ~IsMetaPage => Marked = UsedAmong(Len(page.items))
               /\ pc \in GinPcs => ~HeaderCut
               /\ pc = "done" => specialType \notin {"unknown", "boundary"}
  BY DEF Inspected
<1> HIDE DEF m, Clear
<1>8. SUFFICES
       /\ formatted' \in Seq(Nat \X Forms)
       /\ Clear' => /\ pc' = "item" => Marked' = UsedAmong(x' - 1)
                    /\ pc' \in {"special", "done"} =>
                         /\ ~HeaderCut
                         /\ specialType' # "gin" /\ ~IsMetaPage =>
                              Marked' = UsedAmong(Len(page.items))
                    /\ pc' \in GinPcs => ~HeaderCut
                    /\ pc' = "done" => specialType' \notin {"unknown", "boundary"}
  <2>1. UsedAmong(x - 1)' = UsedAmong(x' - 1)
        /\ UsedAmong(Len(page.items))' = UsedAmong(Len(page.items))
    BY <1>1 DEF UsedAmong
  <2> QED BY <1>1, <1>2, <1>5, <1>8, <2>1 DEF Inspected, Clear
<1>9. CASE FormatBlock \/ FormatControl
  <2>1. /\ formatted' = formatted
        /\ options.mode = "format" => pc' \notin {"item", "special", "done"} \cup GinPcs
    BY <1>9 DEF FormatBlock, FormatControl, GinPcs, Plain
  <2> QED BY <1>1, <1>6, <2>1 DEF Clear
<1>10. CASE FormatHeader
  <2>1. /\ formatted' = formatted /\ pc = "header" /\ x' = x /\ x = 1
        /\ specialType' = specialType
        /\ HeaderCut => errors' # {}
        /\ pc' = IF HeaderCut THEN "done" ELSE IF IsMetaPage THEN "special"
                 ELSE IF specialType = "gin" THEN "gin" ELSE "item"
    BY <1>3, <1>10 DEF FormatHeader
  <2>2. Marked' = {} /\ UsedAmong(1 - 1) = {}
    <3>1. formatted' = <<>>
      BY <1>3, <2>1
    <3>2. Marked' = {}
      BY <3>1 DEF Marked, Range
    <3> QED BY <3>2 DEF UsedAmong
  <2>3. x' - 1 = 1 - 1
    BY <2>1
  <2>4. Clear' => ~HeaderCut
    BY <2>1 DEF Clear
  <2>5. pc' # "done" \/ ~Clear'
    BY <2>1, <2>4
  <2> QED BY <1>6, <2>1, <2>2, <2>3, <2>4, <2>5
<1>11. CASE ItemBeyond \/ ItemUnused \/ FormatOneItem
  <2>1. /\ pc = "item" /\ x <= m /\ x' = x + 1 /\ pc' = pc /\ specialType' = specialType
    BY <1>11 DEF ItemBeyond, ItemUnused, FormatOneItem, AtItem, m
  <2>2. x' - 1 = (x - 1) + 1 /\ x - 1 \in Nat /\ x = (x - 1) + 1
    BY <1>3, <2>1
  <2>3. UsedAmong(x' - 1) = UsedAmong(x - 1) \cup (IF Item.lp # "unused" THEN {x} ELSE {})
    <3> DEFINE n == x - 1
    <3> HIDE DEF n
    <3>1. n \in Nat /\ x = n + 1 /\ x' - 1 = n + 1
      BY <2>2 DEF n
    <3>2. 1..(n + 1) = 1..n \cup {n + 1}
      BY <3>1
    <3> QED BY <3>1, <3>2 DEF UsedAmong, Item, n
  <2>4. pc' \notin {"special", "done"} \cup GinPcs
    BY <2>1 DEF GinPcs, Plain
  <2>5. CASE ItemBeyond
    <3>1. formatted' = formatted /\ ~Clear'
      BY <2>5 DEF ItemBeyond, Clear
    <3> QED BY <1>6, <3>1
  <2>6. CASE ItemUnused
    <3>1. formatted' = formatted /\ Clear' = Clear /\ Item.lp = "unused"
      BY <1>1, <2>6 DEF ItemUnused, Clear
    <3>2. Marked' = Marked
      BY <3>1 DEF Marked
    <3> QED BY <1>6, <1>7, <2>1, <2>3, <2>4, <3>1, <3>2
  <2>7. CASE FormatOneItem
    <3> DEFINE e == <<x, FormatAs>>
               S == Nat \X Forms
    <3>1. formatted' = Append(formatted, e) /\ Item.lp # "unused"
      BY <2>7 DEF FormatOneItem
    <3>2. FormatAs \in Forms
      BY DEF FormatAs, Forms
    <3>3. e \in S /\ e[1] = x
      BY <1>3, <3>2
    <3>0. formatted \in Seq(S)
      BY <1>6
    <3> HIDE DEF e, S
    <3>4. formatted' \in Seq(S) /\ Range(formatted') = Range(formatted) \cup {e}
      BY <3>0, <3>1, <3>3, RangeAppend
    <3>5. Marked' = Marked \cup {x}
      BY <3>3, <3>4 DEF Marked
    <3>6. Clear' => Clear
      <4>1. errors' = {} => errors = {}
        BY <2>7 DEF FormatOneItem, FormatItem
      <4> QED BY <1>1, <4>1 DEF Clear
    <3> QED BY <1>7, <2>1, <2>3, <2>4, <3>1, <3>4, <3>5, <3>6 DEF S
  <2> QED BY <1>11, <2>5, <2>6, <2>7
<1>12. CASE EndItems
  <2>1. /\ pc = "item" /\ x > m /\ pc' = "special" /\ x' = x /\ specialType' = specialType
        /\ formatted' = formatted /\ errors' = errors
    BY <1>12 DEF EndItems, m
  <2>2. x - 1 = m
    BY <1>2, <1>3, <2>1
  <2>3. Marked' = Marked /\ Clear' = Clear
    BY <1>1, <2>1 DEF Marked, Clear
  <2>4. "special" \notin GinPcs
    BY DEF GinPcs, Plain
  <2> QED BY <1>3, <1>4, <1>6, <1>7, <2>1, <2>2, <2>3, <2>4
<1>13. CASE FormatSpecial
  <2>1. /\ pc = "special" /\ pc' = "done" /\ x' = x /\ specialType' = specialType
        /\ formatted' = formatted
        /\ errors' = {} => errors = {} /\ specialType \notin {"unknown", "boundary"}
    BY <1>13 DEF FormatSpecial
  <2>2. Marked' = Marked
    BY <2>1 DEF Marked
  <2>3. Clear' => Clear /\ specialType \notin {"unknown", "boundary"}
    BY <1>1, <2>1 DEF Clear
  <2>4. "done" \notin GinPcs
    BY DEF GinPcs, Plain
  <2> QED BY <1>6, <1>7, <2>1, <2>2, <2>3, <2>4
<1>14. CASE GinListing
  <2>1. specialType' = specialType /\ formatted' = formatted /\ pc \in GinPcs
    BY <1>14 DEF GinListing, GinStep, StartGin, FirstOfSegment, NextOfSegment, EndOfSegment,
                 PrintTuple, EntryTuple, PlainEntry, EndGin, GinPcs, Plain
  <2>2. errors' = {} => errors = {}
    BY <1>14 DEF GinListing, GinStep, StartGin, FirstOfSegment, NextOfSegment, EndOfSegment,
                 PrintTuple, EntryTuple, PlainEntry, EndGin
  <2>3. pc' \in (GinPcs \ {"gin"}) \cup {"special"}
    <3>1. Listing \in {"segments", "items", "tuples", "postings", "list", "entries", "unknown"}
      BY DEF Listing
    <3> QED BY <1>14, <2>1, <3>1
            DEF GinListing, GinStep, StartGin, FirstOfSegment, NextOfSegment, EndOfSegment,
                PrintTuple, EntryTuple, PlainEntry, EndGin, GinPcs, Plain
  <2>4. pc' \notin {"item", "done"}
    BY <2>3 DEF GinPcs, Plain
  <2>5. specialType = "gin" /\ (Clear' => Clear)
    BY <1>1, <1>3, <2>1, <2>2 DEF Clear
  <2> QED BY <1>6, <1>7, <2>1, <2>4, <2>5
<1>15. CASE Done \/ UNCHANGED vars
  <2>1. /\ formatted' = formatted /\ errors' = errors /\ pc' = pc /\ x' = x
        /\ specialType' = specialType
    BY <1>15 DEF Done, vars
  <2>2. Marked' = Marked /\ Clear' = Clear
    BY <1>1, <2>1 DEF Marked, Clear
  <2> QED BY <1>6, <1>7, <2>1, <2>2
<1> QED BY <1>9, <1>10, <1>11, <1>12, <1>13, <1>14, <1>15 DEF Next

(* A special section is found right only on a block that was read whole,   *)
(* but for that of a GIN page where it has a size of its own.              *)
LEMMA CutIsNoticed ==
  ASSUME page \in Pages, GetSpecialSectionType \notin {"unknown", "boundary"}
  PROVE  Whole \/ (GetSpecialSectionType = "gin" /\ GinOpaque # MAXALIGN(4))
<1>1. page.bytes \in Nat /\ page.bytes <= 8192 /\ page.special \in Nat
  BY PagesAssumption DEF BlockSize
<1>2. CASE SpecialSize = 0
  <2>1. ~OutOfBounds
    BY DEF GetSpecialSectionType
  <2> QED BY <1>1, <1>2, <2>1 DEF OutOfBounds, SpecialSize, Whole, BlockSize
<1>3. CASE SpecialSize = MAXALIGN(4) /\ SpecialSize # 0
  BY <1>3 DEF GetSpecialSectionType
<1>4. CASE SpecialSize \notin {0, MAXALIGN(4)}
  <2>1. ~Whole => GetSpecialSectionType = "gin" /\ SpecialSize = GinOpaque
    BY <1>4 DEF GetSpecialSectionType
  <2> QED BY <1>4, <2>1
<1> QED BY <1>2, <1>3, <1>4

(* A page of which no error is reported has been read to its end, and each *)
(* of its tuples has been formatted: for every page, damaged in whatever   *)
(* way, and all options.                                                   *)
THEOREM DamageIsSeen == Spec => []DamageSeen
<1>1. Init => Inspected
  <2> SUFFICES ASSUME Init PROVE Inspected
    OBVIOUS
  <2>1. Walked /\ formatted = <<>> /\ pc = "block"
    BY WalkedInit DEF Init
  <2>2. formatted \in Seq(Nat \X Forms)
    <3> DEFINE S == Nat \X Forms
    <3> HIDE DEF S
    <3> QED BY <2>1 DEF S
  <2> QED BY <2>1, <2>2 DEF Inspected, GinPcs, Plain
<1>2. Inspected => DamageSeen
  <2> SUFFICES ASSUME Inspected, Interpreted, errors = {}
               PROVE  /\ Whole \/ (specialType = "gin" /\ GinOpaque # MAXALIGN(4))
                      /\ specialType # "gin" /\ MetaSize = 0 /\ ~IsSpGistMetaPage =>
                           {i \in DOMAIN page.items : page.items[i].lp # "unused"}
                             = {f[1] : f \in Range(formatted)}
    BY DEF DamageSeen
  <2>1. /\ page \in Pages /\ pc = "done" /\ options.mode = "format"
        /\ specialType \notin {"unknown", "boundary"}
        /\ specialType # "gin" /\ ~IsMetaPage => Marked = UsedAmong(Len(page.items))
    BY DEF Inspected, Interpreted, Walked, Begun
  <2>2. specialType = GetSpecialSectionType
    BY <2>1 DEF Inspected, Walked, Begun
  <2>3. Whole \/ (specialType = "gin" /\ GinOpaque # MAXALIGN(4))
    BY <2>1, <2>2, CutIsNoticed
  <2>4. MetaSize = 0 /\ ~IsSpGistMetaPage => ~IsMetaPage
    BY DEF MetaSize, IsMetaPage, BTMetaSize, GinMetaSize
  <2>5. DOMAIN page.items = 1..Len(page.items)
    BY <2>1, PagesAssumption
  <2> QED BY <2>1, <2>3, <2>4, <2>5 DEF Marked, UsedAmong
<1> QED BY <1>1, <1>2, InspectedNext, PTL DEF Spec

-------------------------------------------------------------------------------
(* What may be shown of a page.                                            *)
Allowed(r) == \/ r[2] <= page.bytes
              \/ r[3] = "special" /\ ~Whole
              \/ r[3] = "header" /\ MetaSize > 0 /\ ~Sound
WithinRead == Walked /\ \A r \in shown : Allowed(r)

(* The nodes of an inner tuple start within it.                            *)
LEMMA NodesAreNat ==
  ASSUME NEW t, t.prefix \in Nat, t.nodes \in Seq(Nat), NEW i \in DOMAIN t.nodes
  PROVE  NodeAt(t, i) \in Nat /\ t.nodes[i] \in Nat
<1> DEFINE f == t.nodes
           S == 1..(i - 1)
           p == t.prefix
<1>1. f \in Seq(Nat) /\ i \in 1..Len(f) /\ Len(f) \in Nat /\ p \in Nat
  OBVIOUS
<1> HIDE DEF f, p
<1>2. f[i] \in Nat /\ i - 1 \in Int /\ \A j \in S : f[j] \in Nat
  <2>1. \A j \in 1..Len(f) : f[j] \in Nat
    BY <1>1
  <2> DEFINE n == Len(f)
  <2>2. n \in Nat /\ i \in 1..n
    BY <1>1
  <2> HIDE DEF n
  <2>3. i - 1 \in Int /\ \A j \in S : j \in 1..n
    BY <2>2
  <2> QED BY <1>1, <2>1, <2>3 DEF n
<1>3. IsFiniteSet(S)
  <2> DEFINE n == i - 1
  <2>1. n \in Int /\ 1 \in Int
    BY <1>2
  <2> HIDE DEF n
  <2>2. IsFiniteSet(1..n)
    BY <2>1, FS_Interval
  <2> QED BY <2>2 DEF n
<1> HIDE DEF S
<1>4. SumFunctionOnSet(f, S) \in Nat
  BY <1>2, <1>3, SumNat
<1>5. 8 + p + SumFunctionOnSet(f, S) \in Nat
  BY <1>1, <1>4
<1> QED BY <1>2, <1>5 DEF NodeAt, S, f, p

LEMMA InnerWithin ==
  ASSUME NEW it, it.off \in Nat, it.len \in Nat, it.off + it.len <= page.bytes,
         page.bytes \in Nat, it.tuple.prefix \in Nat, it.tuple.nodes \in Seq(Nat),
         NEW r \in InnerShown(it)
  PROVE  r[2] <= page.bytes
<1> DEFINE t == it.tuple
           o == it.off
           n == it.len
           p == t.prefix
           b == page.bytes
<1>1. o \in Nat /\ n \in Nat /\ b \in Nat /\ o + n <= b /\ p \in Nat
  OBVIOUS
<1>2. \/ 8 + p <= n /\ r \in Formatted(o, 8 + p, "part")
      \/ \E i \in DOMAIN t.nodes : /\ NodeAt(t, i) + t.nodes[i] <= n
                                   /\ r \in Formatted(o + NodeAt(t, i), t.nodes[i], "part")
  BY DEF InnerShown, NodesWalked
<1> HIDE DEF t, o, n, p, b
<1>3. CASE 8 + p <= n /\ r \in Formatted(o, 8 + p, "part")
  <2>1. r = <<o, o + (8 + p), "part">>
    BY <1>3 DEF Formatted, Binary
  <2>2. r[2] = o + (8 + p)
    BY <2>1
  <2>3. r[2] <= b
    BY <1>1, <1>3, <2>2
  <2> QED BY <2>3 DEF b
<1>4. CASE \E i \in DOMAIN t.nodes : /\ NodeAt(t, i) + t.nodes[i] <= n
                                     /\ r \in Formatted(o + NodeAt(t, i), t.nodes[i], "part")
  <2>1. PICK i \in DOMAIN t.nodes : /\ NodeAt(t, i) + t.nodes[i] <= n
                                    /\ r \in Formatted(o + NodeAt(t, i), t.nodes[i], "part")
    BY <1>4
  <2> DEFINE a == NodeAt(t, i)
             c == t.nodes[i]
  <2>2. a \in Nat /\ c \in Nat
    <3>1. t.prefix \in Nat /\ t.nodes \in Seq(Nat)
      BY DEF t
    <3> QED BY <3>1, NodesAreNat
  <2>3. a + c <= n /\ r \in Formatted(o + a, c, "part")
    BY <2>1
  <2> HIDE DEF a, c
  <2>4. r = <<o + a, (o + a) + c, "part">>
    BY <2>3 DEF Formatted, Binary
  <2>5. r[2] = (o + a) + c
    BY <2>4
  <2>6. r[2] <= b
    BY <1>1, <2>2, <2>3, <2>5
  <2> QED BY <2>6 DEF b
<1> QED BY <1>2, <1>3, <1>4

(* The header, its line pointers and the meta data behind it.              *)
LEMMA HeaderWithin ==
  ASSUME page \in Pages, NEW r \in Formatted(0, HeaderBytes, "header")
  PROVE  Allowed(r)
<1> DEFINE b == page.bytes
           m == MaxOffset
           h == HeaderBytes
           s == MetaSize
<1>1. b \in Nat /\ m \in Nat /\ s \in {0, 48, 56} /\ Array = m * 4
  <2>1. m \in Nat /\ b \in Nat
    BY CountsAreNat, PagesAssumption
  <2>2. s \in {0, 48, 56}
    BY DEF MetaSize, BTMetaSize, GinMetaSize
  <2>3. Array = m * 4
    BY DEF Array, ItemIdSize
  <2> QED BY <2>1, <2>2, <2>3
<1>2. h = IF b < 24 THEN b ELSE IF HeaderCut THEN b + s ELSE 24 + m * 4 + s
  BY <1>1 DEF HeaderBytes, PageHeader, HeaderCut
<1>3. ~HeaderCut => 24 + m * 4 <= b
  <2> HIDE DEF m, b
  <2>1. ~HeaderCut => ~(b < 24 + m * 4)
    BY <1>1 DEF HeaderCut, PageHeader, b
  <2> QED BY <1>1, <2>1
<1>4. Sound /\ s > 0 => ~HeaderCut /\ 24 + m * 4 + s <= b
  <2> SUFFICES ASSUME Sound, s > 0 PROVE ~HeaderCut /\ 24 + m * 4 + s <= b
    OBVIOUS
  <2>1. ~HeaderCut /\ b = 8192
    BY HeaderIsSound DEF Sound, Whole, BlockSize
  <2>2. IsMetaPage
    BY DEF MetaSize, IsMetaPage
  <2>3. page.lower \in Nat /\ page.lower <= 24 + 68
    BY <2>2, PagesAssumption DEF Sound, PageHeader, SpGistMetaSize
  <2>4. m <= 17
    <3> DEFINE l == page.lower - 24
    <3>1. CASE page.lower <= 24
      BY <3>1 DEF MaxOffset, LinePointers, PageHeader
    <3>2. CASE ~(page.lower <= 24)
      <4>1. l \in 0..68 /\ m = l \div 4
        BY <2>3, <3>2 DEF MaxOffset, LinePointers, PageHeader, ItemIdSize
      <4> HIDE DEF l, m
      <4> QED BY <4>1
    <3> QED BY <3>1, <3>2
  <2> HIDE DEF m, s, b
  <2> QED BY <1>1, <2>1, <2>4
<1> HIDE DEF b, m, s
<1>5. r = <<0, 0 + h, "header">> /\ h \in Nat
  <2>1. h \in Nat
    BY <1>1, <1>2
  <2> HIDE DEF h
  <2>2. r \in Formatted(0, h, "header")
    BY DEF h
  <2> QED BY <2>1, <2>2 DEF Formatted, Binary
<1> HIDE DEF h
<1>6. r[2] = h /\ r[3] = "header"
  BY <1>5
<1>7. CASE s = 0
  <2>1. h <= b
    BY <1>1, <1>2, <1>3, <1>7
  <2> QED BY <1>6, <2>1 DEF Allowed, b
<1>8. CASE s > 0
  <2>1. Sound => h <= b
    BY <1>1, <1>2, <1>4, <1>8
  <2> QED BY <1>6, <1>8, <2>1 DEF Allowed, b, s
<1> QED BY <1>1, <1>7, <1>8

LEMMA WithinReadNext == WithinRead /\ [Next]_vars => WithinRead'
<1> SUFFICES ASSUME WithinRead, [Next]_vars PROVE WithinRead'
  OBVIOUS
<1>1. Walked /\ Walked' /\ page \in Pages /\ page' = page /\ options' = options
  BY WalkedNext, PageStays DEF WithinRead, Walked, Begun
<1>2. \A r : Allowed(r)' = Allowed(r)
  <2>1. Whole' = Whole /\ MetaSize' = MetaSize
    BY <1>1, StaticStays
  <2>2. Sound' = Sound
    BY <1>1, PremiseStays
  <2> QED BY <1>1, <2>1, <2>2 DEF Allowed
<1>3. page.bytes \in Nat
  BY <1>1, PagesAssumption
<1>4. \A r \in shown : Allowed(r)
  BY DEF WithinRead
<1> SUFFICES ASSUME NEW r \in shown', r \notin shown PROVE Allowed(r)
  BY <1>1, <1>2, <1>4 DEF WithinRead
<1>5. \A w : r \in Binary(0, page.bytes, w) => Allowed(r)
  <2> SUFFICES ASSUME NEW w, r \in Binary(0, page.bytes, w) PROVE Allowed(r)
    OBVIOUS
  <2>1. r = <<0, 0 + page.bytes, w>>
    BY DEF Binary
  <2>2. r[2] = 0 + page.bytes
    BY <2>1
  <2> QED BY <1>3, <2>2 DEF Allowed
<1>6. CASE FormatBlock
  BY <1>5, <1>6 DEF FormatBlock
<1>7. CASE FormatControl
  BY <1>5, <1>7 DEF FormatControl
<1>8. CASE FormatHeader
  BY <1>1, <1>8, HeaderWithin DEF FormatHeader
<1>9. CASE FormatOneItem
  <2> DEFINE o == Item.off
             n == Item.len
             b == page.bytes
  <2>1. x \in DOMAIN page.items
    <3>1. pc = "item" /\ x <= MaxOffset /\ x \in Nat \ {0} /\ ~HeaderCut
      BY <1>1, <1>9 DEF FormatOneItem, AtItem, Walked
    <3>2. MaxOffset \in Nat
      BY <1>1, CountsAreNat
    <3>3. Len(page.items) = MaxOffset
      BY <1>1, <3>1, AllPointersRead
    <3>4. DOMAIN page.items = 1..MaxOffset
      BY <1>1, <3>3, PagesAssumption
    <3> HIDE DEF MaxOffset
    <3> QED BY <3>1, <3>2, <3>4
  <2>2. o \in Nat /\ n \in Nat /\ o + n <= b /\ b \in Nat
    <3>1. o + n <= b
      BY <1>9 DEF FormatOneItem, Fits
    <3> QED BY <1>1, <1>3, <2>1, <3>1, PagesAssumption DEF Item
  <2>3. \/ r \in Formatted(o, n, "item")
        \/ Item.tuple.form = "inner" /\ r \in InnerShown(Item)
    BY <1>9 DEF FormatOneItem, FormatItem
  <2>4. CASE r \in Formatted(o, n, "item")
    <3> HIDE DEF o, n, b
    <3>1. r = <<o, o + n, "item">>
      BY <2>4 DEF Formatted, Binary
    <3>2. r[2] = o + n
      BY <3>1
    <3> QED BY <2>2, <3>2 DEF Allowed, b
  <2>5. CASE Item.tuple.form = "inner" /\ r \in InnerShown(Item)
    <3>1. Item.tuple.prefix \in Nat /\ Item.tuple.nodes \in Seq(Nat)
      BY <1>1, <2>1, <2>5, PagesAssumption DEF Item
    <3>2. r[2] <= page.bytes
      BY <2>2, <2>5, <3>1, InnerWithin
    <3> QED BY <3>2 DEF Allowed
  <2> QED BY <2>3, <2>4, <2>5
<1>10. CASE ItemBeyond \/ ItemUnused \/ EndItems \/ GinListing \/ Done \/ UNCHANGED vars
  BY <1>10 DEF ItemBeyond, ItemUnused, EndItems, GinListing, Done, vars
<1>11. CASE FormatSpecial
  <2> DEFINE s == page.special
  <2>1. r \in Formatted(s, SpecialSize, "special")
    BY <1>11 DEF FormatSpecial
  <2>2. s \in Nat /\ SpecialSize = 8192 - s
    BY <1>1, PagesAssumption DEF SpecialSize, BlockSize
  <2> HIDE DEF s
  <2>3. r = <<s, s + (8192 - s), "special">>
    BY <2>1, <2>2 DEF Formatted, Binary
  <2>4. r[2] = 8192 /\ r[3] = "special"
    BY <2>2, <2>3
  <2> QED BY <2>4 DEF Allowed, Whole, BlockSize
<1> QED BY <1>6, <1>7, <1>8, <1>9, <1>10, <1>11 DEF Next

(* No byte is shown that was not read, but of the two kinds of pages the   *)
(* property names, for every page and all options.                         *)
THEOREM NothingElseShown == Spec => []InsideRead
<1>1. Init => WithinRead
  BY WalkedInit DEF Init, WithinRead
<1>2. WithinRead => InsideRead
  <2> SUFFICES ASSUME WithinRead PROVE InsideRead
    OBVIOUS
  <2> DEFINE m == MaxOffset
  <2>1. Walked /\ page \in Pages
    BY DEF WithinRead, Walked, Begun
  <2>2. page.bytes \in 0..BlockSize /\ m \in Nat
    BY <2>1, CountsAreNat
  <2>3. /\ x \in Nat \ {0} /\ pc \in Pcs
        /\ specialType # "gin" => x <= m + 1
        /\ SegmentPc => seg \in 1..(Len(page.gin.segs) + 1)
    BY <2>1 DEF Walked
  <2>4. specialType # "gin" => x \in 1..(m + 1)
    <3> HIDE DEF m
    <3> QED BY <2>2, <2>3
  <2>5. TypeOK
    BY <2>2, <2>3, <2>4 DEF TypeOK, Pcs, GinPcs, Plain, SegmentPc
  <2> QED BY <2>5 DEF WithinRead, InsideRead, Allowed
<1> QED BY <1>1, <1>2, WithinReadNext, PTL DEF Spec

-------------------------------------------------------------------------------
(* What has been shown, with -f and without -i, of a page with line        *)
(* pointers as the server writes it: the header, the tuples walked so far, *)
(* and at the end the special section.                                     *)
Plainly == /\ options.mode = "format" /\ options.format /\ ~options.detail
           /\ Sound /\ page.content = "pointers" /\ page.kind # "gin"
TupleRange(i) == <<page.items[i].off, page.items[i].off + page.items[i].len, "item">>
KeptAmong(n) == {i \in 1..n : HasTuple(page.items[i])}
TupleRanges(n) == {TupleRange(i) : i \in KeptAmong(n)}
HeaderRange == <<0, page.lower, "header">>
SpecialRanges == Binary(page.special, SpecialSize, "special")

Once ==
  /\ Walked
  /\ Plainly =>
       /\ pc = "item" => shown = {HeaderRange} \cup TupleRanges(x - 1)
       /\ pc = "special" => shown = {HeaderRange} \cup TupleRanges(Len(page.items))
       /\ pc = "done" =>
            shown = {HeaderRange} \cup TupleRanges(Len(page.items)) \cup SpecialRanges

(* The numbers of such a page.                                             *)
LEMMA PlainPage ==
  ASSUME page \in Pages, Plainly
  PROVE  /\ page.lower \in Nat /\ page.upper \in Nat /\ page.special \in Nat
         /\ 24 <= page.lower /\ page.lower <= page.upper /\ page.upper <= page.special
         /\ page.special <= 8192 /\ page.bytes = 8192 /\ SpecialSize = 8192 - page.special
         /\ Len(page.items) \in Nat /\ DOMAIN page.items = 1..Len(page.items)
         /\ MaxOffset = Len(page.items) /\ page.lower = 24 + 4 * Len(page.items)
         /\ ~HeaderCut /\ ~IsMetaPage /\ MetaSize = 0
         /\ GetSpecialSectionType \notin {"gin", "unknown", "boundary"}
         /\ GetSpecialSectionType = "none" => SpecialSize = 0
<1>1. Sound /\ page.content = "pointers" /\ page.kind # "gin"
  BY DEF Plainly
<1>2. /\ page.lower \in Nat /\ page.upper \in Nat /\ page.special \in Nat
      /\ Len(page.items) \in Nat /\ DOMAIN page.items = 1..Len(page.items)
      /\ page.kind \in {"heap", "sequence", "btree", "hash", "gist", "spgist"}
  BY <1>1, PagesAssumption DEF Sound
<1>3. /\ 24 <= page.lower /\ page.lower <= page.upper /\ page.upper <= page.special
      /\ page.bytes = 8192 /\ SpecialSize = Section /\ SpecialSize = 8192 - page.special
      /\ page.lower = 24 + 4 * Len(page.items)
  BY <1>1 DEF Sound, Whole, SpecialSize, BlockSize, PageHeader, ItemIdSize
<1>4. Section \in Nat
  <2>1. MAXALIGN(4) \in Nat /\ MAXALIGN(8) \in Nat /\ MAXALIGN(16) \in Nat
    BY Alignments, AlignAssumption
  <2> QED BY <1>2, <2>1 DEF Section
<1>5. page.special <= 8192
  BY <1>2, <1>3, <1>4
<1>6. ~HeaderCut /\ MaxOffset = Len(page.items)
  BY <1>1, HeaderIsSound
<1>7. ~IsMetaPage /\ MetaSize = 0
  <2>1. ~IsMetaPage
    BY <1>1 DEF Sound
  <2> QED BY <2>1 DEF IsMetaPage, MetaSize
<1>8. \/ GetSpecialSectionType = page.kind
      \/ page.kind = "heap" /\ GetSpecialSectionType = "none"
  <2>1. GetSpecialSectionType = TrueType /\ ~Misread
    BY <1>1, TypeIsTold DEF Misread
  <2>2. CASE page.kind = "heap"
    BY <2>1, <2>2 DEF TrueType
  <2>3. CASE page.kind # "heap"
    BY <2>1, <2>3 DEF TrueType
  <2> QED BY <2>2, <2>3
<1>9. page.kind = "heap" => Section = 0
  BY DEF Section
<1> QED BY <1>2, <1>3, <1>5, <1>6, <1>7, <1>8, <1>9

(* Where its tuples are.                                                   *)
LEMMA PlainItem ==
  ASSUME page \in Pages, Plainly, NEW i \in DOMAIN page.items
  PROVE  /\ page.items[i].off \in Nat /\ page.items[i].len \in Nat
         /\ Fits(page.items[i])
         /\ HasTuple(page.items[i]) => /\ page.items[i].len > 0
                                       /\ page.upper <= page.items[i].off
                                       /\ page.items[i].off + page.items[i].len <= page.special
<1> DEFINE o == page.items[i].off
           n == page.items[i].len
<1>1. o \in Nat /\ n \in Nat /\ SoundItem(page.items[i])
  BY PagesAssumption DEF Plainly, Sound
<1>2. \/ HasTuple(page.items[i]) /\ page.upper <= o /\ o + n <= page.special
      \/ ~HasTuple(page.items[i]) /\ n = 0 /\ o <= 8192
  BY <1>1 DEF SoundItem, BlockSize
<1>3. HasTuple(page.items[i]) => n > 0
  BY DEF HasTuple
<1>4. page.special <= 8192 /\ page.bytes = 8192 /\ page.special \in Nat
  BY PlainPage
<1> HIDE DEF o, n
<1>5. o + n <= 8192
  BY <1>1, <1>2, <1>4
<1>6. Fits(page.items[i])
  BY <1>4, <1>5 DEF Fits, BlockSize, o, n
<1> QED BY <1>1, <1>2, <1>3, <1>6 DEF o, n

LEMMA OnceNext == Once /\ [Next]_vars => Once'
<1> SUFFICES ASSUME Once, [Next]_vars PROVE Once'
  OBVIOUS
<1> DEFINE l == Len(page.items)
<1>1. Walked /\ Walked' /\ page \in Pages /\ page' = page /\ options' = options
  BY WalkedNext, PageStays DEF Once, Walked, Begun
<1>2. /\ Plainly' = Plainly /\ HeaderRange' = HeaderRange /\ SpecialRanges' = SpecialRanges
      /\ TupleRanges(x - 1)' = TupleRanges(x' - 1)
      /\ TupleRanges(Len(page.items))' = TupleRanges(Len(page.items))
  <2>1. Sound' = Sound
    BY <1>1, PremiseStays
  <2> QED BY <1>1, <2>1 DEF Plainly, HeaderRange, SpecialRanges, SpecialSize, Binary, TupleRanges,
                            KeptAmong, TupleRange, HasTuple
<1> SUFFICES ASSUME Plainly
             PROVE  /\ pc' = "item" => shown' = {HeaderRange} \cup TupleRanges(x' - 1)
                    /\ pc' = "special" => shown' = {HeaderRange} \cup TupleRanges(l)
                    /\ pc' = "done" => shown' = {HeaderRange} \cup TupleRanges(l) \cup SpecialRanges
  BY <1>1, <1>2 DEF Once
<1>3. /\ pc = "item" => shown = {HeaderRange} \cup TupleRanges(x - 1)
      /\ pc = "special" => shown = {HeaderRange} \cup TupleRanges(l)
      /\ pc = "done" => shown = {HeaderRange} \cup TupleRanges(l) \cup SpecialRanges
  BY DEF Once
<1>4. options.mode = "format" /\ options.format /\ ~options.detail
  BY DEF Plainly
<1>5. /\ x \in Nat \ {0} /\ pc \in Pcs
      /\ pc = "header" => x = 1 /\ shown = {}
      /\ pc \in GinPcs => specialType = "gin"
      /\ pc # "block" => specialType = GetSpecialSectionType
  BY <1>1, <1>4 DEF Walked, Begun
<1>6. /\ l \in Nat /\ MaxOffset = l /\ ~HeaderCut /\ ~IsMetaPage
      /\ GetSpecialSectionType \notin {"gin", "unknown", "boundary"}
      /\ GetSpecialSectionType = "none" => SpecialSize = 0
  BY <1>1, PlainPage
<1>7. pc # "block" => pc \notin GinPcs
  BY <1>5, <1>6
<1>8. CASE FormatBlock \/ FormatControl
  BY <1>4, <1>8 DEF FormatBlock, FormatControl
<1>9. CASE FormatHeader
  <2>1. pc = "header" /\ pc' = "item" /\ x' = 1 /\ shown' = Formatted(0, HeaderBytes, "header")
    BY <1>5, <1>6, <1>9 DEF FormatHeader
  <2>2. HeaderBytes = page.lower
    <3>1. /\ page.lower \in Nat /\ page.lower = 24 + 4 * l /\ MetaSize = 0 /\ page.bytes = 8192
      BY <1>1, PlainPage
    <3>2. HeaderBytes = 24 + MaxOffset * 4 + 0
      BY <1>6, <3>1 DEF HeaderBytes, PageHeader, Array, ItemIdSize
    <3> HIDE DEF l
    <3> QED BY <1>6, <3>1, <3>2
  <2>3. Formatted(0, page.lower, "header") = {HeaderRange}
    <3>1. page.lower > 0 /\ 0 + page.lower = page.lower
      BY <1>1, PlainPage
    <3> QED BY <1>4, <3>1 DEF Formatted, Binary, HeaderRange
  <2>4. TupleRanges(x' - 1) = {}
    BY <2>1 DEF TupleRanges, KeptAmong
  <2> QED BY <2>1, <2>2, <2>3, <2>4
<1>10. CASE ItemBeyond \/ ItemUnused \/ FormatOneItem
  <2>1. pc = "item" /\ x <= l /\ x' = x + 1 /\ pc' = pc
    BY <1>6, <1>10 DEF ItemBeyond, ItemUnused, FormatOneItem, AtItem
  <2>2. x \in DOMAIN page.items
    <3>1. DOMAIN page.items = 1..l
      BY <1>1, PlainPage
    <3> HIDE DEF l
    <3> QED BY <1>5, <1>6, <2>1, <3>1
  <2>3. Item.off \in Nat /\ Item.len \in Nat /\ Fits(Item)
    BY <1>1, <2>2, PlainItem DEF Item
  <2>4. TupleRanges(x' - 1) =
          TupleRanges(x - 1) \cup (IF HasTuple(Item) THEN {TupleRange(x)} ELSE {})
    <3> DEFINE n == x - 1
    <3>1. n \in Nat /\ x = n + 1 /\ x' - 1 = n + 1
      BY <1>5, <2>1
    <3> HIDE DEF n
    <3>2. 1..(n + 1) = 1..n \cup {n + 1}
      BY <3>1
    <3>3. KeptAmong(n + 1) = KeptAmong(n) \cup (IF HasTuple(Item) THEN {x} ELSE {})
      BY <3>1, <3>2 DEF KeptAmong, Item
    <3>4. TupleRanges(n + 1) = TupleRanges(n) \cup (IF HasTuple(Item) THEN {TupleRange(x)} ELSE {})
      BY <3>3 DEF TupleRanges
    <3> QED BY <3>1, <3>4 DEF n
  <2>5. shown' = shown \cup (IF HasTuple(Item) THEN {TupleRange(x)} ELSE {})
    <3>1. CASE ItemUnused
      BY <3>1 DEF ItemUnused, HasTuple
    <3>2. CASE FormatOneItem
      <4>1. shown' = shown \cup Formatted(Item.off, Item.len, "item") /\ Item.lp # "unused"
        BY <1>4, <3>2 DEF FormatOneItem, FormatItem
      <4>2. Formatted(Item.off, Item.len, "item")
              = IF Item.len > 0 THEN {TupleRange(x)} ELSE {}
        BY <1>4 DEF Formatted, Binary, TupleRange, Item
      <4> QED BY <4>1, <4>2 DEF HasTuple
    <3> QED BY <1>10, <2>3, <3>1, <3>2 DEF ItemBeyond
  <2> QED BY <1>3, <2>1, <2>4, <2>5
<1>11. CASE EndItems
  <2>1. pc = "item" /\ pc' = "special" /\ x > l /\ shown' = shown
    BY <1>6, <1>11 DEF EndItems
  <2>2. x - 1 = l
    <3>1. specialType # "gin" => x <= MaxOffset + 1
      BY <1>1 DEF Walked
    <3>2. x <= l + 1
      BY <1>5, <1>6, <2>1, <3>1
    <3> HIDE DEF l
    <3> QED BY <1>5, <1>6, <2>1, <3>2
  <2> QED BY <1>3, <2>1, <2>2
<1>12. CASE FormatSpecial
  <2>1. /\ pc = "special" /\ pc' = "done"
        /\ shown' = IF specialType = "none" THEN shown
                    ELSE shown \cup Formatted(page.special, SpecialSize, "special")
    BY <1>5, <1>6, <1>12 DEF FormatSpecial
  <2>2. Formatted(page.special, SpecialSize, "special") = SpecialRanges
    BY <1>4 DEF Formatted, SpecialRanges
  <2>3. specialType = "none" => SpecialRanges = {}
    BY <1>5, <1>6, <2>1 DEF SpecialRanges, Binary
  <2> QED BY <1>3, <2>1, <2>2, <2>3
<1>13. CASE GinListing
  <2>1. pc \in GinPcs /\ pc # "block"
    BY <1>13 DEF GinListing, GinStep, StartGin, FirstOfSegment, NextOfSegment, EndOfSegment,
                 PrintTuple, EntryTuple, PlainEntry, EndGin, GinPcs, Plain
  <2> QED BY <1>7, <2>1
<1>14. CASE Done \/ UNCHANGED vars
  BY <1>3, <1>14 DEF Done, vars
<1> QED BY <1>8, <1>9, <1>10, <1>11, <1>12, <1>13, <1>14 DEF Next

(* The tuples of such a page do not overlap, and are behind the header and *)
(* in front of the special section.                                        *)
LEMMA PlainlyApart ==
  ASSUME page \in Pages, Plainly,
         NEW r \in {HeaderRange} \cup TupleRanges(Len(page.items)) \cup SpecialRanges,
         NEW s \in {HeaderRange} \cup TupleRanges(Len(page.items)) \cup SpecialRanges
  PROVE  r = s \/ r[2] <= s[1] \/ s[2] <= r[1]
<1> DEFINE l == page.lower
           e == page.special
           it(i) == page.items[i]
<1>1. l \in Nat /\ e \in Nat /\ page.upper \in Nat /\ l <= page.upper /\ page.upper <= e
  BY PlainPage
<1>2. DOMAIN page.items = 1..Len(page.items)
  BY PlainPage
<1>3. l <= e
  BY <1>1
<1>4. ASSUME NEW t \in TupleRanges(Len(page.items))
      PROVE  l <= t[1] /\ t[2] <= e
  <2>1. PICK i \in DOMAIN page.items : HasTuple(it(i)) /\ t = TupleRange(i)
    BY <1>2 DEF TupleRanges, KeptAmong
  <2>2. it(i).off \in Nat /\ page.upper <= it(i).off /\ it(i).off + it(i).len <= e
    BY <2>1, PlainItem
  <2>3. t[1] = it(i).off /\ t[2] = it(i).off + it(i).len
    BY <2>1 DEF TupleRange
  <2> QED BY <1>1, <2>2, <2>3
<1>5. ASSUME NEW t \in SpecialRanges
      PROVE  t = <<e, e + SpecialSize, "special">> /\ t[1] = e
  BY DEF SpecialRanges, Binary
<1>6. HeaderRange[1] = 0 /\ HeaderRange[2] = l
  BY DEF HeaderRange
<1>7. ASSUME NEW t \in TupleRanges(Len(page.items)), NEW u \in TupleRanges(Len(page.items))
      PROVE  t = u \/ t[2] <= u[1] \/ u[2] <= t[1]
  <2>1. PICK i \in DOMAIN page.items : HasTuple(it(i)) /\ t = TupleRange(i)
    BY <1>2 DEF TupleRanges, KeptAmong
  <2>2. PICK j \in DOMAIN page.items : HasTuple(it(j)) /\ u = TupleRange(j)
    BY <1>2 DEF TupleRanges, KeptAmong
  <2>3. CASE i = j
    BY <2>1, <2>2, <2>3
  <2>4. CASE i # j
    <3>1. Apart(it(i), it(j))
      BY <2>4 DEF Plainly, Sound
    <3>2. it(i).off + it(i).len <= it(j).off \/ it(j).off + it(j).len <= it(i).off
      BY <2>1, <2>2, <3>1 DEF Apart
    <3> QED BY <2>1, <2>2, <3>2 DEF TupleRange
  <2> QED BY <2>3, <2>4
<1> HIDE DEF l, e
<1>8. CASE r = HeaderRange
  <2>1. s = HeaderRange \/ l <= s[1]
    BY <1>3, <1>4, <1>5
  <2> QED BY <1>6, <1>8, <2>1
<1>9. CASE s = HeaderRange
  <2>1. r = HeaderRange \/ l <= r[1]
    BY <1>3, <1>4, <1>5
  <2> QED BY <1>6, <1>9, <2>1
<1>10. CASE r \in TupleRanges(Len(page.items))
  BY <1>4, <1>5, <1>7, <1>9, <1>10
<1>11. CASE r \in SpecialRanges
  BY <1>4, <1>5, <1>9, <1>11
<1> QED BY <1>8, <1>10, <1>11

(* How many bytes they are.                                                *)
LEMMA PlainlySized ==
  ASSUME page \in Pages, Plainly, NEW R,
         R = {HeaderRange} \cup TupleRanges(Len(page.items)) \cup SpecialRanges
  PROVE  Size(R) = page.lower + SpecialSize
                   + SumFunctionOnSet([i \in DOMAIN page.items |-> page.items[i].len],
                                      {i \in DOMAIN page.items : HasTuple(page.items[i])})
<1> DEFINE K == {i \in DOMAIN page.items : HasTuple(page.items[i])}
           T == TupleRanges(Len(page.items))
           f == [i \in DOMAIN page.items |-> page.items[i].len]
           g == [r \in R |-> r[2] - r[1]]
           p == [i \in K |-> TupleRange(i)]
           n == Len(page.items)
           l == page.lower
           e == page.special
<1>1. n \in Nat /\ DOMAIN page.items = 1..n /\ l \in Nat /\ e \in Nat /\ e <= 8192
      /\ SpecialSize = 8192 - e
  BY PlainPage
<1>2. K = KeptAmong(n) /\ T = {p[i] : i \in K} /\ T \subseteq R
  <2>1. K = KeptAmong(n)
    BY <1>1 DEF KeptAmong
  <2>2. T = {TupleRange(i) : i \in K}
    BY <2>1 DEF TupleRanges
  <2> HIDE DEF K
  <2>3. T = {p[i] : i \in K}
    BY <2>2
  <2> QED BY <2>1, <2>3
<1>3. IsFiniteSet(K)
  <2>1. IsFiniteSet(1..n)
    <3> HIDE DEF n
    <3> QED BY <1>1, FS_Interval
  <2>2. K \subseteq 1..n
    BY <1>1
  <2> HIDE DEF K
  <2> QED BY <2>1, <2>2, FS_Subset
<1>4. ASSUME NEW i \in K
      PROVE  /\ f[i] \in Nat /\ f[i] > 0 /\ page.items[i].off \in Nat
             /\ p[i] = <<page.items[i].off, page.items[i].off + f[i], "item">> /\ p[i] \in R
  <2>1. /\ page.items[i].off \in Nat /\ page.items[i].len \in Nat /\ page.items[i].len > 0
    BY PlainItem
  <2>2. p[i] = <<page.items[i].off, page.items[i].off + f[i], "item">> /\ p[i] \in R
    BY <1>2 DEF TupleRange
  <2> QED BY <2>1, <2>2
<1>5. ASSUME NEW i \in K PROVE f[i] \in Int /\ g[p[i]] = f[i]
  <2> DEFINE a == page.items[i].off
             b == f[i]
  <2>1. a \in Nat /\ b \in Nat /\ p[i] = <<a, a + b, "item">> /\ p[i] \in R
    BY <1>4
  <2> HIDE DEF a, b
  <2>2. p[i][1] = a /\ p[i][2] = a + b
    BY <2>1
  <2>3. g[p[i]] = (a + b) - a
    BY <2>1, <2>2
  <2> HIDE DEF p, g
  <2>4. g[p[i]] = b
    BY <2>1, <2>3
  <2> QED BY <2>1, <2>4 DEF b
<1>6. ASSUME NEW i \in K, NEW j \in K, p[i] = p[j] PROVE i = j
  <2> SUFFICES ASSUME i # j PROVE FALSE
    OBVIOUS
  <2> DEFINE a == page.items[i].off
             b == page.items[i].len
             c == page.items[j].off
             d == page.items[j].len
  <2>1. a \in Nat /\ b \in Nat /\ b > 0 /\ c \in Nat /\ d \in Nat /\ d > 0
    BY <1>4
  <2>2. Apart(page.items[i], page.items[j])
    BY DEF Plainly, Sound
  <2>3. a + b <= c \/ c + d <= a
    BY <2>2 DEF Apart
  <2>4. p[i][1] = a /\ p[j][1] = c
    <3>1. p[i] = <<a, a + f[i], "item">> /\ p[j] = <<c, c + f[j], "item">>
      BY <1>4
    <3> HIDE DEF p, f, a, c
    <3> QED BY <3>1
  <2>5. a = c
    BY <1>6, <2>4
  <2> HIDE DEF a, b, c, d
  <2> QED BY <2>1, <2>3, <2>5
<1>7. HeaderRange \notin T /\ SpecialRanges \cap T = {} /\ HeaderRange \notin SpecialRanges
  <2>1. HeaderRange[3] = "header" /\ \A r \in SpecialRanges : r[3] = "special"
    BY DEF HeaderRange, SpecialRanges, Binary
  <2>2. \A r \in T : r[3] = "item"
    BY DEF TupleRanges, TupleRange
  <2> HIDE DEF T
  <2> QED BY <2>1, <2>2
<1>8. g[HeaderRange] = l
  <2>1. HeaderRange \in R /\ HeaderRange = <<0, l, "header">>
    BY DEF HeaderRange
  <2>2. g[HeaderRange] = l - 0
    BY <2>1
  <2> HIDE DEF g, l
  <2> QED BY <1>1, <2>2
<1>9. IsFiniteSet(SpecialRanges) /\ (\A r \in SpecialRanges : g[r] \in Int)
      /\ SumFunctionOnSet(g, SpecialRanges) = SpecialSize
  <2>1. CASE SpecialSize > 0
    <3> DEFINE r == <<e, e + SpecialSize, "special">>
    <3>1. SpecialRanges = {r}
      BY <2>1 DEF SpecialRanges, Binary
    <3>2. r \in R /\ r[1] = e /\ r[2] = e + SpecialSize
      BY <3>1
    <3>3. g[r] = (e + SpecialSize) - e
      BY <3>2
    <3> HIDE DEF r, g, e
    <3>4. g[r] = SpecialSize /\ SpecialSize \in Int
      BY <1>1, <3>3
    <3>5. IsFiniteSet({r}) /\ IsFiniteSet({}) /\ {} \cup {r} = {r}
      BY FS_Singleton, FS_EmptySet
    <3>6. SumFunctionOnSet(g, {} \cup {r}) = g[r] + SumFunctionOnSet(g, {})
      <4>1. r \notin {} /\ \A y \in {} \cup {r} : g[y] \in Int
        BY <3>4
      <4> QED BY <3>5, <4>1, SumAdd
    <3>7. SumFunctionOnSet(g, {r}) = SpecialSize + 0
      BY <3>4, <3>5, <3>6, SumEmpty
    <3> QED BY <1>1, <3>1, <3>4, <3>5, <3>7
  <2>2. CASE ~(SpecialSize > 0)
    <3> HIDE DEF e
    <3>1. SpecialRanges = {} /\ SpecialSize = 0
      BY <1>1, <2>2 DEF SpecialRanges, Binary
    <3> HIDE DEF g
    <3> QED BY <3>1, FS_EmptySet, SumEmpty
  <2> QED BY <2>1, <2>2
<1> HIDE DEF K, T, f, g, p, n, l, e
<1>10. IsFiniteSet(T) /\ SumFunctionOnSet(g, T) = SumFunctionOnSet(f, K)
  BY <1>2, <1>3, <1>5, <1>6, SumImage
<1>11. \A r \in T : g[r] \in Int
  BY <1>2, <1>5
<1> DEFINE U == T \cup SpecialRanges
<1>12. IsFiniteSet(U) /\ HeaderRange \notin U /\ R = U \cup {HeaderRange}
  BY <1>7, <1>9, <1>10, FS_Union DEF T
<1>13. SumFunctionOnSet(g, U) = SumFunctionOnSet(g, T) + SumFunctionOnSet(g, SpecialRanges)
  <2>1. T \cap SpecialRanges = {} /\ \A r \in T \cup SpecialRanges : g[r] \in Int
    BY <1>7, <1>9, <1>11
  <2> QED BY <1>9, <1>10, <2>1, SumUnion
<1>14. \A r \in U \cup {HeaderRange} : g[r] \in Int
  BY <1>1, <1>8, <1>9, <1>11
<1> HIDE DEF U
<1>15. SumFunctionOnSet(g, R) = g[HeaderRange] + SumFunctionOnSet(g, U)
  BY <1>12, <1>14, SumAdd
<1>16. SumFunctionOnSet(f, K) \in Int
  BY <1>3, <1>5, SumType
<1>17. SumFunctionOnSet(g, R) = l + SpecialSize + SumFunctionOnSet(f, K)
  <2> DEFINE c == SumFunctionOnSet(f, K)
             d == SpecialSize
  <2>1. SumFunctionOnSet(g, R) = l + (c + d) /\ c \in Int /\ d \in Int /\ l \in Int
    BY <1>1, <1>8, <1>9, <1>10, <1>13, <1>15, <1>16
  <2> HIDE DEF c, d
  <2>2. SumFunctionOnSet(g, R) = l + d + c
    BY <2>1
  <2> QED BY <2>2 DEF c, d
<1>18. Size(R) = SumFunctionOnSet(g, R)
  BY DEF Size, g
<1> QED BY <1>17, <1>18 DEF l, f, K

(* With -f, of a page with line pointers that is as the server writes it,  *)
(* the header, every tuple and the special section are shown once and      *)
(* nothing else is, however many tuples it has.                            *)
THEOREM ShownOnceOnly == Spec => []ShownOnce
<1>1. Init => Once
  BY WalkedInit DEF Init, Once
<1>2. Once => ShownOnce
  <2> SUFFICES ASSUME Once, Interpreted, Plainly
               PROVE  /\ \A r, s \in shown : r = s \/ r[2] <= s[1] \/ s[2] <= r[1]
                      /\ Size(shown) = page.lower + SpecialSize
                           + SumFunctionOnSet([i \in DOMAIN page.items |-> page.items[i].len],
                                              {i \in DOMAIN page.items : HasTuple(page.items[i])})
    BY DEF ShownOnce, Plainly, Interpreted
  <2>1. page \in Pages
        /\ shown = {HeaderRange} \cup TupleRanges(Len(page.items)) \cup SpecialRanges
    BY DEF Once, Walked, Begun, Interpreted
  <2>2. \A r, s \in shown : r = s \/ r[2] <= s[1] \/ s[2] <= r[1]
    BY <2>1, PlainlyApart
  <2> QED BY <2>1, <2>2, PlainlySized
<1> QED BY <1>1, <1>2, OnceNext, PTL DEF Spec

-------------------------------------------------------------------------------
(* The first i sequences of s put together.                                *)
Joined(s, i) == FlattenSeq(SubSeq(s, 1, i))

(* One after the other, as FlattenSeq does.                                *)
Joins(h, s, S) == /\ h \in [0..Len(s) -> Seq(S)] /\ h[0] = <<>>
                  /\ \A i \in 1..Len(s) : h[i] = h[i - 1] \o s[i]

LEMMA JoinsExists ==
  ASSUME NEW S, NEW s \in Seq(Seq(S))
  PROVE  \E h : Joins(h, s, S)
<1> DEFINE n == Len(s)
           A == Seq(S)
           g == [p \in A \X (1..n) |-> p[1] \o s[p[2]]]
<1>1. n \in Nat /\ <<>> \in A /\ \A i \in 1..n : s[i] \in A
  OBVIOUS
<1>2. g \in [A \X (1..n) -> A]
  <2> SUFFICES ASSUME NEW p \in A \X (1..n) PROVE p[1] \o s[p[2]] \in A
    OBVIOUS
  <2> HIDE DEF A, n
  <2>1. p[1] \in A /\ s[p[2]] \in A
    BY <1>1
  <2> QED BY <2>1 DEF A
<1>3. \A a \in A : \A i \in 1..n : g[<<a, i>>] = a \o s[i]
  OBVIOUS
<1> HIDE DEF n, A, g
<1>4. PICK h : Recurs(h, n, A, <<>>, g)
  BY <1>1, <1>2, Recursion
<1>5. h \in [0..n -> A] /\ h[0] = <<>> /\ \A i \in 1..n : h[i] = g[<<h[i - 1], i>>]
  BY <1>4 DEF Recurs
<1>6. ASSUME NEW i \in 1..n PROVE h[i] = h[i - 1] \o s[i]
  <2>1. i - 1 \in 0..n
    BY <1>1
  <2>2. h[i - 1] \in A
    BY <1>5, <2>1
  <2> QED BY <1>3, <1>5, <2>2
<1> QED BY <1>5, <1>6 DEF Joins, n, A

LEMMA JoinsIsFlat ==
  ASSUME NEW S, NEW s \in Seq(Seq(S)), NEW h, Joins(h, s, S)
  PROVE  FlattenSeq(s) = h[Len(s)]
<1> DEFINE n == Len(s)
           flat == CHOOSE f : f = [i \in 1..n |-> IF i = 1 THEN s[i] ELSE f[i - 1] \o s[i]]
           k == [i \in 1..n |-> h[i]]
<1>1. n \in Nat /\ (\A i \in 1..n : s[i] \in Seq(S)) /\ (n = 0 => s = <<>>)
  OBVIOUS
<1>2. h[0] = <<>> /\ \A i \in 1..n : h[i] = h[i - 1] \o s[i]
  BY DEF Joins
<1>3. FlattenSeq(s) = IF n = 0 THEN s ELSE flat[n]
  BY DEF FlattenSeq
<1> HIDE DEF n
<1>4. ASSUME NEW i \in 1..n PROVE k[i] = IF i = 1 THEN s[i] ELSE k[i - 1] \o s[i]
  <2>1. CASE i = 1
    <3>1. h[1] = <<>> \o s[1] /\ s[1] \in Seq(S)
      <4>1. 1 \in 1..n /\ 1 - 1 = 0
        BY <2>1
      <4> QED BY <1>1, <1>2, <4>1
    <3>2. <<>> \o s[1] = s[1]
      BY <3>1, ConcatEmptySeq
    <3> QED BY <2>1, <3>1, <3>2
  <2>2. CASE i # 1
    <3>1. i - 1 \in 1..n
      BY <1>1, <2>2
    <3> QED BY <1>2, <2>2, <3>1
  <2> QED BY <2>1, <2>2
<1>5. k = [i \in 1..n |-> IF i = 1 THEN s[i] ELSE k[i - 1] \o s[i]]
  BY <1>4
<1> HIDE DEF k
<1>6. flat = [i \in 1..n |-> IF i = 1 THEN s[i] ELSE flat[i - 1] \o s[i]]
  BY <1>5
<1> HIDE DEF flat
<1>7. ASSUME NEW m \in 1..n PROVE flat[m] = h[m]
  <2> DEFINE P == {i \in 0..n : i = 0 \/ flat[i] = h[i]}
  <2>1. 0 \in P
    BY <1>1
  <2>2. ASSUME NEW i \in 0..(n - 1), i \in P PROVE i + 1 \in P
    <3>1. i + 1 \in 1..n /\ (i + 1) - 1 = i
      BY <1>1
    <3>2. flat[i + 1] = IF i + 1 = 1 THEN s[i + 1] ELSE flat[i] \o s[i + 1]
      BY <1>6, <3>1
    <3>3. h[i + 1] = h[i] \o s[i + 1] /\ s[i + 1] \in Seq(S)
      BY <1>1, <1>2, <3>1
    <3>4. CASE i = 0
      <4>1. h[i] = <<>> /\ <<>> \o s[i + 1] = s[i + 1]
        BY <1>2, <3>3, <3>4, ConcatEmptySeq
      <4>2. flat[i + 1] = h[i + 1]
        BY <3>2, <3>3, <3>4, <4>1
      <4> QED BY <3>1, <4>2
    <3>5. CASE i # 0
      <4>1. flat[i] = h[i] /\ i + 1 # 1
        BY <2>2, <3>5
      <4>2. flat[i + 1] = h[i + 1]
        BY <3>2, <3>3, <4>1
      <4> QED BY <3>1, <4>2
    <3> QED BY <3>4, <3>5
  <2> HIDE DEF P
  <2>3. 0..n \subseteq P
    BY <1>1, <2>1, <2>2, UpTo
  <2>4. m \in P /\ m # 0
    BY <1>1, <2>3
  <2> QED BY <2>4 DEF P
<1>8. CASE n = 0
  BY <1>1, <1>2, <1>3, <1>8 DEF n
<1>9. CASE n # 0
  <2>1. n \in 1..n
    BY <1>1, <1>9
  <2> QED BY <1>3, <1>7, <1>9, <2>1 DEF n
<1> QED BY <1>8, <1>9 DEF n

(* What is in front stays when more is joined.                             *)
LEMMA JoinedStep ==
  ASSUME NEW S, NEW s \in Seq(Seq(S))
  PROVE  /\ Joined(s, 0) = <<>> /\ Joined(s, Len(s)) = FlattenSeq(s)
         /\ \A i \in 0..Len(s) : Joined(s, i) \in Seq(S)
         /\ \A i \in 1..Len(s) : Joined(s, i) = Joined(s, i - 1) \o s[i]
<1> DEFINE n == Len(s)
<1>1. n \in Nat /\ s \in [1..n -> Seq(S)]
  OBVIOUS
<1>2. PICK h : Joins(h, s, S)
  BY JoinsExists
<1>3. /\ h \in [0..n -> Seq(S)] /\ h[0] = <<>>
      /\ \A i \in 1..n : h[i] = h[i - 1] \o s[i]
  BY <1>2 DEF Joins
<1> HIDE DEF n
<1>4. ASSUME NEW i \in 0..n PROVE Joined(s, i) = h[i]
  <2> DEFINE t == SubSeq(s, 1, i)
             k == [j \in 0..i |-> h[j]]
  <2>1. i \in Int /\ 1 \in Int /\ \A j \in 1..i : s[j] \in Seq(S)
    BY <1>1
  <2>2. t \in Seq(Seq(S)) /\ Len(t) = i /\ \A j \in 1..i : t[j] = s[j]
    <3>1. /\ t \in Seq(Seq(S)) /\ Len(t) = IF 1 <= i THEN i - 1 + 1 ELSE 0
          /\ \A j \in 1..(i - 1 + 1) : t[j] = s[1 + j - 1]
      BY <2>1, SubSeqProperties
    <3>2. i - 1 + 1 = i /\ i \in Nat /\ \A j \in 1..i : 1 + j - 1 = j
      BY <2>1
    <3> HIDE DEF t
    <3> QED BY <3>1, <3>2
  <2> HIDE DEF t
  <2>3. Joins(k, t, S)
    <3>1. k \in [0..i -> Seq(S)] /\ k[0] = <<>>
      BY <1>1, <1>3
    <3>2. ASSUME NEW j \in 1..i PROVE k[j] = k[j - 1] \o t[j]
      <4>1. j \in 1..n /\ j - 1 \in 0..i /\ j \in 0..i
        BY <1>1
      <4> QED BY <1>3, <2>2, <4>1
    <3> HIDE DEF k
    <3> QED BY <2>2, <3>1, <3>2 DEF Joins
  <2>4. FlattenSeq(t) = k[Len(t)]
    <3> HIDE DEF k
    <3> QED BY <2>2, <2>3, JoinsIsFlat
  <2>5. k[i] = h[i]
    BY <1>1
  <2> QED BY <2>2, <2>4, <2>5 DEF Joined, t
<1>5. FlattenSeq(s) = h[n]
  BY <1>2, JoinsIsFlat DEF n
<1>6. \A i \in 1..n : i - 1 \in 0..n /\ i \in 0..n
  BY <1>1
<1>7. 0 \in 0..n /\ n \in 0..n
  BY <1>1
<1> QED BY <1>3, <1>4, <1>5, <1>6, <1>7 DEF n

LEMMA JoinedGrows ==
  ASSUME NEW S, NEW s \in Seq(Seq(S)), NEW i \in 0..Len(s)
  PROVE  /\ Len(Joined(s, i)) <= Len(FlattenSeq(s))
         /\ \A p \in 1..Len(Joined(s, i)) : FlattenSeq(s)[p] = Joined(s, i)[p]
<1> DEFINE n == Len(s)
           J(k) == Joined(s, k)
           P == {d \in 0..(n - i) : /\ Len(J(i)) <= Len(J(i + d))
                                    /\ \A p \in 1..Len(J(i)) : J(i + d)[p] = J(i)[p]}
<1>1. n \in Nat /\ i \in 0..n /\ n - i \in Nat /\ i + 0 = i
  OBVIOUS
<1>2. /\ J(n) = FlattenSeq(s) /\ \A k \in 0..n : J(k) \in Seq(S)
      /\ \A k \in 1..n : J(k) = J(k - 1) \o s[k]
  BY JoinedStep
<1>3. \A k \in 1..n : s[k] \in Seq(S)
  OBVIOUS
<1> HIDE DEF n, J
<1>4. 0 \in P
  <2>1. Len(J(i)) \in Nat
    BY <1>1, <1>2
  <2> QED BY <1>1, <2>1
<1>5. ASSUME NEW d \in 0..(n - i - 1), d \in P PROVE d + 1 \in P
  <2> DEFINE a == J(i)
             b == J(i + d)
             c == J(i + (d + 1))
             e == s[i + (d + 1)]
  <2>1. i + d \in 0..n /\ i + (d + 1) \in 1..n /\ (i + (d + 1)) - 1 = i + d /\ d + 1 \in 0..(n - i)
    BY <1>1
  <2>2. a \in Seq(S) /\ b \in Seq(S) /\ e \in Seq(S) /\ c = b \o e
    BY <1>1, <1>2, <1>3, <2>1
  <2>3. Len(a) <= Len(b) /\ \A p \in 1..Len(a) : b[p] = a[p]
    BY <1>5
  <2> HIDE DEF a, b, c, e
  <2>4. Len(a) \in Nat /\ Len(b) \in Nat /\ Len(e) \in Nat
    BY <2>2
  <2>5. /\ Len(c) = Len(b) + Len(e)
        /\ \A p \in 1..Len(b) + Len(e) : c[p] = IF p <= Len(b) THEN b[p] ELSE e[p - Len(b)]
    BY <2>2, ConcatProperties
  <2>6. Len(a) <= Len(c)
    BY <2>3, <2>4, <2>5
  <2>7. ASSUME NEW p \in 1..Len(a) PROVE c[p] = a[p]
    <3>1. p \in 1..Len(b) + Len(e) /\ p <= Len(b)
      BY <2>3, <2>4
    <3> QED BY <2>3, <2>5, <3>1
  <2> QED BY <2>1, <2>6, <2>7 DEF a, c
<1> HIDE DEF P
<1>6. 0..(n - i) \subseteq P
  <2> DEFINE m == n - i
  <2>1. m \in Nat /\ \A d \in 0..(m - 1) : d \in P => d + 1 \in P
    BY <1>1, <1>5
  <2> HIDE DEF m
  <2>2. 0..m \subseteq P
    BY <1>4, <2>1, UpTo
  <2> QED BY <2>2 DEF m
<1>7. n - i \in P /\ i + (n - i) = n
  BY <1>1, <1>6
<1>8. Len(J(i)) <= Len(J(n)) /\ \A p \in 1..Len(J(i)) : J(n)[p] = J(i)[p]
  BY <1>7 DEF P
<1> QED BY <1>2, <1>8 DEF J

LEMMA OneBehindTwo ==
  ASSUME NEW S, NEW r \in Seq(S), NEW s \in Seq(S), NEW e \in S
  PROVE  Append(r \o s, e) = r \o (s \o <<e>>)
<1>1. r \o s \in Seq(S) /\ <<e>> \in Seq(S)
  BY ConcatProperties
<1>2. Append(r \o s, e) = (r \o s) \o <<e>>
  BY <1>1, AppendIsConcat
<1>3. (r \o s) \o <<e>> = r \o (s \o <<e>>)
  BY <1>1, ConcatAssociative
<1> QED BY <1>2, <1>3

(* A list that is put out item by item.                                    *)
LEMMA OneMore ==
  ASSUME NEW S, NEW pre \in Seq(S), NEW s \in Seq(S), NEW i \in 1..Len(s)
  PROVE  /\ Append(pre \o SubSeq(s, 1, i - 1), s[i]) = pre \o SubSeq(s, 1, i)
         /\ i = 1 => Append(pre, s[i]) = pre \o SubSeq(s, 1, i)
<1> DEFINE n == Len(s)
           t == SubSeq(s, 1, i - 1)
           e == s[i]
<1>1. n \in Nat /\ i \in 1..n /\ e \in S
  OBVIOUS
<1>2. 1 \in 1..n /\ i \in 1..Len(s)
  BY <1>1
<1>3. SubSeq(s, 1, i) = t \o <<e>>
  BY <1>2, SubSeqRecursiveSecond
<1>4. t \in Seq(S) /\ (i = 1 => t = <<>>)
  <2> DEFINE k == i - 1
  <2>0. \A j \in 1..n : s[j] \in S
    OBVIOUS
  <2>1. k \in Int /\ 1 \in Int /\ \A j \in 1..k : s[j] \in S
    <3> HIDE DEF n
    <3>1. \A j \in 1..k : j \in 1..n
      BY <1>1
    <3> QED BY <1>1, <2>0, <3>1
  <2> HIDE DEF k
  <2>2. SubSeq(s, 1, k) \in Seq(S) /\ Len(SubSeq(s, 1, k)) = IF 1 <= k THEN k - 1 + 1 ELSE 0
    BY <2>1, SubSeqProperties
  <2>3. i = 1 => k = 0
    BY DEF k
  <2>4. i = 1 => Len(SubSeq(s, 1, k)) = 0
    BY <2>2, <2>3
  <2>5. i = 1 => SubSeq(s, 1, k) = <<>>
    BY <2>2, <2>4, EmptySeq
  <2> QED BY <2>2, <2>5 DEF k
<1> HIDE DEF t, e
<1>5. Append(pre \o t, e) = pre \o (t \o <<e>>)
  BY <1>1, <1>4, OneBehindTwo
<1>6. i = 1 => pre \o t = pre
  BY <1>4, ConcatEmptySeq
<1> QED BY <1>3, <1>5, <1>6 DEF e, t

-------------------------------------------------------------------------------
(* The groups of seven bits of a number, the low ones first.               *)
LEMMA BelowProduct ==
  ASSUME NEW n \in Nat \ {0}, NEW a \in Nat, NEW b \in Nat, a < n * b
  PROVE  a \div n < b
<1> DEFINE q == a \div n
           r == a % n
<1>1. q \in Nat /\ r \in 0..(n - 1) /\ a = q * n + r
  BY DivMod
<1> HIDE DEF q, r
<1>2. SUFFICES ASSUME b <= q PROVE FALSE
  BY <1>1 DEF q
<1>3. n * b <= q * n
  BY <1>1, <1>2, SMTT(30)
<1>4. q * n \in Nat /\ n * b \in Nat
  BY <1>1, SMTT(30)
<1> QED BY <1>1, <1>3, <1>4

GroupsOf(v, left, C) ==
  /\ left[1] = v /\ left[7] < C
  /\ \A i \in 1..7 : left[i] \in Nat /\ left[i] % C \in 0..(C - 1)
  /\ \A i \in 1..6 : left[i] = (left[i] % C) + C * left[i + 1]
  /\ \A i \in 1..6 : left[i] < C => left[i + 1] = 0
  /\ \A i \in 1..7 : left[i] < C => left[i] % C = left[i]

LEMMA Groups ==
  ASSUME NEW v \in 0..(Offsets * Blocks - 1), NEW left, left = Remaining(v)
  PROVE  GroupsOf(v, left, Continues)
<1> DEFINE C == Continues
           C2 == C * C
           C3 == C * C2
           C4 == C * C3
           C5 == C * C4
           C6 == C * C5
           C7 == C * C6
           N == Offsets * Blocks
<1>1. C \in Nat \ {0} /\ N \in Nat /\ N <= C7 /\ v \in Nat /\ v < N
  <2>1. N \in Nat
    BY BitsAssumption, SMTT(30)
  <2>2. v \in 0..(N - 1)
    OBVIOUS
  <2> HIDE DEF N
  <2>3. v \in Nat /\ v < N
    BY <2>1, <2>2
  <2>4. C \in Nat \ {0} /\ N <= C7
    BY BitsAssumption DEF N
  <2> QED BY <2>1, <2>3, <2>4
<1>2. C2 \in Nat /\ C3 \in Nat /\ C4 \in Nat /\ C5 \in Nat /\ C6 \in Nat /\ C7 \in Nat
  <2>1. \A a \in Nat : C * a \in Nat
    BY <1>1, SMTT(30)
  <2> HIDE DEF C
  <2> QED BY <1>1, <2>1
<1>3. /\ left[1] = v /\ left[2] = left[1] \div C /\ left[3] = left[2] \div C
      /\ left[4] = left[3] \div C /\ left[5] = left[4] \div C /\ left[6] = left[5] \div C
      /\ left[7] = left[6] \div C
  BY DEF Remaining
<1> HIDE DEF C, N
<1>4. \A a \in Nat : a \div C \in Nat
  BY <1>1, DivMod
<1>5. \A i \in 1..7 : left[i] \in Nat
  <2>1. left[1] \in Nat /\ left[2] \in Nat /\ left[3] \in Nat /\ left[4] \in Nat
    BY <1>1, <1>3, <1>4
  <2>2. left[5] \in Nat /\ left[6] \in Nat /\ left[7] \in Nat
    BY <1>3, <1>4, <2>1
  <2> QED BY <2>1, <2>2
<1>6. left[7] < C
  <2> DEFINE l(i) == left[i]
  <2>1. l(1) \in Nat /\ l(2) \in Nat /\ l(3) \in Nat /\ l(4) \in Nat /\ l(5) \in Nat /\ l(6) \in Nat
    BY <1>5
  <2>2. C7 = C * C6 /\ C6 = C * C5 /\ C5 = C * C4 /\ C4 = C * C3 /\ C3 = C * C2 /\ C2 = C * C
    OBVIOUS
  <2>3. \A a, b \in Nat : a < C * b => a \div C < b
    BY <1>1, BelowProduct
  <2> HIDE DEF C2, C3, C4, C5, C6, C7
  <2>4. l(2) = l(1) \div C /\ l(3) = l(2) \div C /\ l(4) = l(3) \div C
        /\ l(5) = l(4) \div C /\ l(6) = l(5) \div C /\ l(7) = l(6) \div C
    BY <1>3
  <2>5. l(1) < C7
    BY <1>1, <1>2, <1>3
  <2> HIDE DEF l
  <2>6. l(2) < C6 /\ l(3) < C5
    BY ONLY <1>2, <2>1, <2>2, <2>3, <2>4, <2>5
  <2>7. l(4) < C4 /\ l(5) < C3
    BY ONLY <1>2, <2>1, <2>2, <2>3, <2>4, <2>6
  <2>8. l(6) < C2 /\ C \in Nat
    BY ONLY <1>1, <1>2, <2>1, <2>2, <2>3, <2>4, <2>7
  <2>9. l(7) < C
    BY ONLY <2>1, <2>2, <2>3, <2>4, <2>8
  <2> QED BY <2>9 DEF l
<1> HIDE DEF C2, C3, C4, C5, C6, C7
<1>7. \A i \in 1..7 : left[i] % C \in 0..(C - 1)
  BY <1>1, <1>5, DivMod
<1>8. \A i \in 1..6 : left[i + 1] = left[i] \div C
  <2>1. /\ left[1 + 1] = left[1] \div C /\ left[2 + 1] = left[2] \div C
        /\ left[3 + 1] = left[3] \div C /\ left[4 + 1] = left[4] \div C
        /\ left[5 + 1] = left[5] \div C /\ left[6 + 1] = left[6] \div C
    BY <1>3
  <2> SUFFICES ASSUME NEW i \in 1..6 PROVE left[i + 1] = left[i] \div C
    OBVIOUS
  <2>2. i = 1 \/ i = 2 \/ i = 3 \/ i = 4 \/ i = 5 \/ i = 6
    OBVIOUS
  <2> QED BY ONLY <2>1, <2>2, Zenon
<1>9. ASSUME NEW i \in 1..6
      PROVE  /\ left[i] = (left[i] % C) + C * left[i + 1]
             /\ left[i] < C => left[i + 1] = 0
  <2> DEFINE a == left[i]
             q == a \div C
             r == a % C
  <2>1. a \in Nat
    BY <1>5
  <2>2. q \in Nat /\ r \in 0..(C - 1) /\ a = q * C + r
    <3> HIDE DEF a
    <3> QED BY <1>1, <2>1, DivMod
  <2>3. left[i + 1] = q
    BY <1>8
  <2> HIDE DEF a, q, r
  <2>4. q * C = C * q /\ C * q \in Nat
    BY <1>1, <2>2, SMTT(30)
  <2>5. a = r + C * q
    BY <1>1, <2>2, <2>4
  <2>6. a < C => q = 0
    <3> SUFFICES ASSUME a < C, q # 0 PROVE FALSE
      OBVIOUS
    <3>1. q >= 1
      BY <2>2
    <3>2. C <= C * q
      BY <1>1, <2>2, <3>1, SMTT(30)
    <3> QED BY <1>1, <2>1, <2>2, <2>4, <2>5, <3>2
  <2> QED BY <2>3, <2>5, <2>6 DEF a, r
<1>10. ASSUME NEW i \in 1..7, left[i] < C PROVE left[i] % C = left[i]
  <2> DEFINE a == left[i]
  <2>1. a \in Nat /\ a < C
    BY <1>5, <1>10
  <2> HIDE DEF a
  <2>2. a \in 0..(C - 1) /\ 0 \in Nat /\ 0 * C + a = a
    BY <1>1, <2>1
  <2>3. (0 * C + a) % C = a
    BY <1>1, <2>2, DivModUnique
  <2> QED BY <2>2, <2>3 DEF a
<1> QED BY <1>3, <1>5, <1>6, <1>7, <1>9, <1>10 DEF C, GroupsOf

(* A number is written in one to seven bytes; all but the last have the    *)
(* continuation bit, and all have their group.                             *)
WrittenAs(e, left, C) ==
  /\ e \in Seq(Nat) /\ Len(e) \in 1..7
  /\ \A i \in 1..Len(e) : e[i] % C = left[i] % C /\ ((e[i] < C) <=> (i = Len(e)))
  /\ e[Len(e)] = left[Len(e)]
  /\ \A i \in 1..7 : i > Len(e) => left[i] = 0

LEMMA WrittenVarbyte ==
  ASSUME NEW v \in 0..(Offsets * Blocks - 1), NEW left, left = Remaining(v),
         NEW e, e = EncodeVarbyte(v)
  PROVE  WrittenAs(e, left, Continues)
<1> DEFINE C == Continues
           Small == {i \in 1..7 : left[i] < C}
           n == Min(Small)
           byte(i) == IF i < n THEN C + (left[i] % C) ELSE left[i]
<1>1. /\ left[7] < C
      /\ \A i \in 1..7 : left[i] \in Nat /\ left[i] % C \in 0..(C - 1)
      /\ \A i \in 1..6 : left[i] < C => left[i + 1] = 0
      /\ C \in Nat \ {0}
  <2>1. C \in Nat \ {0}
    BY BitsAssumption
  <2>2. /\ left[7] < C
        /\ \A i \in 1..7 : left[i] \in Nat /\ left[i] % C \in 0..(C - 1)
        /\ \A i \in 1..6 : left[i] < C => left[i + 1] = 0
    <3>1. GroupsOf(v, left, C)
      BY Groups
    <3> HIDE DEF C
    <3> QED BY <3>1 DEF GroupsOf
  <2> QED BY <2>1, <2>2
<1>2. e = [i \in 1..n |-> byte(i)]
  BY DEF EncodeVarbyte
<1> HIDE DEF C
<1>3. n \in 1..7 /\ left[n] < C /\ \A i \in 1..7 : i < n => ~(left[i] < C)
  <2>0. IsFiniteSet(1..7)
    <3>1. 1 \in Int /\ 7 \in Int
      OBVIOUS
    <3> QED BY <3>1, FS_Interval
  <2>1. IsFiniteSet(1..7) /\ Small \subseteq 1..7 /\ 7 \in Small /\ Small \subseteq Int
    BY <1>1, <2>0
  <2>2. IsFiniteSet(Small)
    <3> HIDE DEF Small
    <3> QED BY <2>1, FS_Subset
  <2>3. n \in Small /\ \A i \in Small : n <= i
    <3> HIDE DEF Small
    <3> QED BY <2>1, <2>2, MinIs
  <2> HIDE DEF n
  <2>4. n \in 1..7 /\ left[n] < C
    BY <2>3
  <2>5. \A i \in 1..7 : i < n => i \notin Small
    BY <2>3, <2>4
  <2> QED BY <2>4, <2>5
<1> HIDE DEF n, Small
<1>4. \A i \in 1..n : byte(i) \in Nat
  BY <1>1, <1>3
<1>5. e \in Seq(Nat) /\ Len(e) = n /\ \A i \in 1..n : e[i] = byte(i)
  <2> HIDE DEF byte
  <2>1. n \in Nat
    BY <1>3
  <2> QED BY <1>2, <1>4, <2>1, IsASeq
<1>6. ASSUME NEW i \in 1..n
      PROVE  e[i] % C = left[i] % C /\ ((e[i] < C) <=> (i = n))
  <2> DEFINE r == left[i] % C
  <2>1. i \in 1..7 /\ r \in 0..(C - 1) /\ left[i] \in Nat
    BY <1>1, <1>3
  <2>2. CASE i = n
    <3>1. e[i] = left[i]
      BY <1>5, <2>2
    <3> QED BY <1>3, <2>2, <3>1
  <2>3. CASE i # n
    <3>1. i < n /\ e[i] = C + r
      BY <1>3, <1>5, <2>3
    <3> HIDE DEF r
    <3>2. ~(e[i] < C)
      BY <1>1, <2>1, <3>1
    <3>3. 1 * C + r = C + r /\ 1 \in Nat
      BY <1>1, <2>1
    <3>4. (1 * C + r) % C = r
      BY <1>1, <2>1, <3>3, DivModUnique
    <3> QED BY <2>3, <3>1, <3>2, <3>3, <3>4 DEF r
  <2> QED BY <2>2, <2>3
<1>7. e[n] = left[n]
  BY <1>3, <1>5
<1>8. ASSUME NEW i \in 1..7, i > n PROVE left[i] = 0
  <2> DEFINE P == {d \in 0..(7 - n) : left[n + d] < C /\ (d > 0 => left[n + d] = 0)}
             m == 7 - n
  <2>1. 0 \in P
    <3>1. n + 0 = n
      BY <1>3
    <3> QED BY <1>3, <3>1
  <2>2. ASSUME NEW d \in 0..(m - 1), d \in P PROVE d + 1 \in P
    <3>1. n + d \in 1..6 /\ n + (d + 1) = (n + d) + 1 /\ d + 1 \in 0..(7 - n) /\ left[n + d] < C
      BY <1>3, <2>2
    <3>2. left[(n + d) + 1] = 0
      BY <1>1, <3>1
    <3>3. 0 < C
      BY <1>1
    <3> QED BY <3>1, <3>2, <3>3
  <2> HIDE DEF P
  <2>3. m \in Nat
    BY <1>3
  <2> HIDE DEF m
  <2>4. 0..m \subseteq P
    BY <2>1, <2>2, <2>3, UpTo
  <2>5. i - n \in P /\ i - n > 0 /\ n + (i - n) = i
    BY <1>3, <1>8, <2>4 DEF m
  <2> QED BY <2>5 DEF P
<1> QED BY <1>3, <1>5, <1>6, <1>7, <1>8 DEF C, WrittenAs

(* It is read back from in front of whatever follows.                      *)
LEMMA VarbyteReadBack ==
  ASSUME NEW v \in 0..(Offsets * Blocks - 1), NEW e, e = EncodeVarbyte(v),
         NEW bytes, Len(bytes) \in Nat, Len(e) <= Len(bytes),
         \A i \in 1..Len(e) : bytes[i] = e[i]
  PROVE  VarbyteLength(bytes) = Len(e) /\ Varbyte(bytes, Len(e)) = v
<1> DEFINE C == Continues
           n == Len(e)
           l == Len(bytes)
<1>0. PICK left : left = Remaining(v)
  OBVIOUS
<1>1. /\ n \in 1..7 /\ e[n] = left[n]
      /\ \A i \in 1..n : e[i] % C = left[i] % C /\ ((e[i] < C) <=> (i = n))
      /\ \A i \in 1..7 : i > n => left[i] = 0
  <2>1. WrittenAs(e, left, C)
    BY <1>0, WrittenVarbyte
  <2> HIDE DEF C
  <2> QED BY <2>1 DEF WrittenAs
<1>2. /\ left[1] = v /\ left[7] < C
      /\ \A i \in 1..7 : left[i] \in Nat /\ left[i] % C \in 0..(C - 1)
      /\ \A i \in 1..6 : left[i] = (left[i] % C) + C * left[i + 1]
      /\ \A i \in 1..7 : left[i] < C => left[i] % C = left[i]
      /\ C \in Nat \ {0}
  <2>1. C \in Nat \ {0}
    BY BitsAssumption
  <2>2. GroupsOf(v, left, C)
    BY <1>0, Groups
  <2> HIDE DEF C
  <2> QED BY <2>1, <2>2 DEF GroupsOf
<1>3. l \in Nat /\ n <= l /\ \A i \in 1..n : bytes[i] = e[i]
  OBVIOUS
<1> HIDE DEF C, n, l
<1>4. VarbyteLength(bytes) = n
  <2> DEFINE k == Min({6, l})
             Endings == {i \in 1..k : bytes[i] < C}
  <2>1. k = IF l < 6 THEN l ELSE 6
    <3>1. IsFiniteSet({6, l}) /\ {6, l} # {} /\ {6, l} \subseteq Int
      <4>1. IsFiniteSet({l}) /\ {6, l} = {l} \cup {6}
        BY FS_Singleton
      <4>2. IsFiniteSet({l} \cup {6})
        BY <4>1, FS_AddElement
      <4>3. {6, l} # {} /\ {6, l} \subseteq Int
        BY <1>3
      <4>4. IsFiniteSet({6, l})
        BY ONLY <4>1, <4>2, Zenon
      <4> QED BY <4>3, <4>4
    <3>2. k \in {6, l} /\ k <= 6 /\ k <= l
      BY <3>1, MinIs
    <3> HIDE DEF k
    <3> QED BY <1>3, <3>2
  <2>2. VarbyteLength(bytes) = IF Endings = {} THEN 7 ELSE Min(Endings)
    BY DEF VarbyteLength, C, l
  <2> HIDE DEF k
  <2>3. k \in Nat
    BY <1>3, <2>1
  <2>4. CASE n = 7
    <3>1. k = 6 /\ \A i \in 1..6 : i \in 1..n /\ i # n
      BY <1>3, <2>1, <2>4
    <3>2. Endings = {}
      BY <1>1, <1>3, <3>1
    <3> QED BY <2>2, <2>4, <3>2
  <2>5. CASE n # 7
    <3>1. n \in 1..k
      BY <1>1, <1>3, <2>1, <2>3, <2>5
    <3>2. n \in Endings
      BY <1>1, <1>3, <3>1
    <3>3. \A i \in Endings : n <= i
      <4> SUFFICES ASSUME NEW i \in Endings PROVE n <= i
        OBVIOUS
      <4>1. i \in 1..k /\ bytes[i] < C
        OBVIOUS
      <4>2. SUFFICES ASSUME i < n PROVE FALSE
        BY <1>1, <2>3, <4>1
      <4>3. i \in 1..n /\ i # n
        BY <1>1, <2>3, <4>1, <4>2
      <4> QED BY <1>1, <1>3, <4>1, <4>3
    <3>4. IsFiniteSet(Endings) /\ Endings \subseteq Int
      <4>1. k \in Int /\ 1 \in Int /\ Endings \subseteq 1..k
        BY <2>3
      <4>2. IsFiniteSet(1..k)
        BY <4>1, FS_Interval
      <4> HIDE DEF Endings
      <4>3. Endings \subseteq Int
        BY ONLY <4>1
      <4>4. IsFiniteSet(Endings)
        BY ONLY <4>1, <4>2, FS_Subset
      <4> QED BY <4>3, <4>4
    <3> DEFINE q == Min(Endings)
    <3> HIDE DEF Endings
    <3>5. q \in Endings /\ q <= n
      BY <3>2, <3>4, MinIs
    <3> HIDE DEF q
    <3>6. q \in Int /\ n <= q /\ n \in Int
      <4>1. q \in Int
        BY ONLY <3>4, <3>5
      <4>2. n <= q
        BY <3>3, <3>5
      <4>3. n \in Int
        BY ONLY <1>1
      <4> QED BY <4>1, <4>2, <4>3
    <3>7. q = n
      BY ONLY <3>5, <3>6
    <3> QED BY <2>2, <3>2, <3>7 DEF q
  <2> QED BY <2>4, <2>5
<1> DEFINE c(i) == IF i > n THEN 0 ELSE IF i = 7 THEN bytes[i] ELSE bytes[i] % C
<1>5. \A i \in 1..6 : c(i) = left[i] % C
  <2> SUFFICES ASSUME NEW i \in 1..6 PROVE c(i) = left[i] % C
    OBVIOUS
  <2>1. CASE i > n
    <3>1. left[i] = 0 /\ i \in 1..7
      BY <1>1, <2>1
    <3>2. left[i] % C = 0
      BY <1>2, <3>1
    <3> QED BY <2>1, <3>2
  <2>2. CASE ~(i > n)
    <3>1. i \in 1..n /\ i # 7
      BY <1>1, <2>2
    <3> QED BY <1>1, <1>3, <2>2, <3>1
  <2> QED BY <2>1, <2>2
<1>6. c(7) = left[7]
  <2>1. CASE 7 > n
    BY <1>1, <2>1
  <2>2. CASE ~(7 > n)
    <3>1. n = 7
      BY <1>1, <2>2
    <3> QED BY <1>1, <1>3, <2>2, <3>1
  <2> QED BY <2>1, <2>2
<1>7. Varbyte(bytes, n) =
        c(1) + C * (c(2) + C * (c(3) + C * (c(4) + C * (c(5) + C * (c(6) + C * c(7))))))
  BY DEF Varbyte, Horner, C
<1> HIDE DEF c
<1>8. /\ c(1) = left[1] % C /\ c(2) = left[2] % C /\ c(3) = left[3] % C /\ c(4) = left[4] % C
      /\ c(5) = left[5] % C /\ c(6) = left[6] % C
  BY <1>5
<1>9. /\ left[1] = c(1) + C * left[2] /\ left[2] = c(2) + C * left[3]
      /\ left[3] = c(3) + C * left[4] /\ left[4] = c(4) + C * left[5]
      /\ left[5] = c(5) + C * left[6] /\ left[6] = c(6) + C * left[7]
  <2>1. /\ left[1] = (left[1] % C) + C * left[1 + 1] /\ left[2] = (left[2] % C) + C * left[2 + 1]
        /\ left[3] = (left[3] % C) + C * left[3 + 1] /\ left[4] = (left[4] % C) + C * left[4 + 1]
        /\ left[5] = (left[5] % C) + C * left[5 + 1] /\ left[6] = (left[6] % C) + C * left[6 + 1]
    <3>1. 1 \in 1..6 /\ 2 \in 1..6 /\ 3 \in 1..6 /\ 4 \in 1..6 /\ 5 \in 1..6 /\ 6 \in 1..6
      OBVIOUS
    <3>2. \A i \in 1..6 : left[i] = (left[i] % C) + C * left[i + 1]
      BY <1>2
    <3> QED BY ONLY <3>1, <3>2, Zenon
  <2> QED BY <1>8, <2>1
<1>10. Varbyte(bytes, n) = left[1]
  BY ONLY <1>6, <1>7, <1>9, Zenon
<1> QED BY <1>2, <1>4, <1>10 DEF n

-------------------------------------------------------------------------------
(* An item pointer and its number are the same thing.                      *)
LEMMA PointerReadBack ==
  ASSUME NEW p \in ItemPointers
  PROVE  /\ itemptr_to_uint64(p) \in 0..(Offsets * Blocks - 1)
         /\ uint64_to_itemptr(itemptr_to_uint64(p)) = p
<1> DEFINE b == p.blk
           o == p.off
           v == b * Offsets + o
<1>1. /\ b \in 0..(Blocks - 1) /\ o \in 0..(Offsets - 1) /\ p = [blk |-> b, off |-> o]
      /\ Offsets \in Nat \ {0} /\ Blocks \in Nat \ {0}
  BY BitsAssumption DEF ItemPointers
<1>2. itemptr_to_uint64(p) = v
  BY DEF itemptr_to_uint64
<1> HIDE DEF b, o
<1>3. v \div Offsets = b /\ v % Offsets = o
  BY <1>1, DivModUnique
<1>4. b % Blocks = b
  <2>1. 0 \in Nat /\ 0 * Blocks + b = b
    BY <1>1
  <2>2. (0 * Blocks + b) % Blocks = b
    BY <1>1, <2>1, DivModUnique
  <2> QED BY <2>1, <2>2
<1>5. v \in 0..(Offsets * Blocks - 1)
  <2>1. b * Offsets <= (Blocks - 1) * Offsets
    BY <1>1, SMTT(30)
  <2>2. (Blocks - 1) * Offsets = Offsets * Blocks - Offsets /\ Offsets * Blocks \in Nat
    BY <1>1, SMTT(30)
  <2>3. b * Offsets \in Nat
    BY <1>1, SMTT(30)
  <2> QED BY <1>1, <2>1, <2>2, <2>3
<1> HIDE DEF v
<1>6. uint64_to_itemptr(v) = [blk |-> b, off |-> o]
  BY <1>3, <1>4 DEF uint64_to_itemptr
<1> QED BY <1>1, <1>2, <1>5, <1>6

(* The differences of a posting list as they are written.                  *)
Delta(items, i) == itemptr_to_uint64(items[i + 1]) - itemptr_to_uint64(items[i])
Encodings(items) == [i \in 1..(Len(items) - 1) |-> EncodeVarbyte(Delta(items, i))]

LEMMA EncodingsAre ==
  ASSUME NEW items, PostingList(items)
  PROVE  /\ Len(items) \in Nat \ {0} /\ items \in Seq(ItemPointers)
         /\ \A i \in 1..(Len(items) - 1) : /\ Delta(items, i) \in 0..(Offsets * Blocks - 1)
                                           /\ Len(EncodeVarbyte(Delta(items, i))) \in 1..7
         /\ Encodings(items) \in Seq(Seq(Nat)) /\ Len(Encodings(items)) = Len(items) - 1
         /\ EncodeSegment(items).first = items[1]
         /\ EncodeSegment(items).bytes = FlattenSeq(Encodings(items))
<1> DEFINE n == Len(items)
           u(i) == itemptr_to_uint64(items[i])
           N == Offsets * Blocks
<1>1. /\ n \in Nat \ {0} /\ items \in Seq(ItemPointers)
      /\ \A i \in 1..n : items[i] \in ItemPointers
      /\ \A i \in 2..n : u(i - 1) < u(i)
  BY DEF PostingList
<1>2. \A i \in 1..n : u(i) \in 0..(N - 1)
  BY <1>1, PointerReadBack
<1>3. N \in Nat \ {0}
  BY BitsAssumption, SMTT(30)
<1> HIDE DEF n, N, u
<1>4. ASSUME NEW i \in 1..(n - 1)
      PROVE  Delta(items, i) \in 0..(N - 1)
  <2>1. i \in 1..n /\ i + 1 \in 2..n /\ i + 1 \in 1..n /\ (i + 1) - 1 = i
    BY <1>1
  <2>2. u(i) < u(i + 1) /\ u(i) \in 0..(N - 1) /\ u(i + 1) \in 0..(N - 1)
    BY <1>1, <1>2, <2>1
  <2>3. u(i + 1) - u(i) \in 0..(N - 1)
    BY <1>3, <2>2
  <2> QED BY <2>3 DEF Delta, u
<1>5. ASSUME NEW i \in 1..(n - 1)
      PROVE  /\ EncodeVarbyte(Delta(items, i)) \in Seq(Nat)
             /\ Len(EncodeVarbyte(Delta(items, i))) \in 1..7
  <2>1. WrittenAs(EncodeVarbyte(Delta(items, i)), Remaining(Delta(items, i)), Continues)
    BY <1>4, WrittenVarbyte DEF N
  <2> QED BY <2>1 DEF WrittenAs
<1>6. Encodings(items) \in Seq(Seq(Nat)) /\ Len(Encodings(items)) = n - 1
  <2> DEFINE e(i) == EncodeVarbyte(Delta(items, i))
             m == n - 1
  <2>1. m \in Nat /\ Encodings(items) = [i \in 1..m |-> e(i)] /\ \A i \in 1..m : e(i) \in Seq(Nat)
    BY <1>1, <1>5 DEF Encodings, n
  <2> HIDE DEF e, m
  <2>2. Encodings(items) \in Seq(Seq(Nat)) /\ Len(Encodings(items)) = m
    BY <2>1, IsASeq
  <2> QED BY <2>2 DEF m
<1>7. EncodeSegment(items).first = items[1]
      /\ EncodeSegment(items).bytes = FlattenSeq(Encodings(items))
  <2> DEFINE delta(i) == itemptr_to_uint64(items[i]) - itemptr_to_uint64(items[i - 1])
             old == [i \in 1..(n - 1) |-> EncodeVarbyte(delta(i + 1))]
  <2>1. EncodeSegment(items) = [first |-> items[1], bytes |-> FlattenSeq(old)]
    BY DEF EncodeSegment, n
  <2>2. \A i \in 1..(n - 1) : delta(i + 1) = Delta(items, i)
    <3> SUFFICES ASSUME NEW i \in 1..(n - 1) PROVE delta(i + 1) = Delta(items, i)
      OBVIOUS
    <3>1. (i + 1) - 1 = i
      BY <1>1
    <3> QED BY <3>1 DEF Delta
  <2> HIDE DEF delta
  <2>3. old = Encodings(items)
    BY <2>2 DEF Encodings, n
  <2> HIDE DEF old
  <2> QED BY <2>1, <2>3
<1> QED BY <1>1, <1>4, <1>5, <1>6, <1>7 DEF n, N

(* Where ginPostingListDecodeAllSegments stands after j items.             *)
Position(items, j, a, v) ==
  /\ j \in 1..Len(items)
  /\ a = Len(Joined(Encodings(items), j - 1))
  /\ v = itemptr_to_uint64(items[j])

LEMMA FirstPosition ==
  ASSUME NEW items, PostingList(items)
  PROVE  Position(items, 1, 0, itemptr_to_uint64(items[1]))
<1>1. Len(items) \in Nat \ {0} /\ Joined(Encodings(items), 0) = <<>>
  BY EncodingsAre, JoinedStep
<1>2. 1 \in 1..Len(items) /\ 1 - 1 = 0 /\ Len(<<>>) = 0
  <2> DEFINE n == Len(items)
  <2>1. n \in Nat \ {0}
    BY <1>1
  <2> HIDE DEF n
  <2>2. 1 \in 1..n
    BY <2>1
  <2> QED BY <2>2 DEF n
<1> QED BY <1>1, <1>2 DEF Position

Advances(items, j, a, v, l, n, w) ==
  /\ a \in 0..l /\ v \in 0..(Offsets * Blocks - 1)
  /\ a >= l => j = Len(items)
  /\ a < l => Position(items, j + 1, a + n, w) /\ uint64_to_itemptr(w) = items[j + 1]

LEMMA NextPosition ==
  ASSUME NEW items, PostingList(items), NEW j, NEW a, NEW v, Position(items, j, a, v),
         NEW bytes, bytes = EncodeSegment(items).bytes,
         NEW rest, rest = SubSeq(bytes, a + 1, Len(bytes)),
         NEW n, n = VarbyteLength(rest),
         NEW w, w = v + Varbyte(rest, n)
  PROVE  Advances(items, j, a, v, Len(bytes), n, w)
<1> DEFINE k == Len(items)
           enc == Encodings(items)
           J(i) == Joined(enc, i)
           l == Len(bytes)
           m == k - 1
<1>1. /\ k \in Nat \ {0} /\ (\A i \in 1..k : items[i] \in ItemPointers)
      /\ \A i \in 1..m : /\ Delta(items, i) \in 0..(Offsets * Blocks - 1)
                         /\ Len(EncodeVarbyte(Delta(items, i))) \in 1..7
      /\ enc \in Seq(Seq(Nat)) /\ Len(enc) = m
      /\ bytes = FlattenSeq(enc)
  BY EncodingsAre
<1>2. \A i \in 1..m : enc[i] = EncodeVarbyte(Delta(items, i))
  BY DEF Encodings
<1>3. /\ J(m) = bytes /\ (\A i \in 0..m : J(i) \in Seq(Nat))
      /\ \A i \in 1..m : J(i) = J(i - 1) \o enc[i]
  BY <1>1, JoinedStep
<1>4. \A i \in 0..m : Len(J(i)) <= l /\ \A p \in 1..Len(J(i)) : bytes[p] = J(i)[p]
  BY <1>1, JoinedGrows
<1>5. j \in 1..k /\ a = Len(J(j - 1)) /\ v = itemptr_to_uint64(items[j])
  BY DEF Position
<1>6. v \in 0..(Offsets * Blocks - 1)
  BY <1>1, <1>5, PointerReadBack
<1> HIDE DEF k, J, l, enc, m
<1>7. m \in Nat /\ m = k - 1
  BY <1>1 DEF m
<1>8. m \in 0..m /\ bytes \in Seq(Nat) /\ l \in Nat /\ Len(bytes) = l
  <2>1. m \in 0..m
    BY <1>7
  <2>2. bytes \in Seq(Nat)
    BY <1>3, <2>1
  <2> QED BY <2>1, <2>2 DEF l
<1>9. j - 1 \in 0..m
  BY <1>1, <1>5, <1>7
<1>10. a \in 0..l
  <2>1. J(j - 1) \in Seq(Nat) /\ Len(J(j - 1)) <= l
    BY <1>3, <1>4, <1>9
  <2>2. a \in Nat /\ a <= l
    BY <1>5, <2>1
  <2> QED BY <1>8, <2>2
(* Behind each item but the last there is another.                         *)
<1>11. ASSUME j <= m
       PROVE  /\ a < l
              /\ Position(items, j + 1, a + n, w)
              /\ uint64_to_itemptr(w) = items[j + 1]
  <2> DEFINE e == EncodeVarbyte(Delta(items, j))
             c == Len(e)
             r == Len(rest)
             q == J(j)
             front == J(j - 1)
  <2>1. j \in 1..m /\ j \in 0..m /\ j + 1 \in 1..k /\ (j + 1) - 1 = j
    BY <1>1, <1>5, <1>7, <1>11
  <2>2. c \in 1..7 /\ enc[j] = e /\ Delta(items, j) \in 0..(Offsets * Blocks - 1)
    BY <1>1, <1>2, <2>1
  <2>3. q = front \o e /\ q \in Seq(Nat) /\ front \in Seq(Nat) /\ e \in Seq(Nat)
    <3>1. enc[j] \in Seq(Nat)
      BY <1>1, <2>1
    <3> QED BY <1>3, <1>9, <2>1, <2>2, <3>1
  <2>4. Len(q) <= l /\ \A p \in 1..Len(q) : bytes[p] = q[p]
    BY <1>4, <2>1
  <2>5. a = Len(front)
    BY <1>5
  <2> HIDE DEF e, q, front
  <2>6. Len(q) = a + c /\ \A p \in 1..(a + c) : q[p] = IF p <= a THEN front[p] ELSE e[p - a]
    BY <2>3, <2>5, ConcatProperties
  <2> HIDE DEF c
  <2>7. a < l /\ a + c <= l
    BY <1>8, <1>10, <2>2, <2>4, <2>6
  <2>8. r = l - a /\ r \in Nat /\ \A i \in 1..r : rest[i] = bytes[a + i]
    <3> DEFINE a1 == a + 1
    <3>0. \A i \in 1..l : bytes[i] \in Nat
      BY <1>8
    <3>1. a1 \in Int /\ l \in Int /\ \A i \in a1..l : bytes[i] \in Nat
      <4>1. \A i \in a1..l : i \in 1..l
        BY <1>8, <1>10
      <4> QED BY <1>8, <1>10, <3>0, <4>1
    <3>2. rest = SubSeq(bytes, a1, l)
      BY DEF l
    <3> HIDE DEF a1
    <3>3. /\ Len(rest) = IF a1 <= l THEN l - a1 + 1 ELSE 0
          /\ \A i \in 1..(l - a1 + 1) : rest[i] = bytes[a1 + i - 1]
      <4> DEFINE t == SubSeq(bytes, a1, l)
      <4>1. /\ Len(t) = IF a1 <= l THEN l - a1 + 1 ELSE 0
            /\ \A i \in 1..(l - a1 + 1) : t[i] = bytes[a1 + i - 1]
        BY <3>1, SubSeqProperties
      <4>2. rest = t
        BY <3>2
      <4> HIDE DEF t
      <4> QED BY <4>1, <4>2
    <3>4. a1 <= l /\ l - a1 + 1 = l - a /\ \A i \in Int : a1 + i - 1 = a + i
      BY <1>8, <1>10, <2>7 DEF a1
    <3> QED BY <1>8, <1>10, <2>7, <3>3, <3>4
  <2> HIDE DEF r
  <2>9. c <= r /\ \A i \in 1..c : rest[i] = e[i]
    <3>1. c <= r
      BY <1>8, <1>10, <2>2, <2>7, <2>8
    <3> SUFFICES ASSUME NEW i \in 1..c PROVE rest[i] = e[i]
      BY <3>1
    <3>2. i \in 1..r /\ a + i \in 1..(a + c) /\ ~(a + i <= a) /\ (a + i) - a = i
      BY <1>10, <2>2, <2>8, <3>1
    <3> QED BY <2>4, <2>6, <2>8, <3>2
  <2>10. VarbyteLength(rest) = c /\ Varbyte(rest, c) = Delta(items, j)
    BY <2>2, <2>8, <2>9, VarbyteReadBack DEF c, e, r
  <2>11. n = c
    BY <2>10
  <2> DEFINE y == itemptr_to_uint64(items[j + 1])
  <2>12. v + Delta(items, j) = y
    <3>1. Delta(items, j) = y - v
      BY <1>5 DEF Delta
    <3>2. y \in 0..(Offsets * Blocks - 1)
      BY <1>1, <2>1, PointerReadBack
    <3> HIDE DEF y
    <3> QED BY <1>6, <3>1, <3>2
  <2>13. uint64_to_itemptr(y) = items[j + 1]
    BY <1>1, <2>1, PointerReadBack
  <2>14. a + n = Len(J((j + 1) - 1))
    BY <2>1, <2>6, <2>11 DEF q
  <2>15. Position(items, j + 1, a + n, y)
    BY <2>1, <2>14 DEF Position, J, enc, k
  <2> HIDE DEF y
  <2>16. w = y
    BY <2>10, <2>11, <2>12
  <2> QED BY <2>7, <2>13, <2>15, <2>16
<1>12. CASE j <= m
  BY <1>6, <1>8, <1>10, <1>11, <1>12 DEF Advances
<1>13. CASE ~(j <= m)
  <2>1. j = k /\ j - 1 = m
    BY <1>1, <1>5, <1>7, <1>13
  <2>2. a = l
    BY <1>3, <1>5, <2>1 DEF l
  <2> QED BY <1>6, <1>8, <1>10, <2>1, <2>2 DEF k, Advances
<1> QED BY <1>12, <1>13

-------------------------------------------------------------------------------
(* What the lists of a page are made of, whatever its kind.                *)
Given == Sound /\ page.content = "gin" /\ ~Misread
TupleLists == [i \in DOMAIN Tuples |-> ListOf(Tuples[i])]
Tids == [i \in DOMAIN Tuples |-> Tuples[i].tid]

LEMMA GivenPage ==
  ASSUME page \in Pages, Given
  PROVE  /\ page.kind = "gin" /\ Written /\ ~HeaderCut /\ ~IsMetaPage
         /\ GetSpecialSectionType = "gin"
         /\ SplitEntry \/ Deleted \/ Listing # "unknown"
<1>1. Sound /\ ~Misread /\ page.kind = "gin" /\ Written
  BY DEF Given, Sound
<1>2. ~HeaderCut
  BY <1>1, HeaderIsSound
<1>3. ~IsMetaPage
  BY <1>1 DEF Given, Sound
<1>4. GetSpecialSectionType = "gin"
  <2>1. GetSpecialSectionType = TrueType
    BY <1>1, TypeIsTold
  <2> QED BY <1>1, <2>1 DEF TrueType
<1>5. ~Flag(8)
  <2>1. Whole /\ SpecialSize = GinOpaque
    BY <1>1 DEF Sound, Section, GinOpaque
  <2> QED BY <1>3, <2>1 DEF IsMetaPage, IsGinMetaPage
<1>6. SplitEntry \/ Deleted \/ Listing # "unknown"
  BY <1>1, <1>5, GinPageIsKnown
<1> QED BY <1>1, <1>2, <1>3, <1>4, <1>6

LEMMA ListsAre ==
  ASSUME page \in Pages, Given, Listing = "segments"
  PROVE  /\ page.gin.lists \in Seq(Seq(ItemPointers))
         /\ DOMAIN page.gin.lists = 1..Len(page.gin.lists) /\ Len(page.gin.lists) \in Nat
         /\ Len(page.gin.segs) = Len(page.gin.lists)
         /\ \A i \in 1..Len(page.gin.lists) :
              /\ PostingList(page.gin.lists[i])
              /\ page.gin.segs[i] = EncodeSegment(page.gin.lists[i])
<1> DEFINE L == page.gin.lists
           E(i) == EncodeSegment(L[i])
           n == Len(L)
<1>1. L \in Seq(Range(L))
  BY GinAssumption
<1>2. /\ \A i \in DOMAIN L : PostingList(L[i])
      /\ page.gin.segs = [i \in DOMAIN L |-> E(i)]
  BY GivenPage DEF Written
<1> HIDE DEF L, E
<1>3. n \in Nat /\ DOMAIN L = 1..n
  BY <1>1
<1>4. L = [i \in 1..n |-> L[i]]
  BY <1>1, <1>3
<1>5. \A i \in 1..n : PostingList(L[i]) /\ L[i] \in Seq(ItemPointers)
  BY <1>2, <1>3 DEF PostingList
<1> HIDE DEF n
<1>6. L \in Seq(Seq(ItemPointers))
  <2>1. [i \in 1..n |-> L[i]] \in Seq(Seq(ItemPointers))
    BY <1>3, <1>5, IsASeq
  <2> QED BY <1>4, <2>1
<1>7. Len(page.gin.segs) = n /\ \A i \in 1..n : page.gin.segs[i] = E(i)
  <2> DEFINE A == {E(i) : i \in 1..n}
  <2>1. \A i \in 1..n : E(i) \in A
    OBVIOUS
  <2> HIDE DEF A
  <2>2. Len([i \in 1..n |-> E(i)]) = n
    BY <1>3, <2>1, IsASeq
  <2> QED BY <1>2, <1>3, <2>2
<1> QED BY <1>3, <1>5, <1>6, <1>7 DEF L, E, n

LEMMA TuplesAre ==
  ASSUME page \in Pages
  PROVE  /\ Len(Tuples) \in Nat /\ DOMAIN Tuples = 1..Len(Tuples)
         /\ \A i \in 1..Len(Tuples) : Tuples[i] \in Range(Tuples)
         /\ Len(Tids) = Len(Tuples) /\ DOMAIN Tids = 1..Len(Tuples) /\ Tids \in Seq(Range(Tids))
         /\ Len(TupleLists) = Len(Tuples) /\ \E S : TupleLists \in Seq(Seq(S))
<1> DEFINE n == Len(Tuples)
           tid(i) == Tuples[i].tid
           list(i) == ListOf(Tuples[i])
           S == UNION {Range(list(i)) : i \in 1..n}
<1>1. Tuples \in Seq(Range(Tuples))
  BY GinAssumption DEF Tuples
<1>2. n \in Nat /\ DOMAIN Tuples = 1..n /\ \A i \in 1..n : Tuples[i] \in Range(Tuples)
  BY <1>1
<1>3. ASSUME NEW i \in 1..n PROVE list(i) \in Seq(S)
  <2> DEFINE t == Tuples[i]
             l == list(i)
             R == Range(l)
  <2>1. l = IF t.tree THEN <<t.root>> ELSE t.items
    BY DEF ListOf
  <2>2. t.items \in Seq(Range(t.items)) /\ t.tree \in BOOLEAN
    <3>1. t \in Range(page.gin.tuples)
      BY <1>2 DEF Tuples
    <3> HIDE DEF t
    <3> QED BY <3>1, GinAssumption
  <2> HIDE DEF l, t
  <2>3. l \in Seq(R)
    <3>1. CASE t.tree
      <4>1. l = <<t.root>>
        BY <2>1, <3>1
      <4>2. t.root \in Range(l)
        BY <4>1 DEF Range
      <4> QED BY <4>1, <4>2
    <3>2. CASE ~t.tree
      BY <2>1, <2>2, <3>2
    <3> QED BY <3>1, <3>2
  <2>4. R \subseteq S
    BY DEF l
  <2> HIDE DEF R, S
  <2>5. l \in Seq(S)
    BY <2>3, <2>4, SeqMonotonic
  <2> QED BY <2>5 DEF l
<1>4. TupleLists \in Seq(Seq(S)) /\ Len(TupleLists) = n
  <2>1. TupleLists = [i \in 1..n |-> list(i)]
    BY <1>2 DEF TupleLists
  <2> HIDE DEF S, list, n
  <2> QED BY <1>2, <1>3, <2>1, IsASeq
<1>5. Len(Tids) = n /\ DOMAIN Tids = 1..n /\ Tids \in Seq(Range(Tids))
  <2>1. Tids = [i \in 1..n |-> tid(i)] /\ \A i \in 1..n : tid(i) \in Range(Tids)
    <3>1. Tids = [i \in 1..n |-> tid(i)]
      BY <1>2 DEF Tids
    <3> HIDE DEF tid, n
    <3> QED BY <3>1 DEF Range
  <2> HIDE DEF tid, n
  <2>2. Len([i \in 1..n |-> tid(i)]) = n /\ [i \in 1..n |-> tid(i)] \in Seq(Range(Tids))
    BY <1>2, <2>1, IsASeq
  <2> QED BY <2>1, <2>2
<1> QED BY <1>2, <1>4, <1>5

-------------------------------------------------------------------------------
(* What has been listed of a GIN page at each step of its loops.           *)
Rows == IF Listing \in {"items", "postings"} THEN page.gin.items ELSE Tids
Ahead == IF Listing = "postings" THEN <<page.gin.right>> ELSE <<>>
Final == IF Listing = "list" THEN SubSeq(Stored, 1, page.gin.maxoff) ELSE Stored
Many == IF Listing = "entries" THEN Len(Tuples) ELSE page.gin.maxoff
Decoded(items, a, v, pre, out) ==
  \E j \in 1..Len(items) : Position(items, j, a, v) /\ out = pre \o SubSeq(items, 1, j)

Listed ==
  /\ pc \in {"block", "header", "gin"} => listed = <<>>
  /\ pc = "segments" =>
       /\ Listing = "segments" /\ seg \in 1..(Len(page.gin.lists) + 1)
       /\ listed = Joined(page.gin.lists, seg - 1)
  /\ pc = "bytes" =>
       /\ Listing = "segments" /\ seg \in 1..Len(page.gin.lists)
       /\ Decoded(page.gin.lists[seg], at, val, Joined(page.gin.lists, seg - 1), listed)
  /\ pc \in {"tuples", "tuple", "tupleBytes"} =>
       /\ Listing = "tuples" /\ x \in 1..(Len(Tuples) + 1)
       /\ listed = Joined(TupleLists, x - 1)
  /\ InTuple => x \in 1..Len(Tuples) /\ ~Tuple.tree /\ Tuple.compressed /\ Tuple.count > 0
  /\ pc = "tuple" => (seg = 1 /\ ipd = <<>>) \/ (seg = 2 /\ ipd = Tuple.items)
  /\ pc = "tupleBytes" => seg = 1 /\ Decoded(Tuple.items, at, val, <<>>, ipd)
  /\ pc \in Plain =>
       /\ Listing = pc /\ x \in 1..(Many + 1)
       /\ listed = Ahead \o SubSeq(Rows, 1, x - 1)
  /\ pc \in {"special", "done"} /\ ~SplitEntry /\ ~Deleted => listed = Final

ListedSoFar == Walked /\ (Given /\ options.mode = "format" => Listed)

(* A compressed tuple has one segment.                                     *)
LEMMA TupleIs ==
  ASSUME page \in Pages, Given, Listing = "tuples", NEW i \in 1..Len(Tuples)
  PROVE  /\ Tuples[i].tree \in BOOLEAN /\ Tuples[i].compressed \in BOOLEAN
         /\ Tuples[i].count \in Nat
         /\ ~Tuples[i].tree =>
              /\ Tuples[i].count = Len(Tuples[i].items)
              /\ SubSeq(Tuples[i].items, 1, Tuples[i].count) = Tuples[i].items
         /\ ~Tuples[i].tree /\ Tuples[i].compressed /\ Tuples[i].count > 0 =>
              /\ PostingList(Tuples[i].items)
              /\ Len(Tuples[i].segs) = 1
              /\ Tuples[i].segs[1] = EncodeSegment(Tuples[i].items)
<1> DEFINE t == Tuples[i]
<1>1. i \in DOMAIN Tuples /\ t \in Range(page.gin.tuples)
  BY TuplesAre DEF Tuples
<1>2. /\ t.tree \in BOOLEAN /\ t.compressed \in BOOLEAN /\ t.count \in Nat
      /\ t.items \in Seq(Range(t.items))
  <2> HIDE DEF t
  <2> QED BY <1>1, GinAssumption
<1>3. /\ ~t.tree => t.count = Len(t.items)
      /\ ~t.tree /\ t.compressed /\ t.count > 0 =>
           PostingList(t.items) /\ t.segs = <<EncodeSegment(t.items)>>
  BY <1>1, GivenPage DEF Written
<1> HIDE DEF t
<1>4. SubSeq(t.items, 1, Len(t.items)) = t.items
  BY <1>2, SubSeqFull
<1>5. ~t.tree /\ t.compressed /\ t.count > 0 =>
        PostingList(t.items) /\ Len(t.segs) = 1 /\ t.segs[1] = EncodeSegment(t.items)
  <2> DEFINE e == EncodeSegment(t.items)
  <2> HIDE DEF e
  <2>1. Len(<<e>>) = 1 /\ <<e>>[1] = e
    OBVIOUS
  <2> QED BY <1>3, <2>1 DEF e
<1>6. ~t.tree => t.count = Len(t.items) /\ SubSeq(t.items, 1, t.count) = t.items
  BY <1>3, <1>4
<1> QED BY <1>2, <1>5, <1>6 DEF t

(* How many turns a plain loop makes.                                      *)
LEMMA RowsAre ==
  ASSUME page \in Pages, Given, Listing \in Plain
  PROVE  /\ Many \in Nat /\ Many <= Len(Rows) /\ Rows \in Seq(Range(Rows))
         /\ Final = Ahead \o SubSeq(Rows, 1, Many)
         /\ Ahead \in Seq(Range(Ahead))
         /\ pc = Listing => Turns = Many
         /\ pc = Listing /\ x \in 1..Len(Rows) => Entry = Rows[x]
<1> DEFINE I == page.gin.items
           m == page.gin.maxoff
           n == Len(Tuples)
<1>1. m \in Nat /\ I \in Seq(Range(I))
  BY GinAssumption
<1>2. n \in Nat /\ Len(Tids) = n /\ DOMAIN Tids = 1..n /\ Tids \in Seq(Range(Tids))
      /\ DOMAIN Tuples = 1..n
  BY TuplesAre
<1>3. Written
  BY GivenPage
<1>4. pc = Listing => Turns = Many
  BY DEF Turns, Many
<1>5. Ahead \in Seq(Range(Ahead))
  <2>1. Ahead = <<>> \/ Ahead = <<page.gin.right>>
    BY DEF Ahead
  <2>2. \A i \in DOMAIN Ahead : Ahead[i] \in Range(Ahead)
    BY DEF Range
  <2>3. Ahead = <<page.gin.right>> => page.gin.right \in Range(Ahead)
    <3>1. Ahead = <<page.gin.right>> => 1 \in DOMAIN Ahead /\ Ahead[1] = page.gin.right
      OBVIOUS
    <3> QED BY <2>2, <3>1
  <2> DEFINE R == Range(Ahead)
             r == page.gin.right
  <2> HIDE DEF R, r
  <2>4. Ahead = <<>> => Ahead \in Seq(R)
    OBVIOUS
  <2>5. Ahead = <<r>> /\ r \in R => Ahead \in Seq(R)
    OBVIOUS
  <2> QED BY <2>1, <2>3, <2>4, <2>5 DEF R, r
<1> HIDE DEF I, n
<1>6. CASE Listing \in {"items", "postings"}
  <2>1. Rows = I /\ Many = m /\ m = Len(I) /\ (pc = Listing => Entry = I[x])
    BY <1>3, <1>6 DEF Rows, Many, Entry, Written, I
  <2>2. SubSeq(I, 1, Many) = I
    BY <1>1, <2>1, SubSeqFull
  <2>3. Final = Ahead \o I
    <3>1. CASE Listing = "items"
      <4>1. Final = I /\ Ahead = <<>>
        BY <3>1 DEF Final, Stored, Ahead, I
      <4> QED BY <1>1, <4>1, ConcatEmptySeq
    <3>2. CASE Listing = "postings"
      BY <3>2 DEF Final, Stored, Ahead, I
    <3> QED BY <1>6, <3>1, <3>2
  <2> QED BY <1>1, <1>4, <1>5, <2>1, <2>2, <2>3
<1>7. CASE Listing \in {"list", "entries"}
  <2>1. /\ Rows = Tids /\ Many = (IF Listing = "entries" THEN n ELSE m) /\ Ahead = <<>>
        /\ pc = Listing => Entry = Tuple.tid
    BY <1>7 DEF Rows, Many, Entry, Ahead, n
  <2>2. Many \in Nat /\ Many <= n
    <3>1. Listing = "list" => m <= n
      BY <1>3 DEF Written, n
    <3> QED BY <1>1, <1>2, <1>7, <2>1, <3>1
  <2>3. pc = Listing /\ x \in 1..n => Entry = Tids[x]
    BY <1>2, <2>1 DEF Tids, Tuple
  <2>4. Final = SubSeq(Tids, 1, Many)
    <3>1. CASE Listing = "list"
      BY <2>1, <3>1 DEF Final, Stored, Tids
    <3>2. CASE Listing = "entries"
      <4>1. Final = Tids
        BY <3>2 DEF Final, Stored, Tids
      <4>2. SubSeq(Tids, 1, n) = Tids
        BY <1>2, SubSeqFull
      <4> QED BY <2>1, <3>2, <4>1, <4>2
    <3> QED BY <1>7, <3>1, <3>2
  <2>5. SubSeq(Tids, 1, Many) \in Seq(Range(Tids))
    <3> DEFINE k == Many
    <3>1. k \in Nat /\ k <= n
      BY <2>2
    <3> HIDE DEF k
    <3>2. \A j \in 1..k : Tids[j] \in Range(Tids)
      BY <1>2, <3>1 DEF Range
    <3>3. k \in Int /\ 1 \in Int
      BY <3>1
    <3>4. SubSeq(Tids, 1, k) \in Seq(Range(Tids))
      BY <3>2, <3>3, SubSeqProperties
    <3> QED BY <3>4 DEF k
  <2>6. Ahead \o SubSeq(Tids, 1, Many) = SubSeq(Tids, 1, Many)
    BY <2>1, <2>5, ConcatEmptySeq
  <2> QED BY <1>2, <1>4, <1>5, <2>1, <2>2, <2>3, <2>4, <2>6
<1> QED BY <1>6, <1>7 DEF Plain

(* Nothing of this depends on where the walk is.                           *)
LEMMA GinStays ==
  ASSUME page' = page, options' = options
  PROVE  /\ Given' = Given /\ Listing' = Listing /\ Tuples' = Tuples /\ TupleLists' = TupleLists
         /\ Tids' = Tids /\ Rows' = Rows /\ Ahead' = Ahead /\ Final' = Final
         /\ SplitEntry' = SplitEntry /\ Deleted' = Deleted
         /\ Many' = Many
<1>1. Listing' = Listing /\ Tuples' = Tuples /\ Deleted' = Deleted
  BY DEF Listing, Data, Leaf, List, Compressed, Deleted, Flag, Tuples
<1>2. TupleLists' = TupleLists /\ Tids' = Tids
  BY <1>1 DEF TupleLists, Tids
<1>3. Given' = Given /\ SplitEntry' = SplitEntry
  <2>1. Misread' = Misread /\ SplitEntry' = SplitEntry
    BY DEF Misread, SplitEntry
  <2> QED BY <2>1, PremiseStays DEF Given
<1>4. Stored' = Stored
  BY <1>1 DEF Stored, ListOf
<1> QED BY <1>1, <1>2, <1>3, <1>4 DEF Rows, Ahead, Final, Many

(* The items of a segment, the first and each of the others.               *)
LEMMA DecodedFirst ==
  ASSUME NEW items, PostingList(items), NEW pre \in Seq(ItemPointers)
  PROVE  Decoded(items, 0, itemptr_to_uint64(items[1]), pre, Append(pre, items[1]))
<1>1. Position(items, 1, 0, itemptr_to_uint64(items[1]))
  BY FirstPosition
<1>2. 1 \in 1..Len(items) /\ items \in Seq(ItemPointers)
  BY <1>1, EncodingsAre DEF Position
<1> DEFINE one == 1
<1>3. one = 1 => Append(pre, items[one]) = pre \o SubSeq(items, 1, one)
  <2>1. one \in 1..Len(items)
    BY <1>2
  <2> HIDE DEF one
  <2> QED BY <1>2, <2>1, OneMore
<1>4. Append(pre, items[1]) = pre \o SubSeq(items, 1, 1)
  BY <1>3
<1> QED BY <1>1, <1>2, <1>4 DEF Decoded

WithinBits(a, v, l) == a \in 0..l /\ v \in 0..(Offsets * Blocks - 1)

LEMMA DecodedNext ==
  ASSUME NEW items, PostingList(items), NEW pre \in Seq(ItemPointers),
         NEW a, NEW v, NEW out, Decoded(items, a, v, pre, out),
         NEW bytes, bytes = EncodeSegment(items).bytes,
         NEW rest, rest = SubSeq(bytes, a + 1, Len(bytes)),
         NEW n, n = VarbyteLength(rest),
         NEW w, w = v + Varbyte(rest, n)
  PROVE  /\ WithinBits(a, v, Len(bytes))
         /\ a >= Len(bytes) => out = pre \o items
         /\ a < Len(bytes) => Decoded(items, a + n, w, pre, Append(out, uint64_to_itemptr(w)))
<1>1. PICK j \in 1..Len(items) : Position(items, j, a, v) /\ out = pre \o SubSeq(items, 1, j)
  BY DEF Decoded
<1>2. Len(items) \in Nat \ {0} /\ items \in Seq(ItemPointers)
  BY EncodingsAre
<1>3. /\ a \in 0..Len(bytes) /\ v \in 0..(Offsets * Blocks - 1)
      /\ a >= Len(bytes) => j = Len(items)
      /\ a < Len(bytes) => /\ Position(items, j + 1, a + n, w)
                           /\ uint64_to_itemptr(w) = items[j + 1]
  <2>1. Advances(items, j, a, v, Len(bytes), n, w)
    BY <1>1, NextPosition
  <2> QED BY <2>1 DEF Advances
<1>4. a >= Len(bytes) => out = pre \o items
  <2>1. SubSeq(items, 1, Len(items)) = items
    BY <1>2, SubSeqFull
  <2> QED BY <1>1, <1>3, <2>1
<1>5. ASSUME a < Len(bytes)
      PROVE  Decoded(items, a + n, w, pre, Append(out, uint64_to_itemptr(w)))
  <2> DEFINE k == j + 1
  <2>1. Position(items, k, a + n, w) /\ uint64_to_itemptr(w) = items[k] /\ k - 1 = j
    BY <1>3, <1>5
  <2> HIDE DEF k
  <2>2. k \in 1..Len(items)
    BY <2>1 DEF Position
  <2>3. Append(pre \o SubSeq(items, 1, k - 1), items[k]) = pre \o SubSeq(items, 1, k)
    BY <1>2, <2>2, OneMore
  <2>4. Append(out, uint64_to_itemptr(w)) = pre \o SubSeq(items, 1, k)
    BY <1>1, <2>1, <2>3
  <2> QED BY <2>1, <2>2, <2>4 DEF Decoded
<1> QED BY <1>3, <1>4, <1>5 DEF WithinBits

(* What has been listed after a step, of the same page.                    *)
LEMMA ListedThen ==
  ASSUME page' = page, options' = options,
         pc' \in {"block", "header", "gin"} => listed' = <<>>,
         pc' = "segments" =>
           /\ Listing = "segments" /\ seg' \in 1..(Len(page.gin.lists) + 1)
           /\ listed' = Joined(page.gin.lists, seg' - 1),
         pc' = "bytes" =>
           /\ Listing = "segments" /\ seg' \in 1..Len(page.gin.lists)
           /\ Decoded(page.gin.lists[seg'], at', val', Joined(page.gin.lists, seg' - 1), listed'),
         pc' \in {"tuples", "tuple", "tupleBytes"} =>
           /\ Listing = "tuples" /\ x' \in 1..(Len(Tuples) + 1)
           /\ listed' = Joined(TupleLists, x' - 1),
         pc' \in {"tuple", "tupleBytes"} =>
           /\ x' \in 1..Len(Tuples) /\ ~Tuples[x'].tree
           /\ Tuples[x'].compressed /\ Tuples[x'].count > 0,
         pc' = "tuple" => (seg' = 1 /\ ipd' = <<>>) \/ (seg' = 2 /\ ipd' = Tuples[x'].items),
         pc' = "tupleBytes" => seg' = 1 /\ Decoded(Tuples[x'].items, at', val', <<>>, ipd'),
         pc' \in Plain =>
           /\ Listing = pc' /\ x' \in 1..(Many + 1)
           /\ listed' = Ahead \o SubSeq(Rows, 1, x' - 1),
         pc' \in {"special", "done"} /\ ~SplitEntry /\ ~Deleted => listed' = Final
  PROVE  Listed'
<1>1. /\ Listing' = Listing /\ Tuples' = Tuples /\ TupleLists' = TupleLists
      /\ Rows' = Rows /\ Ahead' = Ahead /\ Final' = Final
      /\ SplitEntry' = SplitEntry /\ Deleted' = Deleted /\ Many' = Many
  BY GinStays
<1>2. Tuple' = Tuples[x'] /\ InTuple' = (pc' \in {"tuple", "tupleBytes"}) /\ Plain' = Plain
  BY <1>1 DEF Tuple, InTuple, Plain
<1>3. (pc \in {"block", "header", "gin"} => listed = <<>>)'
  OBVIOUS
<1>4. (pc = "segments" =>
         /\ Listing = "segments" /\ seg \in 1..(Len(page.gin.lists) + 1)
         /\ listed = Joined(page.gin.lists, seg - 1))'
  BY <1>1
<1>5. (pc = "bytes" =>
         /\ Listing = "segments" /\ seg \in 1..Len(page.gin.lists)
         /\ Decoded(page.gin.lists[seg], at, val, Joined(page.gin.lists, seg - 1), listed))'
  BY <1>1
<1>6. (pc \in {"tuples", "tuple", "tupleBytes"} =>
         /\ Listing = "tuples" /\ x \in 1..(Len(Tuples) + 1)
         /\ listed = Joined(TupleLists, x - 1))'
  BY <1>1
<1>7. (InTuple => x \in 1..Len(Tuples) /\ ~Tuple.tree /\ Tuple.compressed /\ Tuple.count > 0)'
  BY <1>1, <1>2
<1>8. (pc = "tuple" => (seg = 1 /\ ipd = <<>>) \/ (seg = 2 /\ ipd = Tuple.items))'
  BY <1>2
<1>9. (pc = "tupleBytes" => seg = 1 /\ Decoded(Tuple.items, at, val, <<>>, ipd))'
  BY <1>2
<1>10. (pc \in Plain =>
          /\ Listing = pc /\ x \in 1..(Many + 1)
          /\ listed = Ahead \o SubSeq(Rows, 1, x - 1))'
  BY <1>1, <1>2
<1>11. (pc \in {"special", "done"} /\ ~SplitEntry /\ ~Deleted => listed = Final)'
  BY <1>1
<1> QED BY <1>3, <1>4, <1>5, <1>6, <1>7, <1>8, <1>9, <1>10, <1>11 DEF Listed

(* The items of the segment that is read, and what has been found of it.   *)
Items == IF InTuple THEN Tuple.items ELSE page.gin.lists[seg]
Before == IF InTuple THEN <<>> ELSE Joined(page.gin.lists, seg - 1)
FoundSoFar == IF InTuple THEN ipd ELSE listed

LEMMA SegmentIs ==
  ASSUME page \in Pages, Given, Listed,
         \/ pc \in {"bytes", "tupleBytes"}
         \/ pc \in {"segments", "tuple"} /\ seg <= Len(Segs)
  PROVE  /\ PostingList(Items) /\ Segment = EncodeSegment(Items) /\ Before \in Seq(ItemPointers)
         /\ InTuple => seg = 1 /\ Listing = "tuples" /\ x \in 1..Len(Tuples)
         /\ pc = "tuple" => ipd = <<>>
         /\ ~InTuple => seg \in 1..Len(page.gin.lists) /\ Listing = "segments"
         /\ pc = "segments" => listed = Before
         /\ pc \in {"bytes", "tupleBytes"} => Decoded(Items, at, val, Before, FoundSoFar)
<1> DEFINE L == page.gin.lists
<1>1. CASE pc \in {"segments", "bytes"}
  <2>1. ~InTuple /\ Listing = "segments" /\ Segs = page.gin.segs
    BY <1>1 DEF Listed, InTuple, Segs
  <2>2. /\ L \in Seq(Seq(ItemPointers)) /\ Len(page.gin.segs) = Len(L) /\ Len(L) \in Nat
        /\ \A i \in 1..Len(L) : PostingList(L[i]) /\ page.gin.segs[i] = EncodeSegment(L[i])
    BY <2>1, ListsAre
  <2>3. seg \in 1..Len(L)
    <3>1. CASE pc = "bytes"
      BY <3>1 DEF Listed
    <3>2. CASE pc = "segments"
      <4> DEFINE n == Len(L)
      <4>1. seg \in 1..(n + 1) /\ seg <= n /\ n \in Nat
        BY <2>1, <2>2, <3>2 DEF Listed
      <4> HIDE DEF n
      <4>2. seg \in 1..n
        BY <4>1
      <4> QED BY <4>2 DEF n
    <3> QED BY <1>1, <3>1, <3>2
  <2>4. Segment = page.gin.segs[seg] /\ Items = L[seg] /\ Before = Joined(L, seg - 1)
        /\ FoundSoFar = listed
    BY <2>1 DEF Segment, Items, Before, FoundSoFar
  <2>5. Before \in Seq(ItemPointers)
    <3> DEFINE n == Len(L)
    <3>1. n \in Nat /\ seg \in 1..n
      BY <2>2, <2>3
    <3>2. \A i \in 0..n : Joined(L, i) \in Seq(ItemPointers)
      BY <2>2, JoinedStep
    <3> HIDE DEF n
    <3>3. seg - 1 \in 0..n
      BY <3>1
    <3> QED BY <2>4, <3>2, <3>3
  <2>6. pc = "segments" => listed = Before
    BY <2>4 DEF Listed
  <2>7. pc \in {"bytes", "tupleBytes"} => Decoded(Items, at, val, Before, FoundSoFar)
    BY <1>1, <2>4 DEF Listed
  <2>8. PostingList(Items) /\ Segment = EncodeSegment(Items) /\ pc # "tuple"
    BY <1>1, <2>2, <2>3, <2>4
  <2> QED BY <2>1, <2>3, <2>5, <2>6, <2>7, <2>8
<1>2. CASE pc \in {"tuple", "tupleBytes"}
  <2>1. /\ InTuple /\ Listing = "tuples" /\ Segs = Tuple.segs /\ x \in 1..Len(Tuples)
        /\ ~Tuple.tree /\ Tuple.compressed /\ Tuple.count > 0
    BY <1>2 DEF Listed, InTuple, Segs
  <2>2. /\ PostingList(Tuple.items) /\ Len(Tuple.segs) = 1
        /\ Tuple.segs[1] = EncodeSegment(Tuple.items)
    BY <2>1, TupleIs DEF Tuple
  <2>3. Items = Tuple.items /\ Before = <<>> /\ FoundSoFar = ipd
    BY <2>1 DEF Items, Before, FoundSoFar
  <2>4. seg = 1 /\ (pc = "tuple" => ipd = <<>>)
    <3>1. CASE pc = "tupleBytes"
      BY <3>1 DEF Listed
    <3>2. CASE pc = "tuple"
      <4>1. (seg = 1 /\ ipd = <<>>) \/ (seg = 2 /\ ipd = Tuple.items)
        BY <3>2 DEF Listed
      <4>2. seg <= 1
        BY <2>1, <2>2, <3>2
      <4> QED BY <4>1, <4>2
    <3> QED BY <1>2, <3>1, <3>2
  <2>5. pc \in {"bytes", "tupleBytes"} => Decoded(Items, at, val, Before, FoundSoFar)
    BY <1>2, <2>3 DEF Listed
  <2>6. Segment = EncodeSegment(Items) /\ PostingList(Items) /\ pc # "segments"
    BY <1>2, <2>1, <2>2, <2>3, <2>4 DEF Segment
  <2>7. Before \in Seq(ItemPointers)
    BY <2>3
  <2> QED BY <2>1, <2>4, <2>5, <2>6, <2>7
<1> QED BY <1>1, <1>2

LEMMA FirstListed ==
  ASSUME page \in Pages, Given, Listed, options' = options, FirstOfSegment
  PROVE  Listed'
<1>1. /\ pc \in {"segments", "tuple"} /\ seg <= Len(Segs) /\ Found(Segment.first)
      /\ val' = itemptr_to_uint64(Segment.first) /\ at' = 0
      /\ pc' = (IF InTuple THEN "tupleBytes" ELSE "bytes")
      /\ page' = page /\ x' = x /\ seg' = seg /\ errors' = errors
  BY DEF FirstOfSegment
<1>2. /\ PostingList(Items) /\ Segment = EncodeSegment(Items) /\ Before \in Seq(ItemPointers)
      /\ InTuple => seg = 1 /\ Listing = "tuples" /\ x \in 1..Len(Tuples)
      /\ pc = "tuple" => ipd = <<>>
      /\ ~InTuple => seg \in 1..Len(page.gin.lists) /\ Listing = "segments"
      /\ pc = "segments" => listed = Before
  BY <1>1, SegmentIs
<1>3. Segment.first = Items[1]
  BY <1>2, EncodingsAre
<1>4. Decoded(Items, 0, itemptr_to_uint64(Items[1]), Before, Append(Before, Items[1]))
  BY <1>2, DecodedFirst
<1>5. Decoded(Items, at', val', Before, Append(Before, Segment.first))
  BY <1>1, <1>3, <1>4
<1>6. CASE pc = "segments"
  <2>1. ~InTuple /\ pc' = "bytes" /\ Items = page.gin.lists[seg]
        /\ Before = Joined(page.gin.lists, seg - 1)
    BY <1>1, <1>6 DEF InTuple, Items, Before
  <2>2. listed' = Append(Before, Segment.first)
    BY <1>1, <1>2, <1>6, <2>1 DEF Found
  <2>3. Decoded(page.gin.lists[seg'], at', val', Joined(page.gin.lists, seg' - 1), listed')
    BY <1>1, <1>5, <2>1, <2>2
  <2> QED BY <1>1, <1>2, <2>1, <2>3, ListedThen DEF Plain
<1>7. CASE pc = "tuple"
  <2>1. InTuple /\ pc' = "tupleBytes" /\ Items = Tuples[x'].items /\ Before = <<>>
    BY <1>1, <1>7 DEF InTuple, Items, Before, Tuple
  <2>2. ipd' = Append(Before, Segment.first) /\ listed' = listed
    BY <1>1, <1>2, <1>7, <2>1 DEF Found
  <2>3. Decoded(Tuples[x'].items, at', val', <<>>, ipd')
    BY <1>5, <2>1, <2>2
  <2>4. /\ Listing = "tuples" /\ x' \in 1..(Len(Tuples) + 1) /\ listed' = Joined(TupleLists, x' - 1)
        /\ x' \in 1..Len(Tuples) /\ ~Tuples[x'].tree
        /\ Tuples[x'].compressed /\ Tuples[x'].count > 0
    BY <1>1, <1>2, <1>7, <2>1, <2>2 DEF Listed, Tuple
  <2> QED BY <1>1, <1>2, <2>1, <2>3, <2>4, ListedThen DEF Plain
<1> QED BY <1>1, <1>6, <1>7

LEMMA NextListed ==
  ASSUME page \in Pages, Given, Listed, options' = options, NextOfSegment
  PROVE  Listed'
<1> DEFINE bytes == Segment.bytes
           rest == SubSeq(bytes, at + 1, Len(bytes))
           n == VarbyteLength(rest)
           w == val + Varbyte(rest, n)
<1>1. /\ pc \in {"bytes", "tupleBytes"} /\ at < Len(bytes)
      /\ val' = w /\ at' = at + n /\ Found(uint64_to_itemptr(val'))
      /\ page' = page /\ pc' = pc /\ x' = x /\ seg' = seg
  BY DEF NextOfSegment
<1>2. /\ PostingList(Items) /\ Segment = EncodeSegment(Items) /\ Before \in Seq(ItemPointers)
      /\ InTuple => seg = 1 /\ Listing = "tuples" /\ x \in 1..Len(Tuples)
      /\ ~InTuple => seg \in 1..Len(page.gin.lists) /\ Listing = "segments"
      /\ Decoded(Items, at, val, Before, FoundSoFar)
  BY <1>1, SegmentIs
<1>3. bytes = EncodeSegment(Items).bytes
  BY <1>2
<1> HIDE DEF bytes
<1>4. \A r, k, v : r = rest /\ k = VarbyteLength(r) /\ v = val + Varbyte(r, k) =>
        Decoded(Items, at + k, v, Before, Append(FoundSoFar, uint64_to_itemptr(v)))
  <2> SUFFICES ASSUME NEW r, r = rest, NEW k, k = VarbyteLength(r), NEW v, v = val + Varbyte(r, k)
               PROVE  Decoded(Items, at + k, v, Before, Append(FoundSoFar, uint64_to_itemptr(v)))
    OBVIOUS
  <2> QED BY <1>1, <1>2, <1>3, DecodedNext
<1>5. Decoded(Items, at', val', Before, Append(FoundSoFar, uint64_to_itemptr(val')))
  <2>1. n = VarbyteLength(rest) /\ w = val + Varbyte(rest, n)
    OBVIOUS
  <2> HIDE DEF rest, n, w
  <2> QED BY <1>1, <1>4, <2>1
<1> HIDE DEF rest, n, w
<1>6. CASE pc = "bytes"
  <2>1. ~InTuple /\ pc' = "bytes" /\ Items = page.gin.lists[seg]
        /\ Before = Joined(page.gin.lists, seg - 1) /\ FoundSoFar = listed
    BY <1>1, <1>6 DEF InTuple, Items, Before, FoundSoFar
  <2>2. listed' = Append(FoundSoFar, uint64_to_itemptr(val'))
    BY <1>1, <2>1 DEF Found
  <2>3. Decoded(page.gin.lists[seg'], at', val', Joined(page.gin.lists, seg' - 1), listed')
    BY <1>1, <1>5, <2>1, <2>2
  <2> QED BY <1>1, <1>2, <2>1, <2>3, ListedThen DEF Plain
<1>7. CASE pc = "tupleBytes"
  <2>1. InTuple /\ pc' = "tupleBytes" /\ Items = Tuples[x'].items /\ Before = <<>>
        /\ FoundSoFar = ipd
    BY <1>1, <1>7 DEF InTuple, Items, Before, FoundSoFar, Tuple
  <2>2. ipd' = Append(FoundSoFar, uint64_to_itemptr(val')) /\ listed' = listed
    BY <1>1, <2>1 DEF Found
  <2>3. Decoded(Tuples[x'].items, at', val', <<>>, ipd')
    BY <1>5, <2>1, <2>2
  <2>4. /\ Listing = "tuples" /\ x' \in 1..(Len(Tuples) + 1) /\ listed' = Joined(TupleLists, x' - 1)
        /\ x' \in 1..Len(Tuples) /\ ~Tuples[x'].tree
        /\ Tuples[x'].compressed /\ Tuples[x'].count > 0
    BY <1>1, <1>2, <1>7, <2>1, <2>2 DEF Listed, Tuple
  <2> QED BY <1>1, <1>2, <2>1, <2>3, <2>4, ListedThen DEF Plain
<1> QED BY <1>1, <1>6, <1>7

LEMMA SegmentListed ==
  ASSUME page \in Pages, Given, Listed, options' = options, EndOfSegment
  PROVE  Listed'
<1>1. /\ pc \in {"bytes", "tupleBytes"} /\ at >= Len(Segment.bytes)
      /\ pc' = (IF InTuple THEN "tuple" ELSE "segments") /\ seg' = seg + 1
      /\ page' = page /\ x' = x /\ ipd' = ipd /\ listed' = listed
  BY DEF EndOfSegment
<1>2. /\ PostingList(Items) /\ Segment = EncodeSegment(Items) /\ Before \in Seq(ItemPointers)
      /\ InTuple => seg = 1 /\ Listing = "tuples" /\ x \in 1..Len(Tuples)
      /\ ~InTuple => seg \in 1..Len(page.gin.lists) /\ Listing = "segments"
      /\ Decoded(Items, at, val, Before, FoundSoFar)
  BY <1>1, SegmentIs
<1>3. FoundSoFar = Before \o Items
  <2> DEFINE b == Segment.bytes
             r == SubSeq(b, at + 1, Len(b))
             k == VarbyteLength(r)
             v == val + Varbyte(r, k)
  <2>1. b = EncodeSegment(Items).bytes /\ at >= Len(b)
    BY <1>1, <1>2
  <2> HIDE DEF b
  <2>2. r = SubSeq(b, at + 1, Len(b)) /\ k = VarbyteLength(r) /\ v = val + Varbyte(r, k)
    OBVIOUS
  <2> HIDE DEF r, k, v
  <2> QED BY <1>2, <2>1, <2>2, DecodedNext
<1>4. CASE pc = "bytes"
  <2> DEFINE L == page.gin.lists
             n == Len(L)
             i == seg'
  <2>1. ~InTuple /\ pc' = "segments" /\ Items = L[seg]
        /\ Before = Joined(L, seg - 1) /\ FoundSoFar = listed
    BY <1>1, <1>4 DEF InTuple, Items, Before, FoundSoFar
  <2>2. L \in Seq(Seq(ItemPointers)) /\ n \in Nat /\ seg \in 1..n
    BY <1>2, <2>1, ListsAre
  <2>3. Joined(L, seg) = Joined(L, seg - 1) \o L[seg]
    BY <2>2, JoinedStep
  <2> HIDE DEF n, L
  <2>4. i \in 1..(n + 1) /\ i - 1 = seg
    BY <1>1, <2>2
  <2>5. listed' = Joined(L, i - 1)
    BY <1>1, <1>3, <2>1, <2>3, <2>4
  <2> QED BY <1>1, <1>2, <2>1, <2>4, <2>5, ListedThen DEF Plain, n, L
<1>5. CASE pc = "tupleBytes"
  <2>1. InTuple /\ pc' = "tuple" /\ Items = Tuples[x'].items /\ Before = <<>>
        /\ FoundSoFar = ipd
    BY <1>1, <1>5 DEF InTuple, Items, Before, FoundSoFar, Tuple
  <2>2. ipd' = Tuples[x'].items
    <3>1. Items \in Seq(ItemPointers)
      BY <1>2, EncodingsAre
    <3>2. <<>> \o Items = Items
      BY <3>1, ConcatEmptySeq
    <3> QED BY <1>1, <1>3, <2>1, <3>2
  <2>3. seg' = 2
    BY <1>1, <1>2, <2>1
  <2>4. /\ Listing = "tuples" /\ x' \in 1..(Len(Tuples) + 1) /\ listed' = Joined(TupleLists, x' - 1)
        /\ x' \in 1..Len(Tuples) /\ ~Tuples[x'].tree
        /\ Tuples[x'].compressed /\ Tuples[x'].count > 0
    BY <1>1, <1>2, <1>5, <2>1 DEF Listed, Tuple
  <2> QED BY <1>1, <1>2, <2>1, <2>2, <2>3, <2>4, ListedThen DEF Plain
<1> QED BY <1>1, <1>4, <1>5

(* A tuple of an entry leaf adds its items.                                *)
LEMMA TupleAdded ==
  ASSUME page \in Pages, Given, Listing = "tuples", NEW i \in 1..Len(Tuples),
         NEW ls, ls = Joined(TupleLists, i - 1)
  PROVE  /\ Tuples[i].tree => Append(ls, Tuples[i].root) = Joined(TupleLists, i)
         /\ ~Tuples[i].tree =>
              ls \o SubSeq(Tuples[i].items, 1, Tuples[i].count) = Joined(TupleLists, i)
         /\ i + 1 \in 1..(Len(Tuples) + 1)
<1> DEFINE n == Len(Tuples)
           t == Tuples[i]
<1>1. /\ n \in Nat /\ DOMAIN Tuples = 1..n /\ Len(TupleLists) = n
      /\ \E S : TupleLists \in Seq(Seq(S))
  BY TuplesAre
<1>2. PICK S : TupleLists \in Seq(Seq(S))
  BY <1>1
<1>3. i \in 1..n /\ i \in 1..Len(TupleLists)
  BY <1>1
<1>4. Joined(TupleLists, i) = Joined(TupleLists, i - 1) \o TupleLists[i]
  BY <1>2, <1>3, JoinedStep
<1>5. TupleLists[i] = IF t.tree THEN <<t.root>> ELSE t.items
  BY <1>1, <1>3 DEF TupleLists, ListOf
<1>6. ~t.tree => SubSeq(t.items, 1, t.count) = t.items
  BY TupleIs
<1>7. ls \in Seq(S)
  <2>1. \A k \in 0..Len(TupleLists) : Joined(TupleLists, k) \in Seq(S)
    BY <1>2, JoinedStep
  <2> HIDE DEF n
  <2>2. i - 1 \in 0..Len(TupleLists)
    BY <1>1, <1>3
  <2> QED BY <2>1, <2>2
<1>8. t.tree => Append(ls, t.root) = ls \o <<t.root>>
  <2> DEFINE r == t.root
  <2>1. t.tree => r \in S
    <3>1. TupleLists[i] \in Seq(S)
      BY <1>2, <1>3
    <3>2. t.tree => TupleLists[i] = <<r>>
      BY <1>5
    <3> HIDE DEF r, t
    <3>3. t.tree => <<r>> \in Seq(S)
      BY <3>1, <3>2
    <3>4. <<r>> \in Seq(S) => <<r>>[1] \in S
      OBVIOUS
    <3>5. <<r>>[1] = r
      OBVIOUS
    <3> QED BY <3>3, <3>4, <3>5
  <2> HIDE DEF r, t
  <2> QED BY <1>7, <2>1, AppendIsConcat DEF r
<1>9. i + 1 \in 1..(n + 1)
  <2> HIDE DEF n
  <2> QED BY <1>1, <1>3
<1> HIDE DEF t
<1>10. t.tree => Append(ls, t.root) = Joined(TupleLists, i)
  BY <1>4, <1>5, <1>8
<1>11. ~t.tree => ls \o SubSeq(t.items, 1, t.count) = Joined(TupleLists, i)
  BY <1>4, <1>5, <1>6
<1> QED BY <1>9, <1>10, <1>11 DEF n, t

LEMMA TupleListed ==
  ASSUME page \in Pages, Given, Listed, options' = options, PrintTuple \/ EntryTuple
  PROVE  Listed'
<1>1. CASE PrintTuple
  <2>1. /\ pc = "tuple" /\ seg > Len(Segs) /\ listed' = listed \o SubSeq(ipd, 1, Tuple.count)
        /\ x' = x + 1 /\ pc' = "tuples" /\ page' = page
    BY <1>1 DEF PrintTuple
  <2>2. /\ Listing = "tuples" /\ x \in 1..Len(Tuples) /\ ~Tuple.tree /\ Tuple.compressed
        /\ Tuple.count > 0 /\ listed = Joined(TupleLists, x - 1)
        /\ (seg = 1 /\ ipd = <<>>) \/ (seg = 2 /\ ipd = Tuple.items)
    BY <2>1 DEF Listed, InTuple
  <2>3. Segs = Tuple.segs /\ Len(Tuple.segs) = 1
    <3>1. Segs = Tuple.segs
      BY <2>1 DEF Segs
    <3> QED BY <2>2, <3>1, TupleIs DEF Tuple
  <2>4. ipd = Tuple.items
    BY <2>1, <2>2, <2>3
  <2>5. listed' = Joined(TupleLists, x) /\ x' \in 1..(Len(Tuples) + 1)
    BY <2>1, <2>2, <2>4, TupleAdded DEF Tuple
  <2>6. x' - 1 = x
    BY <2>1, <2>2
  <2> QED BY <2>1, <2>2, <2>5, <2>6, ListedThen DEF Plain
<1>2. CASE EntryTuple
  <2>1. /\ pc = "tuples" /\ x <= Len(Tuples) /\ page' = page
        /\ \/ /\ Tuple.tree /\ listed' = Append(listed, Tuple.root) /\ x' = x + 1 /\ pc' = pc
           \/ /\ ~Tuple.tree /\ listed' = listed \o SubSeq(Tuple.items, 1, Tuple.count)
              /\ x' = x + 1 /\ pc' = pc
           \/ /\ ~Tuple.tree /\ Tuple.compressed /\ Tuple.count > 0
              /\ pc' = "tuple" /\ seg' = 1 /\ ipd' = <<>> /\ x' = x /\ listed' = listed
    BY <1>2 DEF EntryTuple
  <2>2. /\ Listing = "tuples" /\ x \in 1..(Len(Tuples) + 1)
        /\ listed = Joined(TupleLists, x - 1)
    BY <2>1 DEF Listed
  <2>3. x \in 1..Len(Tuples)
    <3> DEFINE n == Len(Tuples)
    <3>1. n \in Nat /\ x \in 1..(n + 1) /\ x <= n
      BY <2>1, <2>2, TuplesAre
    <3> HIDE DEF n
    <3>2. x \in 1..n
      BY <3>1
    <3> QED BY <3>2 DEF n
  <2>4. CASE x' = x + 1 /\ pc' = pc
    <3>1. \/ Tuple.tree /\ listed' = Append(listed, Tuple.root)
          \/ ~Tuple.tree /\ listed' = listed \o SubSeq(Tuple.items, 1, Tuple.count)
      <4>1. pc' # "tuple"
        BY <2>1, <2>4
      <4> QED BY <2>1, <4>1
    <3>2. /\ Tuples[x].tree => Append(listed, Tuples[x].root) = Joined(TupleLists, x)
          /\ ~Tuples[x].tree =>
               listed \o SubSeq(Tuples[x].items, 1, Tuples[x].count) = Joined(TupleLists, x)
          /\ x + 1 \in 1..(Len(Tuples) + 1)
      BY <2>2, <2>3, TupleAdded
    <3>3. listed' = Joined(TupleLists, x) /\ x' \in 1..(Len(Tuples) + 1)
      BY <2>4, <3>1, <3>2 DEF Tuple
    <3>4. x' - 1 = x
      BY <2>3, <2>4
    <3>5. pc' = "tuples"
      BY <2>1, <2>4
    <3> QED BY <2>1, <2>2, <3>3, <3>4, <3>5, ListedThen DEF Plain
  <2>5. CASE pc' = "tuple" /\ seg' = 1 /\ ipd' = <<>> /\ x' = x /\ listed' = listed
    <3>1. ~Tuple.tree /\ Tuple.compressed /\ Tuple.count > 0
      <4>1. pc' # pc
        BY <2>1, <2>5
      <4> QED BY <2>1, <4>1
    <3>2. /\ x' \in 1..Len(Tuples) /\ ~Tuples[x'].tree
          /\ Tuples[x'].compressed /\ Tuples[x'].count > 0
      BY <2>3, <2>5, <3>1 DEF Tuple
    <3> QED BY <2>1, <2>2, <2>5, <3>2, ListedThen DEF Plain
  <2> QED BY <2>1, <2>4, <2>5
<1> QED BY <1>1, <1>2

LEMMA PlainListed ==
  ASSUME page \in Pages, Given, Listed, options' = options, PlainEntry
  PROVE  Listed'
<1>1. /\ pc \in Plain /\ x <= Turns /\ listed' = Append(listed, Entry) /\ x' = x + 1
      /\ pc' = pc /\ page' = page
  BY DEF PlainEntry
<1>2. Listing = pc /\ x \in 1..(Many + 1) /\ listed = Ahead \o SubSeq(Rows, 1, x - 1)
  BY <1>1 DEF Listed
<1>3. /\ Many \in Nat /\ Many <= Len(Rows) /\ Rows \in Seq(Range(Rows)) /\ Turns = Many
      /\ Ahead \in Seq(Range(Ahead))
      /\ x \in 1..Len(Rows) => Entry = Rows[x]
  BY <1>1, <1>2, RowsAre
<1> DEFINE l == Len(Rows)
           m == Many
<1>4. l \in Nat /\ m \in Nat /\ m <= l
  BY <1>3
<1> HIDE DEF l, m
<1>5. x \in 1..l /\ x + 1 \in 1..(m + 1) /\ (x + 1) - 1 = x
  BY <1>1, <1>2, <1>3, <1>4 DEF m
<1>6. Entry = Rows[x]
  BY <1>3, <1>5 DEF l
<1>7. Append(Ahead \o SubSeq(Rows, 1, x - 1), Rows[x]) = Ahead \o SubSeq(Rows, 1, x)
  <2> DEFINE A == Range(Ahead)
             R == Range(Rows)
             S == A \cup R
             a == Ahead
             r == Rows
  <2>1. a \in Seq(A) /\ r \in Seq(R) /\ A \subseteq S /\ R \subseteq S
    BY <1>3
  <2> HIDE DEF A, R, S, a, r
  <2>2. a \in Seq(S) /\ r \in Seq(S)
    BY <2>1, SeqMonotonic
  <2>3. x \in 1..Len(r)
    BY <1>5 DEF l, r
  <2>4. Append(a \o SubSeq(r, 1, x - 1), r[x]) = a \o SubSeq(r, 1, x)
    BY <2>2, <2>3, OneMore
  <2> QED BY <2>4 DEF a, r
<1>8. listed' = Ahead \o SubSeq(Rows, 1, x' - 1) /\ x' \in 1..(Many + 1)
  BY <1>1, <1>2, <1>5, <1>6, <1>7 DEF m
<1>9. pc' \in Plain /\ Listing = pc'
  BY <1>1, <1>2
<1> QED BY <1>1, <1>8, <1>9, ListedThen DEF Plain

LEMMA StartListed ==
  ASSUME page \in Pages, Given, Listed, options' = options, StartGin
  PROVE  Listed'
<1>1. /\ pc = "gin" /\ page' = page /\ x' = 1 /\ seg' = 1
      /\ pc' = (IF Deleted \/ Listing = "unknown" THEN "special" ELSE Listing)
      /\ listed' = (IF ~Deleted /\ Listing = "postings" THEN <<page.gin.right>> ELSE listed)
  BY DEF StartGin
<1>2. listed = <<>>
  BY <1>1 DEF Listed
<1>3. SplitEntry \/ Deleted \/ Listing # "unknown"
  BY GivenPage
<1>4. CASE Deleted \/ Listing = "unknown"
  <2>1. pc' = "special" /\ (SplitEntry \/ Deleted)
    BY <1>1, <1>3, <1>4
  <2> QED BY <1>1, <2>1, ListedThen DEF Plain
<1>5. CASE ~(Deleted \/ Listing = "unknown") /\ Listing = "segments"
  <2> DEFINE n == Len(page.gin.lists)
  <2>1. page.gin.lists \in Seq(Seq(ItemPointers)) /\ n \in Nat
    BY <1>5, ListsAre
  <2>2. Joined(page.gin.lists, 0) = <<>>
    BY <2>1, JoinedStep
  <2>3. pc' = "segments" /\ listed' = <<>> /\ seg' - 1 = 0
    BY <1>1, <1>2, <1>5
  <2> HIDE DEF n
  <2>4. seg' \in 1..(n + 1)
    BY <1>1, <2>1
  <2> QED BY <1>1, <1>5, <2>2, <2>3, <2>4, ListedThen DEF Plain, n
<1>6. CASE ~(Deleted \/ Listing = "unknown") /\ Listing = "tuples"
  <2> DEFINE n == Len(Tuples)
  <2>1. n \in Nat /\ \E S : TupleLists \in Seq(Seq(S))
    BY TuplesAre
  <2>2. Joined(TupleLists, 0) = <<>>
    BY <2>1, JoinedStep
  <2>3. pc' = "tuples" /\ listed' = <<>> /\ x' - 1 = 0
    BY <1>1, <1>2, <1>6
  <2> HIDE DEF n
  <2>4. x' \in 1..(n + 1)
    BY <1>1, <2>1
  <2> QED BY <1>1, <1>6, <2>2, <2>3, <2>4, ListedThen DEF Plain, n
<1>7. CASE ~(Deleted \/ Listing = "unknown") /\ Listing \in Plain
  <2>1. /\ Many \in Nat /\ Len(Rows) \in Nat /\ Rows \in Seq(Range(Rows))
        /\ Ahead \in Seq(Range(Ahead))
    BY <1>7, RowsAre
  <2>2. pc' \in Plain /\ Listing = pc' /\ x' - 1 = 0
    BY <1>1, <1>7
  <2>3. SubSeq(Rows, 1, 0) = <<>>
    <3> DEFINE r == Rows
               R == Range(Rows)
    <3>1. r \in Seq(R)
      BY <2>1
    <3> HIDE DEF r, R
    <3>2. \A i \in 1..0 : r[i] \in R
      OBVIOUS
    <3>3. SubSeq(r, 1, 0) = <<>>
      BY <3>1
    <3> QED BY <3>3 DEF r
  <2>4. Ahead \o <<>> = Ahead
    BY <2>1, ConcatEmptySeq
  <2>5. listed' = Ahead
    BY <1>1, <1>2, <1>7 DEF Ahead
  <2> DEFINE m == Many
  <2>6. m \in Nat
    BY <2>1
  <2> HIDE DEF m
  <2>7. x' \in 1..(m + 1)
    BY <1>1, <2>6
  <2> QED BY <1>1, <2>2, <2>3, <2>4, <2>5, <2>7, ListedThen DEF Plain, m
<1>8. Listing \in {"segments", "tuples", "unknown"} \cup Plain
  BY DEF Listing, Plain
<1> QED BY <1>4, <1>5, <1>6, <1>7, <1>8

LEMMA EndListed ==
  ASSUME page \in Pages, Given, Listed, options' = options, EndGin
  PROVE  Listed'
<1>1. /\ \/ pc \in Plain /\ x > Turns
         \/ pc = "segments" /\ seg > Len(Segs)
         \/ pc = "tuples" /\ x > Len(Tuples)
      /\ pc' = "special" /\ page' = page /\ listed' = listed
  BY DEF EndGin
<1>2. CASE pc \in Plain /\ x > Turns
  <2>1. Listing = pc /\ x \in 1..(Many + 1) /\ listed = Ahead \o SubSeq(Rows, 1, x - 1)
    BY <1>2 DEF Listed
  <2>2. Many \in Nat /\ Turns = Many /\ Final = Ahead \o SubSeq(Rows, 1, Many)
    BY <1>2, <2>1, RowsAre
  <2> DEFINE m == Many
  <2>3. m \in Nat /\ x > m /\ x \in 1..(m + 1)
    BY <1>2, <2>1, <2>2
  <2> HIDE DEF m
  <2>4. x - 1 = m
    BY <2>3
  <2>5. listed' = Final
    BY <1>1, <2>1, <2>2, <2>4 DEF m
  <2> QED BY <1>1, <2>5, ListedThen DEF Plain
<1>3. CASE pc = "segments" /\ seg > Len(Segs)
  <2> DEFINE L == page.gin.lists
             n == Len(L)
  <2>1. Listing = "segments" /\ seg \in 1..(n + 1) /\ listed = Joined(L, seg - 1)
    BY <1>3 DEF Listed
  <2>2. L \in Seq(Seq(ItemPointers)) /\ n \in Nat /\ Len(Segs) = n
    BY <1>3, <2>1, ListsAre DEF Segs
  <2>3. Joined(L, n) = FlattenSeq(L)
    BY <2>2, JoinedStep
  <2>4. Final = FlattenSeq(L)
    BY <2>1 DEF Final, Stored
  <2> HIDE DEF n, L
  <2>5. seg - 1 = n
    BY <1>3, <2>1, <2>2
  <2>6. listed' = Final
    BY <1>1, <2>1, <2>3, <2>4, <2>5
  <2> QED BY <1>1, <2>6, ListedThen DEF Plain
<1>4. CASE pc = "tuples" /\ x > Len(Tuples)
  <2> DEFINE n == Len(Tuples)
  <2>1. Listing = "tuples" /\ x \in 1..(n + 1) /\ listed = Joined(TupleLists, x - 1)
    BY <1>4 DEF Listed
  <2>2. n \in Nat /\ Len(TupleLists) = n /\ \E S : TupleLists \in Seq(Seq(S))
    BY TuplesAre
  <2>3. Joined(TupleLists, n) = FlattenSeq(TupleLists)
    <3> HIDE DEF n
    <3> QED BY <2>2, JoinedStep
  <2>4. Final = FlattenSeq(TupleLists)
    BY <2>1 DEF Final, Stored, TupleLists
  <2>a. x > n
    BY <1>4
  <2> HIDE DEF n
  <2>5. x - 1 = n
    BY <2>1, <2>2, <2>a
  <2>6. listed' = Final
    BY <1>1, <2>1, <2>3, <2>4, <2>5
  <2> QED BY <1>1, <2>6, ListedThen DEF Plain
<1> QED BY <1>1, <1>2, <1>3, <1>4

LEMMA ListedInit == Init => ListedSoFar
<1> SUFFICES ASSUME Init PROVE ListedSoFar
  OBVIOUS
<1>1. pc = "block" /\ listed = <<>>
  BY DEF Init
<1>2. Listed
  BY <1>1 DEF Listed, InTuple, Plain
<1> QED BY <1>2, WalkedInit DEF ListedSoFar

LEMMA ListedNext == ListedSoFar /\ [Next]_vars => ListedSoFar'
<1> SUFFICES ASSUME ListedSoFar, [Next]_vars PROVE ListedSoFar'
  OBVIOUS
<1>1. Walked /\ Walked' /\ page \in Pages /\ page' = page /\ options' = options
  <2>1. Walked /\ Walked'
    BY WalkedNext DEF ListedSoFar
  <2>2. page \in Pages
    BY <2>1 DEF Walked, Begun
  <2> QED BY <2>1, <2>2, PageStays
<1>2. Given' = Given
  BY <1>1, GinStays
<1> SUFFICES ASSUME Given, options.mode = "format" PROVE Listed'
  BY <1>1, <1>2 DEF ListedSoFar
<1>3. Listed /\ ~HeaderCut /\ ~IsMetaPage /\ GetSpecialSectionType = "gin"
  BY <1>1, GivenPage DEF ListedSoFar
<1>4. pc # "block" => specialType = "gin"
  BY <1>1, <1>3 DEF Walked, Begun
<1>5. CASE FormatBlock
  <2>1. pc = "block" /\ pc' = "header" /\ listed' = listed
    BY <1>5 DEF FormatBlock, walk
  <2>2. listed' = <<>>
    BY <1>3, <2>1 DEF Listed
  <2> QED BY <1>1, <2>1, <2>2, ListedThen DEF Plain
<1>6. CASE FormatHeader
  <2>1. pc = "header" /\ pc' = "gin" /\ listed' = listed
    BY <1>3, <1>4, <1>6 DEF FormatHeader, walk
  <2>2. listed' = <<>>
    BY <1>3, <2>1 DEF Listed
  <2> QED BY <1>1, <2>1, <2>2, ListedThen DEF Plain
<1>7. CASE FormatControl \/ ItemBeyond \/ ItemUnused \/ FormatOneItem \/ EndItems
  <2>1. pc # "item"
    BY <1>1, <1>4 DEF Walked
  <2>2. ~FormatControl
    BY DEF FormatControl
  <2> QED BY <1>7, <2>1, <2>2 DEF ItemBeyond, ItemUnused, FormatOneItem, EndItems, AtItem
<1>8. CASE FormatSpecial
  <2>1. pc = "special" /\ pc' = "done" /\ listed' = listed
    BY <1>8 DEF FormatSpecial, walk
  <2>2. ~SplitEntry /\ ~Deleted => listed' = Final
    BY <1>3, <2>1 DEF Listed
  <2> QED BY <1>1, <2>1, <2>2, ListedThen DEF Plain
<1>9. CASE GinListing
  BY <1>1, <1>3, <1>9, StartListed, FirstListed, NextListed, SegmentListed, TupleListed,
     PlainListed, EndListed DEF GinListing, GinStep
<1>10. CASE Done \/ UNCHANGED vars
  <2>1. /\ pc' = pc /\ x' = x /\ seg' = seg /\ at' = at /\ val' = val /\ ipd' = ipd
        /\ listed' = listed
    BY <1>10 DEF Done, vars, walk
  <2> QED BY <1>1, <1>3, <2>1, ListedThen DEF Listed, InTuple, Tuple
<1> QED BY <1>5, <1>6, <1>7, <1>8, <1>9, <1>10 DEF Next

(* A page of a GIN index is listed as the server wrote it, item by item    *)
(* and across the borders of segments; no posting list is read beyond its  *)
(* end, and the value of an item always fits its number of bits.           *)
THEOREM GinPageIsListed == Spec => []ListsContents
<1>1. ListedSoFar => ListsContents
  <2> SUFFICES ASSUME ListedSoFar, Sound, page.content = "gin", ~Misread PROVE
        /\ pc \in {"bytes", "tupleBytes"} => at \in 0..Len(Segment.bytes)
                                          /\ val \in 0..(Offsets * Blocks - 1)
        /\ Interpreted /\ ~SplitEntry /\ ~Deleted =>
             listed = IF Listing = "list" THEN SubSeq(Stored, 1, page.gin.maxoff) ELSE Stored
    BY DEF ListsContents
  <2>1. Given /\ page \in Pages /\ (pc \notin {"block", "done"} => options.mode = "format")
    BY DEF Given, ListedSoFar, Walked, Begun
  <2>2. options.mode = "format" => Listed
    BY <2>1 DEF ListedSoFar
  <2>3. ASSUME pc \in {"bytes", "tupleBytes"}
        PROVE  at \in 0..Len(Segment.bytes) /\ val \in 0..(Offsets * Blocks - 1)
    <3>1. Listed
      BY <2>1, <2>2, <2>3
    <3>2. /\ PostingList(Items) /\ Segment = EncodeSegment(Items) /\ Before \in Seq(ItemPointers)
          /\ Decoded(Items, at, val, Before, FoundSoFar)
      BY <2>1, <2>3, <3>1, SegmentIs
    <3> DEFINE b == Segment.bytes
               r == SubSeq(b, at + 1, Len(b))
               k == VarbyteLength(r)
               v == val + Varbyte(r, k)
    <3>3. b = EncodeSegment(Items).bytes
      BY <3>2
    <3> HIDE DEF b
    <3>4. r = SubSeq(b, at + 1, Len(b)) /\ k = VarbyteLength(r) /\ v = val + Varbyte(r, k)
      OBVIOUS
    <3> HIDE DEF r, k, v
    <3>5. WithinBits(at, val, Len(b))
      BY <3>2, <3>3, <3>4, DecodedNext
    <3> QED BY <3>5 DEF b, WithinBits
  <2>4. Interpreted /\ ~SplitEntry /\ ~Deleted => listed = Final
    BY <2>2 DEF Interpreted, Listed
  <2> QED BY <2>3, <2>4 DEF Final
<1> QED BY <1>1, ListedInit, ListedNext, PTL DEF Spec
===============================================================================
