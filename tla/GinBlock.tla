-------------------------------- MODULE GinBlock --------------------------------
(***************************************************************************)
(* FormatGinBlock (pg_filedump.c): what is listed of a page of a GIN       *)
(* index, one line pointer, posting or item per step, and the decoding of  *)
(* compressed posting lists.                                               *)
(*                                                                         *)
(* page.gin holds what the code finds on the page: `maxoff` of the opaque  *)
(* area; `right`, the right bound of a data page; `segs`, the segments of  *)
(* a compressed data leaf, each its first item and the bytes behind it;    *)
(* `items`, the items or PostingItems of an uncompressed data page; and    *)
(* `tuples`, the index tuples of an entry or list page.  page.gin.lists,   *)
(* read by properties only, are the items the server made `segs` of, as a  *)
(* compressed tuple's `items` are those it made the tuple's `segs` of.     *)
(***************************************************************************)
EXTENDS Integers, SequencesExt, FiniteSetsExt

CONSTANTS Offsets,   \* 2^MaxHeapTuplesPerPageBits, 2^11
          Blocks,    \* how many block numbers there are, 2^32
          Continues  \* the continuation bit of a varbyte's byte, 2^7

(* Seven bytes are enough for an item, of which the last is no more than a *)
(* group (43 bits are six groups of 7 and one bit).                        *)
ASSUME BitsAssumption ==
  /\ Offsets \in Nat \ {0} /\ Blocks \in Nat \ {0} /\ Continues \in Nat \ {0, 1}
  /\ Offsets * Blocks <= Continues * (Continues * (Continues * (Continues *
                            (Continues * (Continues * Continues)))))

VARIABLES page, pc, x,
          seg, at, val,  \* posting list: segment, bytes of it used, value of the last item
          ipd,           \* the items of an entry tuple's posting list
          listed,        \* what has been printed
          errors         \* the messages printed that set exitCode

walk == <<seg, at, val, ipd, listed>>

itemptr_to_uint64(iptr) == iptr.blk * Offsets + iptr.off
uint64_to_itemptr(v) == [blk |-> (v \div Offsets) % Blocks, off |-> v % Offsets]

(* decode_varbyte: how many bytes of those in front, and their value, the  *)
(* low groups first.                                                       *)
VarbyteLength(bytes) ==
  LET last == {i \in 1..Min({6, Len(bytes)}) : bytes[i] < Continues}
  IN  IF last = {} THEN 7 ELSE Min(last)
Horner(c) == c[1] + Continues * (c[2] + Continues * (c[3] + Continues * (c[4] + Continues *
                              (c[5] + Continues * (c[6] + Continues * c[7])))))
Varbyte_SixBytes(bytes, n) ==
  Horner([i \in 1..7 |-> IF i <= n /\ i < 7 THEN bytes[i] % Continues ELSE 0])
Varbyte(bytes, n) ==
  Horner([i \in 1..7 |-> IF i > n THEN 0 ELSE IF i = 7 THEN bytes[i] ELSE bytes[i] % Continues])

-------------------------------------------------------------------------------
Flag(bit) == (page.last \div bit) % 2 = 1
Data == Flag(1)   Leaf == Flag(2)   Deleted == Flag(4)
List == Flag(16)  Compressed == Flag(128)

Tuples == page.gin.tuples
Tuple  == Tuples[x]

(* Which of the loops below the page gets. *)
Listing ==
  CASE Data /\ Leaf /\ Compressed  -> "segments"
    [] Data /\ Leaf /\ ~Compressed -> "items"
    [] ~Data /\ Leaf               -> "tuples"
    [] Data /\ ~Leaf               -> "postings"
    [] ~Data /\ ~Leaf /\ List      -> "list"
    [] page.last = 0               -> "entries"
    [] OTHER                       -> "unknown"

StartGin ==
  /\ pc = "gin"
  /\ pc' = IF Deleted \/ Listing = "unknown" THEN "special" ELSE Listing
  /\ errors' = IF ~Deleted /\ Listing = "unknown" THEN errors \cup {"gin"} ELSE errors
  /\ listed' = IF ~Deleted /\ Listing = "postings" THEN <<page.gin.right>> ELSE listed
  /\ x' = 1 /\ seg' = 1
  /\ UNCHANGED <<page, at, val, ipd>>

(* The segments of a data leaf, or the one of an entry tuple.              *)
Segs == IF pc \in {"segments", "bytes"} THEN page.gin.segs ELSE Tuple.segs
InTuple == pc \in {"tuple", "tupleBytes"}
Segment == Segs[seg]

Found(iptr) == IF InTuple THEN ipd' = Append(ipd, iptr) /\ UNCHANGED listed
                          ELSE listed' = Append(listed, iptr) /\ UNCHANGED ipd

FirstOfSegment ==
  /\ pc \in {"segments", "tuple"} /\ seg <= Len(Segs)
  /\ Found(Segment.first)
  /\ val' = itemptr_to_uint64(Segment.first)
  /\ at' = 0
  /\ pc' = IF InTuple THEN "tupleBytes" ELSE "bytes"
  /\ UNCHANGED <<page, x, seg, errors>>

NextOfSegment ==
  /\ pc \in {"bytes", "tupleBytes"} /\ at < Len(Segment.bytes)
  /\ LET bytes == SubSeq(Segment.bytes, at + 1, Len(Segment.bytes))
         n     == VarbyteLength(bytes)
     IN  /\ val' = val + Varbyte(bytes, n)
         /\ at' = at + n
  /\ Found(uint64_to_itemptr(val'))
  /\ UNCHANGED <<page, pc, x, seg, errors>>

EndOfSegment ==
  /\ pc \in {"bytes", "tupleBytes"} /\ at >= Len(Segment.bytes)
  /\ seg' = seg + 1
  /\ pc' = IF InTuple THEN "tuple" ELSE "segments"
  /\ UNCHANGED <<page, x, at, val, ipd, listed, errors>>

(* ginReadTupleItems has the items; as many are printed as t_tid counts.   *)
PrintTuple ==
  /\ pc = "tuple" /\ seg > Len(Segs)
  /\ listed' = listed \o SubSeq(ipd, 1, Tuple.count)
  /\ x' = x + 1
  /\ pc' = "tuples"
  /\ UNCHANGED <<page, seg, at, val, ipd, errors>>

(* The tuples of an entry leaf.  A compressed list without items has no    *)
(* segment either.                                                         *)
EntryTuple ==
  /\ pc = "tuples" /\ x <= Len(Tuples)
  /\ \/ /\ Tuple.tree
        /\ listed' = Append(listed, Tuple.root)
        /\ x' = x + 1
        /\ UNCHANGED <<pc, seg, ipd>>
     \/ /\ ~Tuple.tree /\ (~Tuple.compressed \/ Tuple.count = 0)
        /\ listed' = listed \o SubSeq(Tuple.items, 1, Tuple.count)
        /\ x' = x + 1
        /\ UNCHANGED <<pc, seg, ipd>>
     \/ /\ ~Tuple.tree /\ Tuple.compressed /\ Tuple.count > 0
        /\ pc' = "tuple" /\ seg' = 1 /\ ipd' = <<>>
        /\ UNCHANGED <<x, listed>>
  /\ UNCHANGED <<page, at, val, errors>>

(* Loops that print one entry a turn, and how many turns each makes.       *)
Plain == {"items", "postings", "list", "entries"}
Turns == IF pc = "entries" THEN Len(Tuples) ELSE page.gin.maxoff
Entry == IF pc \in {"items", "postings"} THEN page.gin.items[x] ELSE Tuple.tid

PlainEntry ==
  /\ pc \in Plain /\ x <= Turns
  /\ listed' = Append(listed, Entry)
  /\ x' = x + 1
  /\ UNCHANGED <<page, pc, seg, at, val, ipd, errors>>

EndGin ==
  /\ \/ pc \in Plain /\ x > Turns
     \/ pc = "segments" /\ seg > Len(Segs)
     \/ pc = "tuples" /\ x > Len(Tuples)
  /\ pc' = "special"
  /\ UNCHANGED <<page, x, seg, at, val, ipd, listed, errors>>

GinStep == \/ StartGin \/ FirstOfSegment \/ NextOfSegment \/ EndOfSegment
           \/ PrintTuple \/ EntryTuple \/ PlainEntry \/ EndGin

-------------------------------------------------------------------------------
(* How the server writes a posting list (ginCompressPostingList): the      *)
(* items in order, the first as it is and the others as differences.       *)
Remaining(v) == LET b == v \div Continues   c == b \div Continues   d == c \div Continues
                    e == d \div Continues   f == e \div Continues   g == f \div Continues
                IN  <<v, b, c, d, e, f, g>>
EncodeVarbyte(v) ==
  LET left == Remaining(v)
      n    == Min({i \in 1..7 : left[i] < Continues})
  IN  [i \in 1..n |-> IF i < n THEN Continues + (left[i] % Continues) ELSE left[i]]
EncodeSegment(items) ==
  LET delta(i) == itemptr_to_uint64(items[i]) - itemptr_to_uint64(items[i - 1])
  IN  [first |-> items[1],
       bytes |-> FlattenSeq([i \in 1..(Len(items) - 1) |-> EncodeVarbyte(delta(i + 1))])]

ItemPointers == [blk : 0..(Blocks - 1), off : 0..(Offsets - 1)]
PostingList(items) ==
  /\ items \in Seq(ItemPointers) /\ items # <<>>
  /\ \A i \in 2..Len(items) : itemptr_to_uint64(items[i - 1]) < itemptr_to_uint64(items[i])

(* What is on a page as the server wrote it, and that it is written so.    *)
ListOf(t) == IF t.tree THEN <<t.root>> ELSE t.items
Stored ==
  CASE Listing = "segments" -> FlattenSeq(page.gin.lists)
    [] Listing = "items"    -> page.gin.items
    [] Listing = "postings" -> <<page.gin.right>> \o page.gin.items
    [] Listing = "tuples"   -> FlattenSeq([i \in DOMAIN Tuples |-> ListOf(Tuples[i])])
    [] Listing \in {"list", "entries"} -> [i \in DOMAIN Tuples |-> Tuples[i].tid]
Written ==
  /\ Listing = "segments" =>
       /\ \A i \in DOMAIN page.gin.lists : PostingList(page.gin.lists[i])
       /\ page.gin.segs = [i \in DOMAIN page.gin.lists |-> EncodeSegment(page.gin.lists[i])]
  /\ Listing \in {"items", "postings"} => page.gin.maxoff = Len(page.gin.items)
  /\ Listing = "list" => page.gin.maxoff <= Len(Tuples)
  /\ Listing = "tuples" =>
       \A i \in DOMAIN Tuples :
         LET t == Tuples[i]
         IN  ~t.tree => /\ t.count = Len(t.items)
                        /\ t.compressed /\ t.count > 0 =>
                             PostingList(t.items) /\ t.segs = <<EncodeSegment(t.items)>>
===============================================================================
