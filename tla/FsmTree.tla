------------------------------- MODULE FsmTree -------------------------------
(***************************************************************************)
(* The numbering of a free space map file (pg_fsm.c): page 0 is the root;  *)
(* behind it come groups of one internal page and the LeafNodesPerPage     *)
(* leaf pages below it.  A leaf page has one slot for each of              *)
(* LeafNodesPerPage heap pages.                                            *)
(***************************************************************************)
EXTENDS Integers

CONSTANTS LeafNodesPerPage,   \* slots of a page, and so children of an internal page
          BLCKSZ,             \* block size the program was built for
          MaxHeapTupleSize    \* largest tuple a heap page can take

ASSUME TreeAssumption == LeafNodesPerPage \in Nat \ {0}
ASSUME SizeAssumption == BLCKSZ \in Nat /\ MaxHeapTupleSize \in Nat

GroupSize == LeafNodesPerPage + 1

-------------------------------------------------------------------------------
(* classify_fsm_page *)
GroupOf(p)  == (p - 1) \div GroupSize
OffsetOf(p) == (p - 1) % GroupSize

Level(p) == IF p = 0 THEN 0 ELSE IF OffsetOf(p) = 0 THEN 1 ELSE 2

ParentId_GroupNumber(p) == IF p = 0 THEN -1
                           ELSE IF Level(p) = 1 THEN 0 ELSE 1 + GroupOf(p)

ParentId(p) == IF p = 0 THEN -1
               ELSE IF Level(p) = 1 THEN 0 ELSE 1 + GroupOf(p) * GroupSize

LogPageNo(p) == IF p = 0 THEN 0
                ELSE IF Level(p) = 1 THEN GroupOf(p)
                ELSE GroupOf(p) * LeafNodesPerPage + OffsetOf(p) - 1

(* heap_page_to_fsm_slot *)
LeafOf(h)  == h \div LeafNodesPerPage
FsmPage_NoRoot(h) == (LeafOf(h) \div LeafNodesPerPage) * GroupSize
                     + (LeafOf(h) % LeafNodesPerPage) + 1

FsmPage(h) == (LeafOf(h) \div LeafNodesPerPage) * GroupSize
              + (LeafOf(h) % LeafNodesPerPage) + 1 + 1
FsmSlot(h) == h % LeafNodesPerPage

(* The heap page print_leaf_compressed and print_leaf_expanded name for    *)
(* slot s of leaf page p.                                                  *)
HeapPage(p, s) == LogPageNo(p) * LeafNodesPerPage + s

-------------------------------------------------------------------------------
(* cat_to_bytes *)
FSM_CAT_STEP == BLCKSZ \div 256

CatToBytes(cat) == IF cat = 255 THEN MaxHeapTupleSize ELSE cat * FSM_CAT_STEP
===============================================================================
