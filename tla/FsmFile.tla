------------------------------- MODULE FsmFile -------------------------------
(***************************************************************************)
(* What dump and diff of pg_fsm.c share: a page as load_fsm keeps it, the  *)
(* parent -> children index and the sums over leaf slots.                  *)
(*                                                                         *)
(* A page of a file is [kind, header, inner, leaf]: `kind` says whether it *)
(* is all zero, read short, has a header of another page size or one that  *)
(* fails the sanity checks, or is fine; `header` is [shape, stamp], the    *)
(* structural fields with fp_next_slot, and the LSN with the checksum;     *)
(* `inner` and `leaf` are the two parts of the node array.                 *)
(***************************************************************************)
EXTENDS FsmTree, RunLength, FiniteSetsExt

CONSTANTS NonLeafNodesPerPage,   \* nodes of a page above its slots
          Headers                \* set of the page headers that occur

ASSUME NonLeafAssumption == NonLeafNodesPerPage \in Nat

Categories == 0..255
Kinds == {"zero", "short", "wrongsize", "badheader", "ok"}
RawPages == [kind : Kinds, header : Headers,
             inner : [1..NonLeafNodesPerPage -> Categories],
             leaf : [1..LeafNodesPerPage -> Categories]]

-------------------------------------------------------------------------------
Cleared(nodes) == [i \in DOMAIN nodes |-> 0]

(* fill_fsm_page_info: the nodes of a page that is not valid are cleared;  *)
(* load_fsm takes a page it cannot read whole for an all-zero one.         *)
PageInfo(raw) ==
  [allzero |-> raw.kind \in {"zero", "short"},
   valid   |-> raw.kind = "ok",
   header  |-> raw.header,
   inner   |-> IF raw.kind = "ok" THEN raw.inner ELSE Cleared(raw.inner),
   leaf    |-> IF raw.kind = "ok" THEN raw.leaf ELSE Cleared(raw.leaf)]

(* build_fsm_children: one page after the other is put on its parent's     *)
(* list; index[n] has the first n pages.                                   *)
BuildChildren(total) ==
  LET index[n \in 0..total] ==
        IF n = 0 THEN [p \in 0..(total - 1) |-> <<>>]
        ELSE LET parent == ParentId(n - 1)
             IN  IF parent >= 0 /\ parent < total
                 THEN [index[n - 1] EXCEPT ![parent] = Append(@, n - 1)]
                 ELSE index[n - 1]
  IN  index[total]

(* in_page_range; an empty range stands for no --range and no --page. *)
InPageRange(options, p) == options.range = {} \/ p \in options.range

(* compute_leaf_agg: the first slot of the highest category, -1 if that    *)
(* is 0, and the sum of the avail_bytes.                                   *)
MaxCat(leaf)  == Max(Range(leaf))
MaxSlot_Last(leaf) == IF MaxCat(leaf) = 0 THEN -1
                      ELSE Max({s \in DOMAIN leaf : leaf[s] = MaxCat(leaf)}) - 1
MaxSlot(leaf) == IF MaxCat(leaf) = 0 THEN -1
                 ELSE Min({s \in DOMAIN leaf : leaf[s] = MaxCat(leaf)}) - 1
TotalAvail(leaf) == SumFunction([s \in DOMAIN leaf |-> CatToBytes(leaf[s])])
===============================================================================
