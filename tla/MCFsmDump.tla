------------------------------ MODULE MCFsmDump ------------------------------
(* Small instances of FsmDump: a page has two slots, so a group is one     *)
(* internal page and two leaf pages, and seven pages hold the root and two *)
(* whole groups.                                                           *)
EXTENDS FsmDump

Header == [shape |-> 0, stamp |-> 0]
AllHeaders == {Header}
Raw(kind, a, b) == [kind |-> kind, header |-> Header, inner |-> <<0>>, leaf |-> <<a, b>>]

Low  == Raw("ok", 1, 1)
Full == Raw("ok", 1, 255)
Gone == Raw("badheader", 7, 7)
Hole == Raw("zero", 0, 0)

SmallFiles == UNION {[1..n -> {Low, Full, Hole, Gone}] : n \in 0..4}
LargeFiles == {[p \in 1..n |-> IF p \in special THEN page ELSE Full] :
                 n \in 7..8, special \in SUBSET {1, 2, 4, 6},
                 page \in {Hole, Raw("short", 0, 0), Raw("wrongsize", 7, 7), Raw("ok", 0, 3)}}

AllFiles == SmallFiles \cup LargeFiles

Plain == [range |-> {}, min |-> 0, max |-> 100000, slots |-> TRUE,
          expand |-> FALSE, query |-> -1]

AllOptions ==
  {Plain, [Plain EXCEPT !.expand = TRUE],
   [Plain EXCEPT !.range = {3, 4, 5, 6}], [Plain EXCEPT !.slots = FALSE],
   [Plain EXCEPT !.min = 40], [Plain EXCEPT !.max = 40, !.expand = TRUE]}
  \cup {[Plain EXCEPT !.query = h] : h \in 0..9}
==============================================================================
