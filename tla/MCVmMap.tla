------------------------------ MODULE MCVmMap ------------------------------
(* Small instances of VmMap: one byte of bitmap on a page, so a map page   *)
(* has the bits of four heap pages.                                        *)
EXTENDS VmMap

Raw(kind, a, b, c, d) == [kind |-> kind, status |-> <<a, b, c, d>>]

Pages == {Raw("ok", 1, 1, 3, 3), Raw("ok", 3, 3, 3, 3), Raw("ok", 0, 2, 1, 0),
          Raw("zero", 0, 0, 0, 0), Raw("bad", 3, 1, 3, 1)}
FilesOf == UNION {[1..n -> Pages] : n \in 0..2}

AllInputs == [mode : {"dump"}, old : FilesOf \cup [1..3 -> Pages], new : {<<>>}]
             \cup [mode : {"diff"}, old : FilesOf, new : FilesOf]

Plain == [range |-> <<>>, query |-> -1, expand |-> FALSE, onlyNotVisible |-> FALSE,
          onlyNotFrozen |-> FALSE, onlyChanged |-> FALSE, stats |-> TRUE]

AllOptions ==
  {Plain, [Plain EXCEPT !.expand = TRUE],
   [Plain EXCEPT !.onlyNotVisible = TRUE, !.onlyChanged = TRUE],
   [Plain EXCEPT !.onlyNotFrozen = TRUE, !.range = <<3, 9>>],
   [Plain EXCEPT !.range = <<5, 4>>, !.stats = FALSE],
   [Plain EXCEPT !.query = 0], [Plain EXCEPT !.query = 6], [Plain EXCEPT !.query = 9]}
============================================================================
