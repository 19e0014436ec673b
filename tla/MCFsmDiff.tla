------------------------------ MODULE MCFsmDiff ------------------------------
(* Small instances of FsmDiff: two slots a page, so files of up to seven   *)
(* pages hold the root and two whole groups.                               *)
EXTENDS FsmDiff

Raw(kind, header, inner, a, b) ==
  [kind |-> kind, header |-> header, inner |-> <<inner>>, leaf |-> <<a, b>>]

Plain   == [shape |-> 0, stamp |-> 0]
Touched == [shape |-> 0, stamp |-> 1]
Moved   == [shape |-> 1, stamp |-> 1]
AllHeaders == {Plain, Touched, Moved}

(* Pages as an update leaves them: the same, with a newer LSN, with other  *)
(* slots, with another node array and header, or no longer usable.         *)
Contents == {Raw("ok", Plain, 1, 1, 1), Raw("ok", Touched, 1, 1, 1),
             Raw("ok", Touched, 2, 254, 0), Raw("ok", Moved, 2, 255, 255),
             Raw("zero", Plain, 0, 0, 0), Raw("badheader", Plain, 3, 7, 7)}

FilesOf(n, S) == [1..n -> S]

(* All pairs of short files; and long ones that grow, shrink or change in  *)
(* the second group while most pages stay.                                 *)
ShortFiles == UNION {FilesOf(n, Contents) : n \in 0..2}
LongFile(n, where, page) ==
  [p \in 1..n |-> IF p \in where THEN page ELSE Raw("ok", Plain, 1, 1, 1)]
LongFiles == {LongFile(n, where, page) : n \in {4, 7}, where \in {{}, {1}, {2, 4}, {3, 6, 7}},
                                         page \in Contents}

AllPairs == (ShortFiles \X ShortFiles) \cup (LongFiles \X LongFiles)

Options(r, i, c) == [range |-> r, internal |-> i, changedOnly |-> c]
AllOptions == {Options({}, FALSE, FALSE), Options({}, TRUE, TRUE), Options({2, 3, 4}, TRUE, TRUE)}
==============================================================================
