------------------------------ MODULE MCFileDump ------------------------------
(* Small instances of FileDump: tuples of two columns, heap files of up to *)
(* three blocks, and a TOASTed value of two chunks.                        *)
EXTENDS FileDump

Chunk(s) == [end |-> 1, used |-> TRUE, xmax |-> FALSE, oid |-> 1, seq |-> s,
             len |-> IF s = 0 THEN 2 ELSE 1, form |-> "whole"]
Torn == [Chunk(1) EXCEPT !.form = "torn"]
Page(its) == [bytes |-> 2, header |-> "ok", body |-> "items", special |-> "none", items |-> its]

InOrder  == <<Page(<<Chunk(0), Chunk(1)>>)>>
Backward == <<Page(<<Chunk(1)>>), Page(<<Chunk(0)>>)>>
Lacking  == <<Page(<<Chunk(0)>>)>>
CutShort == <<[Page(<<Chunk(0), Chunk(1)>>) EXCEPT !.bytes = 1]>>
Strange  == <<[Page(<<Chunk(0), Chunk(1)>>) EXCEPT !.special = "error"]>>
Damaged  == <<Page(<<Chunk(0), Torn>>)>>
AllRelations == {InOrder, Backward, Lacking, CutShort, Strange, Damaged}

Col(k) == [kind |-> k]
Pointer(r, s) == [kind |-> "toast", rel |-> r, stored |-> s]
Tuple(cols) == [end |-> 2, used |-> TRUE, xmax |-> FALSE, normal |-> TRUE,
                cols |-> cols, rest |-> FALSE]

Pointers == {Pointer(r, "plain") : r \in AllRelations \cup {NoFile}}
            \cup {Pointer(InOrder, "packed"), Pointer(Backward, "odd"), Pointer(Damaged, "odd")}
Toasted  == {Tuple(<<Col("value"), p>>) : p \in Pointers}
            \cup {Tuple(<<Pointer(Backward, "plain"), Pointer(InOrder, "plain")>>),
                  Tuple(<<Pointer(InOrder, "odd"), Col("value")>>)}
Simple   == Tuple(<<Col("value"), Col("null")>>)
Others   == {Simple, Tuple(<<Col("bad"), Col("value")>>), Tuple(<<Col("value")>>),
             [Simple EXCEPT !.rest = TRUE], [Simple EXCEPT !.xmax = TRUE],
             [Simple EXCEPT !.normal = FALSE], [Simple EXCEPT !.used = FALSE],
             [Simple EXCEPT !.end = 3]}
Tuples == Toasted \cup Others

AllHeaps ==
  {<<>>} \cup {<<Page(<<a, b>>)>> : a \in Tuples, b \in Tuples}
  \cup {<<Page(<<a>>), p, Page(<<b>>)>> :
          a \in Toasted, b \in Others,
          p \in {[Page(<<Simple>>) EXCEPT !.header = "cut"],
                 [Page(<<>>) EXCEPT !.body = "corrupt", !.special = "error"]}}
  \cup {<<Page(<<a>>), [Page(<<Simple>>) EXCEPT !.bytes = 1]>> : a \in Toasted}
  \cup {<<[Page(<<[a EXCEPT !.end = 1], Simple>>) EXCEPT !.bytes = 1]>> : a \in Toasted}

Options(m, d, t, r) == [mode |-> m, forced |-> FALSE, decode |-> d, toast |-> t, range |-> r]
AllOptions ==
  {Options("format", TRUE, TRUE, NoRange), Options("format", TRUE, FALSE, <<1, 1>>),
   Options("format", TRUE, TRUE, <<0, 1>>), Options("format", FALSE, FALSE, <<2, 2>>),
   Options("binary", FALSE, FALSE, <<1, 3>>),
   Options("noIntr", FALSE, FALSE, NoRange), Options("relmap", FALSE, FALSE, NoRange)}
================================================================================
