------------------------------ MODULE MCToastRead ------------------------------
(* Small TOAST relations for ToastRead: a value of three chunks (2 + 2 + 1 *)
(* bytes) in two blocks of up to two or three items.                       *)
EXTENDS ToastRead

Plain(s, n) == [end |-> 1, used |-> TRUE, xmax |-> FALSE, oid |-> 1, seq |-> s,
                len |-> n, form |-> "whole"]
Chunks   == {Plain(0, 2), Plain(1, 2), Plain(2, 1)}
Removed  == [Plain(1, 2) EXCEPT !.xmax = TRUE]
Foreign  == [Plain(0, 2) EXCEPT !.oid = 2]
Unused   == [Plain(0, 0) EXCEPT !.used = FALSE, !.end = 0]
(* A dead or redirecting line pointer, whose "tuple" begins at the page's  *)
(* header: its length of 0 less t_hoff wraps, and it is read like another. *)
Pruned   == [Foreign EXCEPT !.end = 0, !.xmax = TRUE]
OffPage  == [Plain(2, 1) EXCEPT !.end = 3]
HighUp   == [Plain(0, 2) EXCEPT !.end = 2]
Damaged  == {[Plain(1, 2) EXCEPT !.form = "torn", !.len = 5],
             [Plain(0, 2) EXCEPT !.form = "stub"],
             [Plain(2, 1) EXCEPT !.form = "packed"],
             [Plain(1, 2) EXCEPT !.form = "bare"],
             [Plain(1, 2) EXCEPT !.form = "oid"],
             [Plain(1, 2) EXCEPT !.form = "cut"]}

(* Torn with the right length, so that the scan goes on behind it. *)
SomeDamage == {[Plain(1, 2) EXCEPT !.form = f] : f \in {"torn", "packed", "oid"}}

UpTo(n, S) == UNION {[1..m -> S] : m \in 0..n}
Page(its) == [bytes |-> 2, header |-> "ok", body |-> "items", special |-> "none",
              items |-> its]

(* Every placement of the value's chunks, doubled or missing, over two     *)
(* blocks, and of a last block that was only partly read or has no items.  *)
Placements == {<<Page(p), Page(q)>> : p \in UpTo(3, Chunks), q \in UpTo(2, Chunks)}
Odd == LET its == UpTo(2, Chunks \cup {Removed, Foreign, Pruned, HighUp, OffPage, Unused})
       IN  {<<[Page(p) EXCEPT !.bytes = 1], Page(<<Plain(2, 1), Plain(1, 2)>>)>> : p \in its}
           \cup {<<Page(p), [Page(<<Plain(0, 2)>>) EXCEPT !.header = "cut"]>> : p \in its}
           \cup {<<[Page(p) EXCEPT !.header = "invalid", !.special = "error"],
                   [Page(<<>>) EXCEPT !.body = "corrupt"],
                   Page(<<Plain(0, 2), Plain(1, 2), Plain(2, 1)>>)>> : p \in its}
           \cup {<<>>}

SoundRelations == Placements \cup Odd
AllRelations == SoundRelations
                \cup {<<Page(p), Page(<<Plain(1, 2), Plain(0, 2)>>)>> :
                        p \in UpTo(3, Damaged \cup {Plain(0, 2), Plain(2, 1)})}
                \cup {<<Page(p)>> : p \in UpTo(3, SomeDamage \cup {Plain(0, 2), Plain(2, 1)})}
===============================================================================
