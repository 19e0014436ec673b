----------------------------- MODULE MCCommandLine -----------------------------
(* Small command lines: up to four arguments for the dump, up to five for  *)
(* a map tool, and for it lines that fill the places of pos or go past.    *)
EXTENDS CommandLine

Sw(letters) == [kind |-> "switches", letters |-> letters]
Long(name)  == [kind |-> "long", name |-> name]
Num(n)      == [kind |-> "number", value |-> n]
Span(a, b)  == [kind |-> "range", lo |-> a, hi |-> b]
Text(t)     == [kind |-> "word", text |-> t]

Names == {<<"f">>, <<"f", ".", "2">>, <<"f", ".", "1", "x">>, <<"x", "1", "2">>, <<"f", ".", "1", "0">>, <<"3">>}
ASSUME NumberAt(<<"f", ".", "1", "0">>, 3) = 10
AllFiles == {Text(t) : t \in Names \ {<<"3">>}} \cup {Num(3)}

Missing  == Text(<<"g">>)
NoText   == Text(<<>>)
TypeList == {Text(<<"int", "", "text">>), Text(<<"int", "bogus">>), Text(<<"int", "int", "int", "int">>), Text(<<"", "">>)}

UpTo(n, S) == UNION {[1..m -> S] : m \in 0..n}

(* Every two groups of one or two letters. *)
Some == {"a", "b", "c", "d", "f", "x", "y", "h", "m", "z"}
Groups == {Sw(<<l>>) : l \in Some} \cup {Sw(<<l, k>>) : l \in {"a", "c", "x", "y", "v"}, k \in Some \ {"z"}}
GroupLines == {<<g, h, f>> : g, h \in Groups, f \in {Text(<<"f">>), Missing, Sw(<<"h">>)}}
              \cup {<<Sw(<<l>>), Text(<<"f">>)>> : l \in LetterSwitches \cup {"v", "R"}}

(* Every three arguments, and a file, a missing file or a switch behind.   *)
Words == {Sw(<<l>>) : l \in ValueSwitches \cup {"b", "c", "f", "h"}} \cup {Sw(<<>>), Sw(<<"a", "S">>)}
         \cup {Num(n) : n \in {0, 1, 2, 9, 17}} \cup {Missing, NoText, Long("--page")} \cup TypeList
WordLines == {w \o <<f>> : w \in UpTo(3, Words), f \in {Text(<<"f", ".", "2">>), Num(3), Sw(<<"S">>)}}
NameLines == {<<Sw(<<"n">>), n, f>> : n \in {Num(0), Num(2)}, f \in AllFiles}
             \cup {<<f>> : f \in AllFiles \cup {Missing, NoText, Sw(<<>>), Sw(<<"h">>), Sw(<<"S">>)}}
             \cup {<<Sw(<<"R">>), Num(1), n, Sw(<<"f">>), Text(<<"f">>)>> : n \in {Num(1), Num(2), Num(0), NoText}}

MapWords == {Text(<<"a">>), Text(<<"b">>), Num(1), Span(1, 2), Sw(<<"H", "s">>), Sw(<<"q">>), Sw(<<"a">>), Sw(<<>>),
             Long("--range"), Long("--page"), Long("--min"), Long("--max"), Long("--heap-page"),
             Long("--heap-range"), Long("--extra"), Long("--notV")}
MapLines == {<<Sw(<<t>>), Text(<<c>>)>> \o w : t \in {"F", "V"}, c \in {"dump", "diff"}, w \in UpTo(3, MapWords)}
            \cup {<<Text(<<"dump">>), Sw(<<"a">>), Text(<<"a">>), Long(f), v>> \o w \o <<Sw(<<t>>)>> :
                    t \in {"F", "V"}, f \in {"--page", "--range", "--heap-range"},
                    v \in {Num(1), Span(1, 2)}, w \in UpTo(2, {Text(<<"b">>), Long("--page"), Num(2)})}
            \cup {<<Sw(<<"V">>), Sw(<<"F">>)>>, <<Sw(<<"F">>)>>, <<Text(<<"a">>), Sw(<<"V">>)>>}

(* As many files as pos has places, one less and up to two more, behind    *)
(* arguments that take a place and others that take none.                  *)
FullLines == {<<Sw(<<t>>), Text(<<c>>)>> \o w \o [i \in 1..n |-> Text(<<"a">>)] :
                t \in {"F", "V"}, c \in {"dump", "diff"}, n \in 7..9,
                w \in {<<>>, <<Long("--heap-page"), Num(1)>>, <<Sw(<<"q">>)>>, <<NoText>>, <<Long("--bogus")>>}}

AllLines == GroupLines \cup WordLines \cup NameLines \cup MapLines \cup FullLines \cup {<<>>}
================================================================================
