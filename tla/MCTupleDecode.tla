----------------------------- MODULE MCTupleDecode -----------------------------
(* Small tuples for TupleDecode: up to three columns of every width,       *)
(* alignment and form; all texts of up to two special characters; days,    *)
(* times and numbers around the borders of their decoders.                 *)
EXTENDS TupleDecode

(* A decompressor that gives the payload twice. *)
Twice(payload) == payload \o payload

UpTo(n, S) == UNION {[1..m -> S] : m \in 0..n}
Col(t, f, b) == [type |-> t, form |-> f, bytes |-> b]
OfTypes(columns) == [k \in DOMAIN columns |-> IF columns[k] = NullColumn THEN "int" ELSE columns[k].type]
Tup(types, columns) == [types |-> types, columns |-> columns, bytes |-> Layout(columns)]
Exactly(columns) == Tup(OfTypes(columns), columns)

(* Columns of every layout. *)
Pointer(raw, stored, method) ==
  Col("string", "toasted", Word(raw) \o SubSeq(Word(stored), 1, 3) \o <<64 * method>> \o Zeros(8))
Kinds == {Col("smallint", "fixed", <<7, 1>>), Col("uint", "fixed", <<1, 2, 3, 255>>),
          Col("bigint", "fixed", <<1, 2, 3, 4, 5, 6, 7, 8>>), Col("macaddr", "fixed", <<1, 2, 3, 4, 5, 6>>),
          Col("timetz", "fixed", <<9, 0, 0, 0, 0, 0, 0, 0, 60, 0, 0, 0>>),
          Col("bool", "fixed", <<1>>), Col("char", "fixed", <<92>>), Col("name", "fixed", <<97, 92, 0, 98>>),
          Col("uuid", "fixed", [i \in 1..16 |-> i]),
          Col("string", "short", <<>>), Col("string", "short", <<97>>),
          Col("string", "plain", <<97, 10>>), Col("string", "packed", <<98>>),
          Col("numeric", "packed", <<0, 129>>), Pointer(20, 16, 0), Pointer(20, 9, 1),
          Col("numeric", "short", NumericBytes(125, 2, TRUE)), NullColumn}
Few == {Col("smallint", "fixed", <<7, 1>>), Col("bigint", "fixed", <<1, 2, 3, 4, 5, 6, 7, 8>>),
        Col("bool", "fixed", <<1>>), Col("string", "short", <<97>>), Col("string", "plain", <<97>>), NullColumn}
Rows == UpTo(2, Kinds) \cup UpTo(3, Few) \cup {<<a, b, c>> : a, c \in Few, b \in Kinds}

Laidout   == {Exactly(r) : r \in Rows}
OtherList == UNION {{Tup(SubSeq(OfTypes(r), 1, n), r) : n \in 0..Len(r)}
                    \cup {Tup(SubSeq(OfTypes(r), 1, n) \o <<"~">>, r) : n \in 0..Len(r)}
                    \cup {Tup(OfTypes(r) \o <<t>>, r) : t \in {"int", "string", "bool", "numeric"}}
                    : r \in UpTo(3, Few)}

(* Damaged tuples, and types that are not those of the columns. *)
Cut(t, n) == [t EXCEPT !.bytes = SubSeq(@, 1, n)]
Damaged == UNION {{Cut(t, n) : n \in 0..Len(t.bytes)} : t \in {Exactly(<<a, b>>) : a \in Few, b \in Kinds}}
           \cup {Tup(<<t, u>>, <<a, b>>) : t, u \in {"string", "numeric", "bool", "smallint", "uuid"},
                                           a, b \in Few \cup {Col("string", "packed", <<98>>)}}
           \cup {[types |-> <<"string">>, columns |-> <<>>, bytes |-> b] :
                   b \in {<<1, 1>>, <<1, 1, 0, 0, 0, 0, 0, 0, 0, 0>>, <<1, 9>>, <<12, 0, 0, 0, 1>>,
                          Word(4 * 9 + 2) \o <<5, 0, 0, 0, 97>>, Word(4 * 9 + 2) \o <<2, 0, 0, 128, 97>>,
                          Word(0), <<2, 0, 0, 0, 0>>}}
           \cup {[types |-> <<"numeric">>, columns |-> <<>>, bytes |-> b] :
                   b \in {<<7, 0, 192>>, <<7, 0, 208>>, <<7, 1, 192>>, <<3>>, <<5, 1>>, Word(0), <<7, 1, 0>>}}

Marked == {97, 110, 114, 116, 48, 78, 9, 10, 13, 0, 92}
Texts == UpTo(2, Marked)
TextRows == {Exactly(<<Col("string", "short", t)>>) : t \in UpTo(3, {97, 78, 92, 9, 10})}
            \cup {Exactly(<<Col("string", "short", t), Col("string", "short", u)>>) : t \in UpTo(1, Marked), u \in Texts}
            \cup {Exactly(<<Col("string", "short", t), Col("string", "short", u)>>) : t \in Texts, u \in UpTo(1, Marked)}
            \cup {Exactly(<<Col("string", "short", t), NullColumn, Col("string", "short", u)>>) :
                    t, u \in UpTo(1, Marked)}

(* Days: around the centuries, the first years and 4713 BC; and 2000  *)
(* day by day.                                                             *)
Signed4(n) == IF n >= 0 THEN Word(n)
              ELSE [i \in 1..4 |-> 255 - Word(-n - 1)[i]]
Days == (-100)..440
        \cup UNION {(DaysFrom2000(y, 1, 1) - 3)..(DaysFrom2000(y, 1, 1) + 63) :
                      y \in {-4712, -400, -101, -100, -4, -1, 0, 1, 4, 100, 400, 1582, 1700, 1899, 1900,
                             2100, 2400, 5874}}
DayRows == {Exactly(<<Col("date", "fixed", Signed4(d))>>) : d \in Days}
           \cup {Exactly(<<Col("date", "fixed", <<0, 0, 0, h>>)>>) : h \in {128}}
           \cup {Exactly(<<Col("date", "fixed", <<255, 255, 255, 127>>)>>)}

Signed8(n) == Signed4(n) \o (IF n >= 0 THEN Zeros(4) ELSE <<255, 255, 255, 255>>)
Stamps == {d * UsecPerDay + s * UsecPerSec + u :
             d \in {-12000, -731, -2, -1, 0, 1, 59, 60, 12000}, s \in {0, 1, 59, 60, 3599, 3600, 86399}, u \in {0, 1}}
Zones == {-46800, -19800, -1800, -90, -59, 0, 59, 60, 5400, 18000, 43200}
TimeRows == {Exactly(<<Col("timestamp", "fixed", Signed8(t))>>) : t \in Stamps}
            \cup {Exactly(<<Col("timestamp", "fixed", b)>>) :
                    b \in {<<0, 0, 0, 0, 0, 0, 0, 128>>, <<255, 255, 255, 255, 255, 255, 255, 127>>}}
            \cup {Exactly(<<Col("time", "fixed", Signed8(t))>>) : t \in Stamps \cap (0..UsecPerDay)}
            \cup {Exactly(<<Col("timetz", "fixed", Signed8(t) \o Signed4(z))>>) :
                    t \in {0, 3661 * UsecPerSec + 1, UsecPerDay}, z \in Zones}

Numbers == {<<n, s>> : n \in {0, 1, 9, 10, 100, 9999, 10000, 10001, 120034, 99999999}, s \in 0..2}
           \cup {<<n, s>> : n \in {1, 7, 1000, 10000, 20001, 12345678}, s \in 3..8}
NumberRows ==
  {Exactly(<<[type |-> "numeric", form |-> "short", bytes |-> NumericBytes(sign * x[1], x[2], short),
              number |-> sign * x[1], scale |-> x[2]]>>) : x \in Numbers, sign \in {1, -1}, short \in BOOLEAN}

AllTuples == Laidout \cup OtherList \cup Damaged \cup TextRows \cup DayRows \cup TimeRows \cup NumberRows
TabTuples == TextRows
================================================================================
