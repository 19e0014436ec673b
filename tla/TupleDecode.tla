------------------------------ MODULE TupleDecode ------------------------------
(***************************************************************************)
(* -D: FormatDecode (decode.c) takes the bytes of a tuple apart with the   *)
(* list of types of the command line, one column per step, and prints a    *)
(* COPY line or an error.  Without -t: a TOASTed value is printed as a     *)
(* remark (for the reading of TOAST see ToastRead and FileDump).           *)
(***************************************************************************)
EXTENDS CopyLine, Scalars

CONSTANTS Tuples,        \* the tuples and type lists to decode
          NameDataLen,   \* NAMEDATALEN, the bytes of a name
          Decompress(_)  \* what the decompressor makes of a payload

ASSUME NameAssumption == NameDataLen \in Nat \ {0}

(* [types |-> the type names of -D, columns |-> the columns the tuple was  *)
(* laid out for, bytes |-> its data behind the header, MAXALIGNed]         *)
VARIABLES tuple, attr, offset, size, copyString, outcome

vars == <<tuple, attr, offset, size, copyString, outcome>>

(* Width and alignment of the types of a fixed size. *)
Fixed(w, a) == [width |-> w, align |-> a]
FixedType(type) ==
  CASE type = "smallint" -> Fixed(2, 2)
    [] type \in {"int", "uint", "date", "float4"} -> Fixed(4, 4)
    [] type \in {"bigint", "time", "timestamp", "float8"} -> Fixed(8, 8)
    [] type = "timetz"  -> Fixed(12, 8)
    [] type = "macaddr" -> Fixed(6, 4)
    [] type = "uuid"    -> Fixed(16, 1)
    [] type = "name"    -> Fixed(NameDataLen, 1)
    [] type \in {"bool", "char"} -> Fixed(1, 1)

FixedTypes == {"smallint", "int", "uint", "date", "float4", "bigint", "time", "timestamp", "float8",
               "timetz", "macaddr", "uuid", "name", "bool", "char"}
Varlena == {"string", "numeric"}
Types == FixedTypes \cup Varlena \cup {"~"}    \* the decoders of callback_table
Chars(bytes) == [i \in DOMAIN bytes |-> C(bytes[i])]
Padding(at, align) == (align - (at % align)) % align

(* The characters of a name, up to its first zero. *)
CString(bytes) == LET end == SelectInSeq(bytes, LAMBDA b : b = 0)
                  IN  Chars(IF end = 0 THEN bytes ELSE SubSeq(bytes, 1, end - 1))
FixedText(type, bytes) ==
  CASE type = "date"      -> <<DateText(bytes)>>
    [] type = "timestamp" -> <<TimestampText(bytes)>>
    [] type = "time"      -> <<TimeText(bytes)>>
    [] type = "timetz"    -> <<TimeTzText(bytes)>>
    [] type = "bool"      -> <<C(IF bytes[1] # 0 THEN 116 ELSE 102)>>
    [] type = "char"      -> Encode(Chars(bytes))
    [] type = "name"      -> Encode(CString(bytes))
    [] OTHER              -> <<[type |-> type, bytes |-> bytes]>>

-------------------------------------------------------------------------------
(* What a callback returns: an error, the bytes it used and the text it    *)
(* appended; or it read beyond the tuple, or ended the program.            *)
Failed  == [ret |-> "failed", used |-> 0, text |-> <<>>]
Outside == [ret |-> "outside", used |-> 0, text |-> <<>>]
Exits   == [ret |-> "exit", used |-> 0, text |-> <<>>]
Used(n, text) == [ret |-> "used", used |-> n, text |-> text]

Bytes(at, n) == SubSeq(tuple.bytes, at + 1, at + n)

(* decode_smallint, decode_int, ... : skip the padding, take the bytes. *)
DecodeFixed_PaddingLost(type) ==
  LET t == FixedType(type)
      delta == Padding(offset, t.align)
  IN  IF size < delta + t.width THEN Failed
      ELSE Used(t.width, FixedText(type, Bytes(offset + delta, t.width)))
DecodeFixed(type) ==
  LET t == FixedType(type)
      delta == Padding(offset, t.align)
  IN  IF size < delta + t.width THEN Failed
      ELSE Used(delta + t.width, FixedText(type, Bytes(offset + delta, t.width)))

(* parse_value: CopyAppendEncode or CopyAppendNumeric.  For a length below *)
(* zero there is no memory: an error of the one, the end of the other.     *)
ParseValue(type, bytes, length, used) ==
  CASE type = "string"  -> IF length < 0 THEN Exits ELSE Used(used, Encode(Chars(bytes)))
    [] type = "numeric" ->
         CASE length < 0 -> Failed
           [] length \in {0, 1} -> Outside
           [] OTHER -> IF length < HeaderSize(Unsigned(SubSeq(bytes, 1, 2))) THEN Outside
                       ELSE IF NumericPrints(bytes) THEN Used(used, <<NumericText(bytes)>>)
                       ELSE Failed

(* A TOAST pointer; its second byte tells where the value is.              *)
OnDisk == 18
Toasted(how) == [toasted |-> how]
ExternalSize(tag) == CASE tag = OnDisk -> 18 [] tag \in {1, 2, 3} -> 10 [] OTHER -> 2
Method(b) == CASE b \div 64 = 0 -> "pglz" [] b \div 64 = 1 -> "lz4" [] OTHER -> "unknown"
External ==
  LET tag == IF size > 1 THEN tuple.bytes[offset + 2] ELSE 0
      len == ExternalSize(tag)
      word(i) == Bytes(offset + i, 4)
      packed == Unsigned(Append(SubSeq(word(6), 1, 3), word(6)[4] % 64)) < Unsigned(word(2)) - 4
  IN  IF len > size THEN Failed
      ELSE Used(len, <<Toasted(IF tag # OnDisk THEN "in memory"
                               ELSE IF packed THEN Method(word(6)[4]) ELSE "uncompressed")>>)

Short(type) ==
  LET len == tuple.bytes[offset + 1] \div 2
  IN  IF len > size THEN Failed
      ELSE ParseValue(type, Bytes(offset + 1, len - 1), len - 1, len)

(* A word of four bytes whose two low bits say what it is. *)
Long(type, padding) ==
  LET at  == offset + padding
      len == Unsigned(SubSeq(Bytes(at, 4), 2, 4)) * 64 + Bytes(at, 1)[1] \div 4
      raw == Unsigned(Append(Bytes(at + 4, 3), Bytes(at + 7, 1)[1] % 64))
      payload == Bytes(at + 8, len - 8)
      known == Bytes(at + 7, 1)[1] \div 64 < 2
  IN  CASE size - padding < 4 -> Failed
        [] size - padding >= 4 /\ len > size - padding -> Failed
        [] size - padding >= 4 /\ len <= size - padding /\ Bytes(at, 1)[1] % 4 = 0 ->
             ParseValue(type, Bytes(at + 4, len - 4), len - 4, padding + len)
        [] size - padding >= 8 /\ len <= size - padding /\ Bytes(at, 1)[1] % 4 = 2 ->
             IF known /\ len >= 8 /\ Len(Decompress(payload)) = raw
               THEN ParseValue(type, Decompress(payload), raw, padding + len)
               ELSE Used(padding + len, <<[remark |-> "corrupted"]>>)
        [] OTHER -> Failed

(* extract_data: only long values are aligned.  buff_size - padding wraps  *)
(* if less than the padding is left, and what follows is then no longer    *)
(* bounded by the tuple.                                                   *)
ExtractData_AlignedFirst(type) ==
  LET first == tuple.bytes[offset + 1]
      padding == Padding(offset, 4)
  IN  CASE padding > size -> Outside
        [] padding <= size /\ first = 1 -> External
        [] padding <= size /\ first # 1 /\ first % 2 = 1 -> Short(type)
        [] OTHER -> Long(type, padding)
ExtractData(type) ==
  LET first == tuple.bytes[offset + 1]
      padding == Padding(offset, 4)
  IN  CASE first = 1 -> External
        [] first # 1 /\ first % 2 = 1 -> Short(type)
        [] OTHER -> IF padding > size THEN Outside ELSE Long(type, padding)

DecodeIgnore == Used(size, <<>>)

Callback(type) == CASE type = "~" -> DecodeIgnore
                    [] type \in Varlena -> ExtractData(type)
                    [] OTHER -> DecodeFixed(type)

-------------------------------------------------------------------------------
(* HEAP_HASNULL is set, and bit k of t_bits is off.  Behind the last       *)
(* column the bits of its byte are off; up to eight types here.            *)
NullColumn == [null |-> TRUE]
IsNull(columns, k) == /\ \E i \in DOMAIN columns : columns[i] = NullColumn
                      /\ k <= Len(columns) => columns[k] = NullColumn

Init == /\ tuple \in Tuples
        /\ attr = 1 /\ offset = 0 /\ size = Len(tuple.bytes)
        /\ copyString = <<>> /\ outcome = "decoding"

Decoding == outcome = "decoding" /\ attr <= Len(tuple.types)
Null == Decoding /\ IsNull(tuple.columns, attr)

AppendNull ==
  /\ Null
  /\ copyString' = Appended(copyString, NULL)
  /\ attr' = attr + 1
  /\ UNCHANGED <<tuple, offset, size, outcome>>

NoBytesLeft ==
  /\ Decoding /\ ~Null /\ size = 0
  /\ outcome' = "error"
  /\ UNCHANGED <<tuple, attr, offset, size, copyString>>

(* decode_ignore appends nothing, not even a tab. *)
DecodeColumn ==
  /\ Decoding /\ ~Null /\ size > 0
  /\ LET type == tuple.types[attr]
         result == Callback(type)
     IN  IF result.ret = "used"
           THEN /\ copyString' = IF type = "~" THEN copyString ELSE Appended(copyString, result.text)
                /\ offset' = offset + result.used
                /\ size' = size - result.used
                /\ attr' = attr + 1
                /\ UNCHANGED outcome
           ELSE /\ outcome' = IF result.ret = "failed" THEN "error" ELSE result.ret
                /\ UNCHANGED <<attr, offset, size, copyString>>
  /\ UNCHANGED tuple

Finish_AnySize ==
  /\ outcome = "decoding" /\ attr > Len(tuple.types)
  /\ outcome' = "row"
  /\ UNCHANGED <<tuple, attr, offset, size, copyString>>

(* CopyFlush, if the types account for every byte. *)
Finish ==
  /\ outcome = "decoding" /\ attr > Len(tuple.types)
  /\ outcome' = IF size # 0 THEN "error" ELSE "row"
  /\ UNCHANGED <<tuple, attr, offset, size, copyString>>

Step == AppendNull \/ NoBytesLeft \/ DecodeColumn \/ Finish
Ended == outcome # "decoding" /\ UNCHANGED vars
Next == Step \/ Ended
Spec == Init /\ [][Next]_vars

-------------------------------------------------------------------------------
(* How the server lays a tuple out (heap_fill_tuple): a column is NULL, or *)
(* a value [type, form, bytes]; values of a fixed size are aligned, short  *)
(* strings and TOAST pointers are not.                                     *)
Word(n) == <<n % 256, (n \div 256) % 256, (n \div 65536) % 256, n \div 16777216>>
Zeros(n) == [i \in 1..n |-> 0]
Stored(data, column) ==
  LET aligned(a) == data \o Zeros(Padding(Len(data), a))
      n == Len(column.bytes)
  IN  CASE column = NullColumn -> data
        [] column # NullColumn ->
           CASE column.form = "fixed" -> aligned(FixedType(column.type).align) \o column.bytes
             [] column.form = "short" -> Append(data, 2 * (n + 1) + 1) \o column.bytes
             [] column.form = "plain" -> aligned(4) \o Word(4 * (n + 4)) \o column.bytes
             [] column.form = "packed" ->
                  aligned(4) \o Word(4 * (n + 8) + 2) \o Word(Len(Decompress(column.bytes))) \o column.bytes
             [] column.form = "toasted" -> data \o <<1, OnDisk>> \o column.bytes
Layout(columns) ==
  LET data[k \in 0..Len(columns)] ==
        IF k = 0 THEN <<>> ELSE Stored(data[k - 1], columns[k])
  IN  data[Len(columns)]

(* numeric_in's form of a number of so many units of 10^-scale: digits to  *)
(* the base 10000, without zero ones at either end, and the weight of the  *)
(* first; up to two of them in front of the point and two behind it here.  *)
NumericBytes(number, scale, short) ==
  LET abs     == IF number < 0 THEN -number ELSE number
      groups  == (scale + 3) \div 4
      whole   == abs \div 10^scale
      part    == (abs % 10^scale) * 10^(4 * groups - scale)
      digits  == <<whole \div 10^4, whole % 10^4>>
                 \o SubSeq(<<part \div 10^4, part % 10^4>>, 3 - groups, 2)
      filled  == {i \in DOMAIN digits : digits[i] # 0}
      from    == CHOOSE i \in filled : \A j \in filled : i <= j
      upto    == CHOOSE i \in filled : \A j \in filled : i >= j
      kept    == IF filled = {} THEN <<>> ELSE SubSeq(digits, from, upto)
      weight  == IF filled = {} THEN 0 ELSE 2 - from
      header  == IF short
                   THEN <<2^15 + (IF number < 0 THEN 2^13 ELSE 0) + scale * 2^7 + (weight % 2^7)>>
                   ELSE <<(IF number < 0 THEN 2^14 ELSE 0) + scale, weight % 2^16>>
  IN  FlattenSeq([i \in 1..(Len(header) + Len(kept)) |->
                    SubSeq(Word((header \o kept)[i]), 1, 2)])

(* The bytes a TOASTed value takes where it is stored, at most its own.    *)
StoredSize(column) == Unsigned(SubSeq(column.bytes, 5, 7) \o <<column.bytes[8] % 64>>)

(* The columns a server stores: a value of the size of its type, or one    *)
(* whose length fits its header; a numeric has the header of a number that *)
(* is printed, a time is one of a day, and no day is before the first      *)
(* Julian one.                                                             *)
Sound(type, bytes) ==
  type = "numeric" => /\ Len(bytes) >= 2 /\ Len(bytes) >= HeaderSize(Unsigned(SubSeq(bytes, 1, 2)))
                      /\ NumericPrints(bytes)
HasJulianDay(days) == EpochJDate + days >= 0
InRange(type, bytes) ==
  /\ type \in {"time", "timetz"} => Signed(SubSeq(bytes, 1, 8)) \in 0..UsecPerDay
  /\ type = "date" => IsLowest(bytes) \/ IsHighest(bytes) \/ HasJulianDay(Signed(bytes))
  /\ type = "timestamp" => IsLowest(bytes) \/ IsHighest(bytes) \/ HasJulianDay(Signed(bytes) \div UsecPerDay)
IsColumn(column) ==
  column # NullColumn =>
    LET n == Len(column.bytes)
        value == IF column.form = "packed" THEN Decompress(column.bytes) ELSE column.bytes
    IN  /\ column.bytes \in Seq(0..255)
        /\ \/ /\ column.form = "fixed"
              /\ column.type \in FixedTypes /\ n = FixedType(column.type).width
              /\ InRange(column.type, column.bytes)
           \/ /\ column.form = "toasted" /\ column.type \in Varlena
              /\ n = 16 /\ StoredSize(column) <= Unsigned(SubSeq(column.bytes, 1, 4)) - 4
           \/ /\ column.form \in {"short", "plain", "packed"} /\ column.type \in Varlena
              /\ n < IF column.form = "short" THEN 127 ELSE 2^30 - 8
              /\ value \in Seq(0..255) /\ Len(value) < 2^30 /\ Sound(column.type, value)

(* The tuples that are decoded: any bytes, and a list of types that -D has *)
(* taken; the columns are some that the tuple may have been stored with.   *)
ASSUME TuplesAssumption ==
  \A t \in Tuples :
    /\ t.types \in Seq(Types) /\ t.bytes \in Seq(0..255)
    /\ t.columns \in Seq(Range(t.columns)) /\ \A k \in DOMAIN t.columns : IsColumn(t.columns[k])

StoredHow(column) == IF StoredSize(column) = Unsigned(SubSeq(column.bytes, 1, 4)) - 4
                       THEN "uncompressed" ELSE Method(column.bytes[8])

(* What a column is read back as.                                          *)
Value(column) ==
  CASE column = NullColumn -> NoValue
    [] column # NullColumn ->
       CASE column.form = "toasted" -> <<Toasted(StoredHow(column))>>
         [] column.type = "string" /\ column.form = "packed" -> Chars(Decompress(column.bytes))
         [] column.type = "string" /\ column.form \in {"short", "plain"} -> Chars(column.bytes)
         [] column.type = "numeric" /\ column.form = "packed" -> <<NumericText(Decompress(column.bytes))>>
         [] column.type = "numeric" /\ column.form \in {"short", "plain"} -> <<NumericText(column.bytes)>>
         [] column.type = "char" -> Chars(column.bytes)
         [] column.type = "name" -> CString(column.bytes)
         [] column.type \notin Varlena \cup {"char", "name"} -> FixedText(column.type, column.bytes)

-------------------------------------------------------------------------------
TypeOK == /\ attr \in 1..(Len(tuple.types) + 1)
          /\ offset \in 0..Len(tuple.bytes) /\ size \in 0..Len(tuple.bytes)
          /\ offset + size = Len(tuple.bytes)
          /\ outcome \in {"decoding", "row", "error", "outside", "exit"}

(* The tuple has not been damaged, and the types are those of its columns, *)
(* as far as both go.                                                      *)
Laid == tuple.bytes = Layout(tuple.columns)
Named(k) == tuple.types[k] = IF tuple.columns[k] = NullColumn THEN tuple.types[k] ELSE tuple.columns[k].type
Common == LET n == Len(tuple.types) m == Len(tuple.columns) IN IF n < m THEN n ELSE m
Agrees(n) == Laid /\ n <= Common /\ \A k \in 1..n : Named(k)
Exact == Len(tuple.types) = Len(tuple.columns) /\ Agrees(Len(tuple.columns))

(* COPY reads from the line the very columns of the tuple, as many and as  *)
(* they were stored, whatever alignment, form and neighbours they have: no *)
(* text can look like a NULL, a column break or the end of the line.  Left *)
(* out are the two texts the code does not carry over: a tab (see below),  *)
(* and an empty first column, behind which CopyAppend sees an empty line   *)
(* and puts no tab.                                                        *)
Values == [k \in DOMAIN tuple.columns |-> Value(tuple.columns[k])]
HasTab(text) == TAB \in Range(text)
ReadsBack ==
  /\ outcome # "decoding" /\ Exact /\ tuple.columns # <<>>
  /\ Values[1] # <<>> /\ \A k \in DOMAIN Values : ~HasTab(Values[k])
  => outcome = "row" /\ ReadBack(copyString) = Values

(* Even so no character of a text ends the line or its column early, and   *)
(* at most the breaks behind leading empty columns are lost.               *)
BreaksKept ==
  outcome = "row" /\ Exact /\ tuple.columns # <<>> =>
    LET filled == {k \in DOMAIN Values : Values[k] # <<>>}
        lost == IF filled = {} THEN Len(Values) - 1
                ELSE (CHOOSE k \in filled : \A j \in filled : k <= j) - 1
    IN  /\ Len(Split(copyString)) = Len(Values) - lost
        /\ {NL, CR, NUL} \cap Range(copyString) = {}

ColumnsReadBack == ReadsBack /\ BreaksKept

(* With too few types, or too many, no row is printed from which a stored  *)
(* value is missing: what the types do not name, or the tuple does not     *)
(* have, is NULL.                                                          *)
Rest == (Common + 1)..Len(tuple.columns)
NoneMissing ==
  outcome = "row" /\ Agrees(Common) =>
    /\ \A k \in Rest : tuple.columns[k] = NullColumn
    /\ Len(tuple.types) > Len(tuple.columns) => \E k \in DOMAIN tuple.columns : tuple.columns[k] = NullColumn

(* "~" leaves out the rest of the tuple, provided its first column is not  *)
(* NULL.                                                                   *)
IgnoresRest ==
  outcome # "decoding" /\ tuple.types # <<>> /\ Last(tuple.types) = "~" =>
    LET n == Len(tuple.types) - 1
    IN  Agrees(n) /\ n < Len(tuple.columns) /\ tuple.columns[n + 1] # NullColumn =>
          /\ outcome = "row"
          /\ n > 0 /\ Values[1] # <<>> /\ (\A k \in 1..n : ~HasTab(Values[k]))
               => ReadBack(copyString) = SubSeq(Values, 1, n)

NoColumnLost == NoneMissing /\ IgnoresRest

(* No decoder reads behind an undamaged tuple, although one that is to     *)
(* align a string takes the padding off a size it has not compared; and no *)
(* undamaged tuple ends the program, as a length below its own header does. *)
StaysInside ==
  /\ TypeOK
  /\ outcome \in {"outside", "exit"} => ~Agrees(Common)

-------------------------------------------------------------------------------
(* A date that has been printed is a day of the calendar, and the one that *)
(* lies as many days after 2000-01-01 as were stored; a timestamp is that  *)
(* day's and counts on from its midnight, before 2000 and before Christ,   *)
(* too.                                                                    *)
LeapYear(y) == y % 4 = 0 /\ (y % 100 = 0 => y % 400 = 0)
MonthLength(y, m) == CASE m = 2 -> IF LeapYear(y) THEN 29 ELSE 28
                       [] m \in {4, 6, 9, 11} -> 30
                       [] OTHER -> 31
Multiples(y, n) == (y - 1) \div n     \* how many up to the year before y, from year 1 on
DaysBefore(y, m) == <<0, 31, 59, 90, 120, 151, 181, 212, 243, 273, 304, 334>>[m]
                    + IF m > 2 /\ LeapYear(y) THEN 1 ELSE 0
DaysFrom2000(y, m, d) ==
  365 * (y - 2000) + (Multiples(y, 4) - Multiples(y, 100) + Multiples(y, 400)) - 484
  + DaysBefore(y, m) + d - 1

YearOf(text) == IF text.bc THEN 1 - text.year ELSE text.year
IsDay(text, days) ==
  /\ text.month \in 1..12 /\ text.day \in 1..MonthLength(YearOf(text), text.month)
  /\ text.year > 0
  /\ DaysFrom2000(YearOf(text), text.month, text.day) = days
IsClock(text, usecs) ==
  /\ text.hour \in 0..24 /\ text.minute \in 0..59 /\ text.second \in 0..59
  /\ text.usec \in 0..(UsecPerSec - 1)
  /\ usecs = ((text.hour * 60 + text.minute) * 60 + text.second) * UsecPerSec + text.usec

Sole(type) == outcome = "row" /\ Exact /\ tuple.types = <<type>> /\ tuple.columns # <<NullColumn>>
Limits == {"infinity"}
DatesTrue ==
  /\ Sole("date") /\ DOMAIN copyString[1] # Limits => IsDay(copyString[1], Signed(tuple.bytes))
  /\ Sole("timestamp") /\ DOMAIN copyString[1] # Limits =>
       LET stamp == Signed(tuple.bytes)
       IN  /\ IsDay(copyString[1].date, stamp \div UsecPerDay)
           /\ IsClock(copyString[1].clock, stamp % UsecPerDay)

(* A time is the one stored, and a time zone, to the minute, the negative  *)
(* of the seconds west of Greenwich that are stored.                       *)
TimesTrue ==
  /\ Sole("time") => IsClock(copyString[1], Signed(tuple.bytes))
  /\ Sole("timetz") =>
       LET text == copyString[1]
           west == Signed(SubSeq(tuple.bytes, 9, 12))
           shown == (text.zoneHour * 60 + text.zoneMinute) * IF text.east THEN -60 ELSE 60
       IN  /\ IsClock(text.clock, Signed(SubSeq(tuple.bytes, 1, 8)))
           /\ text.zoneMinute < 60
           /\ west - shown \in IF west < 0 THEN -59..0 ELSE 0..59

(* The digits of a numeric are those of the number stored, in front of and *)
(* behind its point, in the short header and in the long one.  Left out is *)
(* a zero without digits: it is printed without its scale.                 *)
NumbersTrue ==
  Sole("numeric") /\ "number" \in DOMAIN tuple.columns[1] /\ tuple.columns[1].number # 0 =>
    LET number == tuple.columns[1].number
        scale  == tuple.columns[1].scale
        text   == copyString[1]
        abs    == IF number < 0 THEN -number ELSE number
        digits == text.front \o text.behind
        Digit(power) == IF power > 9 THEN 0 ELSE (abs \div 10^power) % 10
    IN  /\ digits = [k \in DOMAIN digits |-> Digit(Len(digits) - k)]
        /\ Len(digits) < 10 => abs < 10^Len(digits)
        /\ text.negative = (number < 0)
        /\ Len(text.behind) = scale
        /\ Len(text.front) > 1 => text.front[1] # 0

ScalarsTrue == DatesTrue /\ TimesTrue /\ NumbersTrue

-------------------------------------------------------------------------------
(* "encode special symbols like \r, \n, \t and \\": a text with a tab is   *)
(* read back as it was, too.  CopyAppendEncode writes \r for it.           *)
TabsReadBack ==
  outcome = "row" /\ Exact /\ tuple.columns # <<>> /\ Values[1] # <<>> => ReadBack(copyString) = Values
================================================================================
