-------------------------------- MODULE Scalars --------------------------------
(***************************************************************************)
(* What the decoders of decode.c make of the bytes of a fixed-size value   *)
(* or of a numeric: dates, times and numerics as the fields they print,    *)
(* every other value as its bytes.                                         *)
(***************************************************************************)
EXTENDS Integers, SequencesExt

CONSTANT UsecPerSec     \* 1000000 (smaller where TLC counts: its integers have 32 bits)

ASSUME UsecAssumption == UsecPerSec \in Nat \ {0}

SecPerDay == 86400
UsecPerDay == SecPerDay * UsecPerSec
EpochJDate == 2451545   \* POSTGRES_EPOCH_JDATE, 2000-01-01

(* Division as in C, towards zero. *)
Quot(a, b) == IF a >= 0 THEN a \div b ELSE -((-a) \div b)
Rem(a, b)  == a - Quot(a, b) * b

(* Little-endian numbers. *)
Unsigned(bytes) ==
  LET number[i \in 0..Len(bytes)] ==
        IF i = 0 THEN 0 ELSE 256 * number[i - 1] + bytes[Len(bytes) - i + 1]
  IN  number[Len(bytes)]
Signed(bytes) ==
  LET last == Len(bytes)
      At(i) == IF i = last /\ bytes[i] >= 128 THEN bytes[i] - 256 ELSE bytes[i]
      number[i \in 0..last] == IF i = 0 THEN 0 ELSE 256 * number[i - 1] + At(last - i + 1)
  IN  number[last]

IsLowest(bytes)  == bytes = [i \in DOMAIN bytes |-> IF i = Len(bytes) THEN 128 ELSE 0]
IsHighest(bytes) == bytes = [i \in DOMAIN bytes |-> IF i = Len(bytes) THEN 127 ELSE 255]

-------------------------------------------------------------------------------
(* j2date: the Gregorian date of a Julian day. *)
J2Date(jd) ==
  LET since   == jd + 32044
      quad400 == since \div 146097
      extra   == (since - quad400 * 146097) * 4 + 3
      julian  == since + 60 + quad400 * 3 + extra \div 146097
      quad    == julian \div 1461
      rest    == julian % 1461
      y0      == (rest * 4) \div 1461
      day     == (IF y0 # 0 THEN (rest + 305) % 365 ELSE (rest + 306) % 366) + 123
      month   == (day * 2141) \div 65536
  IN  [year |-> y0 + quad * 4 - 4800, month |-> ((month + 10) % 12) + 1,
       day |-> day - (7834 * month) \div 256]

(* A year before 1 is printed as a year BC. *)
Printed(date) == [year |-> IF date.year <= 0 THEN 1 - date.year ELSE date.year,
                  month |-> date.month, day |-> date.day, bc |-> date.year <= 0]

DateText(bytes) ==
  CASE IsLowest(bytes)  -> [infinity |-> "-"]
    [] IsHighest(bytes) -> [infinity |-> "+"]
    [] OTHER -> Printed(J2Date(Signed(bytes) + EpochJDate))

Clock(usecs) ==
  LET secs == Quot(usecs, UsecPerSec)
  IN  [hour |-> Quot(Quot(secs, 60), 60), minute |-> Rem(Quot(secs, 60), 60),
       second |-> Rem(secs, 60), usec |-> Rem(usecs, UsecPerSec)]

TimeText(bytes) == Clock(Signed(bytes))

(* The zone is stored in seconds west of Greenwich; its seconds are lost,  *)
(* and Greenwich itself gets a minus sign.                                 *)
TimeTzText(bytes) ==
  LET zone == -Quot(Signed(SubSeq(bytes, 9, 12)), 60)
      Abs(n) == IF n < 0 THEN -n ELSE n
  IN  [clock |-> Clock(Signed(SubSeq(bytes, 1, 8))),
       east |-> zone > 0, zoneHour |-> Abs(Quot(zone, 60)), zoneMinute |-> Abs(Rem(zone, 60))]

(* decode_timestamp_internal: what is left of the day is made positive.    *)
DayAndTime_TowardsZero(stamp) == <<Quot(stamp, UsecPerDay), Rem(stamp, UsecPerDay)>>
DayAndTime(stamp) ==
  LET day  == Quot(stamp, UsecPerDay)
      rest == stamp - day * UsecPerDay
  IN  IF rest < 0 THEN <<day - 1, rest + UsecPerDay>> ELSE <<day, rest>>

TimestampText(bytes) ==
  CASE IsLowest(bytes)  -> [infinity |-> "-"]
    [] IsHighest(bytes) -> [infinity |-> "+"]
    [] OTHER -> LET parts == DayAndTime(Signed(bytes))
                IN  [date |-> Printed(J2Date(parts[1] + EpochJDate)), clock |-> Clock(parts[2])]

-------------------------------------------------------------------------------
(* The header of a numeric (decode.h): short, long, or a special value.    *)
IsSpecial(h)  == h \div 2^14 = 3
IsShort(h)    == h \div 2^14 = 2
ShortHeader(h) == h \div 2^15 = 1
HeaderSize(h) == IF ShortHeader(h) THEN 2 ELSE 4
Negative(h)   == IF IsShort(h) THEN (h \div 2^13) % 2 = 1 ELSE h \div 2^14 = 1
DScale(h)     == IF ShortHeader(h) THEN (h \div 2^7) % 2^6 ELSE h % 2^14
ShortWeight(h) == (h % 2^6) - IF (h \div 2^6) % 2 = 1 THEN 2^6 ELSE 0

(* The four decimal digits of a base-10000 digit. *)
Decimals(d) == <<d \div 1000, (d \div 100) % 10, (d \div 10) % 10, d % 10>>

(* CopyAppendNumeric, of num_size bytes: the digits in front of the point, *)
(* without leading zeros, and dscale digits behind it.  A zero without     *)
(* digits is printed as 0 whatever its scale.                              *)
NumericText(bytes) ==
  LET h       == Unsigned(SubSeq(bytes, 1, 2))
      weight  == IF ShortHeader(h) THEN ShortWeight(h) ELSE Signed(SubSeq(bytes, 3, 4))
      ndigits == (Len(bytes) - HeaderSize(h)) \div 2
      At(d)   == IF d \in 0..(ndigits - 1)
                   THEN Unsigned(SubSeq(bytes, HeaderSize(h) + 2 * d + 1, HeaderSize(h) + 2 * d + 2))
                   ELSE 0
      Group(d) == Decimals(At(d))
      front   == FlattenSeq([d \in 1..(weight + 1) |-> Group(d - 1)])
      Leading(s) == CHOOSE k \in 0..3 :
                      /\ \A i \in 1..k : s[i] = 0
                      /\ k = 3 \/ s[k + 1] # 0
      behind  == FlattenSeq([k \in 1..((DScale(h) + 3) \div 4) |-> Group(weight + k)])
  IN  CASE IsSpecial(h) -> [special |-> h]
        [] ~IsSpecial(h) /\ Len(bytes) = HeaderSize(h) ->
             [negative |-> FALSE, front |-> <<0>>, behind |-> <<>>]
        [] OTHER ->
             [negative |-> Negative(h),
              front |-> IF weight < 0 THEN <<0>> ELSE SubSeq(front, Leading(front) + 1, Len(front)),
              behind |-> SubSeq(behind, 1, DScale(h))]

(* The values that are printed at all; other special headers are an error. *)
Specials == {49152, 53248, 61440}       \* NaN, Infinity, -Infinity
NumericPrints(bytes) ==
  LET h == Unsigned(SubSeq(bytes, 1, 2)) IN IsSpecial(h) => h \in Specials
================================================================================
