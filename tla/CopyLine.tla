------------------------------- MODULE CopyLine -------------------------------
(***************************************************************************)
(* The COPY line FormatDecode (decode.c) puts together for a tuple, in the *)
(* text format of COPY.  A text is a sequence of characters,               *)
(* [char |-> its byte], and of printed numbers, dates and remarks, which   *)
(* are records of other shapes and hold no special character.              *)
(***************************************************************************)
EXTENDS Integers, SequencesExt

C(b) == [char |-> b]
NUL == C(0)  TAB == C(9)  NL == C(10)  CR == C(13)  BS == C(92)

(* "\N", which stands for a NULL *)
NULL == <<BS, C(78)>>

(* CopyAppendEncode, one character *)
EncodeChar(c) ==
  CASE c = NUL -> <<BS, C(48)>>
    [] c = CR  -> <<BS, C(114)>>
    [] c = NL  -> <<BS, C(110)>>
    [] c = TAB -> <<BS, C(114)>>
    [] c = BS  -> <<BS, BS>>
    [] OTHER   -> <<c>>

Encode(text) == FlattenSeq([i \in DOMAIN text |-> EncodeChar(text[i])])

(* CopyAppend: a tab goes between, if there is something on the line. *)
Appended(line, str) == IF line # <<>> THEN line \o <<TAB>> \o str ELSE line \o str

-------------------------------------------------------------------------------
(* How COPY reads a line back: columns end at tabs, and a backslash gives  *)
(* the next character its meaning.                                         *)
Broken(columns, c) == IF c = TAB THEN Append(columns, <<>>)
                      ELSE [columns EXCEPT ![Len(columns)] = Append(@, c)]
Split(text) ==
  LET columns[i \in 0..Len(text)] ==
        IF i = 0 THEN << <<>> >> ELSE Broken(columns[i - 1], text[i])
  IN  columns[Len(text)]

Meaning(c) == CASE c = C(110) -> NL [] c = C(114) -> CR [] c = C(116) -> TAB
                [] c = C(48) -> NUL [] OTHER -> c

Read(acc, c) ==
  IF acc.escaped THEN [text |-> Append(acc.text, Meaning(c)), escaped |-> FALSE]
  ELSE IF c = BS THEN [text |-> acc.text, escaped |-> TRUE]
  ELSE [text |-> Append(acc.text, c), escaped |-> FALSE]
Unescaped(text) ==
  LET acc[i \in 0..Len(text)] ==
        IF i = 0 THEN [text |-> <<>>, escaped |-> FALSE] ELSE Read(acc[i - 1], text[i])
  IN  acc[Len(text)]
Unescape(text) == Unescaped(text).text

(* NULL has a value of its own: no text is [null |-> TRUE]. *)
NoValue == <<[null |-> TRUE]>>
ReadBack(text) ==
  LET columns == Split(text)
  IN  [i \in DOMAIN columns |-> IF columns[i] = NULL THEN NoValue ELSE Unescape(columns[i])]
===============================================================================
