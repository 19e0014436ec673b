-------------------------------- MODULE Options --------------------------------
(***************************************************************************)
(* The command line of pg_filedump: ConsumeOptions (pg_filedump.c) goes    *)
(* over the arguments, one state per argument and per letter of a group of *)
(* switches, and decides whether to dump, and what.  args[x] is the        *)
(* program's options[x].                                                   *)
(***************************************************************************)
EXTENDS Integers, SequencesExt

CONSTANTS Files,         \* the arguments that name a file that can be opened
          Types,         \* the type names of callback_table
          TypesMax,      \* ATTRTYPES_STR_MAX_LEN, as a number of names
          IntMax,        \* the largest int
          HeaderMax      \* 50: the option characters the dump header has room for

ASSUME LimitsAssumption == IntMax \in Nat /\ HeaderMax \in Nat

VARIABLES pc, args, x, y, rc, exitCode,
          optionBits,    \* the bits set in the four option words, by switch letter
          given,         \* blockStart, blockEnd, blockSize, segmentSize, segmentNumber, callbacks
          opened,        \* fp is open
          isRelMapFile

optionVars == <<rc, exitCode, optionBits, given, opened, isRelMapFile>>

BlockSwitches   == {"a", "b", "d", "f", "k", "o", "t", "M", "V", "R", "S", "D"}
ItemSwitches    == {"i", "x", "y"}
LetterSwitches  == {"a", "b", "c", "d", "f", "i", "k", "o", "t", "x", "y", "M", "V"}
ValueSwitches   == {"R", "S", "s", "D", "n"}

(* An argument is [kind |-> "switches", letters |-> ...] ("-abc"),         *)
(* [kind |-> "long", name |-> ...] ("--page"), [kind |-> "number",         *)
(* value |-> ...], [kind |-> "range", lo |-> ..., hi |-> ...] ("1-2") or   *)
(* [kind |-> "word", text |-> ...], the characters of a file name or the   *)
(* names of a list of types; the empty argument is the word without text.  *)
Dashed(arg)  == arg.kind \in {"switches", "long"}
Letters(arg) == IF arg.kind = "long" THEN <<"-">> ELSE arg.letters
Valued(arg)  == Dashed(arg) /\ Len(Letters(arg)) = 1 /\ Letters(arg)[1] \in ValueSwitches
Empty(arg)   == arg.kind = "word" /\ arg.text = <<>>
Help         == [kind |-> "switches", letters |-> <<"h">>]

-------------------------------------------------------------------------------
(* GetOptionValue: atoi keeps the low bits of a number; an argument        *)
(* without a character has none that is no digit, and is 0.                *)
GetOptionValue(arg) ==
  CASE arg.kind = "number" -> ((arg.value + IntMax + 1) % (2 * IntMax + 2)) - IntMax - 1
    [] Empty(arg) -> 0
    [] OTHER -> -1

(* GetSegmentNumberFromFileName, the name as a sequence of characters:     *)
(* the digits behind a last dot, if nothing stands between.                *)
Digits == <<"1", "2", "3", "4", "5", "6", "7", "8", "9">>
DigitValue(c) == IF c = "0" THEN 0 ELSE CHOOSE d \in DOMAIN Digits : Digits[d] = c
IsDigit(c) == c = "0" \/ c \in Range(Digits)
NumberAt(text, i) == FoldLeft(LAMBDA n, c : 10 * n + DigitValue(c), 0, SubSeq(text, i, Len(text)))

GetSegmentNumberFromFileName_AnyDot(text) ==
  LET dots == {i \in DOMAIN text : text[i] = "."}
  IN  IF dots = {} THEN 0
      ELSE NumberAt(SelectSeq(text, IsDigit), 1)
GetSegmentNumberFromFileName(text) ==
  LET digitsFrom == CHOOSE i \in 1..(Len(text) + 1) :
                      /\ \A j \in i..Len(text) : IsDigit(text[j])
                      /\ i > 1 => ~IsDigit(text[i - 1])
  IN  IF digitsFrom > 1 /\ text[digitsFrom - 1] = "." THEN NumberAt(text, digitsFrom) ELSE 0

(* ParseAttributeTypesString and AddTypeCallback: empty names are skipped, *)
(* an unknown one refuses the string.                                      *)
TypesKnown(arg) ==
  /\ arg.kind = "word"
  /\ Len(arg.text) <= TypesMax
  /\ \A i \in DOMAIN arg.text : arg.text[i] \in Types \cup {""}
Callbacks(arg) == SelectSeq(arg.text, LAMBDA name : name # "")

-------------------------------------------------------------------------------
Default == [start |-> -1, end |-> -1, size |-> -1, segmentSize |-> -1, segmentNumber |-> 0,
            callbacks |-> <<>>]

(* SET_OPTION: a switch that is set already is a duplicate. *)
SetOption(l) == IF l \in optionBits THEN rc' = "duplicate" /\ UNCHANGED optionBits
                ELSE optionBits' = optionBits \cup {l} /\ UNCHANGED rc

AtArgument == pc = "args" /\ x <= Len(args)
Switch == args[x].letters[1]
AtValued == AtArgument /\ Valued(args[x])

(* Only accept the switch once - nor after any duplicate. *)
Repeated == Switch \in optionBits \/ rc = "duplicate"
ValueRepeated ==
  /\ AtValued /\ Repeated
  /\ optionBits' = optionBits \cup {Switch} /\ rc' = "duplicate"
  /\ pc' = "left"
  /\ UNCHANGED <<args, x, y, exitCode, given, opened, isRelMapFile>>

(* The value may not be the last argument, which is the file.  The exit    *)
(* code is not set for -S.                                                 *)
Lacks == x >= Len(args) - 1
ValueMissing ==
  /\ AtValued /\ ~Repeated /\ Lacks
  /\ optionBits' = optionBits \cup {Switch} /\ rc' = "invalid"
  /\ exitCode' = IF Switch = "S" THEN exitCode ELSE 1
  /\ pc' = "left"
  /\ UNCHANGED <<args, x, y, given, opened, isRelMapFile>>

ValueGood(l, arg) == CASE l = "D" -> TypesKnown(arg)
                  [] l = "R" -> GetOptionValue(arg) >= 0
                  [] OTHER   -> GetOptionValue(arg) > 0

ValueRefused ==
  /\ AtValued /\ ~Repeated /\ ~Lacks
  /\ ~ValueGood(Switch, args[x + 1])
  /\ optionBits' = optionBits \cup {Switch} /\ rc' = "invalid" /\ exitCode' = 1
  /\ pc' = "left"
  /\ UNCHANGED <<args, x, y, given, opened, isRelMapFile>>

ValueTaken ==
  /\ AtValued /\ ~Repeated /\ ~Lacks /\ Switch # "R"
  /\ ValueGood(Switch, args[x + 1])
  /\ LET value == args[x + 1]
     IN  given' = CASE Switch = "S" -> [given EXCEPT !.size = GetOptionValue(value)]
                    [] Switch = "s" -> [given EXCEPT !.segmentSize = GetOptionValue(value)]
                    [] Switch = "n" -> [given EXCEPT !.segmentNumber = GetOptionValue(value)]
                    [] Switch = "D" -> [given EXCEPT !.callbacks = Callbacks(value)]
  /\ optionBits' = optionBits \cup {Switch}
  /\ x' = x + 2
  /\ UNCHANGED <<pc, args, y, rc, exitCode, opened, isRelMapFile>>

(* The end of the range is optional: a number that is not the last         *)
(* argument is one.                                                        *)
HasEnd == x + 2 < Len(args) /\ GetOptionValue(args[x + 2]) >= 0
RangeTaken ==
  /\ AtValued /\ ~Repeated /\ ~Lacks /\ Switch = "R"
  /\ ValueGood("R", args[x + 1])
  /\ LET start == GetOptionValue(args[x + 1])
         end == IF HasEnd THEN GetOptionValue(args[x + 2]) ELSE start
     IN  IF start <= end
           THEN /\ given' = [given EXCEPT !.start = start, !.end = end]
                /\ x' = x + IF HasEnd THEN 3 ELSE 2
                /\ UNCHANGED <<pc, rc, exitCode>>
           ELSE /\ given' = [given EXCEPT !.start = start, !.end = start]
                /\ rc' = "invalid" /\ exitCode' = 1 /\ pc' = "left"
                /\ UNCHANGED x
  /\ optionBits' = optionBits \cup {Switch}
  /\ UNCHANGED <<args, y, opened, isRelMapFile>>

-------------------------------------------------------------------------------
(* The last argument must be the file, or ask for help. *)
LastArgument ==
  /\ AtArgument /\ ~Valued(args[x]) /\ x = Len(args)
  /\ UNCHANGED <<args, y, optionBits, isRelMapFile>>
  /\ \/ /\ ~Dashed(args[x]) /\ args[x] \in Files
        /\ opened' = TRUE
        /\ given' = IF "n" \in optionBits THEN given
                    ELSE [given EXCEPT !.segmentNumber =
                            IF args[x].kind = "word" THEN GetSegmentNumberFromFileName(args[x].text) ELSE 0]
        /\ x' = x + 1
        /\ UNCHANGED <<pc, rc, exitCode>>
     \/ /\ ~Dashed(args[x]) /\ args[x] \notin Files
        /\ rc' = "file" /\ exitCode' = 1 /\ pc' = "left"
        /\ UNCHANGED <<x, given, opened>>
     \/ /\ args[x] = Help
        /\ rc' = "copyright" /\ pc' = "left"
        /\ UNCHANGED <<x, exitCode, given, opened>>
     \/ /\ Dashed(args[x]) /\ args[x] # Help
        /\ rc' = "file" /\ exitCode' = 1 /\ pc' = "left"
        /\ UNCHANGED <<x, given, opened>>

NotSwitches_NoCode ==
  /\ AtArgument /\ x < Len(args) /\ ~Dashed(args[x])
  /\ rc' = "invalid" /\ pc' = "left"
  /\ UNCHANGED <<args, x, y, exitCode, optionBits, given, opened, isRelMapFile>>

NotSwitches ==
  /\ AtArgument /\ x < Len(args) /\ ~Dashed(args[x])
  /\ rc' = "invalid" /\ exitCode' = 1 /\ pc' = "left"
  /\ UNCHANGED <<args, x, y, optionBits, given, opened, isRelMapFile>>

OpenGroup ==
  /\ AtArgument /\ x < Len(args) /\ Dashed(args[x]) /\ ~Valued(args[x])
  /\ pc' = "letters" /\ y' = 1
  /\ UNCHANGED <<args, x, optionVars>>

(* One letter of a group.  Any code but valid, also one an earlier group   *)
(* left behind, ends this group but not the loop over the arguments.       *)
Excludes_OneWay(l) == l = "x" /\ "y" \in optionBits
Excludes(l) == \/ l = "x" /\ "y" \in optionBits
               \/ l = "y" /\ "x" \in optionBits

Letter ==
  /\ pc = "letters" /\ y <= Len(Letters(args[x]))
  /\ LET l == Letters(args[x])[y]
     IN  /\ IF l \in LetterSwitches
              THEN IF Excludes(l)
                     THEN rc' = "invalid" /\ exitCode' = 1 /\ optionBits' = optionBits \cup {l}
                     ELSE SetOption(l) /\ UNCHANGED exitCode
              ELSE /\ UNCHANGED optionBits
                   /\ CASE l = "h" -> rc' = "copyright" /\ UNCHANGED exitCode
                        [] l \in {"m", "v"} -> UNCHANGED <<rc, exitCode>>
                        [] OTHER -> rc' = "invalid" /\ exitCode' = 1
         /\ isRelMapFile' = (isRelMapFile \/ l = "m")
  /\ IF rc' # "valid" THEN pc' = "args" /\ x' = x + 1 /\ UNCHANGED y
     ELSE y' = y + 1 /\ UNCHANGED <<pc, x>>
  /\ UNCHANGED <<args, given, opened>>

CloseGroup ==
  /\ pc = "letters" /\ y > Len(Letters(args[x]))
  /\ pc' = "args" /\ x' = x + 1
  /\ UNCHANGED <<args, y, optionVars>>

-------------------------------------------------------------------------------
(* Behind the loop: a duplicate is reported, and the modes turn off the    *)
(* options they do not honour.  For -c the bits of -f and -S move from     *)
(* blockOptions to controlOptions.                                         *)
Keeps(l) == CASE l = "c" -> {"c", "f", "S", "s", "n"}
              [] l = "b" -> {"b", "R", "S", "s", "n"}
              [] l = "d" -> {"d", "a", "R", "S", "s", "n"}

Finish ==
  /\ \/ pc = "left"
     \/ pc = "args" /\ x > Len(args)
  /\ pc' = "checked"
  /\ UNCHANGED <<args, x, y, given, opened, isRelMapFile>>
  /\ \/ /\ rc # "valid"
        /\ exitCode' = IF rc = "duplicate" THEN 1 ELSE exitCode
        /\ UNCHANGED <<rc, optionBits>>
     \/ /\ rc = "valid" /\ "c" \in optionBits
        /\ IF optionBits \cap ((BlockSwitches \ {"f", "S"}) \cup ItemSwitches) # {}
             THEN rc' = "invalid" /\ exitCode' = 1 /\ UNCHANGED optionBits
             ELSE optionBits' = optionBits \cap Keeps("c") /\ UNCHANGED <<rc, exitCode>>
     \/ /\ rc = "valid" /\ "c" \notin optionBits
        /\ optionBits' = CASE "b" \in optionBits -> optionBits \cap Keeps("b")
                           [] "b" \notin optionBits /\ "d" \in optionBits -> optionBits \cap Keeps("d")
                           [] OTHER -> optionBits
        /\ UNCHANGED <<rc, exitCode>>

ConsumeOptions == \/ ValueRepeated \/ ValueMissing \/ ValueRefused \/ ValueTaken \/ RangeTaken
                  \/ LastArgument \/ NotSwitches \/ OpenGroup \/ Letter \/ CloseGroup \/ Finish
================================================================================
