------------------------------ MODULE CommandLine ------------------------------
(***************************************************************************)
(* main (pg_filedump.c): -F and -V anywhere on the command line hand it to *)
(* fsm_main (pg_fsm.c) or vm_main (pg_vm.c), which parse it their own way; *)
(* any other line goes to ConsumeOptions, and what that accepts is dumped. *)
(***************************************************************************)
EXTENDS Options, FiniteSets

CONSTANTS Lines,     \* the command lines, without the program's name
          PosMax     \* 8: the places of pos in fsm_main and vm_main

Arguments == [kind : {"switches"}, letters : Seq(STRING)]
             \cup [kind : {"long"}, name : STRING]
             \cup [kind : {"number"}, value : Nat]
             \cup [kind : {"range"}, lo : Nat, hi : Nat]
             \cup [kind : {"word"}, text : Seq(STRING)]

ASSUME LinesAssumption == Lines \subseteq Seq(Arguments)
ASSUME PosAssumption == PosMax \in Nat

VARIABLES line,      \* argv[1..]
          tool,      \* "filedump", "fsm" or "vm"
          flags,     \* what parse_fsm_flags or parse_vm_flags have switched on
          values,    \* the range, page and bounds they have read
          pos,       \* the arguments that are no flags
          job        \* what main ends up doing

mapVars == <<flags, values, pos>>
mainVars == <<pc, args, x, y, optionVars, line, tool, mapVars, job>>

Alone(arg, l) == arg.kind = "switches" /\ arg.letters = <<l>>
Word(arg, w)  == arg.kind = "word" /\ arg.text = <<w>>
NoValues == [range |-> <<>>, heapPage |-> <<>>, min |-> <<>>, max |-> <<>>]

MainInit ==
  /\ line \in Lines
  /\ args = line /\ x = 1 /\ y = 1 /\ pc = "main"
  /\ rc = "valid" /\ exitCode = 0 /\ optionBits = {} /\ given = Default
  /\ opened = FALSE /\ isRelMapFile = FALSE
  /\ tool = "filedump" /\ flags = {} /\ values = NoValues /\ pos = <<>> /\ job = "none"

-------------------------------------------------------------------------------
(* The first -F or -V decides, even where it is meant as a value; it is    *)
(* taken out of the line.                                                  *)
MapFlagAt == {i \in DOMAIN line : Alone(line[i], "F") \/ Alone(line[i], "V")}

RunModule ==
  /\ pc = "main" /\ MapFlagAt # {}
  /\ LET i == CHOOSE i \in MapFlagAt : \A j \in MapFlagAt : i <= j
         rest == SubSeq(line, 1, i - 1) \o SubSeq(line, i + 1, Len(line))
         runs == rest # <<>> /\ (Word(rest[1], "dump") \/ Word(rest[1], "diff"))
     IN  /\ tool' = IF Alone(line[i], "F") THEN "fsm" ELSE "vm"
         /\ args' = rest
         /\ IF runs THEN pc' = "flags" /\ x' = 2 /\ UNCHANGED <<job, exitCode>>
            ELSE pc' = "done" /\ job' = "usage" /\ exitCode' = 1 /\ UNCHANGED x
  /\ UNCHANGED <<line, y, rc, optionBits, given, opened, isRelMapFile, mapVars>>

NoParameters ==
  /\ pc = "main" /\ line = <<>>
  /\ rc' = "copyright" /\ pc' = "checked"
  /\ UNCHANGED <<args, x, y, exitCode, optionBits, given, opened, isRelMapFile, line, tool, mapVars, job>>

StartOptions ==
  /\ pc = "main" /\ MapFlagAt = {} /\ line # <<>>
  /\ pc' = "args"
  /\ UNCHANGED <<args, x, y, optionVars, line, tool, mapVars, job>>

-------------------------------------------------------------------------------
(* parse_fsm_flags and parse_vm_flags, one argument per step. *)
ValueFlags == IF tool = "fsm" THEN {"--range", "--page", "--heap-page", "--min", "--max"}
              ELSE {"--heap-range", "--heap-page"}
LongFlags  == IF tool = "fsm" THEN {"--extra", "--only-changed"}
              ELSE {"--extra", "--only-changed", "--only-not-visible", "--notV",
                    "--only-not-frozen", "--notF"}
ShortFlags == IF tool = "fsm" THEN {"H", "i", "s", "a", "q"} ELSE {"H", "q"}

(* What a flag switches on. *)
Effect_OnlySlots(f) == IF f = "a" THEN {"s"} ELSE {f}
Effect(f) == CASE f = "a"      -> {"H", "i", "s"}
               [] f = "--notV" -> {"--only-not-visible"}
               [] f = "--notF" -> {"--only-not-frozen"}
               [] OTHER        -> {f}

(* atol, of any argument *)
Atol(arg) == CASE arg.kind = "number" -> arg.value
               [] arg.kind = "range" -> arg.lo
               [] OTHER -> 0

AtFlag == pc = "flags" /\ x <= Len(args)
IsLong(names) == args[x].kind = "long" /\ args[x].name \in names

(* A bad range is reported and ignored. *)
Store(name, arg) ==
  CASE name \in {"--range", "--heap-range"} ->
         IF arg.kind = "range" THEN [values EXCEPT !.range = <<arg.lo, arg.hi>>] ELSE values
    [] name = "--page"      -> [values EXCEPT !.range = <<Atol(arg), Atol(arg)>>]
    [] name = "--heap-page" -> [values EXCEPT !.heapPage = <<Atol(arg)>>]
    [] name = "--min"       -> [values EXCEPT !.min = <<Atol(arg)>>]
    [] name = "--max"       -> [values EXCEPT !.max = <<Atol(arg)>>]

ValueFlag ==
  /\ AtFlag /\ IsLong(ValueFlags) /\ x < Len(args)
  /\ values' = Store(args[x].name, args[x + 1])
  /\ x' = x + 2
  /\ UNCHANGED <<flags, pos>>

LongFlag ==
  /\ AtFlag /\ IsLong(LongFlags)
  /\ flags' = flags \cup Effect(args[x].name)
  /\ x' = x + 1
  /\ UNCHANGED <<values, pos>>

(* Unknown letters are reported and ignored. *)
IsShort == args[x].kind = "switches" /\ args[x].letters # <<>>
ShortGroup ==
  /\ AtFlag /\ IsShort
  /\ flags' = flags \cup UNION {Effect(l) : l \in Range(args[x].letters) \cap ShortFlags}
  /\ x' = x + 1
  /\ UNCHANGED <<values, pos>>

(* Anything else: also an unknown long flag, and a flag that lacks the     *)
(* value behind it.                                                        *)
AtPositional == /\ AtFlag /\ ~IsShort /\ ~IsLong(LongFlags)
                /\ IsLong(ValueFlags) => x = Len(args)
Positional ==
  /\ AtPositional /\ Len(pos) < PosMax
  /\ pos' = Append(pos, args[x])
  /\ x' = x + 1
  /\ UNCHANGED <<flags, values>>

ParseFlag == /\ ValueFlag \/ LongFlag \/ ShortGroup \/ Positional
             /\ UNCHANGED <<pc, args, y, optionVars, line, tool, job>>

(* The places are not counted: one argument more is written behind the     *)
(* array, over whatever stands there, and what becomes of the run then -   *)
(* the usage, other options, a crash - is undefined.                       *)
PastPositions ==
  /\ AtPositional /\ Len(pos) >= PosMax
  /\ pc' = "done" /\ job' = "undefined" /\ exitCode' \in {0, 1}
  /\ UNCHANGED <<args, x, y, rc, optionBits, given, opened, isRelMapFile, line, tool, mapVars>>

(* fsm_main, vm_main: as many files as the command takes, or the usage.    *)
FilesOf(command) == IF Word(command, "dump") THEN 2 ELSE 3
RunTool ==
  /\ pc = "flags" /\ x > Len(args)
  /\ pc' = "done"
  /\ IF Len(pos) = FilesOf(args[1]) THEN job' = "map" /\ exitCode' \in {0, 1}
     ELSE job' = "usage" /\ exitCode' = 1
  /\ UNCHANGED <<args, x, y, rc, optionBits, given, opened, isRelMapFile, line, tool, mapVars>>

-------------------------------------------------------------------------------
Consume == ConsumeOptions /\ UNCHANGED <<line, tool, mapVars, job>>

(* CreateDumpFileHeader: the options it shows, as long as they fit. *)
Width(arg) == CASE arg.kind = "switches" -> 1 + Len(arg.letters)
                [] arg.kind = "word" -> Len(arg.text)
                [] OTHER -> 1
HasRoom(width, arg, limit) == width + Width(arg) <= limit
HeaderWidth(limit) ==
  LET last == Len(args) - 1
      shown[k \in 0..last] ==
        IF k = 0 THEN [width |-> 0, full |-> FALSE]
        ELSE IF shown[k - 1].full \/ ~HasRoom(shown[k - 1].width, args[k], limit)
          THEN [width |-> shown[k - 1].width, full |-> TRUE]
        ELSE [width |-> shown[k - 1].width + Width(args[k]) + (IF k < last THEN 1 ELSE 0), full |-> FALSE]
  IN  shown[last].width

(* main, behind the options *)
Dispatch ==
  /\ pc = "checked"
  /\ pc' = "done"
  /\ job' = CASE rc # "valid" -> "usage"
              [] rc = "valid" /\ isRelMapFile -> "relmap"
              [] rc = "valid" /\ ~isRelMapFile /\ "c" \in optionBits -> "control"
              [] OTHER -> "blocks"
  /\ UNCHANGED <<args, x, y, optionVars, line, tool, mapVars>>

MainStep == \/ RunModule \/ NoParameters \/ StartOptions \/ ParseFlag \/ PastPositions \/ RunTool
            \/ Consume \/ Dispatch
MainEnded == pc = "done" /\ UNCHANGED mainVars
MainNext == MainStep \/ MainEnded
MainSpec == MainInit /\ [][MainNext]_mainVars

-------------------------------------------------------------------------------
MainTypeOK ==
  /\ pc \in {"main", "args", "letters", "left", "checked", "flags", "done"}
  /\ Len(args) \in {Len(line), Len(line) - 1} /\ x \in 1..(Len(args) + 1) /\ y \in Nat
  /\ rc \in {"valid", "invalid", "file", "duplicate", "copyright"}
  /\ exitCode \in {0, 1} /\ optionBits \subseteq LetterSwitches \cup ValueSwitches
  /\ tool \in {"filedump", "fsm", "vm"}
  /\ job \in {"none", "usage", "relmap", "control", "blocks", "map", "undefined"}
  /\ Len(pos) <= Len(line) /\ Len(pos) <= PosMax

Done(t) == pc = "done" /\ tool = t

(* What the usage text allows: switches and their values in any order, the *)
(* file last, no switch twice (but -m and -v), not -x with -y, and with -c *)
(* only -S and -f (and what is not about blocks or items).                 *)
LettersAt(i) == IF Dashed(line[i]) THEN Letters(line[i]) ELSE <<>>
Asked == UNION {Range(LettersAt(i)) : i \in DOMAIN line}
Once(l) == \A i, k \in DOMAIN line : \A j \in DOMAIN LettersAt(i), m \in DOMAIN LettersAt(k) :
             LettersAt(i)[j] = l /\ LettersAt(k)[m] = l => i = k /\ j = m
ValueAt(i) == i > 1 /\ Valued(line[i - 1])
RangeEndAt(i) == /\ i > 2 /\ i < Len(line)
                 /\ Alone(line[i - 2], "R") /\ GetOptionValue(line[i]) >= 0
Expected(i) == IF Dashed(line[i])
                 THEN Valued(line[i]) \/ Range(Letters(line[i])) \subseteq LetterSwitches \cup {"m", "v"}
                 ELSE ValueAt(i) \/ RangeEndAt(i)
HasValue(i) == Valued(line[i]) => i < Len(line) - 1 /\ ValueGood(Letters(line[i])[1], line[i + 1])
InOrder(i) == RangeEndAt(i) => GetOptionValue(line[i - 1]) <= GetOptionValue(line[i])

WellFormed ==
  /\ line # <<>> /\ ~Dashed(line[Len(line)]) /\ line[Len(line)] \in Files
  /\ \A i \in 1..(Len(line) - 1) : Expected(i)
  /\ \A i \in 1..Len(line) : HasValue(i) /\ InOrder(i)
  /\ \A l \in Asked \ {"m", "v"} : Once(l)
  /\ ~({"x", "y"} \subseteq Asked)
  /\ "c" \in Asked => Asked \subseteq {"c", "f", "S", "m", "v", "s", "n"}

(* ConsumeOptions refuses exactly the lines that are not well formed.  Its *)
(* return code is overwritten by whatever comes later on the line, so that *)
(* no mistake may be forgotten when the loop goes on behind it.            *)
AcceptsExactly ==
  /\ MainTypeOK
  /\ Done("filedump") => (job # "usage" <=> WellFormed)

(* An accepted line is carried out as it was written: every switch is in   *)
(* force but those the mode turns off, wherever it stood, every value is   *)
(* the one behind its switch (of -D, the names that are not empty), a      *)
(* range ends where it starts unless an end is given, and the segment      *)
(* number is that of -n or the digits behind the last dot of the file's    *)
(* name; the options shown in the header fit its 52 bytes with the zero    *)
(* behind.  An empty argument counts as the number 0; numbers beyond       *)
(* IntMax are left out: atoi drops their high bits.                        *)
Mode == IF {"c", "b", "d"} \cap Asked = {} THEN LetterSwitches \cup ValueSwitches
        ELSE Keeps(IF "c" \in Asked THEN "c" ELSE IF "b" \in Asked THEN "b" ELSE "d")
Fits(arg) == arg.kind = "number" => arg.value <= IntMax
HeaderFits == job \in {"relmap", "control", "blocks"} => HeaderWidth(HeaderMax) < HeaderMax + 2
GivenAt(l) == {i \in DOMAIN line : Alone(line[i], l)}
Behind(l) == line[(CHOOSE i \in GivenAt(l) : TRUE) + 1]
NumberOf(arg) == IF Empty(arg) THEN 0 ELSE arg.value
ValueOf(l, default) == IF GivenAt(l) = {} THEN default ELSE NumberOf(Behind(l))
Suffix(text, i) == text[i] = "." /\ \A j \in (i + 1)..Len(text) : IsDigit(text[j])
SegmentOf(file) ==
  IF file.kind = "word" /\ \E i \in DOMAIN file.text : Suffix(file.text, i)
    THEN NumberAt(file.text, (CHOOSE i \in DOMAIN file.text : Suffix(file.text, i)) + 1)
  ELSE 0
CarriedOut ==
  /\ HeaderFits
  /\ Done("filedump") /\ job # "usage" /\ (\A i \in DOMAIN line : Fits(line[i])) =>
      LET start == ValueOf("R", -1)
          ends == {i \in DOMAIN line : RangeEndAt(i)}
      IN  /\ optionBits = (Asked \ {"m", "v"}) \cap Mode
          /\ (isRelMapFile <=> "m" \in Asked) /\ opened
          /\ given.size = ValueOf("S", -1) /\ given.segmentSize = ValueOf("s", -1)
          /\ given.start = start
          /\ given.end = IF ends = {} THEN start ELSE NumberOf(line[CHOOSE i \in ends : TRUE])
          /\ given.segmentNumber = ValueOf("n", SegmentOf(line[Len(line)]))
          /\ given.callbacks = IF GivenAt("D") = {} THEN <<>> ELSE Callbacks(Behind("D"))

(* A refused line ends with exit code 1, or it asked for help, or it lacks *)
(* the value of -S; an accepted one goes on with exit code 0.              *)
RefusalsReported ==
  Done("filedump") =>
    /\ job # "usage" => exitCode = 0
    /\ job = "usage" /\ exitCode = 0 =>
         line = <<>> \/ "h" \in Asked \/ \E i \in {Len(line) - 1, Len(line)} \ {0} : Alone(line[i], "S")

(* A map tool does what its flags say, in whatever order they come: all    *)
(* files in order, every flag, the last value of each kind; for lines on   *)
(* which every flag that wants a value has a proper one, and which give no *)
(* more files than pos has places: of longer ones nothing can be said, but *)
(* no other line writes behind the array.                                  *)
LongAt(i, names) == args[i].kind = "long" /\ args[i].name \in names
Proper == \A i \in 2..Len(args) :
            LongAt(i, ValueFlags) =>
              /\ i < Len(args)
              /\ args[i + 1].kind = IF args[i].name \in {"--range", "--heap-range"} THEN "range" ELSE "number"
IsFlag(i) == (args[i].kind = "switches" /\ args[i].letters # <<>>) \/ LongAt(i, LongFlags \cup ValueFlags)
IsValue(i) == i > 2 /\ LongAt(i - 1, ValueFlags)
FilesAt == {i \in 2..Len(args) : ~IsFlag(i) /\ ~IsValue(i)}
LastValue(names) ==
  LET at == {i \in 2..(Len(args) - 1) : LongAt(i, names \cap ValueFlags)}
      value == args[(CHOOSE i \in at : \A j \in at : j <= i) + 1]
  IN  IF at = {} THEN <<>> ELSE IF value.kind = "range" THEN <<value.lo, value.hi>> ELSE <<value.value>>
Switched == UNION {Range(args[i].letters) : i \in {j \in DOMAIN args : args[j].kind = "switches"}}

Spellings(flag) == CASE flag = "--only-not-visible" -> {flag, "--notV"}
                     [] flag = "--only-not-frozen"  -> {flag, "--notF"}
                     [] OTHER                       -> {flag}
Obeyed ==
  LET range == LastValue({"--range", "--page", "--heap-range"})
  IN  /\ Len(pos) = Cardinality(FilesAt)
      /\ \A i \in FilesAt : pos[Cardinality({j \in FilesAt : j <= i})] = args[i]
      /\ values = [range |-> IF Len(range) = 1 THEN range \o range ELSE range,
                   heapPage |-> LastValue({"--heap-page"}),
                   min |-> LastValue({"--min"}), max |-> LastValue({"--max"})]
      /\ \A l \in ShortFlags \ {"a"} :
           l \in flags <=> l \in Switched \/ (tool = "fsm" /\ "a" \in Switched /\ l \in {"H", "i", "s"})
      /\ \A f \in LongFlags \ {"--notV", "--notF"} :
           f \in flags <=> \E i \in DOMAIN args : LongAt(i, Spellings(f))

Orderly == args # <<>> /\ args[1].kind = "word" /\ Proper /\ Cardinality(FilesAt) <= PosMax
FlagsObeyed ==
  pc = "done" /\ tool # "filedump" /\ Orderly =>
    /\ job \in {"map", "usage"}
    /\ job = "map" => Obeyed
    /\ Word(args[1], "dump") => (job = "map" <=> Cardinality(FilesAt) = 2)
    /\ Word(args[1], "diff") => (job = "map" <=> Cardinality(FilesAt) = 3)
================================================================================
