------------------------------- MODULE RunLength -------------------------------
(***************************************************************************)
(* Run-length compression as pg_fsm.c does it for category bytes           *)
(* (compress_byte_range), for pairs of them (compress_byte_diff_range, a   *)
(* sequence of pairs here), and pg_vm.c for heap page statuses.  Positions *)
(* count from 1.                                                           *)
(***************************************************************************)
EXTENDS Integers, Sequences, Functions

Run(start, end, value) == [start |-> start, end |-> end, value |-> value]

(* One turn of the loop: a change of the value closes the current run.     *)
Advance_Overlapping(arr, acc, i) ==
  IF arr[i] = acc.val THEN acc
  ELSE [runs |-> Append(acc.runs, Run(acc.start, i, acc.val)), start |-> i, val |-> arr[i]]

Advance(arr, acc, i) ==
  IF arr[i] = acc.val THEN acc
  ELSE [runs |-> Append(acc.runs, Run(acc.start, i - 1, acc.val)), start |-> i, val |-> arr[i]]

(* The whole pass, and the push of the last run behind the loop.           *)
Compress(arr) ==
  LET acc[i \in 0..Len(arr)] ==
        IF i = 0 THEN [runs |-> <<>>, start |-> 1, val |-> arr[1]]
        ELSE Advance(arr, acc[i - 1], i)
      last == acc[Len(arr)]
  IN  IF arr = <<>> THEN <<>>
      ELSE Append(last.runs, Run(last.start, Len(arr), last.val))

(* The runs a printing loop does not skip: those with one of the values.   *)
Kept(runs, values) ==
  LET kept[i \in 0..Len(runs)] ==
        IF i = 0 THEN <<>>
        ELSE IF runs[i].value \in values THEN Append(kept[i - 1], runs[i])
        ELSE kept[i - 1]
  IN  kept[Len(runs)]

(* The places that the runs with one of the values stand for.              *)
LengthOf_OffByOne(r) == r.end - r.start
LengthOf(r) == r.end - r.start + 1

TotalLength(runs, values) ==
  SumFunctionOnSet([i \in DOMAIN runs |-> LengthOf(runs[i])],
                   {i \in DOMAIN runs : runs[i].value \in values})

(* Two arrays of equal length as one of pairs. *)
Pairs(a, b) == [i \in 1..Len(a) |-> <<a[i], b[i]>>]
===============================================================================
