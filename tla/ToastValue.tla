------------------------------ MODULE ToastValue ------------------------------
(***************************************************************************)
(* What restoring an out-of-line value promises, whatever order its chunks *)
(* have on disk: the chunks are delivered 0, 1, 2, ... each once, the read *)
(* ends, a delivered value is complete, and a value whose chunks are all   *)
(* in the TOAST relation is delivered.  ToastRead is shown to implement    *)
(* this.                                                                   *)
(***************************************************************************)
EXTENDS Naturals, Sequences

CONSTANT N            \* how many chunks the value is divided into

VARIABLES chunks,     \* the chunk numbers restored so far, in file order of the value
          outcome,    \* "reading", "delivered" or "failed"
          whole       \* does the relation hold every chunk of the value?

vars == <<chunks, outcome, whole>>

Init == /\ chunks = <<>>
        /\ outcome = "reading"
        /\ whole \in BOOLEAN

(* The next chunk of the value, and no other, is appended. *)
Take == /\ outcome = "reading"
        /\ Len(chunks) < N
        /\ chunks' = Append(chunks, Len(chunks))
        /\ UNCHANGED <<outcome, whole>>

Deliver == /\ outcome = "reading"
           /\ Len(chunks) = N
           /\ outcome' = "delivered"
           /\ UNCHANGED <<chunks, whole>>

(* Giving up is for values that really lack a chunk. *)
GiveUp == /\ outcome = "reading"
          /\ ~whole
          /\ outcome' = "failed"
          /\ UNCHANGED <<chunks, whole>>

Next == Take \/ Deliver \/ GiveUp

Spec == Init /\ [][Next]_vars

(* The read always ends, one way or the other. *)
FairSpec == Spec /\ WF_vars(Next)

===============================================================================
