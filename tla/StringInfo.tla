------------------------------ MODULE StringInfo ------------------------------
(***************************************************************************)
(* The growing buffer of stringinfo.c that a COPY line is put together in. *)
(* appendBinaryStringInfo() calls enlargeStringInfo(), whose doubling loop *)
(* is taken step by step here because what can go wrong in it is integer   *)
(* arithmetic: `2 * str->maxlen` is computed in int.                       *)
(***************************************************************************)
EXTENDS Integers

CONSTANTS MaxAllocSize,   \* upper limit of an allocation
          InitialSize,    \* what initStringInfo() allocates
          IntMax,         \* INT_MAX
          Requests        \* the lengths callers append

VARIABLES len, maxlen,    \* fields of StringInfoData
          needed,         \* total space the current append requires
          newlen,         \* size enlargeStringInfo() has arrived at
          pc              \* "idle", "grow" or "exited"

bufferVars == <<len, maxlen, needed, newlen, pc>>

(* The source's own assumption: "limit <= INT_MAX/2". *)
ASSUME LimitAssumption == /\ MaxAllocSize \in Nat /\ IntMax \in Nat
                          /\ 2 * MaxAllocSize <= IntMax
                          /\ InitialSize \in 1..MaxAllocSize
                          /\ Requests \subseteq Int

(* initStringInfo *)
BufferInit == /\ len = 0 /\ maxlen = InitialSize
              /\ needed = 0 /\ newlen = 0
              /\ pc = "idle"

resetStringInfo == /\ pc = "idle"
                   /\ len' = 0
                   /\ UNCHANGED <<maxlen, needed, newlen, pc>>

(* A negative length, or one that would pass the limit, ends the program.  *)
Refuse(n) == /\ pc = "idle"
             /\ n < 0 \/ n >= MaxAllocSize - len
             /\ pc' = "exited"
             /\ UNCHANGED <<len, maxlen, needed, newlen>>

Accepts_NoLimit(n) == pc = "idle" /\ n >= 0
Accepts(n) == pc = "idle" /\ ~(n < 0 \/ n >= MaxAllocSize - len)

AppendInPlace_NoZero(n) == /\ Accepts(n) /\ n + len <= maxlen
                           /\ len' = len + n
                           /\ UNCHANGED <<maxlen, needed, newlen, pc>>

AppendInPlace(n) == /\ Accepts(n) /\ n + len + 1 <= maxlen
                    /\ len' = len + n
                    /\ UNCHANGED <<maxlen, needed, newlen, pc>>

StartGrowing(n) == /\ Accepts(n) /\ n + len + 1 > maxlen
                   /\ needed' = n + len + 1
                   /\ newlen' = 2 * maxlen
                   /\ pc' = "grow"
                   /\ UNCHANGED <<len, maxlen>>

(* while (needed > newlen) newlen = 2 * newlen *)
Double_OldSize == /\ pc = "grow" /\ needed > newlen
                  /\ newlen' = 2 * maxlen
                  /\ UNCHANGED <<len, maxlen, needed, pc>>

Double == /\ pc = "grow" /\ needed > newlen
          /\ newlen' = 2 * newlen
          /\ UNCHANGED <<len, maxlen, needed, pc>>

Clamped_Exact == needed
Clamped == IF newlen > MaxAllocSize THEN MaxAllocSize ELSE newlen

(* realloc() to the clamped size, then the data is copied behind the rest. *)
Grow == /\ pc = "grow" /\ needed <= newlen
        /\ maxlen' = Clamped
        /\ len' = needed - 1
        /\ pc' = "idle"
        /\ UNCHANGED <<needed, newlen>>

ReallocFails == /\ pc = "grow" /\ needed <= newlen
                /\ pc' = "exited"
                /\ UNCHANGED <<len, maxlen, needed, newlen>>

appendBinaryStringInfo == \E n \in Requests : Refuse(n) \/ AppendInPlace(n) \/ StartGrowing(n)

Enlarge == Double \/ Grow \/ ReallocFails

Exited == pc = "exited" /\ UNCHANGED bufferVars

BufferNext == resetStringInfo \/ appendBinaryStringInfo \/ Enlarge \/ Exited

BufferSpec == BufferInit /\ [][BufferNext]_bufferVars

(* Sequential code: an append that was started is carried through. *)
FairBufferSpec == BufferSpec /\ WF_bufferVars(Enlarge)

-------------------------------------------------------------------------------
BufferTypeOK == /\ len \in Nat /\ maxlen \in Nat /\ needed \in Nat /\ newlen \in Nat
                /\ pc \in {"idle", "grow", "exited"}

(* "We must always have maxlen > len": there is room for the terminating   *)
(* zero after every append, and the buffer stays within the limit.         *)
RoomForTerminator == len < maxlen /\ maxlen <= MaxAllocSize

(* No sum or product of enlargeStringInfo() leaves the range of int, and   *)
(* the doubling loop starts from a positive size.                          *)
NoIntOverflow == pc = "grow" => /\ needed <= MaxAllocSize
                                /\ newlen > 0
                                /\ newlen <= IntMax

(* Appending never loses what is there: only resetStringInfo shortens the  *)
(* text, and a buffer that grows at least doubles or reaches the limit, so *)
(* the copies made by realloc() stay proportional to the text.             *)
GrowsGeometrically ==
  [][/\ len' < len => len' = 0 /\ maxlen' = maxlen
     /\ maxlen' # maxlen => maxlen' >= 2 * maxlen \/ maxlen' = MaxAllocSize]_bufferVars

(* The doubling loop ends. *)
AppendEnds == pc = "grow" ~> pc # "grow"
===============================================================================
