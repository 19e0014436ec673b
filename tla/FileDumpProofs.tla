---------------------------- MODULE FileDumpProofs ----------------------------
(***************************************************************************)
(* Proofs about ToastRead and about FileDump, which extends it.            *)
(*                                                                         *)
(* ToastRead, for every external size, chunk size and set of relation      *)
(* contents: type correctness, the order in which a value is put together, *)
(* the bound on the number of scans, and that the loops of the program     *)
(* implement ToastValue.                                                   *)
(*                                                                         *)
(* FileDump, for every heap file, every set of options and every outcome   *)
(* of the nested dumps: the block loop and the item loop, the tuples they  *)
(* put out, the messages about items beyond a block, and what a nested     *)
(* dump, which runs over the same globals, gives back.  The nested dump is *)
(* ToastRead, and its invariant IInv is part of the invariant of the dump. *)
(***************************************************************************)
EXTENDS FileDump, TLAPS

-------------------------------------------------------------------------------
(* Arithmetic of chunk sizes.  NumChunks is the ceiling of                 *)
(* ExtSize / ChunkMax, computed as the code does.                          *)
LEMMA NumChunksBounds ==
  /\ NumChunks \in Nat \ {0}
  /\ (NumChunks - 1) * ChunkMax < ExtSize
  /\ ExtSize <= NumChunks * ChunkMax
<1> DEFINE q == (ExtSize - 1) \div ChunkMax
<1>1. /\ q \in Int
      /\ ExtSize - 1 \in Nat
      /\ ChunkMax \in Nat \ {0}
  BY SizeAssumption
<1>2. /\ q * ChunkMax <= ExtSize - 1
      /\ ExtSize - 1 < (q + 1) * ChunkMax
  BY <1>1, SMTT(30)
<1>3. q >= 0
  BY <1>1, <1>2, SMTT(30)
<1>4. NumChunks = q + 1
  BY DEF NumChunks
<1> HIDE DEF q
<1>5. NumChunks - 1 = q /\ NumChunks \in Nat \ {0}
  BY <1>1, <1>3, <1>4
<1>6. ExtSize <= NumChunks * ChunkMax
  BY <1>1, <1>2, <1>4, SizeAssumption
<1>7. (NumChunks - 1) * ChunkMax < ExtSize
  BY <1>1, <1>2, <1>5, SizeAssumption
<1> QED BY <1>5, <1>6, <1>7

(* The offset of chunk k is a natural number, 0 for the first chunk, and   *)
(* reaches the external size only when every chunk is there: that is what  *)
(* makes stopping at `*toastRead >= toastExternalSize` right.              *)
LEMMA OffsetsBounded ==
  ASSUME NEW k \in 0..NumChunks
  PROVE  /\ SizeUpTo(k) \in Nat
         /\ k = 0 => SizeUpTo(k) = 0
         /\ SizeUpTo(k) >= ExtSize => k = NumChunks
<1>1. CASE k = NumChunks
  BY <1>1, NumChunksBounds, SizeAssumption DEF SizeUpTo
<1>2. CASE k < NumChunks
  <2>1. k \in Nat /\ NumChunks \in Nat /\ ChunkMax \in Nat
    BY NumChunksBounds, SizeAssumption
  <2>2. k <= NumChunks - 1
    BY <1>2, <2>1
  <2>3. k * ChunkMax <= (NumChunks - 1) * ChunkMax
    BY <2>1, <2>2, SMTT(30)
  <2>4. k * ChunkMax \in Nat /\ (k = 0 => k * ChunkMax = 0)
    BY <2>1, SMTT(30)
  <2>5. SizeUpTo(k) = k * ChunkMax
    BY <1>2 DEF SizeUpTo
  <2>6. k * ChunkMax < ExtSize
    <3> DEFINE a == k * ChunkMax
               m == (NumChunks - 1) * ChunkMax
    <3>1. a \in Nat /\ a <= m /\ m < ExtSize /\ m \in Int
      BY <2>1, <2>3, <2>4, NumChunksBounds
    <3> HIDE DEF a, m
    <3>2. a < ExtSize
      BY <3>1, SizeAssumption
    <3> QED BY <3>2 DEF a
  <2> QED BY <2>4, <2>5, <2>6, SizeAssumption
<1> QED BY <1>1, <1>2, NumChunksBounds

-------------------------------------------------------------------------------
(* Type correctness. *)
LEMMA ItemTypes ==
  ASSUME TypeOK, rel # NoFile, NEW b \in 1..Len(rel)
  PROVE  /\ rel \in Seq(Block) /\ rel[b] \in Block
         /\ Listed(rel[b]) \in Seq(Item)
         /\ \A i \in 1..Len(Listed(rel[b])) : Listed(rel[b])[i] \in Item
<1>1. rel \in Seq(Block)
  BY RelationAssumption DEF TypeOK
<1>2. rel[b] \in Block
  BY <1>1
<1>3. rel[b].items \in Seq(Item) /\ <<>> \in Seq(Item)
  BY <1>2 DEF Block
<1>4. Listed(rel[b]) \in Seq(Item)
  BY <1>3 DEF Listed
<1> QED BY <1>1, <1>2, <1>4

(* Every step keeps the types. *)
LEMMA StepTypeOK == TypeOK /\ [Next]_vars => TypeOK'
<1> SUFFICES ASSUME TypeOK, [Next]_vars PROVE TypeOK'
  OBVIOUS
<1>1. CASE OpenFails
  BY <1>1 DEF OpenFails, TypeOK, globals
<1>2. CASE Open
  BY <1>2 DEF Open, TypeOK
<1>3. CASE StartScan
  BY <1>3 DEF StartScan, TypeOK, globals
<1>4. CASE ReadBlock
  <2>1. rel # NoFile /\ blk \in 1..Len(rel)
    BY <1>4, RelationAssumption DEF ReadBlock, TypeOK
  <2>2. rel[blk].bytes \in Nat /\ rel[blk].special \in Specials
    BY <2>1, ItemTypes DEF Block
  <2> QED BY <1>4, <2>1, <2>2 DEF ReadBlock, TypeOK
<1>5. CASE ReadEof
  BY <1>5 DEF ReadEof, TypeOK
<1>6. CASE PassItem
  BY <1>6 DEF PassItem, AtItem, TypeOK
<1>7. CASE DecodeItem
  <2> DEFINE it == Listed(rel[blk])[itm]
  <2>1. rel # NoFile /\ blk \in 1..Len(rel) /\ itm \in 1..Len(Listed(rel[blk]))
    BY <1>7, RelationAssumption DEF DecodeItem, AtItem, TypeOK
  <2>2. it \in Item /\ Len(Listed(rel[blk])) \in Nat
    BY <2>1, ItemTypes
  <2>3. it.len \in Nat /\ it.seq \in Nat
    BY <2>2 DEF Item
  <2>a. /\ want' = IF Counted(it) THEN want + 1 ELSE want
        /\ toastRead' = IF Copied(it) THEN toastRead + it.len ELSE toastRead
        /\ value' = IF Copied(it) THEN Append(value, it.seq) ELSE value
    BY <1>7 DEF DecodeItem
  <2> HIDE DEF it
  <2>b. want' \in Nat
    BY <2>a DEF TypeOK
  <2>c. toastRead' \in Nat
    BY <2>a, <2>3 DEF TypeOK
  <2>d. value' \in Seq(Nat)
    BY <2>a, <2>3 DEF TypeOK
  <2>4. want' \in Nat /\ toastRead' \in Nat /\ value' \in Seq(Nat)
    BY <2>b, <2>c, <2>d
  <2>5. itm' \in Nat \ {0}
    BY <1>7, <2>2 DEF DecodeItem, TypeOK
  <2>6. report' \in {"none", "read", "skipped"}
    BY <1>7 DEF DecodeItem, Reports, Line, Named
  <2>7. UNCHANGED <<rel, pc, blk, loops, result, bytesToFormat, specialType, exitCode>>
    BY <1>7 DEF DecodeItem, globals
  <2> QED BY <2>4, <2>5, <2>6, <2>7 DEF TypeOK
<1>8. CASE EndBlock
  BY <1>8 DEF EndBlock, TypeOK
<1>9. CASE EndScan
  BY <1>9 DEF EndScan, GivesUp, TypeOK, globals
<1>10. CASE Deliver
  BY <1>10 DEF Deliver, TypeOK, globals
<1>11. CASE UNCHANGED vars
  BY <1>11 DEF vars, locals, globals, TypeOK
<1> QED
  BY <1>1, <1>2, <1>3, <1>4, <1>5, <1>6, <1>7, <1>8, <1>9, <1>10, <1>11
  DEF Next, Step, Ended

(* Every variable keeps its type, whatever the relation holds. *)
THEOREM TypeCorrect == Spec => []TypeOK
<1>1. Init => TypeOK
  BY SizeAssumption DEF Init, TypeOK, Specials
<1> QED BY <1>1, StepTypeOK, PTL DEF Spec

-------------------------------------------------------------------------------
(* The inductive invariant. *)

(* What a decoded item is and does, with the LETs and IFs taken apart.     *)
LEMMA DecodeFacts ==
  ASSUME TypeOK, InBlock, DecodeItem,
         NEW it, it = Listed(rel[blk])[itm]
  PROVE  /\ rel # NoFile /\ rel \in Seq(Block) /\ pc = "items"
         /\ blk \in 1..Len(rel) /\ itm \in 1..Len(Listed(rel[blk]))
         /\ it \in Item
         /\ want' = IF Counted(it) THEN want + 1 ELSE want
         /\ toastRead' = IF Copied(it) THEN toastRead + it.len ELSE toastRead
         /\ value' = IF Copied(it) THEN Append(value, it.seq) ELSE value
         /\ itm' = IF toastRead' >= ExtSize THEN Len(Listed(rel[blk])) + 1 ELSE itm + 1
         /\ UNCHANGED <<rel, pc, blk, loops, result, bytesToFormat, specialType, exitCode>>
         /\ Named(it) /\ it.oid = ToastOid => Reachable(rel, blk, itm)
<1>0. AtItem
  BY DEF DecodeItem
<1>1. rel # NoFile /\ pc = "items"
  BY <1>0 DEF AtItem, TypeOK
<1>2. blk \in 1..Len(rel) /\ itm \in 1..Len(Listed(rel[blk]))
  <2>1. blk \in 1..Len(rel)
    BY <1>1 DEF TypeOK
  <2>2. Len(Listed(rel[blk])) \in Nat
    BY <1>1, <2>1, ItemTypes
  <2>3. itm \in Nat \ {0} /\ itm <= Len(Listed(rel[blk]))
    BY <1>0 DEF AtItem, TypeOK
  <2> QED BY <2>1, <2>2, <2>3
<1>3. it \in Item /\ rel \in Seq(Block)
  BY <1>1, <1>2, ItemTypes
<1>4. /\ want' = IF Counted(it) THEN want + 1 ELSE want
      /\ toastRead' = IF Copied(it) THEN toastRead + it.len ELSE toastRead
      /\ value' = IF Copied(it) THEN Append(value, it.seq) ELSE value
      /\ itm' = IF toastRead' >= ExtSize THEN Len(Listed(rel[blk])) + 1 ELSE itm + 1
      /\ Fits(it, bytesToFormat) /\ it.used /\ ~Old(it)
  BY ZenonT(60) DEF DecodeItem
<1>5. UNCHANGED <<rel, pc, blk, loops, result, bytesToFormat, specialType, exitCode>>
  BY DEF DecodeItem, globals
<1>6. Named(it) /\ it.oid = ToastOid => Reachable(rel, blk, itm)
  BY <1>1, <1>2, <1>4 DEF Reachable, InBlock
<1> QED BY <1>1, <1>2, <1>3, <1>4, <1>5, <1>6

(* In a relation without damage a wanted chunk is intact, so it is copied  *)
(* and counted, or neither.                                                *)
LEMMA SoundDecode ==
  ASSUME TypeOK, InBlock, DecodeItem, Sound(rel),
         NEW it, it = Listed(rel[blk])[itm]
  PROVE  /\ Wanted(it) => Copied(it) /\ Counted(it) /\ Intact(it) /\ it.seq = want
         /\ ~Wanted(it) => ~Copied(it) /\ ~Counted(it)
<1>1. Wanted(it) => Intact(it)
  BY DecodeFacts DEF Wanted, Sound
<1> QED BY <1>1 DEF Wanted, Copied, Counted, Intact

(* A decoded item leaves the value in order. *)
LEMMA DecodeKeepsOrder ==
  ASSUME TypeOK, InBlock, RestoredInOrder, DecodeItem
  PROVE  RestoredInOrder'
<1> DEFINE it == Listed(rel[blk])[itm]
<1>0. rel' = rel /\ rel # NoFile
  BY DecodeFacts
<1> SUFFICES ASSUME Sound(rel)
             PROVE  /\ value' = [k \in 1..want' |-> k - 1]
                    /\ want' <= NumChunks
                    /\ toastRead' = SizeUpTo(want')
  BY <1>0 DEF RestoredInOrder
<1>1. /\ value = [k \in 1..want |-> k - 1]
      /\ want \in 0..NumChunks
      /\ toastRead = SizeUpTo(want)
  BY <1>0, NumChunksBounds DEF RestoredInOrder, TypeOK
<1>2. CASE ~Wanted(it)
  BY <1>1, <1>2, DecodeFacts, SoundDecode
<1>3. CASE Wanted(it)
  <2>1. /\ want' = want + 1
        /\ toastRead' = toastRead + it.len
        /\ value' = Append(value, want)
        /\ it.seq = want /\ Intact(it)
    BY <1>3, DecodeFacts, SoundDecode
  <2>2. want < NumChunks /\ it.len = SizeUpTo(want + 1) - SizeUpTo(want)
    BY <2>1 DEF Intact
  <2>3. want + 1 \in 0..NumChunks
    BY <1>1, <2>2, NumChunksBounds
  <2>4. SizeUpTo(want) \in Nat /\ SizeUpTo(want + 1) \in Nat
    BY <1>1, <2>3, OffsetsBounded
  <2>5. toastRead' = SizeUpTo(want')
    BY <1>1, <2>1, <2>2, <2>4
  <2>6. Append([k \in 1..want |-> k - 1], want) = [k \in 1..(want + 1) |-> k - 1]
    BY <1>1, NumChunksBounds
  <2> QED BY <1>1, <2>1, <2>3, <2>5, <2>6, NumChunksBounds
<1> QED BY <1>2, <1>3

(* A decoded item: the chunk numbered `loops` is not left behind.          *)
LEMMA DecodeKeepsAdvancing ==
  ASSUME TypeOK, TypeOK', InBlock, RestoredInOrder, RestoredInOrder', Advancing, DecodeItem
  PROVE  Advancing'
<1> DEFINE it == Listed(rel[blk])[itm]
<1>0. /\ rel' = rel /\ pc' = pc /\ blk' = blk /\ loops' = loops /\ result' = result
      /\ rel # NoFile /\ pc = "items"
  BY DecodeFacts
<1> SUFFICES ASSUME Complete(rel)
             PROVE  /\ result = 0 /\ loops <= want' /\ loops < NumChunks
                    /\ \/ want' > loops
                       \/ \A b \in 1..Len(rel) : \A i \in 1..Len(Listed(rel[b])) :
                            Reachable(rel, b, i) /\ (b < blk \/ (b = blk /\ i < itm'))
                            => Listed(rel[b])[i].seq # loops
  BY <1>0 DEF Advancing, Passed
<1>1. Sound(rel)
  BY DEF Complete
<1>2. /\ result = 0 /\ loops <= want /\ loops < NumChunks
      /\ \/ want > loops
         \/ \A b \in 1..Len(rel) : \A i \in 1..Len(Listed(rel[b])) :
              Reachable(rel, b, i) /\ (b < blk \/ (b = blk /\ i < itm))
              => Listed(rel[b])[i].seq # loops
  BY <1>0 DEF Advancing, Passed
<1>3. loops \in Nat /\ want \in Nat /\ want' \in {want, want + 1}
  BY DecodeFacts DEF TypeOK
<1>4. CASE want' > loops
  BY <1>2, <1>3, <1>4
<1>5. CASE ~(want' > loops)
  <2>1. want = loops /\ want' = loops
    BY <1>2, <1>3, <1>5
  <2>2. ~Wanted(it)
    BY <2>1, <1>1, <1>3, DecodeFacts, SoundDecode
  <2>3. toastRead' = SizeUpTo(loops) /\ loops \in 0..NumChunks
    BY <2>1, <1>0, <1>1, <1>2, <1>3, NumChunksBounds DEF RestoredInOrder
  <2>4. ~(toastRead' >= ExtSize)
    BY <2>3, <1>2, OffsetsBounded
  <2>5. itm' = itm + 1 /\ itm \in Nat
    BY <2>4, DecodeFacts DEF TypeOK
  <2>6. Reachable(rel, blk, itm) => it.seq # loops
    BY <2>1, <2>2 DEF Wanted, Reachable
  <2>7. ASSUME NEW b \in 1..Len(rel), NEW i \in 1..Len(Listed(rel[b])),
               Reachable(rel, b, i), b < blk \/ (b = blk /\ i < itm')
        PROVE  Listed(rel[b])[i].seq # loops
    <3>1. i \in Nat
      OBVIOUS
    <3>2. CASE b < blk \/ (b = blk /\ i < itm)
      BY <3>2, <2>1, <2>7, <1>2, <1>3
    <3>3. CASE b = blk /\ i = itm
      BY <3>3, <2>6, <2>7
    <3> QED BY <3>1, <3>2, <3>3, <2>5, <2>7
  <2> QED BY <2>7, <1>2, <2>1
<1> QED BY <1>4, <1>5

(* A scan of a complete relation that has ended has restored the chunk     *)
(* numbered `loops`: it was reached, or the value was finished first.      *)
LEMMA ScanAdvances ==
  ASSUME IInv, pc = "scanned", Complete(rel)
  PROVE  loops + 1 <= want /\ loops < NumChunks /\ result = 0
<1>1. rel # NoFile /\ Sound(rel) /\ loops \in Nat /\ want \in Nat
  BY DEF IInv, TypeOK, Complete
<1>2. result = 0 /\ loops < NumChunks
  BY <1>1 DEF IInv, Advancing
<1>3. CASE toastRead >= ExtSize
  <2>1. want \in 0..NumChunks /\ toastRead = SizeUpTo(want)
    BY <1>1, NumChunksBounds DEF IInv, RestoredInOrder
  <2>2. want = NumChunks
    BY <2>1, <1>3, OffsetsBounded
  <2> QED BY <2>2, <1>1, <1>2
<1>4. CASE ~(toastRead >= ExtSize)
  <2>1. blk > Len(rel)
    BY <1>4 DEF IInv, StopReason
  <2>2. loops \in 0..(NumChunks - 1)
    BY <1>1, <1>2, NumChunksBounds
  <2>3. PICK b \in 1..Len(rel) : \E i \in 1..Len(Listed(rel[b])) :
               Reachable(rel, b, i) /\ Listed(rel[b])[i].seq = loops
    BY <2>2 DEF Complete, Holds
  <2>4. PICK i \in 1..Len(Listed(rel[b])) :
               Reachable(rel, b, i) /\ Listed(rel[b])[i].seq = loops
    BY <2>3
  <2>5. b < blk
    <3>1. rel \in Seq(Block) /\ blk \in Nat
      BY <1>1, RelationAssumption DEF IInv, TypeOK
    <3> QED BY <3>1, <2>1
  <2>6. Passed(b, i)
    BY <2>5 DEF Passed
  <2>7. want > loops
    BY <1>1, <2>4, <2>6 DEF IInv, Advancing
  <2> QED BY <2>7, <1>1, <1>2
<1> QED BY <1>3, <1>4

(* No chunk has been counted or copied yet. *)
LEMMA NoneTorn ==
  ASSUME TypeOK, want = 0, value = <<>>
  PROVE  TornIsLast
<1> SUFFICES ASSUME rel # NoFile PROVE TornIsLast
  BY DEF TornIsLast
<1>1. \A b \in 1..Len(rel) : \A i \in 1..Len(Listed(rel[b])) : Listed(rel[b])[i].seq \in Nat
  BY ItemTypes DEF Item
<1> QED BY <1>1 DEF TornIsLast

LEMMA InitIInv == Init => IInv
<1> SUFFICES ASSUME Init PROVE IInv
  OBVIOUS
<1>1. TypeOK
  BY SizeAssumption DEF Init, TypeOK, Specials
<1>2. RestoredInOrder
  <2>1. 0 \in 0..NumChunks
    BY NumChunksBounds
  <2>2. SizeUpTo(0) = 0
    BY <2>1, OffsetsBounded
  <2>3. <<>> = [k \in 1..0 |-> k - 1]
    OBVIOUS
  <2> QED BY <2>2, <2>3, NumChunksBounds DEF Init, RestoredInOrder
<1>3. InBlock /\ StopReason /\ ResultInLoop /\ Advancing
  BY DEF Init, InBlock, StopReason, ResultInLoop, Advancing
<1>4. TornIsLast
  BY <1>1, NoneTorn DEF Init
<1> QED BY <1>1, <1>2, <1>3, <1>4 DEF IInv

(* A decoded item: a chunk that is counted is whole and the only one of    *)
(* its number, and one that is copied without being counted stays wanted.  *)
LEMMA DecodeKeepsTorn ==
  ASSUME TypeOK, InBlock, TornIsLast, DecodeItem, Distinct(rel), Stubless(rel)
  PROVE  /\ Len(value') >= want'
         /\ \A k \in 1..Len(value') : value'[k] = IF k <= want' THEN k - 1 ELSE want'
         /\ \A b \in 1..Len(rel) : \A i \in 1..Len(Listed(rel[b])) :
              Reachable(rel, b, i) =>
                /\ Listed(rel[b])[i].seq < want' => Listed(rel[b])[i].form = "whole"
                /\ Listed(rel[b])[i].seq = want' /\ Len(value') > want'
                     => Listed(rel[b])[i].form = "torn"
<1> DEFINE it == Listed(rel[blk])[itm]
<1>1. /\ rel # NoFile /\ blk \in 1..Len(rel) /\ itm \in 1..Len(Listed(rel[blk])) /\ it \in Item
      /\ want' = IF Counted(it) THEN want + 1 ELSE want
      /\ value' = IF Copied(it) THEN Append(value, it.seq) ELSE value
      /\ Wanted(it) => Reachable(rel, blk, itm)
  BY DecodeFacts DEF Wanted
<1>2. want \in Nat /\ value \in Seq(Nat) /\ Len(value) \in Nat
  BY DEF TypeOK
<1>3. /\ Len(value) >= want
      /\ \A k \in 1..Len(value) : value[k] = IF k <= want THEN k - 1 ELSE want
      /\ \A b \in 1..Len(rel) : \A i \in 1..Len(Listed(rel[b])) :
           Reachable(rel, b, i) =>
             /\ Listed(rel[b])[i].seq < want => Listed(rel[b])[i].form = "whole"
             /\ Listed(rel[b])[i].seq = want /\ Len(value) > want
                  => Listed(rel[b])[i].form = "torn"
  BY <1>1 DEF TornIsLast
<1>4. \A b \in 1..Len(rel) : \A i \in 1..Len(Listed(rel[b])) : Listed(rel[b])[i].seq \in Nat
  BY <1>1, ItemTypes DEF Item, TypeOK
<1>5. ASSUME Wanted(it), NEW b \in 1..Len(rel), NEW i \in 1..Len(Listed(rel[b])),
             Reachable(rel, b, i), Listed(rel[b])[i].seq = want
      PROVE  Listed(rel[b])[i] = it
  <2>1. Reachable(rel, blk, itm) /\ it.seq = want
    BY <1>1, <1>5 DEF Wanted
  <2>2. b = blk /\ i = itm
    BY <1>1, <1>5, <2>1 DEF Distinct
  <2> QED BY <2>2
<1>6. CASE ~Wanted(it)
  <2>1. want' = want /\ value' = value
    BY <1>1, <1>6 DEF Counted, Copied
  <2> QED BY <1>3, <2>1
<1>7. CASE Wanted(it)
  <2>1. it.form # "stub" /\ it.seq = want
    BY <1>1, <1>7 DEF Stubless, Wanted
  <2>2. CASE it.form = "whole"
    <3>1. want' = want + 1 /\ value' = Append(value, want)
      BY <1>1, <1>7, <2>1, <2>2 DEF Counted, Copied
    <3>2. Len(value) = want
      <4>1. Reachable(rel, blk, itm)
        BY <1>1, <1>7
      <4>2. ~(Len(value) > want)
        BY <1>1, <1>3, <2>1, <2>2, <4>1
      <4> QED BY <1>2, <1>3, <4>2
    <3>3. Len(value') = want' /\ \A k \in 1..Len(value') : value'[k] = k - 1
      BY <1>2, <1>3, <3>1, <3>2
    <3>4. ASSUME NEW b \in 1..Len(rel), NEW i \in 1..Len(Listed(rel[b])),
                 Reachable(rel, b, i), Listed(rel[b])[i].seq < want + 1
          PROVE  Listed(rel[b])[i].form = "whole"
      <4>1. CASE Listed(rel[b])[i].seq = want
        BY <1>5, <1>7, <2>2, <3>4, <4>1
      <4>2. CASE Listed(rel[b])[i].seq # want
        <5>1. Listed(rel[b])[i].seq < want
          BY <1>2, <1>4, <3>4, <4>2
        <5> QED BY <1>3, <3>4, <5>1
      <4> QED BY <4>1, <4>2
    <3> QED BY <1>2, <3>1, <3>3, <3>4
  <2>3. CASE it.form = "torn"
    <3>1. want' = want /\ value' = Append(value, want)
      BY <1>1, <1>7, <2>1, <2>3 DEF Counted, Copied
    <3>2. /\ Len(value') = Len(value) + 1 /\ value'[Len(value) + 1] = want
          /\ \A k \in 1..Len(value) : value'[k] = value[k]
      BY <1>2, <3>1
    <3>3. \A k \in 1..Len(value') : value'[k] = IF k <= want THEN k - 1 ELSE want
      BY <1>2, <1>3, <3>2
    <3>4. ASSUME NEW b \in 1..Len(rel), NEW i \in 1..Len(Listed(rel[b])),
                 Reachable(rel, b, i), Listed(rel[b])[i].seq = want
          PROVE  Listed(rel[b])[i].form = "torn"
      BY <1>5, <1>7, <2>3, <3>4
    <3>5. Len(value') >= want
      BY <1>2, <1>3, <3>2
    <3> QED BY <1>3, <3>1, <3>3, <3>4, <3>5
  <2>4. CASE it.form \notin {"whole", "torn"}
    <3>1. want' = want /\ value' = value
      BY <1>1, <2>1, <2>4 DEF Counted, Copied
    <3> QED BY <1>3, <3>1
  <2> QED BY <2>2, <2>3, <2>4
<1> QED BY <1>6, <1>7

LEMMA NextTorn == TypeOK /\ InBlock /\ TornIsLast /\ [Next]_vars => TornIsLast'
<1> SUFFICES ASSUME TypeOK, InBlock, TornIsLast, [Next]_vars PROVE TornIsLast'
  OBVIOUS
<1>1. CASE DecodeItem
  <2>1. rel' = rel
    BY <1>1 DEF DecodeItem
  <2> SUFFICES ASSUME Distinct(rel), Stubless(rel) PROVE TornIsLast'
    BY <2>1 DEF TornIsLast
  <2> QED BY <1>1, <2>1, DecodeKeepsTorn DEF TornIsLast
<1>2. CASE UNCHANGED <<rel, want, value>>
  BY <1>2 DEF TornIsLast
<1> QED BY <1>1, <1>2 DEF Next, Step, Ended, vars, locals, OpenFails, Open, StartScan, ReadBlock,
                          ReadEof, PassItem, EndBlock, EndScan, Deliver

(* Every step keeps the invariant. *)
LEMMA NextIInv == IInv /\ [Next]_vars => IInv'
<1> SUFFICES ASSUME IInv, [Next]_vars PROVE IInv'
  OBVIOUS
<1> USE DEF IInv
<1>t. TypeOK'
  BY StepTypeOK
<1>d. TornIsLast'
  BY NextTorn
<1>r. ResultInLoop'
  BY DEF ResultInLoop, Next, Step, Ended, vars, locals, OpenFails, Open, StartScan,
         ReadBlock, ReadEof, PassItem, AtItem, DecodeItem, EndBlock, EndScan, GivesUp, Deliver
<1>1. CASE OpenFails
  BY <1>1, <1>t, <1>r, <1>d DEF OpenFails, globals, RestoredInOrder, InBlock, StopReason, Advancing
<1>2. CASE Open
  BY <1>2, <1>t, <1>r, <1>d DEF Open, RestoredInOrder, InBlock, StopReason, Advancing
<1>3. CASE StartScan
  <2>1. UNCHANGED <<rel, want, toastRead, value, loops, result>> /\ pc' = "fread" /\ blk' = 1
    BY <1>3 DEF StartScan
  <2>2. RestoredInOrder' /\ InBlock' /\ StopReason'
    BY <2>1 DEF RestoredInOrder, InBlock, StopReason
  <2>3. Advancing'
    <3> SUFFICES ASSUME rel # NoFile, Complete(rel)
                 PROVE  /\ result = 0 /\ loops <= want /\ loops < NumChunks
                        /\ \A b \in 1..Len(rel) : \A i \in 1..Len(Listed(rel[b])) :
                             ~(Passed(b, i)')
      BY <2>1 DEF Advancing
    <3>1. loops <= want /\ result = 0
      BY DEF Advancing
    <3>2. loops < NumChunks
      BY <1>3, <3>1, NumChunksBounds DEF StartScan, TypeOK
    <3>3. \A b \in 1..Len(rel) : \A i \in 1..Len(Listed(rel[b])) : ~(Passed(b, i)')
      BY <2>1 DEF Passed
    <3> QED BY <3>1, <3>2, <3>3
  <2> QED BY <1>t, <1>r, <1>d, <2>2, <2>3
<1>4. CASE ReadBlock
  <2>1. UNCHANGED <<rel, blk, want, toastRead, value, loops, result>>
        /\ pc = "fread" /\ pc' = "items" /\ itm' = 1 /\ bytesToFormat' = rel[blk].bytes
    BY <1>4 DEF ReadBlock
  <2>2. RestoredInOrder' /\ InBlock' /\ StopReason'
    BY <2>1 DEF RestoredInOrder, InBlock, StopReason
  <2>3. ASSUME NEW b \in 1..Len(rel), NEW i \in 1..Len(Listed(rel[b])), Passed(b, i)'
        PROVE  Passed(b, i)
    BY <2>1, <2>3 DEF Passed
  <2>4. Advancing'
    BY <2>1, <2>3 DEF Advancing
  <2> QED BY <1>t, <1>r, <1>d, <2>2, <2>4
<1>5. CASE ReadEof
  <2>1. UNCHANGED <<rel, blk, want, toastRead, value, loops, result>>
        /\ pc = "fread" /\ pc' = "scanned" /\ bytesToFormat' = 0 /\ blk > Len(rel)
    BY <1>5 DEF ReadEof
  <2>2. RestoredInOrder' /\ InBlock' /\ StopReason'
    BY <2>1 DEF RestoredInOrder, InBlock, StopReason
  <2>3. ASSUME NEW b, NEW i, Passed(b, i)' PROVE Passed(b, i)
    BY <2>1, <2>3 DEF Passed
  <2>4. Advancing'
    BY <2>1, <2>3 DEF Advancing
  <2> QED BY <1>t, <1>r, <1>d, <2>2, <2>4
<1>6. CASE PassItem
  <2> DEFINE it == Listed(rel[blk])[itm]
  <2>1. UNCHANGED <<rel, pc, blk, want, toastRead, value, loops, result, bytesToFormat>>
        /\ pc = "items" /\ itm' = itm + 1
        /\ itm \in 1..Len(Listed(rel[blk])) /\ rel # NoFile /\ blk \in 1..Len(rel)
    BY <1>6, ItemTypes DEF PassItem, AtItem, TypeOK
  <2>2. RestoredInOrder' /\ InBlock' /\ StopReason'
    BY <2>1 DEF RestoredInOrder, InBlock, StopReason
  <2>3. ~Reachable(rel, blk, itm)
    BY <1>6, <2>1 DEF PassItem, Reachable, InBlock
  <2>4. ASSUME NEW b \in 1..Len(rel), NEW i \in 1..Len(Listed(rel[b])),
               Reachable(rel, b, i), Passed(b, i)'
        PROVE  Passed(b, i)
    BY <2>1, <2>3, <2>4 DEF Passed
  <2>5. Advancing'
    BY <2>1, <2>4 DEF Advancing
  <2> QED BY <1>t, <1>r, <1>d, <2>2, <2>5
<1>7. CASE DecodeItem
  <2>1. RestoredInOrder'
    BY <1>7, DecodeKeepsOrder
  <2>2. InBlock' /\ StopReason'
    BY <1>7, DecodeFacts DEF InBlock, StopReason
  <2>3. Advancing'
    BY <1>7, <1>t, <2>1, DecodeKeepsAdvancing
  <2> QED BY <1>t, <1>r, <1>d, <2>1, <2>2, <2>3
<1>8. CASE EndBlock
  <2>1. /\ UNCHANGED <<rel, itm, want, toastRead, value, loops, result, bytesToFormat>>
        /\ pc = "items" /\ itm > Len(Listed(rel[blk])) /\ blk' = blk + 1
        /\ pc' = IF toastRead >= ExtSize THEN "scanned" ELSE "fread"
        /\ rel # NoFile /\ blk \in 1..Len(rel)
    BY <1>8, ItemTypes DEF EndBlock, TypeOK
  <2>2. RestoredInOrder' /\ InBlock' /\ StopReason'
    BY <2>1 DEF RestoredInOrder, InBlock, StopReason
  <2>3. ASSUME NEW b \in 1..Len(rel), NEW i \in 1..Len(Listed(rel[b])), Passed(b, i)'
        PROVE  Passed(b, i)
    <3>1. b < blk + 1
      BY <2>1, <2>3 DEF Passed
    <3>2. b = blk => i < itm
      BY <2>1, ItemTypes DEF TypeOK
    <3> QED BY <2>1, <3>1, <3>2 DEF Passed
  <2>4. Advancing'
    BY <2>1, <2>3 DEF Advancing
  <2> QED BY <1>t, <1>r, <1>d, <2>2, <2>4
<1>9. CASE EndScan
  <2>1. /\ UNCHANGED <<rel, want, toastRead, value>> /\ pc = "scanned"
        /\ loops' = loops + 1 /\ result' = IF loops > NumChunks THEN -1 ELSE result
        /\ pc' \in {"ended", "while"}
    BY <1>9 DEF EndScan, GivesUp
  <2>2. RestoredInOrder' /\ InBlock' /\ StopReason'
    BY <2>1 DEF RestoredInOrder, InBlock, StopReason
  <2>3. Advancing'
    <3> SUFFICES ASSUME Complete(rel) PROVE result' = 0 /\ loops' <= want'
      BY <2>1 DEF Advancing
    <3>1. loops + 1 <= want /\ loops < NumChunks /\ result = 0
      BY <2>1, ScanAdvances
    <3> QED BY <2>1, <3>1, NumChunksBounds DEF TypeOK
  <2> QED BY <1>t, <1>r, <1>d, <2>2, <2>3
<1>10. CASE Deliver
  BY <1>10, <1>t, <1>r, <1>d DEF Deliver, globals, RestoredInOrder, InBlock, StopReason, Advancing
<1>11. CASE UNCHANGED vars
  BY <1>11, <1>t, <1>r, <1>d DEF vars, locals, globals, RestoredInOrder, InBlock, StopReason, Advancing,
                           Passed
<1> QED
  BY <1>1, <1>2, <1>3, <1>4, <1>5, <1>6, <1>7, <1>8, <1>9, <1>10, <1>11
  DEF Next, Step, Ended

THEOREM InductiveInvariant == Spec => []IInv
<1> QED BY InitIInv, NextIInv, PTL DEF Spec

-------------------------------------------------------------------------------
(* The safety properties. *)

(* Chunks are put together in the order of the value, each once, at the    *)
(* right offset, however the relation is laid out.                         *)
THEOREM ValueInOrder == Spec => []RestoredInOrder
<1>1. IInv => RestoredInOrder
  BY DEF IInv
<1> QED BY <1>1, InductiveInvariant, PTL

(* Leaving a scan on reaching the external size never leaves a chunk out.  *)
THEOREM EarlyStopLosesNothing == Spec => []EarlyStopIsFinal
<1>1. IInv => EarlyStopIsFinal
  <2> SUFFICES ASSUME IInv, rel # NoFile, Sound(rel), pc = "scanned", bytesToFormat # 0
               PROVE  want = NumChunks
    BY DEF EarlyStopIsFinal
  <2>1. toastRead >= ExtSize
    BY DEF IInv, StopReason
  <2>2. want \in 0..NumChunks /\ toastRead = SizeUpTo(want)
    BY NumChunksBounds DEF IInv, TypeOK, RestoredInOrder
  <2> QED BY <2>1, <2>2, OffsetsBounded
<1> QED BY <1>1, InductiveInvariant, PTL

(* n chunks take at most n scans, so the limit on `loops` is never met by  *)
(* a relation that holds them all.                                         *)
THEOREM ScansBounded == Spec => [](EveryScanAdvances /\ NoFalseGiveUp)
<1>1. IInv => EveryScanAdvances /\ NoFalseGiveUp
  BY DEF IInv, Advancing, EveryScanAdvances, NoFalseGiveUp
<1> QED BY <1>1, InductiveInvariant, PTL

-------------------------------------------------------------------------------
(* Refinement. *)
LEMMA RefineInit == Init => V!Init
<1> SUFFICES ASSUME Init PROVE V!Init
  OBVIOUS
<1>1. value = <<>> /\ Outcome = "reading"
  BY DEF Init, Outcome
<1>2. (rel # NoFile /\ Complete(rel)) \in BOOLEAN
  OBVIOUS
<1> QED BY <1>1, <1>2 DEF V!Init

(* Every step of the loops is a step of ToastValue or changes nothing it   *)
(* can see.                                                                *)
LEMMA RefineNext ==
  ASSUME \A f \in Relations : Sound(f)
  PROVE  IInv /\ [Next]_vars => [V!Next]_(V!vars)
<1> SUFFICES ASSUME IInv, [Next]_vars PROVE [V!Next]_(V!vars)
  OBVIOUS
<1> DEFINE whole == rel # NoFile /\ Complete(rel)
<1>0. /\ rel # NoFile => Sound(rel)
      /\ rel # NoFile => want \in 0..NumChunks /\ Len(value) = want
  <2>1. rel # NoFile => Sound(rel)
    BY DEF IInv, TypeOK
  <2>2. rel # NoFile => want \in 0..NumChunks /\ value = [k \in 1..want |-> k - 1]
    BY <2>1, NumChunksBounds DEF IInv, TypeOK, RestoredInOrder
  <2> QED BY <2>1, <2>2
<1>1. CASE OpenFails
  <2>1. Outcome = "reading" /\ Outcome' = "failed" /\ ~whole
        /\ UNCHANGED <<value, whole>>
    BY <1>1 DEF OpenFails, Outcome
  <2> QED BY <2>1 DEF V!Next, V!GiveUp
<1>2. CASE EndScan
  <2>1. /\ UNCHANGED <<rel, value>> /\ pc = "scanned"
        /\ result' = IF loops > NumChunks THEN -1 ELSE result
        /\ pc' = IF loops > NumChunks THEN "ended" ELSE "while"
    BY <1>2 DEF EndScan, GivesUp
  <2>2. Outcome = "reading" /\ UNCHANGED <<value, whole>>
    BY <2>1 DEF Outcome
  <2>3. CASE loops > NumChunks
    <3>1. ~whole
      <4>1. ~(loops < NumChunks)
        BY <2>3, NumChunksBounds DEF IInv, TypeOK
      <4> QED BY <2>1, <4>1, ScanAdvances
    <3>2. Outcome' = "failed"
      BY <2>1, <2>3 DEF Outcome
    <3> QED BY <2>2, <3>1, <3>2 DEF V!Next, V!GiveUp
  <2>4. CASE ~(loops > NumChunks)
    <3>1. Outcome' = "reading"
      BY <2>1, <2>4 DEF Outcome
    <3> QED BY <2>2, <3>1 DEF V!vars
  <2> QED BY <2>3, <2>4
<1>3. CASE Deliver
  <2>1. pc = "while" /\ pc' = "ended" /\ want >= NumChunks /\ rel # NoFile
        /\ UNCHANGED <<rel, value, result>>
    BY <1>3 DEF Deliver, IInv, TypeOK
  <2>2. Len(value) = NumChunks
    BY <2>1, <1>0, NumChunksBounds
  <2>3. CASE result = 0
    <3>1. Outcome = "reading" /\ Outcome' = "delivered" /\ UNCHANGED <<value, whole>>
      BY <2>1, <2>3 DEF Outcome
    <3> QED BY <2>2, <3>1 DEF V!Next, V!Deliver
  <2>4. result = 0
    BY <2>1 DEF IInv, ResultInLoop
  <2> QED BY <2>3, <2>4
<1>4. CASE DecodeItem
  <2> DEFINE it == Listed(rel[blk])[itm]
  <2>0. DecodeItem /\ TypeOK /\ InBlock /\ RestoredInOrder /\ RestoredInOrder'
    BY <1>4, DecodeKeepsOrder DEF IInv
  <2>1. rel' = rel /\ rel # NoFile /\ pc = "items" /\ pc' = pc
    BY <2>0, DecodeFacts
  <2>2. Outcome = "reading" /\ Outcome' = "reading" /\ UNCHANGED whole
    BY <2>1 DEF Outcome
  <2>3. CASE ~Wanted(it)
    <3>1. value' = value
      BY <2>0, <2>1, <2>3, <1>0, DecodeFacts, SoundDecode
    <3> QED BY <2>2, <3>1 DEF V!vars
  <2>4. CASE Wanted(it)
    <3>1. value' = Append(value, want) /\ Intact(it) /\ it.seq = want
      BY <2>0, <2>1, <2>4, <1>0, DecodeFacts, SoundDecode
    <3>2. Len(value) = want /\ want < NumChunks
      BY <3>1, <2>1, <1>0 DEF Intact
    <3> QED BY <2>2, <3>1, <3>2 DEF V!Next, V!Take
  <2> QED BY <2>3, <2>4
<1>5. CASE Open \/ StartScan \/ ReadBlock \/ ReadEof \/ PassItem \/ EndBlock
  <2>1. UNCHANGED <<rel, value>> /\ pc # "ended" /\ pc' # "ended"
    BY <1>5 DEF Open, StartScan, ReadBlock, ReadEof, PassItem, AtItem, EndBlock, globals
  <2>2. UNCHANGED <<value, Outcome, whole>>
    BY <2>1 DEF Outcome
  <2> QED BY <2>2 DEF V!vars
<1>6. CASE UNCHANGED vars
  <2>1. UNCHANGED <<rel, pc, result, value>>
    BY <1>6 DEF vars, locals
  <2>2. UNCHANGED <<value, Outcome, whole>>
    BY <2>1 DEF Outcome
  <2> QED BY <2>2 DEF V!vars
<1> QED BY <1>1, <1>2, <1>3, <1>4, <1>5, <1>6 DEF Next, Step, Ended

(* The restart loop, block loop and item loop implement ToastValue over    *)
(* relations without damaged chunks: they deliver the chunks in order,     *)
(* finish only with all of them, and give up only when one is missing.     *)
THEOREM ImplementsToastValue ==
  ASSUME \A f \in Relations : Sound(f)
  PROVE  Spec => V!Spec
<1>1. Init => V!Init
  BY RefineInit
<1>2. IInv /\ [Next]_vars => [V!Next]_(V!vars)
  BY RefineNext
<1> QED BY <1>1, <1>2, InductiveInvariant, PTL DEF Spec, V!Spec

-------------------------------------------------------------------------------
(* What a heap file holds.                                                 *)
LEMMA HeapTypes ==
  ASSUME heap \in Heaps
  PROVE  /\ Len(heap) \in Nat
         /\ \A b \in 1..Len(heap) :
              /\ heap[b].bytes \in Nat /\ heap[b].special \in Specials
              /\ Listed(heap[b]) \in Seq(TupleRecord)
              /\ heap[b].items \in Seq(TupleRecord)
<1>1. heap \in Seq(BlockRecord)
  BY HeapsAssumption
<1>2. ASSUME NEW b \in 1..Len(heap)
      PROVE  /\ heap[b].bytes \in Nat /\ heap[b].special \in Specials
             /\ heap[b].items \in Seq(TupleRecord)
  <2>1. heap[b] \in BlockRecord
    BY <1>1
  <2>2. heap[b].bytes \in Nat \ {0}
    BY <2>1 DEF BlockRecord
  <2>3. heap[b].special \in Specials
    BY <2>1 DEF BlockRecord, Specials
  <2>4. heap[b].items \in Seq(TupleRecord)
    BY <2>1 DEF BlockRecord
  <2> QED BY <2>2, <2>3, <2>4
<1>3. <<>> \in Seq(TupleRecord)
  OBVIOUS
<1> QED BY <1>1, <1>2, <1>3 DEF Listed

LEMMA TupleTypes ==
  ASSUME NEW it \in TupleRecord
  PROVE  /\ it.cols \in Seq(ColumnRecord) /\ DOMAIN it.cols = 1..Len(it.cols)
         /\ Len(it.cols) \in Nat /\ Len(it.cols) <= Columns /\ Columns \in Nat
         /\ \A k \in 1..Len(it.cols) :
              /\ it.cols[k].kind \in {"null", "value", "bad", "toast"}
              /\ it.cols[k].kind = "toast" => it.cols[k].rel \in Relations \cup {NoFile}
<1>1. it.cols \in Seq(ColumnRecord) /\ Len(it.cols) <= Columns /\ Columns \in Nat
  BY HeapsAssumption DEF TupleRecord
<1>2. ASSUME NEW c \in ColumnRecord
      PROVE  /\ c.kind \in {"null", "value", "bad", "toast"}
             /\ c.kind = "toast" => c.rel \in Relations \cup {NoFile}
  BY <1>2 DEF ColumnRecord
<1> QED BY <1>1, <1>2

-------------------------------------------------------------------------------
(* The block loop.                                                         *)

(* A number below the divisor is its own remainder.                        *)
LEMMA SmallRest == ASSUME NEW n \in Nat, NEW w \in Nat \ {0}, n < w PROVE n % w = n
<1>1. n \div w \in Int /\ n % w \in 0..(w - 1) /\ n = w * (n \div w) + (n % w)
  BY SMTT(30)
<1>2. ASSUME NEW d \in Int, NEW m \in 0..(w - 1), n = w * d + m PROVE m = n
  <2>1. d < 1
    <3> SUFFICES ASSUME d >= 1 PROVE FALSE
      OBVIOUS
    <3>1. w * d >= w
      BY SMTT(30)
    <3> QED BY <1>2, <3>1, SMTT(30)
  <2>2. d > -1
    <3> SUFFICES ASSUME d <= -1 PROVE FALSE
      OBVIOUS
    <3>1. w * d <= -w
      BY SMTT(30)
    <3> QED BY <1>2, <3>1, SMTT(30)
  <2>3. d = 0
    BY <2>1, <2>2
  <2> QED BY <1>2, <2>3
<1> QED BY <1>1, <1>2

(* The byte position of the first block does not wrap at 2^32. *)
StartsBelowWrap == \A o \in OptionSets : o.range # NoRange => o.range[1] < WrapBlocks

Ranged == options.range # NoRange

(* Where the file position and the block number stand before a block is    *)
(* read, while it is worked on, and when the loop has been left.           *)
Between ==
  main = "fread" =>
    /\ pos = currentBlock /\ currentBlock = FirstBlock + Len(dumped)
    /\ dumped # <<>> => pos <= Len(heap) /\ (Ranged => pos <= options.range[2])
Within ==
  main \in {"items", "decode", "toast", "next"} =>
    /\ dumped # <<>> /\ pos = FirstBlock + Len(dumped) /\ currentBlock = pos - 1
    /\ pos <= Len(heap) /\ (Ranged => currentBlock <= options.range[2])
AllDumped == Len(dumped) = IF FirstBlock > LastBlock THEN 0 ELSE LastBlock - FirstBlock + 1
Behind == main \in {"return", "exit"} /\ options.mode # "relmap" => AllDumped
Numbered == \A i \in 1..Len(dumped) : dumped[i] = <<FirstBlock + i - 1, FirstBlock + i - 1>>

BlockInv ==
  /\ heap \in Heaps /\ options \in OptionSets
  /\ dumped \in Seq(Int \X Int)
  /\ main = "start" => dumped = <<>>
  /\ Between /\ Within /\ Behind /\ Numbered

(* The ends of the range are block numbers. *)
LEMMA RangeTypes ==
  ASSUME options \in OptionSets, heap \in Heaps
  PROVE  /\ Len(heap) \in Nat /\ FirstBlock \in Nat /\ LastBlock \in Int
         /\ Ranged => options.range[1] = FirstBlock /\ options.range[2] \in Nat
                      /\ FirstBlock <= options.range[2]
<1>1. Len(heap) \in Nat
  BY HeapTypes
<1>2. Ranged => /\ options.range[1] \in Nat /\ options.range[2] \in Nat
                /\ options.range[1] <= options.range[2]
  BY OptionsAssumption DEF Ranged, NoRange
<1> QED BY <1>1, <1>2 DEF FirstBlock, LastBlock, Ranged

LEMMA BlockInvInit == DumpInit => BlockInv
BY DEF DumpInit, BlockInv, Between, Within, Behind, Numbered

LEMMA BlockInvNext ==
  ASSUME StartsBelowWrap
  PROVE  BlockInv /\ [DumpNext]_dumpVars => BlockInv'
<1> SUFFICES ASSUME BlockInv, [DumpNext]_dumpVars PROVE BlockInv'
  OBVIOUS
<1> USE DEF BlockInv
<1>1. /\ Len(heap) \in Nat /\ FirstBlock \in Nat /\ LastBlock \in Int
      /\ Ranged => options.range[1] = FirstBlock /\ options.range[2] \in Nat
                   /\ FirstBlock <= options.range[2]
  BY RangeTypes
<1>2. heap' = heap /\ options' = options
  BY DEF DumpNext, DumpStep, PrintRelMappings, Start, StartFails, DumpEof, DumpBlock, RejectItem,
         SkipItem, DecodeTuple, DecodeColumn, GiveUpTuple, CopyFlush, CallToast, NestedStep,
         ToastReturns, EndItems, NextBlock, Return, DumpEnded, dumpVars, outer
<1>3. /\ FirstBlock' = FirstBlock /\ LastBlock' = LastBlock /\ Ranged' = Ranged
  BY <1>2 DEF FirstBlock, LastBlock, Ranged
<1>4. Len(dumped) \in Nat
  OBVIOUS
<1>5. ASSUME UNCHANGED <<pos, currentBlock, dumped>>,
             main \in {"items", "decode", "toast", "next"},
             main' \in {"items", "decode", "toast", "next"}
      PROVE  BlockInv'
  BY <1>2, <1>3, <1>5 DEF Between, Within, Behind, Numbered
<1>6. CASE RejectItem \/ SkipItem \/ DecodeTuple \/ DecodeColumn \/ GiveUpTuple \/ CopyFlush
           \/ CallToast \/ NestedStep \/ ToastReturns \/ EndItems
  BY <1>5, <1>6 DEF RejectItem, SkipItem, DecodeTuple, DecodeColumn, GiveUpTuple, CopyFlush,
       CallToast, NestedStep, ToastReturns, EndItems, AtLinePointer, HasColumn, PutRow
<1>7. CASE PrintRelMappings \/ StartFails
  BY <1>2, <1>3, <1>7 DEF PrintRelMappings, StartFails, Between, Within, Behind, Numbered
<1>8. CASE Start
  <2>1. main = "start" /\ main' = "fread" /\ dumped' = <<>> /\ dumped = <<>>
    BY <1>8 DEF Start
  <2>2. Ranged => options.range[1] % WrapBlocks = options.range[1]
    <3>1. Ranged => FirstBlock < WrapBlocks
      BY <1>1 DEF StartsBelowWrap, Ranged
    <3> QED BY <1>1, <3>1, SmallRest, WrapAssumption
  <2>3. pos' = FirstBlock /\ currentBlock' = FirstBlock
    BY <1>8, <2>2 DEF Start, FirstBlock, Ranged
  <2> QED BY <1>1, <1>2, <1>3, <2>1, <2>3 DEF Between, Within, Behind, Numbered
<1>9. CASE DumpEof
  <2>1. /\ main = "fread" /\ main' = "return" /\ pos >= Len(heap)
        /\ UNCHANGED <<pos, currentBlock, dumped>>
    BY <1>9 DEF DumpEof
  <2>2. /\ pos = FirstBlock + Len(dumped)
        /\ dumped # <<>> => pos <= Len(heap) /\ (Ranged => pos <= options.range[2])
    BY <2>1 DEF Between
  <2>3. AllDumped
    <3>1. CASE dumped = <<>>
      <4>1. FirstBlock >= Len(heap) /\ Len(dumped) = 0
        BY <1>1, <2>1, <2>2, <3>1
      <4>2. LastBlock = Len(heap) - 1
        BY <1>1, <4>1 DEF LastBlock, Ranged
      <4> QED BY <1>1, <4>1, <4>2 DEF AllDumped
    <3>2. CASE dumped # <<>>
      <4>1. pos = Len(heap) /\ Len(dumped) > 0
        BY <1>1, <1>4, <2>1, <2>2, <3>2
      <4>2. LastBlock = Len(heap) - 1
        BY <1>1, <2>2, <3>2, <4>1 DEF LastBlock, Ranged
      <4> QED BY <1>1, <1>4, <2>2, <4>1, <4>2 DEF AllDumped
    <3> QED BY <3>1, <3>2
  <2> QED BY <1>2, <1>3, <2>1, <2>3 DEF Between, Within, Behind, Numbered, AllDumped
<1>10. CASE DumpBlock
  <2>1. /\ main = "fread" /\ main' \in {"items", "next"} /\ pos < Len(heap) /\ pos' = pos + 1
        /\ currentBlock' = currentBlock /\ dumped' = Append(dumped, <<currentBlock, pos>>)
    BY <1>10 DEF DumpBlock
  <2>2. /\ pos = currentBlock /\ currentBlock = FirstBlock + Len(dumped)
        /\ dumped # <<>> => (Ranged => pos <= options.range[2])
    BY <2>1 DEF Between
  <2>3. pos \in Int /\ currentBlock \in Int
    BY <1>1, <1>4, <2>2
  <2>4. /\ dumped' \in Seq(Int \X Int) /\ Len(dumped') = Len(dumped) + 1 /\ dumped' # <<>>
        /\ dumped'[Len(dumped) + 1] = <<pos, pos>>
        /\ \A i \in 1..Len(dumped) : dumped'[i] = dumped[i]
    <3> DEFINE last == <<currentBlock, pos>>
    <3>1. last \in Int \X Int /\ last = <<pos, pos>>
      BY <2>2, <2>3
    <3> HIDE DEF last
    <3>2. dumped' = Append(dumped, last)
      BY <2>1 DEF last
    <3> QED BY <1>4, <3>1, <3>2
  <2>5. Numbered'
    <3> SUFFICES ASSUME NEW i \in 1..(Len(dumped) + 1)
                 PROVE  dumped'[i] = <<FirstBlock + i - 1, FirstBlock + i - 1>>
      BY <1>3, <2>4 DEF Numbered
    <3>1. CASE i \in 1..Len(dumped)
      BY <2>4, <3>1 DEF Numbered
    <3>2. CASE i = Len(dumped) + 1
      <4>1. FirstBlock + i - 1 = pos
        BY <1>1, <1>4, <2>2, <3>2
      <4> QED BY <2>4, <3>2, <4>1
    <3> QED BY <1>4, <3>1, <3>2
  <2>6. Within'
    <3>1. pos' = FirstBlock + Len(dumped') /\ currentBlock' = pos' - 1 /\ pos' <= Len(heap)
      BY <1>1, <1>4, <2>1, <2>2, <2>3, <2>4
    <3>2. Ranged => currentBlock' <= options.range[2]
      <4>1. CASE dumped = <<>>
        BY <1>1, <2>1, <2>2, <4>1
      <4> QED BY <2>1, <2>2, <4>1
    <3> QED BY <1>2, <1>3, <2>4, <3>1, <3>2 DEF Within
  <2> QED BY <1>2, <2>1, <2>4, <2>5, <2>6 DEF Between, Behind
<1>11. CASE NextBlock
  <2>1. main = "next" /\ UNCHANGED <<pos, dumped>>
    BY <1>11 DEF NextBlock
  <2>2. /\ dumped # <<>> /\ pos = FirstBlock + Len(dumped) /\ currentBlock = pos - 1
        /\ pos <= Len(heap) /\ (Ranged => currentBlock <= options.range[2])
    BY <2>1 DEF Within
  <2>3. CASE Ranged /\ currentBlock >= options.range[2]
    <3>1. main' = "return" /\ currentBlock' = currentBlock
      BY <1>11, <2>3 DEF NextBlock, Ranged
    <3>2. currentBlock = options.range[2] /\ LastBlock = currentBlock
      <4>1. currentBlock = options.range[2]
        BY <1>1, <1>4, <2>2, <2>3
      <4> QED BY <1>1, <2>2, <2>3, <4>1 DEF LastBlock, Ranged
    <3>3. AllDumped
      <4>1. Len(dumped) > 0
        BY <1>4, <2>2
      <4>2. ~(FirstBlock > LastBlock) /\ LastBlock - FirstBlock + 1 = Len(dumped)
        <5>1. LastBlock = (FirstBlock + Len(dumped)) - 1
          BY <2>2, <3>2
        <5>2. \A a \in Nat, n \in Nat : n > 0 => ~(a > (a + n) - 1) /\ ((a + n) - 1) - a + 1 = n
          OBVIOUS
        <5> QED BY <1>1, <1>4, <4>1, <5>1, <5>2
      <4> QED BY <4>2 DEF AllDumped
    <3> QED BY <1>2, <1>3, <2>1, <3>1, <3>3 DEF Between, Within, Behind, Numbered, AllDumped
  <2>4. CASE ~(Ranged /\ currentBlock >= options.range[2])
    <3>1. main' = "fread" /\ currentBlock' = currentBlock + 1
      BY <1>11, <2>4 DEF NextBlock, Ranged
    <3>2. currentBlock' = pos /\ (Ranged => pos <= options.range[2])
      BY <1>1, <1>4, <2>2, <2>4, <3>1
    <3> QED BY <1>2, <1>3, <2>1, <2>2, <3>1, <3>2 DEF Between, Within, Behind, Numbered
  <2> QED BY <2>3, <2>4
<1>12. CASE Return
  BY <1>2, <1>3, <1>12 DEF Return, Between, Within, Behind, Numbered, AllDumped
<1>13. CASE UNCHANGED dumpVars
  BY <1>2, <1>3, <1>13 DEF dumpVars, outer, Between, Within, Behind, Numbered, AllDumped
<1> QED BY <1>6, <1>7, <1>8, <1>9, <1>10, <1>11, <1>12, <1>13 DEF DumpNext, DumpStep, DumpEnded

(* The blocks dumped are those of the range that the file has, in order    *)
(* and under their own numbers, whatever nested dumps go on in between, as *)
(* long as the start lies below 2^32 bytes.                                *)
THEOREM BlocksDumped ==
  ASSUME StartsBelowWrap
  PROVE  DumpSpec => []BlocksAsAsked
<1>1. BlockInv => BlocksAsAsked
  BY DEF BlockInv, BlocksAsAsked, Numbered, Behind, AllDumped
<1>2. BlockInv /\ [DumpNext]_dumpVars => BlockInv'
  BY BlockInvNext
<1> QED BY <1>1, <1>2, BlockInvInit, PTL DEF DumpSpec

-------------------------------------------------------------------------------
(* A nested dump over a relation whose blocks can be read to the end stops *)
(* in the block that holds the last chunk it wants, so that it leaves      *)
(* bytesToFormat at the size of a block.                                   *)
Filled ==
  rel # NoFile /\ WholeRelation(rel) /\ want >= NumChunks =>
    /\ bytesToFormat = BlockSize
    /\ pc \in {"items", "scanned", "while", "ended"}
    /\ pc = "items" => itm > Len(Listed(rel[blk]))

LEMMA WholeIsSound == WholeRelation(rel) => Sound(rel)
BY DEF WholeRelation, Complete

LEMMA NextFilled == IInv /\ Filled /\ Step => Filled'
<1> SUFFICES ASSUME IInv, Filled, Step,
                    rel' # NoFile, WholeRelation(rel)', want' >= NumChunks
             PROVE  /\ bytesToFormat' = BlockSize
                    /\ pc' \in {"items", "scanned", "while", "ended"}
                    /\ pc' = "items" => itm' > Len(Listed(rel'[blk']))
  BY DEF Filled, NumChunks
<1>1. rel' = rel
  BY DEF Step, OpenFails, Open, StartScan, ReadBlock, ReadEof, PassItem, DecodeItem, EndBlock,
         EndScan, Deliver
<1>2. /\ rel # NoFile /\ Complete(rel) /\ Sound(rel)
      /\ \A b \in 1..Len(rel) : rel[b].bytes = BlockSize
  BY <1>1 DEF WholeRelation, Complete
<1>3. Filled => (want >= NumChunks =>
                   /\ bytesToFormat = BlockSize
                   /\ pc \in {"items", "scanned", "while", "ended"}
                   /\ pc = "items" => itm > Len(Listed(rel[blk])))
  BY <1>1, <1>2 DEF Filled
<1>4. want \in 0..NumChunks /\ toastRead = SizeUpTo(want)
  BY <1>2, NumChunksBounds DEF IInv, TypeOK, RestoredInOrder
<1>5. SizeUpTo(NumChunks) = ExtSize
  BY NumChunksBounds DEF SizeUpTo
<1>6. CASE DecodeItem
  <2>1. /\ blk \in 1..Len(rel) /\ itm \in 1..Len(Listed(rel[blk])) /\ pc = "items"
        /\ itm' = IF toastRead' >= ExtSize THEN Len(Listed(rel[blk])) + 1 ELSE itm + 1
        /\ UNCHANGED <<pc, blk, bytesToFormat>>
    BY <1>6, DecodeFacts DEF IInv
  <2>2. toastRead' = SizeUpTo(want') /\ want' <= NumChunks
    <3>1. RestoredInOrder'
      BY <1>6, DecodeKeepsOrder DEF IInv
    <3>2. Sound(rel)'
      <4>1. (WholeRelation(rel) => Sound(rel))'
        BY WholeIsSound, PTL
      <4> QED BY <4>1
    <3> QED BY <3>1, <3>2 DEF RestoredInOrder, SizeUpTo, NumChunks
  <2>3. want' \in Nat
    BY StepTypeOK DEF IInv, Next, TypeOK
  <2>4. want' = NumChunks
    BY <2>2, <2>3, NumChunksBounds
  <2>5. toastRead' = ExtSize
    BY <2>2, <2>4, <1>5
  <2>6. bytesToFormat = BlockSize
    BY <1>2, <2>1 DEF IInv, InBlock
  <2> QED BY <1>1, <2>1, <2>5, <2>6, SizeAssumption
<1>7. CASE OpenFails \/ Open
  BY <1>2, <1>3, <1>7 DEF OpenFails, Open, globals
<1>8. CASE StartScan
  BY <1>4, <1>8, NumChunksBounds DEF StartScan
<1>9. CASE ReadBlock \/ ReadEof
  BY <1>3, <1>9 DEF ReadBlock, ReadEof
<1>10. CASE PassItem
  <2>1. /\ pc = "items" /\ itm <= Len(Listed(rel[blk])) /\ want' = want
        /\ itm \in Nat /\ blk \in 1..Len(rel)
    BY <1>10, <1>2, ItemTypes DEF PassItem, AtItem, IInv, TypeOK
  <2>2. Len(Listed(rel[blk])) \in Nat
    BY <2>1, <1>2, ItemTypes DEF IInv
  <2> QED BY <2>1, <2>2, <1>3
<1>11. CASE EndBlock
  <2>1. /\ want' = want /\ bytesToFormat' = bytesToFormat
        /\ pc' = IF toastRead >= ExtSize THEN "scanned" ELSE "fread"
    BY <1>11 DEF EndBlock
  <2>2. want = NumChunks
    BY <2>1, <1>4, NumChunksBounds
  <2>3. toastRead >= ExtSize
    BY <2>2, <1>4, <1>5, SizeAssumption
  <2> QED BY <2>1, <2>3, <1>3
<1>12. CASE EndScan \/ Deliver
  BY <1>3, <1>12 DEF EndScan, Deliver, globals
<1> QED BY <1>6, <1>7, <1>8, <1>9, <1>10, <1>11, <1>12 DEF Step

-------------------------------------------------------------------------------
(* Types and places of a dump with nested dumps.                           *)

Mains == {"start", "fread", "items", "decode", "toast", "next", "return", "exit", "failed"}
(* What stands for a column in a COPY line.                                *)
Shows == {"null", "value", "bad", "toast", "(TOASTED)"} \cup Seq(Nat)

Globals == bytesToFormat \in Nat /\ specialType \in Specials /\ exitCode \in {0, 1}

(* The loops of the outer dump stay within the file and its items.         *)
Places ==
  /\ heap \in Heaps /\ options \in OptionSets /\ main \in Mains /\ noted \in BOOLEAN
  /\ pos \in Nat /\ currentBlock \in Nat /\ x \in Nat \ {0} /\ attr \in 1..(Columns + 1)
  /\ main \in {"items", "decode", "toast"} => pos \in 1..Len(heap) /\ options.mode = "format"
  /\ main \in {"decode", "toast"} => x \in 1..Len(Items)

(* No line has more columns than -D names.                                 *)
Lines ==
  /\ copy \in Seq(Shows)
  /\ main \in {"decode", "toast"} => Len(copy) <= attr - 1
  /\ rows \in Seq({"copy", "error"} \X Nat \X Nat \X Seq(Shows))
  /\ \A i \in 1..Len(rows) : Len(rows[i][4]) <= Columns

(* A call that has ended without an error has found every chunk.           *)
Delivered == pc = "ended" /\ result = 0 => want >= NumChunks

(* The nested dump reads the relation of the column the decoder is at, and *)
(* is in a state that ToastRead reaches; otherwise it is not running.      *)
InToast ==
  /\ rel \in Relations \cup {NoFile}
  /\ main # "toast" => pc = "ended"
  /\ main = "toast" =>
       /\ attr \in 1..Len(LinePointer.cols) /\ attr <= Columns /\ Column.kind = "toast"
       /\ rel = Column.rel
       /\ IInv /\ Delivered /\ Filled

DumpInv == Globals /\ Places /\ Lines /\ InToast

(* How ReadStringFromToast begins, whatever the globals are.               *)
Called == /\ TypeOK
          /\ pc = "open" /\ want = 0 /\ toastRead = 0 /\ value = <<>> /\ loops = 0 /\ result = 0

LEMMA CalledIInv == Called => IInv /\ Delivered /\ Filled
<1> SUFFICES ASSUME Called PROVE IInv /\ Delivered /\ Filled
  OBVIOUS
<1>1. RestoredInOrder
  <2>1. 0 \in 0..NumChunks
    BY NumChunksBounds
  <2>2. SizeUpTo(0) = 0
    BY <2>1, OffsetsBounded
  <2>3. <<>> = [k \in 1..0 |-> k - 1]
    OBVIOUS
  <2> QED BY <2>2, <2>3, NumChunksBounds DEF Called, RestoredInOrder
<1>2. InBlock /\ StopReason /\ ResultInLoop /\ Advancing /\ Delivered
  BY DEF Called, InBlock, StopReason, ResultInLoop, Advancing, Delivered
<1>3. Filled
  BY NumChunksBounds DEF Called, Filled
<1>4. TornIsLast
  BY NoneTorn DEF Called
<1> QED BY <1>1, <1>2, <1>3, <1>4 DEF Called, IInv

LEMMA DumpInvInit == DumpInit => DumpInv
<1> SUFFICES ASSUME DumpInit PROVE DumpInv
  OBVIOUS
<1>1. Columns \in Nat /\ 1 \in 1..(Columns + 1)
  BY HeapsAssumption
<1>2. Globals /\ InToast
  BY DEF DumpInit, Globals, InToast, Specials
<1>3. Places
  <2>1. /\ heap \in Heaps /\ options \in OptionSets /\ main = "start" /\ noted \in BOOLEAN
        /\ pos = 0 /\ currentBlock = 0 /\ x = 1 /\ attr = 1
    BY DEF DumpInit
  <2> QED BY <1>1, <2>1 DEF Places, Mains
<1>4. Lines
  <2>1. copy = <<>> /\ rows = <<>> /\ main = "start"
    BY DEF DumpInit
  <2>2. rows \in Seq({"copy", "error"} \X Nat \X Nat \X Seq(Shows)) /\ copy \in Seq(Shows)
    BY <2>1
  <2>3. \A i \in 1..Len(rows) : Len(rows[i][4]) <= Columns
    BY <2>1
  <2>4. main \notin {"decode", "toast"}
    BY <2>1
  <2> QED BY <2>2, <2>3, <2>4 DEF Lines
<1> QED BY <1>2, <1>3, <1>4 DEF DumpInv

(* The item loop stays in its block.                                       *)
LEMMA SamePlace ==
  ASSUME heap' = heap, pos' = pos
  PROVE  /\ Items' = Items
         /\ x' = x => LinePointer' = LinePointer
         /\ x' = x /\ attr' = attr => Column' = Column
BY DEF Items, LinePointer, Column, HeapBlock, Listed

(* The tuple the item loop is at, and its columns.                         *)
LEMMA AtTuple ==
  ASSUME Places
  PROVE  /\ main \in {"items", "decode", "toast"} =>
              /\ Items \in Seq(TupleRecord) /\ Len(Items) \in Nat
              /\ DOMAIN Items = 1..Len(Items)
              /\ x <= Len(Items) => x \in 1..Len(Items) /\ LinePointer \in TupleRecord
         /\ main \in {"decode", "toast"} => LinePointer \in TupleRecord
<1> SUFFICES ASSUME main \in {"items", "decode", "toast"}
             PROVE  /\ Items \in Seq(TupleRecord) /\ Len(Items) \in Nat
                    /\ DOMAIN Items = 1..Len(Items)
                    /\ x <= Len(Items) => x \in 1..Len(Items) /\ LinePointer \in TupleRecord
                    /\ main \in {"decode", "toast"} => LinePointer \in TupleRecord
  OBVIOUS
<1>1. Items \in Seq(TupleRecord)
  BY HeapTypes DEF Places, Items, HeapBlock
<1>2. x \in Nat \ {0} /\ (main \in {"decode", "toast"} => x \in 1..Len(Items))
  BY DEF Places
<1>3. \A i \in 1..Len(Items) : Items[i] \in TupleRecord
  BY <1>1
<1> HIDE DEF Items
<1>4. Len(Items) \in Nat /\ DOMAIN Items = 1..Len(Items)
  BY <1>1
<1> QED BY <1>1, <1>2, <1>3, <1>4 DEF LinePointer

(* A line that is put out is one of the types, and the loop goes on.       *)
LEMMA RowPut ==
  ASSUME Places, Lines, main \in {"decode", "toast"}, attr \in 1..(Columns + 1), Columns \in Nat,
         NEW kind \in {"copy", "error"}, PutRow(kind, copy), copy' = copy
  PROVE  Lines'
<1> DEFINE row == <<kind, currentBlock, x, copy>>
           Row == {"copy", "error"} \X Nat \X Nat \X Seq(Shows)
<1>1. rows' = Append(rows, row) /\ main' = "items"
  BY DEF PutRow
<1>2. row \in Row /\ row[4] = copy
  BY DEF Places, Lines
<1>3. rows \in Seq(Row) /\ Len(copy) <= Columns /\ copy \in Seq(Shows)
  <2>1. Len(copy) \in Nat
    BY DEF Lines
  <2> QED BY <2>1 DEF Lines
<1>4. \A i \in 1..Len(rows) : Len(rows[i][4]) <= Columns
  BY DEF Lines
<1> HIDE DEF row, Row
<1>5. /\ rows' \in Seq(Row)
      /\ \A i \in 1..Len(rows') : rows'[i] = row \/ (i \in 1..Len(rows) /\ rows'[i] = rows[i])
  BY <1>1, <1>2, <1>3
<1>6. \A i \in 1..Len(rows') : Len(rows'[i][4]) <= Columns
  BY <1>2, <1>3, <1>4, <1>5
<1> QED BY <1>1, <1>3, <1>5, <1>6 DEF Lines, Row

(* A column is added to the line.                                          *)
LEMMA ColumnAdded ==
  ASSUME Lines, main \in {"decode", "toast"}, attr \in Nat, NEW data \in Shows,
         AppendColumn(data), rows' = rows
  PROVE  Lines'
<1>1. copy \in Seq(Shows) /\ Len(copy) \in Nat /\ Len(copy) <= attr - 1
  BY DEF Lines
<1>2. copy' = Append(copy, data) /\ attr' = attr + 1
  BY DEF AppendColumn
<1>3. copy' \in Seq(Shows) /\ Len(copy') = Len(copy) + 1
  BY <1>1, <1>2
<1>4. Len(copy') <= attr' - 1
  BY <1>1, <1>2, <1>3
<1> QED BY <1>3, <1>4 DEF Lines

LEMMA DumpInvNext == DumpInv /\ [DumpNext]_dumpVars => DumpInv'
<1> SUFFICES ASSUME DumpInv, [DumpNext]_dumpVars PROVE DumpInv'
  OBVIOUS
<1>0. Columns \in Nat
  BY HeapsAssumption
<1> USE DEF DumpInv
<1>1. CASE PrintRelMappings \/ StartFails \/ Return
  <2>1. /\ UNCHANGED <<heap, options, pos, currentBlock, x, attr, copy, rows, rel, pc,
                       bytesToFormat, specialType>>
        /\ exitCode' \in {0, 1} /\ main \notin {"toast"} /\ main' \in {"exit", "failed"}
        /\ noted' \in BOOLEAN
    BY <1>1 DEF PrintRelMappings, StartFails, Return, locals, Places
  <2> QED BY <2>1 DEF Globals, Places, Lines, InToast, Mains
<1>2. CASE Start
  <2>1. options.range # <<>> => options.range[1] \in Nat
    BY OptionsAssumption DEF Places
  <2>2. \A n \in Nat, w \in Nat \ {0} : n % w \in Nat
    OBVIOUS
  <2>3. pos' \in Nat /\ currentBlock' \in Nat
    BY <1>2, <2>1, <2>2, WrapAssumption DEF Start, NoRange
  <2>4. /\ UNCHANGED <<heap, options, x, attr, copy, rows, rel, pc, bytesToFormat, specialType>>
        /\ exitCode' \in {1, exitCode} /\ main = "start" /\ main' = "fread"
        /\ noted' \in BOOLEAN
    BY <1>2 DEF Start, locals
  <2> QED BY <2>3, <2>4 DEF Globals, Places, Lines, InToast, Mains
<1>3. CASE DumpEof
  <2>1. /\ UNCHANGED <<heap, options, pos, currentBlock, x, attr, copy, rows, noted, rel, pc,
                       exitCode, specialType>>
        /\ bytesToFormat' = 0 /\ main = "fread" /\ main' = "return"
    BY <1>3 DEF DumpEof, locals
  <2> QED BY <2>1 DEF Globals, Places, Lines, InToast, Mains
<1>4. CASE DumpBlock
  <2>1. pos \in Nat /\ pos < Len(heap) /\ Len(heap) \in Nat
    BY <1>4, HeapTypes DEF DumpBlock, Places
  <2>2. pos + 1 \in 1..Len(heap)
    BY <2>1
  <2>3. heap[pos + 1].bytes \in Nat /\ heap[pos + 1].special \in Specials
    BY <2>2, HeapTypes DEF Places
  <2>4. Globals'
    BY <1>4, <2>3 DEF DumpBlock, Globals
  <2>5. /\ UNCHANGED <<heap, options, currentBlock, attr, copy, rows, rel, pc>>
        /\ x' = 1 /\ pos' = pos + 1 /\ main = "fread"
        /\ main' = IF options.mode = "format" THEN "items" ELSE "next"
        /\ noted' \in BOOLEAN
    BY <1>4 DEF DumpBlock, locals, Places
  <2> QED BY <2>2, <2>4, <2>5 DEF Places, Lines, InToast, Mains
<1>5. CASE RejectItem \/ SkipItem
  <2>1. /\ main = "items" /\ main' = main /\ x' = x + 1
        /\ UNCHANGED <<heap, options, pos, currentBlock, attr, copy, rows, rel, pc>>
        /\ bytesToFormat' = bytesToFormat /\ specialType' = specialType
        /\ exitCode' \in {exitCode, 1}
    BY <1>5 DEF RejectItem, SkipItem, AtLinePointer, globals, locals
  <2>2. noted' \in BOOLEAN
    BY <1>5 DEF RejectItem, SkipItem, Places
  <2> QED BY <2>1, <2>2 DEF Globals, Places, Lines, InToast, Mains
<1>6. CASE DecodeTuple
  <2>1. /\ main = "items" /\ main' = "decode" /\ x <= Len(Items) /\ attr' = 1 /\ copy' = <<>>
        /\ UNCHANGED <<heap, options, pos, currentBlock, x, rows, noted, rel, pc,
                       bytesToFormat, specialType, exitCode>>
    BY <1>6 DEF DecodeTuple, AtLinePointer, globals, locals
  <2>2. Items' = Items /\ x \in 1..Len(Items)
    BY <2>1, SamePlace, AtTuple
  <2>3. copy' \in Seq(Shows) /\ Len(copy') <= attr' - 1 /\ attr' \in 1..(Columns + 1)
    BY <2>1, <1>0
  <2>4. Lines'
    BY <2>1, <2>3 DEF Lines
  <2> QED BY <2>1, <2>2, <2>3, <2>4 DEF Globals, Places, InToast, Mains
<1>7. CASE DecodeColumn
  <2>1. /\ main = "decode" /\ main' = main /\ attr' = attr + 1 /\ attr <= Columns
        /\ UNCHANGED <<heap, options, pos, currentBlock, x, rows, noted, rel, pc,
                       bytesToFormat, specialType, exitCode>>
    BY <1>7 DEF DecodeColumn, HasColumn, AppendColumn, globals, locals
  <2>2. PICK data \in Shows : AppendColumn(data)
    <3>1. Column.kind \in Shows /\ "(TOASTED)" \in Shows
      BY <1>7, <2>1, AtTuple, TupleTypes DEF DecodeColumn, HasColumn, Column, Places, Shows
    <3> QED BY <1>7, <3>1 DEF DecodeColumn
  <2>3. Lines'
    BY <2>1, <2>2, ColumnAdded DEF Places
  <2>4. Items' = Items /\ attr' \in 1..(Columns + 1)
    BY <1>0, <2>1, SamePlace DEF Places
  <2> QED BY <2>1, <2>3, <2>4 DEF Globals, Places, InToast, Mains
<1>8. CASE GiveUpTuple \/ CopyFlush
  <2>1. /\ main = "decode" /\ main' = "items" /\ x' = x + 1
        /\ \E kind \in {"copy", "error"} : PutRow(kind, copy)
        /\ UNCHANGED <<heap, options, pos, currentBlock, attr, copy, noted, rel, pc,
                       bytesToFormat, specialType, exitCode>>
    BY <1>8 DEF GiveUpTuple, CopyFlush, HasColumn, PutRow, globals, locals
  <2>2. Lines'
    BY <1>0, <2>1, RowPut DEF Places
  <2> QED BY <2>1, <2>2 DEF Globals, Places, InToast, Mains
<1>9. CASE CallToast
  <2>1. /\ main = "decode" /\ main' = "toast" /\ attr <= Len(LinePointer.cols) /\ attr <= Columns
        /\ Column.kind = "toast" /\ rel' = Column.rel
        /\ UNCHANGED <<heap, options, pos, currentBlock, x, attr, copy, rows, noted,
                       bytesToFormat, specialType, exitCode>>
    BY <1>9 DEF CallToast, HasColumn, globals
  <2>2. Places' /\ Globals' /\ Lines'
    BY <2>1, SamePlace DEF Places, Globals, Mains, Lines
  <2>3. /\ attr \in 1..Len(LinePointer.cols)
        /\ Column.rel \in Relations \cup {NoFile}
    <3>1. LinePointer \in TupleRecord /\ attr \in Nat \ {0}
      BY <2>1, AtTuple DEF Places
    <3>2. Len(LinePointer.cols) \in Nat
      BY <3>1, TupleTypes
    <3>3. attr \in 1..Len(LinePointer.cols)
      BY <2>1, <3>1, <3>2
    <3> QED BY <2>1, <3>1, <3>3, TupleTypes DEF Column
  <2>4. Called'
    BY <1>9, <2>1, <2>2, <2>3 DEF CallToast, Called, TypeOK, Globals
  <2>5. IInv' /\ Delivered' /\ Filled'
    BY <2>4, CalledIInv, PTL
  <2>6. LinePointer' = LinePointer /\ Column' = Column
    BY <2>1, SamePlace
  <2> QED BY <2>1, <2>2, <2>3, <2>5, <2>6 DEF InToast
<1>10. CASE NestedStep
  <2>1. /\ main = "toast" /\ main' = main /\ pc # "ended" /\ Step
        /\ UNCHANGED <<heap, options, pos, currentBlock, x, attr, copy, rows>>
        /\ noted' = (noted \/ exitCode' # exitCode)
    BY <1>10 DEF NestedStep
  <2>2. IInv /\ Delivered /\ Filled /\ attr \in 1..Len(LinePointer.cols) /\ attr <= Columns
        /\ Column.kind = "toast" /\ rel = Column.rel
    BY <2>1 DEF InToast
  <2>3. IInv' /\ Filled'
    BY <2>1, <2>2, NextIInv, NextFilled DEF Next
  <2>4. rel' = rel
    BY <2>1 DEF Step, OpenFails, Open, StartScan, ReadBlock, ReadEof, PassItem, DecodeItem,
                EndBlock, EndScan, Deliver
  <2>5. Delivered'
    BY <2>1 DEF Delivered, Step, OpenFails, Open, StartScan, ReadBlock, ReadEof, PassItem,
                DecodeItem, EndBlock, EndScan, Deliver
  <2>6. Globals'
    BY <2>3 DEF IInv, TypeOK, Globals
  <2>7. noted' \in BOOLEAN
    BY <2>1
  <2>8. Items' = Items /\ LinePointer' = LinePointer /\ Column' = Column
    BY <2>1, SamePlace
  <2>9. Places' /\ Lines'
    BY <2>1, <2>7, <2>8 DEF Places, Lines
  <2> QED BY <2>1, <2>2, <2>3, <2>4, <2>5, <2>6, <2>8, <2>9 DEF InToast
<1>11. CASE ToastReturns
  <2>1. /\ main = "toast" /\ pc = "ended" /\ attr <= Columns
        /\ UNCHANGED <<heap, options, pos, currentBlock, noted, rel, pc,
                       bytesToFormat, specialType, exitCode>>
    BY <1>11 DEF ToastReturns, globals, locals, InToast
  <2>2. /\ main' \in {"decode", "items"}
        /\ main' = "decode" => x' = x
        /\ x' \in {x, x + 1} /\ attr' \in {attr, attr + 1}
    BY <1>11 DEF ToastReturns, AppendColumn, PutRow
  <2>3. Lines'
    <3>1. CASE AppendColumn(value) /\ rows' = rows
      <4>1. value \in Shows
        BY <2>1 DEF InToast, IInv, TypeOK, Shows
      <4> QED BY <2>1, <3>1, <4>1, ColumnAdded DEF Places
    <3>2. CASE UNCHANGED <<copy, rows>> /\ attr' = attr + 1
      <4>1. copy \in Seq(Shows) /\ Len(copy) \in Nat /\ Len(copy) <= attr - 1 /\ attr \in Nat
        BY <2>1 DEF Lines, Places
      <4>2. Len(copy') <= attr' - 1
        BY <3>2, <4>1
      <4> QED BY <3>2, <4>2 DEF Lines
    <3>3. CASE PutRow("error", copy) /\ copy' = copy
      BY <1>0, <2>1, <3>3, RowPut DEF Places
    <3> QED BY <1>11, <3>1, <3>2, <3>3 DEF ToastReturns
  <2>4. Places'
    <3>1. attr' \in 1..(Columns + 1) /\ x' \in Nat \ {0}
      BY <1>0, <2>1, <2>2 DEF Places
    <3> QED BY <2>1, <2>2, <3>1, SamePlace DEF Places, Mains
  <2> QED BY <2>1, <2>2, <2>3, <2>4 DEF Globals, InToast
<1>12. CASE EndItems \/ NextBlock
  <2>1. /\ main \in {"items", "next"} /\ main' \in {"next", "return", "fread"}
        /\ UNCHANGED <<heap, options, pos, x, attr, copy, rows, rel, pc,
                       bytesToFormat, specialType>>
        /\ currentBlock' \in {currentBlock, currentBlock + 1}
        /\ exitCode' \in {exitCode, 1}
    BY <1>12 DEF EndItems, NextBlock, globals, locals
  <2>2. noted' \in BOOLEAN
    BY <1>12 DEF EndItems, NextBlock, Places
  <2> QED BY <2>1, <2>2 DEF Globals, Places, Lines, InToast, Mains
<1>13. CASE UNCHANGED dumpVars
  <2>1. /\ UNCHANGED <<heap, options, main, pos, currentBlock, x, attr, copy, rows, noted,
                       bytesToFormat, specialType, exitCode>>
        /\ UNCHANGED vars
    BY <1>13 DEF dumpVars, outer, locals, globals, vars
  <2>2. IInv /\ Delivered /\ Filled => IInv' /\ Delivered' /\ Filled'
    BY <2>1, NextIInv DEF Delivered, Filled, vars, locals, globals
  <2>3. rel' = rel /\ pc' = pc
    BY <2>1 DEF vars, locals
  <2>4. Globals' /\ Places' /\ Lines'
    BY <2>1, SamePlace DEF Globals, Places, Lines
  <2> QED BY <2>1, <2>2, <2>3, <2>4, SamePlace DEF InToast
<1> QED BY <1>1, <1>2, <1>3, <1>4, <1>5, <1>6, <1>7, <1>8, <1>9, <1>10, <1>11, <1>12, <1>13
        DEF DumpNext, DumpStep, DumpEnded

(* Types of all variables of a dump: the loops index what is there, and no *)
(* line has more columns than -D names.                                    *)
THEOREM DumpTypes == DumpSpec => []DumpTypeOK
<1>1. DumpInv => DumpTypeOK
  <2> SUFFICES ASSUME DumpInv PROVE DumpTypeOK
    OBVIOUS
  <2>1. \A i \in 1..Len(rows) : rows[i][1] \in {"copy", "error"} /\ Len(rows[i][4]) <= Columns
    BY DEF DumpInv, Lines
  <2>2. DOMAIN rows = 1..Len(rows)
    BY DEF DumpInv, Lines
  <2>3. main \in {"decode", "toast"} => x <= Len(Items)
    BY AtTuple DEF DumpInv, Places
  <2>4. Globals /\ Places /\ rel \in Relations \cup {NoFile} /\ (pc # "ended" => main = "toast")
    BY DEF DumpInv, InToast
  <2> QED BY <2>1, <2>2, <2>3, <2>4 DEF DumpTypeOK, Globals, Places, Mains, Range
<1>2. DumpInv /\ [DumpNext]_dumpVars => DumpInv'
  BY DumpInvNext
<1> QED BY <1>1, <1>2, DumpInvInit, PTL DEF DumpSpec

(* When ReadStringFromToast returns to the dump that called it, it has     *)
(* read the relation that the column's pointer names; a relation that is   *)
(* not there is an error, one that has every chunk is none, and no error   *)
(* means that the value is there in full.                                  *)
ToastAnswer ==
  main = "toast" /\ pc = "ended" =>
    /\ rel = Column.rel
    /\ Complete(rel) => result = 0
    /\ rel # NoFile /\ Sound(rel) /\ result = 0 => value = WholeValue

LEMMA AnswerIsTrue == DumpInv => ToastAnswer
<1> SUFFICES ASSUME DumpInv, main = "toast", pc = "ended" PROVE ToastAnswer
  BY DEF ToastAnswer
<1>1. IInv /\ Delivered /\ rel = Column.rel
  BY DEF DumpInv, InToast
<1>2. Complete(rel) => result = 0
  BY <1>1 DEF IInv, Advancing, Complete
<1>3. ASSUME rel # NoFile, Sound(rel), result = 0 PROVE value = WholeValue
  <2>1. value = [k \in 1..want |-> k - 1] /\ want <= NumChunks /\ want >= NumChunks /\ want \in Nat
    BY <1>1, <1>3 DEF IInv, TypeOK, RestoredInOrder, Delivered
  <2>2. want = NumChunks
    BY <2>1, NumChunksBounds
  <2> QED BY <2>1, <2>2 DEF WholeValue
<1> QED BY <1>1, <1>2, <1>3 DEF ToastAnswer

(* The answer of every nested dump is the right one, whatever the outer    *)
(* dump has done before and whatever other nested dumps there were.        *)
THEOREM AnswerWithinDump == DumpSpec => []ToastAnswer
<1>1. DumpInv => ToastAnswer
  BY AnswerIsTrue
<1>2. DumpInv /\ [DumpNext]_dumpVars => DumpInv'
  BY DumpInvNext
<1> QED BY <1>1, <1>2, DumpInvInit, PTL DEF DumpSpec

(* A column whose value is stored as it is, and whole, gets that value.    *)
ColumnRestored ==
  ToastReturns /\ Complete(Column.rel) /\ Column.stored = "plain" =>
    copy' = Append(copy, WholeValue) /\ main' = "decode" /\ rows' = rows

(* The decoder goes on with the value appended, and writes no error line.  *)
THEOREM ColumnsRestored == DumpSpec => [][ColumnRestored]_dumpVars
<1>1. ToastAnswer => ColumnRestored
  BY DEF ToastAnswer, ColumnRestored, Complete, ToastReturns, AppendColumn
<1>2. DumpSpec => []ToastAnswer
  BY AnswerWithinDump
<1> QED BY <1>1, <1>2, PTL DEF DumpSpec

-------------------------------------------------------------------------------
(* Items beyond a block.                                                   *)

(* One of the first n tuples of the block had a column to be restored.     *)
Restored(n) ==
  /\ options.decode /\ options.toast
  /\ \E i \in 1..n : \E k \in DOMAIN Items[i].cols : Items[i].cols[k].kind = "toast"

(* bytesToFormat is what the block had when it was read, unless a nested   *)
(* dump has come in between.                                               *)
CountKept ==
  /\ main = "items" => bytesToFormat = HeapBlock.bytes \/ Restored(x - 1)
  /\ main \in {"decode", "toast"} =>
       options.decode /\ (bytesToFormat = HeapBlock.bytes \/ Restored(x))
  /\ main = "toast" => Restored(x)

BeyondInv == CountKept /\ BeyondIsTrue

LEMMA FixedInputs == [DumpNext]_dumpVars => heap' = heap /\ options' = options
BY DEF DumpNext, DumpStep, PrintRelMappings, Start, StartFails, DumpEof, DumpBlock, RejectItem,
       SkipItem, DecodeTuple, DecodeColumn, GiveUpTuple, CopyFlush, CallToast, NestedStep,
       ToastReturns, EndItems, NextBlock, Return, DumpEnded, dumpVars, outer

(* Further tuples do not change what the first ones had.                   *)
LEMMA RestoredGrows ==
  ASSUME NEW n \in Nat, NEW m \in Nat, n <= m, Restored(n)
  PROVE  Restored(m)
<1>1. 1..n \subseteq 1..m
  OBVIOUS
<1> QED BY <1>1 DEF Restored

LEMMA BeyondInvNext == BlockInv /\ DumpInv /\ BeyondInv /\ [DumpNext]_dumpVars => BeyondInv'
<1> SUFFICES ASSUME BlockInv, DumpInv, BeyondInv, [DumpNext]_dumpVars PROVE BeyondInv'
  OBVIOUS
<1>0. heap' = heap /\ options' = options
  BY FixedInputs
<1>1. ASSUME beyond' = beyond PROVE BeyondIsTrue'
  BY <1>0, <1>1 DEF BeyondInv, BeyondIsTrue, FitsIn, Fits, Listed
<1>2. ASSUME beyond' = beyond, main' \notin {"items", "decode", "toast"} PROVE BeyondInv'
  BY <1>1, <1>2 DEF BeyondInv, CountKept
<1>3. x \in Nat \ {0} /\ pos \in Nat /\ attr \in Nat
  BY DEF DumpInv, Places
<1>4. ASSUME UNCHANGED <<pos, bytesToFormat>>
      PROVE  /\ HeapBlock' = HeapBlock /\ Items' = Items /\ bytesToFormat' = bytesToFormat
             /\ \A n \in Nat : Restored(n)' = Restored(n)
  BY <1>0, <1>4 DEF HeapBlock, Items, Listed, Restored
<1>5. CASE PrintRelMappings \/ Start \/ StartFails \/ DumpEof \/ EndItems \/ NextBlock
           \/ Return
  BY <1>2, <1>5 DEF PrintRelMappings, Start, StartFails, DumpEof, EndItems, NextBlock,
                    Return
<1>6. CASE DumpBlock
  <2>1. /\ main' \in {"items", "next"} /\ beyond' = beyond
        /\ bytesToFormat' = heap[pos + 1].bytes /\ pos' = pos + 1
    BY <1>6 DEF DumpBlock
  <2>2. HeapBlock' = heap[pos + 1]
    BY <1>0, <2>1 DEF HeapBlock
  <2>3. CountKept'
    BY <2>1, <2>2 DEF CountKept
  <2> QED BY <1>1, <2>1, <2>3 DEF BeyondInv
<1>7. CASE SkipItem
  <2>1. /\ main = "items" /\ main' = "items" /\ x' = x + 1
        /\ UNCHANGED <<pos, beyond, bytesToFormat>>
    BY <1>7 DEF SkipItem, AtLinePointer, globals
  <2>2. bytesToFormat = HeapBlock.bytes \/ Restored(x)
    BY <1>3, <2>1, RestoredGrows DEF BeyondInv, CountKept
  <2>3. CountKept'
    <3>1. Restored(x - 1)' = Restored(x)
      BY <1>3, <1>4, <2>1 DEF Restored
    <3> QED BY <1>4, <2>1, <2>2, <3>1 DEF CountKept
  <2> QED BY <1>1, <2>1, <2>3 DEF BeyondInv
<1>8. CASE RejectItem
  <2>1. /\ main = "items" /\ main' = "items" /\ x' = x + 1
        /\ UNCHANGED <<pos, bytesToFormat>> /\ beyond' = beyond \cup {<<currentBlock, x>>}
        /\ ~Fits(LinePointer, bytesToFormat)
    BY <1>8 DEF RejectItem, AtLinePointer
  <2>2. bytesToFormat = HeapBlock.bytes \/ Restored(x - 1)
    BY <2>1 DEF BeyondInv, CountKept
  <2>3. bytesToFormat = HeapBlock.bytes \/ Restored(x)
    BY <1>3, <2>2, RestoredGrows
  <2>4. CountKept'
    <3>1. Restored(x - 1)' = Restored(x)
      BY <1>3, <1>4, <2>1 DEF Restored
    <3> QED BY <1>4, <2>1, <2>3, <3>1 DEF CountKept
  <2>5. heap[currentBlock + 1] = HeapBlock /\ Listed(heap[currentBlock + 1]) = Items
    <3>1. currentBlock = pos - 1
      BY <2>1 DEF BlockInv, Within
    <3>2. currentBlock + 1 = pos
      BY <1>3, <3>1
    <3> QED BY <3>2 DEF HeapBlock, Items
  <2>6. BeyondIsTrue'
    <3> SUFFICES ASSUME NEW e \in beyond'
                 PROVE  LET its == Listed(heap[e[1] + 1])
                        IN  \/ ~FitsIn(its[e[2]], e[1])
                            \/ /\ options.decode /\ options.toast
                               /\ \E i \in 1..(e[2] - 1) : \E k \in DOMAIN its[i].cols :
                                    its[i].cols[k].kind = "toast"
      BY <1>0 DEF BeyondIsTrue, FitsIn, Fits, Listed
    <3>1. CASE e \in beyond
      BY <3>1 DEF BeyondInv, BeyondIsTrue
    <3>2. CASE e = <<currentBlock, x>>
      <4>1. e[1] = currentBlock /\ e[2] = x
        BY <3>2
      <4>2. bytesToFormat = HeapBlock.bytes => ~FitsIn(Items[x], currentBlock)
        BY <2>1, <2>5 DEF FitsIn, LinePointer
      <4> QED BY <2>2, <2>5, <4>1, <4>2 DEF Restored
    <3> QED BY <2>1, <3>1, <3>2
  <2> QED BY <2>4, <2>6 DEF BeyondInv
<1>9. CASE DecodeTuple
  <2>1. /\ main = "items" /\ main' = "decode" /\ x' = x /\ options.decode
        /\ UNCHANGED <<pos, beyond, bytesToFormat>>
    BY <1>9 DEF DecodeTuple, AtLinePointer, Decoded, globals
  <2>2. bytesToFormat = HeapBlock.bytes \/ Restored(x)
    BY <1>3, <2>1, RestoredGrows DEF BeyondInv, CountKept
  <2>3. CountKept'
    BY <1>0, <1>3, <1>4, <2>1, <2>2 DEF CountKept, Restored
  <2> QED BY <1>1, <2>1, <2>3 DEF BeyondInv
<1>10. CASE DecodeColumn
  <2>1. /\ main = "decode" /\ main' = "decode" /\ x' = x
        /\ UNCHANGED <<pos, beyond, bytesToFormat>>
    BY <1>10 DEF DecodeColumn, HasColumn, globals
  <2>2. CountKept'
    BY <1>0, <1>3, <1>4, <2>1 DEF BeyondInv, CountKept, Restored
  <2> QED BY <1>1, <2>1, <2>2 DEF BeyondInv
<1>11. CASE GiveUpTuple \/ CopyFlush
  <2>1. /\ main = "decode" /\ main' = "items" /\ x' = x + 1
        /\ UNCHANGED <<pos, beyond, bytesToFormat>>
    BY <1>11 DEF GiveUpTuple, CopyFlush, HasColumn, PutRow, globals
  <2>2. CountKept'
    <3>1. Restored(x - 1)' = Restored(x)
      BY <1>3, <1>4, <2>1 DEF Restored
    <3> QED BY <1>4, <2>1, <3>1 DEF BeyondInv, CountKept
  <2> QED BY <1>1, <2>1, <2>2 DEF BeyondInv
<1>12. CASE CallToast
  <2>1. /\ main = "decode" /\ main' = "toast" /\ x' = x /\ options.toast
        /\ attr <= Len(LinePointer.cols) /\ Column.kind = "toast"
        /\ UNCHANGED <<pos, beyond, bytesToFormat>>
    BY <1>12 DEF CallToast, HasColumn, globals
  <2>2. attr \in DOMAIN Items[x].cols
    <3>1. LinePointer \in TupleRecord
      BY <2>1, AtTuple DEF DumpInv
    <3>2. DOMAIN LinePointer.cols = 1..Len(LinePointer.cols) /\ Len(LinePointer.cols) \in Nat
      BY <3>1, TupleTypes
    <3>3. attr \in Nat \ {0}
      BY DEF DumpInv, Places
    <3>4. attr \in DOMAIN LinePointer.cols
      BY <2>1, <3>2, <3>3
    <3> QED BY <3>4 DEF LinePointer
  <2>3. Restored(x)
    <3>1. x \in 1..x
      BY <1>3
    <3>2. Items[x].cols[attr].kind = "toast"
      BY <2>1 DEF Column, LinePointer
    <3> QED BY <2>1, <2>2, <3>1, <3>2 DEF Restored, BeyondInv, CountKept
  <2>4. CountKept'
    BY <1>0, <1>3, <1>4, <2>1, <2>3 DEF BeyondInv, CountKept, Restored
  <2> QED BY <1>1, <2>1, <2>4 DEF BeyondInv
<1>13. CASE NestedStep
  <2>1. /\ main = "toast" /\ main' = "toast" /\ x' = x /\ UNCHANGED <<pos, beyond>>
    BY <1>13 DEF NestedStep
  <2>2. Restored(x)' = Restored(x)
    BY <1>0, <2>1 DEF Restored, Items, HeapBlock, Listed
  <2>3. CountKept'
    BY <1>0, <2>1, <2>2 DEF BeyondInv, CountKept
  <2> QED BY <1>1, <2>1, <2>3 DEF BeyondInv
<1>14. CASE ToastReturns
  <2>1. /\ main = "toast" /\ UNCHANGED <<pos, beyond, bytesToFormat>>
        /\ \/ main' = "decode" /\ x' = x
           \/ main' = "items" /\ x' = x + 1
    BY <1>14 DEF ToastReturns, AppendColumn, PutRow, globals
  <2>2. Restored(x) /\ options.decode
    BY <2>1 DEF BeyondInv, CountKept
  <2>3. CASE main' = "decode" /\ x' = x
    <3>1. Restored(x)' = Restored(x)
      BY <1>3, <1>4, <2>1, <2>3 DEF Restored
    <3> QED BY <1>0, <1>1, <2>1, <2>2, <2>3, <3>1 DEF BeyondInv, CountKept
  <2>4. CASE main' = "items" /\ x' = x + 1
    <3>1. Restored(x - 1)' = Restored(x)
      BY <1>3, <1>4, <2>1, <2>4 DEF Restored
    <3> QED BY <1>1, <2>1, <2>2, <2>4, <3>1 DEF BeyondInv, CountKept
  <2> QED BY <2>1, <2>3, <2>4
<1>15. CASE UNCHANGED dumpVars
  <2>1. UNCHANGED <<main, pos, x, beyond, bytesToFormat>>
    BY <1>15 DEF dumpVars, outer, globals
  <2>2. CountKept'
    BY <1>0, <1>3, <1>4, <2>1 DEF BeyondInv, CountKept, Restored
  <2> QED BY <1>1, <2>1, <2>2 DEF BeyondInv
<1> QED BY <1>5, <1>6, <1>7, <1>8, <1>9, <1>10, <1>11, <1>12, <1>13, <1>14, <1>15
        DEF DumpNext, DumpStep, DumpEnded

(* An item that is said to extend beyond its block does, or stands behind  *)
(* a tuple with a column restored from TOAST.                              *)
THEOREM BeyondIsSaidRightly ==
  ASSUME StartsBelowWrap
  PROVE  DumpSpec => []BeyondIsTrue
<1>1. DumpInit => BeyondInv
  BY DEF DumpInit, BeyondInv, CountKept, BeyondIsTrue
<1>2. BeyondInv => BeyondIsTrue
  BY DEF BeyondInv
<1>3. BlockInv /\ [DumpNext]_dumpVars => BlockInv'
  BY BlockInvNext
<1>4. DumpInv /\ [DumpNext]_dumpVars => DumpInv'
  BY DumpInvNext
<1>5. DumpInit => DumpInv
  BY DumpInvInit
<1> QED BY <1>1, <1>2, <1>3, <1>4, <1>5, BlockInvInit, BeyondInvNext, PTL DEF DumpSpec

-------------------------------------------------------------------------------
(* The lines that come out.                                                *)

(* Which tuples are to be decoded, said without the set of them.           *)
AskedFor(b, i) ==
  /\ options.mode = "format" /\ b \in FirstBlock..LastBlock
  /\ i \in DOMAIN Listed(heap[b + 1])
  /\ FitsIn(Listed(heap[b + 1])[i], b) /\ Decoded(Listed(heap[b + 1])[i])

LEMMA AskedIs ==
  /\ \A b, i : <<b, i>> \in Asked <=> AskedFor(b, i)
  /\ \A t \in Asked : t = <<t[1], t[2]>> /\ AskedFor(t[1], t[2])
<1> DEFINE In(b) == {i \in DOMAIN Listed(heap[b + 1]) :
                       /\ FitsIn(Listed(heap[b + 1])[i], b)
                       /\ Decoded(Listed(heap[b + 1])[i])}
           Places_(b) == {<<b, i>> : i \in In(b)}
           All == UNION {Places_(b) : b \in FirstBlock..LastBlock}
<1>1. Asked = IF options.mode # "format" THEN {} ELSE All
  BY DEF Asked
<1>2. \A t : t \in All <=> \E b \in FirstBlock..LastBlock : t \in Places_(b)
  <2> HIDE DEF Places_
  <2> QED OBVIOUS
<1>3. \A b, t : t \in Places_(b) <=> \E i \in In(b) : t = <<b, i>>
  <2> HIDE DEF In
  <2> QED OBVIOUS
<1>4. \A b, i : i \in In(b) /\ options.mode = "format" /\ b \in FirstBlock..LastBlock
                  <=> AskedFor(b, i)
  BY DEF AskedFor
<1> HIDE DEF In, Places_, All
<1>5. \A t : t \in Asked <=> \E b, i : AskedFor(b, i) /\ t = <<b, i>>
  BY <1>1, <1>2, <1>3, <1>4
<1> QED BY <1>5

LEMMA FixedAnswers ==
  ASSUME heap' = heap, options' = options
  PROVE  /\ \A b, i : AskedFor(b, i)' <=> AskedFor(b, i)
         /\ ToastIsWhole' <=> ToastIsWhole
         /\ \A t : ExpectedRow(t)' = ExpectedRow(t)
<1>1. \A b, i : AskedFor(b, i)' <=> AskedFor(b, i)
  BY DEF AskedFor, FirstBlock, LastBlock, FitsIn, Decoded, Listed, Fits, Old
<1>2. ToastIsWhole' <=> ToastIsWhole
  BY DEF ToastIsWhole
<1>3. \A c : Shown(c)' = Shown(c) /\ (Refused(c)' <=> Refused(c))
  BY DEF Shown, Refused, WholeValue, NumChunks
<1>4. \A t : ExpectedRow(t)' = ExpectedRow(t)
  BY <1>3 DEF ExpectedRow, Listed, Shown, Refused, WholeValue, NumChunks
<1> QED BY <1>1, <1>2, <1>4

(* The first n columns of a tuple as they are shown.                       *)
ShownUpTo(it, n) == [k \in 1..n |-> Shown(it.cols[k])]

LEMMA ExpectedIs ==
  ASSUME NEW b, NEW i, NEW it \in TupleRecord,
         it = Listed(heap[b + 1])[i],
         NEW n \in 0..Len(it.cols), \A k \in 1..n : ~Refused(it.cols[k])
  PROVE  /\ n = Len(it.cols) /\ n = Columns /\ ~it.rest =>
              ExpectedRow(<<b, i>>) = <<"copy", b, i, ShownUpTo(it, n)>>
         /\ n = Len(it.cols) /\ (n # Columns \/ it.rest) =>
              ExpectedRow(<<b, i>>) = <<"error", b, i, ShownUpTo(it, n)>>
         /\ n < Len(it.cols) /\ Refused(it.cols[n + 1]) =>
              ExpectedRow(<<b, i>>) = <<"error", b, i, ShownUpTo(it, n)>>
<1> DEFINE bad == {k \in DOMAIN it.cols : Refused(it.cols[k])}
           shown == [k \in DOMAIN it.cols |-> Shown(it.cols[k])]
<1>1. ExpectedRow(<<b, i>>) =
        IF bad = {} /\ Len(it.cols) = Columns /\ ~it.rest
        THEN <<"copy", b, i, shown>>
        ELSE <<"error", b, i, IF bad = {} THEN shown ELSE SubSeq(shown, 1, Min(bad) - 1)>>
  BY DEF ExpectedRow
<1>2. DOMAIN it.cols = 1..Len(it.cols) /\ Len(it.cols) \in Nat
  BY TupleTypes
<1>3. CASE n = Len(it.cols)
  <2>1. bad = {} /\ shown = ShownUpTo(it, n)
    BY <1>2, <1>3 DEF ShownUpTo
  <2> HIDE DEF bad, shown
  <2> QED BY <1>1, <1>3, <2>1
<1>4. CASE n < Len(it.cols) /\ Refused(it.cols[n + 1])
  <2>1. n + 1 \in bad /\ \A k \in bad : n + 1 <= k
    BY <1>2, <1>4
  <2>2. bad \subseteq Nat
    BY <1>2
  <2> HIDE DEF bad
  <2>3. Min(bad) = n + 1
    <3>1. Min(bad) \in bad /\ \A y \in bad : Min(bad) <= y
      BY <2>1 DEF Min
    <3>2. n \in Nat
      BY <1>2
    <3>3. \A m \in bad : (\A y \in bad : m <= y) => m = n + 1
      BY <2>1, <2>2, <3>2
    <3> QED BY <3>1, <3>3
  <2>4. SubSeq(shown, 1, n) = ShownUpTo(it, n)
    <3>1. n \in Nat /\ \A k \in 1..n : k \in DOMAIN it.cols
      BY <1>2, <1>4
    <3>2. \A k \in 1..n : shown[k] = Shown(it.cols[k])
      BY <3>1
    <3> HIDE DEF shown
    <3>3. SubSeq(shown, 1, n) = [k \in 1..n |-> shown[k]]
      BY <3>1
    <3> QED BY <3>2, <3>3 DEF ShownUpTo
  <2> HIDE DEF shown
  <2>5. Min(bad) - 1 = n /\ bad # {} /\ n # Len(it.cols)
    BY <1>2, <1>4, <2>1, <2>3
  <2> QED BY <1>1, <1>4, <2>4, <2>5
<1> QED BY <1>3, <1>4

(* The tuples the loops have got past.                                     *)
Done(t) ==
  \/ main = "fread" /\ t[1] < currentBlock
  \/ main \in {"items", "decode", "toast"}
     /\ (t[1] < currentBlock \/ (t[1] = currentBlock /\ t[2] < x))
  \/ main = "next" /\ t[1] <= currentBlock
  \/ main \in {"return", "exit"}

(* Each of them that is to be decoded has its line, each line is right,    *)
(* and they are in order.                                                  *)
RowsRight ==
  \A i \in 1..Len(rows) :
    /\ Place(rows[i]) \in Asked /\ Done(Place(rows[i]))
    /\ rows[i] = ExpectedRow(Place(rows[i]))
RowsOrdered ==
  \A i, j \in 1..Len(rows) : i < j => Before(Place(rows[i]), Place(rows[j]))
RowsThere ==
  \A t \in Asked : Done(t) => \E i \in 1..Len(rows) : Place(rows[i]) = t
RowsDone == RowsRight /\ RowsOrdered /\ RowsThere

(* The line in the making is that of the columns passed.                   *)
LineSoFar ==
  main \in {"decode", "toast"} =>
    /\ <<currentBlock, x>> \in Asked
    /\ attr - 1 <= Len(LinePointer.cols)
    /\ copy = ShownUpTo(LinePointer, attr - 1)
    /\ \A k \in 1..(attr - 1) : ~Refused(LinePointer.cols[k])

(* A nested dump leaves bytesToFormat at the size of a block, which is the *)
(* size of the block it interrupts.                                        *)
InSize ==
  /\ main \in {"items", "decode"} => bytesToFormat = HeapBlock.bytes
  /\ main = "toast" => options.toast

RowsInv == ToastIsWhole => LineSoFar /\ InSize /\ RowsDone

(* The item the loop is at is asked for if it is to be decoded.            *)
LEMMA AtAsked ==
  ASSUME BlockInv, DumpInv, main \in {"items", "decode", "toast"}
  PROVE  /\ currentBlock \in FirstBlock..LastBlock /\ currentBlock \in Nat
         /\ currentBlock + 1 = pos /\ pos \in 1..Len(heap)
         /\ heap[currentBlock + 1] = HeapBlock /\ Listed(heap[currentBlock + 1]) = Items
         /\ x <= Len(Items) =>
              (<<currentBlock, x>> \in Asked
                 <=> Fits(LinePointer, HeapBlock.bytes) /\ Decoded(LinePointer))
<1>1. /\ currentBlock = pos - 1 /\ pos = FirstBlock + Len(dumped) /\ dumped # <<>>
      /\ pos <= Len(heap) /\ (Ranged => currentBlock <= options.range[2])
      /\ dumped \in Seq(Int \X Int)
  BY DEF BlockInv, Within
<1>2. /\ Len(heap) \in Nat /\ FirstBlock \in Nat /\ LastBlock \in Int
      /\ Ranged => options.range[1] = FirstBlock /\ options.range[2] \in Nat
                   /\ FirstBlock <= options.range[2]
  BY RangeTypes DEF BlockInv
<1>3. Len(dumped) \in Nat /\ Len(dumped) > 0
  BY <1>1
<1>4. currentBlock \in Nat /\ currentBlock >= FirstBlock /\ currentBlock + 1 = pos
      /\ pos \in 1..Len(heap)
  BY <1>1, <1>2, <1>3
<1>5. currentBlock <= LastBlock
  BY <1>1, <1>2, <1>4 DEF LastBlock, Ranged
<1>6. currentBlock \in FirstBlock..LastBlock
  BY <1>2, <1>4, <1>5
<1>7. heap[currentBlock + 1] = HeapBlock /\ Listed(heap[currentBlock + 1]) = Items
  BY <1>4 DEF HeapBlock, Items
<1>8. ASSUME x <= Len(Items)
      PROVE  <<currentBlock, x>> \in Asked
               <=> Fits(LinePointer, HeapBlock.bytes) /\ Decoded(LinePointer)
  <2>1. x \in DOMAIN Items
    BY <1>8, AtTuple DEF DumpInv
  <2>2. options.mode = "format"
    BY DEF DumpInv, Places
  <2>3. AskedFor(currentBlock, x) <=> Fits(LinePointer, HeapBlock.bytes) /\ Decoded(LinePointer)
    BY <1>6, <1>7, <2>1, <2>2 DEF AskedFor, FitsIn, LinePointer
  <2> QED BY <2>3, AskedIs
<1> QED BY <1>4, <1>6, <1>7, <1>8

(* Asked-for tuples are pairs of numbers of blocks and items in the file.  *)
LEMMA AskedTypes ==
  ASSUME heap \in Heaps, options \in OptionSets, NEW t \in Asked
  PROVE  /\ t = <<t[1], t[2]>> /\ t[1] \in Nat /\ t[2] \in Nat \ {0}
         /\ t[1] \in FirstBlock..LastBlock /\ t[1] + 1 \in 1..Len(heap)
         /\ t[2] \in 1..Len(Listed(heap[t[1] + 1]))
         /\ options.mode = "format"
<1>1. t = <<t[1], t[2]>> /\ AskedFor(t[1], t[2])
  BY AskedIs
<1>2. /\ Len(heap) \in Nat /\ FirstBlock \in Nat /\ LastBlock \in Int
      /\ Ranged => options.range[1] = FirstBlock /\ options.range[2] \in Nat
                   /\ FirstBlock <= options.range[2]
  BY RangeTypes
<1>3. LastBlock <= Len(heap) - 1
  BY <1>2 DEF LastBlock, Ranged
<1>4. t[1] \in FirstBlock..LastBlock /\ t[1] \in Nat /\ t[1] + 1 \in 1..Len(heap)
  BY <1>1, <1>2, <1>3 DEF AskedFor
<1>5. Listed(heap[t[1] + 1]) \in Seq(TupleRecord)
  BY <1>4, HeapTypes
<1>6. t[2] \in 1..Len(Listed(heap[t[1] + 1]))
  BY <1>1, <1>5 DEF AskedFor
<1>7. t[2] \in Nat \ {0}
  BY <1>5, <1>6
<1> QED BY <1>1, <1>4, <1>6, <1>7 DEF AskedFor

(* A line that is put out for the tuple the loop is at keeps the lines     *)
(* complete and in order.                                                  *)
LEMMA RowAdded ==
  ASSUME BlockInv, DumpInv, RowsDone, main \in {"decode", "toast"},
         heap' = heap, options' = options, currentBlock' = currentBlock,
         <<currentBlock, x>> \in Asked,
         NEW kind, NEW cols, PutRow(kind, cols),
         <<kind, currentBlock, x, cols>> = ExpectedRow(<<currentBlock, x>>)
  PROVE  RowsDone'
<1> DEFINE row == <<kind, currentBlock, x, cols>>
           here == <<currentBlock, x>>
<1>1. rows' = Append(rows, row) /\ x' = x + 1 /\ main' = "items"
  BY DEF PutRow
<1>2. Place(row) = here /\ row = ExpectedRow(here) /\ here[1] = currentBlock /\ here[2] = x
  BY DEF Place
<1>3. currentBlock \in Nat /\ x \in Nat /\ heap \in Heaps /\ options \in OptionSets
  BY DEF DumpInv, Places
<1>4. rows \in Seq({"copy", "error"} \X Nat \X Nat \X Seq(Shows))
  BY DEF DumpInv, Lines
<1>5. /\ Len(rows') = Len(rows) + 1 /\ Len(rows) \in Nat
      /\ \A i \in 1..Len(rows) : rows'[i] = rows[i]
      /\ rows'[Len(rows) + 1] = row
  <2> HIDE DEF row
  <2> QED BY <1>1, <1>4
<1>6. /\ \A t : t \in Asked' <=> t \in Asked
      /\ \A t : ExpectedRow(t)' = ExpectedRow(t)
  <2>1. \A b, i : AskedFor(b, i)' <=> AskedFor(b, i)
    BY FixedAnswers
  <2>2. (\A t \in Asked : t = <<t[1], t[2]>> /\ AskedFor(t[1], t[2]))'
    BY AskedIs, PTL
  <2>3. (\A b, i : <<b, i>> \in Asked <=> AskedFor(b, i))'
    BY AskedIs, PTL
  <2> QED BY <2>1, <2>2, <2>3, AskedIs, FixedAnswers
<1>7. \A t \in Asked : Done(t)' <=> (Done(t) \/ t = here)
  <2> SUFFICES ASSUME NEW t \in Asked PROVE Done(t)' <=> (Done(t) \/ t = here)
    OBVIOUS
  <2>1. t = <<t[1], t[2]>> /\ t[1] \in Nat /\ t[2] \in Nat
    BY <1>3, AskedTypes
  <2>2. Done(t)' <=> (t[1] < currentBlock \/ (t[1] = currentBlock /\ t[2] < x + 1))
    BY <1>1 DEF Done
  <2>3. Done(t) <=> (t[1] < currentBlock \/ (t[1] = currentBlock /\ t[2] < x))
    BY DEF Done
  <2>4. t = here <=> t[1] = currentBlock /\ t[2] = x
    BY <2>1
  <2> QED BY <1>3, <2>1, <2>2, <2>3, <2>4
<1>8. \A i \in 1..Len(rows) : Before(Place(rows[i]), here)
  <2> SUFFICES ASSUME NEW i \in 1..Len(rows) PROVE Before(Place(rows[i]), here)
    OBVIOUS
  <2>1. Done(Place(rows[i]))
    BY DEF RowsDone, RowsRight
  <2> QED BY <1>2, <2>1 DEF Done, Before
<1> HIDE DEF row, here
<1>9. RowsRight'
  <2> SUFFICES ASSUME NEW i \in 1..(Len(rows) + 1)
               PROVE  \E t \in Asked : /\ Place(rows'[i]) = t /\ Done(t)'
                                         /\ rows'[i] = ExpectedRow(t)
    BY <1>5, <1>6 DEF RowsRight, Place, Done
  <2>1. CASE i \in 1..Len(rows)
    BY <1>5, <1>7, <2>1 DEF RowsDone, RowsRight
  <2>2. CASE i = Len(rows) + 1
    BY <1>2, <1>5, <1>7, <2>2 DEF here
  <2> QED BY <1>5, <2>1, <2>2
<1>10. RowsOrdered'
  <2> SUFFICES ASSUME NEW i \in 1..(Len(rows) + 1), NEW j \in 1..(Len(rows) + 1), i < j
               PROVE  Before(Place(rows'[i]), Place(rows'[j]))
    BY <1>5 DEF RowsOrdered, Place, Before
  <2>1. i \in 1..Len(rows)
    BY <1>5
  <2>2. CASE j \in 1..Len(rows)
    BY <1>5, <2>1, <2>2 DEF RowsDone, RowsOrdered
  <2>3. CASE j = Len(rows) + 1
    BY <1>2, <1>5, <1>8, <2>1, <2>3
  <2> QED BY <1>5, <2>2, <2>3
<1>11. RowsThere'
  <2> SUFFICES ASSUME NEW t \in Asked, Done(t)'
               PROVE  \E i \in 1..(Len(rows) + 1) : Place(rows'[i]) = t
    BY <1>5, <1>6 DEF RowsThere, Place
  <2>1. CASE Done(t)
    BY <1>5, <2>1 DEF RowsDone, RowsThere
  <2>2. CASE t = here
    BY <1>2, <1>5, <2>2
  <2> QED BY <1>7, <2>1, <2>2
<1> QED BY <1>9, <1>10, <1>11 DEF RowsDone

(* Steps that put out nothing, and pass no tuple that is asked for.        *)
LEMMA NothingPassed ==
  ASSUME BlockInv, DumpInv, RowsDone, heap' = heap, options' = options,
         rows' = rows, \A t \in Asked : Done(t)' <=> Done(t)
  PROVE  RowsDone'
<1>1. /\ \A t : t \in Asked' <=> t \in Asked
      /\ \A t : ExpectedRow(t)' = ExpectedRow(t)
  <2>1. \A b, i : AskedFor(b, i)' <=> AskedFor(b, i)
    BY FixedAnswers
  <2>2. (\A t \in Asked : t = <<t[1], t[2]>> /\ AskedFor(t[1], t[2]))'
    BY AskedIs, PTL
  <2>3. (\A b, i : <<b, i>> \in Asked <=> AskedFor(b, i))'
    BY AskedIs, PTL
  <2> QED BY <2>1, <2>2, <2>3, AskedIs, FixedAnswers
<1>2. RowsRight'
  <2> SUFFICES ASSUME NEW i \in 1..Len(rows)
               PROVE  \E t \in Asked : /\ Place(rows[i]) = t /\ Done(t)'
                                         /\ rows[i] = ExpectedRow(t)
    BY <1>1 DEF RowsRight, Place, Done
  <2> QED BY DEF RowsDone, RowsRight
<1>3. RowsOrdered'
  BY DEF RowsDone, RowsOrdered, Place, Before
<1>4. RowsThere'
  <2> SUFFICES ASSUME NEW t \in Asked, Done(t)' PROVE \E i \in 1..Len(rows) : Place(rows[i]) = t
    BY <1>1 DEF RowsThere, Place
  <2> QED BY DEF RowsDone, RowsThere
<1> QED BY <1>2, <1>3, <1>4 DEF RowsDone

LEMMA RowsInvNext == BlockInv /\ BlockInv' /\ DumpInv /\ RowsInv /\ [DumpNext]_dumpVars => RowsInv'
<1> SUFFICES ASSUME BlockInv, BlockInv', DumpInv, RowsInv, [DumpNext]_dumpVars, ToastIsWhole'
             PROVE  LineSoFar' /\ InSize' /\ RowsDone'
  BY DEF RowsInv
<1>1. heap' = heap /\ options' = options
  BY FixedInputs
<1>2. ToastIsWhole
  BY <1>1, FixedAnswers
<1>3. LineSoFar /\ InSize /\ RowsDone
  BY <1>2 DEF RowsInv
<1>4. /\ currentBlock \in Nat /\ x \in Nat \ {0} /\ attr \in 1..(Columns + 1) /\ Columns \in Nat
      /\ pos \in Nat /\ heap \in Heaps /\ options \in OptionSets
      /\ main \in {"items", "decode", "toast"} => options.mode = "format"
  BY HeapsAssumption DEF DumpInv, Places
<1>5. \A t \in Asked :
        /\ t[1] \in Nat /\ t[2] \in Nat \ {0} /\ t = <<t[1], t[2]>>
        /\ t[1] \in FirstBlock..LastBlock /\ t[1] + 1 \in 1..Len(heap)
        /\ t[2] \in 1..Len(Listed(heap[t[1] + 1]))
        /\ options.mode = "format"
  BY <1>4, AskedTypes
<1>6. /\ Len(heap) \in Nat /\ FirstBlock \in Nat /\ LastBlock \in Int
      /\ Ranged => options.range[1] = FirstBlock /\ options.range[2] \in Nat
                   /\ FirstBlock <= options.range[2]
  BY <1>4, RangeTypes
<1>7. LastBlock <= Len(heap) - 1 /\ (Ranged => LastBlock <= options.range[2])
  BY <1>6 DEF LastBlock, Ranged
<1>8. ASSUME UNCHANGED <<pos, bytesToFormat>>
      PROVE  /\ HeapBlock' = HeapBlock /\ Items' = Items
  BY <1>1, <1>8 DEF HeapBlock, Items, Listed
<1>9. \A b, i : <<b, i>> \in Asked' <=> <<b, i>> \in Asked
  <2>1. (\A b, i : <<b, i>> \in Asked <=> AskedFor(b, i))'
    BY AskedIs, PTL
  <2> QED BY <1>1, <2>1, AskedIs, FixedAnswers
<1>10. CASE PrintRelMappings
  <2>1. main = "start" /\ options.mode = "relmap" /\ main' = "exit" /\ rows' = rows
    BY <1>10 DEF PrintRelMappings
  <2>2. RowsDone'
    BY <1>1, <1>3, <1>5, <2>1, NothingPassed
  <2> QED BY <2>1, <2>2 DEF LineSoFar, InSize
<1>11. CASE StartFails
  <2>1. main = "start" /\ main' = "failed" /\ rows' = rows
    BY <1>11 DEF StartFails
  <2>2. \A t \in Asked : Done(t)' <=> Done(t)
    BY <2>1 DEF Done
  <2>3. RowsDone'
    BY <1>1, <1>3, <2>1, <2>2, NothingPassed
  <2> QED BY <2>1, <2>3 DEF LineSoFar, InSize
<1>12. CASE Start
  <2>1. main = "start" /\ main' = "fread" /\ rows' = rows /\ currentBlock' = FirstBlock
    BY <1>12 DEF Start, FirstBlock
  <2>2. \A t \in Asked : Done(t)' <=> Done(t)
    BY <1>5, <1>6, <2>1 DEF Done
  <2>3. RowsDone'
    BY <1>1, <1>3, <2>1, <2>2, NothingPassed
  <2> QED BY <2>1, <2>3 DEF LineSoFar, InSize
<1>13. CASE DumpEof
  <2>1. main = "fread" /\ main' = "return" /\ rows' = rows /\ pos >= Len(heap)
    BY <1>13 DEF DumpEof
  <2>2. pos = currentBlock
    BY <2>1 DEF BlockInv, Between
  <2>3. \A t \in Asked : Done(t)' <=> Done(t)
    BY <1>4, <1>5, <1>6, <2>1, <2>2 DEF Done
  <2>4. RowsDone'
    BY <1>1, <1>3, <2>1, <2>3, NothingPassed
  <2> QED BY <2>1, <2>4 DEF LineSoFar, InSize
<1>14. CASE DumpBlock
  <2>1. /\ main = "fread" /\ rows' = rows /\ currentBlock' = currentBlock /\ x' = 1
        /\ main' = IF options.mode = "format" THEN "items" ELSE "next"
        /\ bytesToFormat' = heap[pos + 1].bytes /\ pos' = pos + 1
    BY <1>14 DEF DumpBlock
  <2>2. \A t \in Asked : Done(t)' <=> Done(t)
    BY <1>4, <1>5, <2>1 DEF Done
  <2>3. RowsDone'
    BY <1>1, <1>3, <2>1, <2>2, NothingPassed
  <2>4. bytesToFormat' = HeapBlock'.bytes
    BY <1>1, <2>1 DEF HeapBlock
  <2> QED BY <2>1, <2>3, <2>4 DEF LineSoFar, InSize
<1>15. CASE RejectItem \/ SkipItem
  <2>1. /\ main = "items" /\ main' = "items" /\ rows' = rows /\ x' = x + 1 /\ x <= Len(Items)
        /\ UNCHANGED <<pos, currentBlock, bytesToFormat>>
        /\ ~(Fits(LinePointer, bytesToFormat) /\ Decoded(LinePointer))
    BY <1>15 DEF RejectItem, SkipItem, AtLinePointer, globals
  <2>2. <<currentBlock, x>> \notin Asked
    BY <1>3, <2>1, AtAsked DEF InSize
  <2>3. \A t \in Asked : Done(t)' <=> Done(t)
    <3> SUFFICES ASSUME NEW t \in Asked PROVE Done(t)' <=> Done(t)
      OBVIOUS
    <3>1. ~(t[1] = currentBlock /\ t[2] = x)
      BY <1>5, <2>2
    <3>2. t[1] \in Int /\ t[2] \in Int /\ currentBlock \in Int /\ x \in Int
      BY <1>4, <1>5
    <3> QED BY <2>1, <3>1, <3>2 DEF Done
  <2>4. RowsDone'
    BY <1>1, <1>3, <2>1, <2>3, NothingPassed
  <2> QED BY <1>3, <1>8, <2>1, <2>4 DEF LineSoFar, InSize
<1>16. CASE DecodeTuple
  <2>1. /\ main = "items" /\ main' = "decode" /\ rows' = rows /\ x' = x /\ x <= Len(Items)
        /\ UNCHANGED <<pos, currentBlock, bytesToFormat>> /\ copy' = <<>> /\ attr' = 1
        /\ Fits(LinePointer, bytesToFormat) /\ Decoded(LinePointer)
    BY <1>16 DEF DecodeTuple, AtLinePointer, globals
  <2>2. <<currentBlock, x>> \in Asked
    BY <1>3, <2>1, AtAsked DEF InSize
  <2>3. \A t \in Asked : Done(t)' <=> Done(t)
    BY <2>1 DEF Done
  <2>4. RowsDone'
    BY <1>1, <1>3, <2>1, <2>3, NothingPassed
  <2>5. LinePointer' = LinePointer /\ LinePointer \in TupleRecord
    BY <1>1, <2>1, SamePlace, AtTuple DEF DumpInv
  <2>6. Len(LinePointer.cols) \in Nat
    BY <2>5, TupleTypes
  <2>7. LineSoFar'
    <3>1. copy' = ShownUpTo(LinePointer, attr - 1)'
      BY <2>1 DEF ShownUpTo
    <3>2. <<currentBlock, x>>' \in Asked'
      BY <1>9, <2>1, <2>2
    <3> QED BY <2>1, <2>5, <2>6, <3>1, <3>2 DEF LineSoFar
  <2> QED BY <1>3, <1>8, <2>1, <2>4, <2>7 DEF InSize
<1>17. ASSUME main \in {"decode", "toast"}
       PROVE  /\ <<currentBlock, x>> \in Asked /\ attr - 1 <= Len(LinePointer.cols)
              /\ copy = ShownUpTo(LinePointer, attr - 1)
              /\ \A k \in 1..(attr - 1) : ~Refused(LinePointer.cols[k])
              /\ LinePointer \in TupleRecord
              /\ Len(LinePointer.cols) \in Nat /\ Len(LinePointer.cols) <= Columns
              /\ LinePointer = Listed(heap[currentBlock + 1])[x]
  <2>1. LinePointer \in TupleRecord
    BY <1>17, AtTuple DEF DumpInv
  <2>2. LinePointer = Listed(heap[currentBlock + 1])[x]
    BY <1>17, AtAsked DEF LinePointer
  <2> QED BY <1>3, <1>17, <2>1, <2>2, TupleTypes DEF LineSoFar
(* A column that is shown as it should be lengthens the line.              *)
<1>18. ASSUME main \in {"decode", "toast"}, main' = "decode", UNCHANGED <<pos, currentBlock, x>>,
              attr <= Len(LinePointer.cols), ~Refused(Column), AppendColumn(Shown(Column))
       PROVE  LineSoFar'
  <2>1. copy' = Append(copy, Shown(Column)) /\ attr' = attr + 1
    BY <1>18 DEF AppendColumn
  <2>2. LinePointer' = LinePointer
    BY <1>1, <1>18, SamePlace
  <2>3. copy' = ShownUpTo(LinePointer, attr)
    <3> DEFINE shown(k) == Shown(LinePointer.cols[k])
    <3>1. copy = [k \in 1..(attr - 1) |-> shown(k)] /\ Shown(Column) = shown(attr)
      BY <1>17, <1>18 DEF ShownUpTo, Column
    <3> HIDE DEF shown
    <3>2. Append([k \in 1..(attr - 1) |-> shown(k)], shown(attr)) = [k \in 1..attr |-> shown(k)]
      BY <1>4
    <3>3. copy' = [k \in 1..attr |-> shown(k)]
      BY <2>1, <3>1, <3>2
    <3> QED BY <3>3 DEF shown, ShownUpTo
  <2>4. \A k \in 1..attr : ~Refused(LinePointer.cols[k])
    BY <1>4, <1>17, <1>18 DEF Column
  <2>5. (attr - 1)' = attr
    BY <1>4, <2>1
  <2>6. ShownUpTo(LinePointer, attr - 1)' = ShownUpTo(LinePointer, attr)
    BY <1>1, <2>2, <2>5 DEF ShownUpTo, Shown, WholeValue, NumChunks
  <2>7. <<currentBlock, x>>' \in Asked'
    BY <1>9, <1>17, <1>18
  <2>8. (\A k \in 1..(attr - 1) : ~Refused(LinePointer.cols[k]))'
    BY <1>1, <2>2, <2>4, <2>5 DEF Refused
  <2> QED BY <1>18, <2>2, <2>3, <2>5, <2>6, <2>7, <2>8 DEF LineSoFar
<1>19. ASSUME main \in {"decode", "toast"}, main' \in {"decode", "toast"}, rows' = rows,
              UNCHANGED <<currentBlock, x>>
       PROVE  RowsDone'
  <2>1. \A t \in Asked : Done(t)' <=> Done(t)
    BY <1>19 DEF Done
  <2> QED BY <1>1, <1>3, <1>19, <2>1, NothingPassed
<1>20. CASE DecodeColumn
  <2>1. /\ main = "decode" /\ main' = "decode" /\ rows' = rows /\ attr <= Len(LinePointer.cols)
        /\ UNCHANGED <<pos, currentBlock, x, bytesToFormat>>
        /\ ~Refused(Column) /\ AppendColumn(Shown(Column))
    BY <1>20 DEF DecodeColumn, HasColumn, Shown, Refused, globals
  <2> QED BY <1>3, <1>8, <1>18, <1>19, <2>1 DEF InSize
<1>21. CASE GiveUpTuple \/ CopyFlush
  <2>1. /\ main = "decode" /\ main' = "items"
        /\ UNCHANGED <<pos, currentBlock, bytesToFormat>>
    BY <1>21 DEF GiveUpTuple, CopyFlush, HasColumn, PutRow, globals
  <2>2. /\ attr - 1 \in 0..Len(LinePointer.cols) /\ copy = ShownUpTo(LinePointer, attr - 1)
        /\ \A k \in 1..(attr - 1) : ~Refused(LinePointer.cols[k])
        /\ LinePointer \in TupleRecord /\ LinePointer = Listed(heap[currentBlock + 1])[x]
        /\ Len(LinePointer.cols) \in Nat /\ Len(LinePointer.cols) <= Columns
    BY <1>4, <1>17, <2>1
  <2>3. PICK kind : /\ PutRow(kind, copy)
                    /\ <<kind, currentBlock, x, copy>> = ExpectedRow(<<currentBlock, x>>)
    <3>1. CASE HasColumn /\ Column.kind = "bad" /\ PutRow("error", copy)
      <4>1. attr - 1 < Len(LinePointer.cols) /\ Refused(LinePointer.cols[(attr - 1) + 1])
        BY <1>4, <2>2, <3>1 DEF HasColumn, Column, Refused
      <4> QED BY <2>2, <3>1, <4>1, ExpectedIs
    <3>2. CASE attr <= Columns /\ attr > Len(LinePointer.cols) /\ PutRow("error", copy)
      <4>1. attr - 1 = Len(LinePointer.cols) /\ attr - 1 # Columns
        BY <1>4, <2>2, <3>2
      <4> QED BY <2>2, <3>2, <4>1, ExpectedIs
    <3>3. CASE attr > Columns /\ LinePointer.rest /\ PutRow("error", copy)
      <4>1. attr - 1 = Len(LinePointer.cols)
        BY <1>4, <2>2, <3>3
      <4> QED BY <2>2, <3>3, <4>1, ExpectedIs
    <3>4. CASE attr > Columns /\ ~LinePointer.rest /\ PutRow("copy", copy)
      <4>1. attr - 1 = Len(LinePointer.cols) /\ attr - 1 = Columns
        BY <1>4, <2>2, <3>4
      <4> QED BY <2>2, <3>4, <4>1, ExpectedIs
    <3> QED BY <1>21, <3>1, <3>2, <3>3, <3>4 DEF GiveUpTuple, CopyFlush
  <2>4. RowsDone'
    BY <1>1, <1>3, <1>17, <2>1, <2>3, RowAdded
  <2> QED BY <1>3, <1>8, <2>1, <2>4 DEF LineSoFar, InSize
<1>22. CASE CallToast
  <2>1. /\ main = "decode" /\ main' = "toast" /\ rows' = rows /\ options.toast
        /\ UNCHANGED <<pos, currentBlock, x, attr, copy, bytesToFormat>>
    BY <1>22 DEF CallToast, HasColumn, globals
  <2>2. LinePointer' = LinePointer
    BY <1>1, <2>1, SamePlace
  <2>3. ShownUpTo(LinePointer, attr - 1)' = ShownUpTo(LinePointer, attr - 1)
    BY <1>1, <2>1, <2>2 DEF ShownUpTo, Shown, WholeValue, NumChunks
  <2>4. LineSoFar'
    <3>1. (\A k \in 1..(attr - 1) : ~Refused(LinePointer.cols[k]))'
      BY <1>1, <1>17, <2>1, <2>2 DEF Refused
    <3> QED BY <1>9, <1>17, <2>1, <2>2, <2>3, <3>1 DEF LineSoFar
  <2> QED BY <1>1, <1>19, <2>1, <2>4 DEF InSize
<1>23. CASE NestedStep
  <2>1. /\ main = "toast" /\ main' = "toast" /\ rows' = rows
        /\ UNCHANGED <<pos, currentBlock, x, attr, copy>>
    BY <1>23 DEF NestedStep
  <2>2. LinePointer' = LinePointer
    BY <1>1, <2>1, SamePlace
  <2>3. ShownUpTo(LinePointer, attr - 1)' = ShownUpTo(LinePointer, attr - 1)
    BY <1>1, <2>1, <2>2 DEF ShownUpTo, Shown, WholeValue, NumChunks
  <2>4. LineSoFar'
    <3>1. (\A k \in 1..(attr - 1) : ~Refused(LinePointer.cols[k]))'
      BY <1>1, <1>17, <2>1, <2>2 DEF Refused
    <3> QED BY <1>9, <1>17, <2>1, <2>2, <2>3, <3>1 DEF LineSoFar
  <2> QED BY <1>1, <1>3, <1>19, <2>1, <2>4 DEF InSize
<1>24. CASE ToastReturns
  <2>1. /\ main = "toast" /\ pc = "ended" /\ options.toast
        /\ UNCHANGED <<pos, currentBlock, bytesToFormat>>
    BY <1>3, <1>24 DEF ToastReturns, globals, InSize
  <2>2. /\ attr \in 1..Len(LinePointer.cols) /\ Column.kind = "toast" /\ rel = Column.rel
        /\ IInv /\ Delivered /\ Filled
    BY <2>1 DEF DumpInv, InToast
  <2>3. /\ Column.stored # "packed" /\ WholeRelation(Column.rel) /\ HeapBlock.bytes = BlockSize
    <3>1. pos \in 1..Len(heap) /\ x \in 1..Len(Items) /\ Items = Listed(heap[pos])
          /\ HeapBlock = heap[pos]
      BY <2>1 DEF DumpInv, Places, Items, HeapBlock
    <3>2. Items = heap[pos].items
      BY <3>1 DEF Listed
    <3>3. x \in DOMAIN heap[pos].items
      BY <3>1, <3>2, HeapTypes, <1>4
    <3>4. attr \in DOMAIN LinePointer.cols
      BY <1>17, <2>1, <2>2, TupleTypes
    <3> QED BY <1>2, <2>1, <2>2, <3>1, <3>2, <3>3, <3>4 DEF ToastIsWhole, LinePointer, Column
  <2>4. Complete(rel) /\ rel # NoFile /\ Sound(rel)
    BY <2>2, <2>3 DEF WholeRelation, Complete
  <2>5. result = 0 /\ value = WholeValue
    BY <2>1, <2>4, AnswerIsTrue DEF ToastAnswer
  <2>6. bytesToFormat = BlockSize
    <3>1. want >= NumChunks
      BY <2>1, <2>2, <2>5 DEF Delivered
    <3> QED BY <2>2, <2>3, <2>4, <3>1 DEF Filled
  <2>7. CASE Column.stored = "odd"
    <3>1. PutRow("error", copy)
      BY <1>24, <2>3, <2>4, <2>5, <2>7 DEF ToastReturns
    <3>2. Refused(Column)
      BY <2>1, <2>2, <2>7 DEF Refused
    <3>3. <<"error", currentBlock, x, copy>> = ExpectedRow(<<currentBlock, x>>)
      <4>1. /\ attr - 1 \in 0..Len(LinePointer.cols) /\ attr - 1 < Len(LinePointer.cols)
            /\ Refused(LinePointer.cols[(attr - 1) + 1])
        BY <1>4, <1>17, <2>1, <2>2, <3>2 DEF Column
      <4> QED BY <1>17, <2>1, <4>1, ExpectedIs
    <3>4. RowsDone'
      BY <1>1, <1>3, <1>17, <2>1, <3>1, <3>3, RowAdded
    <3>5. main' = "items"
      BY <3>1 DEF PutRow
    <3> QED BY <1>8, <2>1, <2>3, <2>6, <3>4, <3>5 DEF LineSoFar, InSize
  <2>8. CASE Column.stored # "odd"
    <3>1. main' = "decode" /\ rows' = rows /\ x' = x /\ AppendColumn(value)
      BY <1>24, <2>3, <2>4, <2>5, <2>8 DEF ToastReturns
    <3>2. value = Shown(Column) /\ ~Refused(Column)
      BY <2>1, <2>2, <2>5, <2>8 DEF Shown, Refused
    <3>3. LineSoFar'
      BY <1>4, <1>17, <1>18, <2>1, <2>2, <3>1, <3>2
    <3> QED BY <1>8, <1>19, <2>1, <2>3, <2>6, <3>1, <3>3 DEF InSize
  <2> QED BY <2>7, <2>8
<1>25. CASE EndItems
  <2>1. /\ main = "items" /\ main' = "next" /\ rows' = rows /\ x > Len(Items)
        /\ UNCHANGED <<currentBlock>>
    BY <1>25 DEF EndItems
  <2>2. \A t \in Asked : Done(t)' <=> Done(t)
    <3> SUFFICES ASSUME NEW t \in Asked PROVE Done(t)' <=> Done(t)
      OBVIOUS
    <3>1. t[1] = currentBlock => t[2] \in 1..Len(Items)
      BY <1>5, <2>1, AtAsked
    <3>2. Len(Items) \in Nat
      BY <2>1, AtTuple DEF DumpInv
    <3> QED BY <1>4, <1>5, <2>1, <3>1, <3>2 DEF Done
  <2>3. RowsDone'
    BY <1>1, <1>3, <2>1, <2>2, NothingPassed
  <2> QED BY <2>1, <2>3 DEF LineSoFar, InSize
<1>26. CASE NextBlock
  <2>1. main = "next" /\ rows' = rows
    BY <1>26 DEF NextBlock
  <2>2. \A t \in Asked : Done(t)' <=> Done(t)
    <3> SUFFICES ASSUME NEW t \in Asked PROVE Done(t)' <=> Done(t)
      OBVIOUS
    <3>1. t[1] \in Int /\ t[1] <= LastBlock /\ currentBlock \in Int
      BY <1>4, <1>5
    <3>2. CASE main' = "fread" /\ currentBlock' = currentBlock + 1
      BY <2>1, <3>1, <3>2 DEF Done
    <3>3. CASE main' = "return" /\ Ranged /\ currentBlock >= options.range[2]
      <4>1. t[1] <= currentBlock
        BY <1>6, <1>7, <3>1, <3>3
      <4> QED BY <2>1, <3>3, <4>1 DEF Done
    <3> QED BY <1>26, <3>2, <3>3 DEF NextBlock, Ranged
  <2>3. RowsDone'
    BY <1>1, <1>3, <2>1, <2>2, NothingPassed
  <2>4. main' \in {"fread", "return"}
    BY <1>26 DEF NextBlock
  <2> QED BY <2>3, <2>4 DEF LineSoFar, InSize
<1>27. CASE Return
  <2>1. main = "return" /\ main' = "exit" /\ rows' = rows
    BY <1>27 DEF Return
  <2>2. \A t \in Asked : Done(t)' <=> Done(t)
    BY <2>1 DEF Done
  <2>3. RowsDone'
    BY <1>1, <1>3, <2>1, <2>2, NothingPassed
  <2> QED BY <2>1, <2>3 DEF LineSoFar, InSize
<1>28. CASE UNCHANGED dumpVars
  <2>1. UNCHANGED <<main, pos, currentBlock, x, attr, copy, rows, bytesToFormat>>
    BY <1>28 DEF dumpVars, outer, globals
  <2>2. \A t \in Asked : Done(t)' <=> Done(t)
    BY <2>1 DEF Done
  <2>3. RowsDone'
    BY <1>1, <1>3, <2>1, <2>2, NothingPassed
  <2>4. LinePointer' = LinePointer
    BY <1>1, <2>1, SamePlace
  <2>5. ShownUpTo(LinePointer, attr - 1)' = ShownUpTo(LinePointer, attr - 1)
    BY <1>1, <2>1, <2>4 DEF ShownUpTo, Shown, WholeValue, NumChunks
  <2>6. LineSoFar'
    <3>1. main \in {"decode", "toast"} =>
            (\A k \in 1..(attr - 1) : ~Refused(LinePointer.cols[k]))'
      BY <1>1, <1>3, <2>1, <2>4 DEF LineSoFar, Refused
    <3> QED BY <1>3, <1>9, <2>1, <2>4, <2>5, <3>1 DEF LineSoFar
  <2> QED BY <1>1, <1>3, <1>8, <2>1, <2>3, <2>6 DEF InSize
<1> QED BY <1>10, <1>11, <1>12, <1>13, <1>14, <1>15, <1>16, <1>20, <1>21, <1>22, <1>23, <1>24,
           <1>25, <1>26, <1>27, <1>28 DEF DumpNext, DumpStep, DumpEnded

(* Every tuple that is to be decoded comes out once, in order, with the    *)
(* line that its columns make; a tuple that fails costs no other its line, *)
(* and no nested dump disturbs the loops it interrupts.                    *)
THEOREM RowsAreFile ==
  ASSUME StartsBelowWrap
  PROVE  DumpSpec => []RowsMatchFile
<1>1. DumpInit => RowsInv
  BY DEF DumpInit, RowsInv, LineSoFar, InSize, RowsDone, RowsRight, RowsOrdered, RowsThere, Done
<1>2. DumpInv /\ DumpTypeOK /\ RowsInv => RowsMatchFile
  BY DEF RowsInv, RowsDone, RowsRight, RowsOrdered, RowsThere, Done, RowsMatchFile
<1>3. BlockInv /\ [DumpNext]_dumpVars => BlockInv'
  BY BlockInvNext
<1>4. DumpInv /\ [DumpNext]_dumpVars => DumpInv'
  BY DumpInvNext
<1>5. DumpInit => DumpInv
  BY DumpInvInit
<1>6. BlockInv /\ BlockInv' /\ DumpInv /\ RowsInv /\ [DumpNext]_dumpVars => RowsInv'
  BY RowsInvNext
<1>7. DumpSpec => []DumpTypeOK
  BY DumpTypes
<1> QED BY <1>1, <1>2, <1>3, <1>4, <1>5, <1>6, <1>7, BlockInvInit, PTL DEF DumpSpec

===============================================================================
