---------------------------- MODULE BufferingProofs ----------------------------
(* Buffering for every size of the tiers, every chunk and every byte: its    *)
(* type invariant, the invariant that the message is in one tier, and that   *)
(* it implements BoundedLog.                                                 *)
EXTENDS Buffering, TLAPS

\* A chunk is a sequence of bytes no longer than one command.
LEMMA ChunkType == \A chunk \in Chunk : chunk \in Seq(Byte) /\ Len(chunk) \in 0..MaxChunk
BY SizesAssumption DEF Chunk, BoundedSeq, SeqOf

\* Replacing the bytes of a tier changes nothing else of it.
LEMMA WithData ==
  ASSUME NEW b \in Buffer, NEW d \in Seq(Byte)
  PROVE  /\ [b EXCEPT !.data = d] \in Buffer
         /\ [b EXCEPT !.data = d].data = d
         /\ [b EXCEPT !.data = d].size = b.size
         /\ [b EXCEPT !.data = d].in_use = b.in_use
BY DEF Buffer

\* buffering_append on one tier keeps the tier well formed and inside its
\* memory, changes neither size nor flag, and reports what it did.
LEMMA PutOnTier ==
  ASSUME NEW b \in Buffer, NEW chunk \in Seq(Byte), Len(b.data) <= b.size
  PROVE  /\ Put(b, chunk) \in Buffer
         /\ Len(Put(b, chunk).data) <= Put(b, chunk).size
         /\ Put(b, chunk).size = b.size
         /\ Put(b, chunk).in_use = b.in_use
         /\ Len(b.data) + Len(chunk) <= b.size
              => Put(b, chunk).data = b.data \o chunk /\ Taken(b, chunk) = Len(chunk)
         /\ Len(b.data) + Len(chunk) > b.size
              => Put(b, chunk).data = b.data /\ Taken(b, chunk) = 0
<1> DEFINE all == b.data \o chunk
<1>1. b.data \in Seq(Byte) /\ b.size \in Nat
  BY DEF Buffer
<1>2. all \in Seq(Byte) /\ Len(all) = Len(b.data) + Len(chunk)
  BY <1>1
<1>3. Len(b.data) \in Nat /\ Len(chunk) \in Nat
  BY <1>1
<1>4. Fits(b, chunk) <=> Len(b.data) + Len(chunk) <= b.size
  BY <1>1, <1>3 DEF Fits
<1>5. CASE Fits(b, chunk)
  <2>1. Put(b, chunk) = [b EXCEPT !.data = all] /\ Taken(b, chunk) = Len(chunk)
    BY <1>5 DEF Put, Taken
  <2> HIDE DEF all
  <2>2. Put(b, chunk) \in Buffer /\ Put(b, chunk).data = all
        /\ Put(b, chunk).size = b.size /\ Put(b, chunk).in_use = b.in_use
    BY <1>2, <2>1, WithData
  <2> QED BY <1>1, <1>2, <1>3, <1>4, <1>5, <2>1, <2>2 DEF all
<1>6. CASE ~Fits(b, chunk)
  BY <1>1, <1>3, <1>4, <1>6 DEF Put, Taken
<1> QED BY <1>5, <1>6

\* buffering_reset and the hand-over to flash leave an empty tier of the same size.
LEMMA ClearedTier ==
  ASSUME NEW b \in Buffer, NEW used \in {0, 1}
  PROVE  /\ Cleared(b, used) \in Buffer
         /\ Cleared(b, used).data = <<>>
         /\ Cleared(b, used).size = b.size
         /\ Cleared(b, used).in_use = used
<1> DEFINE none == <<>>
<1>1. none \in Seq(Byte)
  OBVIOUS
<1> HIDE DEF none
<1>2. Cleared(b, used) = [b EXCEPT !.data = none, !.in_use = used]
  BY DEF Cleared, none
<1>3. Cleared(b, used) = [data |-> none, size |-> b.size, in_use |-> used]
  BY <1>2 DEF Buffer
<1>4. Cleared(b, used) \in Buffer
  BY <1>1, <1>3 DEF Buffer
<1> QED BY <1>3, <1>4 DEF none
-------------------------------------------------------------------------------

\* Inductive as it stands: the next-state relation looks at nothing else.
IInv == TypeOK /\ MessageInOneTier

\* What the invariant says of the sizes and positions, as plain arithmetic.
LEMMA SizesInOrder ==
  ASSUME IInv
  PROVE  /\ ram.size \in Nat /\ flash.size \in Nat /\ ram.size <= flash.size
         /\ ram.data \in Seq(Byte) /\ flash.data \in Seq(Byte)
         /\ Len(ram.data) \in Nat /\ Len(flash.data) \in Nat
BY SizesAssumption DEF IInv, TypeOK, Buffer

\* A spill moves the whole message to flash, and then the chunk if flash has
\* room for both.
LEMMA SpillResult ==
  ASSUME IInv, NEW chunk \in Seq(Byte), Spill(chunk)
  PROVE  /\ ram' = Cleared(ram, 0)
         /\ flash' \in Buffer
         /\ flash'.in_use = 1
         /\ flash'.size = flash.size
         /\ Len(flash'.data) <= flash'.size
         /\ Len(ram.data) + Len(chunk) <= flash.size
              => flash'.data = ram.data \o chunk /\ returned' = Len(chunk)
         /\ Len(ram.data) + Len(chunk) > flash.size
              => flash'.data = ram.data /\ returned' = 0
<1> DEFINE opened == [flash EXCEPT !.in_use = 1]
           copied == Put(opened, ram.data)
<1>1. ram.in_use = 1 /\ ram \in Buffer /\ flash \in Buffer /\ flash.data = <<>>
  BY DEF IInv, TypeOK, MessageInOneTier, Spill
<1>2. opened = [data |-> flash.data, size |-> flash.size, in_use |-> 1]
  BY <1>1 DEF Buffer
<1>3. opened \in Buffer /\ opened.data = <<>> /\ opened.size = flash.size
      /\ opened.in_use = 1
  BY <1>1, <1>2 DEF Buffer
<1>4. ram' = Cleared(ram, 0) /\ flash' = Put(copied, chunk)
      /\ returned' = Taken(copied, chunk)
  BY DEF Spill
<1>5. Len(ram.data) <= flash.size
  BY SizesInOrder DEF IInv, TypeOK
<1>6. Len(opened.data) = 0 /\ <<>> \o ram.data = ram.data
  BY <1>3, SizesInOrder
<1> HIDE DEF opened
<1>7. copied \in Buffer /\ copied.data = ram.data /\ copied.size = flash.size
      /\ copied.in_use = 1
  <2>1. Len(opened.data) <= opened.size /\ Len(opened.data) + Len(ram.data) <= opened.size
    BY <1>3, <1>5, <1>6, SizesInOrder
  <2> QED BY <1>3, <1>6, <2>1, PutOnTier, SizesInOrder
<1> HIDE DEF copied
<1> QED BY <1>4, <1>5, <1>7, PutOnTier

\* Type correctness and the one-tier invariant are kept by every step of the
\* program and by a loss of power.
LEMMA Step == IInv /\ [Next]_vars => IInv'
<1> SUFFICES ASSUME IInv, [Next]_vars PROVE IInv'
  OBVIOUS
<1> USE DEF IInv
<1>0. ram \in Buffer /\ flash \in Buffer /\ returned \in 0..MaxChunk
  BY DEF TypeOK
<1>1. CASE Initialize
  <2> DEFINE r == [data |-> <<>>, size |-> RamSize, in_use |-> 1]
             f == [data |-> <<>>, size |-> FlashSize, in_use |-> 0]
  <2>1. ram' = r /\ flash' = f /\ returned' = returned
    BY <1>1 DEF Initialize
  <2>2. r \in Buffer /\ f \in Buffer
    <3> DEFINE none == <<>>
    <3>1. none \in Seq(Byte)
      OBVIOUS
    <3> HIDE DEF none
    <3>2. [data |-> none, size |-> RamSize, in_use |-> 1] \in Buffer
          /\ [data |-> none, size |-> FlashSize, in_use |-> 0] \in Buffer
      BY <3>1, SizesAssumption DEF Buffer
    <3> QED BY <3>2 DEF none
  <2>3. r.data = <<>> /\ f.data = <<>> /\ r.size = RamSize /\ f.size = FlashSize
        /\ r.in_use = 1 /\ f.in_use = 0
    OBVIOUS
  <2> HIDE DEF r, f
  <2> QED BY <1>0, <2>1, <2>2, <2>3, SizesAssumption DEF TypeOK, MessageInOneTier
<1>2. CASE Reset
  <2>1. ram' = Cleared(ram, 1) /\ flash' = Cleared(flash, 0) /\ returned' = returned
    BY <1>2 DEF Reset
  <2> QED BY <1>0, <2>1, ClearedTier, SizesInOrder DEF TypeOK, MessageInOneTier
<1>3. CASE PowerCycle
  <2>1. Zeroed \in Buffer /\ Zeroed.data = <<>> /\ Zeroed.size = 0 /\ Zeroed.in_use = 0
    <3> DEFINE none == <<>>
    <3>1. none \in Seq(Byte)
      OBVIOUS
    <3> HIDE DEF none
    <3>2. Zeroed = [data |-> none, size |-> 0, in_use |-> 0]
      BY DEF Zeroed, none
    <3> QED BY <3>1, <3>2 DEF Buffer, none
  <2>2. ram' = Zeroed /\ flash' = Zeroed /\ returned' = 0
    BY <1>3 DEF PowerCycle
  <2> QED BY <2>1, <2>2, SizesAssumption DEF TypeOK, MessageInOneTier
<1>4. ASSUME NEW chunk \in Chunk, AppendRam(chunk) PROVE IInv'
  <2>1. ram' = Put(ram, chunk) /\ returned' = Len(chunk) /\ flash' = flash /\ ram.in_use = 1
    BY <1>4 DEF AppendRam
  <2> QED BY <1>0, <2>1, ChunkType, PutOnTier DEF TypeOK, MessageInOneTier
<1>5. ASSUME NEW chunk \in Chunk, Spill(chunk) PROVE IInv'
  <2>1. chunk \in Seq(Byte) /\ Len(chunk) \in 0..MaxChunk
    BY ChunkType
  <2>2. returned' \in 0..MaxChunk
    BY <1>5, <2>1, SpillResult, SizesInOrder, SizesAssumption
  <2>3. /\ Cleared(ram, 0) \in Buffer
        /\ Cleared(ram, 0).data = <<>>
        /\ Cleared(ram, 0).size = ram.size
        /\ Cleared(ram, 0).in_use = 0
    BY <1>0, ClearedTier
  <2>4. /\ ram' = Cleared(ram, 0)
        /\ flash' \in Buffer
        /\ flash'.in_use = 1
        /\ flash'.size = flash.size
        /\ Len(flash'.data) <= flash'.size
    BY <1>5, <2>1, SpillResult
  <2> QED BY <2>2, <2>3, <2>4, SizesInOrder DEF TypeOK, MessageInOneTier
<1>6. ASSUME NEW chunk \in Chunk, AppendFlash(chunk) PROVE IInv'
  <2>1. flash' = Put(flash, chunk) /\ returned' = Taken(flash, chunk)
        /\ ram' = ram /\ ram.in_use = 0
    BY <1>6 DEF AppendFlash
  <2>2. chunk \in Seq(Byte) /\ Len(chunk) \in 0..MaxChunk
    BY ChunkType
  <2>3. /\ Put(flash, chunk) \in Buffer
        /\ Len(Put(flash, chunk).data) <= Put(flash, chunk).size
        /\ Put(flash, chunk).size = flash.size
        /\ Taken(flash, chunk) = 0 \/ Taken(flash, chunk) = Len(chunk)
    BY <1>0, <2>2, PutOnTier, SizesInOrder DEF TypeOK
  <2>4. returned' \in 0..MaxChunk
    BY <2>1, <2>2, <2>3, SizesAssumption
  <2> QED BY <1>0, <2>1, <2>3, <2>4 DEF TypeOK, MessageInOneTier
<1>7. CASE UNCHANGED vars
  BY <1>7 DEF vars, TypeOK, MessageInOneTier
<1> QED BY <1>1, <1>2, <1>3, <1>4, <1>5, <1>6, <1>7 DEF Next, BufferingAppend
-------------------------------------------------------------------------------

\* A device that has just been plugged in has two empty tiers.
LEMMA Start == Init => IInv
<1> SUFFICES ASSUME Init PROVE IInv
  OBVIOUS
<1> DEFINE none == <<>>
<1>1. none \in Seq(Byte) /\ Len(none) = 0
  OBVIOUS
<1> HIDE DEF none
<1>2. Zeroed = [data |-> none, size |-> 0, in_use |-> 0]
  BY DEF Zeroed, none
<1>3. Zeroed \in Buffer /\ Zeroed.data = none /\ Zeroed.size = 0 /\ Zeroed.in_use = 0
  BY <1>1, <1>2 DEF Buffer
<1>4. Zeroed.data = <<>>
  BY <1>3 DEF none
<1> QED BY <1>1, <1>3, <1>4, SizesAssumption DEF Init, IInv, TypeOK, MessageInOneTier

\* Both tiers stay well formed and inside their memory, whatever their sizes
\* and whatever chunks arrive (buffering.c:49-76).
THEOREM TypeCorrect == Spec => []TypeOK
<1>1. IInv => TypeOK
  BY DEF IInv
<1> QED BY <1>1, Start, Step, PTL DEF Spec

\* The message is never spread over the two tiers (buffering.c:57-63).
THEOREM OneTier == Spec => []MessageInOneTier
<1>1. IInv => MessageInOneTier
  BY DEF IInv
<1> QED BY <1>1, Start, Step, PTL DEF Spec
-------------------------------------------------------------------------------

\* The two tiers implement one bounded log: each step of buffering.c is a step
\* of BoundedLog on the live tier's contents.
THEOREM ImplementsLog == Spec => Refinement
<1>1. Init => Log!Init
  <2> SUFFICES ASSUME Init PROVE Log!Init
    OBVIOUS
  <2>1. Zeroed.data = <<>> /\ Zeroed.size = 0
    BY DEF Zeroed
  <2> QED BY <2>1 DEF Init, Log!Init, Contents, Live
<1>2. IInv /\ IInv' /\ [Next]_vars => [Log!Next]_(Log!vars)
  <2> SUFFICES ASSUME IInv, IInv', [Next]_vars PROVE [Log!Next]_(Log!vars)
    OBVIOUS
  <2>1. CASE Initialize
    <3>1. Contents' = <<>> /\ flash'.size = FlashSize /\ returned' = returned
      BY <2>1 DEF Initialize, Contents, Live
    <3> QED BY <3>1 DEF Log!Next, Log!Open
  <2>2. CASE Reset
    <3>1. Contents' = <<>> /\ flash'.size = flash.size /\ returned' = returned
      BY <2>2, ClearedTier DEF Reset, Contents, Live, IInv, TypeOK
    <3> QED BY <3>1 DEF Log!Next, Log!Clear
  <2>3. CASE PowerCycle
    <3>1. Contents' = <<>> /\ flash'.size = 0 /\ returned' = 0
      BY <2>3 DEF PowerCycle, Contents, Live, Zeroed
    <3> QED BY <3>1 DEF Log!Next, Log!Crash
  <2>4. ASSUME NEW chunk \in Chunk, AppendRam(chunk)
        PROVE  Log!Take(chunk)
    <3>1. Len(ram.data) + Len(chunk) <= ram.size /\ ram.in_use = 1
      BY <2>4, ChunkType, SizesInOrder DEF AppendRam, Fits
    <3>2. /\ Contents = ram.data
          /\ Contents' = ram.data \o chunk
          /\ returned' = Len(chunk)
          /\ flash' = flash
      <4>1. ram' = Put(ram, chunk) /\ returned' = Len(chunk) /\ flash' = flash
        BY <2>4 DEF AppendRam
      <4>2. Put(ram, chunk).data = ram.data \o chunk /\ Put(ram, chunk).in_use = 1
        BY <3>1, ChunkType, PutOnTier DEF IInv, TypeOK
      <4> QED BY <3>1, <4>1, <4>2 DEF Contents, Live
    <3> QED BY <3>1, <3>2, ChunkType, SizesInOrder DEF Log!Take
  <2>5. ASSUME NEW chunk \in Chunk, Spill(chunk)
        PROVE  Log!Take(chunk) \/ Log!Refuse(chunk)
    <3>1. Contents = ram.data /\ ram.in_use = 1
      BY <2>5 DEF Spill, Contents, Live
    <3>2. Contents' = flash'.data
      BY <2>5, ChunkType, SpillResult, ClearedTier DEF Contents, Live, IInv, TypeOK
    <3>3. /\ flash'.size = flash.size
          /\ Len(ram.data) + Len(chunk) <= flash.size
               => flash'.data = ram.data \o chunk /\ returned' = Len(chunk)
          /\ Len(ram.data) + Len(chunk) > flash.size
               => flash'.data = ram.data /\ returned' = 0
      BY <2>5, ChunkType, SpillResult
    <3> QED BY <3>1, <3>2, <3>3, ChunkType, SizesInOrder DEF Log!Take, Log!Refuse
  <2>6. ASSUME NEW chunk \in Chunk, AppendFlash(chunk)
        PROVE  Log!Take(chunk) \/ Log!Refuse(chunk)
    <3>1. /\ flash' = Put(flash, chunk) /\ returned' = Taken(flash, chunk)
          /\ Contents = flash.data /\ Contents' = flash'.data
      BY <2>6 DEF AppendFlash, Contents, Live
    <3>2. /\ Put(flash, chunk).size = flash.size
          /\ Len(flash.data) + Len(chunk) <= flash.size
               => Put(flash, chunk).data = flash.data \o chunk
                  /\ Taken(flash, chunk) = Len(chunk)
          /\ Len(flash.data) + Len(chunk) > flash.size
               => Put(flash, chunk).data = flash.data /\ Taken(flash, chunk) = 0
      BY ChunkType, PutOnTier DEF IInv, TypeOK
    <3> QED BY <3>1, <3>2, ChunkType, SizesInOrder DEF Log!Take, Log!Refuse
  <2>7. CASE UNCHANGED vars
    BY <2>7 DEF vars, Log!vars, Contents, Live
  <2>8. Log!Chunk = Chunk
    BY DEF Chunk, Log!Chunk, BoundedSeq, SeqOf, Log!BoundedSeq, Log!SeqOf
  <2> QED BY <2>1, <2>2, <2>3, <2>4, <2>5, <2>6, <2>7, <2>8
          DEF Next, BufferingAppend, Log!Next
<1> QED BY <1>1, <1>2, Start, Step, PTL DEF Spec, Refinement, Log!Spec
===============================================================================
