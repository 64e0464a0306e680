------------------------------- MODULE Buffering -------------------------------
(* deps/ledger-zxlib/src/buffering.c with the sizes src/tx.c gives it: the   *)
(* message being received lives in RAM until a chunk does not fit there, and *)
(* from then on in flash.                                                    *)
(*                                                                           *)
(* A buffer_state_t is a record: data is the first pos bytes of the memory   *)
(* the code points to (so pos is Len(data)), size its capacity, in_use its   *)
(* flag.  The bytes behind pos are never read and are not modelled.          *)
EXTENDS Integers, Sequences, SequencesExt

CONSTANTS RamSize,    \* RAM_BUFFER_SIZE
          FlashSize,  \* FLASH_BUFFER_SIZE
          Byte,       \* the values a byte takes
          MaxChunk    \* the most bytes one command carries

\* tx.c gives the flash tier more room than the RAM tier on both devices.
ASSUME SizesAssumption ==
  /\ RamSize \in Nat /\ FlashSize \in Nat /\ MaxChunk \in Nat
  /\ RamSize <= FlashSize

VARIABLES ram, flash, \* the two buffer_state_t globals
          returned    \* the value of the last buffering_append

vars == <<ram, flash, returned>>

Chunk == BoundedSeq(Byte, MaxChunk)

Buffer == [data : Seq(Byte), size : Nat, in_use : {0, 1}]

\* A global of the program before anything has assigned it.
Zeroed == [data |-> <<>>, size |-> 0, in_use |-> 0]

Cleared(b, used) == [b EXCEPT !.data = <<>>, !.in_use = used]

FitsOffByOne(b, chunk) == b.size - Len(b.data) + 1 >= Len(chunk)

\* size - pos >= length
Fits(b, chunk) == b.size - Len(b.data) >= Len(chunk)

\* buffering_append on one tier: all of the chunk, or nothing of it.
Put(b, chunk) == IF Fits(b, chunk) THEN [b EXCEPT !.data = @ \o chunk] ELSE b

Taken(b, chunk) == IF Fits(b, chunk) THEN Len(chunk) ELSE 0

\* buffering_get_buffer: the tier the message is read from.
Live == IF ram.in_use = 1 THEN ram ELSE flash

Contents == Live.data

-------------------------------------------------------------------------------

Init == ram = Zeroed /\ flash = Zeroed /\ returned = 0

\* buffering_init, as tx_initialize calls it
Initialize ==
  /\ ram' = [data |-> <<>>, size |-> RamSize, in_use |-> 1]
  /\ flash' = [data |-> <<>>, size |-> FlashSize, in_use |-> 0]
  /\ UNCHANGED returned

\* buffering_reset
Reset ==
  /\ ram' = Cleared(ram, 1)
  /\ flash' = Cleared(flash, 0)
  /\ UNCHANGED returned

\* buffering_append while RAM is live and has room
AppendRam(chunk) ==
  /\ ram.in_use = 1
  /\ Fits(ram, chunk)
  /\ ram' = Put(ram, chunk)
  /\ returned' = Len(chunk)
  /\ UNCHANGED flash

\* A spill that forgets what RAM held (a mutant of Spill)
SpillWithoutCopy(chunk) ==
  /\ ram.in_use = 1
  /\ ~Fits(ram, chunk)
  /\ LET opened == [flash EXCEPT !.in_use = 1]
     IN  /\ flash' = Put(opened, chunk)
         /\ returned' = Taken(opened, chunk)
  /\ ram' = Cleared(ram, 0)

\* A spill that leaves RAM's position where it was (a mutant of Spill)
SpillKeepingRam(chunk) ==
  /\ ram.in_use = 1
  /\ ~Fits(ram, chunk)
  /\ LET copied == Put([flash EXCEPT !.in_use = 1], ram.data)
     IN  /\ flash' = Put(copied, chunk)
         /\ returned' = Taken(copied, chunk)
  /\ ram' = [ram EXCEPT !.in_use = 0]

\* buffering_append while RAM is live and too small for the chunk: flash takes
\* over, first with what RAM holds (the result of that inner call is ignored),
\* then with the chunk, which may still be refused.
Spill(chunk) ==
  /\ ram.in_use = 1
  /\ ~Fits(ram, chunk)
  /\ LET copied == Put([flash EXCEPT !.in_use = 1], ram.data)
     IN  /\ flash' = Put(copied, chunk)
         /\ returned' = Taken(copied, chunk)
  /\ ram' = Cleared(ram, 0)

\* buffering_append while flash is live
AppendFlash(chunk) ==
  /\ ram.in_use = 0
  /\ flash' = Put(flash, chunk)
  /\ returned' = Taken(flash, chunk)
  /\ UNCHANGED ram

\* buffering_append
BufferingAppend(chunk) == AppendRam(chunk) \/ Spill(chunk) \/ AppendFlash(chunk)

\* The device is unplugged: its globals are zero again.  (The bytes in flash
\* survive, but nothing remembers that they are there.)
PowerCycle == ram' = Zeroed /\ flash' = Zeroed /\ returned' = 0

Next == Initialize \/ Reset \/ PowerCycle \/ \E chunk \in Chunk : BufferingAppend(chunk)

Spec == Init /\ [][Next]_vars

-------------------------------------------------------------------------------

\* Both tiers are well formed and never hold more than their memory.
TypeOK ==
  /\ ram \in Buffer /\ flash \in Buffer
  /\ <<ram.size, flash.size>> \in {<<0, 0>>, <<RamSize, FlashSize>>}
  /\ returned \in 0..MaxChunk
  /\ Len(ram.data) <= ram.size
  /\ Len(flash.data) <= flash.size

\* The message is never spread over the two tiers: whoever reads the live one
\* reads all of it, and the other one is empty, so that the next spill starts
\* flash from nothing (buffering.c:57-63).
MessageInOneTier ==
  /\ ram.in_use = 1 => flash.in_use = 0 /\ flash.data = <<>>
  /\ ram.in_use = 0 => ram.data = <<>>

\* The store is a log of FlashSize bytes: what RAM held is never lost or
\* reordered by a spill, a refused chunk leaves the message as it was, and a
\* chunk is refused only if the message would outgrow flash.
Log == INSTANCE BoundedLog WITH
         Capacity <- FlashSize, log <- Contents, limit <- flash.size

Refinement == Log!Spec
===============================================================================
