------------------------------ MODULE BoundedLog ------------------------------
(* What the transaction store promises to the code that fills and reads it:  *)
(* one message that grows at its end, never beyond Capacity, where a chunk   *)
(* is taken whole or not at all.  Two memory tiers, spilling and the flags   *)
(* that say which tier is live do not appear here: Buffering implements this *)
(* module (Buffering!Refinement).                                            *)
EXTENDS Naturals, Sequences, SequencesExt

CONSTANTS Capacity, \* the most bytes a message may have once the log is open
          Byte,     \* the values a byte takes
          MaxChunk  \* the most bytes one append brings

VARIABLES log,      \* the message so far
          limit,    \* 0 until the log has been opened, then Capacity
          returned  \* the number of bytes the last append says it took

vars == <<log, limit, returned>>

Chunk == BoundedSeq(Byte, MaxChunk)

Init == log = <<>> /\ limit = 0 /\ returned = 0

Open == log' = <<>> /\ limit' = Capacity /\ UNCHANGED returned

Clear == log' = <<>> /\ UNCHANGED <<limit, returned>>

Take(chunk) ==
  /\ Len(log) + Len(chunk) <= limit
  /\ log' = log \o chunk
  /\ returned' = Len(chunk)
  /\ UNCHANGED limit

Refuse(chunk) ==
  /\ Len(log) + Len(chunk) > limit
  /\ returned' = 0
  /\ UNCHANGED <<log, limit>>

\* The device loses power: the log is closed again and the message is gone.
Crash == log' = <<>> /\ limit' = 0 /\ returned' = 0

Next == Open \/ Clear \/ Crash \/ \E chunk \in Chunk : Take(chunk) \/ Refuse(chunk)

Spec == Init /\ [][Next]_vars
===============================================================================
