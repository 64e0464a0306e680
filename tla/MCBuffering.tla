----------------------------- MODULE MCBuffering -----------------------------
(* Buffering on a RAM of two bytes and a flash of five: a message may end in  *)
(* RAM, fill it exactly, spill with an empty or a filled RAM, fill flash      *)
(* exactly, and be refused in the spill or after it.                          *)
EXTENDS Buffering

===============================================================================
