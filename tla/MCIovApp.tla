------------------------------- MODULE MCIovApp -------------------------------
(* IovApp with three paths, one of which extractHDPath refuses, and messages *)
(* of up to three bytes over two values: MCVerdict accepts one message of    *)
(* one byte and some longer ones.                                            *)
EXTENDS IovApp

CONSTANTS p, q, bad, a, b

MCPath == {p, q, bad}
MCValidPath == {p, q}
MCByte == {a, b}

MCVerdict(msg) ==
  IF msg # <<>> /\ msg[1] = a /\ Len(msg) <= 2 THEN "ok" ELSE "unexpected_buffer_end"
===============================================================================
