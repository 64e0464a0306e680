----------------------------- MODULE MCAddressScreen -----------------------------
(* AddressScreen with two paths.  What a message says does not matter to it, *)
(* so that the store has room for the empty message only, which the parser   *)
(* accepts or, as it may, refuses.                                           *)
EXTENDS AddressScreen

CONSTANTS p, q, a

MCPath == {p, q}
MCByte == {a}

MCVerdict(msg) == "ok"
===============================================================================
