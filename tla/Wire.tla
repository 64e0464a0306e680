---------------------------------- MODULE Wire ----------------------------------
(* parser_impl.c below the fields: the header, tags, varints and arrays, and *)
(* the contexts (parser_context_t) that one message is read through: the     *)
(* root, the messages nested in it and the participants of an update.        *)
(*                                                                           *)
(* Numbers are too wide for TLC; a varint is its ten digits to the base 128, *)
(* the lowest first.  ctx->lastConsumed, which a reader counts up and adds   *)
(* to ctx->offset at its end, is zero between the turns of a loop.           *)
(*                                                                           *)
(* What the values are used for, and how many counters and participants      *)
(* there may be, is module TxParser.  The code reads the contexts in one     *)
(* order, here the next one is any: they do not depend on each other, and    *)
(* the message is refused if one of them is.                                 *)
EXTENDS Naturals, Sequences

CONSTANTS Memories,  \* [bytes, bufferLen]: a message, and what lies behind it
          Version,   \* the first four bytes, as they lie in memory
          ChainChar  \* the bytes that _checkChainIDValid lets through

Byte == 0..255

ASSUME WireAssumption ==
  /\ \A m \in Memories :
       m.bytes \in Seq(Byte) /\ m.bufferLen \in Nat /\ m.bufferLen < Len(m.bytes)
  /\ Version \in Seq(Byte)
  /\ ChainChar \subseteq Byte

VARIABLES memory, \* the message parser_parse is called with
          pc,     \* "header", "loop", "accepted" or "refused"
          cur,    \* the context that is read
          todo    \* the contexts to be read after it

vars == <<memory, pc, cur, todo>>

\* ctx->buffer is counted from the start of the message.
At(i) == memory.bytes[i + 1]

-------------------------------------------------------------------------------
(* The fields of parser_txdef.h: the number, how the value is read, the bit  *)
(* that CHECK_NOT_DUPLICATED tests (0 if the field may be repeated), and     *)
(* what its bytes are read as ("bytes" if they are not looked into).         *)

Field(struct, num, kind, bit, inner) ==
  [struct |-> struct, num |-> num, kind |-> kind, bit |-> bit, inner |-> inner]

Array(struct, num, inner) == Field(struct, num, "array", num, inner)

Schema ==
  { Array("root", 1, "fees"), Field("root", 4, "array8", 0, "bytes"),
    \* seen.tx_message
    Field("root", 51, "array", 51, "send"), Field("root", 57, "array", 51, "update"),
    Field("root", 75, "array", 51, "vote"),
    Array("fees", 2, "bytes"), Array("fees", 3, "coin"),
    Field("coin", 1, "int64", 1, "bytes"), Field("coin", 2, "int64", 2, "bytes"),
    Array("coin", 3, "bytes"),
    Field("metadata", 1, "uint32", 1, "bytes"),
    Array("send", 1, "metadata"), Array("send", 2, "bytes"), Array("send", 3, "bytes"),
    Array("send", 4, "coin"), Array("send", 5, "bytes"),
    Array("vote", 1, "metadata"), Array("vote", 2, "bytes"), Array("vote", 3, "bytes"),
    Field("vote", 4, "uint8", 4, "bytes"),
    Array("update", 1, "metadata"), Array("update", 2, "bytes"),
    Field("update", 3, "array", 0, "participant"),
    Field("update", 4, "uint32", 4, "bytes"), Field("update", 5, "uint32", 5, "bytes"),
    Array("participant", 1, "bytes"), Field("participant", 2, "uint32", 2, "bytes") }

\* A field of the message as it was read: where it begins and ends in its
\* context, and where the bytes of its value are and how many.
Spans == [field : Schema, from : Nat, to : Nat, ptr : Nat, len : Nat]

Context(struct, buffer, bufferLen) ==
  [struct |-> struct, buffer |-> buffer, bufferLen |-> bufferLen,
   offset |-> 0, fields |-> <<>>]

-------------------------------------------------------------------------------
(* Varints *)

Digits == 0..9

\* An end that is two bytes behind the buffer (a mutant of Lengths)
LengthsTooFar(c, from) ==
  {n \in 1..10 :
     /\ from + n <= c.bufferLen + 2
     /\ \A k \in 0..(n - 2) : At(c.buffer + from + k) >= 128
     /\ At(c.buffer + from + n - 1) < 128
     /\ n = 10 => At(c.buffer + from + 9) <= 1}

\* _readRawVarint at the offset from: how many bytes it consumes, none of them
\* if it fails.  Its end is one byte behind the buffer.
Lengths(c, from) ==
  {n \in 1..10 :
     /\ from + n <= c.bufferLen + 1
     /\ \A k \in 0..(n - 2) : At(c.buffer + from + k) >= 128
     /\ At(c.buffer + from + n - 1) < 128
     /\ n = 10 => At(c.buffer + from + 9) <= 1}

Value(c, from, n) == [d \in Digits |-> IF d < n THEN At(c.buffer + from + d) % 128 ELSE 0]

\* FIELD_NUM and WIRE_TYPE
IsTag(v, num, type) ==
  /\ \A d \in 2..9 : v[d] = 0
  /\ 8 * num + type = v[0] + 128 * v[1]

\* v >= UINT8_MAX, UINT16_MAX or UINT32_MAX, whose digits are 127 below the
\* digit q and r - 1 there: the greatest value of a type is refused as well.
AtLeastMax(v, q, r) ==
  \/ v[q] >= r
  \/ \E d \in (q + 1)..9 : v[d] > 0
  \/ v[q] = r - 1 /\ \A d \in 0..(q - 1) : v[d] = 127

\* A comparison that lets the greatest value through (a mutant of InRange)
InRangeOrMax(v, kind) ==
  CASE kind = "int64"  -> v[9] = 0
    [] kind = "uint32" -> \A d \in 5..9 : v[d] = 0
    [] kind = "uint8"  -> v[1] <= 1 /\ \A d \in 2..9 : v[d] = 0

\* _readNonNegativeInt64, _readUInt32 and _readUInt8
InRange(v, kind) ==
  CASE kind = "int64"  -> v[9] = 0
    [] kind = "uint32" -> ~AtLeastMax(v, 4, 16)
    [] kind = "uint8"  -> ~AtLeastMax(v, 1, 2)

-------------------------------------------------------------------------------
(* Fields *)

Span(f, from, ptr, len) ==
  [field |-> f, from |-> from, to |-> ptr + len, ptr |-> ptr, len |-> len]

\* _readVarint, behind a tag of t bytes
VarintField(c, f, t) ==
  {Span(f, c.offset, c.offset + t, n) : n \in
     {m \in Lengths(c, c.offset + t) : InRange(Value(c, c.offset + t, m), f.kind)}}

\* An array that may end with the byte behind the buffer, as a varint may (a
\* mutant of ArrayFits)
ArrayFitsBehind(c, ptr, len) == ptr + len <= c.bufferLen + 1

\* "check that the returned buffer is not out of bounds"
ArrayFits(c, ptr, len) == ptr + len <= c.bufferLen

\* _readArray, behind a tag of t bytes.  It reads the tag once more, from the
\* same place, so that its "return 0" for a tag that cannot be read is not taken.
ArrayField(c, f, t) ==
  {s \in {LET v == Value(c, c.offset + t, n)
          IN  Span(f, c.offset, c.offset + t + n, v[0] + 128 * v[1] + 16384 * v[2]) :
            n \in {m \in Lengths(c, c.offset + t) :
                     ~AtLeastMax(Value(c, c.offset + t, m), 2, 4)}} :
     /\ ArrayFits(c, s.ptr, s.len)
     /\ f.kind = "array8" => s.len = 8}

Seen(c) == {c.fields[k].field.bit : k \in DOMAIN c.fields} \ {0}

WireType(f) == IF f.kind \in {"array", "array8"} THEN 2 ELSE 0

\* The bytes at the offset of c as the field f, behind a tag of t bytes
FieldAs(c, f, t) ==
  IF /\ f.struct = c.struct /\ f.bit \notin Seen(c)
     /\ IsTag(Value(c, c.offset, t), f.num, WireType(f))
    THEN IF WireType(f) = 2 THEN ArrayField(c, f, t) ELSE VarintField(c, f, t)
    ELSE {}

\* The field at the offset of c, none if it is refused
FieldHere(c) == UNION {FieldAs(c, f, t) : f \in Schema, t \in Lengths(c, c.offset)}

\* An offset that is moved by the value alone (a mutant of Read)
ReadValueOnly(c, s) ==
  [c EXCEPT !.offset = @ + s.len, !.fields = Append(@, s)]

\* ctx->offset += ctx->lastConsumed
Read(c, s) == [c EXCEPT !.offset = s.to, !.fields = Append(@, s)]

\* The contexts of the messages in c
Inner(c) ==
  {Context(s.field.inner, c.buffer + s.ptr, s.len) :
     s \in {c.fields[k] : k \in {j \in DOMAIN c.fields : c.fields[j].field.inner # "bytes"}}}

-------------------------------------------------------------------------------

Init ==
  /\ memory \in Memories
  /\ pc = "header"
  /\ cur = Context("root", 0, memory.bufferLen)
  /\ todo = {}

\* parser_readRoot's header: version, length of the chain id, chain id, nonce.
\* All of it is read before its length is compared with the buffer's.
ChainIDLen == At(4)

HeaderLen == 5 + ChainIDLen + 8

ValidHeader ==
  /\ memory.bufferLen >= 4
  /\ ChainIDLen \in 4..32
  /\ \A k \in 5..(4 + ChainIDLen) : At(k) \in ChainChar
  /\ HeaderLen <= memory.bufferLen
  /\ \A k \in DOMAIN Version : At(k - 1) = Version[k]

ReadHeader ==
  /\ pc = "header" /\ ValidHeader
  /\ pc' = "loop"
  /\ cur' = [cur EXCEPT !.offset = HeaderLen]
  /\ UNCHANGED <<memory, todo>>

Refuse == pc' = "refused" /\ UNCHANGED <<memory, cur, todo>>

RefuseHeader == pc = "header" /\ ~ValidHeader /\ Refuse

InLoop == pc = "loop" /\ cur.offset < cur.bufferLen

\* One turn of the loop of a parser_readPB_...
ReadField ==
  /\ InLoop
  /\ \E s \in FieldHere(cur) : cur' = Read(cur, s)
  /\ UNCHANGED <<memory, pc, todo>>

RefuseField == InLoop /\ FieldHere(cur) = {} /\ Refuse

AtEnd == pc = "loop" /\ cur.offset >= cur.bufferLen

\* parser_Tx finds none of the three messages.
NoMessage == cur.struct = "root" /\ 51 \notin Seen(cur)

RefuseRoot == AtEnd /\ NoMessage /\ Refuse

\* The loop ends; WITH_CONTEXT, or the inner loop of a participant
NextContext ==
  /\ AtEnd /\ ~NoMessage
  /\ \E c \in todo \cup Inner(cur) :
       cur' = c /\ todo' = (todo \cup Inner(cur)) \ {c}
  /\ UNCHANGED <<memory, pc>>

Accept ==
  /\ AtEnd /\ ~NoMessage
  /\ todo \cup Inner(cur) = {}
  /\ pc' = "accepted"
  /\ UNCHANGED <<memory, cur, todo>>

Next ==
  \/ ReadHeader \/ RefuseHeader
  \/ ReadField \/ RefuseField
  \/ RefuseRoot \/ NextContext \/ Accept

Spec == Init /\ [][Next]_vars

-------------------------------------------------------------------------------
(* Properties *)

Inside(c) == c.buffer + c.bufferLen <= memory.bufferLen

\* A context is a part of the message, and a value that was read is one that
\* its C type can hold, the reserved greatest one excluded.
TypeOK ==
  /\ memory \in Memories
  /\ pc \in {"header", "loop", "accepted", "refused"}
  /\ \A c \in todo \cup {cur} : c.buffer \in Nat /\ c.bufferLen \in Nat /\ c.offset \in Nat
  /\ \A k \in DOMAIN cur.fields :
       LET s == cur.fields[k]
           v == Value(cur, s.ptr, s.len)
       IN  /\ s \in Spans
           /\ s.field.kind = "uint8" => v[0] + 128 * v[1] < 255 /\ \A d \in 2..9 : v[d] = 0
           /\ s.field.kind = "uint32" => v[4] < 16 /\ \A d \in 5..9 : v[d] = 0

\* Whatever the bytes are, no array and no message nested in another one ends
\* behind the message it is in, and no loop gets further than one byte behind
\* its end: a varint's end is there (parser_impl.c:90-119, 188-228).
StaysInside ==
  /\ Inside(cur) /\ cur.offset <= cur.bufferLen + 1
  /\ \A c \in todo : Inside(c)
  /\ \A k \in DOMAIN cur.fields :
       LET s == cur.fields[k]
       IN  WireType(s.field) = 2 => s.ptr + s.len <= cur.bufferLen

Before(c, k) == IF k = 1 THEN (IF c.struct = "root" THEN HeaderLen ELSE 0) ELSE c.fields[k - 1].to

\* The fields that were read lie one behind the other: no byte of a message is
\* part of two fields, and none between the header and the end is part of no
\* field (parser_impl.c:90-228, where tag and length are read twice).
BytesAreReadOnce ==
  pc \in {"loop", "accepted"} =>
    /\ \A k \in DOMAIN cur.fields :
         cur.fields[k].from = Before(cur, k) /\ cur.fields[k].from < cur.fields[k].ptr
    /\ cur.offset = Before(cur, Len(cur.fields) + 1)

\* The byte behind a message is read as part of it only if the message breaks
\* off in its last field: what there is of that field is its tag and a number
\* that goes on (parser_impl.c:95).
OverReadIsTruncation ==
  cur.offset > cur.bufferLen /\ pc \in {"loop", "accepted"} =>
    LET s == cur.fields[Len(cur.fields)]
    IN  /\ WireType(s.field) = 0
        /\ \A k \in s.ptr..(cur.bufferLen - 1) : At(cur.buffer + k) >= 128

\* Every turn of a loop gets on, so that no message keeps the parser for ever:
\* the error that _readArray returns as a zero would not (parser_impl.c:196).
Advances == [][InLoop => pc' = "refused" \/ cur'.offset > cur.offset]_vars
===============================================================================
