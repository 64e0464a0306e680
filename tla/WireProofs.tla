------------------------------- MODULE WireProofs -------------------------------
(* Wire for every message, whatever its bytes, its length and the byte       *)
(* behind it are.                                                            *)
EXTENDS Wire, TLAPS

\* What holds of a field of a context: its bytes are where _readArray or
\* _readVarint may find them.
InContext(c, s) ==
  /\ s \in Spans
  /\ s.from < s.ptr /\ s.to = s.ptr + s.len /\ s.from < s.to
  /\ WireType(s.field) = 2 => s.to <= c.bufferLen
  /\ WireType(s.field) # 2 =>
       s.len \in Lengths(c, s.ptr) /\ InRange(Value(c, s.ptr, s.len), s.field.kind)

\* A context is a part of the message, and its loop did not run past its end.
CtxInv(c) ==
  /\ c \in [struct : {f.struct : f \in Schema} \cup {f.inner : f \in Schema},
            buffer : Nat, bufferLen : Nat, offset : Nat, fields : Seq(Spans)]
  /\ Inside(c) /\ c.offset <= c.bufferLen + 1
  /\ \A k \in DOMAIN c.fields : InContext(c, c.fields[k])

\* The fields lie one behind the other, and the offset is behind the last one.
Tiled(c) ==
  /\ \A k \in DOMAIN c.fields : c.fields[k].from = Before(c, k)
  /\ c.offset = Before(c, Len(c.fields) + 1)

IInv ==
  /\ memory \in Memories
  /\ pc \in {"header", "loop", "accepted", "refused"}
  /\ CtxInv(cur)
  /\ \A c \in todo : CtxInv(c) /\ c.offset = 0 /\ c.fields = <<>> /\ c.struct # "root"
  /\ pc = "header" => cur = Context("root", 0, memory.bufferLen)
  /\ pc \in {"loop", "accepted"} =>
       Tiled(cur) /\ (cur.fields = <<>> => cur.offset <= cur.bufferLen)
-------------------------------------------------------------------------------

\* A byte of the message, or the one behind it
LEMMA ByteType ==
  ASSUME memory \in Memories, NEW i \in 0..memory.bufferLen
  PROVE  At(i) \in Byte
<1>1. memory.bytes \in Seq(Byte) /\ memory.bufferLen \in Nat /\ memory.bufferLen < Len(memory.bytes)
  BY WireAssumption
<1>2. i + 1 \in 1..Len(memory.bytes)
  BY <1>1
<1> QED BY <1>1, <1>2 DEF At

\* A varint is at least one byte long and ends at most one byte behind its
\* context, and its digits are digits.
LEMMA VarintType ==
  ASSUME memory \in Memories, NEW c, CtxInv(c), NEW from \in Nat, NEW n \in Lengths(c, from)
  PROVE  /\ n \in 1..10 /\ from + n <= c.bufferLen + 1
         /\ \A d \in Digits : Value(c, from, n)[d] \in 0..127
<1>1. n \in 1..10 /\ from + n <= c.bufferLen + 1
  BY DEF Lengths
<1>2. memory.bufferLen \in Nat /\ c.buffer + c.bufferLen <= memory.bufferLen
      /\ c.buffer \in Nat /\ c.bufferLen \in Nat
  BY WireAssumption DEF CtxInv, Inside
<1>3. ASSUME NEW d \in Digits PROVE Value(c, from, n)[d] \in 0..127
  <2>1. CASE d < n
    <3>1. c.buffer + from + d \in 0..memory.bufferLen
      BY <1>1, <1>2, <2>1 DEF Digits
    <3>2. At(c.buffer + from + d) \in 0..255
      BY <3>1, ByteType DEF Byte
    <3>3. Value(c, from, n)[d] = At(c.buffer + from + d) % 128
      BY <2>1 DEF Value
    <3> QED BY <3>2, <3>3
  <2>2. CASE ~(d < n)
    BY <2>2 DEF Value
  <2> QED BY <2>1, <2>2
<1> QED BY <1>1, <1>3

\* The length of an array is a number.
LEMMA LengthType ==
  ASSUME NEW v, \A d \in Digits : v[d] \in 0..127
  PROVE  v[0] + 128 * v[1] + 16384 * v[2] \in Nat
<1>1. v[0] \in 0..127 /\ v[1] \in 0..127 /\ v[2] \in 0..127
  BY DEF Digits
<1> DEFINE x == v[0]
           y == v[1]
           z == v[2]
<1>2. x \in Nat /\ y \in Nat /\ z \in Nat
  BY <1>1
<1> HIDE DEF x, y, z
<1>3. x + 128 * y + 16384 * z \in Nat
  BY <1>2
<1> QED BY <1>3 DEF x, y, z

\* The field that a context is read on with begins where the last one ended,
\* and stays inside.
LEMMA FieldType ==
  ASSUME memory \in Memories, NEW c, CtxInv(c), NEW s \in FieldHere(c)
  PROVE  InContext(c, s) /\ s.from = c.offset /\ s.to <= c.bufferLen + 1
<1>0. c.offset \in Nat /\ c.bufferLen \in Nat
  BY DEF CtxInv
<1>1. PICK f \in Schema, t \in Lengths(c, c.offset) : s \in FieldAs(c, f, t)
  BY DEF FieldHere
<1>2. t \in 1..10 /\ c.offset + t \in Nat
  BY <1>0, <1>1, VarintType
<1>3. CASE WireType(f) = 2
  <2>1. s \in ArrayField(c, f, t) /\ f.kind \in {"array", "array8"}
    BY <1>1, <1>3 DEF FieldAs, WireType
  <2>2. PICK n \in Lengths(c, c.offset + t) :
          LET v == Value(c, c.offset + t, n)
          IN  /\ s = Span(f, c.offset, c.offset + t + n, v[0] + 128 * v[1] + 16384 * v[2])
              /\ ArrayFits(c, s.ptr, s.len)
    BY <2>1 DEF ArrayField
  <2> DEFINE v == Value(c, c.offset + t, n)
             len == v[0] + 128 * v[1] + 16384 * v[2]
  <2>3. n \in 1..10 /\ len \in Nat
    <3>1. n \in 1..10 /\ \A d \in Digits : v[d] \in 0..127
      BY <1>2, VarintType
    <3> HIDE DEF v
    <3> QED BY <3>1, LengthType
  <2>4. s = Span(f, c.offset, c.offset + t + n, len) /\ ArrayFits(c, s.ptr, s.len)
    BY <2>2
  <2> HIDE DEF v, len
  <2>5. /\ s.field = f /\ s.from = c.offset /\ s.ptr = c.offset + t + n /\ s.len = len
        /\ s.to = c.offset + t + n + len
    BY <2>4 DEF Span
  <2>6. s.ptr + s.len <= c.bufferLen
    BY <2>4 DEF ArrayFits
  <2>7. s \in Spans
    BY <1>0, <1>2, <2>3, <2>4 DEF Span, Spans
  <2>8. /\ s.from < s.ptr /\ s.to = s.ptr + s.len /\ s.from < s.to
        /\ s.to <= c.bufferLen /\ s.to <= c.bufferLen + 1
    BY <1>0, <1>2, <2>3, <2>5, <2>6
  <2>9. WireType(s.field) = 2
    BY <1>3, <2>5
  <2>10. InContext(c, s)
    BY ONLY <2>7, <2>8, <2>9, Zenon DEF InContext
  <2> QED BY <2>5, <2>8, <2>10
<1>4. CASE WireType(f) # 2
  <2>1. s \in VarintField(c, f, t)
    BY <1>1, <1>4 DEF FieldAs
  <2>2. PICK n \in Lengths(c, c.offset + t) :
          /\ s = Span(f, c.offset, c.offset + t, n)
          /\ InRange(Value(c, c.offset + t, n), f.kind)
    BY <2>1 DEF VarintField
  <2>3. n \in 1..10 /\ c.offset + t + n <= c.bufferLen + 1
    BY <1>2, <2>2, VarintType
  <2>4. /\ s.field = f /\ s.from = c.offset /\ s.ptr = c.offset + t /\ s.len = n
        /\ s.to = c.offset + t + n
    BY <2>2 DEF Span
  <2>5. s \in Spans
    BY <1>0, <1>2, <2>2, <2>3 DEF Span, Spans
  <2>6. /\ s.len \in Lengths(c, s.ptr) /\ InRange(Value(c, s.ptr, s.len), s.field.kind)
        /\ WireType(s.field) # 2
    BY <1>4, <2>2, <2>4
  <2>7. /\ s.from < s.ptr /\ s.to = s.ptr + s.len /\ s.from < s.to
        /\ s.to <= c.bufferLen + 1
    BY <1>0, <1>2, <2>3, <2>4
  <2>8. WireType(s.field) = 2 => s.to <= c.bufferLen
    BY <2>6
  <2>9. InContext(c, s)
    BY ONLY <2>5, <2>6, <2>7, <2>8, Zenon DEF InContext
  <2> QED BY <2>4, <2>7, <2>9
<1> QED BY <1>3, <1>4

\* What holds of a field does not depend on the fields behind it.
LEMMA SameBuffer ==
  ASSUME NEW c, NEW d, d.buffer = c.buffer, d.bufferLen = c.bufferLen,
         NEW s, InContext(c, s)
  PROVE  InContext(d, s)
<1>1. Lengths(d, s.ptr) = Lengths(c, s.ptr)
  BY DEF Lengths
<1>2. Value(d, s.ptr, s.len) = Value(c, s.ptr, s.len)
  BY DEF Value
<1> QED BY <1>1, <1>2 DEF InContext

\* A field that was read is one more behind the others.
LEMMA ReadStep ==
  ASSUME memory \in Memories, NEW c, CtxInv(c), NEW s \in FieldHere(c)
  PROVE  CtxInv(Read(c, s)) /\ (Tiled(c) => Tiled(Read(c, s)))
<1> DEFINE d == Read(c, s)
<1>1. InContext(c, s) /\ s.from = c.offset /\ s.to <= c.bufferLen + 1 /\ s \in Spans
  BY FieldType DEF InContext
<1>2. /\ c.fields \in Seq(Spans)
      /\ d = [c EXCEPT !.offset = s.to, !.fields = Append(c.fields, s)]
      /\ s.to \in Nat /\ Append(c.fields, s) \in Seq(Spans)
  BY <1>1 DEF CtxInv, Read, Spans
<1>3. /\ d \in [struct : {f.struct : f \in Schema} \cup {f.inner : f \in Schema},
                 buffer : Nat, bufferLen : Nat, offset : Nat, fields : Seq(Spans)]
      /\ d.struct = c.struct /\ d.buffer = c.buffer /\ d.bufferLen = c.bufferLen
      /\ d.offset = s.to /\ d.fields = Append(c.fields, s)
  BY <1>1, <1>2 DEF CtxInv
<1> HIDE DEF d
<1>4. /\ Len(d.fields) = Len(c.fields) + 1 /\ DOMAIN d.fields = 1..(Len(c.fields) + 1)
      /\ \A k \in DOMAIN c.fields : d.fields[k] = c.fields[k]
      /\ d.fields[Len(c.fields) + 1] = s
      /\ Len(c.fields) \in Nat /\ DOMAIN c.fields = 1..Len(c.fields)
  BY <1>1, <1>2, <1>3
<1>5. CtxInv(d)
  <2>1. \A k \in DOMAIN d.fields : InContext(d, d.fields[k])
    <3>1. ASSUME NEW k \in DOMAIN d.fields PROVE InContext(c, d.fields[k])
      <4>1. CASE k = Len(c.fields) + 1
        BY <1>1, <1>4, <4>1
      <4>2. CASE k # Len(c.fields) + 1
        BY <1>4, <4>2 DEF CtxInv
      <4> QED BY <4>1, <4>2
    <3> QED BY <1>3, <3>1, SameBuffer
  <2> QED BY <1>1, <1>3, <2>1 DEF CtxInv, Inside
<1>6. Tiled(c) => Tiled(d)
  <2> SUFFICES ASSUME Tiled(c) PROVE Tiled(d)
    OBVIOUS
  <2>1. \A k \in 1..(Len(c.fields) + 1) : Before(d, k) = Before(c, k)
    BY <1>3, <1>4 DEF Before
  <2>2. \A k \in DOMAIN d.fields : d.fields[k].from = Before(d, k)
    BY <1>1, <1>4, <2>1 DEF Tiled
  <2>3. Before(d, Len(d.fields) + 1) = s.to
    BY <1>4 DEF Before
  <2> QED BY <1>3, <2>2, <2>3 DEF Tiled
<1> QED BY <1>5, <1>6 DEF d

\* The messages in a context are parts of it.
LEMMA InnerType ==
  ASSUME memory \in Memories, NEW c, CtxInv(c), NEW i \in Inner(c)
  PROVE  CtxInv(i) /\ i.offset = 0 /\ i.fields = <<>> /\ i.struct # "root"
<1>1. PICK k \in DOMAIN c.fields :
        /\ c.fields[k].field.inner # "bytes"
        /\ i = Context(c.fields[k].field.inner, c.buffer + c.fields[k].ptr, c.fields[k].len)
  BY DEF Inner
<1> DEFINE s == c.fields[k]
<1>2. InContext(c, s) /\ s \in Spans /\ s.field \in Schema /\ s.ptr \in Nat /\ s.len \in Nat
  BY <1>1 DEF CtxInv, InContext, Spans
<1>3. WireType(s.field) = 2 /\ s.field.inner # "root"
  BY <1>1, <1>2 DEF Schema, Field, Array, WireType
<1>4. s.ptr + s.len <= c.bufferLen
  BY <1>2, <1>3 DEF InContext
<1>5. i = Context(s.field.inner, c.buffer + s.ptr, s.len)
  BY <1>1
<1> HIDE DEF s
<1>6. i.struct = s.field.inner /\ i.buffer = c.buffer + s.ptr /\ i.bufferLen = s.len
      /\ i.offset = 0 /\ i.fields = <<>>
  BY <1>5 DEF Context
<1>7. i \in [struct : {f.struct : f \in Schema} \cup {f.inner : f \in Schema},
             buffer : Nat, bufferLen : Nat, offset : Nat, fields : Seq(Spans)]
  BY <1>2, <1>5 DEF Context, CtxInv
<1>8. Inside(i)
  BY <1>2, <1>4, <1>6, WireAssumption DEF Inside, CtxInv
<1> QED BY <1>2, <1>3, <1>6, <1>7, <1>8 DEF CtxInv
-------------------------------------------------------------------------------

\* The message does not change while it is read.
LEMMA SameMemory ==
  ASSUME memory' = memory
  PROVE  /\ \A c : CtxInv(c) => CtxInv(c)'
         /\ \A c : Tiled(c) => Tiled(c)'
<1>1. \A i : At(i)' = At(i)
  BY DEF At
<1>2. \A c, from : Lengths(c, from)' = Lengths(c, from)
  BY <1>1 DEF Lengths
<1>3. \A c, from, n : Value(c, from, n)' = Value(c, from, n)
  BY <1>1 DEF Value
<1>4. \A c, s : InContext(c, s) => InContext(c, s)'
  BY <1>2, <1>3 DEF InContext
<1>5. HeaderLen' = HeaderLen
  BY <1>1 DEF HeaderLen, ChainIDLen
<1>6. \A c : CtxInv(c) => CtxInv(c)'
  BY <1>4 DEF CtxInv, Inside
<1>7. \A c : Tiled(c) => Tiled(c)'
  BY <1>5 DEF Tiled, Before
<1> QED BY <1>6, <1>7

LEMMA Start == Init => IInv
<1> SUFFICES ASSUME Init PROVE IInv
  OBVIOUS
<1> USE DEF Init
<1> DEFINE none == <<>>
<1>1. none \in Seq(Spans) /\ DOMAIN none = {}
  OBVIOUS
<1> HIDE DEF none
<1>2. Field("root", 4, "array8", 0, "bytes") \in Schema
  BY DEF Schema
<1>3. "root" \in {f.struct : f \in Schema}
  BY <1>2 DEF Field
<1>4. memory.bufferLen \in Nat
  BY WireAssumption
<1>5. /\ cur.struct = "root" /\ cur.buffer = 0 /\ cur.bufferLen = memory.bufferLen
      /\ cur.offset = 0 /\ cur.fields = none
  BY DEF Context, none
<1>6. cur \in [struct : {f.struct : f \in Schema} \cup {f.inner : f \in Schema},
               buffer : Nat, bufferLen : Nat, offset : Nat, fields : Seq(Spans)]
  BY <1>1, <1>3, <1>4 DEF Context, none
<1>7. CtxInv(cur)
  BY <1>1, <1>4, <1>5, <1>6 DEF CtxInv, Inside
<1> QED BY <1>7 DEF IInv

LEMMA HeaderStep == IInv /\ ReadHeader => IInv'
<1> SUFFICES ASSUME IInv, ReadHeader PROVE IInv'
  OBVIOUS
<1> DEFINE c == [cur EXCEPT !.offset = HeaderLen]
<1>1. /\ HeaderLen \in Nat /\ HeaderLen <= memory.bufferLen /\ memory.bufferLen \in Nat
      /\ cur' = c /\ memory' = memory /\ todo' = todo /\ pc' = "loop"
  <2>1. memory.bufferLen \in Nat
    BY WireAssumption DEF IInv
  <2>2. ChainIDLen \in 4..32 /\ HeaderLen <= memory.bufferLen
    BY DEF ReadHeader, ValidHeader
  <2>3. HeaderLen \in Nat
    BY <2>2 DEF HeaderLen
  <2>4. cur' = c /\ memory' = memory /\ todo' = todo /\ pc' = "loop"
    BY DEF ReadHeader
  <2> QED BY <2>1, <2>2, <2>3, <2>4
<1>2. /\ cur.struct = "root" /\ cur.bufferLen = memory.bufferLen /\ cur.fields = <<>>
      /\ CtxInv(cur)
  BY DEF IInv, ReadHeader, Context
<1>3. /\ c.struct = "root" /\ c.bufferLen = memory.bufferLen /\ c.fields = <<>>
      /\ c.buffer = cur.buffer /\ c.offset = HeaderLen
      /\ c \in [struct : {f.struct : f \in Schema} \cup {f.inner : f \in Schema},
                 buffer : Nat, bufferLen : Nat, offset : Nat, fields : Seq(Spans)]
  BY <1>1, <1>2 DEF CtxInv
<1> HIDE DEF c
<1>4. CtxInv(c)
  BY <1>1, <1>2, <1>3 DEF CtxInv, Inside
<1>5. Tiled(c) /\ c.offset <= c.bufferLen
  BY <1>1, <1>3 DEF Tiled, Before
<1>6. CtxInv(cur)' /\ Tiled(cur)' /\ \A x \in todo : CtxInv(x)'
  BY <1>1, <1>4, <1>5, SameMemory DEF IInv
<1> QED BY <1>1, <1>5, <1>6 DEF IInv

LEMMA FieldStep == IInv /\ ReadField => IInv'
<1> SUFFICES ASSUME IInv, ReadField PROVE IInv'
  OBVIOUS
<1>1. PICK s \in FieldHere(cur) : cur' = Read(cur, s)
  BY DEF ReadField
<1>2. memory' = memory /\ todo' = todo /\ pc' = pc /\ pc = "loop"
  BY DEF ReadField, InLoop
<1>3. CtxInv(cur') /\ Tiled(cur')
  BY <1>1, <1>2, ReadStep DEF IInv
<1>4. (cur').fields # <<>>
  <2>1. cur.fields \in Seq(Spans)
    BY DEF IInv, CtxInv
  <2>2. (cur').fields = Append(cur.fields, s)
    BY <1>1 DEF Read, IInv, CtxInv
  <2> QED BY <2>1, <2>2
<1>5. CtxInv(cur)' /\ Tiled(cur)' /\ \A x \in todo : CtxInv(x)'
  BY <1>2, <1>3, SameMemory DEF IInv
<1> QED BY <1>2, <1>4, <1>5 DEF IInv

LEMMA ContextStep == IInv /\ NextContext => IInv'
<1> SUFFICES ASSUME IInv, NextContext PROVE IInv'
  OBVIOUS
<1>1. PICK c \in todo \cup Inner(cur) : cur' = c /\ todo' = (todo \cup Inner(cur)) \ {c}
  BY DEF NextContext
<1>2. memory' = memory /\ pc' = pc /\ pc = "loop" /\ memory \in Memories /\ CtxInv(cur)
  BY DEF NextContext, AtEnd, IInv
<1>3. \A x \in todo \cup Inner(cur) :
        CtxInv(x) /\ x.offset = 0 /\ x.fields = <<>> /\ x.struct # "root"
  BY <1>2, InnerType DEF IInv
<1>4. Tiled(c) /\ c.offset <= c.bufferLen
  BY <1>3 DEF Tiled, Before, CtxInv
<1>5. CtxInv(cur)' /\ Tiled(cur)' /\ \A x \in todo \cup Inner(cur) : CtxInv(x)'
  BY <1>1, <1>2, <1>3, <1>4, SameMemory
<1> QED BY <1>1, <1>2, <1>3, <1>4, <1>5 DEF IInv

\* The actions that end the reading
LEMMA EndStep ==
  IInv /\ (RefuseHeader \/ RefuseField \/ RefuseRoot \/ Accept \/ UNCHANGED vars) => IInv'
<1> SUFFICES ASSUME IInv, memory' = memory, cur' = cur, todo' = todo,
                    pc' \in {pc, "refused"} \/ (pc = "loop" /\ pc' = "accepted")
             PROVE  IInv'
  BY DEF RefuseHeader, RefuseField, RefuseRoot, Refuse, Accept, AtEnd, vars
<1>1. CtxInv(cur)' /\ (\A x \in todo : CtxInv(x)') /\ (Tiled(cur) => Tiled(cur)')
  BY SameMemory DEF IInv
<1> QED BY <1>1 DEF IInv

LEMMA Step == IInv /\ [Next]_vars => IInv'
BY HeaderStep, FieldStep, ContextStep, EndStep DEF Next
-------------------------------------------------------------------------------

\* A number that was read is one that its C type can hold, and not the greatest
\* (parser_impl.c:145-186).
THEOREM TypeCorrect == Spec => []TypeOK
<1>1. IInv => TypeOK
  <2> SUFFICES ASSUME IInv PROVE TypeOK
    OBVIOUS
  <2>1. \A c \in todo \cup {cur} :
          c.buffer \in Nat /\ c.bufferLen \in Nat /\ c.offset \in Nat
    BY DEF IInv, CtxInv
  <2>2. ASSUME NEW k \in DOMAIN cur.fields
        PROVE  LET s == cur.fields[k]
                   v == Value(cur, s.ptr, s.len)
               IN  /\ s \in Spans
                   /\ s.field.kind = "uint8" =>
                        v[0] + 128 * v[1] < 255 /\ \A d \in 2..9 : v[d] = 0
                   /\ s.field.kind = "uint32" => v[4] < 16 /\ \A d \in 5..9 : v[d] = 0
    <3> DEFINE s == cur.fields[k]
               v == Value(cur, s.ptr, s.len)
    <3>1. InContext(cur, s)
      BY <2>2 DEF IInv, CtxInv
    <3>2. s \in Spans /\ s.ptr \in Nat
      BY <3>1 DEF InContext, Spans
    <3>3. ASSUME s.field.kind \in {"uint8", "uint32"}
          PROVE  InRange(v, s.field.kind) /\ \A d \in Digits : v[d] \in 0..127
      <4>1. WireType(s.field) # 2
        BY <3>3 DEF WireType
      <4>2. s.len \in Lengths(cur, s.ptr) /\ InRange(v, s.field.kind)
        BY <3>1, <4>1 DEF InContext
      <4>3. \A d \in Digits : v[d] \in 0..127
        BY <3>2, <4>2, VarintType DEF IInv
      <4> QED BY <4>2, <4>3
    <3> HIDE DEF s, v
    <3>4. ASSUME s.field.kind = "uint8"
          PROVE  v[0] + 128 * v[1] < 255 /\ \A d \in 2..9 : v[d] = 0
      <4>1. ~AtLeastMax(v, 1, 2) /\ \A d \in 0..9 : v[d] \in 0..127
        BY <3>3, <3>4 DEF InRange, Digits
      <4>2. /\ ~(v[1] >= 2) /\ \A d \in 2..9 : ~(v[d] > 0)
            /\ ~(v[1] = 1 /\ v[0] = 127)
        BY <4>1 DEF AtLeastMax
      <4>3. v[0] \in 0..127 /\ v[1] \in 0..127
        BY <4>1
      <4> QED BY <4>1, <4>2, <4>3
    <3>5. ASSUME s.field.kind = "uint32"
          PROVE  v[4] < 16 /\ \A d \in 5..9 : v[d] = 0
      <4>1. ~AtLeastMax(v, 4, 16) /\ \A d \in 0..9 : v[d] \in 0..127
        BY <3>3, <3>5 DEF InRange, Digits
      <4>2. ~(v[4] >= 16) /\ \A d \in 5..9 : ~(v[d] > 0)
        BY <4>1 DEF AtLeastMax
      <4> QED BY <4>1, <4>2
    <3> QED BY <3>2, <3>4, <3>5 DEF s, v
  <2> QED BY <2>1, <2>2 DEF IInv, TypeOK
<1> QED BY <1>1, Start, Step, PTL DEF Spec

\* No array and no nested message ends behind the message it is in, and no loop
\* gets further than one byte behind its end (parser_impl.c:90-228).
THEOREM InsideCorrect == Spec => []StaysInside
<1>1. IInv => StaysInside
  <2> SUFFICES ASSUME IInv PROVE StaysInside
    OBVIOUS
  <2>1. \A k \in DOMAIN cur.fields :
          WireType(cur.fields[k].field) = 2 =>
            cur.fields[k].ptr + cur.fields[k].len <= cur.bufferLen
    BY DEF IInv, CtxInv, InContext
  <2> QED BY <2>1 DEF IInv, CtxInv, StaysInside
<1> QED BY <1>1, Start, Step, PTL DEF Spec

\* Every byte between the header and the end of a message is part of exactly
\* one field (parser_impl.c:90-228).
THEOREM TilesCorrect == Spec => []BytesAreReadOnce
<1>1. IInv => BytesAreReadOnce
  BY DEF IInv, CtxInv, InContext, Tiled, BytesAreReadOnce
<1> QED BY <1>1, Start, Step, PTL DEF Spec

\* The byte behind a message is read only for a number that the message breaks
\* off in (parser_impl.c:95).
THEOREM OverReadCorrect == Spec => []OverReadIsTruncation
<1>1. IInv => OverReadIsTruncation
  <2> SUFFICES ASSUME IInv, cur.offset > cur.bufferLen, pc \in {"loop", "accepted"}
               PROVE  LET s == cur.fields[Len(cur.fields)]
                      IN  /\ WireType(s.field) = 0
                          /\ \A k \in s.ptr..(cur.bufferLen - 1) : At(cur.buffer + k) >= 128
    BY DEF OverReadIsTruncation
  <2> DEFINE s == cur.fields[Len(cur.fields)]
  <2>1. /\ cur.fields \in Seq(Spans) /\ cur.fields # <<>> /\ Tiled(cur)
        /\ cur.bufferLen \in Nat /\ cur.offset \in Nat /\ cur.offset <= cur.bufferLen + 1
        /\ \A k \in DOMAIN cur.fields : InContext(cur, cur.fields[k])
    BY DEF IInv, CtxInv
  <2>2. Len(cur.fields) \in DOMAIN cur.fields /\ Len(cur.fields) \in Nat
        /\ Len(cur.fields) + 1 # 1 /\ (Len(cur.fields) + 1) - 1 = Len(cur.fields)
    BY <2>1
  <2>3. InContext(cur, s) /\ cur.offset = s.to
    BY <2>1, <2>2 DEF Tiled, Before
  <2> HIDE DEF s
  <2>4. s.ptr \in Nat /\ s.len \in Nat /\ s.to = s.ptr + s.len /\ s.to = cur.bufferLen + 1
        /\ WireType(s.field) # 2
    <3>1. s \in Spans /\ s.to = s.ptr + s.len /\ (WireType(s.field) = 2 => s.to <= cur.bufferLen)
      BY <2>3 DEF InContext
    <3>2. s.ptr \in Nat /\ s.len \in Nat
      BY <3>1 DEF Spans
    <3>3. cur.offset = cur.bufferLen + 1
      BY <2>1
    <3> QED BY <2>1, <2>3, <3>1, <3>2, <3>3
  <2>5. WireType(s.field) = 0
    BY <2>4 DEF WireType
  <2>6. s.len \in Lengths(cur, s.ptr)
    BY <2>3, <2>4 DEF InContext
  <2>7. \A j \in 0..(s.len - 2) : At(cur.buffer + s.ptr + j) >= 128
    BY <2>6 DEF Lengths
  <2>8. ASSUME NEW k \in s.ptr..(cur.bufferLen - 1)
        PROVE  At(cur.buffer + k) >= 128
    <3>1. k - s.ptr \in 0..(s.len - 2) /\ cur.buffer + s.ptr + (k - s.ptr) = cur.buffer + k
      BY <2>1, <2>4 DEF IInv, CtxInv
    <3>2. At(cur.buffer + s.ptr + (k - s.ptr)) >= 128
      BY <2>7, <3>1
    <3> QED BY <3>1, <3>2
  <2> QED BY <2>5, <2>8 DEF s
<1> QED BY <1>1, Start, Step, PTL DEF Spec

\* Every turn of a loop gets on or ends the reading (parser_impl.c:188-228).
THEOREM AdvancesCorrect == Spec => Advances
<1> DEFINE Adv == InLoop => pc' = "refused" \/ cur'.offset > cur.offset
<1>1. IInv /\ [Next]_vars => [Adv]_vars
  <2> SUFFICES ASSUME IInv, Next, InLoop PROVE pc' = "refused" \/ cur'.offset > cur.offset
    OBVIOUS
  <2>1. CASE ReadField
    <3>1. PICK s \in FieldHere(cur) : cur' = Read(cur, s)
      BY <2>1 DEF ReadField
    <3>2. InContext(cur, s) /\ s.from = cur.offset
      BY <3>1, FieldType DEF IInv
    <3>3. (cur').offset = s.to /\ s.to > cur.offset
      BY <3>1, <3>2 DEF Read, InContext, IInv, CtxInv, Spans
    <3> QED BY <3>3
  <2>2. CASE RefuseHeader \/ RefuseField \/ RefuseRoot
    BY <2>2 DEF RefuseHeader, RefuseField, RefuseRoot, Refuse
  <2>3. ~(ReadHeader \/ NextContext \/ Accept)
    BY DEF InLoop, ReadHeader, NextContext, Accept, AtEnd, IInv, CtxInv
  <2> QED BY <2>1, <2>2, <2>3 DEF Next
<1> QED BY <1>1, Start, Step, PTL DEF Spec, Advances
===============================================================================
