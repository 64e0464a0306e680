-------------------------------- MODULE MCWire --------------------------------
(* Wire on whole messages.  Each begins with a header, mostly a valid one.   *)
(* Then every sequence of up to three bytes that tags, lengths and varints   *)
(* are made of, as the fields of each of the nine structs, and varints at    *)
(* the ends of their ranges.  What lies behind a message goes on as one.     *)
EXTENDS Wire, SequencesExt

MCVersion == <<0, 202, 254, 0>>

MCChainChar == (48..57) \cup (65..90) \cup (97..122) \cup {45, 46, 95}

Header(version, chainIDLen, char) ==
  version \o <<chainIDLen>> \o [k \in 1..chainIDLen |-> char] \o [k \in 1..8 |-> 0]

Valid == Header(MCVersion, 4, 97)

\* A field of type 2 with a tag of one or of two bytes
Nest(tag, body) == tag \o <<Len(body)>> \o body

Send(body) == Nest(<<154, 3>>, body)
Vote(body) == Nest(<<218, 4>>, body)
Update(body) == Nest(<<202, 3>>, body)

\* body as the fields of each struct, in a message that is otherwise valid
Within(body) ==
  { body, Nest(<<10>>, body) \o Send(<<>>), Nest(<<10>>, Nest(<<26>>, body)) \o Send(<<>>),
    Send(body), Send(Nest(<<10>>, body)), Send(Nest(<<34>>, body)),
    Vote(body), Update(body), Update(Nest(<<26>>, body)) }

Alphabet == {0, 1, 8, 10, 16, 26, 128, 255}

\* Numbers around the ends of the ranges, and longer than they need be
Limits ==
  LET ones(n) == [k \in 1..n |-> 255]
      zero(n) == [k \in 1..n |-> 128]
  IN  {<<254, 1>>, <<255, 1>>, <<128, 2>>, ones(4) \o <<14>>, ones(4) \o <<15>>,
       ones(4) \o <<16>>, ones(9) \o <<0>>, ones(9) \o <<1>>, ones(9) \o <<2>>,
       zero(9) \o <<0>>, zero(9) \o <<1>>, zero(10) \o <<0>>, <<129, 0>>}

Numbers == {<<tag>> \o v : tag \in {8, 10, 32}, v \in Limits}

Bodies == UNION {Within(b) : b \in BoundedSeq(Alphabet, 3) \cup Numbers}
            \cup {<<34, n>> \o [k \in 1..8 |-> 1] \o Send(<<>>) : n \in 7..9}
            \cup {Send(<<>>) \o b : b \in BoundedSeq(Alphabet, 3)}

\* Messages followed by a byte that ends a varint or one that goes on
Complete == {[bytes |-> Valid \o b \o behind, bufferLen |-> Len(Valid) + Len(b)] :
               b \in Bodies, behind \in {<<0, 0, 0>>, <<1, 128, 1>>, <<128, 0, 0>>}}

\* Headers that are cut off, or have a field that is refused
Headers ==
  { [bytes |-> Header(version, len, char) \o Send(<<>>) \o [k \in 1..45 |-> 97],
     bufferLen |-> 5 + len + 8 + 3 - cut] :
      version \in {MCVersion, <<0, 202, 254, 1>>}, len \in {3, 4, 32, 33},
      char \in {97, 33}, cut \in {0, 3, 4, 11} }
  \cup {[bytes |-> Valid \o Send(<<>>), bufferLen |-> n] : n \in 1..5}

MCMemories == Complete \cup Headers
===============================================================================
