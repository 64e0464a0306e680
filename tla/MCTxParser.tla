------------------------------ MODULE MCTxParser ------------------------------
(* TxParser on messages that have every field once, twice, unreadable or in  *)
(* the wrong place, one more multisig counter and one more participant than  *)
(* fit.  The four slots are the first four of the device (ARM, 32 bits): the *)
(* bits of the second are not cleared, of the others some values are not.    *)
EXTENDS TxParser, SequencesExt

Read(id, ok, val) == [id |-> id, ok |-> ok, val |-> val, chars |-> "other", body |-> <<>>]
Leaf(id, val) == Read(id, "yes", val)
Nest(id, body) == [Leaf(id, 0) EXCEPT !.body = body]

Ticker(len) == [Leaf("ticker", len) EXCEPT !.chars = "upper"]
Schema == Leaf("schema", 1)

Coins == {<<>>, <<Ticker(3)>>, <<Ticker(5)>>, <<Leaf("ticker", 3)>>, <<Leaf("whole", 1)>>,
          <<Read("fractional", "late", 1), Ticker(3)>>, <<Ticker(3), Ticker(3)>>}

FeesFields == {Nest("fees", <<>>), Nest("fees", <<Schema>>)}
  \cup {Nest("fees", <<Leaf("payer", 1), Nest("coin", c)>>) : c \in Coins}

Metadata == {Nest("metadata", <<Schema>>), Nest("metadata", <<Schema, Schema>>)}

Sends == {Nest("send", <<>>), Nest("send", <<Leaf("memo", 5)>>),
          Nest("send", <<Leaf("memo", 129)>>),
          Nest("send", <<Leaf("source", 1), Leaf("source", 1)>>)}
  \cup {Nest("send", <<md, Leaf("memo", 7), Nest("amount", c)>>) : md \in Metadata, c \in Coins}

Votes == {Nest("vote", <<md, Read("voter", ok, 1)>>) : md \in Metadata, ok \in {"yes", "no"}}

MCOverlaid == {<<0, "seen">>, <<0, "signature">>, <<1, "weight">>}
                \cup {2, 3} \X {"seen", "signature", "weight"}

Signature(len) == Leaf("signature", len)

OneParticipant == {Nest("participants", b) :
  b \in {<<>>, <<Leaf("weight", 1)>>, <<Leaf("weight", 1), Leaf("weight", 1)>>,
         <<Read("weight", "no", 1)>>, <<Read("signature", "late", 9)>>,
         <<Signature(20), Leaf("weight", 2)>>}}

Weight == Nest("participants", <<Leaf("weight", 1)>>)

\* Three participants, of which the second leaves no bits behind, and the fourth
Four(body) == <<Weight, Nest("participants", <<>>), Weight, Nest("participants", body)>>

Updates == {Nest("update", <<Leaf("contractId", 1)>> \o ps) :
  ps \in BoundedSeq(OneParticipant, 2)
           \cup {Four(b) : b \in {<<>>, <<Signature(128)>>, <<Signature(129)>>}}
           \cup {Four(<<>>) \o <<Weight>>}}
  \cup {Nest("update", <<Leaf("activation_th", th), Read("admin_th", ok, 1)>>) :
          th \in {1, 2}, ok \in {"yes", "no"}}

Roots == {<<>>, <<Schema>>}
  \cup {<<msg>> : msg \in Sends \cup Votes \cup Updates}
  \cup {<<fees, msg>> : fees \in FeesFields,
          msg \in {Nest("send", <<>>), Nest("send", <<Leaf("memo", 5)>>)}}
  \cup {<<fees, Nest("send", <<>>), fees>> : fees \in FeesFields}
  \cup {<<Nest("send", <<>>), msg>> : msg \in Votes \cup Updates}
  \cup {[n \in 1..k |-> Leaf("multisig", n)] \o <<msg>> :
          k \in 1..3, msg \in {Nest("send", <<>>), Nest("vote", <<>>)}}

MCMessages == [header : {"mainnet"}, root : Roots]
  \cup [header : {"empty"}, root : {<<>>}]
  \cup [header : {"testnet", "unreadable"}, root : {<<msg>> : msg \in Sends}]

\* The fields of a set of messages are nested three deep.
MCFields ==
  LET outer == UNION {Range(m.root) : m \in MCMessages}
      In(fs) == UNION {Range(f.body) : f \in fs}
  IN  outer \cup In(outer) \cup In(In(outer))
===============================================================================
