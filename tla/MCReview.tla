------------------------------- MODULE MCReview -------------------------------
(* Review on both devices and both networks, with sends, votes and updates.  *)
(* On a Nano S an address of 42 characters has two pages, a memo of 36 ends  *)
(* with an empty page and one of 80 has three pages; of one of 40 bytes      *)
(* asciify may leave less or nothing.                                        *)
EXTENDS Review

MCBuilds == [target : {"S", "X"}, OFFSET : {0, 1}]

Coin(whole, fractional) == [whole |-> whole, fractional |-> fractional]

Base == [msgType |-> "Send", memoLen |-> 0, memoText |-> 0, textLen |-> 42, multisig |-> 0,
         participants |-> 0, amount |-> Coin(1, 0), fee |-> Coin(0, 0), id |-> <<7>>]

Sends == {[Base EXCEPT !.memoLen = m[1], !.memoText = m[2], !.multisig = n] :
            m \in {<<0, 0>>, <<36, 36>>, <<80, 80>>, <<40, 0>>, <<40, 30>>}, n \in 0..2}

\* Amounts at the ends of their ranges, and decimals that are too many
Payments == {[Base EXCEPT !.amount = a, !.fee = f] :
               a \in {Coin(0, 5), Coin(2147483647, 999999999), Coin(10, 1000000000)},
               f \in {Coin(900, 10), Coin(0, 1000000000)}}

\* Numbers of no byte, of up to three bytes, and around 9999, the greatest one
\* that fits two bytes of bcdOut
IdBytes == {<<>>, <<0>>, <<1, 0>>, <<0, 19, 136>>, <<39, 15>>, <<39, 16>>, <<255, 255, 255>>}

Votes == {[Base EXCEPT !.msgType = "Vote", !.id = i] : i \in IdBytes}

Updates == {[Base EXCEPT !.msgType = "Update", !.id = i, !.participants = n] :
              i \in {<<7>>, <<200, 1>>}, n \in 0..2}

MCTxs == Sends \cup Payments \cup Votes \cup Updates

\* What is left when another message is refused at its root, in its memo, for
\* its amount or in a participant
MCDrafts == {[Base EXCEPT !.msgType = "Invalid"],
             [Base EXCEPT !.memoLen = 65534, !.memoText = 254, !.textLen = 4],
             [Base EXCEPT !.amount = Coin(1, 1000000000)],
             [Base EXCEPT !.msgType = "Update", !.participants = 1]}
===============================================================================
