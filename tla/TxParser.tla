------------------------------- MODULE TxParser -------------------------------
(* parser_impl.c over parser_txdef.c: how a message becomes parser_tx_obj,   *)
(* and what the object keeps from one message to the next.                   *)
(*                                                                           *)
(* A message is its header and the fields of its root.  A field is a record: *)
(* its id, whether its value can be read (wire type, length, range), its     *)
(* value, of what characters it is if it is a ticker, and its fields if it   *)
(* is a message itself (<<>> otherwise).  How fields lie in the bytes of a   *)
(* message is module Wire.  The value of a ticker, a memo or a participant's *)
(* signature is its length.                                                  *)
(*                                                                           *)
(* A value is refused "late" when it is after it was stored: of an array     *)
(* that is longer than what is left the length (not the pointer), and a      *)
(* negative int64 (val is its magnitude).                                    *)
EXTENDS Naturals, FiniteSets, Sequences

CONSTANTS Fields,          \* what may be a field of a message
          Messages,        \* what the host may send
          Network,         \* the header this build accepts, "mainnet" or "testnet"
          MaxMultisig,     \* PBIDX_MULTISIG_COUNT_MAX
          MaxParticipants, \* PBIDX_UPDATEMSG_PARTICIPANTS_MAX
          Overlaid,        \* parts of slots that parser_sendmsgInit clears
          MemoSlot         \* the slot whose signatureLen lies where memoLen does

Slots == 0..(MaxParticipants - 1)

\* What a length of 16 bits can be
Lengths == 0..65535

\* What _readUInt32 and _readUInt8 read is stored after it was checked.
\* parser_sendmsgInit clears memoLen, wherever it lies.
ASSUME TxParserAssumption ==
  /\ \A f \in Fields :
       /\ f \in [id : STRING, ok : {"yes", "late", "no"}, val : Nat, chars : {"upper", "other"},
                body : Seq(Fields)]
       /\ f.id = "signature" => f.val \in Lengths
       /\ f.id \in {"schema", "voteOption", "activation_th", "admin_th", "weight"} => f.ok # "late"
  /\ Messages \subseteq [header : STRING, root : Seq(Fields)]
  /\ Network \in {"mainnet", "testnet"}
  /\ MaxMultisig \in Nat /\ MaxParticipants \in Nat /\ MemoSlot \in Nat
  /\ Overlaid \subseteq Slots \X {"seen", "signature", "weight"}
  /\ MemoSlot \in Slots => <<MemoSlot, "signature">> \in Overlaid

VARIABLES message, \* history: the message parsed last
          obj,     \* parser_tx_obj
          verdict  \* what tx_parse returned for it, "none" before the first

vars == <<message, obj, verdict>>

-------------------------------------------------------------------------------
(* The fields of each message, and the bits that say which were seen *)

Kinds == {"send", "vote", "update"}

Known ==
  [root     |-> {"fees", "multisig"} \cup Kinds,
   fees     |-> {"payer", "coin"},
   coin     |-> {"whole", "fractional", "ticker"},
   metadata |-> {"schema"},
   send     |-> {"metadata", "source", "destination", "amount", "memo"},
   vote     |-> {"metadata", "proposalId", "voter", "voteOption"},
   update   |-> {"metadata", "contractId", "participants", "activation_th", "admin_th"}]

\* The structs of parser_tx_obj.  The metadata of the three messages is one
\* struct, since they share a union.
Structs == DOMAIN Known \cup {"amount"}

KnownIn(struct) == IF struct = "amount" THEN Known.coin ELSE Known[struct]

Repeated == {"multisig", "participants"}

InParticipant == {"signature", "weight"}

\* A bit for each message (a mutant of Bit)
BitOfEach(id) == id

\* The three messages share seen.tx_message.
Bit(id) == IF id \in Kinds THEN "tx_message" ELSE id

\* The fields that a struct has one place for
Single(struct) == KnownIn(struct) \ Repeated

\* Pointer, length and number of a field that is not there
NoField == [id |-> "none", ok |-> "no", val |-> 0, chars |-> "other", body |-> <<>>]

EmptySlot == [seen |-> {}, signature |-> 0, weight |-> 0]

Empty == [seen |-> [s \in Structs |-> {}],
          fields |-> [s \in Structs |-> [id \in Single(s) |-> NoField]],
          multisig |-> <<>>, participants |-> 0,
          slots |-> [s \in Slots |-> EmptySlot]]

\* The values that parser_updatemsgInit leaves alone: they lie behind every
\* other message of the union.
Uncleared == {<<"update", "activation_th">>, <<"update", "admin_th">>}

\* participant_array is not initialised (parser_ParticipantmsgInit has no
\* caller), but it is in a union with the other messages: some parts of some
\* slots are where parser_sendmsgInit writes zeros.
SlotLeftOver(o, s) ==
  [part \in DOMAIN EmptySlot |->
     IF <<s, part>> \in Overlaid THEN EmptySlot[part] ELSE o.slots[s][part]]

\* What an init that clears the rest leaves of the object o
LeftOver(o) ==
  [Empty EXCEPT
    !.fields = [s \in Structs |-> [id \in Single(s) |->
                  IF <<s, id>> \in Uncleared THEN o.fields[s][id] ELSE NoField]],
    !.slots = [s \in Slots |-> SlotLeftOver(o, s)]]

\* An init that leaves the bits of the metadata (a mutant of TxInit)
TxInitKeepingMetadata(o) == [LeftOver(o) EXCEPT !.seen["metadata"] = o.seen["metadata"]]

\* An init that leaves the counters (a mutant of TxInit)
TxInitKeepingMultisig(o) == [LeftOver(o) EXCEPT !.multisig = o.multisig]

\* parser_txInit
TxInit(o) == LeftOver(o)

-------------------------------------------------------------------------------
(* Reading: r is parser_tx_obj and the error of the reading so far, which    *)
(* stops at the first one.                                                   *)

Fail(r, err) == [r EXCEPT !.err = err]

\* CHECK_NOT_DUPLICATED, if the field is not one
See(r, struct, f) == [r EXCEPT !.obj.seen[struct] = @ \cup {Bit(f.id)}]

\* READ_ARRAY and its like, if the field can be read or is refused late
Keep(r, struct, f) == [r EXCEPT !.obj.fields[struct][f.id] = f]

ReadOnce(r, struct, f) ==
  IF Bit(f.id) \in r.obj.seen[struct] THEN Fail(r, "duplicated_field")
  ELSE IF f.ok = "no" THEN Fail(See(r, struct, f), "unreadable")
  ELSE IF f.ok = "late" THEN Fail(Keep(See(r, struct, f), struct, f), "unreadable")
  ELSE Keep(See(r, struct, f), struct, f)

Count(r, f) == [r EXCEPT !.obj.multisig = Append(@, f.val)]

\* A counter too many (a mutant of ReadMultisig)
ReadMultisigTooMany(r, f) ==
  IF Len(r.obj.multisig) > MaxMultisig THEN Fail(r, "value_out_of_range")
  ELSE IF f.ok # "yes" THEN Fail(r, "unreadable")
  ELSE Count(r, f)

\* parser_readPB_Multisig, which reads into variables of its own
ReadMultisig(r, f) ==
  IF Len(r.obj.multisig) >= MaxMultisig THEN Fail(r, "value_out_of_range")
  ELSE IF f.ok # "yes" THEN Fail(r, "unreadable")
  ELSE Count(r, f)

SeeInSlot(r, slot, f) == [r EXCEPT !.obj.slots[slot].seen = @ \cup {f.id}]

KeepInSlot(r, slot, f) == [r EXCEPT !.obj.slots[slot][f.id] = f.val]

\* One field of parser_readPB_Participant
ReadInSlot(slot, r, f) ==
  IF r.err # "ok" THEN r
  ELSE IF f.id \notin InParticipant THEN Fail(r, "unexpected_field")
  ELSE IF f.id \in r.obj.slots[slot].seen THEN Fail(r, "duplicated_field")
  ELSE IF f.ok = "no" THEN Fail(SeeInSlot(r, slot, f), "unreadable")
  ELSE IF f.ok = "late" THEN Fail(KeepInSlot(SeeInSlot(r, slot, f), slot, f), "unreadable")
  ELSE KeepInSlot(SeeInSlot(r, slot, f), slot, f)

\* The loop of parser_readPB_Participant, turn by turn
SlotTurns(r, slot, body) ==
  LET after[n \in 0..Len(body)] ==
        IF n = 0 THEN r ELSE ReadInSlot(slot, after[n - 1], body[n])
  IN  after

NextSlot(r) == [r EXCEPT !.obj.participants = @ + 1]

ReadParticipant(r, f) ==
  IF r.obj.participants >= MaxParticipants THEN Fail(r, "unexpected_number_items")
  ELSE IF f.ok # "yes" THEN Fail(r, "unreadable")
  ELSE LET done == SlotTurns(r, r.obj.participants, f.body)[Len(f.body)]
       IN  IF done.err = "ok" THEN NextSlot(done) ELSE done

\* One turn of the loops of parser_readPB_Root, _Fees, _Coin, _Metadata,
\* _SendMsg, _VoteMsg and _UpdateMultisigMsg
ReadField(r, struct, f) ==
  IF r.err # "ok" THEN r
  ELSE IF f.id \notin KnownIn(struct) THEN Fail(r, "unexpected_field")
  ELSE IF f.id = "multisig" THEN ReadMultisig(r, f)
  ELSE IF f.id = "participants" THEN ReadParticipant(r, f)
  ELSE ReadOnce(r, struct, f)

\* The reader after each turn
Turns(r, struct, body) ==
  LET after[n \in 0..Len(body)] ==
        IF n = 0 THEN r ELSE ReadField(after[n - 1], struct, body[n])
  IN  after

ReadStruct(r, struct, body) == Turns(r, struct, body)[Len(body)]

Present(o, struct, id) == o.fields[struct][id] # NoField

\* WITH_CONTEXT: a field that is absent or empty leaves the defaults.
BodyOf(o, struct, id) == o.fields[struct][id].body

ReadNested(r, struct, id, nested) ==
  IF r.err # "ok" THEN r ELSE ReadStruct(r, nested, BodyOf(r.obj, struct, id))

ValidTicker(o, coin) == o.fields[coin]["ticker"].val \in 3..4

\* _checkUppercaseLetters
UppercaseTicker(o, coin) == o.fields[coin]["ticker"].chars = "upper"

\* The validation at the end of parser_readPB_Coin.  Neither number is negative,
\* or it would not have been read.
ValidateCoin(r, coin) ==
  IF r.err # "ok" THEN r
  ELSE IF ~ValidTicker(r.obj, coin) THEN Fail(r, "value_out_of_range")
  ELSE IF ~UppercaseTicker(r.obj, coin) THEN Fail(r, "unexpected_characters")
  ELSE r

\* parser_readPB_Coin
ReadCoin(r, struct, id, coin) ==
  LET done == ReadNested(r, struct, id, coin)
  IN  IF BodyOf(r.obj, struct, id) = <<>> THEN done ELSE ValidateCoin(done, coin)

ReadFees(r) == ReadCoin(ReadNested(r, "root", "fees", "fees"), "fees", "coin", "coin")

KindsIn(o) == {k \in Kinds : Present(o, "root", k)}

\* The switch of parser_Tx
ReadMessage(r) ==
  IF r.err # "ok" THEN r
  ELSE IF KindsIn(r.obj) = {} THEN Fail(r, "no_data")
  ELSE LET kind == CHOOSE k \in Kinds : Present(r.obj, "root", k)
           inner == ReadNested(ReadNested(r, "root", kind, kind), kind, "metadata", "metadata")
       IN  IF kind = "send" THEN ReadCoin(inner, "send", "amount", "amount") ELSE inner

\* sendmsg.memoLen, whatever message it is that lies there
MemoLen(o) ==
  IF Present(o, "root", "update") THEN
    IF MemoSlot \in Slots THEN o.slots[MemoSlot].signature ELSE 0
  ELSE o.fields["send"]["memo"].val

\* parser_validate, after parser_readRoot has read the header
Validate(r, header) ==
  IF r.err # "ok" THEN r
  ELSE IF header # Network THEN Fail(r, "unexpected_chain")
  ELSE IF MemoLen(r.obj) > 128 THEN Fail(r, "unexpected_buffer_end")
  ELSE r

\* tx_parse on the object o left by the message before.  No bytes at all are
\* refused by parser_init, whose result is ignored, before it clears anything.
TxParse(o, m) ==
  LET header == [obj |-> IF m.header = "empty" THEN o ELSE TxInit(o),
                 err |-> IF m.header \in {"empty", "unreadable"} THEN "unreadable" ELSE "ok"]
      root == IF header.err = "ok" THEN ReadStruct(header, "root", m.root) ELSE header
  IN  Validate(ReadMessage(ReadFees(root)), m.header)

-------------------------------------------------------------------------------

Init == message = [header |-> "none", root |-> <<>>] /\ obj = Empty /\ verdict = "none"

Parse(m) ==
  /\ message' = m
  /\ LET r == TxParse(obj, m)
     IN  obj' = r.obj /\ verdict' = r.err

\* parser_tx_obj is a global that is zero when the app starts.
PowerCycle == message' = [header |-> "none", root |-> <<>>] /\ obj' = Empty /\ verdict' = "none"

Next == PowerCycle \/ \E m \in Messages : Parse(m)

Spec == Init /\ [][Next]_vars

-------------------------------------------------------------------------------
(* Properties.  WellFormed says of a message, without reading it field by    *)
(* field, what the parser is to accept.                                      *)

\* The seen bits are those of parser_txdef.h, and the counters stay within the
\* arrays they index (parser_impl.c:358-381, 475-529).
TypeOK ==
  /\ obj.seen \in [Structs -> SUBSET UNION {{Bit(id) : id \in Single(s)} : s \in Structs}]
  /\ obj.multisig \in Seq(Nat) /\ Len(obj.multisig) <= MaxMultisig
  /\ obj.participants \in 0..MaxParticipants
  /\ obj.slots \in [Slots -> [seen : SUBSET InParticipant, signature : Lengths, weight : Nat]]

\* Where body has the fields with one of ids
Occurrences(body, ids) == {n \in DOMAIN body : body[n].id \in ids}

AtMostOnce(body, ids) == \A j, k \in Occurrences(body, ids) : j = k

\* The field of body with one of ids
Found(body, ids) ==
  IF Occurrences(body, ids) = {} THEN NoField
  ELSE body[CHOOSE n \in Occurrences(body, ids) : TRUE]

\* How many fields with this id there are up to the n-th of body
Rank(body, id, n) == Cardinality({k \in Occurrences(body, {id}) : k <= n})

\* The fields that the message m has for each struct
Bodies(m) ==
  LET In(body, ids) == Found(body, ids).body
  IN  [root     |-> m.root,
       fees     |-> In(m.root, {"fees"}),
       coin     |-> In(In(m.root, {"fees"}), {"coin"}),
       send     |-> In(m.root, {"send"}),
       vote     |-> In(m.root, {"vote"}),
       update   |-> In(m.root, {"update"}),
       metadata |-> In(In(m.root, Kinds), {"metadata"}),
       amount   |-> In(In(m.root, Kinds), {"amount"})]

ValidParticipant(f) ==
  /\ \A n \in DOMAIN f.body : f.body[n].id \in InParticipant /\ f.body[n].ok = "yes"
  /\ \A id \in InParticipant : AtMostOnce(f.body, {id})

ValidStruct(struct, body) ==
  /\ \A n \in DOMAIN body : body[n].id \in KnownIn(struct) /\ body[n].ok = "yes"
  /\ \A id \in Single(struct) : AtMostOnce(body, {id})
  /\ struct \in {"coin", "amount"} /\ body # <<>> =>
       /\ Found(body, {"ticker"}).val \in 3..4
       /\ Found(body, {"ticker"}).chars = "upper"

\* Where the update of the message m has its participants
Participants(m) == Occurrences(Bodies(m).update, {"participants"})

WellFormed(m) ==
  /\ m.header = Network
  /\ \A struct \in Structs : ValidStruct(struct, Bodies(m)[struct])
  /\ Occurrences(m.root, Kinds) # {} /\ AtMostOnce(m.root, Kinds)
  /\ Cardinality(Occurrences(m.root, {"multisig"})) <= MaxMultisig
  /\ Cardinality(Participants(m)) <= MaxParticipants
  /\ \A n \in Participants(m) : ValidParticipant(Bodies(m).update[n])
  /\ Found(Bodies(m).send, {"memo"}).val <= 128

\* Whatever was parsed before: a message with a field too many, an unknown
\* field, two of the three messages or too many repetitions is refused, so that
\* two different byte strings are not shown as the same transaction
\* (parser_impl.c:267-600, "rejected to avoid malleability").
AcceptedIsWellFormed == verdict = "ok" => WellFormed(message)

\* The slot of the participant that is the n-th field of the update
SlotOf(m, n) == Rank(Bodies(m).update, "participants", n) - 1

\* The signature that parser_validate takes for a memo is no longer than one.
FitsMemo(m) ==
  \A n \in Participants(m) :
    SlotOf(m, n) = MemoSlot => Found(Bodies(m).update[n].body, {"signature"}).val <= 128

\* A message is refused neither for what the one before it contained nor, when
\* it is an update, for what lies where a send has its memo: as long as its
\* participants have slots whose bits are cleared, the signature of one of them
\* being too long for a memo is all that can refuse it (parser_txdef.c:127-156,
\* parser.c:80-90).
HistoryDoesNotRefuse ==
  /\ WellFormed(message)
  /\ \A n \in Participants(message) : <<SlotOf(message, n), "seen">> \in Overlaid
  => verdict = IF FitsMemo(message) THEN "ok" ELSE "unexpected_buffer_end"

\* The slot s describes the participant f; a value that f does not have is
\* zero if the part of the slot is one that is cleared.
Describes(s, f) ==
  \A id \in InParticipant :
    Occurrences(f.body, {id}) # {} \/ <<s, id>> \in Overlaid =>
      obj.slots[s][id] = Found(f.body, {id}).val

\* The struct holds the field id of body, and nothing if body has none, unless
\* it is one of those that are not cleared.
Holds(struct, id, body) ==
  Occurrences(body, {id}) # {} \/ <<struct, id>> \notin Uncleared =>
    obj.fields[struct][id] = Found(body, {id})

\* An accepted message is described by its own fields, in their order, and by
\* nothing left over from another one, accepted or refused half way
\* (parser_impl.c:602-690).  Only a threshold and a participant's weight or
\* signature that the message does not have may be an older one's.
FieldsAreOfTheMessage ==
  verdict = "ok" =>
    /\ Len(obj.multisig) = Cardinality(Occurrences(message.root, {"multisig"}))
    /\ \A n \in Occurrences(message.root, {"multisig"}) :
         obj.multisig[Rank(message.root, "multisig", n)] = message.root[n].val
    /\ obj.participants = Cardinality(Participants(message))
    /\ \A n \in Participants(message) :
         Describes(SlotOf(message, n), Bodies(message).update[n])
    /\ \A struct \in Structs : \A id \in Single(struct) :
         Holds(struct, id, Bodies(message)[struct])

\* parser_txdef.h:192 "These bits are to avoid duplicated fields": a message
\* without duplicated fields is not refused as one that has them.
OnlyDuplicatesAreDuplicated == verdict = "duplicated_field" => ~WellFormed(message)
===============================================================================
