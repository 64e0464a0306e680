------------------------------ MODULE ReviewProofs ------------------------------
(* Review for every transaction and every way through it.  The invariant is  *)
(* about pages; that they are a text is in FormatsProofs.  Bounds holds of   *)
(* every review, Sound of those that no packet of the host disturbs.         *)
EXTENDS Review, FormatsProofs, SequenceTheorems

\* The globals of view.c hold values of their types, and small ones.
ViewTyped ==
  /\ idx \in -1..64 /\ pageIdx \in 0..7 /\ pageCount \in 0..8
  /\ shown[1] \in Names \X (0..255) /\ shown[2] \in 0..127

\* viewdata describes a page that the transaction has, and one that fits its line.
Current ==
  /\ idx \in 0..(NumItems(tx) - 1) /\ ~Unshowable(tx, Item(tx, idx))
  /\ pageCount = Pages(tx, Item(tx, idx)) /\ pageIdx \in 0..(pageCount - 1)
  /\ shown = <<Item(tx, idx), pageIdx>>

\* The pages of the first n items of t are in S.
HasBelow(S, t, n) ==
  \A i \in 0..(n - 1) : \A p \in 0..(Pages(t, Item(t, i)) - 1) : <<Item(t, i), p>> \in S

HasUpTo(S, t, i, page) == \A p \in 0..page : <<Item(t, i), p>> \in S

\* S has pages of t only.
IsOfTx(S, t) ==
  \A x \in S : \E i \in 0..(NumItems(t) - 1) : \E p \in 0..(Pages(t, Item(t, i)) - 1) :
    x = <<Item(t, i), p>>

\* Whose transaction it is: what packets leave under the screen disturbs a review.
Owned ==
  /\ tx \in Txs \cup Drafts /\ disturbed \in BOOLEAN
  /\ ~disturbed => tx \in Txs

Globals ==
  /\ build \in Builds /\ Owned
  /\ screen \in {"idle", "review", "menu", "error"}
  /\ step \in {0, 1, 2, 4, 5, 65535} /\ inside \in {0, 1}
  /\ ViewTyped
  /\ lefts \in 0..MaxLeft

\* Where a Nano X is in its flow, and what flow_inside_loop says of it.
InFlow ==
  OnX /\ screen = "review" =>
    step \in {0, 2, 4, 5} /\ inside = IF step = 2 THEN 1 ELSE 0

\* How far a position can be, whatever is reviewed
InRange ==
  /\ AtItem => idx >= 0 /\ idx <= 63
  /\ OnX /\ screen = "review" /\ step \in {4, 5} => idx >= 1 /\ (pageIdx = 0 \/ idx <= 63)

OnMenu == screen = "menu" => ~OnX

\* What holds of every review, a disturbed one too
Bounds == Globals /\ InFlow /\ InRange /\ OnMenu

OnItem ==
  AtItem => Current /\ HasBelow(seen, tx, idx) /\ HasUpTo(seen, tx, idx, pageIdx)

\* The two ends of a Nano X's flow are the ends of the transaction.
AtEnds ==
  OnX /\ screen = "review" =>
    /\ step = 0 => idx = -1 /\ pageIdx = 0
    /\ step \in {4, 5} => idx = NumItems(tx) /\ pageIdx = 0 /\ HasBelow(seen, tx, NumItems(tx))

Sound == OnItem /\ AtEnds /\ IsOfTx(seen, tx)

IInv == Bounds /\ (~disturbed => Sound)

\* A position that may come next: of t, and with every page before it in S.
Reachable(S, t, at) ==
  /\ at[1] \in -1..NumItems(t) /\ at[2] \in 0..63
  /\ HasBelow(S, t, at[1]) /\ HasUpTo(S, t, at[1], at[2] - 1)
  /\ at[1] \in 0..(NumItems(t) - 1) => at[2] < Pages(t, Item(t, at[1]))
  /\ at[1] = NumItems(t) => at[2] = 0
-------------------------------------------------------------------------------
(* Items *)

LEMMA TxType ==
  ASSUME NEW t \in Parsed
  PROVE  /\ t.msgType \in {"Send", "Vote", "Update", "Invalid"}
         /\ t.memoLen \in Nat /\ t.memoText \in 0..255 /\ t.textLen \in 0..255
         /\ t.multisig \in 0..8 /\ t.participants \in 0..16
<1>1. /\ t.msgType \in {"Invalid", "Send", "Vote", "Update"}
      /\ t.memoLen \in 0..UINT16_MAX /\ t.memoText \in 0..255 /\ t.textLen \in 0..255
      /\ t.multisig \in 0..8 /\ t.participants \in 0..16
  BY DEF Parsed
<1> QED BY <1>1

LEMMA NumberTypes ==
  ASSUME NEW t \in Parsed
  PROVE  t.amount \in Coins /\ t.fee \in Coins /\ t.id \in Seq(0..255)
BY DEF Parsed

\* What is accepted is a message of one of three types.
LEMMA Accepted ==
  ASSUME NEW t \in Txs
  PROVE  t \in Parsed /\ t.msgType \in {"Send", "Vote", "Update"}
<1>1. t \in Parsed /\ t.msgType # "Invalid"
  BY ReviewAssumption
<1> QED BY <1>1, TxType

LEMMA OwnedType ==
  ASSUME Owned
  PROVE  tx \in Parsed /\ (~disturbed => tx \in Txs)
<1>1. Txs \subseteq Parsed /\ Drafts \subseteq Parsed
  BY ReviewAssumption
<1> QED BY <1>1 DEF Owned

LEMMA BuildType ==
  ASSUME build \in Builds
  PROVE  OFFSET \in {0, 1} /\ ValueLen \in {37, 4096} /\ OnX \in BOOLEAN
<1>1. build.OFFSET \in {0, 1}
  BY ReviewAssumption
<1>2. ValueLen \in {37, 4096}
  BY DEF ValueLen, MAX_CHARS_PER_VALUE1_LINE, MAX_CHARS_PER_VALUE_LINE
<1> QED BY <1>1, <1>2 DEF OFFSET, OnX

\* What a field number stands for
LEMMA FieldNames ==
  ASSUME build \in Builds, NEW t \in Parsed, NEW f \in Int
  PROVE  /\ t.msgType = "Send" /\ f # FIELD_CHAINID =>
              /\ f + OFFSET \in 1..5 =>
                   FieldAt(t, f) \in {"source", "destination", "amount", "fee", "memo"}
              /\ f + OFFSET \notin 1..5 => FieldAt(t, f) = "variable"
         /\ t.msgType = "Vote" /\ f # FIELD_CHAINID =>
              /\ f + OFFSET \in 1..3 => FieldAt(t, f) \in {"proposalId", "voter", "selection"}
              /\ f + OFFSET \notin 1..3 => FieldAt(t, f) = "variable"
         /\ t.msgType = "Update" /\ f # FIELD_CHAINID =>
              /\ f + OFFSET \in {1, 3, 4} => FieldAt(t, f) \in {"contractId", "activation", "admin"}
              /\ f + OFFSET = 2 => FieldAt(t, f) = "participant"
              /\ f + OFFSET \notin 1..4 => FieldAt(t, f) = "variable"
         /\ f = FIELD_CHAINID => FieldAt(t, f) = "chainId"
<1>1. OFFSET \in {0, 1}
  BY BuildType
<1>2. CASE t.msgType = "Send"
  BY <1>1, <1>2 DEF FieldAt, Fields
<1>3. CASE t.msgType = "Vote"
  BY <1>1, <1>3 DEF FieldAt, Fields
<1>4. CASE t.msgType = "Update"
  BY <1>1, <1>4 DEF FieldAt, Fields
<1>5. f = FIELD_CHAINID => FieldAt(t, f) = "chainId"
  BY DEF FieldAt
<1> QED BY <1>2, <1>3, <1>4, <1>5, TxType

\* How many items there are
LEMMA Counts ==
  ASSUME build \in Builds, NEW t \in Parsed
  PROVE  /\ t.msgType = "Send" => NumItems(t) = 6 - OFFSET - (IF t.memoLen = 0 THEN 1 ELSE 0) + t.multisig
         /\ t.msgType = "Vote" => NumItems(t) = 4 - OFFSET
         /\ t.msgType = "Update" => NumItems(t) = 4 - OFFSET + 2 * t.participants
                                    /\ FixCount(t) = 5 - OFFSET
         /\ NumItems(t) \in 0..64 /\ (t.msgType # "Invalid" => NumItems(t) >= 3)
<1>1. OFFSET \in {0, 1}
  BY BuildType
<1>2. CASE t.msgType = "Send"
  <2>1. Len(Fields["Send"]) = 5
    BY DEF Fields
  <2> QED BY <1>1, <1>2, <2>1, TxType DEF NumItems, FixCount
<1>3. CASE t.msgType = "Vote"
  <2>1. Len(Fields["Vote"]) = 3
    BY DEF Fields
  <2> QED BY <1>1, <1>3, <2>1, TxType DEF NumItems, FixCount
<1>4. CASE t.msgType = "Update"
  <2>1. Len(Fields["Update"]) = 4
    BY DEF Fields
  <2> QED BY <1>1, <1>4, <2>1, TxType DEF NumItems, FixCount
<1>5. CASE t.msgType = "Invalid"
  BY <1>5 DEF NumItems
<1> QED BY <1>2, <1>3, <1>4, <1>5, TxType

\* Item by the name of its field
LEMMA ItemOfField ==
  ASSUME NEW t, NEW i, NEW field, field = FieldAt(t, MapDisplayIdx(t, i)),
         t.msgType # "Invalid"
  PROVE  /\ field = "participant" => Item(t, i) = Participant(i)
         /\ field \notin {"participant", "variable"} => Item(t, i) = <<field, 0>>
         /\ field = "variable" =>
              Item(t, i) = IF t.msgType = "Send" /\ i < NumItems(t)
                             THEN <<"multisig", (i - FixCount(t)) % 256>> ELSE NoItem
BY DEF Item, ItemOf

\* An item's name and index, which tell it from NoItem
LEMMA ItemType ==
  ASSUME NEW name \in Names, NEW n \in 0..255, name # "?"
  PROVE  <<name, n>> \in Names \X (0..255) /\ <<name, n>> # NoItem
BY DEF NoItem

\* NoItem is the item behind the last one only.
LEMMA EndOfItems ==
  ASSUME NEW t \in Parsed, NEW i \in Int, NEW field, field = FieldAt(t, MapDisplayIdx(t, i)),
         build \in Builds, t.msgType # "Invalid", i >= 0, i <= NumItems(t),
         field \in Names \cup {"participant", "variable"}, field # "?",
         field = "participant" => (i - FIELD_PARTICIPANT) \div 2 \in 0..255,
         field = "variable" /\ t.msgType # "Send" => i = NumItems(t),
         i = NumItems(t) => field = "variable"
  PROVE  /\ Item(t, i) = NoItem <=> i = NumItems(t)
         /\ Item(t, i) \in Names \X (0..255)
<1>1. NumItems(t) \in Int
  BY Counts
<1>2. CASE field = "participant"
  <2>1. Item(t, i) = Participant(i)
    BY <1>2, ItemOfField
  <2> DEFINE n == (i - FIELD_PARTICIPANT) \div 2
  <2>2. Participant(i) \in {<<"signature", n>>, <<"weight", n>>}
    BY DEF Participant
  <2>3. n \in 0..255
    BY <1>2
  <2> HIDE DEF n
  <2>4. Item(t, i) \in Names \X (0..255) /\ Item(t, i) # NoItem
    <3>1. "signature" \in Names /\ "weight" \in Names
      BY DEF Names
    <3> QED BY <2>1, <2>2, <2>3, <3>1, ItemType
  <2>5. i # NumItems(t)
    BY <1>2
  <2> QED BY <2>4, <2>5
<1>3. CASE field \notin {"participant", "variable"}
  <2>1. Item(t, i) = <<field, 0>>
    BY <1>3, ItemOfField
  <2>2. field \in Names /\ 0 \in 0..255
    BY <1>3
  <2>3. Item(t, i) \in Names \X (0..255) /\ Item(t, i) # NoItem
    BY <2>1, <2>2, ItemType, Zenon
  <2>4. i # NumItems(t)
    BY <1>3
  <2> QED BY <2>3, <2>4
<1>4. CASE field = "variable" /\ t.msgType = "Send" /\ i < NumItems(t)
  <2>1. Item(t, i) = <<"multisig", (i - FixCount(t)) % 256>>
    BY <1>4, ItemOfField
  <2>2. FixCount(t) \in Int
    BY <1>4, BuildType DEF FixCount, Fields
  <2>3. i - FixCount(t) \in Int
    BY <2>2
  <2>4. \A z \in Int : z % 256 \in 0..255
    BY SMT
  <2>5. (i - FixCount(t)) % 256 \in 0..255
    BY <2>3, <2>4
  <2>6. Item(t, i) \in Names \X (0..255) /\ Item(t, i) # NoItem
    <3>1. "multisig" \in Names
      BY DEF Names
    <3> QED BY <2>1, <2>5, <3>1, ItemType
  <2>7. i # NumItems(t)
    BY <1>1, <1>4
  <2> QED BY <2>6, <2>7
<1>5. CASE field = "variable" /\ ~(t.msgType = "Send" /\ i < NumItems(t))
  <2>1. Item(t, i) = NoItem
    BY <1>5, ItemOfField
  <2>2. i = NumItems(t)
    BY <1>1, <1>5
  <2>3. NoItem \in Names \X (0..255)
    BY DEF NoItem, Names
  <2> QED BY <2>1, <2>2, <2>3
<1> QED BY <1>2, <1>3, <1>4, <1>5

\* The items are those below NumItems, and behind them there is none
\* (parser.c:92-154, 186-431).
THEOREM ItemsEnd ==
  ASSUME build \in Builds, NEW t \in Parsed, NEW i \in 0..NumItems(t)
  PROVE  /\ Item(t, i) = NoItem <=> i = NumItems(t)
         /\ Item(t, i) \in Names \X (0..255)
<1>1. OFFSET \in {0, 1} /\ i \in Nat /\ i <= NumItems(t) /\ NumItems(t) \in 0..64
  BY BuildType, Counts
<1>2. t.msgType # "Invalid" => MapDisplayIdx(t, i) \in Int
  BY <1>1, BuildType, Counts, TxType DEF MapDisplayIdx, FIELD_INVALID, FIELD_PARTICIPANT
<1>3. CASE t.msgType = "Send"
  <2>1. MapDisplayIdx(t, i) = IF i >= 5 - OFFSET /\ t.memoLen = 0 THEN i + 1 ELSE i
    BY <1>3 DEF MapDisplayIdx, FIELD_MEMO
  <2> DEFINE field == FieldAt(t, MapDisplayIdx(t, i))
  <2>2. field \in {"chainId", "source", "destination", "amount", "fee", "memo", "variable"}
    BY <1>1, <1>2, <1>3, FieldNames
  <2>3. i = NumItems(t) => field = "variable"
    BY <1>1, <1>2, <1>3, <2>1, FieldNames, Counts, TxType DEF FIELD_CHAINID
  <2>4. field \in Names \cup {"participant", "variable"} /\ field # "?" /\ field # "participant"
    BY <2>2 DEF Names
  <2> HIDE DEF field
  <2> QED BY <1>1, <1>3, <2>3, <2>4, EndOfItems DEF field
<1>4. CASE t.msgType = "Vote"
  <2>1. MapDisplayIdx(t, i) = i
    BY <1>4 DEF MapDisplayIdx
  <2> DEFINE field == FieldAt(t, MapDisplayIdx(t, i))
  <2>2. field \in {"chainId", "proposalId", "voter", "selection", "variable"}
    BY <1>1, <1>2, <1>4, FieldNames
  <2>3. field = "variable" <=> i = NumItems(t)
    BY <1>1, <1>4, <2>1, FieldNames, Counts DEF FIELD_CHAINID
  <2>4. field \in Names \cup {"participant", "variable"} /\ field # "?" /\ field # "participant"
    BY <2>2 DEF Names
  <2> HIDE DEF field
  <2> QED BY <1>1, <1>4, <2>3, <2>4, EndOfItems DEF field
<1>5. CASE t.msgType = "Update"
  <2> DEFINE n == 2 * t.participants
             field == FieldAt(t, MapDisplayIdx(t, i))
  <2>1. n \in 0..32 /\ NumItems(t) = 4 - OFFSET + n /\ FixCount(t) = 5 - OFFSET
    BY <1>5, TxType, Counts
  <2>2. MapDisplayIdx(t, i) = IF i < 2 - OFFSET THEN i ELSE IF i < 2 - OFFSET + n THEN 2 - OFFSET
                              ELSE IF i < 5 - OFFSET + n THEN i - n + 1 ELSE FIELD_INVALID
    BY <1>1, <1>5, <2>1 DEF MapDisplayIdx, FIELD_PARTICIPANT
  <2> HIDE DEF n
  <2>3. MapDisplayIdx(t, i) = IF i < 2 - OFFSET THEN i ELSE IF i < 2 - OFFSET + n THEN 2 - OFFSET
                              ELSE i - n + 1
    <3>1. i <= 4 - OFFSET + n
      BY <1>1, <2>1
    <3>2. i < 5 - OFFSET + n
      BY <1>1, <2>1, <3>1
    <3> QED BY <2>2, <3>2
  <2>4. field \in {"chainId", "contractId", "participant", "activation", "admin", "variable"}
    BY <1>1, <1>2, <1>5, FieldNames
  <2>5. field = "variable" <=> i = NumItems(t)
    BY <1>1, <1>2, <1>5, <2>1, <2>3, FieldNames DEF FIELD_CHAINID
  <2>6. field = "participant" => i >= 2 - OFFSET /\ i < 2 - OFFSET + n
    BY <1>1, <1>2, <1>5, <2>1, <2>3, FieldNames DEF FIELD_CHAINID
  <2>7. field = "participant" => (i - FIELD_PARTICIPANT) \div 2 \in 0..255
    BY <1>1, <2>1, <2>6 DEF FIELD_PARTICIPANT
  <2>8. field \in Names \cup {"participant", "variable"} /\ field # "?"
    BY <2>4 DEF Names
  <2> HIDE DEF field
  <2> QED BY <1>1, <1>5, <2>5, <2>7, <2>8, EndOfItems DEF field
<1>6. CASE t.msgType = "Invalid"
  <2>1. Item(t, i) = NoItem /\ NoItem \in Names \X (0..255)
    BY <1>6 DEF Item, NoItem, Names
  <2> QED BY <1>1, <1>6, <2>1 DEF NumItems
<1> QED BY <1>3, <1>4, <1>5, <1>6, TxType

-------------------------------------------------------------------------------
(* Pages, positions and errors *)

\* A text has at most eight pages.
LEMMA PagesType ==
  ASSUME build \in Builds, NEW t \in Parsed, NEW item
  PROVE  Pages(t, item) \in 1..8
<1>1. ValueLen \in {37, 4096}
  BY BuildType
<1>2. TextLen(t, item) \in 0..255
  BY TxType DEF TextLen
<1>3. ASSUME NEW len \in 0..255
      PROVE  PagesOf(len, 37) \in 1..8 /\ PagesOf(len, 4096) \in 1..8
  BY SMT DEF PagesOf
<1>4. PagesOf(TextLen(t, item), ValueLen) \in 1..8
  BY <1>1, <1>2, <1>3
<1> QED BY <1>4 DEF Pages

\* The build does not change, and with it what a transaction's items are.
LEMMA SameItems ==
  ASSUME build' = build
  PROVE  /\ OnX' = OnX /\ OFFSET' = OFFSET /\ ValueLen' = ValueLen
         /\ \A t : NumItems(t)' = NumItems(t)
         /\ \A t, i : Item(t, i)' = Item(t, i)
         /\ \A t, item : Pages(t, item)' = Pages(t, item)
         /\ \A t, item : Unshowable(t, item)' = Unshowable(t, item)
<1>1. OnX' = OnX /\ OFFSET' = OFFSET
  BY DEF OnX, OFFSET
<1>2. ValueLen' = ValueLen
  BY <1>1 DEF ValueLen
<1>3. \A t : NumItems(t)' = NumItems(t) /\ FixCount(t)' = FixCount(t)
  BY <1>1 DEF NumItems, FixCount
<1>4. /\ FIELD_CHAINID' = FIELD_CHAINID /\ FIELD_MEMO' = FIELD_MEMO
      /\ FIELD_PARTICIPANT' = FIELD_PARTICIPANT
  BY <1>1 DEF FIELD_CHAINID, FIELD_MEMO, FIELD_PARTICIPANT
<1>5. \A t, i : MapDisplayIdx(t, i)' = MapDisplayIdx(t, i)
  BY <1>3, <1>4 DEF MapDisplayIdx
<1>6. \A t, f : FieldAt(t, f)' = FieldAt(t, f)
  BY <1>1, <1>4 DEF FieldAt
<1>7. \A i : Participant(i)' = Participant(i)
  BY <1>4 DEF Participant
<1>8. \A t, i : Item(t, i)' = Item(t, i)
  BY <1>3, <1>5, <1>6, <1>7 DEF Item, ItemOf
<1>9. \A t, item : Pages(t, item)' = Pages(t, item)
  BY <1>2 DEF Pages
<1>10. \A t, item : Unshowable(t, item)' = Unshowable(t, item)
  BY <1>2 DEF Unshowable
<1> QED BY <1>1, <1>2, <1>3, <1>8, <1>9, <1>10

\* Only an item below NumItems is shown, and only behind the last one, or
\* before the first, there is no data.
LEMMA Errors ==
  ASSUME build \in Builds, NEW t \in Parsed, NEW at, at[1] \in -1..NumItems(t)
  PROVE  /\ Err(t, at) = "ok" =>
              /\ at[1] \in 0..(NumItems(t) - 1) /\ ~Unshowable(t, Item(t, at[1]))
              /\ GetItem(t, at[1]).pages = Pages(t, Item(t, at[1]))
         /\ Err(t, at) = "no_data" => at[1] \in {-1, NumItems(t)}
         /\ GetItem(t, at[1]).pages \in {0, pageCount, Pages(t, Item(t, at[1]))}
<1>1. NumItems(t) \in 0..64
  BY Counts
<1>2. CASE at[1] = -1
  <2>1. GetItem(t, at[1]) = [err |-> "no_data", pages |-> pageCount]
    BY <1>2 DEF GetItem
  <2> QED BY <1>2, <2>1 DEF Err
<1>3. CASE at[1] \in 0..NumItems(t)
  <2>1. GetItem(t, at[1]) =
          [err   |-> ItemError(t, at[1]),
           pages |-> IF ItemError(t, at[1]) = "no_data" THEN 0 ELSE Pages(t, Item(t, at[1]))]
    BY <1>1, <1>3 DEF GetItem
  <2>2. ItemError(t, at[1]) \in {"ok", "unexpected_buffer_end"} => Item(t, at[1]) # NoItem
    <3>1. NoItemError[t.msgType] \in {"no_data", "unexpected_error", "unexpected_type"}
      BY TxType DEF NoItemError
    <3> QED BY <3>1 DEF ItemError
  <2>3. ItemError(t, at[1]) = "no_data" => Item(t, at[1]) = NoItem
    BY DEF ItemError
  <2>4. Item(t, at[1]) = NoItem <=> at[1] = NumItems(t)
    BY <1>3, ItemsEnd
  <2>5. ItemError(t, at[1]) = "ok" => ~Unshowable(t, Item(t, at[1]))
    BY <2>2 DEF ItemError
  <2> QED BY <1>1, <1>3, <2>1, <2>2, <2>3, <2>4, <2>5 DEF Err
<1> QED BY <1>1, <1>2, <1>3

\* A review that nothing disturbs is of a transaction that was accepted.
LEMMA Calm ==
  ASSUME IInv, ~disturbed
  PROVE  /\ build \in Builds /\ tx \in Txs /\ tx \in Parsed /\ NumItems(tx) \in 3..64
         /\ Sound /\ IsOfTx(seen, tx) /\ ViewTyped
<1>1. build \in Builds /\ tx \in Txs /\ tx \in Parsed /\ ViewTyped
  BY OwnedType DEF IInv, Bounds, Globals
<1>2. NumItems(tx) \in 3..64
  BY <1>1, Accepted, Counts
<1> QED BY <1>1, <1>2 DEF IInv, Sound

\* Where a review begins
LEMMA StartReachable ==
  ASSUME build \in Builds, NEW t \in Parsed, NEW S
  PROVE  Reachable(S, t, Start)
<1>1. NumItems(t) \in 0..64 /\ Pages(t, Item(t, 0)) \in 1..8
  BY Counts, PagesType
<1>2. Start[1] = 0 /\ Start[2] = 0
  BY DEF Start
<1>3. HasBelow(S, t, 0) /\ HasUpTo(S, t, 0, 0 - 1)
  BY SMT DEF HasBelow, HasUpTo
<1> QED BY <1>1, <1>2, <1>3 DEF Reachable

\* One step to the right of an item
LEMMA RightReachable ==
  ASSUME IInv, ~disturbed, AtItem
  PROVE  Reachable(seen, tx, Increased)
<1>1. /\ build \in Builds /\ tx \in Parsed /\ Current
      /\ HasBelow(seen, tx, idx) /\ HasUpTo(seen, tx, idx, pageIdx)
  BY Calm DEF Sound, OnItem
<1>2. /\ idx \in 0..(NumItems(tx) - 1) /\ NumItems(tx) \in 0..64 /\ pageCount \in 1..8
      /\ pageCount = Pages(tx, Item(tx, idx)) /\ pageIdx \in 0..(pageCount - 1)
  BY <1>1, Counts, PagesType DEF Current
<1>3. CASE pageIdx + 1 >= pageCount
  <2>1. Increased[1] = idx + 1 /\ Increased[2] = 0
    BY <1>3 DEF Increased
  <2>2. HasBelow(seen, tx, idx + 1)
    <3> SUFFICES ASSUME NEW i \in 0..idx, NEW p \in 0..(Pages(tx, Item(tx, i)) - 1)
                 PROVE  <<Item(tx, i), p>> \in seen
      BY <1>2 DEF HasBelow
    <3>1. CASE i = idx
      <4>1. p \in 0..pageIdx
        BY <1>2, <1>3, <3>1
      <4> QED BY <1>1, <3>1, <4>1 DEF HasUpTo
    <3>2. CASE i # idx
      <4>1. i \in 0..(idx - 1)
        BY <1>2, <3>2
      <4> QED BY <1>1, <4>1 DEF HasBelow
    <3> QED BY <3>1, <3>2
  <2>3. HasUpTo(seen, tx, idx + 1, 0 - 1)
    BY SMT DEF HasUpTo
  <2>4. idx + 1 \in -1..NumItems(tx) /\ 0 < Pages(tx, Item(tx, idx + 1))
    BY <1>1, <1>2, PagesType
  <2> QED BY <2>1, <2>2, <2>3, <2>4 DEF Reachable
<1>4. CASE ~(pageIdx + 1 >= pageCount)
  <2>1. Increased[1] = idx /\ Increased[2] = pageIdx + 1
    BY <1>4 DEF Increased
  <2>2. HasUpTo(seen, tx, idx, (pageIdx + 1) - 1)
    <3>1. (pageIdx + 1) - 1 = pageIdx
      BY <1>2
    <3> QED BY <1>1, <3>1
  <2>3. /\ idx \in -1..NumItems(tx) /\ idx # NumItems(tx) /\ pageIdx + 1 \in 0..63
        /\ pageIdx + 1 < Pages(tx, Item(tx, idx))
    BY <1>2, <1>4
  <2> QED BY <1>1, <2>1, <2>2, <2>3 DEF Reachable
<1> QED BY <1>3, <1>4

\* One step to the left, of an item or from behind the last one
LEMMA LeftReachable ==
  ASSUME IInv, ~disturbed, AtItem \/ (OnX /\ screen = "review" /\ step = 4)
  PROVE  /\ Reachable(seen, tx, Decreased)
         /\ Decreased[1] \in -1..(NumItems(tx) - 1)
         /\ ~AtItem => Decreased[1] >= 0
<1>1. /\ build \in Builds /\ tx \in Parsed
      /\ HasBelow(seen, tx, idx) /\ NumItems(tx) \in 3..64 /\ idx \in 0..NumItems(tx)
      /\ pageIdx \in 0..7
      /\ ~AtItem => idx = NumItems(tx)
      /\ pageIdx > 0 =>
           /\ idx < NumItems(tx) /\ HasUpTo(seen, tx, idx, pageIdx)
           /\ pageIdx < Pages(tx, Item(tx, idx))
  <2>1. build \in Builds /\ tx \in Parsed /\ NumItems(tx) \in 3..64
    BY Calm
  <2>2. CASE AtItem
    <3>1. Current /\ HasBelow(seen, tx, idx) /\ HasUpTo(seen, tx, idx, pageIdx)
      BY <2>2, Calm DEF Sound, OnItem
    <3>2. Pages(tx, Item(tx, idx)) \in 1..8
      BY <2>1, PagesType
    <3> QED BY <2>1, <2>2, <3>1, <3>2 DEF Current
  <2>3. CASE ~AtItem
    <3>1. idx = NumItems(tx) /\ pageIdx = 0 /\ HasBelow(seen, tx, NumItems(tx))
      BY <2>3, Calm DEF Sound, AtEnds
    <3> QED BY <2>1, <2>3, <3>1
  <2> QED BY <2>2, <2>3
<1>2. CASE pageIdx = 0
  <2>1. Decreased[1] = idx - 1 /\ Decreased[2] = 0
    BY <1>2 DEF Decreased
  <2>2. HasBelow(seen, tx, idx - 1)
    <3>1. \A i \in 0..((idx - 1) - 1) : i \in 0..(idx - 1)
      BY <1>1
    <3> QED BY <1>1, <3>1 DEF HasBelow
  <2>3. HasUpTo(seen, tx, idx - 1, 0 - 1)
    BY SMT DEF HasUpTo
  <2>4. /\ idx - 1 \in -1..(NumItems(tx) - 1) /\ 0 < Pages(tx, Item(tx, idx - 1))
        /\ idx - 1 # NumItems(tx) /\ idx - 1 \in -1..NumItems(tx)
        /\ ~AtItem => idx - 1 >= 0
    BY <1>1, PagesType
  <2> QED BY <2>1, <2>2, <2>3, <2>4 DEF Reachable
<1>3. CASE pageIdx # 0
  <2>1. Decreased[1] = idx /\ Decreased[2] = pageIdx - 1
    BY <1>3 DEF Decreased
  <2>2. HasUpTo(seen, tx, idx, (pageIdx - 1) - 1)
    <3>1. pageIdx > 0 /\ \A p \in 0..((pageIdx - 1) - 1) : p \in 0..pageIdx
      BY <1>1, <1>3
    <3> QED BY <1>1, <3>1 DEF HasUpTo
  <2>3. /\ idx \in -1..(NumItems(tx) - 1) /\ pageIdx - 1 \in 0..63
        /\ pageIdx - 1 < Pages(tx, Item(tx, idx))
        /\ idx # NumItems(tx) /\ idx \in -1..NumItems(tx) /\ idx >= 0
    BY <1>1, <1>3, PagesType
  <2> QED BY <1>1, <2>1, <2>2, <2>3 DEF Reachable
<1> QED BY <1>1, <1>2, <1>3

-------------------------------------------------------------------------------
(* What a step leaves in viewdata and in seen *)

\* What a position that is not too far off comes to, whatever the transaction
LEMMA WithinBounds ==
  ASSUME build \in Builds, NEW t \in Parsed, NEW at, at[1] \in -1..64, at[2] \in 0..7, ViewTyped
  PROVE  /\ Err(t, at) = "ok" => at[1] \in 0..63
         /\ Err(t, at) = "no_data" /\ at[1] >= 0 => at[1] >= 1
         /\ GetItem(t, at[1]).pages \in 0..8
         /\ at[1] >= 0 /\ at[1] <= NumItems(t) => Item(t, at[1]) \in Names \X (0..255)
<1>1. NumItems(t) \in 0..64 /\ pageCount \in 0..8 /\ Pages(t, Item(t, at[1])) \in 1..8
  BY Counts, PagesType DEF ViewTyped
<1>2. CASE at[1] > NumItems(t)
  <2>1. GetItem(t, at[1]) = [err |-> "no_data", pages |-> pageCount]
    BY <1>2 DEF GetItem
  <2> QED BY <1>1, <1>2, <2>1 DEF Err
<1>3. CASE at[1] \in -1..NumItems(t)
  <2>1. /\ Err(t, at) = "ok" => at[1] \in 0..(NumItems(t) - 1)
        /\ Err(t, at) = "no_data" => at[1] \in {-1, NumItems(t)}
        /\ GetItem(t, at[1]).pages \in {0, pageCount, Pages(t, Item(t, at[1]))}
    BY <1>3, Errors
  <2>2. NumItems(t) = 0 /\ at[1] = 0 => Err(t, at) # "no_data"
    <3> SUFFICES ASSUME NumItems(t) = 0, at[1] = 0 PROVE Err(t, at) # "no_data"
      OBVIOUS
    <3>1. t.msgType = "Invalid"
      BY Counts
    <3>2. Err(t, at) = ItemError(t, 0) /\ Item(t, 0) = NoItem
      BY <3>1 DEF Err, GetItem, Item
    <3> QED BY <3>1, <3>2 DEF ItemError, NoItemError
  <2>3. at[1] >= 0 => Item(t, at[1]) \in Names \X (0..255)
    BY <1>1, <1>3, ItemsEnd
  <2> QED BY <1>1, <1>3, <2>1, <2>2, <2>3
<1> QED BY <1>1, <1>2, <1>3

LEMMA FetchType ==
  ASSUME build \in Builds, NEW t \in Parsed, NEW at, at[1] \in -1..64, at[2] \in 0..7,
         ViewTyped, Fetch(t, at)
  PROVE  ViewTyped'
<1>1. idx' \in -1..64 /\ pageIdx' \in 0..7
  BY DEF Fetch
<1>2. pageCount' \in 0..8
  BY WithinBounds DEF Fetch
<1>3. shown'[1] \in Names \X (0..255) /\ shown'[2] \in 0..127
  <2>1. CASE at[1] < 0 \/ at[1] > NumItems(t)
    BY <2>1 DEF Fetch, ViewTyped
  <2>2. CASE ~(at[1] < 0 \/ at[1] > NumItems(t))
    <3>1. Item(t, at[1]) \in Names \X (0..255)
      <4>1. at[1] >= 0 /\ at[1] <= NumItems(t)
        BY <2>2, Counts
      <4> QED BY <4>1, WithinBounds
    <3>2. shown' = <<Item(t, at[1]), at[2]>>
      BY <2>2 DEF Fetch
    <3> QED BY <3>1, <3>2
  <2> QED BY <2>1, <2>2
<1> QED BY <1>1, <1>2, <1>3 DEF ViewTyped

LEMMA ErrorType ==
  ASSUME build \in Builds, NEW t \in Parsed, NEW at, at[1] \in -1..64, at[2] \in 0..7,
         ViewTyped, ErrorShow(t, at)
  PROVE  ViewTyped'
<1>1. idx' \in -1..64 /\ pageIdx' \in 0..7
  BY DEF ErrorShow
<1>2. pageCount' \in 0..8
  BY WithinBounds DEF ErrorShow
<1>3. shown'[1] \in Names \X (0..255) /\ shown'[2] \in 0..127
  <2>1. "ERROR" \in Names /\ 0 \in 0..255 /\ 0 \in 0..127
    BY DEF Names
  <2>2. shown' = <<<<"ERROR", 0>>, 0>>
    BY DEF ErrorShow, ERROR
  <2> QED BY <2>1, <2>2
<1> QED BY <1>1, <1>2, <1>3 DEF ViewTyped

\* Pages that were on the display stay pages of the transaction.
LEMMA SameSeen ==
  ASSUME build' = build, NEW t, tx' = t, NEW S, IsOfTx(S, t), seen' = S
  PROVE  IsOfTx(seen, tx)'
BY SameItems DEF IsOfTx

\* An item that comes on the display is the one viewdata points to, and no page
\* before it is missing.
LEMMA Arrive ==
  ASSUME build \in Builds, build' = build, NEW t \in Parsed, tx' = t,
         NEW at, NEW S, Reachable(S, t, at), IsOfTx(S, t),
         Err(t, at) = "ok", Fetch(t, at), seen' = S \cup {shown'}
  PROVE  /\ Current' /\ HasBelow(seen, tx, idx)' /\ HasUpTo(seen, tx, idx, pageIdx)'
         /\ IsOfTx(seen, tx)'
<1>1. /\ at[1] \in 0..(NumItems(t) - 1) /\ at[2] \in 0..63 /\ NumItems(t) \in 0..64
      /\ at[2] < Pages(t, Item(t, at[1])) /\ Pages(t, Item(t, at[1])) \in 1..8
      /\ HasBelow(S, t, at[1]) /\ HasUpTo(S, t, at[1], at[2] - 1)
      /\ ~Unshowable(t, Item(t, at[1]))
  BY Errors, Counts, PagesType DEF Reachable
<1>2. /\ idx' = at[1] /\ pageIdx' = at[2] /\ pageCount' = Pages(t, Item(t, at[1]))
      /\ shown' = <<Item(t, at[1]), at[2]>>
  BY <1>1, Errors DEF Fetch, Reachable
<1>3. Current'
  BY <1>1, <1>2, SameItems DEF Current
<1>4. HasBelow(seen, tx, idx)'
  <2>1. HasBelow(S \cup {shown'}, t, at[1])
    BY <1>1 DEF HasBelow
  <2> QED BY <1>2, <2>1, SameItems DEF HasBelow
<1>5. HasUpTo(seen, tx, idx, pageIdx)'
  <2>1. \A p \in 0..at[2] : <<Item(t, at[1]), p>> \in S \cup {shown'}
    <3> TAKE p \in 0..at[2]
    <3>1. CASE p = at[2]
      BY <1>2, <3>1
    <3>2. CASE p # at[2]
      <4>1. p \in 0..(at[2] - 1)
        BY <1>1, <3>2
      <4> QED BY <1>1, <4>1 DEF HasUpTo
    <3> QED BY <3>1, <3>2
  <2> QED BY <1>2, <2>1, SameItems DEF HasUpTo
<1>6. IsOfTx(seen, tx)'
  <2>1. IsOfTx(S \cup {shown'}, t)
    <3>1. at[2] \in 0..(Pages(t, Item(t, at[1])) - 1)
      BY <1>1
    <3> QED BY <1>1, <1>2, <3>1 DEF IsOfTx
  <2> QED BY <2>1, SameItems DEF IsOfTx
<1> QED BY <1>3, <1>4, <1>5, <1>6

-------------------------------------------------------------------------------
(* The steps of any review *)

LEMMA LeftsType ==
  ASSUME lefts \in 0..MaxLeft
  PROVE  /\ TurnBack => lefts' \in 0..MaxLeft
         /\ Begin => lefts' \in 0..MaxLeft
BY ReviewAssumption DEF TurnBack, Begin

\* What the packets of a host may leave is what a review may be of.
LEMMA OwnedStep ==
  ASSUME Owned, [Next]_vars
  PROVE  Owned'
<1>1. ASSUME NEW t \in Txs, SignShowS(t) \/ SignShowX(t) PROVE Owned'
  BY <1>1 DEF SignShowS, SignShowX, Owned
<1>2. ASSUME NEW t \in Drafts, Overwrite(t) PROVE Owned'
  BY <1>2 DEF Overwrite, Owned
<1>3. ASSUME UNCHANGED <<tx, disturbed>> PROVE Owned'
  BY <1>3 DEF Owned
<1>4. Forward \/ Back \/ BothButtons \/ StepAside \/ Decide \/ PowerCycle \/ UNCHANGED vars
      => UNCHANGED <<tx, disturbed>>
  BY DEF Forward, h_review_button_right, RightFromView, RightFromItem,
         Back, h_review_button_left, h_review, LeftFromItem, LeftFromSign,
         BothButtons, StepAside, Decide, h_sign_accept, h_sign_reject, h_error_accept, Idle,
         PowerCycle, vars
<1> QED BY <1>1, <1>2, <1>3, <1>4 DEF Next

\* Where the buttons lead to, whatever the transaction is
LEMMA Moves ==
  ASSUME Bounds
  PROVE  /\ AtItem => /\ Increased[1] \in 0..64 /\ Increased[2] \in 0..7
                      /\ Increased[2] = 0 \/ Increased[1] <= 63
                      /\ Decreased[1] \in -1..63 /\ Decreased[2] \in 0..7
         /\ OnX /\ screen = "review" /\ step = 4 => Decreased[1] \in 0..63 /\ Decreased[2] \in 0..7
<1>1. idx \in -1..64 /\ pageIdx \in 0..7 /\ pageCount \in 0..8
  BY DEF Bounds, Globals, ViewTyped
<1>2. AtItem => idx >= 0 /\ idx <= 63
  BY DEF Bounds, InRange
<1>3. OnX /\ screen = "review" /\ step = 4 => idx >= 1 /\ (pageIdx = 0 \/ idx <= 63)
  BY DEF Bounds, InRange
<1>4. AtItem => /\ Increased[1] \in 0..64 /\ Increased[2] \in 0..7
                /\ Increased[2] = 0 \/ Increased[1] <= 63
  <2>1. CASE pageIdx + 1 >= pageCount
    <3>1. Increased[1] = idx + 1 /\ Increased[2] = 0
      BY <2>1 DEF Increased
    <3> QED BY <1>1, <1>2, <3>1
  <2>2. CASE ~(pageIdx + 1 >= pageCount)
    <3>1. Increased[1] = idx /\ Increased[2] = pageIdx + 1
      BY <2>2 DEF Increased
    <3> QED BY <1>1, <1>2, <2>2, <3>1
  <2> QED BY <2>1, <2>2
<1>5. CASE pageIdx = 0
  <2>1. Decreased[1] = idx - 1 /\ Decreased[2] = 0
    BY <1>5 DEF Decreased
  <2> QED BY <1>1, <1>2, <1>3, <1>4, <2>1
<1>6. CASE pageIdx # 0
  <2>1. Decreased[1] = idx /\ Decreased[2] = pageIdx - 1
    BY <1>6 DEF Decreased
  <2> QED BY <1>1, <1>2, <1>3, <1>4, <1>6, <2>1
<1> QED BY <1>5, <1>6

\* A Nano S comes to an item, to the menu or to the error screen.
LEMMA ShowSBounds ==
  ASSUME Bounds, Owned', ~OnX, NEW t \in Parsed, NEW at, at[1] \in -1..64, at[2] \in 0..7,
         NEW S, ShowS(t, at, S), lefts' \in 0..MaxLeft
  PROVE  Bounds'
<1>1. /\ build \in Builds /\ ViewTyped /\ step \in {0, 1, 2, 4, 5, 65535} /\ inside \in {0, 1}
      /\ build' = build /\ step' = step /\ inside' = inside
  BY DEF Bounds, Globals, ShowS
<1>2. ~OnX'
  BY <1>1, SameItems
<1>3. ViewTyped' /\ screen' \in {"review", "menu", "error"}
  BY <1>1, FetchType, ErrorType DEF ShowS, ErrorShow
<1>4. screen' = "review" => Err(t, at) = "ok" /\ idx' = at[1]
  BY DEF ShowS, ErrorShow, Fetch
<1>5. Err(t, at) = "ok" => at[1] \in 0..63
  BY <1>1, WithinBounds
<1>6. AtItem' => idx' >= 0 /\ idx' <= 63
  BY <1>4, <1>5 DEF AtItem
<1>7. Globals'
  BY <1>1, <1>3 DEF Globals
<1> QED BY <1>2, <1>6, <1>7 DEF Bounds, InFlow, InRange, OnMenu

\* A Nano X comes to an item.
LEMMA ShowXBounds ==
  ASSUME Bounds, Owned', OnX, screen = "review", build' = build,
         NEW at, at[1] \in 0..63, at[2] \in 0..7, ShowX(at), lefts' \in 0..MaxLeft
  PROVE  Bounds'
<1>1. /\ build \in Builds /\ tx \in Parsed /\ ViewTyped
      /\ Fetch(tx, at) /\ step' = 2 /\ inside' = 1 /\ screen' = "review"
  BY OwnedType DEF Bounds, Globals, ShowX
<1>2. ViewTyped'
  BY <1>1, FetchType
<1>3. idx' = at[1]
  BY <1>1 DEF Fetch
<1>4. Globals'
  BY <1>1, <1>2 DEF Globals
<1> QED BY <1>1, <1>3, <1>4 DEF Bounds, InFlow, InRange, OnMenu

\* A Nano X comes to the error flow.
LEMMA ErrorXBounds ==
  ASSUME Bounds, Owned', build' = build, NEW at, at[1] \in -1..64, at[2] \in 0..7,
         ErrorShowThenNext(at) \/ ErrorShowThenPrev(at), lefts' \in 0..MaxLeft
  PROVE  Bounds'
<1>1. build \in Builds /\ tx \in Parsed /\ ViewTyped /\ inside \in {0, 1}
  BY OwnedType DEF Bounds, Globals
<1>2. ErrorShow(tx, at) /\ screen' = "error" /\ inside' = inside /\ step' \in {1, 65535}
  BY DEF ErrorShowThenNext, ErrorShowThenPrev, ErrorShow
<1>3. ViewTyped'
  BY <1>1, <1>2, ErrorType
<1>4. Globals'
  BY <1>1, <1>2, <1>3 DEF Globals
<1> QED BY <1>2, <1>4 DEF Bounds, InFlow, InRange, OnMenu, AtItem

\* A Nano X runs one of its loops.
LEMMA LoopBounds ==
  ASSUME Bounds, Owned', OnX, screen = "review", build' = build, lefts' \in 0..MaxLeft,
         (step \in {0, 2} /\ LoopStart) \/ (step \in {2, 4} /\ LoopEnd)
  PROVE  Bounds'
<1>1. /\ build \in Builds /\ tx \in Parsed /\ ViewTyped /\ inside = IF step = 2 THEN 1 ELSE 0
  BY OwnedType DEF Bounds, Globals, InFlow
<1>2. Start[1] = 0 /\ Start[2] = 0
  BY DEF Start
<1>3. step = 2 => /\ Increased[1] \in 0..64 /\ Increased[2] \in 0..7
                  /\ Increased[2] = 0 \/ Increased[1] <= 63
                  /\ Decreased[1] \in -1..63 /\ Decreased[2] \in 0..7
  BY Moves DEF AtItem
<1>4. step = 4 => Decreased[1] \in 0..63 /\ Decreased[2] \in 0..7
  BY Moves
<1>5. CASE step \in {0, 2} /\ LoopStart
  <2>1. CASE inside = 0 /\ (ShowX(Start) \/ ErrorShowThenNext(Start))
    BY <1>2, <2>1, ShowXBounds, ErrorXBounds
  <2>2. CASE inside = 1 /\ Decreased[1] < 0 /\ LeaveLoopToTheLeft
    <3>1. step = 2
      BY <1>1, <2>2
    <3>2. /\ idx' = Decreased[1] /\ pageIdx' = Decreased[2] /\ step' = 0 /\ inside' = 0
          /\ screen' = screen /\ pageCount' = pageCount /\ shown' = shown
      BY <2>2 DEF LeaveLoopToTheLeft
    <3>3. ViewTyped'
      BY <1>1, <1>3, <3>1, <3>2 DEF ViewTyped
    <3>4. Globals'
      BY <1>1, <3>2, <3>3 DEF Bounds, Globals
    <3> QED BY <3>2, <3>4, SameItems DEF Bounds, InFlow, InRange, OnMenu, AtItem
  <2>3. CASE inside = 1 /\ Decreased[1] >= 0 /\ (ShowX(Decreased) \/ ErrorShowThenNext(Decreased))
    <3>1. Decreased[1] \in 0..63 /\ Decreased[1] \in -1..64 /\ Decreased[2] \in 0..7
      BY <1>1, <1>3, <2>3
    <3> QED BY <2>3, <3>1, ShowXBounds, ErrorXBounds
  <2> QED BY <1>5, <2>1, <2>2, <2>3 DEF LoopStart
<1>6. CASE step \in {2, 4} /\ LoopEnd
  <2>1. CASE inside = 1 /\ Err(tx, Increased) = "ok" /\ ShowX(Increased)
    <3>1. Increased[1] \in -1..64 /\ Increased[2] \in 0..7
      BY <1>1, <1>3, <2>1
    <3>2. Increased[1] \in 0..63
      BY <1>1, <2>1, <3>1, WithinBounds
    <3> QED BY <2>1, <3>1, <3>2, ShowXBounds
  <2>2. CASE /\ inside = 1 /\ Err(tx, Increased) = "no_data"
             /\ Fetch(tx, Increased) /\ step' = 4 /\ inside' = 0
             /\ UNCHANGED <<screen, seen>>
    <3>1. /\ Increased[1] \in -1..64 /\ Increased[2] \in 0..7 /\ Increased[1] >= 0
          /\ Increased[2] = 0 \/ Increased[1] <= 63
      BY <1>1, <1>3, <2>2
    <3>2. ViewTyped' /\ Increased[1] >= 1
      BY <1>1, <2>2, <3>1, WithinBounds, FetchType
    <3>3. idx' = Increased[1] /\ pageIdx' = Increased[2]
      BY <2>2 DEF Fetch
    <3>4. Globals'
      BY <1>1, <2>2, <3>2 DEF Bounds, Globals
    <3> QED BY <2>2, <3>1, <3>2, <3>3, <3>4, SameItems DEF Bounds, InFlow, InRange, OnMenu, AtItem
  <2>3. CASE inside = 1 /\ ErrorShowThenPrev(Increased)
    <3>1. Increased[1] \in -1..64 /\ Increased[2] \in 0..7
      BY <1>1, <1>3, <2>3
    <3> QED BY <2>3, <3>1, ErrorXBounds
  <2>4. CASE inside = 0 /\ (ShowX(Decreased) \/ ErrorShowThenPrev(Decreased))
    <3>1. Decreased[1] \in 0..63 /\ Decreased[1] \in -1..64 /\ Decreased[2] \in 0..7
      BY <1>1, <1>4, <1>6, <2>4
    <3> QED BY <2>4, <3>1, ShowXBounds, ErrorXBounds
  <2> QED BY <1>6, <2>1, <2>2, <2>3, <2>4 DEF LoopEnd
<1> QED BY <1>5, <1>6

LEMMA BeginBounds ==
  ASSUME Bounds, Owned', NEW t \in Txs, SignShowS(t) \/ SignShowX(t)
  PROVE  Bounds'
<1>1. build \in Builds /\ ViewTyped /\ lefts' \in 0..MaxLeft /\ t \in Parsed
  BY LeftsType, Accepted DEF Bounds, Globals, SignShowS, SignShowX
<1>2. CASE SignShowS(t)
  <2>1. Start[1] \in -1..64 /\ Start[2] \in 0..7
    BY DEF Start
  <2> QED BY <1>1, <1>2, <2>1, ShowSBounds DEF SignShowS
<1>3. CASE SignShowX(t)
  <2>1. /\ OnX /\ build' = build /\ inside' = 0 /\ screen' = "review" /\ step' = 0
        /\ idx' = -1 /\ pageIdx' = 0 /\ pageCount' = 1 /\ shown' = shown
    BY <1>3 DEF SignShowX
  <2>2. OnX' /\ ViewTyped'
    BY <1>1, <2>1, SameItems DEF ViewTyped
  <2>3. Globals'
    BY <1>1, <2>1, <2>2 DEF Globals
  <2> QED BY <2>1, <2>2, <2>3 DEF Bounds, InFlow, InRange, OnMenu, AtItem
<1> QED BY <1>2, <1>3

LEMMA WayBounds ==
  ASSUME Bounds, Owned', Forward \/ Back
  PROVE  Bounds'
<1>1. build \in Builds /\ tx \in Parsed /\ lefts \in 0..MaxLeft
  BY OwnedType DEF Bounds, Globals
<1>2. CASE h_review_button_right \/ h_review_button_left
  <2>1. ~OnX /\ AtItem /\ lefts' \in 0..MaxLeft
    BY <1>1, <1>2, LeftsType DEF h_review_button_right, h_review_button_left, OnReviewS, AtItem
  <2>2. ShowS(tx, Increased, seen) \/ ShowS(tx, Decreased, seen)
    BY <1>2 DEF h_review_button_right, h_review_button_left
  <2>3. /\ Increased[1] \in -1..64 /\ Increased[2] \in 0..7
        /\ Decreased[1] \in -1..64 /\ Decreased[2] \in 0..7
    BY <2>1, Moves
  <2> QED BY <1>1, <2>1, <2>2, <2>3, ShowSBounds
<1>3. CASE h_review
  <2>1. ~OnX /\ lefts' \in 0..MaxLeft /\ ShowS(tx, Start, seen)
    BY <1>1, <1>3, LeftsType DEF h_review
  <2>2. Start[1] \in -1..64 /\ Start[2] \in 0..7
    BY DEF Start
  <2> QED BY <1>1, <2>1, <2>2, ShowSBounds
<1>4. CASE RightFromView \/ RightFromItem \/ LeftFromItem \/ LeftFromSign
  <2>1. OnX /\ screen = "review" /\ build' = build /\ lefts' \in 0..MaxLeft
    BY <1>1, <1>4, LeftsType DEF RightFromView, RightFromItem, LeftFromItem, LeftFromSign, OnStepX
  <2>2. (step \in {0, 2} /\ LoopStart) \/ (step \in {2, 4} /\ LoopEnd)
    BY <1>4 DEF RightFromView, RightFromItem, LeftFromItem, LeftFromSign, OnStepX
  <2> QED BY <2>1, <2>2, LoopBounds
<1> QED BY <1>2, <1>3, <1>4 DEF Forward, Back

\* The steps that move nothing but the screen or its step
LEMMA AsideBounds ==
  ASSUME Bounds, Owned', BothButtons \/ StepAside \/ Idle \/ UNCHANGED vars
  PROVE  Bounds'
<1>1. /\ build' = build /\ lefts' = lefts /\ inside' = inside
      /\ idx' = idx /\ pageIdx' = pageIdx /\ pageCount' = pageCount /\ shown' = shown
  BY DEF BothButtons, StepAside, Idle, vars, viewdata
<1>2. OnX' = OnX /\ ViewTyped'
  BY <1>1, SameItems DEF ViewTyped, Bounds, Globals
<1>3. ASSUME screen' \in {"idle", "review", "menu", "error"},
             step' \in {0, 1, 2, 4, 5, 65535}
      PROVE  Globals'
  BY <1>1, <1>2, <1>3 DEF Bounds, Globals
<1>4. CASE BothButtons
  <2>1. ~OnX /\ screen' = "menu" /\ step' = step
    BY <1>4 DEF BothButtons, OnReviewS
  <2>2. Globals'
    BY <1>3, <2>1 DEF Bounds, Globals
  <2> QED BY <1>2, <2>1, <2>2 DEF Bounds, InFlow, InRange, OnMenu, AtItem
<1>5. CASE OnX /\ screen = "review" /\ step \in {4, 5} /\ step' = 9 - step /\ screen' = screen
  <2>1. step' \in {4, 5}
    BY <1>5
  <2>2. inside = 0 /\ idx >= 1 /\ (pageIdx = 0 \/ idx <= 63)
    BY <1>5 DEF Bounds, InFlow, InRange
  <2>3. Globals'
    BY <1>3, <1>5, <2>1
  <2> QED BY <1>1, <1>2, <1>5, <2>1, <2>2, <2>3 DEF Bounds, InFlow, InRange, OnMenu, AtItem
<1>6. CASE OnX /\ screen = "error" /\ step \in {0, 1} /\ step' = 1 - step /\ screen' = screen
  <2>1. step' \in {0, 1}
    BY <1>6
  <2>2. Globals'
    BY <1>3, <1>6, <2>1
  <2> QED BY <1>2, <1>6, <2>2 DEF Bounds, InFlow, InRange, OnMenu, AtItem
<1>7. CASE Idle
  <2>1. screen' = "idle" /\ step' = 0
    BY <1>7 DEF Idle
  <2>2. Globals'
    BY <1>3, <2>1
  <2> QED BY <2>1, <2>2 DEF Bounds, InFlow, InRange, OnMenu, AtItem
<1>8. CASE UNCHANGED vars
  <2>1. screen' = screen /\ step' = step
    BY <1>8 DEF vars
  <2>2. Globals'
    BY <1>3, <2>1 DEF Bounds, Globals
  <2> QED BY <1>1, <1>2, <2>1, <2>2 DEF Bounds, InFlow, InRange, OnMenu, AtItem
<1> QED BY <1>4, <1>5, <1>6, <1>7, <1>8 DEF StepAside

\* No step leads out of the bounds, in a disturbed review either.
LEMMA BoundsStep ==
  ASSUME Bounds, [Next]_vars
  PROVE  Bounds'
<1>1. Owned'
  BY OwnedStep DEF Bounds, Globals
<1>2. ASSUME NEW t \in Txs, SignShowS(t) \/ SignShowX(t) PROVE Bounds'
  BY <1>1, <1>2, BeginBounds
<1>3. ASSUME NEW t \in Drafts, Overwrite(t) PROVE Bounds'
  <2>1. /\ build' = build /\ screen' = screen /\ step' = step /\ inside' = inside
        /\ idx' = idx /\ pageIdx' = pageIdx /\ pageCount' = pageCount /\ shown' = shown
    BY <1>3 DEF Overwrite, viewdata
  <2>2. lefts' \in 0..MaxLeft
    BY <1>3, LeftsType DEF Overwrite, Bounds, Globals
  <2>3. OnX' = OnX /\ ViewTyped'
    BY <2>1, SameItems DEF ViewTyped, Bounds, Globals
  <2>4. Globals'
    BY <1>1, <2>1, <2>2, <2>3 DEF Bounds, Globals
  <2> QED BY <2>1, <2>3, <2>4 DEF Bounds, InFlow, InRange, OnMenu, AtItem
<1>4. CASE Forward \/ Back
  BY <1>1, <1>4, WayBounds
<1>5. CASE BothButtons \/ StepAside \/ UNCHANGED vars
  BY <1>1, <1>5, AsideBounds
<1>6. CASE Decide
  BY <1>1, <1>6, AsideBounds DEF Decide, h_sign_accept, h_sign_reject, h_error_accept
<1>7. CASE PowerCycle
  <2>1. /\ build' = build /\ lefts' = 0 /\ inside' = 0 /\ step' = 0 /\ screen' = "idle"
        /\ idx' = 0 /\ pageIdx' = 0 /\ pageCount' = 0 /\ shown' = <<NoItem, 0>>
    BY <1>7 DEF PowerCycle
  <2>2. NoItem \in Names \X (0..255)
    BY DEF NoItem, Names
  <2>3. ViewTyped'
    BY <2>1, <2>2 DEF ViewTyped
  <2>4. Globals'
    BY <1>1, <2>1, <2>3, ReviewAssumption DEF Bounds, Globals
  <2> QED BY <2>1, <2>4 DEF Bounds, InFlow, InRange, OnMenu, AtItem
<1> QED BY <1>2, <1>3, <1>4, <1>5, <1>6, <1>7 DEF Next

-------------------------------------------------------------------------------
(* The steps of a review that nothing disturbs *)

\* A Nano S comes to an item, to the menu or to the error screen.
LEMMA ShowSStep ==
  ASSUME build \in Builds, ~OnX, NEW t \in Parsed, tx' = t, NEW at, NEW S,
         Reachable(S, t, at), IsOfTx(S, t), ShowS(t, at, S)
  PROVE  Sound'
<1>1. build' = build
  BY DEF ShowS
<1>2. ~OnX'
  BY <1>1, SameItems
<1>3. CASE Err(t, at) = "ok" /\ Fetch(t, at) /\ screen' = "review" /\ Display(S)
  <2>1. seen' = S \cup {shown'}
    BY <1>3 DEF Display
  <2>2. /\ Current' /\ HasBelow(seen, tx, idx)' /\ HasUpTo(seen, tx, idx, pageIdx)'
        /\ IsOfTx(seen, tx)'
    BY <1>1, <1>3, <2>1, Arrive
  <2> QED BY <1>2, <2>2 DEF Sound, OnItem, AtEnds
<1>4. CASE screen' \in {"menu", "error"} /\ seen' = S
  <2>1. IsOfTx(seen, tx)'
    BY <1>1, <1>4, SameSeen
  <2> QED BY <1>2, <1>4, <2>1 DEF Sound, OnItem, AtEnds, AtItem
<1> QED BY <1>3, <1>4 DEF ShowS, ErrorShow

\* A Nano X comes to an item.
LEMMA ShowXStep ==
  ASSUME build \in Builds, tx \in Parsed, build' = build, tx' = tx, IsOfTx(seen, tx),
         NEW at, Reachable(seen, tx, at), Err(tx, at) = "ok", ShowX(at)
  PROVE  Sound'
<1>1. Fetch(tx, at) /\ step' = 2 /\ seen' = seen \cup {shown'}
  BY DEF ShowX, Display
<1>2. /\ Current' /\ HasBelow(seen, tx, idx)' /\ HasUpTo(seen, tx, idx, pageIdx)'
      /\ IsOfTx(seen, tx)'
  BY <1>1, Arrive
<1> QED BY <1>1, <1>2 DEF Sound, OnItem, AtEnds

\* A screen that is neither an item nor an end of the flow shows nothing new.
LEMMA AwayStep ==
  ASSUME IsOfTx(seen, tx), build' = build, tx' = tx, seen' = seen,
         screen' \in {"idle", "menu", "error"}
  PROVE  Sound'
<1>1. IsOfTx(seen, tx)'
  BY SameSeen
<1> QED BY <1>1 DEF Sound, OnItem, AtEnds, AtItem

\* A position of a Nano X that is not the end has an item or an error.
LEMMA ItemOrError ==
  ASSUME IInv, ~disturbed, NEW at, at[1] \in 0..(NumItems(tx) - 1), ~Failed(tx, at)
  PROVE  Err(tx, at) = "ok"
<1>1. /\ at[1] \in -1..NumItems(tx) /\ at[1] \notin {-1, NumItems(tx)}
      /\ build \in Builds /\ tx \in Parsed
  BY Calm
<1>2. Err(tx, at) # "no_data"
  BY <1>1, Errors
<1> QED BY <1>2 DEF Failed

LEMMA LoopStartStep ==
  ASSUME IInv, ~disturbed, OnX, screen = "review", step \in {0, 2}, build' = build, tx' = tx,
         LoopStart
  PROVE  Sound'
<1>1. /\ build \in Builds /\ tx \in Parsed /\ IsOfTx(seen, tx) /\ NumItems(tx) \in 3..64
      /\ inside = IF step = 2 THEN 1 ELSE 0
  BY Calm DEF IInv, Bounds, InFlow
<1>2. Reachable(seen, tx, Start) /\ Start[1] \in 0..(NumItems(tx) - 1)
  BY <1>1, StartReachable DEF Start
<1>3. inside = 1 => /\ Reachable(seen, tx, Decreased)
                    /\ Decreased[1] \in -1..(NumItems(tx) - 1)
  BY <1>1, LeftReachable DEF AtItem
<1>4. CASE inside = 0 /\ ~Failed(tx, Start) /\ ShowX(Start)
  BY <1>1, <1>2, <1>4, ItemOrError, ShowXStep
<1>5. CASE inside = 1 /\ Decreased[1] < 0 /\ LeaveLoopToTheLeft
  <2>1. /\ idx' = Decreased[1] /\ pageIdx' = Decreased[2] /\ step' = 0
        /\ screen' = screen /\ seen' = seen
    BY <1>5 DEF LeaveLoopToTheLeft
  <2>2. IsOfTx(seen, tx)'
    BY <1>1, <2>1, SameSeen
  <2>3. OnX'
    BY SameItems
  <2>4. idx' = -1 /\ pageIdx' = 0
    <3>1. AtItem
      BY <1>1, <1>5 DEF AtItem
    <3>2. idx \in Nat /\ pageIdx \in 0..7
      BY <3>1, Calm DEF Sound, OnItem, Current, ViewTyped
    <3> QED BY <1>5, <2>1, <3>2 DEF Decreased
  <2> QED BY <2>1, <2>2, <2>3, <2>4 DEF Sound, OnItem, AtEnds, AtItem
<1>6. CASE inside = 1 /\ Decreased[1] >= 0 /\ ~Failed(tx, Decreased) /\ ShowX(Decreased)
  <2>1. Decreased[1] \in 0..(NumItems(tx) - 1)
    BY <1>1, <1>3, <1>6
  <2> QED BY <1>1, <1>3, <1>6, <2>1, ItemOrError, ShowXStep
<1>7. ASSUME NEW at, ErrorShowThenNext(at) PROVE Sound'
  BY <1>1, <1>7, AwayStep DEF ErrorShowThenNext, ErrorShow
<1> QED BY <1>4, <1>5, <1>6, <1>7 DEF LoopStart

LEMMA LoopEndStep ==
  ASSUME IInv, ~disturbed, OnX, screen = "review", step \in {2, 4}, build' = build, tx' = tx,
         LoopEnd
  PROVE  Sound'
<1>1. /\ build \in Builds /\ tx \in Parsed /\ IsOfTx(seen, tx) /\ NumItems(tx) \in 3..64
      /\ inside = IF step = 2 THEN 1 ELSE 0
  BY Calm DEF IInv, Bounds, InFlow
<1>2. inside = 1 => Reachable(seen, tx, Increased) /\ Increased[1] >= 0
  <2>1. CASE inside = 1
    <3>1. AtItem
      BY <1>1, <2>1 DEF AtItem
    <3>2. idx \in Nat
      BY <3>1, Calm DEF Sound, OnItem, Current
    <3> QED BY <3>1, <3>2, RightReachable DEF Increased
  <2> QED BY <2>1
<1>3. inside = 0 => /\ Reachable(seen, tx, Decreased)
                    /\ Decreased[1] \in 0..(NumItems(tx) - 1)
  <2>1. CASE inside = 0
    <3>1. step = 4 /\ ~AtItem
      BY <1>1, <2>1 DEF AtItem
    <3>2. /\ Reachable(seen, tx, Decreased) /\ Decreased[1] \in -1..(NumItems(tx) - 1)
          /\ Decreased[1] >= 0
      BY <3>1, LeftReachable
    <3> QED BY <1>1, <3>2
  <2> QED BY <2>1
<1>4. CASE inside = 1 /\ Err(tx, Increased) = "ok" /\ ShowX(Increased)
  BY <1>1, <1>2, <1>4, ShowXStep
<1>5. CASE /\ inside = 1 /\ Err(tx, Increased) = "no_data"
           /\ Fetch(tx, Increased) /\ step' = 4 /\ inside' = 0
           /\ UNCHANGED <<screen, seen>>
  <2>1. Increased[1] = NumItems(tx) /\ Increased[2] = 0 /\ HasBelow(seen, tx, NumItems(tx))
    <3>1. Increased[1] = NumItems(tx)
      BY <1>1, <1>2, <1>5, Errors DEF Reachable
    <3> QED BY <1>2, <1>5, <3>1 DEF Reachable
  <2>2. IsOfTx(seen, tx)'
    BY <1>1, <1>5, SameSeen
  <2>3. idx' = NumItems(tx)' /\ pageIdx' = 0
    BY <1>5, <2>1, SameItems DEF Fetch
  <2>4. HasBelow(seen, tx, NumItems(tx))'
    BY <1>5, <2>1, SameItems DEF HasBelow
  <2>5. OnX'
    BY SameItems
  <2> QED BY <1>5, <2>2, <2>3, <2>4, <2>5 DEF Sound, OnItem, AtEnds, AtItem
<1>6. CASE inside = 0 /\ ~Failed(tx, Decreased) /\ ShowX(Decreased)
  BY <1>1, <1>3, <1>6, ItemOrError, ShowXStep
<1>7. ASSUME NEW at, ErrorShowThenPrev(at) PROVE Sound'
  BY <1>1, <1>7, AwayStep DEF ErrorShowThenPrev, ErrorShow
<1> QED BY <1>4, <1>5, <1>6, <1>7 DEF LoopEnd

LEMMA BeginStep ==
  ASSUME build \in Builds, NEW t \in Txs, SignShowS(t) \/ SignShowX(t)
  PROVE  Sound'
<1>1. t \in Parsed /\ Reachable({}, t, Start) /\ IsOfTx({}, t) /\ tx' = t
  BY Accepted, StartReachable DEF SignShowS, SignShowX, IsOfTx
<1>2. CASE SignShowS(t)
  BY <1>1, <1>2, ShowSStep DEF SignShowS
<1>3. CASE SignShowX(t)
  <2>1. seen' = {} /\ screen' = "review" /\ step' = 0 /\ idx' = -1 /\ pageIdx' = 0
        /\ OnX /\ build' = build
    BY <1>3 DEF SignShowX
  <2>2. OnX'
    BY <2>1, SameItems
  <2> QED BY <2>1, <2>2 DEF Sound, OnItem, AtEnds, AtItem, IsOfTx
<1> QED BY <1>2, <1>3

LEMMA ForwardStep ==
  ASSUME IInv, ~disturbed, Forward
  PROVE  Sound'
<1>1. build \in Builds /\ tx \in Parsed /\ IsOfTx(seen, tx)
  BY Calm
<1>2. CASE h_review_button_right
  <2>1. ~OnX /\ AtItem /\ tx' = tx /\ ShowS(tx, Increased, seen)
    BY <1>2 DEF h_review_button_right, OnReviewS, AtItem
  <2> QED BY <1>1, <2>1, RightReachable, ShowSStep
<1>3. CASE RightFromView
  BY <1>3, LoopStartStep DEF RightFromView, OnStepX
<1>4. CASE RightFromItem
  BY <1>4, LoopEndStep DEF RightFromItem, OnStepX
<1> QED BY <1>2, <1>3, <1>4 DEF Forward

LEMMA BackStep ==
  ASSUME IInv, ~disturbed, Back
  PROVE  Sound'
<1>1. build \in Builds /\ tx \in Parsed /\ IsOfTx(seen, tx)
  BY Calm
<1>2. CASE h_review_button_left
  <2>1. ~OnX /\ AtItem /\ tx' = tx /\ ShowS(tx, Decreased, seen)
    BY <1>2 DEF h_review_button_left, OnReviewS, AtItem
  <2> QED BY <1>1, <2>1, LeftReachable, ShowSStep
<1>3. CASE h_review
  <2>1. ~OnX /\ tx' = tx /\ ShowS(tx, Start, seen)
    BY <1>3 DEF h_review
  <2> QED BY <1>1, <2>1, StartReachable, ShowSStep
<1>4. CASE LeftFromItem
  BY <1>4, LoopStartStep DEF LeftFromItem, OnStepX
<1>5. CASE LeftFromSign
  BY <1>5, LoopEndStep DEF LeftFromSign, OnStepX
<1> QED BY <1>2, <1>3, <1>4, <1>5 DEF Back

\* The steps that move nothing but the screen or its step
LEMMA AsideStep ==
  ASSUME IInv, ~disturbed, BothButtons \/ StepAside \/ Idle
  PROVE  Sound'
<1>1. /\ build' = build /\ tx' = tx /\ seen' = seen /\ IsOfTx(seen, tx)
      /\ idx' = idx /\ pageIdx' = pageIdx /\ pageCount' = pageCount /\ shown' = shown
  BY Calm DEF BothButtons, StepAside, Idle, viewdata
<1>2. CASE BothButtons \/ Idle
  <2>1. screen' \in {"menu", "idle"}
    BY <1>2 DEF BothButtons, Idle
  <2> QED BY <1>1, <2>1, AwayStep
<1>3. CASE screen = "error" /\ screen' = screen
  BY <1>1, <1>3, AwayStep
<1>4. CASE OnX /\ screen = "review" /\ step \in {4, 5} /\ step' = 9 - step /\ screen' = screen
  <2>1. step' \in {4, 5}
    BY <1>4
  <2>2. idx = NumItems(tx) /\ pageIdx = 0 /\ HasBelow(seen, tx, NumItems(tx))
    BY <1>4, Calm DEF Sound, AtEnds
  <2>3. (idx = NumItems(tx))' /\ HasBelow(seen, tx, NumItems(tx))' /\ OnX'
    BY <1>1, <1>4, <2>2, SameItems DEF HasBelow
  <2>4. IsOfTx(seen, tx)'
    BY <1>1, SameSeen
  <2> QED BY <1>1, <1>4, <2>1, <2>2, <2>3, <2>4 DEF Sound, OnItem, AtEnds, AtItem
<1> QED BY <1>2, <1>3, <1>4 DEF StepAside

\* The strengthening of the invariants below: viewdata, flow and history agree
\* wherever the user is, as long as no packet disturbs the review.
THEOREM Inductive == Spec => []IInv
<1>1. Init => IInv
  <2> SUFFICES ASSUME Init PROVE IInv
    OBVIOUS
  <2>1. NoItem \in Names \X (0..255)
    BY DEF NoItem, Names
  <2>2. ViewTyped
    BY <2>1 DEF Init, ViewTyped
  <2>3. MaxLeft \in Nat
    BY ReviewAssumption
  <2>4. lefts \in 0..MaxLeft
    BY <2>3 DEF Init
  <2>5. Owned
    BY DEF Init, Owned
  <2>6. Globals
    BY <2>2, <2>4, <2>5 DEF Init, Globals
  <2> QED BY <2>6 DEF Init, IInv, Bounds, InFlow, InRange, OnMenu, Sound, OnItem, AtEnds, AtItem, IsOfTx
<1>2. IInv /\ [Next]_vars => IInv'
  <2> SUFFICES ASSUME IInv, [Next]_vars, ~disturbed' PROVE Sound'
    BY BoundsStep DEF IInv
  <2>1. ASSUME NEW t \in Txs, SignShowS(t) \/ SignShowX(t) PROVE Sound'
    BY <2>1, BeginStep DEF IInv, Bounds, Globals
  <2>2. ASSUME NEW t \in Drafts, Overwrite(t) PROVE Sound'
    BY <2>2 DEF Overwrite
  <2>3. CASE Forward
    BY <2>3, ForwardStep DEF Forward, h_review_button_right, RightFromView, RightFromItem
  <2>4. CASE Back
    BY <2>4, BackStep DEF Back, h_review_button_left, h_review, LeftFromItem, LeftFromSign
  <2>5. CASE BothButtons \/ StepAside
    BY <2>5, AsideStep DEF BothButtons, StepAside
  <2>6. CASE Decide
    <3>1. Idle /\ disturbed' = disturbed
      BY <2>6 DEF Decide, h_sign_accept, h_sign_reject, h_error_accept, Idle
    <3> QED BY <3>1, AsideStep
  <2>7. CASE PowerCycle
    BY <2>7 DEF PowerCycle, Sound, OnItem, AtEnds, AtItem, IsOfTx
  <2>8. CASE UNCHANGED vars
    <3>1. /\ build' = build /\ tx' = tx /\ seen' = seen /\ disturbed' = disturbed
          /\ idx' = idx /\ pageIdx' = pageIdx /\ pageCount' = pageCount /\ shown' = shown
          /\ screen' = screen /\ step' = step
      BY <2>8 DEF vars, viewdata
    <3>2. Sound
      BY <3>1 DEF IInv
    <3> QED BY <3>1, <3>2, SameItems DEF Sound, OnItem, AtEnds, AtItem,
                                         Current, HasBelow, HasUpTo, IsOfTx
  <2> QED BY <2>1, <2>2, <2>3, <2>4, <2>5, <2>6, <2>7, <2>8 DEF Next
<1> QED BY <1>1, <1>2, PTL DEF Spec

\* The globals of view.c keep the width of their types: no review is long
\* enough for an index to wrap, a disturbed one neither (view_internal.h:74-84).
THEOREM TypeCorrect == Spec => []TypeOK
<1>1. IInv => TypeOK
  BY DEF IInv, Bounds, Globals, Owned, ViewTyped, TypeOK
<1> QED BY <1>1, Inductive, PTL

\* What is displayed in a review that no packet disturbed is the page viewdata
\* points to (view.c:75-121).
THEOREM DisplayCorrect == Spec => []DisplayIsCurrent
<1>1. IInv => DisplayIsCurrent
  BY DEF IInv, Sound, OnItem, Current, DisplayIsCurrent
<1> QED BY <1>1, Inductive, PTL

\* One step to the right of an item is the page behind it.
LEMMA IncreasedIsPageAfter ==
  ASSUME IInv, ~disturbed, AtItem
  PROVE  Increased = PageAfter
<1>1. Current /\ Pages(tx, Item(tx, idx)) \in 1..8
  BY Calm, PagesType DEF Sound, OnItem
<1> QED BY <1>1 DEF Current, Increased, PageAfter

\* What a position on the way may come to: an item, an error, or the end
LEMMA ErrorsAt ==
  ASSUME IInv, ~disturbed, NEW at, Reachable(seen, tx, at), at[1] >= 0
  PROVE  /\ at[1] < NumItems(tx) =>
              Err(tx, at) = IF Unshowable(tx, Item(tx, at[1])) THEN "unexpected_buffer_end" ELSE "ok"
         /\ ~(at[1] < NumItems(tx)) =>
              Err(tx, at) = IF tx.msgType = "Update" THEN "unexpected_error" ELSE "no_data"
<1>1. /\ build \in Builds /\ tx \in Txs /\ tx \in Parsed /\ NumItems(tx) \in 0..64
      /\ at[1] \in 0..NumItems(tx)
  BY Calm DEF Reachable
<1>2. Err(tx, at) = ItemError(tx, at[1])
  BY <1>1 DEF Err, GetItem
<1>3. Item(tx, at[1]) = NoItem <=> at[1] = NumItems(tx)
  BY <1>1, ItemsEnd
<1>4. NoItemError[tx.msgType] = IF tx.msgType = "Update" THEN "unexpected_error" ELSE "no_data"
  BY <1>1, Accepted DEF NoItemError
<1> QED BY <1>1, <1>2, <1>3, <1>4 DEF ItemError

\* The page that ForwardIsNextPage speaks of is the one that the user comes to.
LeadsToNextPage ==
  /\ <<idx', pageIdx'>> = PageAfter
  /\ IF PageAfter[1] < NumItems(tx)
       THEN IF Unshowable(tx, Item(tx, PageAfter[1])) THEN screen' = "error" ELSE AtItem'
       ELSE IF tx.msgType = "Update" THEN screen' = "error" ELSE Choice'

LEMMA GoingRight ==
  ASSUME IInv, ~disturbed, Forward
  PROVE  LeadsToNextPage
<1>1. ASSUME IInv, ~disturbed, h_review_button_right PROVE LeadsToNextPage
  <2>1. ~OnX /\ AtItem /\ ShowS(tx, Increased, seen) /\ build' = build
    BY <1>1 DEF h_review_button_right, OnReviewS, AtItem, ShowS
  <2>2. Increased = PageAfter /\ Reachable(seen, tx, PageAfter)
    BY <1>1, <2>1, IncreasedIsPageAfter, RightReachable
  <2>3. PageAfter[1] >= 0
    <3>1. idx \in Nat
      BY <1>1, <2>1, Calm DEF Sound, OnItem, Current
    <3> QED BY <3>1 DEF PageAfter
  <2>4. PageAfter = <<PageAfter[1], PageAfter[2]>>
    BY DEF PageAfter
  <2>5. <<idx', pageIdx'>> = PageAfter
    BY <2>1, <2>2, <2>4 DEF ShowS, Fetch, ErrorShow
  <2>6. ~OnX'
    BY <2>1, SameItems
  <2>7. /\ Err(tx, PageAfter) = "ok" => AtItem'
        /\ Err(tx, PageAfter) = "no_data" => Choice'
        /\ Err(tx, PageAfter) \notin {"ok", "no_data"} => screen' = "error"
    BY <2>1, <2>2, <2>6 DEF ShowS, Failed, ErrorShow, AtItem, Choice
  <2> QED BY <1>1, <2>2, <2>3, <2>5, <2>7, ErrorsAt DEF LeadsToNextPage
<1>2. ASSUME IInv, ~disturbed, RightFromView PROVE LeadsToNextPage
  <2>1. /\ OnX /\ screen = "review" /\ inside = 0 /\ idx = -1 /\ LoopStart /\ build' = build
        /\ build \in Builds /\ tx \in Parsed /\ NumItems(tx) \in 3..64
    BY <1>2, Calm DEF RightFromView, OnStepX, IInv, Bounds, InFlow, Sound, AtEnds
  <2>2. PageAfter = Start
    BY <2>1 DEF PageAfter, Start
  <2>3. Reachable(seen, tx, Start) /\ Start = <<0, 0>> /\ NumItems(tx) \in 3..64
    BY <2>1, StartReachable DEF Start
  <2>4. Err(tx, Start) = IF Unshowable(tx, Item(tx, 0)) THEN "unexpected_buffer_end" ELSE "ok"
    BY <1>2, <2>3, ErrorsAt
  <2>5. OnX'
    BY <2>1, SameItems
  <2>6. CASE ~Failed(tx, Start) /\ ShowX(Start)
    <3>1. Err(tx, Start) = "ok"
      BY <2>4, <2>6 DEF Failed
    <3> QED BY <2>1, <2>2, <2>3, <2>4, <2>5, <2>6, <3>1 DEF LeadsToNextPage, ShowX, Fetch, AtItem
  <2>7. CASE Failed(tx, Start) /\ ErrorShowThenNext(Start)
    <3>1. Err(tx, Start) # "ok"
      BY <2>7 DEF Failed
    <3> QED BY <2>2, <2>3, <2>4, <2>7, <3>1 DEF LeadsToNextPage, ErrorShowThenNext, ErrorShow
  <2> QED BY <2>1, <2>6, <2>7 DEF LoopStart
<1>3. ASSUME IInv, ~disturbed, RightFromItem PROVE LeadsToNextPage
  <2>1. /\ OnX /\ screen = "review" /\ inside = 1 /\ AtItem /\ LoopEnd /\ build' = build
    BY <1>3 DEF RightFromItem, OnStepX, IInv, Bounds, InFlow, AtItem
  <2>2. Increased = PageAfter /\ Reachable(seen, tx, PageAfter)
    BY <1>3, <2>1, IncreasedIsPageAfter, RightReachable
  <2>3. PageAfter[1] >= 0
    <3>1. idx \in Nat
      BY <1>3, <2>1, Calm DEF Sound, OnItem, Current
    <3> QED BY <3>1 DEF PageAfter
  <2>4. PageAfter = <<PageAfter[1], PageAfter[2]>>
    BY DEF PageAfter
  <2>5. OnX'
    BY <2>1, SameItems
  <2>6. \/ Err(tx, PageAfter) = "ok" /\ ShowX(PageAfter)
        \/ Err(tx, PageAfter) = "no_data" /\ Fetch(tx, PageAfter) /\ step' = 4 /\ screen' = screen
        \/ Failed(tx, PageAfter) /\ ErrorShowThenPrev(PageAfter)
    BY <2>1, <2>2 DEF LoopEnd
  <2>7. <<idx', pageIdx'>> = PageAfter
    BY <2>4, <2>6 DEF ShowX, Fetch, ErrorShowThenPrev, ErrorShow
  <2>8. /\ Err(tx, PageAfter) = "ok" => AtItem'
        /\ Err(tx, PageAfter) = "no_data" => Choice'
        /\ Err(tx, PageAfter) \notin {"ok", "no_data"} => screen' = "error"
    BY <2>1, <2>5, <2>6 DEF ShowX, Failed, ErrorShowThenPrev, ErrorShow, AtItem, Choice, OnStepX
  <2> QED BY <1>3, <2>2, <2>3, <2>7, <2>8, ErrorsAt DEF LeadsToNextPage
<1> QED BY <1>1, <1>2, <1>3 DEF Forward

\* Whatever the transaction and the way to an item were, going right in a review
\* that no packet disturbed leads to the page behind it, or to the choice behind
\* the last one (view.c:81-121, view_s.c:156-175, view_x.c:105-178).
THEOREM ForwardCorrect == Spec => ForwardIsNextPage
<1>1. IInv /\ [Next]_vars =>
        [Forward /\ ~disturbed =>
           /\ <<idx', pageIdx'>> = PageAfter
           /\ IF PageAfter[1] < NumItems(tx)
                THEN IF Unshowable(tx, Item(tx, PageAfter[1])) THEN screen' = "error" ELSE AtItem'
                ELSE IF tx.msgType = "Update" THEN screen' = "error" ELSE Choice']_vars
  BY GoingRight DEF LeadsToNextPage
<1> QED BY <1>1, Inductive, PTL DEF Spec, ForwardIsNextPage

\* How often one can go right: no item has more than eight pages.
Remaining == 8 * (NumItems(tx) - idx) - pageIdx

\* The part of ReviewEnds that is not about fairness: while no packet disturbs the
\* review, each step to the right that comes to an item leaves fewer of them, and
\* there are none below zero, so that going right cannot go round (view.c:97-121,
\* view_x.c:105-178).
THEOREM GoingRightRunsOut ==
  Spec => [][Forward /\ AtItem' /\ ~disturbed => Remaining' \in Nat /\ Remaining' < Remaining]_vars
<1>1. ASSUME IInv, IInv', Forward, AtItem', ~disturbed
      PROVE  Remaining' \in Nat /\ Remaining' < Remaining
  <2>1. /\ build \in Builds /\ tx \in Parsed /\ build' = build /\ tx' = tx
        /\ NumItems(tx) \in 0..64 /\ ~disturbed'
    BY <1>1, Calm DEF Forward, h_review_button_right, RightFromView, RightFromItem, ShowS
  <2>2. NumItems(tx)' = NumItems(tx)
    BY <2>1, SameItems
  <2>3. idx' \in 0..(NumItems(tx) - 1) /\ pageIdx' \in 0..7
    <3>1. Current'
      BY <1>1, <2>1 DEF IInv, Sound, OnItem
    <3>2. Pages(tx, Item(tx, idx))' = Pages(tx', Item(tx', idx'))
      BY <2>1, SameItems
    <3>3. Pages(tx', Item(tx', idx')) \in 1..8
      BY <2>1, PagesType
    <3> QED BY <2>2, <3>1, <3>2, <3>3 DEF Current
  <2>4. Remaining' = 8 * (NumItems(tx) - idx') - pageIdx'
    BY <2>2 DEF Remaining
  <2>5. idx \in -1..64 /\ pageIdx \in 0..7
    <3>1. CASE AtItem
      <4>1. Current /\ Pages(tx, Item(tx, idx)) \in 1..8
        BY <1>1, <2>1, <3>1, Calm, PagesType DEF Sound, OnItem
      <4> QED BY <2>1, <4>1 DEF Current
    <3>2. CASE ~AtItem
      <4>1. OnX /\ screen = "review" /\ step = 0
        BY <1>1, <3>2 DEF Forward, h_review_button_right, OnReviewS, RightFromView, RightFromItem,
                          OnStepX, AtItem
      <4> QED BY <1>1, <4>1, Calm DEF Sound, AtEnds
    <3> QED BY <3>1, <3>2
  <2>6. (idx' = idx /\ pageIdx' = pageIdx + 1) \/ (idx' = idx + 1 /\ pageIdx' = 0)
    BY <1>1, GoingRight DEF LeadsToNextPage, PageAfter
  <2> QED BY <2>1, <2>3, <2>4, <2>5, <2>6 DEF Remaining
<1>2. IInv /\ IInv' /\ [Next]_vars =>
        [Forward /\ AtItem' /\ ~disturbed => Remaining' \in Nat /\ Remaining' < Remaining]_vars
  BY <1>1
<1> QED BY <1>2, Inductive, PTL DEF Spec

\* On both devices the review does what IovApp takes it to do: the choice comes
\* only from a review, and a review ends only there, at the error screen or
\* with the power (view_s.c:66-175, view_x.c:81-220).
THEOREM WalkCorrect == Spec => ImplementsWalk
<1> DEFINE InWalk == \/ walk' \in {walk, "review", "error"}
                     \/ walk = "review" /\ walk' = "choice"
                     \/ walk \in {"choice", "error"} /\ walk' = "idle"
<1>1. Init => Walk!Init
  BY DEF Init, Walk!Init, walk, Choice, OnStepX
<1>2. InWalk => [PowerCycle \/ Walk!Next]_walk
  BY DEF Walk!Next, Walk!Begin, Walk!Done, Walk!Close
<1>3. ASSUME NEW t, NEW at, NEW before, ShowS(t, at, before), ~OnX
      PROVE  /\ walk' \in {"review", "error", "choice"}
             /\ walk' = "choice" => Err(t, at) = "no_data"
  <2>1. ~OnX' /\ screen' \in {"review", "menu", "error"}
        /\ (screen' = "menu" => Err(t, at) = "no_data")
    BY <1>3 DEF ShowS, ErrorShow, OnX
  <2> QED BY <2>1 DEF walk, Choice, OnStepX
<1>4. ASSUME NEW t \in Txs, IInv, SignShowS(t) PROVE InWalk
  <2>1. t \in Parsed /\ NumItems(t) \in 3..64 /\ build \in Builds
    BY <1>4, Accepted, Counts DEF IInv, Bounds, Globals
  <2>2. Start[1] \in -1..NumItems(t) /\ Start[1] \notin {-1, NumItems(t)}
    BY <2>1 DEF Start
  <2>3. Err(t, Start) # "no_data"
    BY <2>1, <2>2, Errors
  <2> QED BY <1>3, <1>4, <2>3 DEF SignShowS
<1>5. ASSUME NEW t \in Txs, SignShowX(t) PROVE InWalk
  BY <1>5 DEF SignShowX, walk, Choice, OnStepX
<1>6. ASSUME h_review_button_left \/ h_review_button_right \/ h_review PROVE InWalk
  <2>1. ~OnX /\ walk \in {"review", "choice"}
    BY <1>6 DEF h_review_button_left, h_review_button_right, h_review, OnReviewS, walk, Choice, OnStepX
  <2>2. walk' \in {"review", "error", "choice"}
    BY <1>3, <1>6, <2>1 DEF h_review_button_left, h_review_button_right, h_review
  <2> QED BY <2>1, <2>2
<1>7. ASSUME OnX, screen = "review", step \in {0, 2, 4}, LoopStart \/ LoopEnd, build' = build
      PROVE  InWalk
  <2>1. OnX' /\ walk \in {"review", "choice"}
    BY <1>7 DEF OnX, walk
  <2>2. screen' = "error" \/ (screen' = "review" /\ step' \in {0, 2, 4})
    BY <1>7 DEF LoopStart, LoopEnd, ShowX, ErrorShowThenNext, ErrorShowThenPrev, ErrorShow, LeaveLoopToTheLeft
  <2>3. walk' \in {"review", "error", "choice"}
    BY <2>2 DEF walk
  <2> QED BY <2>1, <2>3 DEF walk
<1>8. ASSUME BothButtons \/ StepAside PROVE InWalk
  <2>1. CASE BothButtons
    BY <2>1 DEF BothButtons, OnReviewS, walk, Choice, OnStepX, OnX
  <2>2. CASE StepAside
    <3>1. screen' = screen /\ OnX' /\ OnX
      BY <2>2 DEF StepAside, OnX
    <3>2. CASE screen = "review" /\ step \in {4, 5} /\ step' = 9 - step
      <4>1. step' \in {4, 5}
        BY <3>2
      <4> QED BY <3>1, <3>2, <4>1 DEF walk, Choice, OnStepX
    <3>3. CASE screen = "error"
      BY <3>1, <3>3 DEF walk, Choice, OnStepX
    <3> QED BY <2>2, <3>2, <3>3 DEF StepAside
  <2> QED BY <1>8, <2>1, <2>2
<1>9. ASSUME Decide PROVE InWalk
  <2>1. walk \in {"choice", "error"}
    BY <1>9 DEF Decide, h_sign_accept, h_sign_reject, h_error_accept, walk, Choice
  <2>2. walk' = "idle"
    BY <1>9 DEF Decide, h_sign_accept, h_sign_reject, h_error_accept, Idle, walk, Choice, OnStepX
  <2> QED BY <2>1, <2>2
<1>10. ASSUME UNCHANGED vars PROVE walk' = walk
  BY <1>10 DEF vars, walk, Choice, OnStepX, OnX
<1>11. ASSUME NEW t, Overwrite(t) PROVE InWalk
  BY <1>11 DEF Overwrite, walk, Choice, OnStepX, OnX
<1> HIDE DEF InWalk
<1>12. IInv /\ [Next]_vars => [PowerCycle \/ Walk!Next]_walk
  BY <1>2, <1>4, <1>5, <1>6, <1>7, <1>8, <1>9, <1>10, <1>11
     DEF Next, Forward, Back, RightFromView, LeftFromItem, RightFromItem, LeftFromSign, OnStepX
<1> QED BY <1>1, <1>12, Inductive, PTL DEF Spec, ImplementsWalk

-------------------------------------------------------------------------------
(* From pages to characters *)

\* A page has no more characters than viewdata.value has room for.
LEMMA ChunkFits ==
  ASSUME NEW len, NEW outLen, NEW page,
         len \in 0..255, outLen \in {37, 4096}, page \in 0..(PagesOf(len, outLen) - 1)
  PROVE  ChunkSize(len, outLen, page) \in 0..(outLen - 1)
<1>1. CASE outLen = 37
  BY <1>1, SMT DEF ChunkSize, PagesOf
<1>2. CASE outLen = 4096
  BY <1>2, SMT DEF ChunkSize, PagesOf
<1> QED BY <1>1, <1>2

\* The character k is on one page, and on no other.
OnOnePage(len, outLen, k) ==
  \E at \in 0..(PagesOf(len, outLen) - 1) :
    /\ (outLen - 1) * at <= k /\ k < (outLen - 1) * (at + 1)
    /\ \A p \in 0..(PagesOf(len, outLen) - 1) : k \in Chunk(len, outLen, p) <=> p = at

\* The page that a character is on
LEMMA PageOf ==
  ASSUME NEW len, NEW outLen, NEW k,
         len \in 0..255, outLen \in {37, 4096}, k \in 0..(len - 1)
  PROVE  OnOnePage(len, outLen, k)
<1>1. CASE outLen = 37
  <2>1. k \div 36 \in 0..(PagesOf(len, 37) - 1) /\ 36 * (k \div 36) <= k /\ k < 36 * (k \div 36 + 1)
    BY SMT DEF PagesOf
  <2>2. \A p \in 0..(PagesOf(len, 37) - 1) : k \in Chunk(len, 37, p) <=> p = k \div 36
    BY <1>1, PagesTile
  <2> QED BY <1>1, <2>1, <2>2 DEF OnOnePage
<1>2. CASE outLen = 4096
  <2>1. k \div 4095 \in 0..(PagesOf(len, 4096) - 1) /\ 4095 * (k \div 4095) <= k /\ k < 4095 * (k \div 4095 + 1)
    BY SMT DEF PagesOf
  <2>2. \A p \in 0..(PagesOf(len, 4096) - 1) : k \in Chunk(len, 4096, p) <=> p = k \div 4095
    BY <1>2, PagesTile
  <2> QED BY <1>2, <2>1, <2>2 DEF OnOnePage
<1> QED BY <1>1, <1>2

\* A page of a text shows what parser_arrayToString copied: the two lines of a
\* Nano S lose nothing of it.
LEMMA ShownChunk ==
  ASSUME build \in Builds, tx \in Parsed, NEW item, IsText(item),
         NEW page \in 0..(Pages(tx, item) - 1)
  PROVE  ShownOn(item, page) = Chunk(TextLen(tx, item), ValueLen, page)
<1> DEFINE len == TextLen(tx, item)
           size == ChunkSize(len, ValueLen, page)
<1>1. len \in 0..255 /\ page \in 0..(PagesOf(len, ValueLen) - 1) /\ ValueLen \in {37, 4096}
  BY TxType, BuildType DEF Pages, TextLen
<1>2. size \in 0..(ValueLen - 1)
  <2>1. PagesOf(len, ValueLen) \in 1..8
    BY PagesType DEF Pages
  <2> HIDE DEF len
  <2> QED BY <1>1, <2>1, ChunkFits DEF size
<1>3. page \in Int
  OBVIOUS
<1> HIDE DEF size
<1>4. OnDisplay(size) = 0..(size - 1)
  <2>1. CASE OnX
    BY <2>1 DEF OnDisplay
  <2>2. CASE ~OnX
    <3>1. ValueLen = MAX_CHARS_PER_VALUE1_LINE
      BY <2>2 DEF ValueLen
    <3> QED BY <1>2, <2>2, <3>1, LinesTile DEF OnDisplay
  <2> QED BY <2>1, <2>2
<1>5. ShownOn(item, page) = {(ValueLen - 1) * page + k : k \in 0..(size - 1)}
  BY <1>4 DEF ShownOn, size
<1>6. Chunk(len, ValueLen, page) =
        ((ValueLen - 1) * page)..((ValueLen - 1) * page + size - 1)
  BY DEF Chunk, size
<1>7. (ValueLen - 1) * page \in Int /\ size \in Int
  BY <1>2, <1>3, BuildType
<1>8. ASSUME NEW a \in Int PROVE {a + k : k \in 0..(size - 1)} = a..(a + size - 1)
  <2>1. ASSUME NEW x \in a..(a + size - 1) PROVE x \in {a + k : k \in 0..(size - 1)}
    <3>1. x - a \in 0..(size - 1) /\ x = a + (x - a)
      BY <1>7
    <3> QED BY <3>1
  <2>2. ASSUME NEW k \in 0..(size - 1) PROVE a + k \in a..(a + size - 1)
    BY <1>7
  <2> QED BY <2>1, <2>2
<1> QED BY <1>5, <1>6, <1>7, <1>8

\* What the pages of an item show, those up to a page that were seen, is the
\* beginning of it, and none of it is left out.
LEMMA SeenPages ==
  ASSUME IInv, ~disturbed, NEW i \in 0..(NumItems(tx) - 1), NEW page \in 0..(Pages(tx, Item(tx, i)) - 1),
         HasUpTo(seen, tx, i, page)
  PROVE  /\ SeenOf(Item(tx, i)) \subseteq Positions(Item(tx, i))
         /\ \A k \in Positions(Item(tx, i)) :
              \/ k \in SeenOf(Item(tx, i))
              \/ /\ page < Pages(tx, Item(tx, i)) - 1
                 /\ \E h \in ShownOn(Item(tx, i), page) : TRUE
                 /\ \A h \in ShownOn(Item(tx, i), page) : h \in Int /\ h < k
<1> DEFINE item == Item(tx, i)
           len == TextLen(tx, item)
<1>1. build \in Builds /\ tx \in Parsed /\ IsOfTx(seen, tx) /\ ValueLen \in {37, 4096}
  BY Calm, BuildType
<1>2. len \in 0..255 /\ Pages(tx, item) \in 1..8 /\ page \in 0..(Pages(tx, item) - 1)
  BY <1>1, TxType, PagesType DEF TextLen
<1>3. ASSUME NEW x \in seen, x[1] = item PROVE x[2] \in 0..(Pages(tx, item) - 1)
  <2>1. PICK j \in 0..(NumItems(tx) - 1) :
          \E p \in 0..(Pages(tx, Item(tx, j)) - 1) : x = <<Item(tx, j), p>>
    BY <1>1, <1>3 DEF IsOfTx
  <2> QED BY <1>3, <2>1
<1>4. ASSUME NEW p \in 0..page, NEW k \in ShownOn(item, p) PROVE k \in SeenOf(item)
  <2>1. <<item, p>> \in {y \in seen : y[1] = item}
    BY DEF HasUpTo
  <2> HIDE DEF item
  <2> QED BY <1>4, <2>1 DEF SeenOf
<1> HIDE DEF item
<1>5. CASE IsText(item)
  <2>1. Positions(item) = 0..(len - 1) /\ Pages(tx, item) = PagesOf(len, ValueLen)
    BY <1>5 DEF Positions, Pages
  <2>2. \A p \in 0..(Pages(tx, item) - 1) : ShownOn(item, p) = Chunk(len, ValueLen, p)
    BY <1>1, <1>5, ShownChunk
  <2> HIDE DEF len
  <2>3. \A k \in 0..(len - 1) : \E at \in 0..(Pages(tx, item) - 1) :
          /\ (ValueLen - 1) * at <= k /\ k < (ValueLen - 1) * (at + 1)
          /\ \A p \in 0..(Pages(tx, item) - 1) : k \in ShownOn(item, p) <=> p = at
    <3>1. PagesOf(len, ValueLen) \in 1..8
      BY <1>2, <2>1
    <3>2. ASSUME NEW k, k \in 0..(len - 1)
          PROVE  OnOnePage(len, ValueLen, k)
      BY <1>1, <1>2, <3>2, PageOf
    <3> QED BY <2>1, <2>2, <3>1, <3>2 DEF OnOnePage
  <2>4. \A p \in 0..(Pages(tx, item) - 1) :
          ShownOn(item, p) \subseteq
            {k \in 0..(len - 1) : (ValueLen - 1) * p <= k /\ k < (ValueLen - 1) * (p + 1)}
    <3>1. len \in Nat /\ Pages(tx, item) = PagesOf(len, ValueLen)
      BY <1>2, <2>1
    <3> QED BY <1>1, <2>2, <3>1, PagesFit
  <2>5. ASSUME NEW x \in seen, x[1] = item PROVE ShownOn(item, x[2]) \subseteq Positions(item)
    <3>1. x[2] \in 0..(Pages(tx, item) - 1)
      BY <1>3, <2>5
    <3> QED BY <2>1, <2>4, <3>1
  <2>6. ASSUME NEW k \in 0..(len - 1), k \notin SeenOf(item)
        PROVE  /\ page < Pages(tx, item) - 1
               /\ \E h \in ShownOn(item, page) : TRUE
               /\ \A h \in ShownOn(item, page) : h \in Int /\ h < k
    <3>1. PICK at \in 0..(Pages(tx, item) - 1) :
            /\ (ValueLen - 1) * at <= k /\ k < (ValueLen - 1) * (at + 1)
            /\ \A p \in 0..(Pages(tx, item) - 1) : k \in ShownOn(item, p) <=> p = at
      BY <2>3
    <3>2. at > page
      BY <1>2, <1>4, <2>6, <3>1
    <3>3. (ValueLen - 1) * (page + 1) <= k
      <4>1. at \in Int /\ page \in Int
        BY <1>2
      <4>2. CASE ValueLen = 37
        BY <3>1, <3>2, <4>1, <4>2
      <4>3. CASE ValueLen = 4096
        BY <3>1, <3>2, <4>1, <4>3
      <4> QED BY <1>1, <4>2, <4>3
    <3>4. \A h \in ShownOn(item, page) : h \in Int /\ h < k
      <4>1. \A h \in ShownOn(item, page) : h \in Int /\ h < (ValueLen - 1) * (page + 1)
        BY <1>2, <2>4
      <4>2. (ValueLen - 1) * (page + 1) \in Int
        BY <1>1, <1>2
      <4> QED BY <3>3, <4>1, <4>2
    <3>5. (ValueLen - 1) * page \in ShownOn(item, page)
      <4> DEFINE first == (ValueLen - 1) * page
      <4>1. page \in Int /\ first \in 0..(len - 1)
        <5>1. CASE ValueLen = 37
          BY <1>2, <3>3, <5>1
        <5>2. CASE ValueLen = 4096
          BY <1>2, <3>3, <5>2
        <5> QED BY <1>1, <5>1, <5>2
      <4>2. PICK p \in 0..(Pages(tx, item) - 1) :
              /\ (ValueLen - 1) * p <= first /\ first < (ValueLen - 1) * (p + 1)
              /\ page \in 0..(Pages(tx, item) - 1) => (first \in ShownOn(item, page) <=> page = p)
        BY <2>3, <4>1
      <4>3. page = p
        <5>1. CASE ValueLen = 37
          BY <4>1, <4>2, <5>1
        <5>2. CASE ValueLen = 4096
          BY <4>1, <4>2, <5>2
        <5> QED BY <1>1, <5>1, <5>2
      <4> QED BY <1>2, <4>2, <4>3
    <3> QED BY <1>2, <3>1, <3>2, <3>4, <3>5
  <2>7. SeenOf(item) \subseteq Positions(item)
    BY <2>5 DEF SeenOf
  <2> QED BY <2>1, <2>6, <2>7 DEF item
<1>6. CASE ~IsText(item)
  <2>1. Positions(item) = {0} /\ \A p : ShownOn(item, p) = {0}
    BY <1>6 DEF Positions, ShownOn
  <2>2. SeenOf(item) \subseteq {0}
    BY <2>1 DEF SeenOf
  <2>3. 0 \in SeenOf(item)
    <3>1. 0 \in 0..page
      BY <1>2 DEF item
    <3> QED BY <1>4, <2>1, <3>1
  <2> QED BY <2>1, <2>2, <2>3 DEF item
<1> QED BY <1>5, <1>6

\* Items all of whose pages were seen were displayed to the last character.
LEMMA SeenItems ==
  ASSUME IInv, ~disturbed, NEW n \in 0..NumItems(tx), HasBelow(seen, tx, n)
  PROVE  SeenBelow(n)
<1> SUFFICES ASSUME NEW i \in 0..(n - 1)
             PROVE  /\ \E x \in seen : x[1] = Item(tx, i)
                    /\ SeenOf(Item(tx, i)) = Positions(Item(tx, i))
  BY DEF SeenBelow
<1> DEFINE last == Pages(tx, Item(tx, i)) - 1
<1>1. build \in Builds /\ tx \in Parsed /\ NumItems(tx) \in 0..64
  BY Calm
<1>2. last \in 0..7 /\ i \in 0..(NumItems(tx) - 1)
  BY <1>1, PagesType
<1>3. HasUpTo(seen, tx, i, last)
  BY DEF HasBelow, HasUpTo
<1>4. <<Item(tx, i), 0>> \in seen
  BY <1>2, <1>3 DEF HasUpTo
<1>5. SeenOf(Item(tx, i)) = Positions(Item(tx, i))
  <2>1. last \in 0..(Pages(tx, Item(tx, i)) - 1) /\ ~(last < Pages(tx, Item(tx, i)) - 1)
    BY <1>2
  <2> HIDE DEF last
  <2> QED BY <1>2, <1>3, <2>1, SeenPages
<1> QED BY <1>4, <1>5

\* In a review that no packet disturbed, a page is reached only after every
\* character before it was displayed, however the user goes back and forth
\* (view.c:81-95, parser_impl.c:726-756).
THEOREM NothingSkippedCorrect == Spec => []NothingSkipped
<1>1. IInv => NothingSkipped
  <2> SUFFICES ASSUME IInv, AtItem, ~disturbed PROVE NothingSkipped
    BY DEF NothingSkipped
  <2>1. /\ Current /\ HasBelow(seen, tx, idx) /\ HasUpTo(seen, tx, idx, pageIdx)
        /\ tx \in Parsed
    BY Calm DEF Sound, OnItem
  <2>2. idx \in 0..(NumItems(tx) - 1) /\ pageIdx \in 0..(Pages(tx, Item(tx, idx)) - 1)
    BY <2>1 DEF Current
  <2>3. NumItems(tx) \in 0..64
    BY Calm
  <2>4. SeenBelow(idx)
    BY <2>1, <2>2, <2>3, SeenItems
  <2>5. \A k \in Positions(Item(tx, idx)) :
          \/ k \in SeenOf(Item(tx, idx))
          \/ /\ \E h \in ShownOn(Item(tx, idx), pageIdx) : TRUE
             /\ \A h \in ShownOn(Item(tx, idx), pageIdx) : h \in Int /\ h < k
    BY <2>1, <2>2, SeenPages
  <2>6. \A k \in Positions(Item(tx, idx)) : k \in Int
    BY <2>1, TxType DEF Positions, TextLen
  <2> DEFINE item == Item(tx, idx)
             here == ShownOn(item, pageIdx)
  <2>7. \A k \in Positions(item) : (\E h \in here : k <= h) \/ here = {} => k \in SeenOf(item)
    <3> SUFFICES ASSUME NEW k \in Positions(item), k \notin SeenOf(item),
                        \E h \in here : k <= h
                 PROVE  FALSE
      BY <2>5
    <3>1. PICK h \in here : k <= h
      OBVIOUS
    <3>2. h \in Int /\ h < k /\ k \in Int
      BY <2>5, <2>6
    <3> QED BY <3>1, <3>2
  <2> QED BY <2>4, <2>7 DEF NothingSkipped
<1> QED BY <1>1, Inductive, PTL

\* A Nano X offers the choice of a review that no packet disturbed only after
\* every character of every item was displayed (view_x.c:105-178).
THEOREM SignAfterReviewCorrect == Spec => []SignAfterReview
<1>1. IInv => SignAfterReview
  <2> SUFFICES ASSUME IInv, OnX, Choice, ~disturbed
               PROVE  idx = NumItems(tx) /\ SeenBelow(NumItems(tx))
    BY DEF SignAfterReview
  <2>1. NumItems(tx) \in 0..64
    BY Calm
  <2>2. screen = "review" /\ step \in {4, 5}
    BY DEF Choice, OnStepX, IInv, Bounds, OnMenu
  <2>3. idx = NumItems(tx) /\ HasBelow(seen, tx, NumItems(tx))
    BY <2>2, Calm DEF Sound, AtEnds
  <2> QED BY <2>1, <2>3, SeenItems
<1> QED BY <1>1, Inductive, PTL
-------------------------------------------------------------------------------
(* The items of a review are the contents of the message: the computations *)
(* of parser.c with display indices agree.                                 *)

Things == Names \X Nat

LEMMA PartTypes ==
  ASSUME build \in Builds, tx \in Parsed
  PROVE  /\ ChainId \in Seq(Things) /\ Len(ChainId) = 1 - OFFSET
         /\ Payment \in Seq(Things) /\ Len(Payment) = 4
         /\ Memo \in Seq(Things) /\ Len(Memo) = IF tx.memoLen = 0 THEN 0 ELSE 1
         /\ Counters \in Seq(Things) /\ Len(Counters) = tx.multisig
         /\ Ballot \in Seq(Things) /\ Len(Ballot) = 3
         /\ Contract \in Seq(Things) /\ Len(Contract) = 1
         /\ Members \in Seq(Things) /\ Len(Members) = 2 * tx.participants
         /\ Requirements \in Seq(Things) /\ Len(Requirements) = 2
<1>1. OFFSET \in {0, 1} /\ tx.memoLen \in Nat /\ tx.multisig \in Nat /\ tx.participants \in Nat
  BY BuildType, TxType
<1>2. ASSUME NEW x \in Names PROVE <<x, 0>> \in Things
  BY DEF Things
<1>3. ChainId \in Seq(Things) /\ Len(ChainId) = 1 - OFFSET
  BY <1>1, <1>2 DEF ChainId, Names
<1>4. Payment \in Seq(Things) /\ Len(Payment) = 4
  BY <1>2 DEF Payment, Names
<1>5. Memo \in Seq(Things) /\ Len(Memo) = IF tx.memoLen = 0 THEN 0 ELSE 1
  BY <1>1, <1>2 DEF Memo, Names
<1>6. Counters \in Seq(Things) /\ Len(Counters) = tx.multisig
  BY <1>1 DEF Counters, Things, Names
<1>7. Ballot \in Seq(Things) /\ Len(Ballot) = 3
  BY <1>2 DEF Ballot, Names
<1>8. Contract \in Seq(Things) /\ Len(Contract) = 1
  BY <1>2 DEF Contract, Names
<1>9. Members \in Seq(Things) /\ Len(Members) = 2 * tx.participants
  BY <1>1 DEF Members, Things, Names
<1>10. Requirements \in Seq(Things) /\ Len(Requirements) = 2
  BY <1>2 DEF Requirements, Names
<1> QED BY <1>3, <1>4, <1>5, <1>6, <1>7, <1>8, <1>9, <1>10

\* Where an element of three sequences in a row comes from
LEMMA ThreeInARow ==
  ASSUME NEW a \in Seq(Things), NEW b \in Seq(Things), NEW c \in Seq(Things)
  PROVE  /\ a \o b \o c \in Seq(Things)
         /\ Len(a \o b \o c) = Len(a) + Len(b) + Len(c)
         /\ \A n \in 1..(Len(a) + Len(b) + Len(c)) :
              (a \o b \o c)[n] = IF n <= Len(a) THEN a[n]
                                ELSE IF n <= Len(a) + Len(b) THEN b[n - Len(a)]
                                ELSE c[n - Len(a) - Len(b)]
<1>1. a \o b \in Seq(Things) /\ Len(a \o b) = Len(a) + Len(b)
  BY ConcatProperties
<1>2. Len(a) \in Nat /\ Len(b) \in Nat /\ Len(c) \in Nat
  OBVIOUS
<1>3. ASSUME NEW n \in 1..(Len(a) + Len(b) + Len(c))
      PROVE  (a \o b \o c)[n] = IF n <= Len(a) THEN a[n]
                                ELSE IF n <= Len(a) + Len(b) THEN b[n - Len(a)]
                                ELSE c[n - Len(a) - Len(b)]
  <2>1. (a \o b \o c)[n] = IF n <= Len(a) + Len(b) THEN (a \o b)[n] ELSE c[n - (Len(a) + Len(b))]
    BY <1>1, ConcatProperties
  <2>2. n <= Len(a) + Len(b) => (a \o b)[n] = IF n <= Len(a) THEN a[n] ELSE b[n - Len(a)]
    BY <1>2, ConcatProperties
  <2> QED BY <2>1, <2>2, <1>2
<1> QED BY <1>1, <1>3, ConcatProperties

\* What a field number stands for, by name
LEMMA FieldIs ==
  ASSUME build \in Builds, NEW t \in Parsed, NEW f \in Int, f # FIELD_CHAINID
  PROVE  /\ t.msgType = "Send" =>
              /\ f + OFFSET = 1 => FieldAt(t, f) = "source"
              /\ f + OFFSET = 2 => FieldAt(t, f) = "destination"
              /\ f + OFFSET = 3 => FieldAt(t, f) = "amount"
              /\ f + OFFSET = 4 => FieldAt(t, f) = "fee"
              /\ f + OFFSET = 5 => FieldAt(t, f) = "memo"
              /\ f + OFFSET > 5 => FieldAt(t, f) = "variable"
         /\ t.msgType = "Vote" =>
              /\ f + OFFSET = 1 => FieldAt(t, f) = "proposalId"
              /\ f + OFFSET = 2 => FieldAt(t, f) = "voter"
              /\ f + OFFSET = 3 => FieldAt(t, f) = "selection"
         /\ t.msgType = "Update" =>
              /\ f + OFFSET = 1 => FieldAt(t, f) = "contractId"
              /\ f + OFFSET = 2 => FieldAt(t, f) = "participant"
              /\ f + OFFSET = 3 => FieldAt(t, f) = "activation"
              /\ f + OFFSET = 4 => FieldAt(t, f) = "admin"
<1>1. OFFSET \in {0, 1}
  BY BuildType
<1>2. CASE t.msgType = "Send"
  BY <1>1, <1>2 DEF FieldAt, Fields
<1>3. CASE t.msgType = "Vote"
  BY <1>1, <1>3 DEF FieldAt, Fields
<1>4. CASE t.msgType = "Update"
  BY <1>1, <1>4 DEF FieldAt, Fields
<1> QED BY <1>2, <1>3, <1>4

\* The item of a field that is there once
LEMMA ItemOnce ==
  ASSUME NEW t, NEW i, NEW name, FieldAt(t, MapDisplayIdx(t, i)) = name,
         name \notin {"participant", "variable"}, t.msgType # "Invalid"
  PROVE  Item(t, i) = <<name, 0>>
BY ItemOfField

\* Items that are a sequence's elements
LEMMA ItemsAre ==
  ASSUME NEW c \in Seq(Things), NEW t, NumItems(t) = Len(c),
         \A i \in 0..(NumItems(t) - 1) : Item(t, i) = c[i + 1]
  PROVE  [n \in 1..NumItems(t) |-> Item(t, n - 1)] = c
<1> DEFINE items == [n \in 1..Len(c) |-> Item(t, n - 1)]
<1>1. ASSUME NEW n \in 1..Len(c) PROVE items[n] = c[n]
  <2>1. n - 1 \in 0..(NumItems(t) - 1) /\ (n - 1) + 1 = n
    OBVIOUS
  <2> QED BY <2>1
<1>2. items \in Seq(Things) /\ Len(items) = Len(c)
  <2>1. Len(c) \in Nat /\ \A n \in 1..Len(c) : c[n] \in Things
    OBVIOUS
  <2>2. \A n \in 1..Len(c) : Item(t, n - 1) \in Things
    BY <1>1, <2>1
  <2> QED BY <2>1, <2>2
<1> HIDE DEF items
<1>3. \A n \in 1..Len(items) : items[n] = c[n]
  BY <1>1, <1>2
<1>4. items = c
  BY <1>2, <1>3, SeqEqual, Zenon
<1> QED BY <1>4 DEF items

\* A send: the chain id, four fields, the memo if there is one, the counters.
LEMMA SendContents ==
  ASSUME build \in Builds, tx \in Parsed, tx.msgType = "Send",
         tx.memoLen > 0 \/ tx.multisig = 0
  PROVE  [n \in 1..NumItems(tx) |-> Item(tx, n - 1)] = Contents
<1> DEFINE rest == Payment \o Memo \o Counters
           m == IF tx.memoLen = 0 THEN 0 ELSE 1
<1>1. OFFSET \in {0, 1} /\ tx.memoLen \in Nat /\ tx.multisig \in 0..8
  BY BuildType, TxType
<1>2. Contents = ChainId \o rest
  BY DEF Contents
<1>3. /\ rest \in Seq(Things) /\ Len(rest) = 4 + m + tx.multisig
      /\ \A n \in 1..(4 + m + tx.multisig) :
           rest[n] = IF n <= 4 THEN Payment[n]
                     ELSE IF n <= 4 + m THEN Memo[n - 4] ELSE Counters[n - 4 - m]
  <2>1. /\ Payment \in Seq(Things) /\ Memo \in Seq(Things) /\ Counters \in Seq(Things)
        /\ Len(Payment) = 4 /\ Len(Memo) = m /\ Len(Counters) = tx.multisig
    BY PartTypes
  <2>2. /\ rest \in Seq(Things)
        /\ Len(rest) = Len(Payment) + Len(Memo) + Len(Counters)
        /\ \A n \in 1..(Len(Payment) + Len(Memo) + Len(Counters)) :
             rest[n] = IF n <= Len(Payment) THEN Payment[n]
                       ELSE IF n <= Len(Payment) + Len(Memo) THEN Memo[n - Len(Payment)]
                       ELSE Counters[n - Len(Payment) - Len(Memo)]
    BY <2>1, ThreeInARow
  <2> HIDE DEF rest, m
  <2> QED BY <2>1, <2>2
<1> HIDE DEF rest
<1>4. /\ Contents \in Seq(Things) /\ Len(Contents) = 1 - OFFSET + 4 + m + tx.multisig
      /\ \A n \in 1..(1 - OFFSET + 4 + m + tx.multisig) :
           Contents[n] = IF n <= 1 - OFFSET THEN ChainId[n] ELSE rest[n - (1 - OFFSET)]
  <2>1. ChainId \in Seq(Things) /\ Len(ChainId) = 1 - OFFSET
    BY PartTypes
  <2>2. /\ Contents \in Seq(Things)
        /\ Len(Contents) = Len(ChainId) + Len(rest)
        /\ \A n \in 1..(Len(ChainId) + Len(rest)) :
             Contents[n] = IF n <= Len(ChainId) THEN ChainId[n] ELSE rest[n - Len(ChainId)]
    BY <1>2, <1>3, <2>1, ConcatProperties
  <2>3. Len(ChainId) + Len(rest) = 1 - OFFSET + 4 + m + tx.multisig
    BY <1>1, <1>3, <2>1
  <2> HIDE DEF m
  <2> QED BY <2>1, <2>2, <2>3
<1>5. NumItems(tx) = Len(Contents)
  BY <1>4, <1>1, Counts
<1>6. ASSUME NEW i \in 0..(NumItems(tx) - 1)
      PROVE  Item(tx, i) = Contents[i + 1]
  <2>1. i \in Nat /\ i < 5 - OFFSET + m + tx.multisig
    BY <1>6, <1>5, <1>4, <1>1
  <2>2. MapDisplayIdx(tx, i) = IF i >= 5 - OFFSET /\ tx.memoLen = 0 THEN i + 1 ELSE i
    BY DEF MapDisplayIdx, FIELD_MEMO
  <2>3. MapDisplayIdx(tx, i) = i
    BY <2>1, <2>2, <1>1
  <2>4. CASE i = FIELD_CHAINID
    <3>1. OFFSET = 0 /\ i = 0
      BY <2>4, <2>1, <1>1 DEF FIELD_CHAINID
    <3>2. Item(tx, i) = <<"chainId", 0>>
      BY <2>3, <2>4, FieldNames, ItemOnce
    <3>3. Contents[i + 1] = ChainId[1]
      BY <3>1, <1>4, <1>1
    <3> QED BY <3>1, <3>2, <3>3 DEF ChainId
  <2>5. CASE i # FIELD_CHAINID
    <3> DEFINE n == i + OFFSET
    <3>1. n \in 1..(4 + m + tx.multisig)
      BY <2>5, <2>1, <1>1 DEF FIELD_CHAINID
    <3>2. Contents[i + 1] = rest[n]
      BY <3>1, <1>4, <1>1
    <3>3. CASE n \in 1..4
      <4>1. Contents[i + 1] = Payment[n]
        BY <3>1, <3>2, <3>3, <1>3
      <4>2. n = 1 => Item(tx, i) = <<"source", 0>>
        BY <2>3, <2>5, FieldIs, ItemOnce
      <4>3. n = 2 => Item(tx, i) = <<"destination", 0>>
        BY <2>3, <2>5, FieldIs, ItemOnce
      <4>4. n = 3 => Item(tx, i) = <<"amount", 0>>
        BY <2>3, <2>5, FieldIs, ItemOnce
      <4>5. n = 4 => Item(tx, i) = <<"fee", 0>>
        BY <2>3, <2>5, FieldIs, ItemOnce
      <4>6. n = 1 \/ n = 2 \/ n = 3 \/ n = 4
        BY <3>3
      <4> HIDE DEF n
      <4> QED BY <4>1, <4>2, <4>3, <4>4, <4>5, <4>6 DEF Payment
    <3>4. CASE n = 5 /\ m = 1
      <4>1. Contents[i + 1] = Memo[1]
        BY <3>1, <3>2, <3>4, <1>3
      <4>2. Item(tx, i) = <<"memo", 0>>
        <5>1. FieldAt(tx, MapDisplayIdx(tx, i)) = "memo"
          BY <3>4, <2>1, <2>3, <2>5, FieldIs
        <5> QED BY <5>1, ItemOnce
      <4>3. tx.memoLen > 0
        BY <3>4, <1>1
      <4> QED BY <4>1, <4>2, <4>3 DEF Memo
    <3>5. CASE n > 5 \/ (m = 0 /\ n > 4)
      <4>1. m = 1 /\ n > 5
        BY <3>1, <3>5, <1>1
      <4>2. Contents[i + 1] = Counters[n - 5]
        BY <3>1, <3>2, <4>1, <1>3, <1>1
      <4>3. n - 5 \in 1..tx.multisig
        BY <3>1, <4>1, <1>1
      <4>4. Counters[n - 5] = <<"multisig", n - 6>>
        BY <4>3, <1>1 DEF Counters
      <4>5. Item(tx, i) = <<"multisig", (i - FixCount(tx)) % 256>>
        <5>1. FieldAt(tx, MapDisplayIdx(tx, i)) = "variable"
          BY <2>3, <2>5, <4>1, FieldIs
        <5>2. i < NumItems(tx)
          BY <1>6, <1>5, <1>4, <1>1
        <5> QED BY <5>1, <5>2, ItemOfField
      <4>6. FixCount(tx) = 6 - OFFSET
        <5>1. Len(Fields["Send"]) = 5
          BY DEF Fields
        <5> QED BY <5>1, <1>1 DEF FixCount
      <4>7. (i - FixCount(tx)) % 256 = n - 6
        BY <4>6, <4>3, <2>1, <1>1
      <4> QED BY <4>2, <4>4, <4>5, <4>7
    <3> QED BY <3>1, <3>3, <3>4, <3>5, <1>1
  <2> QED BY <2>4, <2>5
<1> QED BY <1>4, <1>5, <1>6, ItemsAre

\* A vote: the chain id and three fields
LEMMA VoteContents ==
  ASSUME build \in Builds, tx \in Parsed, tx.msgType = "Vote"
  PROVE  [n \in 1..NumItems(tx) |-> Item(tx, n - 1)] = Contents
<1>1. OFFSET \in {0, 1}
  BY BuildType
<1>2. Contents = ChainId \o Ballot
  BY DEF Contents
<1>3. /\ Contents \in Seq(Things) /\ Len(Contents) = 4 - OFFSET
      /\ \A n \in 1..(4 - OFFSET) :
           Contents[n] = IF n <= 1 - OFFSET THEN ChainId[n] ELSE Ballot[n - (1 - OFFSET)]
  <2>1. /\ ChainId \in Seq(Things) /\ Len(ChainId) = 1 - OFFSET
        /\ Ballot \in Seq(Things) /\ Len(Ballot) = 3
    BY PartTypes
  <2>2. /\ Contents \in Seq(Things)
        /\ Len(Contents) = Len(ChainId) + Len(Ballot)
        /\ \A n \in 1..(Len(ChainId) + Len(Ballot)) :
             Contents[n] = IF n <= Len(ChainId) THEN ChainId[n] ELSE Ballot[n - Len(ChainId)]
    BY <1>2, <2>1, ConcatProperties
  <2>3. Len(ChainId) + Len(Ballot) = 4 - OFFSET
    BY <1>1, <2>1
  <2> QED BY <2>1, <2>2, <2>3
<1>4. NumItems(tx) = Len(Contents)
  BY <1>3, Counts
<1>5. ASSUME NEW i \in 0..(NumItems(tx) - 1)
      PROVE  Item(tx, i) = Contents[i + 1]
  <2>1. i \in Nat /\ i < 4 - OFFSET
    BY <1>5, <1>4, <1>3, <1>1
  <2>2. MapDisplayIdx(tx, i) = i
    BY DEF MapDisplayIdx
  <2>3. CASE i = FIELD_CHAINID
    <3>1. OFFSET = 0 /\ i = 0
      BY <2>3, <2>1, <1>1 DEF FIELD_CHAINID
    <3>2. Item(tx, i) = <<"chainId", 0>>
      BY <2>2, <2>3, FieldNames, ItemOnce
    <3>3. Contents[i + 1] = ChainId[1]
      BY <3>1, <1>3, <1>1
    <3> QED BY <3>1, <3>2, <3>3 DEF ChainId
  <2>4. CASE i # FIELD_CHAINID
    <3> DEFINE n == i + OFFSET
    <3>1. n = 1 \/ n = 2 \/ n = 3
      BY <2>4, <2>1, <1>1 DEF FIELD_CHAINID
    <3>2. Contents[i + 1] = Ballot[n]
      BY <2>1, <3>1, <1>3, <1>1
    <3>3. n = 1 => Item(tx, i) = <<"proposalId", 0>>
      BY <2>2, <2>4, FieldIs, ItemOnce
    <3>4. n = 2 => Item(tx, i) = <<"voter", 0>>
      BY <2>2, <2>4, FieldIs, ItemOnce
    <3>5. n = 3 => Item(tx, i) = <<"selection", 0>>
      BY <2>2, <2>4, FieldIs, ItemOnce
    <3> HIDE DEF n
    <3> QED BY <3>1, <3>2, <3>3, <3>4, <3>5 DEF Ballot
  <2> QED BY <2>3, <2>4
<1> QED BY <1>3, <1>4, <1>5, ItemsAre

\* An update: the chain id, the contract, two items for each participant, and
\* the two requirements.
LEMMA UpdateContents ==
  ASSUME build \in Builds, tx \in Parsed, tx.msgType = "Update"
  PROVE  [n \in 1..NumItems(tx) |-> Item(tx, n - 1)] = Contents
<1> DEFINE rest == Contract \o Members \o Requirements
           p == 2 * tx.participants
<1>1. OFFSET \in {0, 1} /\ p \in Nat
  BY BuildType, TxType
<1>2. Contents = ChainId \o rest
  BY DEF Contents
<1>3. /\ rest \in Seq(Things) /\ Len(rest) = 3 + p
      /\ \A n \in 1..(3 + p) :
           rest[n] = IF n <= 1 THEN Contract[n]
                     ELSE IF n <= 1 + p THEN Members[n - 1] ELSE Requirements[n - 1 - p]
  <2>1. /\ Contract \in Seq(Things) /\ Members \in Seq(Things) /\ Requirements \in Seq(Things)
        /\ Len(Contract) = 1 /\ Len(Members) = p /\ Len(Requirements) = 2
    BY PartTypes
  <2>2. /\ rest \in Seq(Things)
        /\ Len(rest) = Len(Contract) + Len(Members) + Len(Requirements)
        /\ \A n \in 1..(Len(Contract) + Len(Members) + Len(Requirements)) :
             rest[n] = IF n <= Len(Contract) THEN Contract[n]
                       ELSE IF n <= Len(Contract) + Len(Members) THEN Members[n - Len(Contract)]
                       ELSE Requirements[n - Len(Contract) - Len(Members)]
    BY <2>1, ThreeInARow
  <2> HIDE DEF rest, p
  <2>3. Len(Contract) + Len(Members) + Len(Requirements) = 3 + p
    BY <1>1, <2>1
  <2> QED BY <2>1, <2>2, <2>3
<1> HIDE DEF rest
<1>4. /\ Contents \in Seq(Things) /\ Len(Contents) = 4 - OFFSET + p
      /\ \A n \in 1..(4 - OFFSET + p) :
           Contents[n] = IF n <= 1 - OFFSET THEN ChainId[n] ELSE rest[n - (1 - OFFSET)]
  <2>1. ChainId \in Seq(Things) /\ Len(ChainId) = 1 - OFFSET
    BY PartTypes
  <2>2. /\ Contents \in Seq(Things)
        /\ Len(Contents) = Len(ChainId) + Len(rest)
        /\ \A n \in 1..(Len(ChainId) + Len(rest)) :
             Contents[n] = IF n <= Len(ChainId) THEN ChainId[n] ELSE rest[n - Len(ChainId)]
    BY <1>2, <1>3, <2>1, ConcatProperties
  <2>3. Len(ChainId) + Len(rest) = 4 - OFFSET + p
    BY <1>1, <1>3, <2>1
  <2> HIDE DEF p
  <2> QED BY <2>1, <2>2, <2>3
<1>5. NumItems(tx) = Len(Contents) /\ FixCount(tx) = 5 - OFFSET
  BY <1>4, <1>1, Counts
<1>6. ASSUME NEW i \in 0..(NumItems(tx) - 1)
      PROVE  Item(tx, i) = Contents[i + 1]
  <2>1. i \in Nat /\ i < 4 - OFFSET + p
    BY <1>6, <1>5, <1>4, <1>1
  <2>2. MapDisplayIdx(tx, i) =
          IF i < 2 - OFFSET THEN i
          ELSE IF i < 2 - OFFSET + p THEN 2 - OFFSET
          ELSE i - p + 1
    BY <2>1, <1>5, <1>1 DEF MapDisplayIdx, FIELD_PARTICIPANT
  <2>3. CASE i = FIELD_CHAINID
    <3>1. OFFSET = 0 /\ i = 0 /\ MapDisplayIdx(tx, i) = FIELD_CHAINID
      BY <2>3, <2>2, <2>1, <1>1 DEF FIELD_CHAINID
    <3>2. Item(tx, i) = <<"chainId", 0>>
      BY <3>1, <2>3, FieldNames, ItemOnce
    <3>3. Contents[i + 1] = ChainId[1]
      BY <3>1, <1>4, <1>1
    <3> QED BY <3>1, <3>2, <3>3 DEF ChainId
  <2>4. CASE i # FIELD_CHAINID
    <3> DEFINE n == i + OFFSET
    <3>1. n \in 1..(3 + p)
      BY <2>4, <2>1, <1>1 DEF FIELD_CHAINID
    <3>2. Contents[i + 1] = rest[n]
      BY <3>1, <1>4, <1>1
    <3>3. MapDisplayIdx(tx, i) \in Int /\ MapDisplayIdx(tx, i) # FIELD_CHAINID
      BY <2>4, <2>2, <2>1, <1>1 DEF FIELD_CHAINID
    <3>4. CASE n = 1
      <4>1. Contents[i + 1] = Contract[1]
        BY <3>1, <3>2, <3>4, <1>3
      <4>2. MapDisplayIdx(tx, i) + OFFSET = 1
        BY <3>4, <2>2, <2>1, <1>1
      <4>3. FieldAt(tx, MapDisplayIdx(tx, i)) = "contractId"
        BY <4>2, <3>3, FieldIs
      <4> QED BY <4>1, <4>3, ItemOnce DEF Contract
    <3>5. CASE n \in 2..(1 + p)
      <4> DEFINE k == n - 1
      <4>1. k \in 1..p
        BY <3>5, <1>1
      <4>2. Contents[i + 1] = Members[k]
        BY <3>1, <3>2, <3>5, <1>3, <1>1
      <4>3. MapDisplayIdx(tx, i) + OFFSET = 2
        BY <3>5, <2>2, <2>1, <1>1
      <4>4. Item(tx, i) = Participant(i)
        BY <4>3, <3>3, FieldIs, ItemOfField
      <4>5. i - FIELD_PARTICIPANT = k - 1
        BY <2>1, <1>1 DEF FIELD_PARTICIPANT
      <4>6. (k - 1) % 2 = 0 <=> k % 2 = 1
        BY <4>1, <1>1
      <4>7. Members[k] = <<IF k % 2 = 1 THEN "signature" ELSE "weight", (k - 1) \div 2>>
        BY <4>1 DEF Members
      <4> HIDE DEF k
      <4> QED BY <4>2, <4>4, <4>5, <4>6, <4>7 DEF Participant
    <3>6. CASE n = 2 + p \/ n = 3 + p
      <4>1. Contents[i + 1] = Requirements[n - 1 - p]
        BY <3>1, <3>2, <3>6, <1>3, <1>1
      <4>2. MapDisplayIdx(tx, i) + OFFSET = n - p + 1
        BY <3>6, <2>2, <2>1, <1>1
      <4>3. CASE n = 2 + p
        <5>1. n - 1 - p = 1 /\ n - p + 1 = 3
          BY <4>3, <1>1
        <5>2. FieldAt(tx, MapDisplayIdx(tx, i)) = "activation"
          BY <5>1, <4>2, <3>3, FieldIs
        <5> QED BY <5>1, <5>2, <4>1, ItemOnce DEF Requirements
      <4>4. CASE n = 3 + p
        <5>1. n - 1 - p = 2 /\ n - p + 1 = 4
          BY <4>4, <1>1
        <5>2. FieldAt(tx, MapDisplayIdx(tx, i)) = "admin"
          BY <5>1, <4>2, <3>3, FieldIs
        <5> QED BY <5>1, <5>2, <4>1, ItemOnce DEF Requirements
      <4> QED BY <3>6, <4>3, <4>4
    <3> QED BY <3>1, <3>4, <3>5, <3>6, <1>1
  <2> QED BY <2>3, <2>4
<1> QED BY <1>4, <1>5, <1>6, ItemsAre
-------------------------------------------------------------------------------

\* Whatever the message, the items of its review are its contents, each once
\* and in order (parser.c:92-154, 186-228), but for a send without a memo that
\* has multisig counters, and until a packet disturbs the review.
THEOREM ContentsCorrect == Spec => []ItemsAreContents
<1>1. IInv => ItemsAreContents
  <2> SUFFICES ASSUME IInv, ~disturbed, tx.msgType # "Send" \/ tx.memoLen > 0 \/ tx.multisig = 0
               PROVE  [n \in 1..NumItems(tx) |-> Item(tx, n - 1)] = Contents
    BY DEF ItemsAreContents
  <2>1. build \in Builds /\ tx \in Parsed /\ tx.msgType \in {"Send", "Vote", "Update"}
    BY Calm, Accepted
  <2> QED BY <2>1, TxType, SendContents, VoteContents, UpdateContents
<1> QED BY Inductive, <1>1, PTL
-------------------------------------------------------------------------------
(* Numbers *)

\* An amount that is not refused is written to the last of its decimals.
LEMMA CoinIsExact ==
  ASSUME NEW coin \in Coins, NEW outLen, AmountFits(coin, outLen)
  PROVE  /\ Number(10, AmountText(coin).whole) = coin.whole
         /\ Number(10, AmountText(coin).fraction) = coin.fractional
         /\ Len(AmountText(coin).fraction) = IOV_FRAC_DIGITS
         /\ Len(AmountText(coin).whole) > 1 => AmountText(coin).whole[1] # 0
<1>1. coin.whole \in Nat /\ coin.fractional \in Nat
  BY DEF Coins
<1>2. AmountText(coin).whole = NumberText(coin.whole)
      /\ AmountText(coin).fraction = Fraction(coin.fractional)
  BY DEF AmountText
<1>3. Says(NumberText(coin.whole), coin.whole)
  BY <1>1, NumbersAreExact
<1>4. /\ Number(10, Fraction(coin.fractional)) = coin.fractional
      /\ Len(Fraction(coin.fractional)) = IOV_FRAC_DIGITS
  BY <1>1, FractionsAreExact DEF AmountFits
<1>5. Len(NumberText(coin.whole)) > 1 => NumberText(coin.whole)[1] # 0
  <2>1. CASE coin.whole = 0
    <3>1. NumberText(coin.whole) = <<0>>
      BY <1>3, <2>1 DEF Says
    <3> QED BY <3>1
  <2>2. CASE coin.whole > 0
    BY <1>3, <2>2 DEF Says
  <2> QED BY <1>1, <2>1, <2>2
<1> QED BY <1>2, <1>3, <1>4, <1>5 DEF Says

\* Whatever the amounts of a transaction are, those on the display of a review
\* that no packet disturbed are they, to the last of their decimals
\* (parser_impl.c:758-781, zxformat.h:22-46).
THEOREM AmountsCorrect == Spec => []AmountsAreExact
<1>1. IInv => AmountsAreExact
  <2> SUFFICES ASSUME IInv, AtItem, ~disturbed, Item(tx, idx)[1] \in Amounts
               PROVE  LET coin == tx[Item(tx, idx)[1]]
                          text == AmountText(coin)
                      IN  /\ Number(10, text.whole) = coin.whole
                          /\ Number(10, text.fraction) = coin.fractional
                          /\ Len(text.fraction) = IOV_FRAC_DIGITS
                          /\ Len(text.whole) > 1 => text.whole[1] # 0
    BY DEF AmountsAreExact
  <2>1. tx \in Parsed /\ ~Unshowable(tx, Item(tx, idx))
    BY Calm DEF Sound, OnItem, Current
  <2>2. PICK coin : coin = tx[Item(tx, idx)[1]]
    OBVIOUS
  <2>3. coin \in Coins
    BY <2>1, <2>2, NumberTypes DEF Amounts
  <2>4. AmountFits(coin, ValueLen)
    BY <2>1, <2>2 DEF Unshowable
  <2> QED BY <2>2, <2>3, <2>4, CoinIsExact
<1> QED BY <1>1, Inductive, PTL

\* Whatever the id of a transaction is, the number on the display of a review that
\* no packet disturbed is it, or its lowest digits if it has more than bcdOut
\* (parser.c:347-357, bignum.c:84-148).
THEOREM IdsCorrect == Spec => []IdsAreExact
<1>1. IInv => IdsAreExact
  BY Calm, NumberTypes, NumbersOfIdsAreExact DEF IdsAreExact
<1> QED BY <1>1, Inductive, PTL
===============================================================================
