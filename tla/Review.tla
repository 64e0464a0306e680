-------------------------------- MODULE Review --------------------------------
(* How a parsed transaction is shown: the items and pages of parser.c and    *)
(* tx.c, the position kept in view.c's viewdata, and the way there and back  *)
(* on a Nano S (view_s.c: buttons and a menu) and on a Nano X (view_x.c: a   *)
(* flow whose third step stands for every item).                             *)
(*                                                                           *)
(* A transaction is what parser_tx_obj says about its items: which message   *)
(* it is, how long its texts are, how often a repeated field occurs, and the *)
(* numbers of a send or an id.  memoText is how much asciify leaves of a     *)
(* memo: it stops at a zero byte, and at a byte that is not UTF-8.           *)
(* viewdata's key and value are shown: an item, and the page of its text.    *)
(* MaxLeft bounds how often a review is held up: the user turns back, or the *)
(* host, which gave up waiting, begins another one or sends packets that     *)
(* rewrite what is reviewed.                                                 *)
EXTENDS Formats

CONSTANTS Builds,   \* [target, OFFSET]: the device, and 1 with MAINNET_ENABLED
          Txs,      \* transactions parser_parse accepts
          Drafts,   \* what else packets and a failed tx_parse leave to be shown
          MaxLeft

Targets == {"S", "X"}

Coins == [whole : Nat, fractional : Nat]

UINT16_MAX == 65535

\* What parser_tx_obj may say while a message is parsed.  memoLen is a uint16_t,
\* and the length that parser_arrayToString gets a uint8_t.
Parsed == [msgType : {"Invalid", "Send", "Vote", "Update"}, memoLen : 0..UINT16_MAX,
           memoText : 0..255, textLen : 0..255, multisig : 0..8,
           participants : 0..16, amount : Coins, fee : Coins, id : Seq(0..255)]

ASSUME ReviewAssumption ==
  /\ Builds \subseteq [target : Targets, OFFSET : {0, 1}]
  /\ Txs \subseteq Parsed /\ Drafts \subseteq Parsed
  /\ \A t \in Txs : t.msgType # "Invalid" /\ t.memoText <= t.memoLen /\ t.memoLen <= 128
  /\ MaxLeft \in Nat

VARIABLES
  build, tx,               \* the build, and parser_tx_obj
  screen,                  \* what UX_DISPLAY, UX_MENU_DISPLAY or ux_flow_init put up
  step,                    \* CUR_FLOW.index on a Nano X, an unsigned short
  inside,                  \* flow_inside_loop
  idx, pageIdx, pageCount, \* viewdata
  shown,                   \* <<item, page>> that viewdata.key and value describe
  lefts,                   \* how often the way to the choice was held up
  disturbed,               \* history: tx was rewritten since the last review began
  seen                     \* history: what of tx was on the display since then

viewdata == <<idx, pageIdx, pageCount, shown>>
vars == <<build, tx, screen, step, inside, viewdata, lefts, disturbed, seen>>

OFFSET == build.OFFSET
OnX == build.target = "X"

\* MAX_CHARS_PER_VALUE1_LINE
ValueLen == IF OnX THEN 4096 ELSE MAX_CHARS_PER_VALUE1_LINE

-------------------------------------------------------------------------------
(* Items: parser.c *)

FIELD_INVALID == -100
FIELD_CHAINID == IF OFFSET = 1 THEN -100 ELSE 0
FIELD_MEMO == 5 - OFFSET
FIELD_PARTICIPANT == 2 - OFFSET

\* The fields behind the chain id, in the order of their FIELD_ numbers
Fields ==
  [Send   |-> <<"source", "destination", "amount", "fee", "memo">>,
   Vote   |-> <<"proposalId", "voter", "selection">>,
   Update |-> <<"contractId", "participant", "activation", "admin">>]

\* FIELD_TOTAL_FIXCOUNT_...
FixCount(t) == Len(Fields[t.msgType]) + 1 - OFFSET

\* A count that takes a memo for granted (a mutant of NumItems)
NumItemsWithMemo(t) ==
  CASE t.msgType = "Send"   -> FixCount(t) + t.multisig
    [] t.msgType = "Vote"   -> FixCount(t)
    [] t.msgType = "Update" -> FixCount(t) - 1 + 2 * t.participants
    [] t.msgType = "Invalid" -> 0

\* parser_getNumItems
NumItems(t) ==
  CASE t.msgType = "Send"   -> FixCount(t) - (IF t.memoLen = 0 THEN 1 ELSE 0) + t.multisig
    [] t.msgType = "Vote"   -> FixCount(t)
    [] t.msgType = "Update" -> FixCount(t) - 1 + 2 * t.participants
    [] t.msgType = "Invalid" -> 0

\* parser_mapDisplayIdx
MapDisplayIdx(t, i) ==
  CASE t.msgType = "Update" ->
         IF i < FIELD_PARTICIPANT THEN i
         ELSE IF i < FIELD_PARTICIPANT + 2 * t.participants THEN FIELD_PARTICIPANT
         ELSE IF i < FixCount(t) + 2 * t.participants THEN i - 2 * t.participants + 1
         ELSE FIELD_INVALID
    [] t.msgType = "Send" -> IF i >= FIELD_MEMO /\ t.memoLen = 0 THEN i + 1 ELSE i
    [] t.msgType = "Vote" -> i

FieldAt(t, f) ==
  IF f = FIELD_CHAINID THEN "chainId"
  ELSE IF f + OFFSET \in DOMAIN Fields[t.msgType] THEN Fields[t.msgType][f + OFFSET]
  ELSE "variable"

NoItem == <<"?", 0>>

\* parser_getItem_Participant
Participant(i) ==
  <<IF (i - FIELD_PARTICIPANT) % 2 = 0 THEN "signature" ELSE "weight",
    (i - FIELD_PARTICIPANT) \div 2>>

\* A counter's index that may be negative (a mutant of ItemOf)
ItemSigned(t, i) ==
  LET field == FieldAt(t, MapDisplayIdx(t, i))
  IN  IF field = "participant" THEN Participant(i)
      ELSE IF field # "variable" THEN <<field, 0>>
      ELSE IF t.msgType = "Send" /\ i < NumItems(t) THEN <<"multisig", i - FixCount(t)>>
      ELSE NoItem

\* The item that displayIdx i stands for in a message of a known type, and
\* NoItem behind the last one.  An index into multisig.values is a uint8_t.
ItemOf(t, i) ==
  LET field == FieldAt(t, MapDisplayIdx(t, i))
  IN  IF field = "participant" THEN Participant(i)
      ELSE IF field # "variable" THEN <<field, 0>>
      ELSE IF t.msgType = "Send" /\ i < NumItems(t) THEN <<"multisig", (i - FixCount(t)) % 256>>
      ELSE NoItem

Item(t, i) == IF t.msgType = "Invalid" THEN NoItem ELSE ItemOf(t, i)

Ids == {"proposalId", "contractId"}

Amounts == {"amount", "fee"}

\* What parser_getItem refuses to show
Unshowable(t, item) ==
  \/ item[1] \in Ids /\ ~BcdFits(ValueLen)
  \/ item[1] \in Amounts /\ ~AmountFits(t[item[1]], ValueLen)

\* How parser_getItem says that there is no item.  An update, and no message at
\* all, have no way to say "no data".
NoItemError ==
  [Send |-> "no_data", Vote |-> "no_data", Update |-> "unexpected_error",
   Invalid |-> "unexpected_type"]

\* parser_getItem's error
ItemError(t, i) ==
  IF Item(t, i) = NoItem THEN NoItemError[t.msgType]
  ELSE IF Unshowable(t, Item(t, i)) THEN "unexpected_buffer_end" ELSE "ok"

Texts == {"chainId", "source", "destination", "voter", "signature"}

\* The texts that are paged, and how long they are
TextLen(t, item) == IF item[1] = "memo" THEN t.memoText ELSE t.textLen

IsText(item) == item[1] \in Texts \cup {"memo"}

Pages(t, item) == IF IsText(item) THEN PagesOf(TextLen(t, item), ValueLen) ELSE 1

\* An end that comes one item too early (a mutant of GetItem)
GetItemTooShort(t, i) ==
  IF i < 0 \/ i >= NumItems(t) - 1 THEN [err |-> "no_data", pages |-> pageCount]
  ELSE [err   |-> ItemError(t, i),
        pages |-> IF ItemError(t, i) = "no_data" THEN 0 ELSE Pages(t, Item(t, i))]

\* tx_getItem, of which item NumItems is still asked
GetItem(t, i) ==
  IF i < 0 \/ i > NumItems(t) THEN [err |-> "no_data", pages |-> pageCount]
  ELSE [err   |-> ItemError(t, i),
        pages |-> IF ItemError(t, i) = "no_data" THEN 0 ELSE Pages(t, Item(t, i))]

-------------------------------------------------------------------------------
(* The position: view.c *)

\* A step that never leaves an item (a mutant of Increased)
IncreasedInItem ==
  IF pageIdx + 1 >= pageCount THEN <<idx, 0>> ELSE <<idx, pageIdx + 1>>

\* h_review_increase
Increased ==
  IF pageIdx + 1 >= pageCount THEN <<idx + 1, 0>> ELSE <<idx, pageIdx + 1>>

\* h_review_decrease
Decreased == IF pageIdx = 0 THEN <<idx - 1, 0>> ELSE <<idx, pageIdx - 1>>

Start == <<0, 0>>

\* A page behind the end of a text has a chunk whose size is negative: MEMCPY
\* does not come back from it, and only the power cycle is left.
PageExists(t, at) ==
  at[1] \in 0..NumItems(t) /\ IsText(Item(t, at[1])) => at[2] < Pages(t, Item(t, at[1]))

\* h_review_update_data at a new position.  Its loop never runs twice: only
\* "no_data" comes with no pages.
Fetch(t, at) ==
  /\ PageExists(t, at)
  /\ idx' = at[1] /\ pageIdx' = at[2]
  /\ pageCount' = GetItem(t, at[1]).pages
  /\ shown' = IF at[1] < 0 \/ at[1] > NumItems(t) THEN shown ELSE <<Item(t, at[1]), at[2]>>

Err(t, at) == GetItem(t, at[1]).err

Failed(t, at) == Err(t, at) \notin {"ok", "no_data"}

\* The display shows what viewdata holds.
Display(before) == seen' = before \cup {shown'}

ERROR == <<<<"ERROR", 0>>, 0>>

\* view_error_show: its text replaces the item's.
ErrorShow(t, at) ==
  /\ idx' = at[1] /\ pageIdx' = at[2]
  /\ pageCount' = GetItem(t, at[1]).pages
  /\ shown' = ERROR
  /\ screen' = "error"

Idle ==
  /\ screen' = "idle" /\ step' = 0
  /\ UNCHANGED <<build, tx, inside, viewdata, lefts, disturbed, seen>>

TurnBack == lefts < MaxLeft /\ lefts' = lefts + 1

-------------------------------------------------------------------------------
(* Nano S: view_s.c *)

\* What view_sign_show_impl and the buttons do with the item they come to
ShowS(t, at, before) ==
  /\ UNCHANGED <<build, step, inside>>
  /\ \/ Err(t, at) = "ok" /\ Fetch(t, at) /\ screen' = "review" /\ Display(before)
     \/ Err(t, at) = "no_data" /\ Fetch(t, at) /\ screen' = "menu" /\ seen' = before
     \/ Failed(t, at) /\ ErrorShow(t, at) /\ seen' = before

OnReviewS == ~OnX /\ screen = "review"

h_review_button_left ==
  OnReviewS /\ TurnBack /\ ShowS(tx, Decreased, seen) /\ UNCHANGED <<tx, disturbed>>

h_review_button_right ==
  OnReviewS /\ ShowS(tx, Increased, seen) /\ UNCHANGED <<tx, lefts, disturbed>>

\* Both buttons: view_sign_show_s
BothButtons ==
  /\ OnReviewS
  /\ screen' = "menu"
  /\ UNCHANGED <<build, tx, step, inside, viewdata, lefts, disturbed, seen>>

\* menu_sign's "View transaction"
h_review ==
  ~OnX /\ screen = "menu" /\ TurnBack /\ ShowS(tx, Start, seen) /\ UNCHANGED <<tx, disturbed>>

-------------------------------------------------------------------------------
(* Nano X: view_x.c.  The steps of ux_sign_flow that the user sees are 0, 2,  *)
(* 4 and 5; 1 and 3 only run h_review_loop_start and h_review_loop_end.       *)

FlowLength == [review |-> 6, error |-> 2]

OnStepX(n) == OnX /\ screen = "review" /\ step = n

\* To step 2, whose h_review_loop_inside sets flow_inside_loop
ShowX(at) ==
  /\ Fetch(tx, at) /\ Display(seen)
  /\ step' = 2 /\ inside' = 1
  /\ UNCHANGED screen

\* view_error_show puts up the error flow at its first step, from where the
\* code goes on to the next one ...
ErrorShowThenNext(at) == ErrorShow(tx, at) /\ step' = 1 /\ UNCHANGED <<inside, seen>>

\* ... or to the one before, which is step 0 - 1 of an unsigned short.
ErrorShowThenPrev(at) == ErrorShow(tx, at) /\ step' = 65535 /\ UNCHANGED <<inside, seen>>

\* A loop that is left without its flag (a mutant of LeaveLoopToTheLeft)
LeaveLoopInside ==
  /\ idx' = Decreased[1] /\ pageIdx' = Decreased[2]
  /\ step' = 0
  /\ UNCHANGED <<screen, inside, pageCount, shown, seen>>

LeaveLoopToTheLeft ==
  /\ idx' = Decreased[1] /\ pageIdx' = Decreased[2]
  /\ step' = 0 /\ inside' = 0
  /\ UNCHANGED <<screen, pageCount, shown, seen>>

\* A loop that starts where viewdata happens to be (a mutant of LoopStart)
LoopStartWithoutInit ==
  \/ inside = 0 /\ ~Failed(tx, <<idx, pageIdx>>) /\ ShowX(<<idx, pageIdx>>)
  \/ inside = 0 /\ Failed(tx, <<idx, pageIdx>>) /\ ErrorShowThenNext(<<idx, pageIdx>>)
  \/ inside = 1 /\ Decreased[1] < 0 /\ LeaveLoopToTheLeft
  \/ inside = 1 /\ Decreased[1] >= 0 /\ ~Failed(tx, Decreased) /\ ShowX(Decreased)
  \/ inside = 1 /\ Decreased[1] >= 0 /\ Failed(tx, Decreased) /\ ErrorShowThenNext(Decreased)

\* h_review_loop_start, between steps 0 and 2; its flag says whether the flow
\* comes from the right.
LoopStart ==
  \/ inside = 0 /\ ~Failed(tx, Start) /\ ShowX(Start)
  \/ inside = 0 /\ Failed(tx, Start) /\ ErrorShowThenNext(Start)
  \/ inside = 1 /\ Decreased[1] < 0 /\ LeaveLoopToTheLeft
  \/ inside = 1 /\ Decreased[1] >= 0 /\ ~Failed(tx, Decreased) /\ ShowX(Decreased)
  \/ inside = 1 /\ Decreased[1] >= 0 /\ Failed(tx, Decreased) /\ ErrorShowThenNext(Decreased)

\* h_review_loop_end, between steps 2 and 4; its flag says whether the flow
\* comes from the left.
LoopEnd ==
  \/ inside = 1 /\ Err(tx, Increased) = "ok" /\ ShowX(Increased)
  \/ /\ inside = 1 /\ Err(tx, Increased) = "no_data"
     /\ Fetch(tx, Increased) /\ step' = 4 /\ inside' = 0
     /\ UNCHANGED <<screen, seen>>
  \/ inside = 1 /\ Failed(tx, Increased) /\ ErrorShowThenPrev(Increased)
  \/ inside = 0 /\ ~Failed(tx, Decreased) /\ ShowX(Decreased)
  \/ inside = 0 /\ Failed(tx, Decreased) /\ ErrorShowThenPrev(Decreased)

RightFromView == OnStepX(0) /\ LoopStart /\ UNCHANGED <<build, tx, lefts, disturbed>>
LeftFromItem  == OnStepX(2) /\ LoopStart /\ TurnBack /\ UNCHANGED <<build, tx, disturbed>>
RightFromItem == OnStepX(2) /\ LoopEnd /\ UNCHANGED <<build, tx, lefts, disturbed>>
LeftFromSign  == OnStepX(4) /\ LoopEnd /\ TurnBack /\ UNCHANGED <<build, tx, disturbed>>

\* Between "Sign" and "Reject", and between the steps of the error flow
StepAside ==
  /\ OnX
  /\ \/ screen = "review" /\ step \in {4, 5} /\ step' = 9 - step
     \/ screen = "error" /\ step \in {0, 1} /\ step' = 1 - step
  /\ UNCHANGED <<build, tx, screen, inside, viewdata, lefts, disturbed, seen>>

-------------------------------------------------------------------------------

Init ==
  /\ build \in Builds /\ tx \in Txs
  /\ screen = "idle" /\ step = 0 /\ inside = 0
  /\ idx = 0 /\ pageIdx = 0 /\ pageCount = 0 /\ shown = <<NoItem, 0>>
  /\ lefts = 0 /\ disturbed = FALSE /\ seen = {}

\* Over another screen a review begins only if the host did not wait.
Begin == IF screen = "idle" THEN lefts' = 0 ELSE TurnBack

\* tx_parse has accepted the transaction t, and view_sign_show begins a review,
\* whatever is on the screen.  On a Nano S the first item is fetched at once ...
SignShowS(t) ==
  /\ ~OnX /\ Begin
  /\ tx' = t /\ disturbed' = FALSE
  /\ ShowS(t, Start, {})

\* ... on a Nano X h_review_init is followed by h_review_decrease.
SignShowX(t) ==
  /\ OnX /\ Begin
  /\ tx' = t /\ disturbed' = FALSE /\ seen' = {}
  /\ idx' = -1 /\ pageIdx' = 0 /\ pageCount' = 1
  /\ inside' = 0 /\ screen' = "review" /\ step' = 0
  /\ UNCHANGED <<build, shown>>

\* Under the screen, the packets of a host that gave up waiting rewrite the
\* texts that parser_tx_obj points to, and a tx_parse that fails rewrites
\* parser_tx_obj; neither takes the screen down.  On the idle screen nothing
\* reads what they leave.
Overwrite(t) ==
  /\ screen # "idle" /\ TurnBack
  /\ tx' = t /\ disturbed' = TRUE /\ seen' = {}
  /\ UNCHANGED <<build, screen, step, inside, viewdata>>

\* A callback that each step of the flow has (a mutant of h_sign_accept)
h_sign_accept_on_flow == (screen = "menu" \/ (OnX /\ screen = "review")) /\ Idle

\* The callbacks of the choice and of the error screen put the idle screen up.
h_sign_accept == (screen = "menu" \/ OnStepX(4)) /\ Idle

h_sign_reject == (screen = "menu" \/ OnStepX(5)) /\ Idle

h_error_accept == screen = "error" /\ (OnX => step = 1) /\ Idle

\* The device is unplugged and plugged in again: every global is zero.  Nothing
\* reads parser_tx_obj until the next review.
PowerCycle ==
  /\ screen' = "idle" /\ step' = 0 /\ inside' = 0
  /\ idx' = 0 /\ pageIdx' = 0 /\ pageCount' = 0 /\ shown' = <<NoItem, 0>>
  /\ lefts' = 0 /\ seen' = {}
  /\ UNCHANGED <<build, tx, disturbed>>

Forward == h_review_button_right \/ RightFromView \/ RightFromItem

Back == h_review_button_left \/ h_review \/ LeftFromItem \/ LeftFromSign

Decide == h_sign_accept \/ h_sign_reject \/ h_error_accept

Next ==
  \/ \E t \in Txs : SignShowS(t) \/ SignShowX(t)
  \/ \E t \in Drafts : Overwrite(t)
  \/ Forward \/ Back \/ BothButtons \/ StepAside \/ Decide
  \/ PowerCycle

Spec == Init /\ [][Next]_vars

\* The user keeps pressing the right button.
FairSpec == Spec /\ WF_vars(Forward)

-------------------------------------------------------------------------------
(* Properties.  What is shown of a transaction is claimed of a review that no *)
(* packet disturbed: a failed tx_parse under the screen leaves it behind.     *)

\* What viewdata.key may name
Names ==
  {"?", "ERROR", "chainId", "source", "destination", "amount", "fee", "memo", "multisig",
   "proposalId", "voter", "selection", "contractId", "signature", "weight", "activation", "admin"}

\* viewdata's positions and counts, the flow's step and the index of an item
\* keep the width of their C types: int8_t, uint8_t and unsigned short.
TypeOK ==
  /\ build \in Builds /\ tx \in Txs \cup Drafts
  /\ screen \in {"idle", "review", "menu", "error"}
  /\ step \in 0..65535 /\ inside \in {0, 1}
  /\ idx \in -128..127 /\ pageIdx \in -128..127 /\ pageCount \in 0..255
  /\ shown[1] \in Names \X (0..255) /\ shown[2] \in 0..127
  /\ lefts \in 0..MaxLeft /\ disturbed \in BOOLEAN

AtItem == screen = "review" /\ (OnX => step = 2)

Choice == screen = "menu" \/ OnStepX(4) \/ OnStepX(5)

\* In a review that is not disturbed, what is on the display is the page viewdata
\* points to, an item and a page that this transaction has: never the leftover
\* of another position, of the review before or of the end of the list
\* (view.c:75-121, where the position is moved first and the text fetched
\* afterwards; view_x.c:211-220, where nothing is fetched when a review begins).
DisplayIsCurrent ==
  AtItem /\ ~disturbed =>
    /\ idx \in 0..(NumItems(tx) - 1)
    /\ pageCount = Pages(tx, Item(tx, idx)) /\ pageIdx \in 0..(pageCount - 1)
    /\ shown = <<Item(tx, idx), pageIdx>>

\* The positions of an item's text, and those that a page shows; what is not a
\* text is one character wide.
Positions(item) == IF IsText(item) THEN 0..(TextLen(tx, item) - 1) ELSE {0}

\* A Nano S splits a page over two lines; the SDK of a Nano X scrolls it.
OnDisplay(vlen) ==
  IF OnX THEN 0..(vlen - 1) ELSE Lines(vlen).value \cup Lines(vlen).value2

ShownOn(item, page) ==
  IF IsText(item)
    THEN LET len == TextLen(tx, item)
         IN  {(ValueLen - 1) * page + k : k \in OnDisplay(ChunkSize(len, ValueLen, page))}
    ELSE {0}

SeenOf(item) == UNION {ShownOn(item, x[2]) : x \in {y \in seen : y[1] = item}}

SeenBelow(n) ==
  \A i \in 0..(n - 1) :
    /\ \E x \in seen : x[1] = Item(tx, i)
    /\ SeenOf(Item(tx, i)) = Positions(Item(tx, i))

\* The screen, as IovApp sees it
walk == IF Choice THEN "choice" ELSE screen

Walk == INSTANCE ReviewWalk WITH screen <- walk

\* Buttons, menu and flow do what IovApp takes them to do, on both devices: the
\* choice comes only from a review, and a review ends only there, at the error
\* screen or with the power (view_s.c:66-175, view_x.c:81-220).
ImplementsWalk == Walk!Init /\ [][PowerCycle \/ Walk!Next]_walk

\* However the user goes back and forth, a page is reached only after every
\* character of every text before it was on the display; of a memo, every one
\* that asciify leaves (view.c:81-95, parser_impl.c:726-756).
NothingSkipped ==
  AtItem /\ ~disturbed =>
    /\ SeenBelow(idx)
    /\ LET item == Item(tx, idx)
           here == ShownOn(item, pageIdx)
       IN  \A k \in Positions(item) : (\E h \in here : k <= h) \/ here = {} => k \in SeenOf(item)

\* A Nano X offers to sign or to reject only after every character of every
\* item was displayed (view_x.c:105-178; a Nano S has both-buttons to get there).
SignAfterReview ==
  OnX /\ Choice /\ ~disturbed => idx = NumItems(tx) /\ SeenBelow(NumItems(tx))

\* The page behind the one at the position; -1 is before the first item.
PageAfter ==
  IF idx >= 0 /\ pageIdx + 1 < Pages(tx, Item(tx, idx)) THEN <<idx, pageIdx + 1>>
  ELSE <<idx + 1, 0>>

\* Going right leads to the next page of the transaction, wherever the user
\* comes from: on the display if it can be shown, and behind the last one to the
\* choice, which an update does not reach (see StepInFlow).  As each step gets
\* on, a review is over after as many as there are pages (view.c:81-121,
\* view_s.c:156-175, view_x.c:105-178).
ForwardIsNextPage ==
  [][Forward /\ ~disturbed =>
       /\ <<idx', pageIdx'>> = PageAfter
       /\ IF PageAfter[1] < NumItems(tx)
            THEN IF Unshowable(tx, Item(tx, PageAfter[1])) THEN screen' = "error" ELSE AtItem'
            ELSE IF tx.msgType = "Update" THEN screen' = "error" ELSE Choice']_vars

\* What the message says, item by item (parser.c:64-69, parser_txdef.h:104-226)
ChainId == IF OFFSET = 1 THEN <<>> ELSE <<<<"chainId", 0>>>>
Payment == <<<<"source", 0>>, <<"destination", 0>>, <<"amount", 0>>, <<"fee", 0>>>>
Memo == IF tx.memoLen > 0 THEN <<<<"memo", 0>>>> ELSE <<>>
Counters == [n \in 1..tx.multisig |-> <<"multisig", n - 1>>]
Ballot == <<<<"proposalId", 0>>, <<"voter", 0>>, <<"selection", 0>>>>
Contract == <<<<"contractId", 0>>>>
Members == [n \in 1..(2 * tx.participants) |->
              <<IF n % 2 = 1 THEN "signature" ELSE "weight", (n - 1) \div 2>>]
Requirements == <<<<"activation", 0>>, <<"admin", 0>>>>

Contents ==
  ChainId \o (CASE tx.msgType = "Send"   -> Payment \o Memo \o Counters
                [] tx.msgType = "Vote"   -> Ballot
                [] tx.msgType = "Update" -> Contract \o Members \o Requirements)

\* The items are what the message says, each once and in order, for every
\* message but a send without a memo that has multisig counters (see
\* MultisigInArray): the counts of parser_getNumItems and the three index
\* computations behind parser_getItem agree (parser.c:92-154, 186-228).
ItemsAreContents ==
  ~disturbed /\ (tx.msgType # "Send" \/ tx.memoLen > 0 \/ tx.multisig = 0) =>
    [n \in 1..NumItems(tx) |-> Item(tx, n - 1)] = Contents

\* Who keeps pressing the right button comes to the choice, unless an item
\* cannot be shown: no position makes h_review_update_data or the steps of the
\* flow go round (view.c:97-121, view_x.c:105-178).
ReviewEnds == screen = "review" ~> Choice \/ screen \in {"error", "idle"} \/ disturbed

\* An amount or a fee on the display is the one of the transaction, to the last
\* of its nine decimals: what does not fit is not shown (parser_impl.c:758-781,
\* zxformat.h:22-46).
AmountsAreExact ==
  AtItem /\ ~disturbed /\ Item(tx, idx)[1] \in Amounts =>
    LET coin == tx[Item(tx, idx)[1]]
        text == AmountText(coin)
    IN  /\ Number(10, text.whole) = coin.whole
        /\ Number(10, text.fraction) = coin.fractional
        /\ Len(text.fraction) = IOV_FRAC_DIGITS
        /\ Len(text.whole) > 1 => text.whole[1] # 0

\* An id on the display is the one of the transaction, digit by digit.  Of one that
\* has more digits than bcdOut the code shows the lowest ones only, which is not
\* forbidden here (parser.c:347-357, bignum.c:84-148).
IdsAreExact ==
  AtItem /\ ~disturbed /\ Item(tx, idx)[1] \in Ids =>
    LET text == IdText(tx.id)
    IN  /\ Number(10, text) = Number(256, tx.id) % Decimals(2 * BcdLen)
        /\ Len(text) > 1 => text[1] # 0

\* parser.c:309 "Map variable field to multisig": a counter on the display is
\* one of the message.
MultisigInArray == AtItem /\ shown[1][1] = "multisig" => shown[1][2] < tx.multisig

\* view_x.c:174 "move to prev flow but trick paging to show first page": the
\* step of the flow that is shown next is one that the flow has.
StepInFlow == OnX /\ screen \in DOMAIN FlowLength => step < FlowLength[screen]

\* parser.c:349 and 403 "Must be at most outValueLen/2": the digits of an id fit
\* the line, so that no id ends a review.
NumbersAreShown ==
  screen = "error" /\ idx \in 0..(NumItems(tx) - 1) => Item(tx, idx)[1] \notin Ids
===============================================================================
