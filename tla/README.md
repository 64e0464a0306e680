# A TLA+ development of the IOV app for Ledger devices

The app turns a hardware wallet into a signer for IOV transactions. A host sends
commands over USB; the app answers with its version, an address or a signature.
A transaction arrives in packets, is stored, parsed, shown item by item, and
signed if the user agrees. The models here say what must hold of that path, from
the first byte stored to the signature, and check or prove it.

Paths are relative to `src/` of the repository.

## 1. Inventory

| component | code | state | operations | what makes it correct |
| --- | --- | --- | --- | --- |
| transaction store | `deps/ledger-zxlib/src/buffering.c`, `src/tx.c` | two buffers with position, size and `in_use` | init, reset, append (RAM, spill, flash), read | one message, never split, lost, reordered or half appended |
| command loop | `src/app_main.c` | `flags`, `tx`, `rx`, the APDU buffer | `io_exchange`, `handleApdu`, `process_chunk`, `extractHDPath` | each command gets one answer, which is its own |
| answers, decisions | `src/actions.c`, `src/view.c` | `hdPath`, `hrp` (`src/lib/crypto.c`) | `h_*_accept`, `h_sign_reject`, `app_sign`, `app_reply_address` | what is signed is what was sent and reviewed |
| address screen | `src/view.c`, `view_s.c`, `view_x.c` | `viewdata.addr`, the flow's index, the APDU buffer, `hdPath` | show, the three steps, accept | the address answered is the one that was read on the display |
| review | `src/view.c`, `view_s.c`, `view_x.c` | `viewdata`, `flow_inside_loop`, the flow's index | increase, decrease, update, buttons, menu, loop start and end | the display is the position; nothing is skipped; going right ends |
| items | `src/lib/parser.c`, `src/tx.c` | none (reads `parser_tx_obj`) | count, index mapping, item, page | the items are the contents of the message, once and in order |
| texts and numbers | `src/lib/parser_impl.c`, zxlib's `zxformat.h`, `bignum.c` | none | pages, lines, amounts, ids in decimal | every character once; every digit the right one |
| parser | `src/lib/parser_impl.c`, `parser_txdef.c/.h` | `parser_tx_obj` with its seen bits | init, the eight readers, validation | only well formed messages; no memory of earlier ones |
| wire format | `src/lib/parser_impl.c`, `.h` | `parser_context_t`: offset and `lastConsumed` | header, tag, varint, array, nested context | stays inside the message, reads each byte once, gets on |
| cryptography, encodings | `src/lib/crypto.c`, `deps/ledger-zxlib` | none | conversions | not modelled, or as what they are made from (section 8) |

How they interact: `app_main` calls the handlers; a handler either answers at
once, by an exception that becomes a code, or puts a screen up and returns with
`IO_ASYNCH_REPLY`, in which case the callback of the screen answers from inside
the next `io_exchange`. Store, `parser_tx_obj`, `hdPath`, `hrp`, the APDU buffer and
`viewdata` are globals which all of them share and which outlive a command. No
handler looks at what is on the display: a host that has given up a command can
send another one under its screen.

There is one thread. What is hard here is not preemption but *what is left over*:
globals that outlive the command that set them, an answer that is given in
another place than the command was taken, a session made of separate commands of
which any may be refused, a screen whose texts are fetched again from globals
that other commands write, exceptions that leave a function half way, a flow
whose position is one byte, and counts and indices that several functions
compute each in its own way. `PROJECT.json` lists these hazards at their lines.

## 2. Modules

```
BoundedLog <-- implemented by -- Buffering      ReviewWalk <-- implemented by -- Review --> Formats
    ^                                ^              ^                              ^          ^
    | INSTANCE (the store)           |              | INSTANCE (the screens)       |          |
    +------------- IovApp -----------|--------------+                         ReviewProofs, FormatsProofs
                   ^    ^            |
     IovAppProofs -+    +- AddressScreen        BufferingProofs
                              ^
                        AddressProofs           TxParser <-- TxParserProofs     Wire <-- WireProofs
```

An arrow up is `EXTENDS` unless it says otherwise; ReviewProofs also extends
FormatsProofs, AddressProofs IovAppProofs, and TxParserProofs and FormatsProofs
extend Induction. Each `MC...` module extends the one it is named after and
gives its constants values.

**BoundedLog** is what the store promises: one sequence of bytes with a limit, to
which a chunk is appended whole or not at all.

**Buffering** is `buffering.c`, branch by branch. A buffer is a record of its live
bytes, size and `in_use`. `AppendRam`, `Spill` and `AppendFlash` are the three ways
through `buffering_append`; `Spill` includes the two inner calls of which the
first one's result is ignored. `Contents` is what `buffering_get_buffer` gives to
the parser, and `Refinement` says that with it the module implements BoundedLog.

**ReviewWalk** is what the screens of a signing command promise: the choice comes
only from the review, and only the choice or an error gives the display back.

**IovApp** is the whole app with the store as BoundedLog and the screens of a
review as ReviewWalk. `pc` says whether the loop is about to call `io_exchange` or
inside it, and inside it either a command arrives or the callback of a screen
runs. One action per outcome of a handler:

| code | actions |
| --- | --- |
| `app_main.c:297-339` | `Exchange`, and `Reply`, `Defer` for how a handler ends |
| `handle_generic_apdu`, `INS_GET_VERSION` | `GetDeviceInfo`, `GetVersion` |
| header checks, unknown INS, P1, P2 | `Refuse` |
| `INS_GET_ADDR_ED25519` | `GetAddressRefused`, `GetAddress`, `ConfirmAddress`, `GetAddressFault` |
| `process_chunk`, P1 = 0 / 1 / 2, `tx_parse` | `SignInit`, `SignAdd`, `SignOverflow`, `SignInvalid`, `SignLast` |
| screens | `ReviewDone`, `ReviewAgain`, `ReviewFails` |
| `view.c` callbacks | `h_address_accept`, `h_error_accept`, `h_sign_accept`, `h_sign_accept_empty`, `h_sign_reject`, and `ReplyAddressFault`, `SignFault` for exceptions |
| a host that stops waiting | `GiveUp`; `Send` is an answer, which goes out all the same |
| unplugging, quitting | `PowerCycle` |

An answer is a record of its code, what its data are, and the path, prefix and
message they were made from, so that "the right answer" can be said without
cryptography. `initPath` and `taken` are history: what the host has brought in
this session. So is `disturbed`: a packet was accepted since the review was put up,
which happens only under a review that the host has given up; from then on the
store, and after the last packet `parser_tx_obj` too, are no longer what the review was
begun over. The parser is a constant operator `Verdict`: a review needs it to be
"ok", while `SignInvalid` may always happen, because the parser's object outlives a
message and can make it refuse more (TxParser). `SignLast` leads to the review or to
the error screen; which of them, Review says.

**AddressScreen** extends IovApp with the three steps of the address flow. It keeps
what the text in the APDU buffer is, and `addr`, which `h_addr_update_item` takes from
that buffer or from `hdPath` whenever a step is entered. Every command and answer
of IovApp is taken over together with what it writes there; `read` is history.

**Formats** has the pages of a text (`parser_arrayToString`), the two lines of a page
on a Nano S (`splitValueField`), numbers in decimal, amounts with their nine decimals
and the conversion of ids to decimal digits nibble by nibble (`bignum.c`).

**Review** is the walk through a parsed transaction. A transaction is what
`parser_tx_obj` says of its items (kind, lengths, repetitions, amounts, id); `Item`,
`NumItems`, `MapDisplayIdx` and `GetItem` follow `parser.c` and `tx.c` with both values of
`OFFSET`; `Increased`, `Decreased` and `Fetch` follow `view.c`; then the buttons and the
menu of a Nano S, and the six-step flow of a Nano X, in which steps 1 and 3 only
run `h_review_loop_start` and `h_review_loop_end`. A review may begin over any other
screen. Packets may also rewrite `parser_tx_obj` under a review and leave the screen as it
is, when `tx_parse` fails or has not been called yet (`Overwrite`, `app_main.c:209-225`):
the transaction is then one of `Drafts`, which need not be one that the parser
accepts. `disturbed` and `seen` are history. What is displayed is claimed of a review
that is not disturbed; the widths of the position and the walk from screen to screen
of every review. `walk` is its screen as IovApp sees it, and `ImplementsWalk`
says that with it the module implements ReviewWalk.

**TxParser** is the parser at the level of fields: a message is a sequence of
fields, each readable or not, with a value where a property needs one; of a ticker
also whether its characters are the uppercase letters that `_checkUppercaseLetters`
lets through. A value may also be refused `"late"`, after it was stored: the length
of an array that is longer than what is left, and a negative amount. It keeps
`parser_tx_obj` from one message to the next, because that is where the risk is:
`TxInit` clears exactly what `parser_txInit` clears. The participants of an update
are in a union with a send, so that `parser_sendmsgInit` writes zeros over some
parts of some slots (`Overlaid`), and `parser_validate`, which reads a send's
`memoLen` for every message, reads the length of a signature (`MemoSlot`). With
32-bit pointers slot n lies at 28 + 16n of the union: the seen bits at +0, the
signature's pointer at +4, its length at +8, the weight at +12; `parser_sendmsgInit`
clears the bits of the slots 0, 2, 3 and 4, and `memoLen` at 84 is the length of
slot 3's signature, which is therefore cleared too (`TxParserAssumption`). A loop of
a reader is a recursive function of its turns (`Turns`, `SlotTurns`); what a turn
does to the object is `See`, `Keep`, `Count` and their like for slots. The values
that `parser_updatemsgInit` leaves alone are `Uncleared`, for every layout of the
union. `WellFormed` is the reference definition: it says of a message, without
reading it in order, what is to be accepted.

**Wire** is the same parser below the fields, on bytes: the header, tags, varints
with the ranges of their readers, arrays, and a context for each nested message.
Numbers of 64 bits are ten digits to the base 128. `Schema` lists the fields of the
nine structs. A context is read in turns; a message is one run from `header` to
`accepted` or `refused`. What `Wire` calls a message is what TxParser's fields with
`ok` = "yes" stand for.

**Induction** has the lemmas about loops that the proofs of the parser and of the
numbers need. It states them of sets of numbers and of values turn by turn, because
a predicate cannot be the parameter of a lemma that the provers are to use.

## 3. Runs

| run | question | bounds and why they are enough | result |
| --- | --- | --- | --- |
| `buffering` | does the spill lose, split or reorder anything? | RAM 2, flash 5, chunks to 3, two byte values: ends in RAM, fills it exactly, spills from empty and from full, fills flash exactly, is refused in the spill and after it | holds, 247 states |
| `app_safety` | is what is reviewed and signed, and every answer to a host that waits, what the host sent and asked for? | three paths (one refused by the checks), capacity 3, chunks to 2, one fault anywhere, messages accepted and refused | holds, 2.1 million states |
| `address_screen` | does the user read the address that the host gets, and does every command end with an answer? | two paths, so that a command under the screen brings another one; only the empty message, since contents do not matter; one fault, but not in `app_reply_address` | holds, 120 thousand states |
| `review` | is the display the position and what the transaction says, is nothing skipped, does going right show the next page and end, does it implement ReviewWalk? | both devices and networks; memos of no page, an empty one, three, and cut short; 0 to 2 counters and participants; amounts at the ends of their ranges; ids below and above the greatest number that `bcdOut` holds, which has two bytes here; `parser_tx_obj` rewritten under a review by what is left of a message refused at its root, in its memo, for its amount or in a participant; two turns back or rewritings, enough to re-enter an item from each side | holds, 35 thousand states |
| `parser` | is only what is well formed accepted, whatever came before? | every field once, twice, unreadable, refused after it was stored, out of place; tickers of 3 and 5 letters, and of 3 other characters; one counter and one participant too many; the first four slots of the device | holds, 20 thousand states |
| `wire` | do the readers stay inside, read each byte once, and get on? | every string of up to three of eight bytes as the fields of each struct, varints at the ends of their ranges and longer than need be, headers cut off, three ways to go on behind the message | holds, 125 thousand states |
| `error_screen` | is a signing command always answered with a signature or an error? | as `app_safety`, capacity 2, chunks of 1 | violated |
| `session_path` | is the signing path the one of the accepted first packet? | as `error_screen` | violated |
| `review_multisig` | is a counter on the display one of the message? | as `review`, nothing rewritten | violated |
| `review_step` | behind the last item of an update, is the step one of the flow? | as `review`, but updates only, none of them rewritten | violated |
| `review_numbers` | can ids be shown? | as `review`, nothing rewritten, with the 20 bytes of `bcdOut` | violated |
| `parser_slots` | is "duplicated field" said only of messages that have one? | as `parser` | violated |

Deadlock is checked in every run but `wire`, where a message has been read to its
end.

What the failing runs show is described, with the lines it contradicts, in
`PROJECT.json` under `findings`. In short: the error screen answers a signing
command with an address and success; a session goes on after its first packet
was refused; the first counter of a send without memo is read at index 255; the
end of an update on a Nano X moves the error flow to step 65535; ids of votes and
updates never fit a Nano S; a second update with two participants is refused until
the app is restarted.

The passing properties are stated around these cases and say so where they do:
`AnswersTheCommand` leaves the error screen out, `ReviewIsOfTheSession`,
`SignaturesAreOfTheReview` and the display properties of `review` the reviews that a
packet disturbed, `ItemsAreContents` the sends without
memo that have counters, `HistoryDoesNotRefuse` the slots that are not cleared, and
`FieldsAreOfTheMessage` the thresholds, weights and signatures that a message does
not have. The last is a flaw of its own: a threshold absent from an update is shown
with the value of an earlier update (`parser_txdef.c:100-114` does not clear it).
With `bcdOut` of 20 bytes every id on a Nano S ends at the error screen; `review`
takes two bytes so that the way past an id is explored there as well.

Every property of a passing run is broken by a mutant: a variant of one
definition, next to it in its module, with the bug that the property is for.

## 4. Fairness

`AddressScreen!ScreenFairness`, which `EveryCommandAnswered` needs each part of:

- the loop runs: `WF` of `Exchange`;
- an error is closed, a review is left: `WF` of `h_error_accept` and of
  `ReviewDone \/ ReviewFails`. That a review can be left by going on is
  `ReviewEnds`, that it is left for nothing else is `ImplementsWalk`;
- who comes to the choice again and again decides: `SF` of `Decision`, because
  "View transaction" leads back any number of times;
- who comes to a step of the address again and again goes on, and confirms at the
  last: `SF` of `Right` and of `AcceptAddress`, because one may always go back.

Nothing is assumed of the host: it may give up (`GiveUp`), send another command, or
none. On a Nano X the error flow of an update is at step 65535 (`review_step`); that
it can be closed there is not justified by the code, and for that end of a review
the liveness property is about the app with a proper step.

`Review!FairSpec`: the user keeps pressing the right button (`WF` of `Forward`).
Turning back is bounded by `MaxLeft`, since a user who goes back and forth for ever
never ends a review.

## 5. Proofs

| theorem | says |
| --- | --- |
| `BufferingProofs!TypeCorrect`, `OneTier`, `ImplementsLog` | for all sizes with `RamSize <= FlashSize`, all chunks: no tier outgrows its memory, the message is in one tier, the tiers implement BoundedLog |
| `IovAppProofs!TypeCorrect`, `ReviewCorrect`, `ScreensCorrect`, `AnswersCorrect`, `SignaturesCorrect` | for all paths, bytes, capacities, parsers and faults: the type invariant, `ReviewIsOfTheSession`, `ScreenHasItsCommand`, `AnswersTheCommand`, `SignaturesAreOfTheReview` |
| `IovAppProofs!NobodyWaits` | the same, if no exception is raised in `app_reply_address`: `NobodyWaitsInVain` |
| `AddressProofs!ImplementsApp`, `AddressCorrect`, `ReadCorrect` | AddressScreen implements IovApp, so that the theorems above hold with it; `AddressIsTheHosts`; `ConfirmedWasRead` |
| `AddressProofs!ScreenTypeCorrect` | `ScreenTypeOK`, for the same |
| `FormatsProofs!PagesTile`, `PagesFit`, `LinesTile` | for texts and lines of every length: each character is on one page and on one line, none overruns |
| `FormatsProofs!NumbersAreExact`, `FractionsAreExact` | for every natural number, its text is that number without a zero in front; for every fraction that fits, its nine decimals are that fraction |
| `FormatsProofs!ShiftingDoubles`, `NumbersOfIdsAreExact` | for `bcdOut` of every length: one turn of the conversion doubles the number and adds the bit, and the whole of it, for bytes of any number, gives the digits of the number, or the lowest of them |
| `ReviewProofs!TypeCorrect`, `DisplayCorrect`, `NothingSkippedCorrect`, `SignAfterReviewCorrect`, `WalkCorrect`, `ForwardCorrect`, `ItemsEnd` | for every transaction within the sizes of `ReviewAssumption`, both devices and networks: the properties of run `review` about the walk, `ImplementsWalk`, `ForwardIsNextPage`, and that only what lies behind the last item is "no data" |
| `ReviewProofs!GoingRightRunsOut` | a number that every step to the right which comes to an item makes smaller: what `ReviewEnds` needs besides fairness |
| `ReviewProofs!ContentsCorrect`, `AmountsCorrect`, `IdsCorrect` | `ItemsAreContents`, `AmountsAreExact` and `IdsAreExact`, for the same |
| `TxParserProofs!ParserInvariant`, `TypeCorrect`, `OnlyWellFormed`, `NoHistory`, `OwnFields` | for messages of any length, any sequence of them and any layout of the union: the four properties of run `parser`, and that they hold together |
| `WireProofs!TypeCorrect`, `InsideCorrect`, `TilesCorrect`, `OverReadCorrect`, `AdvancesCorrect` | for all byte strings: the five properties of run `wire` |

*Buffering.* The inductive invariant is `TypeOK /\ MessageInOneTier`. The step that
needs both is `Spill`: flash is empty and RAM within its size, so that the inner
append always fits and its ignored result does not matter. That is where
`RamSize <= FlashSize` is used; the sizes of `tx.c:24-30` satisfy it on both devices.
`ImplementsLog` maps `Initialize` to `Open`, `Reset` to `Clear`, the branches of append to
`Take` or `Refuse`, and `PowerCycle` to `Crash`.

*IovApp.* `ReviewIsOfTheSession` and `ScreenHasItsCommand` are not inductive alone.
`LoopInv` adds that nothing waits to be sent while `io_exchange` runs, that the host
waits inside `io_exchange` only for a deferred answer, that an answer not deferred
is in the buffer, and that it fits the command it is sent to; `SessionInv` that the
store always holds exactly the chunks taken since the last first packet, disturbed
or not. The proof has one lemma per group of handlers and callbacks: a handler
either leaves the store and the parsed message alone (`ReviewKept`) or is recorded
in `disturbed`, and answers at once, so that nobody waits for the screen any more
(`ReplyStep`). `AnswersCorrect` and `SignaturesCorrect` are action properties, from
the same invariant. What they do not claim: an answer to a host that has given up,
unless it is a signature, and what a signature covers that is given for a disturbed
review, beyond that it covers the whole session then open. `NobodyWaits` needs a
second one, `WaitInv`: while the host waits for a deferred answer, a screen is up.
Nothing is assumed of `Verdict`.

*AddressScreen.* Its types follow from those of IovApp, step by step. Each of its
steps is a step of IovApp together with a change of the buffer and the flow, or a
step of the flow alone, hence `ImplementsApp`, and the invariant of IovApp may be
used. `FlowInv` adds that under an attended screen the buffer and the text displayed
are of the host's path, that its address was read, and behind the first step its
path too; `QuietInv` that a confirmation that is answered without a screen is not
answered with an address. An unattended screen shows what the last command left: the
invariant says nothing of it.

*Review.* The invariant `IInv` is `Bounds /\ (~disturbed => Sound)`. `Bounds` holds
of every review, a rewritten one too: the types, with bounds on the position that no
transaction, however long the object says its lists are, can pass (`Owned`,
`InRange`), and where in the flow and in the menu one can be (`InFlow`, `OnMenu`).
`Sound` is what a rewritten object breaks: `OnItem` (an item on the display is
current, and every page before it was seen), `AtEnds` (in front of the flow's loop
the position is before the first item, and at the choice of a Nano X behind the last
with everything seen) and `IsOfTx`. In `InFlow`, `flow_inside_loop` is 1 exactly at
step 2. `Inductive` has a lemma per step for `Bounds`, and one for `Sound` that
assumes that nothing has disturbed the review. The direction in which a step of the
flow is entered is known from `flow_inside_loop` alone, which is why `InFlow` is
needed even for the type invariant. `NothingSkipped` is about characters and the
invariant about pages: `PagesTile` and `LinesTile` join them. `ContentsCorrect`
compares the items with the contents element by element, for each kind of message,
over the field number that each display index is mapped to. `OnItem` says that the
item can be shown, since only an amount that fits its buffers is exact:
`AmountsCorrect` needs it. For `ForwardCorrect`, `AtEnds` knows that the first step
of the flow is entered with the position before the first item, from a new review
and from the loop alike.

*Numbers.* `Number` is the value of digits to a base, a loop over them. `NumbersAreExact`
is by induction over the number: `NUM_TO_STR` of n is that of n / 10 and one more digit.
For ids, `Doubled` adds up what `ShiftingDoubles` says of the places: a turn takes the
number v to 2v + bit, modulo the numbers that `bcdOut` has room for. `BitsOfBytes` says that
the bits in their order are the number of the bytes, `BcdIsRest` that the digits after
the last turn are that number modulo 10 to the places, and `WrittenText` that leaving
the zeros in front away leaves the number.

*TxParser.* The invariant `ParserInv` is the type of the object (`Objs`, which is more
than `TypeOK`: it has the fields too) and the three properties. Of what came before,
only the type of the object it left is needed, because `InitClears` says what `TxInit`
makes of any such object (`Cleared`). The work is in one message. `StructRead` says by
induction over the turns what a loop makes of an object: without an error, the
fields are known, readable, single and kept, and nothing else has changed
(`StructResult`). `GoodIsRead` says that there is no error if they are such and the object
has no bit of them. `CountersRead` and `ParticipantsRead` say the same of the repeated
fields, whose place is their rank among their like (`RankStep`, `RankOnto`). `Stage` then
goes through the structs of a message in the order in which they are read: those
that are done are as `WellFormed` wants them and the object has their fields, for the
others the object is as it was found, and a message that is well formed comes
through every stage without an error. The last step is `parser_validate`: `MemoRead`
says which of the two lengths `memoLen` is.

*Wire.* `IInv` says of every context, read or to be read, that it is a part of the
message, that the values of its fields are where and what their readers allow
(`InContext`), and that its offset is at most one byte behind its end; and of the one
being read that its fields lie one behind the other up to the offset (`Tiled`). That a
varint alone gets behind the end, and that no message nested in another one does, follows
from `InContext`, which is why the invariant keeps it of every field ever read.

Assumptions: those named in the modules (`SizesAssumption`, `IovAppAssumption`,
`FormatsAssumption`, `ReviewAssumption`, `WireAssumption`, `TxParserAssumption`), which TLC
evaluates in every run.

Induction is by `LeastElement`: a set of natural numbers that is not empty has a
least one. It follows from the library's `WFMin` and `NatLessThanWellFounded`, which
have no operator for a parameter. `LoopInduction` and `LoopDefined` put it into the form
in which the recursive functions of the models use it: that a loop of any number of
turns has values and of which type, and (`SameLoop`) that two loops with the same
turns agree.

## 6. Model-checked only

The liveness properties, `EveryCommandAnswered` and `ReviewEnds`: fairness and ENABLED
are out of the prover's reach. Their safety parts are proved: `NobodyWaits` says that
somebody who waits has a screen that will answer, `ForwardCorrect` and
`GoingRightRunsOut` that going right gets on and cannot go on for ever. The properties
of the runs that expect a violation are, of course, not theorems. Every invariant
and every action property of the passing runs is proved.

## 7. What is assumed of the environment

- The host has one command at a time that it waits for. It may give it up at any
  time, and send another one while the screen of the first is still up. The app
  does not notice: the answer to a command that was given up goes out all the same
  (`view.c:59`), and `Send` records it; whether a host reads it is not the app's matter.
- Nothing in the code keeps a command from changing the store, `hdPath` or
  `parser_tx_obj` under a review that was given up, and the callback then answers with
  what they hold by then: an accept signs the message that was sent last, under the
  path that was sent last, after a review of another one. IovApp and Review have
  these steps. The properties say what still holds after them
  (`SignaturesAreOfTheReview`, the bounds of `TypeOK`, `ImplementsWalk`) and, where they
  speak of a host that waits (`Attended`) or of a review that is not disturbed, claim
  nothing of the rest. No document of the repository says what should happen then, so
  that there is no finding of it; hazards at `app_main.c:156`, `218` and `227` name it.
- `io_exchange` sends what it is given unless `IO_ASYNCH_REPLY` is set, runs callbacks
  while it waits, and lets their exceptions pass. An exception in
  `app_reply_address` then leaves its code in the buffer while `flags` still say that
  the answer is deferred (`ReplyAddressFault`). As this depends on the SDK, which is not
  in the repository, no property claims what the host gets.
- A callback is atomic: `UX_WAIT` (`zxmacros.h:68-72`) reads and drops the events that
  arrive while it waits.
- `ux_flow_next`, `ux_flow_prev` and the steps without a layout behave as `view_x.c` uses
  them: the step between is passed through in the direction of the user.

## 8. Not modelled

Key derivation, signatures, bech32 and hexadecimal conversions; which bytes are
UTF-8 (a memo has any length that `asciify` may leave, and what it hides of a memo
is hidden in Review as well: no property forbids it); two ids that lose their upper
digits and are shown as one number (`IdsAreExact` describes the loss); a coin's
number that was refused as negative and is shown, in a disturbed review, as any
other amount; the labels of items; the paging of one text on a Nano X, which the SDK
does; USB resets; the build. Offsets of 16 bits do not wrap, because a message has
at most 8192 bytes (`tx.c:24-30`), and Wire counts without a width.

## 9. Plan

Done, in this order: the store and its refinement with proofs; the app with its
sessions, answers and faults, with proofs; the review; the parser; a host that gives
up; values in the parser's slots and the union; the wire format and the number
formats with proofs; the proofs of the review; the address screen, its
refinement and its proofs; the review as a refinement of the app's screens; the
items as the contents of the message; the proofs of the parser and of the numbers, by
induction over their loops; what going right leads to.

Next:

1. *The fields of Wire as those of TxParser*: a mapping from the bytes that Wire has
   read to a message of TxParser, so that `OnlyWellFormed` speaks of bytes.
2. *One run of the whole signing path*: Buffering, Review and IovApp with their
   variables together. The refinements make it unnecessary for the properties
   here; it would let the error screen's causes be followed to the host.
3. *Exceptions in `app_reply_address`* in AddressScreen, if the SDK's treatment of them
   is settled.
