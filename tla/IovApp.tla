-------------------------------- MODULE IovApp --------------------------------
(* The application as one state machine: the command loop of app_main.c with *)
(* its handlers, the screens that stand between a command and its answer     *)
(* (view.c), and the answers of actions.c.                                   *)
(*                                                                           *)
(* The host may give up a command and send another one while a screen of the *)
(* first is up: no handler looks at what is on the display.                  *)
(*                                                                           *)
(* The device has one thread.  It is either about to call io_exchange or     *)
(* inside it; inside, it either receives a command or runs the callback of a *)
(* screen.  A handler or a callback runs to its end before anything else,    *)
(* because UX_WAIT swallows the events that arrive while it waits.           *)
(*                                                                           *)
(* The store of the message is BoundedLog, which Buffering implements.  The  *)
(* parser is Verdict.  The screens of a signing command are ReviewWalk, which *)
(* Review implements.                                                        *)
EXTENDS Naturals, Sequences

CONSTANTS Path,       \* derivation paths a command can carry
          ValidPath,  \* those extractHDPath lets through
          NoPath,     \* hdPath before any command, or a payload too short for one
          Capacity, Byte, MaxChunk,  \* the store, as in BoundedLog
          Verdict(_), \* tx_parse's error for a message after a start, "ok" if none
          FaultAt,    \* calls in which the secure element may raise an exception
          MaxFaults   \* how often it does

ASSUME IovAppAssumption ==
  /\ ValidPath \subseteq Path
  /\ NoPath \notin Path
  /\ Capacity \in Nat /\ MaxChunk \in Nat /\ MaxFaults \in Nat

VARIABLES
  pc,       \* "exchange": the loop is about to call io_exchange; "waiting": it is inside
  flags,    \* app_main's flags, handed to io_exchange
  outgoing, \* the answer io_exchange is to send (tx bytes of G_io_apdu_buffer), or NoAnswer
  host,     \* the command the host waits for an answer to, and the path it carried
  answer,   \* the answer that went out since the last command, whether or not the host still waited
  screen,   \* what is on the display
  hdPath,   \* the global of crypto.c
  hrp,      \* the global of crypto.c: "null" until a command sets it
  log, limit, returned, \* the store
  parsed,   \* the message parser_tx_obj describes and the review shows
  faults,   \* exceptions raised so far
  initPath, \* history: the path of the signing session's first packet, if it was accepted
  taken,    \* history: the chunks accepted since the session's first packet
  disturbed \* history: a packet was accepted since the review was put up

store == <<log, limit, returned>>
loop  == <<pc, flags, outgoing>>
keys  == <<hdPath, hrp>>
session == <<initPath, taken, disturbed>>
vars  == <<loop, host, answer, screen, keys, store, parsed, faults, session>>

Store == INSTANCE BoundedLog

Walk == INSTANCE ReviewWalk

Chunk == Store!Chunk

Screens == {"idle", "address", "review", "choice", "error"}

\* What a command may be, as far as its answer is concerned.
Commands == [cmd : {"none", "inform", "address", "confirm", "chunk", "sign", "malformed"},
             path : Path \cup {NoPath}]

HeaderErrors == {"EMPTY_BUFFER", "CLA_NOT_SUPPORTED", "WRONG_LENGTH",
                 "INS_NOT_SUPPORTED", "INVALIDP1P2"}

Codes == HeaderErrors \cup
         {"none", "OK", "DATA_INVALID", "OUTPUT_BUFFER_TOO_SMALL",
          "COMMAND_NOT_ALLOWED", "SIGN_VERIFY_ERROR", "EXCEPTION"}

\* An answer: its code, what its data are, and the key, the prefix and the
\* message they were made from.
Answers == [sw : Codes, kind : {"none", "info", "address", "signature"},
            path : Path \cup {NoPath}, prefix : {"null", "set"}, msg : Seq(Byte)]

Answer(sw, kind, path, prefix, msg) ==
  [sw |-> sw, kind |-> kind, path |-> path, prefix |-> prefix, msg |-> msg]

\* A code alone, or with an error text on which nothing depends
Code(sw) == Answer(sw, "none", NoPath, "null", <<>>)

NoAnswer == Code("none")

Info == Answer("OK", "info", NoPath, "null", <<>>)

\* crypto_fillAddress: the public key of hdPath, and its address under hrp
Address == Answer("OK", "address", hdPath, hrp, <<>>)

\* crypto_sign: the stored message under the key of hdPath
Signature == Answer("OK", "signature", hdPath, "null", log)

NoCommand == [cmd |-> "none", path |-> NoPath]

-------------------------------------------------------------------------------

Init ==
  /\ pc = "exchange" /\ flags = "none" /\ outgoing = NoAnswer
  /\ host = NoCommand /\ answer = NoAnswer
  /\ screen = "idle"
  /\ hdPath = NoPath /\ hrp = "null"
  /\ Store!Init
  /\ parsed = <<>>
  /\ faults = 0
  /\ initPath = NoPath /\ taken = <<>> /\ disturbed = FALSE

\* An answer goes out, also to a host that has given up: the app does not know.
Send(a) == answer' = a /\ host' = NoCommand

\* app_main calls io_exchange: what the last handler left in the buffer is
\* sent, unless the answer was deferred; in that case it is dropped.
Exchange ==
  /\ pc = "exchange"
  /\ pc' = "waiting"
  /\ outgoing' = NoAnswer
  /\ IF outgoing # NoAnswer /\ flags = "none"
       THEN Send(outgoing)
       ELSE UNCHANGED <<answer, host>>
  /\ UNCHANGED <<flags, screen, keys, store, parsed, faults, session>>

\* io_exchange returns with a command, whatever is on the display.  The host
\* sends one when it has the answer to the one before, or has given that up.
Receive(cmd, path) ==
  /\ pc = "waiting"
  /\ pc' = "exchange"
  /\ host = NoCommand
  /\ host' = [cmd |-> cmd, path |-> path]
  /\ answer' = NoAnswer

\* A handler ends with a THROW, which handleApdu turns into an answer.
Reply(a) == outgoing' = a /\ flags' = "none"

\* A deferred answer that app_main does not know of (a mutant of Defer)
DeferWithoutFlag == outgoing' = NoAnswer /\ flags' = "none"

\* A handler leaves the answer to the callback of a screen (IO_ASYNCH_REPLY).
Defer == outgoing' = NoAnswer /\ flags' = "asynch"

\* The secure element raises an exception in the call named where.
Fault(where) ==
  /\ where \in FaultAt
  /\ faults < MaxFaults
  /\ faults' = faults + 1

-------------------------------------------------------------------------------

GetDeviceInfo ==
  /\ Receive("inform", NoPath)
  /\ Reply(Info)
  /\ UNCHANGED <<screen, keys, store, parsed, faults, session>>

GetVersion ==
  /\ Receive("inform", NoPath)
  /\ Reply(Info)
  /\ UNCHANGED <<screen, keys, store, parsed, faults, session>>

\* A header that no handler accepts
Refuse(sw) ==
  /\ Receive("malformed", NoPath)
  /\ Reply(Code(sw))
  /\ UNCHANGED <<screen, keys, store, parsed, faults, session>>

\* A short payload that is refused without a code (a mutant of PathError)
PathErrorSilent(path) ==
  IF path = NoPath THEN "none"
  ELSE IF path \in ValidPath THEN "OK" ELSE "DATA_INVALID"

\* extractHDPath: a payload too short is refused before the copy to hdPath, a
\* path that fails the checks after it.
PathError(path) ==
  IF path = NoPath THEN "WRONG_LENGTH"
  ELSE IF path \in ValidPath THEN "OK" ELSE "DATA_INVALID"

ExtractHDPath(path) == hdPath' = IF path = NoPath THEN hdPath ELSE path

GetAddressRefused(path) ==
  /\ PathError(path) # "OK"
  /\ Receive("address", path)
  /\ ExtractHDPath(path)
  /\ Reply(Code(PathError(path)))
  /\ UNCHANGED <<screen, hrp, store, parsed, faults, session>>

\* Without confirmation: the address is the answer.
GetAddress(path) ==
  /\ PathError(path) = "OK"
  /\ Receive("address", path)
  /\ ExtractHDPath(path)
  /\ hrp' = "set"
  /\ Reply(Address')
  /\ UNCHANGED <<screen, store, parsed, faults, session>>

\* An address shown without its prefix (a mutant of ConfirmAddress)
ConfirmAddressUnprefixed(path) ==
  /\ PathError(path) = "OK"
  /\ Receive("confirm", path)
  /\ ExtractHDPath(path)
  /\ screen' = "address"
  /\ Defer
  /\ UNCHANGED <<hrp, store, parsed, faults, session>>

\* With confirmation: the address is shown, the answer deferred.
ConfirmAddress(path) ==
  /\ PathError(path) = "OK"
  /\ Receive("confirm", path)
  /\ ExtractHDPath(path)
  /\ hrp' = "set"
  /\ screen' = "address"
  /\ Defer
  /\ UNCHANGED <<store, parsed, faults, session>>

\* Key derivation fails before anything is shown.
GetAddressFault(cmd, path) ==
  /\ PathError(path) = "OK"
  /\ Receive(cmd, path)
  /\ ExtractHDPath(path)
  /\ hrp' = "set"
  /\ Fault("fill")
  /\ Reply(Code("EXCEPTION"))
  /\ UNCHANGED <<screen, store, parsed, session>>

-------------------------------------------------------------------------------

\* The first packet of a signing session, without the reset (a mutant of SignInit)
SignInitWithoutReset(path) ==
  /\ Receive("chunk", path)
  /\ limit' = Capacity
  /\ UNCHANGED <<log, returned>>
  /\ ExtractHDPath(path)
  /\ Reply(Code(PathError(path)))
  /\ initPath' = IF PathError(path) = "OK" THEN path ELSE NoPath
  /\ taken' = <<>> /\ disturbed' = TRUE
  /\ UNCHANGED <<screen, hrp, parsed, faults>>

\* process_chunk with P1 = 0: the store is emptied before the path is looked
\* at.  (tx_reset after tx_initialize changes nothing more.)
SignInit(path) ==
  /\ Receive("chunk", path)
  /\ Store!Open
  /\ ExtractHDPath(path)
  /\ Reply(Code(PathError(path)))
  /\ initPath' = IF PathError(path) = "OK" THEN path ELSE NoPath
  /\ taken' = <<>> /\ disturbed' = TRUE
  /\ UNCHANGED <<screen, hrp, parsed, faults>>

\* An append whose result is not looked at (a mutant of SignAdd)
SignAddUnchecked(chunk) ==
  /\ Receive("chunk", NoPath)
  /\ log' = log \o chunk
  /\ returned' = Len(chunk)
  /\ taken' = taken \o chunk /\ disturbed' = TRUE
  /\ Reply(Code("OK"))
  /\ UNCHANGED <<limit, screen, keys, parsed, faults, initPath>>

\* process_chunk with P1 = 1
SignAdd(chunk) ==
  /\ Receive("chunk", NoPath)
  /\ Store!Take(chunk)
  /\ taken' = taken \o chunk /\ disturbed' = TRUE
  /\ Reply(Code("OK"))
  /\ UNCHANGED <<screen, keys, parsed, faults, initPath>>

\* A chunk of which the store keeps what fits (a mutant of SignOverflow)
SignOverflowKeepingPart(cmd, chunk) ==
  /\ Receive(cmd, NoPath)
  /\ Len(log) + Len(chunk) > limit
  /\ log' = log \o SubSeq(chunk, 1, limit - Len(log))
  /\ returned' = limit - Len(log)
  /\ Reply(Code("OUTPUT_BUFFER_TOO_SMALL"))
  /\ UNCHANGED <<limit, screen, keys, parsed, faults, session>>

\* process_chunk with P1 = 1 or 2 and a chunk the store has no room for
SignOverflow(cmd, chunk) ==
  /\ Receive(cmd, NoPath)
  /\ Store!Refuse(chunk)
  /\ Reply(Code("OUTPUT_BUFFER_TOO_SMALL"))
  /\ UNCHANGED <<screen, keys, parsed, faults, session>>

\* process_chunk with P1 = 2, then tx_parse, which finds an error.  It may also
\* refuse what Verdict accepts: parser_tx_obj outlives a message, and slots of
\* an earlier update can make a later one fail (TxParser).
SignInvalid(chunk) ==
  /\ Receive("sign", NoPath)
  /\ Store!Take(chunk)
  /\ taken' = taken \o chunk /\ disturbed' = TRUE
  /\ parsed' = log'
  /\ Reply(Code("DATA_INVALID"))
  /\ UNCHANGED <<screen, keys, faults, initPath>>

\* process_chunk with P1 = 2, then tx_parse without an error: the review, or
\* the error screen if the first item cannot be formatted (module Review says
\* when)
SignLast(chunk) ==
  /\ Receive("sign", NoPath)
  /\ Store!Take(chunk)
  /\ taken' = taken \o chunk /\ disturbed' = FALSE
  /\ parsed' = log'
  /\ Verdict(log') = "ok"
  /\ Walk!Begin
  /\ Defer
  /\ UNCHANGED <<keys, faults, initPath>>

-------------------------------------------------------------------------------
(* Callbacks of the screens, run from inside io_exchange *)

\* The user walks through the review and to the choice, which the both-buttons
\* press of a Nano S opens at any item.
ReviewDone ==
  /\ pc = "waiting" /\ Walk!Done
  /\ UNCHANGED <<loop, host, answer, keys, store, parsed, faults, session>>

ReviewAgain ==
  /\ pc = "waiting" /\ Walk!Again
  /\ UNCHANGED <<loop, host, answer, keys, store, parsed, faults, session>>

\* An item that cannot be formatted puts the error screen in place of the
\* review, or of the choice when the user turns back from there.
ReviewFails ==
  /\ pc = "waiting" /\ Walk!Fails
  /\ UNCHANGED <<loop, host, answer, keys, store, parsed, faults, session>>

\* io_exchange(CHANNEL_APDU | IO_RETURN_AFTER_TX, ...) from a callback that has
\* put the idle screen back
AnswerNow(a) ==
  /\ pc = "waiting"
  /\ screen' = "idle"
  /\ Send(a)
  /\ UNCHANGED <<loop, keys, store, parsed, session>>

\* h_address_accept and h_error_accept: the idle screen, then app_reply_address
h_address_accept == screen = "address" /\ AnswerNow(Address) /\ UNCHANGED faults

h_error_accept == screen = "error" /\ AnswerNow(Address) /\ UNCHANGED faults

\* app_reply_address derives the key again.  If that fails, the exception
\* leaves the callback and io_exchange: app_main puts its code in the buffer,
\* but flags still say that the answer is deferred.
ReplyAddressFault ==
  /\ pc = "waiting" /\ screen \in {"address", "error"}
  /\ screen' = "idle"
  /\ Fault("reply")
  /\ pc' = "exchange"
  /\ outgoing' = Code("EXCEPTION")
  /\ UNCHANGED <<flags, host, answer, keys, store, parsed, session>>

\* A button of the review that signs at once (a mutant of h_sign_accept)
h_sign_accept_unreviewed ==
  /\ screen \in {"review", "choice"}
  /\ AnswerNow(Signature)
  /\ UNCHANGED faults

\* h_sign_accept: app_sign first, then the idle screen and the answer
h_sign_accept == screen = "choice" /\ AnswerNow(Signature) /\ UNCHANGED faults

\* app_sign returns no signature
h_sign_accept_empty ==
  /\ screen = "choice"
  /\ AnswerNow(Code("SIGN_VERIFY_ERROR"))
  /\ Fault("sign")

\* app_sign raises an exception: the choice stays on the display.
SignFault ==
  /\ pc = "waiting" /\ screen = "choice"
  /\ Fault("sign")
  /\ pc' = "exchange"
  /\ outgoing' = Code("EXCEPTION")
  /\ UNCHANGED <<flags, host, answer, screen, keys, store, parsed, session>>

h_sign_reject ==
  /\ screen = "choice"
  /\ AnswerNow(Code("COMMAND_NOT_ALLOWED"))
  /\ UNCHANGED faults

-------------------------------------------------------------------------------

\* The host stops waiting: a timeout, a page that is loaded again.  The app does
\* not notice; the screen stays.
GiveUp ==
  /\ pc = "waiting"
  /\ host # NoCommand
  /\ host' = NoCommand /\ answer' = NoAnswer
  /\ UNCHANGED <<loop, screen, keys, store, parsed, faults, session>>

\* The device is unplugged and plugged in again, or the user quits and starts
\* the app again: every global is as at the start, and the host gives up.
PowerCycle ==
  /\ pc' = "exchange" /\ flags' = "none" /\ outgoing' = NoAnswer
  /\ host' = NoCommand /\ answer' = NoAnswer
  /\ screen' = "idle"
  /\ hdPath' = NoPath /\ hrp' = "null"
  /\ Store!Crash
  /\ parsed' = <<>>
  /\ initPath' = NoPath /\ taken' = <<>> /\ disturbed' = FALSE
  /\ UNCHANGED faults

AddressCommand ==
  \E path \in Path \cup {NoPath} :
    \/ GetAddressRefused(path)
    \/ GetAddress(path)
    \/ ConfirmAddress(path)
    \/ \E cmd \in {"address", "confirm"} : GetAddressFault(cmd, path)

SignCommand ==
  \/ \E path \in Path \cup {NoPath} : SignInit(path)
  \/ \E chunk \in Chunk :
       \/ SignAdd(chunk)
       \/ \E cmd \in {"chunk", "sign"} : SignOverflow(cmd, chunk)
       \/ SignInvalid(chunk)
       \/ SignLast(chunk)

\* handle_generic_apdu, then handleApdu
Command ==
  \/ GetDeviceInfo
  \/ GetVersion
  \/ \E sw \in HeaderErrors : Refuse(sw)
  \/ AddressCommand
  \/ SignCommand

Decision == h_sign_accept \/ h_sign_accept_empty \/ h_sign_reject

Callback ==
  \/ ReviewDone \/ ReviewAgain \/ ReviewFails
  \/ h_address_accept \/ h_error_accept \/ ReplyAddressFault
  \/ Decision \/ SignFault

Next == Exchange \/ Command \/ Callback \/ GiveUp \/ PowerCycle

Spec == Init /\ [][Next]_vars

-------------------------------------------------------------------------------
(* Properties *)

\* The globals of the app hold values of the program.
TypeOK ==
  /\ pc \in {"exchange", "waiting"}
  /\ flags \in {"none", "asynch"}
  /\ outgoing \in Answers /\ answer \in Answers
  /\ host \in Commands
  /\ screen \in Screens
  /\ hdPath \in Path \cup {NoPath} /\ hrp \in {"null", "set"}
  /\ log \in Seq(Byte) /\ limit \in {0, Capacity} /\ Len(log) <= limit
  /\ returned \in 0..MaxChunk
  /\ parsed \in Seq(Byte)
  /\ faults \in 0..MaxFaults
  /\ initPath \in Path \cup {NoPath} /\ taken \in Seq(Byte) /\ disturbed \in BOOLEAN

\* The host waits for the answer of a screen.
Attended == host # NoCommand /\ flags = "asynch"

\* What the user reviews and is about to sign is what the host sent in this
\* session, all of it and nothing else, and the parser accepted it: no path
\* through refused chunks, failed parses, commands under the screen of another
\* one and lost sessions leads to a review of anything else, as long as no packet
\* was accepted under the review.  While the host waits for the review none was
\* (app_main.c:114-147, 209-230).  After a GiveUp one may be: no handler looks at
\* the display, and nothing is claimed of what is then on it.
ReviewIsOfTheSession ==
  screen \in {"review", "choice", "error"} =>
    /\ Attended => ~disturbed
    /\ ~disturbed => parsed = log /\ log = taken /\ Verdict(log) = "ok"

\* The screen that is up while the host waits is the one of its own command,
\* never one left by a command that it gave up before, and an address on it is
\* the one the host asked for (app_main.c:156-230).
ScreenHasItsCommand ==
  /\ Attended /\ screen = "address" =>
       host.cmd = "confirm" /\ hdPath = host.path /\ hdPath \in ValidPath /\ hrp = "set"
  /\ Attended /\ screen \in {"review", "choice", "error"} => host.cmd = "sign"

\* The loop never waits for a command while the host waits for an answer,
\* unless a screen is up whose callback will give it.  (It fails after a
\* ReplyAddressFault, whose code stays in the buffer: flags say "asynch".)
NobodyWaitsInVain ==
  pc = "waiting" /\ host # NoCommand => screen # "idle" /\ flags = "asynch"

\* docs/APDUSPEC.md: what the data of a successful answer are, command by command
AnswerFits(command, a) ==
  \/ a.sw # "OK" /\ a.kind = "none"
  \/ command.cmd = "inform" /\ a.kind = "info"
  \/ command.cmd \in {"address", "confirm"} /\ a.kind = "address"
       /\ a.path = command.path /\ a.prefix = "set"
  \/ command.cmd = "chunk" /\ a.kind = "none"
  \/ command.cmd = "sign" /\ a.kind = "signature"
       /\ screen = "choice" /\ a.msg = parsed /\ a.msg = taken

\* The host gets one answer, and it is the answer to its command: an address is
\* the one of the path it sent, and a signature is given for a last packet only,
\* at the choice, over exactly what it sent in this session and the user
\* reviewed.  The error screen is left out: see AnswersEveryCommand.
AnswersTheCommand ==
  [][host # NoCommand /\ host' = NoCommand /\ screen # "error"
       => AnswerFits(host, answer')]_vars

\* Every signature that goes out, read by the host or not, was asked for at the
\* choice and covers all the chunks of the session that is open.  It covers what
\* the user reviewed, which the parser accepted, although app_sign reads the store
\* again (actions.c:25-31), unless a packet was accepted under the review: then
\* the code signs what the store holds by now.
SignaturesAreOfTheReview ==
  [][answer' # answer /\ answer'.kind = "signature" =>
       /\ screen = "choice" /\ answer'.msg = taken
       /\ ~disturbed => answer'.msg = parsed /\ Verdict(answer'.msg) = "ok"]_vars

\* docs/APDUSPEC.md:129-134 says so of every command, whatever was displayed.
AnswersEveryCommand ==
  [][host # NoCommand /\ host' = NoCommand => AnswerFits(host, answer')]_vars

Signs(a) == host # NoCommand /\ host' = NoCommand /\ a.kind = "signature"

\* docs/APDUSPEC.md:105 "The first packet/chunk includes only the derivation
\* path": a signature is made under the path that the first packet of its
\* session brought and the checks of app_main.c:100-110 let through.
SignsUnderSessionPath == [][Signs(answer') => answer'.path = initPath]_vars

\* Every command is answered in the end (the user does not leave the device).
EveryCommandAnswered == host # NoCommand ~> host = NoCommand
===============================================================================
