------------------------------ MODULE IovAppProofs ------------------------------
(* IovApp for every set of paths, every size of the store, every parser      *)
(* verdict and any number of exceptions of the secure element.               *)
EXTENDS IovApp, TLAPS

\* The loop's own invariant: nothing waits to be sent while io_exchange runs,
\* the host waits there only for a deferred answer, an answer that was not
\* deferred is in the buffer, and it fits the command it is sent to.
LoopInv ==
  /\ pc = "waiting" => outgoing = NoAnswer
  /\ pc = "waiting" /\ host # NoCommand => flags = "asynch"
  /\ pc = "exchange" /\ host # NoCommand /\ flags = "none" => outgoing # NoAnswer
  /\ flags = "none" /\ outgoing # NoAnswer => AnswerFits(host, outgoing)
  /\ outgoing.kind # "signature"

\* The store holds the session's chunks whatever is on the display.
SessionInv == log = taken

IInv ==
  /\ TypeOK
  /\ ReviewIsOfTheSession
  /\ ScreenHasItsCommand
  /\ LoopInv
  /\ SessionInv
-------------------------------------------------------------------------------

\* A chunk is a sequence of bytes no longer than one command.
LEMMA ChunkType == \A chunk \in Chunk : chunk \in Seq(Byte) /\ Len(chunk) \in 0..MaxChunk
BY IovAppAssumption DEF Chunk, Store!Chunk, Store!BoundedSeq, Store!SeqOf

\* What an answer is made of is what it carries.
LEMMA CodeType ==
  ASSUME NEW sw \in Codes
  PROVE  Code(sw) \in Answers /\ Code(sw).sw = sw /\ Code(sw).kind = "none"
<1> DEFINE none == <<>>
<1>1. none \in Seq(Byte)
  OBVIOUS
<1> HIDE DEF none
<1>2. Code(sw) = Answer(sw, "none", NoPath, "null", none)
  BY DEF Code, none
<1> QED BY <1>1, <1>2 DEF Answer, Answers

LEMMA NoAnswerType == NoAnswer \in Answers /\ NoAnswer.kind = "none" /\ NoAnswer.sw = "none"
BY CodeType DEF NoAnswer, Codes

LEMMA InfoType == Info \in Answers /\ Info.sw = "OK" /\ Info.kind = "info"
<1> DEFINE none == <<>>
<1>1. none \in Seq(Byte)
  OBVIOUS
<1> HIDE DEF none
<1>2. Info = Answer("OK", "info", NoPath, "null", none)
  BY DEF Info, none
<1> QED BY <1>1, <1>2 DEF Answer, Answers, Codes

LEMMA AddressType ==
  ASSUME TypeOK
  PROVE  /\ Address \in Answers
         /\ Address.sw = "OK" /\ Address.kind = "address"
         /\ Address.path = hdPath /\ Address.prefix = hrp
<1> DEFINE none == <<>>
<1>1. none \in Seq(Byte)
  OBVIOUS
<1> HIDE DEF none
<1>2. Address = Answer("OK", "address", hdPath, hrp, none)
  BY DEF Address, none
<1> QED BY <1>1, <1>2 DEF Answer, Answers, Codes, TypeOK

LEMMA SignatureType ==
  ASSUME TypeOK
  PROVE  /\ Signature \in Answers
         /\ Signature.sw = "OK" /\ Signature.kind = "signature"
         /\ Signature.path = hdPath /\ Signature.msg = log
BY DEF Signature, Answer, Answers, Codes, TypeOK
-------------------------------------------------------------------------------

\* What leaves the store, the parsed message and the history alone leaves the
\* review what it was, if nobody new waits for it.
LEMMA ReviewKept ==
  ASSUME ReviewIsOfTheSession, UNCHANGED <<log, taken, disturbed, parsed>>,
         screen' \in {"review", "choice", "error"} => screen \in {"review", "choice", "error"},
         Attended' => Attended
  PROVE  ReviewIsOfTheSession'
BY DEF ReviewIsOfTheSession

\* The loop sends what a handler left for it.
LEMMA ExchangeStep == IInv /\ Exchange => IInv'
<1> SUFFICES ASSUME IInv, Exchange PROVE IInv'
  OBVIOUS
<1> USE DEF IInv, Exchange
<1>1. TypeOK'
  BY NoAnswerType DEF TypeOK, Send, store, keys, session, Commands, NoCommand
<1>2. ReviewIsOfTheSession' /\ SessionInv'
  <2>1. Attended' => Attended
    BY DEF Attended, Send, NoCommand
  <2> QED BY <2>1, ReviewKept DEF SessionInv, store, session
<1>3. ScreenHasItsCommand'
  BY DEF ScreenHasItsCommand, Attended, Send, NoCommand, keys
<1>4. LoopInv'
  BY NoAnswerType DEF LoopInv, TypeOK, Send, NoCommand
<1> QED BY <1>1, <1>2, <1>3, <1>4

\* A handler that answers at once leaves the loop in order, whatever is on the
\* display, if the answer fits its command: nobody waits for the screen.
LEMMA ReplyStep ==
  ASSUME NEW cmd, NEW path, NEW a,
         Receive(cmd, path), Reply(a),
         a.sw # "none", a.kind # "signature",
         AnswerFits([cmd |-> cmd, path |-> path], a)'
  PROVE  LoopInv' /\ ScreenHasItsCommand' /\ ~Attended'
<1>1. /\ pc' = "exchange" /\ flags' = "none" /\ outgoing' = a
      /\ host' = [cmd |-> cmd, path |-> path]
  BY DEF Receive, Reply
<1>2. outgoing' # NoAnswer'
  BY <1>1, NoAnswerType DEF NoAnswer, Code, Answer
<1> QED BY <1>1, <1>2 DEF LoopInv, ScreenHasItsCommand, Attended

\* Commands whose answer says nothing of the store or the keys
LEMMA InformStep == IInv /\ (GetDeviceInfo \/ GetVersion) => IInv'
<1> SUFFICES ASSUME IInv, GetDeviceInfo \/ GetVersion PROVE IInv'
  OBVIOUS
<1>1. /\ Receive("inform", NoPath) /\ Reply(Info)
      /\ UNCHANGED <<screen, keys, store, parsed, faults, session>>
  BY DEF GetDeviceInfo, GetVersion
<1>2. [cmd |-> "inform", path |-> NoPath] \in Commands
  BY DEF Commands
<1>3. AnswerFits([cmd |-> "inform", path |-> NoPath], Info)'
  BY InfoType DEF AnswerFits
<1>4. LoopInv' /\ ScreenHasItsCommand' /\ ~Attended'
  BY <1>1, <1>2, <1>3, InfoType, ReplyStep
<1>5. TypeOK'
  BY <1>1, <1>2, InfoType, NoAnswerType DEF IInv, TypeOK, Receive, Reply, keys, store, session
<1>6. SessionInv' /\ ReviewIsOfTheSession'
  BY <1>1, <1>4, ReviewKept DEF IInv, SessionInv, store, session
<1> QED BY <1>4, <1>5, <1>6 DEF IInv

LEMMA RefuseStep ==
  ASSUME IInv, NEW sw \in HeaderErrors, Refuse(sw)
  PROVE  IInv'
<1>1. /\ Receive("malformed", NoPath) /\ Reply(Code(sw))
      /\ UNCHANGED <<screen, keys, store, parsed, faults, session>>
  BY DEF Refuse
<1>2. [cmd |-> "malformed", path |-> NoPath] \in Commands
  BY DEF Commands
<1>3. Code(sw) \in Answers /\ Code(sw).sw \notin {"none", "OK"} /\ Code(sw).kind = "none"
  BY CodeType DEF Codes, HeaderErrors
<1>4. AnswerFits([cmd |-> "malformed", path |-> NoPath], Code(sw))'
  BY <1>3 DEF AnswerFits
<1>5. LoopInv' /\ ScreenHasItsCommand' /\ ~Attended'
  BY <1>1, <1>2, <1>3, <1>4, ReplyStep
<1>6. TypeOK'
  BY <1>1, <1>2, <1>3, NoAnswerType DEF IInv, TypeOK, Receive, Reply, keys, store, session
<1>7. SessionInv' /\ ReviewIsOfTheSession'
  BY <1>1, <1>5, ReviewKept DEF IInv, SessionInv, store, session
<1> QED BY <1>5, <1>6, <1>7 DEF IInv
-------------------------------------------------------------------------------

\* Whatever path a command carries, hdPath stays a path, and after a command
\* that is not refused it is the command's.
LEMMA ExtractedPath ==
  ASSUME TypeOK, NEW path \in Path \cup {NoPath}, ExtractHDPath(path)
  PROVE  /\ hdPath' \in Path \cup {NoPath}
         /\ PathError(path) \in {"OK", "WRONG_LENGTH", "DATA_INVALID"}
         /\ PathError(path) = "OK" => hdPath' = path /\ path \in ValidPath
BY DEF TypeOK, ExtractHDPath, PathError

LEMMA AddressStep == IInv /\ AddressCommand => IInv'
<1> SUFFICES ASSUME IInv, NEW path \in Path \cup {NoPath},
                    \/ GetAddressRefused(path)
                    \/ GetAddress(path)
                    \/ ConfirmAddress(path)
                    \/ \E cmd \in {"address", "confirm"} : GetAddressFault(cmd, path)
             PROVE  IInv'
  BY DEF AddressCommand
<1>1. ASSUME NEW cmd \in {"address", "confirm"}
      PROVE  [cmd |-> cmd, path |-> path] \in Commands
  BY DEF Commands
<1>2. CASE GetAddressRefused(path)
  <2>1. /\ Receive("address", path) /\ Reply(Code(PathError(path)))
        /\ ExtractHDPath(path) /\ PathError(path) # "OK"
        /\ UNCHANGED <<screen, hrp, store, parsed, faults, session>>
    BY <1>2 DEF GetAddressRefused
  <2> DEFINE a == Code(PathError(path))
  <2>2. PathError(path) \in Codes \ {"none"} /\ hdPath' \in Path \cup {NoPath}
    BY <2>1, ExtractedPath DEF IInv, Codes, HeaderErrors
  <2>3. a \in Answers /\ a.sw \notin {"none", "OK"} /\ a.kind = "none"
    BY <2>1, <2>2, CodeType
  <2> HIDE DEF a
  <2>4. AnswerFits([cmd |-> "address", path |-> path], a)'
    BY <2>3 DEF AnswerFits, a
  <2>5. LoopInv' /\ ScreenHasItsCommand' /\ ~Attended'
    BY <1>1, <2>1, <2>3, <2>4, ReplyStep DEF a
  <2>6. TypeOK'
    BY <1>1, <2>1, <2>2, <2>3, NoAnswerType DEF IInv, TypeOK, Receive, Reply, store, session, a
  <2>7. SessionInv' /\ ReviewIsOfTheSession'
    BY <2>1, <2>5, ReviewKept DEF IInv, SessionInv, store, session
  <2> QED BY <2>5, <2>6, <2>7 DEF IInv
<1>3. CASE GetAddress(path)
  <2>1. /\ Receive("address", path) /\ Reply(Address')
        /\ ExtractHDPath(path) /\ PathError(path) = "OK" /\ hrp' = "set"
        /\ UNCHANGED <<screen, store, parsed, faults, session>>
    BY <1>3 DEF GetAddress
  <2>2. hdPath' = path
    BY <2>1, ExtractedPath DEF IInv
  <2>3. /\ Address' \in Answers
        /\ (Address').sw = "OK" /\ (Address').kind = "address"
        /\ (Address').path = path /\ (Address').prefix = "set"
    <3> DEFINE none == <<>>
    <3>1. none \in Seq(Byte)
      OBVIOUS
    <3> HIDE DEF none
    <3>2. Address' = Answer("OK", "address", path, "set", none)
      BY <2>1, <2>2 DEF Address, Answer, none
    <3> QED BY <3>1, <3>2 DEF Answer, Answers, Codes
  <2>4. AnswerFits([cmd |-> "address", path |-> path], Address)'
    BY <2>3 DEF AnswerFits
  <2>5. LoopInv' /\ ScreenHasItsCommand' /\ ~Attended'
    <3>1. /\ pc' = "exchange" /\ flags' = "none"
          /\ outgoing' = Address' /\ host' = [cmd |-> "address", path |-> path]
      BY <2>1 DEF Receive, Reply
    <3>2. AnswerFits(host, outgoing)'
      BY <2>3, <3>1 DEF AnswerFits
    <3>3. outgoing' # NoAnswer'
      BY <2>3, <3>1, NoAnswerType DEF NoAnswer, Code, Answer
    <3> QED BY <2>3, <3>1, <3>2, <3>3 DEF LoopInv, ScreenHasItsCommand, Attended
  <2>6. TypeOK'
    BY <1>1, <2>1, <2>2, <2>3, NoAnswerType DEF IInv, TypeOK, Receive, Reply, store, session
  <2>7. SessionInv' /\ ReviewIsOfTheSession'
    BY <2>1, <2>5, ReviewKept DEF IInv, SessionInv, store, session
  <2> QED BY <2>5, <2>6, <2>7 DEF IInv
<1>4. CASE ConfirmAddress(path)
  <2>1. /\ Receive("confirm", path) /\ Defer
        /\ ExtractHDPath(path) /\ PathError(path) = "OK"
        /\ hrp' = "set" /\ screen' = "address"
        /\ UNCHANGED <<store, parsed, faults, session>>
    BY <1>4 DEF ConfirmAddress
  <2>2. hdPath' = path /\ path \in ValidPath
    BY <2>1, ExtractedPath DEF IInv
  <2>3. TypeOK'
    BY <1>1, <2>1, <2>2, NoAnswerType
       DEF IInv, TypeOK, Receive, Defer, store, session, Screens
  <2>4. ScreenHasItsCommand' /\ ReviewIsOfTheSession' /\ SessionInv'
    BY <2>1, <2>2 DEF IInv, ScreenHasItsCommand, ReviewIsOfTheSession, SessionInv, Receive,
                      store, session
  <2>5. LoopInv'
    BY <2>1, NoAnswerType DEF LoopInv, Receive, Defer
  <2> QED BY <2>3, <2>4, <2>5 DEF IInv
<1>5. ASSUME NEW cmd \in {"address", "confirm"}, GetAddressFault(cmd, path)
      PROVE  IInv'
  <2>1. /\ Receive(cmd, path) /\ Reply(Code("EXCEPTION"))
        /\ ExtractHDPath(path) /\ hrp' = "set" /\ Fault("fill")
        /\ UNCHANGED <<screen, store, parsed, session>>
    BY <1>5 DEF GetAddressFault
  <2>2. faults' \in 0..MaxFaults /\ hdPath' \in Path \cup {NoPath}
    BY <2>1, ExtractedPath, IovAppAssumption DEF IInv, TypeOK, Fault
  <2>3. Code("EXCEPTION") \in Answers /\ Code("EXCEPTION").sw \notin {"none", "OK"}
        /\ Code("EXCEPTION").kind = "none"
    BY CodeType DEF Codes
  <2>4. AnswerFits([cmd |-> cmd, path |-> path], Code("EXCEPTION"))'
    BY <2>3 DEF AnswerFits
  <2>5. LoopInv' /\ ScreenHasItsCommand' /\ ~Attended'
    BY <1>1, <2>1, <2>3, <2>4, ReplyStep
  <2>6. TypeOK'
    BY <1>1, <2>1, <2>2, <2>3, NoAnswerType DEF IInv, TypeOK, Receive, Reply, store, session
  <2>7. SessionInv' /\ ReviewIsOfTheSession'
    BY <2>1, <2>5, ReviewKept DEF IInv, SessionInv, store, session
  <2> QED BY <2>5, <2>6, <2>7 DEF IInv
<1> QED BY <1>2, <1>3, <1>4, <1>5
-------------------------------------------------------------------------------

\* The store after a chunk was taken: the session's chunks, and still in bounds.
LEMMA TakenChunk ==
  ASSUME TypeOK, SessionInv, NEW chunk \in Chunk, Store!Take(chunk),
         taken' = taken \o chunk
  PROVE  /\ log' \in Seq(Byte) /\ taken' \in Seq(Byte)
         /\ limit' \in {0, Capacity} /\ Len(log') <= limit'
         /\ returned' \in 0..MaxChunk
         /\ SessionInv'
<1>1. chunk \in Seq(Byte) /\ Len(chunk) \in 0..MaxChunk
  BY ChunkType
<1>2. /\ log' = log \o chunk /\ limit' = limit /\ returned' = Len(chunk)
      /\ Len(log) + Len(chunk) <= limit
  BY DEF Store!Take
<1>3. log \in Seq(Byte) /\ log = taken /\ limit \in {0, Capacity}
  BY DEF TypeOK, SessionInv
<1>4. log \o chunk \in Seq(Byte) /\ Len(log \o chunk) = Len(log) + Len(chunk)
  BY <1>1, <1>3
<1> QED BY <1>1, <1>2, <1>3, <1>4 DEF SessionInv

LEMMA SignStep == IInv /\ SignCommand => IInv'
<1> SUFFICES ASSUME IInv, SignCommand PROVE IInv'
  OBVIOUS
<1>1. ASSUME NEW cmd \in {"chunk", "sign"}, NEW path \in Path \cup {NoPath}
      PROVE  [cmd |-> cmd, path |-> path] \in Commands
  BY DEF Commands
<1>2. ASSUME NEW path \in Path \cup {NoPath}, SignInit(path) PROVE IInv'
  <2>1. /\ Receive("chunk", path) /\ Reply(Code(PathError(path)))
        /\ log' = <<>> /\ limit' = Capacity /\ returned' = returned
        /\ ExtractHDPath(path)
        /\ initPath' = IF PathError(path) = "OK" THEN path ELSE NoPath
        /\ taken' = <<>> /\ disturbed' = TRUE
        /\ UNCHANGED <<screen, hrp, parsed, faults>>
    BY <1>2 DEF SignInit, Store!Open
  <2> DEFINE a == Code(PathError(path))
  <2>2. PathError(path) \in Codes \ {"none"} /\ hdPath' \in Path \cup {NoPath}
    BY <2>1, ExtractedPath DEF IInv, Codes, HeaderErrors
  <2>3. a \in Answers /\ a.sw # "none" /\ a.kind = "none"
    BY <2>2, CodeType
  <2> HIDE DEF a
  <2>4. AnswerFits([cmd |-> "chunk", path |-> path], a)'
    BY <2>3 DEF AnswerFits, a
  <2>5. LoopInv' /\ ScreenHasItsCommand' /\ ~Attended'
    BY <1>1, <2>1, <2>3, <2>4, ReplyStep DEF a
  <2>6. log' \in Seq(Byte) /\ taken' \in Seq(Byte) /\ Len(log') = 0
    BY <2>1
  <2>7. TypeOK'
    BY <1>1, <2>1, <2>2, <2>3, <2>6, IovAppAssumption, NoAnswerType
       DEF IInv, TypeOK, Receive, Reply, a
  <2>8. SessionInv' /\ ReviewIsOfTheSession'
    BY <2>1, <2>5 DEF SessionInv, ReviewIsOfTheSession
  <2> QED BY <2>5, <2>7, <2>8 DEF IInv
<1>3. ASSUME NEW chunk \in Chunk, SignAdd(chunk) PROVE IInv'
  <2>1. /\ Receive("chunk", NoPath) /\ Reply(Code("OK"))
        /\ Store!Take(chunk) /\ taken' = taken \o chunk /\ disturbed' = TRUE
        /\ UNCHANGED <<screen, keys, parsed, faults, initPath>>
    BY <1>3 DEF SignAdd
  <2>2. Code("OK") \in Answers /\ Code("OK").sw = "OK" /\ Code("OK").kind = "none"
    BY CodeType DEF Codes
  <2>3. AnswerFits([cmd |-> "chunk", path |-> NoPath], Code("OK"))'
    BY <2>2 DEF AnswerFits
  <2>4. LoopInv' /\ ScreenHasItsCommand' /\ ~Attended'
    BY <1>1, <2>1, <2>2, <2>3, ReplyStep
  <2>5. TypeOK' /\ SessionInv'
    BY <1>1, <2>1, <2>2, TakenChunk, NoAnswerType DEF IInv, TypeOK, Receive, Reply, keys
  <2>6. ReviewIsOfTheSession'
    BY <2>1, <2>4 DEF ReviewIsOfTheSession
  <2> QED BY <2>4, <2>5, <2>6 DEF IInv
<1>4. ASSUME NEW chunk \in Chunk, NEW cmd \in {"chunk", "sign"}, SignOverflow(cmd, chunk)
      PROVE  IInv'
  <2>1. /\ Receive(cmd, NoPath) /\ Reply(Code("OUTPUT_BUFFER_TOO_SMALL"))
        /\ returned' = 0 /\ log' = log /\ limit' = limit
        /\ UNCHANGED <<screen, keys, parsed, faults, session>>
    BY <1>4 DEF SignOverflow, Store!Refuse
  <2> DEFINE a == Code("OUTPUT_BUFFER_TOO_SMALL")
  <2>2. a \in Answers /\ a.sw \notin {"none", "OK"} /\ a.kind = "none"
    BY CodeType DEF Codes
  <2> HIDE DEF a
  <2>3. AnswerFits([cmd |-> cmd, path |-> NoPath], a)'
    BY <2>2 DEF AnswerFits, a
  <2>4. LoopInv' /\ ScreenHasItsCommand' /\ ~Attended'
    BY <1>1, <2>1, <2>2, <2>3, ReplyStep DEF a
  <2>5. TypeOK'
    BY <1>1, <2>1, <2>2, IovAppAssumption, NoAnswerType DEF IInv, TypeOK, Receive, Reply, keys, session, a
  <2>6. SessionInv' /\ ReviewIsOfTheSession'
    BY <2>1, <2>4, ReviewKept DEF IInv, SessionInv, session
  <2> QED BY <2>4, <2>5, <2>6 DEF IInv
<1>5. ASSUME NEW chunk \in Chunk, SignInvalid(chunk) PROVE IInv'
  <2>1. /\ Receive("sign", NoPath) /\ Reply(Code("DATA_INVALID"))
        /\ Store!Take(chunk) /\ taken' = taken \o chunk /\ parsed' = log'
        /\ disturbed' = TRUE
        /\ UNCHANGED <<screen, keys, faults, initPath>>
    BY <1>5 DEF SignInvalid
  <2> DEFINE a == Code("DATA_INVALID")
  <2>2. a \in Answers /\ a.sw \notin {"none", "OK"} /\ a.kind = "none"
    BY CodeType DEF Codes
  <2> HIDE DEF a
  <2>3. AnswerFits([cmd |-> "sign", path |-> NoPath], a)'
    BY <2>2 DEF AnswerFits, a
  <2>4. LoopInv' /\ ScreenHasItsCommand' /\ ~Attended'
    BY <1>1, <2>1, <2>2, <2>3, ReplyStep DEF a
  <2>5. TypeOK' /\ SessionInv'
    BY <1>1, <2>1, <2>2, TakenChunk, NoAnswerType DEF IInv, TypeOK, Receive, Reply, keys, a
  <2>6. ReviewIsOfTheSession'
    BY <2>1, <2>4 DEF ReviewIsOfTheSession
  <2> QED BY <2>4, <2>5, <2>6 DEF IInv
<1>6. ASSUME NEW chunk \in Chunk, SignLast(chunk) PROVE IInv'
  <2>1. /\ Receive("sign", NoPath) /\ Defer
        /\ Store!Take(chunk) /\ taken' = taken \o chunk /\ parsed' = log'
        /\ disturbed' = FALSE
        /\ Verdict(log') = "ok" /\ screen' \in {"review", "error"}
        /\ UNCHANGED <<keys, faults, initPath>>
    BY <1>6 DEF SignLast, Walk!Begin
  <2>2. TypeOK' /\ SessionInv'
    BY <1>1, <2>1, NoAnswerType, TakenChunk
       DEF IInv, TypeOK, Receive, Defer, keys, Screens
  <2>3. ReviewIsOfTheSession'
    BY <2>1, <2>2 DEF ReviewIsOfTheSession, SessionInv
  <2>4. ScreenHasItsCommand' /\ LoopInv'
    BY <2>1, NoAnswerType DEF ScreenHasItsCommand, LoopInv, Receive, Defer
  <2> QED BY <2>2, <2>3, <2>4 DEF IInv
<1> QED BY <1>2, <1>3, <1>4, <1>5, <1>6 DEF SignCommand
-------------------------------------------------------------------------------

\* Every answer a callback gives closes its screen; the rest of the invariant
\* speaks of what the callback leaves alone.
LEMMA AnswerNowStep ==
  ASSUME IInv, NEW a \in Answers, AnswerNow(a), faults' \in 0..MaxFaults
  PROVE  IInv'
<1>1. TypeOK'
  BY DEF IInv, TypeOK, AnswerNow, Send, loop, keys, store, session, Screens, Commands, NoCommand
<1>2. ReviewIsOfTheSession' /\ ScreenHasItsCommand' /\ SessionInv'
  BY DEF IInv, AnswerNow, Send, ReviewIsOfTheSession, ScreenHasItsCommand, Attended, SessionInv,
         NoCommand, store, session
<1>3. LoopInv'
  BY DEF IInv, LoopInv, AnswerNow, Send, loop
<1> QED BY <1>1, <1>2, <1>3 DEF IInv

LEMMA CallbackStep == IInv /\ Callback => IInv'
<1> SUFFICES ASSUME IInv, Callback PROVE IInv'
  OBVIOUS
<1>1. CASE ReviewDone \/ ReviewAgain \/ ReviewFails
  <2>1. /\ pc = "waiting" /\ screen \in {"review", "choice"}
        /\ screen' \in {"review", "choice", "error"}
        /\ UNCHANGED <<loop, host, answer, keys, store, parsed, faults, session>>
    BY <1>1 DEF ReviewDone, ReviewAgain, ReviewFails,
                Walk!Done, Walk!Again, Walk!Fails
  <2>2. TypeOK'
    BY <2>1 DEF IInv, TypeOK, loop, keys, store, session, Screens
  <2>3. ReviewIsOfTheSession' /\ ScreenHasItsCommand' /\ SessionInv'
    BY <2>1, ReviewKept DEF IInv, ScreenHasItsCommand, Attended, SessionInv, loop, store, session
  <2>4. LoopInv'
    BY <2>1 DEF IInv, LoopInv, loop
  <2> QED BY <2>2, <2>3, <2>4 DEF IInv
<1>2. CASE h_address_accept \/ h_error_accept
  <2>1. AnswerNow(Address) /\ faults' = faults /\ Address \in Answers
    BY <1>2, AddressType DEF h_address_accept, h_error_accept, IInv
  <2> QED BY <2>1, AnswerNowStep DEF IInv, TypeOK
<1>3. CASE h_sign_accept
  <2>1. AnswerNow(Signature) /\ faults' = faults /\ Signature \in Answers
    BY <1>3, SignatureType DEF h_sign_accept, IInv
  <2> QED BY <2>1, AnswerNowStep DEF IInv, TypeOK
<1>4. CASE h_sign_accept_empty \/ h_sign_reject
  <2>1. /\ AnswerNow(Code("SIGN_VERIFY_ERROR")) \/ AnswerNow(Code("COMMAND_NOT_ALLOWED"))
        /\ faults' \in 0..MaxFaults
    BY <1>4, IovAppAssumption DEF h_sign_accept_empty, h_sign_reject, Fault, IInv, TypeOK
  <2>2. Code("SIGN_VERIFY_ERROR") \in Answers /\ Code("COMMAND_NOT_ALLOWED") \in Answers
    BY CodeType DEF Codes
  <2> QED BY <2>1, <2>2, AnswerNowStep
<1>5. CASE ReplyAddressFault \/ SignFault
  <2>1. /\ pc = "waiting" /\ screen' \in {"idle", screen}
        /\ pc' = "exchange" /\ outgoing' = Code("EXCEPTION")
        /\ faults' \in 0..MaxFaults
        /\ UNCHANGED <<flags, host, answer, keys, store, parsed, session>>
    BY <1>5, IovAppAssumption DEF ReplyAddressFault, SignFault, Fault, IInv, TypeOK
  <2>2. /\ Code("EXCEPTION") \in Answers /\ Code("EXCEPTION").kind = "none"
        /\ Code("EXCEPTION").sw \notin {"none", "OK"}
    BY CodeType DEF Codes
  <2>3. TypeOK'
    BY <2>1, <2>2 DEF IInv, TypeOK, keys, store, session, Screens
  <2>4. ReviewIsOfTheSession' /\ ScreenHasItsCommand' /\ SessionInv'
    BY <2>1, ReviewKept DEF IInv, ScreenHasItsCommand, Attended, SessionInv, keys, store, session
  <2>5. AnswerFits(host, outgoing)'
    BY <2>1, <2>2 DEF AnswerFits
  <2>6. outgoing' # NoAnswer'
    BY <2>1, <2>2, NoAnswerType DEF NoAnswer, Code, Answer
  <2>7. LoopInv'
    BY <2>1, <2>2, <2>5, <2>6 DEF LoopInv
  <2> QED BY <2>3, <2>4, <2>7 DEF IInv
<1> QED BY <1>1, <1>2, <1>3, <1>4, <1>5 DEF Callback, Decision

\* Init and PowerCycle leave the same globals.
LEMMA Start == Init => IInv
<1> SUFFICES ASSUME Init PROVE IInv
  OBVIOUS
<1> USE DEF Init, Store!Init
<1>0. disturbed \in BOOLEAN
  OBVIOUS
<1>1. log \in Seq(Byte) /\ parsed \in Seq(Byte) /\ taken \in Seq(Byte) /\ Len(log) = 0
  OBVIOUS
<1>2. TypeOK
  BY <1>0, <1>1, NoAnswerType, IovAppAssumption DEF TypeOK, Screens, Commands, NoCommand
<1>3. ReviewIsOfTheSession /\ ScreenHasItsCommand /\ SessionInv
  BY DEF ReviewIsOfTheSession, ScreenHasItsCommand, SessionInv
<1>4. LoopInv
  BY NoAnswerType DEF LoopInv
<1> QED BY <1>2, <1>3, <1>4 DEF IInv

\* A command that was given up leaves its screen, for which nobody waits now.
LEMMA GiveUpStep == IInv /\ GiveUp => IInv'
<1> SUFFICES ASSUME IInv, GiveUp PROVE IInv'
  OBVIOUS
<1> USE DEF IInv, GiveUp
<1>1. TypeOK'
  BY NoAnswerType DEF TypeOK, loop, keys, store, session, Commands, NoCommand
<1>2. ReviewIsOfTheSession' /\ ScreenHasItsCommand' /\ SessionInv'
  <2>1. ~Attended'
    BY DEF Attended, NoCommand
  <2>2. /\ screen' = screen
        /\ log' = log /\ taken' = taken /\ disturbed' = disturbed /\ parsed' = parsed
    BY DEF store, session
  <2> QED BY <2>1, <2>2, ReviewKept DEF ScreenHasItsCommand, SessionInv
<1>3. LoopInv'
  BY DEF LoopInv, NoCommand, loop
<1> QED BY <1>1, <1>2, <1>3

LEMMA PowerCycleStep == IInv /\ PowerCycle => IInv'
<1> SUFFICES ASSUME IInv, PowerCycle PROVE IInv'
  OBVIOUS
<1> USE DEF PowerCycle, Store!Crash
<1>0. disturbed' \in BOOLEAN
  OBVIOUS
<1>1. log' \in Seq(Byte) /\ parsed' \in Seq(Byte) /\ taken' \in Seq(Byte) /\ Len(log') = 0
  OBVIOUS
<1>2. TypeOK'
  BY <1>0, <1>1, NoAnswerType, IovAppAssumption DEF IInv, TypeOK, Screens, Commands, NoCommand
<1>3. ReviewIsOfTheSession' /\ ScreenHasItsCommand' /\ SessionInv'
  BY DEF ReviewIsOfTheSession, ScreenHasItsCommand, SessionInv
<1>4. LoopInv'
  BY NoAnswerType DEF LoopInv
<1> QED BY <1>2, <1>3, <1>4 DEF IInv

LEMMA Step == IInv /\ [Next]_vars => IInv'
<1>1. ASSUME IInv, UNCHANGED vars PROVE IInv'
  <2>1. TypeOK' /\ SessionInv'
    BY <1>1 DEF IInv, TypeOK, SessionInv, vars, loop, keys, store, session
  <2>2. ReviewIsOfTheSession' /\ ScreenHasItsCommand'
    BY <1>1 DEF IInv, ReviewIsOfTheSession, ScreenHasItsCommand, Attended, vars, loop, keys,
                store, session
  <2>3. LoopInv'
    BY <1>1 DEF IInv, LoopInv, AnswerFits, vars, loop, store, session
  <2> QED BY <2>1, <2>2, <2>3 DEF IInv
<1> QED BY <1>1, ExchangeStep, InformStep, RefuseStep, AddressStep, SignStep, CallbackStep,
           GiveUpStep, PowerCycleStep
        DEF Next, Command
-------------------------------------------------------------------------------

\* Every global of the app keeps the type the program gives it, and the store
\* never holds more than its capacity (app_main.c, view.c, actions.c).
THEOREM TypeCorrect == Spec => []TypeOK
<1>1. IInv => TypeOK
  BY DEF IInv
<1> QED BY <1>1, Start, Step, PTL DEF Spec

\* What is on the display for signing is the whole message of the session and
\* the parser accepted it, while the host waits for the review and for as long
\* as no packet was accepted under it (app_main.c:209-230).
THEOREM ReviewCorrect == Spec => []ReviewIsOfTheSession
<1>1. IInv => ReviewIsOfTheSession
  BY DEF IInv
<1> QED BY <1>1, Start, Step, PTL DEF Spec

\* While the host waits for the answer of a screen, the screen is the one of its
\* own command, and an address on it the one it asked for.  Of a screen that the
\* host has given up nothing is said (app_main.c:186-230, view.c:35-73).
THEOREM ScreensCorrect == Spec => []ScreenHasItsCommand
<1>1. IInv => ScreenHasItsCommand
  BY DEF IInv
<1> QED BY <1>1, Start, Step, PTL DEF Spec

\* An answer to a host that still waits is what the protocol says of its command,
\* unless the error screen gives it; a signature covers the session's message and
\* nothing else.  Answers to a host that has given up: see SignaturesCorrect.
THEOREM AnswersCorrect == Spec => AnswersTheCommand
<1> DEFINE Fits == host # NoCommand /\ host' = NoCommand /\ screen # "error"
                     => AnswerFits(host, answer')
<1>1. IInv /\ [Next]_vars => [Fits]_vars
  <2> SUFFICES ASSUME IInv, Next, host # NoCommand, host' = NoCommand, screen # "error"
               PROVE  AnswerFits(host, answer')
    OBVIOUS
  <2>1. CASE Exchange
    BY <2>1 DEF IInv, LoopInv, Exchange, Send
  <2>2. CASE Command
    BY <2>2 DEF Command, GetDeviceInfo, GetVersion, Refuse, AddressCommand, GetAddressRefused,
                GetAddress, ConfirmAddress, GetAddressFault, SignCommand, SignInit, SignAdd,
                SignOverflow, SignInvalid, SignLast, Receive
  <2>3. CASE GiveUp \/ PowerCycle
    BY <2>3, NoAnswerType DEF GiveUp, PowerCycle, AnswerFits
  <2>4. CASE h_address_accept
    <3>1. screen = "address" /\ answer' = Address /\ Attended
      BY <2>4 DEF h_address_accept, AnswerNow, Send, IInv, LoopInv, Attended
    <3> QED BY <3>1, AddressType DEF IInv, ScreenHasItsCommand, AnswerFits
  <2>5. CASE h_sign_accept
    <3>1. screen = "choice" /\ answer' = Signature /\ Attended
      BY <2>5 DEF h_sign_accept, AnswerNow, Send, IInv, LoopInv, Attended
    <3> QED BY <3>1, SignatureType
            DEF IInv, ScreenHasItsCommand, ReviewIsOfTheSession, AnswerFits
  <2>6. CASE h_sign_accept_empty \/ h_sign_reject
    <3>1. answer' \in {Code("SIGN_VERIFY_ERROR"), Code("COMMAND_NOT_ALLOWED")}
      BY <2>6 DEF h_sign_accept_empty, h_sign_reject, AnswerNow, Send
    <3>2. answer'.sw # "OK" /\ answer'.kind = "none"
      BY <3>1, CodeType DEF Codes
    <3> QED BY <3>2 DEF AnswerFits
  <2>7. CASE ReviewDone \/ ReviewAgain \/ ReviewFails \/ ReplyAddressFault \/ SignFault
                \/ h_error_accept
    BY <2>7 DEF ReviewDone, ReviewAgain, ReviewFails,
                Walk!Done, Walk!Again, Walk!Fails, ReplyAddressFault, SignFault,
                h_error_accept
  <2> QED BY <2>1, <2>2, <2>3, <2>4, <2>5, <2>6, <2>7 DEF Next, Callback, Decision
<1> QED BY <1>1, Start, Step, PTL DEF Spec, AnswersTheCommand

\* A signature goes out from the choice only, read by the host or not.  It covers
\* the session that is open, and what was reviewed unless a packet was accepted
\* under the review (view.c:49-64, actions.c:25-31).
THEOREM SignaturesCorrect == Spec => SignaturesAreOfTheReview
<1> DEFINE Signed == answer' # answer /\ answer'.kind = "signature"
           OfTheReview ==
             /\ screen = "choice" /\ answer'.msg = taken
             /\ ~disturbed => answer'.msg = parsed /\ Verdict(answer'.msg) = "ok"
<1>1. IInv /\ [Next]_vars => [Signed => OfTheReview]_vars
  <2> SUFFICES ASSUME IInv, Next, answer' # answer, answer'.kind = "signature"
               PROVE  OfTheReview
    OBVIOUS
  <2>1. CASE Exchange
    BY <2>1 DEF IInv, LoopInv, Exchange, Send
  <2>2. CASE Command
    BY <2>2, NoAnswerType
       DEF Command, GetDeviceInfo, GetVersion, Refuse, AddressCommand, GetAddressRefused,
           GetAddress, ConfirmAddress, GetAddressFault, SignCommand, SignInit, SignAdd,
           SignOverflow, SignInvalid, SignLast, Receive
  <2>3. CASE GiveUp \/ PowerCycle
    BY <2>3, NoAnswerType DEF GiveUp, PowerCycle
  <2>4. CASE h_address_accept \/ h_error_accept
    BY <2>4, AddressType DEF IInv, h_address_accept, h_error_accept, AnswerNow, Send
  <2>5. CASE h_sign_accept
    <3>1. screen = "choice" /\ answer' = Signature
      BY <2>5 DEF h_sign_accept, AnswerNow, Send
    <3> QED BY <3>1, SignatureType DEF IInv, ReviewIsOfTheSession, SessionInv
  <2>6. CASE h_sign_accept_empty \/ h_sign_reject
    <3>1. answer' \in {Code("SIGN_VERIFY_ERROR"), Code("COMMAND_NOT_ALLOWED")}
      BY <2>6 DEF h_sign_accept_empty, h_sign_reject, AnswerNow, Send
    <3> QED BY <3>1, CodeType DEF Codes
  <2>7. CASE ReviewDone \/ ReviewAgain \/ ReviewFails \/ ReplyAddressFault \/ SignFault
    BY <2>7 DEF ReviewDone, ReviewAgain, ReviewFails, ReplyAddressFault, SignFault
  <2> QED BY <2>1, <2>2, <2>3, <2>4, <2>5, <2>6, <2>7 DEF Next, Callback, Decision
<1> QED BY <1>1, Start, Step, PTL DEF Spec, SignaturesAreOfTheReview
-------------------------------------------------------------------------------

\* A deferred answer that the host waits for has a screen that will give it.
WaitInv == Attended => screen # "idle"

LEMMA WaitStep ==
  ASSUME "reply" \notin FaultAt
  PROVE  IInv /\ WaitInv /\ [Next]_vars => WaitInv'
<1> SUFFICES ASSUME IInv, WaitInv, [Next]_vars PROVE WaitInv'
  OBVIOUS
<1> USE DEF WaitInv, Attended
<1>1. CASE Exchange \/ GiveUp \/ PowerCycle
  BY <1>1 DEF Exchange, Send, GiveUp, PowerCycle, NoCommand
<1>2. CASE Command
  <2>1. (\E a : Reply(a)) \/ (Defer /\ screen' # "idle")
    BY <1>2 DEF Command, GetDeviceInfo, GetVersion, Refuse, AddressCommand, GetAddressRefused,
                GetAddress, ConfirmAddress, GetAddressFault, SignCommand, SignInit, SignAdd,
                SignOverflow, SignInvalid, SignLast, Walk!Begin
  <2> QED BY <2>1 DEF Reply, Defer
<1>3. CASE Decision \/ h_address_accept \/ h_error_accept
  BY <1>3 DEF Decision, h_sign_accept, h_sign_accept_empty, h_sign_reject, h_address_accept,
              h_error_accept, AnswerNow, Send
<1>4. CASE ReviewDone \/ ReviewAgain \/ ReviewFails
  BY <1>4 DEF ReviewDone, ReviewAgain, ReviewFails,
              Walk!Done, Walk!Again, Walk!Fails
<1>5. CASE SignFault \/ ReplyAddressFault
  BY <1>5 DEF SignFault, ReplyAddressFault, Fault
<1>6. CASE UNCHANGED vars
  BY <1>6 DEF vars, loop, NoCommand
<1> QED BY <1>1, <1>2, <1>3, <1>4, <1>5, <1>6 DEF Next, Callback

\* If key derivation does not fail in app_reply_address, the loop never waits
\* for a command while the host waits for an answer, unless a screen is up that
\* will give it (app_main.c:300-339).
THEOREM NobodyWaits ==
  ASSUME "reply" \notin FaultAt
  PROVE  Spec => []NobodyWaitsInVain
<1>1. Init => WaitInv
  BY DEF Init, WaitInv, Attended
<1>2. IInv /\ WaitInv => NobodyWaitsInVain
  BY DEF IInv, LoopInv, WaitInv, Attended, NobodyWaitsInVain
<1>3. IInv /\ WaitInv /\ [Next]_vars => WaitInv'
  BY WaitStep
<1> QED BY <1>1, <1>2, <1>3, Start, Step, PTL DEF Spec
===============================================================================
