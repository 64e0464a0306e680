------------------------------ MODULE AddressProofs ------------------------------
(* AddressScreen for every set of paths, and all that IovApp is proved for:  *)
(* the screen in detail does what the screen in one step did, and the host   *)
(* gets the address that the user had on the display.                        *)
EXTENDS AddressScreen, IovAppProofs

\* While the host waits for a confirmation, the text in the buffer, the text on
\* the display and the texts seen so far are those of its path.
FlowInv ==
  Attended /\ screen = "address" =>
    /\ buffer = Text("address", host.path)
    /\ step \in 0..2
    /\ step = 0 => addr = Text("address", host.path)
    /\ step = 1 => addr = Text("path", host.path)
    /\ Text("address", host.path) \in read
    /\ step # 0 => Text("path", host.path) \in read

\* What is answered to a confirmation without a screen is no address.
QuietInv == flags = "none" /\ host.cmd = "confirm" => outgoing.kind # "address"

-------------------------------------------------------------------------------

LEMMA ScreenStart == ScreenInit => Init /\ FlowInv /\ QuietInv
BY NoAnswerType DEF ScreenInit, Init, FlowInv, QuietInv, Attended, NoCommand

\* Each step of the screen is a step of the app, or moves the flow only.
LEMMA ScreenStepIsAppStep == [ScreenNext]_screenVars => [Next]_vars
<1> SUFFICES ASSUME [ScreenNext]_screenVars PROVE [Next]_vars
  OBVIOUS
<1>1. CASE \E path \in Path \cup {NoPath} : ShowAddress(path) \/ AddressWithoutScreen(path)
  BY <1>1 DEF ShowAddress, AddressWithoutScreen, Next, Command, AddressCommand
<1>2. CASE OtherCommand
  BY <1>2 DEF OtherCommand, Next, Command, AddressCommand
<1>3. CASE OtherCallback \/ AcceptAddress
  BY <1>3 DEF OtherCallback, AcceptAddress, Next, Callback
<1>4. CASE Outside
  BY <1>4 DEF Outside, Next
<1>5. CASE \E n \in 0..2 : Right(n) \/ Left(n)
  BY <1>5 DEF Right, Left
<1>6. CASE UNCHANGED screenVars
  BY <1>6 DEF screenVars
<1> QED BY <1>1, <1>2, <1>3, <1>4, <1>5, <1>6 DEF ScreenNext

\* A command that makes no screen of its own answers at once, or puts up a review.
LEMMA OtherCommandAnswers ==
  ASSUME OtherCommand \/ \E path \in Path \cup {NoPath} : AddressWithoutScreen(path)
  PROVE  /\ host = NoCommand
         /\ flags' = "none" \/ screen' \in {"review", "error"}
         /\ host'.cmd = "confirm" => outgoing' = Code("EXCEPTION")
<1> USE DEF Receive, Reply, Defer
<1>1. CASE GetDeviceInfo \/ GetVersion \/ \E sw \in HeaderErrors : Refuse(sw)
  BY <1>1 DEF GetDeviceInfo, GetVersion, Refuse
<1>2. CASE SignCommand
  BY <1>2 DEF SignCommand, SignInit, SignAdd, SignOverflow, SignInvalid, SignLast, Walk!Begin
<1>3. CASE \E path \in Path \cup {NoPath} :
             \/ GetAddressRefused(path) \/ GetAddress(path)
             \/ \E cmd \in {"address", "confirm"} : GetAddressFault(cmd, path)
  BY <1>3 DEF GetAddressRefused, GetAddress, GetAddressFault
<1> QED BY <1>1, <1>2, <1>3 DEF OtherCommand, AddressWithoutScreen

\* The display stays that of the host's path while it waits.
LEMMA FlowStep == IInv /\ FlowInv /\ [ScreenNext]_screenVars => FlowInv'
<1> SUFFICES ASSUME IInv, FlowInv, [ScreenNext]_screenVars, (Attended /\ screen = "address")'
             PROVE  FlowInv'
  BY DEF FlowInv
<1> USE DEF Attended
<1>1. ASSUME NEW path \in Path \cup {NoPath}, ShowAddress(path) PROVE FlowInv'
  <2>1. /\ ConfirmAddress(path) /\ FillBuffer /\ StepTo(0, {})
        /\ ExtractHDPath(path) /\ PathError(path) = "OK" /\ hrp' = "set"
        /\ host' = [cmd |-> "confirm", path |-> path]
    BY <1>1 DEF ShowAddress, ConfirmAddress, Receive
  <2>2. hdPath' = path /\ host'.path = path
    BY <2>1, ExtractedPath DEF IInv
  <2>3. buffer' = Text("address", path)
    BY <2>1, <2>2 DEF FillBuffer
  <2>4. step' = 0 /\ addr' = buffer' /\ read' = {addr'}
    BY <2>1 DEF StepTo
  <2> QED BY <2>2, <2>3, <2>4 DEF FlowInv, Text
<1>2. CASE OtherCommand \/ \E path \in Path \cup {NoPath} : AddressWithoutScreen(path)
  BY <1>2, OtherCommandAnswers
<1>3. CASE OtherCallback
  BY <1>3 DEF OtherCallback, ReviewDone, ReviewAgain, ReviewFails,
              Walk!Done, Walk!Again, Walk!Fails, h_error_accept, Decision,
              h_sign_accept, h_sign_accept_empty, h_sign_reject, SignFault, AnswerNow
<1>4. CASE Outside
  <2>1. CASE Exchange /\ UNCHANGED buffer /\ KeepFlow
    <3>1. host' = host /\ flags' = flags /\ screen' = screen
      BY <2>1 DEF Exchange, Send
    <3>2. UNCHANGED <<buffer, step, addr, read>>
      BY <2>1 DEF KeepFlow, flow
    <3> QED BY <3>1, <3>2 DEF FlowInv, Text
  <2>2. CASE GiveUp \/ PowerCycle
    BY <2>2 DEF GiveUp, PowerCycle
  <2> QED BY <1>4, <2>1, <2>2 DEF Outside
<1>5. ASSUME NEW n \in 0..2, Right(n) \/ Left(n) PROVE FlowInv'
  <2>1. /\ UNCHANGED <<vars, buffer>>
        /\ \E m \in 0..2 : m # step /\ StepTo(m, read) /\ (step = 0 => m = 1)
    BY <1>5 DEF Right, Left, OnFlow
  <2>2. UNCHANGED <<host, flags, screen, hdPath>>
    BY <2>1 DEF vars, loop, keys
  <2>3. hdPath = host.path
    BY <2>2 DEF IInv, ScreenHasItsCommand
  <2>4. /\ buffer = Text("address", host.path)
        /\ step \in 0..2
        /\ Text("address", host.path) \in read
        /\ step # 0 => Text("path", host.path) \in read
    BY <2>2 DEF FlowInv
  <2>5. PICK m \in 0..2 : m # step /\ StepTo(m, read) /\ (step = 0 => m = 1)
    BY <2>1
  <2>6. /\ step' = m /\ read' = read \cup {addr'}
        /\ m = 0 => addr' = buffer
        /\ m = 1 => addr' = Text("path", hdPath)
    BY <2>1, <2>2, <2>5 DEF StepTo, Text
  <2> QED BY <2>1, <2>2, <2>3, <2>4, <2>5, <2>6 DEF FlowInv, Text
<1>6. CASE AcceptAddress
  BY <1>6 DEF AcceptAddress, h_address_accept, AnswerNow
<1>7. CASE UNCHANGED screenVars
  BY <1>7 DEF FlowInv, Text, screenVars, vars, loop, flow
<1> QED BY <1>1, <1>2, <1>3, <1>4, <1>5, <1>6, <1>7 DEF ScreenNext

\* No handler leaves an address behind for a confirmation.
LEMMA QuietStep == IInv /\ QuietInv /\ [ScreenNext]_screenVars => QuietInv'
<1> SUFFICES ASSUME IInv, QuietInv, [ScreenNext]_screenVars, (flags = "none" /\ host.cmd = "confirm")'
             PROVE  outgoing'.kind # "address"
  BY DEF QuietInv
<1>1. Code("EXCEPTION").kind = "none" /\ NoAnswer.kind = "none"
  BY CodeType, NoAnswerType DEF Codes
<1>2. CASE \E path \in Path \cup {NoPath} : ShowAddress(path)
  BY <1>1, <1>2 DEF ShowAddress, ConfirmAddress, Defer
<1>3. CASE OtherCommand \/ \E path \in Path \cup {NoPath} : AddressWithoutScreen(path)
  BY <1>1, <1>3, OtherCommandAnswers
<1>4. CASE OtherCallback \/ AcceptAddress
  <2>1. CASE SignFault
    BY <1>1, <2>1 DEF SignFault
  <2>2. CASE ReviewDone \/ ReviewAgain \/ ReviewFails
    BY <2>2 DEF ReviewDone, ReviewAgain, ReviewFails,
                Walk!Done, Walk!Again, Walk!Fails, loop, QuietInv
  <2>3. CASE h_error_accept \/ Decision \/ h_address_accept
    BY <2>3 DEF h_error_accept, Decision, h_sign_accept, h_sign_accept_empty, h_sign_reject,
                h_address_accept, AnswerNow, Send, NoCommand
  <2> QED BY <1>4, <2>1, <2>2, <2>3 DEF OtherCallback, AcceptAddress
<1>5. CASE Outside
  BY <1>1, <1>5 DEF Outside, Exchange, GiveUp, PowerCycle, NoCommand
<1>6. CASE (\E n \in 0..2 : Right(n) \/ Left(n)) \/ UNCHANGED screenVars
  BY <1>6 DEF Right, Left, screenVars, vars, loop, QuietInv
<1> QED BY <1>2, <1>3, <1>4, <1>5, <1>6 DEF ScreenNext

-------------------------------------------------------------------------------

\* The address screen in detail implements the one that IovApp has: what is
\* proved of every answer and every review holds with it (view_s.c:51-64).
THEOREM ImplementsApp == ScreenSpec => Spec
BY ScreenStart, ScreenStepIsAppStep, PTL DEF ScreenSpec, Spec

\* Whatever was commanded and given up before, the address or path on the
\* display while the host waits is that of the path it sent (view.c:123-137).
THEOREM AddressCorrect == ScreenSpec => []AddressIsTheHosts
<1>1. FlowInv => AddressIsTheHosts
  BY DEF FlowInv, AddressIsTheHosts
<1> QED BY <1>1, ScreenStart, ScreenStepIsAppStep, Start, Step, FlowStep, PTL DEF ScreenSpec

\* A host that asked for a confirmation gets an address only after the user had
\* it and its path on the display (view_s.c:51-64, view.c:35-40).
THEOREM ReadCorrect == ScreenSpec => ConfirmedWasRead
<1> DEFINE Confirmed == host.cmd = "confirm" /\ host' = NoCommand /\ answer'.kind = "address"
           WasRead == {Text("address", answer'.path), Text("path", answer'.path)} \subseteq read
<1>1. IInv /\ FlowInv /\ QuietInv /\ [ScreenNext]_screenVars => [Confirmed => WasRead]_screenVars
  <2> SUFFICES ASSUME IInv, FlowInv, QuietInv, ScreenNext, Confirmed PROVE WasRead
    OBVIOUS
  <2>1. host # NoCommand /\ host'.cmd = "none"
    BY DEF NoCommand
  <2>2. pc = "waiting" => flags = "asynch"
    BY <2>1 DEF IInv, LoopInv
  <2>3. CASE AcceptAddress
    <3>1. Attended /\ screen = "address" /\ step = 2 /\ answer' = Address
      BY <2>1, <2>2, <2>3 DEF AcceptAddress, OnFlow, h_address_accept, AnswerNow, Send, Attended
    <3>2. answer'.path = host.path
      BY <3>1, AddressType DEF IInv, ScreenHasItsCommand
    <3> QED BY <3>1, <3>2 DEF FlowInv
  <2>4. CASE OtherCallback
    BY <2>1, <2>2, <2>4
       DEF OtherCallback, ReviewDone, ReviewAgain, ReviewFails,
           Walk!Done, Walk!Again, Walk!Fails, h_error_accept, Decision,
           h_sign_accept, h_sign_accept_empty, h_sign_reject, SignFault, AnswerNow, IInv,
           ScreenHasItsCommand, Attended
  <2>5. CASE Outside
    BY <2>1, <2>5, NoAnswerType
       DEF Outside, Exchange, Send, GiveUp, PowerCycle, QuietInv
  <2>6. CASE OtherCommand \/ \E path \in Path \cup {NoPath} : ShowAddress(path) \/ AddressWithoutScreen(path)
    BY <2>1, <2>6, OtherCommandAnswers DEF ShowAddress, ConfirmAddress, Receive
  <2>7. CASE \E n \in 0..2 : Right(n) \/ Left(n)
    BY <2>1, <2>7 DEF Right, Left, vars
  <2> QED BY <2>3, <2>4, <2>5, <2>6, <2>7 DEF ScreenNext
<1> QED BY <1>1, ScreenStart, ScreenStepIsAppStep, Start, Step, FlowStep, QuietStep, PTL
        DEF ScreenSpec, ConfirmedWasRead

-------------------------------------------------------------------------------
(* Types *)

LEMMA TextType ==
  ASSUME NEW what \in {"address", "path", "other"}, NEW path \in Path \cup {NoPath}
  PROVE  Text(what, path) \in Sources
BY DEF Text, Sources

\* Every handler leaves texts of the program in the buffer and on the display.
LEMMA ScreenTypeStep == ScreenTypeOK /\ TypeOK /\ TypeOK' /\ [ScreenNext]_screenVars => ScreenTypeOK'
<1> SUFFICES ASSUME ScreenTypeOK, TypeOK, TypeOK', [ScreenNext]_screenVars PROVE ScreenTypeOK'
  OBVIOUS
<1>1. /\ Other \in Sources
      /\ Text("address", hdPath') \in Sources /\ Text("path", hdPath') \in Sources
  BY TextType DEF TypeOK, Other
<1>2. FillBuffer \/ Overwrite \/ UNCHANGED buffer \/ buffer' = Other => buffer' \in Sources
  BY <1>1 DEF FillBuffer, Overwrite, ScreenTypeOK
<1>3. KeepFlow => step' \in 0..2 /\ addr' \in Sources /\ read' \subseteq Sources
  BY <1>1 DEF KeepFlow, flow, ScreenTypeOK
<1>4. ASSUME NEW n \in 0..2, NEW before \in SUBSET Sources, buffer' \in Sources, StepTo(n, before)
      PROVE  step' \in 0..2 /\ addr' \in Sources /\ read' \subseteq Sources
  BY <1>1, <1>4 DEF StepTo, ScreenTypeOK
<1>5. ASSUME NEW path, ShowAddress(path) PROVE ScreenTypeOK'
  BY <1>2, <1>4, <1>5 DEF ShowAddress, ScreenTypeOK
<1>6. ASSUME NEW n \in 0..2, Right(n) \/ Left(n) PROVE ScreenTypeOK'
  <2>1. buffer' = buffer /\ \E k \in 0..2 : StepTo(k, read)
    BY <1>6 DEF Right, Left
  <2> QED BY <1>2, <1>4, <2>1 DEF ScreenTypeOK
<1>7. CASE \/ OtherCommand \/ OtherCallback \/ Outside \/ AcceptAddress
           \/ \E path \in Path \cup {NoPath} : AddressWithoutScreen(path)
  <2>1. KeepFlow /\ buffer' \in Sources
    BY <1>2, <1>7 DEF OtherCommand, OtherCallback, Outside, AcceptAddress, AddressWithoutScreen
  <2> QED BY <1>3, <2>1 DEF ScreenTypeOK
<1>8. CASE UNCHANGED screenVars
  BY <1>8 DEF screenVars, flow, ScreenTypeOK
<1> QED BY <1>5, <1>6, <1>7, <1>8 DEF ScreenNext

\* The text on the display, those in the buffer and those that were read are
\* texts of the program, and the step is one of the flow, for every set of paths.
THEOREM ScreenTypeCorrect == ScreenSpec => []ScreenTypeOK
<1>1. ScreenInit => ScreenTypeOK
  BY TextType DEF ScreenInit, ScreenTypeOK, Other
<1>2. IInv => TypeOK
  BY DEF IInv
<1>3. IInv' => TypeOK'
  BY DEF IInv
<1> QED BY <1>1, <1>2, <1>3, ScreenStart, ScreenStepIsAppStep, Start, Step, ScreenTypeStep, PTL
        DEF ScreenSpec
===============================================================================
