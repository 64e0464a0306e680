----------------------------- MODULE AddressScreen -----------------------------
(* IovApp with its address screen in detail: the three steps of ux_addr_flow *)
(* (view_s.c, view_x.c), of which the first two take their texts, when they  *)
(* are entered, from the APDU buffer and from hdPath (h_addr_update_item).   *)
(* Every command and every answer writes to that buffer, whatever is on the  *)
(* display.                                                                  *)
(*                                                                           *)
(* The memory of the flow is that of every other screen, which sets it when  *)
(* it is put up: here it is forgotten when the address leaves the display.   *)
(* An exception in app_reply_address is left to IovApp.                      *)
EXTENDS IovApp

VARIABLES
  step,   \* CUR_FLOW.index
  buffer, \* what the text at G_io_apdu_buffer + PK_LEN is
  addr,   \* viewdata.addr
  read    \* history: the texts displayed since the flow was put up

flow == <<step, addr, read>>
screenVars == <<vars, buffer, flow>>

\* What a text says: the address of a path, or the path itself
Text(what, path) == [what |-> what, path |-> path]

Other == Text("other", NoPath)

Sources == [what : {"address", "path", "other"}, path : Path \cup {NoPath}]

-------------------------------------------------------------------------------

\* A flow that is put up before the address is there (a mutant of FillBuffer)
FillBufferLater == buffer' \in {buffer, Other}

\* app_fill_address
FillBuffer == buffer' = IF hrp' = "set" THEN Text("address", hdPath') ELSE Other

\* Any other command or answer, which may be too short to reach that text
Overwrite == buffer' \in {buffer, Other}

\* A step of the flow, with h_addr_update_item for the first two
StepTo(n, before) ==
  /\ step' = n
  /\ addr' = IF n = 0 THEN buffer' ELSE IF n = 1 THEN Text("path", hdPath') ELSE addr
  /\ read' = before \cup {addr'}

\* The flow stays, however much goes on under it, until another screen is up.
KeepFlow ==
  IF screen' = "address" THEN UNCHANGED flow
  ELSE step' = 0 /\ addr' = Other /\ read' = {}

OnFlow(n) == pc = "waiting" /\ screen = "address" /\ step = n

\* A flow without its end (a mutant of Right)
RightBehindTheEnd(n) == OnFlow(n) /\ UNCHANGED <<vars, buffer>> /\ StepTo(n + 1, read)

Right(n) == OnFlow(n) /\ n < 2 /\ UNCHANGED <<vars, buffer>> /\ StepTo(n + 1, read)

Left(n) == OnFlow(n) /\ n > 0 /\ UNCHANGED <<vars, buffer>> /\ StepTo(n - 1, read)

\* A flow that can be confirmed at each of its steps (a mutant of AcceptAddress)
AcceptAddressAnywhere == h_address_accept /\ FillBuffer /\ KeepFlow

\* The last step confirms.
AcceptAddress == OnFlow(2) /\ h_address_accept /\ FillBuffer /\ KeepFlow

\* view_address_show, after app_fill_address
ShowAddress(path) == ConfirmAddress(path) /\ FillBuffer /\ StepTo(0, {})

\* The commands that make no address
OtherCommand ==
  /\ \/ GetDeviceInfo \/ GetVersion \/ SignCommand
     \/ \E sw \in HeaderErrors : Refuse(sw)
     \/ \E path \in Path \cup {NoPath} :
          GetAddressRefused(path) \/ \E cmd \in {"address", "confirm"} : GetAddressFault(cmd, path)
  /\ Overwrite /\ KeepFlow

\* An address that is asked without confirmation is written to the buffer too.
AddressWithoutScreen(path) == GetAddress(path) /\ FillBuffer /\ KeepFlow

\* The callbacks of the other screens
OtherCallback ==
  /\ \/ (ReviewDone \/ ReviewAgain \/ ReviewFails) /\ UNCHANGED buffer
     \/ h_error_accept /\ FillBuffer
     \/ (Decision \/ SignFault) /\ Overwrite
  /\ KeepFlow

\* The SDK, the host and the plug
Outside ==
  /\ \/ (Exchange \/ GiveUp) /\ UNCHANGED buffer
     \/ PowerCycle /\ buffer' = Other
  /\ KeepFlow

ScreenInit == Init /\ buffer = Other /\ step = 0 /\ addr = Other /\ read = {}

ScreenNext ==
  \/ \E path \in Path \cup {NoPath} : ShowAddress(path) \/ AddressWithoutScreen(path)
  \/ OtherCommand \/ OtherCallback \/ Outside
  \/ \E n \in 0..2 : Right(n) \/ Left(n)
  \/ AcceptAddress

ScreenSpec == ScreenInit /\ [][ScreenNext]_screenVars

\* The loop runs, and the user does not leave a screen for ever: they close an
\* error, leave a review, and having come to the choice again and again sign or
\* reject; and having come to a step of the address again and again they go on
\* to the next one, and confirm the last.
ScreenFairness ==
  /\ WF_vars(Exchange)
  /\ WF_vars(h_error_accept)
  /\ WF_vars(ReviewDone \/ ReviewFails)
  /\ SF_vars(Decision)
  /\ \A n \in {0, 1} : SF_flow(Right(n))
  /\ SF_vars(AcceptAddress)

FairScreenSpec == ScreenSpec /\ ScreenFairness

-------------------------------------------------------------------------------
(* Properties *)

\* The buffer and the flow hold values of the program.
ScreenTypeOK ==
  /\ step \in 0..2
  /\ buffer \in Sources /\ addr \in Sources /\ read \subseteq Sources

\* While the host waits for a confirmation, the step that is displayed shows the
\* address of the path it sent, or that path, although both texts come from
\* globals that other commands write to, under the same screen: never the text
\* of another command (view.c:123-137, actions.c:37-41, app_main.c:186-202).
AddressIsTheHosts ==
  Attended /\ screen = "address" =>
    /\ step = 0 => addr = Text("address", host.path)
    /\ step = 1 => addr = Text("path", host.path)

\* A host that asked for a confirmation gets an address only after the user had
\* the same address and its path on the display, however they went back and
\* forth and whatever was on the display before (view_s.c:51-64, view.c:35-40).
ConfirmedWasRead ==
  [][host.cmd = "confirm" /\ host' = NoCommand /\ answer'.kind = "address" =>
       {Text("address", answer'.path), Text("path", answer'.path)} \subseteq read]_screenVars
===============================================================================
