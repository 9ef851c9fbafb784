---------------------------- MODULE FtpSession -----------------------------
(***************************************************************************)
(* One CProtocolFTP client, its control channel, the data channel and the  *)
(* local file of each transfer, and the part of the dispatcher that        *)
(* delivers their completions and drops the devices that are done.         *)
(*                                                                         *)
(* One action is one completion handled by the dispatcher's thread, or one *)
(* call of the application.  The finer interleavings of a call with a      *)
(* handler are in CommandQueue.  What arrives first on two sockets, how    *)
(* the server answers and what a callback returns are nondeterministic.    *)
(***************************************************************************)
EXTENDS FtpCommands, FiniteSets

CONSTANTS
  Script,     \* the application's calls, in order: [api, local, cbk, prot], cbk being
              \* what its transfer callback may return, {} if there is none
  CcTls,      \* TLS mode of the control channel
  Replies,    \* first digits the server may answer each kind of command with
  ServerMay,  \* what an orderly server and network would not do, see below
  LiteralsPooled, \* the build gives equal string literals one address
  MaxChunks   \* bound: buffers per transfer

(***************************************************************************)
(* ServerMay: "earlyData" - data-channel completions can be handled before *)
(* the preliminary reply; "earlyReply" - that reply can be handled before  *)
(* the data channel's connect; "abort" - an upload can be cut short;       *)
(* "abrupt" - a TLS peer can close without close_notify; "drop" - the      *)
(* control channel can be lost; "readFails" - a ReadFile on the local file *)
(* can fail at once, as one at the end of the file may.                    *)
(***************************************************************************)
Oddities == {"earlyData", "earlyReply", "abort", "abrupt", "drop", "readFails"}
Codes == {"1", "2", "3", "4", "5"}
Kinds == {"GREETING", "AUTH", "USER", "PASS", "ACCT", "GEN", "PASV", "DATA", "1yz"}
Calls == 1..Len(Script)

ASSUME ScriptAssumption ==
  /\ Script \in Seq([api : Apis \cup {"Stop"}, local : BOOLEAN, cbk : SUBSET BOOLEAN,
                     prot : {"Clear", "Protected"}])
  /\ \A n \in Calls : /\ Script[n].api = "Upload" => Script[n].local
                      /\ Script[n].api = "Download" => (Script[n].local \/ Script[n].cbk # {})
                      /\ Script[n].api = "ListDirectory" => (~Script[n].local /\ Script[n].cbk # {})
ASSUME ServerAssumption ==
  /\ CcTls \in {"No", "Yes", "Implicit"} /\ ServerMay \subseteq Oddities
  /\ Replies \in [Kinds -> SUBSET Codes]
ASSUME BuildAssumption == LiteralsPooled \in BOOLEAN
ASSUME BoundAssumption == MaxChunks \in Nat

\* The devices: the control channel, and per transfer n a data channel and a file.
CC == <<"cc", 0>>
DC(n) == <<"dc", n>>
FL(n) == <<"fl", n>>
Devices == {CC} \cup {DC(n) : n \in Calls} \cup {FL(n) : n \in Calls}

VARIABLES
  iCmdQ, iCmdInProgress, iProtocolState, iDCProt, iContinueTransfer,
  foundEmpty,          \* the worker saw or left iCmdQ empty, and has yet to clear the flag
  iDataChannel,        \* transfer whose data channel the protocol holds, 0 for nullptr
  iFileDevice,         \* transfer whose file the protocol holds, 0 for nullptr
  iCurrentFileOffset,  \* in buffers
  iObservers,          \* the dispatcher's list, this session's devices only
  removeMark,          \* devices with iMarkRemoveSelfAsListener
  dev,                 \* per device: connection, TLS, iStopped, sd_send done, file read posted
  called,              \* API calls made so far
  wire, prelim, quit,  \* the server: commands to answer, 1yz sent, QUIT answered
  seen,                \* history per transfer, for the properties
  fault                \* why the process died, or "none"

protocol == <<iCmdQ, iCmdInProgress, foundEmpty, iProtocolState, wire>>
transfer == <<iDCProt, iContinueTransfer, iDataChannel, iFileDevice, iCurrentFileOffset>>
server   == <<prelim, quit>>
vars == <<protocol, transfer, iObservers, removeMark, dev, called, server, seen, fault>>

Init ==
  /\ iCmdQ = <<>> /\ iCmdInProgress = TRUE /\ foundEmpty = FALSE
  /\ iProtocolState = "CONNECTING" /\ wire = <<>>
  /\ iDCProt = "Clear" /\ iContinueTransfer = FALSE
  /\ iDataChannel = 0 /\ iFileDevice = 0 /\ iCurrentFileOffset = 0
  /\ iObservers = <<CC>> /\ removeMark = {}
  /\ dev = [d \in Devices |-> [conn |-> "none", ssl |-> "no", stopped |-> FALSE, shut |-> FALSE, rd |-> FALSE]]
  /\ called = 0 /\ prelim = FALSE /\ quit = FALSE /\ fault = "none"
  /\ seen = [n \in Calls |-> [told |-> 0, null |-> 0, rx |-> 0, stored |-> 0, read |-> 0, tx |-> 0]]

----------------------------------------------------------------------------
(* The dispatcher *)

Listed(d) == \E i \in DOMAIN iObservers : iObservers[i] = d

\* Mutant of Sweep: the pass drops the last marked observer instead.
SweepLast(obs, marked) ==
  LET at == {i \in DOMAIN obs : obs[i] \in marked}
      last == CHOOSE i \in at : \A j \in at : i >= j
  IN IF at = {} THEN obs ELSE SubSeq(obs, 1, last - 1) \o SubSeq(obs, last + 1, Len(obs))

\* ProcessMarkRemoveAllListeners: erase() of everything after std::remove
\* returns end(), so one pass drops the first marked observer only.
Sweep(obs, marked) ==
  LET at == {i \in DOMAIN obs : obs[i] \in marked}
      first == CHOOSE i \in at : \A j \in at : i <= j
  IN IF at = {} THEN obs ELSE SubSeq(obs, 1, first - 1) \o SubSeq(obs, first + 1, Len(obs))

\* The end of ProcessContext.
DispatcherPass(obs) == iObservers' = Sweep(obs, removeMark')

\* A handler the process does not survive; what it did until then is not kept.
Dies(why) ==
  /\ fault' = why
  /\ UNCHANGED <<protocol, transfer, iObservers, removeMark, dev, seen>>

\* close_notify if the handshake is over, then sd_send, which fails on a socket
\* that is not connected yet; iStopped keeps it from being done again.
StopSocket(devs, d) ==
  IF devs[d].stopped THEN devs
  ELSE [devs EXCEPT ![d].stopped = TRUE, ![d].shut = (devs[d].conn = "open"),
                    ![d].ssl = IF @ = "up" THEN "closing" ELSE @]

----------------------------------------------------------------------------
(* Sending commands *)

Sent(w, c) ==
  IF dev[CC].conn = "open" /\ ~dev[CC].shut /\ Listed(CC) THEN Append(w, c) ELSE w

Login(cmd) == [cmd |-> cmd, call |-> 0]

\* With the flag free: take it and send the front.  If there is none the flag is
\* given back in a step of its own, GiveUp: a call made meanwhile finds it taken.
ProcessNextCmd(q, state, w) ==
  /\ iCmdQ' = q
  /\ iCmdInProgress' = TRUE /\ foundEmpty' = (q = <<>>)
  /\ iProtocolState' = IF q = <<>> THEN state ELSE ClassOf(Head(q).cmd)
  /\ wire' = IF q = <<>> THEN w ELSE Sent(w, Head(q))

SkipCommand(n, state, w) == ProcessNextCmd(SubSeq(iCmdQ, n + 1, Len(iCmdQ)), state, w)

\* ConnectEx was posted: the socket is neither unconnected nor connected.
StartSocketClient(d) == [dev EXCEPT ![d].conn = "connecting"]

StartClient ==
  /\ fault = "none" /\ dev[CC].conn = "none"
  /\ dev' = StartSocketClient(CC)
  /\ UNCHANGED <<protocol, transfer, iObservers, removeMark, called, server, seen, fault>>

Enqueue(n) ==
  LET names == CommandsOf(Script[n].api, CcTls # "No" /\ Listed(CC))
      q == iCmdQ \o [i \in 1..Len(names) |-> [cmd |-> names[i], call |-> n]]
  IN IF iCmdInProgress
     THEN iCmdQ' = q /\ UNCHANGED <<iCmdInProgress, foundEmpty, iProtocolState, wire>>
     ELSE ProcessNextCmd(q, iProtocolState, wire)

\* Stop forgets the data channel without marking it for removal.
Stop ==
  /\ iDataChannel' = 0
  /\ dev' = StopSocket(IF iDataChannel = 0 THEN dev ELSE StopSocket(dev, DC(iDataChannel)), CC)
  /\ UNCHANGED <<protocol, iDCProt, iContinueTransfer, iFileDevice, iCurrentFileOffset>>

ApiCall ==
  /\ fault = "none" /\ dev[CC].conn # "none" /\ called < Len(Script)
  /\ called' = called + 1
  /\ IF Script[called + 1].api = "Stop" THEN Stop
     ELSE Enqueue(called + 1) /\ UNCHANGED <<transfer, dev>>
  /\ UNCHANGED <<iObservers, removeMark, server, seen, fault>>

----------------------------------------------------------------------------
(* The protocol state machine *)

Row(from, codes, to, fn) == {[from |-> from, code |-> c, to |-> to, fn |-> fn] : c \in codes}

FSM == UNION {
  Row("CONNECTED", {"1", "4"},      "CONNECTED", "none"),
  Row("CONNECTED", {"2"},           "CHECK",     "CheckExplicitFTPS"),
  Row("AUTH",      {"2"},           "TLS",       "DoCCHandshake"),
  Row("AUTH",      {"3"},           "ADAT",      "none"),
  Row("AUTH",      {"4", "5"},      "USER",      "SendUSER"),
  Row("USER",      {"1", "4", "5"}, "USER",      "none"),
  Row("USER",      {"2"},           "READY",     "none"),
  Row("USER",      {"3"},           "PASS",      "SendPASS"),
  Row("PASS",      {"1", "4", "5"}, "USER",      "LoginFailed"),
  Row("PASS",      {"2"},           "READY",     "LoginDone"),
  Row("PASS",      {"3"},           "ACCT",      "SendACCT"),
  Row("PASV",      {"1"},           "DATA",      "SkipTransfer"),
  Row("PASV",      {"2"},           "DATA",      "ProcessPasvResponse"),
  Row("PASV",      {"4", "5"},      "READY",     "SkipTransfer"),
  Row("DATA",      {"1"},           "1yz",       "BeginTransfer"),
  Row("1yz",       {"2"},           "xyz",       "CompleteTransfer"),
  Row("1yz",       {"4"},           "xyz",       "FailTransfer"),
  Row("DATA",      {"4", "5"},      "xyz",       "FailTransfer"),
  Row("GEN",       Codes,           "READY",     "ProcessGenCmdEvent")}

\* A transition that only changes the state and perhaps sends a login command.
Plain(state, w) ==
  /\ iProtocolState' = state /\ wire' = w
  /\ UNCHANGED <<iCmdQ, iCmdInProgress, foundEmpty, transfer, removeMark, dev, seen, fault>>
  /\ DispatcherPass(iObservers)

CheckExplicitFTPS(w) ==
  IF CcTls = "Yes" THEN Plain("AUTH", Sent(w, Login("AUTH"))) ELSE Plain("USER", Sent(w, Login("USER")))

DoCCHandshake(w) ==
  /\ iProtocolState' = "TLS" /\ wire' = w
  /\ dev' = [dev EXCEPT ![CC].ssl = "shaking"]
  /\ UNCHANGED <<iCmdQ, iCmdInProgress, foundEmpty, transfer, removeMark, seen, fault>>
  /\ DispatcherPass(iObservers)

ProcessLoginEvent(status, state, w) ==
  /\ IF status THEN ProcessNextCmd(iCmdQ, state, w) ELSE ProcessNextCmd(<<>>, state, w)
  /\ UNCHANGED <<transfer, removeMark, dev, seen, fault>>
  /\ DispatcherPass(iObservers)

\* Mutant of ProcessGenCmdEvent: the level is never lowered to Clear again.
ProtectionSticks(code, w) ==
  LET front == Head(iCmdQ)
  IN /\ iDCProt' = IF front.cmd = "PROT" /\ code = "2" /\ iDCProt = "Clear"
                   THEN Script[front.call].prot ELSE iDCProt
     /\ SkipCommand(1, "READY", w)
     /\ UNCHANGED <<iContinueTransfer, iDataChannel, iFileDevice, iCurrentFileOffset, removeMark, dev, seen, fault>>
     /\ DispatcherPass(iObservers)

\* Mutant of ProcessGenCmdEvent: the reply's digit is recorded as the level.
RecordsTheReply(code, w) ==
  /\ iDCProt' = IF Head(iCmdQ).cmd = "PROT" THEN code ELSE iDCProt
  /\ SkipCommand(1, "READY", w)
  /\ UNCHANGED <<iContinueTransfer, iDataChannel, iFileDevice, iCurrentFileOffset, removeMark, dev, seen, fault>>
  /\ DispatcherPass(iObservers)

\* The response callback of PROT records the level the server accepted.  It
\* compares the addresses of two literals "C": unless the build pooled them they
\* differ, and an accepted PROT C is recorded as Protected.
ProcessGenCmdEvent(code, w) ==
  LET front == Head(iCmdQ)
      level == IF Script[front.call].prot = "Clear" /\ LiteralsPooled THEN "Clear" ELSE "Protected"
  IN /\ iDCProt' = IF front.cmd = "PROT" /\ code = "2" THEN level ELSE iDCProt
     /\ SkipCommand(1, "READY", w)
     /\ UNCHANGED <<iContinueTransfer, iDataChannel, iFileDevice, iCurrentFileOffset, removeMark, dev, seen, fault>>
     /\ DispatcherPass(iObservers)

SkipTransfer(state, w) ==
  /\ SkipCommand(2, state, w)
  /\ UNCHANGED <<transfer, removeMark, dev, seen, fault>>
  /\ DispatcherPass(iObservers)

OpenDataChannel(n) ==
  /\ iDataChannel' = n
  /\ dev' = StartSocketClient(DC(n))
  /\ DispatcherPass(Append(iObservers, DC(n)))

\* The transfer command goes out before its data channel is opened.
ProcessPasvResponse(w) ==
  /\ SkipCommand(1, "DATA", w)
  /\ UNCHANGED <<iDCProt, iContinueTransfer, iFileDevice, iCurrentFileOffset, removeMark, seen, fault>>
  /\ OpenDataChannel(Head(iCmdQ).call)

----------------------------------------------------------------------------
(* The transfer: replies to its command *)

\* An upload starts by reading the file the protocol holds.  A ReadFile that fails
\* at once is, here, a read that never completes: no lock of the file is held.
TriggerDataTransfer(devs, file) ==
  IF Head(iCmdQ).cmd = "STOR" THEN [devs EXCEPT ![FL(file)].rd = TRUE] ELSE devs

\* A TLS data channel that is not connected yet loses its ClientHello.
Handshaking(devs, n) ==
  [devs EXCEPT ![DC(n)].ssl = IF @ = "no" /\ devs[DC(n)].conn = "open" THEN "shaking" ELSE "lost"]

\* Mutant of BeginTransfer: the file is read without awaiting the handshake.
BeginAtOnce(w) ==
  LET c == Head(iCmdQ)
      local == Script[c.call].local
      opened == IF local THEN [dev EXCEPT ![FL(c.call)].conn = "open"] ELSE dev
  IN IF local /\ iFileDevice # 0 THEN Dies("assert: !iFileDevice")
     ELSE IF iDCProt = "Protected" /\ iDataChannel = 0 THEN Dies("null iDataChannel")
     ELSE /\ iProtocolState' = "1yz" /\ wire' = w
          /\ iFileDevice' = IF local THEN c.call ELSE iFileDevice
          /\ iCurrentFileOffset' = IF local THEN 0 ELSE iCurrentFileOffset
          /\ iContinueTransfer' = TRUE
          /\ dev' = TriggerDataTransfer(
               IF iDCProt = "Protected" THEN Handshaking(opened, iDataChannel) ELSE opened, c.call)
          /\ UNCHANGED <<iCmdQ, iCmdInProgress, foundEmpty, iDCProt, iDataChannel, removeMark, seen, fault>>
          /\ DispatcherPass(IF local THEN Append(iObservers, FL(c.call)) ELSE iObservers)

BeginTransfer(w) ==
  LET c == Head(iCmdQ)
      local == Script[c.call].local
      opened == IF local THEN [dev EXCEPT ![FL(c.call)].conn = "open"] ELSE dev
  IN IF local /\ iFileDevice # 0 THEN Dies("assert: !iFileDevice")
     ELSE IF iDCProt = "Protected" /\ iDataChannel = 0 THEN Dies("null iDataChannel")
     ELSE /\ iProtocolState' = "1yz" /\ wire' = w
          /\ iFileDevice' = IF local THEN c.call ELSE iFileDevice
          /\ iCurrentFileOffset' = IF local THEN 0 ELSE iCurrentFileOffset
          /\ iContinueTransfer' = TRUE
          /\ dev' = IF iDCProt = "Protected" THEN Handshaking(opened, iDataChannel)
                    ELSE TriggerDataTransfer(opened, c.call)
          /\ UNCHANGED <<iCmdQ, iCmdInProgress, foundEmpty, iDCProt, iDataChannel, removeMark, seen, fault>>
          /\ DispatcherPass(IF local THEN Append(iObservers, FL(c.call)) ELSE iObservers)

\* Mutants of CompleteTransfer: the command is retired whether or not its data
\* channel is gone; or never here, even if the channel went first.
CompleteAtOnce(w) ==
  /\ SkipCommand(1, "xyz", w)
  /\ UNCHANGED <<transfer, removeMark, dev, seen, fault>>
  /\ DispatcherPass(iObservers)

CompleteNever(w) == Plain("xyz", w)

\* 2yz: done if the data channel is gone already, else its EOF will finish it.
CompleteTransfer(w) ==
  IF iDataChannel = 0 THEN
    /\ SkipCommand(1, "xyz", w)
    /\ UNCHANGED <<transfer, removeMark, dev, seen, fault>>
    /\ DispatcherPass(iObservers)
  ELSE Plain("xyz", w)

\* ResetSubject on whatever the protocol still holds.
HeldDevices ==
  (IF iDataChannel = 0 THEN {} ELSE {DC(iDataChannel)}) \cup
  (IF iFileDevice = 0 THEN {} ELSE {FL(iFileDevice)})

\* Mutant of ResetBoth: the file device is kept.
ResetChannelOnly ==
  /\ iDataChannel' = 0
  /\ UNCHANGED <<iDCProt, iContinueTransfer, iFileDevice, iCurrentFileOffset>>

ResetBoth ==
  /\ iDataChannel' = 0 /\ iFileDevice' = 0
  /\ UNCHANGED <<iDCProt, iContinueTransfer, iCurrentFileOffset>>

FailTransfer(w) ==
  /\ ResetBoth
  /\ removeMark' = removeMark \cup HeldDevices
  /\ SkipCommand(1, "xyz", w)
  /\ UNCHANGED <<dev, seen, fault>>
  /\ DispatcherPass(iObservers)

StateMachine(t, w) ==
  \/ t.fn = "none" /\ Plain(t.to, w)
  \/ t.fn = "CheckExplicitFTPS" /\ CheckExplicitFTPS(w)
  \/ t.fn = "DoCCHandshake" /\ DoCCHandshake(w)
  \/ t.fn = "SendUSER" /\ Plain(t.to, Sent(w, Login("USER")))
  \/ t.fn = "SendPASS" /\ Plain(t.to, Sent(w, Login("PASS")))
  \/ t.fn = "SendACCT" /\ Plain(t.to, Sent(w, Login("ACCT")))
  \/ t.fn = "LoginFailed" /\ ProcessLoginEvent(FALSE, t.to, w)
  \/ t.fn = "LoginDone" /\ ProcessLoginEvent(TRUE, t.to, w)
  \/ t.fn = "ProcessGenCmdEvent" /\ ProcessGenCmdEvent(t.code, w)
  \/ t.fn = "SkipTransfer" /\ SkipTransfer(t.to, w)
  \/ t.fn = "ProcessPasvResponse" /\ ProcessPasvResponse(w)
  \/ t.fn = "BeginTransfer" /\ BeginTransfer(w)
  \/ t.fn = "CompleteTransfer" /\ CompleteTransfer(w)
  \/ t.fn = "FailTransfer" /\ FailTransfer(w)

----------------------------------------------------------------------------
(* The control channel *)

Alive == fault = "none"
Reading(d) == Alive /\ Listed(d) /\ dev[d].conn = "open"
Clear(d)   == dev[d].ssl \in {"no", "up", "closing"}

ControlConnect ==
  /\ Alive /\ dev[CC].conn = "connecting"
  /\ dev' = [dev EXCEPT ![CC].conn = "open", ![CC].ssl = IF CcTls = "Implicit" THEN "shaking" ELSE @]
  /\ iProtocolState' = "CONNECTED" /\ wire' = <<Login("GREETING")>>
  /\ UNCHANGED <<iCmdQ, iCmdInProgress, foundEmpty, transfer, removeMark, called, server, seen, fault>>
  /\ DispatcherPass(iObservers)

ControlHandshake ==
  /\ Reading(CC) /\ dev[CC].ssl = "shaking"
  /\ dev' = [dev EXCEPT ![CC].ssl = "up"]
  /\ IF CcTls = "Yes" THEN iProtocolState' = "USER" /\ wire' = Sent(wire, Login("USER"))
     ELSE UNCHANGED <<iProtocolState, wire>>
  /\ UNCHANGED <<iCmdQ, iCmdInProgress, foundEmpty, transfer, removeMark, called, server, seen, fault>>
  /\ DispatcherPass(iObservers)

\* What the server has been asked, as far as its answer is concerned.
Kind(c) == IF c.call = 0 THEN c.cmd ELSE IF prelim THEN "1yz" ELSE ClassOf(c.cmd)

\* The replies to a transfer command, and how they relate to its data channel.
ServerReady(c, code) ==
  IsTransferCommand(c.cmd) =>
    /\ code = "1" => ("earlyReply" \in ServerMay \/ dev[DC(c.call)].conn # "connecting")
    /\ (prelim /\ c.cmd = "STOR") => ("abort" \in ServerMay \/ dev[DC(c.call)].shut)

\* One complete reply.  No row of FSM, no action.
OnControlRead(code) ==
  /\ Reading(CC) /\ Clear(CC) /\ wire # <<>> /\ ~quit
  /\ LET c == Head(wire)
         rest == IF code = "1" THEN wire ELSE Tail(wire)
         rows == {t \in FSM : t.from = iProtocolState /\ t.code = code}
     IN /\ code \in Replies[Kind(c)] /\ ServerReady(c, code)
        /\ prelim' = (code = "1")
        /\ quit' = (c.cmd = "QUIT" /\ code # "1")
        /\ IF rows = {} THEN Plain(iProtocolState, rest)
           ELSE \E t \in rows : StateMachine(t, rest)
  /\ UNCHANGED called

\* The server has begun the transfer, as far as this client knows.
Begun(n) == IF wire = <<>> THEN TRUE ELSE Head(wire).call = n => prelim

\* When the server may close a connection: after QUIT or our own shutdown; a
\* download once it was begun, an upload when the client has sent it all.
PeerCloses(d) ==
  IF d = CC THEN quit \/ dev[CC].shut \/ "drop" \in ServerMay
  ELSE /\ Begun(d[2]) \/ "earlyData" \in ServerMay
       /\ Script[d[2]].api = "Upload" => (dev[d].shut \/ "abort" \in ServerMay)

\* The peer's close_notify: CheckPeerSSLShutdown answers it with StopSocket.
CloseNotify(d) ==
  /\ Reading(d) /\ dev[d].ssl = "up" /\ PeerCloses(d)
  /\ dev' = StopSocket(dev, d)
  /\ UNCHANGED <<protocol, transfer, removeMark, called, server, seen, fault>>
  /\ DispatcherPass(iObservers)

\* CDeviceSocket::OnDisconnect asserts that close_notify has been sent.
SentShutdown(d) == dev[d].ssl \in {"no", "closing"}

ControlEof ==
  /\ Reading(CC) /\ PeerCloses(CC)
  /\ SentShutdown(CC) \/ "abrupt" \in ServerMay
  /\ IF SentShutdown(CC) THEN
       /\ iProtocolState' = "DISCONNECTED" /\ wire' = <<>>
       /\ removeMark' = removeMark \cup {CC}
       /\ dev' = [dev EXCEPT ![CC].conn = "closed"]
       /\ UNCHANGED <<iCmdQ, iCmdInProgress, foundEmpty, transfer, seen, fault>>
       /\ DispatcherPass(iObservers)
     ELSE Dies("assert: SSL_SENT_SHUTDOWN")
  /\ UNCHANGED <<called, server>>

----------------------------------------------------------------------------
(* The data channel of transfer n *)

HasCbk(c) == c.call # 0 /\ Script[c.call].cbk # {}

\* iContinueTransfer is what the callback returns, if there is one.
AskCallback(c) == iContinueTransfer' \in IF HasCbk(c) THEN Script[c.call].cbk ELSE {iContinueTransfer}

\* OnDataChannelConnect and OnDataChannelWrite do nothing, but bind the front.
DcConnect(n) ==
  /\ Alive /\ Listed(DC(n)) /\ dev[DC(n)].conn = "connecting"
  /\ IF iCmdQ = <<>> THEN Dies("front of empty iCmdQ")
     ELSE /\ dev' = [dev EXCEPT ![DC(n)].conn = "open"]
          /\ UNCHANGED <<protocol, transfer, removeMark, seen, fault>>
          /\ DispatcherPass(iObservers)
  /\ UNCHANGED <<called, server>>

\* Until its handshake is done a TLS channel keeps write completions to itself.
DcWrite(n) ==
  /\ Reading(DC(n)) /\ Clear(DC(n))
  /\ dev[DC(n)].ssl # "no" \/ seen[n].tx > 0
  /\ IF iCmdQ = <<>> THEN Dies("front of empty iCmdQ")
     ELSE /\ UNCHANGED <<protocol, transfer, removeMark, dev, seen, fault>>
          /\ DispatcherPass(iObservers)
  /\ UNCHANGED <<called, server>>

DcHandshake(n) ==
  /\ Reading(DC(n)) /\ dev[DC(n)].ssl = "shaking"
  /\ IF iCmdQ = <<>> THEN Dies("front of empty iCmdQ")
     ELSE IF Head(iCmdQ).cmd = "STOR" /\ iFileDevice = 0 THEN Dies("null iFileDevice")
     ELSE /\ dev' = TriggerDataTransfer([dev EXCEPT ![DC(n)].ssl = "up"], iFileDevice)
          /\ UNCHANGED <<protocol, transfer, removeMark, seen, fault>>
          /\ DispatcherPass(iObservers)
  /\ UNCHANGED <<called, server>>

\* Mutant of Store: what arrives after the final reply is not written.
StoreUntilReply(hist) ==
  IF iFileDevice = 0 \/ iProtocolState = "xyz" THEN seen' = hist /\ UNCHANGED iCurrentFileOffset
  ELSE /\ seen' = [hist EXCEPT ![iFileDevice].stored = @ + 1]
       /\ iCurrentFileOffset' = iCurrentFileOffset + 1

\* The write to the local file that ends OnDataChannelRead.
Store(hist) ==
  IF iFileDevice = 0 THEN seen' = hist /\ UNCHANGED iCurrentFileOffset
  ELSE /\ seen' = [hist EXCEPT ![iFileDevice].stored = @ + 1]
       /\ iCurrentFileOffset' = iCurrentFileOffset + 1

\* StopSocket reads a property of the data channel, whose iLock OnRead holds.
DcRead(n) ==
  /\ Reading(DC(n)) /\ Clear(DC(n)) /\ seen[n].rx < MaxChunks
  /\ Script[n].api \in {"Download", "ListDirectory"}
  /\ Begun(n) \/ "earlyData" \in ServerMay
  /\ LET got == [seen EXCEPT ![n].rx = @ + 1]
     IN IF iCmdQ = <<>> THEN Dies("front of empty iCmdQ")
        ELSE IF ~HasCbk(Head(iCmdQ)) THEN
          /\ Store(got)
          /\ UNCHANGED <<protocol, iDCProt, iContinueTransfer, iDataChannel, iFileDevice, removeMark, dev, fault>>
          /\ DispatcherPass(iObservers)
        ELSE IF iContinueTransfer THEN
          /\ AskCallback(Head(iCmdQ))
          /\ Store([got EXCEPT ![Head(iCmdQ).call].told = @ + 1])
          /\ UNCHANGED <<protocol, iDCProt, iDataChannel, iFileDevice, removeMark, dev, fault>>
          /\ DispatcherPass(iObservers)
        ELSE IF iDataChannel = 0 THEN Dies("null iDataChannel")
        ELSE IF iDataChannel = n /\ ~dev[DC(n)].stopped THEN Dies("iLock taken twice")
        ELSE /\ seen' = got /\ dev' = StopSocket(dev, DC(iDataChannel))
             /\ UNCHANGED <<protocol, transfer, removeMark, fault>>
             /\ DispatcherPass(iObservers)
  /\ UNCHANGED <<called, server>>

\* Mutant of FinalReplySeen: the end of the data retires the command.
FinalReplyAssumed == iCmdInProgress

FinalReplySeen == iProtocolState = "xyz"

\* OnDataChannelDisconnect, then ProcessDataCmdResponse('0').
DcEof(n) ==
  /\ Reading(DC(n)) /\ PeerCloses(DC(n))
  /\ SentShutdown(DC(n)) \/ "abrupt" \in ServerMay
  /\ IF ~SentShutdown(DC(n)) THEN Dies("assert: SSL_SENT_SHUTDOWN")
     ELSE IF iCmdQ = <<>> THEN Dies("front of empty iCmdQ")
     ELSE
       /\ seen' = IF HasCbk(Head(iCmdQ)) THEN [seen EXCEPT ![Head(iCmdQ).call].null = @ + 1] ELSE seen
       /\ ResetBoth
       /\ removeMark' = removeMark \cup HeldDevices \cup {DC(n)}
       /\ dev' = [dev EXCEPT ![DC(n)].conn = "closed"]
       /\ IF FinalReplySeen THEN SkipCommand(1, "xyz", wire) ELSE UNCHANGED protocol
       /\ UNCHANGED fault
       /\ DispatcherPass(iObservers)
  /\ UNCHANGED <<called, server>>

----------------------------------------------------------------------------
(* The file of upload n *)

\* Write drops what it cannot send: not connected, handshaking, shut down.
CanSend(d) == dev[d].conn = "open" /\ ~dev[d].shut /\ dev[d].ssl \in {"no", "up"}

\* Mutant of FileRead: the callback's refusal is not looked at.
FileReadOn(n) ==
  /\ Reading(FL(n)) /\ dev[FL(n)].rd /\ seen[n].read < MaxChunks
  /\ iCmdQ # <<>> /\ iDataChannel # 0
  /\ LET c == Head(iCmdQ)
     IN /\ AskCallback(c)
        /\ seen' = [seen EXCEPT ![n].read = @ + 1, ![c.call].told = IF HasCbk(c) THEN @ + 1 ELSE @,
                                ![iDataChannel].tx = IF CanSend(DC(iDataChannel)) THEN @ + 1 ELSE @]
        /\ iCurrentFileOffset' = iCurrentFileOffset + 1
        /\ UNCHANGED <<protocol, iDCProt, iDataChannel, iFileDevice, removeMark, dev, fault>>
        /\ DispatcherPass(iObservers)
  /\ UNCHANGED <<called, server>>

\* The chunk goes out even if the callback has just refused more, and the next read
\* is posted.
SendChunk(n) ==
  LET c == Head(iCmdQ)
      got == [seen EXCEPT ![n].read = @ + 1]
  IN /\ AskCallback(c)
     /\ seen' = [got EXCEPT
          ![c.call].told = IF HasCbk(c) THEN @ + 1 ELSE @,
          ![iDataChannel].tx = IF CanSend(DC(iDataChannel)) THEN @ + 1 ELSE @]
     /\ iCurrentFileOffset' = iCurrentFileOffset + 1
     /\ dev' = [dev EXCEPT ![FL(n)].rd = FALSE, ![FL(iFileDevice)].rd = TRUE]
     /\ UNCHANGED <<protocol, iDCProt, iDataChannel, iFileDevice, removeMark, fault>>
     /\ DispatcherPass(iObservers)

\* OnFileRead.  The file's iLock is held: a next read that fails at once, to log
\* which the file's name is read, asks for it again.
FileRead(n) ==
  /\ Reading(FL(n)) /\ dev[FL(n)].rd /\ seen[n].read < MaxChunks
  /\ IF iCmdQ = <<>> THEN Dies("front of empty iCmdQ")
     ELSE IF iDataChannel = 0 THEN Dies("null iDataChannel")
     ELSE IF HasCbk(Head(iCmdQ)) /\ ~iContinueTransfer THEN
       /\ dev' = StopSocket([dev EXCEPT ![FL(n)].rd = FALSE], DC(iDataChannel))
       /\ seen' = [seen EXCEPT ![n].read = @ + 1]
       /\ UNCHANGED <<protocol, transfer, removeMark, fault>>
       /\ DispatcherPass(iObservers)
     ELSE IF iFileDevice = 0 THEN Dies("null iFileDevice")
     ELSE \/ SendChunk(n)
          \/ "readFails" \in ServerMay /\ iFileDevice = n /\ Dies("iLock taken twice")
  /\ UNCHANGED <<called, server>>

\* Mutant of FileEof: the callback is told here as well that there is no more data.
FileEofTells(n) ==
  /\ Reading(FL(n)) /\ dev[FL(n)].rd /\ iDataChannel # 0
  /\ dev' = StopSocket([dev EXCEPT ![FL(n)].conn = "closed", ![FL(n)].rd = FALSE], DC(iDataChannel))
  /\ removeMark' = removeMark \cup {FL(n)}
  /\ seen' = IF HasCbk(Head(iCmdQ)) THEN [seen EXCEPT ![n].null = @ + 1] ELSE seen
  /\ UNCHANGED <<protocol, transfer, fault, called, server>>
  /\ DispatcherPass(iObservers)

\* End of file: OnFileDisconnect closes the sending side of the data channel.
FileEof(n) ==
  /\ Reading(FL(n)) /\ dev[FL(n)].rd
  /\ IF iDataChannel = 0 THEN Dies("null iDataChannel")
     ELSE /\ dev' = StopSocket([dev EXCEPT ![FL(n)].conn = "closed", ![FL(n)].rd = FALSE], DC(iDataChannel))
          /\ removeMark' = removeMark \cup {FL(n)}
          /\ UNCHANGED <<protocol, transfer, seen, fault>>
          /\ DispatcherPass(iObservers)
  /\ UNCHANGED <<called, server>>

\* The flag is cleared, whether or not iCmdQ is still empty.
GiveUp ==
  /\ Alive /\ foundEmpty
  /\ iCmdInProgress' = FALSE /\ foundEmpty' = FALSE
  /\ UNCHANGED <<iCmdQ, iProtocolState, wire, transfer, iObservers, removeMark, dev, called, server, seen, fault>>

\* A completion no handler reacts to (a file write, a stale key) ends in a pass too.
OtherCompletion ==
  /\ Alive
  /\ UNCHANGED <<protocol, transfer, removeMark, dev, called, server, seen, fault>>
  /\ DispatcherPass(iObservers)

----------------------------------------------------------------------------
Completion ==
  /\ ~foundEmpty
  /\ \/ ControlConnect \/ ControlHandshake \/ ControlEof \/ OtherCompletion
     \/ \E code \in Codes : OnControlRead(code)
     \/ \E d \in Devices : CloseNotify(d)
     \/ \E n \in Calls : \/ DcConnect(n) \/ DcHandshake(n) \/ DcRead(n) \/ DcWrite(n) \/ DcEof(n)
                        \/ FileRead(n) \/ FileEof(n)

Next == StartClient \/ ApiCall \/ Completion \/ GiveUp

Spec == Init /\ [][Next]_vars

\* The application makes its calls, the dispatcher's thread runs, the server
\* answers and closes its connections.
Fairness == WF_vars(StartClient) /\ WF_vars(ApiCall) /\ WF_vars(Completion) /\ WF_vars(GiveUp)
FairSpec == Spec /\ Fairness

----------------------------------------------------------------------------
(* Properties *)

States == {"CONNECTING", "DISCONNECTED"} \cup {t.from : t \in FSM} \cup {t.to : t \in FSM}

\* What a handler may die of, NDEBUG unset.
Faults == {"assert: !iFileDevice", "assert: SSL_SENT_SHUTDOWN", "front of empty iCmdQ",
           "null iDataChannel", "null iFileDevice", "iLock taken twice"}

TypeOK ==
  /\ iCmdQ \in Seq([cmd : CommandNames, call : Calls]) /\ {iCmdInProgress, foundEmpty} \subseteq BOOLEAN
  /\ iProtocolState \in States
  /\ wire \in Seq([cmd : CommandNames, call : Calls] \cup [cmd : Kinds, call : {0}])
  /\ iDCProt \in {"Clear", "Protected"} /\ iContinueTransfer \in BOOLEAN
  /\ {iDataChannel, iFileDevice} \subseteq 0..Len(Script) /\ iCurrentFileOffset \in Nat
  /\ iObservers \in Seq(Devices) /\ removeMark \subseteq Devices
  /\ dev \in [Devices -> [conn : {"none", "connecting", "open", "closed"},
                          ssl : {"no", "shaking", "up", "lost", "closing"},
                          stopped : BOOLEAN, shut : BOOLEAN, rd : BOOLEAN]]
  /\ called \in 0..Len(Script) /\ {prelim, quit} \subseteq BOOLEAN
  /\ seen \in [Calls -> [told : Nat, null : Nat, rx : 0..MaxChunks, stored : Nat,
                         read : 0..MaxChunks, tx : Nat]]
  /\ fault \in {"none"} \cup Faults

\* The data channel and the file the protocol holds belong to the transfer at
\* the front of iCmdQ, whose callback OnDataChannelRead and OnFileRead call.
HoldsFrontsDevices ==
  Alive => \A n \in {iDataChannel, iFileDevice} \ {0} :
             /\ iCmdQ # <<>> /\ iCmdInProgress
             /\ IsTransferCommand(Head(iCmdQ).cmd) /\ Head(iCmdQ).call = n

\* Whatever is on the wire, a login command or the front of iCmdQ, the flag is
\* taken and iProtocolState is the state whose rows of FSM handle its reply,
\* however data-channel events, Stop and lost connections interleaved with it.
AwaitsItsReply ==
  (Alive /\ wire # <<>>) =>
    /\ iCmdInProgress /\ wire = <<Head(wire)>>
    /\ IF Head(wire).call = 0
       THEN iProtocolState = IF Head(wire).cmd = "GREETING" THEN "CONNECTED" ELSE Head(wire).cmd
       ELSE /\ iCmdQ # <<>> /\ Head(wire) = Head(iCmdQ)
            /\ iProtocolState = IF prelim THEN "1yz" ELSE ClassOf(Head(wire).cmd)

\* After the null buffer ("no more data") the callback of a transfer is not
\* called again.
NullIsLast ==
  [][\A n \in Calls : seen[n].null > 0 =>
       seen'[n].null = seen[n].null /\ seen'[n].told = seen[n].told]_vars

\* While the protocol holds a data channel, the flag is taken and the front of
\* iCmdQ is the transfer the channel was opened for, whatever Stop, early data, lost
\* connections and calls left behind by GiveUp do: the channel's completions look
\* the callback up at the front.
ChannelIsFronts ==
  (Alive /\ iDataChannel # 0) =>
    /\ iCmdQ # <<>> /\ iCmdInProgress /\ ~foundEmpty
    /\ IsTransferCommand(Head(iCmdQ).cmd) /\ Head(iCmdQ).call = iDataChannel

\* A data channel the protocol gave up (ResetSubject) is out of the
\* dispatcher's list when the handler that did so returns: no completion of a
\* dead transfer reaches the callback of the next one.
NoRetiredChannelListed ==
  \A n \in Calls : DC(n) \in removeMark => ~Listed(DC(n))

\* Between its preliminary and its final reply a transfer runs at the
\* protection level its own call asked for ("granular PROT levels").
AsksItsProtection ==
  (Alive /\ iProtocolState = "1yz" /\ CcTls # "No") => iDCProt = Script[Head(iCmdQ).call].prot

\* An upload whose file was read to its end has sent every chunk it read.
UploadComplete ==
  \A n \in Calls : dev[FL(n)].conn = "closed" => seen[n].tx = seen[n].read

\* "Returning false from this callback closes the transfer": no chunk goes out
\* after the one it was refused with.
RefusedSendsNoMore ==
  [][~iContinueTransfer /\ ~iContinueTransfer' => \A n \in Calls : Script[n].cbk # {} => seen'[n].tx = seen[n].tx]_vars

\* When the callback is told there is no more data, the local file of the
\* download holds all that was received.
StoredIsReceived ==
  \A n \in Calls : (seen[n].null > 0 /\ Script[n].api = "Download" /\ Script[n].local)
                      => seen[n].stored = seen[n].rx

\* No handler runs into an assertion, a null channel or its own lock.
NoFault == Alive

\* InitializeFileDevice asserts that no file of an earlier transfer is held.
FileDeviceIsFree == fault # "assert: !iFileDevice"

\* The session is served to its end: every queued command gets its reply, QUIT
\* included ("Sends FTP QUIT command and triggeres the cleanup"), and the control
\* channel is dropped.  The one other end is a call made between the worker's look
\* at an empty iCmdQ and GiveUp, with no call behind it that would send.
LeftBehind == ~iCmdInProgress /\ iCmdQ # <<>>
SessionEnds == <>(quit /\ ~Listed(CC)) \/ <>[]LeftBehind
============================================================================
