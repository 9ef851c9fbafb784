------------------------- MODULE FtpDeliveryProofs -------------------------
(***************************************************************************)
(* What the transfers of FtpSession deliver to callbacks, to local files   *)
(* and to the server.  Each theorem names the scripts, servers, networks   *)
(* and callbacks it excludes; all others are allowed.                      *)
(***************************************************************************)
EXTENDS FtpTransferProofs

\* An upload is not cut short; its data channel's connect comes before the
\* reply; the control channel is not lost; a TLS peer closes with close_notify; a
\* read of the file that is posted does not fail at once.
NoAbort        == "abort" \notin ServerMay
ConnectFirst   == "earlyReply" \notin ServerMay
NoDrop         == "drop" \notin ServerMay
NoAbruptClose  == "abrupt" \notin ServerMay
ReadsBegin     == "readFails" \notin ServerMay

\* RFC 959: a transfer command is answered by 1yz, 4yz or 5yz.
TransferReplies == Replies["DATA"] \subseteq {"1", "4", "5"}

\* Callbacks refuse no download and no listing.
DownloadsTaken == \A n \in Calls : Script[n].api # "Upload" => FALSE \notin Script[n].cbk

----------------------------------------------------------------------------
(* The inductive invariants *)

\* The null buffer is the last thing a data channel does.
NullInv ==
  /\ \A k \in Calls : seen[k].null > 0 => DC(k) \in removeMark
  /\ iDataChannel # 0 => DC(iDataChannel) \notin removeMark

\* A channel that is held is the one of the transfer in front; the flag is
\* taken for a transfer in front, in one of its states.
TransferAhead == iCmdQ # <<>> /\ IsTransferCommand(Head(iCmdQ).cmd)
ChannelOK == iDataChannel # 0 => TransferAhead /\ Head(iCmdQ).call = iDataChannel
AheadOK == TransferAhead => iCmdInProgress /\ ~foundEmpty /\ iProtocolState \in TransferStates
ChannelInv == QueueOK /\ ChannelOK /\ AheadOK

\* STOR is the command of an upload.
OwnCommand(c) == c.cmd = "STOR" <=> (IsTransferCommand(c.cmd) /\ Script[c.call].api = "Upload")
CommandsOK == \A i \in 1..Len(iCmdQ) : OwnCommand(iCmdQ[i])

\* A device is put in the list before anything is done to it.
Unused == [conn |-> "none", ssl |-> "no", stopped |-> FALSE, shut |-> FALSE, rd |-> FALSE]
Used(d) == Listed(d) \/ d \in removeMark
UnusedOK ==
  /\ \A d \in Devices \ {CC} : Used(d) \/ dev[d] = Unused
  /\ iDataChannel # 0 => Used(DC(iDataChannel))
  /\ iFileDevice # 0 => Used(FL(iFileDevice))

\* Until its command is answered a data channel does no more than connect.
Connecting(d) == dev[d].conn \in {"connecting", "open"} /\ dev[d].ssl = "no" /\ ~dev[d].stopped /\ ~dev[d].shut
Awaiting == iProtocolState = "DATA" /\ wire # <<>>
AwaitingOK == (Awaiting /\ iDataChannel # 0) => Connecting(DC(iDataChannel))

\* A read of the file is posted while its data channel can take what it
\* brings; an upload's handshake finds its file.
Reads(k) == dev[FL(k)].rd
ReadingOK ==
  \A k \in Calls :
    /\ Reads(k) => /\ Script[k].api = "Upload" /\ iDataChannel = k /\ iFileDevice = k
                   /\ ~dev[DC(k)].shut /\ dev[DC(k)].ssl \in {"no", "up"}
    /\ dev[DC(k)].ssl = "shaking" =>
         ~dev[DC(k)].shut /\ ((iDataChannel = k /\ Script[k].local) => iFileDevice = k)

UploadInv == CommandsOK /\ UnusedOK /\ AwaitingOK /\ ReadingOK

\* What was read was sent, except for the chunk at which the callback refused.
SentOK ==
  \A k \in Calls :
    /\ Reads(k) => dev[DC(k)].conn = "open"
    /\ \/ seen[k].tx = seen[k].read
       \/ dev[FL(k)].conn = "open" /\ ~Reads(k) /\ dev[DC(k)].ssl # "shaking"

\* The control channel stays until QUIT; a transfer that was answered has its
\* file, and its callback wants more.
ControlServes == (dev[CC].shut => quit) /\ (quit => iDataChannel = 0)
AnsweredOK ==
  iDataChannel # 0 =>
    /\ iProtocolState \in {"DATA", "1yz", "xyz"} /\ (iProtocolState = "DATA" => wire # <<>>)
    /\ iProtocolState # "DATA" =>
         /\ Script[iDataChannel].local => iFileDevice = iDataChannel
         /\ Script[iDataChannel].api # "Upload" => iContinueTransfer

\* What was received was stored.
StoredOK == \A k \in Calls : (Script[k].api = "Download" /\ Script[k].local) => seen[k].stored = seen[k].rx

DownloadInv == ControlServes /\ AnsweredOK /\ StoredOK

----------------------------------------------------------------------------
(* The list and the marks *)

\* A pass drops marked devices only.
LEMMA PassKeeps ==
  ASSUME NEW obs \in Seq(Devices), DispatcherPass(obs)
  PROVE  \A d : /\ Listed(d)' => In(obs, d)
                /\ (In(obs, d) /\ d \notin removeMark') => Listed(d)'
<1>1. PICK M : M = removeMark'
  OBVIOUS
<1>2. PICK new : new = Sweep(obs, M)
  OBVIOUS
<1>3. iObservers' = new
  BY <1>1, <1>2 DEF DispatcherPass
<1>4. new \in Seq(Devices) => \A d : Listed(d)' <=> In(new, d)
  BY <1>3 DEF Listed, In
<1>5. CASE new = obs
  BY <1>4, <1>5
<1>6. ASSUME NEW p \in 1..Len(obs), obs[p] \in M,
             new = SubSeq(obs, 1, p - 1) \o SubSeq(obs, p + 1, Len(obs))
      PROVE  new \in Seq(Devices) /\ \A d : (In(new, d) => In(obs, d)) /\ ((In(obs, d) /\ d \notin M) => In(new, d))
  <2>1. Len(obs) \in Nat /\ p \in Nat
    OBVIOUS
  <2>2. /\ new \in Seq(Devices) /\ Len(new) = Len(obs) - 1
        /\ \A i \in 1..Len(new) : new[i] = IF i < p THEN obs[i] ELSE obs[i + 1]
    BY <1>6, WithoutOne
  <2>3. ASSUME NEW d, In(new, d) PROVE In(obs, d)
    <3>1. PICK i \in 1..Len(new) : new[i] = d
      BY <2>3 DEF In
    <3>2. i \in 1..Len(obs) /\ i + 1 \in 1..Len(obs)
      BY <2>1, <2>2
    <3> QED BY <2>2, <3>1, <3>2 DEF In
  <2>4. ASSUME NEW d, In(obs, d), d \notin M PROVE In(new, d)
    <3>1. PICK i \in 1..Len(obs) : obs[i] = d
      BY <2>4 DEF In
    <3>2. i # p
      BY <1>6, <2>4, <3>1
    <3>3. CASE i < p
      <4>1. i \in 1..Len(new)
        BY <2>1, <2>2, <3>3
      <4> QED BY <2>2, <3>1, <3>3, <4>1 DEF In
    <3>4. CASE i > p
      <4>1. i - 1 \in 1..Len(new) /\ ~(i - 1 < p) /\ (i - 1) + 1 = i
        BY <2>1, <2>2, <3>4
      <4> QED BY <2>2, <3>1, <4>1 DEF In
    <3> QED BY <2>1, <3>2, <3>3, <3>4
  <2> QED BY <2>2, <2>3, <2>4
<1>7. \/ new = obs
      \/ \E k \in 1..Len(obs) : obs[k] \in M /\ new = SubSeq(obs, 1, k - 1) \o SubSeq(obs, k + 1, Len(obs))
  BY <1>2, SweepIs, Zenon
<1> QED BY <1>1, <1>4, <1>5, <1>6, <1>7

\* The pass at the end of a step, if there is one.
PassOf(d) == DispatcherPass(Append(iObservers, d))
LEMMA PassOfStep ==
  ASSUME FinalRepliesOnly, IInv, TInv, [Next]_vars
  PROVE  /\ removeMark \subseteq removeMark'
         /\ \/ UNCHANGED iObservers \/ DispatcherPass(iObservers) \/ \E d \in Devices : PassOf(d)
<1>1. CASE UNCHANGED vars
  BY <1>1 DEF vars
<1>2. CASE StartClient \/ ApiCall \/ GiveUp
  BY <1>2 DEF StartClient, ApiCall, GiveUp
<1>3. CASE ControlConnect \/ ControlHandshake \/ ControlEof \/ OtherCompletion \/ \E d \in Devices : CloseNotify(d)
  BY <1>3 DEF ControlConnect, ControlHandshake, ControlEof, OtherCompletion, CloseNotify, Dies
<1>4. ASSUME NEW n \in Calls, DcConnect(n) \/ DcWrite(n) \/ DcHandshake(n) \/ DcRead(n)
      PROVE  UNCHANGED removeMark /\ (UNCHANGED iObservers \/ DispatcherPass(iObservers))
  BY <1>4 DEF DcConnect, DcWrite, DcHandshake, DcRead, Dies
<1>5. ASSUME NEW n \in Calls, DcEof(n) \/ FileRead(n) \/ FileEof(n)
      PROVE  removeMark \subseteq removeMark' /\ (UNCHANGED iObservers \/ DispatcherPass(iObservers))
  BY <1>5 DEF DcEof, FileRead, SendChunk, FileEof, Dies
<1>6. ASSUME NEW code \in Codes, OnControlRead(code)
      PROVE  /\ removeMark \subseteq removeMark'
             /\ \/ UNCHANGED iObservers \/ DispatcherPass(iObservers) \/ \E d \in Devices : PassOf(d)
  <2>1. ASSUME NEW state, NEW w, Plain(state, w) PROVE UNCHANGED removeMark /\ DispatcherPass(iObservers)
    BY <2>1 DEF Plain
  <2>2. CASE code = "1"
    <3>1. AtReply /\ (Plain(iProtocolState, wire) \/ (BeginTransfer(wire) /\ iProtocolState = "DATA"))
      BY <1>6, <2>2, PreliminaryCases
    <3>2. CASE BeginTransfer(wire) /\ iProtocolState = "DATA"
      <4>1. FL(Head(iCmdQ).call) \in Devices
        BY <3>1, <3>2, FrontByState, QueueTyped, DevicesDiffer
      <4> QED BY <3>2, <4>1 DEF BeginTransfer, Dies, PassOf
    <3> QED BY <2>1, <3>1, <3>2
  <2>3. CASE code # "1"
    <3>1. CASE iProtocolState = "PASV" /\ ProcessPasvResponse(<<>>)
      <4>1. DC(Head(iCmdQ).call) \in Devices
        BY <1>6, <2>3, <3>1, FinalCases, FrontByState, QueueTyped, DevicesDiffer
      <4> QED BY <3>1, <4>1 DEF ProcessPasvResponse, OpenDataChannel, PassOf
    <3>2. CASE \/ DoCCHandshake(<<>>) \/ \E status \in BOOLEAN, state \in States : ProcessLoginEvent(status, state, <<>>)
               \/ ProcessGenCmdEvent(code, <<>>) \/ \E state \in States : SkipTransfer(state, <<>>)
      BY <3>2 DEF DoCCHandshake, ProcessLoginEvent, ProcessGenCmdEvent, SkipTransfer
    <3>3. CASE CompleteTransfer(<<>>) \/ FailTransfer(<<>>)
      BY <2>1, <3>3 DEF CompleteTransfer, FailTransfer
    <3>4. \/ iProtocolState = "PASV" /\ ProcessPasvResponse(<<>>)
          \/ DoCCHandshake(<<>>) \/ \E status \in BOOLEAN, state \in States : ProcessLoginEvent(status, state, <<>>)
          \/ ProcessGenCmdEvent(code, <<>>) \/ \E state \in States : SkipTransfer(state, <<>>)
          \/ CompleteTransfer(<<>>) \/ FailTransfer(<<>>)
          \/ \E state, w : Plain(state, w)
      BY <1>6, <2>3, FinalCases, Zenon
    <3> QED BY <2>1, <3>1, <3>2, <3>3, <3>4
  <2> QED BY <2>2, <2>3
<1> QED BY <1>1, <1>2, <1>3, <1>4, <1>5, <1>6 DEF Next, Completion

\* A device that was used stays so; one that is not marked stays in the list.
LEMMA UsedStays ==
  ASSUME FinalRepliesOnly, IInv, TInv, [Next]_vars
  PROVE  /\ removeMark \subseteq removeMark'
         /\ \A d : Used(d) => Used(d)'
<1>1. removeMark \subseteq removeMark'
  BY PassOfStep
<1>2. iObservers \in Seq(Devices)
  BY StaysTyped
<1>3. ASSUME NEW d, Listed(d) PROVE Used(d)'
  <2>1. In(iObservers, d)
    BY <1>2, <1>3, ListHolds
  <2>2. CASE UNCHANGED iObservers
    <3>1. PICK k \in DOMAIN iObservers : iObservers[k] = d
      BY <1>3 DEF Listed
    <3> QED BY <2>2, <3>1 DEF Used, Listed
  <2>3. CASE DispatcherPass(iObservers)
    <3>1. d \notin removeMark' => Listed(d)'
      BY <1>2, <2>1, <2>3, PassKeeps
    <3> QED BY <3>1 DEF Used
  <2>4. ASSUME NEW e \in Devices, PassOf(e) PROVE Used(d)'
    <3>1. Append(iObservers, e) \in Seq(Devices) /\ In(Append(iObservers, e), d)
      BY <1>2, <2>1, AppendedList
    <3>2. d \notin removeMark' => Listed(d)'
      BY <2>4, <3>1, PassKeeps DEF PassOf
    <3> QED BY <3>2 DEF Used
  <2> QED BY <2>2, <2>3, <2>4, PassOfStep
<1> QED BY <1>1, <1>3 DEF Used

\* A device that is appended is used from then on.
LEMMA AppendedIsUsed ==
  ASSUME IInv, NEW d \in Devices, PassOf(d)
  PROVE  Used(d)'
<1>1. Append(iObservers, d) \in Seq(Devices) /\ In(Append(iObservers, d), d)
  BY StaysTyped, AppendedList
<1>2. d \notin removeMark' => Listed(d)'
  BY <1>1, PassKeeps DEF PassOf
<1> QED BY <1>2 DEF Used

----------------------------------------------------------------------------
(* What a step does to transfers *)

\* How a step that leaves a transfer alone may move the protocol.
Moves ==
  \/ UNCHANGED <<iProtocolState, wire>>
  \/ Awaiting /\ UNCHANGED iProtocolState /\ wire' = <<>> /\ ~TransferReplies
  \/ iProtocolState = "1yz" /\ iProtocolState' \in {"1yz", "xyz"}
  \/ iProtocolState' = "DISCONNECTED" /\ wire' = <<>> /\ PeerCloses(CC)

\* Everything but the control channel stays as it is.
Aside ==
  /\ UNCHANGED <<iDataChannel, iFileDevice, iContinueTransfer, seen>>
  /\ \A d \in Devices \ {CC} : dev'[d] = dev[d]
  /\ removeMark' \subseteq removeMark \cup {CC}
  /\ iDataChannel # 0 => Moves

\* PASV was accepted.
Opens(n) ==
  /\ iProtocolState = "PASV" /\ ~quit
  /\ iDataChannel = 0 /\ iFileDevice = 0 /\ ~Used(DC(n)) /\ iDataChannel' = n /\ Used(DC(n))'
  /\ UNCHANGED <<iFileDevice, iContinueTransfer, seen, removeMark>>
  /\ dev' = [dev EXCEPT ![DC(n)].conn = "connecting"]
  /\ iProtocolState' = "DATA" /\ (wire' = <<>> => dev[CC].shut)

\* The transfer command got its preliminary reply.
Begins(n) ==
  /\ Awaiting /\ iDataChannel = n /\ iFileDevice = 0 /\ ~Used(FL(n)) /\ iCmdQ # <<>> /\ Head(iCmdQ).call = n
  /\ UNCHANGED <<iDataChannel, seen, removeMark>> /\ iProtocolState' = "1yz" /\ iContinueTransfer' = TRUE
  /\ iFileDevice' = IF Script[n].local THEN n ELSE 0
  /\ Script[n].local => Used(FL(n))'
  /\ \E opened : /\ opened = IF Script[n].local THEN [dev EXCEPT ![FL(n)].conn = "open"] ELSE dev
                 /\ dev' = IF iDCProt = "Protected" THEN Handshaking(opened, n)
                           ELSE TriggerDataTransfer(opened, n)
  /\ ConnectFirst => dev[DC(n)].conn # "connecting"

\* The transfer command was refused, or the transfer broke off.
Fails ==
  /\ iDataChannel' = 0 /\ iFileDevice' = 0 /\ UNCHANGED <<iContinueTransfer, seen, dev>>
  /\ iDataChannel # 0 => \/ Awaiting
                         \/ (NoAbort /\ Head(iCmdQ).cmd = "STOR") => dev[DC(iDataChannel)].shut

\* Transfer n moves.
Advances(n) ==
  /\ fault' = "none"
  /\ \/ DcConnect(n) \/ DcHandshake(n) \/ DcRead(n) \/ DcEof(n) \/ FileRead(n) \/ FileEof(n)
     \/ CloseNotify(DC(n)) \/ CloseNotify(FL(n))

\* A device opens, closes, ends its handshake, or has its read completed.
LEMMA Moved ==
  ASSUME NEW devs \in [Devices -> DeviceState], NEW d \in Devices
  PROVE  /\ LET g == [devs EXCEPT ![d].conn = "open"]
            IN g \in [Devices -> DeviceState] /\ \A e \in Devices \ {d} : g[e] = devs[e]
         /\ LET g == [devs EXCEPT ![d].conn = "closed"]
            IN g \in [Devices -> DeviceState] /\ \A e \in Devices \ {d} : g[e] = devs[e]
         /\ LET g == [devs EXCEPT ![d].ssl = "up"]
            IN g \in [Devices -> DeviceState] /\ \A e \in Devices \ {d} : g[e] = devs[e]
<1>1. "open" \in Connections /\ "closed" \in Connections /\ "up" \in Handshakes
  BY DEF Connections, Handshakes
<1>2. \A v : \A e \in Devices \ {d} : [devs EXCEPT ![d].conn = v][e] = devs[e] /\ [devs EXCEPT ![d].ssl = v][e] = devs[e]
  OBVIOUS
<1>3. /\ [devs EXCEPT ![d].conn = "open"] \in [Devices -> DeviceState]
      /\ [devs EXCEPT ![d].conn = "closed"] \in [Devices -> DeviceState]
      /\ [devs EXCEPT ![d].ssl = "up"] \in [Devices -> DeviceState]
  BY <1>1, SetField, Zenon
<1> QED BY <1>2, <1>3

\* A transition without a data channel.
LEMMA AsideWithout ==
  ASSUME iDataChannel = 0, UNCHANGED <<iDataChannel, iFileDevice, iContinueTransfer, seen, removeMark>>,
         \A d \in Devices \ {CC} : dev'[d] = dev[d]
  PROVE  Aside
BY DEF Aside

\* A transition that only changes the state and perhaps sends.
LEMMA AsidePlain ==
  ASSUME NEW state, NEW w, Plain(state, w), iDataChannel # 0 => Moves
  PROVE  Aside
BY DEF Plain, transfer, Aside

\* A handler that dies.
LEMMA AsideDies ==
  ASSUME NEW why, Dies(why)
  PROVE  Aside
BY DEF Dies, transfer, protocol, Aside, Moves

\* PASV is accepted: the devices of its transfer have not been used.
LEMMA PasvOpens ==
  ASSUME IInv, TInv, AtReply, Reading(CC), ~quit, iProtocolState = "PASV", ProcessPasvResponse(<<>>)
  PROVE  \E n \in Calls : Opens(n)
<1>1. PICK n \in Calls : n = Head(iCmdQ).call
  BY FrontByState, QueueTyped
<1>2. iCmdQ # <<>> /\ Head(iCmdQ) = iCmdQ[1] /\ iCmdQ[1].cmd = "PASV" /\ 1 \in 1..Len(iCmdQ) /\ Len(iCmdQ) \in Nat
  BY FrontByState, QueueTyped
<1>3. iDataChannel = 0 /\ iFileDevice = 0
  BY <1>2, NothingHeld, PasvIsNoTransfer
<1>4. ~Used(DC(n))
  BY <1>1, <1>2 DEF TInv, ToComeOK, Untouched, Used
<1>5. 1 < Len(iCmdQ) /\ IsTransferCommand(iCmdQ[1 + 1].cmd)
  BY <1>2 DEF TInv, QueueOK, Batched
<1>6. PICK r : r = SubSeq(iCmdQ, 1 + 1, Len(iCmdQ))
  OBVIOUS
<1>7. r # <<>> /\ IsTransferCommand(Head(r).cmd)
  <2>1. iCmdQ \in Seq(Command) /\ Len(iCmdQ) \in Nat
    BY QueueTyped
  <2>2. Len(r) = Len(iCmdQ) - 1 /\ (r # <<>> => Head(r) = iCmdQ[1 + 1])
    BY <1>5, <1>6, <2>1, SuffixIs
  <2>3. r # <<>>
    BY <1>5, <2>1, <2>2
  <2> QED BY <1>5, <2>2, <2>3
<1>8. iProtocolState' = "DATA" /\ wire' = Sent(<<>>, Head(r))
  <2>1. ProcessNextCmd(r, "DATA", <<>>)
    BY <1>6 DEF ProcessPasvResponse, SkipCommand
  <2> QED BY <1>7, <2>1, PasvIsNoTransfer DEF ProcessNextCmd
<1>9. wire' = <<>> => dev[CC].shut
  <2>1. Append(<<>>, Head(r)) # <<>>
    OBVIOUS
  <2> QED BY <1>8, <2>1 DEF Sent, Reading
<1>10. /\ UNCHANGED <<iFileDevice, iContinueTransfer, seen, removeMark>> /\ iDataChannel' = n
       /\ dev' = [dev EXCEPT ![DC(n)].conn = "connecting"] /\ PassOf(DC(n))
  BY <1>1 DEF ProcessPasvResponse, OpenDataChannel, StartSocketClient, PassOf
<1>11. Used(DC(n))'
  BY <1>10, AppendedIsUsed, DevicesDiffer
<1> QED BY <1>3, <1>4, <1>8, <1>9, <1>10, <1>11 DEF Opens

\* The preliminary reply: the file has not been used.
LEMMA ReplySurvives ==
  ASSUME IInv, TInv, AtReply, iProtocolState = "DATA", BeginTransfer(wire), ServerReady(Head(wire), "1"),
         ~\E why : Dies(why)
  PROVE  \E n \in Calls : Begins(n)
<1>1. PICK n \in Calls : n = Head(iCmdQ).call
  BY FrontByState, QueueTyped
<1>2. /\ iCmdQ # <<>> /\ Head(iCmdQ) = Head(wire) /\ IsTransferCommand(Head(iCmdQ).cmd) /\ wire # <<>>
      /\ iDataChannel = n /\ n # 0 /\ FileUnused(n)
  BY <1>1, FrontByState, QueueTyped DEF TInv, FrontOK, ToComeOK, AtReply
<1>3. iFileDevice = 0
  BY <1>2 DEF TInv, FrontOK, FileUnused
<1>5. PICK opened : opened = IF Script[n].local THEN [dev EXCEPT ![FL(n)].conn = "open"] ELSE dev
  OBVIOUS
<1>6. CASE /\ iProtocolState' = "1yz"
           /\ iFileDevice' = IF Script[n].local THEN n ELSE iFileDevice
           /\ iContinueTransfer' = TRUE
           /\ dev' = IF iDCProt = "Protected" THEN Handshaking(opened, iDataChannel) ELSE TriggerDataTransfer(opened, n)
           /\ UNCHANGED <<iDataChannel, removeMark, seen>>
           /\ DispatcherPass(IF Script[n].local THEN Append(iObservers, FL(n)) ELSE iObservers)
  <2>1. Script[n].local => Used(FL(n))'
    BY <1>6, AppendedIsUsed, DevicesDiffer DEF PassOf
  <2>2. ~Used(FL(n))
    BY <1>2 DEF FileUnused, Used
  <2>3. ConnectFirst => dev[DC(n)].conn # "connecting"
    BY <1>1, <1>2 DEF ServerReady, ConnectFirst
  <2>4. Awaiting
    BY <1>2 DEF Awaiting
  <2> QED BY <1>1, <1>2, <1>3, <1>5, <1>6, <2>1, <2>2, <2>3, <2>4 DEF Begins
<1>7. \/ \E why : Dies(why)
      \/ /\ iProtocolState' = "1yz"
         /\ iFileDevice' = IF Script[n].local THEN n ELSE iFileDevice
         /\ iContinueTransfer' = TRUE
         /\ dev' = IF iDCProt = "Protected" THEN Handshaking(opened, iDataChannel) ELSE TriggerDataTransfer(opened, n)
         /\ UNCHANGED <<iDataChannel, removeMark, seen>>
         /\ DispatcherPass(IF Script[n].local THEN Append(iObservers, FL(n)) ELSE iObservers)
  BY <1>1, <1>5, Zenon DEF BeginTransfer
<1> QED BY <1>6, <1>7

\* The preliminary reply, whether or not its handler survives.
LEMMA ReplyBegins ==
  ASSUME IInv, TInv, AtReply, iProtocolState = "DATA", BeginTransfer(wire), ServerReady(Head(wire), "1")
  PROVE  Aside \/ \E n \in Calls : Begins(n)
BY ReplySurvives, AsideDies

\* A negative reply.
LEMMA ReplyFails ==
  ASSUME IInv, TInv, AtReply, iProtocolState \in {"DATA", "1yz"}, FailTransfer(<<>>),
         NEW code, ServerReady(Head(wire), code)
  PROVE  Fails
<1>1. iDataChannel' = 0 /\ iFileDevice' = 0 /\ UNCHANGED <<iContinueTransfer, seen, dev>>
  BY DEF FailTransfer, ResetBoth
<1>2. iCmdQ # <<>> /\ Head(iCmdQ) = Head(wire) /\ IsTransferCommand(Head(iCmdQ).cmd) /\ wire # <<>>
  BY FrontByState DEF AtReply
<1>3. iDataChannel # 0 => Head(iCmdQ).call = iDataChannel
  BY DEF TInv, FrontOK
<1>4. iProtocolState = "1yz" => prelim
  <2>1. iProtocolState \in {"CONNECTED", "AUTH", "USER", "PASS", "ACCT"} \/ iProtocolState = IF prelim THEN "1yz" ELSE "DATA"
    BY <1>2, Awaited, PasvIsNoTransfer DEF AtReply, IInv, LoginSteps
  <2> QED BY <2>1
<1> QED BY <1>1, <1>2, <1>3, <1>4 DEF Fails, Awaiting, ServerReady, NoAbort

\* A refused transfer command meets its row.
LEMMA RefusalFails ==
  ASSUME FinalRepliesOnly, IInv, NEW code \in {"4", "5"}, iProtocolState = "DATA", OnControlRead(code)
  PROVE  FailTransfer(<<>>)
<1>1. AtReply /\ Tail(wire) = <<>> /\ code # "1" /\ code \in Codes
  <2>1. code # "1" /\ code \in Codes
    BY DEF Codes
  <2>2. AtReply
    BY <2>1, FinalCases
  <2> QED BY <2>1, <2>2, Awaited DEF AtReply, IInv
<1>2. PICK rows : rows = {t \in FSM : t.from = iProtocolState /\ t.code = code}
  OBVIOUS
<1>3. rows # {}
  <2>1. [from |-> "DATA", code |-> code, to |-> "xyz", fn |-> "FailTransfer"] \in Row("DATA", {"4", "5"}, "xyz", "FailTransfer")
    BY DEF Row
  <2>2. [from |-> "DATA", code |-> code, to |-> "xyz", fn |-> "FailTransfer"] \in FSM
    BY <2>1, Zenon DEF FSM
  <2> QED BY <1>2, <2>2
<1>4. \E t \in rows : StateMachine(t, Tail(wire))
  <2>1. IF rows = {} THEN Plain(iProtocolState, IF code = "1" THEN wire ELSE Tail(wire))
        ELSE \E t \in rows : StateMachine(t, IF code = "1" THEN wire ELSE Tail(wire))
    BY <1>2, Zenon DEF OnControlRead
  <2> QED BY <1>1, <1>3, <2>1
<1>5. PICK t \in FSM : t.from = "DATA" /\ t.code = code /\ StateMachine(t, <<>>)
  BY <1>1, <1>2, <1>4
<1>6. t.fn = "FailTransfer"
  BY <1>5, FsmRows
<1> QED BY <1>5, <1>6 DEF StateMachine

\* Every reply.
LEMMA ReplyCases ==
  ASSUME FinalRepliesOnly, IInv, TInv, NEW code \in Codes, OnControlRead(code)
  PROVE  Aside \/ (\E n \in Calls : Opens(n)) \/ (\E n \in Calls : Begins(n)) \/ Fails
<1>1. Reading(CC) /\ ~quit /\ ServerReady(Head(wire), code) /\ code \in Replies[Kind(Head(wire))]
  BY Zenon DEF OnControlRead
<1>2. CASE code = "1"
  <2>1. AtReply /\ (Plain(iProtocolState, wire) \/ (BeginTransfer(wire) /\ iProtocolState = "DATA"))
    BY <1>2, PreliminaryCases
  <2>2. CASE Plain(iProtocolState, wire)
    BY <2>2, AsidePlain DEF Plain, Moves
  <2> QED BY <1>1, <1>2, <2>1, <2>2, ReplyBegins
<1>3. CASE code # "1"
  <2>1. AtReply
    BY <1>3, FinalCases
  <2>2. CASE Plain(iProtocolState, <<>>) /\ ~(iProtocolState = "DATA" /\ code \in {"4", "5"})
    <3>1. iProtocolState' = iProtocolState /\ wire' = <<>>
      BY <2>2 DEF Plain
    <3>2. ASSUME iDataChannel # 0 PROVE Moves
      <4>1. Head(iCmdQ) = Head(wire) /\ IsTransferCommand(Head(iCmdQ).cmd) /\ Head(wire).call # 0 /\ wire # <<>>
            /\ iProtocolState = IF prelim THEN "1yz" ELSE "DATA"
        <5>1. /\ iCmdQ # <<>> /\ IsTransferCommand(Head(iCmdQ).cmd) /\ iProtocolState \in TransferStates
          BY <3>2 DEF TInv, FrontOK
        <5>2. iProtocolState \notin {"CONNECTED", "AUTH", "USER", "PASS", "ACCT"}
          BY <5>1 DEF TransferStates
        <5>3. Head(wire) = Head(iCmdQ) /\ iProtocolState = IF prelim THEN "1yz" ELSE ClassOf(Head(wire).cmd)
          BY <2>1, <5>2, Awaited DEF AtReply, IInv, LoginSteps
        <5>4. Head(wire).call # 0
          BY <5>1, <5>3, QueueTyped
        <5> QED BY <2>1, <5>1, <5>3, <5>4, PasvIsNoTransfer DEF AtReply
      <4>2. CASE prelim
        BY <3>1, <4>1, <4>2 DEF Moves
      <4>3. CASE ~prelim
        <5>1. Kind(Head(wire)) = "DATA"
          BY <4>1, <4>3, PasvIsNoTransfer DEF Kind
        <5> QED BY <1>1, <1>3, <2>2, <3>1, <4>1, <4>3, <5>1 DEF Moves, Awaiting, TransferReplies
      <4> QED BY <4>2, <4>3
    <3> QED BY <2>2, <3>2, AsidePlain
  <2>3. ASSUME iProtocolState \in {"CONNECTED", "AUTH", "USER", "PASS"}, NEW state, NEW w, Plain(state, w) PROVE Aside
    BY <2>3, NothingHeld, AsidePlain DEF TransferStates
  <2>4. CASE /\ iProtocolState \in {"AUTH", "PASS", "GEN"}
             /\ \/ DoCCHandshake(<<>>) \/ ProcessGenCmdEvent(code, <<>>)
                \/ \E status \in BOOLEAN, state \in States : ProcessLoginEvent(status, state, <<>>)
    <3>1. iDataChannel = 0
      BY <2>4, NothingHeld DEF TransferStates
    <3>2. UNCHANGED <<iDataChannel, iFileDevice, iContinueTransfer, seen, removeMark>>
      BY <2>4 DEF DoCCHandshake, ProcessGenCmdEvent, ProcessLoginEvent, transfer
    <3>3. \A d \in Devices \ {CC} : dev'[d] = dev[d]
      BY <2>4, DevicesDiffer, StaysTyped, SetOthers DEF DoCCHandshake, ProcessGenCmdEvent, ProcessLoginEvent
    <3> QED BY <3>1, <3>2, <3>3, AsideWithout
  <2>5. ASSUME iProtocolState = "PASV", NEW state, SkipTransfer(state, <<>>) PROVE Aside
    <3>1. iDataChannel = 0
      BY <2>5, NothingHeld DEF TransferStates
    <3> QED BY <2>5, <3>1, AsideWithout DEF SkipTransfer, transfer
  <2>6. CASE iProtocolState = "PASV" /\ ProcessPasvResponse(<<>>)
    BY <1>1, <2>1, <2>6, PasvOpens
  <2>7. CASE iProtocolState = "1yz" /\ CompleteTransfer(<<>>)
    <3>1. CASE iDataChannel = 0
      BY <2>7, <3>1, AsideWithout DEF CompleteTransfer, Plain, transfer
    <3>2. CASE iDataChannel # 0
      BY <2>7, <3>2, AsidePlain DEF CompleteTransfer, Plain, Moves
    <3> QED BY <3>1, <3>2
  <2>8. CASE iProtocolState \in {"DATA", "1yz"} /\ FailTransfer(<<>>)
    BY <1>1, <2>1, <2>8, ReplyFails
  <2>9. iProtocolState = "DATA" /\ code \in {"4", "5"} => FailTransfer(<<>>)
    BY RefusalFails
  <2> QED BY <1>3, <2>2, <2>3, <2>4, <2>5, <2>6, <2>7, <2>8, <2>9, FinalCases
<1> QED BY <1>2, <1>3

\* Every step.
LEMMA StepCases ==
  ASSUME FinalRepliesOnly, NoStop, DataAfterReply, IInv, TInv, [Next]_vars
  PROVE  Aside \/ (\E n \in Calls : Opens(n) \/ Begins(n) \/ (fault = "none" /\ Advances(n))) \/ Fails
<1>1. CASE UNCHANGED vars
  BY <1>1 DEF vars, protocol, transfer, Aside, Moves
<1>2. CASE StartClient
  BY <1>2, DevicesDiffer, StaysTyped, SetOthers DEF StartClient, StartSocketClient, protocol, transfer, Aside, Moves
<1>3. CASE ApiCall
  <2>1. PICK n \in Calls : n = called + 1
    BY <1>3, ScriptAssumption DEF ApiCall, IInv, Typed, TransferTyped, Calls
  <2>2. Enqueue(n) /\ UNCHANGED <<transfer, dev, removeMark, seen>>
    BY <1>3, <2>1 DEF ApiCall, NoStop
  <2>3. iDataChannel # 0 => iCmdInProgress
    BY DEF TInv, FrontOK
  <2>4. iCmdInProgress => UNCHANGED <<iProtocolState, wire>>
    BY <2>2 DEF Enqueue
  <2> QED BY <2>2, <2>3, <2>4 DEF transfer, Aside, Moves
<1>4. CASE ControlConnect
  <2>1. iDataChannel = 0
    BY <1>4, NothingHeld DEF ControlConnect, IInv, Dialogue, ControlOK, TransferStates
  <2> QED BY <1>4, <2>1, DevicesDiffer, StaysTyped, SetOthers, AsideWithout DEF ControlConnect, transfer
<1>5. CASE ControlHandshake
  <2>1. CcTls = "Yes" => iDataChannel = 0
    BY <1>5, NothingHeld DEF ControlHandshake, Reading, IInv, Dialogue, ControlOK, TransferStates
  <2>2. \A d \in Devices \ {CC} : dev'[d] = dev[d]
    BY <1>5, DevicesDiffer, StaysTyped, SetOthers DEF ControlHandshake
  <2> QED BY <1>5, <2>1, <2>2 DEF ControlHandshake, transfer, Aside, Moves
<1>6. CASE ControlEof
  <2>1. CASE \E why : Dies(why)
    BY <2>1, AsideDies
  <2>2. CASE dev' = [dev EXCEPT ![CC].conn = "closed"]
    BY <1>6, <2>2, DevicesDiffer, StaysTyped, SetOthers, AsideDies DEF ControlEof, transfer, Aside, Moves
  <2> QED BY <1>6, <2>1, <2>2 DEF ControlEof
<1>7. CASE OtherCompletion \/ GiveUp
  BY <1>7 DEF OtherCompletion, GiveUp, protocol, transfer, Aside, Moves
<1>8. ASSUME NEW d \in Devices, CloseNotify(d) PROVE Aside \/ \E n \in Calls : fault = "none" /\ Advances(n)
  <2>1. fault = "none" /\ fault' = "none"
    BY <1>8 DEF CloseNotify, Reading, Alive
  <2>2. CASE d = CC
    <3>1. \A e \in Devices \ {CC} : dev'[e] = dev[e]
      BY <1>8, <2>2, StaysTyped, StopSocketProperties DEF CloseNotify
    <3> QED BY <1>8, <3>1 DEF CloseNotify, protocol, transfer, Aside, Moves
  <2>3. CASE \E n \in Calls : d = DC(n) \/ d = FL(n)
    BY <1>8, <2>1, <2>3 DEF Advances
  <2> QED BY <2>2, <2>3 DEF Devices
<1>9. ASSUME NEW n \in Calls, \/ DcConnect(n) \/ DcHandshake(n) \/ DcRead(n) \/ DcWrite(n) \/ DcEof(n)
                               \/ FileRead(n) \/ FileEof(n)
      PROVE  Aside \/ (fault = "none" /\ Advances(n))
  <2>1. fault = "none"
    BY <1>9 DEF DcConnect, DcWrite, DcHandshake, DcRead, DcEof, FileRead, FileEof, Reading, Alive
  <2>2. CASE \E why : Dies(why)
    BY <2>2, AsideDies
  <2>3. CASE DcWrite(n) /\ ~\E why : Dies(why)
    BY <2>3 DEF DcWrite, protocol, transfer, Aside, Moves
  <2>4. CASE ~DcWrite(n)
    <3>1. (\E why : Dies(why)) \/ UNCHANGED fault
      BY <1>9, <2>4 DEF DcConnect, DcHandshake, DcRead, DcEof, FileRead, SendChunk, FileEof
    <3> QED BY <1>9, <2>1, <2>2, <2>4, <3>1 DEF Advances
  <2> QED BY <2>2, <2>3, <2>4
<1> QED BY <1>1, <1>2, <1>3, <1>4, <1>5, <1>6, <1>7, <1>8, <1>9, ReplyCases DEF Next, Completion

\* Whose data channel is listed is at the front.
LEMMA OwnerOf ==
  ASSUME IInv, TInv, NEW n \in Calls, Listed(DC(n)) \/ iDataChannel = n
  PROVE  /\ iDataChannel = n /\ n # 0 /\ iFileDevice \in {0, n} /\ iCmdQ # <<>>
         /\ Head(iCmdQ).call = n /\ IsTransferCommand(Head(iCmdQ).cmd)
         /\ Listed(DC(n)) => DC(n) \notin removeMark
<1>1. iDataChannel = n /\ n # 0
  BY QueueTyped DEF TInv, ListOK, OnlyHeld
<1>2. DC(n) \in removeMark => ~Listed(DC(n))
  BY DevicesOfCalls DEF TInv, ListOK, PendingOK
<1> QED BY <1>1, <1>2 DEF TInv, FrontOK

\* Counting one thing of one transfer.
LEMMA Counted ==
  ASSUME NEW h \in [Calls -> History], NEW n \in Calls, NEW k \in Calls
  PROVE  /\ LET g == [h EXCEPT ![n].told = @ + 1]
            IN /\ g[k].null = h[k].null /\ g[k].rx = h[k].rx /\ g[k].stored = h[k].stored
               /\ g[k].read = h[k].read /\ g[k].tx = h[k].tx /\ (k # n => g[k].told = h[k].told)
         /\ LET g == [h EXCEPT ![n].null = @ + 1]
            IN /\ g[k].told = h[k].told /\ g[k].rx = h[k].rx /\ g[k].stored = h[k].stored
               /\ g[k].read = h[k].read /\ g[k].tx = h[k].tx /\ (k # n => g[k].null = h[k].null)
         /\ LET g == [h EXCEPT ![n].rx = @ + 1]
            IN /\ g[k].told = h[k].told /\ g[k].null = h[k].null /\ g[k].stored = h[k].stored
               /\ g[k].read = h[k].read /\ g[k].tx = h[k].tx /\ g[k].rx = IF k = n THEN h[k].rx + 1 ELSE h[k].rx
         /\ LET g == [h EXCEPT ![n].stored = @ + 1]
            IN /\ g[k].told = h[k].told /\ g[k].null = h[k].null /\ g[k].rx = h[k].rx
               /\ g[k].read = h[k].read /\ g[k].tx = h[k].tx
               /\ g[k].stored = IF k = n THEN h[k].stored + 1 ELSE h[k].stored
         /\ LET g == [h EXCEPT ![n].read = @ + 1]
            IN /\ g[k].told = h[k].told /\ g[k].null = h[k].null /\ g[k].rx = h[k].rx
               /\ g[k].stored = h[k].stored /\ g[k].tx = h[k].tx
               /\ g[k].read = IF k = n THEN h[k].read + 1 ELSE h[k].read
         /\ LET g == [h EXCEPT ![n].tx = @ + 1]
            IN /\ g[k].told = h[k].told /\ g[k].null = h[k].null /\ g[k].rx = h[k].rx
               /\ g[k].stored = h[k].stored /\ g[k].read = h[k].read
               /\ g[k].tx = IF k = n THEN h[k].tx + 1 ELSE h[k].tx
BY DEF History

\* Counting under a condition.
LEMMA CountedIf ==
  ASSUME NEW h \in [Calls -> History], NEW n \in Calls, NEW b \in BOOLEAN
  PROVE  /\ LET g == [h EXCEPT ![n].told = IF b THEN @ + 1 ELSE @]
            IN /\ g \in [Calls -> History]
               /\ \A k \in Calls : /\ g[k].null = h[k].null /\ g[k].rx = h[k].rx /\ g[k].stored = h[k].stored
                                   /\ g[k].read = h[k].read /\ g[k].tx = h[k].tx /\ (k # n => g[k].told = h[k].told)
         /\ LET g == [h EXCEPT ![n].tx = IF b THEN @ + 1 ELSE @]
            IN \A k \in Calls : /\ g[k].told = h[k].told /\ g[k].null = h[k].null /\ g[k].rx = h[k].rx
                                /\ g[k].stored = h[k].stored /\ g[k].read = h[k].read
                                /\ g[k].tx = IF k = n /\ b THEN h[k].tx + 1 ELSE h[k].tx
BY DEF History

\* Data arrives: it is the front's, and goes to its callback and its file.
LEMMA DcReadIs ==
  ASSUME IInv, TInv, NEW n \in Calls, DcRead(n), fault = "none", fault' = "none"
  PROVE  /\ Listed(DC(n)) /\ UNCHANGED <<protocol, iDataChannel, iFileDevice, removeMark, dev>>
         /\ Script[n].api \in {"Download", "ListDirectory"} /\ (Begun(n) \/ "earlyData" \in ServerMay)
         /\ iContinueTransfer' = iContinueTransfer \/ iContinueTransfer' \in Script[n].cbk
         /\ \A k \in Calls :
              /\ seen'[k].null = seen[k].null /\ seen'[k].read = seen[k].read /\ seen'[k].tx = seen[k].tx
              /\ seen'[k].rx = IF k = n THEN seen[k].rx + 1 ELSE seen[k].rx
              /\ k # n => seen'[k].told = seen[k].told
              /\ (HasCbk(Head(iCmdQ)) => iContinueTransfer)
                   => seen'[k].stored = IF k = iFileDevice THEN seen[k].stored + 1 ELSE seen[k].stored
<1>1. /\ Listed(DC(n)) /\ iDataChannel = n /\ n # 0 /\ iCmdQ # <<>> /\ Head(iCmdQ).call = n
      /\ seen[n].rx < MaxChunks
      /\ Script[n].api \in {"Download", "ListDirectory"} /\ (Begun(n) \/ "earlyData" \in ServerMay)
  BY OwnerOf DEF DcRead, Reading
<1>2. PICK got : got = [seen EXCEPT ![n].rx = @ + 1]
  OBVIOUS
<1>3. seen \in [Calls -> History] /\ got \in [Calls -> History] /\ (iFileDevice # 0 => iFileDevice \in Calls) /\ 0 \notin Calls
  BY <1>1, <1>2, StaysTyped, Counting, QueueTyped
<1>4. \A k \in Calls : /\ got[k].told = seen[k].told /\ got[k].null = seen[k].null /\ got[k].stored = seen[k].stored
                       /\ got[k].read = seen[k].read /\ got[k].tx = seen[k].tx
                       /\ got[k].rx = IF k = n THEN seen[k].rx + 1 ELSE seen[k].rx
  BY <1>2, <1>3, Counted
<1>5. ASSUME NEW h \in [Calls -> History], Store(h)
      PROVE  \A k \in Calls : /\ seen'[k].null = h[k].null /\ seen'[k].read = h[k].read /\ seen'[k].tx = h[k].tx
                              /\ seen'[k].rx = h[k].rx /\ seen'[k].told = h[k].told
                              /\ seen'[k].stored = IF k = iFileDevice THEN h[k].stored + 1 ELSE h[k].stored
  <2>1. CASE iFileDevice = 0
    BY <1>3, <1>5, <2>1 DEF Store
  <2>2. CASE iFileDevice # 0
    <3>1. seen' = [h EXCEPT ![iFileDevice].stored = @ + 1]
      BY <1>5, <2>2 DEF Store
    <3> QED BY <1>3, <2>2, <3>1, Counted
  <2> QED BY <2>1, <2>2
<1>6. CASE /\ ~HasCbk(Head(iCmdQ)) /\ Store(got)
           /\ UNCHANGED <<protocol, iDCProt, iContinueTransfer, iDataChannel, iFileDevice, removeMark, dev, fault>>
  BY <1>1, <1>3, <1>4, <1>5, <1>6
<1>7. CASE /\ iContinueTransfer /\ AskCallback(Head(iCmdQ)) /\ HasCbk(Head(iCmdQ))
           /\ Store([got EXCEPT ![Head(iCmdQ).call].told = @ + 1])
           /\ UNCHANGED <<protocol, iDCProt, iDataChannel, iFileDevice, removeMark, dev, fault>>
  <2>1. PICK h : h = [got EXCEPT ![n].told = @ + 1]
    OBVIOUS
  <2>2. Store(h)
    BY <1>1, <1>7, <2>1
  <2>3. /\ h \in [Calls -> History]
        /\ \A k \in Calls : /\ h[k].null = got[k].null /\ h[k].stored = got[k].stored
                            /\ h[k].read = got[k].read /\ h[k].tx = got[k].tx /\ h[k].rx = got[k].rx
                            /\ k # n => h[k].told = got[k].told
    <3>1. h \in [Calls -> History]
      BY <1>1, <1>3, <2>1, Counting
    <3> QED BY <1>3, <2>1, <3>1, Counted
  <2>4. iContinueTransfer' \in Script[n].cbk
    BY <1>1, <1>7 DEF AskCallback
  <2>5. \A k \in Calls :
          /\ seen'[k].null = seen[k].null /\ seen'[k].read = seen[k].read /\ seen'[k].tx = seen[k].tx
          /\ seen'[k].rx = IF k = n THEN seen[k].rx + 1 ELSE seen[k].rx
          /\ k # n => seen'[k].told = seen[k].told
          /\ seen'[k].stored = IF k = iFileDevice THEN seen[k].stored + 1 ELSE seen[k].stored
    <3>1. \A k \in Calls :
            /\ seen'[k].null = h[k].null /\ seen'[k].read = h[k].read /\ seen'[k].tx = h[k].tx
            /\ seen'[k].rx = h[k].rx /\ seen'[k].told = h[k].told
            /\ seen'[k].stored = IF k = iFileDevice THEN h[k].stored + 1 ELSE h[k].stored
      BY <1>5, <2>2, <2>3
    <3> QED BY <1>4, <2>3, <3>1
  <2> QED BY <1>1, <1>7, <2>4, <2>5
<1>8. CASE /\ HasCbk(Head(iCmdQ)) /\ ~iContinueTransfer /\ ~(iDataChannel = n /\ ~dev[DC(n)].stopped)
           /\ seen' = got /\ dev' = StopSocket(dev, DC(iDataChannel)) /\ UNCHANGED <<protocol, transfer, removeMark, fault>>
  <2>1. dev' = dev
    BY <1>1, <1>8 DEF StopSocket
  <2> QED BY <1>1, <1>4, <1>8, <2>1 DEF transfer
<1> QED BY <1>1, <1>2, <1>6, <1>7, <1>8, Zenon DEF DcRead, Dies

\* The end of the data: the null buffer, and the protocol lets go.
LEMMA DcEofIs ==
  ASSUME IInv, TInv, NEW n \in Calls, DcEof(n), fault = "none", fault' = "none"
  PROVE  /\ Listed(DC(n)) /\ PeerCloses(DC(n)) /\ iDataChannel' = 0 /\ iFileDevice' = 0
         /\ DC(n) \in removeMark' /\ dev' = [dev EXCEPT ![DC(n)].conn = "closed"]
         /\ \A k \in Calls :
              /\ seen'[k].told = seen[k].told /\ seen'[k].rx = seen[k].rx /\ seen'[k].stored = seen[k].stored
              /\ seen'[k].read = seen[k].read /\ seen'[k].tx = seen[k].tx
              /\ k # n => seen'[k].null = seen[k].null
<1>1. Listed(DC(n)) /\ PeerCloses(DC(n)) /\ iCmdQ # <<>> /\ Head(iCmdQ).call = n
  BY OwnerOf DEF DcEof, Reading
<1>2. /\ seen' = IF HasCbk(Head(iCmdQ)) THEN [seen EXCEPT ![Head(iCmdQ).call].null = @ + 1] ELSE seen
      /\ ResetBoth /\ removeMark' = removeMark \cup HeldDevices \cup {DC(n)}
      /\ dev' = [dev EXCEPT ![DC(n)].conn = "closed"]
  BY <1>1, Zenon DEF DcEof, Dies
<1>3. \A k \in Calls :
        /\ seen'[k].told = seen[k].told /\ seen'[k].rx = seen[k].rx /\ seen'[k].stored = seen[k].stored
        /\ seen'[k].read = seen[k].read /\ seen'[k].tx = seen[k].tx
        /\ k # n => seen'[k].null = seen[k].null
  <2>1. seen \in [Calls -> History]
    BY StaysTyped
  <2>2. CASE seen' = seen
    BY <2>2
  <2>3. CASE seen' = [seen EXCEPT ![n].null = @ + 1]
    BY <2>1, <2>3, Counted
  <2> QED BY <1>1, <1>2, <2>2, <2>3
<1> QED BY <1>1, <1>2, <1>3 DEF ResetBoth

\* A chunk of the file arrives: it is sent, or the callback has had enough.
LEMMA FileReadIs ==
  ASSUME IInv, TInv, NEW n \in Calls, FileRead(n), fault = "none", fault' = "none"
  PROVE  /\ Reading(FL(n)) /\ Reads(n) /\ iDataChannel \in Calls /\ iDataChannel # 0
         /\ UNCHANGED <<protocol, iDataChannel, iFileDevice, removeMark>>
         /\ iContinueTransfer' = iContinueTransfer \/ iContinueTransfer' \in Script[iDataChannel].cbk
         /\ \A k \in Calls :
              /\ seen'[k].null = seen[k].null /\ seen'[k].rx = seen[k].rx /\ seen'[k].stored = seen[k].stored
              /\ seen'[k].read = IF k = n THEN seen[k].read + 1 ELSE seen[k].read
              /\ k # iDataChannel => seen'[k].told = seen[k].told
         /\ \/ /\ HasCbk(Head(iCmdQ)) /\ ~iContinueTransfer /\ UNCHANGED iContinueTransfer
               /\ dev' = StopSocket([dev EXCEPT ![FL(n)].rd = FALSE], DC(iDataChannel))
               /\ \A k \in Calls : seen'[k].tx = seen[k].tx
            \/ /\ HasCbk(Head(iCmdQ)) => iContinueTransfer
               /\ iFileDevice = iDataChannel
               /\ dev' = [dev EXCEPT ![FL(n)].rd = FALSE, ![FL(iFileDevice)].rd = TRUE]
               /\ \A k \in Calls : seen'[k].tx =
                    IF k = iDataChannel /\ CanSend(DC(iDataChannel)) THEN seen[k].tx + 1 ELSE seen[k].tx
<1>1. /\ Reading(FL(n)) /\ Reads(n) /\ seen[n].read < MaxChunks
      /\ iDataChannel # 0 /\ iDataChannel \in Calls /\ Head(iCmdQ).call = iDataChannel /\ iFileDevice \in {0, iDataChannel}
  <2>1. iDataChannel # 0
    BY DEF FileRead, Dies
  <2>2. iDataChannel \in Calls
    BY <2>1, StaysTyped
  <2> QED BY <2>1, <2>2, OwnerOf DEF FileRead, Reads
<1>2. PICK got : got = [seen EXCEPT ![n].read = @ + 1]
  OBVIOUS
<1>3. seen \in [Calls -> History] /\ got \in [Calls -> History]
  BY <1>1, <1>2, StaysTyped, Counting
<1>4. \A k \in Calls : /\ got[k].told = seen[k].told /\ got[k].null = seen[k].null /\ got[k].stored = seen[k].stored
                       /\ got[k].rx = seen[k].rx /\ got[k].tx = seen[k].tx
                       /\ got[k].read = IF k = n THEN seen[k].read + 1 ELSE seen[k].read
  BY <1>2, <1>3, Counted
<1>5. CASE /\ HasCbk(Head(iCmdQ)) /\ ~iContinueTransfer
           /\ dev' = StopSocket([dev EXCEPT ![FL(n)].rd = FALSE], DC(iDataChannel))
           /\ seen' = got
           /\ UNCHANGED <<protocol, transfer, removeMark, fault>>
  BY <1>1, <1>4, <1>5 DEF transfer
<1>6. CASE /\ HasCbk(Head(iCmdQ)) => iContinueTransfer
           /\ iFileDevice # 0 /\ AskCallback(Head(iCmdQ))
           /\ seen' = [got EXCEPT ![iDataChannel].told = IF HasCbk(Head(iCmdQ)) THEN @ + 1 ELSE @,
                                  ![iDataChannel].tx = IF CanSend(DC(iDataChannel)) THEN @ + 1 ELSE @]
           /\ dev' = [dev EXCEPT ![FL(n)].rd = FALSE, ![FL(iFileDevice)].rd = TRUE]
           /\ UNCHANGED <<protocol, iDataChannel, iFileDevice, removeMark>>
  <2>1. PICK c \in Calls : c = iDataChannel
    BY <1>1
  <2>2. PICK b \in BOOLEAN : b = HasCbk(Head(iCmdQ))
    BY Zenon DEF HasCbk
  <2>3. PICK s \in BOOLEAN : s = CanSend(DC(c))
    BY Zenon DEF CanSend
  <2>4. PICK h : h = [got EXCEPT ![c].told = IF b THEN @ + 1 ELSE @]
    OBVIOUS
  <2>5. /\ h \in [Calls -> History]
        /\ \A k \in Calls : /\ h[k].null = got[k].null /\ h[k].stored = got[k].stored /\ h[k].rx = got[k].rx
                            /\ h[k].read = got[k].read /\ h[k].tx = got[k].tx /\ (k # c => h[k].told = got[k].told)
    BY <1>3, <2>4, CountedIf
  <2>6. seen' = [h EXCEPT ![c].tx = IF s THEN @ + 1 ELSE @]
    <3>1. seen' = [got EXCEPT ![c].told = IF b THEN @ + 1 ELSE @, ![c].tx = IF s THEN @ + 1 ELSE @]
      BY <1>6, <2>1, <2>2, <2>3, Zenon
    <3> QED BY <1>3, <2>4, <3>1
  <2>7. \A k \in Calls : /\ seen'[k].null = h[k].null /\ seen'[k].stored = h[k].stored /\ seen'[k].rx = h[k].rx
                         /\ seen'[k].read = h[k].read /\ seen'[k].told = h[k].told
                         /\ seen'[k].tx = IF k = c /\ CanSend(DC(c)) THEN h[k].tx + 1 ELSE h[k].tx
    BY <2>3, <2>5, <2>6, CountedIf
  <2>8. \A k \in Calls :
          /\ seen'[k].null = seen[k].null /\ seen'[k].rx = seen[k].rx /\ seen'[k].stored = seen[k].stored
          /\ seen'[k].read = IF k = n THEN seen[k].read + 1 ELSE seen[k].read
          /\ k # iDataChannel => seen'[k].told = seen[k].told
          /\ seen'[k].tx = IF k = iDataChannel /\ CanSend(DC(iDataChannel)) THEN seen[k].tx + 1 ELSE seen[k].tx
    BY <1>4, <2>1, <2>5, <2>7
  <2>9. iContinueTransfer' = iContinueTransfer \/ iContinueTransfer' \in Script[iDataChannel].cbk
    BY <1>1, <1>6 DEF AskCallback
  <2> QED BY <1>1, <1>6, <2>8, <2>9
<1>7. \/ fault' \in Faults
      \/ /\ HasCbk(Head(iCmdQ)) /\ ~iContinueTransfer
         /\ dev' = StopSocket([dev EXCEPT ![FL(n)].rd = FALSE], DC(iDataChannel))
         /\ seen' = [seen EXCEPT ![n].read = @ + 1]
         /\ UNCHANGED <<protocol, transfer, removeMark, fault>>
      \/ /\ HasCbk(Head(iCmdQ)) => iContinueTransfer
         /\ iFileDevice # 0 /\ AskCallback(Head(iCmdQ))
         /\ seen' = [[seen EXCEPT ![n].read = @ + 1] EXCEPT
                       ![Head(iCmdQ).call].told = IF HasCbk(Head(iCmdQ)) THEN @ + 1 ELSE @,
                       ![iDataChannel].tx = IF CanSend(DC(iDataChannel)) THEN @ + 1 ELSE @]
         /\ dev' = [dev EXCEPT ![FL(n)].rd = FALSE, ![FL(iFileDevice)].rd = TRUE]
         /\ UNCHANGED <<protocol, iDataChannel, iFileDevice, removeMark>>
  BY Zenon DEF FileRead, SendChunk, Dies, Faults
<1>8. fault' \notin Faults
  BY DEF Faults
<1>9. [[seen EXCEPT ![n].read = @ + 1] EXCEPT
          ![Head(iCmdQ).call].told = IF HasCbk(Head(iCmdQ)) THEN @ + 1 ELSE @,
          ![iDataChannel].tx = IF CanSend(DC(iDataChannel)) THEN @ + 1 ELSE @]
      = [got EXCEPT ![iDataChannel].told = IF HasCbk(Head(iCmdQ)) THEN @ + 1 ELSE @,
                    ![iDataChannel].tx = IF CanSend(DC(iDataChannel)) THEN @ + 1 ELSE @]
  BY <1>1, <1>2, Zenon
<1> QED BY <1>2, <1>5, <1>6, <1>7, <1>8, <1>9, Zenon

----------------------------------------------------------------------------
(* What callbacks are told *)

\* The null buffer goes with the data channel.
LEMMA NullInvStep ==
  ASSUME FinalRepliesOnly, NoStop, DataAfterReply, IInv, TInv, NullInv, [Next]_vars
  PROVE  NullInv'
<1>1. removeMark \subseteq removeMark'
  BY UsedStays
<1>2. ASSUME \A k \in Calls : seen'[k].null = seen[k].null, iDataChannel' \in {0, iDataChannel},
             removeMark' \subseteq removeMark \cup ({CC} \cup {FL(k) : k \in Calls})
      PROVE  NullInv'
  <2>1. \A k \in Calls : seen'[k].null > 0 => DC(k) \in removeMark'
    BY <1>1, <1>2 DEF NullInv
  <2>2. iDataChannel' # 0 => DC(iDataChannel') \notin removeMark'
    BY <1>2, DevicesDiffer DEF NullInv
  <2> QED BY <2>1, <2>2 DEF NullInv
<1>3. CASE Aside
  BY <1>2, <1>3 DEF Aside
<1>4. ASSUME NEW n \in Calls, Opens(n) PROVE NullInv'
  BY <1>4 DEF Opens, Used, NullInv
<1>5. ASSUME NEW n \in Calls, Begins(n) PROVE NullInv'
  BY <1>2, <1>5 DEF Begins
<1>6. CASE Fails
  BY <1>1, <1>6 DEF Fails, NullInv
<1>7. ASSUME NEW n \in Calls, fault = "none", Advances(n) PROVE NullInv'
  <2>1. CASE DcConnect(n) \/ DcWrite(n) \/ DcHandshake(n) \/ FileEof(n) \/ CloseNotify(DC(n)) \/ CloseNotify(FL(n))
    <3>1. UNCHANGED <<seen, iDataChannel>> /\ removeMark' \subseteq removeMark \cup {FL(n)}
      BY <1>7, <2>1 DEF Advances, DcConnect, DcWrite, DcHandshake, FileEof, CloseNotify, transfer, Dies
    <3> QED BY <1>2, <3>1
  <2>2. CASE DcRead(n)
    BY <1>2, <1>7, <2>2, DcReadIs DEF Advances
  <2>3. CASE DcEof(n)
    BY <1>1, <1>7, <2>3, DcEofIs DEF Advances, NullInv
  <2>4. CASE FileRead(n)
    BY <1>2, <1>7, <2>4, FileReadIs DEF Advances
  <2> QED BY <1>7, <2>1, <2>2, <2>3, <2>4 DEF Advances
<1> QED BY <1>3, <1>4, <1>5, <1>6, <1>7, StepCases

\* The front's callback has not been told the end so far.
LEMMA NullIsLastStep ==
  ASSUME FinalRepliesOnly, NoStop, DataAfterReply, IInv, TInv, NullInv, [Next]_vars,
         NEW k \in Calls, seen[k].null > 0
  PROVE  seen'[k].null = seen[k].null /\ seen'[k].told = seen[k].told
<1>1. DC(k) \in removeMark
  BY DEF NullInv
<1>2. ~Listed(DC(k)) /\ iDataChannel # k
  BY <1>1, OwnerOf, QueueTyped DEF NullInv
<1>3. CASE UNCHANGED seen
  BY <1>3
<1>4. ASSUME NEW n \in Calls, fault = "none", Advances(n), ~UNCHANGED seen
      PROVE  seen'[k].null = seen[k].null /\ seen'[k].told = seen[k].told
  <2>1. CASE DcRead(n)
    BY <1>2, <1>4, <2>1, DcReadIs DEF Advances
  <2>2. CASE DcEof(n)
    BY <1>2, <1>4, <2>2, DcEofIs DEF Advances
  <2>3. CASE FileRead(n)
    BY <1>2, <1>4, <2>3, FileReadIs DEF Advances
  <2>4. DcRead(n) \/ DcEof(n) \/ FileRead(n)
    BY <1>4 DEF Advances, DcConnect, DcWrite, DcHandshake, FileEof, CloseNotify, Dies
  <2> QED BY <2>1, <2>2, <2>3, <2>4
<1>5. UNCHANGED seen \/ \E n \in Calls : fault = "none" /\ Advances(n)
  BY StepCases DEF Aside, Opens, Begins, Fails
<1> QED BY <1>3, <1>4, <1>5

\* The null buffer ("no more data") is the last a transfer's callback hears,
\* however the transfer ends.
THEOREM NullEndsTransfer ==
  ASSUME FinalRepliesOnly, NoStop, DataAfterReply
  PROVE  Spec => NullIsLast
<1>1. Init => NullInv
  BY DEF Init, NullInv
<1>2. IInv /\ TInv /\ NullInv /\ [Next]_vars => NullInv'
  BY NullInvStep
<1>3. IInv /\ TInv /\ NullInv /\ [Next]_vars =>
        [\A n \in Calls : seen[n].null > 0 => seen'[n].null = seen[n].null /\ seen'[n].told = seen[n].told]_vars
  BY NullIsLastStep
<1>4. Spec => [](IInv /\ TInv)
  BY TransferInvariance
<1> QED BY <1>1, <1>2, <1>3, <1>4, PTL DEF Spec, NullIsLast

----------------------------------------------------------------------------
(* What an upload sends after a refusal: with Stop and early data too *)

\* The queue stays as it is, and the protocol with its transfer.
LEMMA KeptChannelStep ==
  ASSUME IInv, ChannelInv, UNCHANGED <<iCmdQ, iCmdInProgress, foundEmpty>>, iDataChannel' \in {0, iDataChannel},
         iProtocolState \in TransferStates => iProtocolState' \in TransferStates,
         called' = called \/ called' = called + 1
  PROVE  ChannelInv'
<1>1. \A i \in 1..Len(iCmdQ) : iCmdQ[i].call <= called'
  <2>1. ASSUME NEW n \in Calls, n <= called PROVE n <= called'
    BY <2>1, QueueTyped, ScriptAssumption DEF IInv, Typed, TransferTyped
  <2> QED BY <2>1, QueueTyped DEF ChannelInv, QueueOK
<1>2. QueueOK'
  BY <1>1 DEF ChannelInv, QueueOK
<1>3. ChannelOK' /\ AheadOK'
  BY DEF ChannelInv, ChannelOK, AheadOK, TransferAhead
<1> QED BY <1>2, <1>3 DEF ChannelInv

\* Another queue is served, and no channel is held.
LEMMA ServedChannelStep ==
  ASSUME NEW q \in Seq(Command), Batched(q), \A i \in 1..Len(q) : q[i].call <= called,
         NEW state, NEW w, ProcessNextCmd(q, state, w), iDataChannel' = 0, UNCHANGED called
  PROVE  ChannelInv'
<1>1. iCmdQ' = q /\ iCmdInProgress' = TRUE /\ foundEmpty' = (q = <<>>) /\ iProtocolState' = IF q = <<>> THEN state ELSE ClassOf(Head(q).cmd)
  BY DEF ProcessNextCmd
<1>2. QueueOK' /\ ChannelOK'
  BY <1>1 DEF QueueOK, ChannelOK
<1>3. AheadOK'
  BY <1>1, PasvIsNoTransfer DEF AheadOK, TransferAhead, TransferStates
<1> QED BY <1>2, <1>3 DEF ChannelInv

\* What is left of the queue.
LEMMA ShorterQueue ==
  ASSUME IInv, ChannelInv, NEW m \in {1, 2}, m <= Len(iCmdQ)
  PROVE  LET q == SubSeq(iCmdQ, m + 1, Len(iCmdQ))
         IN q \in Seq(Command) /\ Batched(q) /\ \A i \in 1..Len(q) : q[i].call <= called
<1>1. iCmdQ \in Seq(Command) /\ Len(iCmdQ) \in Nat /\ Batched(iCmdQ) /\ \A i \in 1..Len(iCmdQ) : iCmdQ[i].call <= called
  BY QueueTyped DEF ChannelInv, QueueOK
<1>2. PICK q : q = SubSeq(iCmdQ, m + 1, Len(iCmdQ))
  OBVIOUS
<1>3. q \in Seq(Command) /\ Len(q) = Len(iCmdQ) - m /\ \A i \in 1..Len(q) : q[i] = iCmdQ[i + m]
  BY <1>1, <1>2, SuffixIs
<1>4. Batched(q)
  BY <1>1, <1>2, SuffixBatched
<1>5. \A i \in 1..Len(q) : i + m \in 1..Len(iCmdQ)
  BY <1>1, <1>3
<1> QED BY <1>1, <1>2, <1>3, <1>4, <1>5

\* Commands are retired, and no channel is held.
LEMMA RetiredChannelStep ==
  ASSUME IInv, ChannelInv, NEW m \in {1, 2}, m <= Len(iCmdQ), iDataChannel' = 0, UNCHANGED called,
         NEW state, NEW w, SkipCommand(m, state, w)
  PROVE  ChannelInv'
<1>1. PICK q : q = SubSeq(iCmdQ, m + 1, Len(iCmdQ))
  OBVIOUS
<1>2. q \in Seq(Command) /\ Batched(q) /\ \A i \in 1..Len(q) : q[i].call <= called
  BY <1>1, ShorterQueue
<1>3. ProcessNextCmd(q, state, w)
  BY <1>1 DEF SkipCommand
<1> QED BY <1>2, <1>3, ServedChannelStep

\* Outside the states of a transfer no channel is held.
LEMMA NoChannel ==
  ASSUME ChannelInv, iProtocolState \notin TransferStates
  PROVE  iDataChannel = 0
BY DEF ChannelInv, ChannelOK, AheadOK

\* PASV is accepted: the channel is that of the transfer behind it.
LEMMA PasvChannel ==
  ASSUME IInv, ChannelInv, AtReply, iProtocolState = "PASV", ProcessPasvResponse(<<>>), UNCHANGED called
  PROVE  ChannelInv'
<1>1. iCmdQ # <<>> /\ Head(iCmdQ) = Head(wire) /\ ClassOf(Head(wire).cmd) = "PASV"
  BY Awaited DEF IInv, AtReply, LoginSteps
<1>2. /\ iCmdQ \in Seq(Command) /\ Len(iCmdQ) \in Nat /\ 1 \in 1..Len(iCmdQ) /\ Head(iCmdQ) = iCmdQ[1]
      /\ iCmdQ[1].cmd = "PASV" /\ Batched(iCmdQ)
  BY <1>1, QueueTyped DEF ClassOf, ChannelInv, QueueOK
<1>3. 1 < Len(iCmdQ) /\ IsTransferCommand(iCmdQ[1 + 1].cmd) /\ iCmdQ[1 + 1].call = iCmdQ[1].call
  BY <1>2 DEF Batched
<1>4. PICK q : q = SubSeq(iCmdQ, 1 + 1, Len(iCmdQ))
  OBVIOUS
<1>5. q \in Seq(Command) /\ Batched(q) /\ \A i \in 1..Len(q) : q[i].call <= called
  BY <1>3, <1>4, ShorterQueue
<1>6. Len(q) = Len(iCmdQ) - 1 /\ (q # <<>> => Head(q) = iCmdQ[1 + 1])
  BY <1>2, <1>3, <1>4, SuffixIs
<1>7. q # <<>>
  BY <1>2, <1>3, <1>5, <1>6
<1>8. iCmdQ' = q /\ iCmdInProgress' /\ ~foundEmpty' /\ iProtocolState' = ClassOf(Head(q).cmd) /\ iDataChannel' = Head(iCmdQ).call
  BY <1>4, <1>7 DEF ProcessPasvResponse, OpenDataChannel, SkipCommand, ProcessNextCmd
<1>9. QueueOK'
  BY <1>5, <1>8 DEF QueueOK
<1>10. ChannelOK' /\ AheadOK'
  BY <1>2, <1>3, <1>6, <1>7, <1>8, PasvIsNoTransfer DEF ChannelOK, AheadOK, TransferAhead, TransferStates
<1> QED BY <1>9, <1>10 DEF ChannelInv

\* A login that is over.
LEMMA LoginChannel ==
  ASSUME IInv, ChannelInv, iProtocolState = "PASS", UNCHANGED called,
         NEW status \in BOOLEAN, NEW state, ProcessLoginEvent(status, state, <<>>)
  PROVE  ChannelInv'
<1>1. iDataChannel' = 0
  BY NoChannel DEF ProcessLoginEvent, transfer, TransferStates
<1>2. CASE status
  <2>1. ProcessNextCmd(iCmdQ, state, <<>>)
    BY <1>2, Zenon DEF ProcessLoginEvent
  <2>2. PICK q : q = iCmdQ
    OBVIOUS
  <2>3. q \in Seq(Command) /\ Batched(q) /\ \A i \in 1..Len(q) : q[i].call <= called
    BY <2>2, QueueTyped DEF ChannelInv, QueueOK
  <2> QED BY <1>1, <2>1, <2>2, <2>3, ServedChannelStep
<1>3. CASE ~status
  <2>1. PICK q : q = <<>>
    OBVIOUS
  <2>2. ProcessNextCmd(q, state, <<>>)
    BY <1>3, <2>1, Zenon DEF ProcessLoginEvent
  <2>3. q \in Seq(Command) /\ Len(q) = 0
    BY <2>1
  <2>4. Batched(q) /\ \A i \in 1..Len(q) : q[i].call <= called
    BY <2>3 DEF Batched
  <2> QED BY <1>1, <2>2, <2>3, <2>4, ServedChannelStep
<1> QED BY <1>2, <1>3

\* A reply that retires commands.
LEMMA RetiringChannel ==
  ASSUME IInv, ChannelInv, AtReply, UNCHANGED called,
         \/ iProtocolState = "GEN" /\ \E code : ProcessGenCmdEvent(code, <<>>)
         \/ iProtocolState = "PASV" /\ \E state : SkipTransfer(state, <<>>)
         \/ iProtocolState = "1yz" /\ CompleteTransfer(<<>>)
         \/ iProtocolState \in {"DATA", "1yz"} /\ FailTransfer(<<>>)
  PROVE  ChannelInv'
<1>1. iCmdQ # <<>> /\ Head(iCmdQ) = Head(wire) /\ iProtocolState = IF prelim THEN "1yz" ELSE ClassOf(Head(wire).cmd)
  BY Awaited DEF IInv, AtReply, LoginSteps
<1>2. 1 <= Len(iCmdQ) /\ Len(iCmdQ) \in Nat /\ 1 \in 1..Len(iCmdQ) /\ Head(iCmdQ) = iCmdQ[1]
  BY <1>1, QueueTyped
<1>3. iProtocolState = "PASV" => 2 <= Len(iCmdQ)
  BY <1>1, <1>2 DEF ClassOf, ChannelInv, QueueOK, Batched
<1>4. ASSUME NEW code, iProtocolState = "GEN", ProcessGenCmdEvent(code, <<>>) PROVE ChannelInv'
  <2>1. iDataChannel' = 0 /\ SkipCommand(1, "READY", <<>>)
    BY <1>4, NoChannel DEF ProcessGenCmdEvent, TransferStates
  <2> QED BY <1>2, <2>1, RetiredChannelStep
<1>5. ASSUME NEW state, iProtocolState = "PASV", SkipTransfer(state, <<>>) PROVE ChannelInv'
  <2>1. iDataChannel' = 0 /\ SkipCommand(2, state, <<>>)
    BY <1>5, NoChannel DEF SkipTransfer, transfer, TransferStates
  <2> QED BY <1>3, <1>5, <2>1, RetiredChannelStep
<1>6. CASE iProtocolState = "1yz" /\ CompleteTransfer(<<>>)
  <2>1. CASE iDataChannel = 0
    <3>1. iDataChannel' = 0 /\ SkipCommand(1, "xyz", <<>>)
      BY <1>6, <2>1 DEF CompleteTransfer, transfer
    <3> QED BY <1>2, <3>1, RetiredChannelStep
  <2>2. CASE iDataChannel # 0
    <3>1. UNCHANGED <<iCmdQ, iCmdInProgress, foundEmpty, iDataChannel>> /\ iProtocolState' = "xyz"
      BY <1>6, <2>2 DEF CompleteTransfer, Plain, transfer
    <3> QED BY <3>1, KeptChannelStep DEF TransferStates
  <2> QED BY <2>1, <2>2
<1>7. CASE FailTransfer(<<>>)
  <2>1. iDataChannel' = 0 /\ SkipCommand(1, "xyz", <<>>)
    BY <1>7 DEF FailTransfer, ResetBoth
  <2> QED BY <1>2, <2>1, RetiredChannelStep
<1> QED BY <1>4, <1>5, <1>6, <1>7

\* A reply that leaves the queue as it is.
LEMMA PlainChannel ==
  ASSUME IInv, ChannelInv, NEW state, NEW w, Plain(state, w), UNCHANGED called,
         iProtocolState \in TransferStates => state \in TransferStates
  PROVE  ChannelInv'
<1>1. UNCHANGED <<iCmdQ, iCmdInProgress, foundEmpty, iDataChannel>> /\ iProtocolState' = state
  BY DEF Plain, transfer
<1> QED BY <1>1, KeptChannelStep

\* Every reply.
LEMMA ReplyChannel ==
  ASSUME FinalRepliesOnly, IInv, ChannelInv, NEW code \in Codes, OnControlRead(code)
  PROVE  ChannelInv'
<1>1. CASE code = "1"
  <2>1. UNCHANGED called
    BY <1>1, PreliminaryCases
  <2>2. CASE Plain(iProtocolState, wire)
    BY <2>1, <2>2, PlainChannel
  <2>3. CASE BeginTransfer(wire) /\ iProtocolState = "DATA"
    <3>1. UNCHANGED <<iCmdQ, iCmdInProgress, foundEmpty, iDataChannel>> /\ iProtocolState' \in {"DATA", "1yz"}
      BY <2>3 DEF BeginTransfer, Dies, protocol, transfer
    <3> QED BY <2>1, <3>1, KeptChannelStep DEF TransferStates
  <2> QED BY <1>1, <2>2, <2>3, PreliminaryCases
<1>2. CASE code # "1"
  <2>1. AtReply /\ UNCHANGED called
    BY <1>2, FinalCases
  <2>2. CASE Plain(iProtocolState, <<>>)
    BY <2>1, <2>2, PlainChannel
  <2>3. CASE iProtocolState \notin TransferStates /\ \E state : \E w : Plain(state, w)
    BY <2>1, <2>3, PlainChannel
  <2>4. CASE iProtocolState = "AUTH" /\ DoCCHandshake(<<>>)
    <3>1. UNCHANGED <<iCmdQ, iCmdInProgress, foundEmpty, iDataChannel>> /\ iProtocolState \notin TransferStates
      BY <2>4 DEF DoCCHandshake, transfer, TransferStates
    <3> QED BY <2>1, <3>1, KeptChannelStep
  <2>5. CASE /\ iProtocolState = "PASS"
             /\ \E status \in BOOLEAN, state \in States \ {"1yz"} : ProcessLoginEvent(status, state, <<>>)
    BY <2>1, <2>5, LoginChannel
  <2>6. CASE \/ iProtocolState = "GEN" /\ ProcessGenCmdEvent(code, <<>>)
             \/ iProtocolState = "PASV" /\ \E state \in States \ {"1yz"} : SkipTransfer(state, <<>>)
             \/ iProtocolState = "1yz" /\ CompleteTransfer(<<>>)
             \/ iProtocolState \in {"DATA", "1yz"} /\ FailTransfer(<<>>)
    BY <2>1, <2>6, RetiringChannel
  <2>7. CASE iProtocolState = "PASV" /\ ProcessPasvResponse(<<>>)
    BY <2>1, <2>7, PasvChannel
  <2>8. iProtocolState \in {"CONNECTED", "AUTH", "USER", "PASS"} => iProtocolState \notin TransferStates
    BY DEF TransferStates
  <2> QED BY <1>2, <2>2, <2>3, <2>4, <2>5, <2>6, <2>7, <2>8, FinalCases
<1> QED BY <1>1, <1>2

\* A call appends its commands; Stop forgets the channel.
LEMMA CallChannel ==
  ASSUME IInv, ChannelInv, ApiCall
  PROVE  ChannelInv'
<1>1. PICK n \in Calls : n = called + 1 /\ called' = n
  BY ScriptAssumption DEF ApiCall, IInv, Typed, TransferTyped, Calls
<1>2. CASE Script[n].api = "Stop"
  BY <1>1, <1>2, KeptChannelStep DEF ApiCall, Stop, protocol
<1>3. CASE Script[n].api # "Stop"
  <2>1. Enqueue(n) /\ UNCHANGED iDataChannel /\ Script[n].api \in Apis
    BY <1>1, <1>3, ScriptFields DEF ApiCall, transfer
  <2>2. PICK q \in Seq(Command), b \in Seq(Command), r \in Seq(Command) :
          /\ Appends(n, q, b, r) /\ iCmdQ' = r
          /\ IF iCmdInProgress THEN UNCHANGED <<iCmdInProgress, foundEmpty, iProtocolState, wire>>
             ELSE iProtocolState' = ClassOf(Head(r).cmd)
    BY <1>1, <2>1, CallAppends DEF ChannelInv
  <2>3. /\ q = iCmdQ /\ Batched(r) /\ r # <<>> /\ ~IsTransferCommand(b[1].cmd) /\ \A i \in 1..Len(r) : r[i].call <= n
        /\ Head(r) = IF q = <<>> THEN b[1] ELSE Head(q)
    BY <2>2 DEF Appends
  <2>4. ~iCmdInProgress => iDataChannel = 0 /\ ~TransferAhead
    BY DEF ChannelInv, ChannelOK, AheadOK
  <2>5. QueueOK'
    BY <1>1, <2>2, <2>3 DEF QueueOK
  <2>6. ChannelOK' /\ AheadOK'
    <3>1. CASE q = <<>>
      BY <2>1, <2>2, <2>3, <3>1 DEF ChannelInv, ChannelOK, AheadOK, TransferAhead
    <3>2. CASE q # <<>>
      BY <2>1, <2>2, <2>3, <2>4, <3>2 DEF ChannelInv, ChannelOK, AheadOK, TransferAhead
    <3> QED BY <3>1, <3>2
  <2> QED BY <2>5, <2>6 DEF ChannelInv
<1> QED BY <1>2, <1>3

\* The control channel connects, ends its handshake, is lost.
LEMMA ControlChannel ==
  ASSUME IInv, ChannelInv, ControlConnect \/ ControlHandshake \/ ControlEof
  PROVE  ChannelInv'
<1>1. UNCHANGED <<iCmdQ, iCmdInProgress, foundEmpty, iDataChannel, called>>
  BY DEF ControlConnect, ControlHandshake, ControlEof, Dies, protocol, transfer
<1>2. iProtocolState \in TransferStates => iProtocolState' \in TransferStates
  <2>1. CASE ControlConnect
    BY <2>1 DEF ControlConnect, IInv, Dialogue, ControlOK, TransferStates
  <2>2. CASE ControlHandshake
    BY <2>2 DEF ControlHandshake, Reading, IInv, Dialogue, ControlOK, TransferStates
  <2>3. CASE ControlEof
    BY <2>3 DEF ControlEof, Dies, protocol, TransferStates
  <2> QED BY <2>1, <2>2, <2>3
<1> QED BY <1>1, <1>2, KeptChannelStep

\* Data channels and files.
LEMMA TransferChannel ==
  ASSUME IInv, ChannelInv,
         \/ OtherCompletion \/ \E d \in Devices : CloseNotify(d)
         \/ \E n \in Calls : DcConnect(n) \/ DcWrite(n) \/ DcHandshake(n) \/ DcRead(n) \/ DcEof(n) \/ FileRead(n) \/ FileEof(n)
  PROVE  ChannelInv'
<1>1. CASE OtherCompletion \/ \E d \in Devices : CloseNotify(d)
  BY <1>1, KeptChannelStep DEF OtherCompletion, CloseNotify, protocol, transfer
<1>2. ASSUME NEW n \in Calls, DcConnect(n) \/ DcWrite(n) \/ DcHandshake(n) \/ FileEof(n) PROVE ChannelInv'
  <2>1. UNCHANGED <<iCmdQ, iCmdInProgress, foundEmpty, iProtocolState, iDataChannel, called>>
    BY <1>2 DEF DcConnect, DcWrite, DcHandshake, FileEof, Dies, protocol, transfer
  <2> QED BY <2>1, KeptChannelStep
<1>3. ASSUME NEW n \in Calls, DcRead(n) \/ FileRead(n) PROVE ChannelInv'
  <2>1. UNCHANGED <<iCmdQ, iCmdInProgress, foundEmpty, iProtocolState, iDataChannel, called>>
    BY <1>3 DEF DcRead, FileRead, SendChunk, Dies, protocol, transfer
  <2> QED BY <2>1, KeptChannelStep
<1>4. ASSUME NEW n \in Calls, DcEof(n) PROVE ChannelInv'
  <2>1. CASE ~SentShutdown(DC(n)) \/ iCmdQ = <<>>
    BY <1>4, <2>1, KeptChannelStep DEF DcEof, Dies, protocol, transfer
  <2>2. CASE SentShutdown(DC(n)) /\ iCmdQ # <<>>
    <3>1. iDataChannel' = 0 /\ UNCHANGED called /\ IF FinalReplySeen THEN SkipCommand(1, "xyz", wire) ELSE UNCHANGED protocol
      BY <1>4, <2>2 DEF DcEof, ResetBoth
    <3>2. 1 <= Len(iCmdQ)
      BY <2>2, QueueTyped
    <3>3. CASE FinalReplySeen
      BY <3>1, <3>2, <3>3, RetiredChannelStep
    <3>4. CASE ~FinalReplySeen
      BY <3>1, <3>4, KeptChannelStep DEF protocol
    <3> QED BY <3>3, <3>4
  <2> QED BY <2>1, <2>2
<1> QED BY <1>1, <1>2, <1>3, <1>4

\* At any time, with Stop and early data too, a channel that is held is the one
\* of the transfer in front.
LEMMA ChannelInvariance == ASSUME FinalRepliesOnly PROVE Spec => []ChannelInv
<1>1. Init => ChannelInv
  <2> SUFFICES ASSUME Init PROVE ChannelInv
    OBVIOUS
  <2>1. PICK q : q = iCmdQ
    OBVIOUS
  <2>2. Len(q) = 0 /\ q = <<>> /\ iDataChannel = 0
    BY <2>1 DEF Init
  <2>3. QueueOK
    BY <2>1, <2>2 DEF QueueOK, Batched
  <2>4. ChannelOK /\ AheadOK
    BY <2>1, <2>2 DEF ChannelOK, AheadOK, TransferAhead
  <2> QED BY <2>3, <2>4 DEF ChannelInv
<1>2. ASSUME IInv, ChannelInv, [Next]_vars PROVE ChannelInv'
  <2>1. CASE UNCHANGED vars \/ StartClient
    BY <1>2, <2>1, KeptChannelStep DEF vars, StartClient, protocol, transfer
  <2>2. CASE ApiCall
    BY <1>2, <2>2, CallChannel
  <2>3. CASE ControlConnect \/ ControlHandshake \/ ControlEof
    BY <1>2, <2>3, ControlChannel
  <2>4. ASSUME NEW code \in Codes, OnControlRead(code) PROVE ChannelInv'
    BY <1>2, <2>4, ReplyChannel
  <2>6. CASE GiveUp
    BY <1>2, <2>6 DEF GiveUp, transfer, ChannelInv, QueueOK, ChannelOK, AheadOK, TransferAhead
  <2>5. CASE \/ OtherCompletion \/ \E d \in Devices : CloseNotify(d)
             \/ \E n \in Calls : DcConnect(n) \/ DcWrite(n) \/ DcHandshake(n) \/ DcRead(n) \/ DcEof(n) \/ FileRead(n) \/ FileEof(n)
    BY <1>2, <2>5, TransferChannel
  <2> QED BY <1>2, <2>1, <2>2, <2>3, <2>4, <2>5, <2>6 DEF Next, Completion
<1>3. Spec => []IInv
  BY Invariance
<1> QED BY <1>1, <1>2, <1>3, PTL DEF Spec

\* If only a connection and transfers have preliminary replies, the data channel
\* that is held is that of the transfer in front, with the flag taken, in every
\* state of every session: with calls left behind, Stop, lost connections and
\* early data.
THEOREM ChannelOfFront == ASSUME FinalRepliesOnly PROVE Spec => []ChannelIsFronts
<1>1. ChannelInv => ChannelIsFronts
  BY DEF ChannelInv, ChannelOK, AheadOK, TransferAhead, ChannelIsFronts
<1>2. Spec => []ChannelInv
  BY ChannelInvariance
<1> QED BY <1>1, <1>2, PTL

\* Data that arrives, and its end, send nothing.
LEMMA ReceivingSends ==
  ASSUME IInv, NEW n \in Calls, DcRead(n) \/ DcEof(n), NEW k \in Calls
  PROVE  seen'[k].tx = seen[k].tx
<1>1. seen \in [Calls -> History] /\ (iFileDevice # 0 => iFileDevice \in Calls)
      /\ (iCmdQ # <<>> => Head(iCmdQ).call \in Calls)
  BY StaysTyped, QueueTyped
<1>2. CASE DcEof(n)
  <2>1. seen' = seen \/ (iCmdQ # <<>> /\ seen' = [seen EXCEPT ![Head(iCmdQ).call].null = @ + 1])
    BY <1>2 DEF DcEof, Dies
  <2>2. ASSUME NEW c \in Calls, seen' = [seen EXCEPT ![c].null = @ + 1] PROVE seen'[k].tx = seen[k].tx
    BY <1>1, <2>2, Counted
  <2> QED BY <1>1, <2>1, <2>2
<1>3. CASE DcRead(n)
  <2>1. PICK got : got = [seen EXCEPT ![n].rx = @ + 1]
    OBVIOUS
  <2>2. got \in [Calls -> History] /\ got[k].tx = seen[k].tx
    <3>1. seen[n].rx < MaxChunks
      BY <1>3 DEF DcRead
    <3>2. got \in [Calls -> History]
      BY <1>1, <2>1, <3>1, Counting
    <3> QED BY <1>1, <2>1, <3>2, Counted
  <2>3. ASSUME NEW h \in [Calls -> History], h[k].tx = seen[k].tx, Store(h) PROVE seen'[k].tx = seen[k].tx
    <3>1. seen' = h \/ (iFileDevice # 0 /\ seen' = [h EXCEPT ![iFileDevice].stored = @ + 1])
      BY <2>3 DEF Store
    <3>2. ASSUME NEW f \in Calls, seen' = [h EXCEPT ![f].stored = @ + 1] PROVE seen'[k].tx = seen[k].tx
      BY <2>3, <3>2, Counted
    <3> QED BY <1>1, <2>3, <3>1, <3>2
  <2>4. ASSUME iCmdQ # <<>> PROVE LET h == [got EXCEPT ![Head(iCmdQ).call].told = @ + 1]
                                  IN h \in [Calls -> History] /\ h[k].tx = seen[k].tx
    <3>1. PICK c \in Calls : c = Head(iCmdQ).call
      BY <1>1, <2>4
    <3>2. PICK h : h = [got EXCEPT ![c].told = @ + 1]
      OBVIOUS
    <3>3. h \in [Calls -> History]
      BY <2>2, <3>2, Counting
    <3>4. h[k].tx = got[k].tx
      BY <2>2, <3>2, Counted
    <3> QED BY <2>2, <3>1, <3>2, <3>3, <3>4
  <2>5. \/ seen' = seen \/ seen' = got \/ Store(got)
        \/ iCmdQ # <<>> /\ Store([got EXCEPT ![Head(iCmdQ).call].told = @ + 1])
    BY <1>3, <2>1, Zenon DEF DcRead, Dies
  <2> QED BY <2>2, <2>3, <2>4, <2>5
<1> QED BY <1>2, <1>3

\* A chunk goes out on the channel of the front, whose callback wants more.
LEMMA ChunkIsWanted ==
  ASSUME IInv, ChannelInv, NEW n \in Calls, FileRead(n), ~iContinueTransfer, NEW k \in Calls, Script[k].cbk # {}
  PROVE  seen'[k].tx = seen[k].tx
<1>1. CASE seen' = seen
  BY <1>1
<1>2. CASE seen' # seen
  <2>1. PICK got : got = [seen EXCEPT ![n].read = @ + 1]
    OBVIOUS
  <2>2. /\ iDataChannel # 0 /\ seen[n].read < MaxChunks
        /\ \/ HasCbk(Head(iCmdQ)) /\ seen' = got
           \/ /\ ~HasCbk(Head(iCmdQ))
              /\ seen' = [got EXCEPT ![Head(iCmdQ).call].told = IF HasCbk(Head(iCmdQ)) THEN @ + 1 ELSE @,
                                     ![iDataChannel].tx = IF CanSend(DC(iDataChannel)) THEN @ + 1 ELSE @]
    <3>1. seen[n].read < MaxChunks
      BY DEF FileRead
    <3>2. iDataChannel # 0
      BY <1>2, Zenon DEF FileRead, SendChunk, Dies
    <3>3. CASE HasCbk(Head(iCmdQ))
      <4>1. seen' = [seen EXCEPT ![n].read = @ + 1]
        BY <1>2, <3>3, Zenon DEF FileRead, SendChunk, Dies
      <4> QED BY <2>1, <3>1, <3>2, <3>3, <4>1
    <3>4. CASE ~HasCbk(Head(iCmdQ))
      <4>1. LET h == [seen EXCEPT ![n].read = @ + 1]
            IN seen' = [h EXCEPT ![Head(iCmdQ).call].told = IF HasCbk(Head(iCmdQ)) THEN @ + 1 ELSE @,
                                 ![iDataChannel].tx = IF CanSend(DC(iDataChannel)) THEN @ + 1 ELSE @]
        BY <1>2, <3>4, Zenon DEF FileRead, SendChunk, Dies
      <4> QED BY <2>1, <3>1, <3>2, <3>4, <4>1, SMTT(40)
    <3> QED BY <3>3, <3>4
  <2>3. PICK c \in Calls : c = iDataChannel /\ c = Head(iCmdQ).call
    BY <2>2, QueueTyped DEF ChannelInv, ChannelOK, TransferAhead
  <2>4. got \in [Calls -> History] /\ got[k].tx = seen[k].tx
    <3>1. seen \in [Calls -> History]
      BY StaysTyped
    <3>2. got \in [Calls -> History]
      BY <2>1, <2>2, <3>1, Counting
    <3> QED BY <2>1, <3>1, <3>2, Counted
  <2>5. CASE HasCbk(Head(iCmdQ))
    BY <2>2, <2>4, <2>5
  <2>6. CASE ~HasCbk(Head(iCmdQ))
    <3>1. k # c
      BY <2>3, <2>6, QueueTyped DEF HasCbk
    <3>2. PICK s \in BOOLEAN : s = CanSend(DC(c))
      BY Zenon DEF CanSend
    <3>3. PICK b \in BOOLEAN : b = HasCbk(Head(iCmdQ))
      BY Zenon DEF HasCbk
    <3>4. PICK h : h = [got EXCEPT ![c].told = IF b THEN @ + 1 ELSE @]
      OBVIOUS
    <3>5. h \in [Calls -> History] /\ h[k].tx = got[k].tx
      BY <2>4, <3>4, CountedIf
    <3>6. seen' = [got EXCEPT ![c].told = IF b THEN @ + 1 ELSE @, ![c].tx = IF s THEN @ + 1 ELSE @]
      BY <2>2, <2>3, <2>6, <3>2, <3>3, Zenon
    <3>7. seen' = [h EXCEPT ![c].tx = IF s THEN @ + 1 ELSE @]
      BY <2>4, <3>4, <3>6
    <3>8. seen'[k].tx = h[k].tx
      BY <3>1, <3>5, <3>7, CountedIf
    <3> QED BY <2>4, <3>5, <3>8
  <2> QED BY <2>5, <2>6
<1> QED BY <1>1, <1>2

\* No other step sends.
LEMMA RefusedStep ==
  ASSUME FinalRepliesOnly, IInv, ChannelInv, [Next]_vars, ~iContinueTransfer, NEW k \in Calls, Script[k].cbk # {}
  PROVE  seen'[k].tx = seen[k].tx
<1>1. CASE UNCHANGED seen
  BY <1>1
<1>2. ASSUME NEW n \in Calls, DcRead(n) \/ DcEof(n) PROVE seen'[k].tx = seen[k].tx
  BY <1>2, ReceivingSends
<1>3. ASSUME NEW n \in Calls, FileRead(n) PROVE seen'[k].tx = seen[k].tx
  BY <1>3, ChunkIsWanted
<1>4. ASSUME NEW code \in Codes, OnControlRead(code) PROVE UNCHANGED seen
  <2>1. CASE code = "1"
    BY <1>4, <2>1, PreliminaryCases DEF Plain, BeginTransfer, Dies
  <2>2. CASE code # "1"
    <3>1. ASSUME NEW state, NEW w, Plain(state, w) PROVE UNCHANGED seen
      BY <3>1 DEF Plain
    <3>2. ASSUME NEW status, NEW state, ProcessLoginEvent(status, state, <<>>) PROVE UNCHANGED seen
      BY <3>2 DEF ProcessLoginEvent
    <3>3. ASSUME \/ DoCCHandshake(<<>>) \/ ProcessGenCmdEvent(code, <<>>) \/ ProcessPasvResponse(<<>>)
                 \/ CompleteTransfer(<<>>) \/ FailTransfer(<<>>) \/ \E state : SkipTransfer(state, <<>>)
          PROVE  UNCHANGED seen
      BY <3>1, <3>3 DEF DoCCHandshake, ProcessGenCmdEvent, ProcessPasvResponse, CompleteTransfer, FailTransfer, SkipTransfer
    <3> QED BY <1>4, <2>2, <3>1, <3>2, <3>3, FinalCases
  <2> QED BY <2>1, <2>2
<1>5. \/ UNCHANGED seen \/ \E code \in Codes : OnControlRead(code)
      \/ \E n \in Calls : DcRead(n) \/ DcEof(n) \/ FileRead(n)
  <2>1. CASE \/ UNCHANGED vars \/ StartClient \/ ApiCall \/ GiveUp \/ OtherCompletion
             \/ \E d \in Devices : CloseNotify(d)
    BY <2>1 DEF vars, StartClient, ApiCall, GiveUp, OtherCompletion, CloseNotify
  <2>2. CASE ControlConnect \/ ControlHandshake \/ ControlEof
    BY <2>2 DEF ControlConnect, ControlHandshake, ControlEof, Dies
  <2>3. CASE \E n \in Calls : DcConnect(n) \/ DcWrite(n) \/ DcHandshake(n) \/ FileEof(n)
    BY <2>3 DEF DcConnect, DcWrite, DcHandshake, FileEof, Dies
  <2> QED BY <2>1, <2>2, <2>3 DEF Next, Completion
<1> QED BY <1>1, <1>2, <1>3, <1>4, <1>5

\* "Returning false from this callback closes the transfer": no chunk of a file
\* goes out after the refusal, whatever the server and the network do and
\* whenever the application calls Stop.
THEOREM RefusalEndsSending ==
  ASSUME FinalRepliesOnly
  PROVE  Spec => RefusedSendsNoMore
<1>1. IInv /\ ChannelInv /\ [Next]_vars =>
        [~iContinueTransfer /\ ~iContinueTransfer' =>
           \A n \in Calls : Script[n].cbk # {} => seen'[n].tx = seen[n].tx]_vars
  BY RefusedStep
<1>2. Spec => []IInv
  BY Invariance
<1>3. Spec => []ChannelInv
  BY ChannelInvariance
<1> QED BY <1>1, <1>2, <1>3, PTL DEF Spec, RefusedSendsNoMore

----------------------------------------------------------------------------
(* Downloads *)

\* Only the peer's close_notify closes our side of the control channel.
LEMMA ControlShut ==
  ASSUME FinalRepliesOnly, NoStop, DataAfterReply, IInv, TInv, [Next]_vars
  PROVE  dev'[CC].shut = dev[CC].shut \/ PeerCloses(CC)
<1>1. dev \in [Devices -> DeviceState] /\ CC \in Devices
  BY StaysTyped, DevicesDiffer
<1>2. CASE UNCHANGED dev
  BY <1>2
<1>3. ASSUME NEW v, \/ dev' = [dev EXCEPT ![CC].conn = v] \/ dev' = [dev EXCEPT ![CC].ssl = v]
      PROVE  dev'[CC].shut = dev[CC].shut
  BY <1>1, <1>3 DEF DeviceState
<1>4. CASE StartClient \/ ControlHandshake \/ ControlEof
  BY <1>2, <1>3, <1>4 DEF StartClient, StartSocketClient, ControlHandshake, ControlEof, Dies
<1>5. CASE ControlConnect
  BY <1>1, <1>5 DEF ControlConnect, DeviceState
<1>6. CASE ApiCall
  <2>1. UNCHANGED dev
    BY <1>6, ScriptAssumption DEF ApiCall, NoStop, IInv, Typed, TransferTyped, Calls
  <2> QED BY <2>1
<1>7. CASE UNCHANGED vars \/ OtherCompletion \/ GiveUp
  BY <1>7 DEF vars, OtherCompletion, GiveUp
<1>8. ASSUME NEW d \in Devices, CloseNotify(d) PROVE dev'[CC].shut = dev[CC].shut \/ PeerCloses(CC)
  BY <1>1, <1>8, StopSocketProperties DEF CloseNotify
<1>9. ASSUME NEW n \in Calls, Opens(n) \/ Begins(n) \/ (fault = "none" /\ Advances(n)) PROVE dev'[CC] = dev[CC]
  <2>1. CC # DC(n) /\ CC # FL(n) /\ DC(n) \in Devices /\ FL(n) \in Devices
    BY DevicesDiffer
  <2>2. CASE Opens(n)
    BY <1>1, <2>1, <2>2, SetOthers DEF Opens
  <2>3. CASE Begins(n)
    <3>1. PICK opened : /\ opened = IF Script[n].local THEN [dev EXCEPT ![FL(n)].conn = "open"] ELSE dev
                        /\ dev' = IF iDCProt = "Protected" THEN Handshaking(opened, n)
                                  ELSE TriggerDataTransfer(opened, n)
      BY <2>3 DEF Begins
    <3>2. opened \in [Devices -> DeviceState] /\ opened[CC] = dev[CC]
      BY <1>1, <2>1, <3>1, Moved
    <3>3. Handshaking(opened, n)[CC] = opened[CC]
      BY <3>2, HandshakingProperties
    <3>4. TriggerDataTransfer(opened, n)[CC] = opened[CC]
      BY <2>3, <3>2, TriggerProperties DEF Begins
    <3> QED BY <3>1, <3>2, <3>3, <3>4
  <2>4. CASE fault = "none" /\ Advances(n)
    <3>1. CASE DcConnect(n)
      BY <1>1, <2>1, <2>4, <3>1, SetOthers DEF DcConnect, Dies, Advances
    <3>2. CASE DcHandshake(n)
      <4>1. PICK g : g = [dev EXCEPT ![DC(n)].ssl = "up"]
        OBVIOUS
      <4>2. g \in [Devices -> DeviceState] /\ g[CC] = dev[CC]
        BY <1>1, <2>1, <4>1, Moved
      <4>3. iCmdQ # <<>> /\ (Head(iCmdQ).cmd = "STOR" => iFileDevice \in Calls) /\ dev' = TriggerDataTransfer(g, iFileDevice)
        BY <2>4, <3>2, <4>1, StaysTyped DEF Advances, DcHandshake, Dies
      <4> QED BY <4>2, <4>3, TriggerProperties
    <3>3. CASE DcRead(n)
      BY <2>4, <3>3, DcReadIs DEF Advances
    <3>4. CASE DcEof(n)
      BY <1>1, <2>1, <2>4, <3>4, DcEofIs, SetOthers DEF Advances
    <3>5. CASE FileRead(n)
      <4>1. PICK g : g = [dev EXCEPT ![FL(n)].rd = FALSE]
        OBVIOUS
      <4>2. g \in [Devices -> DeviceState] /\ g[CC] = dev[CC]
        BY <1>1, <2>1, <4>1, SetField, SetOthers
      <4>3. /\ iDataChannel \in Calls
            /\ \/ dev' = StopSocket(g, DC(iDataChannel))
               \/ iFileDevice \in Calls /\ dev' = [g EXCEPT ![FL(iFileDevice)].rd = TRUE]
        BY <2>4, <3>5, <4>1, FileReadIs DEF Advances
      <4> QED BY <4>2, <4>3, DevicesDiffer, StopSocketProperties, SetOthers
    <3>6. CASE FileEof(n)
      <4>1. PICK f : f = [dev EXCEPT ![FL(n)].conn = "closed"]
        OBVIOUS
      <4>2. PICK g : g = [f EXCEPT ![FL(n)].rd = FALSE]
        OBVIOUS
      <4>3. g \in [Devices -> DeviceState] /\ g[CC] = dev[CC]
        <5>1. f \in [Devices -> DeviceState] /\ f[CC] = dev[CC]
          BY <1>1, <2>1, <4>1, Moved
        <5>2. g \in [Devices -> DeviceState]
          BY <2>1, <4>2, <5>1, SetField
        <5> QED BY <1>1, <2>1, <4>2, <5>1, <5>2, SetOthers
      <4>4. iDataChannel \in Calls /\ dev' = StopSocket(g, DC(iDataChannel))
        BY <1>1, <2>1, <2>4, <3>6, <4>1, <4>2, StaysTyped DEF Advances, FileEof, Dies
      <4> QED BY <4>3, <4>4, DevicesDiffer, StopSocketProperties
    <3>7. CASE CloseNotify(DC(n)) \/ CloseNotify(FL(n))
      BY <1>1, <2>1, <3>7, StopSocketProperties DEF CloseNotify
    <3> QED BY <2>4, <3>1, <3>2, <3>3, <3>4, <3>5, <3>6, <3>7 DEF Advances
  <2> QED BY <1>9, <2>2, <2>3, <2>4
<1>10. ASSUME NEW why, Dies(why) PROVE UNCHANGED dev
  BY <1>10 DEF Dies
<1>11. ASSUME NEW code \in Codes, OnControlRead(code) PROVE dev'[CC].shut = dev[CC].shut
  <2>1. Reading(CC) /\ ~quit /\ ServerReady(Head(wire), code)
    BY <1>11, Zenon DEF OnControlRead
  <2>2. ASSUME NEW state, NEW w, Plain(state, w) PROVE dev'[CC].shut = dev[CC].shut
    BY <2>2 DEF Plain
  <2>3. CASE code = "1"
    <3>1. AtReply /\ (Plain(iProtocolState, wire) \/ (BeginTransfer(wire) /\ iProtocolState = "DATA"))
      BY <1>11, <2>3, PreliminaryCases
    <3>2. ASSUME BeginTransfer(wire) /\ iProtocolState = "DATA", ~\E why : Dies(why) PROVE \E n \in Calls : Begins(n)
      BY <2>1, <2>3, <3>1, <3>2, ReplySurvives
    <3> QED BY <1>9, <1>10, <2>2, <3>1, <3>2
  <2>4. CASE code # "1"
    <3>1. CASE iProtocolState = "PASV" /\ ProcessPasvResponse(<<>>)
      <4>1. AtReply
        BY <1>11, <2>4, FinalCases
      <4> QED BY <1>9, <2>1, <3>1, <4>1, PasvOpens
    <3>2. CASE DoCCHandshake(<<>>)
      BY <1>3, <3>2 DEF DoCCHandshake
    <3>3. CASE \/ \E status \in BOOLEAN, state \in States : ProcessLoginEvent(status, state, <<>>)
               \/ ProcessGenCmdEvent(code, <<>>) \/ \E state \in States : SkipTransfer(state, <<>>)
      BY <3>3 DEF ProcessLoginEvent, ProcessGenCmdEvent, SkipTransfer
    <3>4. CASE CompleteTransfer(<<>>) \/ FailTransfer(<<>>)
      BY <2>2, <3>4 DEF CompleteTransfer, FailTransfer
    <3>5. \/ iProtocolState = "PASV" /\ ProcessPasvResponse(<<>>)
          \/ DoCCHandshake(<<>>) \/ \E status \in BOOLEAN, state \in States : ProcessLoginEvent(status, state, <<>>)
          \/ ProcessGenCmdEvent(code, <<>>) \/ \E state \in States : SkipTransfer(state, <<>>)
          \/ CompleteTransfer(<<>>) \/ FailTransfer(<<>>)
          \/ \E state, w : Plain(state, w)
      BY <1>11, <2>4, FinalCases, Zenon
    <3> QED BY <2>2, <3>1, <3>2, <3>3, <3>4, <3>5
  <2> QED BY <2>3, <2>4
<1>12. ASSUME NEW n \in Calls, DcWrite(n) PROVE UNCHANGED dev
  BY <1>12 DEF DcWrite, Dies
<1>13. ASSUME NEW n \in Calls, DcConnect(n) \/ DcHandshake(n) \/ DcRead(n) \/ DcEof(n) \/ FileRead(n) \/ FileEof(n)
       PROVE  dev'[CC].shut = dev[CC].shut
  <2>1. fault = "none"
    BY <1>13 DEF DcConnect, DcHandshake, DcRead, DcEof, FileRead, FileEof, Reading, Alive
  <2>2. (\E why : Dies(why)) \/ UNCHANGED fault
    BY <1>13 DEF DcConnect, DcHandshake, DcRead, DcEof, FileRead, SendChunk, FileEof
  <2> QED BY <1>9, <1>10, <1>13, <2>1, <2>2 DEF Advances
<1> QED BY <1>4, <1>5, <1>6, <1>7, <1>8, <1>11, <1>12, <1>13 DEF Next, Completion

\* No transfer is open once QUIT was answered.
LEMMA ControlServesStep ==
  ASSUME FinalRepliesOnly, NoStop, DataAfterReply, NoDrop, IInv, TInv, ControlServes, [Next]_vars
  PROVE  ControlServes'
<1>1. quit => quit' /\ iDataChannel' \in {0, iDataChannel}
  <2>1. CASE UNCHANGED vars
    BY <2>1 DEF vars, transfer, server
  <2>2. CASE StartClient \/ OtherCompletion \/ GiveUp
    BY <2>2 DEF StartClient, OtherCompletion, GiveUp, transfer, server
  <2>3. CASE ApiCall
    BY <2>3, ScriptAssumption DEF ApiCall, NoStop, IInv, Typed, TransferTyped, Calls, transfer, server
  <2>4. CASE ControlConnect \/ ControlHandshake \/ ControlEof
    BY <2>4 DEF ControlConnect, ControlHandshake, ControlEof, Dies, transfer, server
  <2>5. ASSUME NEW d \in Devices, CloseNotify(d) PROVE quit' = quit /\ UNCHANGED iDataChannel
    BY <2>5 DEF CloseNotify, transfer, server
  <2>6. ASSUME NEW n \in Calls, DcConnect(n) \/ DcWrite(n) \/ DcHandshake(n) \/ FileEof(n)
        PROVE  quit' = quit /\ UNCHANGED iDataChannel
    BY <2>6 DEF DcConnect, DcWrite, DcHandshake, FileEof, Dies, transfer, server
  <2>7. ASSUME NEW n \in Calls, DcRead(n) \/ DcEof(n) \/ FileRead(n)
        PROVE  quit' = quit /\ iDataChannel' \in {0, iDataChannel}
    BY <2>7 DEF DcRead, DcEof, FileRead, SendChunk, ResetBoth, Dies, transfer, server
  <2>8. ASSUME NEW code \in Codes, OnControlRead(code) PROVE ~quit
    BY <2>8, Zenon DEF OnControlRead
  <2> QED BY <2>1, <2>2, <2>3, <2>4, <2>5, <2>6, <2>7, <2>8 DEF Next, Completion
<1>2. ASSUME quit', ~quit PROVE iDataChannel' = 0
  <2>1. PICK code \in Codes : OnControlRead(code)
    <3>1. (\E code \in Codes : OnControlRead(code)) \/ quit' = quit
      BY DEF Next, Completion, vars, server, StartClient, ApiCall, ControlConnect, ControlHandshake, ControlEof,
             GiveUp, OtherCompletion, CloseNotify, DcConnect, DcWrite, DcHandshake, DcRead, DcEof, FileRead, FileEof
    <3> QED BY <1>2, <3>1
  <2>2. quit' = (Head(wire).cmd = "QUIT" /\ code # "1")
    BY <2>1, Zenon DEF OnControlRead
  <2>3. AtReply
    BY <1>2, <2>1, <2>2, FinalCases
  <2>4. Head(wire).cmd = "QUIT"
    BY <1>2, <2>2
  <2>5. /\ iCmdQ # <<>> /\ Head(wire) = Head(iCmdQ)
        /\ iProtocolState = IF prelim THEN "1yz" ELSE ClassOf(Head(wire).cmd)
    BY <2>3, <2>4, Awaited DEF AtReply, IInv, LoginSteps
  <2>6. ~IsTransferCommand(Head(iCmdQ).cmd) /\ ClassOf(Head(wire).cmd) = "GEN"
    BY <2>4, <2>5 DEF IsTransferCommand, TransferCommands, ClassOf
  <2>7. iDataChannel = 0 /\ iProtocolState # "1yz"
    BY <2>6, NothingHeld DEF TInv, FrontOK
  <2>8. iProtocolState = "GEN"
    BY <2>5, <2>6, <2>7
  <2> QED BY <2>1, <2>7, <2>8, ReplyCases DEF Aside, Opens, Begins, Fails, Awaiting
<1>3. dev'[CC].shut => quit'
  <2>1. dev'[CC].shut => quit
    BY ControlShut DEF ControlServes, PeerCloses, NoDrop
  <2> QED BY <1>1, <2>1
<1>4. quit' => iDataChannel' = 0
  BY <1>1, <1>2 DEF ControlServes
<1> QED BY <1>3, <1>4 DEF ControlServes

\* What an open data channel's transfer has.
LEMMA AnsweredStep ==
  ASSUME FinalRepliesOnly, NoStop, DataAfterReply, NoDrop, TransferReplies, DownloadsTaken,
         IInv, TInv, ControlServes, AnsweredOK, [Next]_vars
  PROVE  AnsweredOK'
<1>1. CASE Aside
  <2>1. CASE iDataChannel = 0
    BY <1>1, <2>1 DEF Aside, AnsweredOK
  <2>2. CASE iDataChannel # 0
    <3>1. Moves
      BY <1>1, <2>2 DEF Aside
    <3>2. ~PeerCloses(CC)
      BY <2>2 DEF PeerCloses, ControlServes, NoDrop
    <3> QED BY <1>1, <2>2, <3>1, <3>2 DEF Aside, Moves, AnsweredOK
  <2> QED BY <2>1, <2>2
<1>2. ASSUME NEW n \in Calls, Opens(n) PROVE AnsweredOK'
  BY <1>2 DEF Opens, AnsweredOK, ControlServes
<1>3. ASSUME NEW n \in Calls, Begins(n) PROVE AnsweredOK'
  BY <1>3 DEF Begins, AnsweredOK
<1>4. CASE Fails
  BY <1>4 DEF Fails, AnsweredOK
<1>5. ASSUME NEW n \in Calls, fault = "none", Advances(n) PROVE AnsweredOK'
  <2>1. CASE DcConnect(n) \/ DcWrite(n) \/ DcHandshake(n) \/ FileEof(n) \/ CloseNotify(DC(n)) \/ CloseNotify(FL(n))
    <3>1. UNCHANGED <<iProtocolState, wire, iDataChannel, iFileDevice, iContinueTransfer>>
      BY <1>5, <2>1 DEF Advances, DcConnect, DcWrite, DcHandshake, FileEof, CloseNotify, protocol, transfer, Dies
    <3> QED BY <3>1 DEF AnsweredOK
  <2>2. ASSUME NEW c \in Calls, iDataChannel = c,
               UNCHANGED <<protocol, iDataChannel, iFileDevice>>,
               iContinueTransfer' = iContinueTransfer \/ iContinueTransfer' \in Script[c].cbk
        PROVE  AnsweredOK'
    <3>1. Script[c].api # "Upload" => FALSE \notin Script[c].cbk
      BY DEF DownloadsTaken
    <3>2. (Script[c].api # "Upload" /\ iContinueTransfer' \in Script[c].cbk) => iContinueTransfer' = TRUE
      BY <3>1, ScriptFields
    <3>3. (Script[c].api # "Upload" /\ iProtocolState # "DATA") => iContinueTransfer'
      BY <2>2, <3>2, QueueTyped DEF AnsweredOK
    <3> QED BY <2>2, <3>3 DEF AnsweredOK, protocol
  <2>3. CASE DcRead(n)
    BY <1>5, <2>2, <2>3, DcReadIs, OwnerOf DEF Advances
  <2>4. CASE DcEof(n)
    BY <1>5, <2>4, DcEofIs DEF Advances, AnsweredOK
  <2>5. CASE FileRead(n)
    BY <1>5, <2>2, <2>5, FileReadIs DEF Advances
  <2> QED BY <1>5, <2>1, <2>3, <2>4, <2>5 DEF Advances
<1> QED BY <1>1, <1>2, <1>3, <1>4, <1>5, StepCases

\* A data channel that delivers has had its preliminary reply.
LEMMA ReplyCame ==
  ASSUME IInv, TInv, AnsweredOK, fault = "none", NEW n \in Calls, Listed(DC(n)), Begun(n)
  PROVE  /\ Script[n].local => iFileDevice = n
         /\ Script[n].api # "Upload" => iContinueTransfer
<1>1. iDataChannel = n /\ n # 0 /\ iCmdQ # <<>> /\ IsTransferCommand(Head(iCmdQ).cmd) /\ Head(iCmdQ).call = n
  BY OwnerOf
<1>2. iProtocolState # "DATA"
  <2> SUFFICES ASSUME iProtocolState = "DATA" PROVE FALSE
    OBVIOUS
  <2>1. wire # <<>>
    BY <1>1 DEF AnsweredOK
  <2>2. Head(wire) = Head(iCmdQ) /\ iProtocolState = IF prelim THEN "1yz" ELSE "DATA"
    BY <1>1, <2>1, Awaited, PasvIsNoTransfer DEF IInv, Alive, LoginSteps
  <2> QED BY <1>1, <2>1, <2>2 DEF Begun
<1> QED BY <1>1, <1>2 DEF AnsweredOK

\* Data that arrives finds the file of its transfer.
LEMMA StoredStep ==
  ASSUME FinalRepliesOnly, NoStop, DataAfterReply, IInv, TInv, AnsweredOK, StoredOK, [Next]_vars
  PROVE  StoredOK'
<1>1. CASE UNCHANGED seen
  BY <1>1 DEF StoredOK
<1>2. ASSUME NEW n \in Calls, fault = "none", Advances(n), ~UNCHANGED seen PROVE StoredOK'
  <2>1. CASE DcRead(n)
    <3>1. /\ Listed(DC(n)) /\ Begun(n) /\ Script[n].api \in {"Download", "ListDirectory"}
          /\ \A k \in Calls :
               /\ seen'[k].rx = IF k = n THEN seen[k].rx + 1 ELSE seen[k].rx
               /\ (HasCbk(Head(iCmdQ)) => iContinueTransfer)
                    => seen'[k].stored = IF k = iFileDevice THEN seen[k].stored + 1 ELSE seen[k].stored
      BY <1>2, <2>1, DcReadIs DEF Advances, DataAfterReply
    <3>2. iDataChannel = n /\ n # 0 /\ iFileDevice \in {0, n} /\ iCmdQ # <<>> /\ IsTransferCommand(Head(iCmdQ).cmd)
          /\ Head(iCmdQ).call = n
      BY <3>1, OwnerOf
    <3>3. iContinueTransfer /\ (Script[n].local => iFileDevice = n)
      BY <1>2, <3>1, ReplyCame
    <3>4. \A k \in Calls : /\ seen'[k].rx = IF k = n THEN seen[k].rx + 1 ELSE seen[k].rx
                           /\ seen'[k].stored = IF k = iFileDevice THEN seen[k].stored + 1 ELSE seen[k].stored
      BY <3>1, <3>3
    <3>5. ASSUME NEW k \in Calls, Script[k].api = "Download", Script[k].local PROVE seen'[k].stored = seen'[k].rx
      <4>1. k = n <=> k = iFileDevice
        BY <3>2, <3>3, <3>5, QueueTyped
      <4>2. seen[k].stored = seen[k].rx
        BY <3>5 DEF StoredOK
      <4> QED BY <3>4, <4>1, <4>2
    <3> QED BY <3>5 DEF StoredOK
  <2>2. CASE DcEof(n)
    BY <1>2, <2>2, DcEofIs DEF Advances, StoredOK
  <2>3. CASE FileRead(n)
    <3>1. fault' = "none"
      BY <1>2 DEF Advances
    <3>2. \A k \in Calls : seen'[k].rx = seen[k].rx /\ seen'[k].stored = seen[k].stored
      BY <1>2, <2>3, <3>1, FileReadIs
    <3> QED BY <3>2 DEF StoredOK
  <2>4. DcRead(n) \/ DcEof(n) \/ FileRead(n)
    BY <1>2 DEF Advances, DcConnect, DcWrite, DcHandshake, FileEof, CloseNotify, Dies
  <2> QED BY <2>1, <2>2, <2>3, <2>4
<1>3. UNCHANGED seen \/ \E n \in Calls : fault = "none" /\ Advances(n)
  BY StepCases DEF Aside, Opens, Begins, Fails
<1> QED BY <1>1, <1>2, <1>3

\* The invariant of downloads.
LEMMA DownloadInvariance ==
  ASSUME FinalRepliesOnly, NoStop, DataAfterReply, NoDrop, TransferReplies, DownloadsTaken
  PROVE  Spec => []DownloadInv
<1>1. Init => DownloadInv
  <2>1. Init => dev[CC] = Unused
    BY DevicesDiffer DEF Init, Unused
  <2>2. Init => ControlServes /\ AnsweredOK
    BY <2>1 DEF Init, ControlServes, AnsweredOK, Unused
  <2>3. Init => StoredOK
    BY DEF Init, StoredOK
  <2> QED BY <2>2, <2>3 DEF DownloadInv
<1>2. IInv /\ TInv /\ DownloadInv /\ [Next]_vars => DownloadInv'
  BY ControlServesStep, AnsweredStep, StoredStep DEF DownloadInv
<1>3. Spec => [](IInv /\ TInv)
  BY TransferInvariance
<1> QED BY <1>1, <1>2, <1>3, PTL DEF Spec

\* When the callback is told that there is no more data, the local file of the
\* download holds all that was received, also if data came after the final
\* reply, and if uploads before it were cut short.
THEOREM DownloadsAreStored ==
  ASSUME FinalRepliesOnly, NoStop, DataAfterReply, NoDrop, TransferReplies, DownloadsTaken
  PROVE  Spec => []StoredIsReceived
<1>1. DownloadInv => StoredIsReceived
  BY DEF DownloadInv, StoredOK, StoredIsReceived
<1>2. Spec => []DownloadInv
  BY DownloadInvariance
<1> QED BY <1>1, <1>2, PTL

----------------------------------------------------------------------------
(* Uploads: the queue *)

\* A call queues STOR only for an upload, and no other transfer command for one.
LEMMA BatchIsOwn ==
  ASSUME NEW api \in Apis, NEW tls
  PROVE  \A i \in 1..Len(CommandsOf(api, tls)) :
           CommandsOf(api, tls)[i] = "STOR" <=> (IsTransferCommand(CommandsOf(api, tls)[i]) /\ api = "Upload")
<1> DEFINE Fits(names, u) == \A i \in 1..Len(names) : names[i] = "STOR" <=> (IsTransferCommand(names[i]) /\ u)
<1>1. /\ api = "Upload" => CommandsOf(api, tls) \in {<<"PBSZ", "PROT">> \o <<"PASV", "STOR">>, <<>> \o <<"PASV", "STOR">>}
      /\ api # "Upload" =>
           CommandsOf(api, tls) \in {<<"PBSZ", "PROT">> \o <<"PASV", "RETR">>, <<>> \o <<"PASV", "RETR">>,
                                     <<"PBSZ", "PROT">> \o <<"TYPE", "PASV", "LIST">>, <<>> \o <<"TYPE", "PASV", "LIST">>,
                                     <<"PWD">>, <<"QUIT">>}
  BY DEF CommandsOf, SetDCProtLevel, Apis
<1>2. /\ api = "Upload" => CommandsOf(api, tls) \in {<<"PBSZ", "PROT", "PASV", "STOR">>, <<"PASV", "STOR">>}
      /\ api # "Upload" =>
           CommandsOf(api, tls) \in {<<"PBSZ", "PROT", "PASV", "RETR">>, <<"PASV", "RETR">>,
                                     <<"PBSZ", "PROT", "TYPE", "PASV", "LIST">>, <<"TYPE", "PASV", "LIST">>,
                                     <<"PWD">>, <<"QUIT">>}
  BY <1>1
<1>3. Fits(<<"PBSZ", "PROT", "PASV", "STOR">>, TRUE) /\ Fits(<<"PASV", "STOR">>, TRUE)
  BY DEF IsTransferCommand, TransferCommands
<1>4. /\ Fits(<<"PBSZ", "PROT", "PASV", "RETR">>, FALSE) /\ Fits(<<"PASV", "RETR">>, FALSE)
      /\ Fits(<<"PBSZ", "PROT", "TYPE", "PASV", "LIST">>, FALSE) /\ Fits(<<"TYPE", "PASV", "LIST">>, FALSE)
      /\ Fits(<<"PWD">>, FALSE) /\ Fits(<<"QUIT">>, FALSE)
  BY DEF IsTransferCommand, TransferCommands
<1> HIDE DEF Fits
<1>5. Fits(CommandsOf(api, tls), api = "Upload")
  <2>1. CASE api = "Upload"
    <3>1. Fits(CommandsOf(api, tls), TRUE)
      BY <1>2, <1>3, <2>1
    <3> QED BY <2>1, <3>1 DEF Fits
  <2>2. CASE api # "Upload"
    <3>1. Fits(CommandsOf(api, tls), FALSE)
      BY <1>2, <1>4, <2>2
    <3> QED BY <2>2, <3>1 DEF Fits
  <2> QED BY <2>1, <2>2
<1> QED BY <1>5 DEF Fits

\* What a step but a call does to the queue.
Shortened == iCmdQ' = iCmdQ \/ iCmdQ' = <<>> \/ \E m \in {1, 2} : iCmdQ' = SubSeq(iCmdQ, m + 1, Len(iCmdQ))
LEMMA QueueShortens ==
  ASSUME FinalRepliesOnly, IInv, TInv, [Next]_vars, ~ApiCall
  PROVE  Shortened
<1>1. CASE UNCHANGED vars
  BY <1>1 DEF vars, protocol, Shortened
<1>2. CASE StartClient \/ GiveUp \/ ControlConnect \/ ControlHandshake \/ ControlEof \/ OtherCompletion
           \/ \E d \in Devices : CloseNotify(d)
  BY <1>2 DEF StartClient, GiveUp, ControlConnect, ControlHandshake, ControlEof, OtherCompletion, CloseNotify, Dies, protocol, Shortened
<1>3. ASSUME NEW n \in Calls, DcConnect(n) \/ DcWrite(n) \/ DcHandshake(n) \/ DcRead(n) \/ FileRead(n) \/ FileEof(n)
      PROVE  Shortened
  BY <1>3 DEF DcConnect, DcWrite, DcHandshake, DcRead, FileRead, SendChunk, FileEof, Dies, protocol, Shortened
<1>4. ASSUME NEW state, NEW w, NEW m \in {1, 2}, SkipCommand(m, state, w) PROVE Shortened
  BY <1>4 DEF SkipCommand, ProcessNextCmd, Shortened
<1>5. ASSUME NEW n \in Calls, DcEof(n) PROVE Shortened
  <2>1. UNCHANGED protocol \/ SkipCommand(1, "xyz", wire)
    BY <1>5 DEF DcEof, Dies
  <2> QED BY <1>4, <2>1 DEF protocol, Shortened
<1>6. ASSUME NEW state, NEW w, Plain(state, w) PROVE Shortened
  BY <1>6 DEF Plain, Shortened
<1>7. ASSUME NEW code \in Codes, OnControlRead(code) PROVE Shortened
  <2>1. CASE code = "1"
    <3>1. Plain(iProtocolState, wire) \/ BeginTransfer(wire)
      BY <1>7, <2>1, PreliminaryCases
    <3>2. CASE BeginTransfer(wire)
      BY <3>2 DEF BeginTransfer, Dies, protocol, Shortened
    <3> QED BY <1>6, <3>1, <3>2
  <2>2. CASE code # "1"
    <3>1. ASSUME NEW status \in BOOLEAN, NEW state \in States, ProcessLoginEvent(status, state, <<>>) PROVE Shortened
      BY <3>1 DEF ProcessLoginEvent, ProcessNextCmd, Shortened
    <3>2. CASE DoCCHandshake(<<>>)
      BY <3>2 DEF DoCCHandshake, Shortened
    <3>3. CASE ProcessGenCmdEvent(code, <<>>) \/ FailTransfer(<<>>) \/ ProcessPasvResponse(<<>>)
               \/ \E state \in States : SkipTransfer(state, <<>>)
      BY <1>4, <3>3 DEF ProcessGenCmdEvent, FailTransfer, ProcessPasvResponse, SkipTransfer
    <3>4. CASE CompleteTransfer(<<>>)
      BY <1>4, <1>6, <3>4 DEF CompleteTransfer
    <3>5. \/ ProcessGenCmdEvent(code, <<>>) \/ FailTransfer(<<>>) \/ ProcessPasvResponse(<<>>)
          \/ \E state \in States : SkipTransfer(state, <<>>)
          \/ DoCCHandshake(<<>>) \/ \E status \in BOOLEAN, state \in States : ProcessLoginEvent(status, state, <<>>)
          \/ CompleteTransfer(<<>>) \/ \E state, w : Plain(state, w)
      BY <1>7, <2>2, FinalCases, Zenon
    <3> QED BY <1>6, <3>1, <3>2, <3>3, <3>4, <3>5
  <2> QED BY <2>1, <2>2
<1> QED BY <1>1, <1>2, <1>3, <1>5, <1>7 DEF Next, Completion

\* Every command is its call's.
LEMMA CommandsStep ==
  ASSUME FinalRepliesOnly, NoStop, IInv, TInv, CommandsOK, [Next]_vars
  PROVE  CommandsOK'
<1>1. PICK q \in Seq(Command) : q = iCmdQ /\ Len(q) \in Nat /\ \A i \in 1..Len(q) : OwnCommand(q[i])
  BY QueueTyped DEF CommandsOK
<1>2. CASE ApiCall
  <2>1. PICK n \in Calls : n = called + 1
    BY <1>2, ScriptAssumption DEF ApiCall, IInv, Typed, TransferTyped, Calls
  <2>2. Enqueue(n) /\ Script[n].api \in Apis
    BY <1>2, <2>1, ScriptFields DEF ApiCall, NoStop
  <2>3. PICK p \in Seq(Command), b \in Seq(Command), r \in Seq(Command) : Appends(n, p, b, r) /\ iCmdQ' = r
    BY <2>1, <2>2, CallAppends DEF TInv
  <2>4. PICK names : names = CommandsOf(Script[n].api, CcTls # "No" /\ Listed(CC))
    OBVIOUS
  <2>5. names \in Seq(CommandNames) /\ Len(names) \in Nat /\ b = [i \in 1..Len(names) |-> [cmd |-> names[i], call |-> n]]
    <3>1. names \in Seq(CommandNames)
      BY <2>2, <2>4, CommandsAre
    <3>2. b = [i \in 1..Len(names) |-> [cmd |-> names[i], call |-> n]]
      BY <2>3, <2>4, Zenon DEF Appends
    <3> QED BY <3>1, <3>2
  <2>6. \A i \in 1..Len(names) : names[i] = "STOR" <=> (IsTransferCommand(names[i]) /\ Script[n].api = "Upload")
    BY <2>2, <2>4, BatchIsOwn
  <2>7. \A i \in 1..Len(b) : OwnCommand(b[i])
    BY <2>5, <2>6 DEF OwnCommand
  <2>8. ASSUME NEW i \in 1..Len(r)
        PROVE  (\E j \in 1..Len(p) : r[i] = p[j]) \/ (\E j \in 1..Len(b) : r[i] = b[j])
    <3>1. (i \in 1..Len(p) /\ r[i] = p[i]) \/ (i - Len(p) \in 1..Len(b) /\ r[i] = b[i - Len(p)])
      BY <2>3, Zenon DEF Appends
    <3> QED BY <3>1, Zenon
  <2>9. p = q
    BY <1>1, <2>3 DEF Appends
  <2>10. \A i \in 1..Len(r) : OwnCommand(r[i])
    BY <1>1, <2>7, <2>8, <2>9
  <2> QED BY <2>3, <2>10 DEF CommandsOK
<1>3. CASE ~ApiCall
  <2>1. \A i \in 1..Len(<<>>) : OwnCommand(<<>>[i])
    OBVIOUS
  <2>2. ASSUME NEW m \in {1, 2} PROVE \A i \in 1..Len(SubSeq(q, m + 1, Len(q))) : OwnCommand(SubSeq(q, m + 1, Len(q))[i])
    <3>1. PICK r : r = SubSeq(q, m + 1, Len(q))
      OBVIOUS
    <3>2. CASE m <= Len(q)
      <4>1. Len(r) = Len(q) - m /\ \A i \in 1..Len(r) : r[i] = q[i + m]
        BY <3>1, <3>2, SuffixIs
      <4>2. \A i \in 1..Len(r) : i + m \in 1..Len(q)
        BY <1>1, <4>1
      <4> QED BY <1>1, <3>1, <4>1, <4>2
    <3>3. CASE ~(m <= Len(q))
      <4>1. Len(r) = 0
        BY <1>1, <3>1, <3>3
      <4> QED BY <3>1, <4>1
    <3> QED BY <3>2, <3>3
  <2>3. iCmdQ' = q \/ iCmdQ' = <<>> \/ \E m \in {1, 2} : iCmdQ' = SubSeq(q, m + 1, Len(q))
    BY <1>1, <1>3, QueueShortens DEF Shortened
  <2>4. \A i \in 1..Len(iCmdQ') : OwnCommand(iCmdQ'[i])
    BY <1>1, <2>1, <2>2, <2>3
  <2> QED BY <2>4 DEF CommandsOK
<1> QED BY <1>2, <1>3

----------------------------------------------------------------------------
(* Uploads: what the handlers do to the devices *)

\* Setting one field leaves the others.
LEMMA SetOne ==
  ASSUME NEW devs \in [Devices -> DeviceState], NEW d \in Devices, NEW v
  PROVE  /\ LET g == [devs EXCEPT ![d].conn = v]
            IN g[d].conn = v /\ g[d].ssl = devs[d].ssl /\ g[d].stopped = devs[d].stopped
               /\ g[d].shut = devs[d].shut /\ g[d].rd = devs[d].rd
         /\ LET g == [devs EXCEPT ![d].ssl = v]
            IN g[d].ssl = v /\ g[d].conn = devs[d].conn /\ g[d].stopped = devs[d].stopped
               /\ g[d].shut = devs[d].shut /\ g[d].rd = devs[d].rd
         /\ LET g == [devs EXCEPT ![d].rd = v]
            IN g[d].rd = v /\ g[d].conn = devs[d].conn /\ g[d].ssl = devs[d].ssl
               /\ g[d].stopped = devs[d].stopped /\ g[d].shut = devs[d].shut
BY DEF DeviceState

\* The data channel is connected.
LEMMA DcConnectIs ==
  ASSUME IInv, TInv, NEW n \in Calls, DcConnect(n), fault = "none", fault' = "none"
  PROVE  /\ Listed(DC(n)) /\ iDataChannel = n /\ UNCHANGED <<protocol, transfer, seen>>
         /\ \A d \in Devices \ {DC(n)} : dev'[d] = dev[d]
         /\ dev'[DC(n)].conn = "open" /\ dev'[DC(n)].ssl = dev[DC(n)].ssl
         /\ dev'[DC(n)].stopped = dev[DC(n)].stopped /\ dev'[DC(n)].shut = dev[DC(n)].shut
<1>1. dev \in [Devices -> DeviceState] /\ DC(n) \in Devices
  BY StaysTyped, DevicesDiffer
<1>2. dev' = [dev EXCEPT ![DC(n)].conn = "open"] /\ Listed(DC(n)) /\ UNCHANGED <<protocol, transfer, seen>>
  BY DEF DcConnect, Dies
<1>3. \A d \in Devices \ {DC(n)} : dev'[d] = dev[d]
  BY <1>1, <1>2, SetOthers
<1>4. /\ dev'[DC(n)].conn = "open" /\ dev'[DC(n)].ssl = dev[DC(n)].ssl
      /\ dev'[DC(n)].stopped = dev[DC(n)].stopped /\ dev'[DC(n)].shut = dev[DC(n)].shut
  BY <1>1, <1>2, SetOne
<1> QED BY <1>2, <1>3, <1>4, OwnerOf

\* Its handshake is over: an upload reads its file.
LEMMA DcHandshakeIs ==
  ASSUME IInv, TInv, UploadInv, NEW n \in Calls, DcHandshake(n), fault' = "none"
  PROVE  /\ Reading(DC(n)) /\ dev[DC(n)].ssl = "shaking" /\ iDataChannel = n
         /\ UNCHANGED <<protocol, transfer, seen>>
         /\ \A d \in Devices \ {DC(n), FL(n)} : dev'[d] = dev[d]
         /\ dev'[DC(n)].ssl = "up" /\ dev'[DC(n)].conn = dev[DC(n)].conn /\ dev'[DC(n)].shut = dev[DC(n)].shut
         /\ dev'[FL(n)].conn = dev[FL(n)].conn
         /\ dev'[FL(n)] # dev[FL(n)] => iFileDevice = n /\ Script[n].api = "Upload"
<1>1. dev \in [Devices -> DeviceState] /\ DC(n) \in Devices /\ FL(n) \in Devices /\ DC(n) # FL(n)
  BY StaysTyped, DevicesDiffer
<1>2. PICK g : g = [dev EXCEPT ![DC(n)].ssl = "up"]
  OBVIOUS
<1>3. /\ Reading(DC(n)) /\ dev[DC(n)].ssl = "shaking" /\ UNCHANGED <<protocol, transfer, seen>>
      /\ dev' = TriggerDataTransfer(g, iFileDevice) /\ (Head(iCmdQ).cmd = "STOR" => iFileDevice # 0)
  BY <1>2 DEF DcHandshake, Dies
<1>4. /\ g \in [Devices -> DeviceState] /\ \A d \in Devices \ {DC(n)} : g[d] = dev[d]
      /\ g[DC(n)].ssl = "up" /\ g[DC(n)].conn = dev[DC(n)].conn /\ g[DC(n)].shut = dev[DC(n)].shut
  <2>1. g \in [Devices -> DeviceState]
    BY <1>1, <1>2, SetField DEF Handshakes
  <2>2. \A d \in Devices \ {DC(n)} : g[d] = dev[d]
    BY <1>1, <1>2, SetOthers
  <2>3. g[DC(n)].ssl = "up" /\ g[DC(n)].conn = dev[DC(n)].conn /\ g[DC(n)].shut = dev[DC(n)].shut
    BY <1>1, <1>2, SetOne
  <2> QED BY <2>1, <2>2, <2>3
<1>5. /\ iDataChannel = n /\ n # 0 /\ iFileDevice \in {0, n} /\ iCmdQ # <<>>
      /\ Head(iCmdQ).call = n /\ IsTransferCommand(Head(iCmdQ).cmd)
  BY <1>3, OwnerOf DEF Reading
<1>6. CASE Head(iCmdQ).cmd = "STOR"
  <2>1. iFileDevice = n /\ dev' = [g EXCEPT ![FL(n)].rd = TRUE]
    BY <1>3, <1>5, <1>6 DEF TriggerDataTransfer
  <2>2. Script[n].api = "Upload"
    BY <1>5, <1>6, QueueTyped DEF UploadInv, CommandsOK, OwnCommand
  <2>3. \A d \in Devices \ {FL(n)} : dev'[d] = g[d]
    BY <1>1, <1>4, <2>1, SetOthers
  <2>4. dev'[FL(n)].conn = g[FL(n)].conn
    BY <1>1, <1>4, <2>1, SetOne
  <2> QED BY <1>1, <1>3, <1>4, <1>5, <2>1, <2>2, <2>3, <2>4
<1>7. CASE Head(iCmdQ).cmd # "STOR"
  BY <1>1, <1>3, <1>4, <1>5, <1>7 DEF TriggerDataTransfer
<1> QED BY <1>6, <1>7

\* What stopping the data channel of a file does.
LEMMA FileStops ==
  ASSUME dev \in [Devices -> DeviceState], NEW n \in Calls, NEW c \in Calls,
         NEW g \in [Devices -> DeviceState], \A d \in Devices \ {FL(n)} : g[d] = dev[d],
         ~g[FL(n)].rd, dev' = StopSocket(g, DC(c))
  PROVE  /\ \A d \in Devices \ {FL(n), DC(c)} : dev'[d] = dev[d]
         /\ ~dev'[FL(n)].rd /\ dev'[FL(n)].conn = g[FL(n)].conn
         /\ dev'[DC(c)].conn = dev[DC(c)].conn /\ dev'[DC(c)].ssl \in {dev[DC(c)].ssl, "closing"}
<1>1. DC(c) \in Devices /\ FL(n) \in Devices /\ DC(c) # FL(n)
  BY DevicesDiffer
<1>2. /\ \A d \in Devices : d # DC(c) => dev'[d] = g[d]
      /\ dev'[DC(c)].conn = g[DC(c)].conn /\ dev'[DC(c)].ssl \in {g[DC(c)].ssl, "closing"}
  BY <1>1, StopSocketProperties
<1> QED BY <1>1, <1>2

\* The end of the file: the data channel's sending side is closed.
LEMMA FileEofIs ==
  ASSUME IInv, TInv, UploadInv, NEW n \in Calls, FileEof(n), fault' = "none"
  PROVE  /\ Reading(FL(n)) /\ Reads(n) /\ iDataChannel = n /\ iFileDevice = n
         /\ UNCHANGED <<protocol, transfer, seen>>
         /\ \A d \in Devices \ {FL(n), DC(n)} : dev'[d] = dev[d]
         /\ ~dev'[FL(n)].rd /\ dev'[FL(n)].conn = "closed"
         /\ dev'[DC(n)].conn = dev[DC(n)].conn /\ dev'[DC(n)].ssl \in {dev[DC(n)].ssl, "closing"}
<1>1. dev \in [Devices -> DeviceState] /\ FL(n) \in Devices
  BY StaysTyped, DevicesDiffer
<1>2. PICK f : f = [dev EXCEPT ![FL(n)].conn = "closed"]
  OBVIOUS
<1>3. PICK g : g = [f EXCEPT ![FL(n)].rd = FALSE]
  OBVIOUS
<1>4. f \in [Devices -> DeviceState] /\ \A d \in Devices \ {FL(n)} : f[d] = dev[d]
  BY <1>1, <1>2, Moved
<1>5. g \in [Devices -> DeviceState]
  BY <1>1, <1>3, <1>4, SetField
<1>6. \A d \in Devices \ {FL(n)} : g[d] = dev[d]
  BY <1>1, <1>3, <1>4, SetOthers
<1>7. f[FL(n)].conn = "closed"
  BY <1>1, <1>2, SetOne
<1>8. g[FL(n)].conn = "closed" /\ ~g[FL(n)].rd
  <2>1. g[FL(n)].conn = f[FL(n)].conn /\ g[FL(n)].rd = FALSE
    BY <1>1, <1>3, <1>4, SetOne
  <2> QED BY <1>7, <2>1
<1>9. /\ Reading(FL(n)) /\ Reads(n) /\ dev' = StopSocket(g, DC(iDataChannel))
      /\ UNCHANGED <<protocol, transfer, seen>>
  BY <1>1, <1>2, <1>3 DEF FileEof, Dies, Reads
<1>10. iDataChannel = n /\ iFileDevice = n
  BY <1>9 DEF UploadInv, ReadingOK
<1> QED BY <1>1, <1>5, <1>6, <1>8, <1>9, <1>10, FileStops

\* A chunk of the file.
LEMMA FileReadDevices ==
  ASSUME IInv, TInv, UploadInv, NEW n \in Calls, FileRead(n), fault = "none", fault' = "none"
  PROVE  /\ Reading(FL(n)) /\ Reads(n) /\ iDataChannel = n /\ iFileDevice = n
         /\ \A d \in Devices \ {FL(n), DC(n)} : dev'[d] = dev[d]
         /\ dev'[FL(n)].conn = dev[FL(n)].conn /\ dev'[DC(n)].conn = dev[DC(n)].conn
         /\ \/ ~dev'[FL(n)].rd /\ dev'[DC(n)].ssl \in {dev[DC(n)].ssl, "closing"}
            \/ dev'[DC(n)] = dev[DC(n)] /\ \A k \in Calls : seen'[k].tx =
                    IF k = n /\ CanSend(DC(n)) THEN seen[k].tx + 1 ELSE seen[k].tx
<1>1. dev \in [Devices -> DeviceState] /\ FL(n) \in Devices /\ DC(n) \in Devices /\ DC(n) # FL(n)
  BY StaysTyped, DevicesDiffer
<1>2. Reading(FL(n)) /\ Reads(n)
  BY FileReadIs
<1>3. iDataChannel = n /\ iFileDevice = n
  BY <1>2 DEF UploadInv, ReadingOK
<1>4. PICK g : g = [dev EXCEPT ![FL(n)].rd = FALSE]
  OBVIOUS
<1>5. g \in [Devices -> DeviceState] /\ \A d \in Devices \ {FL(n)} : g[d] = dev[d]
  BY <1>1, <1>4, SetField, SetOthers
<1>6. g[FL(n)].rd = FALSE /\ g[FL(n)].conn = dev[FL(n)].conn
  BY <1>1, <1>4, SetOne
<1>7. CASE dev' = StopSocket([dev EXCEPT ![FL(n)].rd = FALSE], DC(iDataChannel))
  <2>1. dev' = StopSocket(g, DC(n)) /\ ~g[FL(n)].rd
    BY <1>3, <1>4, <1>6, <1>7
  <2> QED BY <1>1, <1>2, <1>3, <1>5, <1>6, <2>1, FileStops
<1>8. CASE /\ dev' = [dev EXCEPT ![FL(n)].rd = FALSE, ![FL(iFileDevice)].rd = TRUE]
           /\ \A k \in Calls : seen'[k].tx =
                IF k = iDataChannel /\ CanSend(DC(iDataChannel)) THEN seen[k].tx + 1 ELSE seen[k].tx
  <2>1. dev' = [g EXCEPT ![FL(n)].rd = TRUE]
    BY <1>3, <1>4, <1>8
  <2>2. \A d \in Devices \ {FL(n)} : dev'[d] = g[d]
    BY <1>1, <1>5, <2>1, SetOthers
  <2>3. dev'[FL(n)].conn = g[FL(n)].conn
    BY <1>1, <1>5, <2>1, SetOne
  <2> QED BY <1>1, <1>2, <1>3, <1>5, <1>6, <1>8, <2>2, <2>3
<1> QED BY <1>7, <1>8, FileReadIs

\* A close_notify on the data channel or, which does not happen, on the file.
LEMMA CloseNotifyIs ==
  ASSUME IInv, TInv, NEW n \in Calls, NEW d \in {DC(n), FL(n)}, CloseNotify(d)
  PROVE  /\ Listed(d) /\ UNCHANGED <<protocol, transfer, seen>>
         /\ \A e \in Devices \ {d} : dev'[e] = dev[e]
         /\ dev'[d].conn = dev[d].conn /\ dev'[d].rd = dev[d].rd /\ dev'[d].ssl \in {"up", "closing"}
         /\ dev[d].ssl = "up" /\ PeerCloses(d)
         /\ d = DC(n) => iDataChannel = n
<1>1. dev \in [Devices -> DeviceState] /\ d \in Devices
  BY StaysTyped, DevicesDiffer
<1>2. /\ Listed(d) /\ UNCHANGED <<protocol, transfer, seen>> /\ dev' = StopSocket(dev, d)
      /\ dev[d].ssl = "up" /\ PeerCloses(d)
  BY DEF CloseNotify, Reading
<1>3. /\ \A e \in Devices \ {d} : dev'[e] = dev[e]
      /\ dev'[d].conn = dev[d].conn /\ dev'[d].rd = dev[d].rd /\ dev'[d].ssl \in {"up", "closing"}
  BY <1>1, <1>2, StopSocketProperties
<1>4. d = DC(n) => iDataChannel = n
  BY <1>2, OwnerOf
<1> QED BY <1>2, <1>3, <1>4

\* The transfer command got its preliminary reply: an upload reads its file at
\* once or when the data channel's handshake is over.
LEMMA BeginDevices ==
  ASSUME IInv, TInv, UploadInv, NEW n \in Calls, Begins(n)
  PROVE  /\ \A d \in Devices : d \notin {DC(n), FL(n)} => dev'[d] = dev[d]
         /\ ~Script[n].local => dev'[FL(n)] = dev[FL(n)]
         /\ dev'[DC(n)].conn = dev[DC(n)].conn /\ dev'[DC(n)].shut = dev[DC(n)].shut
         /\ dev[FL(n)] = Unused /\ Connecting(DC(n))
         /\ dev'[FL(n)].rd => dev'[DC(n)].ssl = "no" /\ Script[n].api = "Upload"
<1>1. /\ dev \in [Devices -> DeviceState] /\ FL(n) \in Devices /\ DC(n) \in Devices
      /\ DC(n) # FL(n) /\ FL(n) # CC /\ n # 0
  BY StaysTyped, DevicesDiffer, QueueTyped
<1>2. dev[FL(n)] = Unused /\ Connecting(DC(n))
  BY <1>1 DEF Begins, UploadInv, UnusedOK, AwaitingOK
<1>3. Head(iCmdQ).cmd = "STOR" => Script[n].api = "Upload"
  BY QueueTyped DEF Begins, UploadInv, CommandsOK, OwnCommand
<1>4. PICK opened : /\ opened = IF Script[n].local THEN [dev EXCEPT ![FL(n)].conn = "open"] ELSE dev
                    /\ dev' = IF iDCProt = "Protected" THEN Handshaking(opened, n)
                              ELSE TriggerDataTransfer(opened, n)
  BY DEF Begins
<1>5. /\ opened \in [Devices -> DeviceState] /\ \A d \in Devices \ {FL(n)} : opened[d] = dev[d]
      /\ opened[FL(n)].rd = FALSE /\ (~Script[n].local => opened[FL(n)] = dev[FL(n)])
  <2>1. CASE Script[n].local
    <3>1. opened = [dev EXCEPT ![FL(n)].conn = "open"]
      BY <1>4, <2>1
    <3>2. opened \in [Devices -> DeviceState] /\ \A d \in Devices \ {FL(n)} : opened[d] = dev[d]
      BY <1>1, <3>1, Moved
    <3>3. opened[FL(n)].rd = dev[FL(n)].rd
      BY <1>1, <3>1, SetOne
    <3> QED BY <1>2, <2>1, <3>2, <3>3 DEF Unused
  <2>2. CASE ~Script[n].local
    BY <1>1, <1>2, <1>4, <2>2 DEF Unused
  <2> QED BY <2>1, <2>2
<1>6. CASE iDCProt = "Protected"
  <2>1. PICK v : dev' = [opened EXCEPT ![DC(n)].ssl = v]
    BY <1>4, <1>6 DEF Handshaking
  <2>2. \A d \in Devices \ {DC(n)} : dev'[d] = opened[d]
    BY <1>1, <1>5, <2>1, SetOthers
  <2>3. dev'[DC(n)].conn = opened[DC(n)].conn /\ dev'[DC(n)].shut = opened[DC(n)].shut
    BY <1>1, <1>5, <2>1, SetOne
  <2> QED BY <1>1, <1>2, <1>5, <2>2, <2>3
<1>7. CASE iDCProt # "Protected" /\ Head(iCmdQ).cmd = "STOR"
  <2>1. dev' = [opened EXCEPT ![FL(n)].rd = TRUE] /\ Script[n].api = "Upload" /\ Script[n].local
    BY <1>3, <1>4, <1>7, ScriptAssumption DEF TriggerDataTransfer
  <2>2. \A d \in Devices \ {FL(n)} : dev'[d] = opened[d]
    BY <1>1, <1>5, <2>1, SetOthers
  <2> QED BY <1>1, <1>2, <1>5, <2>1, <2>2 DEF Connecting
<1>8. CASE iDCProt # "Protected" /\ Head(iCmdQ).cmd # "STOR"
  <2>1. dev' = opened
    BY <1>4, <1>8 DEF TriggerDataTransfer
  <2> QED BY <1>1, <1>2, <1>5, <2>1
<1> QED BY <1>6, <1>7, <1>8

----------------------------------------------------------------------------
(* Uploads: the invariant *)

\* What a transfer that moves lets be, and when it lets go.
LEMMA AdvanceKeeps ==
  ASSUME IInv, TInv, UploadInv, NEW n \in Calls, fault = "none", Advances(n)
  PROVE  /\ \A d \in Devices : dev'[d] = dev[d] \/ Used(d)
         /\ \/ UNCHANGED <<iProtocolState, wire, iDataChannel, iFileDevice>>
            \/ DcEof(n) /\ iDataChannel' = 0 /\ iFileDevice' = 0
<1>1. CASE DcConnect(n)
  BY <1>1, DcConnectIs DEF Used, protocol, transfer, Advances
<1>2. CASE DcHandshake(n)
  <2>1. /\ Reading(DC(n)) /\ UNCHANGED <<protocol, transfer>>
        /\ \A d \in Devices \ {DC(n), FL(n)} : dev'[d] = dev[d]
        /\ dev'[FL(n)] # dev[FL(n)] => iFileDevice = n /\ Script[n].api = "Upload"
    BY <1>2, DcHandshakeIs DEF Advances
  <2>2. Used(DC(n)) /\ (dev'[FL(n)] # dev[FL(n)] => Used(FL(n)))
    BY <2>1, QueueTyped DEF UploadInv, UnusedOK, Used, Reading
  <2> QED BY <2>1, <2>2 DEF protocol, transfer
<1>3. CASE DcRead(n)
  BY <1>3, DcReadIs DEF Advances, protocol
<1>4. CASE DcEof(n)
  <2>1. Listed(DC(n)) /\ iDataChannel' = 0 /\ iFileDevice' = 0 /\ dev' = [dev EXCEPT ![DC(n)].conn = "closed"]
    BY <1>4, DcEofIs DEF Advances
  <2>2. \A d \in Devices : d # DC(n) => dev'[d] = dev[d]
    BY <2>1, StaysTyped, DevicesDiffer, SetOthers
  <2> QED BY <1>4, <2>1, <2>2 DEF Used
<1>5. CASE FileRead(n)
  <2>1. /\ Reading(FL(n)) /\ iDataChannel = n
        /\ \A d \in Devices \ {FL(n), DC(n)} : dev'[d] = dev[d]
    BY <1>5, FileReadDevices DEF Advances
  <2>2. UNCHANGED <<protocol, iDataChannel, iFileDevice>>
    BY <1>5, FileReadIs DEF Advances
  <2>3. Used(FL(n)) /\ Used(DC(n))
    BY <2>1, QueueTyped DEF UploadInv, UnusedOK, Used, Reading
  <2> QED BY <2>1, <2>2, <2>3 DEF protocol
<1>6. CASE FileEof(n)
  <2>1. /\ Reading(FL(n)) /\ iDataChannel = n /\ UNCHANGED <<protocol, transfer>>
        /\ \A d \in Devices \ {FL(n), DC(n)} : dev'[d] = dev[d]
    BY <1>6, FileEofIs DEF Advances
  <2>2. Used(FL(n)) /\ Used(DC(n))
    BY <2>1, QueueTyped DEF UploadInv, UnusedOK, Used, Reading
  <2> QED BY <2>1, <2>2 DEF protocol, transfer
<1>7. ASSUME NEW d \in {DC(n), FL(n)}, CloseNotify(d)
      PROVE  /\ \A e \in Devices : dev'[e] = dev[e] \/ Used(e)
             /\ UNCHANGED <<iProtocolState, wire, iDataChannel, iFileDevice>>
  BY <1>7, CloseNotifyIs DEF Used, protocol, transfer
<1> QED BY <1>1, <1>2, <1>3, <1>4, <1>5, <1>6, <1>7 DEF Advances

\* Only listed devices change.
LEMMA UnusedStep ==
  ASSUME FinalRepliesOnly, NoStop, DataAfterReply, IInv, TInv, UploadInv, [Next]_vars
  PROVE  UnusedOK'
<1>1. \A d : Used(d) => Used(d)'
  BY UsedStays
<1>2. ASSUME \A d \in Devices \ {CC} : dev'[d] = dev[d] \/ Used(d)',
             \A k \in Calls : iDataChannel' = k => (iDataChannel = k \/ Used(DC(k))'),
             \A k \in Calls : iFileDevice' = k => (iFileDevice = k \/ Used(FL(k))')
      PROVE  UnusedOK'
  <2>1. \A d \in Devices \ {CC} : Used(d)' \/ dev'[d] = Unused
    BY <1>1, <1>2 DEF UploadInv, UnusedOK
  <2>2. \A k \in Calls : iDataChannel' = k => Used(DC(k))'
    BY <1>1, <1>2, QueueTyped DEF UploadInv, UnusedOK
  <2>3. \A k \in Calls : iFileDevice' = k => Used(FL(k))'
    BY <1>1, <1>2, QueueTyped DEF UploadInv, UnusedOK
  <2>4. (iDataChannel' # 0 => iDataChannel' \in Calls) /\ (iFileDevice' # 0 => iFileDevice' \in Calls)
    BY ScriptAssumption, NextIInv DEF IInv, Typed, TransferTyped, Calls
  <2> QED BY <2>1, <2>2, <2>3, <2>4 DEF UnusedOK, Unused, Used, Listed
<1>3. CASE Aside
  BY <1>2, <1>3 DEF Aside
<1>4. ASSUME NEW n \in Calls, Opens(n) PROVE UnusedOK'
  <2>1. \A d \in Devices \ {CC} : dev'[d] = dev[d] \/ Used(d)'
    BY <1>4, StaysTyped, DevicesDiffer, SetOthers DEF Opens
  <2> QED BY <1>2, <1>4, <2>1 DEF Opens
<1>5. ASSUME NEW n \in Calls, Begins(n) PROVE UnusedOK'
  <2>1. \A d \in Devices : d \notin {DC(n), FL(n)} => dev'[d] = dev[d]
    BY <1>5, BeginDevices
  <2>2. dev'[FL(n)] = dev[FL(n)] \/ Used(FL(n))'
    BY <1>5, BeginDevices DEF Begins
  <2>3. Used(DC(n))'
    BY <1>1, <1>5, QueueTyped DEF Begins, UploadInv, UnusedOK
  <2> QED BY <1>2, <1>5, <2>1, <2>2, <2>3 DEF Begins
<1>6. CASE Fails
  BY <1>2, <1>6, QueueTyped DEF Fails
<1>7. ASSUME NEW n \in Calls, fault = "none", Advances(n) PROVE UnusedOK'
  BY <1>1, <1>2, <1>7, AdvanceKeeps, QueueTyped
<1> QED BY <1>3, <1>4, <1>5, <1>6, <1>7, StepCases

\* A channel that awaits the reply connects.
LEMMA AwaitingStep ==
  ASSUME FinalRepliesOnly, NoStop, DataAfterReply, IInv, TInv, UploadInv, [Next]_vars
  PROVE  AwaitingOK'
<1>1. CASE Aside
  <2>1. (Awaiting' /\ iDataChannel' # 0) => (Awaiting /\ iDataChannel # 0)
    BY <1>1 DEF Aside, Moves, Awaiting
  <2>2. iDataChannel # 0 => dev'[DC(iDataChannel)] = dev[DC(iDataChannel)]
    BY <1>1, StaysTyped, DevicesDiffer DEF Aside
  <2> QED BY <1>1, <2>1, <2>2 DEF Aside, UploadInv, AwaitingOK, Connecting
<1>2. ASSUME NEW n \in Calls, Opens(n) PROVE AwaitingOK'
  <2>1. DC(n) \in Devices /\ DC(n) # CC /\ dev \in [Devices -> DeviceState]
    BY StaysTyped, DevicesDiffer
  <2>2. dev[DC(n)] = Unused
    BY <1>2, <2>1 DEF Opens, UploadInv, UnusedOK
  <2>3. /\ dev'[DC(n)].conn = "connecting" /\ dev'[DC(n)].ssl = "no"
        /\ dev'[DC(n)].stopped = FALSE /\ dev'[DC(n)].shut = FALSE
    BY <1>2, <2>1, <2>2, SetOne DEF Opens, Unused
  <2> QED BY <1>2, <2>3 DEF Opens, AwaitingOK, Connecting
<1>3. CASE iProtocolState' = "1yz" \/ iDataChannel' = 0
  BY <1>3 DEF AwaitingOK, Awaiting
<1>4. ASSUME NEW n \in Calls, fault = "none", Advances(n), UNCHANGED <<iProtocolState, wire, iDataChannel, iFileDevice>>
      PROVE  AwaitingOK'
  <2>1. CASE ~(Awaiting /\ iDataChannel # 0)
    BY <1>4, <2>1 DEF AwaitingOK, Awaiting
  <2>2. CASE Awaiting /\ iDataChannel # 0
    <3>1. PICK c \in Calls : c = iDataChannel
      BY <2>2, StaysTyped
    <3>2. Connecting(DC(c)) /\ DC(c) \in Devices
      BY <2>2, <3>1, DevicesDiffer DEF UploadInv, AwaitingOK
    <3>3. \A k \in Calls : ~Reads(k)
      BY <2>2, QueueTyped DEF Awaiting, TInv, FrontOK, ToComeOK, FileUnused, UploadInv, ReadingOK
    <3>4. Connecting(DC(c))'
      <4>1. CASE DcConnect(n)
        BY <1>4, <3>1, <3>2, <4>1, DcConnectIs DEF Connecting, Advances
      <4>2. CASE DcHandshake(n)
        BY <1>4, <3>1, <3>2, <4>2, DcHandshakeIs DEF Advances, Connecting
      <4>3. CASE DcRead(n)
        BY <1>4, <3>2, <4>3, DcReadIs DEF Advances, Connecting
      <4>4. CASE DcEof(n)
        BY <1>4, <3>1, <4>4, QueueTyped, DcEofIs DEF Advances
      <4>5. CASE FileRead(n) \/ FileEof(n)
        BY <1>4, <3>3, <4>5, FileReadDevices, FileEofIs DEF Advances
      <4>6. CASE CloseNotify(DC(n))
        BY <3>1, <3>2, <4>6, CloseNotifyIs DEF Connecting
      <4>7. CASE CloseNotify(FL(n))
        BY <3>1, <3>2, <4>7, CloseNotifyIs, DevicesDiffer DEF Connecting
      <4> QED BY <1>4, <4>1, <4>2, <4>3, <4>4, <4>5, <4>6, <4>7 DEF Advances
    <3> QED BY <1>4, <3>1, <3>4 DEF AwaitingOK, Connecting
  <2> QED BY <2>1, <2>2
<1>5. ASSUME NEW n \in Calls, fault = "none", Advances(n) PROVE AwaitingOK'
  BY <1>3, <1>4, <1>5, AdvanceKeeps
<1> QED BY <1>1, <1>2, <1>3, <1>5, StepCases DEF Begins, Fails

\* One transfer's share of ReadingOK.
ReadsRight(k) ==
  Reads(k) => /\ Script[k].api = "Upload" /\ iDataChannel = k /\ iFileDevice = k
              /\ ~dev[DC(k)].shut /\ dev[DC(k)].ssl \in {"no", "up"}
ShakesRight(k) ==
  dev[DC(k)].ssl = "shaking" =>
    ~dev[DC(k)].shut /\ ((iDataChannel = k /\ Script[k].local) => iFileDevice = k)

\* An upload that is not cut short ends when it has been sent.
LEMMA UploadPeer ==
  ASSUME NoAbort, UploadInv, NEW k \in Calls, PeerCloses(DC(k))
  PROVE  ~Reads(k)
BY DevicesDiffer DEF PeerCloses, NoAbort, UploadInv, ReadingOK, DC

\* A file is read while its data channel can take what is read.
LEMMA ReadingStep ==
  ASSUME FinalRepliesOnly, NoStop, DataAfterReply, NoAbort, IInv, TInv, UploadInv, [Next]_vars
  PROVE  ReadingOK'
<1>1. \A k \in Calls : ReadsRight(k) /\ ShakesRight(k)
  BY DEF UploadInv, ReadingOK, ReadsRight, ShakesRight
<1>2. SUFFICES ASSUME NEW k \in Calls PROVE ReadsRight(k)' /\ ShakesRight(k)'
  BY DEF ReadingOK, ReadsRight, ShakesRight, Reads
<1>3. DC(k) \in Devices /\ FL(k) \in Devices /\ DC(k) # CC /\ FL(k) # CC /\ DC(k) # FL(k) /\ k # 0
  BY DevicesDiffer, QueueTyped
<1>4. ReadsRight(k) /\ ShakesRight(k)
  BY <1>1
<1>5. CASE Aside
  BY <1>3, <1>4, <1>5 DEF Aside, ReadsRight, ShakesRight, Reads
<1>6. ASSUME NEW n \in Calls, Opens(n) PROVE ReadsRight(k)' /\ ShakesRight(k)'
  <2>1. DC(n) \in Devices /\ DC(n) # CC /\ DC(n) # FL(k) /\ (n # k => DC(n) # DC(k))
    BY DevicesDiffer, DevicesOfCalls
  <2>2. ~Reads(k) /\ dev'[FL(k)] = dev[FL(k)]
    BY <1>3, <1>4, <1>6, <2>1, StaysTyped, SetOthers DEF Opens, ReadsRight
  <2>3. dev'[DC(k)].ssl = dev[DC(k)].ssl /\ dev'[DC(k)].shut = dev[DC(k)].shut
    BY <1>3, <1>6, <2>1, StaysTyped, SetOthers, SetOne DEF Opens
  <2>4. dev[DC(n)].ssl = "no"
    BY <1>6, <2>1 DEF Opens, UploadInv, UnusedOK, Unused
  <2>5. iDataChannel' = n
    BY <1>6 DEF Opens
  <2> QED BY <1>4, <2>2, <2>3, <2>4, <2>5 DEF ReadsRight, ShakesRight, Reads
<1>7. ASSUME NEW n \in Calls, Begins(n) PROVE ReadsRight(k)' /\ ShakesRight(k)'
  <2>1. /\ \A d \in Devices : d \notin {DC(n), FL(n)} => dev'[d] = dev[d]
        /\ dev'[DC(n)].shut = dev[DC(n)].shut
        /\ dev[FL(n)] = Unused /\ Connecting(DC(n))
        /\ dev'[FL(n)].rd => dev'[DC(n)].ssl = "no" /\ Script[n].api = "Upload"
    BY <1>7, BeginDevices
  <2>2. iDataChannel = n /\ iDataChannel' = n /\ iFileDevice = 0 /\ iFileDevice' = IF Script[n].local THEN n ELSE 0
    BY <1>7 DEF Begins
  <2>3. CASE k = n
    <3>1. Script[n].api = "Upload" => Script[n].local
      BY ScriptAssumption
    <3> QED BY <2>1, <2>2, <2>3, <3>1 DEF ReadsRight, ShakesRight, Reads, Connecting
  <2>4. CASE k # n
    <3>1. dev'[DC(k)] = dev[DC(k)] /\ dev'[FL(k)] = dev[FL(k)]
      BY <1>3, <2>1, <2>4, DevicesOfCalls, DevicesDiffer
    <3>2. ~Reads(k)
      BY <1>3, <1>4, <2>2 DEF ReadsRight
    <3> QED BY <1>4, <2>2, <2>4, <3>1, <3>2 DEF ReadsRight, ShakesRight, Reads
  <2> QED BY <2>3, <2>4
<1>8. CASE Fails
  <2>1. iDataChannel' = 0 /\ iFileDevice' = 0 /\ dev' = dev
    BY <1>8 DEF Fails
  <2>2. ~Reads(k)
    <3> SUFFICES ASSUME Reads(k) PROVE FALSE
      OBVIOUS
    <3>1. Script[k].api = "Upload" /\ iDataChannel = k /\ iFileDevice = k /\ ~dev[DC(k)].shut
      BY <1>4 DEF ReadsRight
    <3>2. iCmdQ # <<>> /\ Head(iCmdQ).call = k /\ IsTransferCommand(Head(iCmdQ).cmd)
      BY <3>1, OwnerOf
    <3>3. Head(iCmdQ).cmd = "STOR"
      BY <3>1, <3>2, QueueTyped DEF UploadInv, CommandsOK, OwnCommand
    <3>4. ~Awaiting
      BY <3>1, <3>2 DEF Awaiting, TInv, ToComeOK, FileUnused
    <3> QED BY <1>3, <1>8, <3>1, <3>3, <3>4 DEF Fails
  <2> QED BY <1>3, <1>4, <2>1, <2>2 DEF ReadsRight, ShakesRight, Reads
<1>9. ASSUME NEW n \in Calls, fault = "none", Advances(n) PROVE ReadsRight(k)' /\ ShakesRight(k)'
  <2>1. DC(n) \in Devices /\ FL(n) \in Devices /\ fault' = "none" /\ n # 0
        /\ FL(k) # DC(n) /\ DC(k) # FL(n) /\ (k # n => DC(k) # DC(n) /\ FL(k) # FL(n))
    BY <1>9, DevicesDiffer, DevicesOfCalls, QueueTyped DEF Advances
  <2>2. CASE DcConnect(n)
    <3>1. dev'[FL(k)] = dev[FL(k)] /\ dev'[DC(k)].ssl = dev[DC(k)].ssl /\ dev'[DC(k)].shut = dev[DC(k)].shut
      BY <1>3, <1>9, <2>1, <2>2, DcConnectIs
    <3> QED BY <1>4, <1>9, <2>1, <2>2, <3>1, DcConnectIs DEF transfer, ReadsRight, ShakesRight, Reads
  <2>3. CASE DcHandshake(n)
    <3>1. /\ dev[DC(n)].ssl = "shaking" /\ iDataChannel = n /\ UNCHANGED transfer
          /\ \A d \in Devices \ {DC(n), FL(n)} : dev'[d] = dev[d]
          /\ dev'[DC(n)].ssl = "up" /\ dev'[DC(n)].shut = dev[DC(n)].shut
          /\ dev'[FL(n)] # dev[FL(n)] => iFileDevice = n /\ Script[n].api = "Upload"
      BY <2>1, <2>3, DcHandshakeIs
    <3>2. ReadsRight(n) /\ ShakesRight(n)
      BY <1>1
    <3>3. CASE k = n
      BY <3>1, <3>2, <3>3 DEF transfer, ReadsRight, ShakesRight, Reads
    <3>4. CASE k # n
      BY <1>3, <1>4, <2>1, <3>1, <3>4 DEF transfer, ReadsRight, ShakesRight, Reads
    <3> QED BY <3>3, <3>4
  <2>4. CASE DcRead(n)
    BY <1>4, <1>9, <2>1, <2>4, DcReadIs DEF ReadsRight, ShakesRight, Reads
  <2>5. CASE DcEof(n)
    <3>1. /\ PeerCloses(DC(n)) /\ Listed(DC(n)) /\ iDataChannel' = 0
          /\ dev' = [dev EXCEPT ![DC(n)].conn = "closed"]
      BY <1>9, <2>1, <2>5, DcEofIs
    <3>2. ~Reads(k)
      BY <1>3, <1>4, <3>1, OwnerOf, UploadPeer DEF ReadsRight
    <3>3. dev'[FL(k)] = dev[FL(k)]
      BY <1>3, <2>1, <3>1, StaysTyped, SetOthers
    <3>4. dev'[DC(k)].ssl = dev[DC(k)].ssl /\ dev'[DC(k)].shut = dev[DC(k)].shut
      BY <1>3, <2>1, <3>1, StaysTyped, SetOthers, SetOne
    <3> QED BY <1>3, <1>4, <3>1, <3>2, <3>3, <3>4 DEF ReadsRight, ShakesRight, Reads
  <2>6. CASE FileRead(n)
    <3>1. /\ Reads(n) /\ iDataChannel = n /\ iFileDevice = n
          /\ \A d \in Devices \ {FL(n), DC(n)} : dev'[d] = dev[d]
          /\ \/ ~dev'[FL(n)].rd /\ dev'[DC(n)].ssl \in {dev[DC(n)].ssl, "closing"}
             \/ dev'[DC(n)] = dev[DC(n)]
      BY <1>9, <2>1, <2>6, FileReadDevices
    <3>2. UNCHANGED <<iDataChannel, iFileDevice>>
      BY <1>9, <2>1, <2>6, FileReadIs
    <3>3. ReadsRight(n) /\ ShakesRight(n)
      BY <1>1
    <3>4. CASE k = n
      BY <3>1, <3>2, <3>3, <3>4 DEF ReadsRight, ShakesRight, Reads
    <3>5. CASE k # n
      BY <1>3, <1>4, <2>1, <3>1, <3>2, <3>5 DEF ReadsRight, ShakesRight, Reads
    <3> QED BY <3>4, <3>5
  <2>7. CASE FileEof(n)
    <3>1. /\ Reads(n) /\ iDataChannel = n /\ iFileDevice = n /\ UNCHANGED transfer
          /\ \A d \in Devices \ {FL(n), DC(n)} : dev'[d] = dev[d]
          /\ ~dev'[FL(n)].rd /\ dev'[DC(n)].ssl \in {dev[DC(n)].ssl, "closing"}
      BY <2>1, <2>7, FileEofIs
    <3>2. ReadsRight(n) /\ ShakesRight(n)
      BY <1>1
    <3>3. CASE k = n
      BY <3>1, <3>2, <3>3 DEF transfer, ReadsRight, ShakesRight, Reads
    <3>4. CASE k # n
      BY <1>3, <1>4, <2>1, <3>1, <3>4 DEF transfer, ReadsRight, ShakesRight, Reads
    <3> QED BY <3>3, <3>4
  <2>8. CASE CloseNotify(DC(n))
    <3>1. /\ UNCHANGED transfer /\ \A e \in Devices \ {DC(n)} : dev'[e] = dev[e]
          /\ dev'[DC(n)].ssl \in {"up", "closing"} /\ PeerCloses(DC(n)) /\ iDataChannel = n
      BY <2>8, CloseNotifyIs
    <3>2. ~Reads(k)
      BY <1>4, <3>1, UploadPeer DEF ReadsRight
    <3>3. CASE k = n
      BY <1>3, <2>1, <3>1, <3>2, <3>3 DEF ReadsRight, ShakesRight, Reads
    <3>4. CASE k # n
      BY <1>3, <1>4, <2>1, <3>1, <3>2, <3>4 DEF transfer, ReadsRight, ShakesRight, Reads
    <3> QED BY <3>3, <3>4
  <2>9. CASE CloseNotify(FL(n))
    <3>1. /\ UNCHANGED transfer /\ \A e \in Devices \ {FL(n)} : dev'[e] = dev[e]
          /\ dev'[FL(n)].rd = dev[FL(n)].rd
      BY <2>9, CloseNotifyIs
    <3>2. dev'[DC(k)] = dev[DC(k)] /\ dev'[FL(k)].rd = dev[FL(k)].rd
      BY <1>3, <2>1, <3>1
    <3> QED BY <1>4, <3>1, <3>2 DEF transfer, ReadsRight, ShakesRight, Reads
  <2> QED BY <1>9, <2>2, <2>3, <2>4, <2>5, <2>6, <2>7, <2>8, <2>9 DEF Advances
<1> QED BY <1>5, <1>6, <1>7, <1>8, <1>9, StepCases

\* One transfer's share of SentOK.
SentRight(k) ==
  /\ Reads(k) => dev[DC(k)].conn = "open"
  /\ \/ seen[k].tx = seen[k].read
     \/ dev[FL(k)].conn = "open" /\ ~Reads(k) /\ dev[DC(k)].ssl # "shaking"

\* Whatever is read is sent, up to the chunk at which the callback refuses.
LEMMA SentStep ==
  ASSUME FinalRepliesOnly, NoStop, DataAfterReply, NoAbort, ConnectFirst,
         IInv, TInv, UploadInv, SentOK, [Next]_vars
  PROVE  SentOK'
<1>1. \A k \in Calls : SentRight(k)
  BY DEF SentOK, SentRight
<1>2. SUFFICES ASSUME NEW k \in Calls PROVE SentRight(k)'
  BY DEF SentOK, SentRight, Reads
<1>3. DC(k) \in Devices /\ FL(k) \in Devices /\ DC(k) # CC /\ FL(k) # CC /\ DC(k) # FL(k) /\ k # 0
  BY DevicesDiffer, QueueTyped
<1>4. SentRight(k)
  BY <1>1
<1>5. CASE Aside
  BY <1>3, <1>4, <1>5 DEF Aside, SentRight, Reads
<1>6. ASSUME NEW n \in Calls, Opens(n) PROVE SentRight(k)'
  <2>1. DC(n) \in Devices /\ DC(n) # FL(k) /\ (n # k => DC(n) # DC(k))
    BY DevicesDiffer, DevicesOfCalls
  <2>2. dev'[FL(k)] = dev[FL(k)] /\ dev'[DC(k)].ssl = dev[DC(k)].ssl
    BY <1>3, <1>6, <2>1, StaysTyped, SetOthers, SetOne DEF Opens
  <2>3. ~Reads(k)
    BY <1>3, <1>6 DEF Opens, UploadInv, ReadingOK
  <2> QED BY <1>4, <1>6, <2>2, <2>3 DEF Opens, SentRight, Reads
<1>7. ASSUME NEW n \in Calls, Begins(n) PROVE SentRight(k)'
  <2>1. /\ \A d \in Devices : d \notin {DC(n), FL(n)} => dev'[d] = dev[d]
        /\ dev'[DC(n)].conn = dev[DC(n)].conn
        /\ dev[FL(n)] = Unused /\ Connecting(DC(n)) /\ seen' = seen
    BY <1>7, BeginDevices DEF Begins
  <2>2. CASE k = n
    <3>1. dev[DC(n)].conn = "open"
      BY <1>7, <2>1 DEF Begins, Connecting
    <3>2. dev[FL(n)].conn = "none"
      BY <2>1 DEF Unused
    <3> QED BY <1>4, <2>1, <2>2, <3>1, <3>2 DEF SentRight
  <2>3. CASE k # n
    <3>1. dev'[DC(k)] = dev[DC(k)] /\ dev'[FL(k)] = dev[FL(k)]
      BY <1>3, <2>1, <2>3, DevicesOfCalls, DevicesDiffer
    <3> QED BY <1>4, <2>1, <3>1 DEF SentRight, Reads
  <2> QED BY <2>2, <2>3
<1>8. CASE Fails
  BY <1>4, <1>8 DEF Fails, SentRight, Reads
<1>9. ASSUME NEW n \in Calls, fault = "none", Advances(n) PROVE SentRight(k)'
  <2>1. DC(n) \in Devices /\ FL(n) \in Devices /\ fault' = "none" /\ n # 0
        /\ FL(k) # DC(n) /\ DC(k) # FL(n) /\ (k # n => DC(k) # DC(n) /\ FL(k) # FL(n))
    BY <1>9, DevicesDiffer, DevicesOfCalls, QueueTyped DEF Advances
  <2>2. CASE DcConnect(n)
    <3>1. /\ dev'[FL(k)] = dev[FL(k)] /\ dev'[DC(k)].ssl = dev[DC(k)].ssl
          /\ dev'[DC(k)].conn \in {dev[DC(k)].conn, "open"} /\ seen' = seen
      BY <1>3, <1>9, <2>1, <2>2, DcConnectIs
    <3> QED BY <1>4, <3>1 DEF SentRight, Reads
  <2>3. CASE DcHandshake(n)
    <3>1. /\ Reading(DC(n)) /\ dev[DC(n)].ssl = "shaking" /\ seen' = seen
          /\ \A d \in Devices \ {DC(n), FL(n)} : dev'[d] = dev[d]
          /\ dev'[DC(n)].conn = dev[DC(n)].conn
      BY <2>1, <2>3, DcHandshakeIs
    <3>2. CASE k = n
      BY <1>4, <3>1, <3>2 DEF SentRight, Reads, Reading
    <3>3. CASE k # n
      BY <1>3, <1>4, <2>1, <3>1, <3>3 DEF SentRight, Reads
    <3> QED BY <3>2, <3>3
  <2>4. CASE DcRead(n)
    <3>1. dev' = dev /\ seen'[k].tx = seen[k].tx /\ seen'[k].read = seen[k].read
      BY <1>9, <2>1, <2>4, DcReadIs
    <3> QED BY <1>4, <3>1 DEF SentRight, Reads
  <2>5. CASE DcEof(n)
    <3>1. /\ PeerCloses(DC(n)) /\ Listed(DC(n)) /\ dev' = [dev EXCEPT ![DC(n)].conn = "closed"]
          /\ seen'[k].tx = seen[k].tx /\ seen'[k].read = seen[k].read
      BY <1>9, <2>1, <2>5, DcEofIs
    <3>2. ~Reads(k)
      BY <1>3, <3>1, OwnerOf, UploadPeer DEF UploadInv, ReadingOK
    <3>3. dev'[FL(k)] = dev[FL(k)]
      BY <1>3, <2>1, <3>1, StaysTyped, SetOthers
    <3>4. dev'[DC(k)].ssl = dev[DC(k)].ssl
      BY <1>3, <2>1, <3>1, StaysTyped, SetOthers, SetOne
    <3> QED BY <1>4, <3>1, <3>2, <3>3, <3>4 DEF SentRight, Reads
  <2>6. CASE FileRead(n)
    <3>1. /\ Reading(FL(n)) /\ Reads(n) /\ iDataChannel = n
          /\ \A d \in Devices \ {FL(n), DC(n)} : dev'[d] = dev[d]
          /\ dev'[FL(n)].conn = dev[FL(n)].conn /\ dev'[DC(n)].conn = dev[DC(n)].conn
          /\ \/ ~dev'[FL(n)].rd /\ dev'[DC(n)].ssl \in {dev[DC(n)].ssl, "closing"}
             \/ dev'[DC(n)] = dev[DC(n)] /\ \A j \in Calls : seen'[j].tx =
                     IF j = n /\ CanSend(DC(n)) THEN seen[j].tx + 1 ELSE seen[j].tx
      BY <1>9, <2>1, <2>6, FileReadDevices
    <3>2. /\ \A j \in Calls : seen'[j].read = IF j = n THEN seen[j].read + 1 ELSE seen[j].read
          /\ \A j \in Calls : j # n => seen'[j].tx = seen[j].tx
      BY <1>9, <2>1, <2>6, <3>1, FileReadIs
    <3>3. /\ dev[DC(n)].conn = "open" /\ seen[n].tx = seen[n].read
          /\ ~dev[DC(n)].shut /\ dev[DC(n)].ssl \in {"no", "up"}
      BY <1>1, <3>1 DEF SentRight, UploadInv, ReadingOK
    <3>4. CASE k = n
      <4>1. CASE ~dev'[FL(n)].rd /\ dev'[DC(n)].ssl \in {dev[DC(n)].ssl, "closing"}
        BY <3>1, <3>3, <3>4, <4>1 DEF SentRight, Reads, Reading
      <4>2. CASE dev'[DC(n)] = dev[DC(n)] /\ \A j \in Calls : seen'[j].tx =
                     IF j = n /\ CanSend(DC(n)) THEN seen[j].tx + 1 ELSE seen[j].tx
        <5>1. CanSend(DC(n))
          BY <3>3 DEF CanSend
        <5>2. seen'[n].tx = seen'[n].read
          BY <3>2, <3>3, <4>2, <5>1
        <5> QED BY <3>3, <3>4, <4>2, <5>2 DEF SentRight
      <4> QED BY <3>1, <4>1, <4>2
    <3>5. CASE k # n
      BY <1>3, <1>4, <2>1, <3>1, <3>2, <3>5 DEF SentRight, Reads
    <3> QED BY <3>4, <3>5
  <2>7. CASE FileEof(n)
    <3>1. /\ Reads(n) /\ seen' = seen
          /\ \A d \in Devices \ {FL(n), DC(n)} : dev'[d] = dev[d]
          /\ ~dev'[FL(n)].rd
      BY <2>1, <2>7, FileEofIs
    <3>2. CASE k = n
      BY <1>4, <3>1, <3>2 DEF SentRight, Reads
    <3>3. CASE k # n
      BY <1>3, <1>4, <2>1, <3>1, <3>3 DEF SentRight, Reads
    <3> QED BY <3>2, <3>3
  <2>8. ASSUME NEW d \in {DC(n), FL(n)}, CloseNotify(d) PROVE SentRight(k)'
    <3>1. /\ seen' = seen /\ \A e \in Devices \ {d} : dev'[e] = dev[e]
          /\ dev'[d].conn = dev[d].conn /\ dev'[d].rd = dev[d].rd /\ dev'[d].ssl \in {"up", "closing"}
      BY <2>8, CloseNotifyIs
    <3>2. /\ dev'[DC(k)].conn = dev[DC(k)].conn /\ dev'[FL(k)].conn = dev[FL(k)].conn /\ dev'[FL(k)].rd = dev[FL(k)].rd
          /\ dev'[DC(k)].ssl \in {dev[DC(k)].ssl, "up", "closing"}
      BY <1>3, <3>1
    <3> QED BY <1>4, <3>1, <3>2 DEF SentRight, Reads
  <2> QED BY <1>9, <2>2, <2>3, <2>4, <2>5, <2>6, <2>7, <2>8 DEF Advances
<1> QED BY <1>5, <1>6, <1>7, <1>8, <1>9, StepCases

\* The invariant of uploads.
LEMMA UploadInvariance ==
  ASSUME FinalRepliesOnly, NoStop, DataAfterReply, NoAbort
  PROVE  Spec => []UploadInv
<1>1. Init => UploadInv
  <2> SUFFICES ASSUME Init PROVE UploadInv
    OBVIOUS
  <2>1. \A d \in Devices : dev[d] = Unused
    BY DEF Init, Unused
  <2>2. iCmdQ = <<>> /\ iDataChannel = 0 /\ iFileDevice = 0 /\ wire = <<>>
    BY Zenon DEF Init
  <2>3. CommandsOK
    BY <2>2 DEF CommandsOK
  <2>4. UnusedOK /\ AwaitingOK /\ ReadingOK
    BY <2>1, <2>2, DevicesDiffer DEF UnusedOK, AwaitingOK, ReadingOK, Reads, Unused
  <2> QED BY <2>3, <2>4 DEF UploadInv
<1>2. IInv /\ TInv /\ UploadInv /\ [Next]_vars => UploadInv'
  BY CommandsStep, UnusedStep, AwaitingStep, ReadingStep DEF UploadInv
<1>3. Spec => [](IInv /\ TInv)
  BY TransferInvariance
<1> QED BY <1>1, <1>2, <1>3, PTL DEF Spec

\* An upload whose file was read to its end has sent every chunk it read, with
\* or without TLS, whatever its callback answers, also if the control channel
\* is lost or the server closes abruptly afterwards.
THEOREM UploadsAreComplete ==
  ASSUME FinalRepliesOnly, NoStop, DataAfterReply, NoAbort, ConnectFirst
  PROVE  Spec => []UploadComplete
<1>1. Init => SentOK
  BY DevicesDiffer DEF Init, SentOK, Reads
<1>2. IInv /\ TInv /\ UploadInv /\ SentOK /\ [Next]_vars => SentOK'
  BY SentStep
<1>3. SentOK => UploadComplete
  BY DEF SentOK, UploadComplete
<1>4. Spec => []UploadInv
  BY UploadInvariance
<1>5. Spec => [](IInv /\ TInv)
  BY TransferInvariance
<1> QED BY <1>1, <1>2, <1>3, <1>4, <1>5, PTL DEF Spec

----------------------------------------------------------------------------
(* What handlers never meet *)

\* A reply's handler survives: no file of an earlier transfer is held, and the
\* transfer that begins has its data channel.
LEMMA ReplyIsSurvived ==
  ASSUME FinalRepliesOnly, IInv, TInv, NEW code \in Codes, OnControlRead(code)
  PROVE  UNCHANGED fault
<1>1. ASSUME NEW state, NEW w, Plain(state, w) PROVE UNCHANGED fault
  BY <1>1 DEF Plain
<1>2. CASE code = "1"
  <2>1. AtReply /\ (Plain(iProtocolState, wire) \/ (BeginTransfer(wire) /\ iProtocolState = "DATA"))
    BY <1>2, PreliminaryCases
  <2>2. CASE BeginTransfer(wire) /\ iProtocolState = "DATA"
    <3>1. iCmdQ # <<>> /\ wire # <<>> /\ Head(iCmdQ).call \in Calls /\ Head(iCmdQ).call # 0
      BY <2>1, <2>2, FrontByState, QueueTyped DEF AtReply
    <3>2. iDataChannel # 0 /\ iFileDevice = 0
      BY <2>2, <3>1 DEF TInv, FrontOK, ToComeOK, FileUnused
    <3> QED BY <2>2, <3>2 DEF BeginTransfer
  <2> QED BY <1>1, <2>1, <2>2
<1>3. CASE code # "1"
  <2>1. CASE \/ DoCCHandshake(<<>>) \/ \E status \in BOOLEAN, state \in States : ProcessLoginEvent(status, state, <<>>)
             \/ ProcessGenCmdEvent(code, <<>>) \/ \E state \in States : SkipTransfer(state, <<>>)
             \/ ProcessPasvResponse(<<>>) \/ FailTransfer(<<>>)
    BY <2>1 DEF DoCCHandshake, ProcessLoginEvent, ProcessGenCmdEvent, SkipTransfer, ProcessPasvResponse, FailTransfer
  <2>2. CASE CompleteTransfer(<<>>)
    BY <1>1, <2>2 DEF CompleteTransfer
  <2>3. \/ DoCCHandshake(<<>>) \/ \E status \in BOOLEAN, state \in States : ProcessLoginEvent(status, state, <<>>)
        \/ ProcessGenCmdEvent(code, <<>>) \/ \E state \in States : SkipTransfer(state, <<>>)
        \/ ProcessPasvResponse(<<>>) \/ FailTransfer(<<>>) \/ CompleteTransfer(<<>>)
        \/ \E state, w : Plain(state, w)
    BY <1>3, FinalCases, Zenon
  <2> QED BY <1>1, <2>1, <2>2, <2>3
<1> QED BY <1>2, <1>3

\* No handler dies.
LEMMA SurvivesStep ==
  ASSUME FinalRepliesOnly, NoStop, DataAfterReply, NoAbruptClose, ReadsBegin,
         IInv, TInv, UploadInv, DownloadInv, fault = "none", [Next]_vars
  PROVE  fault' = "none"
<1>1. CASE UNCHANGED vars
  BY <1>1 DEF vars
<1>2. CASE StartClient \/ ApiCall \/ GiveUp \/ ControlConnect \/ ControlHandshake \/ OtherCompletion
           \/ \E d \in Devices : CloseNotify(d)
  BY <1>2 DEF StartClient, ApiCall, GiveUp, ControlConnect, ControlHandshake, OtherCompletion, CloseNotify
<1>3. CASE ControlEof
  BY <1>3 DEF ControlEof, NoAbruptClose
<1>4. ASSUME NEW code \in Codes, OnControlRead(code) PROVE fault' = "none"
  BY <1>4, ReplyIsSurvived
<1>5. ASSUME NEW n \in Calls, Listed(DC(n))
      PROVE  iDataChannel = n /\ n # 0 /\ iCmdQ # <<>> /\ Head(iCmdQ).call = n /\ IsTransferCommand(Head(iCmdQ).cmd)
  BY <1>5, OwnerOf
<1>10. ASSUME NEW n \in Calls, DcConnect(n) \/ DcWrite(n) PROVE fault' = "none"
  BY <1>5, <1>10 DEF DcConnect, DcWrite, Reading
<1>6. ASSUME NEW n \in Calls, DcHandshake(n) PROVE fault' = "none"
  <2>1. Listed(DC(n)) /\ dev[DC(n)].ssl = "shaking"
    BY <1>6 DEF DcHandshake, Reading
  <2>2. Head(iCmdQ).cmd = "STOR" => iFileDevice # 0
    <3> SUFFICES ASSUME Head(iCmdQ).cmd = "STOR" PROVE iFileDevice # 0
      OBVIOUS
    <3>1. Script[n].api = "Upload"
      BY <1>5, <2>1, QueueTyped DEF UploadInv, CommandsOK, OwnCommand
    <3>2. Script[n].local
      BY <3>1, ScriptAssumption
    <3> QED BY <1>5, <2>1, <3>2 DEF UploadInv, ReadingOK
  <2> QED BY <1>5, <1>6, <2>1, <2>2 DEF DcHandshake
<1>7. ASSUME NEW n \in Calls, DcRead(n) PROVE fault' = "none"
  <2>1. Listed(DC(n)) /\ Script[n].api # "Upload" /\ Begun(n)
    BY <1>7 DEF DcRead, Reading, DataAfterReply
  <2>2. iContinueTransfer /\ iCmdQ # <<>>
    BY <1>5, <2>1, ReplyCame DEF DownloadInv
  <2> QED BY <1>7, <2>2, Zenon DEF DcRead
<1>8. ASSUME NEW n \in Calls, DcEof(n) PROVE fault' = "none"
  <2>1. Listed(DC(n)) /\ SentShutdown(DC(n))
    BY <1>8 DEF DcEof, Reading, NoAbruptClose
  <2> QED BY <1>5, <1>8, <2>1 DEF DcEof
<1>9. ASSUME NEW n \in Calls, FileRead(n) \/ FileEof(n) PROVE fault' = "none"
  <2>1. Reads(n)
    BY <1>9 DEF FileRead, FileEof, Reads
  <2>2. iDataChannel = n /\ iFileDevice = n /\ n # 0
    BY <2>1, QueueTyped DEF UploadInv, ReadingOK
  <2>3. iCmdQ # <<>>
    BY <2>2, OwnerOf
  <2>4. FileRead(n) => fault' = "none"
    BY <2>2, <2>3, Zenon DEF FileRead, SendChunk, ReadsBegin
  <2> QED BY <1>9, <2>2, <2>4 DEF FileEof
<1> QED BY <1>1, <1>2, <1>3, <1>4, <1>6, <1>7, <1>8, <1>9, <1>10 DEF Next, Completion

\* In an orderly session, with early replies or without, no handler runs into
\* an assertion, a null channel or its own lock.
THEOREM NoHandlerDies ==
  ASSUME FinalRepliesOnly, NoStop, DataAfterReply, NoAbort, NoDrop, NoAbruptClose, ReadsBegin, TransferReplies,
         DownloadsTaken
  PROVE  Spec => []NoFault
<1>1. Init => NoFault
  BY DEF Init, NoFault, Alive
<1>2. IInv /\ TInv /\ UploadInv /\ DownloadInv /\ NoFault /\ [Next]_vars => NoFault'
  BY SurvivesStep DEF NoFault, Alive
<1>3. Spec => []UploadInv
  BY UploadInvariance
<1>4. Spec => []DownloadInv
  BY DownloadInvariance
<1>5. Spec => [](IInv /\ TInv)
  BY TransferInvariance
<1> QED BY <1>1, <1>2, <1>3, <1>4, <1>5, PTL DEF Spec
=============================================================================
