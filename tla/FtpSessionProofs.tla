-------------------------- MODULE FtpSessionProofs --------------------------
(***************************************************************************)
(* The dialogue of FtpSession, for every script, every TLS mode and every  *)
(* orderly or disorderly server and network: whatever is on the wire, the  *)
(* flag is taken and the protocol is in the state whose rows of FSM handle *)
(* the reply.                                                              *)
(***************************************************************************)
EXTENDS FtpSession, SequenceTheorems, WellFoundedInduction, TLAPS

\* RFC 959 has preliminary replies to a connection and to transfer commands
\* only (and none to PASS).  The code would retire a command at its
\* preliminary reply and take its final one for the next command's.
FinalRepliesOnly == "1" \notin Replies["PASS"] \cup Replies["PASV"] \cup Replies["GEN"]

----------------------------------------------------------------------------
(* The inductive invariant *)

LoginSteps == {"GREETING", "AUTH", "USER", "PASS", "ACCT"}
Command == [cmd : CommandNames, call : Calls]
LoginCommand == [cmd : LoginSteps, call : {0}]

\* The protocol's commands, and what is on the wire.
QueuesOK ==
  /\ iCmdQ \in Seq(Command) /\ iCmdInProgress \in BOOLEAN /\ iProtocolState \in States
  /\ wire \in Seq(Command \cup LoginCommand)
  /\ prelim \in BOOLEAN /\ quit \in BOOLEAN /\ fault \in {"none"} \cup Faults

\* With nothing on the wire no preliminary reply is outstanding; before the
\* control channel is connected, and in its explicit handshake, the flag is
\* taken, nothing is on the wire, and no other handler moves the protocol.
ControlOK ==
  Alive =>
    /\ (wire = <<>> /\ dev[CC].conn = "open") => ~prelim
    /\ dev[CC].conn \in {"none", "connecting"} =>
         iCmdInProgress /\ ~foundEmpty /\ wire = <<>> /\ iProtocolState = "CONNECTING" /\ ~prelim
    /\ (CcTls = "Yes" /\ dev[CC].ssl = "shaking") =>
         iCmdInProgress /\ ~foundEmpty /\ wire = <<>> /\ iProtocolState = "TLS"

\* A command is on the wire only while the flag is taken, and no longer when the
\* flag is about to be given back.
FlagOK ==
  /\ foundEmpty \in BOOLEAN
  /\ ~iCmdInProgress => wire = <<>>
  /\ foundEmpty => iCmdInProgress /\ wire = <<>>

Dialogue == QueuesOK /\ FlagOK /\ AwaitsItsReply /\ ControlOK

TransferTyped ==
  /\ iDCProt \in {"Clear", "Protected"} /\ iContinueTransfer \in BOOLEAN
  /\ iDataChannel \in 0..Len(Script) /\ iFileDevice \in 0..Len(Script)
  /\ iCurrentFileOffset \in Nat /\ called \in 0..Len(Script)

ListTyped == iObservers \in Seq(Devices) /\ removeMark \subseteq Devices

Connections == {"none", "connecting", "open", "closed"}
Handshakes == {"no", "shaking", "up", "lost", "closing"}
DeviceState == [conn : Connections, ssl : Handshakes, stopped : BOOLEAN, shut : BOOLEAN, rd : BOOLEAN]
DevicesTyped == dev \in [Devices -> DeviceState]

History == [told : Nat, null : Nat, rx : 0..MaxChunks, stored : Nat, read : 0..MaxChunks, tx : Nat]
HistoryTyped == seen \in [Calls -> History]

Typed == TransferTyped /\ ListTyped /\ DevicesTyped /\ HistoryTyped

IInv == Dialogue /\ Typed

----------------------------------------------------------------------------
(* The table of the state machine *)

\* A row of a group has its fields.
LEMMA RowFields ==
  ASSUME NEW from, NEW codes, NEW to, NEW fn, NEW t \in Row(from, codes, to, fn)
  PROVE  t.from = from /\ t.code \in codes /\ t.to = to /\ t.fn = fn
BY DEF Row

\* The rows of FSM, one disjunct per group.
LEMMA FsmRows ==
  ASSUME NEW t \in FSM
  PROVE
    \/ t.from = "CONNECTED" /\ t.code \in {"1", "4"} /\ t.to = "CONNECTED" /\ t.fn = "none"
    \/ t.from = "CONNECTED" /\ t.code = "2" /\ t.to = "CHECK" /\ t.fn = "CheckExplicitFTPS"
    \/ t.from = "AUTH" /\ t.code = "2" /\ t.to = "TLS" /\ t.fn = "DoCCHandshake"
    \/ t.from = "AUTH" /\ t.code = "3" /\ t.to = "ADAT" /\ t.fn = "none"
    \/ t.from = "AUTH" /\ t.code \in {"4", "5"} /\ t.to = "USER" /\ t.fn = "SendUSER"
    \/ t.from = "USER" /\ t.code \in {"1", "4", "5"} /\ t.to = "USER" /\ t.fn = "none"
    \/ t.from = "USER" /\ t.code = "2" /\ t.to = "READY" /\ t.fn = "none"
    \/ t.from = "USER" /\ t.code = "3" /\ t.to = "PASS" /\ t.fn = "SendPASS"
    \/ t.from = "PASS" /\ t.code \in {"1", "4", "5"} /\ t.to = "USER" /\ t.fn = "LoginFailed"
    \/ t.from = "PASS" /\ t.code = "2" /\ t.to = "READY" /\ t.fn = "LoginDone"
    \/ t.from = "PASS" /\ t.code = "3" /\ t.to = "ACCT" /\ t.fn = "SendACCT"
    \/ t.from = "PASV" /\ t.code = "1" /\ t.to = "DATA" /\ t.fn = "SkipTransfer"
    \/ t.from = "PASV" /\ t.code = "2" /\ t.to = "DATA" /\ t.fn = "ProcessPasvResponse"
    \/ t.from = "PASV" /\ t.code \in {"4", "5"} /\ t.to = "READY" /\ t.fn = "SkipTransfer"
    \/ t.from = "DATA" /\ t.code = "1" /\ t.to = "1yz" /\ t.fn = "BeginTransfer"
    \/ t.from = "1yz" /\ t.code = "2" /\ t.to = "xyz" /\ t.fn = "CompleteTransfer"
    \/ t.from = "1yz" /\ t.code = "4" /\ t.to = "xyz" /\ t.fn = "FailTransfer"
    \/ t.from = "DATA" /\ t.code \in {"4", "5"} /\ t.to = "xyz" /\ t.fn = "FailTransfer"
    \/ t.from = "GEN" /\ t.code \in Codes /\ t.to = "READY" /\ t.fn = "ProcessGenCmdEvent"
<1>1. \/ t \in Row("CONNECTED", {"1", "4"},      "CONNECTED", "none")
      \/ t \in Row("CONNECTED", {"2"},           "CHECK",     "CheckExplicitFTPS")
      \/ t \in Row("AUTH",      {"2"},           "TLS",       "DoCCHandshake")
      \/ t \in Row("AUTH",      {"3"},           "ADAT",      "none")
      \/ t \in Row("AUTH",      {"4", "5"},      "USER",      "SendUSER")
      \/ t \in Row("USER",      {"1", "4", "5"}, "USER",      "none")
      \/ t \in Row("USER",      {"2"},           "READY",     "none")
      \/ t \in Row("USER",      {"3"},           "PASS",      "SendPASS")
      \/ t \in Row("PASS",      {"1", "4", "5"}, "USER",      "LoginFailed")
      \/ t \in Row("PASS",      {"2"},           "READY",     "LoginDone")
      \/ t \in Row("PASS",      {"3"},           "ACCT",      "SendACCT")
      \/ t \in Row("PASV",      {"1"},           "DATA",      "SkipTransfer")
      \/ t \in Row("PASV",      {"2"},           "DATA",      "ProcessPasvResponse")
      \/ t \in Row("PASV",      {"4", "5"},      "READY",     "SkipTransfer")
      \/ t \in Row("DATA",      {"1"},           "1yz",       "BeginTransfer")
      \/ t \in Row("1yz",       {"2"},           "xyz",       "CompleteTransfer")
      \/ t \in Row("1yz",       {"4"},           "xyz",       "FailTransfer")
      \/ t \in Row("DATA",      {"4", "5"},      "xyz",       "FailTransfer")
      \/ t \in Row("GEN",       Codes,           "READY",     "ProcessGenCmdEvent")
  BY SMTT(30) DEF FSM
<1> QED BY <1>1, RowFields

\* The states a session is in.
LEMMA StatesAre ==
  /\ {"CONNECTING", "DISCONNECTED", "CONNECTED", "AUTH", "TLS", "USER", "PASS", "ACCT", "READY",
      "PASV", "DATA", "GEN", "1yz", "xyz"} \subseteq States
  /\ \A t \in FSM : t.to \in States
<1>1. \A t \in FSM : t.to \in States /\ t.from \in States
  BY DEF States
<1>2. ASSUME NEW from, NEW codes, NEW to, NEW fn, NEW c \in codes, Row(from, codes, to, fn) \subseteq FSM
      PROVE  from \in States /\ to \in States
  <2>1. [from |-> from, code |-> c, to |-> to, fn |-> fn] \in FSM
    BY <1>2 DEF Row
  <2> QED BY <1>1, <2>1
<1>3. /\ Row("CONNECTED", {"1", "4"}, "CONNECTED", "none") \subseteq FSM
      /\ Row("AUTH", {"2"}, "TLS", "DoCCHandshake") \subseteq FSM
      /\ Row("USER", {"2"}, "READY", "none") \subseteq FSM
      /\ Row("PASS", {"3"}, "ACCT", "SendACCT") \subseteq FSM
      /\ Row("PASV", {"2"}, "DATA", "ProcessPasvResponse") \subseteq FSM
      /\ Row("1yz", {"2"}, "xyz", "CompleteTransfer") \subseteq FSM
      /\ Row("GEN", Codes, "READY", "ProcessGenCmdEvent") \subseteq FSM
  BY Zenon DEF FSM
<1>4. "1" \in {"1", "4"} /\ "2" \in {"2"} /\ "3" \in {"3"} /\ "1" \in Codes
  BY DEF Codes
<1>5. /\ {"CONNECTED", "AUTH", "TLS", "USER", "READY"} \subseteq States
      /\ {"PASS", "ACCT", "PASV", "DATA", "1yz", "xyz", "GEN"} \subseteq States
  BY <1>2, <1>3, <1>4
<1>6. "CONNECTING" \in States /\ "DISCONNECTED" \in States
  BY DEF States
<1> QED BY <1>1, <1>5, <1>6

----------------------------------------------------------------------------
(* The dialogue, step by step *)

\* The control channel of the step's end, as far as the dialogue looks at it.
SameControl ==
  /\ dev'[CC].conn = dev[CC].conn
  /\ dev'[CC].ssl = dev[CC].ssl \/ dev'[CC].ssl \notin {"shaking"}

\* A step that leaves the dialogue alone: those of data channels and files.
LEMMA SilentStep ==
  ASSUME Dialogue, UNCHANGED <<protocol, server, fault>>, SameControl
  PROVE  Dialogue'
<1>1. /\ UNCHANGED <<iCmdQ, iCmdInProgress, foundEmpty, iProtocolState, wire, prelim, quit, fault>>
      /\ Alive' = Alive
  BY DEF protocol, server, Alive
<1>2. QueuesOK' /\ FlagOK' /\ AwaitsItsReply'
  BY <1>1 DEF Dialogue, QueuesOK, FlagOK, AwaitsItsReply
<1>3. ControlOK'
  BY <1>1 DEF Dialogue, ControlOK, SameControl
<1> QED BY <1>2, <1>3 DEF Dialogue

\* A handler the process does not survive leaves the queue and the wire as they were.
LEMMA DyingStep ==
  ASSUME Dialogue, UNCHANGED protocol, prelim' \in BOOLEAN, quit' \in BOOLEAN,
         fault' \in Faults, fault' # "none"
  PROVE  Dialogue'
<1>1. UNCHANGED <<iCmdQ, iCmdInProgress, foundEmpty, iProtocolState, wire>> /\ ~Alive'
  BY DEF protocol, Alive
<1> QED BY <1>1 DEF Dialogue, QueuesOK, FlagOK, AwaitsItsReply, ControlOK

\* No command and one command are sequences of commands.
LEMMA OneOrNone ==
  ASSUME NEW S, NEW c \in S
  PROVE  <<>> \in Seq(S) /\ <<c>> \in Seq(S) /\ <<c>> # <<>> /\ Head(<<c>>) = c /\ Tail(<<c>>) = <<>>
OBVIOUS

\* What ProcessNextCmd leaves: an idle protocol, or the front awaiting its reply.
LEMMA NextCommandStep ==
  ASSUME Dialogue, NEW q \in Seq(Command), NEW state \in States, ProcessNextCmd(q, state, <<>>),
         dev[CC].conn \notin {"none", "connecting"}, dev'[CC].conn = dev[CC].conn,
         ~(CcTls = "Yes" /\ dev'[CC].ssl = "shaking"),
         dev[CC].conn = "open" => ~prelim', prelim' \in BOOLEAN, quit' \in BOOLEAN, UNCHANGED fault
  PROVE  Dialogue'
<1>1. CASE q = <<>>
  <2>1. /\ iCmdQ' = <<>> /\ iCmdInProgress' = TRUE /\ foundEmpty' = TRUE
        /\ iProtocolState' = state /\ wire' = <<>>
    BY <1>1 DEF ProcessNextCmd
  <2>2. <<>> \in Seq(Command \cup LoginCommand) /\ <<>> \in Seq(Command)
    OBVIOUS
  <2> QED BY <2>1, <2>2 DEF Dialogue, QueuesOK, FlagOK, AwaitsItsReply, ControlOK
<1>2. CASE q # <<>>
  <2>1. /\ iCmdQ' = q /\ iCmdInProgress' = TRUE /\ foundEmpty' = FALSE
        /\ iProtocolState' = ClassOf(Head(q).cmd) /\ wire' = Sent(<<>>, Head(q))
    BY <1>2 DEF ProcessNextCmd
  <2>2. Head(q) \in Command /\ Head(q).call \in Calls /\ Head(q).call # 0
    <3>1. Head(q) \in Command
      BY <1>2, HeadTailProperties
    <3>2. Len(Script) \in Nat
      BY ScriptAssumption
    <3> QED BY <3>1, <3>2 DEF Command, Calls
  <2>3. wire' = <<>> \/ (wire' = <<Head(q)>> /\ dev[CC].conn = "open")
    BY <2>1 DEF Sent
  <2>4. wire' \in Seq(Command \cup LoginCommand)
    BY <2>2, <2>3, OneOrNone
  <2>5. iProtocolState' \in States
    BY <2>1, StatesAre DEF ClassOf
  <2>6. QueuesOK' /\ FlagOK'
    BY <2>1, <2>4, <2>5 DEF Dialogue, QueuesOK, FlagOK
  <2>7. AwaitsItsReply'
    <3>1. CASE wire' = <<>>
      BY <3>1 DEF AwaitsItsReply
    <3>2. CASE wire' = <<Head(q)>> /\ dev[CC].conn = "open"
      <4>1. Head(wire') = Head(q) /\ wire' = <<Head(wire')>>
        BY <3>2
      <4> QED BY <1>2, <2>1, <2>2, <3>2, <4>1 DEF AwaitsItsReply
    <3> QED BY <2>3, <3>1, <3>2
  <2>8. ControlOK'
    BY DEF ControlOK
  <2> QED BY <2>6, <2>7, <2>8 DEF Dialogue
<1> QED BY <1>1, <1>2

\* A login command is sent, or lost with the control channel.
LEMMA LoginStep ==
  ASSUME Dialogue, Alive, iCmdInProgress, ~foundEmpty, UNCHANGED <<iCmdQ, iCmdInProgress, foundEmpty, fault>>,
         NEW step \in LoginSteps, wire' \in {<<>>, <<Login(step)>>},
         iProtocolState' = IF step = "GREETING" THEN "CONNECTED" ELSE step,
         prelim' = FALSE, quit' \in BOOLEAN,
         dev'[CC].conn \notin {"none", "connecting"},
         ~(CcTls = "Yes" /\ dev'[CC].ssl = "shaking")
  PROVE  Dialogue'
<1>1. Login(step) \in LoginCommand /\ Login(step).call = 0 /\ Login(step).cmd = step
  BY DEF Login, LoginCommand
<1>2. wire' \in Seq(Command \cup LoginCommand)
  BY <1>1, OneOrNone
<1>3. iProtocolState' \in States
  BY StatesAre DEF LoginSteps
<1>4. QueuesOK' /\ FlagOK'
  BY <1>2, <1>3 DEF Dialogue, QueuesOK, FlagOK
<1>6. ControlOK'
  BY DEF ControlOK
<1>5. AwaitsItsReply'
  BY <1>1 DEF AwaitsItsReply
<1> QED BY <1>4, <1>5, <1>6 DEF Dialogue

\* The flag stays taken and nothing is on the wire.
LEMMA QuietStep ==
  ASSUME Dialogue, Alive, iCmdInProgress, UNCHANGED <<iCmdQ, iCmdInProgress, foundEmpty, fault>>,
         ~foundEmpty, wire' = <<>>, iProtocolState' \in States, ~prelim' \/ dev'[CC].conn # "open", prelim' \in BOOLEAN,
         quit' \in BOOLEAN, dev'[CC].conn \notin {"none", "connecting"},
         (CcTls = "Yes" /\ dev'[CC].ssl = "shaking") => iProtocolState' = "TLS"
  PROVE  Dialogue'
<1>1. wire' \in Seq(Command \cup LoginCommand)
  OBVIOUS
<1> QED BY <1>1 DEF Dialogue, QueuesOK, FlagOK, AwaitsItsReply, ControlOK

----------------------------------------------------------------------------
(* Devices *)

\* The control channel is none of the data channels and files.
LEMMA DevicesDiffer ==
  /\ CC \in Devices /\ \A n \in Calls : DC(n) \in Devices /\ FL(n) \in Devices
  /\ \A n, m : CC # DC(n) /\ CC # FL(n) /\ DC(n) # FL(m)
BY DEF CC, DC, FL, Devices

\* Setting one field of one device.
LEMMA SetField ==
  ASSUME NEW devs \in [Devices -> DeviceState], NEW d \in Devices
  PROVE  /\ \A v \in Connections : [devs EXCEPT ![d].conn = v] \in [Devices -> DeviceState]
         /\ \A v \in Handshakes : [devs EXCEPT ![d].ssl = v] \in [Devices -> DeviceState]
         /\ \A v \in BOOLEAN : /\ [devs EXCEPT ![d].stopped = v] \in [Devices -> DeviceState]
                              /\ [devs EXCEPT ![d].shut = v] \in [Devices -> DeviceState]
                              /\ [devs EXCEPT ![d].rd = v] \in [Devices -> DeviceState]
BY DEF DeviceState

\* The other devices are left alone.
LEMMA SetOthers ==
  ASSUME NEW devs \in [Devices -> DeviceState], NEW d \in Devices, NEW e \in Devices, d # e, NEW v
  PROVE  /\ [devs EXCEPT ![d].conn = v][e] = devs[e] /\ [devs EXCEPT ![d].ssl = v][e] = devs[e]
         /\ [devs EXCEPT ![d].rd = v][e] = devs[e]
OBVIOUS

\* StopSocket changes one device, and no connection.
LEMMA StopSocketProperties ==
  ASSUME NEW devs \in [Devices -> DeviceState], NEW d \in Devices
  PROVE  /\ StopSocket(devs, d) \in [Devices -> DeviceState]
         /\ \A e \in Devices : e # d => StopSocket(devs, d)[e] = devs[e]
         /\ StopSocket(devs, d)[d].conn = devs[d].conn /\ StopSocket(devs, d)[d].rd = devs[d].rd
         /\ StopSocket(devs, d)[d].ssl = IF ~devs[d].stopped /\ devs[d].ssl = "up" THEN "closing" ELSE devs[d].ssl
<1>1. CASE devs[d].stopped
  BY <1>1 DEF StopSocket
<1>2. CASE ~devs[d].stopped
  <2>1. PICK s \in Handshakes : s = IF devs[d].ssl = "up" THEN "closing" ELSE devs[d].ssl
    BY DEF DeviceState, Handshakes
  <2>2. PICK o \in BOOLEAN : o = (devs[d].conn = "open")
    OBVIOUS
  <2>3. StopSocket(devs, d) = [devs EXCEPT ![d].stopped = TRUE, ![d].shut = o, ![d].ssl = s]
    BY <1>2, <2>1, <2>2, Zenon DEF StopSocket
  <2>4. PICK a \in [Devices -> DeviceState] : a = [devs EXCEPT ![d].stopped = TRUE]
    BY SetField
  <2>5. PICK b \in [Devices -> DeviceState] : b = [a EXCEPT ![d].shut = o]
    BY SetField
  <2>6. PICK c \in [Devices -> DeviceState] : c = [b EXCEPT ![d].ssl = s]
    BY SetField
  <2>7. StopSocket(devs, d) = c
    BY <2>3, <2>4, <2>5, <2>6
  <2>8. devs[d] \in DeviceState
    OBVIOUS
  <2>9. /\ a[d].conn = devs[d].conn /\ a[d].rd = devs[d].rd /\ a[d] \in DeviceState
        /\ b[d].conn = a[d].conn /\ b[d].rd = a[d].rd /\ b[d] \in DeviceState
        /\ c[d].conn = b[d].conn /\ c[d].rd = b[d].rd /\ c[d].ssl = s
    BY <2>4, <2>5, <2>6, <2>8 DEF DeviceState
  <2>10. \A e \in Devices : e # d => c[e] = devs[e]
    BY <2>4, <2>5, <2>6
  <2> QED BY <1>2, <2>1, <2>7, <2>9, <2>10
<1> QED BY <1>1, <1>2

\* An upload's first read changes its file only.
LEMMA TriggerProperties ==
  ASSUME NEW devs \in [Devices -> DeviceState], NEW file, iCmdQ # <<>>,
         Head(iCmdQ).cmd = "STOR" => file \in Calls
  PROVE  /\ TriggerDataTransfer(devs, file) \in [Devices -> DeviceState]
         /\ TriggerDataTransfer(devs, file)[CC] = devs[CC]
<1>1. CASE Head(iCmdQ).cmd = "STOR"
  <2>1. FL(file) \in Devices /\ CC \in Devices /\ FL(file) # CC
    BY <1>1, DevicesDiffer
  <2> QED BY <1>1, <2>1, SetField, SetOthers DEF TriggerDataTransfer
<1>2. CASE Head(iCmdQ).cmd # "STOR"
  BY <1>2 DEF TriggerDataTransfer
<1> QED BY <1>1, <1>2

\* Starting the handshake of a data channel changes that channel only.
LEMMA HandshakingProperties ==
  ASSUME NEW devs \in [Devices -> DeviceState], NEW n \in Calls
  PROVE  /\ Handshaking(devs, n) \in [Devices -> DeviceState]
         /\ Handshaking(devs, n)[CC] = devs[CC]
<1>1. DC(n) \in Devices /\ CC \in Devices /\ DC(n) # CC
  BY DevicesDiffer
<1>2. PICK v \in Handshakes : Handshaking(devs, n) = [devs EXCEPT ![DC(n)].ssl = v]
  <2>1. CASE devs[DC(n)].ssl = "no" /\ devs[DC(n)].conn = "open"
    BY <1>1, <2>1 DEF Handshaking, Handshakes
  <2>2. CASE ~(devs[DC(n)].ssl = "no" /\ devs[DC(n)].conn = "open")
    BY <1>1, <2>2 DEF Handshaking, Handshakes
  <2> QED BY <2>1, <2>2
<1> QED BY <1>1, <1>2, SetField, SetOthers

----------------------------------------------------------------------------
(* The observer list *)

\* A non-empty set of numbers has a least element.
LEMMA LeastNumber ==
  ASSUME NEW S \in SUBSET Nat, S # {}
  PROVE  \E x \in S : \A y \in S : x <= y
<1> DEFINE Less == {ss \in Nat \X Nat : ss[1] < ss[2]}
<1>1. IsWellFoundedOn(Less, Nat)
  BY NatLessThanWellFounded, Zenon DEF OpToRel
<1>2. PICK x \in S : \A y \in S : <<y, x>> \notin Less
  <2> HIDE DEF Less
  <2> QED BY <1>1, WFMin
<1>3. ASSUME NEW y \in S PROVE x <= y
  <2>1. <<y, x>> \notin Less /\ x \in Nat /\ y \in Nat
    BY <1>2
  <2>2. ~ (y < x)
    BY <2>1
  <2> QED BY <2>1, <2>2
<1> QED BY <1>3

\* A pass drops the first marked observer, or nothing if none is marked.
LEMMA SweepIs ==
  ASSUME NEW obs \in Seq(Devices), NEW M
  PROVE  \/ Sweep(obs, M) = obs /\ \A i \in 1..Len(obs) : obs[i] \notin M
         \/ \E k \in 1..Len(obs) :
              /\ obs[k] \in M /\ \A i \in 1..(k - 1) : obs[i] \notin M
              /\ Sweep(obs, M) = SubSeq(obs, 1, k - 1) \o SubSeq(obs, k + 1, Len(obs))
<1> DEFINE at == {i \in DOMAIN obs : obs[i] \in M}
           first == CHOOSE i \in at : \A j \in at : i <= j
<1>1. DOMAIN obs = 1..Len(obs) /\ Len(obs) \in Nat
  OBVIOUS
<1>2. CASE at = {}
  <2>1. Sweep(obs, M) = obs
    BY <1>2 DEF Sweep
  <2> QED BY <1>1, <1>2, <2>1
<1>3. CASE at # {}
  <2>1. at \in SUBSET Nat
    BY <1>1
  <2>2. \E x \in at : \A y \in at : x <= y
    <3> HIDE DEF at
    <3> QED BY <1>3, <2>1, LeastNumber
  <2>3. first \in at /\ \A j \in at : first <= j
    <3> HIDE DEF at
    <3> QED BY <2>2
  <2>4. Sweep(obs, M) = SubSeq(obs, 1, first - 1) \o SubSeq(obs, first + 1, Len(obs))
    BY <1>3, Zenon DEF Sweep
  <2> HIDE DEF first
  <2>5. first \in 1..Len(obs) /\ obs[first] \in M
    BY <1>1, <2>3
  <2>6. \A i \in 1..(first - 1) : obs[i] \notin M
    BY <1>1, <2>3, <2>5
  <2> QED BY <2>4, <2>5, <2>6
<1> QED BY <1>2, <1>3

\* A pass keeps the list a list of devices.
LEMMA PassStep ==
  ASSUME NEW obs \in Seq(Devices), removeMark' \subseteq Devices, DispatcherPass(obs)
  PROVE  ListTyped'
<1>1. ASSUME NEW k \in 1..Len(obs)
      PROVE  SubSeq(obs, 1, k - 1) \o SubSeq(obs, k + 1, Len(obs)) \in Seq(Devices)
  <2>1. Len(obs) \in Nat /\ \A i \in 1..Len(obs) : obs[i] \in Devices
    OBVIOUS
  <2>2. SubSeq(obs, 1, k - 1) \in Seq(Devices) /\ SubSeq(obs, k + 1, Len(obs)) \in Seq(Devices)
    BY <2>1, SubSeqProperties
  <2> QED BY <2>2, ConcatProperties
<1>2. iObservers' \in Seq(Devices)
  <2>1. PICK M : M = removeMark'
    OBVIOUS
  <2>2. iObservers' = Sweep(obs, M)
    BY <2>1 DEF DispatcherPass
  <2>3. \/ Sweep(obs, M) = obs
        \/ \E k \in 1..Len(obs) : Sweep(obs, M) = SubSeq(obs, 1, k - 1) \o SubSeq(obs, k + 1, Len(obs))
    BY SweepIs, Zenon
  <2> QED BY <1>1, <2>2, <2>3
<1> QED BY <1>2 DEF ListTyped

----------------------------------------------------------------------------
(* Replies *)

\* What is on the wire is a login command or the front of iCmdQ.
LEMMA Awaited ==
  ASSUME Dialogue, Alive, wire # <<>>
  PROVE  /\ iCmdInProgress /\ iCmdInProgress = TRUE /\ ~foundEmpty /\ wire = <<Head(wire)>> /\ Tail(wire) = <<>>
         /\ \/ /\ Head(wire) \in LoginCommand /\ Head(wire).call = 0 /\ Head(wire).cmd \in LoginSteps
               /\ iProtocolState = IF Head(wire).cmd = "GREETING" THEN "CONNECTED" ELSE Head(wire).cmd
            \/ /\ Head(wire) \in Command /\ Head(wire).call \in Calls /\ Head(wire).call # 0
               /\ iCmdQ # <<>> /\ Head(wire) = Head(iCmdQ)
               /\ iProtocolState = IF prelim THEN "1yz" ELSE ClassOf(Head(wire).cmd)
<1>1. Head(wire) \in Command \cup LoginCommand
  BY HeadTailProperties DEF Dialogue, QueuesOK
<1>2. iCmdInProgress /\ ~foundEmpty /\ wire = <<Head(wire)>>
  BY DEF Dialogue, AwaitsItsReply, FlagOK
<1>3. Tail(wire) = <<>> /\ iCmdInProgress = TRUE
  <2>1. Tail(<<Head(wire)>>) = <<>>
    BY <1>1, OneOrNone
  <2> QED BY <1>2, <2>1
<1>4. Len(Script) \in Nat
  BY ScriptAssumption
<1>5. CASE Head(wire) \in LoginCommand
  <2>1. Head(wire).call = 0 /\ Head(wire).cmd \in LoginSteps
    BY <1>5 DEF LoginCommand
  <2> QED BY <1>2, <1>3, <1>5, <2>1 DEF Dialogue, AwaitsItsReply
<1>6. CASE Head(wire) \in Command
  <2>1. Head(wire).call \in Calls /\ Head(wire).call # 0
    BY <1>4, <1>6 DEF Command, Calls
  <2> QED BY <1>2, <1>3, <1>6, <2>1 DEF Dialogue, AwaitsItsReply
<1> QED BY <1>1, <1>5, <1>6

\* A reply is handled on a connected channel, outside its handshake, when it is awaited.
AtReply == Alive /\ dev[CC].conn = "open" /\ dev[CC].ssl # "shaking" /\ wire # <<>>

\* The data of a session that a reply without a transfer leaves alone.
LEMMA DataKept ==
  ASSUME Typed, UNCHANGED <<transfer, called, dev, seen, removeMark>>, DispatcherPass(iObservers)
  PROVE  Typed'
<1>1. ListTyped'
  BY PassStep DEF Typed, ListTyped
<1> QED BY <1>1 DEF Typed, TransferTyped, DevicesTyped, HistoryTyped, transfer

\* A transition that sends nothing.
LEMMA PlainStep ==
  ASSUME IInv, AtReply, NEW state \in States, Plain(state, <<>>), prelim' = FALSE, quit' \in BOOLEAN, UNCHANGED called
  PROVE  IInv'
<1>1. Typed'
  BY DataKept DEF Plain, IInv
<1>2. Dialogue'
  BY Awaited, QuietStep DEF Plain, IInv, AtReply
<1> QED BY <1>1, <1>2 DEF IInv

\* A transition that sends a login command.
LEMMA PlainLoginStep ==
  ASSUME IInv, AtReply, NEW step \in {"AUTH", "USER", "PASS", "ACCT"}, Plain(step, Sent(<<>>, Login(step))),
         prelim' = FALSE, quit' \in BOOLEAN, UNCHANGED called
  PROVE  IInv'
<1>1. Typed'
  BY DataKept DEF Plain, IInv
<1>2. Sent(<<>>, Login(step)) \in {<<>>, <<Login(step)>>}
  BY DEF Sent
<1>3. iProtocolState' = step /\ wire' = Sent(<<>>, Login(step)) /\ UNCHANGED <<iCmdQ, iCmdInProgress, foundEmpty, dev, fault>>
  BY DEF Plain
<1>4. step \in LoginSteps /\ step # "GREETING"
  BY DEF LoginSteps
<1>5. Dialogue /\ Alive /\ iCmdInProgress /\ ~foundEmpty
  BY Awaited DEF IInv, AtReply
<1>6. Dialogue'
  BY <1>2, <1>3, <1>4, <1>5, LoginStep DEF AtReply
<1> QED BY <1>1, <1>6 DEF IInv

\* A reply that retires commands and sends the next one.
LEMMA RetiringStep ==
  ASSUME IInv, AtReply, NEW q \in Seq(Command), NEW state \in States, ProcessNextCmd(q, state, <<>>), Typed',
         dev'[CC] = dev[CC], prelim' = FALSE, quit' \in BOOLEAN, UNCHANGED fault
  PROVE  IInv'
<1>1. Dialogue'
  BY NextCommandStep DEF IInv, AtReply
<1> QED BY <1>1 DEF IInv

\* SkipCommand leaves a suffix of the queue.
LEMMA SuffixOfQueue ==
  ASSUME QueuesOK, NEW n \in Nat
  PROVE  SubSeq(iCmdQ, n + 1, Len(iCmdQ)) \in Seq(Command)
<1>1. Len(iCmdQ) \in Nat /\ \A i \in (n + 1)..Len(iCmdQ) : iCmdQ[i] \in Command
  BY DEF QueuesOK
<1> QED BY <1>1, SubSeqProperties

\* The same for SkipCommand.
LEMMA SkippingStep ==
  ASSUME IInv, AtReply, NEW n \in Nat, NEW state \in States, SkipCommand(n, state, <<>>), Typed',
         dev'[CC] = dev[CC], prelim' = FALSE, quit' \in BOOLEAN, UNCHANGED fault
  PROVE  IInv'
<1>1. PICK q \in Seq(Command) : q = SubSeq(iCmdQ, n + 1, Len(iCmdQ))
  BY SuffixOfQueue DEF IInv, Dialogue
<1>2. ProcessNextCmd(q, state, <<>>)
  BY <1>1, Zenon DEF SkipCommand
<1> QED BY <1>2, RetiringStep

\* The fields of a call.
LEMMA ScriptFields ==
  ASSUME NEW n \in Calls
  PROVE  /\ Script[n].local \in BOOLEAN /\ Script[n].cbk \in SUBSET BOOLEAN
         /\ Script[n].prot \in {"Clear", "Protected"} /\ Script[n].api \in Apis \cup {"Stop"}
<1>1. n \in 1..Len(Script)
  BY DEF Calls
<1>2. PICK T : Script \in Seq(T) /\ T = [api : Apis \cup {"Stop"}, local : BOOLEAN, cbk : SUBSET BOOLEAN,
                                         prot : {"Clear", "Protected"}]
  BY ScriptAssumption
<1>3. Script[n] \in T
  BY <1>1, <1>2, ElementOfSeq
<1> QED BY <1>2, <1>3

\* The front of the queue, when the server answers one of its commands.
LEMMA FrontOfQueue ==
  ASSUME Dialogue, iCmdQ # <<>>
  PROVE  /\ Head(iCmdQ) \in Command /\ Head(iCmdQ).call \in Calls /\ Head(iCmdQ).call # 0
         /\ Script[Head(iCmdQ).call].prot \in {"Clear", "Protected"} /\ Calls \subseteq 0..Len(Script)
         /\ Script[Head(iCmdQ).call].cbk \in SUBSET BOOLEAN
<1>1. Head(iCmdQ) \in Command
  BY HeadTailProperties DEF Dialogue, QueuesOK
<1>2. Len(Script) \in Nat
  BY ScriptAssumption
<1> QED BY <1>1, <1>2, ScriptFields DEF Command, Calls

\* The control channel starts its handshake.
LEMMA HandshakeReply ==
  ASSUME IInv, AtReply, DoCCHandshake(<<>>), prelim' = FALSE, quit' \in BOOLEAN, UNCHANGED called
  PROVE  IInv'
<1>1. CC \in Devices /\ "shaking" \in Handshakes
  BY DevicesDiffer DEF Handshakes
<1>2. dev' = [dev EXCEPT ![CC].ssl = "shaking"] /\ dev \in [Devices -> DeviceState]
  BY DEF DoCCHandshake, IInv, Typed, DevicesTyped
<1>3. dev' \in [Devices -> DeviceState] /\ dev'[CC].conn = dev[CC].conn
  BY <1>1, <1>2, SetField
<1>4. ListTyped'
  BY PassStep DEF DoCCHandshake, IInv, Typed, ListTyped
<1>5. Typed'
  BY <1>3, <1>4 DEF DoCCHandshake, IInv, Typed, TransferTyped, DevicesTyped, HistoryTyped, transfer
<1>6. "TLS" \in States
  BY StatesAre
<1>7. Dialogue'
  BY <1>3, <1>6, Awaited, QuietStep DEF DoCCHandshake, IInv, AtReply
<1> QED BY <1>5, <1>7 DEF IInv

\* The login ends, one way or the other.
LEMMA LoginReply ==
  ASSUME IInv, AtReply, NEW status \in BOOLEAN, NEW state \in States, ProcessLoginEvent(status, state, <<>>),
         prelim' = FALSE, quit' \in BOOLEAN, UNCHANGED called
  PROVE  IInv'
<1>1. Typed'
  BY DataKept DEF ProcessLoginEvent, IInv
<1>2. iCmdQ \in Seq(Command) /\ <<>> \in Seq(Command)
  BY DEF IInv, Dialogue, QueuesOK
<1>3. PICK q \in Seq(Command) : ProcessNextCmd(q, state, <<>>)
  BY <1>2, Zenon DEF ProcessLoginEvent
<1> QED BY <1>1, <1>3, RetiringStep DEF ProcessLoginEvent

\* The final reply to a general command.
LEMMA GeneralReply ==
  ASSUME IInv, AtReply, NEW code, iCmdQ # <<>>, ProcessGenCmdEvent(code, <<>>),
         prelim' = FALSE, quit' \in BOOLEAN, UNCHANGED called
  PROVE  IInv'
<1>1. Script[Head(iCmdQ).call].prot \in {"Clear", "Protected"}
  BY FrontOfQueue DEF IInv
<1>2. ListTyped'
  BY PassStep DEF ProcessGenCmdEvent, IInv, Typed, ListTyped
<1>3. Typed'
  BY <1>1, <1>2 DEF ProcessGenCmdEvent, IInv, Typed, TransferTyped, DevicesTyped, HistoryTyped
<1>4. "READY" \in States /\ 1 \in Nat
  BY StatesAre
<1> QED BY <1>3, <1>4, SkippingStep DEF ProcessGenCmdEvent

\* A refused PASV takes its transfer along.
LEMMA RefusedReply ==
  ASSUME IInv, AtReply, NEW state \in States, SkipTransfer(state, <<>>),
         prelim' = FALSE, quit' \in BOOLEAN, UNCHANGED called
  PROVE  IInv'
<1>1. Typed'
  BY DataKept DEF SkipTransfer, IInv
<1>2. 2 \in Nat
  OBVIOUS
<1> QED BY <1>1, <1>2, SkippingStep DEF SkipTransfer

\* The data channel that PASV asked for.
LEMMA PasvReply ==
  ASSUME IInv, AtReply, iCmdQ # <<>>, ProcessPasvResponse(<<>>),
         prelim' = FALSE, quit' \in BOOLEAN, UNCHANGED called
  PROVE  IInv'
<1>1. PICK n \in Calls : n = Head(iCmdQ).call
  BY FrontOfQueue DEF IInv
<1>2. /\ iDataChannel' = n /\ dev' = [dev EXCEPT ![DC(n)].conn = "connecting"]
      /\ DispatcherPass(Append(iObservers, DC(n)))
  BY <1>1 DEF ProcessPasvResponse, OpenDataChannel, StartSocketClient
<1>3. DC(n) \in Devices /\ CC \in Devices /\ DC(n) # CC /\ "connecting" \in Connections
  BY DevicesDiffer DEF Connections
<1>4. dev' \in [Devices -> DeviceState] /\ dev'[CC] = dev[CC]
  BY <1>2, <1>3, SetField, SetOthers DEF IInv, Typed, DevicesTyped
<1>5. Append(iObservers, DC(n)) \in Seq(Devices)
  BY <1>3 DEF IInv, Typed, ListTyped
<1>6. ListTyped'
  BY <1>2, <1>5, PassStep DEF ProcessPasvResponse, IInv, Typed, ListTyped
<1>7. n \in 0..Len(Script)
  BY ScriptAssumption DEF Calls
<1>8. Typed'
  BY <1>2, <1>4, <1>6, <1>7 DEF ProcessPasvResponse, IInv, Typed, TransferTyped, DevicesTyped, HistoryTyped
<1>9. "DATA" \in States /\ 1 \in Nat
  BY StatesAre
<1> QED BY <1>4, <1>8, <1>9, SkippingStep DEF ProcessPasvResponse

\* The devices the protocol holds are devices.
LEMMA HeldAreDevices == TransferTyped => HeldDevices \subseteq Devices
<1> SUFFICES ASSUME TransferTyped PROVE HeldDevices \subseteq Devices
  OBVIOUS
<1>1. Len(Script) \in Nat
  BY ScriptAssumption
<1>2. /\ iDataChannel # 0 => DC(iDataChannel) \in Devices
      /\ iFileDevice # 0 => FL(iFileDevice) \in Devices
  BY <1>1, DevicesDiffer DEF TransferTyped, Calls
<1> QED BY <1>2 DEF HeldDevices

\* A transfer that completes or fails.
LEMMA TransferReply ==
  ASSUME IInv, AtReply, CompleteTransfer(<<>>) \/ FailTransfer(<<>>),
         prelim' = FALSE, quit' \in BOOLEAN, UNCHANGED called
  PROVE  IInv'
<1>1. "xyz" \in States /\ 1 \in Nat /\ 0 \in 0..Len(Script)
  BY StatesAre, ScriptAssumption
<1>2. CASE CompleteTransfer(<<>>) /\ iDataChannel # 0
  BY <1>1, <1>2, PlainStep DEF CompleteTransfer
<1>3. CASE CompleteTransfer(<<>>) /\ iDataChannel = 0
  <2>1. Typed'
    BY <1>3, DataKept DEF CompleteTransfer, IInv
  <2> QED BY <1>1, <1>3, <2>1, SkippingStep DEF CompleteTransfer
<1>4. CASE FailTransfer(<<>>)
  <2>1. HeldDevices \subseteq Devices
    BY HeldAreDevices DEF IInv, Typed
  <2>2. ListTyped'
    BY <1>4, <2>1, PassStep DEF FailTransfer, IInv, Typed, ListTyped
  <2>3. Typed'
    BY <1>1, <1>4, <2>2 DEF FailTransfer, ResetBoth, IInv, Typed, TransferTyped, DevicesTyped, HistoryTyped
  <2> QED BY <1>1, <1>4, <2>3, SkippingStep DEF FailTransfer
<1> QED BY <1>2, <1>3, <1>4

\* The process dies in a handler.
LEMMA DiesStep ==
  ASSUME IInv, NEW why \in Faults, Dies(why),
         prelim' \in BOOLEAN, quit' \in BOOLEAN, UNCHANGED called
  PROVE  IInv'
<1>1. Typed'
  BY DEF Dies, IInv, Typed, TransferTyped, ListTyped, DevicesTyped, HistoryTyped, transfer
<1>2. Dialogue'
  BY DyingStep DEF Dies, IInv, Faults
<1> QED BY <1>1, <1>2 DEF IInv

\* The preliminary reply to a transfer command.
LEMMA BeginReply ==
  ASSUME IInv, AtReply, iProtocolState = "DATA", BeginTransfer(wire),
         prelim' = TRUE, quit' \in BOOLEAN, UNCHANGED called
  PROVE  IInv'
<1>1. /\ Head(wire) = Head(iCmdQ) /\ iCmdQ # <<>> /\ iCmdInProgress /\ wire = <<Head(wire)>>
      /\ Head(wire).call # 0
  BY Awaited DEF IInv, AtReply, LoginSteps
<1>2. PICK n \in Calls : n = Head(iCmdQ).call
  BY <1>1, FrontOfQueue DEF IInv
<1>3. PICK local \in BOOLEAN : local = Script[n].local
  <2>1. Script[n].local \in BOOLEAN
    BY ScriptFields
  <2> QED BY <2>1
<1>4. CASE (local /\ iFileDevice # 0) \/ (iDCProt = "Protected" /\ iDataChannel = 0)
  <2>1. Dies("assert: !iFileDevice") \/ Dies("null iDataChannel")
    BY <1>2, <1>3, <1>4 DEF BeginTransfer
  <2>2. prelim' \in BOOLEAN
    OBVIOUS
  <2>3. ASSUME NEW why \in {"assert: !iFileDevice", "null iDataChannel"}, Dies(why) PROVE IInv'
    <3>1. why \in Faults
      BY DEF Faults
    <3> QED BY <2>2, <2>3, <3>1, DiesStep
  <2> QED BY <2>1, <2>3
<1>5. CASE ~(local /\ iFileDevice # 0) /\ ~(iDCProt = "Protected" /\ iDataChannel = 0)
  <2> DEFINE o == IF local THEN [dev EXCEPT ![FL(n)].conn = "open"] ELSE dev
  <2>1. PICK opened : opened = o
    OBVIOUS
  <2>2. /\ iProtocolState' = "1yz" /\ wire' = wire
        /\ iFileDevice' = IF local THEN n ELSE iFileDevice
        /\ iCurrentFileOffset' = IF local THEN 0 ELSE iCurrentFileOffset
        /\ iContinueTransfer' = TRUE
        /\ dev' = IF iDCProt = "Protected" THEN Handshaking(opened, iDataChannel)
                  ELSE TriggerDataTransfer(opened, n)
        /\ UNCHANGED <<iCmdQ, iCmdInProgress, foundEmpty, iDCProt, iDataChannel, removeMark, seen, fault>>
        /\ DispatcherPass(IF local THEN Append(iObservers, FL(n)) ELSE iObservers)
    BY <1>2, <1>3, <1>5, <2>1 DEF BeginTransfer
  <2> HIDE DEF o
  <2>3. opened \in [Devices -> DeviceState] /\ opened[CC] = dev[CC]
    <3>1. FL(n) \in Devices /\ CC \in Devices /\ FL(n) # CC /\ "open" \in Connections
      BY DevicesDiffer DEF Connections
    <3> QED BY <2>1, <3>1, SetField, SetOthers DEF o, IInv, Typed, DevicesTyped
  <2>4. dev' \in [Devices -> DeviceState] /\ dev'[CC] = dev[CC]
    <3>1. CASE iDCProt = "Protected"
      <4>1. iDataChannel \in Calls
        BY <1>5, <3>1, ScriptAssumption DEF IInv, Typed, TransferTyped, Calls
      <4> QED BY <2>2, <2>3, <3>1, <4>1, HandshakingProperties
    <3>2. CASE iDCProt # "Protected"
      BY <1>1, <2>2, <2>3, <3>2, TriggerProperties
    <3> QED BY <3>1, <3>2
  <2>5. PICK obs : obs = IF local THEN Append(iObservers, FL(n)) ELSE iObservers
    OBVIOUS
  <2>6. obs \in Seq(Devices)
    BY <2>5, DevicesDiffer DEF IInv, Typed, ListTyped
  <2>7. ListTyped'
    BY <2>2, <2>5, <2>6, PassStep DEF IInv, Typed, ListTyped
  <2>8. n \in 0..Len(Script)
    BY ScriptAssumption DEF Calls
  <2>9. TransferTyped' /\ DevicesTyped' /\ HistoryTyped'
    BY <2>2, <2>4, <2>8 DEF IInv, Typed, TransferTyped, DevicesTyped, HistoryTyped
  <2>10. "1yz" \in States
    BY StatesAre
  <2>11. Dialogue'
    <3>1. QueuesOK' /\ FlagOK'
      BY <2>2, <2>10 DEF IInv, Dialogue, QueuesOK, FlagOK
    <3>2. AwaitsItsReply'
      BY <1>1, <2>2 DEF AwaitsItsReply
    <3>3. ControlOK'
      BY <2>2, <2>4 DEF ControlOK, AtReply
    <3> QED BY <3>1, <3>2, <3>3 DEF Dialogue
  <2> QED BY <2>7, <2>9, <2>11 DEF IInv, Typed
<1> QED BY <1>4, <1>5

\* A preliminary reply without effect: the greeting's or USER's, or one more.
LEMMA PreliminaryPlain ==
  ASSUME IInv, AtReply, Plain(iProtocolState, wire), iProtocolState \notin {"DATA", "PASV", "GEN"},
         prelim' = TRUE, quit' \in BOOLEAN, UNCHANGED called
  PROVE  IInv'
<1>1. Typed'
  BY DataKept DEF Plain, IInv
<1>2. UNCHANGED <<iCmdQ, iCmdInProgress, foundEmpty, iProtocolState, wire, dev, fault>>
  BY DEF Plain
<1>3. Head(wire).call # 0 => iProtocolState = "1yz"
  BY Awaited DEF IInv, AtReply, ClassOf
<1>4. QueuesOK' /\ FlagOK' /\ ControlOK'
  BY <1>2 DEF IInv, Dialogue, QueuesOK, FlagOK, ControlOK, AtReply
<1>5. AwaitsItsReply'
  BY <1>2, <1>3 DEF IInv, Dialogue, AwaitsItsReply, AtReply
<1> QED BY <1>1, <1>4, <1>5 DEF IInv, Dialogue

\* Every kind of reply has a row in the states that await it.
LEMMA RowsForPreliminary ==
  ASSUME NEW state \in {"DATA", "PASV", "GEN"}
  PROVE  \E t \in FSM : t.from = state /\ t.code = "1"
<1> DEFINE row(to, fn) == [from |-> state, code |-> "1", to |-> to, fn |-> fn]
<1>1. /\ Row("DATA", {"1"}, "1yz", "BeginTransfer") \subseteq FSM
      /\ Row("PASV", {"1"}, "DATA", "SkipTransfer") \subseteq FSM
      /\ Row("GEN", Codes, "READY", "ProcessGenCmdEvent") \subseteq FSM
  BY SMTT(30) DEF FSM
<1>2. CASE state = "DATA"
  <2>1. row("1yz", "BeginTransfer") \in Row("DATA", {"1"}, "1yz", "BeginTransfer")
    BY <1>2 DEF Row
  <2> QED BY <1>1, <2>1
<1>3. CASE state = "PASV"
  <2>1. row("DATA", "SkipTransfer") \in Row("PASV", {"1"}, "DATA", "SkipTransfer")
    BY <1>3 DEF Row
  <2> QED BY <1>1, <2>1
<1>4. CASE state = "GEN"
  <2>1. row("READY", "ProcessGenCmdEvent") \in Row("GEN", Codes, "READY", "ProcessGenCmdEvent")
    BY <1>4 DEF Row, Codes
  <2> QED BY <1>1, <2>1
<1> QED BY <1>2, <1>3, <1>4

\* What a preliminary reply can do.
LEMMA PreliminaryCases ==
  ASSUME FinalRepliesOnly, IInv, OnControlRead("1")
  PROVE  /\ AtReply /\ prelim' = TRUE /\ quit' \in BOOLEAN /\ UNCHANGED called
         /\ \/ Plain(iProtocolState, wire) /\ iProtocolState \notin {"DATA", "PASV", "GEN"}
            \/ BeginTransfer(wire) /\ iProtocolState = "DATA"
<1>1. AtReply
  BY DEF OnControlRead, Reading, Clear, AtReply
<1> DEFINE rows == {t \in FSM : t.from = iProtocolState /\ t.code = "1"}
<1>2. /\ "1" \in Replies[Kind(Head(wire))] /\ prelim' = TRUE /\ UNCHANGED called
      /\ quit' \in BOOLEAN
      /\ IF rows = {} THEN Plain(iProtocolState, wire) ELSE \E t \in rows : StateMachine(t, wire)
  BY DEF OnControlRead
<1>3. /\ Head(wire).call = 0 \/ Head(wire).call # 0
      /\ Head(wire).call # 0 => iProtocolState = IF prelim THEN "1yz" ELSE ClassOf(Head(wire).cmd)
      /\ Head(wire).call = 0 => /\ Head(wire).cmd \in LoginSteps
                               /\ iProtocolState = IF Head(wire).cmd = "GREETING" THEN "CONNECTED" ELSE Head(wire).cmd
  BY <1>1, Awaited DEF IInv, AtReply
<1>4. iProtocolState \notin {"PASS", "PASV", "GEN"}
  <2>1. iProtocolState \in {"PASS", "PASV", "GEN"} => Kind(Head(wire)) = iProtocolState
    BY <1>3 DEF Kind, LoginSteps, ClassOf
  <2> QED BY <1>2, <2>1 DEF FinalRepliesOnly
<1>5. CASE rows = {}
  <2>1. iProtocolState \notin {"DATA", "PASV", "GEN"}
    BY <1>5, RowsForPreliminary
  <2> QED BY <1>1, <1>2, <1>5, <2>1
<1>6. CASE rows # {}
  <2>1. PICK t \in FSM : t.from = iProtocolState /\ t.code = "1" /\ StateMachine(t, wire)
    BY <1>2, <1>6
  <2>2. \/ t.fn = "none" /\ t.to = iProtocolState /\ iProtocolState \in {"CONNECTED", "USER"}
        \/ t.fn = "BeginTransfer" /\ iProtocolState = "DATA"
    BY <1>4, <2>1, FsmRows
  <2>3. CASE t.fn = "none" /\ t.to = iProtocolState /\ iProtocolState \in {"CONNECTED", "USER"}
    <3>1. Plain(iProtocolState, wire)
      BY <2>1, <2>3 DEF StateMachine
    <3> QED BY <1>1, <1>2, <2>3, <3>1
  <2>4. CASE t.fn = "BeginTransfer" /\ iProtocolState = "DATA"
    <3>1. BeginTransfer(wire)
      BY <2>1, <2>4 DEF StateMachine
    <3> QED BY <1>1, <1>2, <2>4, <3>1
  <2> QED BY <2>2, <2>3, <2>4
<1> QED BY <1>2, <1>5, <1>6

\* A preliminary reply.
LEMMA PreliminaryStep ==
  ASSUME FinalRepliesOnly, IInv, OnControlRead("1")
  PROVE  IInv'
BY PreliminaryCases, PreliminaryPlain, BeginReply

\* What a final reply can do, and in which states.
LEMMA FinalCases ==
  ASSUME IInv, NEW code \in Codes, code # "1", OnControlRead(code)
  PROVE  /\ AtReply /\ prelim' = FALSE /\ quit' \in BOOLEAN /\ UNCHANGED called
         /\ \/ Plain(iProtocolState, <<>>)
            \/ /\ iProtocolState \in {"CONNECTED", "AUTH", "USER", "PASS"}
               /\ \/ \E state \in States \ {"DATA", "1yz", "xyz"} : Plain(state, <<>>)
                  \/ \E step \in {"AUTH", "USER", "PASS", "ACCT"} : Plain(step, Sent(<<>>, Login(step)))
            \/ iProtocolState = "AUTH" /\ DoCCHandshake(<<>>)
            \/ /\ iProtocolState = "PASS"
               /\ \E status \in BOOLEAN, state \in States \ {"1yz"} : ProcessLoginEvent(status, state, <<>>)
            \/ iProtocolState = "GEN" /\ ProcessGenCmdEvent(code, <<>>)
            \/ iProtocolState = "PASV" /\ \E state \in States \ {"1yz"} : SkipTransfer(state, <<>>)
            \/ iProtocolState = "PASV" /\ ProcessPasvResponse(<<>>)
            \/ iProtocolState = "1yz" /\ CompleteTransfer(<<>>)
            \/ iProtocolState \in {"DATA", "1yz"} /\ FailTransfer(<<>>)
<1>1. AtReply
  BY DEF OnControlRead, Reading, Clear, AtReply
<1>2. Tail(wire) = <<>>
  BY <1>1, Awaited DEF IInv, AtReply
<1> DEFINE rows == {t \in FSM : t.from = iProtocolState /\ t.code = code}
<1>3. /\ prelim' = FALSE /\ UNCHANGED called /\ quit' \in BOOLEAN
      /\ IF rows = {} THEN Plain(iProtocolState, <<>>) ELSE \E t \in rows : StateMachine(t, <<>>)
  BY <1>2 DEF OnControlRead
<1>4. CASE rows = {}
  BY <1>1, <1>3, <1>4
<1>5. CASE rows # {}
  <2>1. PICK t \in FSM : t.from = iProtocolState /\ t.code = code /\ StateMachine(t, <<>>)
    BY <1>3, <1>5
  <2>2. t.to \in States
    BY StatesAre
  <2>3. CASE t.fn = "none" /\ Plain(t.to, <<>>)
    <3>1. t.from \in {"CONNECTED", "AUTH", "USER"} /\ t.to \notin {"DATA", "1yz", "xyz"}
      BY <2>3, FsmRows
    <3> QED BY <1>1, <1>3, <2>1, <2>2, <2>3, <3>1
  <2>4. CASE t.fn = "SendUSER" /\ Plain(t.to, Sent(<<>>, Login("USER")))
    <3>1. t.from = "AUTH" /\ t.to = "USER"
      BY <2>4, FsmRows
    <3> QED BY <1>1, <1>3, <2>1, <2>4, <3>1
  <2>5. CASE t.fn = "SendPASS" /\ Plain(t.to, Sent(<<>>, Login("PASS")))
    <3>1. t.from = "USER" /\ t.to = "PASS"
      BY <2>5, FsmRows
    <3> QED BY <1>1, <1>3, <2>1, <2>5, <3>1
  <2>6. CASE t.fn = "SendACCT" /\ Plain(t.to, Sent(<<>>, Login("ACCT")))
    <3>1. t.from = "PASS" /\ t.to = "ACCT"
      BY <2>6, FsmRows
    <3> QED BY <1>1, <1>3, <2>1, <2>6, <3>1
  <2>7. CASE t.fn = "CheckExplicitFTPS" /\ CheckExplicitFTPS(<<>>)
    <3>1. t.from = "CONNECTED"
      BY <2>7, FsmRows
    <3> QED BY <1>1, <1>3, <2>1, <2>7, <3>1 DEF CheckExplicitFTPS
  <2>8. CASE t.fn = "DoCCHandshake" /\ DoCCHandshake(<<>>)
    <3>1. t.from = "AUTH"
      BY <2>8, FsmRows
    <3> QED BY <1>1, <1>3, <2>1, <2>8, <3>1
  <2>9. CASE t.fn \in {"LoginFailed", "LoginDone"} /\ \E status \in BOOLEAN : ProcessLoginEvent(status, t.to, <<>>)
    <3>1. t.from = "PASS" /\ t.to # "1yz"
      BY <2>9, FsmRows
    <3> QED BY <1>1, <1>3, <2>1, <2>2, <2>9, <3>1
  <2>10. CASE t.fn = "ProcessGenCmdEvent" /\ ProcessGenCmdEvent(t.code, <<>>)
    <3>1. t.from = "GEN"
      BY <2>10, FsmRows
    <3> QED BY <1>1, <1>3, <2>1, <2>10, <3>1
  <2>11. CASE t.fn = "SkipTransfer" /\ SkipTransfer(t.to, <<>>)
    <3>1. t.from = "PASV" /\ t.to # "1yz"
      BY <2>11, FsmRows
    <3> QED BY <1>1, <1>3, <2>1, <2>2, <2>11, <3>1
  <2>12. CASE t.fn = "ProcessPasvResponse" /\ ProcessPasvResponse(<<>>)
    <3>1. t.from = "PASV"
      BY <2>12, FsmRows
    <3> QED BY <1>1, <1>3, <2>1, <2>12, <3>1
  <2>13. CASE t.fn = "CompleteTransfer" /\ CompleteTransfer(<<>>)
    <3>1. t.from = "1yz"
      BY <2>13, FsmRows
    <3> QED BY <1>1, <1>3, <2>1, <2>13, <3>1
  <2>14. CASE t.fn = "FailTransfer" /\ FailTransfer(<<>>)
    <3>1. t.from \in {"DATA", "1yz"}
      BY <2>14, FsmRows
    <3> QED BY <1>1, <1>3, <2>1, <2>14, <3>1
  <2>15. t.fn # "BeginTransfer"
    BY <2>1, FsmRows
  <2> QED BY <2>1, <2>3, <2>4, <2>5, <2>6, <2>7, <2>8, <2>9, <2>10, <2>11, <2>12, <2>13, <2>14, <2>15, Zenon DEF StateMachine
<1> QED BY <1>3, <1>4, <1>5

\* A final reply.
LEMMA FinalStep ==
  ASSUME IInv, NEW code \in Codes, code # "1", OnControlRead(code)
  PROVE  IInv'
<1>1. iProtocolState \in States /\ {"AUTH", "USER", "PASS", "ACCT"} \subseteq States
  BY StatesAre DEF IInv, Dialogue, QueuesOK
<1>2. AtReply /\ prelim' = FALSE /\ quit' \in BOOLEAN /\ UNCHANGED called
  BY FinalCases
<1>3. ASSUME NEW state \in States, Plain(state, <<>>) PROVE IInv'
  BY <1>2, <1>3, PlainStep
<1>4. ASSUME NEW step \in {"AUTH", "USER", "PASS", "ACCT"}, Plain(step, Sent(<<>>, Login(step))) PROVE IInv'
  BY <1>2, <1>4, PlainLoginStep
<1>5. CASE DoCCHandshake(<<>>)
  BY <1>2, <1>5, HandshakeReply
<1>6. ASSUME NEW status \in BOOLEAN, NEW state \in States, ProcessLoginEvent(status, state, <<>>) PROVE IInv'
  BY <1>2, <1>6, LoginReply
<1>7. CASE iProtocolState = "GEN" /\ ProcessGenCmdEvent(code, <<>>)
  <2>1. iCmdQ # <<>>
    BY <1>2, <1>7, Awaited DEF IInv, AtReply, LoginSteps
  <2> QED BY <1>2, <1>7, <2>1, GeneralReply
<1>8. ASSUME NEW state \in States, SkipTransfer(state, <<>>) PROVE IInv'
  BY <1>2, <1>8, RefusedReply
<1>9. CASE iProtocolState = "PASV" /\ ProcessPasvResponse(<<>>)
  <2>1. iCmdQ # <<>>
    BY <1>2, <1>9, Awaited DEF IInv, AtReply, LoginSteps
  <2> QED BY <1>2, <1>9, <2>1, PasvReply
<1>10. CASE CompleteTransfer(<<>>) \/ FailTransfer(<<>>)
  BY <1>2, <1>10, TransferReply
<1> QED BY <1>1, <1>3, <1>4, <1>5, <1>6, <1>7, <1>8, <1>9, <1>10, FinalCases

----------------------------------------------------------------------------
(* Calls of the application *)

\* The commands of a call.
LEMMA CommandsAre ==
  ASSUME NEW api \in Apis, NEW tls
  PROVE  CommandsOf(api, tls) \in Seq(CommandNames)
<1>1. SetDCProtLevel(tls) \in Seq(CommandNames)
  <2>1. <<"PBSZ", "PROT">> \in Seq(CommandNames) /\ <<>> \in Seq(CommandNames)
    BY DEF CommandNames
  <2> QED BY <2>1 DEF SetDCProtLevel
<1>2. /\ <<"PASV", "STOR">> \in Seq(CommandNames) /\ <<"PASV", "RETR">> \in Seq(CommandNames)
      /\ <<"TYPE", "PASV", "LIST">> \in Seq(CommandNames)
      /\ <<"PWD">> \in Seq(CommandNames) /\ <<"QUIT">> \in Seq(CommandNames)
  BY DEF CommandNames, TransferCommands
<1> QED BY <1>1, <1>2, ConcatProperties DEF CommandsOf, Apis

\* A call puts its commands behind those that wait, and sends the first if none does.
LEMMA EnqueueStep ==
  ASSUME Dialogue, Alive, NEW n \in Calls, Script[n].api \in Apis, Enqueue(n), UNCHANGED <<dev, server, fault>>
  PROVE  Dialogue'
<1> DEFINE names == CommandsOf(Script[n].api, CcTls # "No" /\ Listed(CC))
           batch == [i \in 1..Len(names) |-> [cmd |-> names[i], call |-> n]]
           q == iCmdQ \o batch
<1>1. names \in Seq(CommandNames)
  BY CommandsAre
<1> HIDE DEF names
<1>2. batch \in Seq(Command)
  BY <1>1 DEF Command
<1>3. IF iCmdInProgress THEN iCmdQ' = q /\ UNCHANGED <<iCmdInProgress, foundEmpty, iProtocolState, wire>>
      ELSE ProcessNextCmd(q, iProtocolState, wire)
  BY Zenon DEF Enqueue, names
<1> HIDE DEF batch
<1>4. /\ iCmdQ \in Seq(Command) /\ q \in Seq(Command)
      /\ iCmdQ # <<>> => q # <<>> /\ Head(q) = Head(iCmdQ)
  <2>1. iCmdQ \in Seq(Command)
    BY DEF Dialogue, QueuesOK
  <2> QED BY <1>2, <2>1, ConcatProperties
<1> HIDE DEF q
<1>5. CASE iCmdInProgress
  <2>1. iCmdQ' = q /\ UNCHANGED <<iCmdInProgress, foundEmpty, iProtocolState, wire, prelim, quit, fault, dev>>
    BY <1>3, <1>5 DEF server
  <2>2. QueuesOK' /\ FlagOK' /\ ControlOK'
    BY <1>4, <1>5, <2>1 DEF Dialogue, QueuesOK, FlagOK, ControlOK, Alive
  <2>3. AwaitsItsReply'
    BY <1>4, <2>1 DEF Dialogue, AwaitsItsReply, Alive
  <2> QED BY <2>2, <2>3 DEF Dialogue
<1>6. CASE ~iCmdInProgress
  <2>1. /\ wire = <<>> /\ iProtocolState \in States /\ UNCHANGED <<dev, prelim, quit, fault>>
        /\ prelim \in BOOLEAN /\ quit \in BOOLEAN
    BY <1>6 DEF Dialogue, FlagOK, QueuesOK, server
  <2>2. /\ dev[CC].conn \notin {"none", "connecting"} /\ ~(CcTls = "Yes" /\ dev[CC].ssl = "shaking")
        /\ dev[CC].conn = "open" => ~prelim
    BY <1>6, <2>1 DEF Dialogue, ControlOK
  <2>3. ProcessNextCmd(q, iProtocolState, <<>>)
    BY <1>3, <1>6, <2>1
  <2> QED BY <1>4, <2>1, <2>2, <2>3, NextCommandStep
<1> QED BY <1>5, <1>6

\* Stop shuts both channels; the dialogue is left alone.
LEMMA StopStep ==
  ASSUME IInv, Stop, UNCHANGED <<iObservers, removeMark, server, seen, fault>>, called' \in 0..Len(Script)
  PROVE  IInv'
<1>1. CC \in Devices /\ dev \in [Devices -> DeviceState] /\ 0 \in 0..Len(Script)
  BY DevicesDiffer, ScriptAssumption DEF IInv, Typed, DevicesTyped
<1>2. PICK devs : devs = IF iDataChannel = 0 THEN dev ELSE StopSocket(dev, DC(iDataChannel))
  OBVIOUS
<1>3. devs \in [Devices -> DeviceState] /\ devs[CC] = dev[CC]
  <2>1. CASE iDataChannel # 0
    <3>1. iDataChannel \in Calls
      BY <2>1, ScriptAssumption DEF IInv, Typed, TransferTyped, Calls
    <3>2. DC(iDataChannel) \in Devices /\ DC(iDataChannel) # CC
      BY <3>1, DevicesDiffer
    <3> QED BY <1>1, <1>2, <2>1, <3>2, StopSocketProperties
  <2> QED BY <1>1, <1>2, <2>1
<1>4. dev' = StopSocket(devs, CC)
  BY <1>2 DEF Stop
<1>5. dev' \in [Devices -> DeviceState] /\ SameControl
  BY <1>1, <1>3, <1>4, StopSocketProperties DEF SameControl
<1>6. Dialogue'
  BY <1>5, SilentStep DEF Stop, IInv
<1>7. Typed'
  BY <1>1, <1>5 DEF Stop, IInv, Typed, TransferTyped, ListTyped, DevicesTyped, HistoryTyped
<1> QED BY <1>6, <1>7 DEF IInv

\* Any call.
LEMMA CallStep == IInv /\ ApiCall => IInv'
<1> SUFFICES ASSUME IInv, ApiCall PROVE IInv'
  OBVIOUS
<1>1. PICK n \in Calls : n = called + 1 /\ called' = n
  BY ScriptAssumption DEF ApiCall, IInv, Typed, TransferTyped, Calls
<1>2. n \in 0..Len(Script)
  BY ScriptAssumption DEF Calls
<1>3. CASE Script[n].api = "Stop"
  BY <1>1, <1>2, <1>3, StopStep DEF ApiCall
<1>4. CASE Script[n].api # "Stop"
  <2>1. Enqueue(n) /\ UNCHANGED <<transfer, dev, iObservers, removeMark, server, seen, fault>> /\ Alive
    BY <1>1, <1>4 DEF ApiCall, Alive
  <2>2. Script[n].api \in Apis
    BY <1>4, ScriptFields
  <2>3. Dialogue'
    BY <2>1, <2>2, EnqueueStep DEF IInv
  <2>4. Typed'
    BY <1>1, <1>2, <2>1 DEF IInv, Typed, TransferTyped, ListTyped, DevicesTyped, HistoryTyped, transfer
  <2> QED BY <2>3, <2>4 DEF IInv
<1> QED BY <1>3, <1>4

----------------------------------------------------------------------------
(* The control channel *)

\* ConnectEx is posted.
LEMMA StartStep == IInv /\ StartClient => IInv'
<1> SUFFICES ASSUME IInv, StartClient PROVE IInv'
  OBVIOUS
<1>1. CC \in Devices /\ dev \in [Devices -> DeviceState] /\ "connecting" \in Connections
  BY DevicesDiffer DEF IInv, Typed, DevicesTyped, Connections
<1>2. dev' = [dev EXCEPT ![CC].conn = "connecting"] /\ dev[CC].conn = "none" /\ Alive
  BY DEF StartClient, StartSocketClient, Alive
<1>3. dev' \in [Devices -> DeviceState] /\ dev'[CC].conn = "connecting" /\ dev'[CC].ssl = dev[CC].ssl
  BY <1>1, <1>2, SetField DEF DeviceState
<1>4. Dialogue'
  <2>1. UNCHANGED <<iCmdQ, iCmdInProgress, foundEmpty, iProtocolState, wire, prelim, quit, fault>>
    BY DEF StartClient, protocol, server
  <2>2. QueuesOK' /\ FlagOK' /\ AwaitsItsReply'
    BY <2>1 DEF IInv, Dialogue, QueuesOK, FlagOK, AwaitsItsReply, Alive
  <2>3. ControlOK'
    BY <1>2, <1>3, <2>1 DEF IInv, Dialogue, ControlOK, Alive
  <2> QED BY <2>2, <2>3 DEF Dialogue
<1>5. Typed'
  BY <1>3 DEF StartClient, IInv, Typed, TransferTyped, ListTyped, DevicesTyped, HistoryTyped, transfer
<1> QED BY <1>4, <1>5 DEF IInv

\* The channel is connected: the greeting is awaited.
LEMMA ConnectStep == IInv /\ ControlConnect => IInv'
<1> SUFFICES ASSUME IInv, ControlConnect PROVE IInv'
  OBVIOUS
<1>1. CC \in Devices /\ dev \in [Devices -> DeviceState] /\ "open" \in Connections /\ "shaking" \in Handshakes
  BY DevicesDiffer DEF IInv, Typed, DevicesTyped, Connections, Handshakes
<1>2. PICK s \in Handshakes : s = IF CcTls = "Implicit" THEN "shaking" ELSE dev[CC].ssl
  BY <1>1 DEF DeviceState
<1>3. dev' = [dev EXCEPT ![CC].conn = "open", ![CC].ssl = s]
  BY <1>1, <1>2 DEF ControlConnect
<1>4. PICK a \in [Devices -> DeviceState] : a = [dev EXCEPT ![CC].conn = "open"]
  BY <1>1, SetField
<1>5. dev' = [a EXCEPT ![CC].ssl = s]
  BY <1>3, <1>4
<1>6. /\ dev' \in [Devices -> DeviceState] /\ dev'[CC].conn = "open" /\ dev'[CC].ssl = s
  <2>1. a[CC].conn = "open" /\ a[CC] \in DeviceState
    BY <1>1, <1>4 DEF DeviceState
  <2> QED BY <1>1, <1>5, <2>1, SetField DEF DeviceState
<1>7. /\ Alive /\ iCmdInProgress /\ ~foundEmpty /\ ~prelim /\ ~(CcTls = "Yes" /\ dev[CC].ssl = "shaking")
      /\ prelim = FALSE /\ quit \in BOOLEAN
  BY DEF ControlConnect, IInv, Dialogue, ControlOK, QueuesOK
<1>8. ListTyped'
  BY PassStep DEF ControlConnect, IInv, Typed, ListTyped
<1>9. Typed'
  BY <1>6, <1>8 DEF ControlConnect, IInv, Typed, TransferTyped, DevicesTyped, HistoryTyped, transfer
<1>10. "GREETING" \in LoginSteps
  BY DEF LoginSteps
<1>11. /\ UNCHANGED <<iCmdQ, iCmdInProgress, foundEmpty, fault, prelim, quit>>
       /\ iProtocolState' = "CONNECTED" /\ wire' = <<Login("GREETING")>>
  BY DEF ControlConnect, server
<1>12. ~(CcTls = "Yes" /\ s = "shaking")
  BY <1>2, <1>7
<1>13. Dialogue'
  BY <1>6, <1>7, <1>10, <1>11, <1>12, LoginStep DEF IInv
<1> QED BY <1>9, <1>13 DEF IInv

\* The handshake of the control channel is over.
LEMMA ControlHandshakeStep == IInv /\ ControlHandshake => IInv'
<1> SUFFICES ASSUME IInv, ControlHandshake PROVE IInv'
  OBVIOUS
<1>1. CC \in Devices /\ dev \in [Devices -> DeviceState] /\ "up" \in Handshakes
  BY DevicesDiffer DEF IInv, Typed, DevicesTyped, Handshakes
<1>2. /\ dev' = [dev EXCEPT ![CC].ssl = "up"] /\ Alive /\ dev[CC].conn = "open" /\ dev[CC].ssl = "shaking"
      /\ UNCHANGED <<iCmdQ, iCmdInProgress, foundEmpty, prelim, quit, fault>>
  BY DEF ControlHandshake, Reading, server
<1>3. /\ dev' \in [Devices -> DeviceState] /\ dev'[CC].conn = dev[CC].conn /\ dev'[CC].ssl = "up"
  BY <1>1, <1>2, SetField DEF DeviceState
<1>4. ListTyped'
  BY PassStep DEF ControlHandshake, IInv, Typed, ListTyped
<1>5. Typed'
  BY <1>3, <1>4 DEF ControlHandshake, IInv, Typed, TransferTyped, DevicesTyped, HistoryTyped, transfer
<1>6. CASE CcTls = "Yes"
  <2>1. /\ iCmdInProgress /\ ~foundEmpty /\ wire = <<>> /\ prelim \in BOOLEAN /\ ~prelim /\ quit \in BOOLEAN
    BY <1>2, <1>6 DEF IInv, Dialogue, ControlOK, QueuesOK
  <2>2. iProtocolState' = "USER" /\ wire' = Sent(<<>>, Login("USER"))
    BY <1>6, <2>1 DEF ControlHandshake
  <2>3. wire' \in {<<>>, <<Login("USER")>>}
    BY <2>2 DEF Sent
  <2>4. "USER" \in LoginSteps
    BY DEF LoginSteps
  <2>5. Dialogue'
    BY <1>2, <1>3, <2>1, <2>2, <2>3, <2>4, LoginStep DEF IInv
  <2> QED BY <1>5, <2>5 DEF IInv
<1>7. CASE CcTls # "Yes"
  <2>1. UNCHANGED <<protocol, server, fault>> /\ SameControl
    BY <1>2, <1>3, <1>7 DEF ControlHandshake, protocol, server, SameControl
  <2> QED BY <1>5, <2>1, SilentStep DEF IInv
<1> QED BY <1>6, <1>7

\* The end of the control channel: nothing is sent on it any more.
LEMMA ControlEofStep == IInv /\ ControlEof => IInv'
<1> SUFFICES ASSUME IInv, ControlEof PROVE IInv'
  OBVIOUS
<1>1. UNCHANGED <<called, prelim, quit>> /\ Alive /\ dev[CC].conn = "open"
  BY DEF ControlEof, server, Reading
<1>2. CASE SentShutdown(CC)
  <2>1. CC \in Devices /\ dev \in [Devices -> DeviceState] /\ "closed" \in Connections
    BY DevicesDiffer DEF IInv, Typed, DevicesTyped, Connections
  <2>2. /\ iProtocolState' = "DISCONNECTED" /\ wire' = <<>> /\ removeMark' = removeMark \cup {CC}
        /\ dev' = [dev EXCEPT ![CC].conn = "closed"] /\ dev[CC].ssl # "shaking"
        /\ UNCHANGED <<iCmdQ, iCmdInProgress, foundEmpty, transfer, seen, fault>> /\ DispatcherPass(iObservers)
    BY <1>2 DEF ControlEof, SentShutdown
  <2>3. dev' \in [Devices -> DeviceState] /\ dev'[CC].conn = "closed" /\ dev'[CC].ssl = dev[CC].ssl
    <3>1. dev' \in [Devices -> DeviceState]
      BY <2>1, <2>2, SetField
    <3>2. dev'[CC].conn = "closed" /\ dev'[CC].ssl = dev[CC].ssl
      BY <2>1, <2>2 DEF DeviceState
    <3> QED BY <3>1, <3>2
  <2>4. ListTyped'
    BY <2>1, <2>2, PassStep DEF IInv, Typed, ListTyped
  <2>5. Typed'
    BY <1>1, <2>2, <2>3, <2>4 DEF IInv, Typed, TransferTyped, DevicesTyped, HistoryTyped, transfer
  <2>6. <<>> \in Seq(Command \cup LoginCommand) /\ "DISCONNECTED" \in States
    BY StatesAre
  <2>7. QueuesOK' /\ FlagOK' /\ AwaitsItsReply' /\ ControlOK'
    BY <1>1, <2>2, <2>3, <2>6 DEF IInv, Dialogue, QueuesOK, FlagOK, AwaitsItsReply, ControlOK
  <2> QED BY <2>5, <2>7 DEF IInv, Dialogue
<1>3. CASE ~SentShutdown(CC)
  <2>1. Dies("assert: SSL_SENT_SHUTDOWN") /\ "assert: SSL_SENT_SHUTDOWN" \in Faults
    BY <1>3 DEF ControlEof, Faults
  <2>2. prelim' \in BOOLEAN /\ quit' \in BOOLEAN
    BY <1>1 DEF IInv, Dialogue, QueuesOK
  <2> QED BY <1>1, <2>1, <2>2, DiesStep
<1> QED BY <1>2, <1>3

\* A close_notify, on any channel.
LEMMA CloseNotifyStep == \A d \in Devices : IInv /\ CloseNotify(d) => IInv'
<1> SUFFICES ASSUME NEW d \in Devices, IInv, CloseNotify(d) PROVE IInv'
  OBVIOUS
<1>1. dev' = StopSocket(dev, d) /\ dev \in [Devices -> DeviceState] /\ CC \in Devices
  BY DevicesDiffer DEF CloseNotify, IInv, Typed, DevicesTyped
<1>2. dev' \in [Devices -> DeviceState] /\ SameControl
  BY <1>1, StopSocketProperties DEF SameControl
<1>3. ListTyped'
  BY PassStep DEF CloseNotify, IInv, Typed, ListTyped
<1>4. Typed'
  BY <1>2, <1>3 DEF CloseNotify, IInv, Typed, TransferTyped, DevicesTyped, HistoryTyped, transfer
<1> QED BY <1>2, <1>4, SilentStep DEF CloseNotify, IInv

\* Completions nothing reacts to.
LEMMA OtherStep == IInv /\ OtherCompletion => IInv'
<1> SUFFICES ASSUME IInv, OtherCompletion PROVE IInv'
  OBVIOUS
<1>1. SameControl
  BY DEF OtherCompletion, SameControl
<1>2. Typed'
  BY DataKept DEF OtherCompletion, IInv
<1> QED BY <1>1, <1>2, SilentStep DEF OtherCompletion, IInv

\* The flag is given back: nothing is on the wire.
LEMMA GiveUpStep == IInv /\ GiveUp => IInv'
<1> SUFFICES ASSUME IInv, GiveUp PROVE IInv'
  OBVIOUS
<1>1. /\ iCmdInProgress' = FALSE /\ foundEmpty' = FALSE /\ foundEmpty /\ Alive
      /\ UNCHANGED <<iCmdQ, iProtocolState, wire, prelim, quit, fault, dev>>
      /\ UNCHANGED <<transfer, iObservers, removeMark, called, seen>>
  BY DEF GiveUp, server
<1>2. wire = <<>> /\ dev[CC].conn \notin {"none", "connecting"} /\ ~(CcTls = "Yes" /\ dev[CC].ssl = "shaking")
  BY <1>1 DEF IInv, Dialogue, FlagOK, ControlOK
<1>3. QueuesOK' /\ FlagOK' /\ AwaitsItsReply'
  BY <1>1, <1>2 DEF IInv, Dialogue, QueuesOK, FlagOK, AwaitsItsReply
<1>4. ControlOK'
  BY <1>1, <1>2 DEF IInv, Dialogue, ControlOK, Alive
<1>5. Typed'
  BY <1>1 DEF IInv, Typed, TransferTyped, ListTyped, DevicesTyped, HistoryTyped, transfer
<1> QED BY <1>3, <1>4, <1>5 DEF IInv, Dialogue

----------------------------------------------------------------------------
(* Data channels and files *)

\* Counting in the history of one transfer.
LEMMA Counting ==
  ASSUME NEW h \in [Calls -> History], NEW n \in Calls
  PROVE  /\ [h EXCEPT ![n].told = @ + 1] \in [Calls -> History]
         /\ [h EXCEPT ![n].null = @ + 1] \in [Calls -> History]
         /\ [h EXCEPT ![n].stored = @ + 1] \in [Calls -> History]
         /\ [h EXCEPT ![n].tx = @ + 1] \in [Calls -> History]
         /\ h[n].rx < MaxChunks => [h EXCEPT ![n].rx = @ + 1] \in [Calls -> History]
         /\ h[n].read < MaxChunks => [h EXCEPT ![n].read = @ + 1] \in [Calls -> History]
<1>1. h[n] \in History /\ MaxChunks \in Nat
  BY BoundAssumption
<1> QED BY <1>1 DEF History

\* Steps of data channels and files that send no command.
LEMMA SideStep ==
  ASSUME IInv, UNCHANGED <<protocol, server, fault, called>>, TransferTyped', DevicesTyped', HistoryTyped',
         dev'[CC] = dev[CC], removeMark' \subseteq Devices, NEW obs \in Seq(Devices), DispatcherPass(obs)
  PROVE  IInv'
<1>1. Dialogue'
  BY SilentStep DEF IInv, SameControl
<1> QED BY <1>1, PassStep DEF IInv, Typed

\* What stays as it is keeps its type.
LEMMA StaysTyped ==
  ASSUME IInv
  PROVE  /\ iObservers \in Seq(Devices) /\ removeMark \subseteq Devices
         /\ dev \in [Devices -> DeviceState] /\ seen \in [Calls -> History]
         /\ prelim \in BOOLEAN /\ quit \in BOOLEAN /\ Len(Script) \in Nat
         /\ iDataChannel # 0 => iDataChannel \in Calls
         /\ iFileDevice # 0 => iFileDevice \in Calls
BY ScriptAssumption DEF IInv, Typed, ListTyped, DevicesTyped, HistoryTyped, Dialogue, QueuesOK, TransferTyped, Calls

\* The process dies in the handler of a data channel or a file.
LEMMA SideDies ==
  ASSUME IInv, NEW why \in Faults, Dies(why), UNCHANGED <<called, server>>
  PROVE  IInv'
<1>1. prelim' \in BOOLEAN /\ quit' \in BOOLEAN
  BY StaysTyped DEF server
<1> QED BY <1>1, DiesStep

\* A data channel is connected.
LEMMA DcConnectStep == \A n \in Calls : IInv /\ DcConnect(n) => IInv'
<1> SUFFICES ASSUME NEW n \in Calls, IInv, DcConnect(n) PROVE IInv'
  OBVIOUS
<1>1. DC(n) \in Devices /\ CC \in Devices /\ DC(n) # CC /\ "open" \in Connections
  BY DevicesDiffer DEF Connections
<1>2. UNCHANGED <<called, server>>
  BY DEF DcConnect
<1>3. CASE iCmdQ = <<>>
  <2>1. \E why \in Faults : Dies(why)
    BY <1>3 DEF DcConnect, Faults
  <2> QED BY <1>2, <2>1, SideDies
<1>4. CASE iCmdQ # <<>>
  <2>1. /\ dev' = [dev EXCEPT ![DC(n)].conn = "open"]
        /\ UNCHANGED <<protocol, transfer, removeMark, seen, fault>> /\ DispatcherPass(iObservers)
    BY <1>4 DEF DcConnect
  <2>2. dev' \in [Devices -> DeviceState] /\ dev'[CC] = dev[CC]
    BY <1>1, <2>1, StaysTyped, SetField, SetOthers
  <2>3. TransferTyped' /\ DevicesTyped' /\ HistoryTyped'
    BY <1>2, <2>1, <2>2 DEF IInv, Typed, TransferTyped, DevicesTyped, HistoryTyped, transfer
  <2> QED BY <1>2, <2>1, <2>2, <2>3, StaysTyped, SideStep
<1> QED BY <1>3, <1>4

\* A write has completed on it.
LEMMA DcWriteStep == \A n \in Calls : IInv /\ DcWrite(n) => IInv'
<1> SUFFICES ASSUME NEW n \in Calls, IInv, DcWrite(n) PROVE IInv'
  OBVIOUS
<1>1. UNCHANGED <<called, server>>
  BY DEF DcWrite
<1>2. CASE iCmdQ = <<>>
  <2>1. \E why \in Faults : Dies(why)
    BY <1>2 DEF DcWrite, Faults
  <2> QED BY <1>1, <2>1, SideDies
<1>3. CASE iCmdQ # <<>>
  <2>1. UNCHANGED <<protocol, transfer, removeMark, dev, seen, fault>> /\ DispatcherPass(iObservers)
    BY <1>3 DEF DcWrite
  <2>2. TransferTyped' /\ DevicesTyped' /\ HistoryTyped'
    BY <1>1, <2>1 DEF IInv, Typed, TransferTyped, DevicesTyped, HistoryTyped, transfer
  <2> QED BY <1>1, <2>1, <2>2, StaysTyped, SideStep
<1> QED BY <1>2, <1>3

\* Its handshake is over: an upload starts reading.
LEMMA DcHandshakeStep == \A n \in Calls : IInv /\ DcHandshake(n) => IInv'
<1> SUFFICES ASSUME NEW n \in Calls, IInv, DcHandshake(n) PROVE IInv'
  OBVIOUS
<1>1. DC(n) \in Devices /\ CC \in Devices /\ DC(n) # CC /\ "up" \in Handshakes
  BY DevicesDiffer DEF Handshakes
<1>2. UNCHANGED <<called, server>>
  BY DEF DcHandshake
<1>3. CASE iCmdQ = <<>> \/ (Head(iCmdQ).cmd = "STOR" /\ iFileDevice = 0)
  <2>1. Dies("front of empty iCmdQ") \/ Dies("null iFileDevice")
    BY <1>3 DEF DcHandshake
  <2>2. "front of empty iCmdQ" \in Faults /\ "null iFileDevice" \in Faults
    BY DEF Faults
  <2> QED BY <1>2, <2>1, <2>2, SideDies
<1>4. CASE ~(iCmdQ = <<>> \/ (Head(iCmdQ).cmd = "STOR" /\ iFileDevice = 0))
  <2>1. PICK devs : devs = [dev EXCEPT ![DC(n)].ssl = "up"]
    OBVIOUS
  <2>2. /\ dev' = TriggerDataTransfer(devs, iFileDevice)
        /\ UNCHANGED <<protocol, transfer, removeMark, seen, fault>> /\ DispatcherPass(iObservers)
    BY <1>4, <2>1 DEF DcHandshake
  <2>3. devs \in [Devices -> DeviceState] /\ devs[CC] = dev[CC]
    BY <1>1, <2>1, StaysTyped, SetField, SetOthers
  <2>4. Head(iCmdQ).cmd = "STOR" => iFileDevice \in Calls
    BY <1>4, StaysTyped
  <2>5. dev' \in [Devices -> DeviceState] /\ dev'[CC] = dev[CC]
    BY <1>4, <2>2, <2>3, <2>4, TriggerProperties
  <2>6. TransferTyped' /\ DevicesTyped' /\ HistoryTyped'
    BY <1>2, <2>2, <2>5 DEF IInv, Typed, TransferTyped, DevicesTyped, HistoryTyped, transfer
  <2> QED BY <1>2, <2>2, <2>5, <2>6, StaysTyped, SideStep
<1> QED BY <1>3, <1>4

\* The file takes what has arrived, if there is one.
LEMMA StoreTyped ==
  ASSUME IInv, NEW h \in [Calls -> History], Store(h)
  PROVE  seen' \in [Calls -> History] /\ iCurrentFileOffset' \in Nat
<1>1. iCurrentFileOffset \in Nat
  BY DEF IInv, Typed, TransferTyped
<1>2. CASE iFileDevice = 0
  BY <1>1, <1>2 DEF Store
<1>3. CASE iFileDevice # 0
  <2>1. iFileDevice \in Calls
    BY <1>3, StaysTyped
  <2>2. [h EXCEPT ![iFileDevice].stored = @ + 1] \in [Calls -> History]
    BY <2>1, Counting
  <2> QED BY <1>1, <1>3, <2>2 DEF Store
<1> QED BY <1>2, <1>3

\* What the callback says.
LEMMA CallbackTyped ==
  ASSUME IInv, iCmdQ # <<>>, AskCallback(Head(iCmdQ))
  PROVE  iContinueTransfer' \in BOOLEAN
BY FrontOfQueue DEF IInv, Typed, TransferTyped, AskCallback

\* Data arrives.
LEMMA DcReadStep == \A n \in Calls : IInv /\ DcRead(n) => IInv'
<1> SUFFICES ASSUME NEW n \in Calls, IInv, DcRead(n) PROVE IInv'
  OBVIOUS
<1>1. UNCHANGED <<called, server>> /\ seen[n].rx < MaxChunks
  BY DEF DcRead
<1>2. PICK got : got = [seen EXCEPT ![n].rx = @ + 1]
  OBVIOUS
<1>3. got \in [Calls -> History]
  BY <1>1, <1>2, StaysTyped, Counting
<1>4. \/ \E why \in Faults : Dies(why)
      \/ /\ iCmdQ # <<>> /\ ~HasCbk(Head(iCmdQ)) /\ Store(got)
         /\ UNCHANGED <<protocol, iDCProt, iContinueTransfer, iDataChannel, iFileDevice, removeMark, dev, fault>>
         /\ DispatcherPass(iObservers)
      \/ /\ iCmdQ # <<>> /\ AskCallback(Head(iCmdQ))
         /\ Store([got EXCEPT ![Head(iCmdQ).call].told = @ + 1])
         /\ UNCHANGED <<protocol, iDCProt, iDataChannel, iFileDevice, removeMark, dev, fault>>
         /\ DispatcherPass(iObservers)
      \/ /\ iDataChannel # 0 /\ seen' = got /\ dev' = StopSocket(dev, DC(iDataChannel))
         /\ UNCHANGED <<protocol, transfer, removeMark, fault>>
         /\ DispatcherPass(iObservers)
  BY <1>2 DEF DcRead, Faults
<1>5. CASE \E why \in Faults : Dies(why)
  BY <1>1, <1>5, SideDies
<1>6. CASE /\ iCmdQ # <<>> /\ ~HasCbk(Head(iCmdQ)) /\ Store(got)
           /\ UNCHANGED <<protocol, iDCProt, iContinueTransfer, iDataChannel, iFileDevice, removeMark, dev, fault>>
           /\ DispatcherPass(iObservers)
  <2>1. TransferTyped' /\ DevicesTyped' /\ HistoryTyped'
    BY <1>1, <1>3, <1>6, StoreTyped DEF IInv, Typed, TransferTyped, DevicesTyped, HistoryTyped
  <2> QED BY <1>1, <1>6, <2>1, StaysTyped, SideStep
<1>7. CASE /\ iCmdQ # <<>> /\ AskCallback(Head(iCmdQ))
           /\ Store([got EXCEPT ![Head(iCmdQ).call].told = @ + 1])
           /\ UNCHANGED <<protocol, iDCProt, iDataChannel, iFileDevice, removeMark, dev, fault>>
           /\ DispatcherPass(iObservers)
  <2>1. PICK h : h = [got EXCEPT ![Head(iCmdQ).call].told = @ + 1]
    OBVIOUS
  <2>2. Head(iCmdQ).call \in Calls
    BY <1>7, FrontOfQueue DEF IInv
  <2>3. h \in [Calls -> History] /\ Store(h)
    BY <1>3, <1>7, <2>1, <2>2, Counting
  <2>4. TransferTyped' /\ DevicesTyped' /\ HistoryTyped'
    BY <1>1, <1>7, <2>3, StoreTyped, CallbackTyped DEF IInv, Typed, TransferTyped, DevicesTyped, HistoryTyped
  <2> QED BY <1>1, <1>7, <2>4, StaysTyped, SideStep
<1>8. CASE /\ iDataChannel # 0 /\ seen' = got /\ dev' = StopSocket(dev, DC(iDataChannel))
           /\ UNCHANGED <<protocol, transfer, removeMark, fault>>
           /\ DispatcherPass(iObservers)
  <2>1. DC(iDataChannel) \in Devices /\ CC \in Devices /\ DC(iDataChannel) # CC
    BY <1>8, StaysTyped, DevicesDiffer
  <2>2. dev' \in [Devices -> DeviceState] /\ dev'[CC] = dev[CC]
    BY <1>8, <2>1, StaysTyped, StopSocketProperties
  <2>3. TransferTyped' /\ DevicesTyped' /\ HistoryTyped'
    BY <1>1, <1>3, <1>8, <2>2 DEF IInv, Typed, TransferTyped, DevicesTyped, HistoryTyped, transfer
  <2> QED BY <1>1, <1>8, <2>2, <2>3, StaysTyped, SideStep
<1> QED BY <1>4, <1>5, <1>6, <1>7, <1>8

\* A data channel ends; with the final reply seen its command is retired.
LEMMA DcEofStep == \A n \in Calls : IInv /\ DcEof(n) => IInv'
<1> SUFFICES ASSUME NEW n \in Calls, IInv, DcEof(n) PROVE IInv'
  OBVIOUS
<1>1. UNCHANGED <<called, server>> /\ Alive
  BY DEF DcEof, Reading
<1>2. CASE ~SentShutdown(DC(n)) \/ iCmdQ = <<>>
  <2>1. \E why \in Faults : Dies(why)
    BY <1>2 DEF DcEof, Faults
  <2> QED BY <1>1, <2>1, SideDies
<1>3. CASE SentShutdown(DC(n)) /\ iCmdQ # <<>>
  <2>1. /\ seen' = IF HasCbk(Head(iCmdQ)) THEN [seen EXCEPT ![Head(iCmdQ).call].null = @ + 1] ELSE seen
        /\ ResetBoth /\ removeMark' = removeMark \cup HeldDevices \cup {DC(n)}
        /\ dev' = [dev EXCEPT ![DC(n)].conn = "closed"]
        /\ IF FinalReplySeen THEN SkipCommand(1, "xyz", wire) ELSE UNCHANGED protocol
        /\ UNCHANGED fault /\ DispatcherPass(iObservers)
    BY <1>3 DEF DcEof
  <2>2. DC(n) \in Devices /\ CC \in Devices /\ DC(n) # CC /\ "closed" \in Connections
    BY DevicesDiffer DEF Connections
  <2>3. dev' \in [Devices -> DeviceState] /\ dev'[CC] = dev[CC]
    BY <2>1, <2>2, StaysTyped, SetField, SetOthers
  <2>4. seen' \in [Calls -> History]
    BY <1>3, <2>1, StaysTyped, FrontOfQueue, Counting DEF IInv
  <2>5. removeMark' \subseteq Devices
    BY <2>1, <2>2, StaysTyped, HeldAreDevices DEF IInv, Typed
  <2>6. 0 \in 0..Len(Script)
    BY ScriptAssumption
  <2>7. TransferTyped' /\ DevicesTyped' /\ HistoryTyped'
    BY <1>1, <2>1, <2>3, <2>4, <2>6 DEF ResetBoth, IInv, Typed, TransferTyped, DevicesTyped, HistoryTyped
  <2>8. CASE FinalReplySeen
    <3>1. iProtocolState = "xyz" /\ wire = <<>>
      BY <1>1, <2>8, Awaited DEF FinalReplySeen, IInv, LoginSteps, ClassOf
    <3>2. /\ dev[CC].conn \notin {"none", "connecting"} /\ ~(CcTls = "Yes" /\ dev[CC].ssl = "shaking")
          /\ dev[CC].conn = "open" => ~prelim
      BY <1>1, <3>1 DEF IInv, Dialogue, ControlOK
    <3>3. PICK q \in Seq(Command) : q = SubSeq(iCmdQ, 1 + 1, Len(iCmdQ))
      <4>1. 1 \in Nat
        OBVIOUS
      <4> QED BY <4>1, SuffixOfQueue DEF IInv, Dialogue
    <3>4. ProcessNextCmd(q, "xyz", <<>>)
      BY <2>1, <2>8, <3>1, <3>3 DEF SkipCommand
    <3>5. UNCHANGED <<prelim, quit, fault>> /\ "xyz" \in States
      BY <1>1, <2>1, StatesAre DEF server
    <3>6. Dialogue'
      BY <2>3, <3>2, <3>4, <3>5, StaysTyped, NextCommandStep DEF IInv
    <3> QED BY <2>1, <2>5, <2>7, <3>6, StaysTyped, PassStep DEF IInv, Typed
  <2>9. CASE ~FinalReplySeen
    BY <1>1, <2>1, <2>3, <2>5, <2>7, <2>9, StaysTyped, SideStep
  <2> QED BY <2>8, <2>9
<1> QED BY <1>2, <1>3

\* A chunk of the file has been read: it goes out, or the transfer is given up.
LEMMA FileReadStep == \A n \in Calls : IInv /\ FileRead(n) => IInv'
<1> SUFFICES ASSUME NEW n \in Calls, IInv, FileRead(n) PROVE IInv'
  OBVIOUS
<1>1. UNCHANGED <<called, server>> /\ seen[n].read < MaxChunks
  BY DEF FileRead
<1>2. PICK got : got = [seen EXCEPT ![n].read = @ + 1]
  OBVIOUS
<1>3. got \in [Calls -> History]
  BY <1>1, <1>2, StaysTyped, Counting
<1>4. PICK still : still = [dev EXCEPT ![FL(n)].rd = FALSE]
  OBVIOUS
<1>5. CC \in Devices /\ \A m \in Calls : /\ FL(m) \in Devices /\ FL(m) # CC
                                        /\ DC(m) \in Devices /\ DC(m) # CC
  BY DevicesDiffer
<1>6. still \in [Devices -> DeviceState] /\ still[CC] = dev[CC]
  BY <1>4, <1>5, StaysTyped, SetField, SetOthers
<1>7. CASE iCmdQ = <<>> \/ iDataChannel = 0 \/ (iFileDevice = 0 /\ ~(HasCbk(Head(iCmdQ)) /\ ~iContinueTransfer))
  <2>1. \E why \in Faults : Dies(why)
    BY <1>7 DEF FileRead, Faults
  <2> QED BY <1>1, <2>1, SideDies
<1>8. CASE iCmdQ # <<>> /\ iDataChannel # 0 /\ HasCbk(Head(iCmdQ)) /\ ~iContinueTransfer
  <2>1. /\ dev' = StopSocket(still, DC(iDataChannel)) /\ seen' = got
        /\ UNCHANGED <<protocol, transfer, removeMark, fault>> /\ DispatcherPass(iObservers)
    BY <1>2, <1>4, <1>8 DEF FileRead
  <2>2. dev' \in [Devices -> DeviceState] /\ dev'[CC] = dev[CC]
    BY <1>5, <1>6, <1>8, <2>1, StaysTyped, StopSocketProperties
  <2>3. TransferTyped' /\ DevicesTyped' /\ HistoryTyped'
    BY <1>1, <1>3, <2>1, <2>2 DEF IInv, Typed, TransferTyped, DevicesTyped, HistoryTyped, transfer
  <2> QED BY <1>1, <2>1, <2>2, <2>3, StaysTyped, SideStep
<1>9. CASE Dies("iLock taken twice")
  <2>1. "iLock taken twice" \in Faults
    BY DEF Faults
  <2> QED BY <1>1, <1>9, <2>1, SideDies
<1>10. CASE /\ iCmdQ # <<>> /\ iDataChannel # 0 /\ ~(HasCbk(Head(iCmdQ)) /\ ~iContinueTransfer) /\ iFileDevice # 0
            /\ SendChunk(n)
  <2>1. /\ AskCallback(Head(iCmdQ))
        /\ seen' = [got EXCEPT
             ![Head(iCmdQ).call].told = IF HasCbk(Head(iCmdQ)) THEN @ + 1 ELSE @,
             ![iDataChannel].tx = IF CanSend(DC(iDataChannel)) THEN @ + 1 ELSE @]
        /\ iCurrentFileOffset' = iCurrentFileOffset + 1
        /\ dev' = [dev EXCEPT ![FL(n)].rd = FALSE, ![FL(iFileDevice)].rd = TRUE]
        /\ UNCHANGED <<protocol, iDCProt, iDataChannel, iFileDevice, removeMark, fault>>
        /\ DispatcherPass(iObservers)
    BY <1>2, <1>10 DEF SendChunk
  <2>2. dev' = [still EXCEPT ![FL(iFileDevice)].rd = TRUE]
    BY <1>4, <2>1
  <2>3. dev' \in [Devices -> DeviceState] /\ dev'[CC] = dev[CC]
    BY <1>5, <1>6, <1>10, <2>2, StaysTyped, SetField, SetOthers
  <2>4. Head(iCmdQ).call \in Calls
    BY <1>10, FrontOfQueue DEF IInv
  <2>5. PICK told \in [Calls -> History] :
          told = [got EXCEPT ![Head(iCmdQ).call].told = IF HasCbk(Head(iCmdQ)) THEN @ + 1 ELSE @]
    <3>1. CASE HasCbk(Head(iCmdQ))
      BY <1>3, <2>4, <3>1, Counting
    <3>2. CASE ~HasCbk(Head(iCmdQ))
      <4>1. got = [got EXCEPT ![Head(iCmdQ).call].told = @]
        BY <1>3, <2>4 DEF History
      <4> QED BY <1>3, <3>2, <4>1
    <3> QED BY <3>1, <3>2
  <2>6. seen' = [told EXCEPT ![iDataChannel].tx = IF CanSend(DC(iDataChannel)) THEN @ + 1 ELSE @]
    BY <2>1, <2>5
  <2>7. seen' \in [Calls -> History]
    <3>1. iDataChannel \in Calls
      BY <1>10, StaysTyped
    <3>2. CASE CanSend(DC(iDataChannel))
      BY <2>6, <3>1, <3>2, Counting
    <3>3. CASE ~CanSend(DC(iDataChannel))
      <4>1. told = [told EXCEPT ![iDataChannel].tx = @]
        BY <3>1 DEF History
      <4> QED BY <2>6, <3>3, <4>1
    <3> QED BY <3>2, <3>3
  <2>8. TransferTyped' /\ DevicesTyped' /\ HistoryTyped'
    <3>1. iContinueTransfer' \in BOOLEAN
      BY <1>10, <2>1, CallbackTyped
    <3>2. TransferTyped'
      BY <1>1, <2>1, <3>1 DEF IInv, Typed, TransferTyped
    <3> QED BY <2>3, <2>7, <3>2 DEF DevicesTyped, HistoryTyped
  <2> QED BY <1>1, <2>1, <2>3, <2>8, StaysTyped, SideStep
<1> QED BY <1>7, <1>8, <1>9, <1>10 DEF FileRead

\* The end of the file.
LEMMA FileEofStep == \A n \in Calls : IInv /\ FileEof(n) => IInv'
<1> SUFFICES ASSUME NEW n \in Calls, IInv, FileEof(n) PROVE IInv'
  OBVIOUS
<1>1. UNCHANGED <<called, server>>
  BY DEF FileEof
<1>2. CASE iDataChannel = 0
  <2>1. \E why \in Faults : Dies(why)
    BY <1>2 DEF FileEof, Faults
  <2> QED BY <1>1, <2>1, SideDies
<1>3. CASE iDataChannel # 0
  <2>1. /\ dev' = StopSocket([dev EXCEPT ![FL(n)].conn = "closed", ![FL(n)].rd = FALSE], DC(iDataChannel))
        /\ removeMark' = removeMark \cup {FL(n)}
        /\ UNCHANGED <<protocol, transfer, seen, fault>> /\ DispatcherPass(iObservers)
    BY <1>3 DEF FileEof
  <2>2. PICK a : a = [dev EXCEPT ![FL(n)].conn = "closed"]
    OBVIOUS
  <2>3. PICK b : b = [a EXCEPT ![FL(n)].rd = FALSE]
    OBVIOUS
  <2>4. dev' = StopSocket(b, DC(iDataChannel))
    <3>1. b = [dev EXCEPT ![FL(n)].conn = "closed", ![FL(n)].rd = FALSE]
      BY <2>2, <2>3
    <3> QED BY <2>1, <3>1
  <2>5. /\ CC \in Devices /\ FL(n) \in Devices /\ FL(n) # CC /\ "closed" \in Connections
        /\ DC(iDataChannel) \in Devices /\ DC(iDataChannel) # CC
    BY <1>3, StaysTyped, DevicesDiffer DEF Connections
  <2>6. a \in [Devices -> DeviceState] /\ a[CC] = dev[CC]
    BY <2>2, <2>5, StaysTyped, SetField, SetOthers
  <2>7. b \in [Devices -> DeviceState] /\ b[CC] = a[CC]
    BY <2>3, <2>5, <2>6, SetField, SetOthers
  <2>8. dev' \in [Devices -> DeviceState] /\ dev'[CC] = dev[CC]
    BY <2>4, <2>5, <2>6, <2>7, StopSocketProperties
  <2>9. TransferTyped' /\ DevicesTyped' /\ HistoryTyped'
    BY <1>1, <2>1, <2>8 DEF IInv, Typed, TransferTyped, DevicesTyped, HistoryTyped, transfer
  <2>10. removeMark' \subseteq Devices
    BY <2>1, <2>5, StaysTyped
  <2> QED BY <1>1, <2>1, <2>8, <2>9, <2>10, StaysTyped, SideStep
<1> QED BY <1>2, <1>3

----------------------------------------------------------------------------
(* The theorems *)

\* Nothing is queued and nothing connected.
LEMMA InitIInv == Init => IInv
<1> SUFFICES ASSUME Init PROVE IInv
  OBVIOUS
<1>1. /\ iCmdQ = <<>> /\ iCmdInProgress = TRUE /\ foundEmpty = FALSE /\ iProtocolState = "CONNECTING" /\ wire = <<>>
      /\ prelim = FALSE /\ quit = FALSE /\ fault = "none"
  BY Zenon DEF Init
<1>2. /\ <<>> \in Seq(Command) /\ <<>> \in Seq(Command \cup LoginCommand) /\ "CONNECTING" \in States
      /\ CC \in Devices /\ Len(Script) \in Nat /\ MaxChunks \in Nat
  BY StatesAre, DevicesDiffer, ScriptAssumption, BoundAssumption
<1>3. dev \in [Devices -> DeviceState] /\ \A d \in Devices : dev[d].conn = "none" /\ dev[d].ssl = "no"
  <2>1. [conn |-> "none", ssl |-> "no", stopped |-> FALSE, shut |-> FALSE, rd |-> FALSE] \in DeviceState
    BY DEF DeviceState, Connections, Handshakes
  <2> QED BY <2>1 DEF Init
<1>4. seen \in [Calls -> History]
  <2>1. [told |-> 0, null |-> 0, rx |-> 0, stored |-> 0, read |-> 0, tx |-> 0] \in History
    BY <1>2 DEF History
  <2> QED BY <2>1 DEF Init
<1>5. iContinueTransfer \in BOOLEAN
  BY Zenon DEF Init
<1>6. TransferTyped /\ ListTyped
  BY <1>2, <1>5 DEF Init, TransferTyped, ListTyped
<1>7. QueuesOK /\ FlagOK /\ AwaitsItsReply
  BY <1>1, <1>2 DEF QueuesOK, FlagOK, AwaitsItsReply
<1>8. ControlOK
  BY <1>1, <1>2, <1>3 DEF ControlOK
<1> QED BY <1>3, <1>4, <1>6, <1>7, <1>8 DEF IInv, Dialogue, Typed, DevicesTyped, HistoryTyped

\* A step that changes nothing.
LEMMA StutterIInv == IInv /\ UNCHANGED vars => IInv'
BY DEF vars, protocol, transfer, server, IInv, Dialogue, QueuesOK, FlagOK, AwaitsItsReply, ControlOK,
       Typed, TransferTyped, ListTyped, DevicesTyped, HistoryTyped, Alive

\* Every step keeps IInv.
LEMMA NextIInv ==
  ASSUME FinalRepliesOnly, IInv, [Next]_vars
  PROVE  IInv'
<1>1. CASE UNCHANGED vars
  BY <1>1, StutterIInv
<1>2. CASE StartClient \/ ApiCall \/ GiveUp
  BY <1>2, StartStep, CallStep, GiveUpStep
<1>3. CASE ControlConnect \/ ControlHandshake \/ ControlEof \/ OtherCompletion
  BY <1>3, ConnectStep, ControlHandshakeStep, ControlEofStep, OtherStep
<1>4. ASSUME NEW code \in Codes, OnControlRead(code) PROVE IInv'
  BY <1>4, PreliminaryStep, FinalStep
<1>5. ASSUME NEW d \in Devices, CloseNotify(d) PROVE IInv'
  BY <1>5, CloseNotifyStep
<1>6. ASSUME NEW n \in Calls,
             \/ DcConnect(n) \/ DcHandshake(n) \/ DcRead(n) \/ DcWrite(n) \/ DcEof(n)
             \/ FileRead(n) \/ FileEof(n)
      PROVE  IInv'
  BY <1>6, DcConnectStep, DcHandshakeStep, DcReadStep, DcWriteStep, DcEofStep, FileReadStep, FileEofStep
<1> QED BY <1>1, <1>2, <1>3, <1>4, <1>5, <1>6 DEF Next, Completion

\* IInv contains the properties.
LEMMA IInvImplies == IInv => TypeOK /\ AwaitsItsReply
<1> SUFFICES ASSUME IInv PROVE TypeOK
  BY DEF IInv, Dialogue
<1>1. Command = [cmd : CommandNames, call : Calls] /\ LoginCommand \subseteq [cmd : Kinds, call : {0}]
  BY DEF Command, LoginCommand, LoginSteps, Kinds
<1>2. wire \in Seq([cmd : CommandNames, call : Calls] \cup [cmd : Kinds, call : {0}])
  <2>1. Command \cup LoginCommand \subseteq [cmd : CommandNames, call : Calls] \cup [cmd : Kinds, call : {0}]
    BY <1>1
  <2> QED BY <2>1, SeqMonotonic DEF IInv, Dialogue, QueuesOK
<1>3. /\ dev \in [Devices -> [conn : {"none", "connecting", "open", "closed"},
                             ssl : {"no", "shaking", "up", "lost", "closing"},
                             stopped : BOOLEAN, shut : BOOLEAN, rd : BOOLEAN]]
      /\ seen \in [Calls -> [told : Nat, null : Nat, rx : 0..MaxChunks, stored : Nat,
                             read : 0..MaxChunks, tx : Nat]]
  BY StaysTyped DEF DeviceState, Connections, Handshakes, History
<1>4. /\ iCmdQ \in Seq([cmd : CommandNames, call : Calls]) /\ {iCmdInProgress, foundEmpty} \subseteq BOOLEAN
      /\ iProtocolState \in States /\ {prelim, quit} \subseteq BOOLEAN /\ fault \in {"none"} \cup Faults
  BY <1>1 DEF IInv, Dialogue, QueuesOK, FlagOK
<1> QED BY <1>2, <1>3, <1>4 DEF TypeOK, IInv, Typed, TransferTyped, ListTyped

\* IInv holds in every state, whatever the script, the server and the network.
THEOREM Invariance == ASSUME FinalRepliesOnly PROVE Spec => []IInv
<1>1. Init => IInv
  BY InitIInv
<1>2. IInv /\ [Next]_vars => IInv'
  BY NextIInv
<1> QED BY <1>1, <1>2, PTL DEF Spec

\* The variables of a session keep their types.
THEOREM TypeCorrect == ASSUME FinalRepliesOnly PROVE Spec => []TypeOK
<1>1. IInv => TypeOK
  BY IInvImplies
<1> QED BY <1>1, Invariance, PTL

\* A reply always meets the state whose rows handle it, and the command it
\* answers is the front of iCmdQ: no event of a data channel, no Stop and no
\* lost connection makes ProcessReply take it for another command's.
THEOREM RepliesAreAwaited == ASSUME FinalRepliesOnly PROVE Spec => []AwaitsItsReply
<1>1. IInv => AwaitsItsReply
  BY IInvImplies
<1> QED BY <1>1, Invariance, PTL
=============================================================================
