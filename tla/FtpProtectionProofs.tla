------------------------ MODULE FtpProtectionProofs ------------------------
(***************************************************************************)
(* "Granular PROT levels" of FtpSession, for every script, with Stop too,  *)
(* and every server and network that accepts PROT: between its preliminary *)
(* and its final reply a transfer runs at the level recorded for its own   *)
(* call, whatever other calls queued theirs before or behind it.  That is  *)
(* the level it asked for if the build pools literals, and never a lower   *)
(* one in any build.                                                       *)
(***************************************************************************)
EXTENDS FtpTransferProofs

\* General commands succeed, PROT among them.  (A refused PROT leaves the level
\* as it was, and the code goes on with the transfer.)
ProtAccepted == Replies["GEN"] \subseteq {"2"}

----------------------------------------------------------------------------
(* The inductive invariant *)

\* The level an accepted PROT of call n leaves, in this build.
Recorded(n) == IF Script[n].prot = "Clear" /\ LiteralsPooled THEN "Clear" ELSE "Protected"

\* The PROT of the call at place i is still queued, and is the last one before i.
Asked(q, i) ==
  \E j \in 1..(i - 1) : /\ q[j].cmd = "PROT" /\ q[j].call = q[i].call
                        /\ \A k \in (j + 1)..(i - 1) : q[k].cmd # "PROT"

\* Every transfer will have its level when it gets to the front.
Level(q, level) ==
  \A i \in 1..Len(q) : IsTransferCommand(q[i].cmd) =>
    \/ Asked(q, i)
    \/ level = Recorded(q[i].call) /\ \A k \in 1..(i - 1) : q[k].cmd # "PROT"

\* A call queues PROT while the control channel is listed.
LevelOK == (Listed(CC) /\ CcTls # "No") => Level(iCmdQ, iDCProt)

\* The control channel is the first observer, and leaves in the pass it is marked in.
First(obs) == \A i \in 1..Len(obs) : obs[i] = CC => i = 1
ControlFirst == First(iObservers) /\ (CC \in removeMark => ~Listed(CC))

\* A transfer that runs is at the front; where one may be retired, no PROT is, not
\* even one a call has left behind meanwhile.
TransferAhead == iCmdQ # <<>> /\ IsTransferCommand(Head(iCmdQ).cmd)
TransferInFront ==
  /\ iProtocolState = "1yz" => Listed(CC) /\ TransferAhead
  /\ (iProtocolState = "xyz" /\ iCmdQ # <<>>) => Head(iCmdQ).cmd # "PROT"

PInv == QueueOK /\ ControlFirst /\ LevelOK /\ TransferInFront

----------------------------------------------------------------------------
(* Queues *)

\* A transfer command is neither PROT nor PASV.
LEMMA TransferIsNoProt == ~IsTransferCommand("PROT") /\ ~IsTransferCommand("PASV")
BY DEF IsTransferCommand, TransferCommands

\* Retiring commands other than PROT.
LEMMA LevelOfSuffix ==
  ASSUME NEW q \in Seq(Command), NEW m \in {1, 2}, m <= Len(q), NEW level, Level(q, level),
         \A j \in 1..m : q[j].cmd # "PROT"
  PROVE  Level(SubSeq(q, m + 1, Len(q)), level)
<1>1. PICK r : r = SubSeq(q, m + 1, Len(q))
  OBVIOUS
<1>2. Len(q) \in Nat /\ Len(r) = Len(q) - m /\ \A i \in 1..Len(r) : r[i] = q[i + m]
  BY <1>1, SuffixIs
<1>3. ASSUME NEW i \in 1..Len(r), IsTransferCommand(r[i].cmd)
      PROVE  \/ Asked(r, i)
             \/ level = Recorded(r[i].call) /\ \A k \in 1..(i - 1) : r[k].cmd # "PROT"
  <2>1. PICK p \in 1..Len(q) : p = i + m /\ r[i] = q[p]
    BY <1>2
  <2>2. CASE Asked(q, p)
    <3>1. PICK j \in 1..(p - 1) : /\ q[j].cmd = "PROT" /\ q[j].call = q[p].call
                                  /\ \A k \in (j + 1)..(p - 1) : q[k].cmd # "PROT"
      BY <2>2 DEF Asked
    <3>2. ~(j \in 1..m)
      BY <3>1
    <3>3. PICK x \in 1..(i - 1) : x + m = j
      BY <1>2, <2>1, <3>2
    <3>4. r[x] = q[j]
      BY <1>2, <3>3
    <3>5. \A k \in (x + 1)..(i - 1) : r[k] = q[k + m] /\ k + m \in (j + 1)..(p - 1)
      BY <1>2, <2>1, <3>3
    <3>6. \A k \in (x + 1)..(i - 1) : r[k].cmd # "PROT"
      BY <3>1, <3>5
    <3> QED BY <2>1, <3>1, <3>4, <3>6 DEF Asked
  <2>3. CASE level = Recorded(q[p].call) /\ \A k \in 1..(p - 1) : q[k].cmd # "PROT"
    <3>1. \A k \in 1..(i - 1) : r[k] = q[k + m] /\ k + m \in 1..(p - 1)
      BY <1>2, <2>1
    <3> QED BY <2>1, <2>3, <3>1
  <2> QED BY <1>3, <2>1, <2>2, <2>3 DEF Level
<1> QED BY <1>1, <1>3 DEF Level

\* Retiring PROT sets the level of the transfers that had it as their last one.
LEMMA LevelOfProt ==
  ASSUME NEW q \in Seq(Command), 1 <= Len(q), NEW level, Level(q, level), q[1].cmd = "PROT"
  PROVE  Level(SubSeq(q, 1 + 1, Len(q)), Recorded(q[1].call))
<1>1. PICK r : r = SubSeq(q, 1 + 1, Len(q))
  OBVIOUS
<1>2. Len(q) \in Nat /\ Len(r) = Len(q) - 1 /\ \A i \in 1..Len(r) : r[i] = q[i + 1]
  BY <1>1, SuffixIs
<1>3. ASSUME NEW i \in 1..Len(r), IsTransferCommand(r[i].cmd)
      PROVE  \/ Asked(r, i)
             \/ Recorded(q[1].call) = Recorded(r[i].call) /\ \A k \in 1..(i - 1) : r[k].cmd # "PROT"
  <2>1. PICK p \in 1..Len(q) : p = i + 1 /\ r[i] = q[p]
    BY <1>2
  <2>2. 1 \in 1..(p - 1)
    BY <2>1
  <2>3. Asked(q, p)
    BY <1>3, <2>1, <2>2 DEF Level
  <2>4. PICK j \in 1..(p - 1) : /\ q[j].cmd = "PROT" /\ q[j].call = q[p].call
                                /\ \A k \in (j + 1)..(p - 1) : q[k].cmd # "PROT"
    BY <2>3 DEF Asked
  <2>5. CASE j = 1
    <3>1. \A k \in 1..(i - 1) : r[k] = q[k + 1] /\ k + 1 \in (j + 1)..(p - 1)
      BY <1>2, <2>1, <2>5
    <3> QED BY <2>1, <2>4, <2>5, <3>1
  <2>6. CASE j # 1
    <3>3. PICK x \in 1..(i - 1) : x + 1 = j
      <4>1. j \in 1..i /\ j - 1 \in 1..(i - 1) /\ (j - 1) + 1 = j
        BY <1>2, <2>1, <2>6
      <4> QED BY <4>1
    <3>4. r[x] = q[j]
      BY <1>2, <3>3
    <3>5. \A k \in (x + 1)..(i - 1) : r[k] = q[k + 1] /\ k + 1 \in (j + 1)..(p - 1)
      BY <1>2, <2>1, <3>3
    <3>6. \A k \in (x + 1)..(i - 1) : r[k].cmd # "PROT"
      BY <2>4, <3>5
    <3> QED BY <2>1, <2>4, <3>4, <3>6 DEF Asked
  <2> QED BY <2>5, <2>6
<1> QED BY <1>1, <1>3 DEF Level

\* With TLS every transfer of a call comes after its PROT, the second command.
LEMMA ProtectedBatch ==
  ASSUME NEW api \in Apis
  PROVE  LET names == CommandsOf(api, TRUE)
         IN \A i \in 1..Len(names) : IsTransferCommand(names[i]) =>
              2 < i /\ names[2] = "PROT" /\ \A k \in 3..Len(names) : names[k] # "PROT"
<1> DEFINE Fits(names) ==
             \A i \in 1..Len(names) : IsTransferCommand(names[i]) =>
               2 < i /\ names[2] = "PROT" /\ \A k \in 3..Len(names) : names[k] # "PROT"
<1>1. CommandsOf(api, TRUE) \in {<<"PBSZ", "PROT">> \o <<"PASV", "STOR">>, <<"PBSZ", "PROT">> \o <<"PASV", "RETR">>,
                                 <<"PBSZ", "PROT">> \o <<"TYPE", "PASV", "LIST">>, <<"PWD">>, <<"QUIT">>}
  <2>1. SetDCProtLevel(TRUE) = <<"PBSZ", "PROT">>
    BY DEF SetDCProtLevel
  <2>2. CommandsOf(api, TRUE) \in {SetDCProtLevel(TRUE) \o <<"PASV", "STOR">>, SetDCProtLevel(TRUE) \o <<"PASV", "RETR">>,
                                   SetDCProtLevel(TRUE) \o <<"TYPE", "PASV", "LIST">>, <<"PWD">>, <<"QUIT">>}
    BY DEF CommandsOf, Apis
  <2> QED BY <2>1, <2>2
<1>2. CommandsOf(api, TRUE) \in {<<"PBSZ", "PROT", "PASV", "STOR">>, <<"PBSZ", "PROT", "PASV", "RETR">>,
                                 <<"PBSZ", "PROT", "TYPE", "PASV", "LIST">>, <<"PWD">>, <<"QUIT">>}
  <2>1. PICK names : names = CommandsOf(api, TRUE)
    OBVIOUS
  <2>2. names \in {<<"PBSZ", "PROT">> \o <<"PASV", "STOR">>, <<"PBSZ", "PROT">> \o <<"PASV", "RETR">>,
                   <<"PBSZ", "PROT">> \o <<"TYPE", "PASV", "LIST">>, <<"PWD">>, <<"QUIT">>}
    BY <1>1, <2>1
  <2>3. names \in {<<"PBSZ", "PROT", "PASV", "STOR">>, <<"PBSZ", "PROT", "PASV", "RETR">>,
                   <<"PBSZ", "PROT", "TYPE", "PASV", "LIST">>, <<"PWD">>, <<"QUIT">>}
    BY <2>2
  <2> QED BY <2>1, <2>3
<1>3. Fits(<<"PBSZ", "PROT", "PASV", "STOR">>) /\ Fits(<<"PBSZ", "PROT", "PASV", "RETR">>)
  BY DEF IsTransferCommand, TransferCommands
<1>4. Fits(<<"PBSZ", "PROT", "TYPE", "PASV", "LIST">>)
  BY DEF IsTransferCommand, TransferCommands
<1>5. Fits(<<"PWD">>) /\ Fits(<<"QUIT">>)
  BY DEF IsTransferCommand, TransferCommands
<1> HIDE DEF Fits
<1>6. Fits(CommandsOf(api, TRUE))
  BY <1>2, <1>3, <1>4, <1>5
<1> QED BY <1>6 DEF Fits

\* No batch begins with PROT.
LEMMA BatchBegins ==
  ASSUME NEW q, NEW b \in Seq(Command), NEW r, NEW n \in Calls, Script[n].api \in Apis, Appends(n, q, b, r)
  PROVE  b[1].cmd # "PROT"
<1>1. PICK names : names = CommandsOf(Script[n].api, CcTls # "No" /\ Listed(CC))
  OBVIOUS
<1>2. b = [i \in 1..Len(names) |-> [cmd |-> names[i], call |-> n]]
  BY <1>1 DEF Appends
<1>3. names \in Seq(CommandNames) /\ Len(names) \in Nat /\ Len(names) > 0
  BY <1>1, CommandsAre, BatchOfCall
<1>4. names[1] # "PROT"
  <2>1. names \in {<<"PBSZ", "PROT">> \o <<"PASV", "STOR">>, <<>> \o <<"PASV", "STOR">>,
                   <<"PBSZ", "PROT">> \o <<"PASV", "RETR">>, <<>> \o <<"PASV", "RETR">>,
                   <<"PBSZ", "PROT">> \o <<"TYPE", "PASV", "LIST">>, <<>> \o <<"TYPE", "PASV", "LIST">>,
                   <<"PWD">>, <<"QUIT">>}
    BY <1>1 DEF CommandsOf, SetDCProtLevel, Apis
  <2>2. names \in {<<"PBSZ", "PROT", "PASV", "STOR">>, <<"PASV", "STOR">>,
                   <<"PBSZ", "PROT", "PASV", "RETR">>, <<"PASV", "RETR">>,
                   <<"PBSZ", "PROT", "TYPE", "PASV", "LIST">>, <<"TYPE", "PASV", "LIST">>,
                   <<"PWD">>, <<"QUIT">>}
    BY <2>1
  <2> QED BY <2>2
<1> QED BY <1>2, <1>3, <1>4

\* A call's batch brings its own PROT.
LEMMA LevelOfAppended ==
  ASSUME NEW q \in Seq(Command), NEW b \in Seq(Command), NEW r \in Seq(Command), NEW n \in Calls, NEW level,
         Level(q, level), Script[n].api \in Apis, Appends(n, q, b, r), Listed(CC), CcTls # "No"
  PROVE  Level(r, level)
<1>1. PICK names : names = CommandsOf(Script[n].api, CcTls # "No" /\ Listed(CC))
  OBVIOUS
<1>2. (CcTls # "No" /\ Listed(CC)) = TRUE
  OBVIOUS
<1>3. b = [i \in 1..Len(names) |-> [cmd |-> names[i], call |-> n]]
  BY <1>1 DEF Appends
<1>4. names \in Seq(CommandNames) /\ Len(names) \in Nat
  BY <1>1, CommandsAre
<1>5. Len(b) = Len(names) /\ \A i \in 1..Len(b) : b[i].cmd = names[i] /\ b[i].call = n
  BY <1>3, <1>4
<1>6. \A i \in 1..Len(b) : IsTransferCommand(b[i].cmd) =>
        2 < i /\ b[2].cmd = "PROT" /\ b[2].call = n /\ \A k \in 3..Len(b) : b[k].cmd # "PROT"
  <2>1. \A i \in 1..Len(names) : IsTransferCommand(names[i]) =>
          2 < i /\ names[2] = "PROT" /\ \A k \in 3..Len(names) : names[k] # "PROT"
    BY <1>1, <1>2, ProtectedBatch
  <2>2. \A i \in 1..Len(b) : 2 < i => 2 \in 1..Len(b)
    BY <1>4, <1>5
  <2>3. \A k \in 3..Len(b) : k \in 1..Len(b)
    BY <1>4, <1>5
  <2> QED BY <1>5, <2>1, <2>2, <2>3
<1>7. PICK m \in Nat : m = Len(q)
  OBVIOUS
<1>8. /\ Len(b) \in Nat /\ Len(r) = m + Len(b)
      /\ \A i \in 1..Len(r) : r[i] = IF i <= m THEN q[i] ELSE b[i - m]
  BY <1>7, ConcatProperties DEF Appends
<1>9. ASSUME NEW i \in 1..Len(r), IsTransferCommand(r[i].cmd)
      PROVE  \/ Asked(r, i)
             \/ level = Recorded(r[i].call) /\ \A k \in 1..(i - 1) : r[k].cmd # "PROT"
  <2>1. CASE i <= m
    <3>1. i \in 1..Len(q) /\ \A k \in 1..i : r[k] = q[k]
      BY <1>7, <1>8, <2>1
    <3>2. i \in 1..i /\ \A k \in 1..(i - 1) : k \in 1..i
      BY <1>8
    <3>3. IsTransferCommand(q[i].cmd)
      BY <1>9, <3>1, <3>2
    <3>4. CASE Asked(q, i)
      <4>1. PICK j \in 1..(i - 1) : /\ q[j].cmd = "PROT" /\ q[j].call = q[i].call
                                    /\ \A k \in (j + 1)..(i - 1) : q[k].cmd # "PROT"
        BY <3>4 DEF Asked
      <4>2. \A k \in (j + 1)..(i - 1) : k \in 1..i
        BY <1>8
      <4> QED BY <3>1, <3>2, <4>1, <4>2 DEF Asked
    <3>5. CASE level = Recorded(q[i].call) /\ \A k \in 1..(i - 1) : q[k].cmd # "PROT"
      BY <3>1, <3>2, <3>5
    <3> QED BY <3>1, <3>3, <3>4, <3>5 DEF Level
  <2>2. CASE ~(i <= m)
    <3>1. PICK p \in 1..Len(b) : p = i - m /\ r[i] = b[p]
      BY <1>8, <2>2
    <3>2. 2 < p /\ b[2].cmd = "PROT" /\ b[2].call = n /\ b[p].call = n /\ \A k \in 3..Len(b) : b[k].cmd # "PROT"
      BY <1>5, <1>6, <1>9, <3>1
    <3>3. m + 2 \in 1..(i - 1) /\ m + 2 \in 1..Len(r) /\ (m + 2) - m = 2 /\ ~(m + 2 <= m)
      BY <1>8, <3>1, <3>2
    <3>4. r[m + 2] = b[2]
      BY <1>8, <3>3
    <3>5. ASSUME NEW k \in ((m + 2) + 1)..(i - 1) PROVE r[k].cmd # "PROT"
      <4>1. k \in 1..Len(r) /\ ~(k <= m) /\ k - m \in 3..Len(b)
        BY <1>8
      <4> QED BY <1>8, <3>2, <4>1
    <3> QED BY <3>1, <3>2, <3>3, <3>4, <3>5 DEF Asked
  <2> QED BY <2>1, <2>2
<1> QED BY <1>9 DEF Level

----------------------------------------------------------------------------
(* Passes *)

\* What is not marked stays listed, and the control channel in front.
LEMMA FirstPass ==
  ASSUME NEW obs \in Seq(Devices), First(obs), DispatcherPass(obs)
  PROVE  /\ First(iObservers)' /\ (Listed(CC)' => In(obs, CC))
         /\ (CC \in removeMark' => ~Listed(CC)') /\ ((In(obs, CC) /\ CC \notin removeMark') => Listed(CC)')
<1>1. PICK M : M = removeMark'
  OBVIOUS
<1>2. PICK new : new = Sweep(obs, M)
  OBVIOUS
<1>3. iObservers' = new
  BY <1>1, <1>2 DEF DispatcherPass
<1>4. new \in Seq(Devices) =>
        (First(iObservers)' <=> First(new)) /\ (Listed(CC)' <=> In(new, CC))
  BY <1>3 DEF First, Listed, In
<1>5. CASE new = obs /\ \A i \in 1..Len(obs) : obs[i] \notin M
  <2>1. CC \in M => ~In(obs, CC)
    BY <1>5 DEF In
  <2> QED BY <1>1, <1>4, <1>5, <2>1
<1>6. ASSUME NEW p \in 1..Len(obs), obs[p] \in M, \A i \in 1..(p - 1) : obs[i] \notin M,
             new = SubSeq(obs, 1, p - 1) \o SubSeq(obs, p + 1, Len(obs))
      PROVE  /\ new \in Seq(Devices) /\ First(new) /\ (In(new, CC) => In(obs, CC))
             /\ (CC \in M => ~In(new, CC)) /\ ((In(obs, CC) /\ CC \notin M) => In(new, CC))
  <2>0. Len(obs) \in Nat /\ p \in Nat
    OBVIOUS
  <2>1. /\ new \in Seq(Devices) /\ Len(new) = Len(obs) - 1
        /\ \A i \in 1..Len(new) : new[i] = IF i < p THEN obs[i] ELSE obs[i + 1]
    BY <1>6, WithoutOne
  <2>2. ASSUME NEW i \in 1..Len(new), new[i] = CC PROVE i = 1 /\ 1 < p /\ obs[1] = CC
    <3>1. CASE i < p
      BY <2>0, <2>1, <2>2, <3>1 DEF First
    <3>2. CASE ~(i < p)
      <4>1. i + 1 \in 1..Len(obs) /\ obs[i + 1] = CC /\ i + 1 # 1
        BY <2>0, <2>1, <2>2, <3>2
      <4> QED BY <4>1 DEF First
    <3> QED BY <3>1, <3>2
  <2>3. First(new) /\ (In(new, CC) => In(obs, CC))
    <3>1. 1 < p => 1 \in 1..Len(obs)
      BY <2>0, <2>1
    <3> QED BY <2>2, <3>1 DEF First, In
  <2>4. CC \in M => ~In(new, CC)
    <3>1. 1 < p => 1 \in 1..(p - 1)
      BY <2>0, <2>1
    <3> QED BY <1>6, <2>2, <3>1 DEF In
  <2>5. (In(obs, CC) /\ CC \notin M) => In(new, CC)
    <3> SUFFICES ASSUME NEW i \in 1..Len(obs), obs[i] = CC, CC \notin M PROVE In(new, CC)
      BY DEF In
    <3>1. i = 1 /\ p # 1
      BY <1>6 DEF First
    <3>2. 1 \in 1..Len(new) /\ 1 < p
      BY <2>0, <2>1, <3>1
    <3>3. new[1] = CC
      BY <2>0, <2>1, <3>1, <3>2
    <3> QED BY <3>2, <3>3 DEF In
  <2> QED BY <2>0, <2>1, <2>3, <2>4, <2>5
<1>7. \/ new = obs /\ \A i \in 1..Len(obs) : obs[i] \notin M
      \/ \E k \in 1..Len(obs) : /\ obs[k] \in M /\ \A i \in 1..(k - 1) : obs[i] \notin M
                                /\ new = SubSeq(obs, 1, k - 1) \o SubSeq(obs, k + 1, Len(obs))
  BY <1>2, SweepIs, Zenon
<1> QED BY <1>1, <1>4, <1>5, <1>6, <1>7

\* The control channel is in its place, does not come back, and goes if marked only.
ControlStays == ControlFirst' /\ (Listed(CC)' => Listed(CC)) /\ ((Listed(CC) /\ CC \notin removeMark') => Listed(CC)')

\* The pass at the end of a handler, of the devices listed and perhaps a new one.
LEMMA AnyPass ==
  ASSUME IInv, PInv,
         DispatcherPass(iObservers) \/ \E d \in Devices \ {CC} : DispatcherPass(Append(iObservers, d))
  PROVE  ControlStays
<1>1. iObservers \in Seq(Devices) /\ First(iObservers)
  BY StaysTyped DEF PInv, ControlFirst
<1>2. CASE DispatcherPass(iObservers)
  BY <1>1, <1>2, FirstPass, ListHolds DEF ControlStays, ControlFirst
<1>3. ASSUME NEW d \in Devices \ {CC}, DispatcherPass(Append(iObservers, d)) PROVE ControlStays
  <2>1. PICK obs : obs = Append(iObservers, d)
    OBVIOUS
  <2>2. /\ obs \in Seq(Devices) /\ Len(obs) = Len(iObservers) + 1 /\ Len(iObservers) \in Nat
        /\ \A i \in 1..Len(iObservers) : obs[i] = iObservers[i]
        /\ obs[Len(iObservers) + 1] = d
        /\ In(obs, CC) <=> In(iObservers, CC)
    BY <1>1, <2>1, AppendedList
  <2>3. First(obs)
    <3>1. \A i \in 1..Len(obs) : i \in 1..Len(iObservers) \/ i = Len(iObservers) + 1
      BY <2>2
    <3> QED BY <1>1, <2>2, <3>1 DEF First
  <2> QED BY <1>1, <1>3, <2>1, <2>2, <2>3, FirstPass, ListHolds DEF ControlStays, ControlFirst
<1> QED BY <1>2, <1>3

----------------------------------------------------------------------------
(* Steps, by what they do to the queue *)

\* Nothing the level depends on changes; a call may have been made.
LEMMA IdleStep ==
  ASSUME IInv, PInv, UNCHANGED <<iCmdQ, iProtocolState, iDCProt, iObservers, removeMark>>,
         called' = called \/ called' = called + 1
  PROVE  PInv'
<1>1. \A i \in 1..Len(iCmdQ) : iCmdQ[i].call <= called'
  <2>1. ASSUME NEW n \in Calls, n <= called PROVE n <= called'
    BY <2>1, QueueTyped, ScriptAssumption DEF IInv, Typed, TransferTyped
  <2> QED BY <2>1, QueueTyped DEF PInv, QueueOK
<1>2. QueueOK'
  BY <1>1 DEF PInv, QueueOK
<1>3. ControlFirst' /\ LevelOK' /\ TransferInFront'
  BY DEF PInv, ControlFirst, LevelOK, TransferInFront, TransferAhead, Listed
<1> QED BY <1>2, <1>3 DEF PInv

\* The queue and the level stay as they are.
LEMMA KeptLevelStep ==
  ASSUME PInv, ControlStays, UNCHANGED <<iCmdQ, iDCProt, called>>,
         \/ iProtocolState' = iProtocolState /\ (CC \in removeMark' => CC \in removeMark)
         \/ iProtocolState' \notin {"1yz", "xyz"}
         \/ iProtocolState = "1yz" /\ iProtocolState' = "xyz"
  PROVE  PInv'
<1>1. QueueOK'
  BY DEF PInv, QueueOK
<1>2. LevelOK'
  BY DEF PInv, LevelOK, ControlStays
<1>3. TransferInFront'
  BY TransferIsNoProt DEF PInv, TransferInFront, TransferAhead, ControlStays, ControlFirst
<1> QED BY <1>1, <1>2, <1>3 DEF PInv, ControlStays

\* The flag is passed on to the front of another queue.
LEMMA NextLevelStep ==
  ASSUME PInv, ControlStays, UNCHANGED called,
         NEW q \in Seq(Command), Batched(q), \A i \in 1..Len(q) : q[i].call <= called,
         (Listed(CC) /\ CcTls # "No") => Level(q, iDCProt'),
         NEW state, state # "1yz", NEW w, ProcessNextCmd(q, state, w)
  PROVE  PInv'
<1>1. iCmdQ' = q /\ iProtocolState' = IF q = <<>> THEN state ELSE ClassOf(Head(q).cmd)
  BY DEF ProcessNextCmd
<1>2. QueueOK'
  BY <1>1 DEF QueueOK
<1>3. LevelOK'
  BY <1>1 DEF LevelOK, ControlStays
<1>4. TransferInFront'
  BY <1>1 DEF TransferInFront, ClassOf
<1> QED BY <1>2, <1>3, <1>4 DEF PInv, ControlStays

\* Commands are retired.
LEMMA RetireLevelStep ==
  ASSUME IInv, PInv, ControlStays, UNCHANGED called, NEW m \in {1, 2}, m <= Len(iCmdQ),
         (Listed(CC) /\ CcTls # "No") => Level(SubSeq(iCmdQ, m + 1, Len(iCmdQ)), iDCProt'),
         NEW state, state # "1yz", NEW w, SkipCommand(m, state, w)
  PROVE  PInv'
<1>1. iCmdQ \in Seq(Command) /\ Len(iCmdQ) \in Nat /\ Batched(iCmdQ) /\ \A i \in 1..Len(iCmdQ) : iCmdQ[i].call <= called
  BY QueueTyped DEF PInv, QueueOK
<1>2. PICK q : q = SubSeq(iCmdQ, m + 1, Len(iCmdQ))
  OBVIOUS
<1>3. q \in Seq(Command) /\ Len(q) = Len(iCmdQ) - m /\ \A i \in 1..Len(q) : q[i] = iCmdQ[i + m]
  BY <1>1, <1>2, SuffixIs
<1>4. Batched(q)
  BY <1>1, <1>2, SuffixBatched
<1>5. \A i \in 1..Len(q) : q[i].call <= called
  <2>1. \A i \in 1..Len(q) : i + m \in 1..Len(iCmdQ)
    BY <1>1, <1>3
  <2> QED BY <1>1, <1>3, <2>1
<1>6. ProcessNextCmd(q, state, w) /\ ((Listed(CC) /\ CcTls # "No") => Level(q, iDCProt'))
  BY <1>2 DEF SkipCommand
<1> QED BY <1>3, <1>4, <1>5, <1>6, NextLevelStep

\* Commands other than PROT are retired, and the level stays.
LEMMA RetireOthersStep ==
  ASSUME IInv, PInv, ControlStays, UNCHANGED <<called, iDCProt>>, NEW m \in {1, 2}, m <= Len(iCmdQ),
         \A j \in 1..m : iCmdQ[j].cmd # "PROT",
         NEW state, state # "1yz", NEW w, SkipCommand(m, state, w)
  PROVE  PInv'
<1>1. (Listed(CC) /\ CcTls # "No") => Level(SubSeq(iCmdQ, m + 1, Len(iCmdQ)), iDCProt')
  BY QueueTyped, LevelOfSuffix DEF PInv, LevelOK
<1> QED BY <1>1, RetireLevelStep

----------------------------------------------------------------------------
(* Replies *)

\* The front of the queue by the state that awaits a reply.
LEMMA FrontAwaits ==
  ASSUME IInv, PInv, AtReply, iProtocolState \in {"GEN", "PASV", "DATA", "1yz"}
  PROVE  /\ iCmdQ # <<>> /\ Head(iCmdQ) = Head(wire) /\ 1 <= Len(iCmdQ) /\ Head(iCmdQ) = iCmdQ[1]
         /\ iProtocolState = "PASV" => iCmdQ[1].cmd = "PASV" /\ 2 <= Len(iCmdQ) /\ IsTransferCommand(iCmdQ[2].cmd)
         /\ iProtocolState = "GEN" => Head(wire).call # 0 /\ ~prelim /\ ClassOf(Head(wire).cmd) = "GEN"
         /\ iProtocolState \in {"DATA", "1yz"} => IsTransferCommand(iCmdQ[1].cmd)
<1>1. /\ iCmdQ # <<>> /\ Head(iCmdQ) = Head(wire) /\ Head(wire).call # 0
      /\ iProtocolState = IF prelim THEN "1yz" ELSE ClassOf(Head(wire).cmd)
  BY Awaited DEF IInv, AtReply, LoginSteps
<1>2. 1 <= Len(iCmdQ) /\ 1 \in 1..Len(iCmdQ) /\ Head(iCmdQ) = iCmdQ[1] /\ Len(iCmdQ) \in Nat
  BY <1>1, QueueTyped
<1>3. iProtocolState = "1yz" => IsTransferCommand(iCmdQ[1].cmd)
  BY <1>2 DEF PInv, TransferInFront, TransferAhead
<1>4. iCmdQ[1].cmd = "PASV" => 2 <= Len(iCmdQ) /\ IsTransferCommand(iCmdQ[2].cmd)
  <2>1. 1 + 1 = 2
    OBVIOUS
  <2>2. iCmdQ[1].cmd = "PASV" => 1 < Len(iCmdQ) /\ IsTransferCommand(iCmdQ[1 + 1].cmd)
    BY <1>2 DEF PInv, QueueOK, Batched
  <2> QED BY <1>2, <2>1, <2>2
<1> QED BY <1>1, <1>2, <1>3, <1>4 DEF ClassOf

\* Replies of the login, and those no row handles.
LEMMA PlainLevel ==
  ASSUME IInv, PInv, NEW state, NEW w, Plain(state, w), UNCHANGED called,
         state = iProtocolState \/ state \notin {"1yz", "xyz"} \/ (iProtocolState = "1yz" /\ state = "xyz")
  PROVE  PInv'
<1>1. UNCHANGED <<iCmdQ, iCmdInProgress, foundEmpty, iDCProt, removeMark>> /\ iProtocolState' = state /\ DispatcherPass(iObservers)
  BY DEF Plain, transfer
<1>2. ControlStays
  BY <1>1, AnyPass
<1> QED BY <1>1, <1>2, KeptLevelStep

\* The login is over: the queue is served, or cleared.
LEMMA LoginLevel ==
  ASSUME IInv, PInv, NEW status \in BOOLEAN, NEW state, state # "1yz",
         ProcessLoginEvent(status, state, <<>>), UNCHANGED called
  PROVE  PInv'
<1>1. UNCHANGED iDCProt /\ DispatcherPass(iObservers)
  BY DEF ProcessLoginEvent, transfer
<1>2. ControlStays
  BY <1>1, AnyPass
<1>3. CASE status
  <2>1. ProcessNextCmd(iCmdQ, state, <<>>)
    BY <1>3, Zenon DEF ProcessLoginEvent
  <2>2. PICK q : q = iCmdQ
    OBVIOUS
  <2>3. /\ q \in Seq(Command) /\ Batched(q) /\ \A i \in 1..Len(q) : q[i].call <= called
        /\ (Listed(CC) /\ CcTls # "No") => Level(q, iDCProt')
    BY <1>1, <2>2, QueueTyped DEF PInv, QueueOK, LevelOK
  <2> QED BY <1>2, <2>1, <2>2, <2>3, NextLevelStep
<1>4. CASE ~status
  <2>1. PICK q : q = <<>>
    OBVIOUS
  <2>2. ProcessNextCmd(q, state, <<>>)
    BY <1>4, <2>1, Zenon DEF ProcessLoginEvent
  <2>3. q \in Seq(Command) /\ Len(q) = 0
    BY <2>1
  <2>4. Batched(q) /\ (\A i \in 1..Len(q) : q[i].call <= called) /\ Level(q, iDCProt')
    BY <2>3 DEF Batched, Level
  <2> QED BY <1>2, <2>2, <2>3, <2>4, NextLevelStep
<1> QED BY <1>3, <1>4

\* The reply to a general command; to PROT it sets the level.
LEMMA GeneralLevel ==
  ASSUME IInv, PInv, AtReply, iProtocolState = "GEN", NEW code, code = "2",
         ProcessGenCmdEvent(code, <<>>), UNCHANGED called
  PROVE  PInv'
<1>1. /\ iDCProt' = IF Head(iCmdQ).cmd = "PROT" THEN Recorded(Head(iCmdQ).call) ELSE iDCProt
      /\ SkipCommand(1, "READY", <<>>) /\ DispatcherPass(iObservers)
  BY DEF ProcessGenCmdEvent, Recorded
<1>2. ControlStays
  BY <1>1, AnyPass
<1>3. iCmdQ # <<>> /\ 1 <= Len(iCmdQ) /\ Head(iCmdQ) = iCmdQ[1] /\ iCmdQ \in Seq(Command)
  BY FrontAwaits, QueueTyped
<1>4. CASE iCmdQ[1].cmd = "PROT"
  <2>1. (Listed(CC) /\ CcTls # "No") => Level(SubSeq(iCmdQ, 1 + 1, Len(iCmdQ)), iDCProt')
    BY <1>1, <1>3, <1>4, LevelOfProt DEF PInv, LevelOK
  <2> QED BY <1>1, <1>2, <1>3, <2>1, RetireLevelStep
<1>5. CASE iCmdQ[1].cmd # "PROT"
  <2>1. iDCProt' = iDCProt /\ \A j \in 1..1 : iCmdQ[j].cmd # "PROT"
    BY <1>1, <1>3, <1>5
  <2> QED BY <1>1, <1>2, <1>3, <2>1, RetireOthersStep
<1> QED BY <1>4, <1>5

\* PASV is refused, and its transfer dropped; or accepted.
LEMMA PasvLevel ==
  ASSUME IInv, PInv, AtReply, iProtocolState = "PASV", UNCHANGED called,
         (\E state \in States \ {"1yz"} : SkipTransfer(state, <<>>)) \/ ProcessPasvResponse(<<>>)
  PROVE  PInv'
<1>1. /\ iCmdQ # <<>> /\ 1 <= Len(iCmdQ) /\ 2 <= Len(iCmdQ) /\ Head(iCmdQ).call \in Calls
      /\ \A j \in 1..2 : iCmdQ[j].cmd # "PROT"
  <2>1. iCmdQ[1].cmd # "PROT" /\ iCmdQ[2].cmd # "PROT"
    BY FrontAwaits, TransferIsNoProt
  <2>2. \A j \in 1..2 : j = 1 \/ j = 2
    OBVIOUS
  <2> QED BY <2>1, <2>2, FrontAwaits, QueueTyped
<1>2. ASSUME NEW state \in States \ {"1yz"}, SkipTransfer(state, <<>>) PROVE PInv'
  <2>1. UNCHANGED iDCProt /\ DispatcherPass(iObservers) /\ SkipCommand(2, state, <<>>) /\ state # "1yz"
    BY <1>2 DEF SkipTransfer, transfer
  <2>2. ControlStays
    BY <2>1, AnyPass
  <2> QED BY <1>1, <2>1, <2>2, RetireOthersStep
<1>3. CASE ProcessPasvResponse(<<>>)
  <2>1. UNCHANGED iDCProt /\ DispatcherPass(Append(iObservers, DC(Head(iCmdQ).call))) /\ SkipCommand(1, "DATA", <<>>)
    BY <1>3 DEF ProcessPasvResponse, OpenDataChannel
  <2>2. DC(Head(iCmdQ).call) \in Devices \ {CC}
    BY <1>1, DevicesDiffer
  <2>3. ControlStays
    BY <2>1, <2>2, AnyPass
  <2>4. \A j \in 1..1 : iCmdQ[j].cmd # "PROT"
    BY <1>1
  <2> QED BY <1>1, <2>1, <2>3, <2>4, RetireOthersStep
<1> QED BY <1>2, <1>3

\* A transfer begins.
LEMMA BeginLevel ==
  ASSUME IInv, PInv, AtReply, Listed(CC), iProtocolState = "DATA", BeginTransfer(wire), UNCHANGED called
  PROVE  PInv'
<1>1. \/ \E why : Dies(why)
      \/ /\ UNCHANGED <<iCmdQ, iCmdInProgress, foundEmpty, iDCProt, removeMark>> /\ iProtocolState' = "1yz"
         /\ \/ DispatcherPass(iObservers)
            \/ DispatcherPass(Append(iObservers, FL(Head(iCmdQ).call)))
  BY DEF BeginTransfer
<1>2. ASSUME NEW why, Dies(why) PROVE PInv'
  BY <1>2, IdleStep DEF Dies, protocol, transfer
<1>3. CASE /\ UNCHANGED <<iCmdQ, iCmdInProgress, foundEmpty, iDCProt, removeMark>> /\ iProtocolState' = "1yz"
           /\ \/ DispatcherPass(iObservers)
              \/ DispatcherPass(Append(iObservers, FL(Head(iCmdQ).call)))
  <2>1. TransferAhead /\ Head(iCmdQ).call \in Calls
    BY FrontAwaits, QueueTyped DEF TransferAhead
  <2>2. FL(Head(iCmdQ).call) \in Devices \ {CC}
    BY <2>1, DevicesDiffer
  <2>3. ControlStays
    BY <1>3, <2>2, AnyPass
  <2>4. Listed(CC)'
    BY <1>3, <2>3 DEF ControlStays, PInv, ControlFirst
  <2>5. TransferInFront'
    BY <1>3, <2>1, <2>4 DEF TransferInFront, TransferAhead
  <2>6. QueueOK' /\ LevelOK'
    BY <1>3, <2>3 DEF PInv, QueueOK, LevelOK, ControlStays
  <2> QED BY <2>3, <2>5, <2>6 DEF PInv, ControlStays
<1> QED BY <1>1, <1>2, <1>3

\* The final reply to a transfer, or the refusal of one.
LEMMA TransferEndsLevel ==
  ASSUME IInv, PInv, AtReply, iProtocolState \in {"DATA", "1yz"}, UNCHANGED called,
         (iProtocolState = "1yz" /\ CompleteTransfer(<<>>)) \/ FailTransfer(<<>>)
  PROVE  PInv'
<1>1. CASE iProtocolState = "1yz" /\ Plain("xyz", <<>>)
  BY <1>1, PlainLevel
<1>2. CASE SkipCommand(1, "xyz", <<>>) /\ DispatcherPass(iObservers) /\ UNCHANGED iDCProt
  <2>1. ControlStays
    BY <1>2, AnyPass
  <2>2. 1 <= Len(iCmdQ) /\ \A j \in 1..1 : iCmdQ[j].cmd # "PROT"
    BY FrontAwaits, TransferIsNoProt
  <2> QED BY <1>2, <2>1, <2>2, RetireOthersStep
<1>3. \/ iProtocolState = "1yz" /\ Plain("xyz", <<>>)
      \/ SkipCommand(1, "xyz", <<>>) /\ DispatcherPass(iObservers) /\ UNCHANGED iDCProt
  BY DEF CompleteTransfer, FailTransfer, ResetBoth, transfer
<1> QED BY <1>1, <1>2, <1>3

\* Every reply.
LEMMA ReplyLevel ==
  ASSUME FinalRepliesOnly, ProtAccepted, IInv, PInv, NEW code \in Codes, OnControlRead(code)
  PROVE  PInv'
<1>0. Listed(CC)
  BY DEF OnControlRead, Reading
<1>1. CASE code = "1"
  BY <1>0, <1>1, PreliminaryCases, PlainLevel, BeginLevel
<1>2. CASE code # "1"
  <2>1. AtReply /\ UNCHANGED called
    BY <1>2, FinalCases
  <2>2. CASE \/ Plain(iProtocolState, <<>>)
             \/ \E state \in States \ {"DATA", "1yz", "xyz"} : \E w : Plain(state, w)
    BY <2>1, <2>2, PlainLevel
  <2>3. CASE iProtocolState = "AUTH" /\ DoCCHandshake(<<>>)
    <3>1. /\ UNCHANGED <<iCmdQ, iCmdInProgress, foundEmpty, iDCProt, removeMark>>
          /\ DispatcherPass(iObservers) /\ iProtocolState' = "TLS"
      BY <2>3 DEF DoCCHandshake, transfer
    <3>2. ControlStays
      BY <3>1, AnyPass
    <3> QED BY <2>1, <3>1, <3>2, KeptLevelStep
  <2>4. CASE \E status \in BOOLEAN, state \in States \ {"1yz"} : ProcessLoginEvent(status, state, <<>>)
    BY <2>1, <2>4, LoginLevel
  <2>5. CASE iProtocolState = "GEN" /\ ProcessGenCmdEvent(code, <<>>)
    <3>1. Kind(Head(wire)) = "GEN"
      BY <2>1, <2>5, FrontAwaits DEF Kind
    <3>2. code = "2"
      BY <3>1 DEF OnControlRead, ProtAccepted
    <3> QED BY <2>1, <2>5, <3>2, GeneralLevel
  <2>6. CASE /\ iProtocolState = "PASV"
             /\ \/ \E state \in States \ {"1yz"} : SkipTransfer(state, <<>>)
                \/ ProcessPasvResponse(<<>>)
    BY <2>1, <2>6, PasvLevel
  <2>7. CASE \/ iProtocolState = "1yz" /\ CompleteTransfer(<<>>)
             \/ iProtocolState \in {"DATA", "1yz"} /\ FailTransfer(<<>>)
    BY <2>1, <2>7, TransferEndsLevel
  <2>8. \A step \in {"AUTH", "USER", "PASS", "ACCT"} : step \in States \ {"DATA", "1yz", "xyz"}
    BY StatesAre
  <2> QED BY <1>2, <2>2, <2>3, <2>4, <2>5, <2>6, <2>7, <2>8, FinalCases
<1> QED BY <1>1, <1>2

----------------------------------------------------------------------------
(* Calls, connections, data channels and files *)

\* A call brings its own PROT; Stop changes nothing here.
LEMMA CallLevel ==
  ASSUME IInv, PInv, ApiCall
  PROVE  PInv'
<1>1. PICK n \in Calls : n = called + 1 /\ called' = n
  BY ScriptAssumption DEF ApiCall, IInv, Typed, TransferTyped, Calls
<1>2. CASE Script[n].api = "Stop"
  BY <1>1, <1>2, IdleStep DEF ApiCall, Stop, protocol
<1>3. CASE Script[n].api # "Stop"
  <2>1. Enqueue(n) /\ UNCHANGED <<iDCProt, iObservers, removeMark>> /\ Script[n].api \in Apis
    BY <1>1, <1>3, ScriptFields DEF ApiCall, transfer
  <2>2. PICK q \in Seq(Command), b \in Seq(Command), r \in Seq(Command) :
          /\ Appends(n, q, b, r) /\ iCmdQ' = r
          /\ IF iCmdInProgress THEN UNCHANGED <<iCmdInProgress, foundEmpty, iProtocolState, wire>>
             ELSE iProtocolState' = ClassOf(Head(r).cmd)
    BY <1>1, <2>1, CallAppends DEF PInv
  <2>3. /\ q = iCmdQ /\ Batched(r) /\ r # <<>> /\ \A i \in 1..Len(r) : r[i].call <= n
        /\ Head(r) = IF q = <<>> THEN b[1] ELSE Head(q)
    BY <2>2 DEF Appends
  <2>4. QueueOK'
    BY <1>1, <2>2, <2>3 DEF QueueOK
  <2>5. LevelOK'
    <3>1. (Listed(CC) /\ CcTls # "No") => Level(r, iDCProt)
      BY <2>1, <2>2, <2>3, LevelOfAppended DEF PInv, LevelOK
    <3>2. Listed(CC)' = Listed(CC)
      BY <2>1 DEF Listed
    <3> QED BY <2>1, <2>2, <3>1, <3>2 DEF LevelOK
  <2>6. TransferInFront'
    <3>1. CASE iCmdInProgress
      <4>1. UNCHANGED iProtocolState /\ Listed(CC)' = Listed(CC)
        BY <2>1, <2>2, <3>1 DEF Listed
      <4>2. TransferAhead => TransferAhead'
        BY <2>2, <2>3 DEF TransferAhead
      <4>3. b[1].cmd # "PROT"
        BY <2>1, <2>2, BatchBegins
      <4> QED BY <2>2, <2>3, <4>1, <4>2, <4>3 DEF PInv, TransferInFront
    <3>2. CASE ~iCmdInProgress
      BY <2>2, <3>2 DEF ClassOf, TransferInFront
    <3> QED BY <3>1, <3>2
  <2>7. ControlFirst'
    BY <2>1 DEF PInv, ControlFirst, Listed
  <2> QED BY <2>4, <2>5, <2>6, <2>7 DEF PInv
<1> QED BY <1>2, <1>3

\* A handler that does not survive.
LEMMA DyingLevel ==
  ASSUME IInv, PInv, NEW why, Dies(why), UNCHANGED called
  PROVE  PInv'
BY IdleStep DEF Dies, protocol, transfer

\* A handler that leaves the protocol and the level alone, and marks no more than devices of transfers.
LEMMA SilentLevel ==
  ASSUME IInv, PInv, UNCHANGED <<protocol, iDCProt, called>>, DispatcherPass(iObservers),
         CC \in removeMark' => CC \in removeMark
  PROVE  PInv'
<1>1. ControlStays
  BY AnyPass
<1> QED BY <1>1, KeptLevelStep DEF protocol

\* The control channel connects, ends its handshake, is lost.
LEMMA ControlLevel ==
  ASSUME IInv, PInv, ControlConnect \/ ControlHandshake \/ ControlEof
  PROVE  PInv'
<1>1. CASE ControlConnect \/ ControlHandshake
  <2>1. /\ UNCHANGED <<iCmdQ, iCmdInProgress, foundEmpty, iDCProt, called, removeMark>> /\ DispatcherPass(iObservers)
        /\ iProtocolState' \in {iProtocolState, "CONNECTED", "USER"}
    BY <1>1 DEF ControlConnect, ControlHandshake, transfer
  <2>2. ControlStays
    BY <2>1, AnyPass
  <2> QED BY <2>1, <2>2, KeptLevelStep
<1>2. CASE ControlEof /\ SentShutdown(CC)
  <2>1. /\ UNCHANGED <<iCmdQ, iCmdInProgress, foundEmpty, iDCProt, called>> /\ DispatcherPass(iObservers)
        /\ iProtocolState' = "DISCONNECTED"
    BY <1>2 DEF ControlEof, transfer
  <2>2. ControlStays
    BY <2>1, AnyPass
  <2> QED BY <2>1, <2>2, KeptLevelStep
<1>3. CASE ControlEof /\ ~SentShutdown(CC)
  BY <1>3, DyingLevel DEF ControlEof
<1> QED BY <1>1, <1>2, <1>3

\* Completions that leave the queue as it is.
LEMMA QuietLevel ==
  ASSUME IInv, PInv,
         \/ OtherCompletion \/ \E d \in Devices : CloseNotify(d)
         \/ \E n \in Calls : DcConnect(n) \/ DcHandshake(n) \/ DcRead(n) \/ DcWrite(n) \/ FileRead(n) \/ FileEof(n)
  PROVE  PInv'
<1>1. CASE OtherCompletion \/ \E d \in Devices : CloseNotify(d)
  BY <1>1, SilentLevel DEF OtherCompletion, CloseNotify, transfer
<1>2. ASSUME NEW n \in Calls, DcConnect(n) \/ DcWrite(n) PROVE PInv'
  <2>1. /\ UNCHANGED called
        /\ \/ \E why : Dies(why)
           \/ UNCHANGED <<protocol, transfer, removeMark>> /\ DispatcherPass(iObservers)
    BY <1>2, Zenon DEF DcConnect, DcWrite
  <2> QED BY <2>1, DyingLevel, SilentLevel DEF transfer
<1>3. ASSUME NEW n \in Calls, DcHandshake(n) PROVE PInv'
  <2>1. /\ UNCHANGED called
        /\ \/ \E why : Dies(why)
           \/ UNCHANGED <<protocol, transfer, removeMark>> /\ DispatcherPass(iObservers)
    BY <1>3, Zenon DEF DcHandshake
  <2> QED BY <2>1, DyingLevel, SilentLevel DEF transfer
<1>4. ASSUME NEW n \in Calls, DcRead(n) PROVE PInv'
  <2>1. /\ UNCHANGED called
        /\ \/ \E why : Dies(why)
           \/ UNCHANGED <<protocol, iDCProt, removeMark>> /\ DispatcherPass(iObservers)
    BY <1>4 DEF DcRead, transfer
  <2> QED BY <2>1, DyingLevel, SilentLevel
<1>5. ASSUME NEW n \in Calls, FileRead(n) PROVE PInv'
  <2>1. /\ UNCHANGED called
        /\ \/ \E why : Dies(why)
           \/ UNCHANGED <<protocol, iDCProt, removeMark>> /\ DispatcherPass(iObservers)
    BY <1>5 DEF FileRead, SendChunk, transfer
  <2> QED BY <2>1, DyingLevel, SilentLevel
<1>6. ASSUME NEW n \in Calls, FileEof(n) PROVE PInv'
  <2>1. /\ UNCHANGED called
        /\ \/ \E why : Dies(why)
           \/ UNCHANGED <<protocol, iDCProt>> /\ removeMark' = removeMark \cup {FL(n)} /\ DispatcherPass(iObservers)
    BY <1>6 DEF FileEof, transfer
  <2>2. CC # FL(n)
    BY DevicesDiffer
  <2> QED BY <2>1, <2>2, DyingLevel, SilentLevel
<1> QED BY <1>1, <1>2, <1>3, <1>4, <1>5, <1>6

\* The end of a data channel; after its final reply the transfer is retired.
LEMMA DcEofLevel == \A n \in Calls : IInv /\ PInv /\ DcEof(n) => PInv'
<1> SUFFICES ASSUME NEW n \in Calls, IInv, PInv, DcEof(n) PROVE PInv'
  OBVIOUS
<1>1. CASE ~SentShutdown(DC(n)) \/ iCmdQ = <<>>
  BY <1>1, DyingLevel DEF DcEof
<1>2. CASE SentShutdown(DC(n)) /\ iCmdQ # <<>>
  <2>1. /\ UNCHANGED <<called, iDCProt>> /\ DispatcherPass(iObservers)
        /\ removeMark' = removeMark \cup HeldDevices \cup {DC(n)}
        /\ IF FinalReplySeen THEN SkipCommand(1, "xyz", wire) ELSE UNCHANGED protocol
    BY <1>2 DEF DcEof, ResetBoth
  <2>2. CC \notin HeldDevices /\ CC # DC(n)
    BY DevicesDiffer DEF HeldDevices
  <2>3. CASE FinalReplySeen
    <3>1. ControlStays
      BY <2>1, AnyPass
    <3>2. iCmdQ[1].cmd # "PROT" /\ 1 <= Len(iCmdQ)
      BY <1>2, <2>3, QueueTyped DEF PInv, TransferInFront, FinalReplySeen
    <3>3. \A j \in 1..1 : iCmdQ[j].cmd # "PROT"
      BY <3>2
    <3> QED BY <2>1, <2>3, <3>1, <3>2, <3>3, RetireOthersStep
  <2>4. CASE ~FinalReplySeen
    BY <2>1, <2>2, <2>4, SilentLevel
  <2> QED BY <2>3, <2>4
<1> QED BY <1>1, <1>2

----------------------------------------------------------------------------
(* The theorems *)

\* Nothing is queued, and only the control channel is listed.
LEMMA InitPInv == Init => PInv
<1> SUFFICES ASSUME Init PROVE PInv
  OBVIOUS
<1>1. PICK q : q = iCmdQ
  OBVIOUS
<1>2. Len(q) = 0
  BY <1>1 DEF Init
<1>3. QueueOK /\ LevelOK
  BY <1>1, <1>2 DEF QueueOK, Batched, LevelOK, Level
<1>4. ControlFirst
  <2>1. PICK obs : obs = iObservers
    OBVIOUS
  <2>2. Len(obs) = 1 /\ removeMark = {}
    BY <2>1 DEF Init
  <2> QED BY <2>1, <2>2 DEF ControlFirst, First
<1>5. TransferInFront
  BY DEF Init, TransferInFront
<1> QED BY <1>3, <1>4, <1>5 DEF PInv

\* Every step keeps PInv.
LEMMA NextPInv ==
  ASSUME FinalRepliesOnly, ProtAccepted, IInv, PInv, [Next]_vars
  PROVE  PInv'
<1>1. CASE UNCHANGED vars
  BY <1>1, IdleStep DEF vars, protocol, transfer
<1>2. CASE StartClient \/ GiveUp
  BY <1>2, IdleStep DEF StartClient, GiveUp, protocol, transfer
<1>3. CASE ApiCall
  BY <1>3, CallLevel
<1>4. CASE ControlConnect \/ ControlHandshake \/ ControlEof
  BY <1>4, ControlLevel
<1>5. ASSUME NEW code \in Codes, OnControlRead(code) PROVE PInv'
  BY <1>5, ReplyLevel
<1>6. CASE OtherCompletion \/ \E d \in Devices : CloseNotify(d)
  BY <1>6, QuietLevel
<1>7. ASSUME NEW n \in Calls, \/ DcConnect(n) \/ DcHandshake(n) \/ DcRead(n) \/ DcWrite(n) \/ DcEof(n)
                               \/ FileRead(n) \/ FileEof(n)
      PROVE  PInv'
  BY <1>7, QuietLevel, DcEofLevel
<1> QED BY <1>1, <1>2, <1>3, <1>4, <1>5, <1>6, <1>7 DEF Next, Completion

\* A transfer that asked to be protected is protected while it runs.
ProtectedIfAsked ==
  (Alive /\ iProtocolState = "1yz" /\ CcTls # "No" /\ Script[Head(iCmdQ).call].prot = "Protected")
    => iDCProt = "Protected"

\* The level of the transfer at the front is the one recorded for its call.
LEMMA PInvImplies ==
  IInv /\ PInv => ProtectedIfAsked /\ (LiteralsPooled => AsksItsProtection)
<1> SUFFICES ASSUME IInv, PInv, iProtocolState = "1yz", CcTls # "No"
             PROVE  /\ Script[Head(iCmdQ).call].prot = "Protected" => iDCProt = "Protected"
                    /\ LiteralsPooled => iDCProt = Script[Head(iCmdQ).call].prot
  BY DEF AsksItsProtection, ProtectedIfAsked
<1>1. /\ Listed(CC) /\ 1 \in 1..Len(iCmdQ) /\ Head(iCmdQ) = iCmdQ[1] /\ IsTransferCommand(iCmdQ[1].cmd)
      /\ Head(iCmdQ).call \in Calls
  BY QueueTyped DEF PInv, TransferInFront, TransferAhead
<1>2. ~Asked(iCmdQ, 1)
  <2>1. ~\E j \in 1..(1 - 1) : TRUE
    OBVIOUS
  <2> QED BY <2>1 DEF Asked
<1>3. iDCProt = Recorded(Head(iCmdQ).call)
  BY <1>1, <1>2 DEF PInv, LevelOK, Level
<1> QED BY <1>1, <1>3, ScriptFields DEF Recorded

\* PInv holds in every state.
THEOREM LevelInvariance ==
  ASSUME FinalRepliesOnly, ProtAccepted
  PROVE  Spec => [](IInv /\ PInv)
<1>1. Init => PInv
  BY InitPInv
<1>2. IInv /\ PInv /\ [Next]_vars => PInv'
  BY NextPInv
<1>3. Spec => []IInv
  BY Invariance
<1> QED BY <1>1, <1>2, <1>3, PTL DEF Spec

\* In a build that pools literals a transfer runs at the level its call asked for,
\* whatever the calls before and behind it asked for, and whatever Stop, losses
\* and refusals do.
THEOREM GranularProtection ==
  ASSUME FinalRepliesOnly, ProtAccepted, LiteralsPooled
  PROVE  Spec => []AsksItsProtection
<1>1. IInv /\ PInv => AsksItsProtection
  BY PInvImplies
<1> QED BY <1>1, LevelInvariance, PTL

\* In every build the data of a transfer that asked for it is protected: the
\* comparison of two literals can only err on the other side.
THEOREM ProtectionIsKept ==
  ASSUME FinalRepliesOnly, ProtAccepted
  PROVE  Spec => []ProtectedIfAsked
<1>1. IInv /\ PInv => ProtectedIfAsked
  BY PInvImplies
<1> QED BY <1>1, LevelInvariance, PTL
=============================================================================
