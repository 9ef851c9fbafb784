------------------------- MODULE FtpTransferProofs -------------------------
(***************************************************************************)
(* The transfers of FtpSession, for every script without Stop, every TLS   *)
(* mode and every server and network whose data comes after the reply that *)
(* announces it: uploads may be cut short, channels be lost or closed      *)
(* abruptly, replies be late, refusals of any kind.  The data channel and  *)
(* the file belong to the transfer at the front of iCmdQ, and the          *)
(* dispatcher is rid of a data channel as soon as the protocol is.         *)
(***************************************************************************)
EXTENDS FtpSessionProofs

\* The application does not call Stop, and no completion of a data channel is
\* handled before the preliminary reply to its transfer.
NoStop == \A n \in Calls : Script[n].api # "Stop"
DataAfterReply == "earlyData" \notin ServerMay

----------------------------------------------------------------------------
(* The inductive invariant *)

\* Every PASV directly before its transfer, one pair per call; the PASV of a
\* transfer at the front has been retired.
Batched(q) ==
  /\ \A i \in 1..Len(q) : q[i].cmd = "PASV" =>
       i < Len(q) /\ IsTransferCommand(q[i + 1].cmd) /\ q[i + 1].call = q[i].call
  /\ \A i \in 2..Len(q) : IsTransferCommand(q[i].cmd) => q[i - 1].cmd = "PASV"
  /\ \A i, j \in 1..Len(q) :
       (i < j /\ q[j].cmd = "PASV" /\ (q[i].cmd = "PASV" \/ IsTransferCommand(q[i].cmd))) => q[i].call # q[j].call

QueueOK == Batched(iCmdQ) /\ \A i \in 1..Len(iCmdQ) : iCmdQ[i].call <= called

\* No device of transfer k, or no file of it, has been used so far.
FileUnused(k) == ~Listed(FL(k)) /\ FL(k) \notin removeMark /\ iFileDevice # k
Untouched(k)  == ~Listed(DC(k)) /\ DC(k) \notin removeMark /\ iDataChannel # k /\ FileUnused(k)

ToComeOK ==
  /\ \A i \in 1..Len(iCmdQ) : iCmdQ[i].cmd = "PASV" => Untouched(iCmdQ[i].call)
  /\ (iProtocolState = "DATA" /\ iCmdQ # <<>>) => FileUnused(Head(iCmdQ).call)
  /\ \A k \in Calls : k > called => Untouched(k)

TransferStates == {"DATA", "1yz", "xyz", "DISCONNECTED"}

\* Who holds what: the file goes with the channel, the channel with the front.
FrontOK ==
  /\ iFileDevice \in {0, iDataChannel}
  /\ iDataChannel # 0 => iCmdQ # <<>> /\ IsTransferCommand(Head(iCmdQ).cmd) /\ Head(iCmdQ).call = iDataChannel
  /\ (iCmdQ # <<>> /\ IsTransferCommand(Head(iCmdQ).cmd)) =>
       iCmdInProgress /\ ~foundEmpty /\ iProtocolState \in TransferStates
  /\ iProtocolState = "1yz" => iCmdQ # <<>> /\ IsTransferCommand(Head(iCmdQ).cmd)
  /\ (iProtocolState = "DATA" /\ wire # <<>>) => iDataChannel = Head(iCmdQ).call

\* The control channel is listed first, each data channel before its file.
InOrder(obs) ==
  /\ \A i, j \in 1..Len(obs) : obs[i] = obs[j] => i = j
  /\ \A i \in 1..Len(obs) : obs[i] = CC => i = 1
  /\ \A k \in Calls : \A i, j \in 1..Len(obs) : (obs[i] = DC(k) /\ obs[j] = FL(k)) => i < j

\* One pass is enough: a marked device that is still listed is the file of the
\* last transfer, and the only one.
PendingOK ==
  /\ \A d \in removeMark : Listed(d) => iDataChannel = 0 /\ \E k \in Calls : d = FL(k)
  /\ \A d, e \in removeMark : (Listed(d) /\ Listed(e)) => d = e

\* The only data channel that is listed is the one the protocol holds.
OnlyHeld == \A k \in Calls : Listed(DC(k)) => iDataChannel = k

ListOK == InOrder(iObservers) /\ PendingOK /\ OnlyHeld

TInv == QueueOK /\ ToComeOK /\ FrontOK /\ ListOK

----------------------------------------------------------------------------
(* Queues *)

\* A PASV is no transfer command.
LEMMA PasvIsNoTransfer == ~IsTransferCommand("PASV") /\ \A c : IsTransferCommand(c) <=> ClassOf(c) = "DATA"
BY DEF IsTransferCommand, TransferCommands, ClassOf

\* What retiring m commands leaves.
LEMMA SuffixIs ==
  ASSUME NEW q \in Seq(Command), NEW m \in {1, 2}, m <= Len(q)
  PROVE  LET r == SubSeq(q, m + 1, Len(q))
         IN /\ r \in Seq(Command) /\ Len(r) = Len(q) - m /\ \A i \in 1..Len(r) : r[i] = q[i + m]
            /\ r # <<>> => 1 \in 1..Len(r) /\ Head(r) = q[1 + m]
<1> DEFINE r == SubSeq(q, m + 1, Len(q))
<1>1. Len(q) \in Nat /\ m \in Nat /\ \A i \in (m + 1)..Len(q) : q[i] \in Command
  OBVIOUS
<1>2. /\ r \in Seq(Command) /\ Len(r) = Len(q) - m
      /\ \A i \in 1..(Len(q) - m) : r[i] = q[i + m]
  BY <1>1, SubSeqProperties
<1> HIDE DEF r
<1>3. r # <<>> => 1 \in 1..Len(r) /\ Head(r) = r[1]
  BY <1>2
<1>4. r # <<>> => Head(r) = q[1 + m]
  BY <1>2, <1>3
<1> QED BY <1>2, <1>3, <1>4 DEF r

\* The suffix of a batched queue is batched.
LEMMA SuffixBatched ==
  ASSUME NEW q \in Seq(Command), NEW m \in {1, 2}, m <= Len(q), Batched(q)
  PROVE  Batched(SubSeq(q, m + 1, Len(q)))
<1> DEFINE s == SubSeq(q, m + 1, Len(q))
<1>1. PICK r : r = s
  OBVIOUS
<1>2. Len(q) \in Nat /\ Len(r) = Len(q) - m /\ \A i \in 1..Len(r) : r[i] = q[i + m]
  BY <1>1, SuffixIs
<1> HIDE DEF s
<1>3. \A i \in 1..Len(r) : i + m \in 1..Len(q)
  BY <1>2
<1>4. ASSUME NEW i \in 1..Len(r), r[i].cmd = "PASV"
      PROVE  i < Len(r) /\ IsTransferCommand(r[i + 1].cmd) /\ r[i + 1].call = r[i].call
  <2>1. i + m < Len(q) /\ IsTransferCommand(q[(i + m) + 1].cmd) /\ q[(i + m) + 1].call = q[i + m].call
    BY <1>2, <1>3, <1>4 DEF Batched
  <2>2. i < Len(r) /\ i + 1 \in 1..Len(r) /\ (i + 1) + m = (i + m) + 1
    BY <1>2, <2>1
  <2> QED BY <1>2, <2>1, <2>2
<1>5. ASSUME NEW i \in 2..Len(r), IsTransferCommand(r[i].cmd) PROVE r[i - 1].cmd = "PASV"
  <2>1. i + m \in 2..Len(q) /\ i \in 1..Len(r) /\ i - 1 \in 1..Len(r) /\ (i - 1) + m = (i + m) - 1
    BY <1>2
  <2>2. r[i] = q[i + m] /\ r[i - 1] = q[(i + m) - 1]
    BY <1>2, <2>1
  <2> QED BY <1>5, <2>1, <2>2 DEF Batched
<1>6. ASSUME NEW i \in 1..Len(r), NEW j \in 1..Len(r), i < j, r[j].cmd = "PASV",
             r[i].cmd = "PASV" \/ IsTransferCommand(r[i].cmd)
      PROVE  r[i].call # r[j].call
  <2>1. PICK a \in 1..Len(q), c \in 1..Len(q) : a = i + m /\ c = j + m /\ a < c
    BY <1>2, <1>3, <1>6
  <2>2. r[i] = q[a] /\ r[j] = q[c]
    BY <1>2, <2>1
  <2> QED BY <1>6, <2>1, <2>2 DEF Batched
<1> QED BY <1>1, <1>4, <1>5, <1>6 DEF Batched, s

\* The commands of a call: every batch is a well-formed queue of its own.
LEMMA BatchOfCall ==
  ASSUME NEW api \in Apis, NEW tls
  PROVE  LET names == CommandsOf(api, tls)
         IN /\ Len(names) \in Nat /\ Len(names) > 0
            /\ ~IsTransferCommand(names[1])
            /\ \A i \in 1..Len(names) : names[i] = "PASV" => i < Len(names) /\ IsTransferCommand(names[i + 1])
            /\ \A i \in 2..Len(names) : IsTransferCommand(names[i]) => names[i - 1] = "PASV"
            /\ \A i, j \in 1..Len(names) :
                 (i < j /\ names[j] = "PASV") => names[i] # "PASV" /\ ~IsTransferCommand(names[i])
<1> DEFINE Fits(names) ==
             /\ Len(names) \in Nat /\ Len(names) > 0
             /\ ~IsTransferCommand(names[1])
             /\ \A i \in 1..Len(names) : names[i] = "PASV" => i < Len(names) /\ IsTransferCommand(names[i + 1])
             /\ \A i \in 2..Len(names) : IsTransferCommand(names[i]) => names[i - 1] = "PASV"
             /\ \A i, j \in 1..Len(names) :
                  (i < j /\ names[j] = "PASV") => names[i] # "PASV" /\ ~IsTransferCommand(names[i])
<1>1. CommandsOf(api, tls) \in {<<"PBSZ", "PROT">> \o <<"PASV", "STOR">>, <<>> \o <<"PASV", "STOR">>,
                                <<"PBSZ", "PROT">> \o <<"PASV", "RETR">>, <<>> \o <<"PASV", "RETR">>,
                                <<"PBSZ", "PROT">> \o <<"TYPE", "PASV", "LIST">>, <<>> \o <<"TYPE", "PASV", "LIST">>,
                                <<"PWD">>, <<"QUIT">>}
  BY DEF CommandsOf, SetDCProtLevel, Apis
<1>2. CommandsOf(api, tls) \in {<<"PBSZ", "PROT", "PASV", "STOR">>, <<"PASV", "STOR">>,
                                <<"PBSZ", "PROT", "PASV", "RETR">>, <<"PASV", "RETR">>,
                                <<"PBSZ", "PROT", "TYPE", "PASV", "LIST">>, <<"TYPE", "PASV", "LIST">>,
                                <<"PWD">>, <<"QUIT">>}
  BY <1>1
<1>3. Fits(<<"PBSZ", "PROT", "PASV", "STOR">>) /\ Fits(<<"PBSZ", "PROT", "PASV", "RETR">>)
  BY DEF IsTransferCommand, TransferCommands
<1>4. Fits(<<"PASV", "STOR">>) /\ Fits(<<"PASV", "RETR">>)
  BY DEF IsTransferCommand, TransferCommands
<1>5. Fits(<<"PBSZ", "PROT", "TYPE", "PASV", "LIST">>) /\ Fits(<<"TYPE", "PASV", "LIST">>)
  BY DEF IsTransferCommand, TransferCommands
<1>6. Fits(<<"PWD">>) /\ Fits(<<"QUIT">>)
  BY DEF IsTransferCommand, TransferCommands
<1> HIDE DEF Fits
<1>7. Fits(CommandsOf(api, tls))
  BY <1>2, <1>3, <1>4, <1>5, <1>6
<1> QED BY <1>7 DEF Fits

\* A batch behind a queue of earlier calls.
LEMMA QueueWithBatch ==
  ASSUME NEW q \in Seq(Command), NEW b \in Seq(Command), NEW n \in Nat,
         Batched(q), Batched(b), b # <<>>, ~IsTransferCommand(Head(b).cmd),
         \A i \in 1..Len(q) : q[i].call < n, \A i \in 1..Len(b) : b[i].call = n
  PROVE  /\ q \o b \in Seq(Command) /\ Batched(q \o b) /\ q \o b # <<>>
         /\ \A i \in 1..Len(q \o b) :
              \/ i \in 1..Len(q) /\ (q \o b)[i] = q[i]
              \/ i - Len(q) \in 1..Len(b) /\ (q \o b)[i] = b[i - Len(q)]
         /\ Head(q \o b) = IF q = <<>> THEN Head(b) ELSE Head(q)
<1>1. PICK r : r = q \o b
  OBVIOUS
<1> DEFINE m == Len(q)
<1>2. /\ Len(q) \in Nat /\ Len(b) \in Nat /\ Len(r) = m + Len(b) /\ Len(b) > 0 /\ Head(b) = b[1]
      /\ r \in Seq(Command) /\ \A i \in 1..Len(r) : r[i] = IF i <= m THEN q[i] ELSE b[i - m]
      /\ r # <<>> /\ Head(r) = IF q = <<>> THEN Head(b) ELSE Head(q)
  BY <1>1, ConcatProperties
<1>3. \A i \in 1..Len(r) : (i \in 1..m /\ r[i] = q[i]) \/ (i - m \in 1..Len(b) /\ r[i] = b[i - m])
  BY <1>2
<1>4. ASSUME NEW i \in 1..Len(r), r[i].cmd = "PASV"
      PROVE  i < Len(r) /\ IsTransferCommand(r[i + 1].cmd) /\ r[i + 1].call = r[i].call
  <2>1. CASE i <= m
    <3>1. i \in 1..m /\ r[i] = q[i]
      BY <1>2, <2>1
    <3>2. i < m /\ IsTransferCommand(q[i + 1].cmd) /\ q[i + 1].call = q[i].call
      BY <1>4, <3>1 DEF Batched
    <3>3. i < Len(r) /\ i + 1 \in 1..Len(r) /\ i + 1 <= m
      BY <1>2, <3>1, <3>2
    <3> QED BY <1>2, <3>1, <3>2, <3>3
  <2>2. CASE ~(i <= m)
    <3>1. PICK k \in 1..Len(b) : k = i - m /\ r[i] = b[k]
      BY <1>2, <2>2
    <3>2. k < Len(b) /\ IsTransferCommand(b[k + 1].cmd) /\ b[k + 1].call = b[k].call
      BY <1>4, <3>1 DEF Batched
    <3>3. i < Len(r) /\ i + 1 \in 1..Len(r) /\ ~(i + 1 <= m) /\ (i + 1) - m = k + 1
      <4>1. i \in Nat /\ m \in Nat /\ k \in Nat /\ Len(b) \in Nat /\ Len(r) = m + Len(b) /\ k = i - m /\ k < Len(b)
        BY <1>2, <3>1, <3>2
      <4> HIDE DEF m
      <4> QED BY <2>2, <4>1
    <3> QED BY <1>2, <3>1, <3>2, <3>3
  <2> QED BY <2>1, <2>2
<1>5. ASSUME NEW i \in 2..Len(r), IsTransferCommand(r[i].cmd) PROVE r[i - 1].cmd = "PASV"
  <2>1. i \in 1..Len(r) /\ i - 1 \in 1..Len(r)
    BY <1>2
  <2>2. CASE i <= m
    <3>1. i \in 2..m /\ r[i] = q[i] /\ r[i - 1] = q[i - 1]
      BY <1>2, <2>1, <2>2
    <3> QED BY <1>5, <3>1 DEF Batched
  <2>3. CASE i = m + 1
    <3>1. r[i] = b[1]
      BY <1>2, <2>1, <2>3
    <3> QED BY <1>2, <1>5, <3>1
  <2>4. CASE i > m + 1
    <3>1. PICK k \in 2..Len(b) : k = i - m
      BY <1>2, <2>1, <2>4
    <3>2. r[i] = b[k] /\ r[i - 1] = b[k - 1]
      <4>1. ~(i <= m) /\ ~(i - 1 <= m) /\ (i - 1) - m = k - 1
        BY <1>2, <2>4, <3>1
      <4> QED BY <1>2, <2>1, <3>1, <4>1
    <3> QED BY <1>5, <3>2 DEF Batched
  <2> QED BY <1>2, <2>1, <2>2, <2>3, <2>4
<1>6. ASSUME NEW i \in 1..Len(r), NEW j \in 1..Len(r), i < j, r[j].cmd = "PASV",
             r[i].cmd = "PASV" \/ IsTransferCommand(r[i].cmd)
      PROVE  r[i].call # r[j].call
  <2>1. CASE j <= m
    <3>1. i \in 1..m /\ j \in 1..m /\ r[i] = q[i] /\ r[j] = q[j]
      BY <1>2, <1>6, <2>1
    <3> QED BY <1>6, <3>1 DEF Batched
  <2>2. CASE i <= m /\ ~(j <= m)
    <3>1. i \in 1..m /\ j - m \in 1..Len(b) /\ r[i] = q[i] /\ r[j] = b[j - m]
      BY <1>2, <2>2
    <3>2. q[i].call < n /\ b[j - m].call = n
      BY <3>1
    <3> QED BY <3>1, <3>2
  <2>3. CASE ~(i <= m)
    <3>1. PICK x \in 1..Len(b), y \in 1..Len(b) : x = i - m /\ y = j - m /\ x < y
      <4>1. i \in 1..Len(r) /\ j \in 1..Len(r) /\ m \in Nat /\ Len(b) \in Nat /\ Len(r) = m + Len(b)
        BY <1>2
      <4> HIDE DEF m
      <4> QED BY <1>6, <2>3, <4>1
    <3>2. r[i] = b[x] /\ r[j] = b[y]
      BY <1>2, <1>6, <2>3, <3>1
    <3>3. b[y].cmd = "PASV" /\ (b[x].cmd = "PASV" \/ IsTransferCommand(b[x].cmd))
      BY <1>6, <3>2
    <3>4. b[x].call # b[y].call
      BY <3>1, <3>3 DEF Batched
    <3> QED BY <3>2, <3>4
  <2> QED BY <1>2, <1>6, <2>1, <2>2, <2>3
<1>7. Batched(r)
  BY <1>4, <1>5, <1>6 DEF Batched
<1> QED BY <1>1, <1>2, <1>3, <1>7

----------------------------------------------------------------------------
(* Passes of the dispatcher *)

\* A list without its k-th device.
LEMMA WithoutOne ==
  ASSUME NEW obs \in Seq(Devices), NEW k \in 1..Len(obs)
  PROVE  LET new == SubSeq(obs, 1, k - 1) \o SubSeq(obs, k + 1, Len(obs))
         IN /\ new \in Seq(Devices) /\ Len(new) = Len(obs) - 1
            /\ \A i \in 1..Len(new) : new[i] = IF i < k THEN obs[i] ELSE obs[i + 1]
<1>1. Len(obs) \in Nat /\ k \in Nat /\ \A i \in 1..Len(obs) : obs[i] \in Devices
  OBVIOUS
<1>2. PICK a : a = SubSeq(obs, 1, k - 1)
  OBVIOUS
<1>3. PICK b : b = SubSeq(obs, k + 1, Len(obs))
  OBVIOUS
<1>4. a \in Seq(Devices) /\ Len(a) = k - 1 /\ \A i \in 1..(k - 1) : a[i] = obs[i]
  BY <1>1, <1>2, SubSeqProperties
<1>5. b \in Seq(Devices) /\ Len(b) = Len(obs) - k /\ \A i \in 1..(Len(obs) - k) : b[i] = obs[k + i]
  <2>1. \A i \in (k + 1)..Len(obs) : obs[i] \in Devices
    BY <1>1
  <2>2. /\ b \in Seq(Devices)
        /\ Len(b) = IF k + 1 <= Len(obs) THEN Len(obs) - (k + 1) + 1 ELSE 0
        /\ \A i \in 1..(Len(obs) - (k + 1) + 1) : b[i] = obs[(k + 1) + i - 1]
    BY <1>1, <1>3, <2>1, SubSeqProperties
  <2>3. Len(b) = Len(obs) - k
    BY <1>1, <2>2
  <2>4. ASSUME NEW i \in 1..(Len(obs) - k) PROVE b[i] = obs[k + i]
    <3>1. i \in 1..(Len(obs) - (k + 1) + 1) /\ (k + 1) + i - 1 = k + i
      BY <1>1
    <3> QED BY <2>2, <3>1
  <2> QED BY <2>2, <2>3, <2>4
<1>6. PICK new : new = a \o b
  OBVIOUS
<1>7. /\ new \in Seq(Devices) /\ Len(new) = Len(obs) - 1
      /\ \A i \in 1..Len(new) : new[i] = IF i < k THEN obs[i] ELSE obs[i + 1]
  <2>1. /\ new \in Seq(Devices) /\ Len(new) = Len(a) + Len(b)
        /\ \A i \in 1..(Len(a) + Len(b)) : new[i] = IF i <= Len(a) THEN a[i] ELSE b[i - Len(a)]
    BY <1>4, <1>5, <1>6, ConcatProperties
  <2>2. ASSUME NEW i \in 1..Len(new), i < k PROVE new[i] = obs[i]
    BY <1>1, <1>4, <1>5, <2>1, <2>2
  <2>3. ASSUME NEW i \in 1..Len(new), ~(i < k) PROVE new[i] = obs[i + 1]
    <3>1. i - (k - 1) \in 1..(Len(obs) - k) /\ k + (i - (k - 1)) = i + 1
      BY <1>1, <1>4, <1>5, <2>1, <2>3
    <3> QED BY <1>1, <1>4, <1>5, <2>1, <2>3, <3>1
  <2> QED BY <1>1, <1>4, <1>5, <2>1, <2>2, <2>3
<1>8. new = SubSeq(obs, 1, k - 1) \o SubSeq(obs, k + 1, Len(obs))
  BY <1>2, <1>3, <1>6
<1> QED BY <1>7, <1>8

\* What a pass leaves of a list, and of the order in it.
LEMMA SweptList ==
  ASSUME NEW obs \in Seq(Devices), NEW M, InOrder(obs)
  PROVE  LET new == Sweep(obs, M)
         IN /\ new \in Seq(Devices) /\ InOrder(new)
            /\ \/ new = obs /\ \A i \in 1..Len(obs) : obs[i] \notin M
               \/ \E k \in 1..Len(obs) :
                    /\ obs[k] \in M /\ \A i \in 1..(k - 1) : obs[i] \notin M
                    /\ \A i \in 1..Len(new) : new[i] # obs[k] /\ \E j \in 1..Len(obs) : new[i] = obs[j]
<1>1. PICK new : new = Sweep(obs, M)
  OBVIOUS
<1>2. CASE new = obs /\ \A i \in 1..Len(obs) : obs[i] \notin M
  BY <1>1, <1>2
<1>3. ASSUME NEW k \in 1..Len(obs), obs[k] \in M, \A i \in 1..(k - 1) : obs[i] \notin M,
             new = SubSeq(obs, 1, k - 1) \o SubSeq(obs, k + 1, Len(obs))
      PROVE  /\ new \in Seq(Devices) /\ InOrder(new)
             /\ \A i \in 1..Len(new) : new[i] # obs[k] /\ \E j \in 1..Len(obs) : new[i] = obs[j]
  <2>1. Len(obs) \in Nat /\ k \in Nat /\ \A i \in 1..Len(obs) : obs[i] \in Devices
    OBVIOUS
  <2>2. /\ new \in Seq(Devices) /\ Len(new) = Len(obs) - 1
        /\ \A i \in 1..Len(new) : new[i] = IF i < k THEN obs[i] ELSE obs[i + 1]
    BY <1>3, WithoutOne
  <2> DEFINE f(i) == IF i < k THEN i ELSE i + 1
  <2>3. \A i \in 1..Len(new) : f(i) \in 1..Len(obs) /\ f(i) # k /\ new[i] = obs[f(i)]
    BY <2>1, <2>2
  <2>4. \A i, j \in 1..Len(new) : /\ f(i) = f(j) => i = j
                                  /\ f(i) < f(j) => i < j
                                  /\ f(i) = 1 => i = 1
    BY <2>1, <2>2
  <2> HIDE DEF f
  <2>5. InOrder(new)
    <3>1. \A i, j \in 1..Len(new) : new[i] = new[j] => i = j
      BY <2>3, <2>4 DEF InOrder
    <3>2. \A i \in 1..Len(new) : new[i] = CC => i = 1
      BY <2>3, <2>4 DEF InOrder
    <3>3. ASSUME NEW n \in Calls, NEW i \in 1..Len(new), NEW j \in 1..Len(new), new[i] = DC(n), new[j] = FL(n)
          PROVE  i < j
      BY <2>3, <2>4, <3>3 DEF InOrder
    <3> QED BY <3>1, <3>2, <3>3 DEF InOrder
  <2>6. \A i \in 1..Len(new) : new[i] # obs[k] /\ \E j \in 1..Len(obs) : new[i] = obs[j]
    BY <2>3 DEF InOrder
  <2> QED BY <2>2, <2>5, <2>6
<1>4. \/ new = obs /\ \A i \in 1..Len(obs) : obs[i] \notin M
      \/ \E k \in 1..Len(obs) : /\ obs[k] \in M /\ \A i \in 1..(k - 1) : obs[i] \notin M
                                /\ new = SubSeq(obs, 1, k - 1) \o SubSeq(obs, k + 1, Len(obs))
  BY <1>1, SweepIs, Zenon
<1> QED BY <1>1, <1>2, <1>3, <1>4

\* A device of a list.
In(obs, d) == \E i \in 1..Len(obs) : obs[i] = d

\* A pass over obs: what was listed and stays, and what goes.
LEMMA PassIs ==
  ASSUME NEW obs \in Seq(Devices), InOrder(obs), DispatcherPass(obs)
  PROVE  /\ InOrder(iObservers)' /\ \A d : Listed(d)' => In(obs, d)
         /\ \/ \A d \in removeMark' : ~In(obs, d)
            \/ \E k \in 1..Len(obs) : /\ obs[k] \in removeMark' /\ \A i \in 1..(k - 1) : obs[i] \notin removeMark'
                                      /\ ~Listed(obs[k])'
<1>1. PICK M : M = removeMark'
  OBVIOUS
<1>2. PICK new : new = Sweep(obs, M)
  OBVIOUS
<1>3. iObservers' = new
  BY <1>1, <1>2 DEF DispatcherPass
<1>4. /\ new \in Seq(Devices) /\ InOrder(new)
      /\ \/ new = obs /\ \A i \in 1..Len(obs) : obs[i] \notin M
         \/ \E k \in 1..Len(obs) :
              /\ obs[k] \in M /\ \A i \in 1..(k - 1) : obs[i] \notin M
              /\ \A i \in 1..Len(new) : new[i] # obs[k] /\ \E j \in 1..Len(obs) : new[i] = obs[j]
  BY <1>2, SweptList
<1>5. InOrder(iObservers)' = InOrder(new)
  BY <1>3
<1>6. \A d : Listed(d)' <=> \E i \in 1..Len(new) : new[i] = d
  BY <1>3, <1>4 DEF Listed
<1>7. \A d : Listed(d)' => In(obs, d)
  BY <1>4, <1>6 DEF In
<1>8. CASE new = obs /\ \A i \in 1..Len(obs) : obs[i] \notin M
  BY <1>1, <1>4, <1>5, <1>7, <1>8 DEF In
<1>9. ASSUME NEW k \in 1..Len(obs), obs[k] \in M, \A i \in 1..(k - 1) : obs[i] \notin M,
             \A i \in 1..Len(new) : new[i] # obs[k]
      PROVE  /\ obs[k] \in removeMark' /\ \A i \in 1..(k - 1) : obs[i] \notin removeMark'
             /\ ~Listed(obs[k])'
  BY <1>1, <1>6, <1>9
<1> QED BY <1>4, <1>5, <1>7, <1>8, <1>9

\* The devices of different transfers are different.
LEMMA DevicesOfCalls == \A k, n : (DC(k) = DC(n) => k = n) /\ (FL(k) = FL(n) => k = n) /\ DC(k) # FL(n)
BY DEF DC, FL

\* The list holds what is listed.
LEMMA ListHolds == iObservers \in Seq(Devices) => \A d : Listed(d) <=> In(iObservers, d)
BY DEF Listed, In

\* With one marked device in the list the pass leaves none.
LEMMA TidyPass ==
  ASSUME NEW obs \in Seq(Devices), InOrder(obs), DispatcherPass(obs),
         \A d, e \in removeMark' : (In(obs, d) /\ In(obs, e)) => d = e
  PROVE  InOrder(iObservers)' /\ (\A d : Listed(d)' => In(obs, d)) /\ (\A d \in removeMark' : ~Listed(d)') /\ PendingOK'
<1>1. /\ InOrder(iObservers)' /\ \A d : Listed(d)' => In(obs, d)
      /\ \/ \A d \in removeMark' : ~In(obs, d)
         \/ \E k \in 1..Len(obs) : obs[k] \in removeMark' /\ ~Listed(obs[k])'
  BY PassIs
<1>2. ASSUME NEW d \in removeMark', Listed(d)' PROVE FALSE
  <2>1. In(obs, d)
    BY <1>1, <1>2
  <2>2. PICK k \in 1..Len(obs) : obs[k] \in removeMark' /\ ~Listed(obs[k])'
    BY <1>1, <2>1
  <2>3. In(obs, obs[k])
    BY DEF In
  <2> QED BY <1>2, <2>1, <2>2, <2>3
<1>3. PendingOK'
  BY <1>2 DEF PendingOK
<1> QED BY <1>1, <1>2, <1>3

\* What has not been used stays so.
Keeps == \A k \in Calls : (Untouched(k) => Untouched(k)') /\ (FileUnused(k) => FileUnused(k)')

\* The list shrinks, nothing unused is marked or held.
LEMMA KeepsUnused ==
  ASSUME \A d : Listed(d)' => Listed(d), \A d \in removeMark' : d \in removeMark \/ Listed(d) \/ d \in HeldDevices,
         iDataChannel' \in {0, iDataChannel}, iFileDevice' \in {0, iFileDevice}
  PROVE  Keeps
<1> SUFFICES ASSUME NEW k \in Calls PROVE (Untouched(k) => Untouched(k)') /\ (FileUnused(k) => FileUnused(k)')
  BY DEF Keeps
<1>1. k # 0
  BY ScriptAssumption DEF Calls
<1>2. ASSUME FileUnused(k) PROVE FileUnused(k)'
  <2>1. FL(k) \notin HeldDevices
    BY <1>2, DevicesOfCalls DEF HeldDevices, FileUnused
  <2> QED BY <1>1, <1>2, <2>1 DEF FileUnused
<1>3. ASSUME Untouched(k) PROVE Untouched(k)'
  <2>1. DC(k) \notin HeldDevices
    BY <1>3, DevicesOfCalls DEF HeldDevices, Untouched
  <2> QED BY <1>1, <1>2, <1>3, <2>1 DEF Untouched
<1> QED BY <1>2, <1>3

\* A pass after a handler that neither lists nor marks a device.
LEMMA QuietPass ==
  ASSUME IInv, ListOK, UNCHANGED <<iDataChannel, iFileDevice, removeMark>>, DispatcherPass(iObservers)
  PROVE  ListOK' /\ Keeps
<1>1. iObservers \in Seq(Devices) /\ InOrder(iObservers) /\ PendingOK /\ OnlyHeld
  BY StaysTyped DEF ListOK
<1>2. \A d, e \in removeMark' : (In(iObservers, d) /\ In(iObservers, e)) => d = e
  BY <1>1, ListHolds DEF PendingOK
<1>3. InOrder(iObservers)' /\ (\A d : Listed(d)' => In(iObservers, d)) /\ PendingOK'
  BY <1>1, <1>2, TidyPass
<1>4. \A d : Listed(d)' => Listed(d)
  BY <1>1, <1>3, ListHolds
<1>5. OnlyHeld'
  BY <1>1, <1>4 DEF OnlyHeld
<1>6. Keeps
  BY <1>4, KeepsUnused
<1> QED BY <1>3, <1>5, <1>6 DEF ListOK

\* A device put at the end of the list.
LEMMA AppendedList ==
  ASSUME NEW obs \in Seq(Devices), NEW d \in Devices
  PROVE  /\ Append(obs, d) \in Seq(Devices) /\ Len(Append(obs, d)) = Len(obs) + 1 /\ Len(obs) \in Nat
         /\ \A i \in 1..Len(obs) : Append(obs, d)[i] = obs[i]
         /\ Append(obs, d)[Len(obs) + 1] = d
         /\ \A e : In(Append(obs, d), e) <=> (In(obs, e) \/ e = d)
<1>1. PICK r : r = Append(obs, d)
  OBVIOUS
<1>2. /\ r \in Seq(Devices) /\ Len(r) = Len(obs) + 1 /\ Len(obs) \in Nat
      /\ \A i \in 1..Len(obs) : r[i] = obs[i]
      /\ r[Len(obs) + 1] = d
  BY <1>1, AppendProperties
<1>3. \A e : In(r, e) <=> (In(obs, e) \/ e = d)
  <2>1. \A i \in 1..Len(r) : i \in 1..Len(obs) \/ i = Len(obs) + 1
    BY <1>2
  <2>2. 1..Len(obs) \subseteq 1..Len(r) /\ Len(obs) + 1 \in 1..Len(r)
    BY <1>2
  <2> QED BY <1>2, <2>1, <2>2 DEF In
<1> QED BY <1>1, <1>2, <1>3

\* A new device behind the others leaves them in order, a data channel if its file is not listed yet.
LEMMA AppendedInOrder ==
  ASSUME NEW obs \in Seq(Devices), InOrder(obs), NEW d \in Devices, ~In(obs, d), d # CC,
         \A k \in Calls : d = DC(k) => ~In(obs, FL(k))
  PROVE  InOrder(Append(obs, d))
<1>1. PICK r : r = Append(obs, d)
  OBVIOUS
<1>2. PICK m \in Nat : m = Len(obs)
  OBVIOUS
<1>3. /\ Len(r) = m + 1 /\ \A i \in 1..m : r[i] = obs[i]
      /\ r[m + 1] = d
  BY <1>1, <1>2, AppendedList
<1>4. \A i \in 1..Len(r) : (i \in 1..m /\ r[i] = obs[i] /\ r[i] # d) \/ (i = m + 1 /\ r[i] = d)
  <2>1. \A i \in 1..Len(r) : i \in 1..m \/ i = m + 1
    BY <1>3
  <2>2. \A i \in 1..m : obs[i] # d
    BY <1>2 DEF In
  <2> QED BY <1>3, <2>1, <2>2
<1>5. \A i, j \in 1..Len(r) : r[i] = r[j] => i = j
  BY <1>2, <1>4 DEF InOrder
<1>6. \A i \in 1..Len(r) : r[i] = CC => i = 1
  BY <1>2, <1>4 DEF InOrder
<1>7. ASSUME NEW n \in Calls, NEW i \in 1..Len(r), NEW j \in 1..Len(r), r[i] = DC(n), r[j] = FL(n)
      PROVE  i < j
  <2>1. CASE i \in 1..m /\ j \in 1..m /\ r[i] = obs[i] /\ r[j] = obs[j]
    BY <1>2, <1>7, <2>1 DEF InOrder
  <2>2. CASE i \in 1..m /\ j = m + 1
    BY <2>2
  <2>3. CASE i = m + 1 /\ r[i] = d /\ j \in 1..m /\ r[j] = obs[j]
    BY <1>2, <1>7, <2>3 DEF In
  <2>4. CASE i = m + 1 /\ r[i] = d /\ j = m + 1
    BY <1>7, <2>4, DevicesOfCalls
  <2> QED BY <1>4, <2>1, <2>2, <2>3, <2>4
<1>8. InOrder(r)
  BY <1>5, <1>6, <1>7 DEF InOrder
<1> QED BY <1>1, <1>8

\* A pass after a handler that lists a new device, unmarked as it is.
LEMMA GrowingPass ==
  ASSUME IInv, ListOK, NEW d \in Devices, ~Listed(d), d # CC, d \notin removeMark, UNCHANGED removeMark,
         \A k \in Calls : d = DC(k) => ~Listed(FL(k)),
         DispatcherPass(Append(iObservers, d))
  PROVE  InOrder(iObservers)' /\ PendingOK' /\ \A e : Listed(e)' => (Listed(e) \/ e = d)
<1>1. iObservers \in Seq(Devices) /\ InOrder(iObservers) /\ PendingOK
  BY StaysTyped DEF ListOK
<1>2. \A e : Listed(e) <=> In(iObservers, e)
  BY <1>1, ListHolds
<1>3. PICK obs : obs = Append(iObservers, d)
  OBVIOUS
<1>4. obs \in Seq(Devices) /\ \A e : In(obs, e) <=> (In(iObservers, e) \/ e = d)
  BY <1>1, <1>3, AppendedList
<1>5. InOrder(obs)
  BY <1>1, <1>2, <1>3, AppendedInOrder
<1>6. \A e, f \in removeMark' : (In(obs, e) /\ In(obs, f)) => e = f
  BY <1>1, <1>2, <1>4 DEF PendingOK
<1>7. InOrder(iObservers)' /\ (\A e : Listed(e)' => In(obs, e)) /\ PendingOK'
  BY <1>3, <1>4, <1>5, <1>6, TidyPass
<1> QED BY <1>2, <1>4, <1>7

\* A pass after ResetSubject on all that is held: the data channel goes at once,
\* the file next time.
LEMMA GiveUpPass ==
  ASSUME IInv, ListOK, iFileDevice \in {0, iDataChannel}, iDataChannel' = 0, iFileDevice' = 0,
         removeMark' = removeMark \cup HeldDevices, DispatcherPass(iObservers)
  PROVE  ListOK' /\ Keeps
<1>0. PICK obs : obs = iObservers
  OBVIOUS
<1>1. obs \in Seq(Devices) /\ InOrder(obs) /\ PendingOK /\ OnlyHeld
  BY <1>0, StaysTyped DEF ListOK
<1>2. \A d : Listed(d) <=> In(obs, d)
  BY <1>0, <1>1, ListHolds
<1>3. /\ InOrder(iObservers)' /\ \A d : Listed(d)' => Listed(d)
      /\ \/ \A d \in removeMark' : ~Listed(d)
         \/ \E k \in 1..Len(obs) : /\ obs[k] \in removeMark' /\ ~Listed(obs[k])'
                                   /\ \A i \in 1..(k - 1) : obs[i] \notin removeMark'
  BY <1>0, <1>1, <1>2, PassIs
<1>4. Keeps
  BY <1>3, KeepsUnused
<1>5. CASE iDataChannel = 0
  <2>1. HeldDevices = {}
    BY <1>5 DEF HeldDevices
  <2> QED BY <1>5, <2>1, QuietPass
<1>6. CASE iDataChannel # 0
  <2>1. PICK n \in Calls : n = iDataChannel
    BY <1>6, StaysTyped
  <2>2. HeldDevices \subseteq {DC(n), FL(n)} /\ DC(n) \in HeldDevices
    BY <1>6, <2>1 DEF HeldDevices
  <2>3. \A d \in removeMark' : Listed(d) => d \in {DC(n), FL(n)}
    BY <1>1, <1>6, <2>2 DEF PendingOK
  <2>4. ~Listed(DC(n))'
    <3> SUFFICES ASSUME Listed(DC(n))' PROVE FALSE
      OBVIOUS
    <3>1. PICK p \in 1..Len(obs) : obs[p] = DC(n)
      BY <1>2, <1>3 DEF In
    <3>2. PICK k \in 1..Len(obs) : /\ obs[k] \in removeMark' /\ ~Listed(obs[k])'
                                   /\ \A i \in 1..(k - 1) : obs[i] \notin removeMark'
      BY <1>3, <2>2
    <3>3. Listed(obs[k])
      BY <1>2 DEF In
    <3>4. obs[k] = FL(n)
      BY <2>3, <3>2, <3>3
    <3>5. p < k
      BY <1>1, <3>1, <3>4 DEF InOrder
    <3>6. p \in 1..(k - 1) /\ obs[p] \in removeMark'
      BY <2>2, <3>1, <3>5
    <3> QED BY <3>2, <3>6
  <2>5. OnlyHeld'
    BY <1>1, <1>3, <2>1, <2>4 DEF OnlyHeld
  <2>6. \A d \in removeMark' : Listed(d)' => d = FL(n)
    BY <1>3, <2>3, <2>4
  <2>7. PendingOK'
    BY <2>6 DEF PendingOK
  <2> QED BY <1>3, <1>4, <2>5, <2>7 DEF ListOK
<1> QED BY <1>5, <1>6

\* A pass after a listed device has been marked, which comes before any other
\* marked one: it goes at once.
LEMMA MarkingPass ==
  ASSUME IInv, ListOK, NEW d, Listed(d), d = CC \/ iDataChannel # 0,
         UNCHANGED <<iDataChannel, iFileDevice>>, removeMark' = removeMark \cup {d}, DispatcherPass(iObservers)
  PROVE  ListOK' /\ Keeps
<1>0. PICK obs : obs = iObservers
  OBVIOUS
<1>1. obs \in Seq(Devices) /\ InOrder(obs) /\ PendingOK /\ OnlyHeld
  BY <1>0, StaysTyped DEF ListOK
<1>2. \A e : Listed(e) <=> In(obs, e)
  BY <1>0, <1>1, ListHolds
<1>3. PICK p \in 1..Len(obs) : obs[p] = d
  BY <1>2 DEF In
<1>4. /\ InOrder(iObservers)' /\ \A e : Listed(e)' => Listed(e)
      /\ \/ \A e \in removeMark' : ~Listed(e)
         \/ \E k \in 1..Len(obs) : /\ obs[k] \in removeMark' /\ ~Listed(obs[k])'
                                   /\ \A i \in 1..(k - 1) : obs[i] \notin removeMark'
  BY <1>0, <1>1, <1>2, PassIs
<1>5. PICK k \in 1..Len(obs) : /\ obs[k] \in removeMark' /\ ~Listed(obs[k])'
                               /\ \A i \in 1..(k - 1) : obs[i] \notin removeMark'
  BY <1>4
<1>6. ~Listed(d)'
  <2>1. CASE d = CC
    <3>1. p = 1
      BY <1>1, <1>3, <2>1 DEF InOrder
    <3>2. k = 1
      <4>1. ~(p \in 1..(k - 1))
        BY <1>3, <1>5
      <4> QED BY <3>1, <4>1
    <3> QED BY <1>3, <1>5, <3>1, <3>2
  <2>2. CASE iDataChannel # 0
    <3>1. Listed(obs[k])
      BY <1>2 DEF In
    <3>2. obs[k] = d
      BY <1>1, <1>5, <2>2, <3>1 DEF PendingOK
    <3> QED BY <1>5, <3>2
  <2> QED BY <2>1, <2>2
<1>7. PendingOK'
  BY <1>1, <1>4, <1>6 DEF PendingOK
<1>8. OnlyHeld'
  BY <1>1, <1>4 DEF OnlyHeld
<1>9. Keeps
  BY <1>4, KeepsUnused
<1> QED BY <1>4, <1>7, <1>8, <1>9 DEF ListOK

----------------------------------------------------------------------------
(* Steps, by what they do to the queue *)

\* Commands are calls' commands.
LEMMA QueueTyped ==
  ASSUME IInv
  PROVE  /\ iCmdQ \in Seq(Command) /\ Len(iCmdQ) \in Nat /\ \A i \in 1..Len(iCmdQ) : iCmdQ[i].call \in Calls
         /\ iCmdQ # <<>> => 1 \in 1..Len(iCmdQ) /\ Head(iCmdQ) = iCmdQ[1] /\ Head(iCmdQ).call \in Calls
         /\ \A n \in Calls : n # 0 /\ n \in Nat
<1>1. iCmdQ \in Seq(Command) /\ Len(iCmdQ) \in Nat /\ \A i \in 1..Len(iCmdQ) : iCmdQ[i] \in Command
  BY DEF IInv, Dialogue, QueuesOK
<1>2. iCmdQ # <<>> => 1 \in 1..Len(iCmdQ) /\ Head(iCmdQ) = iCmdQ[1]
  BY <1>1
<1> QED BY <1>1, <1>2, ScriptAssumption DEF Command, Calls

\* Nothing a transfer is made of changes.
LEMMA UnchangedStep ==
  ASSUME TInv, UNCHANGED <<protocol, iDataChannel, iFileDevice, iObservers, removeMark, called>>
  PROVE  TInv'
BY DEF protocol, TInv, QueueOK, ToComeOK, FrontOK, ListOK, PendingOK, OnlyHeld, Untouched, FileUnused, Listed

\* The queue stays as it is and so does what is held.
LEMMA KeptQueueStep ==
  ASSUME IInv, TInv, ListOK', Keeps, UNCHANGED <<iCmdQ, iCmdInProgress, foundEmpty, called, iDataChannel, iFileDevice>>,
         \/ iProtocolState' = iProtocolState /\ wire' \in {wire, <<>>}
         \/ iProtocolState' \notin {"DATA", "1yz"} /\ (iProtocolState \in TransferStates => iProtocolState' \in TransferStates)
  PROVE  TInv'
<1>1. QueueOK'
  BY DEF TInv, QueueOK
<1>2. ToComeOK'
  <2>1. \A i \in 1..Len(iCmdQ) : iCmdQ[i].cmd = "PASV" => Untouched(iCmdQ[i].call)'
    BY QueueTyped DEF TInv, ToComeOK, Keeps
  <2>2. \A k \in Calls : k > called => Untouched(k)'
    BY DEF TInv, ToComeOK, Keeps
  <2>3. PICK q : q = iCmdQ
    OBVIOUS
  <2>4. (iProtocolState' = "DATA" /\ q # <<>>) => FileUnused(Head(q).call)'
    BY <2>3, QueueTyped DEF TInv, ToComeOK, Keeps
  <2>5. \A i \in 1..Len(q) : q[i].cmd = "PASV" => Untouched(q[i].call)'
    BY <2>1, <2>3
  <2>6. iCmdQ' = q
    BY <2>3
  <2> QED BY <2>2, <2>4, <2>5, <2>6 DEF ToComeOK, Untouched, FileUnused, Listed
<1>3. FrontOK'
  BY DEF TInv, FrontOK, TransferStates
<1> QED BY <1>1, <1>2, <1>3 DEF TInv

\* Commands are retired, nothing is held, and the next command is no transfer.
LEMMA RetiredStep ==
  ASSUME IInv, TInv, ListOK', Keeps, iDataChannel' = 0, iFileDevice' = 0, UNCHANGED called,
         NEW q \in Seq(Command), Batched(q), \A i \in 1..Len(q) : \E j \in 1..Len(iCmdQ) : q[i] = iCmdQ[j],
         q # <<>> => ~IsTransferCommand(Head(q).cmd),
         NEW state, state # "1yz", ProcessNextCmd(q, state, <<>>)
  PROVE  TInv'
<1>1. iCmdQ' = q
  BY DEF ProcessNextCmd
<1>2. QueueOK'
  <2>1. \A i \in 1..Len(q) : q[i].call <= called
    BY DEF TInv, QueueOK
  <2> QED BY <1>1, <2>1 DEF QueueOK
<1>3. q # <<>> => iProtocolState' # "DATA"
  BY PasvIsNoTransfer DEF ProcessNextCmd
<1>4. (q = <<>> => wire' = <<>>) /\ iProtocolState' # "1yz"
  BY DEF ProcessNextCmd, ClassOf
<1>5. ToComeOK'
  <2>1. ASSUME NEW i \in 1..Len(q), q[i].cmd = "PASV" PROVE Untouched(q[i].call)'
    <3>1. PICK c : c = q[i].call
      OBVIOUS
    <3>2. c \in Calls /\ Untouched(c)
      BY <2>1, <3>1, QueueTyped DEF TInv, ToComeOK
    <3>3. Untouched(c)'
      BY <3>2 DEF Keeps
    <3> QED BY <3>1, <3>3
  <2>2. \A k \in Calls : k > called => Untouched(k)'
    BY DEF TInv, ToComeOK, Keeps
  <2> QED BY <1>1, <1>3, <2>1, <2>2 DEF ToComeOK, Untouched, FileUnused, Listed
<1>6. FrontOK'
  BY <1>1, <1>3, <1>4 DEF FrontOK
<1> QED BY <1>2, <1>5, <1>6 DEF TInv

\* One command is retired: any but the PASV of a transfer.
LEMMA RetireFrontStep ==
  ASSUME IInv, TInv, ListOK', Keeps, iDataChannel' = 0, iFileDevice' = 0, UNCHANGED called,
         iCmdQ # <<>>, Head(iCmdQ).cmd # "PASV", NEW state, state # "1yz", SkipCommand(1, state, <<>>)
  PROVE  TInv'
<1>1. 1 <= Len(iCmdQ) /\ Batched(iCmdQ) /\ 1 \in {1, 2}
  BY QueueTyped DEF TInv, QueueOK
<1>2. PICK q : q = SubSeq(iCmdQ, 1 + 1, Len(iCmdQ))
  OBVIOUS
<1>3. /\ q \in Seq(Command) /\ Len(q) = Len(iCmdQ) - 1 /\ \A i \in 1..Len(q) : q[i] = iCmdQ[i + 1]
      /\ q # <<>> => 1 \in 1..Len(q) /\ Head(q) = iCmdQ[1 + 1]
  BY <1>1, <1>2, QueueTyped, SuffixIs
<1>4. Batched(q)
  BY <1>1, <1>2, QueueTyped, SuffixBatched
<1>5. \A i \in 1..Len(q) : \E j \in 1..Len(iCmdQ) : q[i] = iCmdQ[j]
  <2>1. \A i \in 1..Len(q) : i + 1 \in 1..Len(iCmdQ)
    BY <1>3, QueueTyped
  <2> QED BY <1>3, <2>1
<1>6. q # <<>> => ~IsTransferCommand(Head(q).cmd)
  <2>1. q # <<>> => 2 \in 2..Len(iCmdQ) /\ 2 - 1 = 1 /\ 1 + 1 = 2
    BY <1>3, QueueTyped
  <2>2. 2 \in 2..Len(iCmdQ) => (IsTransferCommand(iCmdQ[2].cmd) => iCmdQ[2 - 1].cmd = "PASV")
    BY <1>1 DEF Batched
  <2> QED BY <1>3, <2>1, <2>2, QueueTyped
<1>7. ProcessNextCmd(q, state, <<>>)
  BY <1>2 DEF SkipCommand
<1> QED BY <1>3, <1>4, <1>5, <1>6, <1>7, RetiredStep

\* A refused PASV and its transfer are retired.
LEMMA RetirePairStep ==
  ASSUME IInv, TInv, ListOK', Keeps, iDataChannel' = 0, iFileDevice' = 0, UNCHANGED called,
         iCmdQ # <<>>, Head(iCmdQ).cmd = "PASV", NEW state, state # "1yz", SkipCommand(2, state, <<>>)
  PROVE  TInv'
<1>1. 2 <= Len(iCmdQ) /\ Batched(iCmdQ) /\ 2 \in {1, 2} /\ iCmdQ[2].cmd # "PASV"
  <2>1. Batched(iCmdQ) /\ 1 < Len(iCmdQ) /\ IsTransferCommand(iCmdQ[1 + 1].cmd) /\ 1 + 1 = 2
    BY QueueTyped DEF TInv, QueueOK, Batched
  <2> QED BY <2>1, QueueTyped, PasvIsNoTransfer
<1>2. PICK q : q = SubSeq(iCmdQ, 2 + 1, Len(iCmdQ))
  OBVIOUS
<1>3. /\ q \in Seq(Command) /\ Len(q) = Len(iCmdQ) - 2 /\ \A i \in 1..Len(q) : q[i] = iCmdQ[i + 2]
      /\ q # <<>> => 1 \in 1..Len(q) /\ Head(q) = iCmdQ[1 + 2]
  BY <1>1, <1>2, QueueTyped, SuffixIs
<1>4. Batched(q)
  BY <1>1, <1>2, QueueTyped, SuffixBatched
<1>5. \A i \in 1..Len(q) : \E j \in 1..Len(iCmdQ) : q[i] = iCmdQ[j]
  <2>1. \A i \in 1..Len(q) : i + 2 \in 1..Len(iCmdQ)
    BY <1>3, QueueTyped
  <2> QED BY <1>3, <2>1
<1>6. q # <<>> => ~IsTransferCommand(Head(q).cmd)
  <2>1. q # <<>> => 3 \in 2..Len(iCmdQ) /\ 3 - 1 = 2 /\ 1 + 2 = 3
    BY <1>3, QueueTyped
  <2>2. 3 \in 2..Len(iCmdQ) => (IsTransferCommand(iCmdQ[3].cmd) => iCmdQ[3 - 1].cmd = "PASV")
    BY <1>1 DEF Batched
  <2> QED BY <1>1, <1>3, <2>1, <2>2
<1>7. ProcessNextCmd(q, state, <<>>)
  BY <1>2 DEF SkipCommand
<1> QED BY <1>3, <1>4, <1>5, <1>6, <1>7, RetiredStep

----------------------------------------------------------------------------
(* Replies *)

\* The front of the queue by the state that awaits a reply.
LEMMA FrontByState ==
  ASSUME IInv, TInv, AtReply, iProtocolState \in {"GEN", "PASV", "DATA", "1yz"}
  PROVE  /\ iCmdQ # <<>> /\ Head(iCmdQ) = Head(wire)
         /\ iProtocolState = "PASV" => Head(iCmdQ).cmd = "PASV"
         /\ iProtocolState = "GEN" => Head(iCmdQ).cmd # "PASV" /\ ~IsTransferCommand(Head(iCmdQ).cmd)
         /\ iProtocolState \in {"DATA", "1yz"} => IsTransferCommand(Head(iCmdQ).cmd)
         /\ iProtocolState = "DATA" => ~prelim
<1>1. /\ iCmdQ # <<>> /\ Head(iCmdQ) = Head(wire)
      /\ iProtocolState = IF prelim THEN "1yz" ELSE ClassOf(Head(wire).cmd)
  BY Awaited DEF IInv, AtReply, LoginSteps
<1>2. iProtocolState = "1yz" => IsTransferCommand(Head(iCmdQ).cmd)
  BY DEF TInv, FrontOK
<1> QED BY <1>1, <1>2 DEF ClassOf

\* Without a transfer at the front nothing is held.
LEMMA NothingHeld ==
  ASSUME TInv
  PROVE  /\ (iCmdQ = <<>> \/ ~IsTransferCommand(Head(iCmdQ).cmd)) => iDataChannel = 0
         /\ iDataChannel = 0 => iFileDevice = 0
         /\ iProtocolState \notin TransferStates => iDataChannel = 0 /\ (iCmdQ # <<>> => ~IsTransferCommand(Head(iCmdQ).cmd))
BY DEF TInv, FrontOK

\* Replies of the login, and those no row handles.
LEMMA PlainReply ==
  ASSUME IInv, TInv, AtReply, NEW state, NEW w, Plain(state, w), UNCHANGED called,
         \/ state = iProtocolState /\ w \in {wire, <<>>}
         \/ state \notin {"DATA", "1yz"} /\ (iProtocolState \in TransferStates => state \in TransferStates)
  PROVE  TInv'
<1>1. UNCHANGED <<iDataChannel, iFileDevice, removeMark>> /\ DispatcherPass(iObservers)
  BY DEF Plain, transfer
<1>2. ListOK' /\ Keeps
  BY <1>1, QuietPass DEF TInv
<1> QED BY <1>1, <1>2, KeptQueueStep DEF Plain

\* The login is over.
LEMMA LoginEnds ==
  ASSUME IInv, TInv, AtReply, iProtocolState = "PASS", NEW status \in BOOLEAN, NEW state, state # "1yz",
         ProcessLoginEvent(status, state, <<>>), UNCHANGED called
  PROVE  TInv'
<1>1. UNCHANGED <<iDataChannel, iFileDevice, removeMark>> /\ DispatcherPass(iObservers)
  BY DEF ProcessLoginEvent, transfer
<1>2. ListOK' /\ Keeps
  BY <1>1, QuietPass DEF TInv
<1>3. iDataChannel' = 0 /\ iFileDevice' = 0 /\ (iCmdQ # <<>> => ~IsTransferCommand(Head(iCmdQ).cmd))
  BY <1>1, NothingHeld DEF TransferStates
<1>4. CASE status
  <2>1. ProcessNextCmd(iCmdQ, state, <<>>)
    BY <1>4, Zenon DEF ProcessLoginEvent
  <2>2. PICK q : q = iCmdQ
    OBVIOUS
  <2>3. q \in Seq(Command) /\ Batched(q) /\ \A i \in 1..Len(q) : \E j \in 1..Len(iCmdQ) : q[i] = iCmdQ[j]
    BY <2>2, QueueTyped DEF TInv, QueueOK
  <2> QED BY <1>2, <1>3, <2>1, <2>2, <2>3, RetiredStep
<1>5. CASE ~status
  <2>1. PICK q : q = <<>>
    OBVIOUS
  <2>2. ProcessNextCmd(q, state, <<>>)
    BY <1>5, <2>1, Zenon DEF ProcessLoginEvent
  <2>3. q \in Seq(Command) /\ ~(q # <<>>) /\ \A i \in 1..Len(q) : FALSE
    BY <2>1
  <2>4. Batched(q)
    <3>1. Len(q) = 0
      BY <2>1
    <3> QED BY <3>1 DEF Batched
  <2> QED BY <1>2, <1>3, <2>2, <2>3, <2>4, RetiredStep
<1> QED BY <1>4, <1>5

\* The reply to a general command.
LEMMA GeneralRetired ==
  ASSUME IInv, TInv, AtReply, iProtocolState = "GEN", NEW code, ProcessGenCmdEvent(code, <<>>), UNCHANGED called
  PROVE  TInv'
<1>1. UNCHANGED <<iDataChannel, iFileDevice, removeMark>> /\ DispatcherPass(iObservers)
  BY DEF ProcessGenCmdEvent
<1>2. ListOK' /\ Keeps
  BY <1>1, QuietPass DEF TInv
<1>3. iCmdQ # <<>> /\ Head(iCmdQ).cmd # "PASV" /\ iDataChannel' = 0 /\ iFileDevice' = 0
  BY <1>1, FrontByState, NothingHeld
<1> QED BY <1>2, <1>3, RetireFrontStep DEF ProcessGenCmdEvent

\* A PASV is refused.
LEMMA PasvRefused ==
  ASSUME IInv, TInv, AtReply, iProtocolState = "PASV", NEW state, state # "1yz", SkipTransfer(state, <<>>), UNCHANGED called
  PROVE  TInv'
<1>1. UNCHANGED <<iDataChannel, iFileDevice, removeMark>> /\ DispatcherPass(iObservers)
  BY DEF SkipTransfer, transfer
<1>2. ListOK' /\ Keeps
  BY <1>1, QuietPass DEF TInv
<1>3. iCmdQ # <<>> /\ Head(iCmdQ).cmd = "PASV" /\ iDataChannel' = 0 /\ iFileDevice' = 0
  BY <1>1, FrontByState, NothingHeld, PasvIsNoTransfer
<1> QED BY <1>2, <1>3, RetirePairStep DEF SkipTransfer

\* The final reply to a transfer, or the refusal of one.
LEMMA TransferEnds ==
  ASSUME IInv, TInv, AtReply, iProtocolState \in {"DATA", "1yz"}, UNCHANGED called,
         (iProtocolState = "1yz" /\ CompleteTransfer(<<>>)) \/ FailTransfer(<<>>)
  PROVE  TInv'
<1>1. iCmdQ # <<>> /\ Head(iCmdQ).cmd # "PASV"
  BY FrontByState, PasvIsNoTransfer
<1>2. CASE CompleteTransfer(<<>>) /\ iDataChannel # 0
  BY <1>2, PlainReply DEF CompleteTransfer, TransferStates
<1>3. CASE CompleteTransfer(<<>>) /\ iDataChannel = 0
  <2>1. UNCHANGED <<iDataChannel, iFileDevice, removeMark>> /\ DispatcherPass(iObservers)
    BY <1>3 DEF CompleteTransfer, transfer
  <2>2. ListOK' /\ Keeps
    BY <2>1, QuietPass DEF TInv
  <2>3. iDataChannel' = 0 /\ iFileDevice' = 0
    BY <1>3, <2>1, NothingHeld
  <2> QED BY <1>1, <1>3, <2>2, <2>3, RetireFrontStep DEF CompleteTransfer
<1>4. CASE FailTransfer(<<>>)
  <2>1. iDataChannel' = 0 /\ iFileDevice' = 0 /\ removeMark' = removeMark \cup HeldDevices /\ DispatcherPass(iObservers)
    BY <1>4 DEF FailTransfer, ResetBoth
  <2>2. ListOK' /\ Keeps
    BY <2>1, GiveUpPass DEF TInv, FrontOK
  <2> QED BY <1>1, <1>4, <2>1, <2>2, RetireFrontStep DEF FailTransfer
<1> QED BY <1>2, <1>3, <1>4

\* PASV is accepted: its transfer is sent and its data channel opened.
LEMMA PasvAccepted ==
  ASSUME IInv, TInv, AtReply, iProtocolState = "PASV", ProcessPasvResponse(<<>>), UNCHANGED called
  PROVE  TInv'
<1>1. PICK n \in Calls : n = Head(iCmdQ).call
  BY FrontByState, QueueTyped
<1>2. /\ iCmdQ # <<>> /\ 1 \in 1..Len(iCmdQ) /\ iCmdQ[1].cmd = "PASV" /\ iCmdQ[1].call = n /\ n # 0
      /\ Len(iCmdQ) \in Nat /\ iCmdQ \in Seq(Command) /\ Batched(iCmdQ) /\ n <= called
  BY <1>1, FrontByState, QueueTyped DEF TInv, QueueOK
<1>3. iDataChannel = 0 /\ iFileDevice = 0
  BY FrontByState, NothingHeld, PasvIsNoTransfer
<1>4. Untouched(n)
  BY <1>2 DEF TInv, ToComeOK
<1>5. /\ iDataChannel' = n /\ UNCHANGED <<iFileDevice, removeMark>> /\ DispatcherPass(Append(iObservers, DC(n)))
      /\ SkipCommand(1, "DATA", <<>>)
  BY <1>1 DEF ProcessPasvResponse, OpenDataChannel
<1>6. /\ InOrder(iObservers)' /\ PendingOK' /\ \A e : Listed(e)' => (Listed(e) \/ e = DC(n))
  <2>1. DC(n) \in Devices /\ DC(n) # CC /\ ~Listed(DC(n)) /\ DC(n) \notin removeMark
    BY <1>4, DevicesDiffer DEF Untouched
  <2>2. \A k \in Calls : DC(n) = DC(k) => ~Listed(FL(k))
    BY <1>4, DevicesOfCalls DEF Untouched, FileUnused
  <2> QED BY <1>5, <2>1, <2>2, GrowingPass DEF TInv
<1>7. ListOK'
  <2>1. OnlyHeld'
    BY <1>3, <1>5, <1>6, QueueTyped, DevicesOfCalls DEF OnlyHeld, TInv, ListOK
  <2> QED BY <1>6, <2>1 DEF ListOK
<1>8. /\ \A k \in Calls \ {n} : Untouched(k) => Untouched(k)'
      /\ \A k \in Calls : FileUnused(k) => FileUnused(k)'
  BY <1>5, <1>6, DevicesOfCalls DEF Untouched, FileUnused
<1>9. PICK q : q = SubSeq(iCmdQ, 1 + 1, Len(iCmdQ))
  OBVIOUS
<1>10. 1 < Len(iCmdQ) /\ IsTransferCommand(iCmdQ[2].cmd) /\ iCmdQ[2].call = n
  <2>1. 1 + 1 = 2
    OBVIOUS
  <2> QED BY <1>2, <2>1 DEF Batched
<1>11. /\ q \in Seq(Command) /\ Len(q) = Len(iCmdQ) - 1 /\ \A i \in 1..Len(q) : q[i] = iCmdQ[i + 1]
       /\ q # <<>> => 1 \in 1..Len(q) /\ Head(q) = iCmdQ[1 + 1]
  BY <1>2, <1>9, <1>10, SuffixIs
<1>12. Batched(q)
  BY <1>2, <1>9, <1>10, SuffixBatched
<1>13. q # <<>> /\ IsTransferCommand(Head(q).cmd) /\ Head(q).call = n
  BY <1>2, <1>10, <1>11
<1>14. iCmdQ' = q /\ iCmdInProgress' = TRUE /\ foundEmpty' = FALSE /\ iProtocolState' = "DATA"
  BY <1>5, <1>9, <1>13 DEF SkipCommand, ProcessNextCmd, ClassOf
<1>15. QueueOK'
  <2>1. \A i \in 1..Len(q) : q[i].call <= called
    <3>1. \A i \in 1..Len(q) : i + 1 \in 1..Len(iCmdQ)
      BY <1>2, <1>11
    <3> QED BY <1>11, <3>1 DEF TInv, QueueOK
  <2> QED BY <1>12, <1>14, <2>1 DEF QueueOK
<1>16. ToComeOK'
  <2>1. ASSUME NEW i \in 1..Len(q), q[i].cmd = "PASV" PROVE Untouched(q[i].call)'
    <3>0. PICK j \in 1..Len(iCmdQ) : j = i + 1 /\ q[i] = iCmdQ[j]
      BY <1>2, <1>11
    <3>1. PICK c \in Calls : c = iCmdQ[j].call /\ c = q[i].call
      BY <3>0, QueueTyped
    <3>2. iCmdQ[j].cmd = "PASV" /\ 1 < j
      BY <2>1, <3>0
    <3>3. c # n
      BY <1>2, <3>1, <3>2 DEF Batched
    <3>4. Untouched(c)
      BY <3>1, <3>2 DEF TInv, ToComeOK
    <3>5. Untouched(c)'
      BY <1>8, <3>3, <3>4
    <3> QED BY <3>1, <3>5
  <2>2. \A k \in Calls : k > called => Untouched(k)'
    <3>1. \A k \in Calls : k > called => k # n
      BY <1>2, QueueTyped DEF IInv, Typed, TransferTyped
    <3> QED BY <1>8, <3>1 DEF TInv, ToComeOK
  <2>3. FileUnused(n)'
    BY <1>4, <1>8 DEF Untouched
  <2> QED BY <1>13, <1>14, <2>1, <2>2, <2>3 DEF ToComeOK, Untouched, FileUnused, Listed
<1>17. FrontOK'
  BY <1>3, <1>5, <1>13, <1>14 DEF FrontOK, TransferStates
<1> QED BY <1>7, <1>15, <1>16, <1>17 DEF TInv

\* A transfer begins: its file joins the channel the protocol holds for it.
LEMMA TransferBegins ==
  ASSUME IInv, TInv, AtReply, iProtocolState = "DATA", BeginTransfer(wire), UNCHANGED called
  PROVE  TInv'
<1>1. PICK n \in Calls : n = Head(iCmdQ).call
  BY FrontByState, QueueTyped
<1>2. /\ iCmdQ # <<>> /\ 1 \in 1..Len(iCmdQ) /\ IsTransferCommand(iCmdQ[1].cmd) /\ iCmdQ[1].call = n
      /\ n # 0 /\ n <= called /\ iDataChannel = n /\ FileUnused(n) /\ iCmdInProgress
  BY <1>1, FrontByState, QueueTyped DEF TInv, QueueOK, FrontOK, ToComeOK, AtReply
<1>3. PICK local \in BOOLEAN : local = Script[n].local
  BY ScriptFields
<1>4. CASE (local /\ iFileDevice # 0) \/ (iDCProt = "Protected" /\ iDataChannel = 0)
  <2>1. \E why : Dies(why)
    BY <1>1, <1>3, <1>4 DEF BeginTransfer
  <2> QED BY <2>1, UnchangedStep DEF Dies, transfer
<1>5. CASE ~(local /\ iFileDevice # 0) /\ ~(iDCProt = "Protected" /\ iDataChannel = 0)
  <2>1. /\ iProtocolState' = "1yz" /\ wire' = wire
        /\ iFileDevice' = IF local THEN n ELSE iFileDevice
        /\ UNCHANGED <<iCmdQ, iCmdInProgress, foundEmpty, iDataChannel, removeMark>>
        /\ DispatcherPass(IF local THEN Append(iObservers, FL(n)) ELSE iObservers)
    BY <1>1, <1>3, <1>5 DEF BeginTransfer
  <2>2. /\ ListOK'
        /\ \A k \in Calls \ {n} : Untouched(k) => Untouched(k)'
    <3>1. CASE local
      <4>1. FL(n) \in Devices /\ FL(n) # CC /\ ~Listed(FL(n)) /\ FL(n) \notin removeMark
        BY <1>2, DevicesDiffer DEF FileUnused
      <4>2. \A k \in Calls : FL(n) # DC(k)
        BY DevicesOfCalls
      <4>3. InOrder(iObservers)' /\ PendingOK' /\ \A e : Listed(e)' => (Listed(e) \/ e = FL(n))
        BY <2>1, <3>1, <4>1, <4>2, GrowingPass DEF TInv
      <4>4. OnlyHeld'
        BY <2>1, <4>2, <4>3 DEF OnlyHeld, TInv, ListOK
      <4>5. \A k \in Calls \ {n} : Untouched(k) => Untouched(k)'
        BY <2>1, <3>1, <4>3, DevicesOfCalls DEF Untouched, FileUnused
      <4> QED BY <4>3, <4>4, <4>5 DEF ListOK
    <3>2. CASE ~local
      BY <2>1, <3>2, QuietPass DEF TInv, Keeps
    <3> QED BY <3>1, <3>2
  <2>3. QueueOK'
    BY <2>1 DEF TInv, QueueOK
  <2>4. ToComeOK'
    <3>1. PICK q : q = iCmdQ
      OBVIOUS
    <3>2. ASSUME NEW i \in 1..Len(q), q[i].cmd = "PASV" PROVE Untouched(q[i].call)'
      <4>1. PICK c \in Calls : c = q[i].call
        BY <3>1, QueueTyped
      <4>2. 1 < i
        <5>1. i # 1
          BY <1>2, <3>1, <3>2, PasvIsNoTransfer
        <5> QED BY <5>1
      <4>3. c # n
        <5>1. Batched(q)
          BY <3>1 DEF TInv, QueueOK
        <5> QED BY <1>2, <3>1, <3>2, <4>1, <4>2, <5>1 DEF Batched
      <4>4. Untouched(c)
        BY <3>1, <3>2, <4>1 DEF TInv, ToComeOK
      <4>5. Untouched(c)'
        BY <2>2, <4>3, <4>4
      <4> QED BY <4>1, <4>5
    <3>3. \A k \in Calls : k > called => Untouched(k)'
      <4>1. \A k \in Calls : k > called => k # n
        BY <1>2, QueueTyped DEF IInv, Typed, TransferTyped
      <4> QED BY <2>2, <4>1 DEF TInv, ToComeOK
    <3>4. iCmdQ' = q
      BY <2>1, <3>1
    <3> QED BY <2>1, <3>2, <3>3, <3>4 DEF ToComeOK, Untouched, FileUnused, Listed
  <2>5. FrontOK'
    BY <1>1, <1>2, <2>1, QueueTyped DEF TInv, FrontOK, TransferStates
  <2> QED BY <2>2, <2>3, <2>4, <2>5 DEF TInv
<1> QED BY <1>4, <1>5

\* Every reply.
LEMMA ReplyKeeps ==
  ASSUME FinalRepliesOnly, IInv, TInv, NEW code \in Codes, OnControlRead(code)
  PROVE  TInv'
<1>1. CASE code = "1"
  BY <1>1, PreliminaryCases, PlainReply, TransferBegins
<1>2. CASE code # "1"
  <2>1. AtReply /\ UNCHANGED called
    BY <1>2, FinalCases
  <2>2. CASE Plain(iProtocolState, <<>>)
    BY <2>1, <2>2, PlainReply
  <2>3. CASE iProtocolState \notin TransferStates /\ \E state \in States \ {"DATA", "1yz"} : \E w : Plain(state, w)
    BY <2>1, <2>3, PlainReply
  <2>4. CASE iProtocolState = "AUTH" /\ DoCCHandshake(<<>>)
    <3>1. UNCHANGED <<iDataChannel, iFileDevice, removeMark>> /\ DispatcherPass(iObservers)
      BY <2>4 DEF DoCCHandshake, transfer
    <3>2. ListOK' /\ Keeps
      BY <3>1, QuietPass DEF TInv
    <3> QED BY <2>1, <2>4, <3>1, <3>2, KeptQueueStep DEF DoCCHandshake, TransferStates
  <2>5. CASE /\ iProtocolState = "PASS"
             /\ \E status \in BOOLEAN, state \in States \ {"1yz"} : ProcessLoginEvent(status, state, <<>>)
    BY <2>1, <2>5, LoginEnds
  <2>6. CASE iProtocolState = "GEN" /\ ProcessGenCmdEvent(code, <<>>)
    BY <2>1, <2>6, GeneralRetired
  <2>7. CASE iProtocolState = "PASV" /\ \E state \in States \ {"1yz"} : SkipTransfer(state, <<>>)
    BY <2>1, <2>7, PasvRefused
  <2>8. CASE iProtocolState = "PASV" /\ ProcessPasvResponse(<<>>)
    BY <2>1, <2>8, PasvAccepted
  <2>9. CASE \/ iProtocolState = "1yz" /\ CompleteTransfer(<<>>)
             \/ iProtocolState \in {"DATA", "1yz"} /\ FailTransfer(<<>>)
    BY <2>1, <2>9, TransferEnds
  <2>10. \A step \in {"AUTH", "USER", "PASS", "ACCT"} : step \in States \ {"DATA", "1yz"}
    BY StatesAre
  <2>11. iProtocolState \in {"CONNECTED", "AUTH", "USER", "PASS"} => iProtocolState \notin TransferStates
    BY DEF TransferStates
  <2> QED BY <1>2, <2>2, <2>3, <2>4, <2>5, <2>6, <2>7, <2>8, <2>9, <2>10, <2>11, FinalCases
<1> QED BY <1>1, <1>2

----------------------------------------------------------------------------
(* Calls, connections, data channels and files *)

\* Call n appends batch b to the queue q, which becomes r, and sends the front
\* if nobody else will.
Appends(n, q, b, r) ==
  /\ q = iCmdQ /\ r = q \o b /\ Batched(r) /\ r # <<>>
  /\ b = LET names == CommandsOf(Script[n].api, CcTls # "No" /\ Listed(CC))
         IN [i \in 1..Len(names) |-> [cmd |-> names[i], call |-> n]]
  /\ Len(b) > 0 /\ ~IsTransferCommand(b[1].cmd) /\ \A i \in 1..Len(b) : b[i].call = n
  /\ \A i \in 1..Len(r) : (i \in 1..Len(q) /\ r[i] = q[i]) \/ (i - Len(q) \in 1..Len(b) /\ r[i] = b[i - Len(q)])
  /\ Head(r) = IF q = <<>> THEN b[1] ELSE Head(q)
  /\ \A i \in 1..Len(q) : q[i].call \in Calls
  /\ \A i \in 1..Len(r) : r[i].call <= n

\* So does every call of the API but Stop.
LEMMA CallAppends ==
  ASSUME IInv, QueueOK, NEW n \in Calls, n = called + 1, Script[n].api \in Apis, Enqueue(n)
  PROVE  \E q, b, r \in Seq(Command) :
           /\ Appends(n, q, b, r) /\ iCmdQ' = r
           /\ IF iCmdInProgress THEN UNCHANGED <<iCmdInProgress, foundEmpty, iProtocolState, wire>>
              ELSE iProtocolState' = ClassOf(Head(r).cmd)
<1>1. PICK names : names = CommandsOf(Script[n].api, CcTls # "No" /\ Listed(CC))
  OBVIOUS
<1>2. /\ Len(names) \in Nat /\ Len(names) > 0 /\ names \in Seq(CommandNames)
      /\ ~IsTransferCommand(names[1])
      /\ \A i \in 1..Len(names) : names[i] = "PASV" => i < Len(names) /\ IsTransferCommand(names[i + 1])
      /\ \A i \in 2..Len(names) : IsTransferCommand(names[i]) => names[i - 1] = "PASV"
      /\ \A i, j \in 1..Len(names) :
           (i < j /\ names[j] = "PASV") => names[i] # "PASV" /\ ~IsTransferCommand(names[i])
  BY <1>1, BatchOfCall, CommandsAre
<1>3. PICK b : b = [i \in 1..Len(names) |-> [cmd |-> names[i], call |-> n]]
  OBVIOUS
<1>4. /\ b \in Seq(Command) /\ Len(b) = Len(names) /\ b # <<>> /\ Head(b) = b[1]
      /\ \A i \in 1..Len(b) : b[i].cmd = names[i] /\ b[i].call = n
  <2>1. \A i \in 1..Len(names) : [cmd |-> names[i], call |-> n] \in Command
    BY <1>2 DEF Command
  <2>2. b \in Seq(Command) /\ Len(b) = Len(names)
    BY <1>2, <1>3, <2>1
  <2>3. \A i \in 1..Len(b) : b[i].cmd = names[i] /\ b[i].call = n
    BY <1>3, <2>2
  <2> QED BY <1>2, <2>2, <2>3
<1>5. Batched(b)
  <2>1. \A i \in 1..Len(b) : b[i].cmd = "PASV" =>
          i < Len(b) /\ IsTransferCommand(b[i + 1].cmd) /\ b[i + 1].call = b[i].call
    <3> SUFFICES ASSUME NEW i \in 1..Len(b), b[i].cmd = "PASV"
                 PROVE  i < Len(b) /\ IsTransferCommand(b[i + 1].cmd) /\ b[i + 1].call = b[i].call
      OBVIOUS
    <3>1. i < Len(b) /\ IsTransferCommand(names[i + 1])
      BY <1>2, <1>4
    <3>2. i + 1 \in 1..Len(b)
      BY <1>2, <1>4, <3>1
    <3> QED BY <1>4, <3>1, <3>2
  <2>2. \A i \in 2..Len(b) : IsTransferCommand(b[i].cmd) => b[i - 1].cmd = "PASV"
    <3> SUFFICES ASSUME NEW i \in 2..Len(b), IsTransferCommand(b[i].cmd) PROVE b[i - 1].cmd = "PASV"
      OBVIOUS
    <3>1. i \in 1..Len(b) /\ i - 1 \in 1..Len(b)
      BY <1>2, <1>4
    <3> QED BY <1>2, <1>4, <3>1
  <2>3. \A i, j \in 1..Len(b) :
          (i < j /\ b[j].cmd = "PASV" /\ (b[i].cmd = "PASV" \/ IsTransferCommand(b[i].cmd))) => b[i].call # b[j].call
    BY <1>2, <1>4
  <2> QED BY <2>1, <2>2, <2>3 DEF Batched
<1>6. PICK q : q = iCmdQ
  OBVIOUS
<1>7. /\ q \in Seq(Command) /\ Batched(q) /\ \A i \in 1..Len(q) : q[i].call < n
      /\ \A i \in 1..Len(q) : q[i].call \in Calls /\ q[i].call <= called
  <2>1. q \in Seq(Command) /\ Batched(q) /\ \A i \in 1..Len(q) : q[i].call \in Calls /\ q[i].call <= called
    BY <1>6, QueueTyped DEF QueueOK
  <2>2. called \in Nat /\ \A c \in Calls : c \in Nat
    BY ScriptAssumption DEF IInv, Typed, TransferTyped, Calls
  <2>3. \A c \in Calls : c <= called => c < n
    BY <2>2
  <2> QED BY <2>1, <2>3
<1>8. PICK r : r = q \o b
  OBVIOUS
<1>9. /\ r \in Seq(Command) /\ Batched(r) /\ r # <<>>
       /\ \A i \in 1..Len(r) :
            \/ i \in 1..Len(q) /\ r[i] = q[i]
            \/ i - Len(q) \in 1..Len(b) /\ r[i] = b[i - Len(q)]
       /\ Head(r) = IF q = <<>> THEN Head(b) ELSE Head(q)
  <2>1. ~IsTransferCommand(Head(b).cmd) /\ n \in Nat
    BY <1>2, <1>4, QueueTyped
  <2> QED BY <1>4, <1>5, <1>7, <1>8, <2>1, QueueWithBatch
<1>10. /\ iCmdQ' = r
       /\ IF iCmdInProgress THEN UNCHANGED <<iCmdInProgress, foundEmpty, iProtocolState, wire>>
          ELSE iProtocolState' = ClassOf(Head(r).cmd)
  BY <1>1, <1>3, <1>6, <1>8, <1>9, Zenon DEF Enqueue, ProcessNextCmd
<1>11. \A i \in 1..Len(r) : r[i].call <= n
  <2>1. \A i \in 1..Len(r) : r[i].call = n \/ (r[i].call \in Calls /\ r[i].call < n)
    <3>1. \A i \in 1..Len(r) : (\E j \in 1..Len(q) : r[i] = q[j]) \/ (\E j \in 1..Len(b) : r[i] = b[j])
      BY <1>9
    <3> QED BY <1>4, <1>7, <3>1
  <2>2. \A c \in Calls : c \in Nat
    BY QueueTyped
  <2>3. n <= n /\ \A c \in Calls : c < n => c <= n
    BY <2>2
  <2> QED BY <2>1, <2>3
<1>12. Appends(n, q, b, r)
  <2>1. Head(r) = IF q = <<>> THEN b[1] ELSE Head(q)
    BY <1>4, <1>9
  <2>2. Len(b) > 0 /\ ~IsTransferCommand(b[1].cmd)
    BY <1>2, <1>4
  <2>3. \A i \in 1..Len(b) : b[i].call = n
    BY <1>4
  <2>4. \A i \in 1..Len(q) : q[i].call \in Calls
    BY <1>7
  <2>5. b = LET list == CommandsOf(Script[n].api, CcTls # "No" /\ Listed(CC))
            IN [i \in 1..Len(list) |-> [cmd |-> list[i], call |-> n]]
    BY <1>1, <1>3
  <2> QED BY <1>6, <1>8, <1>9, <1>11, <2>1, <2>2, <2>3, <2>4, <2>5, Zenon DEF Appends
<1> QED BY <1>4, <1>7, <1>9, <1>10, <1>12, Zenon

\* A call adds a batch for devices nobody has used.
LEMMA CallKeeps ==
  ASSUME NoStop, IInv, TInv, ApiCall
  PROVE  TInv'
<1>1. PICK n \in Calls : n = called + 1 /\ called' = n
  BY ScriptAssumption DEF ApiCall, IInv, Typed, TransferTyped, Calls
<1>2. Enqueue(n) /\ UNCHANGED <<iDataChannel, iFileDevice, iObservers, removeMark>> /\ Script[n].api \in Apis
  <2>1. Script[n].api # "Stop" /\ Script[n].api \in Apis \cup {"Stop"}
    BY ScriptFields DEF NoStop
  <2> QED BY <1>1, <2>1 DEF ApiCall, transfer
<1>3. PICK q \in Seq(Command), b \in Seq(Command), r \in Seq(Command) :
        /\ Appends(n, q, b, r) /\ iCmdQ' = r
        /\ IF iCmdInProgress THEN UNCHANGED <<iCmdInProgress, foundEmpty, iProtocolState, wire>>
           ELSE iProtocolState' = ClassOf(Head(r).cmd)
  BY <1>1, <1>2, CallAppends DEF TInv
<1>4. /\ q = iCmdQ /\ Batched(r) /\ r # <<>>
      /\ Len(b) > 0 /\ ~IsTransferCommand(b[1].cmd) /\ \A i \in 1..Len(b) : b[i].call = n
      /\ \A i \in 1..Len(r) : (i \in 1..Len(q) /\ r[i] = q[i]) \/ (i - Len(q) \in 1..Len(b) /\ r[i] = b[i - Len(q)])
      /\ Head(r) = IF q = <<>> THEN b[1] ELSE Head(q)
      /\ \A i \in 1..Len(q) : q[i].call \in Calls
      /\ \A i \in 1..Len(r) : r[i].call <= n
  BY <1>3 DEF Appends
<1>5. ~iCmdInProgress => iDataChannel = 0 /\ iFileDevice = 0
  BY DEF TInv, FrontOK
<1>6. (q = <<>> \/ ~iCmdInProgress) => ~IsTransferCommand(Head(r).cmd)
  <2>1. q = iCmdQ /\ q # <<>> /\ ~iCmdInProgress => ~IsTransferCommand(Head(q).cmd)
    BY DEF TInv, FrontOK
  <2> QED BY <1>3, <1>4, <2>1
<1>7. ListOK' /\ Keeps
  BY <1>2 DEF TInv, ListOK, PendingOK, OnlyHeld, Keeps, Untouched, FileUnused, Listed
<1>8. QueueOK'
  BY <1>1, <1>3, <1>4 DEF QueueOK
<1>9. ToComeOK'
  <2>1. ASSUME NEW i \in 1..Len(r), r[i].cmd = "PASV" PROVE Untouched(r[i].call)'
    <3>1. PICK c \in Calls : c = r[i].call
      BY <1>3, <1>4
    <3>2. Untouched(c)
      <4>1. CASE i \in 1..Len(q) /\ r[i] = q[i]
        BY <1>3, <1>4, <2>1, <3>1, <4>1 DEF TInv, ToComeOK
      <4>2. CASE i - Len(q) \in 1..Len(b) /\ r[i] = b[i - Len(q)]
        <5>1. c = n
          BY <1>3, <1>4, <3>1, <4>2
        <5> QED BY <1>1, <5>1 DEF TInv, ToComeOK, IInv, Typed, TransferTyped
      <4> QED BY <1>3, <1>4, <4>1, <4>2
    <3>3. Untouched(c)'
      BY <1>7, <3>2 DEF Keeps
    <3> QED BY <3>1, <3>3
  <2>2. \A k \in Calls : k > n => Untouched(k)'
    BY <1>1, <1>7, QueueTyped DEF TInv, ToComeOK, Keeps, IInv, Typed, TransferTyped
  <2>3. iProtocolState' = "DATA" => FileUnused(Head(r).call)'
    <3>1. CASE iCmdInProgress /\ q # <<>>
      <4>1. PICK c \in Calls : c = Head(r).call /\ c = Head(q).call
        BY <1>3, <1>4, <3>1, QueueTyped
      <4>2. iProtocolState' = "DATA" => FileUnused(c)'
        BY <1>3, <1>4, <1>7, <3>1, <4>1 DEF TInv, ToComeOK, Keeps
      <4> QED BY <4>1, <4>2
    <3>2. CASE q = <<>>
      <4>1. PICK c : c = Head(r).call
        OBVIOUS
      <4>2. c = n
        BY <1>3, <1>4, <3>2, <4>1
      <4>3. FileUnused(c)'
        BY <1>1, <1>7, <4>2 DEF TInv, ToComeOK, Keeps, Untouched, IInv, Typed, TransferTyped
      <4> QED BY <4>1, <4>3
    <3>3. CASE ~iCmdInProgress
      BY <1>3, <1>6, <3>3 DEF ClassOf
    <3> QED BY <3>1, <3>2, <3>3
  <2> QED BY <1>1, <1>3, <1>4, <2>1, <2>2, <2>3 DEF ToComeOK, Untouched, FileUnused, Listed
<1>10. FrontOK'
  <2>1. CASE iCmdInProgress /\ q # <<>>
    BY <1>2, <1>3, <1>4, <2>1 DEF TInv, FrontOK
  <2>2. CASE iCmdInProgress /\ q = <<>>
    <3>1. wire' # <<>> => iProtocolState' # "DATA"
      <4>1. UNCHANGED <<iProtocolState, wire>> /\ Alive
        BY <1>3, <1>4, <2>2 DEF ApiCall, Alive
      <4> QED BY <1>3, <1>4, <2>2, <4>1, Awaited DEF IInv, LoginSteps
    <3> QED BY <1>2, <1>3, <1>4, <1>6, <2>2, <3>1 DEF TInv, FrontOK
  <2>3. CASE ~iCmdInProgress
    <3>1. iProtocolState' \notin {"DATA", "1yz"}
      BY <1>3, <1>4, <1>5, <1>6, <2>3 DEF ClassOf
    <3> QED BY <1>2, <1>3, <1>4, <1>5, <1>6, <2>3, <3>1 DEF TInv, FrontOK
  <2> QED BY <2>1, <2>2, <2>3
<1> QED BY <1>7, <1>8, <1>9, <1>10 DEF TInv

\* The flag is cleared: while the worker had found nothing to send, no transfer has
\* come to the front.
LEMMA FlagClearedKeeps == TInv /\ GiveUp => TInv'
<1> SUFFICES ASSUME TInv, GiveUp PROVE TInv'
  OBVIOUS
<1>1. UNCHANGED <<iCmdQ, iProtocolState, wire, iDataChannel, iFileDevice, iObservers, removeMark, called>>
  BY DEF GiveUp, transfer
<1>2. FrontOK'
  BY <1>1 DEF GiveUp, TInv, FrontOK
<1> QED BY <1>1, <1>2 DEF TInv, QueueOK, ToComeOK, ListOK, PendingOK, OnlyHeld, Untouched, FileUnused, Listed

\* The client starts to connect.
LEMMA StartKeeps == TInv /\ StartClient => TInv'
BY UnchangedStep DEF StartClient, transfer

\* A handler that does not survive.
LEMMA DyingKeeps ==
  ASSUME TInv, NEW why, Dies(why), UNCHANGED called
  PROVE  TInv'
BY UnchangedStep DEF Dies, transfer

\* A handler that changes neither the queue nor what is held nor the list.
LEMMA SilentKeeps ==
  ASSUME IInv, TInv, UNCHANGED <<protocol, called, iDataChannel, iFileDevice, removeMark>>, DispatcherPass(iObservers)
  PROVE  TInv'
<1>1. ListOK' /\ Keeps
  BY QuietPass DEF TInv
<1> QED BY <1>1, KeptQueueStep DEF protocol

\* The control channel connects: nothing has been sent so far.
LEMMA ConnectKeeps == IInv /\ TInv /\ ControlConnect => TInv'
<1> SUFFICES ASSUME IInv, TInv, ControlConnect PROVE TInv'
  OBVIOUS
<1>1. /\ UNCHANGED <<iCmdQ, iCmdInProgress, foundEmpty, called, iDataChannel, iFileDevice, removeMark>>
      /\ iProtocolState' = "CONNECTED" /\ DispatcherPass(iObservers)
  BY DEF ControlConnect, transfer
<1>2. iProtocolState \notin TransferStates
  BY DEF ControlConnect, IInv, Dialogue, ControlOK, TransferStates
<1>3. ListOK' /\ Keeps
  BY <1>1, QuietPass DEF TInv
<1> QED BY <1>1, <1>2, <1>3, KeptQueueStep

\* The control channel's handshake is over; the login goes on after an explicit one.
LEMMA ControlHandshakeKeeps == IInv /\ TInv /\ ControlHandshake => TInv'
<1> SUFFICES ASSUME IInv, TInv, ControlHandshake PROVE TInv'
  OBVIOUS
<1>1. UNCHANGED <<iCmdQ, iCmdInProgress, foundEmpty, called, iDataChannel, iFileDevice, removeMark>> /\ DispatcherPass(iObservers)
  BY DEF ControlHandshake, transfer
<1>2. ListOK' /\ Keeps
  BY <1>1, QuietPass DEF TInv
<1>3. CASE CcTls = "Yes"
  <2>1. iProtocolState \notin TransferStates /\ iProtocolState' = "USER"
    BY <1>3 DEF ControlHandshake, Reading, IInv, Dialogue, ControlOK, TransferStates
  <2> QED BY <1>1, <1>2, <2>1, KeptQueueStep
<1>4. CASE CcTls # "Yes"
  <2>1. UNCHANGED <<iProtocolState, wire>>
    BY <1>4 DEF ControlHandshake
  <2> QED BY <1>1, <1>2, <2>1, KeptQueueStep
<1> QED BY <1>3, <1>4

\* The control channel is lost: it leaves the list, whatever else is marked.
LEMMA ControlEofKeeps == IInv /\ TInv /\ ControlEof => TInv'
<1> SUFFICES ASSUME IInv, TInv, ControlEof PROVE TInv'
  OBVIOUS
<1>1. CASE SentShutdown(CC)
  <2>1. /\ UNCHANGED <<iCmdQ, iCmdInProgress, foundEmpty, called, iDataChannel, iFileDevice>>
        /\ iProtocolState' = "DISCONNECTED" /\ removeMark' = removeMark \cup {CC} /\ DispatcherPass(iObservers)
        /\ Listed(CC)
    BY <1>1 DEF ControlEof, transfer, Reading
  <2>2. ListOK' /\ Keeps
    BY <2>1, MarkingPass DEF TInv
  <2> QED BY <2>1, <2>2, KeptQueueStep DEF TransferStates
<1>2. CASE ~SentShutdown(CC)
  BY <1>2, DyingKeeps DEF ControlEof
<1> QED BY <1>1, <1>2

\* Completions that leave queue, list and devices held as they are.
LEMMA QuietCompletions ==
  ASSUME IInv, TInv,
         \/ OtherCompletion \/ \E d \in Devices : CloseNotify(d)
         \/ \E n \in Calls : DcConnect(n) \/ DcHandshake(n) \/ DcRead(n) \/ DcWrite(n) \/ FileRead(n)
  PROVE  TInv'
<1>1. CASE OtherCompletion \/ \E d \in Devices : CloseNotify(d)
  BY <1>1, SilentKeeps DEF OtherCompletion, CloseNotify, transfer
<1>2. ASSUME NEW n \in Calls, DcConnect(n) \/ DcWrite(n) PROVE TInv'
  <2>1. /\ UNCHANGED called
        /\ \/ \E why : Dies(why)
           \/ UNCHANGED <<protocol, transfer, removeMark>> /\ DispatcherPass(iObservers)
    BY <1>2, Zenon DEF DcConnect, DcWrite
  <2> QED BY <2>1, DyingKeeps, SilentKeeps DEF transfer
<1>3. ASSUME NEW n \in Calls, DcHandshake(n) PROVE TInv'
  <2>1. /\ UNCHANGED called
        /\ \/ \E why : Dies(why)
           \/ UNCHANGED <<protocol, transfer, removeMark>> /\ DispatcherPass(iObservers)
    BY <1>3, Zenon DEF DcHandshake
  <2> QED BY <2>1, DyingKeeps, SilentKeeps DEF transfer
<1>4. ASSUME NEW n \in Calls, DcRead(n) PROVE TInv'
  <2>1. /\ UNCHANGED called
        /\ \/ \E why : Dies(why)
           \/ UNCHANGED <<protocol, iDataChannel, iFileDevice, removeMark>> /\ DispatcherPass(iObservers)
    BY <1>4 DEF DcRead, transfer
  <2> QED BY <2>1, DyingKeeps, SilentKeeps
<1>5. ASSUME NEW n \in Calls, FileRead(n) PROVE TInv'
  <2>1. /\ UNCHANGED called
        /\ \/ \E why : Dies(why)
           \/ UNCHANGED <<protocol, iDataChannel, iFileDevice, removeMark>> /\ DispatcherPass(iObservers)
    BY <1>5 DEF FileRead, SendChunk, transfer
  <2> QED BY <2>1, DyingKeeps, SilentKeeps
<1> QED BY <1>1, <1>2, <1>3, <1>4, <1>5

\* The end of an upload's file: the file leaves the list.
LEMMA FileEofKeeps == \A n \in Calls : IInv /\ TInv /\ FileEof(n) => TInv'
<1> SUFFICES ASSUME NEW n \in Calls, IInv, TInv, FileEof(n) PROVE TInv'
  OBVIOUS
<1>1. CASE iDataChannel = 0
  BY <1>1, DyingKeeps DEF FileEof
<1>2. CASE iDataChannel # 0
  <2>1. /\ UNCHANGED <<protocol, called, iDataChannel, iFileDevice>> /\ Listed(FL(n))
        /\ removeMark' = removeMark \cup {FL(n)} /\ DispatcherPass(iObservers)
    BY <1>2 DEF FileEof, Reading, transfer
  <2>2. ListOK' /\ Keeps
    BY <1>2, <2>1, MarkingPass DEF TInv
  <2> QED BY <2>1, <2>2, KeptQueueStep DEF protocol
<1> QED BY <1>1, <1>2

\* The end of a data channel, the one that is held: it leaves the list with the
\* transfer, which is retired if its final reply has come.
LEMMA DcEofKeeps == DataAfterReply => \A n \in Calls : IInv /\ TInv /\ DcEof(n) => TInv'
<1> SUFFICES ASSUME DataAfterReply, NEW n \in Calls, IInv, TInv, DcEof(n) PROVE TInv'
  OBVIOUS
<1>1. CASE ~SentShutdown(DC(n)) \/ iCmdQ = <<>>
  BY <1>1, DyingKeeps DEF DcEof
<1>2. CASE SentShutdown(DC(n)) /\ iCmdQ # <<>>
  <2>1. /\ Alive /\ Listed(DC(n)) /\ UNCHANGED called /\ PeerCloses(DC(n))
        /\ iDataChannel' = 0 /\ iFileDevice' = 0
        /\ removeMark' = removeMark \cup HeldDevices \cup {DC(n)} /\ DispatcherPass(iObservers)
        /\ IF FinalReplySeen THEN SkipCommand(1, "xyz", wire) ELSE UNCHANGED protocol
    BY <1>2 DEF DcEof, Reading, ResetBoth
  <2>2. iDataChannel = n /\ n # 0
    BY <2>1, QueueTyped DEF TInv, ListOK, OnlyHeld
  <2>3. DC(n) \in HeldDevices
    BY <2>2 DEF HeldDevices
  <2>4. removeMark' = removeMark \cup HeldDevices
    BY <2>1, <2>3
  <2>5. ListOK' /\ Keeps
    BY <2>1, <2>4, GiveUpPass DEF TInv, FrontOK
  <2>6. IsTransferCommand(Head(iCmdQ).cmd) /\ Head(iCmdQ).call = n /\ Head(iCmdQ).cmd # "PASV"
    BY <2>2, PasvIsNoTransfer DEF TInv, FrontOK
  <2>7. CASE FinalReplySeen
    <3>1. wire = <<>>
      BY <2>1, <2>7, Awaited DEF FinalReplySeen, IInv, LoginSteps, ClassOf
    <3>2. SkipCommand(1, "xyz", <<>>)
      BY <2>1, <2>7, <3>1
    <3> QED BY <1>2, <2>1, <2>5, <2>6, <3>2, RetireFrontStep
  <2>8. CASE ~FinalReplySeen
    <3>1. UNCHANGED <<iCmdQ, iCmdInProgress, foundEmpty, iProtocolState, wire>>
      BY <2>1, <2>8 DEF protocol
    <3>2. ~(iProtocolState = "DATA" /\ wire # <<>>)
      <4> SUFFICES ASSUME iProtocolState = "DATA", wire # <<>> PROVE FALSE
        OBVIOUS
      <4>1. Head(wire) = Head(iCmdQ) /\ ~prelim
        BY <2>1, Awaited DEF IInv, LoginSteps
      <4>2. Begun(n)
        BY <2>1, DevicesDiffer DEF PeerCloses, DataAfterReply, DC
      <4> QED BY <2>6, <4>1, <4>2 DEF Begun
    <3>3. QueueOK'
      BY <2>1, <3>1 DEF TInv, QueueOK
    <3>4. ToComeOK'
      <4>1. PICK q : q = iCmdQ
        OBVIOUS
      <4>2. \A i \in 1..Len(q) : q[i].cmd = "PASV" => Untouched(q[i].call)'
        BY <2>5, <4>1, QueueTyped DEF TInv, ToComeOK, Keeps
      <4>3. \A k \in Calls : k > called => Untouched(k)'
        BY <2>5 DEF TInv, ToComeOK, Keeps
      <4>4. (iProtocolState' = "DATA" /\ q # <<>>) => FileUnused(Head(q).call)'
        BY <2>5, <3>1, <4>1, QueueTyped DEF TInv, ToComeOK, Keeps
      <4>5. iCmdQ' = q
        BY <3>1, <4>1
      <4> QED BY <2>1, <4>2, <4>3, <4>4, <4>5 DEF ToComeOK, Untouched, FileUnused, Listed
    <3>5. FrontOK'
      BY <2>1, <3>1, <3>2 DEF TInv, FrontOK
    <3> QED BY <2>5, <3>3, <3>4, <3>5 DEF TInv
  <2> QED BY <2>7, <2>8
<1> QED BY <1>1, <1>2

----------------------------------------------------------------------------
(* The theorems *)

\* Nothing is listed but the control channel.
LEMMA InitTInv == Init => TInv
<1> SUFFICES ASSUME Init PROVE TInv
  OBVIOUS
<1>1. PICK obs : obs = iObservers
  OBVIOUS
<1>2. obs = <<CC>> /\ Len(obs) = 1 /\ \A i \in 1..Len(obs) : i = 1 /\ obs[i] = CC
  BY <1>1 DEF Init
<1>3. \A d : Listed(d) => d = CC
  BY <1>1, <1>2 DEF Listed
<1>4. /\ iCmdQ = <<>> /\ wire = <<>> /\ iProtocolState = "CONNECTING"
      /\ iDataChannel = 0 /\ iFileDevice = 0 /\ removeMark = {} /\ called = 0
  BY Zenon DEF Init
<1>5. Len(iCmdQ) = 0
  BY <1>4
<1>6. QueueOK
  BY <1>5 DEF QueueOK, Batched
<1>7. ToComeOK
  <2>1. \A k \in Calls : Untouched(k)
    BY <1>3, <1>4, DevicesDiffer, ScriptAssumption DEF Untouched, FileUnused, Calls
  <2> QED BY <1>4, <1>5, <2>1 DEF ToComeOK
<1>8. FrontOK
  BY <1>4 DEF FrontOK
<1>9. InOrder(obs)
  <2>1. \A k \in Calls : CC # DC(k)
    BY DevicesDiffer
  <2> QED BY <1>2, <2>1 DEF InOrder
<1>10. PendingOK /\ OnlyHeld
  BY <1>3, <1>4, DevicesDiffer DEF PendingOK, OnlyHeld
<1> QED BY <1>1, <1>6, <1>7, <1>8, <1>9, <1>10 DEF TInv, ListOK

\* Every step keeps TInv.
LEMMA NextTInv ==
  ASSUME FinalRepliesOnly, NoStop, DataAfterReply, IInv, TInv, [Next]_vars
  PROVE  TInv'
<1>1. CASE UNCHANGED vars
  BY <1>1, UnchangedStep DEF vars, transfer
<1>2. CASE StartClient \/ ApiCall \/ GiveUp
  BY <1>2, StartKeeps, CallKeeps, FlagClearedKeeps
<1>3. CASE ControlConnect \/ ControlHandshake \/ ControlEof
  BY <1>3, ConnectKeeps, ControlHandshakeKeeps, ControlEofKeeps
<1>4. ASSUME NEW code \in Codes, OnControlRead(code) PROVE TInv'
  BY <1>4, ReplyKeeps
<1>5. CASE OtherCompletion \/ \E d \in Devices : CloseNotify(d)
  BY <1>5, QuietCompletions
<1>6. ASSUME NEW n \in Calls, \/ DcConnect(n) \/ DcHandshake(n) \/ DcRead(n) \/ DcWrite(n) \/ DcEof(n)
                               \/ FileRead(n) \/ FileEof(n)
      PROVE  TInv'
  BY <1>6, QuietCompletions, DcEofKeeps, FileEofKeeps
<1> QED BY <1>1, <1>2, <1>3, <1>4, <1>5, <1>6 DEF Next, Completion

\* TInv and the dialogue contain the properties.
LEMMA TInvImplies == IInv /\ TInv => HoldsFrontsDevices /\ NoRetiredChannelListed
<1> SUFFICES ASSUME IInv, TInv PROVE HoldsFrontsDevices /\ NoRetiredChannelListed
  OBVIOUS
<1>1. HoldsFrontsDevices
  BY DEF TInv, FrontOK, HoldsFrontsDevices
<1>2. NoRetiredChannelListed
  BY DevicesOfCalls DEF TInv, ListOK, PendingOK, NoRetiredChannelListed
<1> QED BY <1>1, <1>2

\* TInv holds in every state.
THEOREM TransferInvariance ==
  ASSUME FinalRepliesOnly, NoStop, DataAfterReply
  PROVE  Spec => [](IInv /\ TInv)
<1>1. Init => TInv
  BY InitTInv
<1>2. IInv /\ TInv /\ [Next]_vars => TInv'
  BY NextTInv
<1>3. Spec => []IInv
  BY Invariance
<1> QED BY <1>1, <1>2, <1>3, PTL DEF Spec

\* The data channel and the file the protocol holds are those of the transfer
\* at the front of iCmdQ, so OnDataChannelRead and OnFileRead call the callback
\* of the right transfer, however the pipelined transfers end.
THEOREM HeldIsFronts ==
  ASSUME FinalRepliesOnly, NoStop, DataAfterReply
  PROVE  Spec => []HoldsFrontsDevices
<1>1. IInv /\ TInv => HoldsFrontsDevices
  BY TInvImplies
<1> QED BY <1>1, TransferInvariance, PTL

\* A pass drops one marked observer only; yet the data channel a handler gives
\* up is out of the list when the handler returns.
THEOREM RetiredIsGone ==
  ASSUME FinalRepliesOnly, NoStop, DataAfterReply
  PROVE  Spec => []NoRetiredChannelListed
<1>1. IInv /\ TInv => NoRetiredChannelListed
  BY TInvImplies
<1> QED BY <1>1, TransferInvariance, PTL
=============================================================================
