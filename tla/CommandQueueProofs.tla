------------------------ MODULE CommandQueueProofs -------------------------
(***************************************************************************)
(* The safety of CommandQueue for any set of application threads and any   *)
(* number of calls: IInv is inductive, and implies what the runs check.    *)
(* And CommandQueue implements CommandService: the server sees the         *)
(* commands one at a time, in the order in which they were emplaced, and   *)
(* each is retired by its own reply.                                       *)
(***************************************************************************)
EXTENDS CommandQueue, SequenceTheorems, TLAPS

----------------------------------------------------------------------------
(* The commands of a call *)

\* A batch is made of commands, each PASV with a transfer behind it.
Batch(b) ==
  /\ b \in Seq(CommandNames)
  /\ \A i \in 1..Len(b) : b[i] = "PASV" => i < Len(b) /\ IsTransferCommand(b[i + 1])

\* Two batches one after the other are a batch.
LEMMA ConcatOfBatches ==
  ASSUME NEW a, Batch(a), NEW b, Batch(b)
  PROVE  Batch(a \o b)
<1>1. a \in Seq(CommandNames) /\ b \in Seq(CommandNames)
  BY DEF Batch
<1>2. /\ a \o b \in Seq(CommandNames)
      /\ Len(a \o b) = Len(a) + Len(b)
      /\ \A i \in 1..Len(a) + Len(b) : (a \o b)[i] = IF i <= Len(a) THEN a[i] ELSE b[i - Len(a)]
  BY <1>1, ConcatProperties
<1>3. Len(a) \in Nat /\ Len(b) \in Nat
  BY <1>1
<1>4. ASSUME NEW i \in 1..Len(a \o b), (a \o b)[i] = "PASV"
      PROVE  i < Len(a \o b) /\ IsTransferCommand((a \o b)[i + 1])
  <2>1. CASE i <= Len(a)
    <3>1. a[i] = "PASV" /\ i \in 1..Len(a)
      BY <1>2, <1>3, <1>4, <2>1
    <3>2. i < Len(a) /\ IsTransferCommand(a[i + 1])
      BY <3>1 DEF Batch
    <3>3. (a \o b)[i + 1] = a[i + 1]
      BY <1>2, <1>3, <3>1, <3>2
    <3> QED BY <1>2, <1>3, <3>2, <3>3
  <2>2. CASE i > Len(a)
    <3> DEFINE j == i - Len(a)
    <3>1. b[j] = "PASV" /\ j \in 1..Len(b)
      BY <1>2, <1>3, <1>4, <2>2
    <3>2. j < Len(b) /\ IsTransferCommand(b[j + 1])
      BY <3>1 DEF Batch
    <3>3. (a \o b)[i + 1] = b[j + 1]
      BY <1>2, <1>3, <2>2, <3>1, <3>2
    <3> QED BY <1>2, <1>3, <3>2, <3>3
  <2> QED BY <1>2, <1>3, <2>1, <2>2
<1> QED BY <1>2, <1>4 DEF Batch

\* Every call of the API queues a batch (Upload, Download, ListDirectory, ...).
LEMMA CallQueuesBatch ==
  ASSUME NEW api \in Apis
  PROVE  Batch(CommandsOf(api, Tls))
<1>1. Batch(SetDCProtLevel(Tls))
  <2>1. Batch(<<>>)
    BY DEF Batch
  <2>2. Batch(<<"PBSZ", "PROT">>)
    BY DEF Batch, CommandNames, TransferCommands
  <2> QED BY <2>1, <2>2 DEF SetDCProtLevel
<1>2. CASE api = "Upload"
  <2>1. Batch(<<"PASV", "STOR">>)
    BY DEF Batch, CommandNames, TransferCommands, IsTransferCommand
  <2> QED BY <1>1, <1>2, <2>1, ConcatOfBatches DEF CommandsOf
<1>3. CASE api = "Download"
  <2>1. Batch(<<"PASV", "RETR">>)
    BY DEF Batch, CommandNames, TransferCommands, IsTransferCommand
  <2> QED BY <1>1, <1>3, <2>1, ConcatOfBatches DEF CommandsOf
<1>4. CASE api = "ListDirectory"
  <2>1. Batch(<<"TYPE", "PASV", "LIST">>)
    BY DEF Batch, CommandNames, TransferCommands, IsTransferCommand
  <2> QED BY <1>1, <1>4, <2>1, ConcatOfBatches DEF CommandsOf
<1>5. CASE api = "GetCurrentDir"
  <2>1. Batch(<<"PWD">>)
    BY DEF Batch, CommandNames
  <2> QED BY <1>5, <2>1 DEF CommandsOf
<1>6. CASE api = "Quit"
  <2>1. Batch(<<"QUIT">>)
    BY DEF Batch, CommandNames
  <2> QED BY <1>6, <2>1 DEF CommandsOf
<1> QED BY <1>2, <1>3, <1>4, <1>5, <1>6 DEF Apis

\* Tagged with its call, a batch is a sequence of commands that is Paired.
LEMMA TaggedIsPaired ==
  ASSUME NEW api \in Apis, NEW call \in Callers \X (0..MaxCalls)
  PROVE  /\ Tagged(CommandsOf(api, Tls), call) \in Seq(Command)
         /\ Paired(Tagged(CommandsOf(api, Tls), call))
<1> DEFINE b == CommandsOf(api, Tls)
           s == Tagged(b, call)
<1>1. /\ b \in Seq(CommandNames)
      /\ \A i \in 1..Len(b) : b[i] = "PASV" => i < Len(b) /\ IsTransferCommand(b[i + 1])
  BY CallQueuesBatch DEF Batch
<1> HIDE DEF b
<1>2. Len(b) \in Nat /\ \A i \in 1..Len(b) : b[i] \in CommandNames
  BY <1>1
<1>3. s = [i \in 1..Len(b) |-> [cmd |-> b[i], call |-> call]]
  BY DEF Tagged
<1>4. s \in Seq(Command) /\ Len(s) = Len(b)
  BY <1>2, <1>3 DEF Command
<1>5. Paired(s)
  BY <1>1, <1>2, <1>3, <1>4 DEF Paired
<1> QED BY <1>4, <1>5 DEF b

----------------------------------------------------------------------------
(* The inductive invariant *)

\* The constructor's state: the flag is taken by the login, nothing is queued.
LEMMA InitIInv == Init => IInv
<1> SUFFICES ASSUME Init PROVE IInv
  OBVIOUS
<1> USE ThreadsAssumption, BoundAssumption DEF Init, Threads
<1>1. TypeOK
  BY DEF TypeOK
<1>2. CallersStayInCalls /\ OneOwner /\ SendsFront
  BY DEF CallersStayInCalls, OneOwner, Owns, SendsFront
<1>3. PushersHoldLock
  BY DEF PushersHoldLock, Paired
<1>4. WireIsFront /\ PasvHasItsTransfer /\ SentPasvIsPaired /\ SkipStaysInCall
  BY DEF WireIsFront, PasvHasItsTransfer, SentPasvIsPaired, SkipStaysInCall
<1> QED BY <1>1, <1>2, <1>3, <1>4 DEF IInv

\* A step that leaves every variable alone leaves IInv alone.
LEMMA StutterIInv == IInv /\ UNCHANGED vars => IInv'
BY DEF IInv, vars, TypeOK, CallersStayInCalls, OneOwner, Owns, SendsFront, PushersHoldLock, Paired,
       WireIsFront, PasvHasItsTransfer, PairedAt, SentPasvIsPaired, FrontPaired, SkipStaysInCall

\* The steps that touch only the flag and the place of one thread: the
\* attempt to take the flag, giving it back, and the ends of the login and of
\* SkipCommand.
LEMMA FlagStepIInv ==
  ASSUME IInv, NEW t \in Threads,
         \/ TestAndSet(t) \/ FoundEmpty(t) \/ GiveUp(t)
         \/ (\E outcome \in LoginOutcomes : LoginEnds(outcome)) \/ Popped \/ ClearFlag
  PROVE  IInv'
<1> USE ThreadsAssumption DEF Threads, Goto
<1> USE DEF TestAndSet, FoundEmpty, GiveUp, LoginEnds, ProcessLoginEvent, LoginUnheard, Popped, ClearFlag
<1>1. TypeOK'
  BY DEF IInv, TypeOK
<1>2. CallersStayInCalls'
  BY DEF IInv, TypeOK, CallersStayInCalls
<1>3. OneOwner'
  BY ZenonT(60) DEF IInv, TypeOK, OneOwner, Owns
<1>4. SendsFront'
  BY DEF IInv, TypeOK, SendsFront
<1>5. PushersHoldLock'
  BY SMTT(60) DEF IInv, TypeOK, PushersHoldLock, Paired
<1>6. WireIsFront' /\ SentPasvIsPaired'
  BY DEF IInv, WireIsFront, SentPasvIsPaired, FrontPaired
<1>7. PasvHasItsTransfer'
  BY DEF IInv, PasvHasItsTransfer, PairedAt
<1>8. SkipStaysInCall'
  BY DEF IInv, TypeOK, SkipStaysInCall
<1> QED BY <1>1, <1>2, <1>3, <1>4, <1>5, <1>6, <1>7, <1>8 DEF IInv

\* A call takes iLock and starts emplacing a batch.
LEMMA CallIInv ==
  ASSUME IInv, NEW t \in Callers, NEW api \in Apis, Call(t, api)
  PROVE  IInv'
<1> DEFINE batch == Tagged(CommandsOf(api, Tls), <<t, made[t]>>)
<1> USE ThreadsAssumption, BoundAssumption DEF Threads, Goto, Call
<1>1. batch \in Seq(Command) /\ Paired(batch)
  BY TaggedIsPaired DEF IInv, TypeOK
<1> HIDE DEF batch
<1>2. todo' = [todo EXCEPT ![t] = batch]
  BY DEF batch
<1>3. TypeOK'
  BY <1>1, <1>2 DEF IInv, TypeOK
<1>4. CallersStayInCalls' /\ OneOwner' /\ SendsFront'
  BY DEF IInv, TypeOK, CallersStayInCalls, OneOwner, Owns, SendsFront
<1>5. PushersHoldLock'
  <2>1. \A u \in Callers : Paired(todo[u])'
    BY <1>1, <1>2 DEF IInv, TypeOK, PushersHoldLock, Paired
  <2>2. \A u \in Callers : (pc[u] = "push" <=> iLock = u)' /\ (pc[u] # "push" => todo[u] = <<>>)'
    BY <1>2 DEF IInv, TypeOK, PushersHoldLock
  <2> QED BY <2>1, <2>2 DEF PushersHoldLock
<1>6. WireIsFront' /\ SentPasvIsPaired'
  BY DEF IInv, WireIsFront, SentPasvIsPaired, FrontPaired
<1>7. PasvHasItsTransfer'
  BY DEF IInv, PasvHasItsTransfer, PairedAt
<1>8. SkipStaysInCall'
  BY DEF IInv, TypeOK, SkipStaysInCall
<1> QED BY <1>3, <1>4, <1>5, <1>6, <1>7, <1>8 DEF IInv

\* A command is emplaced behind the others: the front stays the front.
LEMMA EmplaceIInv ==
  ASSUME IInv, NEW t \in Callers, Emplace(t)
  PROVE  IInv'
<1> DEFINE c == Head(todo[t])
           rest == Tail(todo[t])
<1> USE ThreadsAssumption DEF Threads, Emplace
<1>1. /\ todo[t] \in Seq(Command) /\ todo[t] # <<>> /\ iCmdQ \in Seq(Command)
      /\ iLock = t /\ NoThread # t
  BY DEF IInv, TypeOK, PushersHoldLock
<1>2. /\ c = todo[t][1] /\ c \in Command /\ rest \in Seq(Command)
      /\ Len(rest) = Len(todo[t]) - 1 /\ Len(todo[t]) \in Nat
      /\ \A i \in 1..Len(rest) : rest[i] = todo[t][i + 1]
  BY <1>1
<1>3. /\ iCmdQ' \in Seq(Command) /\ Len(iCmdQ') = Len(iCmdQ) + 1 /\ Len(iCmdQ) \in Nat
      /\ \A i \in 1..Len(iCmdQ) : iCmdQ'[i] = iCmdQ[i]
      /\ iCmdQ'[Len(iCmdQ) + 1] = c
      /\ iCmdQ # <<>> => iCmdQ' # <<>> /\ Head(iCmdQ') = Head(iCmdQ)
  BY <1>1, <1>2
<1>4. todo' = [todo EXCEPT ![t] = rest] /\ todo'[t] = rest
  BY DEF IInv, TypeOK
<1> HIDE DEF c, rest
<1>5. TypeOK'
  BY <1>2, <1>3, <1>4 DEF IInv, TypeOK
<1>6. CallersStayInCalls' /\ OneOwner'
  BY DEF IInv, CallersStayInCalls, OneOwner, Owns
<1>7. SendsFront'
  BY <1>3 DEF IInv, SendsFront
<1>8. PushersHoldLock'
  <2>1. Paired(rest)
    <3> SUFFICES ASSUME NEW i \in 1..Len(rest), rest[i].cmd = "PASV"
                 PROVE  i < Len(rest) /\ IsTransferCommand(rest[i + 1].cmd) /\ rest[i + 1].call = rest[i].call
      BY DEF Paired
    <3>1. i + 1 \in 1..Len(todo[t]) /\ rest[i] = todo[t][i + 1]
      BY <1>2
    <3>2. /\ i + 1 < Len(todo[t]) /\ IsTransferCommand(todo[t][i + 2].cmd)
          /\ todo[t][i + 2].call = todo[t][i + 1].call
      BY <3>1 DEF IInv, PushersHoldLock, Paired
    <3>3. i + 1 \in 1..Len(rest) /\ rest[i + 1] = todo[t][i + 2]
      BY <1>2, <3>2
    <3> QED BY <3>1, <3>2, <3>3
  <2>2. \A u \in Callers : Paired(todo[u])'
    BY <1>4, <2>1 DEF IInv, TypeOK, PushersHoldLock, Paired
  <2> QED BY <1>4, <2>2 DEF IInv, TypeOK, PushersHoldLock
<1>9. WireIsFront' /\ SentPasvIsPaired'
  BY <1>3 DEF IInv, WireIsFront, SentPasvIsPaired, FrontPaired
<1>10. PasvHasItsTransfer'
  <2> SUFFICES ASSUME NEW i \in 1..Len(iCmdQ'), iCmdQ'[i].cmd = "PASV"
               PROVE  PairedAt(i)'
    BY DEF PasvHasItsTransfer
  <2>1. CASE i = Len(iCmdQ) + 1
    <3>1. todo[t][1].cmd = "PASV"
      BY <1>2, <1>3, <2>1
    <3>2. 1 < Len(todo[t]) /\ IsTransferCommand(todo[t][2].cmd) /\ todo[t][2].call = todo[t][1].call
      BY <1>1, <1>2, <3>1 DEF IInv, PushersHoldLock, Paired
    <3>3. rest # <<>> /\ Head(rest) = todo[t][2]
      BY <1>2, <3>2
    <3> QED BY <1>1, <1>2, <1>3, <1>4, <2>1, <3>2, <3>3 DEF PairedAt
  <2>2. CASE i \in 1..Len(iCmdQ)
    <3>1. PairedAt(i)
      BY <1>3, <2>2 DEF IInv, PasvHasItsTransfer
    <3> QED BY <1>1, <1>3, <2>2, <3>1 DEF PairedAt, c
  <2> QED BY <1>3, <2>1, <2>2
<1>11. SkipStaysInCall'
  BY <1>3 DEF IInv, TypeOK, SkipStaysInCall
<1> QED BY <1>5, <1>6, <1>7, <1>8, <1>9, <1>10, <1>11 DEF IInv

\* The call's commands are all queued: iLock is released.
LEMMA UnlockIInv ==
  ASSUME IInv, NEW t \in Callers, Unlock(t)
  PROVE  IInv'
<1> USE ThreadsAssumption DEF Threads, Goto, Unlock
<1>1. iLock = t
  BY DEF IInv, TypeOK, PushersHoldLock
<1>2. TypeOK' /\ CallersStayInCalls' /\ OneOwner' /\ SendsFront'
  BY DEF IInv, TypeOK, CallersStayInCalls, OneOwner, Owns, SendsFront
<1>3. PushersHoldLock'
  BY <1>1 DEF IInv, TypeOK, PushersHoldLock, Paired
<1>4. WireIsFront' /\ SentPasvIsPaired'
  BY DEF IInv, WireIsFront, SentPasvIsPaired, FrontPaired
<1>5. PasvHasItsTransfer'
  BY <1>1 DEF IInv, PasvHasItsTransfer, PairedAt
<1>6. SkipStaysInCall'
  BY DEF IInv, TypeOK, SkipStaysInCall
<1> QED BY <1>2, <1>3, <1>4, <1>5, <1>6 DEF IInv

\* The owner of the flag looks at the front and enters its protocol state.
LEMMA FoundFrontIInv ==
  ASSUME IInv, NEW t \in Threads, FoundFront(t)
  PROVE  IInv'
<1> USE ThreadsAssumption DEF Threads, Goto, FoundFront
<1>1. iCmdQ # <<>> /\ Head(iCmdQ) \in Command /\ wire = <<>>
  BY DEF IInv, TypeOK, OneOwner, Owns
<1>2. TypeOK'
  BY <1>1 DEF IInv, TypeOK, ClassOf
<1>3. CallersStayInCalls' /\ OneOwner'
  BY DEF IInv, TypeOK, CallersStayInCalls, OneOwner, Owns
<1>4. SendsFront'
  BY <1>1 DEF IInv, TypeOK, SendsFront, OneOwner, Owns
<1>5. PushersHoldLock'
  BY DEF IInv, TypeOK, PushersHoldLock, Paired
<1>6. WireIsFront' /\ SentPasvIsPaired'
  BY <1>1 DEF WireIsFront, SentPasvIsPaired
<1>7. PasvHasItsTransfer' /\ SkipStaysInCall'
  BY DEF IInv, TypeOK, PasvHasItsTransfer, PairedAt, SkipStaysInCall
<1> QED BY <1>2, <1>3, <1>4, <1>5, <1>6, <1>7 DEF IInv

\* Write needs iLock, so no call is half queued when a command goes out: a PASV
\* that does has its transfer behind it.
LEMMA SendCommandIInv ==
  ASSUME IInv, NEW t \in Threads, SendCommand(t)
  PROVE  IInv'
<1> USE ThreadsAssumption DEF Threads, Goto, SendCommand
<1>1. /\ wire = <<>> /\ iCmdInProgress /\ iCmdQ # <<>> /\ cur[t] = <<Head(iCmdQ)>>
      /\ iProtocolState = ClassOf(Head(iCmdQ).cmd)
  BY DEF IInv, OneOwner, Owns, SendsFront
<1>2. wire' = <<Head(iCmdQ)>> /\ Head(iCmdQ) \in Command /\ Head(iCmdQ) = iCmdQ[1]
  BY <1>1 DEF IInv, TypeOK
<1>3. TypeOK'
  BY <1>2 DEF IInv, TypeOK
<1>4. CallersStayInCalls' /\ OneOwner' /\ SendsFront'
  BY <1>1 DEF IInv, TypeOK, CallersStayInCalls, OneOwner, Owns, SendsFront
<1>5. PushersHoldLock'
  BY DEF IInv, TypeOK, PushersHoldLock, Paired
<1>6. WireIsFront'
  BY <1>1, <1>2 DEF WireIsFront
<1>7. SentPasvIsPaired'
  <2> SUFFICES ASSUME Head(iCmdQ).cmd = "PASV"
               PROVE  FrontPaired
    BY DEF SentPasvIsPaired, FrontPaired
  <2>1. 1 \in 1..Len(iCmdQ) /\ iCmdQ[1].cmd = "PASV" /\ Len(iCmdQ) \in Nat
    BY <1>1, <1>2 DEF IInv, TypeOK
  <2>2. PairedAt(1)
    BY <2>1 DEF IInv, PasvHasItsTransfer
  <2> QED BY <2>1, <2>2 DEF PairedAt, FrontPaired
<1>8. PasvHasItsTransfer' /\ SkipStaysInCall'
  BY DEF IInv, TypeOK, PasvHasItsTransfer, PairedAt, SkipStaysInCall
<1> QED BY <1>3, <1>4, <1>5, <1>6, <1>7, <1>8 DEF IInv

\* A failed login empties the queue, whatever a call was emplacing.
LEMMA DropAllIInv ==
  ASSUME IInv, DropAll
  PROVE  IInv'
<1> USE ThreadsAssumption DEF Threads, Goto, DropAll
<1>1. pc[Worker] = "drop" /\ wire = <<>> /\ \A t \in Threads : Owns(t) => t = Worker
  BY DEF IInv, OneOwner, Owns
<1>2. TypeOK' /\ CallersStayInCalls' /\ OneOwner'
  BY DEF IInv, TypeOK, CallersStayInCalls, OneOwner, Owns
<1>3. SendsFront'
  BY <1>1 DEF IInv, TypeOK, SendsFront, Owns
<1>4. PushersHoldLock'
  BY DEF IInv, TypeOK, PushersHoldLock, Paired
<1>5. WireIsFront' /\ SentPasvIsPaired'
  BY <1>1 DEF WireIsFront, SentPasvIsPaired
<1>6. PasvHasItsTransfer' /\ SkipStaysInCall'
  BY DEF IInv, TypeOK, PasvHasItsTransfer, SkipStaysInCall
<1> QED BY <1>2, <1>3, <1>4, <1>5, <1>6 DEF IInv

\* A reply takes its command off the wire; the worker owns the front now.
LEMMA ReplyIInv ==
  ASSUME IInv, NEW refused \in BOOLEAN, Reply(refused)
  PROVE  IInv'
<1> USE ThreadsAssumption DEF Threads, Goto, Reply
<1>1. /\ iCmdQ # <<>> /\ wire = <<Head(iCmdQ)>> /\ iCmdInProgress
      /\ iProtocolState = ClassOf(Head(iCmdQ).cmd)
  BY DEF IInv, WireIsFront, OneOwner
<1>2. wire' = <<>> /\ Head(iCmdQ) = iCmdQ[1] /\ Len(iCmdQ) \in Nat /\ Len(iCmdQ) >= 1
  BY <1>1 DEF IInv, TypeOK
<1>3. \A t \in Threads : ~Owns(t)
  BY DEF IInv, OneOwner
<1>4. TypeOK'
  BY <1>2 DEF IInv, TypeOK
<1>5. CallersStayInCalls' /\ OneOwner'
  BY <1>1, <1>2, <1>3 DEF IInv, TypeOK, CallersStayInCalls, OneOwner, Owns
<1>6. SendsFront'
  BY <1>3 DEF IInv, TypeOK, SendsFront, Owns
<1>7. PushersHoldLock'
  BY DEF IInv, TypeOK, PushersHoldLock, Paired
<1>8. WireIsFront' /\ SentPasvIsPaired'
  BY <1>2 DEF WireIsFront, SentPasvIsPaired
<1>9. PasvHasItsTransfer'
  BY DEF IInv, PasvHasItsTransfer, PairedAt
<1>10. SkipStaysInCall'
  <2>1. CASE refused
    <3>1. Head(iCmdQ).cmd = "PASV"
      BY <1>1, <2>1 DEF ClassOf
    <3>2. FrontPaired
      BY <1>1, <3>1 DEF IInv, SentPasvIsPaired
    <3> QED BY <1>2, <2>1, <3>2 DEF SkipStaysInCall, FrontPaired
  <2>2. CASE ~refused
    BY <1>2, <2>2 DEF SkipStaysInCall
  <2> QED BY <2>1, <2>2
<1> QED BY <1>4, <1>5, <1>6, <1>7, <1>8, <1>9, <1>10 DEF IInv

\* A pop finds a command, and what is left is paired as before.
LEMMA PopFrontIInv ==
  ASSUME IInv, PopFront
  PROVE  IInv'
<1> USE ThreadsAssumption DEF Threads, PopFront
<1>1. /\ npop \in 1..2 /\ npop <= Len(iCmdQ) /\ Len(iCmdQ) \in Nat /\ iCmdQ \in Seq(Command)
      /\ wire = <<>> /\ \A t \in Threads : Owns(t) => t = Worker
  BY DEF IInv, TypeOK, SkipStaysInCall, OneOwner, Owns
<1>2. /\ iCmdQ' \in Seq(Command) /\ Len(iCmdQ') = Len(iCmdQ) - 1
      /\ \A i \in 1..Len(iCmdQ') : iCmdQ'[i] = iCmdQ[i + 1]
  BY <1>1
<1>3. TypeOK'
  BY <1>1, <1>2 DEF IInv, TypeOK
<1>4. CallersStayInCalls' /\ OneOwner'
  BY DEF IInv, CallersStayInCalls, OneOwner, Owns
<1>5. SendsFront'
  BY <1>1 DEF IInv, SendsFront, Owns
<1>6. PushersHoldLock'
  BY DEF IInv, PushersHoldLock, Paired
<1>7. WireIsFront' /\ SentPasvIsPaired'
  BY <1>1 DEF WireIsFront, SentPasvIsPaired
<1>8. PasvHasItsTransfer'
  <2> SUFFICES ASSUME NEW i \in 1..Len(iCmdQ'), iCmdQ'[i].cmd = "PASV"
               PROVE  PairedAt(i)'
    BY DEF PasvHasItsTransfer
  <2>1. i \in Nat /\ i + 1 \in 1..Len(iCmdQ) /\ iCmdQ'[i] = iCmdQ[i + 1]
    BY <1>1, <1>2
  <2>2. PairedAt(i + 1)
    BY <2>1 DEF IInv, PasvHasItsTransfer
  <2>3. CASE i + 1 < Len(iCmdQ)
    <3>1. i < Len(iCmdQ') /\ iCmdQ'[i + 1] = iCmdQ[i + 2]
      BY <1>1, <1>2, <2>1, <2>3
    <3> QED BY <2>1, <2>2, <2>3, <3>1 DEF PairedAt
  <2>4. CASE i + 1 = Len(iCmdQ)
    <3>1. i = Len(iCmdQ')
      BY <1>1, <1>2, <2>1, <2>4
    <3> QED BY <2>1, <2>2, <2>4, <3>1 DEF PairedAt
  <2> QED BY <1>1, <2>1, <2>3, <2>4
<1>9. SkipStaysInCall'
  BY <1>1, <1>2 DEF SkipStaysInCall
<1> QED BY <1>3, <1>4, <1>5, <1>6, <1>7, <1>8, <1>9 DEF IInv

\* Every step of a caller or of the worker preserves IInv.
LEMMA NextIInv == IInv /\ [Next]_vars => IInv'
<1> SUFFICES ASSUME IInv, [Next]_vars PROVE IInv'
  OBVIOUS
<1>1. CASE UNCHANGED vars
  BY <1>1, StutterIInv
<1>2. ASSUME NEW t \in Callers, CallerStep(t) PROVE IInv'
  BY <1>2, CallIInv, EmplaceIInv, UnlockIInv DEF CallerStep
<1>3. CASE WorkerStep
  BY <1>3, FlagStepIInv, DropAllIInv, ReplyIInv, PopFrontIInv DEF WorkerStep, SkipCommand, Threads
<1>4. ASSUME NEW t \in Threads, ProcessNextCmd(t) PROVE IInv'
  BY <1>4, FlagStepIInv, FoundFrontIInv, SendCommandIInv DEF ProcessNextCmd
<1> QED BY <1>1, <1>2, <1>3, <1>4 DEF Next

\* IInv holds in every reachable state, however many threads call.
THEOREM Inductive == Spec => []IInv
BY InitIInv, NextIInv, PTL DEF Spec

----------------------------------------------------------------------------
(* What follows *)

\* The state of the queue, of the flag and of the threads is well formed.
THEOREM TypeCorrect == Spec => []TypeOK
<1>1. IInv => TypeOK BY DEF IInv
<1> QED BY <1>1, Inductive, PTL

\* At most one command is ever on the wire: the front of iCmdQ, in the state
\* that handles its reply, for any number of threads calling the API.
THEOREM ReplyMeetsItsCommand == Spec => []WireIsFront
<1>1. IInv => WireIsFront BY DEF IInv
<1> QED BY <1>1, Inductive, PTL

\* Overlapping calls never interleave their batches in iCmdQ.
THEOREM BatchesStayTogether == Spec => []PasvHasItsTransfer
<1>1. IInv => PasvHasItsTransfer BY DEF IInv
<1> QED BY <1>1, Inductive, PTL

\* SkipCommand pops only commands that are there and of one call, though it
\* pops without iLock.
THEOREM SkipsItsOwn == Spec => []SkipStaysInCall
<1>1. IInv => SkipStaysInCall BY DEF IInv
<1> QED BY <1>1, Inductive, PTL

----------------------------------------------------------------------------
(* Suffixes of the queue *)

\* Appending to a sequence appends to each of its suffixes.
LEMMA SuffixOfAppend ==
  ASSUME NEW S, NEW q \in Seq(S), NEW c \in S, NEW k \in 0..Len(q)
  PROVE  SubSeq(Append(q, c), k + 1, Len(q) + 1) = Append(SubSeq(q, k + 1, Len(q)), c)
<1> DEFINE s == SubSeq(Append(q, c), k + 1, Len(q) + 1)
           t == Append(SubSeq(q, k + 1, Len(q)), c)
<1>1. s \in Seq(S) /\ Len(s) = Len(q) + 1 - k
  OBVIOUS
<1>2. t \in Seq(S) /\ Len(t) = Len(q) + 1 - k
  OBVIOUS
<1>3. ASSUME NEW i \in 1..Len(s) PROVE s[i] = t[i]
  <2>1. Len(q) \in Nat /\ k \in Nat /\ k <= Len(q) /\ i \in Nat /\ 1 <= i /\ i <= Len(q) + 1 - k
    BY <1>1
  <2>2. s[i] = Append(q, c)[k + i]
    BY <2>1
  <2>3. CASE i = Len(q) + 1 - k
    <3>1. Append(q, c)[k + i] = c
      BY <2>1, <2>3
    <3>2. t[i] = c
      BY <2>1, <2>3
    <3> QED BY <2>2, <3>1, <3>2
  <2>4. CASE i < Len(q) + 1 - k
    <3>1. Append(q, c)[k + i] = q[k + i]
      BY <2>1, <2>4
    <3>2. t[i] = q[k + i]
      BY <2>1, <2>4
    <3> QED BY <2>2, <3>1, <3>2
  <2> QED BY <2>1, <2>3, <2>4
<1> QED BY <1>1, <1>2, <1>3, SeqEqual

\* The suffix behind k + 1 elements is the suffix of the tail behind k.
LEMMA SuffixOfTail ==
  ASSUME NEW S, NEW q \in Seq(S), q # <<>>, NEW k \in 1..Len(q)
  PROVE  SubSeq(Tail(q), k, Len(q) - 1) = SubSeq(q, k + 1, Len(q))
<1> DEFINE s == SubSeq(Tail(q), k, Len(q) - 1)
           t == SubSeq(q, k + 1, Len(q))
<1>1. s \in Seq(S) /\ Len(s) = Len(q) - k
  OBVIOUS
<1>2. t \in Seq(S) /\ Len(t) = Len(q) - k
  OBVIOUS
<1>3. ASSUME NEW i \in 1..Len(s) PROVE s[i] = t[i]
  BY <1>1
<1> QED BY <1>1, <1>2, <1>3, SeqEqual

\* The suffixes behind nothing, behind the first and behind the second element.
LEMMA SmallSuffixes ==
  ASSUME NEW S, NEW q \in Seq(S)
  PROVE  /\ SubSeq(q, 1, Len(q)) = q
         /\ q # <<>> => SubSeq(q, 2, Len(q)) = Tail(q)
         /\ Len(q) >= 2 => SubSeq(q, 3, Len(q)) = Tail(Tail(q))
<1>1. SubSeq(q, 1, Len(q)) = q
  BY SubSeqFull
<1>2. ASSUME q # <<>> PROVE SubSeq(q, 2, Len(q)) = Tail(q)
  BY <1>2, TailIsSubSeq
<1>3. ASSUME Len(q) >= 2 PROVE SubSeq(q, 3, Len(q)) = Tail(Tail(q))
  <2>1. q # <<>> /\ 2 \in 1..Len(q)
    BY <1>3
  <2>2. Tail(SubSeq(q, 2, Len(q))) = SubSeq(q, 3, Len(q))
    BY <2>1, HeadTailOfSubSeq
  <2> QED BY <1>2, <2>1, <2>2
<1> QED BY <1>1, <1>2, <1>3

----------------------------------------------------------------------------
(* The counter of SkipCommand *)

\* Commands are due to be popped only while SkipCommand is running.
PopsOnlyInSkip == pc[Worker] # "pop" => npop = 0

LEMMA PopsOnlyInSkipInductive == Spec => []PopsOnlyInSkip
<1>1. Init => PopsOnlyInSkip
  BY DEF Init, PopsOnlyInSkip
<1>2. TypeOK /\ PopsOnlyInSkip /\ [Next]_vars => PopsOnlyInSkip'
  <2> SUFFICES ASSUME TypeOK, PopsOnlyInSkip, [Next]_vars PROVE PopsOnlyInSkip'
    OBVIOUS
  <2> USE ThreadsAssumption DEF Threads, Goto, PopsOnlyInSkip
  <2>1. CASE UNCHANGED vars
    BY <2>1 DEF vars
  <2>2. ASSUME NEW t \in Callers, CallerStep(t) PROVE PopsOnlyInSkip'
    BY <2>2 DEF TypeOK, CallerStep, Call, Emplace, Unlock
  <2>3. CASE WorkerStep
    BY <2>3 DEF TypeOK, WorkerStep, LoginEnds, ProcessLoginEvent, LoginUnheard, DropAll, Reply, SkipCommand, PopFront, Popped, ClearFlag
  <2>4. ASSUME NEW t \in Threads, ProcessNextCmd(t) PROVE PopsOnlyInSkip'
    BY <2>4 DEF TypeOK, ProcessNextCmd, TestAndSet, FoundEmpty, GiveUp, FoundFront, SendCommand
  <2> QED BY <2>1, <2>2, <2>3, <2>4 DEF Next
<1> QED BY <1>1, <1>2, TypeCorrect, PTL DEF Spec

----------------------------------------------------------------------------
(* The simulation *)

Pending == SubSeq(iCmdQ, npop + 1, Len(iCmdQ))
Open    == pc[Worker] \notin {"login", "unheard", "drop"}

\* What the simulation knows of a state.
Known == IInv /\ PopsOnlyInSkip

\* SkipCommand never has more to pop than there is.
LEMMA EnoughToPop ==
  ASSUME Known
  PROVE  iCmdQ \in Seq(Command) /\ npop \in 0..Len(iCmdQ)
BY DEF Known, PopsOnlyInSkip, IInv, TypeOK, SkipStaysInCall

\* Emplacing a command is submitting it.
LEMMA EmplaceSubmits ==
  ASSUME Known, NEW t \in Callers, Emplace(t)
  PROVE  Service!Next
<1> DEFINE c == Head(todo[t])
<1>1. c \in Command /\ iCmdQ' = Append(iCmdQ, c)
  BY DEF Known, IInv, TypeOK, Emplace
<1>2. iCmdQ \in Seq(Command) /\ npop \in 0..Len(iCmdQ)
  BY EnoughToPop
<1>3. Len(iCmdQ') = Len(iCmdQ) + 1
  BY <1>1, <1>2
<1> HIDE DEF c
<1>4. Pending' = Append(Pending, c)
  BY <1>1, <1>2, <1>3, SuffixOfAppend DEF Emplace, Pending
<1>5. UNCHANGED <<wire, Open>>
  BY DEF Emplace, Open
<1>6. Service!Submit(c)
  BY <1>4, <1>5 DEF Service!Submit, Pending, Open
<1> QED BY <1>1, <1>6 DEF Service!Next

\* Writing a command is issuing the oldest one.
LEMMA SendIssues ==
  ASSUME Known, NEW t \in Threads, SendCommand(t)
  PROVE  Service!Next
<1> USE ThreadsAssumption DEF Threads, Goto, SendCommand
<1>1. /\ pc[t] = "send" /\ wire = <<>> /\ iCmdQ # <<>> /\ cur[t] = <<Head(iCmdQ)>>
      /\ iCmdQ \in Seq(Command)
      /\ \A u \in Threads : Owns(u) => u = t
  BY DEF Known, IInv, TypeOK, SendsFront, OneOwner, Owns
<1>2. pc[Worker] \notin {"login", "unheard", "drop", "pop"} /\ npop = 0
  BY <1>1 DEF Known, Owns, PopsOnlyInSkip
<1>3. Open /\ Open'
  BY <1>2 DEF Known, IInv, TypeOK, Open
<1>4. Pending = iCmdQ /\ Pending' = iCmdQ
  BY <1>1, <1>2, SmallSuffixes DEF Pending
<1>5. wire' = <<Head(iCmdQ)>>
  BY <1>1
<1>6. Service!Issue
  BY <1>1, <1>3, <1>4, <1>5 DEF Service!Issue, Pending, Open
<1> QED BY <1>6 DEF Service!Next

\* A reply retires the command it answers, and a refused PASV its transfer.
LEMMA ReplyRetires ==
  ASSUME Known, NEW refused \in BOOLEAN, Reply(refused)
  PROVE  Service!Next
<1> USE ThreadsAssumption DEF Threads, Goto, Reply
<1>1. /\ iCmdQ \in Seq(Command) /\ iCmdQ # <<>> /\ wire = <<Head(iCmdQ)>>
      /\ iProtocolState = ClassOf(Head(iCmdQ).cmd) /\ npop = 0
  BY DEF Known, IInv, TypeOK, WireIsFront, PopsOnlyInSkip
<1>2. Pending = iCmdQ /\ wire' = <<>> /\ UNCHANGED Open
  BY <1>1, SmallSuffixes DEF Known, IInv, TypeOK, Pending, Open
<1>3. CASE ~refused
  <2>1. Pending' = Tail(iCmdQ)
    BY <1>1, <1>3, SmallSuffixes DEF Pending
  <2>2. Service!Retire
    BY <1>1, <1>2, <2>1 DEF Service!Retire, Pending, Open
  <2> QED BY <2>2 DEF Service!Next
<1>4. CASE refused
  <2>1. iCmdQ[1].cmd = "PASV" /\ Head(iCmdQ) = iCmdQ[1]
    BY <1>1, <1>4 DEF ClassOf
  <2>2. FrontPaired
    BY <1>1, <2>1 DEF Known, IInv, SentPasvIsPaired
  <2>3. Pending' = Tail(Tail(iCmdQ))
    BY <1>1, <1>4, <2>2, SmallSuffixes DEF Pending, FrontPaired
  <2>4. /\ Len(Pending) >= 2 /\ wire = <<Head(Pending)>> /\ Pending[1].cmd = "PASV"
        /\ IsTransferCommand(Pending[2].cmd) /\ Pending[1].call = Pending[2].call
        /\ Pending' = Tail(Tail(Pending))
    BY <1>1, <1>2, <2>1, <2>2, <2>3 DEF FrontPaired
  <2>5. wire' = <<>> /\ UNCHANGED Open
    BY <1>2
  <2>6. Service!RetireRefused
    BY <2>4, <2>5 DEF Service!RetireRefused, Pending, Open,
       IsTransferCommand, Service!IsTransferCommand, TransferCommands, Service!TransferCommands
  <2> QED BY <2>6 DEF Service!Next
<1> QED BY <1>3, <1>4

\* The login opens the service; a failed one rejects what was queued.
LEMMA LoginOpens ==
  ASSUME Known, DropAll \/ \E outcome \in LoginOutcomes : LoginEnds(outcome)
  PROVE  Service!Next \/ UNCHANGED <<Pending, wire, Open>>
<1> USE ThreadsAssumption DEF Threads, Goto
<1>1. CASE DropAll
  <2>1. ~Open /\ Open' /\ UNCHANGED wire
    BY <1>1 DEF DropAll, Open, Known, IInv, TypeOK
  <2>2. npop' = 0 /\ iCmdQ' = <<>>
    BY <1>1 DEF DropAll, Known, PopsOnlyInSkip
  <2>3. Pending' = <<>>
    BY <2>2 DEF Pending
  <2>4. Service!Reject
    BY <2>1, <2>3 DEF Service!Reject, Pending, Open
  <2> QED BY <2>4 DEF Service!Next
<1>2. CASE ProcessLoginEvent(TRUE)
  <2>1. ~Open /\ Open' /\ UNCHANGED <<Pending, wire>>
    BY <1>2 DEF ProcessLoginEvent, Open, Pending, Known, IInv, TypeOK
  <2>2. Service!Open
    BY <2>1 DEF Service!Open, Pending, Open
  <2> QED BY <2>2 DEF Service!Next
<1>3. CASE ProcessLoginEvent(FALSE) \/ LoginUnheard
  <2>1. ~Open /\ ~Open' /\ UNCHANGED <<Pending, wire>>
    BY <1>3 DEF ProcessLoginEvent, LoginUnheard, Open, Pending, Known, IInv, TypeOK
  <2> QED BY <2>1 DEF Open
<1> QED BY <1>1, <1>2, <1>3 DEF LoginEnds

\* A pop does not change what is pending: the reply has retired it already.
LEMMA PopStutters ==
  ASSUME Known, PopFront
  PROVE  UNCHANGED <<Pending, wire, Open>>
<1>1. iCmdQ \in Seq(Command) /\ npop \in 1..Len(iCmdQ) /\ iCmdQ # <<>>
  BY EnoughToPop DEF PopFront
<1>2. SubSeq(Tail(iCmdQ), npop, Len(iCmdQ) - 1) = SubSeq(iCmdQ, npop + 1, Len(iCmdQ))
  BY <1>1, SuffixOfTail
<1>3. Len(iCmdQ') = Len(iCmdQ) - 1 /\ npop' + 1 = npop
  BY <1>1 DEF PopFront
<1>4. Pending' = Pending
  BY <1>2, <1>3 DEF PopFront, Pending
<1> QED BY <1>4 DEF PopFront, Open

\* The steps of a thread that the service does not see: iLock, the flag, and
\* the choice of the front.
LEMMA InnerStepStutters ==
  ASSUME Known,
         \/ \E t \in Callers : Unlock(t) \/ \E api \in Apis : Call(t, api)
         \/ \E t \in Threads : TestAndSet(t) \/ FoundEmpty(t) \/ FoundFront(t) \/ GiveUp(t)
         \/ Popped \/ ClearFlag \/ UNCHANGED vars
  PROVE  UNCHANGED <<Pending, wire, Open>>
<1> USE ThreadsAssumption DEF Threads, Goto
<1>1. UNCHANGED <<iCmdQ, npop, wire>>
  BY DEF Unlock, Call, TestAndSet, FoundEmpty, FoundFront, GiveUp, Popped, ClearFlag, vars
<1>2. UNCHANGED Open
  BY DEF Unlock, Call, TestAndSet, FoundEmpty, FoundFront, GiveUp, Popped, ClearFlag, vars,
         Open, Known, IInv, TypeOK
<1> QED BY <1>1, <1>2 DEF Pending

\* Every step is a step of the service or invisible to it.
LEMMA StepSimulation == Known /\ [Next]_vars => [Service!Next]_(Service!serviceVars)
<1> SUFFICES ASSUME Known, [Next]_vars
             PROVE  Service!Next \/ UNCHANGED <<Pending, wire, Open>>
  BY DEF Service!serviceVars, Pending, Open
<1>1. CASE UNCHANGED vars
  BY <1>1, InnerStepStutters
<1>2. ASSUME NEW t \in Callers, CallerStep(t)
      PROVE  Service!Next \/ UNCHANGED <<Pending, wire, Open>>
  BY <1>2, EmplaceSubmits, InnerStepStutters DEF CallerStep
<1>3. CASE WorkerStep
  BY <1>3, LoginOpens, ReplyRetires, PopStutters, InnerStepStutters DEF WorkerStep, SkipCommand
<1>4. ASSUME NEW t \in Threads, ProcessNextCmd(t)
      PROVE  Service!Next \/ UNCHANGED <<Pending, wire, Open>>
  BY <1>4, SendIssues, InnerStepStutters DEF ProcessNextCmd
<1> QED BY <1>1, <1>2, <1>3, <1>4 DEF Next

\* CProtocolFTP's threads implement the command service: commands are served
\* in order, one at a time, after the login, each retired by its own reply.
THEOREM Refinement == Spec => ServesInOrder
<1>1. Init => Service!Init
  <2> SUFFICES ASSUME Init PROVE Service!Init
    OBVIOUS
  <2>1. iCmdQ = <<>> /\ npop = 0 /\ wire = <<>> /\ pc[Worker] = "login"
    BY ThreadsAssumption DEF Init, Threads
  <2>2. Pending = <<>>
    BY <2>1 DEF Pending
  <2> QED BY <2>1, <2>2 DEF Service!Init, Pending
<1>2. Spec => []Known
  BY Inductive, PopsOnlyInSkipInductive, PTL DEF Known
<1> QED BY <1>1, <1>2, StepSimulation, PTL DEF Spec, ServesInOrder, Service!Spec
============================================================================
