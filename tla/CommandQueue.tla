--------------------------- MODULE CommandQueue ----------------------------
(***************************************************************************)
(* The command queue of CProtocolFTP at the granularity of its threads.    *)
(* Any number of application threads call the API while the dispatcher's   *)
(* worker thread handles replies; iCmdQ is appended to under iLock, but    *)
(* popped and read without it, the try-lock iCmdInProgress deciding who    *)
(* may look at the front.  Each step below is one shared access: one       *)
(* emplace_back, one pop_front, one test_and_set, one clear, one Write.    *)
(***************************************************************************)
EXTENDS FtpCommands

CONSTANTS Callers,        \* application threads
          Worker,         \* the dispatcher's thread
          NoThread,       \* nobody: iLock is free
          Tls,            \* the control channel is TLS::Yes or TLS::Implicit
          LoginOutcomes,  \* how the login may end, see LoginEnds
          MaxCalls        \* bound: API calls per thread

ASSUME ThreadsAssumption == Worker \notin Callers /\ NoThread \notin Callers
ASSUME TlsAssumption     == Tls \in BOOLEAN
ASSUME LoginAssumption   == LoginOutcomes \subseteq {"accepted", "refused", "unheard"}
ASSUME BoundAssumption   == MaxCalls \in Nat

Threads == Callers \cup {Worker}
Command == [cmd : CommandNames, call : Callers \X (0..MaxCalls)]

VARIABLES
  iCmdQ,            \* std::list of commands
  iCmdInProgress,   \* std::atomic_flag
  iProtocolState,   \* "INIT" while logging in, then the class of the command
  iLock,            \* holder of CSubject::iLock, or NoThread
  pc,               \* where each thread is
  todo,             \* commands the call in progress has still to emplace
  cur,              \* the front ProcessNextCmd bound before sending
  npop,             \* pop_fronts SkipCommand has still to do
  wire,             \* commands sent and not yet answered
  made              \* API calls made, per thread

vars == <<iCmdQ, iCmdInProgress, iProtocolState, iLock, pc, todo, cur, npop, wire, made>>

Goto(t, from, to) == pc[t] = from /\ pc' = [pc EXCEPT ![t] = to]

\* The constructor sets the flag: nothing is sent until the login clears it.
Init ==
  /\ iCmdQ = <<>> /\ iCmdInProgress = TRUE /\ iProtocolState = "INIT"
  /\ iLock = NoThread /\ npop = 0 /\ wire = <<>>
  /\ pc   = [t \in Threads |-> IF t = Worker THEN "login" ELSE "idle"]
  /\ todo = [t \in Callers |-> <<>>]
  /\ cur  = [t \in Threads |-> <<>>]
  /\ made = [t \in Callers |-> 0]

----------------------------------------------------------------------------
(* The API calls *)

Tagged(names, call) == [i \in 1..Len(names) |-> [cmd |-> names[i], call |-> call]]

\* Mutant of Call: the commands of a call are emplaced without iLock.
CallUnlocked(t, api) ==
  /\ made[t] < MaxCalls
  /\ Goto(t, "idle", "push")
  /\ iLock' = t
  /\ todo' = [todo EXCEPT ![t] = Tagged(CommandsOf(api, Tls), <<t, made[t]>>)]
  /\ made' = [made EXCEPT ![t] = @ + 1]
  /\ UNCHANGED <<iCmdQ, iCmdInProgress, iProtocolState, cur, npop, wire>>

Call(t, api) ==
  /\ made[t] < MaxCalls /\ iLock = NoThread
  /\ Goto(t, "idle", "push")
  /\ iLock' = t
  /\ todo' = [todo EXCEPT ![t] = Tagged(CommandsOf(api, Tls), <<t, made[t]>>)]
  /\ made' = [made EXCEPT ![t] = @ + 1]
  /\ UNCHANGED <<iCmdQ, iCmdInProgress, iProtocolState, cur, npop, wire>>

\* Mutant of Emplace: a command jumps the queue.
EmplaceFront(t) ==
  /\ pc[t] = "push" /\ todo[t] # <<>>
  /\ iCmdQ' = <<Head(todo[t])>> \o iCmdQ
  /\ todo' = [todo EXCEPT ![t] = Tail(@)]
  /\ UNCHANGED <<iCmdInProgress, iProtocolState, iLock, pc, cur, npop, wire, made>>

Emplace(t) ==
  /\ pc[t] = "push" /\ todo[t] # <<>>
  /\ iCmdQ' = Append(iCmdQ, Head(todo[t]))
  /\ todo' = [todo EXCEPT ![t] = Tail(@)]
  /\ UNCHANGED <<iCmdInProgress, iProtocolState, iLock, pc, cur, npop, wire, made>>

Unlock(t) ==
  /\ todo[t] = <<>>
  /\ Goto(t, "push", "tas")
  /\ iLock' = NoThread
  /\ UNCHANGED <<iCmdQ, iCmdInProgress, iProtocolState, todo, cur, npop, wire, made>>

----------------------------------------------------------------------------
(* ProcessNextCmd, run by the callers and by the worker *)

\* Mutant of TestAndSet: the flag's old value is not looked at.
TestAndSetBlindly(t) ==
  /\ Goto(t, "tas", "size")
  /\ iCmdInProgress' = TRUE
  /\ UNCHANGED <<iCmdQ, iProtocolState, iLock, todo, cur, npop, wire, made>>

TestAndSet(t) ==
  /\ Goto(t, "tas", IF iCmdInProgress THEN "idle" ELSE "size")
  /\ iCmdInProgress' = TRUE
  /\ UNCHANGED <<iCmdQ, iProtocolState, iLock, todo, cur, npop, wire, made>>

\* iCmdQ is empty: give the flag back, in a step of its own.
FoundEmpty(t) ==
  /\ iCmdQ = <<>>
  /\ Goto(t, "size", "giveup")
  /\ UNCHANGED <<iCmdQ, iCmdInProgress, iProtocolState, iLock, todo, cur, npop, wire, made>>

\* Mutant of GiveUp: an empty queue is left with the flag taken.
KeepFlag(t) ==
  /\ Goto(t, "giveup", "idle")
  /\ UNCHANGED <<iCmdQ, iCmdInProgress, iProtocolState, iLock, todo, cur, npop, wire, made>>

GiveUp(t) ==
  /\ Goto(t, "giveup", "idle")
  /\ iCmdInProgress' = FALSE
  /\ UNCHANGED <<iCmdQ, iProtocolState, iLock, todo, cur, npop, wire, made>>

FoundFront(t) ==
  /\ iCmdQ # <<>>
  /\ Goto(t, "size", "send")
  /\ cur' = [cur EXCEPT ![t] = <<Head(iCmdQ)>>]
  /\ iProtocolState' = ClassOf(Head(iCmdQ).cmd)
  /\ UNCHANGED <<iCmdQ, iCmdInProgress, iLock, todo, npop, wire, made>>

\* CSubject::Write takes iLock for the duration of the write.
SendCommand(t) ==
  /\ iLock = NoThread
  /\ Goto(t, "send", "idle")
  /\ wire' = wire \o cur[t]
  /\ cur' = [cur EXCEPT ![t] = <<>>]
  /\ UNCHANGED <<iCmdQ, iCmdInProgress, iProtocolState, iLock, todo, npop, made>>

ProcessNextCmd(t) ==
  TestAndSet(t) \/ FoundEmpty(t) \/ GiveUp(t) \/ FoundFront(t) \/ SendCommand(t)

----------------------------------------------------------------------------
(* The worker: the end of the login, then one reply per command.  The      *)
(* phases of a transfer between its command and the reply that retires it  *)
(* are in FtpSession.                                                      *)

ProcessLoginEvent(status) ==
  /\ Goto(Worker, "login", IF status THEN "clear" ELSE "drop")
  /\ UNCHANGED <<iCmdQ, iCmdInProgress, iProtocolState, iLock, todo, cur, npop, wire, made>>

\* Rows of FSM that end the login without ProcessLoginEvent: AUTH answered with a
\* 3yz, USER with a 2yz (nobody asks for a password), 4yz or 5yz, PASS with a 3yz.
LoginUnheard ==
  /\ Goto(Worker, "login", "unheard")
  /\ UNCHANGED <<iCmdQ, iCmdInProgress, iProtocolState, iLock, todo, cur, npop, wire, made>>

LoginEnds(outcome) ==
  \/ outcome = "accepted" /\ ProcessLoginEvent(TRUE)
  \/ outcome = "refused" /\ ProcessLoginEvent(FALSE)
  \/ outcome = "unheard" /\ LoginUnheard

\* iCmdQ.clear() is done without iLock.
DropAll ==
  /\ Goto(Worker, "drop", "giveup")
  /\ iCmdQ' = <<>>
  /\ UNCHANGED <<iCmdInProgress, iProtocolState, iLock, todo, cur, npop, wire, made>>

\* Mutants of Reply: every refusal skips two commands, whatever was refused;
\* one command too many is skipped behind a refused PASV.
RefusalSkipsTwo(refused) ==
  /\ wire # <<>> /\ iProtocolState \in {"GEN", "PASV", "DATA"}
  /\ Goto(Worker, "idle", "pop")
  /\ npop' = IF refused THEN 2 ELSE 1
  /\ iProtocolState' = IF iProtocolState = "PASV" /\ ~refused THEN "DATA"
                       ELSE IF iProtocolState = "DATA" THEN "xyz" ELSE "READY"
  /\ wire' = Tail(wire)
  /\ UNCHANGED <<iCmdQ, iCmdInProgress, iLock, todo, cur, made>>

RefusalSkipsThree(refused) ==
  /\ wire # <<>> /\ iProtocolState \in {"GEN", "PASV", "DATA"}
  /\ refused => iProtocolState = "PASV"
  /\ Goto(Worker, "idle", "pop")
  /\ npop' = IF refused THEN 3 ELSE 1
  /\ iProtocolState' = IF iProtocolState = "PASV" /\ ~refused THEN "DATA"
                       ELSE IF iProtocolState = "DATA" THEN "xyz" ELSE "READY"
  /\ wire' = Tail(wire)
  /\ UNCHANGED <<iCmdQ, iCmdInProgress, iLock, todo, cur, made>>

\* StateMachine: the protocol state, not the command, selects the handler.
\* A refused PASV skips the transfer queued behind it as well.
Reply(refused) ==
  /\ wire # <<>> /\ iProtocolState \in {"GEN", "PASV", "DATA"}
  /\ refused => iProtocolState = "PASV"
  /\ Goto(Worker, "idle", "pop")
  /\ npop' = IF refused THEN 2 ELSE 1
  /\ iProtocolState' = IF iProtocolState = "PASV" /\ ~refused THEN "DATA"
                       ELSE IF iProtocolState = "DATA" THEN "xyz" ELSE "READY"
  /\ wire' = Tail(wire)
  /\ UNCHANGED <<iCmdQ, iCmdInProgress, iLock, todo, cur, made>>

PopFront ==
  /\ pc[Worker] = "pop" /\ npop > 0
  /\ iCmdQ' = Tail(iCmdQ)
  /\ npop' = npop - 1
  /\ UNCHANGED <<iCmdInProgress, iProtocolState, iLock, pc, todo, cur, wire, made>>

Popped ==
  /\ npop = 0
  /\ Goto(Worker, "pop", "clear")
  /\ UNCHANGED <<iCmdQ, iCmdInProgress, iProtocolState, iLock, todo, cur, npop, wire, made>>

ClearFlag ==
  /\ Goto(Worker, "clear", "tas")
  /\ iCmdInProgress' = FALSE
  /\ UNCHANGED <<iCmdQ, iProtocolState, iLock, todo, cur, npop, wire, made>>

SkipCommand == PopFront \/ Popped \/ ClearFlag

----------------------------------------------------------------------------
CallerStep(t) == (\E api \in Apis : Call(t, api)) \/ Emplace(t) \/ Unlock(t)

WorkerStep ==
  \/ \E outcome \in LoginOutcomes : LoginEnds(outcome)
  \/ DropAll
  \/ \E refused \in BOOLEAN : Reply(refused)
  \/ SkipCommand

Next == (\E t \in Callers : CallerStep(t)) \/ WorkerStep \/ (\E t \in Threads : ProcessNextCmd(t))

Spec == Init /\ [][Next]_vars

\* Threads are scheduled, the server answers, and a call that was begun is
\* finished; no call is ever owed.
Fairness ==
  /\ WF_vars(WorkerStep)
  /\ \A t \in Callers : WF_vars(Emplace(t) \/ Unlock(t))
  /\ \A t \in Threads : WF_vars(ProcessNextCmd(t))

FairSpec == Spec /\ Fairness

----------------------------------------------------------------------------
(* Properties *)

TypeOK ==
  /\ iCmdQ \in Seq(Command) /\ iCmdInProgress \in BOOLEAN
  /\ iProtocolState \in {"INIT", "GEN", "PASV", "DATA", "READY", "xyz"}
  /\ iLock \in Callers \cup {NoThread}
  /\ pc \in [Threads -> {"login", "unheard", "drop", "idle", "push", "tas", "size",
                         "giveup", "send", "pop", "clear"}]
  /\ todo \in [Callers -> Seq(Command)] /\ cur \in [Threads -> Seq(Command)]
  /\ npop \in 0..2 /\ wire \in Seq(Command)
  /\ made \in [Callers -> 0..MaxCalls]

\* At most one command is on the wire, it is the front of iCmdQ, and the
\* protocol state is the one its reply has to be interpreted in: whatever
\* thread sent it (ProcessNextCmd), StateMachine then calls its handler.
WireIsFront ==
  wire # <<>> => /\ iCmdQ # <<>> /\ wire = <<Head(iCmdQ)>>
                 /\ iProtocolState = ClassOf(Head(iCmdQ).cmd)

\* A PASV anywhere in iCmdQ is followed by the transfer of the same call, or
\* the thread that queued it still holds iLock and emplaces that transfer
\* next: two overlapping Upload/Download calls never interleave their commands.
PairedAt(i) ==
  \/ /\ i < Len(iCmdQ) /\ IsTransferCommand(iCmdQ[i + 1].cmd)
     /\ iCmdQ[i + 1].call = iCmdQ[i].call
  \/ /\ i = Len(iCmdQ) /\ iLock # NoThread /\ todo[iLock] # <<>>
     /\ IsTransferCommand(Head(todo[iLock]).cmd) /\ Head(todo[iLock]).call = iCmdQ[i].call

PasvHasItsTransfer == \A i \in 1..Len(iCmdQ) : iCmdQ[i].cmd = "PASV" => PairedAt(i)

\* SkipCommand(n) finds the n commands it pops, although it pops without
\* iLock, and they belong to one call: it never pops an empty list and a
\* refused PASV never takes another call's command away.
SkipStaysInCall ==
  pc[Worker] = "pop" => /\ npop <= Len(iCmdQ)
                        /\ npop = 2 => iCmdQ[1].call = iCmdQ[2].call

(* The inductive invariant behind the three.  Taking the flag, or putting a  *)
(* command on the wire, makes one party the owner of the front of iCmdQ;     *)
(* emplacing needs iLock instead, and only ever extends the other end.       *)

\* The flag is taken on behalf of a thread at one of these places.
Owns(t) == pc[t] \in {"login", "unheard", "drop", "size", "giveup", "send", "pop", "clear"}

CallersStayInCalls == \A t \in Callers : pc[t] \notin {"login", "unheard", "drop", "pop", "clear"}

OneOwner ==
  /\ \A t, u \in Threads : (Owns(t) /\ Owns(u)) => t = u
  /\ \A t \in Threads : Owns(t) => iCmdInProgress /\ wire = <<>>
  /\ wire # <<>> => iCmdInProgress

SendsFront ==
  \A t \in Threads : pc[t] = "send" =>
    iCmdQ # <<>> /\ cur[t] = <<Head(iCmdQ)>> /\ iProtocolState = ClassOf(Head(iCmdQ).cmd)

\* In a batch, PASV is followed by the transfer of the same call.
Paired(s) ==
  \A i \in 1..Len(s) : s[i].cmd = "PASV" =>
    i < Len(s) /\ IsTransferCommand(s[i + 1].cmd) /\ s[i + 1].call = s[i].call

PushersHoldLock ==
  \A t \in Callers : /\ pc[t] = "push" <=> iLock = t
                     /\ pc[t] # "push" => todo[t] = <<>>
                     /\ Paired(todo[t])

\* The transfer of a PASV on the wire, or being skipped, is queued behind it.
FrontPaired ==
  Len(iCmdQ) >= 2 /\ IsTransferCommand(iCmdQ[2].cmd) /\ iCmdQ[2].call = iCmdQ[1].call

SentPasvIsPaired == (wire # <<>> /\ Head(iCmdQ).cmd = "PASV") => FrontPaired

IInv ==
  /\ TypeOK /\ CallersStayInCalls /\ OneOwner /\ SendsFront /\ PushersHoldLock
  /\ WireIsFront /\ PasvHasItsTransfer /\ SentPasvIsPaired /\ SkipStaysInCall

\* Whoever takes the flag (the constructor, a caller, the worker, or the command
\* on the wire) gives it back: no path through ProcessLoginEvent, ProcessNextCmd
\* or SkipCommand leaves iCmdInProgress set with nobody at work.  What does is a
\* login that ends without ProcessLoginEvent: the constructor's flag then stays.
FlagIsReleased == iCmdInProgress ~> (~iCmdInProgress \/ pc[Worker] = "unheard")

\* A queued QUIT reaches the server ("Sends FTP QUIT command"): the server
\* answers what it gets, so a QUIT that stays in iCmdQ was never sent.
QuitQueued == \E i \in DOMAIN iCmdQ : iCmdQ[i].cmd = "QUIT"
QuitIsSent == QuitQueued ~> ~QuitQueued

\* The threads together implement the service: FIFO, one at a time, retired
\* only by a reply, nothing before the login.
Service == INSTANCE CommandService
             WITH pending <- SubSeq(iCmdQ, npop + 1, Len(iCmdQ)), current <- wire,
                  open <- pc[Worker] \notin {"login", "unheard", "drop"}
ServesInOrder == Service!Spec

============================================================================
