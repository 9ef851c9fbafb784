-------------------------------- MODULE Locks ---------------------------------
(***************************************************************************)
(* Who waits for whose iLock.  Every CSubject has a std::mutex that its    *)
(* own thread cannot take twice; the library takes it to notify observers, *)
(* to write, to list an observer and to read a property, one inside the    *)
(* other.  Here are the locks of the dispatcher, of one FTP protocol and   *)
(* of its control channel, data channel and file, as the dispatcher's      *)
(* worker and any number of application threads take them.                 *)
(*                                                                         *)
(* A thread's todo is what it has still to do: locks to take and to give   *)
(* back, and calls, which are replaced by their bodies when their turn     *)
(* comes.  The state that decides what a call does is here too; which      *)
(* completion comes next, and what a reply calls for, is nondeterministic. *)
(***************************************************************************)
EXTENDS Naturals, Sequences

CONSTANTS
  Apps, Worker, Nobody,  \* application threads, the worker, and no thread
  Tls,                   \* the sockets with TLS, of {"cc", "dc"}
  RefusesIn,             \* subset of {"RETR", "STOR"}: where a callback may return false
  MayHappen              \* subset of {"Stop", "failedWrite", "failedRead", "earlyData"}

ASSUME ThreadsAssumption == Worker \notin Apps /\ Nobody \notin Apps \cup {Worker}
ASSUME WorldAssumption   ==
  /\ Tls \subseteq {"cc", "dc"} /\ RefusesIn \subseteq {"RETR", "STOR"}
  /\ MayHappen \subseteq {"Stop", "failedWrite", "failedRead", "earlyData"}

Threads == Apps \cup {Worker}
Subjects == {"D", "ftp", "cc", "dc", "fl"}

VARIABLES
  iLock,              \* per subject, the thread that holds it, or Nobody
  todo,               \* per thread
  iStopped, sent,     \* sockets that were shut down; that sent a close_notify
  received,           \* sockets whose peer's close_notify was read
  wbio,               \* sockets with bytes of TLS that wait to be written
  iDataChannel,       \* the protocol holds one
  iContinueTransfer,
  transfer,           \* the transfer command in progress, or "none"
  listed, marked,     \* the data channel and the file: in the dispatcher's list; marked
  cause               \* history: per thread, why its call or handler may take a lock out of order

sockets   == <<iStopped, sent, received, wbio>>
transfers == <<iDataChannel, iContinueTransfer, transfer, listed, marked>>
flags == <<sockets, transfers, cause>>
vars == <<iLock, todo, flags>>

Init ==
  /\ iLock = [s \in Subjects |-> Nobody]
  /\ todo = [t \in Threads |-> <<>>] /\ cause = [t \in Threads |-> "none"]
  /\ iStopped = {} /\ sent = {} /\ received = {} /\ wbio = {} /\ listed = {} /\ marked = {}
  /\ iDataChannel = FALSE /\ iContinueTransfer = FALSE /\ transfer = "none"

----------------------------------------------------------------------------
(* Locks and calls *)

Lock(s)   == <<"lock", s>>
Unlock(s) == <<"unlock", s>>

\* Mutant of Guarded: the lock is given back by hand as well.
GuardedAndUnlocked(s, body) == <<Lock(s)>> \o body \o <<Unlock(s), Unlock(s)>>

\* A std::lock_guard on the iLock of s around body.
Guarded(s, body) == <<Lock(s)>> \o body \o <<Unlock(s)>>

At(t, item) == todo[t] # <<>> /\ Head(todo[t]) = item

Continue(t, body) == todo' = [todo EXCEPT ![t] = body \o Tail(@)]

\* From here on the thread may take a lock out of order, for this reason.
Blame(t, why) == cause' = [cause EXCEPT ![t] = why]

TakeLock(t, s) ==
  /\ At(t, Lock(s)) /\ iLock[s] = Nobody
  /\ iLock' = [iLock EXCEPT ![s] = t] /\ Continue(t, <<>>)
  /\ UNCHANGED flags

GiveLock(t, s) ==
  /\ At(t, Unlock(s))
  /\ iLock' = [iLock EXCEPT ![s] = Nobody] /\ Continue(t, <<>>)
  /\ UNCHANGED flags

----------------------------------------------------------------------------
(* Subjects, devices and sockets *)

\* GetProperty and SetProperty, in log lines above all.
Property(s) == Guarded(s, <<>>)

\* The dispatcher lists a device, which learns its target; then an observer of its own is added.
AddListeners(d) == Guarded("D", Property(d)) \o Property(d)

DeviceRead(d)  == << <<"DeviceRead", d>> >>
DeviceWrite(d) == << <<"DeviceWrite", d>> >>
StopSocket(d)  == << <<"StopSocket", d>> >>

\* CDevice::Read: one that fails is logged.  OnFileRead has the file's iLock then.
CDeviceRead(t, d) ==
  /\ At(t, <<"DeviceRead", d>>)
  /\ \/ Continue(t, <<>>) /\ UNCHANGED cause
     \/ /\ "failedRead" \in MayHappen /\ Continue(t, Property(d))
        /\ IF d = "fl" THEN Blame(t, "read") ELSE UNCHANGED cause
  /\ UNCHANGED <<iLock, sockets, transfers>>

\* A write is dropped by a device that is not connected, as a data channel may be,
\* and fails on a socket that was shut down or that the peer reset.
WriteFails(d) == d = "dc" \/ d \in iStopped \/ "failedWrite" \in MayHappen

\* CDevice::Write: one that fails is logged, on the control channel with the
\* protocol's iLock held.  Under TLS it is made for the bytes in the BIO, if any.
CDeviceWrite(t, d) ==
  /\ At(t, <<"DeviceWrite", d>>)
  /\ \/ Continue(t, <<>>) /\ UNCHANGED cause
     \/ /\ d \in Tls => d \in wbio
        /\ WriteFails(d) /\ Continue(t, Property(d))
        /\ IF d = "cc" THEN Blame(t, "write") ELSE UNCHANGED cause
  /\ wbio' = wbio \ {d}
  /\ UNCHANGED <<iLock, iStopped, sent, received, transfers>>

UpdateWBIO(d) == IF d \in Tls THEN << <<"CheckPeer", d>> >> \o DeviceWrite(d) ELSE <<>>

\* The peer's close_notify is logged, and answered unless that was done.
CheckPeerSSLShutdown(t, d) ==
  /\ At(t, <<"CheckPeer", d>>)
  /\ IF d \notin received THEN Continue(t, <<>>) /\ UNCHANGED cause
     ELSE /\ Continue(t, Property(d) \o (IF d \in sent THEN <<>> ELSE StopSocket(d)))
          /\ IF d = "cc" THEN Blame(t, "close") ELSE UNCHANGED cause
  /\ UNCHANGED <<iLock, sockets, transfers>>

\* Its log lines read the name of the socket.
CStopSocket(t, d) ==
  /\ At(t, <<"StopSocket", d>>)
  /\ LET says == d \in Tls \ (sent \cup iStopped)
     IN /\ Continue(t, (IF says THEN Property(d) \o UpdateWBIO(d) ELSE <<>>)
                       \o (IF d \in iStopped THEN <<>> ELSE << <<"Shutdown", d>> >>))
        /\ sent' = IF says THEN sent \cup {d} ELSE sent
        /\ wbio' = IF says THEN wbio \cup {d} ELSE wbio
  /\ UNCHANGED <<iLock, iStopped, received, transfers, cause>>

Shutdown(t, d) ==
  /\ At(t, <<"Shutdown", d>>)
  /\ iStopped' = iStopped \cup {d} /\ Continue(t, Property(d))
  /\ UNCHANGED <<iLock, sent, received, wbio, transfers, cause>>

\* CDeviceSocket::Write: after its close_notify, TLS has no more to send.
SocketWrite(t, d) ==
  /\ At(t, <<"Write", d>>)
  /\ Continue(t, IF d \in Tls THEN UpdateWBIO(d) ELSE DeviceWrite(d))
  /\ wbio' = IF d \in Tls \ sent THEN wbio \cup {d} ELSE wbio
  /\ UNCHANGED <<iLock, iStopped, sent, received, transfers, cause>>

----------------------------------------------------------------------------
(* The protocol *)

\* CSubject::Write of the protocol, on its target the control channel.
SendCommand == Guarded("ftp", << <<"Write", "cc">> >>)

\* ProcessNextCmd sends unless a command is on the wire or none is queued.
NextCmd == {<<>>, SendCommand}

\* An API call: the commands are queued, perhaps the first one sent.
ApiCall == {Guarded("ftp", <<>>) \o next : next \in NextCmd}

\* Another session is opened on the same dispatcher.
OpenDevice == Guarded("D", <<>>)

\* Stop, with the protocol's iLock held.
Stop(t) ==
  /\ At(t, <<"StopChannel", "ftp">>)
  /\ Continue(t, IF iDataChannel THEN StopSocket("dc") \o << <<"Forget", "dc">> >> ELSE <<>>)
  /\ UNCHANGED <<iLock, flags>>

ForgetChannel(t) ==
  /\ At(t, <<"Forget", "dc">>)
  /\ iDataChannel' = FALSE /\ Continue(t, <<>>)
  /\ UNCHANGED <<iLock, sockets, iContinueTransfer, transfer, listed, marked, cause>>

StopCall == Guarded("ftp", << <<"StopChannel", "ftp">> >> \o StopSocket("cc"))

Call(t) ==
  /\ t \in Apps /\ todo[t] = <<>>
  /\ \/ /\ \E body \in ApiCall \cup {OpenDevice} : todo' = [todo EXCEPT ![t] = body]
        /\ Blame(t, "none")
     \/ "Stop" \in MayHappen /\ todo' = [todo EXCEPT ![t] = StopCall] /\ Blame(t, "Stop")
  /\ UNCHANGED <<iLock, sockets, transfers>>

\* A callback of the application, which may call the API, open a session or do neither.
Callback(t) ==
  /\ At(t, <<"Callback", "ftp">>)
  /\ \E body \in ApiCall \cup {OpenDevice, <<>>} : Continue(t, body)
  /\ UNCHANGED <<iLock, flags>>

\* The callback of a transfer, which may refuse to go on as well.
TransferCallback(t) ==
  /\ At(t, <<"Callback", "dc">>)
  /\ \E body \in ApiCall \cup {<<>>} : Continue(t, body)
  /\ iContinueTransfer' \in IF (IF transfer = "STOR" THEN "STOR" ELSE "RETR") \in RefusesIn THEN BOOLEAN ELSE {TRUE}
  /\ UNCHANGED <<iLock, sockets, iDataChannel, transfer, listed, marked, cause>>

----------------------------------------------------------------------------
(* The worker: ProcessContext looks the device up under its iLock, lets go   *)
(* of it for the handler, and takes it again for the erasing pass.           *)

\* Mutant of ProcessContext: the lookup's lock is kept until the end.
ContextLocked(body) == Guarded("D", body \o << <<"Sweep", "D">> >>)

ProcessContext(body) == Guarded("D", <<>>) \o body \o Guarded("D", << <<"Sweep", "D">> >>)

\* The pass drops the first marked device; if that was the last pointer to it,
\* ~CDeviceSocket and ~CSubject run with the dispatcher's iLock held.
Sweep(t) ==
  /\ At(t, <<"Sweep", "D">>)
  /\ \/ listed \cap marked = {} /\ Continue(t, <<>>) /\ UNCHANGED <<listed, marked>>
     \/ \E d \in listed \cap marked :
          /\ listed' = listed \ {d} /\ marked' = marked \ {d}
          /\ Continue(t, IF d = "dc" /\ iDataChannel THEN <<>>
                         ELSE IF d = "dc" THEN Property(d) \o StopSocket(d) \o Property(d) \o Property(d)
                         ELSE Property(d))
  /\ UNCHANGED <<iLock, sockets, iDataChannel, iContinueTransfer, transfer, cause>>

\* Mutant of Notified: the message handler is called with the protocol's iLock.
NotifiedLocked(body) == Guarded("cc", Guarded("ftp", body))

\* CSubject::OnRead of the control channel notifies CProtocol::OnRead, which
\* handles the message and then notifies the protocol's own observers.
Notified(body) == Guarded("cc", body \o Guarded("ftp", <<>>))

\* A completion and its handler; why is not "none" if it stops the socket whose iLock it has.
Begins(body, why) ==
  /\ todo' = [todo EXCEPT ![Worker] = ProcessContext(body)]
  /\ Blame(Worker, why)

\* CDeviceSocket::OnRead: the next read is posted, what arrived is decrypted and
\* what TLS has to say about it is written, without a lock; then the handler.
\* The peer's close_notify may come in the same buffer.
Arrives(d, body, why, got) ==
  /\ d \notin received
  /\ Begins(DeviceRead(d) \o UpdateWBIO(d) \o body, why)
  /\ received' \in {got, got \cup ({d} \cap Tls)}

\* What the handlers of the FSM do, by the locks they take.
Reply(body, got) == Arrives("cc", Notified(body), "none", got)

\* The next command; an application's response callback first.
Answered ==
  /\ \E next \in NextCmd : Reply(<< <<"Callback", "ftp">> >> \o next, received)
  /\ UNCHANGED <<iStopped, sent, wbio, transfers>>

\* InitializeSSL after the reply to AUTH: the client's hello.
SecureControl ==
  /\ "cc" \in Tls /\ Reply(UpdateWBIO("cc"), received)
  /\ wbio' = wbio \cup {"cc"}
  /\ UNCHANGED <<iStopped, sent, transfers>>

\* The command is sent before the channel is opened.
OpenDataChannel ==
  /\ ~iDataChannel /\ "dc" \notin listed
  /\ Reply(SendCommand \o Property("dc") \o AddListeners("dc"), received \ {"dc"})
  /\ iDataChannel' = TRUE /\ listed' = listed \cup {"dc"}
  /\ iStopped' = iStopped \ {"dc"} /\ sent' = sent \ {"dc"} /\ wbio' = wbio \ {"dc"}
  /\ UNCHANGED <<iContinueTransfer, transfer, marked>>

\* An upload asks for the first chunk of its file.
TriggerDataTransfer(cmd) == IF cmd = "STOR" THEN DeviceRead("fl") ELSE <<>>

\* The preliminary reply: the file device, then the hello of TLS or the transfer.
BeginTransfer ==
  /\ transfer = "none" /\ iDataChannel /\ "fl" \notin listed
  /\ transfer' \in {"RETR", "STOR"} /\ iContinueTransfer' = TRUE /\ listed' = listed \cup {"fl"}
  /\ Reply(Property("fl") \o AddListeners("fl")
           \o IF "dc" \in Tls THEN UpdateWBIO("dc") ELSE TriggerDataTransfer(transfer'), received)
  /\ wbio' = wbio \cup ({"dc"} \cap Tls)
  /\ UNCHANGED <<iStopped, sent, iDataChannel, marked>>

\* A transfer that was refused, or that ended with its data channel gone.
EndTransfer ==
  /\ transfer' = "none" /\ iDataChannel' = FALSE /\ marked' = marked \cup listed
  /\ \E next \in NextCmd : Reply(next, received)
  /\ UNCHANGED <<iStopped, sent, wbio, iContinueTransfer, listed>>

ControlRead == Answered \/ SecureControl \/ OpenDataChannel \/ BeginTransfer \/ EndTransfer

\* A step of the handshake; the last one sends a command or begins the transfer.
Handshake(d) ==
  /\ d \in Tls /\ d \notin received /\ (d = "dc" => d \in listed)
  /\ \E done \in {<<>>, IF d = "cc" THEN SendCommand ELSE TriggerDataTransfer(transfer)} :
       Begins(DeviceRead(d) \o done \o UpdateWBIO(d), "none")
  /\ wbio' = wbio \cup {d}
  /\ UNCHANGED <<iStopped, sent, received, transfers>>

\* The peer's close_notify, alone.
CloseNotify(d) ==
  /\ d \in Tls /\ (d = "dc" => d \in listed)
  /\ Begins(DeviceRead(d) \o UpdateWBIO(d), "none") /\ received' = received \cup {d}
  /\ UNCHANGED <<iStopped, sent, wbio, transfers>>

\* The connect, the end of a write and the disconnect.  Told of a write, the
\* protocol tells its own observers.
ControlOther ==
  /\ \/ "cc" \notin received /\ Begins(Guarded("cc", << <<"Callback", "ftp">> >>) \o DeviceRead("cc"), "none")
     \/ Begins(Guarded("cc", Guarded("ftp", <<>>)), "none")
     \/ Begins(Guarded("cc", <<>>), "none")
  /\ UNCHANGED <<sockets, transfers>>

\* The connect of the data channel, and the ends of writes.
TransferOther ==
  /\ \/ "dc" \in listed /\ Begins(Guarded("dc", <<>>) \o DeviceRead("dc"), "none")
     \/ \E d \in listed : Begins(Guarded(d, <<>>), "none")
  /\ UNCHANGED <<sockets, transfers>>

\* OnDataChannelRead, under the data channel's iLock.  Data may be handled before
\* the preliminary reply, when iContinueTransfer is what the last transfer left.
DataRead ==
  /\ "dc" \in listed
  /\ transfer = "RETR" \/ (transfer = "none" /\ "earlyData" \in MayHappen)
  /\ \/ /\ iContinueTransfer
        /\ \E store \in {<<>>} \cup {DeviceWrite(f) : f \in listed \ {"dc"}} :
             Arrives("dc", Guarded("dc", << <<"Callback", "dc">> >> \o store), "none", received)
     \/ ~iContinueTransfer /\ iDataChannel /\ Arrives("dc", Guarded("dc", StopSocket("dc")), "chunk", received)
  /\ UNCHANGED <<iStopped, sent, wbio, transfers>>

\* OnDataChannelDisconnect, under the data channel's iLock: the null buffer, and
\* the next command if the final reply came first.
DataDisconnect ==
  /\ "dc" \in listed
  /\ \E next \in NextCmd : Begins(Guarded("dc", << <<"Callback", "ftp">> >> \o next), "none")
  /\ iDataChannel' = FALSE /\ transfer' = "none" /\ marked' = marked \cup listed
  /\ UNCHANGED <<sockets, iContinueTransfer, listed>>

\* OnFileRead and OnFileDisconnect, under the file's iLock.
FileRead ==
  /\ "fl" \in listed /\ iDataChannel /\ transfer = "STOR"
  /\ Begins(Guarded("fl", IF iContinueTransfer
                          THEN << <<"Callback", "dc">>, <<"Write", "dc">> >> \o DeviceRead("fl")
                          ELSE StopSocket("dc")), "none")
  /\ UNCHANGED <<sockets, transfers>>

FileDisconnect ==
  /\ "fl" \in listed /\ iDataChannel /\ transfer = "STOR"
  /\ Begins(Guarded("fl", StopSocket("dc")), "none")
  /\ marked' = marked \cup {"fl"}
  /\ UNCHANGED <<sockets, iDataChannel, iContinueTransfer, transfer, listed>>

Completion ==
  /\ todo[Worker] = <<>>
  /\ \/ ControlRead \/ ControlOther \/ TransferOther
     \/ \E d \in {"cc", "dc"} : Handshake(d) \/ CloseNotify(d)
     \/ DataRead \/ DataDisconnect \/ FileRead \/ FileDisconnect
  /\ UNCHANGED iLock

----------------------------------------------------------------------------
Socket(t, d) == CheckPeerSSLShutdown(t, d) \/ CStopSocket(t, d) \/ Shutdown(t, d) \/ SocketWrite(t, d)

Next ==
  \/ Completion
  \/ \E t \in Threads :
       \/ \E s \in Subjects : TakeLock(t, s) \/ GiveLock(t, s)
       \/ \E d \in {"cc", "dc", "fl"} : CDeviceRead(t, d) \/ CDeviceWrite(t, d)
       \/ \E d \in {"cc", "dc"} : Socket(t, d)
       \/ Call(t) \/ Stop(t) \/ ForgetChannel(t) \/ Callback(t) \/ TransferCallback(t) \/ Sweep(t)

Spec == Init /\ [][Next]_vars

----------------------------------------------------------------------------
(* Properties *)

Awaits(t, s) == At(t, Lock(s)) /\ iLock[s] # Nobody

\* Locks and flags have their types, and who is to give a lock back holds it.
TypeOK ==
  /\ iLock \in [Subjects -> Threads \cup {Nobody}]
  /\ {iStopped, sent, received, wbio} \subseteq SUBSET {"cc", "dc"}
  /\ {listed, marked} \subseteq SUBSET {"dc", "fl"}
  /\ {iDataChannel, iContinueTransfer} \subseteq BOOLEAN /\ transfer \in {"none", "RETR", "STOR"}
  /\ cause \in [Threads -> {"none", "Stop", "write", "read", "close", "chunk"}]
  /\ \A t \in Threads, s \in Subjects : At(t, Unlock(s)) => iLock[s] = t

\* Threads that wait for locks held among themselves, or one that waits for itself.
Deadlocked(S) == S # {} /\ \A t \in S : \E s \in Subjects : Awaits(t, s) /\ iLock[s] \in S

\* Calls from any thread, callbacks that call the API or open sessions, handlers
\* that write to other devices and the destructors in the erasing pass never wait
\* for one another or for themselves, unless one of them is in Stop, failed to
\* write to the control channel or to read the file, found the control channel's
\* close_notify, or was given a chunk while the transfer was not to go on.  Every
\* deadlock has the worker in it.
DeadlocksHaveCauses ==
  \A S \in SUBSET Threads : Deadlocked(S) => Worker \in S /\ \E t \in S : cause[t] # "none"

\* The application's callbacks run without the protocol's and the dispatcher's
\* iLock: they may call the API and open devices.
CallbacksMayCall ==
  \A t \in Threads : (At(t, <<"Callback", "ftp">>) \/ At(t, <<"Callback", "dc">>))
                        => iLock["ftp"] # t /\ iLock["D"] # t

\* "Returning false at any point terminates the transfer": it does not make the
\* worker wait for a lock it holds itself.
NoSelfLock == \A t \in Threads, s \in Subjects : Awaits(t, s) => iLock[s] # t
===============================================================================
