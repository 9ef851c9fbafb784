------------------------------ MODULE Dispatcher ------------------------------
(***************************************************************************)
(* CDispatcher and the sockets that are its observers.  One worker thread  *)
(* takes completions from the event port, finds the device whose address   *)
(* is the completion's key and runs its handler with iLock released;       *)
(* application threads add devices meanwhile.  Devices are reference       *)
(* counted and the heap reuses the addresses of those that are gone.       *)
(*                                                                         *)
(* A critical section of the dispatcher's iLock is one step: nothing in it *)
(* waits.  What a protocol's handlers do to devices is nondeterministic    *)
(* here; FtpSession says what those of CProtocolFTP do.                    *)
(***************************************************************************)
EXTENDS Naturals, SequencesExt

CONSTANTS
  MaxDevices,  \* bound: devices made in the program's life
  AppDevices,  \* bound: the application opens devices with numbers up to this
  Writers      \* bound: kinds of sockets written to, one write at a time

ASSUME BoundAssumption == MaxDevices \in Nat \ {0} /\ Writers \subseteq {"client", "accepted"} /\ AppDevices \in 0..MaxDevices

Devices == 1..MaxDevices
Ops     == {"CONNECT", "ACCEPT", "READ", "WRITE"}

VARIABLES
  iObservers,       \* the dispatcher's list
  born, alive,      \* devices made so far, and those not destroyed yet
  kind, addr,       \* a device's socket type; its address, which is its key
  held,             \* devices some shared_ptr outside iObservers points to
  iConnectedClient, \* per listening socket, its latest accepted socket or 0
  marked,           \* devices with iMarkRemoveSelfAsListener
  iConnected,       \* devices with that flag
  up,               \* sockets whose connection was established
  posted,           \* overlapped operations the system has not completed yet
  port,             \* completions queued at iEventPort
  pc, o,            \* the worker: where it is, the observer it runs
  joining, gone,    \* ~CDispatcher has begun, has ended
  fault             \* why the process died, or "none"

objects == <<born, alive, kind, addr, held, iConnectedClient>>
flags   == <<marked, iConnected, up>>
worker  == <<pc, o>>
ending  == <<joining, gone, fault>>
vars == <<iObservers, objects, flags, posted, port, worker, ending>>

NoPacket == [key |-> 0, dev |-> 0, op |-> "NONE", n |-> 0]

Init ==
  /\ iObservers = <<>> /\ marked = {} /\ born = 0 /\ alive = {}
  /\ kind = [d \in Devices |-> "none"] /\ addr = [d \in Devices |-> 0]
  /\ held = {} /\ iConnectedClient = [d \in Devices |-> 0]
  /\ iConnected = {} /\ up = {} /\ posted = EmptyBag /\ port = <<>>
  /\ pc = "GQCS" /\ o = 0
  /\ joining = FALSE /\ gone = FALSE /\ fault = "none"

Listed(d) == \E i \in DOMAIN iObservers : iObservers[i] = d

----------------------------------------------------------------------------
(* Objects and the system's operations on them *)

\* Mutant of FreeAddresses: what is no longer listed counts as freed.
UnlistedAddresses == {born + 1} \cup {addr[d] : d \in {x \in 1..born : ~Listed(x)}}

\* A new object gets a new address or one of an object that is gone.
FreeAddresses == ({born + 1} \cup {addr[d] : d \in (1..born) \ alive}) \ {addr[d] : d \in alive}

\* What some shared_ptr points to; a listening socket owns its last accepted one.
Owned(obs, h, cl) ==
  LET direct == {obs[i] : i \in DOMAIN obs} \cup h
  IN direct \cup ({cl[l] : l \in direct} \ {0})

Completed(op, n) == [key |-> op.key, dev |-> op.dev, op |-> op.op, n |-> n]

\* obs, h, cl are the pointers that remain, mk the marks.  ~CDeviceSocket for all
\* that lost their last shared_ptr: closesocket makes what was still posted
\* complete with no bytes, under the old key.
Release(obs, h, cl, mk, queue) ==
  LET dead == alive \ Owned(obs, h, cl)
      lost == {op \in DOMAIN posted : op.dev \in dead}
      aborted == SetToSeq(UNION {{op} \X (1..posted[op]) : op \in lost})
  IN /\ iObservers' = obs /\ held' = h /\ iConnectedClient' = cl
     /\ alive' = alive \ dead /\ marked' = mk \ dead
     /\ iConnected' = iConnected \ dead /\ up' = up \ dead
     /\ kind' = [d \in Devices |-> IF d \in dead THEN "none" ELSE kind[d]]
     /\ posted' = [op \in DOMAIN posted \ lost |-> posted[op]]
     /\ port' = queue \o [i \in DOMAIN aborted |-> Completed(aborted[i][1], 0)]
     /\ UNCHANGED <<born, addr>>

Op(d, a, op) == SetToBag({[key |-> a, dev |-> d, op |-> op]})

Post(d, op) == posted' = posted (+) Op(d, addr[d], op)

\* CDevice::Read: nothing if not connected; ReadFile fails at once, without a
\* completion, on a socket whose connection failed.
Read(d, conn) == IF d \in conn \cap up THEN Post(d, "READ") ELSE UNCHANGED posted

Object(d, k) ==
  /\ born' = d /\ alive' = alive \cup {d} /\ kind' = [kind EXCEPT ![d] = k]
  /\ \E a \in FreeAddresses : addr' = [addr EXCEPT ![d] = a]

----------------------------------------------------------------------------
(* Opening a device *)

\* Every accept that completes makes a device too.
Accepts == Len(SelectSeq(port, LAMBDA p : p.op = "ACCEPT")) + (IF pc = "accept" THEN 1 ELSE 0)
Room == born + Accepts < MaxDevices

\* A device is made; CDispatcher::AddEventListener lists it under iLock and ties
\* its handle to the port; then StartSocketClient posts ConnectEx, or
\* StartSocketServer AcceptEx.  Nothing can complete before that, so this is one step.
Open(k, h) ==
  /\ Room
  /\ Object(born + 1, k) /\ held' = held \cup h
  /\ iObservers' = Append(iObservers, born + 1)
  /\ posted' = posted (+) Op(born + 1, addr'[born + 1], IF k = "client" THEN "CONNECT" ELSE "ACCEPT")
  /\ UNCHANGED <<iConnectedClient, flags, port, worker, ending>>

----------------------------------------------------------------------------
(* The worker.  Taking a completion and the lookup under iLock commute with  *)
(* what other threads do in between and are one step with the notification.  *)

Took(key) == pc = "GQCS" /\ port # <<>> /\ Head(port).key = key

\* The packet ~CDispatcher posts is the one with no key.
Return ==
  /\ Took(0)
  /\ pc' = "returned" /\ port' = Tail(port)
  /\ UNCHANGED <<iObservers, objects, flags, posted, o, ending>>

\* Mutants of Sweep: the pass looks at the first observer only; or what is not
\* connected goes as well.
SweepHead(queue) ==
  Release(IF iObservers # <<>> /\ Head(iObservers) \in marked THEN Tail(iObservers) ELSE iObservers,
          held, iConnectedClient, marked, queue)

SweepUnconnected(queue) ==
  Release(RemoveFirstMatch(iObservers, LAMBDA d : d \in marked \/ d \notin iConnected),
          held, iConnectedClient, marked, queue)

\* ProcessMarkRemoveAllListeners: a pass drops the first marked observer only.
Sweep(queue) ==
  Release(RemoveFirstMatch(iObservers, LAMBDA d : d \in marked), held, iConnectedClient, marked, queue)

\* No observer has the key: the context is left, the pass ends as any other.
FindNone ==
  /\ \E key \in Devices : Took(key) /\ \A i \in DOMAIN iObservers : addr[iObservers[i]] # key
  /\ Sweep(Tail(port))
  /\ UNCHANGED <<worker, ending>>

\* OnRead posts the next read before anyone is told of this one.
OnRead(d, n) ==
  /\ n # 0 /\ pc' = "handler"
  /\ Read(d, iConnected) /\ port' = Tail(port)
  /\ UNCHANGED <<iObservers, objects, flags, fault>>

OnDisconnect(d, n) ==
  /\ n = 0 /\ pc' = "handler"
  /\ iConnected' = iConnected \ {d} /\ marked' = marked \cup {d} /\ port' = Tail(port)
  /\ UNCHANGED <<iObservers, objects, up, posted, fault>>

OnWrite ==
  /\ pc' = "handler" /\ port' = Tail(port)
  /\ UNCHANGED <<iObservers, objects, flags, posted, fault>>

\* The result of ConnectEx is not looked at: a failed one is a connect as well.
OnConnect(d) ==
  /\ pc' = "handler" /\ port' = Tail(port)
  /\ IF kind[d] # "client" THEN fault' = "assert: IsClientSocket" /\ UNCHANGED <<iConnected, posted>>
     ELSE /\ iConnected' = iConnected \cup {d}
          /\ Read(d, iConnected \cup {d})
          /\ UNCHANGED fault
  /\ UNCHANGED <<iObservers, marked, objects, up>>

\* OnAccept lets go of the socket accepted before.
OnAccept(d) ==
  /\ pc' = "accept"
  /\ fault' = IF kind[d] = "listener" THEN fault ELSE "assert: IsListeningSocket"
  /\ Release(iObservers, held, [iConnectedClient EXCEPT ![d] = 0], marked, Tail(port))

\* ProcessContext: the first observer with the key is told, iLock released.
Notify ==
  /\ \E i \in DOMAIN iObservers :
       /\ Took(addr[iObservers[i]])
       /\ \A j \in 1..(i - 1) : addr[iObservers[j]] # addr[iObservers[i]]
       /\ o' = iObservers[i]
       /\ \/ Head(port).op = "READ" /\ (OnRead(o', Head(port).n) \/ OnDisconnect(o', Head(port).n))
          \/ Head(port).op = "WRITE" /\ OnWrite
          \/ Head(port).op = "CONNECT" /\ OnConnect(o')
          \/ Head(port).op = "ACCEPT" /\ OnAccept(o')
  /\ UNCHANGED <<joining, gone>>

\* The rest of OnAccept: list the new socket, read from it, accept the next one.
\* Room left for it: born < MaxDevices is the bound again, and disables nothing.
TakeAccepted ==
  /\ pc = "accept" /\ pc' = "handler" /\ born < MaxDevices
  /\ LET d == born + 1
     IN /\ Object(d, "accepted")
        /\ iConnectedClient' = [iConnectedClient EXCEPT ![o] = d]
        /\ iObservers' = Append(iObservers, d)
        /\ iConnected' = iConnected \cup {d} /\ up' = up \cup {d}
        /\ posted' = posted (+) Op(d, addr'[d], "READ") (+) Op(o, addr[o], "ACCEPT")
  /\ UNCHANGED <<marked, held, port, o, ending>>

\* ProcessContext, after the handler: iLock again, and the pass.
SweepPass ==
  /\ pc = "handler"
  /\ Sweep(port)
  /\ pc' = "GQCS" /\ o' = 0
  /\ UNCHANGED ending

Worker == Return \/ FindNone \/ Notify \/ TakeAccepted \/ SweepPass

----------------------------------------------------------------------------
(* What a protocol's handlers do, with the dispatcher's iLock released *)

\* Mutant of ResetSubject: the device is taken out of the list there and then.
EraseNow(d) ==
  Release(RemoveFirst(iObservers, d), held \ {d}, iConnectedClient, marked \cup {d}, port)

\* ResetSubject on a device the protocol holds: marked, and let go.
ResetSubject(d) ==
  Release(iObservers, held \ {d}, iConnectedClient, marked \cup {d}, port)

Retire ==
  /\ pc = "handler"
  /\ \E d \in held : ResetSubject(d)
  /\ UNCHANGED <<worker, ending>>

Write ==
  /\ pc = "handler" /\ kind[o] \in Writers
  /\ \A op \in DOMAIN posted \cup {port[i] : i \in DOMAIN port} : op.op # "WRITE"
  /\ o \in iConnected \cap up /\ Post(o, "WRITE")
  /\ UNCHANGED <<iObservers, objects, flags, port, worker, ending>>

\* A protocol keeps the data channel it opens.
OpenClient == pc = "handler" /\ Open("client", {born + 1})

----------------------------------------------------------------------------
(* The application and the system *)

\* Stop of a protocol drops its shared_ptr without a mark.
LetGo ==
  /\ \E d \in held : Release(iObservers, held \ {d}, iConnectedClient, marked, port)
  /\ UNCHANGED <<worker, ending>>

\* Mutant of DropDispatcher: the worker is joined but not told to stop.
DropSilently ==
  /\ joining' = TRUE
  /\ UNCHANGED <<iObservers, objects, flags, posted, port, worker, gone, fault>>

\* ~CDispatcher posts its packet and waits for the worker.
DropDispatcher ==
  /\ joining' = TRUE /\ port' = Append(port, NoPacket)
  /\ UNCHANGED <<iObservers, objects, flags, posted, worker, gone, fault>>

\* Of what it opens the application keeps no pointer: the dispatcher's list does.
Application ==
  /\ ~joining
  /\ \/ LetGo \/ DropDispatcher
     \/ \E k \in {"client", "listener"} : born < AppDevices /\ Open(k, {})

\* iWorker.join() returns and ~CSubject drops the observers.
Joined ==
  /\ joining /\ pc = "returned" /\ gone' = TRUE
  /\ Release(<<>>, held, iConnectedClient, marked, port)
  /\ UNCHANGED <<worker, joining, fault>>

\* The system completes an operation: a connect may fail, a peer may close.
Complete ==
  /\ \E op \in DOMAIN posted : \E n \in IF op.op = "READ" THEN 0..1 ELSE {1} :
       /\ op.op = "ACCEPT" => Room
       /\ up' \in IF op.op = "CONNECT" THEN {up, up \cup {op.dev}} ELSE {up}
       /\ port' = Append(port, Completed(op, n))
       /\ posted' = posted (-) SetToBag({op})
  /\ UNCHANGED <<iObservers, objects, marked, iConnected, worker, ending>>

Next ==
  /\ fault = "none" /\ ~gone
  /\ Worker \/ Retire \/ Write \/ OpenClient \/ Application \/ Joined \/ Complete

Spec == Init /\ [][Next]_vars

\* The worker's thread and the thread that joins it run; nothing says that
\* anything ever completes.
Alive == fault = "none" /\ ~gone
FairSpec == Spec /\ WF_vars(Alive /\ Worker) /\ WF_vars(Alive /\ Joined)

----------------------------------------------------------------------------
(* Properties *)

\* Objects, list and queues have their types, and no two live objects one address.
TypeOK ==
  /\ iObservers \in Seq(Devices) /\ {marked, alive, held, iConnected, up} \subseteq SUBSET Devices
  /\ born \in 0..MaxDevices /\ kind \in [Devices -> {"none", "client", "listener", "accepted"}]
  /\ addr \in [Devices -> 0..MaxDevices] /\ iConnectedClient \in [Devices -> 0..MaxDevices]
  /\ \A d, e \in alive : addr[d] = addr[e] => d = e
  /\ IsABag(posted) /\ DOMAIN posted \subseteq [key : Devices, dev : Devices, op : Ops]
  /\ port \in Seq({NoPacket} \cup [key : Devices, dev : Devices, op : Ops, n : 0..1])
  /\ pc \in {"GQCS", "accept", "handler", "returned"} /\ o \in 0..MaxDevices
  /\ {joining, gone} \subseteq BOOLEAN

\* Removal is deferred: the device whose handler runs stays listed and alive
\* until the handler has returned, whatever it or another thread gives up.
HandledStaysListed ==
  pc \in {"accept", "handler"} /\ fault = "none" => o \in alive /\ Listed(o)

\* A completion the worker finds no observer for is one of a device that was
\* given up before: none is lost because its device is not listed yet, or no longer.
NoCompletionLost ==
  [][FindNone => Head(port).dev \in marked \/ Head(port).dev \notin alive]_vars

\* Devices that were given up do not pile up in the list: as long as completions
\* keep coming, again and again none is left, although a pass takes one only.
MarkedIsDropped == []<>(pc = "handler") => []<>(\A d \in marked : ~Listed(d))

\* ~CDispatcher ends: its packet reaches the worker behind whatever completed
\* before, and no handler keeps the worker.
JoinReturns == joining ~> (gone \/ fault # "none")

\* A null buffer "indicates that there's no more data": the device told so is
\* the one whose own read returned nothing.
EofIsItsOwn ==
  [][Notify /\ Head(port).op = "READ" /\ Head(port).n = 0 => o' = Head(port).dev]_vars
=============================================================================
