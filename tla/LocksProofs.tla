---------------------------- MODULE LocksProofs ----------------------------
(***************************************************************************)
(* Locks for any set of application threads: what every thread has still   *)
(* to do can be walked, lock by lock, from what it holds to nothing, and   *)
(* each item on the way is one the thread may do with what it then holds.  *)
(* A thread with a cause may also come to a lock that it holds, where it   *)
(* is stuck.  From that, no callback is under a lock the API needs, every  *)
(* lock is given back by its holder, and every deadlock has a cause.       *)
(***************************************************************************)
EXTENDS Locks, SequenceTheorems, TLAPS

----------------------------------------------------------------------------
(* Walks *)

Channels == {"cc", "dc"}
Devices == {"cc", "dc", "fl"}

Items ==
  ({"lock", "unlock"} \X Subjects) \cup ({"CheckPeer", "StopSocket", "Shutdown", "Write"} \X Channels)
    \cup ({"DeviceRead", "DeviceWrite"} \X Devices)
    \cup {<<"Callback", "ftp">>, <<"Callback", "dc">>, <<"Sweep", "D">>, <<"StopChannel", "ftp">>, <<"Forget", "dc">>}

\* A walk is at the locks the thread holds, or stuck for good.
Stuck == {"stuck"}
Places == (SUBSET Subjects) \cup {Stuck}

\* M is the set of what may be done with which locks held.  x leads from the
\* locks H to the locks K, or to no end if it is a lock among H.
Leads(M, H, x, K) ==
  \/ H = Stuck /\ K = Stuck
  \/ \E s \in Subjects : x = Lock(s) /\ <<H, x>> \in M /\ K = IF s \in H THEN Stuck ELSE H \cup {s}
  \/ \E s \in Subjects : x = Unlock(s) /\ s \in H /\ K = H \ {s}
  \/ x[1] \notin {"lock", "unlock"} /\ <<H, x>> \in M /\ K = H

\* b leads from the locks H to the locks K, item by item, unless it gets stuck.
Path(M, b, H, K) ==
  /\ b \in Seq(Items)
  /\ \E h \in [1..(Len(b) + 1) -> Places] :
       /\ h[1] = H /\ h[Len(b) + 1] \in {K, Stuck}
       /\ \A i \in 1..Len(b) : Leads(M, h[i], b[i], h[i + 1])

\* Nothing to do leads nowhere.
LEMMA PathOfNothing ==
  ASSUME NEW M, NEW H \in SUBSET Subjects
  PROVE  /\ Path(M, <<>>, H, H)
         /\ \A K : Path(M, <<>>, H, K) => K = H
<1>1. Path(M, <<>>, H, H)
  <2> DEFINE h == [i \in 1..1 |-> H]
  <2>1. h \in [1..(Len(<<>>) + 1) -> Places] /\ h[1] = H /\ h[Len(<<>>) + 1] = H
    BY DEF Places
  <2> HIDE DEF h
  <2> QED BY <2>1 DEF Path
<1>2. H # Stuck
  BY DEF Stuck, Subjects
<1>3. ASSUME NEW K, Path(M, <<>>, H, K) PROVE K = H
  BY <1>2, <1>3 DEF Path
<1> QED BY <1>1, <1>3

\* A single item.
LEMMA PathOfOne ==
  ASSUME NEW M, NEW x \in Items, NEW H \in Places, NEW K \in Places, Leads(M, H, x, K)
  PROVE  Path(M, <<x>>, H, K)
<1> DEFINE h == [i \in 1..2 |-> IF i = 1 THEN H ELSE K]
           b == <<x>>
<1>1. b \in Seq(Items) /\ Len(b) = 1 /\ b[1] = x
  OBVIOUS
<1>2. h \in [1..(Len(b) + 1) -> Places] /\ h[1] = H /\ h[Len(b) + 1] = K
  BY <1>1
<1>3. \A i \in 1..Len(b) : h[i] = H /\ b[i] = x /\ h[i + 1] = K
  BY <1>1
<1> HIDE DEF h, b
<1>4. \A i \in 1..Len(b) : Leads(M, h[i], b[i], h[i + 1])
  BY <1>3
<1>5. Path(M, b, H, K)
  BY <1>1, <1>2, <1>4 DEF Path
<1> QED BY <1>5 DEF b

\* Once stuck, a thread does nothing more.
LEMMA PathOfStuck ==
  ASSUME NEW M, NEW b \in Seq(Items), NEW K
  PROVE  Path(M, b, Stuck, K)
<1> DEFINE h == [i \in 1..(Len(b) + 1) |-> Stuck]
<1>1. Len(b) \in Nat
  OBVIOUS
<1>2. h \in [1..(Len(b) + 1) -> Places] /\ h[1] = Stuck /\ h[Len(b) + 1] = Stuck
  BY <1>1 DEF Places
<1>3. \A i \in 1..Len(b) : h[i] = Stuck /\ h[i + 1] = Stuck
  BY <1>1
<1> HIDE DEF h
<1> QED BY <1>2, <1>3 DEF Path, Leads

\* One walk after another.
LEMMA PathOfConcat ==
  ASSUME NEW M, NEW a, NEW b, NEW H, NEW K, NEW L, Path(M, a, H, K), Path(M, b, K, L)
  PROVE  Path(M, a \o b, H, L)
<1>1. a \in Seq(Items) /\ Len(a) \in Nat /\ b \in Seq(Items) /\ Len(b) \in Nat
  BY DEF Path
<1>2. PICK f \in [1..(Len(a) + 1) -> Places] :
        /\ f[1] = H /\ f[Len(a) + 1] \in {K, Stuck}
        /\ \A i \in 1..Len(a) : Leads(M, f[i], a[i], f[i + 1])
  BY DEF Path
<1>3. PICK g \in [1..(Len(b) + 1) -> Places] :
        /\ g[1] = f[Len(a) + 1] /\ g[Len(b) + 1] \in {L, Stuck}
        /\ \A i \in 1..Len(b) : Leads(M, g[i], b[i], g[i + 1])
  <2>1. Path(M, b, f[Len(a) + 1], L)
    BY <1>1, <1>2, PathOfStuck
  <2> QED BY <2>1 DEF Path
<1> DEFINE m == Len(a)
           n == Len(b)
           c == a \o b
           h == [i \in 1..(m + n + 1) |-> IF i <= m THEN f[i] ELSE g[i - m]]
<1>4. /\ c \in Seq(Items) /\ Len(c) = m + n
      /\ \A i \in 1..(m + n) : c[i] = IF i <= m THEN a[i] ELSE b[i - m]
  BY <1>1, ConcatProperties
<1>5. h \in [1..(Len(c) + 1) -> Places] /\ h[1] = H /\ h[Len(c) + 1] \in {L, Stuck}
  <2>1. ASSUME NEW i \in 1..(m + n + 1) PROVE h[i] \in Places
    <3>1. CASE i <= m
      <4>1. h[i] = f[i] /\ i \in 1..(Len(a) + 1)
        BY <1>1, <3>1
      <4> HIDE DEF h
      <4> QED BY <1>2, <4>1
    <3>2. CASE i > m
      <4>1. h[i] = g[i - m] /\ i - m \in 1..(Len(b) + 1)
        BY <1>1, <3>2
      <4> HIDE DEF h
      <4> QED BY <1>3, <4>1
    <3> QED BY <1>1, <3>1, <3>2
  <2>2. h[1] = H
    BY <1>1, <1>2, <1>3
  <2>3. h[m + n + 1] = g[n + 1]
    BY <1>1
  <2> QED BY <1>3, <1>4, <2>1, <2>2, <2>3
<1>6. ASSUME NEW i \in 1..Len(c) PROVE Leads(M, h[i], c[i], h[i + 1])
  <2>1. CASE i < m
    <3>1. h[i] = f[i] /\ h[i + 1] = f[i + 1] /\ c[i] = a[i] /\ i \in 1..Len(a)
      BY <1>1, <1>4, <2>1
    <3> QED BY <1>2, <3>1
  <2>2. CASE i = m
    <3>1. h[i] = f[i] /\ h[i + 1] = f[i + 1] /\ c[i] = a[i] /\ i \in 1..Len(a)
      BY <1>1, <1>2, <1>3, <1>4, <2>2
    <3> QED BY <1>2, <3>1
  <2>3. CASE i > m
    <3>1. i - m \in 1..Len(b) /\ (i + 1) - m = (i - m) + 1
      BY <1>1, <1>4, <2>3
    <3>2. h[i] = g[i - m] /\ h[i + 1] = g[(i - m) + 1] /\ c[i] = b[i - m]
      BY <1>1, <1>4, <2>3, <3>1
    <3> QED BY <1>3, <3>1, <3>2
  <2> QED BY <1>1, <1>4, <2>1, <2>2, <2>3
<1> HIDE DEF h, c
<1>7. Path(M, c, H, L)
  BY <1>4, <1>5, <1>6 DEF Path
<1> QED BY <1>7 DEF c

\* A thread does the first thing it has to do, and the rest is a walk as well.
LEMMA PathOfHead ==
  ASSUME NEW M, NEW b, b # <<>>, NEW H, NEW L, Path(M, b, H, L)
  PROVE  /\ Head(b) \in Items
         /\ \E K \in Places : Leads(M, H, Head(b), K) /\ Path(M, Tail(b), K, L)
<1>1. b \in Seq(Items) /\ Len(b) \in Nat \ {0}
  BY EmptySeq DEF Path
<1>2. PICK f \in [1..(Len(b) + 1) -> Places] :
        /\ f[1] = H /\ f[Len(b) + 1] \in {L, Stuck}
        /\ \A i \in 1..Len(b) : Leads(M, f[i], b[i], f[i + 1])
  BY DEF Path
<1> DEFINE t == Tail(b)
           n == Len(b)
           h == [i \in 1..n |-> f[i + 1]]
<1>3. t \in Seq(Items) /\ Len(t) = n - 1 /\ \A i \in 1..(n - 1) : t[i] = b[i + 1]
  BY <1>1, HeadTailProperties
<1>4. Head(b) = b[1] /\ b[1] \in Items
  BY <1>1, ElementOfSeq
<1>5. Leads(M, H, Head(b), f[2]) /\ f[2] \in Places
  BY <1>1, <1>2, <1>4
<1>6. h \in [1..(Len(t) + 1) -> Places] /\ h[1] = f[2] /\ h[Len(t) + 1] \in {L, Stuck}
  BY <1>1, <1>2, <1>3
<1>7. ASSUME NEW i \in 1..Len(t) PROVE Leads(M, h[i], t[i], h[i + 1])
  <2>1. i + 1 \in 1..Len(b) /\ h[i] = f[i + 1] /\ h[i + 1] = f[(i + 1) + 1] /\ t[i] = b[i + 1]
    BY <1>1, <1>3
  <2> QED BY <1>2, <2>1
<1> HIDE DEF h, t
<1>8. Path(M, t, f[2], L)
  BY <1>3, <1>6, <1>7 DEF Path
<1> QED BY <1>4, <1>5, <1>8 DEF t

\* What may be done may still be done when more may.
LEMMA PathGrows ==
  ASSUME NEW M, NEW N, M \subseteq N, NEW b, NEW H, NEW K, Path(M, b, H, K)
  PROVE  Path(N, b, H, K)
<1>1. \A h, x, k : Leads(M, h, x, k) => Leads(N, h, x, k)
  BY DEF Leads
<1> QED BY <1>1 DEF Path

\* A std::lock_guard: the body runs with one lock more, or never.
LEMMA PathOfGuarded ==
  ASSUME NEW M, NEW s \in Subjects, NEW b, NEW H \in SUBSET Subjects,
         <<H, Lock(s)>> \in M, Path(M, b, H \cup {s}, H \cup {s})
  PROVE  Path(M, Guarded(s, b), H, H)
<1>1. Lock(s) \in Items /\ Unlock(s) \in Items /\ H \in Places /\ H \cup {s} \in Places /\ Stuck \in Places
  BY DEF Items, Lock, Unlock, Places
<1>2. CASE s \notin H
  <2>1. Leads(M, H, Lock(s), H \cup {s}) /\ Leads(M, H \cup {s}, Unlock(s), H)
    BY <1>2 DEF Leads
  <2>2. Path(M, <<Lock(s)>>, H, H \cup {s}) /\ Path(M, <<Unlock(s)>>, H \cup {s}, H)
    BY <1>1, <2>1, PathOfOne
  <2>3. Path(M, <<Lock(s)>> \o b, H, H \cup {s})
    BY <2>2, PathOfConcat
  <2> QED BY <2>2, <2>3, PathOfConcat DEF Guarded
<1>3. CASE s \in H
  <2>1. Leads(M, H, Lock(s), Stuck)
    BY <1>3 DEF Leads
  <2>2. Path(M, <<Lock(s)>>, H, Stuck)
    BY <1>1, <2>1, PathOfOne
  <2>3. b \in Seq(Items) /\ <<Unlock(s)>> \in Seq(Items)
    BY <1>1 DEF Path
  <2>4. Path(M, b, Stuck, Stuck) /\ Path(M, <<Unlock(s)>>, Stuck, H)
    BY <2>3, PathOfStuck
  <2>5. Path(M, <<Lock(s)>> \o b, H, Stuck)
    BY <2>2, <2>4, PathOfConcat
  <2> QED BY <2>4, <2>5, PathOfConcat DEF Guarded
<1> QED BY <1>2, <1>3

\* A call that takes its locks itself.
LEMMA PathOfCall ==
  ASSUME NEW M, NEW x \in Items, x[1] \notin {"lock", "unlock"}, NEW H \in SUBSET Subjects, <<H, x>> \in M
  PROVE  Path(M, <<x>>, H, H)
BY PathOfOne DEF Leads, Places

----------------------------------------------------------------------------
(* The inductive invariant *)

\* What the worker may do with the locks H, bad saying that it has a cause: with
\* none it takes no lock it has; a call that would becomes a cause by itself.  It
\* calls back without the protocol's and the dispatcher's iLock.
WorkerMay(bad, H, x) ==
  \/ \E s \in Subjects : x = Lock(s) /\ (bad \/ s \notin H)
  \/ \E d \in Channels :
       \/ x \in {<<"CheckPeer", d>>, <<"Write", d>>} /\ (bad \/ d \notin H \/ d = "cc")
       \/ x \in {<<"StopSocket", d>>, <<"Shutdown", d>>} /\ (bad \/ d \notin H)
  \/ \E d \in Devices :
       \/ x = <<"DeviceWrite", d>> /\ (bad \/ d \notin H \/ d = "cc")
       \/ x = <<"DeviceRead", d>> /\ (bad \/ d \notin H \/ d = "fl")
  \/ x \in {<<"Callback", "ftp">>, <<"Callback", "dc">>} /\ "ftp" \notin H /\ "D" \notin H
  \/ x = <<"Sweep", "D">> /\ H = {"D"}

\* What an application thread may do: under the protocol's iLock, and there only,
\* it takes a channel's if it has a cause.
AppMay(bad, H, x) ==
  \/ x \in {Lock("ftp"), Lock("D")} /\ H = {}
  \/ /\ H = {"ftp"}
     /\ \/ x \in {<<"Write", "cc">>, <<"CheckPeer", "cc">>, <<"DeviceWrite", "cc">>}
        \/ bad /\ \/ x \in {<<"StopChannel", "ftp">>, <<"Forget", "dc">>}
                  \/ \E d \in Channels :
                       x \in {Lock(d), <<"CheckPeer", d>>, <<"DeviceWrite", d>>, <<"StopSocket", d>>, <<"Shutdown", d>>}

WorkerPermits(bad) == {p \in (SUBSET Subjects) \X Items : WorkerMay(bad, p[1], p[2])}
AppPermits(bad)    == {p \in (SUBSET Subjects) \X Items : AppMay(bad, p[1], p[2])}

Permits(t, bad) == IF t = Worker THEN WorkerPermits(bad) ELSE AppPermits(bad)
Bad(t) == cause[t] # "none"

Held(t) == {s \in Subjects : iLock[s] = t}

FlagsOK ==
  /\ iLock \in [Subjects -> Threads \cup {Nobody}]
  /\ iStopped \subseteq Channels /\ sent \subseteq Channels /\ received \subseteq Channels /\ wbio \subseteq Channels
  /\ listed \subseteq {"dc", "fl"} /\ marked \subseteq {"dc", "fl"}
  /\ iDataChannel \in BOOLEAN /\ iContinueTransfer \in BOOLEAN /\ transfer \in {"none", "RETR", "STOR"}
  /\ cause \in [Threads -> {"none", "Stop", "write", "read", "close", "chunk"}]

Walks == todo \in [Threads -> Seq(Items)] /\ \A t \in Threads : Path(Permits(t, Bad(t)), todo[t], Held(t), {})

IInv == FlagsOK /\ Walks

\* With a cause a thread may do what it may without.
LEMMA CauseGrows ==
  ASSUME NEW t, NEW bad \in BOOLEAN, NEW c \in BOOLEAN, bad => c
  PROVE  Permits(t, bad) \subseteq Permits(t, c)
<1>1. \A H, x : WorkerMay(bad, H, x) => WorkerMay(c, H, x)
  BY DEF WorkerMay
<1>2. \A H, x : AppMay(bad, H, x) => AppMay(c, H, x)
  BY DEF AppMay
<1>3. WorkerPermits(bad) \subseteq WorkerPermits(c)
  BY <1>1 DEF WorkerPermits
<1>4. AppPermits(bad) \subseteq AppPermits(c)
  BY <1>2 DEF AppPermits
<1> QED BY <1>3, <1>4 DEF Permits

----------------------------------------------------------------------------
(* What the worker's code does, by the locks it is called with *)

\* Reading a property takes the subject's lock for that alone.
LEMMA WorkerProperty ==
  ASSUME NEW bad \in BOOLEAN, NEW H \in SUBSET Subjects, NEW d \in Subjects, bad \/ d \notin H
  PROVE  Path(WorkerPermits(bad), Property(d), H, H)
<1>1. <<H, Lock(d)>> \in WorkerPermits(bad)
  BY DEF WorkerPermits, WorkerMay, Items, Lock
<1>2. Path(WorkerPermits(bad), <<>>, H \cup {d}, H \cup {d})
  BY PathOfNothing
<1> QED BY <1>1, <1>2, PathOfGuarded DEF Property

\* A handler under the iLock of the device it is told of.
LEMMA WorkerGuarded ==
  ASSUME NEW bad \in BOOLEAN, NEW s \in Subjects, NEW b, Path(WorkerPermits(bad), b, {s}, {s})
  PROVE  Path(WorkerPermits(bad), Guarded(s, b), {}, {})
<1>1. {} \in SUBSET Subjects /\ {} \cup {s} = {s}
  OBVIOUS
<1>2. <<{}, Lock(s)>> \in WorkerPermits(bad)
  BY DEF WorkerPermits, WorkerMay, Items, Lock
<1> QED BY <1>1, <1>2, PathOfGuarded

\* A command is sent, or the mere lock is taken: an API call or the next command.
LEMMA WorkerCommands ==
  ASSUME NEW bad \in BOOLEAN, NEW H \in SUBSET Subjects, "ftp" \notin H
  PROVE  /\ Path(WorkerPermits(bad), <<>>, H, H)
         /\ Path(WorkerPermits(bad), Guarded("ftp", <<>>), H, H)
         /\ Path(WorkerPermits(bad), SendCommand, H, H)
         /\ \A b \in NextCmd \cup ApiCall : Path(WorkerPermits(bad), b, H, H)
<1> DEFINE K == H \cup {"ftp"}
<1>1. K \in SUBSET Subjects /\ "ftp" \in Subjects
  BY DEF Subjects
<1>2. Path(WorkerPermits(bad), <<>>, H, H) /\ Path(WorkerPermits(bad), <<>>, K, K)
  BY <1>1, PathOfNothing
<1>3. <<"Write", "cc">> \in Items /\ <<K, <<"Write", "cc">> >> \in WorkerPermits(bad)
  BY <1>1 DEF WorkerPermits, WorkerMay, Items, Channels
<1>4. Path(WorkerPermits(bad), << <<"Write", "cc">> >>, K, K)
  BY <1>1, <1>3, PathOfCall
<1>5. <<H, Lock("ftp")>> \in WorkerPermits(bad)
  BY <1>1 DEF WorkerPermits, WorkerMay, Items, Lock
<1>6. Path(WorkerPermits(bad), Guarded("ftp", <<>>), H, H) /\ Path(WorkerPermits(bad), SendCommand, H, H)
  BY <1>1, <1>2, <1>4, <1>5, PathOfGuarded DEF SendCommand
<1>7. \A b \in NextCmd : Path(WorkerPermits(bad), b, H, H)
  BY <1>2, <1>6 DEF NextCmd
<1>8. ASSUME NEW b \in ApiCall PROVE Path(WorkerPermits(bad), b, H, H)
  <2>1. PICK next \in NextCmd : b = Guarded("ftp", <<>>) \o next
    BY DEF ApiCall
  <2> QED BY <1>6, <1>7, <2>1, PathOfConcat
<1> QED BY <1>2, <1>6, <1>7, <1>8

\* A session opened by a callback, a device listed by a handler.
LEMMA WorkerLists ==
  ASSUME NEW bad \in BOOLEAN, NEW H \in SUBSET Subjects, "D" \notin H
  PROVE  /\ Path(WorkerPermits(bad), OpenDevice, H, H)
         /\ \A d \in {"dc", "fl"} \ H : Path(WorkerPermits(bad), AddListeners(d), H, H)
<1> DEFINE K == H \cup {"D"}
<1>1. K \in SUBSET Subjects /\ "D" \in Subjects /\ <<H, Lock("D")>> \in WorkerPermits(bad)
  BY DEF WorkerPermits, WorkerMay, Items, Lock, Subjects
<1>2. Path(WorkerPermits(bad), OpenDevice, H, H)
  BY <1>1, PathOfNothing, PathOfGuarded DEF OpenDevice
<1>3. ASSUME NEW d \in {"dc", "fl"} \ H PROVE Path(WorkerPermits(bad), AddListeners(d), H, H)
  <2>1. d \in Subjects /\ d \notin H /\ d \notin K
    BY DEF Subjects
  <2>2. Path(WorkerPermits(bad), Property(d), H, H) /\ Path(WorkerPermits(bad), Property(d), K, K)
    BY <1>1, <2>1, WorkerProperty
  <2>3. Path(WorkerPermits(bad), Guarded("D", Property(d)), H, H)
    BY <1>1, <2>2, PathOfGuarded
  <2> QED BY <2>2, <2>3, PathOfConcat DEF AddListeners
<1> QED BY <1>2, <1>3

\* The worker reads from a device whose iLock it does not have, or from the file.
LEMMA WorkerReads ==
  ASSUME NEW bad \in BOOLEAN, NEW H \in SUBSET Subjects, NEW d \in Devices, bad \/ d \notin H \/ d = "fl"
  PROVE  Path(WorkerPermits(bad), DeviceRead(d), H, H)
<1>1. <<"DeviceRead", d>> \in Items /\ <<H, <<"DeviceRead", d>> >> \in WorkerPermits(bad)
  BY DEF WorkerPermits, WorkerMay, Items
<1> QED BY <1>1, PathOfCall DEF DeviceRead

\* It writes to one whose iLock it does not have, or to the control channel.
LEMMA WorkerWrites ==
  ASSUME NEW bad \in BOOLEAN, NEW H \in SUBSET Subjects, NEW d \in Devices, bad \/ d \notin H \/ d = "cc"
  PROVE  /\ Path(WorkerPermits(bad), DeviceWrite(d), H, H)
         /\ d \in Channels => /\ Path(WorkerPermits(bad), UpdateWBIO(d), H, H)
                              /\ Path(WorkerPermits(bad), << <<"Write", d>> >>, H, H)
<1>1. <<"DeviceWrite", d>> \in Items /\ <<H, <<"DeviceWrite", d>> >> \in WorkerPermits(bad)
  BY DEF WorkerPermits, WorkerMay, Items
<1>2. Path(WorkerPermits(bad), DeviceWrite(d), H, H) /\ Path(WorkerPermits(bad), <<>>, H, H)
  BY <1>1, PathOfCall, PathOfNothing DEF DeviceWrite
<1>3. ASSUME d \in Channels
      PROVE  /\ Path(WorkerPermits(bad), UpdateWBIO(d), H, H)
             /\ Path(WorkerPermits(bad), << <<"Write", d>> >>, H, H)
  <2>1. /\ <<"CheckPeer", d>> \in Items /\ <<H, <<"CheckPeer", d>> >> \in WorkerPermits(bad)
        /\ <<"Write", d>> \in Items /\ <<H, <<"Write", d>> >> \in WorkerPermits(bad)
    BY <1>3 DEF WorkerPermits, WorkerMay, Items
  <2>2. Path(WorkerPermits(bad), << <<"CheckPeer", d>> >>, H, H) /\ Path(WorkerPermits(bad), << <<"Write", d>> >>, H, H)
    BY <2>1, PathOfCall
  <2>3. Path(WorkerPermits(bad), << <<"CheckPeer", d>> >> \o DeviceWrite(d), H, H)
    BY <1>2, <2>2, PathOfConcat
  <2> QED BY <1>2, <2>2, <2>3 DEF UpdateWBIO
<1> QED BY <1>2, <1>3

\* It stops a socket whose iLock it does not have.
LEMMA WorkerStopsSocket ==
  ASSUME NEW bad \in BOOLEAN, NEW H \in SUBSET Subjects, NEW d \in Channels, bad \/ d \notin H
  PROVE  /\ Path(WorkerPermits(bad), StopSocket(d), H, H)
         /\ Path(WorkerPermits(bad), << <<"Shutdown", d>> >>, H, H)
<1>1. /\ <<"StopSocket", d>> \in Items /\ <<H, <<"StopSocket", d>> >> \in WorkerPermits(bad)
      /\ <<"Shutdown", d>> \in Items /\ <<H, <<"Shutdown", d>> >> \in WorkerPermits(bad)
  BY DEF WorkerPermits, WorkerMay, Items, Channels
<1> QED BY <1>1, PathOfCall DEF StopSocket

\* It calls the application back once it holds neither iLock of the protocol and the dispatcher.
LEMMA WorkerCallsBack ==
  ASSUME NEW bad \in BOOLEAN, NEW H \in SUBSET Subjects, "ftp" \notin H, "D" \notin H, NEW c \in {"ftp", "dc"}
  PROVE  Path(WorkerPermits(bad), << <<"Callback", c>> >>, H, H)
<1>1. <<"Callback", c>> \in Items /\ <<H, <<"Callback", c>> >> \in WorkerPermits(bad)
  BY DEF WorkerPermits, WorkerMay, Items
<1> QED BY <1>1, PathOfCall

\* ProcessContext around a handler that is called with no lock held.
LEMMA WorkerContext ==
  ASSUME NEW bad \in BOOLEAN, NEW b, Path(WorkerPermits(bad), b, {}, {})
  PROVE  Path(WorkerPermits(bad), ProcessContext(b), {}, {})
<1>1. {"D"} \in SUBSET Subjects /\ "D" \in Subjects
  BY DEF Subjects
<1>2. <<"Sweep", "D">> \in Items /\ << {"D"}, <<"Sweep", "D">> >> \in WorkerPermits(bad)
  BY <1>1 DEF WorkerPermits, WorkerMay, Items
<1>3. Path(WorkerPermits(bad), <<>>, {"D"}, {"D"}) /\ Path(WorkerPermits(bad), << <<"Sweep", "D">> >>, {"D"}, {"D"})
  BY <1>1, <1>2, PathOfNothing, PathOfCall
<1>4. /\ Path(WorkerPermits(bad), Guarded("D", <<>>), {}, {})
      /\ Path(WorkerPermits(bad), Guarded("D", << <<"Sweep", "D">> >>), {}, {})
  BY <1>1, <1>3, WorkerGuarded
<1>5. Path(WorkerPermits(bad), Guarded("D", <<>>) \o b, {}, {})
  BY <1>4, PathOfConcat
<1> QED BY <1>4, <1>5, PathOfConcat DEF ProcessContext

----------------------------------------------------------------------------
(* What an application's calls do *)

\* Under the protocol's iLock.
LEMMA AppSends ==
  ASSUME NEW bad \in BOOLEAN, NEW H, H = {}
  PROVE  /\ Path(AppPermits(bad), OpenDevice, H, H)
         /\ \A b \in ApiCall : Path(AppPermits(bad), b, H, H)
<1>1. H \in SUBSET Subjects /\ {"ftp"} \in SUBSET Subjects /\ {"D"} \in SUBSET Subjects
      /\ "ftp" \in Subjects /\ "D" \in Subjects /\ H \cup {"ftp"} = {"ftp"} /\ H \cup {"D"} = {"D"}
  BY DEF Subjects
<1>2. <<H, Lock("ftp")>> \in AppPermits(bad) /\ <<H, Lock("D")>> \in AppPermits(bad)
  BY <1>1 DEF AppPermits, AppMay, Items, Lock
<1>3. <<"Write", "cc">> \in Items /\ << {"ftp"}, <<"Write", "cc">> >> \in AppPermits(bad)
  BY <1>1 DEF AppPermits, AppMay, Items, Channels
<1>4. /\ Path(AppPermits(bad), <<>>, {"ftp"}, {"ftp"}) /\ Path(AppPermits(bad), <<>>, {"D"}, {"D"})
      /\ Path(AppPermits(bad), << <<"Write", "cc">> >>, {"ftp"}, {"ftp"})
      /\ Path(AppPermits(bad), <<>>, H, H)
  BY <1>1, <1>3, PathOfNothing, PathOfCall
<1>5. /\ Path(AppPermits(bad), Guarded("ftp", <<>>), H, H) /\ Path(AppPermits(bad), OpenDevice, H, H)
      /\ Path(AppPermits(bad), SendCommand, H, H)
  BY <1>1, <1>2, <1>4, PathOfGuarded DEF OpenDevice, SendCommand
<1>6. ASSUME NEW b \in ApiCall PROVE Path(AppPermits(bad), b, H, H)
  <2>1. PICK next \in NextCmd : b = Guarded("ftp", <<>>) \o next
    BY DEF ApiCall
  <2>2. Path(AppPermits(bad), next, H, H)
    BY <1>4, <1>5 DEF NextCmd
  <2> QED BY <1>5, <2>1, <2>2, PathOfConcat
<1> QED BY <1>5, <1>6

\* With a cause, under the protocol's iLock: all that has to do with a channel.
LEMMA AppReaches ==
  ASSUME NEW d \in Channels, NEW H, H = {"ftp"}
  PROVE  LET M == AppPermits(TRUE)
         IN /\ Path(M, <<>>, H, H) /\ Path(M, Property(d), H, H)
            /\ Path(M, UpdateWBIO(d), H, H) /\ Path(M, DeviceWrite(d), H, H) /\ Path(M, StopSocket(d), H, H)
            /\ Path(M, << <<"Shutdown", d>> >>, H, H)
            /\ Path(M, << <<"StopChannel", "ftp">> >>, H, H) /\ Path(M, << <<"Forget", "dc">> >>, H, H)
<1> DEFINE M == AppPermits(TRUE)
           Its == {<<"CheckPeer", d>>, <<"DeviceWrite", d>>, <<"StopSocket", d>>, <<"Shutdown", d>>,
                   <<"StopChannel", "ftp">>, <<"Forget", "dc">>}
<1>1. H \in SUBSET Subjects /\ H \cup {d} \in SUBSET Subjects /\ d \in Subjects
  BY DEF Subjects, Channels
<1>2. \A x \in Its : x \in Items /\ x[1] \notin {"lock", "unlock"} /\ <<H, x>> \in M
  BY <1>1 DEF AppPermits, AppMay, Items, Channels, Devices
<1>3. <<H, Lock(d)>> \in M
  BY <1>1 DEF AppPermits, AppMay, Items, Lock
<1> HIDE DEF M
<1>4. \A x \in Its : Path(M, <<x>>, H, H)
  <2> HIDE DEF Its
  <2> QED BY <1>1, <1>2, PathOfCall
<1>5. Path(M, <<>>, H, H) /\ Path(M, <<>>, H \cup {d}, H \cup {d})
  BY <1>1, PathOfNothing
<1>6. Path(M, Property(d), H, H)
  BY <1>1, <1>3, <1>5, PathOfGuarded DEF Property
<1>7. Path(M, DeviceWrite(d), H, H) /\ Path(M, StopSocket(d), H, H)
  BY <1>4 DEF DeviceWrite, StopSocket
<1>8. Path(M, << <<"CheckPeer", d>> >>, H, H)
  BY <1>4
<1>9. Path(M, UpdateWBIO(d), H, H)
  BY <1>5, <1>7, <1>8, PathOfConcat DEF UpdateWBIO
<1>10. /\ Path(M, << <<"Shutdown", d>> >>, H, H)
       /\ Path(M, << <<"StopChannel", "ftp">> >>, H, H) /\ Path(M, << <<"Forget", "dc">> >>, H, H)
  BY <1>4
<1> QED BY <1>5, <1>6, <1>7, <1>9, <1>10 DEF M

\* Stop, under the protocol's iLock.
LEMMA AppStops ==
  ASSUME NEW H, H = {}
  PROVE  Path(AppPermits(TRUE), StopCall, H, H)
<1> DEFINE b == << <<"StopChannel", "ftp">> >> \o StopSocket("cc")
<1>1. H \in SUBSET Subjects /\ "ftp" \in Subjects /\ H \cup {"ftp"} = {"ftp"} /\ "cc" \in Channels
  BY DEF Subjects, Channels
<1>2. <<H, Lock("ftp")>> \in AppPermits(TRUE)
  BY <1>1 DEF AppPermits, AppMay, Items, Lock
<1>3. /\ Path(AppPermits(TRUE), << <<"StopChannel", "ftp">> >>, {"ftp"}, {"ftp"})
      /\ Path(AppPermits(TRUE), StopSocket("cc"), {"ftp"}, {"ftp"})
  BY <1>1, AppReaches
<1>4. Path(AppPermits(TRUE), b, {"ftp"}, {"ftp"})
  BY <1>3, PathOfConcat
<1> HIDE DEF b
<1>5. Path(AppPermits(TRUE), Guarded("ftp", b), H, H)
  BY <1>1, <1>2, <1>4, PathOfGuarded
<1> QED BY <1>5 DEF StopCall, b

----------------------------------------------------------------------------
(* Steps of a thread *)

\* A thread that has an item to do may do it with the locks it holds.
LEMMA AtItem ==
  ASSUME IInv, NEW t \in Threads, NEW x, At(t, x)
  PROVE  /\ x \in Items /\ Held(t) \in SUBSET Subjects /\ todo[t] # <<>>
         /\ \E K \in Places : Leads(Permits(t, Bad(t)), Held(t), x, K) /\ Path(Permits(t, Bad(t)), Tail(todo[t]), K, {})
<1>1. todo[t] # <<>> /\ Head(todo[t]) = x /\ Path(Permits(t, Bad(t)), todo[t], Held(t), {})
  BY DEF At, IInv, Walks
<1>2. Held(t) \in SUBSET Subjects
  BY DEF Held
<1> QED BY <1>1, <1>2, PathOfHead

\* Nobody is stuck without having come to a lock he holds.
LEMMA HeldIsPlace == \A t : Held(t) \in SUBSET Subjects /\ Held(t) # Stuck
BY DEF Held, Stuck, Subjects

\* The same of a call: it is permitted, and the rest is walked from the same locks.
LEMMA AtCall ==
  ASSUME IInv, NEW t \in Threads, NEW x, At(t, x), x[1] \notin {"lock", "unlock"}
  PROVE  /\ x \in Items /\ Held(t) \in SUBSET Subjects
         /\ <<Held(t), x>> \in Permits(t, Bad(t)) /\ Path(Permits(t, Bad(t)), Tail(todo[t]), Held(t), {})
<1>1. PICK K \in Places : Leads(Permits(t, Bad(t)), Held(t), x, K) /\ Path(Permits(t, Bad(t)), Tail(todo[t]), K, {})
  BY AtItem
<1>2. \A s \in Subjects : x # Lock(s) /\ x # Unlock(s)
  BY DEF Lock, Unlock
<1>3. <<Held(t), x>> \in Permits(t, Bad(t)) /\ K = Held(t)
  BY <1>1, <1>2, HeldIsPlace DEF Leads
<1> QED BY <1>1, <1>3, AtItem

\* Who the thread is tells what it may do.
LEMMA PermitsOf ==
  ASSUME NEW t \in Threads, NEW bad
  PROVE  \/ t = Worker /\ Permits(t, bad) = WorkerPermits(bad)
         \/ t \in Apps /\ t # Worker /\ Permits(t, bad) = AppPermits(bad)
BY ThreadsAssumption DEF Threads, Permits

\* The cause a thread may come to have, c saying that it has one then.
Gets(t, c) ==
  /\ \A u \in Threads \ {t} : cause'[u] = cause[u]
  /\ c = (cause'[t] # "none") /\ (Bad(t) => c)

\* A call is replaced by its body, which is walked from the locks held to the same.
LEMMA ContinueStep ==
  ASSUME IInv, NEW t \in Threads, NEW b, NEW c \in BOOLEAN, Continue(t, b), Gets(t, c),
         Path(Permits(t, c), b, Held(t), Held(t)),
         Path(Permits(t, Bad(t)), Tail(todo[t]), Held(t), {}), iLock' = iLock
  PROVE  Walks'
<1>1. todo \in [Threads -> Seq(Items)] /\ \A u \in Threads : Path(Permits(u, Bad(u)), todo[u], Held(u), {})
  BY DEF IInv, Walks
<1>2. \A u \in Threads : Held(u)' = Held(u)
  BY DEF Held
<1> DEFINE e == b \o Tail(todo[t])
<1>3. Path(Permits(t, c), Tail(todo[t]), Held(t), {})
  <2>1. PICK bad \in BOOLEAN : bad = Bad(t)
    BY DEF Bad
  <2>2. bad => c
    BY <2>1 DEF Gets
  <2>3. Permits(t, bad) \subseteq Permits(t, c)
    BY <2>2, CauseGrows
  <2> QED BY <2>1, <2>3, PathGrows
<1>4. Path(Permits(t, c), e, Held(t), {})
  BY <1>3, PathOfConcat
<1>5. e \in Seq(Items)
  BY <1>4 DEF Path
<1>6. todo' = [todo EXCEPT ![t] = e]
  BY DEF Continue
<1> HIDE DEF e
<1>7. todo' \in [Threads -> Seq(Items)]
  BY <1>1, <1>5, <1>6
<1>8. ASSUME NEW u \in Threads PROVE Path(Permits(u, Bad(u))', todo'[u], Held(u)', {})
  <2>1. CASE u = t
    <3>1. Permits(u, Bad(u))' = Permits(t, c)
      BY <2>1 DEF Permits, Bad, Gets, WorkerPermits, AppPermits
    <3> QED BY <1>1, <1>2, <1>4, <1>6, <2>1, <3>1
  <2>2. CASE u # t
    <3>1. Permits(u, Bad(u))' = Permits(u, Bad(u))
      BY <2>2 DEF Permits, Bad, Gets, WorkerPermits, AppPermits
    <3> QED BY <1>1, <1>2, <1>6, <2>2, <3>1
  <2> QED BY <2>1, <2>2
<1> QED BY <1>7, <1>8 DEF Walks

\* A step that leaves the causes alone, or gives the thread one.
LEMMA GetsCause ==
  ASSUME IInv, NEW t \in Threads
  PROVE  /\ UNCHANGED cause => \E c \in BOOLEAN : c = Bad(t) /\ Gets(t, c)
         /\ \A why \in {"Stop", "write", "read", "close", "chunk"} :
              Blame(t, why) => Gets(t, TRUE) /\ cause' \in [Threads -> {"none", "Stop", "write", "read", "close", "chunk"}]
<1>1. cause \in [Threads -> {"none", "Stop", "write", "read", "close", "chunk"}]
  BY DEF IInv, FlagsOK
<1>2. ASSUME UNCHANGED cause PROVE \E c \in BOOLEAN : c = Bad(t) /\ Gets(t, c)
  BY <1>2 DEF Gets, Bad
<1>3. ASSUME NEW why \in {"Stop", "write", "read", "close", "chunk"}, Blame(t, why)
      PROVE  Gets(t, TRUE) /\ cause' \in [Threads -> {"none", "Stop", "write", "read", "close", "chunk"}]
  BY <1>1, <1>3 DEF Blame, Gets
<1> QED BY <1>2, <1>3

\* A lock is taken or given back.
LEMMA LockStep ==
  ASSUME IInv, NEW t \in Threads, NEW s \in Subjects, TakeLock(t, s) \/ GiveLock(t, s)
  PROVE  IInv'
<1>1. todo \in [Threads -> Seq(Items)] /\ \A u \in Threads : Path(Permits(u, Bad(u)), todo[u], Held(u), {})
  BY DEF IInv, Walks
<1>2. UNCHANGED flags /\ todo' = [todo EXCEPT ![t] = <<>> \o Tail(@)]
  BY DEF TakeLock, GiveLock, Continue
<1>3. \A u \in Threads : Permits(u, Bad(u))' = Permits(u, Bad(u))
  BY <1>2 DEF flags, Permits, Bad, WorkerPermits, AppPermits
<1>4. iLock \in [Subjects -> Threads \cup {Nobody}] /\ Nobody \notin Threads
  BY ThreadsAssumption DEF IInv, FlagsOK, Threads
<1>5. /\ iLock' \in [Subjects -> Threads \cup {Nobody}] /\ todo[t] # <<>>
      /\ Path(Permits(t, Bad(t)), Tail(todo[t]), Held(t)', {})
      /\ \A u \in Threads \ {t} : Held(u)' = Held(u)
  <2>1. CASE TakeLock(t, s)
    <3>1. At(t, Lock(s)) /\ iLock[s] = Nobody /\ iLock' = [iLock EXCEPT ![s] = t]
      BY <2>1 DEF TakeLock
    <3>2. PICK K \in Places : Leads(Permits(t, Bad(t)), Held(t), Lock(s), K) /\ Path(Permits(t, Bad(t)), Tail(todo[t]), K, {})
      BY <3>1, AtItem
    <3>3. s \notin Held(t)
      BY <1>4, <3>1 DEF Held
    <3>4. K = Held(t) \cup {s}
      BY <3>2, <3>3, HeldIsPlace DEF Leads, Lock, Unlock
    <3>5. Held(t)' = K
      BY <1>4, <3>1, <3>4 DEF Held
    <3>6. \A u \in Threads \ {t} : Held(u)' = Held(u)
      BY <1>4, <3>1 DEF Held
    <3> QED BY <1>4, <3>1, <3>2, <3>5, <3>6 DEF At
  <2>2. CASE GiveLock(t, s)
    <3>1. At(t, Unlock(s)) /\ iLock' = [iLock EXCEPT ![s] = Nobody]
      BY <2>2 DEF GiveLock
    <3>2. PICK K \in Places : Leads(Permits(t, Bad(t)), Held(t), Unlock(s), K) /\ Path(Permits(t, Bad(t)), Tail(todo[t]), K, {})
      BY <3>1, AtItem
    <3>3. K = Held(t) \ {s} /\ s \in Held(t)
      BY <3>2, HeldIsPlace DEF Leads, Lock, Unlock
    <3>4. Held(t)' = K
      BY <1>4, <3>1, <3>3 DEF Held
    <3>5. \A u \in Threads \ {t} : Held(u)' = Held(u)
      BY <1>4, <3>1, <3>3 DEF Held
    <3> QED BY <1>4, <3>1, <3>2, <3>4, <3>5 DEF At
  <2> QED BY <2>1, <2>2
<1>6. Tail(todo[t]) \in Seq(Items) /\ <<>> \o Tail(todo[t]) = Tail(todo[t])
  BY <1>1, <1>5, HeadTailProperties, ConcatEmptySeq
<1>7. todo' = [todo EXCEPT ![t] = Tail(todo[t])]
  BY <1>1, <1>2, <1>6
<1>8. ASSUME NEW u \in Threads PROVE Path(Permits(u, Bad(u))', todo'[u], Held(u)', {})
  <2>1. CASE u = t
    BY <1>1, <1>3, <1>5, <1>7, <2>1
  <2>2. CASE u # t
    BY <1>1, <1>3, <1>5, <1>7, <2>2
  <2> QED BY <2>1, <2>2
<1>9. Walks'
  BY <1>1, <1>6, <1>7, <1>8 DEF Walks
<1>10. FlagsOK'
  BY <1>2, <1>5 DEF IInv, FlagsOK, flags, sockets, transfers
<1> QED BY <1>9, <1>10 DEF IInv

\* CDevice::Read: the worker's only, and of the file under its own iLock at most.
LEMMA DeviceReadStep ==
  ASSUME IInv, NEW t \in Threads, NEW d \in Devices, CDeviceRead(t, d)
  PROVE  IInv'
<1> DEFINE H == Held(t)
<1>1. At(t, <<"DeviceRead", d>>) /\ UNCHANGED <<iLock, sockets, transfers>>
  BY DEF CDeviceRead
<1>2. H \in SUBSET Subjects /\ <<H, <<"DeviceRead", d>> >> \in Permits(t, Bad(t)) /\ Path(Permits(t, Bad(t)), Tail(todo[t]), H, {})
  BY <1>1, AtCall
<1> HIDE DEF H
<1>3. t = Worker /\ (Bad(t) \/ d \notin H \/ d = "fl")
  BY <1>2, PermitsOf DEF WorkerPermits, WorkerMay, AppPermits, AppMay, Lock
<1>4. \A c \in BOOLEAN : Permits(t, c) = WorkerPermits(c)
  BY <1>3 DEF Permits
<1>5. d \in Subjects
  BY DEF Devices, Subjects
<1>6. PICK b, c : c \in BOOLEAN /\ Continue(t, b) /\ Gets(t, c) /\ Path(Permits(t, c), b, H, H)
                              /\ cause' \in [Threads -> {"none", "Stop", "write", "read", "close", "chunk"}]
  <2>1. CASE UNCHANGED cause
    <3>1. PICK c \in BOOLEAN : c = Bad(t) /\ Gets(t, c)
      BY <2>1, GetsCause
    <3>2. Path(Permits(t, c), <<>>, H, H)
      BY <1>2, PathOfNothing
    <3>3. d # "fl" => Path(Permits(t, c), Property(d), H, H)
      BY <1>2, <1>3, <1>4, <1>5, <3>1, WorkerProperty
    <3>4. Continue(t, <<>>) \/ (d # "fl" /\ Continue(t, Property(d))) \/ (d = "fl" /\ Blame(t, "read"))
      BY DEF CDeviceRead
    <3>5. CASE d = "fl" /\ Blame(t, "read") /\ Continue(t, Property(d))
      <4>1. Gets(t, TRUE)
        BY <3>5, GetsCause
      <4>2. Path(Permits(t, TRUE), Property(d), H, H)
        BY <1>2, <1>4, <1>5, WorkerProperty
      <4> QED BY <2>1, <3>5, <4>1, <4>2 DEF IInv, FlagsOK
    <3> QED BY <2>1, <3>1, <3>2, <3>3, <3>5 DEF CDeviceRead, IInv, FlagsOK
  <2>2. CASE Blame(t, "read") /\ Continue(t, Property(d))
    <3>1. Gets(t, TRUE) /\ cause' \in [Threads -> {"none", "Stop", "write", "read", "close", "chunk"}]
      BY <2>2, GetsCause
    <3>2. Path(Permits(t, TRUE), Property(d), H, H)
      BY <1>2, <1>4, <1>5, WorkerProperty
    <3> QED BY <2>2, <3>1, <3>2
  <2> QED BY <2>1, <2>2 DEF CDeviceRead
<1>7. Walks'
  BY <1>1, <1>2, <1>6, ContinueStep DEF H
<1> QED BY <1>1, <1>6, <1>7 DEF IInv, FlagsOK, sockets, transfers

\* CDevice::Write: a failed one is logged under the device's own iLock only if
\* that is a cause, the control channel's.
LEMMA DeviceWriteStep ==
  ASSUME IInv, NEW t \in Threads, NEW d \in Devices, CDeviceWrite(t, d)
  PROVE  IInv'
<1> DEFINE H == Held(t)
<1>1. At(t, <<"DeviceWrite", d>>) /\ UNCHANGED <<iLock, iStopped, sent, received, transfers>> /\ wbio' = wbio \ {d}
  BY DEF CDeviceWrite
<1>2. H \in SUBSET Subjects /\ <<H, <<"DeviceWrite", d>> >> \in Permits(t, Bad(t)) /\ Path(Permits(t, Bad(t)), Tail(todo[t]), H, {})
  BY <1>1, AtCall
<1> HIDE DEF H
<1>3. d \in Subjects
  BY DEF Devices, Subjects
<1>4. ASSUME NEW c \in BOOLEAN, (c = Bad(t) /\ d # "cc") \/ c
      PROVE  Path(Permits(t, c), Property(d), H, H)
  <2>1. CASE t = Worker
    <3>1. Bad(t) \/ d \notin H \/ d = "cc"
      BY <1>2, <2>1, PermitsOf DEF WorkerPermits, WorkerMay, Lock
    <3>2. Permits(t, c) = WorkerPermits(c)
      BY <2>1 DEF Permits
    <3> QED BY <1>2, <1>3, <1>4, <3>1, <3>2, WorkerProperty
  <2>2. CASE t # Worker
    <3>1. H = {"ftp"} /\ (d = "cc" \/ (Bad(t) /\ d \in Channels))
      BY <1>2, <2>2, PermitsOf DEF AppPermits, AppMay, Lock
    <3>2. c /\ d \in Channels
      BY <1>4, <3>1 DEF Channels
    <3>3. c = TRUE
      BY <3>2
    <3>4. Permits(t, c) = AppPermits(TRUE)
      BY <2>2, <3>3 DEF Permits
    <3> QED BY <3>1, <3>2, <3>4, AppReaches
  <2> QED BY <2>1, <2>2
<1>5. PICK b, c : c \in BOOLEAN /\ Continue(t, b) /\ Gets(t, c) /\ Path(Permits(t, c), b, H, H)
                              /\ cause' \in [Threads -> {"none", "Stop", "write", "read", "close", "chunk"}]
  <2>1. CASE Continue(t, <<>>) /\ UNCHANGED cause
    <3>1. PICK c \in BOOLEAN : c = Bad(t) /\ Gets(t, c)
      BY <2>1, GetsCause
    <3>2. Path(Permits(t, c), <<>>, H, H)
      BY <1>2, PathOfNothing
    <3> QED BY <2>1, <3>1, <3>2 DEF IInv, FlagsOK
  <2>2. CASE Continue(t, Property(d)) /\ d = "cc" /\ Blame(t, "write")
    <3>1. Gets(t, TRUE) /\ cause' \in [Threads -> {"none", "Stop", "write", "read", "close", "chunk"}]
      BY <2>2, GetsCause
    <3> QED BY <1>4, <2>2, <3>1
  <2>3. CASE Continue(t, Property(d)) /\ d # "cc" /\ UNCHANGED cause
    <3>1. PICK c \in BOOLEAN : c = Bad(t) /\ Gets(t, c)
      BY <2>3, GetsCause
    <3> QED BY <1>4, <2>3, <3>1 DEF IInv, FlagsOK
  <2> QED BY <2>1, <2>2, <2>3 DEF CDeviceWrite
<1>6. Walks'
  BY <1>1, <1>2, <1>5, ContinueStep DEF H
<1> QED BY <1>1, <1>5, <1>6 DEF IInv, FlagsOK, transfers

\* CheckPeerSSLShutdown: the close_notify of the control channel is a cause.
LEMMA CheckPeerStep ==
  ASSUME IInv, NEW t \in Threads, NEW d \in Channels, CheckPeerSSLShutdown(t, d)
  PROVE  IInv'
<1> DEFINE H == Held(t)
           b == Property(d) \o (IF d \in sent THEN <<>> ELSE StopSocket(d))
<1>1. At(t, <<"CheckPeer", d>>) /\ UNCHANGED <<iLock, sockets, transfers>>
  BY DEF CheckPeerSSLShutdown
<1>2. H \in SUBSET Subjects /\ <<H, <<"CheckPeer", d>> >> \in Permits(t, Bad(t)) /\ Path(Permits(t, Bad(t)), Tail(todo[t]), H, {})
  BY <1>1, AtCall
<1> HIDE DEF H
<1>3. d \in Subjects /\ (d # "cc" => d = "dc")
  BY DEF Channels, Subjects
<1>4. ASSUME NEW c \in BOOLEAN, (c = Bad(t) /\ d # "cc") \/ c
      PROVE  Path(Permits(t, c), b, H, H)
  <2>1. Path(Permits(t, c), Property(d), H, H) /\ Path(Permits(t, c), StopSocket(d), H, H)
    <3>1. CASE t = Worker
      <4>1. Bad(t) \/ d \notin H \/ d = "cc"
        BY <1>2, <3>1, PermitsOf DEF WorkerPermits, WorkerMay, Lock
      <4>2. Permits(t, c) = WorkerPermits(c)
        BY <3>1 DEF Permits
      <4> QED BY <1>2, <1>3, <1>4, <4>1, <4>2, WorkerProperty, WorkerStopsSocket
    <3>2. CASE t # Worker
      <4>1. H = {"ftp"} /\ (d = "cc" \/ Bad(t))
        BY <1>2, <3>2, PermitsOf DEF AppPermits, AppMay, Lock
      <4>2. c = TRUE
        BY <1>4, <4>1
      <4>3. Permits(t, c) = AppPermits(TRUE)
        BY <3>2, <4>2 DEF Permits
      <4> QED BY <4>1, <4>3, AppReaches
    <3> QED BY <3>1, <3>2
  <2>2. Path(Permits(t, c), <<>>, H, H)
    BY <1>2, PathOfNothing
  <2> QED BY <2>1, <2>2, PathOfConcat
<1> HIDE DEF b
<1>5. PICK e, c : c \in BOOLEAN /\ Continue(t, e) /\ Gets(t, c) /\ Path(Permits(t, c), e, H, H)
                              /\ cause' \in [Threads -> {"none", "Stop", "write", "read", "close", "chunk"}]
  <2>1. CASE d \notin received
    <3>1. Continue(t, <<>>) /\ UNCHANGED cause
      BY <2>1 DEF CheckPeerSSLShutdown
    <3>2. PICK c \in BOOLEAN : c = Bad(t) /\ Gets(t, c)
      BY <3>1, GetsCause
    <3>3. Path(Permits(t, c), <<>>, H, H)
      BY <1>2, PathOfNothing
    <3> QED BY <3>1, <3>2, <3>3 DEF IInv, FlagsOK
  <2>2. CASE d \in received /\ d = "cc"
    <3>1. Continue(t, b) /\ Blame(t, "close")
      BY <2>2 DEF CheckPeerSSLShutdown, b
    <3>2. Gets(t, TRUE) /\ cause' \in [Threads -> {"none", "Stop", "write", "read", "close", "chunk"}]
      BY <3>1, GetsCause
    <3> QED BY <1>4, <3>1, <3>2
  <2>3. CASE d \in received /\ d # "cc"
    <3>1. Continue(t, b) /\ UNCHANGED cause
      BY <2>3 DEF CheckPeerSSLShutdown, b
    <3>2. PICK c \in BOOLEAN : c = Bad(t) /\ Gets(t, c)
      BY <3>1, GetsCause
    <3> QED BY <1>4, <2>3, <3>1, <3>2 DEF IInv, FlagsOK
  <2> QED BY <2>1, <2>2, <2>3
<1>6. Walks'
  BY <1>1, <1>2, <1>5, ContinueStep DEF H
<1> QED BY <1>1, <1>5, <1>6 DEF IInv, FlagsOK, sockets, transfers

\* A step without a new cause: the body is walked with what the thread may do.
LEMMA PlainStep ==
  ASSUME IInv, NEW t \in Threads, NEW x, At(t, x), x[1] \notin {"lock", "unlock"}, NEW b, Continue(t, b),
         Path(Permits(t, Bad(t)), b, Held(t), Held(t)), UNCHANGED <<iLock, cause>>
  PROVE  Walks'
<1>1. PICK c \in BOOLEAN : c = Bad(t) /\ Gets(t, c)
  BY GetsCause
<1>2. Path(Permits(t, Bad(t)), Tail(todo[t]), Held(t), {})
  BY AtCall
<1> QED BY <1>1, <1>2, ContinueStep

\* StopSocket and the shutdown behind it: nobody without a cause calls them
\* under the socket's own iLock.
LEMMA StopSocketStep ==
  ASSUME IInv, NEW t \in Threads, NEW d \in Channels, CStopSocket(t, d) \/ Shutdown(t, d)
  PROVE  IInv'
<1> DEFINE H == Held(t)
<1>1. PICK x \in {<<"StopSocket", d>>, <<"Shutdown", d>>} : At(t, x)
  BY DEF CStopSocket, Shutdown
<1>2. H \in SUBSET Subjects /\ <<H, x>> \in Permits(t, Bad(t))
  BY <1>1, AtCall
<1> HIDE DEF H
<1>3. PICK c \in BOOLEAN : c = Bad(t)
  BY DEF Bad
<1>4. /\ Path(Permits(t, c), <<>>, H, H) /\ Path(Permits(t, c), Property(d), H, H)
      /\ Path(Permits(t, c), UpdateWBIO(d), H, H) /\ Path(Permits(t, c), << <<"Shutdown", d>> >>, H, H)
  <2>1. CASE t = Worker
    <3>1. c \/ d \notin H
      BY <1>1, <1>2, <1>3, <2>1, PermitsOf DEF WorkerPermits, WorkerMay, Lock
    <3>2. Permits(t, c) = WorkerPermits(c)
      BY <2>1 DEF Permits
    <3>3. d \in Subjects /\ d \in Devices
      BY DEF Channels, Subjects, Devices
    <3>4. Path(Permits(t, c), <<>>, H, H)
      BY <1>2, PathOfNothing
    <3>5. Path(Permits(t, c), Property(d), H, H)
      BY <1>2, <3>1, <3>2, <3>3, WorkerProperty
    <3>6. Path(Permits(t, c), UpdateWBIO(d), H, H)
      BY <1>2, <3>1, <3>2, <3>3, WorkerWrites
    <3>7. Path(Permits(t, c), << <<"Shutdown", d>> >>, H, H)
      BY <1>2, <3>1, <3>2, WorkerStopsSocket
    <3> QED BY <3>4, <3>5, <3>6, <3>7
  <2>2. CASE t # Worker
    <3>1. H = {"ftp"} /\ c = TRUE
      BY <1>1, <1>2, <1>3, <2>2, PermitsOf DEF AppPermits, AppMay, Lock
    <3>2. Permits(t, c) = AppPermits(TRUE)
      BY <2>2, <3>1 DEF Permits
    <3> QED BY <3>1, <3>2, AppReaches
  <2> QED BY <2>1, <2>2
<1>5. CASE Shutdown(t, d)
  <2>1. At(t, <<"Shutdown", d>>) /\ Continue(t, Property(d)) /\ UNCHANGED <<iLock, cause>>
    BY <1>5 DEF Shutdown
  <2>2. Walks'
    BY <1>3, <1>4, <2>1, PlainStep DEF H
  <2> QED BY <1>5, <2>2 DEF Shutdown, IInv, FlagsOK, transfers
<1>6. CASE CStopSocket(t, d)
  <2> DEFINE says == d \in Tls \ (sent \cup iStopped)
             a == IF says THEN Property(d) \o UpdateWBIO(d) ELSE <<>>
             z == IF d \in iStopped THEN <<>> ELSE << <<"Shutdown", d>> >>
  <2>1. At(t, <<"StopSocket", d>>) /\ Continue(t, a \o z) /\ UNCHANGED <<iLock, cause>>
    BY <1>6 DEF CStopSocket
  <2>2. Path(Permits(t, c), a, H, H) /\ Path(Permits(t, c), z, H, H)
    BY <1>4, PathOfConcat
  <2> HIDE DEF a, z
  <2>3. Path(Permits(t, c), a \o z, H, H)
    BY <2>2, PathOfConcat
  <2>4. Walks'
    BY <1>3, <2>1, <2>3, PlainStep DEF H
  <2>5. sent' \subseteq Channels /\ wbio' \subseteq Channels
    BY <1>6 DEF CStopSocket, IInv, FlagsOK
  <2> QED BY <1>6, <2>4, <2>5 DEF CStopSocket, IInv, FlagsOK, transfers
<1> QED BY <1>5, <1>6

\* CDeviceSocket::Write: to the control channel under its own iLock at most.
LEMMA SocketWriteStep ==
  ASSUME IInv, NEW t \in Threads, NEW d \in Channels, SocketWrite(t, d)
  PROVE  IInv'
<1> DEFINE H == Held(t)
           b == IF d \in Tls THEN UpdateWBIO(d) ELSE DeviceWrite(d)
<1>1. At(t, <<"Write", d>>) /\ Continue(t, b) /\ UNCHANGED <<iLock, iStopped, sent, received, transfers, cause>>
      /\ wbio' \subseteq wbio \cup {d}
  BY DEF SocketWrite
<1>2. H \in SUBSET Subjects /\ <<H, <<"Write", d>> >> \in Permits(t, Bad(t))
  BY <1>1, AtCall
<1> HIDE DEF H
<1>3. PICK c \in BOOLEAN : c = Bad(t)
  BY DEF Bad
<1>4. Path(Permits(t, c), UpdateWBIO(d), H, H) /\ Path(Permits(t, c), DeviceWrite(d), H, H)
  <2>1. CASE t = Worker
    <3>1. c \/ d \notin H \/ d = "cc"
      BY <1>2, <1>3, <2>1, PermitsOf DEF WorkerPermits, WorkerMay, Lock
    <3>2. Permits(t, c) = WorkerPermits(c)
      BY <2>1 DEF Permits
    <3>3. d \in Devices
      BY DEF Channels, Devices
    <3> QED BY <1>2, <3>1, <3>2, <3>3, WorkerWrites
  <2>2. CASE t # Worker
    <3>1. H = {"ftp"} /\ d = "cc"
      BY <1>2, <2>2, PermitsOf DEF AppPermits, AppMay, Lock
    <3>2. Permits(t, c) = AppPermits(c)
      BY <2>2 DEF Permits
    <3>3. /\ <<"CheckPeer", "cc">> \in Items /\ <<H, <<"CheckPeer", "cc">> >> \in AppPermits(c)
          /\ <<"DeviceWrite", "cc">> \in Items /\ <<H, <<"DeviceWrite", "cc">> >> \in AppPermits(c)
      BY <1>2, <3>1 DEF AppPermits, AppMay, Items, Channels, Devices
    <3>4. /\ Path(AppPermits(c), << <<"CheckPeer", "cc">> >>, H, H) /\ Path(AppPermits(c), DeviceWrite("cc"), H, H)
          /\ Path(AppPermits(c), <<>>, H, H)
      BY <1>2, <3>3, PathOfCall, PathOfNothing DEF DeviceWrite
    <3>5. Path(AppPermits(c), << <<"CheckPeer", "cc">> >> \o DeviceWrite("cc"), H, H)
      BY <3>4, PathOfConcat
    <3> QED BY <3>1, <3>2, <3>4, <3>5 DEF UpdateWBIO
  <2> QED BY <2>1, <2>2
<1>5. Path(Permits(t, c), b, H, H)
  BY <1>4
<1> HIDE DEF b
<1>6. Walks'
  BY <1>1, <1>3, <1>5, PlainStep DEF H
<1>7. wbio' \subseteq Channels
  BY <1>1 DEF IInv, FlagsOK
<1> QED BY <1>1, <1>6, <1>7 DEF IInv, FlagsOK, transfers

\* Stop reaches the data channel under the protocol's iLock, and forgets it.
LEMMA StopStep ==
  ASSUME IInv, NEW t \in Threads, Stop(t) \/ ForgetChannel(t)
  PROVE  IInv'
<1> DEFINE H == Held(t)
           x == StopSocket("dc") \o << <<"Forget", "dc">> >>
<1>1. PICK i \in {<<"StopChannel", "ftp">>, <<"Forget", "dc">>} : At(t, i)
  BY DEF Stop, ForgetChannel
<1>2. H \in SUBSET Subjects /\ <<H, i>> \in Permits(t, Bad(t))
  BY <1>1, AtCall
<1> HIDE DEF H
<1>3. PICK c \in BOOLEAN : c = Bad(t)
  BY DEF Bad
<1>4. t # Worker
  BY <1>1, <1>2, PermitsOf DEF WorkerPermits, WorkerMay, Lock
<1>5. H = {"ftp"} /\ c = TRUE
  BY <1>1, <1>2, <1>3, <1>4, PermitsOf DEF AppPermits, AppMay, Lock
<1>6. Permits(t, c) = AppPermits(TRUE) /\ "dc" \in Channels
  BY <1>4, <1>5 DEF Permits, Channels
<1>7. Path(Permits(t, c), <<>>, H, H) /\ Path(Permits(t, c), x, H, H)
  <2>1. /\ Path(AppPermits(TRUE), <<>>, H, H) /\ Path(AppPermits(TRUE), StopSocket("dc"), H, H)
        /\ Path(AppPermits(TRUE), << <<"Forget", "dc">> >>, H, H)
    BY <1>5, <1>6, AppReaches
  <2> QED BY <1>6, <2>1, PathOfConcat
<1> HIDE DEF x
<1>8. CASE Stop(t)
  <2>1. PICK b \in {<<>>, x} : At(t, <<"StopChannel", "ftp">>) /\ Continue(t, b) /\ UNCHANGED <<iLock, flags>>
    BY <1>8 DEF Stop, x
  <2>2. Walks'
    BY <1>3, <1>7, <2>1, PlainStep DEF H, flags
  <2> QED BY <2>1, <2>2 DEF IInv, FlagsOK, flags, sockets, transfers
<1>9. CASE ForgetChannel(t)
  <2>1. At(t, <<"Forget", "dc">>) /\ Continue(t, <<>>) /\ UNCHANGED <<iLock, cause>>
    BY <1>9 DEF ForgetChannel
  <2>2. Walks'
    BY <1>3, <1>7, <2>1, PlainStep DEF H
  <2> QED BY <1>9, <2>2 DEF ForgetChannel, IInv, FlagsOK, sockets
<1> QED BY <1>8, <1>9

\* The application's callbacks, called by the worker without the protocol's and
\* the dispatcher's iLock: they may take either.
LEMMA CallbackStep ==
  ASSUME IInv, NEW t \in Threads, Callback(t) \/ TransferCallback(t)
  PROVE  IInv'
<1> DEFINE H == Held(t)
<1>1. PICK i \in {"ftp", "dc"}, b \in ApiCall \cup {OpenDevice, <<>>} : At(t, <<"Callback", i>>) /\ Continue(t, b)
  BY DEF Callback, TransferCallback
<1>2. H \in SUBSET Subjects /\ <<H, <<"Callback", i>> >> \in Permits(t, Bad(t))
  BY <1>1, AtCall
<1> HIDE DEF H
<1>3. PICK c \in BOOLEAN : c = Bad(t)
  BY DEF Bad
<1>4. t = Worker
  BY <1>2, PermitsOf DEF AppPermits, AppMay, Lock
<1>5. Permits(t, c) = WorkerPermits(c)
  BY <1>4 DEF Permits
<1>6. "ftp" \notin H /\ "D" \notin H
  BY <1>2, <1>3, <1>5 DEF WorkerPermits, WorkerMay, Lock
<1>7. Path(Permits(t, c), b, H, H)
  BY <1>2, <1>5, <1>6, WorkerCommands, WorkerLists
<1>8. UNCHANGED <<iLock, iStopped, sent, received, wbio, iDataChannel, transfer, listed, marked, cause>>
  BY DEF Callback, TransferCallback, flags, sockets, transfers
<1>9. Walks'
  BY <1>1, <1>3, <1>7, <1>8, PlainStep DEF H
<1>10. iContinueTransfer' \in BOOLEAN
  BY DEF Callback, TransferCallback, flags, transfers, IInv, FlagsOK
<1> QED BY <1>8, <1>9, <1>10 DEF IInv, FlagsOK

\* The erasing pass, and the destructor that may run in it, with the dispatcher's iLock.
LEMMA SweepStep ==
  ASSUME IInv, NEW t \in Threads, Sweep(t)
  PROVE  IInv'
<1> DEFINE H == Held(t)
           P(d) == Property(d)
           x == StopSocket("dc")
<1>1. At(t, <<"Sweep", "D">>) /\ UNCHANGED <<iLock, sockets, iDataChannel, iContinueTransfer, transfer, cause>>
  BY DEF Sweep
<1>2. H \in SUBSET Subjects /\ <<H, <<"Sweep", "D">> >> \in Permits(t, Bad(t))
  BY <1>1, AtCall
<1> HIDE DEF H
<1>3. PICK c \in BOOLEAN : c = Bad(t)
  BY DEF Bad
<1>4. t = Worker
  BY <1>2, PermitsOf DEF AppPermits, AppMay, Lock
<1>5. Permits(t, c) = WorkerPermits(c)
  BY <1>4 DEF Permits
<1>6. H = {"D"}
  BY <1>2, <1>3, <1>5 DEF WorkerPermits, WorkerMay, Lock
<1>7. \A d \in {"dc", "fl"} : Path(Permits(t, c), P(d), H, H)
  <2>1. \A d \in {"dc", "fl"} : d \in Subjects /\ d \notin H
    BY <1>6 DEF Subjects
  <2> QED BY <1>2, <1>5, <2>1, WorkerProperty
<1>8. Path(Permits(t, c), x, H, H) /\ Path(Permits(t, c), <<>>, H, H)
  <2>1. "dc" \in Channels /\ "dc" \notin H
    BY <1>6 DEF Channels
  <2> QED BY <1>2, <1>5, <2>1, WorkerStopsSocket, PathOfNothing
<1> HIDE DEF P, x
<1>9. Path(Permits(t, c), P("dc") \o x \o P("dc") \o P("dc"), H, H)
  BY <1>7, <1>8, PathOfConcat
<1>10. PICK b : Continue(t, b) /\ Path(Permits(t, c), b, H, H)
  <2>1. CASE Continue(t, <<>>)
    BY <1>8, <2>1
  <2>2. CASE ~Continue(t, <<>>)
    <3>1. PICK d \in listed \cap marked :
            Continue(t, IF d = "dc" /\ iDataChannel THEN <<>>
                        ELSE IF d = "dc" THEN P(d) \o x \o P(d) \o P(d) ELSE P(d))
      BY <2>2 DEF Sweep, P, x
    <3>2. d \in {"dc", "fl"}
      BY DEF IInv, FlagsOK
    <3> QED BY <1>7, <1>9, <2>2, <3>1, <3>2
  <2> QED BY <2>1, <2>2
<1>11. Walks'
  BY <1>1, <1>3, <1>10, PlainStep DEF H
<1>12. listed' \subseteq listed /\ marked' \subseteq marked
  BY DEF Sweep
<1> QED BY <1>1, <1>11, <1>12 DEF IInv, FlagsOK, sockets

\* An idle thread holds nothing.
LEMMA IdleHoldsNothing ==
  ASSUME IInv, NEW t \in Threads, todo[t] = <<>>
  PROVE  Held(t) = {}
<1>1. Path(Permits(t, Bad(t)), <<>>, Held(t), {}) /\ Held(t) \in SUBSET Subjects
  BY DEF IInv, Walks, Held
<1> QED BY <1>1, PathOfNothing

\* What a thread begins when it has nothing to do is walked from no lock to none.
LEMMA NewTodo ==
  ASSUME IInv, NEW t \in Threads, todo[t] = <<>>, NEW b, todo' = [todo EXCEPT ![t] = b], iLock' = iLock,
         NEW why \in {"none", "Stop", "write", "read", "close", "chunk"}, Blame(t, why),
         Path(Permits(t, why # "none"), b, {}, {})
  PROVE  Walks' /\ cause' \in [Threads -> {"none", "Stop", "write", "read", "close", "chunk"}]
<1>1. todo \in [Threads -> Seq(Items)] /\ \A u \in Threads : Path(Permits(u, Bad(u)), todo[u], Held(u), {})
  BY DEF IInv, Walks
<1>2. \A u \in Threads : Held(u)' = Held(u)
  BY DEF Held
<1>3. Held(t) = {}
  BY IdleHoldsNothing
<1>4. b \in Seq(Items)
  BY DEF Path
<1>5. todo' \in [Threads -> Seq(Items)]
  BY <1>1, <1>4
<1>6. /\ cause' \in [Threads -> {"none", "Stop", "write", "read", "close", "chunk"}] /\ cause'[t] = why
      /\ \A u \in Threads \ {t} : cause'[u] = cause[u]
  BY DEF IInv, FlagsOK, Blame
<1>7. ASSUME NEW u \in Threads PROVE Path(Permits(u, Bad(u))', todo'[u], Held(u)', {})
  <2>1. CASE u = t
    <3>1. Permits(u, Bad(u))' = Permits(t, why # "none")
      BY <1>6, <2>1 DEF Permits, Bad, WorkerPermits, AppPermits
    <3> QED BY <1>1, <1>2, <1>3, <2>1, <3>1
  <2>2. CASE u # t
    <3>1. Permits(u, Bad(u))' = Permits(u, Bad(u))
      BY <1>6, <2>2 DEF Permits, Bad, WorkerPermits, AppPermits
    <3> QED BY <1>1, <1>2, <2>2, <3>1
  <2> QED BY <2>1, <2>2
<1> QED BY <1>5, <1>6, <1>7 DEF Walks

\* A call of the application's: of the API, another session, or Stop.
LEMMA CallStep ==
  ASSUME IInv, NEW t \in Threads, Call(t)
  PROVE  IInv'
<1>1. t \in Apps /\ t # Worker /\ todo[t] = <<>> /\ UNCHANGED <<iLock, sockets, transfers>>
  BY ThreadsAssumption DEF Call
<1>2. PICK b, why : /\ why \in {"none", "Stop"} /\ todo' = [todo EXCEPT ![t] = b] /\ Blame(t, why)
                                         /\ Path(Permits(t, why # "none"), b, {}, {})
  <2>1. CASE \E b \in ApiCall \cup {OpenDevice} : todo' = [todo EXCEPT ![t] = b] /\ Blame(t, "none")
    <3>1. PICK b \in ApiCall \cup {OpenDevice} : todo' = [todo EXCEPT ![t] = b] /\ Blame(t, "none")
      BY <2>1
    <3>2. Permits(t, FALSE) = AppPermits(FALSE)
      BY <1>1 DEF Permits
    <3>3. Path(AppPermits(FALSE), b, {}, {})
      BY <3>1, AppSends
    <3>4. ("none" # "none") = FALSE
      OBVIOUS
    <3>5. Path(Permits(t, "none" # "none"), b, {}, {})
      BY <3>2, <3>3, <3>4
    <3> QED BY <3>1, <3>5
  <2>2. CASE todo' = [todo EXCEPT ![t] = StopCall] /\ Blame(t, "Stop")
    <3>1. Permits(t, TRUE) = AppPermits(TRUE)
      BY <1>1 DEF Permits
    <3>2. PICK b, why : b = StopCall /\ why = "Stop"
      OBVIOUS
    <3>3. (why # "none") = TRUE
      BY <3>2
    <3>4. Path(Permits(t, why # "none"), b, {}, {})
      BY <3>1, <3>2, <3>3, AppStops
    <3>5. todo' = [todo EXCEPT ![t] = b]
      BY <2>2, <3>2
    <3>6. Blame(t, why) /\ why \in {"none", "Stop"}
      BY <2>2, <3>2
    <3> QED BY <3>4, <3>5, <3>6
  <2> QED BY <2>1, <2>2 DEF Call
<1>3. Walks' /\ cause' \in [Threads -> {"none", "Stop", "write", "read", "close", "chunk"}]
  BY <1>1, <1>2, NewTodo
<1> QED BY <1>1, <1>3 DEF IInv, FlagsOK, sockets, transfers

----------------------------------------------------------------------------
(* Completions *)

\* The worker begins what a completion calls for.
LEMMA BeginStep ==
  ASSUME IInv, todo[Worker] = <<>>, NEW b, NEW why \in {"none", "chunk"}, Begins(b, why), iLock' = iLock,
         Path(WorkerPermits(why # "none"), b, {}, {})
  PROVE  Walks' /\ cause' \in [Threads -> {"none", "Stop", "write", "read", "close", "chunk"}]
<1>1. Worker \in Threads /\ todo' = [todo EXCEPT ![Worker] = ProcessContext(b)] /\ Blame(Worker, why)
  BY DEF Threads, Begins
<1>2. PICK bad \in BOOLEAN : bad = (why # "none")
  OBVIOUS
<1>3. Path(WorkerPermits(bad), ProcessContext(b), {}, {})
  BY <1>2, WorkerContext
<1>4. Permits(Worker, bad) = WorkerPermits(bad)
  BY DEF Permits
<1> QED BY <1>1, <1>2, <1>3, <1>4, NewTodo

\* What arrives on a socket, whatever its handler does: read on, TLS, the handler.
LEMMA WorkerReceives ==
  ASSUME NEW bad \in BOOLEAN, NEW d \in Channels, NEW b, Path(WorkerPermits(bad), b, {}, {})
  PROVE  /\ Path(WorkerPermits(bad), DeviceRead(d) \o UpdateWBIO(d), {}, {})
         /\ Path(WorkerPermits(bad), DeviceRead(d) \o UpdateWBIO(d) \o b, {}, {})
         /\ Path(WorkerPermits(bad), DeviceRead(d) \o b \o UpdateWBIO(d), {}, {})
<1>1. {} \in SUBSET Subjects /\ d \in Devices
  BY DEF Channels, Devices
<1>2. Path(WorkerPermits(bad), DeviceRead(d), {}, {}) /\ Path(WorkerPermits(bad), UpdateWBIO(d), {}, {})
  BY <1>1, WorkerReads, WorkerWrites
<1> QED BY <1>2, PathOfConcat

\* A reply on the control channel, whatever its handler does under that channel's iLock.
LEMMA ReplyStep ==
  ASSUME IInv, todo[Worker] = <<>>, NEW b, NEW got \in SUBSET Channels, Reply(b, got),
         Path(WorkerPermits(FALSE), b, {"cc"}, {"cc"}), iLock' = iLock
  PROVE  /\ Walks' /\ received' \subseteq Channels
         /\ cause' \in [Threads -> {"none", "Stop", "write", "read", "close", "chunk"}]
<1>1. /\ Begins(DeviceRead("cc") \o UpdateWBIO("cc") \o Notified(b), "none")
      /\ received' \in {got, got \cup ({"cc"} \cap Tls)}
  BY DEF Reply, Arrives
<1>2. {"cc"} \in SUBSET Subjects /\ "cc" \in Subjects /\ "cc" \in Channels /\ "ftp" \notin {"cc"}
  BY DEF Subjects, Channels
<1>3. Path(WorkerPermits(FALSE), Guarded("ftp", <<>>), {"cc"}, {"cc"})
  BY <1>2, WorkerCommands
<1>4. Path(WorkerPermits(FALSE), b \o Guarded("ftp", <<>>), {"cc"}, {"cc"})
  BY <1>3, PathOfConcat
<1>5. Path(WorkerPermits(FALSE), Notified(b), {}, {})
  BY <1>2, <1>4, WorkerGuarded DEF Notified
<1>6. Path(WorkerPermits(FALSE), DeviceRead("cc") \o UpdateWBIO("cc") \o Notified(b), {}, {})
  BY <1>2, <1>5, WorkerReceives
<1>7. Walks' /\ cause' \in [Threads -> {"none", "Stop", "write", "read", "close", "chunk"}]
  BY <1>1, <1>6, BeginStep
<1> QED BY <1>1, <1>2, <1>7

\* The handlers of replies take no lock twice under the control channel's.
LEMMA HandlersOfReplies ==
  LET M == WorkerPermits(FALSE)
      H == {"cc"}
  IN /\ \A next \in NextCmd : Path(M, next, H, H) /\ Path(M, << <<"Callback", "ftp">> >> \o next, H, H)
     /\ Path(M, UpdateWBIO("cc"), H, H)
     /\ Path(M, SendCommand \o Property("dc") \o AddListeners("dc"), H, H)
     /\ \A cmd : Path(M, Property("fl") \o AddListeners("fl")
                         \o IF "dc" \in Tls THEN UpdateWBIO("dc") ELSE TriggerDataTransfer(cmd), H, H)
<1> DEFINE M == WorkerPermits(FALSE)
           H == {"cc"}
<1>1. /\ H \in SUBSET Subjects /\ "ftp" \notin H /\ "D" \notin H
      /\ "dc" \in Subjects /\ "dc" \notin H /\ "fl" \in Subjects /\ "fl" \notin H
      /\ {"cc", "dc"} \subseteq Channels /\ {"cc", "dc", "fl"} \subseteq Devices
  BY DEF Subjects, Channels, Devices
<1> HIDE DEF H
<1>2. /\ Path(M, <<>>, H, H) /\ Path(M, SendCommand, H, H) /\ \A next \in NextCmd : Path(M, next, H, H)
      /\ Path(M, << <<"Callback", "ftp">> >>, H, H)
  BY <1>1, WorkerCommands, WorkerCallsBack
<1>3. /\ Path(M, Property("dc"), H, H) /\ Path(M, AddListeners("dc"), H, H)
      /\ Path(M, Property("fl"), H, H) /\ Path(M, AddListeners("fl"), H, H)
  BY <1>1, WorkerProperty, WorkerLists
<1>4. Path(M, UpdateWBIO("cc"), H, H) /\ Path(M, UpdateWBIO("dc"), H, H) /\ Path(M, DeviceRead("fl"), H, H)
  BY <1>1, WorkerWrites, WorkerReads
<1> HIDE DEF M
<1>5. \A next \in NextCmd : Path(M, << <<"Callback", "ftp">> >> \o next, H, H)
  BY <1>2, PathOfConcat
<1>6. Path(M, SendCommand \o Property("dc") \o AddListeners("dc"), H, H)
  BY <1>2, <1>3, PathOfConcat
<1>7. ASSUME NEW cmd
      PROVE  Path(M, Property("fl") \o AddListeners("fl")
                     \o IF "dc" \in Tls THEN UpdateWBIO("dc") ELSE TriggerDataTransfer(cmd), H, H)
  <2>1. Path(M, IF "dc" \in Tls THEN UpdateWBIO("dc") ELSE TriggerDataTransfer(cmd), H, H)
    BY <1>2, <1>4 DEF TriggerDataTransfer
  <2> QED BY <1>3, <2>1, PathOfConcat
<1> QED BY <1>2, <1>4, <1>5, <1>6, <1>7 DEF M, H

\* The reads of the control channel.
LEMMA ControlReadStep ==
  ASSUME IInv, todo[Worker] = <<>>, ControlRead, iLock' = iLock
  PROVE  IInv'
<1> USE DEF IInv, FlagsOK
<1>1. received \in SUBSET Channels /\ received \ {"dc"} \in SUBSET Channels /\ "cc" \in Channels /\ "dc" \in Channels
  BY DEF Channels
<1>2. CASE Answered
  <2>1. PICK next \in NextCmd : Reply(<< <<"Callback", "ftp">> >> \o next, received)
    BY <1>2 DEF Answered
  <2>2. /\ Walks' /\ received' \subseteq Channels
        /\ cause' \in [Threads -> {"none", "Stop", "write", "read", "close", "chunk"}]
    BY <1>1, <2>1, ReplyStep, HandlersOfReplies
  <2> QED BY <1>2, <2>2 DEF Answered, transfers
<1>3. CASE SecureControl
  <2>1. /\ Walks' /\ received' \subseteq Channels
        /\ cause' \in [Threads -> {"none", "Stop", "write", "read", "close", "chunk"}]
    BY <1>1, <1>3, ReplyStep, HandlersOfReplies DEF SecureControl
  <2> QED BY <1>1, <1>3, <2>1 DEF SecureControl, transfers
<1>4. CASE OpenDataChannel
  <2>1. Reply(SendCommand \o Property("dc") \o AddListeners("dc"), received \ {"dc"})
    BY <1>4 DEF OpenDataChannel
  <2>2. /\ Walks' /\ received' \subseteq Channels
        /\ cause' \in [Threads -> {"none", "Stop", "write", "read", "close", "chunk"}]
    BY <1>1, <2>1, ReplyStep, HandlersOfReplies
  <2> QED BY <1>4, <2>2 DEF OpenDataChannel
<1>5. CASE BeginTransfer
  <2>1. PICK cmd : cmd = transfer'
    OBVIOUS
  <2>2. Reply(Property("fl") \o AddListeners("fl")
              \o IF "dc" \in Tls THEN UpdateWBIO("dc") ELSE TriggerDataTransfer(cmd), received)
    BY <1>5, <2>1 DEF BeginTransfer
  <2>3. /\ Walks' /\ received' \subseteq Channels
        /\ cause' \in [Threads -> {"none", "Stop", "write", "read", "close", "chunk"}]
    BY <1>1, <2>2, ReplyStep, HandlersOfReplies
  <2> QED BY <1>1, <1>5, <2>3 DEF BeginTransfer
<1>6. CASE EndTransfer
  <2>1. PICK next \in NextCmd : Reply(next, received)
    BY <1>6 DEF EndTransfer
  <2>2. /\ Walks' /\ received' \subseteq Channels
        /\ cause' \in [Threads -> {"none", "Stop", "write", "read", "close", "chunk"}]
    BY <1>1, <2>1, ReplyStep, HandlersOfReplies
  <2> QED BY <1>6, <2>2 DEF EndTransfer
<1> QED BY <1>2, <1>3, <1>4, <1>5, <1>6 DEF ControlRead

\* Handshakes and the peer's close_notify.
LEMMA TlsStep ==
  ASSUME IInv, todo[Worker] = <<>>, NEW d \in Channels, Handshake(d) \/ CloseNotify(d), iLock' = iLock
  PROVE  IInv'
<1> DEFINE M == WorkerPermits(FALSE)
<1>1. Path(M, <<>>, {}, {}) /\ Path(M, SendCommand, {}, {}) /\ Path(M, DeviceRead("fl"), {}, {})
  <2>1. {} \in SUBSET Subjects /\ "fl" \in Devices
    BY DEF Devices
  <2> QED BY <2>1, WorkerCommands, WorkerReads
<1>2. \A done \in {<<>>, SendCommand, TriggerDataTransfer(transfer)} : Path(M, done, {}, {})
  BY <1>1 DEF TriggerDataTransfer
<1>3. CASE Handshake(d)
  <2>1. PICK done \in {<<>>, SendCommand, TriggerDataTransfer(transfer)} :
          Begins(DeviceRead(d) \o done \o UpdateWBIO(d), "none")
    BY <1>3 DEF Handshake
  <2>2. Path(M, DeviceRead(d) \o done \o UpdateWBIO(d), {}, {})
    BY <1>2, WorkerReceives
  <2>3. Walks' /\ cause' \in [Threads -> {"none", "Stop", "write", "read", "close", "chunk"}]
    BY <2>1, <2>2, BeginStep
  <2> QED BY <1>3, <2>3 DEF Handshake, IInv, FlagsOK, transfers
<1>4. CASE CloseNotify(d)
  <2>1. Begins(DeviceRead(d) \o UpdateWBIO(d), "none")
    BY <1>4 DEF CloseNotify
  <2>2. Path(M, DeviceRead(d) \o UpdateWBIO(d), {}, {})
    BY <1>1, WorkerReceives
  <2>3. Walks' /\ cause' \in [Threads -> {"none", "Stop", "write", "read", "close", "chunk"}]
    BY <2>1, <2>2, BeginStep
  <2> QED BY <1>4, <2>3 DEF CloseNotify, IInv, FlagsOK, transfers
<1> QED BY <1>3, <1>4

\* Connects, the ends of writes and the control channel's disconnect.
LEMMA OtherStep ==
  ASSUME IInv, todo[Worker] = <<>>, ControlOther \/ TransferOther, iLock' = iLock
  PROVE  IInv'
<1> DEFINE M == WorkerPermits(FALSE)
<1>1. \A s \in Subjects : Path(M, Guarded(s, <<>>), {}, {})
  BY PathOfNothing, WorkerGuarded
<1>2. Path(M, DeviceRead("cc"), {}, {}) /\ Path(M, DeviceRead("dc"), {}, {})
  <2>1. {} \in SUBSET Subjects /\ "cc" \in Devices /\ "dc" \in Devices
    BY DEF Devices
  <2> QED BY <2>1, WorkerReads
<1>3. {"cc"} \in SUBSET Subjects /\ "cc" \in Subjects /\ "dc" \in Subjects /\ "ftp" \notin {"cc"} /\ "D" \notin {"cc"}
      /\ {"dc", "fl"} \subseteq Subjects
  BY DEF Subjects
<1>4. Path(M, << <<"Callback", "ftp">> >>, {"cc"}, {"cc"}) /\ Path(M, Guarded("ftp", <<>>), {"cc"}, {"cc"})
  BY <1>3, WorkerCallsBack, WorkerCommands
<1>5. Path(M, Guarded("cc", << <<"Callback", "ftp">> >>), {}, {}) /\ Path(M, Guarded("cc", Guarded("ftp", <<>>)), {}, {})
  BY <1>3, <1>4, WorkerGuarded
<1>6. /\ Path(M, Guarded("cc", << <<"Callback", "ftp">> >>) \o DeviceRead("cc"), {}, {})
      /\ Path(M, Guarded("dc", <<>>) \o DeviceRead("dc"), {}, {})
  BY <1>1, <1>2, <1>3, <1>5, PathOfConcat
<1>7. PICK b : Begins(b, "none") /\ Path(M, b, {}, {})
  <2>1. CASE ControlOther
    BY <1>1, <1>3, <1>5, <1>6, <2>1 DEF ControlOther
  <2>2. CASE TransferOther
    BY <1>1, <1>3, <1>6, <2>2 DEF TransferOther, IInv, FlagsOK
  <2> QED BY <2>1, <2>2
<1>8. Walks' /\ cause' \in [Threads -> {"none", "Stop", "write", "read", "close", "chunk"}]
  BY <1>7, BeginStep
<1> QED BY <1>8 DEF ControlOther, TransferOther, IInv, FlagsOK, sockets, transfers

\* The data channel's and the file's completions.
LEMMA TransferStep ==
  ASSUME IInv, todo[Worker] = <<>>, iLock' = iLock, DataRead \/ DataDisconnect \/ FileRead \/ FileDisconnect
  PROVE  IInv'
<1> DEFINE M == WorkerPermits(FALSE)
           call == << <<"Callback", "dc">> >>
           ends == << <<"Callback", "ftp">> >>
           write == << <<"Write", "dc">> >>
<1>1. /\ "dc" \in Channels /\ "dc" \in Devices /\ "fl" \in Devices /\ {"dc"} \in SUBSET Subjects /\ {"fl"} \in SUBSET Subjects
      /\ "dc" \in Subjects /\ "fl" \in Subjects /\ "dc" \notin {"fl"} /\ "fl" \notin {"dc"}
      /\ \A H \in {{"dc"}, {"fl"}} : "ftp" \notin H /\ "D" \notin H
  BY DEF Subjects, Channels, Devices
<1>2. /\ Path(M, call, {"dc"}, {"dc"}) /\ Path(M, ends, {"dc"}, {"dc"}) /\ Path(M, call, {"fl"}, {"fl"})
      /\ Path(M, <<>>, {"dc"}, {"dc"}) /\ Path(M, DeviceWrite("fl"), {"dc"}, {"dc"})
      /\ Path(M, DeviceRead("fl"), {"fl"}, {"fl"}) /\ Path(M, write, {"fl"}, {"fl"})
      /\ Path(M, StopSocket("dc"), {"fl"}, {"fl"})
      /\ Path(WorkerPermits(TRUE), StopSocket("dc"), {"dc"}, {"dc"})
      /\ \A next \in NextCmd : Path(M, next, {"dc"}, {"dc"})
  BY <1>1, WorkerCallsBack, WorkerWrites, WorkerReads, WorkerStopsSocket, WorkerCommands
<1>3. << <<"Callback", "dc">>, <<"Write", "dc">> >> = call \o write
  OBVIOUS
<1> HIDE DEF call, write, ends
<1>4. /\ Path(M, call \o write \o DeviceRead("fl"), {"fl"}, {"fl"})
      /\ \A store \in {<<>>, DeviceWrite("fl")} : Path(M, call \o store, {"dc"}, {"dc"})
      /\ \A next \in NextCmd : Path(M, ends \o next, {"dc"}, {"dc"})
  BY <1>2, PathOfConcat
<1>5. /\ Path(M, Guarded("fl", call \o write \o DeviceRead("fl")), {}, {}) /\ Path(M, Guarded("fl", StopSocket("dc")), {}, {})
      /\ \A store \in {<<>>, DeviceWrite("fl")} : Path(M, Guarded("dc", call \o store), {}, {})
      /\ \A next \in NextCmd : Path(M, Guarded("dc", ends \o next), {}, {})
      /\ Path(WorkerPermits(TRUE), Guarded("dc", StopSocket("dc")), {}, {})
  BY <1>1, <1>2, <1>4, WorkerGuarded
<1>6. PICK b, why : why \in {"none", "chunk"} /\ Begins(b, why) /\ Path(WorkerPermits(why # "none"), b, {}, {})
  <2>1. CASE DataRead
    <3>1. CASE \E store \in {<<>>} \cup {DeviceWrite(f) : f \in listed \ {"dc"}} :
                 Arrives("dc", Guarded("dc", << <<"Callback", "dc">> >> \o store), "none", received)
      <4>1. PICK store \in {<<>>, DeviceWrite("fl")} : Arrives("dc", Guarded("dc", call \o store), "none", received)
        BY <3>1 DEF call, IInv, FlagsOK
      <4>2. Begins(DeviceRead("dc") \o UpdateWBIO("dc") \o Guarded("dc", call \o store), "none")
        BY <4>1 DEF Arrives
      <4>3. Path(M, DeviceRead("dc") \o UpdateWBIO("dc") \o Guarded("dc", call \o store), {}, {})
        BY <1>1, <1>5, <4>1, WorkerReceives
      <4>4. ("none" # "none") = FALSE
        OBVIOUS
      <4>5. Path(WorkerPermits("none" # "none"), DeviceRead("dc") \o UpdateWBIO("dc") \o Guarded("dc", call \o store), {}, {})
        BY <4>3, <4>4
      <4> QED BY <4>2, <4>5
    <3>2. CASE Arrives("dc", Guarded("dc", StopSocket("dc")), "chunk", received)
      <4>1. Begins(DeviceRead("dc") \o UpdateWBIO("dc") \o Guarded("dc", StopSocket("dc")), "chunk")
        BY <3>2 DEF Arrives
      <4>2. Path(WorkerPermits(TRUE), DeviceRead("dc") \o UpdateWBIO("dc") \o Guarded("dc", StopSocket("dc")), {}, {})
        BY <1>1, <1>5, WorkerReceives
      <4>3. ("chunk" # "none") = TRUE
        OBVIOUS
      <4>4. Path(WorkerPermits("chunk" # "none"), DeviceRead("dc") \o UpdateWBIO("dc") \o Guarded("dc", StopSocket("dc")), {}, {})
        BY <4>2, <4>3
      <4> QED BY <4>1, <4>4
    <3> QED BY <2>1, <3>1, <3>2 DEF DataRead
  <2>2. CASE DataDisconnect
    BY <1>5, <2>2 DEF DataDisconnect, ends
  <2>3. CASE FileRead
    <3>1. CASE iContinueTransfer
      BY <1>3, <1>5, <2>3, <3>1 DEF FileRead
    <3>2. CASE ~iContinueTransfer
      BY <1>5, <2>3, <3>2 DEF FileRead
    <3> QED BY <3>1, <3>2
  <2>4. CASE FileDisconnect
    BY <1>5, <2>4 DEF FileDisconnect
  <2> QED BY <2>1, <2>2, <2>3, <2>4
<1>7. Walks' /\ cause' \in [Threads -> {"none", "Stop", "write", "read", "close", "chunk"}]
  BY <1>6, BeginStep
<1>8. /\ iStopped' = iStopped /\ sent' = sent /\ wbio' = wbio /\ received' \subseteq Channels
      /\ iContinueTransfer' = iContinueTransfer /\ transfer' \in {transfer, "none"} /\ iDataChannel' \in BOOLEAN
      /\ listed' = listed /\ marked' \subseteq {"dc", "fl"}
  BY <1>1 DEF DataRead, Arrives, DataDisconnect, FileRead, FileDisconnect, sockets, transfers, IInv, FlagsOK
<1> QED BY <1>7, <1>8 DEF IInv, FlagsOK

----------------------------------------------------------------------------
(* The theorems *)

\* All locks are free, nobody has anything to do.
LEMMA InitIInv == Init => IInv
<1> SUFFICES ASSUME Init PROVE IInv
  OBVIOUS
<1>1. FlagsOK
  <2>1. iDataChannel \in BOOLEAN /\ iContinueTransfer \in BOOLEAN
    BY Zenon DEF Init
  <2> QED BY <2>1 DEF Init, FlagsOK
<1>2. todo \in [Threads -> Seq(Items)] /\ \A t \in Threads : todo[t] = <<>> /\ Held(t) = {}
  BY ThreadsAssumption DEF Init, Held, Threads
<1>3. ASSUME NEW t \in Threads PROVE Path(Permits(t, Bad(t)), todo[t], Held(t), {})
  <2>1. {} \in SUBSET Subjects
    OBVIOUS
  <2>2. PICK M : M = Permits(t, Bad(t))
    OBVIOUS
  <2>3. Path(M, <<>>, {}, {})
    BY <2>1, PathOfNothing
  <2>4. todo[t] = <<>> /\ Held(t) = {}
    BY <1>2
  <2> QED BY <2>2, <2>3, <2>4
<1> QED BY <1>1, <1>2, <1>3 DEF IInv, Walks

\* Every step keeps IInv.
LEMMA NextIInv == IInv /\ [Next]_vars => IInv'
<1> SUFFICES ASSUME IInv, [Next]_vars PROVE IInv'
  OBVIOUS
<1>1. CASE UNCHANGED vars
  <2>1. UNCHANGED <<iLock, todo, cause>> /\ UNCHANGED flags
    BY <1>1 DEF vars, flags
  <2>2. \A t \in Threads : Permits(t, Bad(t))' = Permits(t, Bad(t)) /\ Held(t)' = Held(t)
    BY <2>1 DEF Held, Permits, Bad, WorkerPermits, AppPermits
  <2>3. Walks'
    BY <2>1, <2>2 DEF IInv, Walks
  <2> QED BY <2>1, <2>3 DEF IInv, FlagsOK, flags, sockets, transfers
<1>2. CASE Completion
  <2>1. todo[Worker] = <<>> /\ iLock' = iLock
    BY <1>2 DEF Completion
  <2> QED BY <1>2, <2>1, ControlReadStep, TlsStep, OtherStep, TransferStep DEF Completion, Channels
<1>3. ASSUME NEW t \in Threads, NEW s \in Subjects, TakeLock(t, s) \/ GiveLock(t, s) PROVE IInv'
  BY <1>3, LockStep
<1>4. ASSUME NEW t \in Threads, NEW d \in {"cc", "dc", "fl"}, CDeviceRead(t, d) \/ CDeviceWrite(t, d) PROVE IInv'
  BY <1>4, DeviceReadStep, DeviceWriteStep DEF Devices
<1>5. ASSUME NEW t \in Threads, NEW d \in {"cc", "dc"}, Socket(t, d) PROVE IInv'
  BY <1>5, CheckPeerStep, StopSocketStep, SocketWriteStep DEF Socket, Channels
<1>6. ASSUME NEW t \in Threads,
             Call(t) \/ Stop(t) \/ ForgetChannel(t) \/ Callback(t) \/ TransferCallback(t) \/ Sweep(t)
      PROVE  IInv'
  BY <1>6, CallStep, StopStep, CallbackStep, SweepStep
<1> QED BY <1>1, <1>2, <1>3, <1>4, <1>5, <1>6 DEF Next

\* IInv holds in every state, whatever the application's threads call.
THEOREM Invariance == Spec => []IInv
<1>1. Init => IInv
  BY InitIInv
<1>2. IInv /\ [Next]_vars => IInv'
  BY NextIInv
<1> QED BY <1>1, <1>2, PTL DEF Spec

\* A thread that waits for a lock it holds is the worker and has a cause; with
\* something in hand an application thread waits under the protocol's iLock
\* alone, with a cause, for a channel's.
LEMMA Waiting ==
  ASSUME IInv, NEW t \in Threads, NEW s \in Subjects, Awaits(t, s)
  PROVE  /\ s \in Held(t) => t = Worker /\ cause[t] # "none"
         /\ t # Worker => Held(t) = {} \/ (Held(t) = {"ftp"} /\ s \in Channels /\ cause[t] # "none")
<1>1. PICK K \in Places : Leads(Permits(t, Bad(t)), Held(t), Lock(s), K)
  BY AtItem DEF Awaits
<1>2. <<Held(t), Lock(s)>> \in Permits(t, Bad(t))
  BY <1>1, HeldIsPlace DEF Leads, Lock, Unlock
<1>3. CASE t = Worker
  <2>1. Bad(t) \/ s \notin Held(t)
    BY <1>2, <1>3, PermitsOf DEF WorkerPermits, WorkerMay, Lock
  <2> QED BY <1>3, <2>1 DEF Bad
<1>4. CASE t # Worker
  <2>1. Held(t) = {} \/ (Held(t) = {"ftp"} /\ s \in Channels /\ Bad(t))
    BY <1>2, <1>4, PermitsOf DEF AppPermits, AppMay, Lock
  <2> QED BY <1>4, <2>1 DEF Bad, Channels
<1> QED BY <1>3, <1>4

\* Threads that wait for one another: the worker is one of them, and one has a cause.
LEMMA DeadlockNeedsCause == IInv => DeadlocksHaveCauses
<1> SUFFICES ASSUME IInv, NEW S \in SUBSET Threads, Deadlocked(S)
             PROVE  Worker \in S /\ \E t \in S : cause[t] # "none"
  BY DEF DeadlocksHaveCauses
<1>1. S # {} /\ \A t \in S : \E s \in Subjects : Awaits(t, s) /\ iLock[s] \in S /\ s \in Held(iLock[s])
  BY DEF Deadlocked, Held
<1>2. ASSUME NEW u \in S, u # Worker, Held(u) # {}
      PROVE  /\ Held(u) = {"ftp"} /\ cause[u] # "none"
             /\ \E s \in Channels : iLock[s] \in S /\ s \in Held(iLock[s])
  <2>1. PICK s \in Subjects : Awaits(u, s) /\ iLock[s] \in S /\ s \in Held(iLock[s])
    BY <1>1
  <2> QED BY <1>2, <2>1, Waiting
<1>3. Worker \in S
  <2> SUFFICES ASSUME Worker \notin S PROVE FALSE
    OBVIOUS
  <2>1. PICK u \in S : u # Worker /\ Held(u) # {}
    BY <1>1
  <2>2. PICK s \in Channels : iLock[s] \in S /\ s \in Held(iLock[s])
    BY <1>2, <2>1
  <2>3. Held(iLock[s]) = {"ftp"}
    BY <1>2, <2>2
  <2> QED BY <2>2, <2>3 DEF Channels
<1>4. PICK s \in Subjects : Awaits(Worker, s) /\ iLock[s] \in S /\ s \in Held(iLock[s])
  BY <1>1, <1>3
<1>5. CASE iLock[s] = Worker
  <2>1. cause[Worker] # "none"
    BY <1>4, <1>5, Waiting DEF Threads
  <2> QED BY <1>3, <2>1
<1>6. CASE iLock[s] # Worker
  <2>1. cause[iLock[s]] # "none"
    BY <1>2, <1>4, <1>6
  <2> QED BY <1>3, <1>4, <2>1
<1> QED BY <1>3, <1>5, <1>6

\* What the runs check of states, from IInv.
LEMMA IInvImplies == IInv => TypeOK /\ CallbacksMayCall
<1> SUFFICES ASSUME IInv PROVE TypeOK /\ CallbacksMayCall
  OBVIOUS
<1>1. ASSUME NEW t \in Threads, NEW s \in Subjects, At(t, Unlock(s)) PROVE iLock[s] = t
  <2>1. PICK K \in Places : Leads(Permits(t, Bad(t)), Held(t), Unlock(s), K)
    BY <1>1, AtItem
  <2>2. s \in Held(t)
    BY <2>1, HeldIsPlace DEF Leads, Lock, Unlock
  <2> QED BY <2>2 DEF Held
<1>2. TypeOK
  BY <1>1 DEF TypeOK, IInv, FlagsOK, Channels
<1>3. ASSUME NEW t \in Threads, NEW c \in {"ftp", "dc"}, At(t, <<"Callback", c>>)
      PROVE  iLock["ftp"] # t /\ iLock["D"] # t
  <2>1. <<Held(t), <<"Callback", c>> >> \in Permits(t, Bad(t))
    BY <1>3, AtCall
  <2>2. "ftp" \notin Held(t) /\ "D" \notin Held(t)
    BY <2>1, PermitsOf DEF WorkerPermits, WorkerMay, AppPermits, AppMay, Lock
  <2> QED BY <2>2 DEF Held, Subjects
<1>4. CallbacksMayCall
  BY <1>3 DEF CallbacksMayCall
<1> QED BY <1>2, <1>4

\* Whatever threads do and whatever fails, every lock is given back by the thread
\* that holds it.
THEOREM TypeCorrect == Spec => []TypeOK
BY Invariance, IInvImplies, PTL

\* The application's callbacks run without the protocol's and the dispatcher's
\* iLock, so that they may call the API and open sessions.
THEOREM CallbacksAreFree == Spec => []CallbacksMayCall
BY Invariance, IInvImplies, PTL

\* However many threads call the API and open sessions, they and the worker do not
\* come to wait for one another or for themselves without a Stop, a failed write to
\* the control channel, a failed read of the file, the control channel's
\* close_notify or a chunk that is not to go on; and the worker always takes part.
THEOREM EveryDeadlockHasCause == Spec => []DeadlocksHaveCauses
BY Invariance, DeadlockNeedsCause, PTL

\* A thread waits for itself only if it is the worker, and for one of those causes.
THEOREM OnlyTheWorkerBlocksItself ==
  Spec => [](\A t \in Threads, s \in Subjects :
               (Awaits(t, s) /\ iLock[s] = t) => (t = Worker /\ cause[t] # "none"))
<1>1. ASSUME IInv, NEW t \in Threads, NEW s \in Subjects, Awaits(t, s), iLock[s] = t
      PROVE  t = Worker /\ cause[t] # "none"
  BY <1>1, Waiting DEF Held
<1>2. IInv => \A t \in Threads, s \in Subjects :
                (Awaits(t, s) /\ iLock[s] = t) => (t = Worker /\ cause[t] # "none")
  BY <1>1
<1> QED BY <1>2, Invariance, PTL
=============================================================================
