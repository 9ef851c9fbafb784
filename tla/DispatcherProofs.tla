-------------------------- MODULE DispatcherProofs --------------------------
(***************************************************************************)
(* The safety of Dispatcher for any number of devices: no two live objects *)
(* share an address, the device whose handler runs stays listed and alive, *)
(* and a completion without an observer is one of a device given up.       *)
(***************************************************************************)
EXTENDS Dispatcher, FiniteSetTheorems, SequenceTheorems, WellFoundedInduction, TLAPS

----------------------------------------------------------------------------
(* Sequences and sets *)

\* A non-empty set of numbers has a least element, which is what Min chooses.
LEMMA MinProperties ==
  ASSUME NEW S \in SUBSET Nat, S # {}
  PROVE  Min(S) \in S /\ \A y \in S : Min(S) <= y
<1> DEFINE Less == {ss \in Nat \X Nat : ss[1] < ss[2]}
<1>1. IsWellFoundedOn(Less, Nat)
  BY NatLessThanWellFounded, Zenon DEF OpToRel
<1>2. PICK x \in S : \A y \in S : <<y, x>> \notin Less
  <2> HIDE DEF Less
  <2> QED BY <1>1, WFMin
<1>3. ASSUME NEW y \in S PROVE x <= y
  <2>1. <<y, x>> \notin Less /\ x \in Nat /\ y \in Nat
    BY <1>2
  <2>2. ~ (y < x)
    BY <2>1
  <2> QED BY <2>1, <2>2
<1> QED BY <1>3 DEF Min


\* The sequence without its k-th element.
LEMMA RemoveAtProperties ==
  ASSUME NEW T, NEW s \in Seq(T), NEW k \in 1..Len(s)
  PROVE  /\ RemoveAt(s, k) \in Seq(T) /\ Len(RemoveAt(s, k)) = Len(s) - 1
         /\ \A i \in 1..(Len(s) - 1) : RemoveAt(s, k)[i] = IF i < k THEN s[i] ELSE s[i + 1]
<1> DEFINE a == SubSeq(s, 1, k - 1)
           b == SubSeq(s, k + 1, Len(s))
<1>1. Len(s) \in Nat
  OBVIOUS
<1>2. /\ a \in Seq(T) /\ Len(a) = k - 1
      /\ \A i \in 1..(k - 1) : a[i] = s[i]
  <2>1. \A i \in 1..(k - 1) : s[i] \in T
    BY <1>1, ElementOfSeq
  <2> QED BY <1>1, <2>1, SubSeqProperties
<1>3. /\ b \in Seq(T) /\ Len(b) = Len(s) - k
      /\ \A i \in 1..(Len(s) - k) : b[i] = s[k + i]
  <2>1. \A i \in (k + 1)..Len(s) : s[i] \in T
    BY <1>1, ElementOfSeq
  <2> QED BY <1>1, <2>1, SubSeqProperties
<1> DEFINE r == a \o b
<1>4. RemoveAt(s, k) = r
  BY DEF RemoveAt
<1> HIDE DEF a, b
<1>5. /\ r \in Seq(T) /\ Len(r) = Len(a) + Len(b)
      /\ \A i \in 1..(Len(a) + Len(b)) : r[i] = IF i <= Len(a) THEN a[i] ELSE b[i - Len(a)]
  BY <1>2, <1>3, ConcatProperties
<1> HIDE DEF r
<1>6. ASSUME NEW i \in 1..(Len(s) - 1)
      PROVE  r[i] = IF i < k THEN s[i] ELSE s[i + 1]
  <2>1. i \in 1..(Len(a) + Len(b)) /\ (i <= Len(a) <=> i < k) /\ i - Len(a) = i - k + 1
    BY <1>1, <1>2, <1>3
  <2>2. CASE i < k
    BY <1>1, <1>2, <1>5, <2>1, <2>2
  <2>3. CASE i >= k
    <3>1. i - k + 1 \in 1..(Len(s) - k) /\ k + (i - k + 1) = i + 1
      BY <1>1, <2>3
    <3>2. b[i - k + 1] = s[i + 1]
      BY <1>3, <3>1
    <3> QED BY <1>1, <1>5, <2>1, <2>3, <3>2
  <2> QED BY <1>1, <2>2, <2>3
<1> QED BY <1>1, <1>2, <1>3, <1>4, <1>5, <1>6

\* The observers a pass leaves of s when those in M are marked.
Passed(s, M) == RemoveFirstMatch(s, LAMBDA d : d \in M)

\* A pass of ProcessMarkRemoveAllListeners drops at most one observer, a marked one.
LEMMA PassProperties ==
  ASSUME NEW T, NEW s \in Seq(T), NEW M
  PROVE  /\ Passed(s, M) \in Seq(T)
         /\ \A i \in DOMAIN Passed(s, M) : \E j \in DOMAIN s : Passed(s, M)[i] = s[j]
         /\ \A j \in DOMAIN s : s[j] \in M \/ \E i \in DOMAIN Passed(s, M) : Passed(s, M)[i] = s[j]
<1> DEFINE I == {i \in 1..Len(s) : s[i] \in M}
<1>1. CASE I # {}
  <2> DEFINE k == Min(I)
  <2>1. I \in SUBSET Nat
    OBVIOUS
  <2>2. k \in I
    <3> HIDE DEF I
    <3> QED BY <1>1, <2>1, MinProperties
  <2> DEFINE r == RemoveAt(s, k)
  <2>3. Len(s) \in Nat /\ DOMAIN s = 1..Len(s) /\ k \in 1..Len(s) /\ s[k] \in M
    BY <2>2, LenProperties
  <2> HIDE DEF I, k
  <2>4. /\ r \in Seq(T) /\ Len(r) = Len(s) - 1
        /\ \A i \in 1..(Len(s) - 1) : r[i] = IF i < k THEN s[i] ELSE s[i + 1]
    BY <2>3, RemoveAtProperties
  <2> HIDE DEF r
  <2>5. DOMAIN r = 1..(Len(s) - 1)
    BY <2>4, LenProperties
  <2>6. ASSUME NEW j \in DOMAIN s PROVE s[j] \in M \/ \E i \in DOMAIN r : r[i] = s[j]
    <3>1. CASE j < k
      <4>1. j \in DOMAIN r /\ r[j] = s[j]
        BY <2>3, <2>4, <2>5, <3>1
      <4> QED BY <4>1
    <3>2. CASE j > k
      <4>1. j - 1 \in DOMAIN r /\ r[j - 1] = s[j]
        BY <2>3, <2>4, <2>5, <3>2
      <4> QED BY <4>1
    <3> QED BY <2>3, <3>1, <3>2
  <2>7. ASSUME NEW i \in DOMAIN r PROVE \E j \in DOMAIN s : r[i] = s[j]
    <3>1. i \in DOMAIN s /\ i + 1 \in DOMAIN s /\ (r[i] = s[i] \/ r[i] = s[i + 1])
      BY <2>3, <2>4, <2>5
    <3> QED BY <3>1
  <2>8. r = Passed(s, M)
    BY <1>1 DEF Passed, RemoveFirstMatch, SelectInSeq, I, k, r
  <2> QED BY <2>4, <2>6, <2>7, <2>8
<1>2. CASE I = {}
  <2>1. s = Passed(s, M)
    BY <1>2 DEF Passed, RemoveFirstMatch
  <2> QED BY <2>1
<1> QED BY <1>1, <1>2

\* SetToSeq lists a finite set.
LEMMA SetToSeqProperties ==
  ASSUME NEW S, IsFiniteSet(S)
  PROVE  SetToSeq(S) \in Seq(S)
<1>1. Cardinality(S) \in Nat /\ ExistsBijection(1..Cardinality(S), S)
  BY FS_CardinalityType
<1>2. PICK f \in Bijection(1..Cardinality(S), S) : TRUE
  BY <1>1 DEF ExistsBijection
<1>3. f \in [1..Cardinality(S) -> S] /\ IsInjective(f)
  BY <1>2 DEF Bijection, Injection, IsInjective
<1>4. SetToSeq(S) \in [1..Cardinality(S) -> S]
  BY <1>3 DEF SetToSeq
<1> QED BY <1>1, <1>4

----------------------------------------------------------------------------
(* The inductive invariant *)

Operation == [key : Devices, dev : Devices, op : Ops]
Packet    == [key : Devices, dev : Devices, op : Ops, n : 0..1]

\* An operation or a completion bears the address its device was made at.
Keyed(x) == x.dev \in 1..born /\ x.key = addr[x.dev]

ListsOK ==
  /\ iObservers \in Seq(Devices) /\ held \subseteq Devices /\ marked \subseteq Devices
  /\ iConnected \subseteq Devices /\ up \subseteq Devices
  /\ kind \in [Devices -> {"none", "client", "listener", "accepted"}]
  /\ iConnectedClient \in [Devices -> 0..MaxDevices]

AddressesOK ==
  /\ born \in 0..MaxDevices /\ alive \subseteq 1..born
  /\ addr \in [Devices -> 0..MaxDevices] /\ \A d \in 1..born : addr[d] \in Devices
  /\ \A d, e \in alive : addr[d] = addr[e] => d = e

\* The dispatcher's pointers keep what it lists alive.
ListedAlive == \A i \in DOMAIN iObservers : iObservers[i] \in alive

PostedOK == IsABag(posted) /\ DOMAIN posted \subseteq Operation /\ \A op \in DOMAIN posted : Keyed(op)

Queue(q) == q \in Seq({NoPacket} \cup Packet) /\ \A i \in DOMAIN q : q[i] = NoPacket \/ Keyed(q[i])

WorkerOK ==
  /\ pc \in {"GQCS", "accept", "handler", "returned"} /\ o \in 0..MaxDevices
  /\ joining \in BOOLEAN /\ gone \in BOOLEAN
  /\ pc \in {"accept", "handler"} /\ fault = "none" => Listed(o)

\* Nothing but a mark takes a live device out of the list.
NoneForgotten == ~gone => \A d \in alive : d \in marked \/ Listed(d)

IInv == ListsOK /\ AddressesOK /\ ListedAlive /\ PostedOK /\ Queue(port) /\ WorkerOK /\ NoneForgotten

\* IInv implies what the run checks of states.
LEMMA IInvImplies == IInv => TypeOK /\ HandledStaysListed
<1> SUFFICES ASSUME IInv PROVE TypeOK /\ HandledStaysListed
  OBVIOUS
<1> USE DEF IInv
<1>1. TypeOK
  <2>1. alive \subseteq Devices
    BY BoundAssumption DEF AddressesOK, Devices
  <2> QED BY <2>1 DEF TypeOK, ListsOK, AddressesOK, PostedOK, Queue, WorkerOK, Operation, Packet
<1>2. HandledStaysListed
  BY DEF HandledStaysListed, WorkerOK, ListedAlive, Listed
<1> QED BY <1>1, <1>2

\* Nothing is made and nothing queued yet.
LEMMA InitIInv == Init => IInv
<1> SUFFICES ASSUME Init PROVE IInv
  OBVIOUS
<1> USE BoundAssumption DEF Init, Devices
<1>1. ListsOK /\ AddressesOK /\ ListedAlive
  BY DEF ListsOK, AddressesOK, ListedAlive
<1>2. PostedOK
  BY DEF PostedOK, EmptyBag, SetToBag, IsABag
<1>3. Queue(port)
  BY DEF Queue
<1>4. WorkerOK
  <2>1. joining \in BOOLEAN /\ gone \in BOOLEAN
    BY Zenon
  <2> QED BY <2>1 DEF WorkerOK
<1>5. NoneForgotten
  BY DEF NoneForgotten
<1> QED BY <1>1, <1>2, <1>3, <1>4, <1>5 DEF IInv

----------------------------------------------------------------------------
(* Objects that die *)

\* There are finitely many operations.
LEMMA FiniteOperations == IsFiniteSet(Operation)
<1>1. IsFiniteSet(Devices)
  BY BoundAssumption, FS_Interval DEF Devices
<1>2. IsFiniteSet(Ops)
  <2>1. IsFiniteSet({"CONNECT"})
    BY FS_Singleton
  <2>2. IsFiniteSet({"CONNECT"} \cup {"ACCEPT"})
    BY <2>1, FS_AddElement
  <2>3. IsFiniteSet({"CONNECT"} \cup {"ACCEPT"} \cup {"READ"})
    BY <2>2, FS_AddElement
  <2>4. IsFiniteSet({"CONNECT"} \cup {"ACCEPT"} \cup {"READ"} \cup {"WRITE"})
    BY <2>3, FS_AddElement
  <2>5. Ops = {"CONNECT"} \cup {"ACCEPT"} \cup {"READ"} \cup {"WRITE"}
    BY DEF Ops
  <2> QED BY <2>4, <2>5
<1>3. IsFiniteSet((Devices \X Devices) \X Ops)
  BY <1>1, <1>2, FS_Product
<1> DEFINE P == (Devices \X Devices) \X Ops
           f == [p \in P |-> [key |-> p[1][1], dev |-> p[1][2], op |-> p[2]]]
<1>4. f \in Surjection(P, Operation)
  <2>1. f \in [P -> Operation]
    BY DEF Operation
  <2>2. ASSUME NEW x \in Operation PROVE \E p \in P : f[p] = x
    <3>1. x.key \in Devices /\ x.dev \in Devices /\ x.op \in Ops
          /\ x = [key |-> x.key, dev |-> x.dev, op |-> x.op]
      BY DEF Operation
    <3> DEFINE p == <<<<x.key, x.dev>>, x.op>>
    <3>2. p \in P /\ f[p] = x
      BY <3>1
    <3> QED BY <3>2
  <2> QED BY <2>1, <2>2 DEF Surjection
<1> QED BY <1>3, <1>4, FS_Surjection

\* What the system completes when objects die, as a sequence.
LEMMA AbortedSequence ==
  ASSUME PostedOK, NEW lost \in SUBSET DOMAIN posted
  PROVE  SetToSeq(UNION {{op} \X (1..posted[op]) : op \in lost}) \in Seq(lost \X Nat)
<1> DEFINE C(op) == {op} \X (1..posted[op])
           Cs == {C(op) : op \in lost}
           A == UNION Cs
<1>1. IsFiniteSet(lost)
  BY FiniteOperations, FS_Subset DEF PostedOK
<1>2. \A op \in lost : posted[op] \in Nat
  BY DEF PostedOK, IsABag
<1>3. ASSUME NEW op \in lost PROVE IsFiniteSet(C(op))
  <2>1. IsFiniteSet({op})
    BY FS_Singleton
  <2>2. IsFiniteSet(1..posted[op])
    BY <1>2, FS_Interval
  <2> QED BY <2>1, <2>2, FS_Product
<1>4. IsFiniteSet(Cs)
  <2> DEFINE f == [op \in lost |-> C(op)]
  <2>1. f \in Surjection(lost, Cs)
    BY DEF Surjection
  <2> QED BY <1>1, <2>1, FS_Surjection
<1>5. IsFiniteSet(A)
  BY <1>3, <1>4, FS_UNION
<1>6. A \subseteq lost \X Nat
  BY <1>2
<1>7. SetToSeq(A) \in Seq(A)
  BY <1>5, SetToSeqProperties
<1> QED BY <1>6, <1>7, SeqMonotonic

\* ~CDeviceSocket of what loses its last pointer: what is still pointed to
\* stays, and every completion the system queues bears its device's address.
LEMMA ReleaseStep ==
  ASSUME ListsOK, AddressesOK, PostedOK,
         NEW obs \in Seq(Devices), \A i \in DOMAIN obs : obs[i] \in alive,
         NEW h \in SUBSET Devices, NEW cl \in [Devices -> 0..MaxDevices],
         NEW mk \in SUBSET Devices, NEW queue, Queue(queue),
         Release(obs, h, cl, mk, queue)
  PROVE  /\ ListsOK' /\ AddressesOK' /\ ListedAlive' /\ PostedOK' /\ Queue(port)'
         /\ iObservers' = obs /\ alive' \subseteq alive /\ \A d \in alive' : d \in mk => d \in marked'
<1> DEFINE dead == alive \ Owned(obs, h, cl)
           lost == {op \in DOMAIN posted : op.dev \in dead}
           aborted == SetToSeq(UNION {{op} \X (1..posted[op]) : op \in lost})
           more == [i \in DOMAIN aborted |-> Completed(aborted[i][1], 0)]
<1>1. /\ iObservers' = obs /\ held' = h /\ iConnectedClient' = cl
      /\ alive' = alive \ dead /\ marked' = mk \ dead
      /\ iConnected' = iConnected \ dead /\ up' = up \ dead
      /\ kind' = [d \in Devices |-> IF d \in dead THEN "none" ELSE kind[d]]
      /\ posted' = [op \in DOMAIN posted \ lost |-> posted[op]]
      /\ port' = queue \o more
      /\ born' = born /\ addr' = addr
  BY Zenon DEF Release
<1>2. \A i \in DOMAIN obs : obs[i] \notin dead
  BY DEF Owned
<1>3. aborted \in Seq(lost \X Nat)
  BY AbortedSequence
<1> HIDE DEF dead, aborted
<1>4. ListsOK'
  BY <1>1 DEF ListsOK
<1>5. AddressesOK'
  BY <1>1 DEF AddressesOK
<1>6. ListedAlive'
  BY <1>1, <1>2 DEF ListedAlive
<1>7. PostedOK'
  <2>1. IsABag(posted')
    BY <1>1 DEF PostedOK, IsABag
  <2>2. DOMAIN posted' \subseteq DOMAIN posted
    BY <1>1
  <2> QED BY <1>1, <2>1, <2>2 DEF PostedOK, Keyed
<1>8. Queue(port)'
  <2>1. Len(aborted) \in Nat /\ DOMAIN aborted = 1..Len(aborted)
    BY <1>3, LenProperties
  <2>2. ASSUME NEW i \in DOMAIN aborted PROVE more[i] \in Packet /\ Keyed(more[i])
    <3>1. aborted[i] \in lost \X Nat
      BY <1>3, <2>1, <2>2, ElementOfSeq
    <3>2. aborted[i][1] \in DOMAIN posted
      BY <3>1
    <3>3. aborted[i][1] \in Operation /\ Keyed(aborted[i][1])
      BY <3>2 DEF PostedOK
    <3>4. more[i] = Completed(aborted[i][1], 0)
      OBVIOUS
    <3> HIDE DEF more
    <3> QED BY <3>3, <3>4 DEF Completed, Operation, Packet, Keyed
  <2>3. more \in Seq({NoPacket} \cup Packet) /\ Len(more) = Len(aborted)
    BY <2>1, <2>2
  <2> HIDE DEF more, lost
  <2> DEFINE P == {NoPacket} \cup Packet
  <2>4. queue \in Seq(P) /\ Len(queue) \in Nat /\ DOMAIN queue = 1..Len(queue)
    BY LenProperties DEF Queue
  <2>5. /\ port' \in Seq(P) /\ Len(port') = Len(queue) + Len(more)
        /\ \A i \in 1..(Len(queue) + Len(more)) :
             port'[i] = IF i <= Len(queue) THEN queue[i] ELSE more[i - Len(queue)]
    BY <1>1, <2>3, <2>4, ConcatProperties
  <2>6. DOMAIN port' = 1..(Len(queue) + Len(more))
    BY <2>5, LenProperties
  <2>7. ASSUME NEW i \in DOMAIN port' PROVE port'[i] = NoPacket \/ Keyed(port'[i])
    <3>1. CASE i <= Len(queue)
      <4>1. i \in DOMAIN queue /\ port'[i] = queue[i]
        BY <2>4, <2>5, <2>6, <3>1
      <4> QED BY <4>1 DEF Queue
    <3>2. CASE i > Len(queue)
      <4>1. i - Len(queue) \in DOMAIN aborted /\ port'[i] = more[i - Len(queue)]
        BY <2>1, <2>3, <2>4, <2>5, <2>6, <3>2
      <4> QED BY <2>2, <4>1
    <3> QED BY <2>1, <2>3, <2>4, <2>6, <3>1, <3>2
  <2> QED BY <1>1, <2>5, <2>7 DEF Queue, Keyed
<1> QED BY <1>1, <1>4, <1>5, <1>6, <1>7, <1>8

----------------------------------------------------------------------------
(* Queues, operations and new objects *)

\* GetQueuedCompletionStatus takes the first completion.
LEMMA TailQueue ==
  ASSUME NEW q, Queue(q), q # <<>>
  PROVE  Queue(Tail(q)) /\ (Head(q) = NoPacket \/ (Head(q) \in Packet /\ Keyed(Head(q))))
<1> DEFINE P == {NoPacket} \cup Packet
<1>1. q \in Seq(P) /\ Len(q) \in Nat /\ DOMAIN q = 1..Len(q)
  BY LenProperties DEF Queue
<1>2. /\ Head(q) \in P /\ Tail(q) \in Seq(P) /\ Len(Tail(q)) = Len(q) - 1
      /\ \A i \in 1..Len(Tail(q)) : Tail(q)[i] = q[i + 1]
  BY <1>1, HeadTailProperties
<1>3. 1 \in DOMAIN q /\ Head(q) = q[1]
  BY <1>1
<1>4. ASSUME NEW i \in DOMAIN Tail(q) PROVE Tail(q)[i] = NoPacket \/ Keyed(Tail(q)[i])
  <2>1. i \in 1..Len(Tail(q)) /\ i + 1 \in DOMAIN q
    BY <1>1, <1>2, LenProperties
  <2> QED BY <1>2, <2>1 DEF Queue
<1> DEFINE t == Tail(q)
<1>5. t \in Seq(P) /\ \A i \in DOMAIN t : t[i] = NoPacket \/ Keyed(t[i])
  BY <1>2, <1>4
<1> HIDE DEF t
<1>6. Queue(t)
  BY <1>5 DEF Queue
<1> QED BY <1>2, <1>3, <1>6 DEF Queue, t

\* The system and ~CDispatcher queue behind what is there.
LEMMA AppendQueue ==
  ASSUME NEW q, Queue(q), NEW x, x = NoPacket \/ (x \in Packet /\ Keyed(x))
  PROVE  Queue(Append(q, x))
<1> DEFINE P == {NoPacket} \cup Packet
           r == Append(q, x)
<1>1. q \in Seq(P) /\ Len(q) \in Nat /\ DOMAIN q = 1..Len(q)
  BY LenProperties DEF Queue
<1>2. /\ r \in Seq(P) /\ Len(r) = Len(q) + 1 /\ r[Len(q) + 1] = x
      /\ \A i \in 1..Len(q) : r[i] = q[i]
  BY <1>1, AppendProperties
<1>3. DOMAIN r = 1..(Len(q) + 1)
  BY <1>2, LenProperties
<1> HIDE DEF r
<1>4. ASSUME NEW i \in DOMAIN r PROVE r[i] = NoPacket \/ Keyed(r[i])
  <2>1. CASE i \in DOMAIN q
    BY <1>1, <1>2, <2>1 DEF Queue
  <2>2. CASE i = Len(q) + 1
    BY <1>2, <2>2
  <2> QED BY <1>1, <1>3, <2>1, <2>2
<1>5. Queue(r)
  BY <1>2, <1>4 DEF Queue
<1> QED BY <1>5 DEF r

\* One more operation is posted.
LEMMA PostBag ==
  ASSUME NEW B, IsABag(B), NEW d, NEW a, NEW op
  PROVE  /\ IsABag(B (+) Op(d, a, op))
         /\ DOMAIN (B (+) Op(d, a, op)) = DOMAIN B \cup {[key |-> a, dev |-> d, op |-> op]}
BY DEF IsABag, (+), Op, SetToBag

\* Post keeps the operations those of devices at their addresses.
LEMMA PostStep ==
  ASSUME AddressesOK, PostedOK, NEW d \in 1..born, NEW op \in Ops,
         Post(d, op) \/ UNCHANGED posted, UNCHANGED <<born, addr>>
  PROVE  PostedOK'
<1>1. CASE UNCHANGED posted
  BY <1>1 DEF PostedOK, Keyed
<1>2. CASE Post(d, op)
  <2>1. IsABag(posted') /\ DOMAIN posted' = DOMAIN posted \cup {[key |-> addr[d], dev |-> d, op |-> op]}
    BY <1>2, PostBag DEF Post, PostedOK
  <2>2. addr[d] \in Devices /\ d \in Devices
    BY BoundAssumption DEF AddressesOK, Devices
  <2> QED BY <2>1, <2>2 DEF PostedOK, Keyed, Operation
<1> QED BY <1>1, <1>2

\* Room for a device: whatever is queued, the bound is not reached.
LEMMA RoomForOne ==
  ASSUME AddressesOK, Queue(port), Room
  PROVE  born + 1 \in Devices
<1>1. Accepts \in Nat
  BY DEF Queue, Accepts
<1> QED BY <1>1, BoundAssumption DEF Room, Devices, AddressesOK

\* The heap gives a new object an address no live object has.
LEMMA ObjectStep ==
  ASSUME AddressesOK, NEW k, Object(born + 1, k), born + 1 \in Devices
  PROVE  /\ AddressesOK' /\ born' = born + 1 /\ alive' = alive \cup {born + 1}
         /\ \A d \in 1..born : addr'[d] = addr[d]
<1>1. /\ born' = born + 1 /\ alive' = alive \cup {born + 1}
      /\ \E a \in FreeAddresses : addr' = [addr EXCEPT ![born + 1] = a]
  BY DEF Object
<1>2. PICK a \in FreeAddresses : addr' = [addr EXCEPT ![born + 1] = a]
  BY <1>1
<1>3. a \in Devices /\ \A d \in alive : addr[d] # a
  BY <1>2 DEF FreeAddresses, AddressesOK
<1>4. born \in Nat /\ alive \subseteq 1..born /\ born + 1 \notin alive /\ 1..(born + 1) \subseteq Devices
  BY BoundAssumption DEF AddressesOK, Devices
<1>5. /\ addr' \in [Devices -> 0..MaxDevices] /\ addr'[born + 1] = a
      /\ \A d \in 1..born : addr'[d] = addr[d]
  BY <1>2, <1>3, <1>4, BoundAssumption DEF AddressesOK, Devices
<1>6. born' \in 0..MaxDevices /\ alive' \subseteq 1..born'
  BY <1>1, <1>4, BoundAssumption DEF Devices
<1>7. \A d \in 1..born' : addr'[d] \in Devices
  BY <1>1, <1>3, <1>4, <1>5 DEF AddressesOK
<1>8. \A d, e \in alive' : addr'[d] = addr'[e] => d = e
  BY <1>1, <1>3, <1>4, <1>5 DEF AddressesOK
<1> QED BY <1>1, <1>5, <1>6, <1>7, <1>8 DEF AddressesOK

\* AddEventListener lists one more device.
LEMMA AppendListed ==
  ASSUME iObservers \in Seq(Devices), NEW d \in Devices, iObservers' = Append(iObservers, d)
  PROVE  /\ iObservers' \in Seq(Devices)
         /\ \A e : Listed(e)' <=> Listed(e) \/ e = d
         /\ \A i \in DOMAIN iObservers' : iObservers'[i] = d \/ \E j \in DOMAIN iObservers : iObservers'[i] = iObservers[j]
<1> DEFINE n == Len(iObservers)
<1>1. /\ iObservers' \in Seq(Devices) /\ Len(iObservers') = n + 1
      /\ \A i \in 1..n : iObservers'[i] = iObservers[i]
      /\ iObservers'[n + 1] = d
  BY AppendProperties
<1>2. n \in Nat /\ DOMAIN iObservers = 1..n /\ DOMAIN iObservers' = 1..(n + 1)
  BY <1>1, LenProperties
<1> HIDE DEF n
<1>3. \A i \in DOMAIN iObservers' : (i \in DOMAIN iObservers /\ iObservers'[i] = iObservers[i]) \/ i = n + 1
  BY <1>1, <1>2
<1>4. \A i \in DOMAIN iObservers : i \in DOMAIN iObservers' /\ iObservers'[i] = iObservers[i]
  BY <1>1, <1>2
<1>5. n + 1 \in DOMAIN iObservers'
  BY <1>2
<1> QED BY <1>1, <1>3, <1>4, <1>5 DEF Listed

----------------------------------------------------------------------------
(* The steps *)

\* A device is made, listed and posted for in one step; held' is of no matter.
LEMMA OpenStep ==
  ASSUME IInv, NEW k \in {"client", "listener"}, NEW h \in SUBSET {born + 1}, Open(k, h)
  PROVE  IInv'
<1> USE DEF IInv
<1> DEFINE d == born + 1
<1>1. d \in Devices
  BY RoomForOne DEF Open
<1>2. /\ AddressesOK' /\ born' = d /\ alive' = alive \cup {d}
      /\ \A e \in 1..born : addr'[e] = addr[e]
  BY <1>1, ObjectStep DEF Open
<1>3. /\ iObservers' \in Seq(Devices)
      /\ \A e : Listed(e)' <=> Listed(e) \/ e = d
      /\ \A i \in DOMAIN iObservers' : iObservers'[i] = d \/ \E j \in DOMAIN iObservers : iObservers'[i] = iObservers[j]
  BY <1>1, AppendListed DEF Open, ListsOK
<1>4. ListsOK'
  BY <1>1, <1>3 DEF ListsOK, Open, Object, flags
<1>5. ListedAlive'
  BY <1>2, <1>3 DEF ListedAlive
<1>6. PostedOK'
  <2> DEFINE op == IF k = "client" THEN "CONNECT" ELSE "ACCEPT"
  <2>1. IsABag(posted') /\ DOMAIN posted' = DOMAIN posted \cup {[key |-> addr'[d], dev |-> d, op |-> op]}
    <3>1. posted' = posted (+) Op(d, addr'[d], op)
      BY DEF Open
    <3> HIDE DEF d, op
    <3> QED BY <3>1, PostBag DEF PostedOK
  <2>2. PICK a : a = addr'[d]
    OBVIOUS
  <2>3. a \in Devices /\ d \in Devices /\ op \in Ops /\ born' = d /\ addr'[d] = a /\ d \in 1..d
    BY <1>1, <1>2, <2>2, BoundAssumption DEF AddressesOK, Devices, Ops
  <2> HIDE DEF op
  <2>4. ASSUME NEW x \in DOMAIN posted' PROVE x \in Operation /\ Keyed(x)'
    <3>1. CASE x \in DOMAIN posted
      BY <1>1, <1>2, <3>1 DEF PostedOK, Keyed, Devices, AddressesOK
    <3>2. CASE x = [key |-> a, dev |-> d, op |-> op]
      BY <2>3, <3>2 DEF Operation, Keyed
    <3> QED BY <2>1, <2>2, <3>1, <3>2
  <2> QED BY <2>1, <2>4 DEF PostedOK
<1>7. Queue(port)'
  BY <1>1, <1>2 DEF Open, Queue, Keyed, Devices, AddressesOK
<1>8. WorkerOK'
  BY <1>3 DEF WorkerOK, Open, worker, ending
<1>9. NoneForgotten'
  BY <1>2, <1>3 DEF NoneForgotten, Open, flags, ending
<1> QED BY <1>2, <1>4, <1>5, <1>6, <1>7, <1>8, <1>9

\* The rest of OnAccept: the new socket is listed and read from, and the
\* listener, alive since it is listed, accepts the next one.
LEMMA TakeAcceptedStep == IInv /\ fault = "none" /\ TakeAccepted => IInv'
<1> SUFFICES ASSUME IInv, fault = "none", TakeAccepted PROVE IInv'
  OBVIOUS
<1> USE DEF IInv
<1> DEFINE d == born + 1
<1>1. d \in Devices
  BY BoundAssumption DEF TakeAccepted, AddressesOK, Devices
<1>2. /\ AddressesOK' /\ born' = d /\ alive' = alive \cup {d}
      /\ \A e \in 1..born : addr'[e] = addr[e]
  BY <1>1, ObjectStep DEF TakeAccepted
<1>3. /\ iObservers' \in Seq(Devices)
      /\ \A e : Listed(e)' <=> Listed(e) \/ e = d
      /\ \A i \in DOMAIN iObservers' : iObservers'[i] = d \/ \E j \in DOMAIN iObservers : iObservers'[i] = iObservers[j]
  BY <1>1, AppendListed DEF TakeAccepted, ListsOK
<1>4. Listed(o) /\ o \in 1..born /\ addr[o] \in Devices /\ addr'[o] = addr[o]
  BY <1>2 DEF TakeAccepted, WorkerOK, ListedAlive, Listed, AddressesOK
<1>5. ListsOK'
  <2>1. kind' \in [Devices -> {"none", "client", "listener", "accepted"}]
    BY DEF ListsOK, TakeAccepted, Object
  <2>2. iConnectedClient' \in [Devices -> 0..MaxDevices]
    <3>1. iConnectedClient' = [iConnectedClient EXCEPT ![o] = d] /\ d \in 0..MaxDevices
      BY <1>1 DEF TakeAccepted, Devices
    <3> QED BY <3>1 DEF ListsOK
  <2>3. /\ held' = held /\ marked' = marked
        /\ iConnected' = iConnected \cup {d} /\ up' = up \cup {d}
    BY DEF TakeAccepted
  <2> QED BY <1>1, <1>3, <2>1, <2>2, <2>3 DEF ListsOK
<1>6. ListedAlive'
  BY <1>2, <1>3 DEF ListedAlive
<1>7. PostedOK'
  <2> DEFINE B == posted (+) Op(d, addr'[d], "READ")
  <2>1. IsABag(B) /\ DOMAIN B = DOMAIN posted \cup {[key |-> addr'[d], dev |-> d, op |-> "READ"]}
    BY PostBag DEF PostedOK
  <2>2. posted' = B (+) Op(o, addr[o], "ACCEPT")
    BY DEF TakeAccepted
  <2> HIDE DEF B
  <2>3. IsABag(posted') /\ DOMAIN posted' = DOMAIN B \cup {[key |-> addr[o], dev |-> o, op |-> "ACCEPT"]}
    BY <2>1, <2>2, PostBag
  <2>4. PICK a, b, e : a = addr'[d] /\ b = addr[o] /\ e = o
    OBVIOUS
  <2>5. /\ a \in Devices /\ d \in Devices /\ born' = d /\ addr'[d] = a /\ d \in 1..d
        /\ b \in Devices /\ e \in Devices /\ e \in 1..d /\ addr'[e] = b
    BY <1>1, <1>2, <1>4, <2>4, BoundAssumption DEF AddressesOK, Devices
  <2>6. ASSUME NEW x \in DOMAIN posted' PROVE x \in Operation /\ Keyed(x)'
    <3>1. CASE x \in DOMAIN posted
      BY <1>1, <1>2, <3>1 DEF PostedOK, Keyed, Devices, AddressesOK
    <3>2. CASE x = [key |-> a, dev |-> d, op |-> "READ"]
      BY <2>5, <3>2 DEF Operation, Keyed, Ops
    <3>3. CASE x = [key |-> b, dev |-> e, op |-> "ACCEPT"]
      BY <2>5, <3>3 DEF Operation, Keyed, Ops
    <3> QED BY <2>1, <2>3, <2>4, <3>1, <3>2, <3>3
  <2> QED BY <2>3, <2>6 DEF PostedOK
<1>8. Queue(port)'
  BY <1>1, <1>2 DEF TakeAccepted, Queue, Keyed, Devices, AddressesOK
<1>9. WorkerOK'
  BY <1>3, <1>4 DEF WorkerOK, TakeAccepted, ending
<1>10. NoneForgotten'
  BY <1>2, <1>3 DEF NoneForgotten, TakeAccepted, ending
<1> QED BY <1>2, <1>5, <1>6, <1>7, <1>8, <1>9, <1>10

\* A pass that drops the first marked observer, and what that frees.
LEMMA SweepStep ==
  ASSUME IInv, NEW queue, Queue(queue), Sweep(queue)
  PROVE  ListsOK' /\ AddressesOK' /\ ListedAlive' /\ PostedOK' /\ Queue(port)' /\ (gone' = gone => NoneForgotten')
<1> USE DEF IInv
<1> DEFINE r == Passed(iObservers, marked)
<1>1. Release(r, held, iConnectedClient, marked, queue)
  BY Zenon DEF Sweep, Passed
<1>2. iObservers \in Seq(Devices)
  BY DEF ListsOK
<1>3. /\ r \in Seq(Devices)
      /\ \A i \in DOMAIN r : \E j \in DOMAIN iObservers : r[i] = iObservers[j]
      /\ \A j \in DOMAIN iObservers : iObservers[j] \in marked \/ \E i \in DOMAIN r : r[i] = iObservers[j]
  BY <1>2, PassProperties
<1> HIDE DEF r
<1>4. \A i \in DOMAIN r : r[i] \in alive
  BY <1>3 DEF ListedAlive
<1>5. /\ ListsOK' /\ AddressesOK' /\ ListedAlive' /\ PostedOK' /\ Queue(port)'
      /\ iObservers' = r /\ alive' \subseteq alive /\ \A d \in alive' : d \in marked => d \in marked'
  BY <1>1, <1>3, <1>4, ReleaseStep DEF ListsOK
<1>6. gone' = gone => NoneForgotten'
  BY <1>3, <1>5 DEF NoneForgotten, Listed
<1> QED BY <1>5, <1>6

\* OnRead, OnDisconnect, OnWrite, OnConnect and OnAccept: the observer is listed
\* when it is told, and so it is alive and may post.
LEMMA NotifyStep == IInv /\ fault = "none" /\ Notify => IInv'
<1> SUFFICES ASSUME IInv, fault = "none", Notify PROVE IInv'
  OBVIOUS
<1> USE DEF IInv
<1>1. PICK i \in DOMAIN iObservers :
        /\ Took(addr[iObservers[i]]) /\ o' = iObservers[i]
        /\ \/ OnRead(o', Head(port).n) \/ OnDisconnect(o', Head(port).n)
           \/ OnWrite \/ OnConnect(o') \/ OnAccept(o')
  BY DEF Notify
<1>2. PICK d : d = o'
  OBVIOUS
<1>3. d \in 1..born /\ d \in Devices /\ d \in 0..MaxDevices /\ Listed(d)
  <2>1. d \in alive /\ Listed(d)
    BY <1>1, <1>2 DEF ListedAlive, Listed
  <2> QED BY <2>1, BoundAssumption DEF AddressesOK, Devices
<1>4. Queue(Tail(port))
  BY <1>1, TailQueue DEF Took
<1>5. UNCHANGED <<joining, gone>>
  BY DEF Notify
<1>6. CASE OnAccept(d)
  <2> DEFINE cl == [iConnectedClient EXCEPT ![d] = 0]
  <2>1. cl \in [Devices -> 0..MaxDevices]
    <3>1. 0 \in 0..MaxDevices
      BY BoundAssumption
    <3> QED BY <3>1 DEF ListsOK
  <2>2. Release(iObservers, held, cl, marked, Tail(port)) /\ pc' = "accept"
    BY <1>6 DEF OnAccept
  <2> HIDE DEF cl
  <2>3. /\ ListsOK' /\ AddressesOK' /\ ListedAlive' /\ PostedOK' /\ Queue(port)'
        /\ iObservers' = iObservers /\ alive' \subseteq alive /\ \A e \in alive' : e \in marked => e \in marked'
    BY <1>4, <2>1, <2>2, ReleaseStep DEF ListsOK, ListedAlive
  <2>4. WorkerOK'
    BY <1>2, <1>3, <1>5, <2>2, <2>3 DEF WorkerOK, Listed
  <2>5. NoneForgotten'
    BY <1>5, <2>3 DEF NoneForgotten, Listed
  <2> QED BY <2>3, <2>4, <2>5
<1>7. CASE ~OnAccept(d)
  <2>1. /\ pc' = "handler" /\ port' = Tail(port) /\ UNCHANGED <<iObservers, objects>>
        /\ marked' \in {marked, marked \cup {d}} /\ up' = up
        /\ iConnected' \in {iConnected, iConnected \cup {d}, iConnected \ {d}}
        /\ UNCHANGED posted \/ Post(d, "READ")
    BY <1>1, <1>2, <1>7 DEF OnRead, OnDisconnect, OnWrite, OnConnect, Read, flags
  <2>2. ListsOK'
    BY <1>3, <2>1 DEF ListsOK, objects
  <2>3. AddressesOK' /\ ListedAlive'
    BY <2>1 DEF AddressesOK, ListedAlive, objects
  <2>4. PostedOK'
    <3>1. "READ" \in Ops
      BY DEF Ops
    <3> QED BY <1>3, <2>1, <3>1, PostStep DEF objects
  <2>5. Queue(port)'
    BY <1>4, <2>1 DEF Queue, Keyed, objects
  <2>6. WorkerOK'
    BY <1>2, <1>3, <1>5, <2>1 DEF WorkerOK, Listed
  <2>7. NoneForgotten'
    BY <1>5, <2>1 DEF NoneForgotten, Listed, objects
  <2> QED BY <2>2, <2>3, <2>4, <2>5, <2>6, <2>7
<1> QED BY <1>6, <1>7

\* The other steps of the worker: the packet without a key, a completion
\* without an observer, and the pass after a handler.
LEMMA WorkerStep == IInv /\ (Return \/ FindNone \/ SweepPass) => IInv'
<1> SUFFICES ASSUME IInv, Return \/ FindNone \/ SweepPass PROVE IInv'
  OBVIOUS
<1> USE DEF IInv
<1>1. CASE Return
  <2>1. Queue(Tail(port))
    BY <1>1, TailQueue DEF Return, Took
  <2>2. /\ port' = Tail(port) /\ pc' = "returned" /\ o' = o
        /\ UNCHANGED <<iObservers, born, alive, kind, addr, held, iConnectedClient, marked, iConnected, up,
                       posted, joining, gone>>
    BY <1>1 DEF Return, objects, flags, ending
  <2>3. ListsOK' /\ AddressesOK' /\ ListedAlive' /\ PostedOK'
    BY <2>2 DEF ListsOK, AddressesOK, ListedAlive, PostedOK, Keyed
  <2>4. Queue(port)'
    BY <2>1, <2>2 DEF Queue, Keyed
  <2>5. WorkerOK'
    BY <2>2 DEF WorkerOK
  <2>6. NoneForgotten'
    BY <2>2 DEF NoneForgotten, Listed
  <2> QED BY <2>3, <2>4, <2>5, <2>6
<1>2. CASE FindNone
  <2>1. Queue(Tail(port))
    BY <1>2, TailQueue DEF FindNone, Took
  <2>2. Sweep(Tail(port)) /\ UNCHANGED <<pc, o, joining, gone, fault>> /\ pc = "GQCS"
    BY <1>2 DEF FindNone, Took, worker, ending
  <2>3. ListsOK' /\ AddressesOK' /\ ListedAlive' /\ PostedOK' /\ Queue(port)' /\ NoneForgotten'
    BY <2>1, <2>2, SweepStep
  <2>4. WorkerOK'
    BY <2>2 DEF WorkerOK
  <2> QED BY <2>3, <2>4
<1>3. CASE SweepPass
  <2>1. Sweep(port) /\ pc' = "GQCS" /\ o' = 0 /\ UNCHANGED <<joining, gone, fault>>
    BY <1>3 DEF SweepPass, ending
  <2>2. ListsOK' /\ AddressesOK' /\ ListedAlive' /\ PostedOK' /\ Queue(port)' /\ NoneForgotten'
    BY <2>1, SweepStep
  <2>3. WorkerOK'
    BY <2>1, BoundAssumption DEF WorkerOK
  <2> QED BY <2>2, <2>3
<1> QED BY <1>1, <1>2, <1>3

\* A pointer given up, with a mark or without: the dispatcher's list keeps the
\* device.  Without the list, when ~CSubject drops it, nothing is told any more.
LEMMA LetGoStep == IInv /\ (Retire \/ (LetGo /\ ~joining) \/ Joined) => IInv'
<1> SUFFICES ASSUME IInv, Retire \/ LetGo \/ Joined PROVE IInv'
  OBVIOUS
<1> USE DEF IInv
<1>1. CASE Retire \/ LetGo
  <2>1. PICK d \in held, mk \in SUBSET (marked \cup held) :
          Release(iObservers, held \ {d}, iConnectedClient, mk, port) /\ marked \subseteq mk
    BY <1>1 DEF Retire, ResetSubject, LetGo
  <2>2. mk \in SUBSET Devices /\ held \ {d} \in SUBSET Devices
    BY <2>1 DEF ListsOK
  <2>3. /\ ListsOK' /\ AddressesOK' /\ ListedAlive' /\ PostedOK' /\ Queue(port)'
        /\ iObservers' = iObservers /\ alive' \subseteq alive /\ \A e \in alive' : e \in mk => e \in marked'
    BY <2>1, <2>2, ReleaseStep DEF ListsOK, ListedAlive
  <2>4. UNCHANGED <<pc, o, joining, gone, fault>>
    BY <1>1 DEF Retire, LetGo, worker, ending
  <2>5. WorkerOK'
    BY <2>3, <2>4 DEF WorkerOK, Listed
  <2>6. NoneForgotten'
    BY <2>1, <2>3, <2>4 DEF NoneForgotten, Listed
  <2> QED BY <2>3, <2>5, <2>6
<1>2. CASE Joined
  <2>1. /\ Release(<<>>, held, iConnectedClient, marked, port)
        /\ gone' = TRUE /\ pc = "returned" /\ UNCHANGED <<pc, o, joining, fault>>
    BY <1>2 DEF Joined, worker
  <2>2. /\ <<>> \in Seq(Devices) /\ DOMAIN <<>> = {}
    OBVIOUS
  <2>3. ListsOK' /\ AddressesOK' /\ ListedAlive' /\ PostedOK' /\ Queue(port)'
    BY <2>1, <2>2, ReleaseStep DEF ListsOK
  <2>4. WorkerOK'
    BY <2>1 DEF WorkerOK
  <2>5. NoneForgotten'
    BY <2>1 DEF NoneForgotten
  <2> QED BY <2>3, <2>4, <2>5
<1> QED BY <1>1, <1>2

\* A write, and the packet of ~CDispatcher.
LEMMA WriteStep == IInv /\ fault = "none" /\ (Write \/ DropDispatcher) => IInv'
<1> SUFFICES ASSUME IInv, fault = "none", Write \/ DropDispatcher PROVE IInv'
  OBVIOUS
<1> USE DEF IInv
<1>1. UNCHANGED <<iObservers, born, alive, kind, addr, held, iConnectedClient, marked, iConnected, up, pc, o, gone, fault>>
  BY DEF Write, DropDispatcher, objects, flags, worker, ending
<1>2. ListsOK' /\ AddressesOK' /\ ListedAlive' /\ NoneForgotten'
  BY <1>1 DEF ListsOK, AddressesOK, ListedAlive, NoneForgotten, Listed
<1>3. PostedOK'
  <2>1. CASE Write
    <3>1. o \in 1..born /\ "WRITE" \in Ops
      BY <2>1 DEF Write, WorkerOK, ListedAlive, Listed, AddressesOK, Ops
    <3> QED BY <1>1, <2>1, <3>1, PostStep DEF Write
  <2>2. CASE DropDispatcher
    BY <1>1, <2>2 DEF DropDispatcher, PostedOK, Keyed
  <2> QED BY <2>1, <2>2
<1>4. Queue(port)'
  <2>1. Queue(port')
    BY AppendQueue DEF Write, DropDispatcher
  <2> QED BY <1>1, <2>1 DEF Queue, Keyed
<1>5. WorkerOK'
  <2>1. joining' \in BOOLEAN
    BY DEF Write, DropDispatcher, WorkerOK, ending
  <2> QED BY <1>1, <2>1 DEF WorkerOK, Listed
<1> QED BY <1>2, <1>3, <1>4, <1>5

\* The system completes an operation: what it queues is keyed as what was posted.
LEMMA CompleteStep == IInv /\ Complete => IInv'
<1> SUFFICES ASSUME IInv, Complete PROVE IInv'
  OBVIOUS
<1> USE DEF IInv
<1>1. PICK op \in DOMAIN posted, n \in 0..1 :
        /\ up' \in {up, up \cup {op.dev}}
        /\ port' = Append(port, Completed(op, n)) /\ posted' = posted (-) SetToBag({op})
  <2>1. PICK op \in DOMAIN posted : \E n \in IF op.op = "READ" THEN 0..1 ELSE {1} :
          /\ up' \in IF op.op = "CONNECT" THEN {up, up \cup {op.dev}} ELSE {up}
          /\ port' = Append(port, Completed(op, n)) /\ posted' = posted (-) SetToBag({op})
    BY DEF Complete
  <2>2. PICK n \in 0..1 :
          /\ up' \in IF op.op = "CONNECT" THEN {up, up \cup {op.dev}} ELSE {up}
          /\ port' = Append(port, Completed(op, n)) /\ posted' = posted (-) SetToBag({op})
    BY <2>1
  <2>3. up' \in {up, up \cup {op.dev}}
    BY <2>2
  <2> QED BY <2>2, <2>3
<1>2. op \in Operation /\ Keyed(op)
  BY DEF PostedOK
<1>3. UNCHANGED <<iObservers, born, alive, kind, addr, held, iConnectedClient, marked, iConnected,
                  pc, o, joining, gone, fault>>
  BY DEF Complete, objects, worker, ending
<1>4. ListsOK'
  BY <1>1, <1>2, <1>3 DEF ListsOK, Operation
<1>5. AddressesOK' /\ ListedAlive' /\ NoneForgotten' /\ WorkerOK'
  BY <1>3 DEF AddressesOK, ListedAlive, NoneForgotten, WorkerOK, Listed
<1>6. PostedOK'
  <2>1. IsABag(posted') /\ DOMAIN posted' \subseteq DOMAIN posted
    BY <1>1 DEF PostedOK, IsABag, (-), SetToBag
  <2> QED BY <1>3, <2>1 DEF PostedOK, Keyed
<1>7. Queue(port)'
  <2>1. Completed(op, n) \in Packet /\ Keyed(Completed(op, n))
    BY <1>2 DEF Completed, Operation, Packet, Keyed
  <2>2. Queue(port')
    BY <1>1, <2>1, AppendQueue
  <2> QED BY <1>3, <2>2 DEF Queue, Keyed
<1> QED BY <1>4, <1>5, <1>6, <1>7

\* A step that leaves every variable alone leaves IInv alone.
LEMMA StutterIInv == IInv /\ UNCHANGED vars => IInv'
BY DEF IInv, vars, objects, flags, worker, ending, ListsOK, AddressesOK, ListedAlive, PostedOK, Queue, Keyed,
       WorkerOK, NoneForgotten, Listed

\* Every step of the program keeps IInv.
LEMMA NextIInv == IInv /\ [Next]_vars => IInv'
<1> SUFFICES ASSUME IInv, [Next]_vars PROVE IInv'
  OBVIOUS
<1>1. CASE UNCHANGED vars
  BY <1>1, StutterIInv
<1>2. CASE Next
  <2>1. fault = "none"
    BY <1>2 DEF Next
  <2>2. CASE Worker
    BY <2>1, <2>2, WorkerStep, NotifyStep, TakeAcceptedStep DEF Worker
  <2>3. CASE Retire
    BY <2>3, LetGoStep
  <2>4. CASE Write
    BY <2>1, <2>4, WriteStep
  <2>5. CASE OpenClient
    BY <2>5, OpenStep DEF OpenClient
  <2>6. CASE Application
    <3>1. CASE LetGo
      BY <2>6, <3>1, LetGoStep DEF Application
    <3>2. CASE DropDispatcher
      BY <2>1, <3>2, WriteStep
    <3>3. CASE \E k \in {"client", "listener"} : Open(k, {})
      <4>1. {} \in SUBSET {born + 1}
        OBVIOUS
      <4> QED BY <3>3, <4>1, OpenStep
    <3> QED BY <2>6, <3>1, <3>2, <3>3 DEF Application
  <2>7. CASE Joined
    BY <2>7, LetGoStep
  <2>8. CASE Complete
    BY <2>8, CompleteStep
  <2> QED BY <1>2, <2>2, <2>3, <2>4, <2>5, <2>6, <2>7, <2>8 DEF Next
<1> QED BY <1>1, <1>2

----------------------------------------------------------------------------
(* The theorems *)

\* IInv holds in every state the program reaches.
THEOREM Invariance == Spec => []IInv
<1>1. Init => IInv
  BY InitIInv
<1>2. IInv /\ [Next]_vars => IInv'
  BY NextIInv
<1> QED BY <1>1, <1>2, PTL DEF Spec

\* However many devices come and go and whatever addresses the heap reuses, no
\* two live objects have one address, and lists and queues keep their types.
THEOREM TypeCorrect == Spec => []TypeOK
BY Invariance, IInvImplies, PTL

\* ProcessContext runs a handler on a device that stays listed, and so alive,
\* until ProcessMarkRemoveAllListeners: no step of another thread, of the
\* handler or of the system takes it away.
THEOREM HandledIsListed == Spec => []HandledStaysListed
BY Invariance, IInvImplies, PTL

\* A completion whose key finds no observer is one of a device that was marked
\* or destroyed before: AddEventListener lists a device before anything of it
\* can complete, and only a mark takes it out of the list.
THEOREM CompletionsFindDevices == Spec => NoCompletionLost
<1> DEFINE Found == FindNone => Head(port).dev \in marked \/ Head(port).dev \notin alive
<1>1. ASSUME IInv, ~gone, FindNone
      PROVE  Head(port).dev \in marked \/ Head(port).dev \notin alive
  <2> DEFINE d == Head(port).dev
  <2>1. port # <<>> /\ Head(port).key \in Devices /\ \A i \in DOMAIN iObservers : addr[iObservers[i]] # Head(port).key
    BY <1>1 DEF FindNone, Took
  <2>2. Keyed(Head(port))
    BY <1>1, <2>1, TailQueue DEF IInv, NoPacket, Devices
  <2>3. ~Listed(d)
    BY <2>1, <2>2 DEF Keyed, Listed
  <2> QED BY <1>1, <2>3 DEF IInv, NoneForgotten
<1>2. IInv /\ [Next]_vars => [Found]_vars
  BY <1>1 DEF Next
<1> QED BY <1>2, Invariance, PTL DEF Spec, NoCompletionLost
=============================================================================
