------------------------------- MODULE FileCopy -------------------------------
(***************************************************************************)
(* The copy loop of TestCopy: two file devices with one observer, whose    *)
(* onread writes what was read and whose onwrite reads on.  A byte of the  *)
(* source is its position; the buffers matter as much as the offsets.      *)
(***************************************************************************)
EXTENDS Naturals, Sequences

CONSTANTS FileSize,   \* of the source, a natural number
          BUFSIZE     \* what one read asks for, a positive number

Garbage == FileSize + 1   \* a byte that is not the source's

VARIABLES
  io,         \* the overlapped operation in flight: [type, o, b], or Idle
  live,       \* its buffer has not been freed
  onreadOff,  \* off of the lambda onread: where it writes next
  onwriteOff, \* off of the lambda onwrite: where it reads next
  dst         \* the destination

vars == <<io, live, onreadOff, onwriteOff, dst>>

Idle == [type |-> "NONE", o |-> 0, b |-> <<>>]

\* main: the first read goes into buf, which is never freed.
Init ==
  /\ io = [type |-> "READ", o |-> 0, b |-> <<>>] /\ live = TRUE
  /\ onreadOff = 0 /\ onwriteOff = 0 /\ dst = <<>>

Min(a, b) == IF a <= b THEN a ELSE b

\* The bytes the system reads at o, short at the end of the file.
Source(o) == [i \in 1..Min(BUFSIZE, IF o < FileSize THEN FileSize - o ELSE 0) |-> o + i]

\* What a buffer holds that was freed while the system filled it.
Clobbered(bytes) == {bytes, [i \in DOMAIN bytes |-> Garbage]}

\* A read is complete.  CDevice::Write copies the bytes into a buffer of its
\* own, of their number; nothing was read: OnDisconnect, for which there is no lambda.
OnRead ==
  /\ io.type = "READ"
  /\ \E bytes \in IF live THEN {Source(io.o)} ELSE Clobbered(Source(io.o)) :
       IF bytes = <<>> THEN io' = Idle /\ UNCHANGED <<live, onreadOff>>
       ELSE /\ io' = [type |-> "WRITE", o |-> onreadOff, b |-> bytes]
            /\ live' = TRUE
            /\ onreadOff' = onreadOff + Len(bytes)
  /\ UNCHANGED <<onwriteOff, dst>>

Overwritten(file, o, bytes) ==
  [i \in 1..(IF Len(file) > o + Len(bytes) THEN Len(file) ELSE o + Len(bytes)) |->
     IF i \in (o + 1)..(o + Len(bytes)) THEN bytes[i - o]
     ELSE IF i \in DOMAIN file THEN file[i] ELSE Garbage]

\* A write is complete.  onwrite reads on into the buffer it is shown, which is
\* the one of the write: ProcessContext frees it when the handler has returned.
OnWrite ==
  /\ io.type = "WRITE"
  /\ dst' = Overwritten(dst, io.o, io.b)
  /\ onwriteOff' = onwriteOff + Len(io.b)
  /\ io' = [type |-> "READ", o |-> onwriteOff', b |-> <<>>]
  /\ live' = FALSE
  /\ UNCHANGED onreadOff

Next == OnRead \/ OnWrite

Spec == Init /\ [][Next]_vars

\* The destination is the beginning of the source: the test writes what it read
\* at the offset it read it from ("wd->Write(b, n, off)").
CopiesTheSource == Len(dst) <= FileSize /\ \A i \in DOMAIN dst : dst[i] = i
===============================================================================
