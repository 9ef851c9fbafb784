------------------------- MODULE ProtocolStreamsProofs -------------------------
(***************************************************************************)
(* However a peer's stream is cut into reads, the protocol finds its       *)
(* messages, and what it answers decodes.  For all messages of the         *)
(* protocols' formats, of any length and number.                           *)
(***************************************************************************)
EXTENDS ProtocolStreams, SequenceTheorems, FiniteSetTheorems, TLAPS

----------------------------------------------------------------------------
(* Induction and recursive functions *)

\* The least element.
LEMMA Least ==
  ASSUME NEW I, I \subseteq Nat, I # {}
  PROVE  Min(I) \in I /\ \A y \in I : Min(I) <= y
<1>1. IsWellFoundedOn(OpToRel(<, Nat), Nat)
  BY NatLessThanWellFounded
<1>2. \A m \in Nat, n \in Nat : m < n <=> <<m, n>> \in OpToRel(<, Nat)
  BY DEF OpToRel
<1>3. \E x \in I : \A y \in I : ~(<<y, x>> \in OpToRel(<, Nat))
  BY <1>1, WFMin
<1>4. \E x \in I : \A y \in I : ~(y < x)
  BY <1>2, <1>3, Zenon
<1>5. \A x \in I, y \in I : ~(y < x) => x <= y
  OBVIOUS
<1>6. \E x \in I : \A y \in I : x <= y
  BY <1>4, <1>5
<1> QED BY <1>6 DEF Min

\* Induction over the natural numbers, for a set.
LEMMA Induction ==
  ASSUME NEW S, 0 \in S, \A n \in Nat : n \in S => n + 1 \in S
  PROVE  \A n \in Nat : n \in S
<1> DEFINE T == Nat \ S
<1> SUFFICES ASSUME T # {} PROVE FALSE
  OBVIOUS
<1>1. PICK x \in T : \A y \in T : x <= y
  BY Least
<1>2. x # 0 /\ x - 1 \in Nat /\ ~(x <= x - 1) /\ x = (x - 1) + 1
  OBVIOUS
<1> QED BY <1>1, <1>2

\* The first symbol of kind s.
LEMMA FirstIs ==
  ASSUME NEW b \in Seq(Symbol), NEW s
  PROVE  \/ First(b, s) = 0 /\ \A i \in 1..Len(b) : b[i].s # s
         \/ /\ First(b, s) \in 1..Len(b) /\ b[First(b, s)].s = s
            /\ \A i \in 1..Len(b) : b[i].s = s => First(b, s) <= i
<1> DEFINE I == {i \in 1..Len(b) : b[i].s = s}
<1>1. First(b, s) = IF I # {} THEN Min(I) ELSE 0
  BY DEF First, SelectInSeq
<1>2. I \subseteq Nat /\ Len(b) \in Nat
  OBVIOUS
<1>3. CASE I = {}
  BY <1>1, <1>3
<1>4. CASE I # {}
  <2>1. Min(I) \in I /\ \A y \in I : Min(I) <= y
    BY <1>2, <1>4, Least
  <2> QED BY <1>1, <1>4, <2>1
<1> QED BY <1>3, <1>4

\* The only symbol of its kind is the first one.
LEMMA OnlyIsFirst ==
  ASSUME NEW b \in Seq(Symbol), NEW s, NEW i \in 1..Len(b), b[i].s = s,
         \A j \in 1..Len(b) : b[j].s = s => j = i
  PROVE  First(b, s) = i
BY FirstIs

\* f[i] is the protocol object after i symbols of b.
IsAfter(f, q, b, n) == f = [i \in 0..n |-> IF i = 0 THEN q ELSE OnByte(f[i - 1], b[i])]

\* The recursive function that OnRead is defined with exists.
LEMMA AfterExists ==
  ASSUME NEW q, NEW b
  PROVE  \A n \in Nat : \E f : IsAfter(f, q, b, n)
<1> DEFINE S == {n \in Nat : \E f : IsAfter(f, q, b, n)}
<1>1. 0 \in S
  <2>1. IsAfter([i \in 0..0 |-> q], q, b, 0)
    BY DEF IsAfter
  <2> QED BY <2>1
<1>2. ASSUME NEW n \in Nat, n \in S PROVE n + 1 \in S
  <2>1. PICK f : IsAfter(f, q, b, n)
    BY <1>2
  <2> DEFINE g == [i \in 0..(n + 1) |-> IF i <= n THEN f[i] ELSE OnByte(f[n], b[n + 1])]
  <2>2. ASSUME NEW i \in 0..(n + 1) PROVE g[i] = IF i = 0 THEN q ELSE OnByte(g[i - 1], b[i])
    BY <2>1 DEF IsAfter
  <2>3. IsAfter(g, q, b, n + 1)
    BY <2>2 DEF IsAfter
  <2> QED BY <2>3
<1> HIDE DEF S
<1>3. \A n \in Nat : n \in S
  BY <1>1, <1>2, Induction
<1> QED BY <1>3 DEF S

\* OnRead feeds the symbols one by one: what holds before, and is kept by
\* each of them, holds after it.
LEMMA OnReadSteps ==
  ASSUME NEW q, NEW b, Len(b) \in Nat
  PROVE  \E f : IsAfter(f, q, b, Len(b)) /\ OnRead(q, b) = f[Len(b)]
<1> DEFINE R == CHOOSE f : IsAfter(f, q, b, Len(b))
<1>1. IsAfter(R, q, b, Len(b))
  BY AfterExists
<1>2. OnRead(q, b) = R[Len(b)]
  BY DEF OnRead, IsAfter
<1> QED BY <1>1, <1>2

\* The value of the first bytes.
IsValue(f, b, n) == f = [i \in 0..n |-> IF i = 0 THEN 0 ELSE f[i - 1] * Base + b[i]]

\* So does the one that BTOL is defined with.
LEMMA ValueExists ==
  ASSUME NEW b
  PROVE  \A n \in Nat : \E f : IsValue(f, b, n)
<1> DEFINE S == {n \in Nat : \E f : IsValue(f, b, n)}
<1>1. 0 \in S
  <2>1. IsValue([i \in 0..0 |-> 0], b, 0)
    BY DEF IsValue
  <2> QED BY <2>1
<1>2. ASSUME NEW n \in Nat, n \in S PROVE n + 1 \in S
  <2>1. PICK f : IsValue(f, b, n)
    BY <1>2
  <2> DEFINE g == [i \in 0..(n + 1) |-> IF i <= n THEN f[i] ELSE f[n] * Base + b[n + 1]]
  <2>2. ASSUME NEW i \in 0..(n + 1) PROVE g[i] = IF i = 0 THEN 0 ELSE g[i - 1] * Base + b[i]
    BY <2>1 DEF IsValue
  <2>3. IsValue(g, b, n + 1)
    BY <2>2 DEF IsValue
  <2> QED BY <2>3
<1> HIDE DEF S
<1>3. \A n \in Nat : n \in S
  BY <1>1, <1>2, Induction
<1> QED BY <1>3 DEF S

\* One step of Horner's scheme.
LEMMA OneMore ==
  ASSUME NEW v \in Nat, NEW x \in Nat, NEW w, w = v * Base + x
  PROVE  w \in Nat /\ w = Base * v + x
BY DEF Base

\* Horner's scheme, by pairs of bytes.
Two(x, y) == Base * x + y
Eight(b1, b2, b3, b4, b5, b6, b7, b8) == 65536 * (256 * Two(b1, b2) + Two(b3, b4)) + (256 * Two(b5, b6) + Two(b7, b8))

\* The lengths of two and of eight bytes.
LEMMA BTOLIs ==
  ASSUME NEW b \in Seq(Nat)
  PROVE  /\ Len(b) = 2 => BTOL(b) = Two(b[1], b[2])
         /\ Len(b) = 8 => BTOL(b) = Eight(b[1], b[2], b[3], b[4], b[5], b[6], b[7], b[8])
<1> DEFINE R == CHOOSE f : IsValue(f, b, Len(b))
<1>0. Len(b) \in Nat /\ \A i \in 1..Len(b) : b[i] \in Nat
  OBVIOUS
<1>1. IsValue(R, b, Len(b))
  BY <1>0, ValueExists
<1>2. BTOL(b) = R[Len(b)]
  BY DEF BTOL, IsValue
<1> HIDE DEF R
<1>3. ASSUME Len(b) = 2 PROVE BTOL(b) = Two(b[1], b[2])
  <2>1. R[0] = 0 /\ R[1] = R[0] * Base + b[1] /\ R[2] = R[1] * Base + b[2]
    BY <1>1, <1>3 DEF IsValue
  <2>2. b[1] \in Nat /\ b[2] \in Nat
    BY <1>0, <1>3
  <2> QED BY <1>2, <1>3, <2>1, <2>2 DEF Base, Two
<1>4. ASSUME Len(b) = 8
      PROVE  BTOL(b) = Eight(b[1], b[2], b[3], b[4], b[5], b[6], b[7], b[8])
  <2>1. /\ R[0] = 0 /\ R[1] = R[0] * Base + b[1] /\ R[2] = R[1] * Base + b[2]
        /\ R[3] = R[2] * Base + b[3] /\ R[4] = R[3] * Base + b[4] /\ R[5] = R[4] * Base + b[5]
        /\ R[6] = R[5] * Base + b[6] /\ R[7] = R[6] * Base + b[7] /\ R[8] = R[7] * Base + b[8]
    BY <1>1, <1>4 DEF IsValue
  <2>2. /\ b[1] \in Nat /\ b[2] \in Nat /\ b[3] \in Nat /\ b[4] \in Nat
        /\ b[5] \in Nat /\ b[6] \in Nat /\ b[7] \in Nat /\ b[8] \in Nat
    BY <1>0, <1>4
  <2>3. R[1] \in Nat /\ R[1] = b[1]
    <3>1. R[0] = 0 /\ R[1] = R[0] * Base + b[1] /\ b[1] \in Nat
      BY <2>1, <2>2
    <3>2. PICK c \in Nat : c = b[1]
      BY <3>1
    <3> QED BY <3>1, <3>2 DEF Base
  <2>4. R[2] \in Nat /\ R[2] = Base * R[1] + b[2]
    BY <2>1, <2>2, <2>3, OneMore
  <2>5. R[3] \in Nat /\ R[3] = Base * R[2] + b[3]
    BY <2>1, <2>2, <2>4, OneMore
  <2>6. R[4] \in Nat /\ R[4] = Base * R[3] + b[4]
    BY <2>1, <2>2, <2>5, OneMore
  <2>7. R[5] \in Nat /\ R[5] = Base * R[4] + b[5]
    BY <2>1, <2>2, <2>6, OneMore
  <2>8. R[6] \in Nat /\ R[6] = Base * R[5] + b[6]
    BY <2>1, <2>2, <2>7, OneMore
  <2>9. R[7] \in Nat /\ R[7] = Base * R[6] + b[7]
    BY <2>1, <2>2, <2>8, OneMore
  <2>10. R[8] = Base * R[7] + b[8]
    BY <2>1, <2>2, <2>9, OneMore
  <2>11. PICK c1 \in Nat, c2 \in Nat, c3 \in Nat, c4 \in Nat, c5 \in Nat, c6 \in Nat, c7 \in Nat, c8 \in Nat :
           /\ c1 = b[1] /\ c2 = b[2] /\ c3 = b[3] /\ c4 = b[4]
           /\ c5 = b[5] /\ c6 = b[6] /\ c7 = b[7] /\ c8 = b[8]
    BY <2>2
  <2>12. PICK v2 \in Nat, v3 \in Nat, v4 \in Nat, v5 \in Nat, v6 \in Nat, v7 \in Nat :
           v2 = R[2] /\ v3 = R[3] /\ v4 = R[4] /\ v5 = R[5] /\ v6 = R[6] /\ v7 = R[7]
    BY <2>4, <2>5, <2>6, <2>7, <2>8, <2>9
  <2>13. /\ v2 = Base * c1 + c2 /\ v3 = Base * v2 + c3 /\ v4 = Base * v3 + c4 /\ v5 = Base * v4 + c5
         /\ v6 = Base * v5 + c6 /\ v7 = Base * v6 + c7 /\ R[8] = Base * v7 + c8
    BY <2>3, <2>4, <2>5, <2>6, <2>7, <2>8, <2>9, <2>10, <2>11, <2>12, Zenon
  <2>14. R[8] = Eight(c1, c2, c3, c4, c5, c6, c7, c8)
    BY <2>13 DEF Base, Two, Eight
  <2> QED BY <1>2, <1>4, <2>11, <2>14
<1> QED BY <1>3, <1>4

----------------------------------------------------------------------------
(* The stream *)

\* A peer's session and the application's answer.
SessionOK == (\E x \in Sessions : protocol = x.protocol /\ script = x.script) /\ answer \in Answers

Wire(k) == script[k].wire

\* What the assumption on the sessions says of the one being served.
LEMMA ScriptIs ==
  ASSUME SessionOK
  PROVE  /\ protocol \in {"FTP", "HTTP", "WS"} /\ Len(script) \in Nat /\ DOMAIN script = 1..Len(script)
         /\ \A k \in 1..Len(script) : Wire(k) \in Seq(Symbol) /\ IsMessageOf(protocol, k, script[k])
BY SessionsAssumption DEF SessionOK, Wire

\* Symbols of a sequence.
LEMMA Symbols ==
  ASSUME NEW b \in Seq(Symbol)
  PROVE  Len(b) \in Nat /\ DOMAIN b = 1..Len(b) /\ \A i \in 1..Len(b) : b[i] \in Symbol /\ b[i].n \in Nat
<1>1. Len(b) \in Nat /\ DOMAIN b = 1..Len(b) /\ \A i \in 1..Len(b) : b[i] \in Symbol
  OBVIOUS
<1>2. \A x \in Symbol : x.n \in Nat
  BY DEF Symbol
<1> QED BY <1>1, <1>2

\* No message is empty.
LEMMA WiresAreLong ==
  ASSUME NEW proto \in {"FTP", "HTTP", "WS"}, NEW k, NEW m, m.wire \in Seq(Symbol), IsMessageOf(proto, k, m)
  PROVE  Len(m.wire) >= 1
<1>1. Len(m.wire) \in Nat
  OBVIOUS
<1>2. ASSUME IsReply(m.wire) PROVE Len(m.wire) >= 1
  BY <1>1, <1>2 DEF IsReply
<1>3. ASSUME IsResponse(m.wire) \/ IsHello(m.wire) PROVE Len(m.wire) >= 1
  <2>1. \E e : e \in 3..Len(m.wire)
    BY <1>3, Zenon DEF IsResponse, IsHello, IsHeader
  <2> QED BY <1>1, <2>1
<1>4. ASSUME IsFrame(m.wire, m.payload) PROVE Len(m.wire) >= 1
  <2>1. m.payload \in Seq(Byte)
    BY <1>4 DEF IsFrame
  <2>2. PICK n \in Nat : n = Len(m.payload)
    BY <2>1
  <2>3. Len(m.wire) = 2 + 4 + n \/ Len(m.wire) = 4 + 4 + n \/ Len(m.wire) = 10 + 4 + n
    BY <1>4, <2>2 DEF IsFrame
  <2> QED BY <2>3
<1>5. IsReply(m.wire) \/ IsResponse(m.wire) \/ IsHello(m.wire) \/ IsFrame(m.wire, m.payload)
  BY Zenon DEF IsMessageOf
<1> QED BY <1>2, <1>3, <1>4, <1>5

\* f[k] is the stream up to the end of message k.
IsStreamTo(f, n) == f = [k \in 0..n |-> IF k = 0 THEN <<>> ELSE f[k - 1] \o script[k].wire]

\* The recursive function that StreamTo is defined with exists.
LEMMA StreamExists == \A n \in Nat : \E f : IsStreamTo(f, n)
<1> DEFINE S == {n \in Nat : \E f : IsStreamTo(f, n)}
<1>1. 0 \in S
  <2>1. IsStreamTo([k \in 0..0 |-> <<>>], 0)
    BY DEF IsStreamTo
  <2> QED BY <2>1
<1>2. ASSUME NEW n \in Nat, n \in S PROVE n + 1 \in S
  <2>1. PICK f : IsStreamTo(f, n)
    BY <1>2
  <2> DEFINE g == [k \in 0..(n + 1) |-> IF k <= n THEN f[k] ELSE f[n] \o script[n + 1].wire]
  <2>2. ASSUME NEW k \in 0..(n + 1) PROVE g[k] = IF k = 0 THEN <<>> ELSE g[k - 1] \o script[k].wire
    BY <2>1 DEF IsStreamTo
  <2>3. IsStreamTo(g, n + 1)
    BY <2>2 DEF IsStreamTo
  <2> QED BY <2>3
<1> HIDE DEF S
<1>3. \A n \in Nat : n \in S
  BY <1>1, <1>2, Induction
<1> QED BY <1>3 DEF S

\* Messages follow each other.
LEMMA StreamSteps ==
  ASSUME SessionOK
  PROVE  /\ StreamTo[0] = <<>>
         /\ \A k \in 1..Len(script) : StreamTo[k] = StreamTo[k - 1] \o Wire(k)
<1>1. IsStreamTo(StreamTo, Len(script))
  BY ScriptIs, StreamExists DEF StreamTo, IsStreamTo
<1>2. PICK n \in Nat : n = Len(script)
  BY ScriptIs
<1>3. PICK f : f = StreamTo
  OBVIOUS
<1>4. f[0] = <<>> /\ \A k \in 1..n : f[k] = f[k - 1] \o script[k].wire
  BY <1>1, <1>2, <1>3 DEF IsStreamTo
<1> QED BY <1>2, <1>3, <1>4 DEF Wire

\* The stream is symbols.
LEMMA StreamTyped ==
  ASSUME SessionOK
  PROVE  \A k \in 0..Len(script) : StreamTo[k] \in Seq(Symbol) /\ End(k) \in Nat
<1> DEFINE S == {k \in Nat : k <= Len(script) => StreamTo[k] \in Seq(Symbol)}
<1>1. 0 \in S
  <2>1. <<>> \in Seq(Symbol)
    OBVIOUS
  <2> QED BY <2>1, StreamSteps
<1>2. ASSUME NEW k \in Nat, k \in S PROVE k + 1 \in S
  <2>1. CASE k + 1 <= Len(script)
    <3>1. k <= Len(script) /\ k + 1 \in 1..Len(script) /\ (k + 1) - 1 = k
      BY <2>1, ScriptIs
    <3>2. StreamTo[k + 1] = StreamTo[k] \o Wire(k + 1)
      BY <3>1, StreamSteps
    <3>3. StreamTo[k] \in Seq(Symbol) /\ Wire(k + 1) \in Seq(Symbol)
      BY <1>2, <3>1, ScriptIs
    <3>4. StreamTo[k + 1] \in Seq(Symbol)
      BY <3>2, <3>3
    <3> QED BY <3>4
  <2> QED BY <2>1
<1> HIDE DEF S
<1>3. \A k \in Nat : k \in S
  BY <1>1, <1>2, Induction
<1>4. \A k \in 0..Len(script) : StreamTo[k] \in Seq(Symbol)
  BY <1>3, ScriptIs DEF S
<1> QED BY <1>4 DEF End

\* Where each message ends, and what it adds to the stream.
LEMMA Ends ==
  ASSUME SessionOK
  PROVE  /\ End(0) = 0 /\ Stream \in Seq(Symbol) /\ Len(Stream) = End(Len(script))
         /\ \A k \in 1..Len(script) :
              /\ End(k) = End(k - 1) + Len(Wire(k)) /\ Len(Wire(k)) \in Nat /\ Len(Wire(k)) >= 1
              /\ \A i \in 1..End(k - 1) : StreamTo[k][i] = StreamTo[k - 1][i]
              /\ \A i \in 1..Len(Wire(k)) : StreamTo[k][End(k - 1) + i] = Wire(k)[i]
<1>1. End(0) = 0
  BY StreamSteps DEF End
<1>2. Stream \in Seq(Symbol) /\ Len(Stream) = End(Len(script))
  BY StreamTyped, ScriptIs DEF Stream, End
<1>3. ASSUME NEW k \in 1..Len(script)
      PROVE  /\ End(k) = End(k - 1) + Len(Wire(k)) /\ Len(Wire(k)) \in Nat /\ Len(Wire(k)) >= 1
             /\ \A i \in 1..End(k - 1) : StreamTo[k][i] = StreamTo[k - 1][i]
             /\ \A i \in 1..Len(Wire(k)) : StreamTo[k][End(k - 1) + i] = Wire(k)[i]
  <2>1. StreamTo[k] = StreamTo[k - 1] \o Wire(k) /\ Wire(k) \in Seq(Symbol)
    BY ScriptIs, StreamSteps
  <2>2. StreamTo[k - 1] \in Seq(Symbol)
    BY ScriptIs, StreamTyped
  <2>3. Len(Wire(k)) >= 1
    BY ScriptIs, WiresAreLong DEF Wire
  <2> QED BY <2>1, <2>2, <2>3 DEF End
<1> QED BY <1>1, <1>2, <1>3

\* Ends grow, and what a prefix of the stream says the longer ones say too.
LEMMA StreamGrows ==
  ASSUME SessionOK, NEW j \in 0..Len(script)
  PROVE  \A k \in j..Len(script) :
           End(j) <= End(k) /\ (j < k => End(j) < End(k)) /\ \A i \in 1..End(j) : StreamTo[k][i] = StreamTo[j][i]
<1> DEFINE P(k) == End(j) <= End(k) /\ (j < k => End(j) < End(k)) /\ \A i \in 1..End(j) : StreamTo[k][i] = StreamTo[j][i]
           S == {n \in Nat : j + n <= Len(script) => P(j + n)}
<1>1. 0 \in S
  BY StreamTyped
<1>2. ASSUME NEW n \in Nat, n \in S PROVE n + 1 \in S
  <2>1. CASE j + (n + 1) <= Len(script)
    <3>1. PICK k \in 1..Len(script) : k = j + (n + 1)
      BY <2>1, ScriptIs
    <3>2. k - 1 = j + n /\ k - 1 \in 0..Len(script) /\ j + n <= Len(script)
      BY <3>1, ScriptIs
    <3>3. P(k - 1)
      BY <1>2, <3>2
    <3>4. End(j) \in Nat /\ End(k - 1) \in Nat
      BY <3>2, StreamTyped
    <3>5. End(k - 1) < End(k)
      BY <3>4, Ends
    <3>6. \A i \in 1..End(j) : StreamTo[k][i] = StreamTo[k - 1][i]
      BY <3>3, <3>4, Ends
    <3> HIDE DEF S
    <3>7. P(k)
      BY <3>3, <3>4, <3>5, <3>6, StreamTyped
    <3> QED BY <3>1, <3>7 DEF S
  <2> QED BY <2>1
<1>3. \A n \in Nat : n \in S
  <2> HIDE DEF S
  <2> QED BY <1>1, <1>2, Induction
<1>4. ASSUME NEW k \in j..Len(script) PROVE P(k)
  <2>1. k - j \in Nat /\ j + (k - j) = k /\ k <= Len(script)
    BY ScriptIs
  <2> QED BY <1>3, <2>1
<1> QED BY <1>4

\* Symbol i of message k in the stream.
LEMMA StreamSymbol ==
  ASSUME SessionOK, NEW k \in 1..Len(script), NEW i \in 1..Len(Wire(k))
  PROVE  Stream[End(k - 1) + i] = Wire(k)[i] /\ End(k - 1) + i \in 1..End(k) /\ End(k) <= Len(Stream)
<1>1. End(k - 1) \in Nat /\ End(k) \in Nat
  BY StreamTyped, ScriptIs
<1>2. End(k) = End(k - 1) + Len(Wire(k)) /\ Len(Wire(k)) \in Nat /\ StreamTo[k][End(k - 1) + i] = Wire(k)[i]
  BY Ends
<1>3. End(k - 1) + i \in 1..End(k)
  BY <1>1, <1>2
<1>4. Len(script) \in k..Len(script)
  BY ScriptIs
<1>5. \A j \in 1..End(k) : Stream[j] = StreamTo[k][j]
  BY <1>4, ScriptIs, StreamGrows DEF Stream
<1>6. End(k) <= Len(Stream)
  BY <1>4, ScriptIs, StreamGrows, Ends
<1> QED BY <1>2, <1>3, <1>5, <1>6

----------------------------------------------------------------------------
(* The framings *)

\* What was masked is unmasked.
LEMMA XorTwice ==
  ASSUME NEW x \in Byte, NEW y \in Byte
  PROVE  Xor(Xor(x, y), y) = x
<1> DEFINE v1 == (x \div 1 + y \div 1) % 2
           v2 == (x \div 2 + y \div 2) % 2
           v4 == (x \div 4 + y \div 4) % 2
           v8 == (x \div 8 + y \div 8) % 2
           z  == v1 + 2 * v2 + 4 * v4 + 8 * v8
<1>1. x \in 0..15 /\ y \in 0..15
  BY DEF Byte, Base
<1>2. v1 \in 0..1 /\ v2 \in 0..1 /\ v4 \in 0..1 /\ v8 \in 0..1
  BY <1>1
<1>3. /\ v1 = (z % 2) /\ v2 = ((z \div 2) % 2) /\ v4 = ((z \div 4) % 2) /\ v8 = ((z \div 8) % 2)
      /\ z \in 0..15 /\ z \div 1 = z
  BY <1>2
<1>4. Xor(x, y) = z
  BY DEF Xor
<1>5. /\ (z \div 1 + y \div 1) % 2 = (x % 2)
      /\ (z \div 2 + y \div 2) % 2 = ((x \div 2) % 2)
      /\ (z \div 4 + y \div 4) % 2 = ((x \div 4) % 2)
      /\ (z \div 8 + y \div 8) % 2 = ((x \div 8) % 2)
  BY <1>1, <1>3
<1>6. x = (x % 2) + 2 * ((x \div 2) % 2) + 4 * ((x \div 4) % 2) + 8 * ((x \div 8) % 2)
  BY <1>1
<1>7. Xor(z, y) = x
  BY <1>5, <1>6 DEF Xor
<1> QED BY <1>4, <1>7

\* b ends with the first i symbols of w, and nothing but bytes is before them.
EndsWith(b, w, l, i) ==
  /\ Len(b) = l + i /\ \A j \in 1..l : b[j].s = "byte"
  /\ \A j \in 1..i : b[l + j] = w[j]

\* The first symbol of a kind, behind the bytes of the message before.
LEMMA FirstShifts ==
  ASSUME NEW b \in Seq(Symbol), NEW w \in Seq(Symbol), NEW l \in Nat, NEW i \in 0..Len(w), EndsWith(b, w, l, i),
         NEW s, s # "byte"
  PROVE  First(b, s) = IF First(w, s) \in 1..i THEN l + First(w, s) ELSE 0
<1>1. \A j \in 1..Len(b) : b[j].s = s => j > l /\ j - l \in 1..i /\ w[j - l].s = s
  BY DEF EndsWith
<1>2. Len(w) \in Nat /\ Len(b) \in Nat /\ Len(b) = l + i
  BY DEF EndsWith
<1>3. CASE First(w, s) \in 1..i
  <2>1. PICK h \in 1..i : h = First(w, s)
    BY <1>3
  <2>2. w[h].s = s /\ \A j \in 1..Len(w) : w[j].s = s => h <= j
    BY <2>1, <1>2, FirstIs
  <2>3. b[l + h].s = s /\ l + h \in 1..Len(b)
    BY <1>2, <2>2 DEF EndsWith
  <2>4. \A j \in 1..Len(b) : b[j].s = s => l + h <= j
    BY <1>1, <1>2, <2>2
  <2>5. PICK f : f = First(b, s)
    OBVIOUS
  <2>6. f \in 1..Len(b) /\ b[f].s = s /\ f <= l + h
    <3>1. \/ f = 0 /\ \A j \in 1..Len(b) : b[j].s # s
          \/ f \in 1..Len(b) /\ b[f].s = s /\ \A j \in 1..Len(b) : b[j].s = s => f <= j
      BY <2>5, FirstIs
    <3> QED BY <2>3, <3>1
  <2>7. l + h <= f
    BY <2>4, <2>6
  <2>8. f = l + h
    BY <1>2, <2>6, <2>7
  <2> QED BY <1>3, <2>1, <2>5, <2>8
<1>4. CASE First(w, s) \notin 1..i
  <2>1. \A j \in 1..i : w[j].s # s
    BY <1>2, <1>4, FirstIs
  <2>2. \A j \in 1..Len(b) : b[j].s # s
    BY <1>1, <1>2, <2>1
  <2> QED BY <1>2, <1>4, <2>2, FirstIs
<1> QED BY <1>3, <1>4

\* FTP: complete with the last line, not before.
LEMMA ReplyFound ==
  ASSUME NEW w \in Seq(Symbol), IsReply(w), NEW b \in Seq(Symbol), NEW i \in 1..Len(w), EndsWith(b, w, 0, i)
  PROVE  FtpComplete(b) <=> i = Len(w)
<1>1. Len(w) \in Nat /\ Len(b) = i /\ DOMAIN b = 1..i
  BY DEF EndsWith
<1>2. \A j \in 1..i : b[j] = w[j]
  BY <1>1 DEF EndsWith
<1>3. b[1] = w[1]
  BY <1>2
<1>4. \A j \in 1..i : w[j].s = "final" /\ w[j].n = w[1].n <=> j = Len(w)
  BY <1>1 DEF IsReply
<1> QED BY <1>1, <1>2, <1>3, <1>4 DEF FtpComplete

\* The length of a body is a number.
LEMMA BodyIs == ASSUME NEW b \in Seq(Symbol) PROVE BodyLength(b) \in Nat
<1>1. First(b, "length") = 0 \/ b[First(b, "length")].n \in Nat
  BY FirstIs, Symbols
<1> QED BY <1>1 DEF BodyLength

\* HTTP: complete with the last byte that the truncated length counts.
LEMMA HeaderFound ==
  ASSUME NEW w \in Seq(Symbol), NEW e, NEW first \in {"status", "request"}, NEW fields,
         fields \subseteq {"header", "length", "key"}, IsHeader(w, first, fields, e),
         \A j \in (e + 1)..Len(w) : w[j].s = "byte",
         NEW b \in Seq(Symbol), NEW l \in Nat, NEW i \in 1..Len(w), EndsWith(b, w, l, i),
         i <= e + BodyLength(w)
  PROVE  First(w, "blank") = e /\ (HttpComplete(b) <=> i = e + BodyLength(w))
<1>1. Len(w) \in Nat /\ e \in 3..Len(w) /\ w[1].s = first /\ w[e].s = "blank" /\ \A j \in 2..(e - 1) : w[j].s \in fields
  BY DEF IsHeader
<1>2. \A j \in 1..Len(w) : j = 1 \/ j \in 2..(e - 1) \/ j = e \/ j \in (e + 1)..Len(w)
  BY <1>1
<1>3. \A j \in 1..Len(w) : w[j].s = "blank" => j = e
  BY <1>1, <1>2
<1>4. First(w, "blank") = e
  BY <1>1, <1>3, OnlyIsFirst
<1>5. First(w, "length") = 0 \/ First(w, "length") \in 2..(e - 1)
  <2>1. \A j \in 1..Len(w) : w[j].s = "length" => j \in 2..(e - 1)
    BY <1>1, <1>2
  <2> QED BY <1>1, <2>1, FirstIs
<1>6. BodyLength(w) \in Nat
  BY BodyIs
<1>7. First(b, "blank") = IF i >= e THEN l + e ELSE 0
  BY <1>1, <1>4, FirstShifts
<1>8. Len(b) = l + i /\ e \in Nat /\ i \in Nat
  BY <1>1 DEF EndsWith
<1>9. CASE i < e
  <2>1. ~AllThere(b)
    BY <1>1, <1>7, <1>9 DEF AllThere
  <2> QED BY <1>1, <1>4, <1>6, <1>9, <2>1 DEF HttpComplete, HeaderCount
<1>10. CASE i >= e
  <2>1. First(b, "length") = IF First(w, "length") = 0 THEN 0 ELSE l + First(w, "length")
    BY <1>1, <1>5, <1>10, FirstShifts
  <2>2. First(w, "length") # 0 => b[l + First(w, "length")] = w[First(w, "length")] /\ l + First(w, "length") # 0
    BY SMTT(60), <1>1, <1>5, <1>10 DEF EndsWith
  <2>3. BodyLength(b) = BodyLength(w)
    BY <2>1, <2>2 DEF BodyLength
  <2>4. AllThere(b) <=> i = e + BodyLength(w)
    <3>1. PICK n \in Nat : n = BodyLength(w)
      BY <1>6
    <3>2. First(b, "blank") = l + e /\ First(b, "blank") # 0
      BY <1>1, <1>7, <1>8, <1>10
    <3>3. n = 0 \/ l + i = (l + e) + n <=> i = e + n
      BY SMTT(60), <1>8, <1>10, <3>1
    <3> QED BY <1>8, <2>3, <3>1, <3>2, <3>3 DEF AllThere
  <2>5. Cardinality({j \in DOMAIN b : b[j].s \in {"header", "length", "key"}}) # 0
    <3> DEFINE F == {j \in DOMAIN b : b[j].s \in {"header", "length", "key"}}
    <3>1. w[2].s \in fields /\ b[l + 2] = w[2] /\ l + 2 \in 1..Len(b)
      BY <1>1, <1>8, <1>10 DEF EndsWith
    <3>2. l + 2 \in F
      BY <3>1, Symbols
    <3>3. IsFiniteSet(F)
      <4>1. F \subseteq 1..Len(b) /\ Len(b) \in Nat
        OBVIOUS
      <4>2. IsFiniteSet(1..Len(b))
        BY <4>1, FS_Interval
      <4> QED BY <4>1, <4>2, FS_Subset
    <3> QED BY <3>2, <3>3, FS_EmptySet
  <2> QED BY <1>4, <2>4, <2>5 DEF HttpComplete, HeaderCount
<1> QED BY <1>1, <1>9, <1>10

\* Bytes without a header are no message.
LEMMA BytesAreNone ==
  ASSUME NEW b \in Seq(Symbol), \A j \in 1..Len(b) : b[j].s = "byte"
  PROVE  ~HttpComplete(b)
<1>1. First(b, "blank") = 0
  BY FirstIs
<1> QED BY <1>1 DEF HttpComplete, HeaderCount, AllThere

\* A response is found in itself.
LEMMA ResponseIs ==
  ASSUME NEW w \in Seq(Symbol), IsResponse(w)
  PROVE  \E e \in 3..Len(w) :
           /\ IsHeader(w, "status", {"header", "length"}, e) /\ \A j \in (e + 1)..Len(w) : w[j].s = "byte"
           /\ First(w, "blank") = e /\ BodyLength(w) \in Nat /\ e + BodyLength(w) <= Len(w)
<1>0. Len(w) \in Nat
  OBVIOUS
<1>1. PICK e \in 1..Len(w) :
        /\ IsHeader(w, "status", {"header", "length"}, e)
        /\ \A j \in (e + 1)..Len(w) : w[j].s = "byte"
        /\ LET lengths == {j \in 2..(e - 1) : w[j].s = "length"}
           IN \/ lengths = {} /\ Len(w) = e
              \/ \E j \in lengths : lengths = {j} /\ Len(w) = e + w[j].n
  BY DEF IsResponse
<1>2. /\ e \in 3..Len(w) /\ w[1].s = "status" /\ w[e].s = "blank"
      /\ \A j \in 2..(e - 1) : w[j].s \in {"header", "length"}
  BY <1>1 DEF IsHeader
<1>3. \A j \in 1..Len(w) : j = 1 \/ j \in 2..(e - 1) \/ j = e \/ j \in (e + 1)..Len(w)
  BY <1>0, <1>2
<1>4. First(w, "blank") = e
  <2>1. \A j \in 1..Len(w) : w[j].s = "blank" => j = e
    BY <1>1, <1>2, <1>3
  <2> QED BY <1>2, <2>1, OnlyIsFirst
<1> DEFINE lengths == {j \in 2..(e - 1) : w[j].s = "length"}
<1>5. \A j \in 1..Len(w) : w[j].s = "length" => j \in lengths
  BY <1>1, <1>2, <1>3
<1>6. CASE lengths = {} /\ Len(w) = e
  <2>1. First(w, "length") = 0
    BY <1>5, <1>6, FirstIs
  <2> QED BY <1>0, <1>1, <1>2, <1>4, <1>6, <2>1 DEF BodyLength
<1>7. CASE \E j \in lengths : lengths = {j} /\ Len(w) = e + w[j].n
  <2>1. PICK j \in lengths : lengths = {j} /\ Len(w) = e + w[j].n
    BY <1>7
  <2>2. j \in 1..Len(w) /\ w[j].s = "length" /\ j # 0
    BY <1>0, <1>2, <2>1
  <2>3. First(w, "length") = j
    <3>1. \A i \in 1..Len(w) : w[i].s = "length" => i = j
      BY <1>5, <2>1
    <3> QED BY <2>2, <3>1, OnlyIsFirst
  <2>4. w[j].n \in Nat
    BY <2>2, Symbols
  <2>5. BodyLength(w) = w[j].n \div 10
    BY <2>2, <2>3 DEF BodyLength
  <2>6. BodyLength(w) \in Nat /\ BodyLength(w) <= w[j].n
    BY <2>4, <2>5
  <2>7. e + BodyLength(w) <= Len(w)
    BY <2>1, <2>4, <2>6
  <2> QED BY <1>1, <1>2, <1>4, <2>6, <2>7, Zenon
<1> QED BY <1>1, <1>6, <1>7

\* The head of a frame: bytes of the length, behind the second byte.
HeadOf(n) == IF n < Escape16 THEN 0 ELSE IF n <= MaxLen16 THEN 2 ELSE 8

\* Behind the head, the key and the payload.
MaskedAt(w, payload, head) ==
  /\ Len(w) = head + 4 + Len(payload)
  /\ \A i \in 1..Len(payload) : w[head + 4 + i].n = Xor(payload[i], w[head + 1 + ((i - 1) % 4)].n)

\* The three forms of a frame.
LEMMA FrameForms ==
  ASSUME NEW w, NEW payload, IsFrame(w, payload), NEW n, n = Len(payload)
  PROVE  \/ n < Escape16 /\ w[2].n = Half + n /\ MaskedAt(w, payload, 2)
         \/ /\ n \in Escape16..MaxLen16 /\ w[2].n = Half + Escape16
            /\ Number2(w, 3) = n /\ MaskedAt(w, payload, 4)
         \/ /\ n \in (MaxLen16 + 1)..MaxLen64 /\ w[2].n = Half + Escape64
            /\ Number8(w, 3) = n /\ MaskedAt(w, payload, 10)
BY Zenon DEF IsFrame, MaskedAt

\* What a frame says of itself, and where its key and its payload are.
LEMMA FrameIs ==
  ASSUME NEW w \in Seq(Symbol), NEW payload, IsFrame(w, payload), NEW n, n = Len(payload), NEW x, x = HeadOf(n)
  PROVE  /\ n \in Nat /\ payload \in Seq(Byte) /\ x \in {0, 2, 8} /\ Len(w) = 6 + x + n
         /\ Extension(w[2].n) = x /\ w[2].n >= Half /\ (x = 0 => w[2].n % Half = n)
         /\ x = 2 => Two(w[3].n, w[4].n) = n
         /\ x = 8 => Eight(w[3].n, w[4].n, w[5].n, w[6].n, w[7].n, w[8].n, w[9].n, w[10].n) = n
         /\ \A i \in 1..Len(w) : w[i].n \in Byte
         /\ \A i \in 1..n : payload[i] \in Byte /\ w[6 + x + i].n = Xor(payload[i], w[3 + x + ((i - 1) % 4)].n)
<1>1. payload \in Seq(Byte) /\ \A i \in 1..Len(w) : w[i].n \in Byte
  BY DEF IsFrame
<1>2. n \in Nat /\ \A i \in 1..n : payload[i] \in Byte
  BY <1>1
<1>0. Escape16 = 6 /\ MaxLen16 = 255 /\ Half = 8 /\ Escape64 = 7
  BY DEF Escape16, MaxLen16, Half, Escape64
<1>3. CASE n < Escape16 /\ w[2].n = Half + n /\ MaskedAt(w, payload, 2)
  <2>1. x = 0
    BY <1>3 DEF HeadOf
  <2>2. /\ w[2].n = Half + n /\ Len(w) = 2 + 4 + n
        /\ \A i \in 1..n : w[2 + 4 + i].n = Xor(payload[i], w[2 + 1 + ((i - 1) % 4)].n)
    BY <1>3 DEF MaskedAt
  <2>3. Extension(w[2].n) = 0 /\ w[2].n >= Half /\ w[2].n % Half = n
    <3>1. PICK m \in 0..5 : m = n
      BY SMTT(60), <1>0, <1>2, <1>3
    <3>2. (8 + m) % 8 = m /\ m # 6 /\ m # 7 /\ 8 + m >= 8
      OBVIOUS
    <3>3. w[2].n = 8 + m /\ w[2].n % Half = m /\ w[2].n >= Half
      BY <1>0, <2>2, <3>1, <3>2
    <3>4. w[2].n % Half # Escape16 /\ w[2].n % Half # Escape64
      BY <1>0, <3>2, <3>3
    <3> QED BY <3>1, <3>3, <3>4 DEF Extension
  <2>4. \A i \in 1..n : w[6 + x + i].n = Xor(payload[i], w[3 + x + ((i - 1) % 4)].n)
    BY <1>2, <2>1, <2>2
  <2> QED BY <1>1, <1>2, <2>1, <2>2, <2>3, <2>4
<1>4. CASE /\ n \in Escape16..MaxLen16 /\ w[2].n = Half + Escape16
            /\ Number2(w, 3) = n /\ MaskedAt(w, payload, 4)
  <2>1. x = 2
    <3>0. PICK m \in 6..255 : m = n
      BY <1>0, <1>4
    <3>1. ~(m < Escape16) /\ m <= MaxLen16
      BY <1>0
    <3> QED BY <3>0, <3>1, Zenon DEF HeadOf
  <2>2. /\ w[2].n = Half + Escape16 /\ Number2(w, 3) = n /\ Len(w) = 4 + 4 + n
        /\ \A i \in 1..n : w[4 + 4 + i].n = Xor(payload[i], w[4 + 1 + ((i - 1) % 4)].n)
    BY <1>4 DEF MaskedAt
  <2>3. Extension(w[2].n) = 2 /\ w[2].n >= Half
    BY <1>0, <2>2 DEF Extension
  <2>4. \A i \in 1..n : w[6 + x + i].n = Xor(payload[i], w[3 + x + ((i - 1) % 4)].n)
    BY <1>2, <2>1, <2>2
  <2>5. Two(w[3].n, w[4].n) = n
    BY <2>2 DEF Two, Number2
  <2> QED BY <1>1, <1>2, <2>1, <2>2, <2>3, <2>4, <2>5
<1>5. CASE /\ n \in (MaxLen16 + 1)..MaxLen64 /\ w[2].n = Half + Escape64
            /\ Number8(w, 3) = n /\ MaskedAt(w, payload, 10)
  <2>1. x = 8
    <3>1. ~(n < Escape16) /\ ~(n <= MaxLen16)
      BY <1>0, <1>2, <1>5
    <3> QED BY <3>1, Zenon DEF HeadOf
  <2>2. /\ w[2].n = Half + Escape64 /\ Number8(w, 3) = n /\ Len(w) = 10 + 4 + n
        /\ \A i \in 1..n : w[10 + 4 + i].n = Xor(payload[i], w[10 + 1 + ((i - 1) % 4)].n)
    BY <1>5 DEF MaskedAt
  <2>3. Extension(w[2].n) = 8 /\ w[2].n >= Half
    BY <1>0, <2>2 DEF Extension
  <2>4. \A i \in 1..n : w[6 + x + i].n = Xor(payload[i], w[3 + x + ((i - 1) % 4)].n)
    BY <1>2, <2>1, <2>2
  <2>5. Number8(w, 3) = Eight(w[3].n, w[4].n, w[5].n, w[6].n, w[7].n, w[8].n, w[9].n, w[10].n)
    BY DEF Two, Eight, Number2, Number4, Number8
  <2> QED BY <1>1, <1>2, <2>1, <2>2, <2>3, <2>4, <2>5
<1> QED BY <1>3, <1>4, <1>5, FrameForms, Zenon

\* The bytes of symbols.
LEMMA BytesAre ==
  ASSUME NEW b \in Seq(Symbol)
  PROVE  /\ Bytes(b) \in Seq(Nat) /\ Len(Bytes(b)) = Len(b)
         /\ \A i \in 1..Len(b) : Bytes(b)[i] = b[i].n
<1>1. PICK n \in Nat : n = Len(b) /\ DOMAIN b = 1..n
  OBVIOUS
<1>2. Bytes(b) = [i \in 1..n |-> b[i].n] /\ \A i \in 1..n : b[i].n \in Nat
  BY <1>1, Symbols DEF Bytes
<1> QED BY <1>1, <1>2

\* A frame's length as ParseFrame reads it.
LengthOf(f) == IF Extension(f[2]) = 0 THEN f[2] % Half ELSE BTOL(SubSeq(f, 3, 2 + Extension(f[2])))

\* The length that the server reads from a frame is the one the peer wrote.
LEMMA LengthIs ==
  ASSUME NEW w \in Seq(Symbol), NEW payload, IsFrame(w, payload), NEW f \in Seq(Nat),
         Len(f) >= 2 + HeadOf(Len(payload)), \A i \in 1..(2 + HeadOf(Len(payload))) : f[i] = w[i].n
  PROVE  LengthOf(f) = Len(payload)
<1> DEFINE x == HeadOf(Len(payload))
           n == Len(payload)
<1>1. f[2] = w[2].n
  BY DEF HeadOf
<1>2. Extension(f[2]) = x /\ (x = 0 => f[2] % Half = n)
  BY <1>1, FrameIs
<1>3. x \in {0, 2, 8} /\ Len(f) \in Nat
  BY DEF HeadOf
<1> HIDE DEF x, n
<1>4. CASE x = 0
  BY <1>2, <1>4 DEF LengthOf, n
<1>5. CASE x = 2
  <2> DEFINE d == SubSeq(f, 3, 4)
  <2>1. d \in Seq(Nat) /\ Len(d) = 2 /\ d[1] = f[3] /\ d[2] = f[4]
    BY SMTT(60), <1>3, <1>5 DEF x
  <2>2. f[3] = w[3].n /\ f[4] = w[4].n
    BY <1>5 DEF x
  <2> HIDE DEF d
  <2>3. BTOL(d) = Two(w[3].n, w[4].n)
    BY <2>1, <2>2, BTOLIs
  <2>4. Two(w[3].n, w[4].n) = n
    BY <1>5, FrameIs DEF x, n
  <2>5. LengthOf(f) = BTOL(d)
    BY <1>2, <1>5 DEF LengthOf, d
  <2> QED BY <2>3, <2>4, <2>5 DEF n
<1>6. CASE x = 8
  <2> DEFINE d == SubSeq(f, 3, 10)
  <2>0. Len(f) >= 10
    BY <1>6 DEF x, n
  <2>1. d \in Seq(Nat) /\ Len(d) = 8 /\ \A i \in 1..8 : d[i] = f[i + 2]
    <3>1. \A i \in 3..10 : f[i] \in Nat
      BY <1>3, <2>0
    <3>2. /\ SubSeq(f, 3, 10) \in Seq(Nat) /\ Len(SubSeq(f, 3, 10)) = 10 - 3 + 1
          /\ \A i \in 1..(10 - 3 + 1) : SubSeq(f, 3, 10)[i] = f[3 + i - 1]
      BY <3>1, SubSeqProperties
    <3> HIDE DEF d
    <3>3. d \in Seq(Nat) /\ Len(d) = 8 /\ \A i \in 1..8 : d[i] = f[3 + i - 1]
      BY <3>2 DEF d
    <3>4. \A i \in 1..8 : 3 + i - 1 = i + 2
      OBVIOUS
    <3> QED BY <3>3, <3>4
  <2>2. /\ f[3] = w[3].n /\ f[4] = w[4].n /\ f[5] = w[5].n /\ f[6] = w[6].n
        /\ f[7] = w[7].n /\ f[8] = w[8].n /\ f[9] = w[9].n /\ f[10] = w[10].n
    <3>1. ASSUME NEW i \in 3..10 PROVE f[i] = w[i].n
      <4>1. i \in 1..(2 + HeadOf(Len(payload)))
        BY <1>6 DEF x, n
      <4> QED BY <4>1
    <3> HIDE DEF d
    <3> QED BY <3>1
  <2>3. /\ d[1] = w[3].n /\ d[2] = w[4].n /\ d[3] = w[5].n /\ d[4] = w[6].n
        /\ d[5] = w[7].n /\ d[6] = w[8].n /\ d[7] = w[9].n /\ d[8] = w[10].n
    BY <2>1, <2>2
  <2> HIDE DEF d
  <2>4. BTOL(d) = Eight(w[3].n, w[4].n, w[5].n, w[6].n, w[7].n, w[8].n, w[9].n, w[10].n)
    BY <2>1, <2>3, BTOLIs
  <2>5. Eight(w[3].n, w[4].n, w[5].n, w[6].n, w[7].n, w[8].n, w[9].n, w[10].n) = n
    BY <1>6, FrameIs DEF x, n
  <2>6. LengthOf(f) = BTOL(d)
    BY <1>2, <1>6 DEF LengthOf, d
  <2> QED BY <2>4, <2>5, <2>6 DEF n
<1> QED BY <1>3, <1>4, <1>5, <1>6

\* WebSocket: complete with the last byte, not before, and then the payload is
\* read; a frame with no payload is never complete, whatever follows it.
LEMMA FrameFound ==
  ASSUME NEW w \in Seq(Symbol), NEW payload, IsFrame(w, payload), NEW b \in Seq(Symbol), Len(b) >= 1,
         \A i \in 1..Len(w) : i <= Len(b) => b[i] = w[i],
         payload # <<>> => Len(b) <= Len(w)
  PROVE  /\ payload = <<>> => ~FrameComplete(Bytes(b))
         /\ payload # <<>> => (FrameComplete(Bytes(b)) <=> Len(b) = Len(w))
         /\ payload # <<>> /\ Len(b) = Len(w) => ParseFrame(Bytes(b)) = payload
<1> DEFINE f == Bytes(b)
<1>a. PICK n : n = Len(payload)
  OBVIOUS
<1>b. PICK x : x = HeadOf(n)
  OBVIOUS
<1>1. /\ n \in Nat /\ payload \in Seq(Byte) /\ x \in {0, 2, 8} /\ Len(w) = 6 + x + n
      /\ Extension(w[2].n) = x /\ w[2].n >= Half
      /\ \A i \in 1..Len(w) : w[i].n \in Byte
      /\ \A i \in 1..n : payload[i] \in Byte /\ w[6 + x + i].n = Xor(payload[i], w[3 + x + ((i - 1) % 4)].n)
  <2>1. n \in Nat /\ payload \in Seq(Byte)
    BY <1>a, <1>b, FrameIs
  <2>2. x \in {0, 2, 8} /\ Len(w) = 6 + x + n /\ Extension(w[2].n) = x /\ w[2].n >= Half
    BY <1>a, <1>b, FrameIs
  <2>3. \A i \in 1..Len(w) : w[i].n \in Byte
    BY <1>a, <1>b, FrameIs
  <2>4. \A i \in 1..n : payload[i] \in Byte /\ w[6 + x + i].n = Xor(payload[i], w[3 + x + ((i - 1) % 4)].n)
    BY <1>a, <1>b, FrameIs
  <2> QED BY <2>1, <2>2, <2>3, <2>4
<1>2. f \in Seq(Nat) /\ Len(f) = Len(b) /\ \A i \in 1..Len(b) : f[i] = b[i].n
  BY BytesAre
<1>3. Len(b) \in Nat /\ \A i \in 1..Len(w) : i <= Len(f) => f[i] = w[i].n
  <2>1. Len(b) \in Nat
    OBVIOUS
  <2>2. ASSUME NEW i \in 1..Len(w), i <= Len(f) PROVE f[i] = w[i].n
    <3>1. i \in 1..Len(b) /\ i <= Len(b)
      BY <1>1, <1>2, <2>1, <2>2
    <3>2. b[i] = w[i] /\ f[i] = b[i].n
      BY <1>2, <3>1
    <3> QED BY <3>2
  <2> QED BY <2>1, <2>2
<1>4. payload = <<>> <=> n = 0
  BY <1>a, <1>1
<1> HIDE DEF f
<1>5. CASE Len(f) < 2 + x
  <2>1. Len(f) # Len(w)
    BY <1>1, <1>3, <1>2, <1>5
  <2>2. Len(f) < 2 \/ ParseFrame(f) = <<>>
    <3>1. CASE Len(f) >= 2
      <4>1. f[2] = w[2].n
        BY <1>1, <1>2, <1>3, <3>1
      <4> QED BY <1>1, <1>5, <4>1 DEF ParseFrame
    <3> QED BY <3>1, <1>2, <1>3
  <2> QED BY <1>2, <2>1, <2>2 DEF FrameComplete, f
<1>6. CASE Len(f) >= 2 + x
  <2>1. f[2] = w[2].n /\ Len(f) >= 2
    BY <1>1, <1>2, <1>3, <1>6
  <2>2. Extension(f[2]) = x /\ IsMasked(f)
    BY <1>1, <2>1 DEF IsMasked
  <2>3. LengthOf(f) = n
    <3>1. \A i \in 1..(2 + x) : f[i] = w[i].n
      BY <1>1, <1>2, <1>3, <1>6
    <3> QED BY <1>a, <1>b, <1>2, <1>6, <3>1, LengthIs
  <2>4. ParseFrame(f) =
          IF Len(f) < 2 + x \/ 2 + x + 4 + n # Len(f) THEN <<>>
          ELSE [i \in 1..n |-> Xor(f[2 + x + 4 + i], f[3 + x + ((i - 1) % 4)])]
    BY <2>2, <2>3, Zenon DEF ParseFrame, LengthOf
  <2>5. CASE Len(f) # Len(w)
    <3>1. ParseFrame(f) = <<>>
      BY <1>1, <1>2, <1>3, <2>4, <2>5
    <3> QED BY <1>2, <2>5, <3>1 DEF FrameComplete, f
  <2>6. CASE Len(f) = Len(w)
    <3>1. ParseFrame(f) = [i \in 1..n |-> Xor(f[2 + x + 4 + i], f[3 + x + ((i - 1) % 4)])]
      BY <1>1, <2>4, <2>6
    <3>2. ASSUME NEW i \in 1..n PROVE Xor(f[2 + x + 4 + i], f[3 + x + ((i - 1) % 4)]) = payload[i]
      <4>1. 2 + x + 4 + i \in 1..Len(w) /\ 3 + x + ((i - 1) % 4) \in 1..Len(w) /\ 2 + x + 4 + i = 6 + x + i
        <5>1. PICK m \in 0..3 : m = (i - 1) % 4
          BY <1>1
        <5>2. n \in Nat /\ x \in Nat /\ Len(w) = 6 + x + n /\ i \in Nat /\ 1 <= i /\ i <= n
          BY <1>1
        <5>3. 2 + x + 4 + i \in 1..(6 + x + n) /\ 3 + x + m \in 1..(6 + x + n) /\ 2 + x + 4 + i = 6 + x + i
          BY <5>2
        <5> QED BY <5>1, <5>2, <5>3
      <4>2. /\ f[2 + x + 4 + i] = w[6 + x + i].n
            /\ f[3 + x + ((i - 1) % 4)] = w[3 + x + ((i - 1) % 4)].n
        BY <1>3, <2>6, <1>1, <4>1
      <4>3. payload[i] \in Byte /\ w[3 + x + ((i - 1) % 4)].n \in Byte
        BY <1>1, <4>1
      <4>4. w[6 + x + i].n = Xor(payload[i], w[3 + x + ((i - 1) % 4)].n)
        BY <1>1
      <4> QED BY <4>2, <4>3, <4>4, XorTwice
    <3>3. payload = [i \in 1..n |-> payload[i]]
      BY <1>a, <1>1
    <3>4. ParseFrame(f) = payload
      BY <3>1, <3>2, <3>3
    <3> QED BY <1>2, <2>1, <2>6, <3>4 DEF FrameComplete, f
  <2> QED BY <2>5, <2>6
<1> QED BY <1>1, <1>2, <1>3, <1>5, <1>6

----------------------------------------------------------------------------
(* The answers *)

\* The end of a sequence, and two sequences.
LEMMA Cut ==
  ASSUME NEW S, NEW f \in Seq(S), NEW k \in Nat, k >= 1
  PROVE  /\ SubSeq(f, k, Len(f)) \in Seq(S)
         /\ Len(SubSeq(f, k, Len(f))) = IF k <= Len(f) THEN Len(f) - k + 1 ELSE 0
         /\ \A i \in 1..(Len(f) - k + 1) : SubSeq(f, k, Len(f))[i] = f[k + i - 1]
OBVIOUS

Join(s, t) == s \o t

\* Two sequences, one behind the other.
LEMMA Joined ==
  ASSUME NEW S, NEW s \in Seq(S), NEW t \in Seq(S)
  PROVE  /\ Join(s, t) \in Seq(S) /\ Len(Join(s, t)) = Len(s) + Len(t)
         /\ \A i \in 1..Len(s) : Join(s, t)[i] = s[i]
         /\ \A i \in 1..Len(t) : Join(s, t)[Len(s) + i] = t[i]
BY DEF Join

Behind(x, d) == <<x>> \o d
FrameOf(head, data) == <<TextFrame>> \o head \o data

\* A byte, and a sequence behind it.
LEMMA BehindIs ==
  ASSUME NEW x \in Byte, NEW d \in Seq(Byte)
  PROVE  /\ Behind(x, d) \in Seq(Byte) /\ Len(Behind(x, d)) = 1 + Len(d) /\ Behind(x, d)[1] = x
         /\ \A i \in 1..Len(d) : Behind(x, d)[1 + i] = d[i]
BY DEF Behind

\* A frame is its first byte, the rest of its head and what it says.
LEMMA FrameParts ==
  ASSUME NEW head \in Seq(Byte), NEW data \in Seq(Byte)
  PROVE  /\ FrameOf(head, data) \in Seq(Byte) /\ Len(FrameOf(head, data)) = 1 + Len(head) + Len(data)
         /\ FrameOf(head, data)[1] = TextFrame
         /\ \A i \in 1..Len(head) : FrameOf(head, data)[1 + i] = head[i]
         /\ SubSeq(FrameOf(head, data), 2 + Len(head), Len(FrameOf(head, data))) = data
<1> DEFINE f == FrameOf(head, data)
<1>1. TextFrame \in Byte
  BY DEF TextFrame, Byte, Base
<1>14. PICK g : g = Behind(TextFrame, head)
  OBVIOUS
<1>2. /\ g \in Seq(Byte) /\ Len(g) = 1 + Len(head) /\ g[1] = TextFrame
      /\ \A i \in 1..Len(head) : g[1 + i] = head[i]
  BY ZenonT(60), <1>1, <1>14, BehindIs
<1>3. f = Join(g, data)
  BY <1>14 DEF FrameOf, Behind, Join
<1> HIDE DEF f
<1>4. /\ f \in Seq(Byte) /\ Len(f) = Len(g) + Len(data) /\ \A i \in 1..Len(g) : f[i] = g[i]
      /\ \A i \in 1..Len(data) : f[Len(g) + i] = data[i]
  <2>0. g \in Seq(Byte)
    BY <1>2
  <2>1. Join(g, data) \in Seq(Byte)
    BY <2>0, Joined
  <2>2. Len(Join(g, data)) = Len(g) + Len(data)
    BY <2>0, Joined
  <2>3. ASSUME NEW i \in 1..Len(g) PROVE Join(g, data)[i] = g[i]
    BY <2>0, Joined
  <2>4. ASSUME NEW i \in 1..Len(data) PROVE Join(g, data)[Len(g) + i] = data[i]
    BY <2>0, Joined
  <2> QED BY <1>3, <2>1, <2>2, <2>3, <2>4
<1>5. f[1] = TextFrame /\ \A i \in 1..Len(head) : f[1 + i] = head[i]
  BY <1>2, <1>4
<1>6. PICK l, n, k : l = Len(g) /\ n = Len(data) /\ k = Len(g) + 1
  OBVIOUS
<1>12. l \in Nat /\ n \in Nat /\ k \in Nat /\ k = l + 1 /\ k >= 1 /\ k = 2 + Len(head)
  BY <1>2, <1>6
<1>7. PICK d : d = SubSeq(f, k, Len(f))
  OBVIOUS
<1>8. d \in Seq(Byte) /\ Len(d) = (IF k <= Len(f) THEN Len(f) - k + 1 ELSE 0) /\ \A i \in 1..(Len(f) - k + 1) : d[i] = f[k + i - 1]
  BY <1>4, <1>7, <1>12, Cut
<1>9. Len(f) = l + n /\ Len(f) - k + 1 = n /\ Len(d) = n
  BY <1>4, <1>6, <1>8, <1>12
<1>10. ASSUME NEW i \in 1..n PROVE d[i] = data[i]
  <2>1. d[i] = f[k + i - 1]
    BY <1>8, <1>9
  <2>2. k + i - 1 = l + i
    BY <1>12
  <2>3. f[l + i] = data[i]
    BY <1>4, <1>6
  <2> QED BY <2>1, <2>2, <2>3
<1>11. d = data
  BY <1>6, <1>8, <1>9, <1>10, SeqEqual
<1>13. f \in Seq(Byte) /\ Len(f) = 1 + Len(head) + Len(data) /\ SubSeq(f, 2 + Len(head), Len(f)) = data
  BY <1>2, <1>4, <1>7, <1>11, <1>12
<1> QED BY <1>5, <1>13 DEF f

\* The digits of a number.
LEMMA Digits ==
  ASSUME NEW v \in Nat, v <= MaxLen64
  PROVE  /\ v <= MaxLen16 => v = Two((v \div 16) % 16, (v \div 1) % 16)
         /\ v = Eight((v \div 268435456) % 16, (v \div 16777216) % 16, (v \div 1048576) % 16, (v \div 65536) % 16,
                      (v \div 4096) % 16, (v \div 256) % 16, (v \div 16) % 16, (v \div 1) % 16)
<1>0. v \in Nat /\ v <= 2147483647
  BY SMT DEF MaxLen64
<1> DEFINE q1 == v \div 16
           q2 == v \div 256
           q3 == v \div 4096
           q4 == v \div 65536
           q5 == v \div 1048576
           q6 == v \div 16777216
           q7 == v \div 268435456
<1>1. v = 16 * q1 + (v % 16) /\ v \div 1 = v /\ q1 \in Nat /\ (v % 16) \in 0..15
  BY <1>0, SMT
<1>2. q1 = 16 * q2 + (q1 % 16) /\ q2 \in Nat /\ (q1 % 16) \in 0..15
  BY <1>0, SMT
<1>3. q2 = 16 * q3 + (q2 % 16) /\ q3 \in Nat /\ (q2 % 16) \in 0..15
  BY <1>0, SMT
<1>4. q3 = 16 * q4 + (q3 % 16) /\ q4 \in Nat /\ (q3 % 16) \in 0..15
  BY <1>0, SMT
<1>5. q4 = 16 * q5 + (q4 % 16) /\ q5 \in Nat /\ (q4 % 16) \in 0..15
  BY <1>0, SMT
<1>6. q5 = 16 * q6 + (q5 % 16) /\ q6 \in Nat /\ (q5 % 16) \in 0..15
  BY <1>0, SMT
<1>7. q6 = 16 * q7 + (q6 % 16) /\ q7 \in Nat /\ (q6 % 16) \in 0..15
  BY <1>0, SMT
<1>8. q7 = (q7 % 16) /\ (v <= 255 => q1 = (q1 % 16))
  BY <1>0, SMT
<1> HIDE DEF q1, q2, q3, q4, q5, q6, q7
<1>9. v <= MaxLen16 => v = Two(q1 % 16, v % 16)
  BY <1>1, <1>8 DEF Two, Base, MaxLen16
<1>10. v = Eight(q7 % 16, q6 % 16, q5 % 16, q4 % 16, q3 % 16, q2 % 16, q1 % 16, v % 16)
  <2>1. PICK d0 \in 0..15, d1 \in 0..15, d2 \in 0..15, d3 \in 0..15, d4 \in 0..15, d5 \in 0..15, d6 \in 0..15 :
          /\ d0 = v % 16 /\ d1 = q1 % 16 /\ d2 = q2 % 16 /\ d3 = q3 % 16
          /\ d4 = q4 % 16 /\ d5 = q5 % 16 /\ d6 = q6 % 16
    BY <1>1, <1>2, <1>3, <1>4, <1>5, <1>6, <1>7
  <2>2. v = Eight(q7, d6, d5, d4, d3, d2, d1, d0)
    BY <1>0, <1>1, <1>2, <1>3, <1>4, <1>5, <1>6, <1>7, <2>1 DEF Eight, Two, Base
  <2> QED BY <1>8, <2>1, <2>2
<1>11. v = Eight(q7 % 16, q6 % 16, q5 % 16, q4 % 16, q3 % 16, q2 % 16, q1 % 16, (v \div 1) % 16)
  BY <1>1, <1>10
<1>12. v <= MaxLen16 => v = Two(q1 % 16, (v \div 1) % 16)
  BY <1>1, <1>9
<1> QED BY <1>11, <1>12, SMT DEF q1, q2, q3, q4, q5, q6, q7

\* BTOL undoes LTOB.
LEMMA LTOBIs ==
  ASSUME NEW v \in Nat, v <= MaxLen64, NEW n \in {2, 8}, n = 2 => v <= MaxLen16
  PROVE  LTOB(v, n) \in Seq(Byte) /\ Len(LTOB(v, n)) = n /\ BTOL(LTOB(v, n)) = v
<1> DEFINE d == LTOB(v, n)
<1>0. v \in Nat /\ v <= 2147483647
  BY SMT DEF MaxLen64
<1>1. /\ Place[1] = 1 /\ Place[2] = 16 /\ Place[3] = 256 /\ Place[4] = 4096
      /\ Place[5] = 65536 /\ Place[6] = 1048576 /\ Place[7] = 16777216 /\ Place[8] = 268435456
  BY SMT DEF Place
<1>2. \A i \in 1..8 : (v \div Place[i]) % 16 \in 0..15
  <2>1. ASSUME NEW c \in Nat, c > 0 PROVE (v \div c) % 16 \in 0..15
    BY <1>0, <2>1, SMT
  <2>2. \A i \in 1..8 : Place[i] \in Nat /\ Place[i] > 0
    BY <1>1, SMT
  <2> QED BY <2>1, <2>2
<1>3. \A i \in 1..n : n + 1 - i \in 1..8
  OBVIOUS
<1>4. d = [i \in 1..n |-> (v \div Place[n + 1 - i]) % 16]
  BY DEF LTOB, Base
<1>5. d \in Seq(Byte) /\ Len(d) = n /\ d \in Seq(Nat)
  <2>1. \A i \in 1..n : (v \div Place[n + 1 - i]) % 16 \in Byte /\ (v \div Place[n + 1 - i]) % 16 \in Nat
    BY <1>2, <1>3 DEF Byte, Base
  <2> QED BY <1>4, <2>1
<1> HIDE DEF d
<1>6. CASE n = 2
  <2>1. d[1] = (v \div 16) % 16 /\ d[2] = (v \div 1) % 16
    BY <1>1, <1>4, <1>6, SMT
  <2>2. BTOL(d) = Two(d[1], d[2])
    BY <1>5, <1>6, BTOLIs
  <2>3. v = Two((v \div 16) % 16, (v \div 1) % 16)
    BY <1>6, Digits
  <2> QED BY <1>5, <2>1, <2>2, <2>3, SMT DEF d
<1>7. CASE n = 8
  <2>1. /\ d[1] = (v \div 268435456) % 16 /\ d[2] = (v \div 16777216) % 16
        /\ d[3] = (v \div 1048576) % 16 /\ d[4] = (v \div 65536) % 16
        /\ d[5] = (v \div 4096) % 16 /\ d[6] = (v \div 256) % 16 /\ d[7] = (v \div 16) % 16 /\ d[8] = (v \div 1) % 16
    BY <1>1, <1>4, <1>7, SMT
  <2>2. BTOL(d) = Eight(d[1], d[2], d[3], d[4], d[5], d[6], d[7], d[8])
    BY <1>5, <1>7, BTOLIs
  <2>3. v = Eight((v \div 268435456) % 16, (v \div 16777216) % 16, (v \div 1048576) % 16, (v \div 65536) % 16,
                  (v \div 4096) % 16, (v \div 256) % 16, (v \div 16) % 16, (v \div 1) % 16)
    BY Digits, SMT
  <2> QED BY <1>5, <2>1, <2>2, <2>3, SMT DEF d
<1> QED BY <1>6, <1>7

\* What SendProtocolMessage puts between the first byte and the data.
HeadFor(data) ==
  CASE Len(data) < Escape16  -> <<Len(data)>>
    [] Len(data) \in Escape16..MaxLen16 -> <<Escape16>> \o LTOB(Len(data), 2)
    [] Len(data) > MaxLen16  -> <<Escape64>> \o LTOB(Len(data), 8)

\* What SendProtocolMessage writes between the first byte and the data.
LEMMA HeadForIs ==
  ASSUME NEW data \in Seq(Byte)
  PROVE  /\ Len(data) < Escape16 \/ Len(data) \in Escape16..MaxLen16 \/ Len(data) > MaxLen16
         /\ Len(data) < Escape16 => HeadFor(data) = <<Len(data)>>
         /\ Len(data) \in Escape16..MaxLen16 =>
              HeadFor(data) = Behind(Escape16, LTOB(Len(data), 2)) /\ Len(data) >= Escape16 /\ Len(data) <= MaxLen16
         /\ Len(data) > MaxLen16 => HeadFor(data) = Behind(Escape64, LTOB(Len(data), 8))
<1>1. Escape16 \in Nat /\ MaxLen16 \in Nat /\ Escape16 <= MaxLen16
  BY DEF Escape16, MaxLen16
<1>2. PICK n \in Nat : n = Len(data)
  OBVIOUS
<1>3. /\ n \in Escape16..MaxLen16 <=> Escape16 <= n /\ n <= MaxLen16
      /\ n < Escape16 => ~(n \in Escape16..MaxLen16) /\ ~(n > MaxLen16)
      /\ n \in Escape16..MaxLen16 => ~(n < Escape16) /\ ~(n > MaxLen16)
      /\ n > MaxLen16 => ~(n < Escape16) /\ ~(n \in Escape16..MaxLen16)
  BY <1>1
<1>4. CASE n < Escape16
  BY <1>2, <1>3, <1>4 DEF HeadFor
<1>5. CASE n \in Escape16..MaxLen16
  BY <1>1, <1>2, <1>3, <1>5 DEF HeadFor, Behind
<1>6. CASE n > MaxLen16
  BY <1>2, <1>3, <1>6 DEF HeadFor, Behind
<1> QED BY <1>1, <1>2, <1>3, <1>4, <1>5, <1>6

\* A byte that says which form a frame has.
LEMMA Forms ==
  ASSUME NEW f, NEW n \in Nat
  PROVE  /\ n < Escape16 => n \in Byte /\ (f[2] = n => Extension(f[2]) = 0 /\ ~IsMasked(f))
         /\ f[2] = Escape16 => Extension(f[2]) = 2 /\ ~IsMasked(f)
         /\ f[2] = Escape64 => Extension(f[2]) = 8 /\ ~IsMasked(f)
         /\ Escape16 \in Byte /\ Escape64 \in Byte /\ \A x \in Byte : x \in Nat
<1>1. ASSUME n < 6 PROVE n % 8 = n /\ n # 6 /\ n # 7 /\ ~(n >= 8) /\ n \in 0..15
  BY <1>1
<1>2. n < Escape16 => n \in Byte /\ (f[2] = n => Extension(f[2]) = 0 /\ ~IsMasked(f))
  BY <1>1 DEF Extension, IsMasked, Escape16, Escape64, Half, Byte, Base
<1>3. 6 % 8 = 6 /\ 7 % 8 = 7
  OBVIOUS
<1> QED BY <1>2, <1>3 DEF Extension, IsMasked, Escape16, Escape64, Half, Byte, Base

\* SaysText, form by form.
LEMMA SaysTextIf ==
  ASSUME NEW f, NEW data, f[1] = TextFrame, ~IsMasked(f)
  PROVE  /\ Extension(f[2]) = 0 /\ SubSeq(f, 3, Len(f)) = data /\ f[2] = Len(data) /\ f[2] < Escape16 =>
              SaysText(f, data)
         /\ /\ Extension(f[2]) = 2 /\ SubSeq(f, 5, Len(f)) = data
            /\ f[3] * Base + f[4] = Len(data) /\ Len(data) >= Escape16
            => SaysText(f, data)
         /\ /\ Extension(f[2]) = 8 /\ SubSeq(f, 11, Len(f)) = data
            /\ BTOL(SubSeq(f, 3, 10)) = Len(data) /\ Len(data) > MaxLen16
            => SaysText(f, data)
<1>1. ASSUME NEW form \in {0, 2, 8}, Extension(f[2]) = form
      PROVE  (CHOOSE e \in {0, 2, 8} : Extension(f[2]) = e) = form
  BY <1>1
<1>2. 3 + 0 = 3 /\ 3 + 2 = 5 /\ 3 + 8 = 11 /\ 2 # 0 /\ 8 # 0 /\ 8 # 2 /\ 0 \in {0, 2, 8} /\ 2 \in {0, 2, 8} /\ 8 \in {0, 2, 8}
  OBVIOUS
<1>3. CASE Extension(f[2]) = 0
  BY <1>1, <1>2, <1>3 DEF SaysText
<1>4. CASE Extension(f[2]) = 2
  BY <1>1, <1>2, <1>4 DEF SaysText
<1>5. CASE Extension(f[2]) = 8
  BY <1>1, <1>2, <1>5 DEF SaysText
<1> QED BY <1>3, <1>4, <1>5

\* What the server sends for data is bytes that decode to it.
LEMMA AnswerSays ==
  ASSUME NEW data \in Seq(Byte), Len(data) <= MaxLen64
  PROVE  SendProtocolMessage(data) \in Seq(Byte) /\ SaysText(SendProtocolMessage(data), data)
<1>1. PICK f : f = SendProtocolMessage(data)
  OBVIOUS
<1>2. f = FrameOf(HeadFor(data), data)
  BY <1>1 DEF SendProtocolMessage, HeadFor, FrameOf
<1>3. PICK n \in Nat : n = Len(data) /\ n <= MaxLen64
  OBVIOUS
<1>4. CASE n < Escape16
  <2>1. HeadFor(data) = <<n>> /\ n \in Byte
    BY <1>3, <1>4, HeadForIs, Forms
  <2> DEFINE head == <<n>>
  <2>2. head \in Seq(Byte) /\ head = HeadFor(data) /\ Len(head) = 1 /\ head[1] = n
    BY <2>1
  <2> HIDE DEF head
  <2>3. /\ f \in Seq(Byte) /\ f[1] = TextFrame /\ \A i \in 1..Len(head) : f[1 + i] = head[i]
        /\ SubSeq(f, 2 + Len(head), Len(f)) = data
    <3>1. /\ FrameOf(head, data) \in Seq(Byte) /\ Len(FrameOf(head, data)) = 1 + Len(head) + Len(data)
          /\ FrameOf(head, data)[1] = TextFrame /\ \A i \in 1..Len(head) : FrameOf(head, data)[1 + i] = head[i]
          /\ SubSeq(FrameOf(head, data), 2 + Len(head), Len(FrameOf(head, data))) = data
      BY <2>2, FrameParts
    <3> QED BY <1>2, <2>2, <3>1
  <2>4. f[2] = n /\ SubSeq(f, 3, Len(f)) = data
    BY <2>2, <2>3
  <2>6. Extension(f[2]) = 0 /\ ~IsMasked(f)
    BY <1>4, <2>4, Forms
  <2>5. SaysText(f, data)
    BY <1>3, <1>4, <2>3, <2>4, <2>6, SaysTextIf
  <2> QED BY <1>1, <2>3, <2>5
<1>5. CASE n \in Escape16..MaxLen16
  <2> DEFINE d == LTOB(n, 2)
  <2>1. d \in Seq(Byte) /\ Len(d) = 2 /\ BTOL(d) = n
    BY <1>3, <1>5, HeadForIs, LTOBIs
  <2>2. HeadFor(data) = Behind(Escape16, d) /\ n >= Escape16
    BY <1>3, <1>5, HeadForIs
  <2> HIDE DEF d
  <2>3. Escape16 \in Byte
    BY Forms
  <2> DEFINE head == Behind(Escape16, d)
  <2>4. head \in Seq(Byte) /\ Len(head) = 3 /\ head[1] = Escape16 /\ \A i \in 1..2 : head[1 + i] = d[i]
    <3>1. d \in Seq(Byte) /\ Len(d) = 2
      BY <2>1
    <3>2. head \in Seq(Byte) /\ Len(head) = 1 + Len(d) /\ head[1] = Escape16 /\ \A i \in 1..Len(d) : head[1 + i] = d[i]
      BY <2>3, <3>1, BehindIs
    <3> HIDE DEF head
    <3> QED BY <3>1, <3>2
  <2> HIDE DEF head
  <2>9. head = HeadFor(data)
    BY <2>2 DEF head
  <2>5. /\ f \in Seq(Byte) /\ f[1] = TextFrame /\ \A i \in 1..Len(head) : f[1 + i] = head[i]
        /\ SubSeq(f, 2 + Len(head), Len(f)) = data
    <3>1. /\ FrameOf(head, data) \in Seq(Byte) /\ Len(FrameOf(head, data)) = 1 + Len(head) + Len(data)
          /\ FrameOf(head, data)[1] = TextFrame /\ \A i \in 1..Len(head) : FrameOf(head, data)[1 + i] = head[i]
          /\ SubSeq(FrameOf(head, data), 2 + Len(head), Len(FrameOf(head, data))) = data
      BY <2>4, FrameParts
    <3> QED BY <1>2, <2>9, <3>1
  <2>6. f[2] = Escape16 /\ f[3] = d[1] /\ f[4] = d[2] /\ SubSeq(f, 5, Len(f)) = data
    BY <2>4, <2>5
  <2>7. f[3] * Base + f[4] = n
    <3>1. d \in Seq(Nat) /\ d[1] \in Nat /\ d[2] \in Nat
      BY <2>1, Forms
    <3>2. Base * d[1] + d[2] = n
      BY <2>1, <3>1, BTOLIs DEF Two
    <3> QED BY <2>6, <3>1, <3>2 DEF Base
  <2>8. SaysText(f, data)
    <3>1. Extension(f[2]) = 2 /\ ~IsMasked(f)
      BY <2>6, Forms
    <3> QED BY <1>3, <2>2, <2>5, <2>6, <2>7, <3>1, SaysTextIf
  <2> QED BY <1>1, <2>5, <2>8
<1>6. CASE n > MaxLen16
  <2> DEFINE d == LTOB(n, 8)
  <2>1. d \in Seq(Byte) /\ Len(d) = 8 /\ BTOL(d) = n
    BY <1>3, LTOBIs
  <2>2. HeadFor(data) = Behind(Escape64, d)
    BY <1>3, <1>6, HeadForIs
  <2> HIDE DEF d
  <2>3. Escape64 \in Byte
    BY Forms
  <2> DEFINE head == Behind(Escape64, d)
  <2>4. head \in Seq(Byte) /\ Len(head) = 9 /\ head[1] = Escape64 /\ \A i \in 1..8 : head[1 + i] = d[i]
    <3>1. d \in Seq(Byte) /\ Len(d) = 8
      BY <2>1
    <3>2. head \in Seq(Byte) /\ Len(head) = 1 + Len(d) /\ head[1] = Escape64 /\ \A i \in 1..Len(d) : head[1 + i] = d[i]
      BY <2>3, <3>1, BehindIs
    <3> HIDE DEF head
    <3> QED BY <3>1, <3>2
  <2> HIDE DEF head
  <2>9. head = HeadFor(data)
    BY <2>2 DEF head
  <2>5. /\ f \in Seq(Byte) /\ Len(f) = 1 + Len(head) + Len(data) /\ f[1] = TextFrame
        /\ \A i \in 1..Len(head) : f[1 + i] = head[i]
        /\ SubSeq(f, 2 + Len(head), Len(f)) = data
    <3>1. /\ FrameOf(head, data) \in Seq(Byte) /\ Len(FrameOf(head, data)) = 1 + Len(head) + Len(data)
          /\ FrameOf(head, data)[1] = TextFrame /\ \A i \in 1..Len(head) : FrameOf(head, data)[1 + i] = head[i]
          /\ SubSeq(FrameOf(head, data), 2 + Len(head), Len(FrameOf(head, data))) = data
      BY <2>4, FrameParts
    <3> QED BY <1>2, <2>9, <3>1
  <2>6. f[2] = Escape64 /\ SubSeq(f, 11, Len(f)) = data /\ \A i \in 1..8 : f[1 + (1 + i)] = d[i]
    BY <2>4, <2>5
  <2>7. SubSeq(f, 3, 10) = d
    <3>1. \A i \in 3..10 : f[i] \in Byte
      <4>1. Len(f) >= 10 /\ Len(f) \in Nat
        BY <1>3, <2>4, <2>5
      <4> QED BY <2>5, <4>1, ElementOfSeq
    <3>2. PICK g : g = SubSeq(f, 3, 10)
      OBVIOUS
    <3>3. /\ g \in Seq(Byte) /\ Len(g) = 10 - 3 + 1 /\ \A i \in 1..(10 - 3 + 1) : g[i] = f[3 + i - 1]
      BY <3>1, <3>2, SubSeqProperties
    <3>4. Len(g) = 8 /\ \A i \in 1..8 : g[i] = f[1 + (1 + i)]
      <4>1. \A i \in 1..8 : 3 + i - 1 = 1 + (1 + i)
        OBVIOUS
      <4> QED BY <3>3, <4>1
    <3> QED BY <2>1, <2>6, <3>2, <3>3, <3>4, SeqEqual
  <2>8. SaysText(f, data)
    <3>1. Extension(f[2]) = 8 /\ ~IsMasked(f)
      BY <2>6, Forms
    <3> QED BY ZenonT(60), <1>3, <1>6, <2>1, <2>5, <2>6, <2>7, <3>1, SaysTextIf
  <2> QED BY <1>1, <2>5, <2>8
<1> QED BY <1>3, <1>4, <1>5, <1>6, HeadForIs

----------------------------------------------------------------------------
(* Where each message is found *)

\* A frame with no payload, of which nothing is found.
Mute(k) == protocol = "WS" /\ k >= 2 /\ script[k].payload = <<>>

\* Symbols of the stream when message k is found.
Found(k) ==
  IF k = 0 THEN 0
  ELSE End(k - 1) + (IF protocol = "HTTP" THEN First(Wire(k), "blank") + BodyLength(Wire(k)) ELSE Len(Wire(k)))

\* A message is found behind its first symbol, and no later than at its end: the rest of it is body.
LEMMA FoundIs ==
  ASSUME SessionOK, NEW k \in 1..Len(script)
  PROVE  /\ End(k - 1) \in Nat /\ End(k) \in Nat /\ Found(k) \in Nat /\ End(k - 1) < Found(k) /\ Found(k) <= End(k)
         /\ End(k) = End(k - 1) + Len(Wire(k)) /\ Len(Wire(k)) \in Nat /\ End(k) <= Len(Stream)
         /\ protocol # "HTTP" => Found(k) = End(k)
         /\ \A i \in 1..Len(Wire(k)) : End(k - 1) + i > Found(k) => Wire(k)[i].s = "byte"
<1>1. k - 1 \in 0..Len(script) /\ k \in 0..Len(script) /\ Len(script) \in 0..Len(script) /\ k # 0 /\ Len(script) \in k..Len(script)
  BY ScriptIs
<1>2. End(k - 1) \in Nat /\ End(k) \in Nat
  BY <1>1, StreamTyped
<1>3. End(k) = End(k - 1) + Len(Wire(k)) /\ Len(Wire(k)) \in Nat /\ Len(Wire(k)) >= 1
  BY Ends
<1>4. End(k) <= Len(Stream)
  BY <1>1, StreamGrows, Ends
<1>5. CASE protocol # "HTTP"
  <2>1. Found(k) = End(k)
    BY <1>1, <1>3, <1>5 DEF Found
  <2> QED BY <1>2, <1>3, <1>4, <1>5, <2>1
<1>6. CASE protocol = "HTTP"
  <2>1. Wire(k) \in Seq(Symbol) /\ IsResponse(Wire(k))
    BY <1>6, ScriptIs DEF IsMessageOf, Wire
  <2>2. PICK e \in 3..Len(Wire(k)) :
          /\ \A j \in (e + 1)..Len(Wire(k)) : Wire(k)[j].s = "byte"
          /\ First(Wire(k), "blank") = e /\ BodyLength(Wire(k)) \in Nat /\ e + BodyLength(Wire(k)) <= Len(Wire(k))
    BY <2>1, ResponseIs
  <2>3. Found(k) = End(k - 1) + (e + BodyLength(Wire(k)))
    BY <1>1, <1>6, <2>2 DEF Found
  <2>4. PICK n, s, m : n = BodyLength(Wire(k)) /\ s = End(k - 1) /\ m = Len(Wire(k))
    OBVIOUS
  <2>5. n \in Nat /\ s \in Nat /\ m \in Nat /\ e \in Nat /\ e >= 3 /\ e + n <= m /\ Found(k) = s + (e + n) /\ End(k) = s + m
    BY <1>2, <1>3, <2>2, <2>3, <2>4
  <2>6. Found(k) \in Nat /\ s < Found(k) /\ Found(k) <= End(k) /\ \A i \in 1..m : s + i > Found(k) => i \in (e + 1)..m
    BY <2>5
  <2> QED BY <1>2, <1>3, <1>4, <1>6, <2>2, <2>4, <2>6
<1> QED BY <1>5, <1>6

\* The buffer holds what came of message k, behind l bytes of what came before.
Pending(b, l, k, a) ==
  /\ Len(b) = l + (a - End(k - 1)) /\ \A j \in 1..l : b[j].s = "byte"
  /\ protocol # "HTTP" => l = 0
  /\ \A j \in 1..(a - End(k - 1)) : b[l + j] = Stream[End(k - 1) + j]

\* Then it is complete where message k is found, not before, and a frame is
\* parsed as the peer meant it.
LEMMA Complete ==
  ASSUME SessionOK, NEW k \in 1..Len(script), NEW l \in Nat, NEW b \in Seq(Symbol), NEW a \in Nat,
         End(k - 1) < a, a <= Len(Stream), a <= Found(k) \/ Mute(k), Pending(b, l, k, a),
         NEW r, r.iBuffer = b, protocol = "WS" => (r.iWsHandshakeDone <=> k >= 2)
  PROVE  /\ IsMessageComplete(r) <=> ~Mute(k) /\ a = Found(k)
         /\ protocol = "WS" /\ k >= 2 /\ ~Mute(k) /\ a = Found(k) => ParseFrame(Bytes(b)) = script[k].payload
<1>1. /\ End(k - 1) \in Nat /\ End(k) \in Nat /\ Found(k) \in Nat /\ End(k - 1) < Found(k) /\ Found(k) <= End(k)
      /\ End(k) = End(k - 1) + Len(Wire(k)) /\ Len(Wire(k)) \in Nat
      /\ protocol # "HTTP" => Found(k) = End(k)
  BY FoundIs
<1>2. Wire(k) \in Seq(Symbol) /\ IsMessageOf(protocol, k, script[k]) /\ protocol \in {"FTP", "HTTP", "WS"}
  BY ScriptIs
<1>3. PICK w : w = Wire(k)
  OBVIOUS
<1>4. PICK i : i = a - End(k - 1)
  OBVIOUS
<1>5. w \in Seq(Symbol) /\ Len(w) \in Nat /\ i \in Nat /\ i >= 1 /\ Len(b) = l + i
  <2>1. w \in Seq(Symbol) /\ Len(w) \in Nat
    BY <1>1, <1>2, <1>3
  <2>2. PICK s \in Nat : s = End(k - 1)
    BY <1>1
  <2>3. i \in Nat /\ i >= 1
    BY <1>4, <2>2
  <2> QED BY <1>4, <2>1, <2>3 DEF Pending
<1>6. \A j \in 1..Len(w) : Stream[End(k - 1) + j] = w[j]
  BY <1>3, StreamSymbol
<1>7. ASSUME i <= Len(w) PROVE i \in 1..Len(w) /\ EndsWith(b, w, l, i)
  <2>1. \A j \in 1..i : b[l + j] = Stream[End(k - 1) + j]
    BY <1>4 DEF Pending
  <2>2. \A j \in 1..i : j \in 1..Len(w)
    BY <1>5, <1>7
  <2>3. \A j \in 1..i : b[l + j] = w[j]
    BY <1>6, <2>1, <2>2
  <2>4. \A j \in 1..l : b[j].s = "byte"
    BY DEF Pending
  <2> QED BY <1>5, <1>7, <2>3, <2>4 DEF EndsWith
<1>8. ~Mute(k) => i <= Len(w)
  BY <1>1, <1>3, <1>4
<1>9. protocol # "HTTP" => (a = Found(k) <=> i = Len(w)) /\ l = 0
  BY <1>1, <1>3, <1>4 DEF Pending
<1>10. CASE protocol = "FTP"
  <2>1. ~Mute(k) /\ IsReply(w)
    BY <1>2, <1>3, <1>10 DEF Mute, IsMessageOf, Wire
  <2>2. FtpComplete(b) <=> i = Len(w)
    BY <1>5, <1>7, <1>8, <1>9, <1>10, <2>1, ReplyFound
  <2> QED BY <1>9, <1>10, <2>1, <2>2 DEF IsMessageComplete
<1>11. CASE protocol = "HTTP"
  <2>1. ~Mute(k) /\ IsResponse(w)
    BY <1>2, <1>3, <1>11 DEF Mute, IsMessageOf, Wire
  <2>2. PICK e \in 3..Len(w) :
          /\ IsHeader(w, "status", {"header", "length"}, e) /\ \A j \in (e + 1)..Len(w) : w[j].s = "byte"
          /\ First(w, "blank") = e /\ BodyLength(w) \in Nat
    BY <1>5, <2>1, ResponseIs
  <2>3. Found(k) = End(k - 1) + (e + BodyLength(w))
    BY <1>3, <1>11, <2>2 DEF Found
  <2>4. i <= e + BodyLength(w) /\ (a = Found(k) <=> i = e + BodyLength(w))
    <3>1. PICK n \in Nat : n = BodyLength(w)
      BY <2>2
    <3>2. PICK s \in Nat : s = End(k - 1)
      BY <1>1
    <3>3. Found(k) = s + (e + n) /\ i = a - s /\ a <= Found(k)
      BY <1>4, <2>1, <2>3, <3>1, <3>2
    <3>4. i <= e + n /\ (a = Found(k) <=> i = e + n)
      BY <3>3
    <3> QED BY <3>1, <3>4
  <2>5. {"header", "length"} \subseteq {"header", "length", "key"} /\ "status" \in {"status", "request"}
    OBVIOUS
  <2>6. HttpComplete(b) <=> i = e + BodyLength(w)
    BY <1>5, <1>7, <1>8, <2>1, <2>2, <2>4, <2>5, HeaderFound
  <2> QED BY <1>11, <2>1, <2>4, <2>6 DEF IsMessageComplete
<1>12. CASE protocol = "WS" /\ k = 1
  <2>1. ~Mute(k) /\ IsHello(w) /\ ~r.iWsHandshakeDone
    BY <1>2, <1>3, <1>12 DEF Mute, IsMessageOf, Wire
  <2>2. IsHeader(w, "request", {"header", "key"}, Len(w))
    BY <2>1 DEF IsHello
  <2>3. BodyLength(w) = 0
    <3>1. \A j \in 1..Len(w) : w[j].s # "length"
      <4>1. \A j \in 1..Len(w) : j = 1 \/ j \in 2..(Len(w) - 1) \/ j = Len(w)
        BY <1>5
      <4> QED BY <2>2, <4>1 DEF IsHeader
    <3>2. First(w, "length") = 0
      BY <1>5, <3>1, FirstIs
    <3> QED BY <3>2 DEF BodyLength
  <2>4. {"header", "key"} \subseteq {"header", "length", "key"} /\ "request" \in {"status", "request"}
    OBVIOUS
  <2>5. i <= Len(w) + BodyLength(w) /\ \A j \in (Len(w) + 1)..Len(w) : w[j].s = "byte"
    BY <1>5, <1>8, <2>1, <2>3
  <2>6. HttpComplete(b) <=> i = Len(w)
    <3>1. HttpComplete(b) <=> i = Len(w) + BodyLength(w)
      BY <1>5, <1>7, <1>8, <2>1, <2>2, <2>4, <2>5, HeaderFound
    <3> QED BY <1>5, <2>3, <3>1
  <2> QED BY <1>9, <1>12, <2>1, <2>6 DEF IsMessageComplete
<1>13. CASE protocol = "WS" /\ k # 1
  <2>1. k >= 2 /\ r.iWsHandshakeDone
    BY <1>13
  <2>2. PICK payload : payload = script[k].payload
    OBVIOUS
  <2>3. IsFrame(w, payload) /\ (Mute(k) <=> payload = <<>>)
    BY <1>2, <1>3, <1>13, <2>1, <2>2 DEF Mute, IsMessageOf, Wire
  <2>4. l = 0 /\ Len(b) = i /\ Len(b) >= 1
    BY <1>5, <1>9, <1>13
  <2>5. ASSUME NEW j \in 1..Len(w), j <= Len(b) PROVE b[j] = w[j]
    <3>1. j \in 1..(a - End(k - 1)) /\ 0 + j = j
      BY <1>4, <1>5, <2>4, <2>5
    <3>2. b[l + j] = Stream[End(k - 1) + j]
      BY <3>1 DEF Pending
    <3> QED BY <1>6, <2>4, <3>1, <3>2
  <2>6. payload # <<>> => Len(b) <= Len(w)
    BY <1>8, <2>3, <2>4
  <2>7. /\ payload = <<>> => ~FrameComplete(Bytes(b))
        /\ payload # <<>> => (FrameComplete(Bytes(b)) <=> Len(b) = Len(w))
        /\ payload # <<>> /\ Len(b) = Len(w) => ParseFrame(Bytes(b)) = payload
    BY <1>5, <2>3, <2>4, <2>5, <2>6, FrameFound
  <2> QED BY <1>9, <1>13, <2>1, <2>2, <2>3, <2>4, <2>7 DEF IsMessageComplete
<1> QED BY <1>2, <1>10, <1>11, <1>12, <1>13

----------------------------------------------------------------------------
(* The invariant *)

\* A protocol object, field by field.
Obj(buffer, messages, done, told, sent, fault) ==
  [iBuffer |-> buffer, iMessages |-> messages, iWsHandshakeDone |-> done, told |-> told, sent |-> sent, fault |-> fault]

\* BOOLEAN, behind a name: a leaf that needs the rest of an object need not see it.
IsBool(x) == x \in BOOLEAN

IsObject(q) ==
  /\ q = Obj(q.iBuffer, q.iMessages, q.iWsHandshakeDone, q.told, q.sent, q.fault)
  /\ q.iBuffer \in Seq(Symbol) /\ q.iMessages \in Nat /\ IsBool(q.iWsHandshakeDone)

\* Message k is the last one found, and what came behind it is the rest of its body.
Between(q, k, a) ==
  /\ k \in 0..Len(script) /\ Found(k) <= a /\ a <= End(k) /\ q.iMessages = k
  /\ \A j \in 1..Len(q.iBuffer) : q.iBuffer[j].s = "byte"
  /\ protocol # "HTTP" => q.iBuffer = <<>>
  /\ \A j \in 1..k : ~Mute(j)

\* Message k has begun and is not found yet, or never will be.
Within(q, k, a) ==
  /\ k \in 1..Len(script) /\ End(k - 1) < a /\ (a < Found(k) \/ Mute(k)) /\ q.iMessages = k - 1
  /\ \E l \in Nat : Pending(q.iBuffer, l, k, a)
  /\ \A j \in 1..(k - 1) : ~Mute(j)

\* What the callback was told and what was sent, for each message found.
Welcome == <<"101 Switching Protocols">>
Said(m) == [j \in 1..(IF m = 0 THEN 0 ELSE m - 1) |-> script[j + 1].payload]
Answered(m) == [j \in 1..m |-> IF j = 1 THEN Welcome ELSE SendProtocolMessage(answer)]

Says(q) ==
  protocol = "WS" =>
    /\ q.iWsHandshakeDone <=> q.iMessages >= 1
    /\ q.told = Said(q.iMessages) /\ q.sent = Answered(q.iMessages)

\* A living object after a symbols of the stream.
At(q, a) == q.fault = "none" => Says(q) /\ \E k : Between(q, k, a) \/ Within(q, k, a)

\* One more message is one more payload told and one more answer sent.
LEMMA SaidMore ==
  ASSUME NEW m \in Nat
  PROVE  /\ Said(0) = <<>> /\ Said(1) = <<>> /\ Answered(0) = <<>>
         /\ m >= 1 => Append(Said(m), script[m + 1].payload) = Said(m + 1)
         /\ Append(Answered(0), Welcome) = Answered(1)
         /\ m >= 1 => Append(Answered(m), SendProtocolMessage(answer)) = Answered(m + 1)
<1>1. Said(0) = <<>> /\ Said(1) = <<>> /\ Answered(0) = <<>>
  BY DEF Said, Answered
<1>2. ASSUME m >= 1 PROVE Append(Said(m), script[m + 1].payload) = Said(m + 1)
  <2>1. PICK n \in Nat : n = m - 1
    BY <1>2
  <2>2. Said(m) = [j \in 1..n |-> script[j + 1].payload] /\ Said(m + 1) = [j \in 1..(n + 1) |-> script[j + 1].payload]
    BY <1>2, <2>1 DEF Said
  <2>3. Append([j \in 1..n |-> script[j + 1].payload], script[(n + 1) + 1].payload) = [j \in 1..(n + 1) |-> script[j + 1].payload]
    OBVIOUS
  <2>4. (n + 1) + 1 = m + 1
    BY <2>1
  <2> QED BY <2>2, <2>3, <2>4
<1>3. Append(Answered(0), Welcome) = Answered(1)
  <2>1. PICK f : f = [j \in 1..1 |-> Welcome]
    OBVIOUS
  <2>2. Append([j \in 1..0 |-> f[j]], f[1]) = [j \in 1..1 |-> f[j]]
    OBVIOUS
  <2>3. Answered(1) = [j \in 1..1 |-> f[j]]
    BY <2>1 DEF Answered
  <2>4. Answered(0) = [j \in 1..0 |-> f[j]] /\ f[1] = Welcome
    BY <2>1 DEF Answered
  <2> QED BY <2>2, <2>3, <2>4
<1>4. ASSUME m >= 1 PROVE Append(Answered(m), SendProtocolMessage(answer)) = Answered(m + 1)
  <2>1. PICK f : f = Answered(m + 1)
    OBVIOUS
  <2>2. Append([j \in 1..m |-> f[j]], f[m + 1]) = [j \in 1..(m + 1) |-> f[j]]
    OBVIOUS
  <2>3. f[m + 1] = SendProtocolMessage(answer)
    BY <1>4, <2>1 DEF Answered
  <2>4. f = [j \in 1..(m + 1) |-> f[j]]
    BY <1>4, <2>1 DEF Answered
  <2>5. Answered(m) = [j \in 1..m |-> f[j]]
    BY <1>4, <2>1 DEF Answered
  <2> QED BY <2>1, <2>2, <2>3, <2>4, <2>5
<1> QED BY <1>1, <1>2, <1>3, <1>4

\* The assignments of the code, one operator each.
WithBuffer(q, v)      == [q EXCEPT !.iBuffer = v]
WithFault(q, v)       == [q EXCEPT !.fault = v]
WithMessages(q, n, v) == [q EXCEPT !.iMessages = n, !.iBuffer = v]
WithHello(q, v, w)    == [q EXCEPT !.sent = v, !.iWsHandshakeDone = w]
Hello(q, v)           == [q EXCEPT !.sent = v, !.iWsHandshakeDone = TRUE]
WithAnswer(q, v, w)   == [q EXCEPT !.told = v, !.sent = w]

\* Equality, where the provers must not replace u by v.
Is(u, v) == u = v

\* Reading and writing the fields of an object.
LEMMA FieldsAre ==
  ASSUME NEW b, NEW m, NEW h, NEW t, NEW s, NEW f
  PROVE  /\ Obj(b, m, h, t, s, f).iBuffer = b /\ Obj(b, m, h, t, s, f).iMessages = m
         /\ Obj(b, m, h, t, s, f).iWsHandshakeDone = h /\ Obj(b, m, h, t, s, f).told = t
         /\ Obj(b, m, h, t, s, f).sent = s /\ Obj(b, m, h, t, s, f).fault = f
  BY DEF Obj

LEMMA WithBufferIs ==
  ASSUME NEW b, NEW m, NEW h, NEW t, NEW s, NEW f, NEW v
  PROVE  WithBuffer(Obj(b, m, h, t, s, f), v) = Obj(v, m, h, t, s, f)
  BY DEF Obj, WithBuffer

LEMMA WithFaultIs ==
  ASSUME NEW b, NEW m, NEW h, NEW t, NEW s, NEW f, NEW v
  PROVE  WithFault(Obj(b, m, h, t, s, f), v) = Obj(b, m, h, t, s, v)
  BY DEF Obj, WithFault

LEMMA WithMessagesIs ==
  ASSUME NEW b, NEW m, NEW h, NEW t, NEW s, NEW f, NEW n, NEW v
  PROVE  WithMessages(Obj(b, m, h, t, s, f), n, v) = Obj(v, n, h, t, s, f)
<1>1. [Obj(b, m, h, t, s, f) EXCEPT !.iMessages = n] = Obj(b, n, h, t, s, f)
  BY DEF Obj
<1>2. [Obj(b, n, h, t, s, f) EXCEPT !.iBuffer = v] = Obj(v, n, h, t, s, f)
  BY DEF Obj
<1>3. PICK q : q = Obj(b, m, h, t, s, f)
  OBVIOUS
<1>4. WithMessages(q, n, v) = [[q EXCEPT !.iMessages = n] EXCEPT !.iBuffer = v]
  BY DEF WithMessages
<1> QED BY <1>1, <1>2, <1>3, <1>4

LEMMA WithHelloIs ==
  ASSUME NEW b, NEW m, NEW h, NEW t, NEW s, NEW f, NEW v, NEW w
  PROVE  WithHello(Obj(b, m, h, t, s, f), v, w) = Obj(b, m, w, t, v, f)
<1>1. [Obj(b, m, h, t, s, f) EXCEPT !.sent = v] = Obj(b, m, h, t, v, f)
  BY DEF Obj
<1>2. [Obj(b, m, h, t, v, f) EXCEPT !.iWsHandshakeDone = w] = Obj(b, m, w, t, v, f)
  BY DEF Obj
<1>3. PICK q : q = Obj(b, m, h, t, s, f)
  OBVIOUS
<1>4. WithHello(q, v, w) = [[q EXCEPT !.sent = v] EXCEPT !.iWsHandshakeDone = w]
  BY DEF WithHello
<1> QED BY <1>1, <1>2, <1>3, <1>4

Yes       == TRUE
Finish(q) == WithMessages(q, q.iMessages + 1, <<>>)

\* What becomes of an object whose buffer is the hello.
LEMMA HelloFinished ==
  ASSUME NEW b, NEW m, NEW h, NEW t, NEW s, First(b, "key") # 0
  PROVE  Finish(SendServerHello(Obj(b, m, h, t, s, "none"))) = Obj(<<>>, m + 1, Yes, t, Append(s, Welcome), "none")
<1>1. PICK v : v = Append(s, Welcome)
  OBVIOUS
<1>2. SendServerHello(Obj(b, m, h, t, s, "none")) = WithHello(Obj(b, m, h, t, s, "none"), v, Yes)
  <2>1. PICK q : q = Obj(b, m, h, t, s, "none")
    OBVIOUS
  <2>2. q.iBuffer = b /\ q.sent = s
    BY <2>1, FieldsAre
  <2>3. SendServerHello(q) = Hello(q, v)
    BY <1>1, <2>2 DEF SendServerHello, Hello, Welcome
  <2>4. Hello(q, v) = WithHello(q, v, Yes)
    BY Zenon DEF Hello, WithHello, Yes
  <2> QED BY <2>1, <2>3, <2>4
<1>3. PICK o : o = Obj(b, m, Yes, t, v, "none")
  OBVIOUS
<1>4. WithHello(Obj(b, m, h, t, s, "none"), v, Yes) = o
  BY <1>3, WithHelloIs
<1>5. o.iMessages = m
  BY <1>3, FieldsAre
<1>6. PICK n, w : n = m + 1 /\ w = <<>>
  OBVIOUS
<1>7. Finish(o) = WithMessages(o, n, w)
  BY <1>5, <1>6 DEF Finish
<1>8. WithMessages(o, n, w) = Obj(w, n, Yes, t, v, "none")
  BY <1>3, WithMessagesIs
<1> QED BY <1>1, <1>2, <1>4, <1>6, <1>7, <1>8

LEMMA WithAnswerIs ==
  ASSUME NEW b, NEW m, NEW h, NEW t, NEW s, NEW f, NEW v, NEW w
  PROVE  WithAnswer(Obj(b, m, h, t, s, f), v, w) = Obj(b, m, h, v, w, f)
<1>1. [Obj(b, m, h, t, s, f) EXCEPT !.told = v] = Obj(b, m, h, v, s, f)
  BY DEF Obj
<1>2. [Obj(b, m, h, v, s, f) EXCEPT !.sent = w] = Obj(b, m, h, v, w, f)
  BY DEF Obj
<1>3. PICK q : q = Obj(b, m, h, t, s, f)
  OBVIOUS
<1>4. WithAnswer(q, v, w) = [[q EXCEPT !.told = v] EXCEPT !.sent = w]
  BY DEF WithAnswer
<1> QED BY <1>1, <1>2, <1>3, <1>4

\* What a symbol can do to a living object, of fields b, m, h, t and s with the symbol in it.
Outcome(b, m, h, t, s, r, y) ==
  \/ y = Obj(b, m, h, t, s, "std::invalid_argument")
  \/ ~IsMessageComplete(r) /\ y = r
  \/ IsMessageComplete(r) /\ protocol # "WS" /\ y = Obj(<<>>, m + 1, h, t, s, "none")
  \/ IsMessageComplete(r) /\ protocol = "WS" /\ h = FALSE /\ y = Obj(<<>>, m + 1, h, t, s, "assert(key.size())")
  \/ /\ IsMessageComplete(r) /\ protocol = "WS" /\ h = FALSE
     /\ y = Obj(<<>>, m + 1, Yes, t, Append(s, Welcome), "none")
  \/ /\ IsMessageComplete(r) /\ protocol = "WS" /\ h = TRUE
     /\ y = Obj(<<>>, m + 1, h, Append(t, ParseFrame(Bytes(b))), Append(s, SendProtocolMessage(answer)), "none")

\* And one of them it does.
LEMMA OnByteIs ==
  ASSUME NEW buffer, buffer \in Seq(Symbol), NEW m, m \in Nat, NEW h, IsBool(h), NEW t, NEW s,
         NEW x \in Symbol, NEW b, Is(b, Append(buffer, x))
  PROVE  Outcome(b, m, h, t, s, Obj(b, m, h, t, s, "none"), OnByte(Obj(buffer, m, h, t, s, "none"), x))
<1>a. h \in BOOLEAN
  BY DEF IsBool
<1>b. b \in Seq(Symbol)
  <2>1. Append(buffer, x) \in Seq(Symbol)
    OBVIOUS
  <2> QED BY Zenon, <2>1 DEF Is
<1> USE <1>a, <1>b
<1> SUFFICES ASSUME NEW q, q = Obj(buffer, m, h, t, s, "none"), NEW r, r = Obj(b, m, h, t, s, "none"),
                    NEW y, y = OnByte(q, x)
             PROVE  Outcome(b, m, h, t, s, r, y)
  OBVIOUS
<1> SUFFICES \/ y = Obj(b, m, h, t, s, "std::invalid_argument")
             \/ ~IsMessageComplete(r) /\ y = r
             \/ IsMessageComplete(r) /\ protocol # "WS" /\ y = Obj(<<>>, m + 1, h, t, s, "none")
             \/ IsMessageComplete(r) /\ protocol = "WS" /\ h = FALSE /\ y = Obj(<<>>, m + 1, h, t, s, "assert(key.size())")
             \/ /\ IsMessageComplete(r) /\ protocol = "WS" /\ h = FALSE
                /\ y = Obj(<<>>, m + 1, Yes, t, Append(s, Welcome), "none")
             \/ /\ IsMessageComplete(r) /\ protocol = "WS" /\ h = TRUE
                /\ y = Obj(<<>>, m + 1, h, Append(t, ParseFrame(Bytes(b))), Append(s, SendProtocolMessage(answer)), "none")
  BY DEF Outcome
<1>1. /\ q.iBuffer = buffer /\ q.fault = "none" /\ WithBuffer(q, b) = r
      /\ r.iBuffer = b /\ r.iMessages = m /\ r.iWsHandshakeDone = h /\ r.told = t /\ r.sent = s
  <2>1. q.iBuffer = buffer /\ q.fault = "none"
    BY FieldsAre
  <2>2. WithBuffer(q, b) = r
    BY WithBufferIs
  <2>3. r.iBuffer = b /\ r.iMessages = m
    BY FieldsAre
  <2>4. r.iWsHandshakeDone = h /\ r.told = t /\ r.sent = s
    BY FieldsAre
  <2> QED BY <2>1, <2>2, <2>3, <2>4
<1>2. y = IF ~h /\ ParseThrows(b) THEN WithFault(r, "std::invalid_argument")
          ELSE IF IsMessageComplete(r) THEN WithMessages(StateMachine(r), StateMachine(r).iMessages + 1, <<>>) ELSE r
  <2>1. y = LET o == WithBuffer(q, Append(q.iBuffer, x))
            IN CASE q.fault # "none" -> q
                 [] q.fault = "none" /\ ~o.iWsHandshakeDone /\ ParseThrows(o.iBuffer) -> WithFault(o, "std::invalid_argument")
                 [] OTHER ->
                      IF IsMessageComplete(o) THEN WithMessages(StateMachine(o), StateMachine(o).iMessages + 1, <<>>) ELSE o
    BY DEF OnByte, WithBuffer, WithFault, WithMessages
  <2>4. WithBuffer(q, Append(q.iBuffer, x)) = r
    BY <1>1 DEF Is
  <2>5. y = CASE q.fault # "none" -> q
              [] q.fault = "none" /\ ~r.iWsHandshakeDone /\ ParseThrows(r.iBuffer) -> WithFault(r, "std::invalid_argument")
              [] OTHER ->
                   IF IsMessageComplete(r) THEN WithMessages(StateMachine(r), StateMachine(r).iMessages + 1, <<>>) ELSE r
    BY <2>1, <2>4
  <2>2. CASE ~h /\ ParseThrows(b)
    BY <1>1, <2>2, <2>5
  <2>3. CASE ~(~h /\ ParseThrows(b))
    BY <1>1, <2>3, <2>5
  <2> QED BY <2>2, <2>3
<1>3. CASE ~h /\ ParseThrows(b)
  <2>1. y = WithFault(r, "std::invalid_argument")
    BY <1>2, <1>3
  <2>2. WithFault(Obj(b, m, h, t, s, "none"), "std::invalid_argument") = Obj(b, m, h, t, s, "std::invalid_argument")
    BY DEF WithFault, Obj
  <2> QED BY <2>1, <2>2
<1>4. CASE ~(~h /\ ParseThrows(b)) /\ ~IsMessageComplete(r)
  BY <1>2, <1>4
<1>5. CASE ~(~h /\ ParseThrows(b)) /\ IsMessageComplete(r)
  <2>1. y = WithMessages(StateMachine(r), StateMachine(r).iMessages + 1, <<>>)
    BY <1>2, <1>5
  <2>2. ASSUME NEW h2, NEW t2, NEW s2, NEW f2, StateMachine(r) = Obj(b, m, h2, t2, s2, f2)
        PROVE  y = Obj(<<>>, m + 1, h2, t2, s2, f2)
    <3>1. /\ Obj(b, m, h2, t2, s2, f2).iMessages = m
          /\ WithMessages(Obj(b, m, h2, t2, s2, f2), m + 1, <<>>) = Obj(<<>>, m + 1, h2, t2, s2, f2)
      BY FieldsAre, WithMessagesIs
    <3> QED BY <2>1, <2>2, <3>1
  <2>3. CASE protocol # "WS"
    <3>1. StateMachine(r) = r
      BY <2>3 DEF StateMachine
    <3> QED BY <1>5, <2>2, <2>3, <3>1
  <2>4. CASE protocol = "WS" /\ h = FALSE
    <3>1. StateMachine(r) = SendServerHello(r)
      BY <1>1, <2>4 DEF StateMachine
    <3>2. CASE First(b, "key") = 0
      <4>1. SendServerHello(r) = Obj(b, m, h, t, s, "assert(key.size())")
        <5>1. SendServerHello(r) = WithFault(r, "assert(key.size())")
          BY <1>1, <3>2 DEF SendServerHello, WithFault
        <5> QED BY <5>1, WithFaultIs
      <4> QED BY <1>5, <2>2, <2>4, <3>1, <4>1
    <3>3. CASE First(b, "key") # 0
      <4>1. Finish(SendServerHello(Obj(b, m, h, t, s, "none"))) = Obj(<<>>, m + 1, Yes, t, Append(s, Welcome), "none")
        BY <3>3, HelloFinished
      <4>2. y = Finish(SendServerHello(r))
        BY <2>1, <3>1 DEF Finish
      <4>3. y = Finish(SendServerHello(Obj(b, m, h, t, s, "none")))
        BY <4>2
      <4> QED BY <1>5, <2>4, <4>1, <4>3
    <3> QED BY <3>2, <3>3
  <2>5. CASE protocol = "WS" /\ h = TRUE
    <3>1. StateMachine(r) = ClientMessage(r)
      BY <1>1, <2>5 DEF StateMachine
    <3>2. ClientMessage(r) = Obj(b, m, h, Append(t, ParseFrame(Bytes(b))), Append(s, SendProtocolMessage(answer)), "none")
      <4>1. ClientMessage(r) = WithAnswer(r, Append(t, ParseFrame(Bytes(b))), Append(s, SendProtocolMessage(answer)))
        BY <1>1 DEF ClientMessage, WithAnswer
      <4> QED BY <4>1, WithAnswerIs
    <3> QED BY <1>5, <2>2, <2>5, <3>1, <3>2
  <2> QED BY <2>3, <2>4, <2>5
<1> QED BY <1>3, <1>4, <1>5

\* An object is made of its fields.
LEMMA ObjectOf ==
  ASSUME NEW b, b \in Seq(Symbol), NEW m, m \in Nat, NEW h, IsBool(h), NEW t, NEW s, NEW f
  PROVE  IsObject(Obj(b, m, h, t, s, f))
<1>0. PICK y : y = Obj(b, m, h, t, s, f)
  OBVIOUS
<1>1. /\ y.iBuffer = b /\ y.iMessages = m /\ y.iWsHandshakeDone = h
      /\ y.told = t /\ y.sent = s /\ y.fault = f
  BY <1>0, FieldsAre
<1> QED BY <1>0, <1>1 DEF IsObject

\* The fields of y against those of q, the object before it.
Same(q, y) == y.iWsHandshakeDone = q.iWsHandshakeDone /\ y.told = q.told /\ y.sent = q.sent
Kept(q, y, b) == y.iBuffer = b /\ y.iMessages = q.iMessages /\ Same(q, y)
Ended(q, y) == y.iBuffer = <<>> /\ y.iMessages = q.iMessages + 1

\* The same in terms of fields, Same, Kept and Ended naming those that most outcomes share.
LEMMA OnByteDoes ==
  ASSUME NEW q, IsObject(q), q.fault = "none", NEW x \in Symbol, NEW y, y = OnByte(q, x)
  PROVE  /\ IsObject(y)
         /\ \E b, r :
              /\ b = Append(q.iBuffer, x) /\ r.iBuffer = b /\ r.iWsHandshakeDone = q.iWsHandshakeDone
              /\ \/ y.fault = "std::invalid_argument" /\ Kept(q, y, b)
                 \/ y.fault = "none" /\ ~IsMessageComplete(r) /\ Kept(q, y, b)
                 \/ /\ y.fault = "none" /\ IsMessageComplete(r) /\ protocol # "WS" /\ Ended(q, y) /\ Same(q, y)
                 \/ y.fault = "assert(key.size())" /\ Ended(q, y) /\ Same(q, y)
                 \/ /\ y.fault = "none" /\ IsMessageComplete(r) /\ protocol = "WS" /\ ~q.iWsHandshakeDone /\ Ended(q, y)
                    /\ y.iWsHandshakeDone /\ y.told = q.told /\ y.sent = Append(q.sent, Welcome)
                 \/ /\ y.fault = "none" /\ IsMessageComplete(r) /\ protocol = "WS" /\ q.iWsHandshakeDone /\ Ended(q, y)
                    /\ y.iWsHandshakeDone /\ y.told = Append(q.told, ParseFrame(Bytes(b)))
                    /\ y.sent = Append(q.sent, SendProtocolMessage(answer))
<1>1. PICK buffer, m, h, t, s : buffer = q.iBuffer /\ m = q.iMessages /\ h = q.iWsHandshakeDone /\ t = q.told /\ s = q.sent
  OBVIOUS
<1>2. buffer \in Seq(Symbol) /\ m \in Nat /\ IsBool(h) /\ q = Obj(buffer, m, h, t, s, "none")
  BY <1>1 DEF IsObject
<1>3. PICK b : b = Append(buffer, x)
  OBVIOUS
<1>4. b \in Seq(Symbol) /\ Is(b, Append(buffer, x))
  BY <1>2, <1>3 DEF Is
<1>5. PICK r : r = Obj(b, m, h, t, s, "none")
  OBVIOUS
<1>6. r.iBuffer = b /\ r.iWsHandshakeDone = h
  BY <1>5, FieldsAre
<1>7. h \in BOOLEAN /\ IsBool(Yes) /\ <<>> \in Seq(Symbol) /\ m + 1 \in Nat
  BY <1>2 DEF IsBool, Yes
<1>8. \/ y = Obj(b, m, h, t, s, "std::invalid_argument")
      \/ ~IsMessageComplete(r) /\ y = r
      \/ IsMessageComplete(r) /\ protocol # "WS" /\ y = Obj(<<>>, m + 1, h, t, s, "none")
      \/ IsMessageComplete(r) /\ protocol = "WS" /\ h = FALSE /\ y = Obj(<<>>, m + 1, h, t, s, "assert(key.size())")
      \/ /\ IsMessageComplete(r) /\ protocol = "WS" /\ h = FALSE
         /\ y = Obj(<<>>, m + 1, Yes, t, Append(s, Welcome), "none")
      \/ /\ IsMessageComplete(r) /\ protocol = "WS" /\ h = TRUE
         /\ y = Obj(<<>>, m + 1, h, Append(t, ParseFrame(Bytes(b))), Append(s, SendProtocolMessage(answer)), "none")
  <2>1. Outcome(b, m, h, t, s, Obj(b, m, h, t, s, "none"), OnByte(Obj(buffer, m, h, t, s, "none"), x))
    BY <1>2, <1>4, OnByteIs
  <2> QED BY <1>2, <1>5, <2>1 DEF Outcome
<1>9. ASSUME NEW h2, IsBool(h2), NEW t2, NEW s2, NEW f2, y = Obj(<<>>, m + 1, h2, t2, s2, f2)
      PROVE  IsObject(y) /\ Ended(q, y) /\ y.iWsHandshakeDone = h2 /\ y.told = t2 /\ y.sent = s2 /\ y.fault = f2
  <2>1. PICK e, n : e = <<>> /\ n = m + 1
    OBVIOUS
  <2>2. e \in Seq(Symbol) /\ n \in Nat /\ y = Obj(e, n, h2, t2, s2, f2)
    BY <1>7, <1>9, <2>1
  <2>3. IsObject(y) /\ y.iBuffer = e /\ y.iMessages = n /\ y.iWsHandshakeDone = h2 /\ y.told = t2 /\ y.sent = s2 /\ y.fault = f2
    <3>1. IsObject(Obj(e, n, h2, t2, s2, f2))
      BY <1>9, <2>2, ObjectOf
    <3> QED BY <2>2, <3>1, FieldsAre
  <2> QED BY <1>1, <2>1, <2>3 DEF Ended
<1>10. CASE y = Obj(b, m, h, t, s, "std::invalid_argument")
  <2>1. IsObject(y) /\ y.fault = "std::invalid_argument" /\ Kept(q, y, b)
    BY <1>1, <1>2, <1>4, <1>10, ObjectOf, FieldsAre DEF Kept, Same
  <2> QED BY <1>1, <1>3, <1>6, <2>1
<1>11. CASE ~IsMessageComplete(r) /\ y = r
  <2>1. IsObject(y) /\ y.fault = "none" /\ Kept(q, y, b)
    BY <1>1, <1>2, <1>4, <1>5, <1>11, ObjectOf, FieldsAre DEF Kept, Same
  <2> QED BY <1>1, <1>3, <1>6, <1>11, <2>1
<1>12. CASE IsMessageComplete(r) /\ protocol # "WS" /\ y = Obj(<<>>, m + 1, h, t, s, "none")
  <2>1. IsObject(y) /\ Ended(q, y) /\ Same(q, y) /\ y.fault = "none"
    BY <1>1, <1>2, <1>9, <1>12 DEF Same
  <2> QED BY <1>1, <1>3, <1>6, <1>12, <2>1
<1>13. CASE IsMessageComplete(r) /\ protocol = "WS" /\ h = FALSE /\ y = Obj(<<>>, m + 1, h, t, s, "assert(key.size())")
  <2>1. IsObject(y) /\ Ended(q, y) /\ Same(q, y) /\ y.fault = "assert(key.size())"
    BY <1>1, <1>2, <1>9, <1>13 DEF Same
  <2> QED BY <1>1, <1>3, <1>6, <2>1
<1>14. CASE /\ IsMessageComplete(r) /\ protocol = "WS" /\ h = FALSE
            /\ y = Obj(<<>>, m + 1, Yes, t, Append(s, Welcome), "none")
  <2>1. /\ IsObject(y) /\ Ended(q, y) /\ y.fault = "none"
        /\ y.iWsHandshakeDone = Yes /\ y.told = t /\ y.sent = Append(s, Welcome)
    BY <1>7, <1>9, <1>14
  <2>2. y.iWsHandshakeDone /\ y.told = q.told /\ y.sent = Append(q.sent, Welcome) /\ ~q.iWsHandshakeDone
    BY <1>1, <1>14, <2>1 DEF Yes
  <2> QED BY <1>1, <1>3, <1>6, <1>14, <2>1, <2>2
<1>15. CASE /\ IsMessageComplete(r) /\ protocol = "WS" /\ h = TRUE
            /\ y = Obj(<<>>, m + 1, h, Append(t, ParseFrame(Bytes(b))), Append(s, SendProtocolMessage(answer)), "none")
  <2>1. /\ IsObject(y) /\ Ended(q, y) /\ y.fault = "none"
        /\ y.iWsHandshakeDone = h /\ y.told = Append(t, ParseFrame(Bytes(b))) /\ y.sent = Append(s, SendProtocolMessage(answer))
    <3>1. PICK t2, s2 : t2 = Append(t, ParseFrame(Bytes(b))) /\ s2 = Append(s, SendProtocolMessage(answer))
      OBVIOUS
    <3>2. y = Obj(<<>>, m + 1, h, t2, s2, "none")
      BY <1>15, <3>1
    <3>3. IsObject(y) /\ Ended(q, y) /\ y.iWsHandshakeDone = h /\ y.told = t2 /\ y.sent = s2 /\ y.fault = "none"
      BY <1>2, <1>9, <3>2
    <3> QED BY <3>1, <3>3
  <2>2. /\ y.iWsHandshakeDone /\ q.iWsHandshakeDone
        /\ y.told = Append(q.told, ParseFrame(Bytes(b))) /\ y.sent = Append(q.sent, SendProtocolMessage(answer))
    BY <1>1, <1>15, <2>1
  <2> QED BY <1>1, <1>3, <1>6, <1>15, <2>1, <2>2
<1> QED BY <1>8, <1>10, <1>11, <1>12, <1>13, <1>14, <1>15

----------------------------------------------------------------------------
(* The next symbol of the stream *)

\* It belongs to the message after the last one found, or to the rest of its body.
Arrives(m, b, l, a) ==
  /\ m + 1 \in 1..Len(script) /\ End(m) < a /\ (a <= Found(m + 1) \/ Mute(m + 1))
  /\ Pending(b, l, m + 1, a) /\ \A j \in 1..m : ~Mute(j)

Rests(m, b, a) ==
  /\ protocol = "HTTP" /\ m \in 1..Len(script) /\ Found(m) <= a /\ a <= End(m)
  /\ \A j \in 1..Len(b) : b[j].s = "byte"

\* What is pending grows.
LEMMA PendingMore ==
  ASSUME NEW k \in Nat, NEW l \in Nat, NEW b \in Seq(Symbol), NEW a \in Nat, End(k - 1) \in Nat, End(k - 1) <= a,
         Pending(b, l, k, a), Stream[a + 1] \in Symbol
  PROVE  Pending(Append(b, Stream[a + 1]), l, k, a + 1)
<1>0. PICK x \in Symbol : x = Stream[a + 1]
  OBVIOUS
<1>1. PICK e \in Nat : e = End(k - 1)
  OBVIOUS
<1>2. PICK i \in Nat : i = a - e
  BY <1>1
<1>3. PICK c : c = Append(b, x)
  OBVIOUS
<1>4. (a + 1) - e = i + 1 /\ e + (i + 1) = a + 1
  BY <1>1, <1>2
<1>5. /\ Len(b) = l + i /\ \A j \in 1..l : b[j].s = "byte"
      /\ protocol # "HTTP" => l = 0
      /\ \A j \in 1..i : b[l + j] = Stream[e + j]
  BY <1>1, <1>2 DEF Pending
<1>6. Len(c) = l + (i + 1) /\ c[l + (i + 1)] = x /\ \A j \in 1..(l + i) : c[j] = b[j]
  <2>1. Len(b) = l + i /\ l + i \in Nat
    BY <1>1, <1>2, <1>5
  <2> QED BY <1>0, <1>3, <2>1
<1>7. \A j \in 1..l : c[j].s = "byte"
  <2>1. \A j \in 1..l : j \in 1..(l + i)
    BY <1>1, <1>2
  <2> QED BY <1>5, <1>6, <2>1
<1>8. ASSUME NEW j \in 1..(i + 1) PROVE c[l + j] = Stream[e + j]
  <2>1. CASE j = i + 1
    BY <1>0, <1>4, <1>6, <2>1
  <2>2. CASE j # i + 1
    <3>1. j \in 1..i /\ l + j \in 1..(l + i)
      BY <2>2
    <3>2. c[l + j] = b[l + j] /\ b[l + j] = Stream[e + j]
      BY <1>5, <1>6, <3>1
    <3> QED BY <3>2
  <2> QED BY <2>1, <2>2
<1>9. Pending(c, l, k, a + 1)
  BY <1>1, <1>4, <1>5, <1>6, <1>7, <1>8 DEF Pending
<1> QED BY <1>0, <1>3, <1>9

\* The next symbol belongs to the message after the last one found, or to the rest of its body.
LEMMA Arrival ==
  ASSUME SessionOK, NEW q, IsObject(q), NEW a \in Nat, a < Len(Stream), NEW k, Between(q, k, a) \/ Within(q, k, a)
  PROVE  /\ Stream[a + 1] \in Symbol
         /\ \/ \E l \in Nat : Arrives(q.iMessages, Append(q.iBuffer, Stream[a + 1]), l, a + 1)
            \/ Rests(q.iMessages, Append(q.iBuffer, Stream[a + 1]), a + 1)
<1>1. PICK b, m : b = q.iBuffer /\ m = q.iMessages
  OBVIOUS
<1>2. b \in Seq(Symbol) /\ m \in Nat /\ Len(b) \in Nat
  BY <1>1 DEF IsObject
<1>3. PICK x : x = Stream[a + 1]
  OBVIOUS
<1>4. x \in Symbol
  <2>1. Stream \in Seq(Symbol)
    BY Ends
  <2>2. a + 1 \in 1..Len(Stream)
    BY <2>1
  <2> QED BY <1>3, <2>1, <2>2
<1>5. CASE Within(q, k, a)
  <2>1. k \in 1..Len(script) /\ End(k - 1) < a /\ (a < Found(k) \/ Mute(k)) /\ m = k - 1 /\ \A j \in 1..(k - 1) : ~Mute(j)
    BY <1>1, <1>5 DEF Within
  <2>2. PICK l \in Nat : Pending(b, l, k, a)
    BY <1>1, <1>5 DEF Within
  <2>3. End(k - 1) \in Nat /\ Found(k) \in Nat /\ m + 1 = k
    BY <2>1, FoundIs
  <2>4. Pending(Append(b, x), l, k, a + 1)
    <3>1. k \in Nat /\ End(k - 1) <= a
      BY <2>1, <2>3, ScriptIs
    <3>2. Pending(Append(b, Stream[a + 1]), l, k, a + 1)
      BY <1>2, <1>3, <1>4, <2>2, <2>3, <3>1, PendingMore
    <3> QED BY <1>3, <3>2
  <2>5. End(m) < a + 1 /\ (a + 1 <= Found(k) \/ Mute(k))
    BY <2>1, <2>3
  <2>6. Arrives(m, Append(b, x), l, a + 1)
    BY <2>1, <2>3, <2>4, <2>5 DEF Arrives
  <2> QED BY <1>1, <1>3, <1>4, <2>6
<1>6. CASE Between(q, k, a)
  <2>1. /\ k \in 0..Len(script) /\ Found(k) <= a /\ a <= End(k) /\ m = k
        /\ \A j \in 1..Len(b) : b[j].s = "byte"
        /\ protocol # "HTTP" => b = <<>>
        /\ \A j \in 1..k : ~Mute(j)
    BY <1>1, <1>6 DEF Between
  <2>2. Len(script) \in Nat /\ End(k) \in Nat /\ Len(Stream) = End(Len(script)) /\ End(0) = 0
    BY <2>1, ScriptIs, StreamTyped, Ends
  <2>3. CASE a = End(k)
    <3>1. k # Len(script)
      BY <2>2, <2>3
    <3>2. PICK n \in 1..Len(script) : n = k + 1
      BY <2>1, <2>2, <3>1
    <3>3. n - 1 = k /\ End(n - 1) < Found(n) /\ Found(n) \in Nat
      BY <2>1, <2>2, <3>2, FoundIs
    <3>4. PICK l \in Nat : l = Len(b)
      BY <1>2
    <3>5. Pending(b, l, n, a)
      <4>1. a - End(n - 1) = 0
        BY <2>2, <2>3, <3>3
      <4>2. protocol # "HTTP" => l = 0
        BY <2>1, <3>4
      <4>3. Len(b) = l + (a - End(n - 1)) /\ \A j \in 1..l : b[j].s = "byte"
        BY <1>2, <2>1, <3>4, <4>1
      <4>4. \A j \in 1..(a - End(n - 1)) : b[l + j] = Stream[End(n - 1) + j]
        BY <4>1
      <4> QED BY <4>2, <4>3, <4>4 DEF Pending
    <3>6. Pending(Append(b, x), l, n, a + 1)
      <4>1. n \in Nat /\ End(n - 1) \in Nat /\ End(n - 1) <= a
        BY <2>2, <2>3, <3>2, <3>3, ScriptIs
      <4>2. Pending(Append(b, Stream[a + 1]), l, n, a + 1)
        BY <1>2, <1>3, <1>4, <3>5, <4>1, PendingMore
      <4> QED BY <1>3, <4>2
    <3>7. End(m) < a + 1 /\ a + 1 <= Found(n)
      BY <2>1, <2>2, <2>3, <3>3
    <3>8. Arrives(m, Append(b, x), l, a + 1)
      BY <2>1, <3>2, <3>6, <3>7 DEF Arrives
    <3> QED BY <1>1, <1>3, <1>4, <3>8
  <2>4. CASE a < End(k)
    <3>1. k \in 1..Len(script)
      BY <2>1, <2>2, <2>4
    <3>2. /\ End(k - 1) \in Nat /\ Found(k) \in Nat /\ End(k - 1) < Found(k) /\ End(k) = End(k - 1) + Len(Wire(k)) /\ Len(Wire(k)) \in Nat
          /\ protocol # "HTTP" => Found(k) = End(k)
          /\ \A i \in 1..Len(Wire(k)) : End(k - 1) + i > Found(k) => Wire(k)[i].s = "byte"
      BY <3>1, FoundIs
    <3>3. PICK e, w, f : e = End(k - 1) /\ w = Len(Wire(k)) /\ f = Found(k)
      OBVIOUS
    <3>4. e \in Nat /\ w \in Nat /\ f \in Nat /\ e < f /\ f <= a /\ a < e + w /\ End(k) = e + w
      BY <2>1, <2>4, <3>2, <3>3
    <3>5. PICK i \in 1..w : i = a + 1 - e
      BY <3>4
    <3>6. e + i = a + 1 /\ e + i > f /\ Found(k) <= a + 1 /\ a + 1 <= End(k)
      BY SMTT(60), <3>3, <3>4, <3>5
    <3>7. protocol = "HTTP"
      BY <2>1, <2>2, <2>4, <3>2
    <3>8. x.s = "byte"
      <4>1. Stream[e + i] = Wire(k)[i]
        BY <3>1, <3>3, <3>5, StreamSymbol
      <4>2. Wire(k)[i].s = "byte"
        BY <3>2, <3>3, <3>5, <3>6
      <4> QED BY <1>3, <3>6, <4>1, <4>2
    <3>9. PICK c : c = Append(b, x)
      OBVIOUS
    <3>10. \A j \in 1..Len(c) : c[j].s = "byte"
      <4>1. Len(c) = Len(b) + 1 /\ c[Len(b) + 1] = x /\ \A j \in 1..Len(b) : c[j] = b[j]
        BY <1>2, <1>4, <3>9
      <4>2. \A j \in 1..Len(c) : j = Len(b) + 1 \/ j \in 1..Len(b)
        BY <1>2, <4>1
      <4> QED BY <2>1, <3>8, <4>1, <4>2
    <3>11. Rests(m, c, a + 1)
      BY <2>1, <3>1, <3>6, <3>7, <3>10 DEF Rests
    <3> QED BY <1>1, <1>3, <1>4, <3>9, <3>11
  <2> QED BY <2>1, <2>2, <2>3, <2>4
<1> QED BY <1>5, <1>6

\* What was not the end of a message leaves it pending, and the end finds it.
LEMMA Goes ==
  ASSUME SessionOK, NEW m \in Nat, NEW b \in Seq(Symbol), NEW l \in Nat, NEW a \in Nat, a <= Len(Stream),
         Arrives(m, b, l, a), NEW r, r.iBuffer = b, protocol = "WS" => (r.iWsHandshakeDone <=> m >= 1)
  PROVE  /\ ~IsMessageComplete(r) => a < Found(m + 1) \/ Mute(m + 1)
         /\ IsMessageComplete(r) => ~Mute(m + 1) /\ a = Found(m + 1)
         /\ IsMessageComplete(r) /\ protocol = "WS" /\ m >= 1 => ParseFrame(Bytes(b)) = script[m + 1].payload
<1>1. PICK k \in 1..Len(script) : k = m + 1
  BY DEF Arrives
<1>2. k - 1 = m /\ (k >= 2 <=> m >= 1)
  BY <1>1
<1>3. End(k - 1) < a /\ (a <= Found(k) \/ Mute(k)) /\ Pending(b, l, k, a)
  BY <1>1, <1>2 DEF Arrives
<1>4. protocol = "WS" => (r.iWsHandshakeDone <=> k >= 2)
  BY <1>2
<1>5. /\ IsMessageComplete(r) <=> ~Mute(k) /\ a = Found(k)
      /\ protocol = "WS" /\ k >= 2 /\ ~Mute(k) /\ a = Found(k) => ParseFrame(Bytes(b)) = script[k].payload
  BY <1>3, <1>4, Complete
<1>6. Found(k) \in Nat
  BY FoundIs
<1> QED BY <1>1, <1>2, <1>3, <1>5, <1>6

\* In the rest of a body nothing is found.
LEMMA RestsOn ==
  ASSUME NEW m, NEW b \in Seq(Symbol), NEW a, Rests(m, b, a), NEW r, r.iBuffer = b
  PROVE  ~IsMessageComplete(r)
<1>1. protocol = "HTTP" /\ \A j \in 1..Len(b) : b[j].s = "byte"
  BY DEF Rests
<1>2. ~HttpComplete(b)
  BY <1>1, BytesAreNone
<1> QED BY <1>1, <1>2 DEF IsMessageComplete

\* Each symbol keeps the invariant.
LEMMA Step ==
  ASSUME SessionOK, NEW q, IsObject(q), NEW a \in Nat, a < Len(Stream), At(q, a)
  PROVE  IsObject(OnByte(q, Stream[a + 1])) /\ At(OnByte(q, Stream[a + 1]), a + 1)
<1>1. PICK x, y : x = Stream[a + 1] /\ y = OnByte(q, x)
  OBVIOUS
<1>2. CASE q.fault # "none"
  <2>1. y = q
    BY <1>1, <1>2 DEF OnByte
  <2> QED BY <1>1, <1>2, <2>1 DEF At
<1>3. CASE q.fault = "none"
  <2>1. Says(q) /\ \E k : Between(q, k, a) \/ Within(q, k, a)
    BY <1>3 DEF At
  <2>2. PICK m, c : m = q.iMessages /\ c = Append(q.iBuffer, x)
    OBVIOUS
  <2>3. /\ x \in Symbol /\ m \in Nat
        /\ (\E l \in Nat : Arrives(m, c, l, a + 1)) \/ Rests(m, c, a + 1)
    BY <1>1, <2>1, <2>2, Arrival DEF IsObject
  <2>4. c \in Seq(Symbol)
    BY <2>2, <2>3 DEF IsObject
  <2>5. PICK b, r :
          /\ b = Append(q.iBuffer, x) /\ r.iBuffer = b /\ r.iWsHandshakeDone = q.iWsHandshakeDone
          /\ \/ y.fault = "std::invalid_argument" /\ Kept(q, y, b)
             \/ y.fault = "none" /\ ~IsMessageComplete(r) /\ Kept(q, y, b)
             \/ /\ y.fault = "none" /\ IsMessageComplete(r) /\ protocol # "WS" /\ Ended(q, y) /\ Same(q, y)
             \/ y.fault = "assert(key.size())" /\ Ended(q, y) /\ Same(q, y)
             \/ /\ y.fault = "none" /\ IsMessageComplete(r) /\ protocol = "WS" /\ ~q.iWsHandshakeDone /\ Ended(q, y)
                /\ y.iWsHandshakeDone /\ y.told = q.told /\ y.sent = Append(q.sent, Welcome)
             \/ /\ y.fault = "none" /\ IsMessageComplete(r) /\ protocol = "WS" /\ q.iWsHandshakeDone /\ Ended(q, y)
                /\ y.iWsHandshakeDone /\ y.told = Append(q.told, ParseFrame(Bytes(b)))
                /\ y.sent = Append(q.sent, SendProtocolMessage(answer))
    BY SMTT(60), <1>1, <1>3, <2>3, OnByteDoes
  <2>6. IsObject(y)
    BY <1>1, <1>3, <2>3, OnByteDoes
  <2>7. ASSUME y.fault = "none" PROVE Says(y) /\ \E k : Between(y, k, a + 1) \/ Within(y, k, a + 1)
    <3>1. b = c /\ r.iBuffer = c
      BY <2>2, <2>5
    <3>2. protocol = "WS" => (r.iWsHandshakeDone <=> m >= 1)
      BY <2>1, <2>2, <2>5 DEF Says
    <3>3. a + 1 \in Nat /\ a + 1 <= Len(Stream)
      <4>1. Len(Stream) \in Nat
        BY Ends
      <4> QED BY <4>1
    <3>4. ASSUME Rests(m, c, a + 1) PROVE Says(y) /\ Between(y, m, a + 1)
      <4>1. ~IsMessageComplete(r)
        BY <2>4, <3>1, <3>4, RestsOn
      <4>2. Kept(q, y, c)
        BY <2>5, <2>7, <3>1, <4>1
      <4>3. y.iBuffer = c /\ y.iMessages = m
        BY <2>2, <4>2 DEF Kept
      <4>4. /\ protocol = "HTTP" /\ m \in 0..Len(script) /\ Found(m) <= a + 1 /\ a + 1 <= End(m)
            /\ \A j \in 1..Len(c) : c[j].s = "byte"
        BY <3>4 DEF Rests
      <4>5. \A j \in 1..m : ~Mute(j)
        BY <4>4 DEF Mute
      <4> QED BY <4>3, <4>4, <4>5 DEF Says, Between
    <3>5. ASSUME NEW l \in Nat, Arrives(m, c, l, a + 1)
          PROVE  Says(y) /\ (Between(y, m + 1, a + 1) \/ Within(y, m + 1, a + 1))
      <4>1. /\ ~IsMessageComplete(r) => a + 1 < Found(m + 1) \/ Mute(m + 1)
            /\ IsMessageComplete(r) => ~Mute(m + 1) /\ a + 1 = Found(m + 1)
            /\ IsMessageComplete(r) /\ protocol = "WS" /\ m >= 1 => ParseFrame(Bytes(c)) = script[m + 1].payload
        BY <2>3, <2>4, <3>1, <3>2, <3>3, <3>5, Goes
      <4>2. PICK k \in 1..Len(script) : k = m + 1
        BY <3>5 DEF Arrives
      <4>3. k - 1 = m /\ End(m) < a + 1 /\ Pending(c, l, k, a + 1) /\ \A j \in 1..m : ~Mute(j)
        BY <2>3, <3>5, <4>2 DEF Arrives
      <4>4. CASE ~IsMessageComplete(r)
        <5>1. Kept(q, y, c)
          BY <2>5, <2>7, <3>1, <4>4
        <5>2. y.iBuffer = c /\ y.iMessages = m /\ Same(q, y)
          BY <2>2, <5>1 DEF Kept
        <5>3. Says(y)
          BY <2>1, <2>2, <5>2 DEF Says, Same
        <5>4. Within(y, k, a + 1)
          BY <4>1, <4>2, <4>3, <4>4, <5>2 DEF Within
        <5> QED BY <4>2, <5>3, <5>4
      <4>5. CASE IsMessageComplete(r)
        <5>1. Ended(q, y)
          BY <2>5, <2>7, <4>5
        <5>2. y.iBuffer = <<>> /\ y.iMessages = k
          BY <2>2, <4>2, <5>1 DEF Ended
        <5>3. ~Mute(k) /\ a + 1 = Found(k) /\ Found(k) <= End(k)
          BY <4>1, <4>2, <4>5, FoundIs
        <5>4. \A j \in 1..k : ~Mute(j)
          <6>1. \A j \in 1..k : j \in 1..m \/ j = k
            BY <4>2, <4>3
          <6> QED BY <4>3, <5>3, <6>1
        <5>5. Between(y, k, a + 1)
          BY <4>2, <5>2, <5>3, <5>4 DEF Between
        <5>6. Says(y)
          <6>1. CASE protocol # "WS"
            BY <6>1 DEF Says
          <6>2. CASE protocol = "WS" /\ ~q.iWsHandshakeDone
            <7>1. y.iWsHandshakeDone /\ y.told = q.told /\ y.sent = Append(q.sent, Welcome)
              BY <2>5, <2>7, <4>5, <6>2
            <7>2. m = 0 /\ q.told = Said(0) /\ q.sent = Answered(0)
              BY <2>1, <2>2, <2>3, <6>2 DEF Says
            <7>3. y.told = Said(1) /\ y.sent = Answered(1) /\ k = 1
              BY <4>2, <7>1, <7>2, SaidMore
            <7> QED BY <5>2, <7>1, <7>3 DEF Says
          <6>3. CASE protocol = "WS" /\ q.iWsHandshakeDone
            <7>1. /\ y.iWsHandshakeDone /\ y.told = Append(q.told, ParseFrame(Bytes(c)))
                  /\ y.sent = Append(q.sent, SendProtocolMessage(answer))
              BY <2>5, <2>7, <3>1, <4>5, <6>3
            <7>2. m >= 1 /\ q.told = Said(m) /\ q.sent = Answered(m)
              BY <2>1, <2>2, <6>3 DEF Says
            <7>3. ParseFrame(Bytes(c)) = script[m + 1].payload
              BY <4>1, <4>5, <6>3, <7>2
            <7>4. y.told = Said(k) /\ y.sent = Answered(k) /\ k >= 1
              <8>1. y.told = Append(Said(m), script[m + 1].payload) /\ y.sent = Append(Answered(m), SendProtocolMessage(answer))
                BY <7>1, <7>2, <7>3
              <8>2. /\ Append(Said(m), script[m + 1].payload) = Said(m + 1)
                    /\ Append(Answered(m), SendProtocolMessage(answer)) = Answered(m + 1)
                BY <2>3, <7>2, SaidMore
              <8> QED BY <4>2, <7>2, <8>1, <8>2
            <7> QED BY <5>2, <7>1, <7>4 DEF Says
          <6> QED BY <6>1, <6>2, <6>3
        <5> QED BY <4>2, <5>5, <5>6
      <4> QED BY <4>4, <4>5
    <3> QED BY <2>3, <3>4, <3>5
  <2> QED BY <1>1, <2>6, <2>7 DEF At
<1> QED BY <1>2, <1>3

----------------------------------------------------------------------------
(* The invariant of the specification *)

\* What is handed to the socket.
Sendable == {Welcome} \union Seq(Byte)

\* What has been sent, and how much was read for it.
Typed(q, a) ==
  /\ q.iMessages <= a /\ Len(q.iBuffer) <= a
  /\ q.sent \in Seq(Sendable) /\ \A i \in 2..Len(q.sent) : q.sent[i] \in Seq(Byte)
  /\ q.iWsHandshakeDone => Len(q.sent) >= 1
  /\ ~q.iWsHandshakeDone => Len(q.sent) = 0
  /\ q.fault \in {"none", "std::invalid_argument", "assert(key.size())"}

\* Each symbol keeps the types.
LEMMA TypedStep ==
  ASSUME SessionOK, NEW q, IsObject(q), NEW a \in Nat, Typed(q, a), NEW x \in Symbol
  PROVE  Typed(OnByte(q, x), a + 1)
<1>1. PICK y : y = OnByte(q, x)
  OBVIOUS
<1>2. q.iBuffer \in Seq(Symbol) /\ q.iMessages \in Nat
  BY DEF IsObject
<1>3. CASE q.fault # "none"
  <2>1. y = q
    BY <1>1, <1>3 DEF OnByte
  <2> QED BY <1>1, <1>2, <2>1 DEF Typed
<1>4. CASE q.fault = "none"
  <2>1. PICK b, r :
          /\ b = Append(q.iBuffer, x) /\ r.iBuffer = b /\ r.iWsHandshakeDone = q.iWsHandshakeDone
          /\ \/ y.fault = "std::invalid_argument" /\ Kept(q, y, b)
             \/ y.fault = "none" /\ ~IsMessageComplete(r) /\ Kept(q, y, b)
             \/ /\ y.fault = "none" /\ IsMessageComplete(r) /\ protocol # "WS" /\ Ended(q, y) /\ Same(q, y)
             \/ y.fault = "assert(key.size())" /\ Ended(q, y) /\ Same(q, y)
             \/ /\ y.fault = "none" /\ IsMessageComplete(r) /\ protocol = "WS" /\ ~q.iWsHandshakeDone /\ Ended(q, y)
                /\ y.iWsHandshakeDone /\ y.told = q.told /\ y.sent = Append(q.sent, Welcome)
             \/ /\ y.fault = "none" /\ IsMessageComplete(r) /\ protocol = "WS" /\ q.iWsHandshakeDone /\ Ended(q, y)
                /\ y.iWsHandshakeDone /\ y.told = Append(q.told, ParseFrame(Bytes(b)))
                /\ y.sent = Append(q.sent, SendProtocolMessage(answer))
    BY <1>1, <1>4, OnByteDoes
  <2>2. y.fault \in {"none", "std::invalid_argument", "assert(key.size())"}
    BY <2>1
  <2>3. Len(b) = Len(q.iBuffer) + 1 /\ Len(<<>>) = 0 /\ Len(q.iBuffer) \in Nat
    BY <1>2, <2>1
  <2>4. y.iMessages <= a + 1 /\ Len(y.iBuffer) <= a + 1
    <3>1. CASE Kept(q, y, b)
      BY <1>2, <2>3, <3>1 DEF Kept, Typed
    <3>2. CASE Ended(q, y)
      BY <1>2, <2>3, <3>2 DEF Ended, Typed
    <3> QED BY <2>1, <3>1, <3>2
  <2>5. /\ y.sent \in Seq(Sendable) /\ \A i \in 2..Len(y.sent) : y.sent[i] \in Seq(Byte)
        /\ y.iWsHandshakeDone => Len(y.sent) >= 1
        /\ ~y.iWsHandshakeDone => Len(y.sent) = 0
    <3>1. CASE Same(q, y)
      BY <3>1 DEF Same, Typed
    <3>2. ASSUME NEW z \in Sendable, y.sent = Append(q.sent, z), y.iWsHandshakeDone, Len(q.sent) = 0 \/ z \in Seq(Byte)
          PROVE  /\ y.sent \in Seq(Sendable) /\ \A i \in 2..Len(y.sent) : y.sent[i] \in Seq(Byte)
                 /\ y.iWsHandshakeDone => Len(y.sent) >= 1
                 /\ ~y.iWsHandshakeDone => Len(y.sent) = 0
      <4>1. PICK s, t : s = q.sent /\ t = y.sent
        OBVIOUS
      <4>2. s \in Seq(Sendable) /\ (\A i \in 2..Len(s) : s[i] \in Seq(Byte)) /\ t = Append(s, z)
        BY <3>2, <4>1 DEF Typed
      <4>3. t \in Seq(Sendable) /\ Len(s) \in Nat /\ Len(t) = Len(s) + 1 /\ t[Len(s) + 1] = z /\ \A i \in 1..Len(s) : t[i] = s[i]
        BY <4>2
      <4>4. ASSUME NEW i \in 2..Len(t) PROVE t[i] \in Seq(Byte)
        <5>1. CASE i = Len(s) + 1
          BY <3>2, <4>1, <4>3, <5>1
        <5>2. CASE i # Len(s) + 1
          <6>1. i \in 2..Len(s) /\ i \in 1..Len(s)
            BY <4>3, <5>2
          <6> QED BY <4>2, <4>3, <6>1
        <5> QED BY <5>1, <5>2
      <4> QED BY <3>2, <4>1, <4>3, <4>4
    <3>3. CASE ~q.iWsHandshakeDone /\ y.iWsHandshakeDone /\ y.sent = Append(q.sent, Welcome)
      <4>1. Welcome \in Sendable /\ Len(q.sent) = 0
        BY <3>3 DEF Sendable, Typed
      <4> QED BY <3>2, <3>3, <4>1
    <3>4. CASE y.iWsHandshakeDone /\ y.sent = Append(q.sent, SendProtocolMessage(answer))
      <4>1. SendProtocolMessage(answer) \in Seq(Byte)
        BY AnswersAssumption, AnswerSays DEF SessionOK
      <4>2. SendProtocolMessage(answer) \in Sendable
        BY <4>1 DEF Sendable
      <4> QED BY <3>2, <3>4, <4>1, <4>2
    <3> QED BY <2>1, <3>1, <3>3, <3>4 DEF Kept
  <2> QED BY <1>1, <2>2, <2>4, <2>5 DEF Typed
<1> QED BY <1>3, <1>4

\* The inductive invariant.
Inv ==
  /\ SessionOK /\ at \in 0..Len(Stream)
  /\ IsObject(p) /\ At(p, at) /\ Typed(p, at)

\* A read keeps the invariant, by induction over its symbols.
LEMMA ReadKeeps ==
  ASSUME SessionOK, NEW q, NEW a \in Nat, NEW n \in Nat, a + n <= Len(Stream),
         IsObject(q), At(q, a), Typed(q, a)
  PROVE  LET o == OnRead(q, SubSeq(Stream, a + 1, a + n))
         IN IsObject(o) /\ At(o, a + n) /\ Typed(o, a + n)
<1>1. PICK b : b = SubSeq(Stream, a + 1, a + n)
  OBVIOUS
<1>2. Stream \in Seq(Symbol) /\ Len(Stream) \in Nat
  BY Ends
<1>3. Len(b) = n /\ \A i \in 1..n : b[i] = Stream[a + i] /\ Stream[a + i] \in Symbol
  <2>1. PICK w \in Seq(Symbol) : w = Stream
    BY <1>2
  <2>2. PICK c \in Nat, d \in Nat : c = a + 1 /\ d = a + n
    OBVIOUS
  <2>3. \A i \in c..d : w[i] \in Symbol
    BY <1>2, <2>1, <2>2
  <2>4. (d - c) + 1 = n /\ (c <= d \/ n = 0) /\ (c <= d => n >= 1)
    BY <2>2
  <2>5. Len(b) = n
    BY <1>1, <2>1, <2>2, <2>3, <2>4, SubSeqProperties
  <2>6. \A i \in 1..n : b[i] = w[c + i - 1]
    BY <1>1, <2>1, <2>2, <2>3, <2>4, SubSeqProperties
  <2>7. \A i \in 1..n : b[i] = w[a + i] /\ a + i \in 1..Len(w)
    <3>1. \A i \in 1..n : c + i - 1 = a + i /\ a + i \in 1..Len(w)
      BY <1>2, <2>1, <2>2
    <3> QED BY <2>6, <3>1
  <2> QED BY <2>1, <2>5, <2>7
<1>4. PICK f : IsAfter(f, q, b, n) /\ OnRead(q, b) = f[n]
  BY <1>3, OnReadSteps
<1>5. f[0] = q /\ \A i \in 1..n : f[i] = OnByte(f[i - 1], b[i])
  BY <1>4 DEF IsAfter
<1> DEFINE S == {i \in Nat : i <= n => IsObject(f[i]) /\ At(f[i], a + i) /\ Typed(f[i], a + i)}
<1>6. 0 \in S
  BY <1>5
<1>7. ASSUME NEW i \in Nat, i \in S PROVE i + 1 \in S
  <2>1. CASE i + 1 <= n
    <3>1. PICK g : g = f[i]
      OBVIOUS
    <3>2. IsObject(g) /\ At(g, a + i) /\ Typed(g, a + i)
      BY <1>7, <2>1, <3>1
    <3>3. PICK c \in Nat : c = a + i
      OBVIOUS
    <3>4. c < Len(Stream) /\ a + (i + 1) = c + 1 /\ i + 1 \in 1..n /\ (i + 1) - 1 = i
      BY <1>2, <2>1, <3>3
    <3>5. f[i + 1] = OnByte(g, Stream[c + 1]) /\ Stream[c + 1] \in Symbol
      BY ZenonT(60), <1>3, <1>5, <3>1, <3>4
    <3>6. IsObject(OnByte(g, Stream[c + 1])) /\ At(OnByte(g, Stream[c + 1]), c + 1)
      BY <3>2, <3>3, <3>4, Step
    <3>7. Typed(OnByte(g, Stream[c + 1]), c + 1)
      BY <3>2, <3>3, <3>5, TypedStep
    <3> QED BY <3>4, <3>5, <3>6, <3>7
  <2> QED BY <2>1
<1> HIDE DEF S
<1>8. n \in S
  BY <1>6, <1>7, Induction
<1>9. IsObject(f[n]) /\ At(f[n], a + n) /\ Typed(f[n], a + n)
  BY <1>8 DEF S
<1> QED BY <1>1, <1>4, <1>9

\* The session never changes.
LEMMA SameStream ==
  ASSUME UNCHANGED <<protocol, script, answer>>
  PROVE  StreamTo' = StreamTo
BY Zenon DEF StreamTo

\* So what is said of it does not change either.
LEMMA SameSession ==
  ASSUME UNCHANGED <<protocol, script, answer>>
  PROVE  /\ SessionOK' <=> SessionOK
         /\ Stream' = Stream
         /\ \A q, a : At(q, a)' <=> At(q, a)
<1>1. protocol' = protocol /\ script' = script /\ answer' = answer /\ StreamTo' = StreamTo
  BY SameStream
<1>2. SessionOK' <=> SessionOK
  BY <1>1 DEF SessionOK
<1>3. Stream' = Stream
  BY <1>1 DEF Stream
<1>4. ASSUME NEW k PROVE End(k)' = End(k) /\ (Mute(k)' <=> Mute(k)) /\ Wire(k)' = Wire(k)
  BY <1>1 DEF End, Mute, Wire
<1>5. ASSUME NEW k PROVE Found(k)' = Found(k)
  <2>1. End(k - 1)' = End(k - 1) /\ Wire(k)' = Wire(k)
    BY <1>4
  <2> QED BY <1>1, <2>1 DEF Found
<1>6. ASSUME NEW b, NEW l, NEW k, NEW a PROVE Pending(b, l, k, a)' <=> Pending(b, l, k, a)
  <2>1. End(k - 1)' = End(k - 1)
    BY <1>4
  <2> QED BY <1>1, <1>3, <2>1 DEF Pending
<1>7. ASSUME NEW q, NEW k, NEW a PROVE Between(q, k, a)' <=> Between(q, k, a)
  BY <1>1, <1>4, <1>5 DEF Between
<1>8. ASSUME NEW q, NEW k, NEW a PROVE Within(q, k, a)' <=> Within(q, k, a)
  <2>1. End(k - 1)' = End(k - 1)
    BY <1>4
  <2> QED BY <1>1, <1>4, <1>5, <1>6, <2>1 DEF Within
<1>9. ASSUME NEW q PROVE Says(q)' <=> Says(q)
  <2>1. \A m : Said(m)' = Said(m)
    BY <1>1 DEF Said
  <2>2. \A m : Answered(m)' = Answered(m)
    BY <1>1 DEF Answered, SendProtocolMessage, Welcome
  <2> QED BY <1>1, <2>1, <2>2 DEF Says
<1>10. ASSUME NEW q, NEW a PROVE At(q, a)' <=> At(q, a)
  BY <1>7, <1>8, <1>9 DEF At
<1> QED BY <1>2, <1>3, <1>10

\* Where the object stands in the stream, whatever the reads were.
THEOREM Inductive == Spec => []Inv
<1>1. Init => Inv
  <2>1. SUFFICES ASSUME Init PROVE Inv
    OBVIOUS
  <2>2. SessionOK /\ at = 0
    BY <2>1 DEF Init, SessionOK
  <2>3. p = Obj(<<>>, 0, FALSE, <<>>, <<>>, "none") /\ IsBool(FALSE)
    BY <2>1 DEF Init, Obj, IsBool
  <2>4. /\ p.iBuffer = <<>> /\ p.iMessages = 0 /\ p.iWsHandshakeDone = FALSE /\ p.told = <<>> /\ p.sent = <<>>
        /\ p.fault = "none"
    BY <2>3 DEF Obj
  <2>5. IsObject(p)
    <3>1. p = Obj(p.iBuffer, p.iMessages, p.iWsHandshakeDone, p.told, p.sent, p.fault)
      BY <2>1 DEF Init, Obj
    <3>2. p.iBuffer \in Seq(Symbol) /\ p.iMessages \in Nat
      BY <2>4
    <3>3. IsBool(p.iWsHandshakeDone)
      BY <2>3, <2>4
    <3> QED BY <3>1, <3>2, <3>3 DEF IsObject
  <2>6. at \in 0..Len(Stream)
    BY <2>2, Ends
  <2>7. Between(p, 0, at)
    <3>1. Found(0) = 0 /\ End(0) = 0 /\ 0 \in 0..Len(script)
      BY <2>2, Ends, ScriptIs DEF Found
    <3> QED BY <2>2, <2>4, <3>1 DEF Between
  <2>8. Says(p)
    BY <2>4, SaidMore DEF Says
  <2>9. Typed(p, at)
    BY <2>2, <2>4 DEF Typed
  <2> QED BY <2>2, <2>5, <2>6, <2>7, <2>8, <2>9 DEF Inv, At
<1>2. Inv /\ [Next]_vars => Inv'
  <2>1. SUFFICES ASSUME Inv, [Next]_vars PROVE Inv'
    OBVIOUS
  <2>2. CASE Next
    <3>1. PICK n \in 1..MaxChunk :
            at + n <= Len(Stream) /\ at' = at + n /\ p' = OnRead(p, SubSeq(Stream, at + 1, at + n))
      BY <2>2 DEF Next, Read
    <3>2. UNCHANGED <<protocol, script, answer>>
      BY <2>2 DEF Next, Read
    <3>3. SessionOK /\ at \in Nat /\ n \in Nat /\ Len(Stream) \in Nat /\ IsObject(p) /\ At(p, at) /\ Typed(p, at)
      BY <2>1, BoundAssumption, Ends DEF Inv
    <3>4. PICK o : o = OnRead(p, SubSeq(Stream, at + 1, at + n))
      OBVIOUS
    <3>5. IsObject(o) /\ At(o, at + n) /\ Typed(o, at + n)
      BY <3>1, <3>3, <3>4, ReadKeeps
    <3>6. p' = o /\ at' = at + n /\ at' \in 0..Len(Stream)
      BY <3>1, <3>3, <3>4
    <3>7. (SessionOK' <=> SessionOK) /\ Stream' = Stream /\ \A q, a : At(q, a)' <=> At(q, a)
      BY <3>2, SameSession
    <3>8. SessionOK' /\ at' \in 0..Len(Stream')
      BY <3>3, <3>6, <3>7
    <3>9. IsObject(p)'
      BY <3>5, <3>6 DEF IsObject
    <3>10. At(p, at)'
      BY <3>5, <3>6, <3>7
    <3>11. Typed(p, at)'
      BY <3>5, <3>6 DEF Typed
    <3> QED BY <3>8, <3>9, <3>10, <3>11 DEF Inv
  <2>3. CASE UNCHANGED vars
    <3>1. p' = p /\ at' = at /\ UNCHANGED <<protocol, script, answer>>
      BY <2>3 DEF vars
    <3>2. (SessionOK' <=> SessionOK) /\ Stream' = Stream /\ \A q, a : At(q, a)' <=> At(q, a)
      BY <3>1, SameSession
    <3>3. SessionOK /\ at \in 0..Len(Stream) /\ IsObject(p) /\ At(p, at) /\ Typed(p, at)
      BY <2>1 DEF Inv
    <3>4. IsObject(p)' /\ Typed(p, at)'
      BY <3>1, <3>3 DEF IsObject, Typed
    <3>5. At(p, at)'
      BY <3>1, <3>2, <3>3
    <3> QED BY <3>1, <3>2, <3>3, <3>4, <3>5 DEF Inv
  <2> QED BY <2>1, <2>2, <2>3
<1> QED BY <1>1, <1>2, PTL DEF Spec

\* The protocol's state is well typed, in every state, and what it sends is bytes.
THEOREM TypeCorrect == Spec => []TypeOK
<1>1. Inv => TypeOK
  <2>1. SUFFICES ASSUME Inv PROVE TypeOK
    OBVIOUS
  <2>2. at \in 0..Len(Stream) /\ p.iMessages \in Nat /\ p.iWsHandshakeDone \in BOOLEAN /\ Len(Stream) \in Nat
    BY <2>1, Ends DEF Inv, IsObject, IsBool
  <2>3. /\ p.iMessages <= at /\ Len(p.iBuffer) <= at /\ \A i \in 2..Len(p.sent) : p.sent[i] \in Seq(Byte)
        /\ p.fault \in {"none", "std::invalid_argument", "assert(key.size())"}
    BY <2>1 DEF Inv, Typed
  <2>4. p.iMessages \in 0..at
    BY <2>2, <2>3
  <2> QED BY <2>2, <2>3, <2>4 DEF TypeOK
<1> QED BY <1>1, Inductive, PTL

----------------------------------------------------------------------------
(* What the invariant says of the messages *)

DeliveredSet == {k \in DOMAIN script : IsUsable(k) /\ End(k) <= at}
BegunSet     == {k \in DOMAIN script : IsUsable(k) /\ End(k - 1) < at}

\* The messages found are the first ones: among them all that have come whole,
\* and all of them have begun.
LEMMA FoundAre ==
  ASSUME Inv, p.fault = "none"
  PROVE  /\ DeliveredSet \subseteq 1..p.iMessages /\ 1..p.iMessages \subseteq BegunSet
         /\ protocol # "HTTP" => 1..p.iMessages \subseteq DeliveredSet
<1>1. SessionOK /\ at \in Nat /\ IsObject(p) /\ At(p, at)
  <2>1. Len(Stream) \in Nat
    BY Ends DEF Inv
  <2> QED BY <2>1 DEF Inv
<1>2. PICK m : m = p.iMessages
  OBVIOUS
<1>3. m \in Nat /\ Len(script) \in Nat /\ DOMAIN script = 1..Len(script)
  BY <1>1, <1>2, ScriptIs DEF IsObject
<1>4. PICK k : Between(p, k, at) \/ Within(p, k, at)
  BY <1>1 DEF At
<1>5. /\ m \in 0..Len(script) /\ \A j \in 1..m : ~Mute(j)
      /\ m >= 1 => End(m - 1) < at
      /\ m >= 1 /\ protocol # "HTTP" => End(m) <= at
      /\ \/ at <= End(m)
         \/ m + 1 \in 1..Len(script) /\ End(m) < at /\ at < End(m + 1)
         \/ m + 1 \in 1..Len(script) /\ End(m) < at /\ Mute(m + 1)
  <2>1. CASE Between(p, k, at)
    <3>1. m \in 0..Len(script) /\ Found(m) <= at /\ at <= End(m) /\ \A j \in 1..m : ~Mute(j)
      BY <1>2, <2>1 DEF Between
    <3>2. ASSUME m >= 1 PROVE End(m - 1) < at /\ (protocol # "HTTP" => End(m) <= at)
      <4>1. m \in 1..Len(script)
        BY <3>1, <3>2
      <4>2. End(m - 1) \in Nat /\ Found(m) \in Nat /\ End(m - 1) < Found(m) /\ (protocol # "HTTP" => Found(m) = End(m))
        BY <1>1, <4>1, FoundIs
      <4> QED BY <1>1, <3>1, <4>2
    <3> QED BY <3>1, <3>2
  <2>2. CASE Within(p, k, at)
    <3>1. /\ k \in 1..Len(script) /\ End(k - 1) < at /\ (at < Found(k) \/ Mute(k)) /\ m = k - 1
          /\ \A j \in 1..(k - 1) : ~Mute(j)
      BY <1>2, <2>2 DEF Within
    <3>2. m + 1 = k /\ m \in 0..Len(script) /\ m + 1 \in 1..Len(script) /\ End(m) < at
      BY <1>3, <3>1
    <3>3. Found(k) \in Nat /\ End(k) \in Nat /\ Found(k) <= End(k)
      BY <1>1, <3>1, FoundIs
    <3>4. at < End(m + 1) \/ Mute(m + 1)
      BY <1>1, <3>1, <3>2, <3>3
    <3>5. End(m) \in Nat
      BY <1>1, <3>2, StreamTyped
    <3>6. ASSUME m >= 1 PROVE End(m - 1) < at
      <4>1. m - 1 \in 0..Len(script) /\ m \in (m - 1)..Len(script)
        BY <1>3, <3>2, <3>6
      <4>2. End(m - 1) \in Nat /\ End(m - 1) <= End(m)
        BY <1>1, <4>1, StreamGrows, StreamTyped
      <4> QED BY <1>1, <3>2, <3>5, <4>2
    <3> QED BY <1>1, <3>1, <3>2, <3>4, <3>5, <3>6
  <2> QED BY <1>4, <2>1, <2>2
<1>6. \A j \in 1..Len(script) : IsUsable(j) <=> \A i \in 1..j : ~Mute(i)
  <2>1. ASSUME NEW j \in 1..Len(script) PROVE IsUsable(j) <=> \A i \in 2..j : ~Mute(i)
    BY DEF IsUsable, Mute
  <2>2. ~Mute(1)
    BY DEF Mute
  <2>3. \A j \in 1..Len(script) : \A i \in 1..j : i = 1 \/ i \in 2..j
    BY <1>3
  <2>4. \A j \in 1..Len(script) : \A i \in 2..j : i \in 1..j
    BY <1>3
  <2> QED BY <2>1, <2>2, <2>3, <2>4
<1>7. ASSUME NEW i \in 0..Len(script), NEW j \in 0..Len(script), i <= j
      PROVE  End(i) \in Nat /\ End(j) \in Nat /\ End(i) <= End(j) /\ (i < j => End(i) < End(j))
  <2>1. j \in i..Len(script)
    BY <1>3, <1>7
  <2> QED BY <1>1, <2>1, StreamGrows, StreamTyped
<1>8. ASSUME NEW j \in 1..Len(script), IsUsable(j), End(j) <= at PROVE j \in 1..m
  <2>1. SUFFICES ASSUME m < j PROVE FALSE
    BY <1>3
  <2>2. End(m) \in Nat /\ End(j) \in Nat /\ End(m) < End(j)
    BY <1>3, <1>5, <1>7, <2>1
  <2>3. ASSUME m + 1 \in 1..Len(script) PROVE End(m + 1) <= End(j) /\ End(m + 1) \in Nat /\ m + 1 \in 1..j
    BY <1>3, <1>7, <2>1, <2>3
  <2>4. ~Mute(m + 1) \/ m + 1 \notin 1..Len(script)
    BY <1>6, <1>8, <2>3
  <2> QED BY <1>1, <1>5, <1>8, <2>2, <2>3, <2>4
<1>9. ASSUME NEW j \in 1..m
      PROVE  j \in 1..Len(script) /\ IsUsable(j) /\ End(j - 1) < at /\ (protocol # "HTTP" => End(j) <= at)
  <2>1. j \in 1..Len(script) /\ m >= 1 /\ \A i \in 1..j : i \in 1..m
    BY <1>3, <1>5
  <2>2. IsUsable(j)
    BY <1>5, <1>6, <2>1
  <2>3. End(j - 1) \in Nat /\ End(m - 1) \in Nat /\ End(j - 1) <= End(m - 1)
    <3>1. j - 1 \in 0..Len(script) /\ m - 1 \in 0..Len(script) /\ j - 1 <= m - 1
      BY <1>3, <1>5, <2>1
    <3> QED BY <1>7, <3>1
  <2>4. End(j) \in Nat /\ End(m) \in Nat /\ End(j) <= End(m)
    <3>1. j \in 0..Len(script) /\ m \in 0..Len(script) /\ j <= m
      BY <1>3, <1>5, <2>1
    <3> QED BY <1>7, <3>1
  <2> QED BY <1>1, <1>5, <2>1, <2>2, <2>3, <2>4
<1> QED BY <1>2, <1>3, <1>8, <1>9 DEF DeliveredSet, BegunSet

\* So their number is between the number delivered and the number begun.
LEMMA CountsAre ==
  ASSUME Inv, p.fault = "none"
  PROVE  Delivered <= p.iMessages /\ p.iMessages <= Begun /\ (protocol # "HTTP" => Delivered = p.iMessages)
<1>1. PICK m \in Nat : m = p.iMessages
  BY DEF Inv, IsObject
<1>2. Delivered = Cardinality(DeliveredSet) /\ Begun = Cardinality(BegunSet)
  BY DEF Delivered, Begun, Count, DeliveredSet, BegunSet
<1>3. PICK n \in Nat : n = Len(script) /\ DOMAIN script = 1..n
  BY ScriptIs DEF Inv
<1>4. IsFiniteSet(1..m) /\ Cardinality(1..m) = m /\ IsFiniteSet(1..n)
  <2>1. \A i \in Nat : IsFiniteSet(1..i) /\ Cardinality(1..i) = i
    BY FS_Interval
  <2> QED BY <2>1
<1>5. DeliveredSet \subseteq 1..m /\ 1..m \subseteq BegunSet /\ BegunSet \subseteq 1..n
  BY <1>1, <1>3, FoundAre DEF BegunSet
<1>6. IsFiniteSet(DeliveredSet) /\ Cardinality(DeliveredSet) <= m
  BY <1>4, <1>5, FS_Subset
<1>7. IsFiniteSet(BegunSet)
  BY <1>4, <1>5, FS_Subset
<1>8. m <= Cardinality(BegunSet)
  BY <1>4, <1>5, <1>7, FS_Subset
<1>9. protocol # "HTTP" => DeliveredSet = 1..m
  BY <1>1, <1>5, FoundAre
<1> QED BY <1>1, <1>2, <1>4, <1>6, <1>8, <1>9

\* However the stream is cut into reads, each message is found once: none
\* before it began, and each by the time its last byte is read.
THEOREM MessagesAreFound == Spec => []EachMessageOnce
<1>1. Inv => EachMessageOnce
  BY CountsAre DEF EachMessageOnce
<1> QED BY <1>1, Inductive, PTL

\* The callback is told the payloads the peer framed and masked, in their order.
THEOREM CallbackHears == Spec => []ToldIsSent
<1>1. Inv => ToldIsSent
  <2>1. SUFFICES ASSUME Inv, protocol = "WS", p.fault = "none"
                 PROVE  p.told = [k \in 1..(IF Delivered = 0 THEN 0 ELSE Delivered - 1) |-> script[k + 1].payload]
    BY DEF ToldIsSent
  <2>2. Delivered = p.iMessages
    BY <2>1, CountsAre
  <2>3. p.told = Said(p.iMessages)
    BY <2>1 DEF Inv, At, Says
  <2> QED BY <2>2, <2>3 DEF Said
<1> QED BY <1>1, Inductive, PTL

\* The hello is answered first and once, and each message after it with a
\* frame that the peer's rules decode to what the application sent.
THEOREM AnswersAreRead == Spec => []AnswersDecode
<1>1. Inv => AnswersDecode
  <2>1. SUFFICES ASSUME Inv, protocol = "WS", p.fault = "none"
                 PROVE  /\ Len(p.sent) = p.iMessages
                        /\ \A i \in DOMAIN p.sent :
                             IF i = 1 THEN p.sent[i] = <<"101 Switching Protocols">> ELSE SaysText(p.sent[i], answer)
    BY DEF AnswersDecode
  <2>2. p.sent = Answered(p.iMessages)
    BY <2>1 DEF Inv, At, Says
  <2>3. PICK m \in Nat : m = p.iMessages
    BY <2>1 DEF Inv, IsObject
  <2>4. SaysText(SendProtocolMessage(answer), answer)
    BY <2>1, AnswersAssumption, AnswerSays DEF Inv, SessionOK
  <2>5. PICK s : s = p.sent
    OBVIOUS
  <2>6. s = [j \in 1..m |-> IF j = 1 THEN Welcome ELSE SendProtocolMessage(answer)]
    BY <2>2, <2>3, <2>5 DEF Answered
  <2>7. Len(s) = m /\ DOMAIN s = 1..m
    BY <2>6
  <2>8. \A i \in 1..m : s[i] = IF i = 1 THEN Welcome ELSE SendProtocolMessage(answer)
    BY <2>6
  <2>9. \A i \in DOMAIN s : IF i = 1 THEN s[i] = Welcome ELSE SaysText(s[i], answer)
    BY <2>4, <2>7, <2>8
  <2> QED BY <2>3, <2>5, <2>7, <2>9 DEF Welcome
<1> QED BY <1>1, Inductive, PTL

===============================================================================
