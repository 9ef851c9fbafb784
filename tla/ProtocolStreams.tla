---------------------------- MODULE ProtocolStreams ----------------------------
(***************************************************************************)
(* From a stream of bytes to messages: CProtocol::OnRead with the framings *)
(* of CProtocolFTP, CProtocolHTTP and CProtocolWS, and the frames the      *)
(* WebSocket server answers with.  TCP cuts the stream wherever it likes.  *)
(*                                                                         *)
(* A symbol is a line of text with its CRLF, a byte of an HTTP body, or a  *)
(* byte of a WebSocket frame; no framing completes inside a line.  A byte  *)
(* of a frame has four bits here, so that the lengths at which the frame   *)
(* format changes (125, 126, 65535, 65536) are 5, 6, 255 and 256.          *)
(***************************************************************************)
EXTENDS Naturals, SequencesExt

CONSTANTS
  Sessions,  \* what peers do: [protocol, script], a script being messages [wire, payload]
  Answers,   \* what the application's callback answers a WebSocket message with
  MaxChunk   \* bound: symbols of one read

Base      == 16   \* of a byte of a frame
Byte      == 0..(Base - 1)
Half      == 8    \* its highest bit: the MASK bit of the second byte
Escape16  == 6    \* 126: the length is in the next 2 bytes
Escape64  == 7    \* 127: the length is in the next 8 bytes
MaxLen16  == 255  \* 0xFFFF
MaxLen64  == 2147483647  \* 8 bytes of which the highest bit is 0
TextFrame == 9    \* 0x81: the last fragment, text

\* The exclusive or of two bytes.
Xor(x, y) ==
  LET bit(w) == (x \div w + y \div w) % 2
  IN bit(1) + 2 * bit(2) + 4 * bit(4) + 8 * bit(8)

----------------------------------------------------------------------------
(* What peers send *)

Symbol == [s : {"open", "text", "final", "status", "request", "header", "length", "key", "blank", "byte"}, n : Nat]

\* RFC 959: a reply ends with the first line that has the first line's code and a blank.
IsReply(w) ==
  LET ends(i) == w[i].s = "final" /\ w[i].n = w[1].n
  IN /\ w # <<>> /\ \A i \in 1..Len(w) : w[i].s \in {"open", "text", "final"}
     /\ ends(Len(w)) /\ \A i \in 1..(Len(w) - 1) : ~ends(i)

\* The header of an HTTP message: a first line, some fields, and a blank line, the e-th.
IsHeader(w, first, fields, e) ==
  /\ e \in 3..Len(w) /\ w[1].s = first /\ w[e].s = "blank"
  /\ \A i \in 2..(e - 1) : w[i].s \in fields

\* RFC 7230: as many bytes follow the header as its Content-Length says, if it has one.
IsResponse(w) ==
  \E e \in 1..Len(w) :
    /\ IsHeader(w, "status", {"header", "length"}, e)
    /\ \A i \in (e + 1)..Len(w) : w[i].s = "byte"
    /\ LET lengths == {i \in 2..(e - 1) : w[i].s = "length"}
       IN \/ lengths = {} /\ Len(w) = e
          \/ \E i \in lengths : lengths = {i} /\ Len(w) = e + w[i].n

IsHello(w) == IsHeader(w, "request", {"header", "key"}, Len(w))

\* Lengths of 2 and 8 bytes, in network byte order.
Number2(b, i) == Base * b[i].n + b[i + 1].n
Number4(b, i) == 256 * Number2(b, i) + Number2(b, i + 2)
Number8(b, i) == 65536 * Number4(b, i) + Number4(b, i + 4)

\* RFC 6455: one text frame, masked with some key, its length in the shortest form.
IsFrame(w, payload) ==
  LET n == Len(payload)
      masked(head) == \* behind the head, the key and the payload
        /\ Len(w) = head + 4 + n
        /\ \A i \in 1..n : w[head + 4 + i].n = Xor(payload[i], w[head + 1 + ((i - 1) % 4)].n)
  IN /\ payload \in Seq(Byte) /\ \A i \in 1..Len(w) : w[i].s = "byte" /\ w[i].n \in Byte
     /\ w[1].n = TextFrame
     /\ \/ n < Escape16 /\ w[2].n = Half + n /\ masked(2)
        \/ n \in Escape16..MaxLen16 /\ w[2].n = Half + Escape16 /\ Number2(w, 3) = n /\ masked(4)
        \/ /\ n \in (MaxLen16 + 1)..MaxLen64 /\ w[2].n = Half + Escape64
           /\ w[3].n < Half /\ Number8(w, 3) = n /\ masked(10)

\* The k-th message m of a peer.
IsMessageOf(proto, k, m) ==
  CASE proto = "FTP"  -> IsReply(m.wire)
    [] proto = "HTTP" -> IsResponse(m.wire)
    [] proto = "WS"   -> IF k = 1 THEN IsHello(m.wire) ELSE IsFrame(m.wire, m.payload)

\* Peers keep to their protocols.
ASSUME SessionsAssumption ==
  \A x \in Sessions :
    /\ x.protocol \in {"FTP", "HTTP", "WS"}
    /\ Len(x.script) \in Nat /\ DOMAIN x.script = 1..Len(x.script)
    /\ \A k \in 1..Len(x.script) : x.script[k].wire \in Seq(Symbol) /\ IsMessageOf(x.protocol, k, x.script[k])

ASSUME AnswersAssumption == \A a \in Answers : a \in Seq(Byte) /\ Len(a) <= MaxLen64
ASSUME BoundAssumption == MaxChunk \in Nat

----------------------------------------------------------------------------

VARIABLES
  protocol, script, answer,  \* the peer's session and the application's answer
  at,   \* symbols of the stream read so far
  p     \* the protocol object: iBuffer, iMessages (their number), iWsHandshakeDone,
        \* told (payloads the callback was given), sent, and why the process died

vars == <<protocol, script, answer, at, p>>

Init ==
  /\ \E s \in Sessions : protocol = s.protocol /\ script = s.script
  /\ answer \in Answers
  /\ at = 0
  /\ p = [iBuffer |-> <<>>, iMessages |-> 0, iWsHandshakeDone |-> FALSE,
          told |-> <<>>, sent |-> <<>>, fault |-> "none"]

\* The stream up to the end of message k.
StreamTo ==
  LET upTo[k \in 0..Len(script)] == IF k = 0 THEN <<>> ELSE upTo[k - 1] \o script[k].wire
  IN upTo

Stream == StreamTo[Len(script)]

\* The first symbol of kind s, or 0.
First(b, s) == SelectInSeq(b, LAMBDA x : x.s = s)

----------------------------------------------------------------------------
(* The framings *)

\* At the end of a line: one so far holds, wherever in it, the first line's code and a space.
FtpComplete(b) == \E i \in DOMAIN b : b[i].s = "final" /\ b[i].n = b[1].n

\* CHTTPMessage::ParseMessage.  The length is read without its last digit; with
\* one digit only there is nothing to convert, and std::stoi throws.
ParseThrows(b) == First(b, "blank") # 0 /\ First(b, "length") # 0 /\ b[First(b, "length")].n < 10

BodyLength(b) == IF First(b, "length") = 0 THEN 0 ELSE b[First(b, "length")].n \div 10

AllThere(b) ==
  /\ First(b, "blank") # 0
  /\ BodyLength(b) = 0 \/ Len(b) = First(b, "blank") + BodyLength(b)

\* iHeaders, filled only when the message is all there.
HeaderCount(b) ==
  IF AllThere(b) THEN Cardinality({i \in DOMAIN b : b[i].s \in {"header", "length", "key"}}) ELSE 0

HttpComplete(b) == HeaderCount(b) # 0

\* The most significant byte first.
BTOL(b) ==
  LET value[i \in 0..Len(b)] == IF i = 0 THEN 0 ELSE value[i - 1] * Base + b[i]
  IN value[Len(b)]

\* What a byte counts for, from the least significant one.
Place == <<1, 16, 256, 4096, 65536, 1048576, 16777216, 268435456>>

\* Mutant: more significant digits are left in each byte.
LTOBOverflows(v, n) == [i \in 1..n |-> v \div Place[n + 1 - i]]

LTOB(v, n) == [i \in 1..n |-> (v \div Place[n + 1 - i]) % Base]

Bytes(b) == [i \in DOMAIN b |-> b[i].n]

\* Mutant: four bytes for the longest form.
ExtensionShort(second) ==
  CASE second % Half = Escape16 -> 2 [] second % Half = Escape64 -> 4 [] OTHER -> 0

\* Bytes between the second one and the masking key.
Extension(second) ==
  CASE second % Half = Escape16 -> 2 [] second % Half = Escape64 -> 8 [] OTHER -> 0

IsMasked(b) == b[2] >= Half

\* CWSMessage::ParseMessage: iPayload, empty unless the frame is exactly there.
ParseFrame(b) ==
  LET ext     == Extension(b[2])
      index   == 2 + ext + IF IsMasked(b) THEN 4 ELSE 0
      length  == IF ext = 0 THEN b[2] % Half ELSE BTOL(SubSeq(b, 3, 2 + ext))
      mask(i) == b[3 + ext + ((i - 1) % 4)]
  IN IF Len(b) < 2 + ext \/ index + length # Len(b) THEN <<>>
     ELSE [i \in 1..length |-> Xor(b[index + i], mask(i))]

FrameComplete(b) == Len(b) >= 2 /\ ParseFrame(b) # <<>>

IsMessageComplete(q) ==
  CASE protocol = "FTP" -> FtpComplete(q.iBuffer)
    [] protocol = "WS" /\ q.iWsHandshakeDone -> FrameComplete(Bytes(q.iBuffer))
    [] OTHER -> HttpComplete(q.iBuffer)

----------------------------------------------------------------------------
(* What a message does *)

\* Mutant: 126 is a length of the shortest form.
SendOffByOne(data) ==
  <<TextFrame>>
  \o (CASE Len(data) <= Escape16 -> <<Len(data)>>
        [] Len(data) \in (Escape16 + 1)..MaxLen16 -> <<Escape16>> \o LTOB(Len(data), 2)
        [] Len(data) > MaxLen16 -> <<Escape64>> \o LTOB(Len(data), 8))
  \o data

SendProtocolMessage(data) ==
  <<TextFrame>>
  \o (CASE Len(data) < Escape16  -> <<Len(data)>>
        [] Len(data) \in Escape16..MaxLen16 -> <<Escape16>> \o LTOB(Len(data), 2)
        [] Len(data) > MaxLen16  -> <<Escape64>> \o LTOB(Len(data), 8))
  \o data

SendServerHello(q) ==
  IF First(q.iBuffer, "key") = 0 THEN [q EXCEPT !.fault = "assert(key.size())"]
  ELSE [q EXCEPT !.sent = Append(@, <<"101 Switching Protocols">>), !.iWsHandshakeDone = TRUE]

\* The callback answers each message, as in test_ws_server.
ClientMessage(q) ==
  [q EXCEPT !.told = Append(@, ParseFrame(Bytes(q.iBuffer))),
            !.sent = Append(@, SendProtocolMessage(answer))]

\* What FTP does with a reply is FtpSession's subject; HTTP does nothing.
StateMachine(q) ==
  IF protocol # "WS" THEN q
  ELSE IF q.iWsHandshakeDone THEN ClientMessage(q) ELSE SendServerHello(q)

OnByte(q, x) ==
  LET r == [q EXCEPT !.iBuffer = Append(@, x)]
  IN CASE q.fault # "none" -> q
       [] q.fault = "none" /\ ~r.iWsHandshakeDone /\ ParseThrows(r.iBuffer) ->
            [r EXCEPT !.fault = "std::invalid_argument"]
       [] OTHER ->
            IF IsMessageComplete(r)
            THEN [StateMachine(r) EXCEPT !.iMessages = @ + 1, !.iBuffer = <<>>]
            ELSE r

\* Mutant: one look at the end of each read.
OnReadOncePerRead(q, b) ==
  IF Len(b) = 0 THEN q ELSE OnByte([q EXCEPT !.iBuffer = @ \o SubSeq(b, 1, Len(b) - 1)], b[Len(b)])

OnRead(q, b) ==
  LET after[i \in 0..Len(b)] == IF i = 0 THEN q ELSE OnByte(after[i - 1], b[i])
  IN after[Len(b)]

Read ==
  /\ p.fault = "none"
  /\ \E n \in 1..MaxChunk :
       /\ at + n <= Len(Stream)
       /\ at' = at + n
       /\ p' = OnRead(p, SubSeq(Stream, at + 1, at + n))
  /\ UNCHANGED <<protocol, script, answer>>

Next == Read

Spec == Init /\ [][Next]_vars

----------------------------------------------------------------------------
(* Properties *)

Count(P(_)) == Cardinality({k \in DOMAIN script : P(k)})
End(k)      == Len(StreamTo[k])

\* Messages before the first frame with no payload, after which nothing is complete.
IsUsable(k) == \A j \in 2..k : protocol = "WS" => script[j].payload # <<>>
Delivered   == Count(LAMBDA k : IsUsable(k) /\ End(k) <= at)
Begun       == Count(LAMBDA k : IsUsable(k) /\ End(k - 1) < at)

\* The protocol's state is well typed, and what it sends is bytes.
TypeOK ==
  /\ at \in 0..Len(Stream)
  /\ p.iMessages \in 0..at /\ p.iWsHandshakeDone \in BOOLEAN
  /\ Len(p.iBuffer) <= at
  /\ \A i \in 2..Len(p.sent) : p.sent[i] \in Seq(Byte)
  /\ p.fault \in {"none", "std::invalid_argument", "assert(key.size())"}

\* However the stream is cut into reads, each message is found once: none is
\* found before it began, and each has been by the time its last byte is read.
EachMessageOnce ==
  p.fault = "none" => Delivered <= p.iMessages /\ p.iMessages <= Begun

\* The callback is told what the peer's frames say, in their order: no frame
\* before the hello is answered, and the masking and the three forms of the
\* length undone exactly.
ToldIsSent ==
  protocol = "WS" /\ p.fault = "none" =>
    p.told = [k \in 1..(IF Delivered = 0 THEN 0 ELSE Delivered - 1) |-> script[k + 1].payload]

\* RFC 6455, by the receiver's rules: f is one unmasked text frame, its length
\* in the shortest form, that says data.
SaysText(f, data) ==
  LET form == CHOOSE e \in {0, 2, 8} : Extension(f[2]) = e
  IN /\ f[1] = TextFrame /\ ~IsMasked(f)
     /\ CASE form = 0 -> f[2] = Len(data) /\ f[2] < Escape16
          [] form = 2 -> f[3] * Base + f[4] = Len(data) /\ Len(data) >= Escape16
          [] form = 8 -> BTOL(SubSeq(f, 3, 10)) = Len(data) /\ Len(data) > MaxLen16
     /\ SubSeq(f, 3 + form, Len(f)) = data

\* The server answers the hello first and once, then each message with a frame
\* that the peer decodes to what the application sent.
AnswersDecode ==
  protocol = "WS" /\ p.fault = "none" =>
    /\ Len(p.sent) = p.iMessages
    /\ \A i \in DOMAIN p.sent :
         IF i = 1 THEN p.sent[i] = <<"101 Switching Protocols">> ELSE SaysText(p.sent[i], answer)

===============================================================================
