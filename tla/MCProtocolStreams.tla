--------------------------- MODULE MCProtocolStreams ---------------------------
(* What peers send, for the run of ProtocolStreams. *)
EXTENDS ProtocolStreams

Line(s)    == [s |-> s, n |-> 0]
Coded(s, n) == [s |-> s, n |-> n]
Message(wire, payload) == [wire |-> wire, payload |-> payload]

\* FTP: replies of one line, and of several up to the line with the first one's code.
OneLine(n)   == Message(<<Coded("final", n)>>, <<>>)
SomeLines(n) == Message(<<Coded("open", n), Line("text"), Coded("final", n + 1), Coded("final", n)>>, <<>>)
FtpScripts   == [1..3 -> {OneLine(226), OneLine(227), SomeLines(226), SomeLines(211)}]

\* HTTP: responses without a body and with bodies of 5, 12 and 25 bytes.
Response(length) ==
  Message(<<Line("status"), Line("header")>>
            \o (IF length = 0 THEN <<>> ELSE <<Coded("length", length)>>)
            \o <<Line("blank")>> \o [i \in 1..length |-> Coded("byte", i % Base)], <<>>)
HttpScripts == [1..2 -> {Response(0), Response(12), Response(25)}] \cup [{1} -> {Response(5)}]

\* WebSocket: a hello, then masked text frames as a client sends them.
Hello(lines) == Message([i \in DOMAIN lines |-> Line(lines[i])], <<>>)
Key     == <<3, 12, 0, 15>>
Said(n) == [i \in 1..n |-> (7 * i) % Base]
Sent(n) ==
  LET head == CASE n < Escape16 -> <<n + Half>>
                [] n \in Escape16..MaxLen16 -> <<Escape16 + Half, n \div Base, n % Base>>
                [] n > MaxLen16 -> <<Escape64 + Half, 0, 0, 0, 0, 0, n \div (Base * Base), (n \div Base) % Base, n % Base>>
      wire == <<TextFrame>> \o head \o Key \o [i \in 1..n |-> Xor(Said(n)[i], Key[1 + ((i - 1) % 4)])]
  IN Message([i \in DOMAIN wire |-> Coded("byte", wire[i])], Said(n))
WsHello   == Hello(<<"request", "header", "key", "blank">>)
WsScripts ==
  {<<WsHello, Sent(i), Sent(j)>> : i, j \in {0, 1, 5, 6}}
  \cup {<<WsHello, Sent(n), Sent(1)>> : n \in {255, 256}}
  \cup {<<Hello(<<"request", "header", "blank">>)>>}

AllSessions ==
  [protocol : {"FTP"}, script : FtpScripts] \cup [protocol : {"HTTP"}, script : HttpScripts]
  \cup [protocol : {"WS"}, script : WsScripts]

Said1To256 == {Said(n) : n \in {1, 5, 6, 255, 256}}
===============================================================================
