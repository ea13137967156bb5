--------------------------------- MODULE SCP ---------------------------------
(***************************************************************************)
(* scp.c: the two sides of scp take turns, a line and an acknowledgement,   *)
(* until the file begins; then the channel is handed to the application     *)
(* and does not block any more.  Lines and acknowledgements are read byte   *)
(* by byte, so that not a byte of the file is read with them.               *)
(***************************************************************************)
EXTENDS SSHStream

CONSTANT ScpSize  \* bound: bytes of the file

ASSUME ScpSizeAssumption == ScpSize \in Nat

\* moved: bytes of the file the application has got, or written.
SCPClient == [moved |-> 0, size |-> 0, direction |-> "none", calls |-> 0]
\* next: what the other side does next.
SCPServer == [gone |-> FALSE, next |-> "start", got |-> 0]

\* -p: the times are sent in a line of their own.
Times == Uses("times")
Line(type) == [type |-> type, id |-> 1, fn |-> "line", n |-> ScpSize]
Ack == Line("ack")

Steps(fn) ==
    IF fn = "recv" THEN IF Times THEN <<"T", "C">> ELSE <<"C">>
    ELSE IF Times THEN <<"ack", "ackT", "ackC">> ELSE <<"ack", "ackC">>

\* A channel, the command; the receiver acknowledges first.
Start(fn) ==
    /\ call = Idle /\ ~chan.open /\ client.calls = 0 /\ Uses(fn)
    /\ \/ /\ LET ch == [chan EXCEPT !.open = TRUE, !.blocking = TRUE]
             IN  chan' = IF fn = "recv" THEN Write(ch, Ack) ELSE ch
          /\ call' = Call(fn, Head(Steps(fn)), Ack)
          /\ server' = [server EXCEPT !.next = IF fn = "recv" THEN Head(Steps(fn)) ELSE "ack"]
       \/ UNCHANGED <<chan, call, server>>
    /\ client' = [client EXCEPT !.calls = 1]
    /\ UNCHANGED scenario
ScpRecv == Start("recv")
ScpSend == Start("send")

\* Anything else than what was expected, and the channel is freed.
ScpFails ==
    /\ chan' = [NewChannel EXCEPT !.closed = TRUE]
    /\ server' = [server EXCEPT !.gone = TRUE]
    /\ call' = Idle /\ UNCHANGED client

\* The file may begin: the channel is the application's.
HandOver(ch, fn, size) ==
    /\ chan' = [ch EXCEPT !.blocking = FALSE]
    /\ call' = Idle
    /\ client' = [client EXCEPT !.direction = fn, !.size = size]

\* A line is in: it is acknowledged; after the last the file begins.
LineIsIn(u) ==
    LET ch == Write(Read(chan, 1), Ack) IN
    IF call.step = "T" THEN chan' = ch /\ call' = [call EXCEPT !.step = "C"] /\ UNCHANGED client
    ELSE HandOver(ch, "recv", u.packet.n)

\* scp_recv reads one byte; the first tells whether it is the line that was expected.
RecvByte ==
    /\ call.fn = "recv" /\ Readable
    /\ IF chan.in = <<>> \/ Head(chan.in).packet.type # call.step THEN ScpFails
       ELSE LET u == Head(chan.in) IN
            /\ IF u.part = u.of THEN LineIsIn(u)
               ELSE chan' = Read(chan, 1) /\ UNCHANGED <<call, client>>
            /\ UNCHANGED server
    /\ UNCHANGED scenario

\* scp_send reads an acknowledgement and writes the next line.
SendAck ==
    /\ call.fn = "send" /\ Readable
    /\ IF chan.in = <<>> \/ Head(chan.in).packet.type # "ack" THEN ScpFails
       ELSE LET ch == Read(chan, 1) IN
            /\ CASE call.step = "ack" /\ Times ->
                        /\ chan' = Write(ch, Line("T")) /\ UNCHANGED client
                        /\ call' = [call EXCEPT !.step = "ackT"]
                 [] call.step \in {"ack", "ackT"} /\ ~(call.step = "ack" /\ Times) ->
                        /\ chan' = Write(ch, Line("C")) /\ UNCHANGED client
                        /\ call' = [call EXCEPT !.step = "ackC"]
                 [] call.step = "ackC" -> HandOver(ch, "send", ScpSize)
            /\ UNCHANGED server
    /\ UNCHANGED scenario

\* The application moves the file itself, with reads and writes that do not block.
ReadFile ==
    /\ call = Idle /\ client.direction = "recv" /\ chan.open
    /\ client.moved < client.size /\ chan.in # <<>>
    /\ LET n == Count(client.size - client.moved) IN
       /\ client' = [client EXCEPT !.moved = @ + n]
       /\ chan' = Read(chan, n)
    /\ UNCHANGED <<scenario, call, server>>
WriteFile ==
    /\ call = Idle /\ client.direction = "send" /\ chan.open /\ client.moved < client.size
    /\ chan' = Write(chan, Line("file"))
    /\ client' = [client EXCEPT !.moved = @ + 1]
    /\ UNCHANGED <<scenario, call, server>>

----------------------------------------------------------------------------
(* The other side *)

FileUnits == [i \in 1 .. ScpSize |-> [packet |-> Line("file"), part |-> i, of |-> ScpSize]]
Writes(units, next) ==
    /\ chan' = [Received(chan) EXCEPT !.wire = @ \o units]
    /\ server' = [server EXCEPT !.next = next]
\* It sends a line, after the acknowledgement of the last one the file.
Serves ==
    /\ Waiting
    /\ LET type == Head(chan.out).req.type IN
       CASE type = "ack" /\ server.next = "T" -> Writes(Units(Line("T"), 2), "C")
         [] type = "ack" /\ server.next = "C" -> Writes(Units(Line("C"), 2), "file")
         [] type = "ack" /\ server.next = "file" -> Writes(FileUnits, "over")
         [] type \in {"T", "C"} -> Writes(Units(Ack, 1), IF type = "T" THEN "C" ELSE "file")
         [] type = "file" ->
               /\ chan' = Received(chan)
               /\ server' = [server EXCEPT !.got = @ + 1]
    /\ UNCHANGED <<scenario, call, client>>
\* The other side is there: it acknowledges that, or it says what is wrong and ends.
ServerStarts ==
    /\ chan.open /\ server.next = "ack" /\ ~server.gone
    /\ chan' = [chan EXCEPT !.wire = @ \o Units(Ack, 1)]
    /\ server' = [server EXCEPT !.next = IF Times THEN "T" ELSE "C"]
    /\ UNCHANGED <<scenario, call, client>>
ServerRefuses ==
    /\ chan.open /\ server.next \in {"ack", "T", "C"} /\ ~server.gone /\ Uses("exits")
    /\ chan' = [chan EXCEPT !.wire = @ \o Units(Line("error"), 1)]
    /\ server' = [server EXCEPT !.gone = TRUE]
    /\ UNCHANGED <<scenario, call, client>>

----------------------------------------------------------------------------
SCPBegins == ScpRecv \/ ScpSend \/ ReadFile \/ WriteFile
SCPContinues == RecvByte \/ SendAck
SCPServes == Serves \/ ServerStarts
=============================================================================
