------------------------------ MODULE SSHChannel -----------------------------
(***************************************************************************)
(* channel.c: an application's blocking calls on the channels of one SSH    *)
(* session, packet by packet, against a server that answers, opens channels *)
(* of its own, sends within the window it was given, and may disconnect.    *)
(*                                                                          *)
(* A call that never waits is one action.  A call that reads packets is a   *)
(* record in `call` and one action for every packet, so that everything the *)
(* server may do in between is in between.                                  *)
(***************************************************************************)
EXTENDS SSHPacket

CONSTANTS
    Uses,       \* the sets of the calls below, and of faults, to look at
    Sizes,      \* bound: lengths of reads and writes
    MaxSent,    \* bound: bytes the server sends on each stream of a channel
    MaxWritten, \* bound: bytes the application writes on each channel
    MaxWire     \* bound: packets on the way, in each direction

\* What the application calls, and cancels although connections are pending.
CallNames == {"open", "request", "listen", "cancel_queued", "read", "write", "flush",
              "mode", "adjust", "blocking", "eof", "close", "wait_closed", "free",
              "poll", "direct", "session_free", "x11", "several"}
\* The socket reports an error, the server closes the connection, or says so in a
\* packet; a read gives up after 30 seconds.
Faults == {"reset", "closed", "disconnect", "timeout"}

ASSUME BoundsAssumption ==
    /\ Uses \subseteq SUBSET (CallNames \cup Faults)
    /\ Sizes \subseteq Nat \ {0}
    /\ {MaxSent, MaxWritten, MaxWire} \subseteq Nat

VARIABLES
    uses,     \* the calls and faults of this session
    session,  \* LIBSSH2_SESSION, its brigade and what it has written to the socket
    wire,     \* packets on the way from the server
    call,     \* the call the application is in
    server    \* the server's side of each of its channels

vars == <<uses, session, wire, call, server>>

Call(fn, c, step) ==
    [fn |-> fn, ch |-> c, step |-> step, stream |-> 0, left |-> 0, got |-> 0]
Idle == Call("none", 0, "none")
Free(fn) ==
    /\ fn \in uses /\ call = Idle /\ Len(session.out) < MaxWire
    /\ session.socket_state # "FREED"
Return == call' = Idle

ServerChannel(state, peer, window, grant) ==
    [state |-> state, peer |-> peer, window |-> window, grant |-> grant,
     sent |-> [st \in Streams |-> 0], received |-> 0, eof |-> FALSE]

Init ==
    /\ uses \in Uses
    /\ session = [link |-> "up", socket_state |-> "CONNECTED", packets |-> <<>>,
                  channels |-> <<>>, next_channel |-> 0, held |-> {},
                  chan |-> [c \in Ids |-> NoChannel], x11 |-> "x11" \in uses,
                  listener |-> NoListener,
                  out |-> <<>>]
    /\ wire = <<>>
    /\ call = Idle
    /\ server = [gone |-> FALSE, listening |-> FALSE, x11 |-> FALSE,
                 chan |-> [k \in Ids |-> ServerChannel("free", 0, 0, 0)]]

----------------------------------------------------------------------------
(* Reading packets *)

\* packet_read returns 0 without reading once the socket is disconnected. What was on
\* the way when the server closed the connection still arrives.
CanRead == session.link # "reset" /\ session.socket_state = "CONNECTED" /\ wire # <<>>

\* Channel numbers are bounded: there is room for what is already on the way.
RoomForChannel ==
    NextId(session) + Len(SelectSeq(wire, LAMBDA p : p.type = "OPEN"))
        < IF "several" \in uses THEN MaxChannels ELSE 1

\* requirev: the reply a call waits for.
ReplyTypes(fn) ==
    CASE fn = "open" -> <<"CONFIRM", "FAIL">>
      [] fn = "request" -> <<"SUCCESS", "FAILURE">>
      [] fn = "listen" -> <<"REQ_SUCCESS", "REQ_FAILURE">>
Awaits == call.fn \in {"open", "request", "listen"}
Reply(s) == Askv(s.packets, ReplyTypes(call.fn),
                 IF call.fn = "listen" THEN -1 ELSE call.ch)
Unlinked(s, c) == [s EXCEPT !.channels = SelectSeq(@, LAMBDA x : x # c)]

\* channel_open_ex takes up the server's confirmation, or unlinks the channel and
\* clears out its packets.
OpenAnswered(s, p) ==
    LET c == call.ch IN
    IF p.type = "CONFIRM"
    THEN /\ session' = [s EXCEPT !.chan[c].remote_id = p.sender,
                                 !.chan[c].local.window = p.window,
                                 !.held = @ \cup {c}]
         /\ Return
    ELSE session' = Unlinked(s, c) /\ call' = Call("open_error", c, "DATA")

\* channel_forward_listen_ex: the new listener has an empty queue.
ListenAnswered(s, p) ==
    /\ session' = IF p.type = "REQ_SUCCESS"
                  THEN [s EXCEPT !.listener =
                          [on |-> TRUE, queue |-> <<>>, queue_size |-> 0]]
                  ELSE s
    /\ Return

\* What the call does with the reply, packet i of the brigade.
Answered(s, i) ==
    LET p == s.packets[i]
        rest == [s EXCEPT !.packets = RemoveAt(@, i)]
    IN  CASE call.fn = "open" -> OpenAnswered(rest, p)
          [] call.fn = "request" -> session' = rest /\ Return
          [] call.fn = "listen" -> ListenAnswered(rest, p)

\* The call gives up: requirev returns -1.
Unanswered(s) ==
    IF call.fn = "open"
    THEN session' = Unlinked(s, call.ch) /\ call' = Call("open_error", call.ch, "DATA")
    ELSE session' = s /\ Return

\* packet_requirev_ex: the brigade first, then packet by packet. A packet of a
\* type asked for that does not match ends the wait.
RequireQueued ==
    /\ Awaits /\ call.step = "ask"
    /\ IF Reply(session) # 0 THEN Answered(session, Reply(session))
       ELSE session' = session /\ call' = [call EXCEPT !.step = "wait"]
    /\ UNCHANGED <<uses, wire, server>>
RequireRead ==
    /\ Awaits /\ call.step = "wait" /\ CanRead
    /\ LET p == Head(wire)
           s == PacketAdd(session, p)
       IN  IF p.type \notin ToSet(ReplyTypes(call.fn))
           THEN session' = s /\ call' = call
           ELSE IF Reply(s) # 0 THEN Answered(s, Reply(s)) ELSE Unanswered(s)
    /\ wire' = Tail(wire) /\ UNCHANGED <<uses, server>>

\* A request and its wait; when it cannot be written the call is over.
Send(s, p, then) ==
    /\ session' = PacketWrite(s, p)
    /\ call' = IF CanWrite(s) THEN then ELSE Idle
    /\ UNCHANGED <<uses, wire, server>>

----------------------------------------------------------------------------
(* Opening channels, requests, listeners *)

\* The channel is in the session before the server has confirmed it.
OpenEx(type) ==
    LET c == NextId(session)
        s == [TakeId(session) EXCEPT !.channels = Append(@, c),
                                     !.chan[c] = NewChannel("opened", 0, 0, Window)]
    IN  /\ Free("open") /\ RoomForChannel
        /\ IF CanWrite(s)
           THEN /\ session' = PacketWrite(s, Open(type, c, Window))
                /\ call' = Call("open", c, "ask")
           ELSE session' = Unlinked(s, c) /\ call' = Call("open_error", c, "DATA")
        /\ UNCHANGED <<uses, wire, server>>
DirectTcpip == "direct" \in uses /\ OpenEx("direct-tcpip")

SendRequest(c, kind) ==
    /\ Free("request") /\ c \in session.held
    /\ Send(session, Request(session.chan[c].remote_id, kind), Call("request", c, "ask"))
SetEnv(c) == SendRequest(c, "env")
RequestPty(c) == SendRequest(c, "pty-req")
X11Req(c) == SendRequest(c, "x11-req")
ProcessStartup(c) == SendRequest(c, "shell")

ForwardListen ==
    /\ Free("listen") /\ ~session.listener.on
    /\ Send(session, Msg("LISTEN", 0), Call("listen", 0, "ask"))

\* The connections nobody accepted are freed: channel_free takes each for the
\* head of the session's list, which is left empty.
FreeQueued(s) ==
    LET Closed(t, c) ==
          LET gone == [t EXCEPT !.chan[c] = NoChannel] IN
          IF t.socket_state = "CONNECTED"
          THEN PacketWrite(gone, Msg("CLOSE", t.chan[c].remote_id)) ELSE gone
        emptied == FoldLeft(Closed, s, s.listener.queue)
    IN  IF s.listener.queue = <<>> THEN s ELSE [emptied EXCEPT !.channels = <<>>]
Cancelled(s) ==
    IF CanWrite(s)
    THEN [FreeQueued(PacketWrite(s, Msg("CANCEL", 0))) EXCEPT
             !.listener = NoListener]
    ELSE s
ForwardCancel ==
    /\ Free("listen") /\ session.listener.on
    /\ "cancel_queued" \in uses \/ session.listener.queue = <<>>
    /\ session' = Cancelled(session)
    /\ UNCHANGED <<uses, wire, server, call>>

\* channel_forward_accept reads what has arrived, then takes the oldest connection.
ForwardAccept ==
    /\ Free("listen") /\ session.listener.on
    /\ call' = Call("accept", 0, "read") /\ UNCHANGED <<uses, session, wire, server>>
AcceptFirst ==
    LET l == session.listener IN
    /\ call.fn = "accept"
    /\ session' = IF l.queue = <<>> THEN session
                  ELSE [session EXCEPT !.channels = <<Head(l.queue)>> \o @,
                                       !.held = @ \cup {Head(l.queue)},
                                       !.listener.queue = Tail(@),
                                       !.listener.queue_size = @ - 1]
    /\ Return /\ UNCHANGED <<uses, wire, server>>

----------------------------------------------------------------------------
(* Reading from a channel *)

SetBlocking(c) ==
    /\ Free("blocking") /\ c \in session.held
    /\ session' = [session EXCEPT !.chan[c].blocking = ~@]
    /\ UNCHANGED <<uses, wire, server, call>>

\* What a read of the stream takes: merged extended data is standard data.
IsRead(p, c, st) ==
    /\ IsDataOf(p, c)
    /\ StreamOf(p) = st \/ (st = 0 /\ session.chan[c].mode = "MERGE")
FirstToRead == SelectInSeq(session.packets, LAMBDA p : IsRead(p, call.ch, call.stream))

ReadEx(c, st, n) ==
    /\ Free("read") /\ c \in session.held
    /\ call' = [Call("read", c, "read") EXCEPT !.stream = st, !.left = n]
    /\ UNCHANGED <<uses, session, wire, server>>

\* packet_read returns 0: nothing has arrived.
ReadNoMore ==
    /\ call.fn = "read" /\ call.step = "read"
    /\ call' = [call EXCEPT !.step = "take"]
    /\ UNCHANGED <<uses, session, wire, server>>

\* One packet of the brigade is copied, in part or whole; a packet used up is
\* unlinked and refunded: data_len less the header of the stream read from.
\* Seeded fault: a packet read in part is read again from its start.
ReadTakeRestarts ==
    LET i == FirstToRead
        c == call.ch
        p == session.packets[i]
        want == IF call.left >= p.len THEN p.len ELSE call.left
        s == [session EXCEPT !.chan[c].taken[StreamOf(p)] = @ + want]
    IN  /\ call.fn = "read" /\ call.step = "take" /\ call.left > 0 /\ i # 0
        /\ session' = IF want < p.len THEN s
                      ELSE ReceiveWindowAdjust([s EXCEPT !.packets = RemoveAt(@, i)],
                                               c, p.len, FALSE)
        /\ call' = [call EXCEPT !.left = @ - want, !.got = @ + want]
        /\ UNCHANGED <<uses, wire, server>>
ReadTake ==
    LET i == FirstToRead
        c == call.ch
        p == session.packets[i]
        avail == p.len - p.head
        want == IF call.left >= avail THEN avail ELSE call.left
        merged == call.stream = 0 /\ p.type = "EXTENDED"
        s == [session EXCEPT !.chan[c].taken[StreamOf(p)] = @ + want,
                             !.chan[c].skewed = @ \/ merged]
    IN  /\ call.fn = "read" /\ call.step = "take" /\ call.left > 0 /\ i # 0
        /\ session' = IF want < avail THEN [s EXCEPT !.packets[i].head = @ + want]
                      ELSE ReceiveWindowAdjust([s EXCEPT !.packets = RemoveAt(@, i)], c,
                               IF merged THEN p.len + TypeCode ELSE p.len, FALSE)
        /\ call' = [call EXCEPT !.left = @ - want, !.got = @ + want]
        /\ UNCHANGED <<uses, wire, server>>

ReadReturns ==
    LET channel == session.chan[call.ch] IN
    /\ call.fn = "read" /\ call.step = "take"
    /\ call.left = 0 \/ FirstToRead = 0
    /\ IF channel.blocking /\ call.got = 0 /\ ~channel.remote.close
       THEN call' = [call EXCEPT !.step = "block"] ELSE Return
    /\ UNCHANGED <<uses, session, wire, server>>

\* channel_flush_ex: the data of one or all streams is dropped from the brigade.
\* The refund takes every packet for extended data.
FlushEx(s, c, streams) ==
    LET Flushed(p) == IsDataOf(p, c) /\ StreamOf(p) \in streams
        flushed == SelectSeq(s.packets, Flushed)
        End(st) == {p.from + p.len : p \in {q \in ToSet(flushed) : StreamOf(q) = st}}
        Refund(sum, p) == IF p.type = "DATA" THEN sum + p.len - TypeCode ELSE sum + p.len
        left == [s EXCEPT !.packets = SelectSeq(@, LAMBDA p : ~Flushed(p)),
                          !.chan[c].taken =
                              [st \in Streams |-> Max({@[st]} \cup End(st))],
                          !.chan[c].skewed =
                              @ \/ \E p \in ToSet(flushed) : p.type = "DATA"]
        refund == Wrap(FoldLeft(Refund, 0, flushed))
    IN  IF refund = 0 THEN left ELSE ReceiveWindowAdjust(left, c, refund, FALSE)
Flush(c, streams) ==
    /\ Free("flush") /\ c \in session.held
    /\ session' = FlushEx(session, c, streams)
    /\ UNCHANGED <<uses, wire, server, call>>

HandleExtendedData(c, mode) ==
    LET s == [session EXCEPT !.chan[c].mode = mode] IN
    /\ Free("mode") /\ c \in session.held
    /\ session' = IF mode = "IGNORE" THEN FlushEx(s, c, {1}) ELSE s
    /\ UNCHANGED <<uses, wire, server, call>>

\* The application sends what waits in adjust_queue.
AdjustNow(c) ==
    /\ Free("adjust") /\ c \in session.held
    /\ session' = ReceiveWindowAdjust(session, c, 0, TRUE)
    /\ UNCHANGED <<uses, wire, server, call>>

\* channel_eof is masked by data that waits to be read.
\* Seeded fault: it is not.
EofUnmasked(c) == session.chan[c].remote.eof
Eof(c) ==
    /\ session.chan[c].remote.eof
    /\ ~\E i \in DOMAIN session.packets : IsDataOf(session.packets[i], c)

----------------------------------------------------------------------------
(* Polling *)

PollChannelRead(c, st) ==
    \E i \in DOMAIN session.packets :
        IsDataOf(session.packets[i], c) /\ StreamOf(session.packets[i]) = st
PollListenerQueued == session.listener.queue # <<>>

\* libssh2_poll, for data of a stream and for a connection of the listener: it looks
\* at the session, then at the socket, and reads all that has arrived; without
\* anything to tell of, and with time left, it looks again.
Poll(c, st) ==
    /\ Free("poll") /\ c \in session.held
    /\ call' = [Call("poll", c, "look") EXCEPT !.stream = st]
    /\ UNCHANGED <<uses, session, wire, server>>
PollReady ==
    LET channel == session.chan[call.ch] IN
    \/ PollChannelRead(call.ch, call.stream)
    \/ PollListenerQueued
    \/ channel.remote.close \/ channel.local.close
    \/ session.socket_state = "DISCONNECTED"
PollLooks ==
    /\ call.fn = "poll" /\ call.step = "look"
    /\ call' = [call EXCEPT !.step = "socket", !.got = IF PollReady THEN 1 ELSE @]
    /\ UNCHANGED <<uses, session, wire, server>>
\* It does not wait for the socket when it has something to tell.
PollSocket ==
    /\ call.fn = "poll" /\ call.step = "socket"
    /\ call.got = 1 \/ wire # <<>> \/ session.link # "up"
    /\ call' = [call EXCEPT !.step = "drain"]
    /\ UNCHANGED <<uses, session, wire, server>>
PollDrained ==
    /\ call.fn = "poll" /\ call.step = "drain" /\ ~CanRead
    /\ IF call.got = 1 THEN Return
       ELSE call' = [call EXCEPT !.step = "look",
                        !.got = IF session.link = "reset" THEN 1 ELSE 0]
    /\ UNCHANGED <<uses, session, wire, server>>
\* Its own time is over, perhaps just after something arrived.
PollTimesOut ==
    /\ call.fn = "poll" /\ call.got = 0
    /\ \/ call.step = "socket" /\ wire = <<>>
       \/ call.step = "drain" /\ ~CanRead
    /\ Return /\ UNCHANGED <<uses, session, wire, server>>

----------------------------------------------------------------------------
(* Writing to a channel, closing and freeing it *)

Written(c) == server.chan[session.chan[c].remote_id].received
              + FoldLeft(LAMBDA sum, p : sum + p.len, 0,
                         SelectSeq(session.out, LAMBDA p : p.type = "DATA" /\
                                       p.ch = session.chan[c].remote_id))
\* A write on a channel we closed fails; one that does not block and finds no
\* window writes nothing.
WriteEx(c, n) ==
    LET channel == session.chan[c] IN
    /\ Free("write") /\ c \in session.held
    /\ ~channel.local.close
    /\ channel.blocking \/ channel.local.window > 0
    /\ Written(c) + n <= MaxWritten
    /\ call' = [Call("write", c, "write") EXCEPT !.left = n]
    /\ UNCHANGED <<uses, session, wire, server>>

\* Seeded fault: the window is shrunk by what is left to write.
WriteChunkAll ==
    LET c == call.ch
        channel == session.chan[c]
        len == Min({call.left, channel.local.window, PacketSize})
    IN  /\ call.fn = "write" /\ channel.local.window > 0
        /\ session' = IF CanWrite(session)
                      THEN [PacketWrite(session, Data(channel.remote_id, 0, 0, len))
                               EXCEPT !.chan[c].local.window = Max({0, @ - call.left})]
                      ELSE session
        /\ call' = IF CanWrite(session) /\ channel.blocking /\ call.left > len
                   THEN [call EXCEPT !.left = @ - len] ELSE Idle
        /\ UNCHANGED <<uses, wire, server>>
WriteChunk ==
    LET c == call.ch
        channel == session.chan[c]
        len == Min({call.left, channel.local.window, PacketSize})
    IN  /\ call.fn = "write" /\ channel.local.window > 0
        /\ session' = IF CanWrite(session)
                      THEN [PacketWrite(session, Data(channel.remote_id, 0, 0, len))
                               EXCEPT !.chan[c].local.window = @ - len]
                      ELSE session
        /\ call' = IF CanWrite(session) /\ channel.blocking /\ call.left > len
                   THEN [call EXCEPT !.left = @ - len] ELSE Idle
        /\ UNCHANGED <<uses, wire, server>>
SendEof(c) ==
    /\ Free("eof") /\ c \in session.held
    /\ session' = IF CanWrite(session)
                  THEN [PacketWrite(session, Msg("EOF", session.chan[c].remote_id))
                           EXCEPT !.chan[c].local.eof = TRUE]
                  ELSE session
    /\ UNCHANGED <<uses, wire, server, call>>

\* channel_close marks the channel before it writes, and once only.
CloseChannel(s, c) ==
    IF s.chan[c].local.close THEN s
    ELSE PacketWrite([s EXCEPT !.chan[c].local.close = TRUE],
                     Msg("CLOSE", s.chan[c].remote_id))
Close(c) ==
    /\ Free("close") /\ c \in session.held
    /\ session' = CloseChannel(session, c)
    /\ UNCHANGED <<uses, wire, server, call>>

WaitClosed(c) ==
    /\ Free("wait_closed") /\ c \in session.held /\ Eof(c)
    /\ call' = Call("wait_closed", c, "wait") /\ UNCHANGED <<uses, session, wire, server>>
ClosedReturns ==
    /\ call.fn = "wait_closed" /\ session.chan[call.ch].remote.close
    /\ Return /\ UNCHANGED <<uses, session, wire, server>>

\* channel_free closes first, unless the socket is known to be gone: when the
\* close cannot be written the channel stays.
FreeChannel(c) ==
    LET closes == ~session.chan[c].local.close /\ session.socket_state = "CONNECTED"
        closed == IF closes THEN CloseChannel(session, c) ELSE session
    IN
    /\ Free("free") /\ c \in session.held
    /\ IF closes /\ ~CanWrite(session) THEN session' = closed /\ call' = Idle
       ELSE /\ session' = [closed EXCEPT !.held = @ \ {c}]
            /\ call' = Call("free", c, "DATA")
    /\ UNCHANGED <<uses, wire, server>>

\* libssh2_session_free frees the channels, the first of the list again and again;
\* one that cannot be closed is unlinked all the same. Then it cancels the listener,
\* again and again while that fails, and drops what waits in the brigade.
SessionFree ==
    /\ Free("session_free")
    /\ call' = Call("session_free", 0, "next") /\ UNCHANGED <<uses, session, wire, server>>
FreesFirst ==
    LET c == Head(session.channels)
        closes == ~session.chan[c].local.close /\ session.socket_state = "CONNECTED"
        closed == IF closes THEN CloseChannel(session, c) ELSE session
        forgotten == [closed EXCEPT !.held = @ \ {c}]
    IN  /\ call.fn = "session_free" /\ call.step = "next" /\ session.channels # <<>>
        /\ IF closes /\ ~CanWrite(session)
           THEN session' = [Unlinked(forgotten, c) EXCEPT !.chan[c] = NoChannel]
                /\ call' = call
           ELSE session' = forgotten /\ call' = Call("session_free", c, "DATA")
        /\ UNCHANGED <<uses, wire, server>>
FreesRest ==
    /\ call.fn = "session_free" /\ call.step = "next" /\ session.channels = <<>>
    /\ ~session.listener.on \/ CanWrite(session)
    /\ session' = [(IF session.listener.on THEN Cancelled(session) ELSE session)
                       EXCEPT !.packets = <<>>, !.socket_state = "FREED"]
    /\ Return /\ UNCHANGED <<uses, wire, server>>

\* The packets of the channel are cleared out: packet_ask polls for one packet,
\* but looks from the head the brigade had before.
Clears ==
    \/ call.fn \in {"free", "open_error"}
    \/ call.fn = "session_free" /\ call.step # "next"
ClearAsk(s) ==
    LET i == IF session.packets = <<>> THEN 0 ELSE Ask(s.packets, call.step, call.ch)
        cleared == [s EXCEPT !.chan[call.ch] = NoChannel]
    IN  CASE i # 0 -> /\ session' = [s EXCEPT !.packets = RemoveAt(@, i)]
                      /\ call' = [call EXCEPT !.step = "DATA"]
          [] i = 0 /\ call.step = "DATA" ->
                      session' = s /\ call' = [call EXCEPT !.step = "EXTENDED"]
          [] i = 0 /\ call.step = "EXTENDED" ->
                      /\ session' = Unlinked(cleared, call.ch)
                      /\ call' = IF call.fn = "session_free"
                                 THEN Call("session_free", 0, "next") ELSE Idle
ClearPolled ==
    /\ Clears /\ CanRead
    /\ ClearAsk(PacketAdd(session, Head(wire)))
    /\ wire' = Tail(wire) /\ UNCHANGED <<uses, server>>
ClearUnpolled == Clears /\ ClearAsk(session) /\ UNCHANGED <<uses, wire, server>>

\* The call is in a read that blocks: for a reply, for data, for an adjustment of
\* its window, or for the channel to be closed.
Blocks ==
    \/ Awaits /\ call.step = "wait"
    \/ call.fn = "read" /\ call.step = "block"
    \/ call.fn = "write" /\ session.chan[call.ch].local.window = 0
    \/ call.fn = "wait_closed" /\ ~session.chan[call.ch].remote.close

\* A call that waits for no reply adds one packet to the brigade at a time.
Pump ==
    /\ CanRead
    /\ \/ Blocks /\ ~Awaits
       \/ call.fn = "read" /\ call.step = "read"
       \/ call.fn = "poll" /\ call.step = "drain"
       \/ call.fn = "accept"
    /\ session' = PacketAdd(session, Head(wire))
    /\ wire' = Tail(wire)
    /\ call' = IF call.fn = "read" THEN [call EXCEPT !.step = "read"] ELSE call
    /\ UNCHANGED <<uses, server>>

\* The read that blocks returns without a packet. A call for a reply, for a close
\* or for the window gives up; channel_read_ex looks at the brigade again.
GivesUp ==
    /\ Blocks
    /\ IF Awaits THEN Unanswered(session)
       ELSE /\ call' = IF call.fn = "read" THEN [call EXCEPT !.step = "take"] ELSE Idle
            /\ UNCHANGED session
    /\ UNCHANGED <<uses, wire, server>>

\* The socket reports an error, or is known to be gone: then packet_read returns
\* 0, for which channel_write_ex only tries again. The end of a connection that the
\* server closed is neither: blocking_read asks again as long as recv returns 0.
ReadFails ==
    /\ \/ session.link = "reset" /\ session.socket_state = "CONNECTED"
       \/ session.socket_state = "DISCONNECTED" /\ call.fn # "write"
    /\ GivesUp
\* blocking_read polls for 30 seconds, if the read reports EAGAIN: it has just made the
\* socket a blocking one, so that nothing obliges it to.
TimesOut ==
    /\ "timeout" \in uses
    /\ session.link = "up" /\ session.socket_state = "CONNECTED" /\ wire = <<>>
    /\ Len(session.packets) < MaxWire  \* bound: answers nobody waits for
    /\ GivesUp

----------------------------------------------------------------------------
(* The server *)

Tell(p) == wire' = Append(wire, p)
Quiet == wire' = wire
Live(k) == server.chan[k].state = "open"
Room == Len(wire) < MaxWire /\ session.link = "up" /\ ~server.gone

NewNumbers == {k \in Ids : server.chan[k].state = "free"}
ServerConfirms(p) ==
    \E k \in NewNumbers :
        /\ \A j \in NewNumbers : j <= k  \* its numbers are not ours
        /\ server' = [server EXCEPT !.chan[k] =
                         ServerChannel("open", p.sender, p.window, Window)]
        /\ Tell(Confirm(p.sender, k, Window))

\* What the server does with the next packet of ours.
ServerHandles(p) ==
    CASE p.type = "OPEN" -> \/ ServerConfirms(p)
                            \/ server' = server /\ Tell(Msg("FAIL", p.sender))
      [] p.type = "REQUEST" ->
            /\ server' = [server EXCEPT !.x11 = @ \/ p.kind = "x11-req"]
            /\ \E answer \in {"SUCCESS", "FAILURE"} :
                  Tell(Msg(answer, server.chan[p.ch].peer))
      [] p.type = "LISTEN" ->
            \/ server' = [server EXCEPT !.listening = TRUE] /\ Tell(Msg("REQ_SUCCESS", 0))
            \/ server' = server /\ Tell(Msg("REQ_FAILURE", 0))
      [] p.type = "CANCEL" -> server' = [server EXCEPT !.listening = FALSE] /\ Quiet
      [] p.type = "CONFIRM" ->
            /\ server' = [server EXCEPT !.chan[p.ch] =
                             ServerChannel("open", p.sender, p.window, Window)]
            /\ Quiet
      [] p.type = "FAIL" ->
            server' = [server EXCEPT !.chan[p.ch].state = "closed"] /\ Quiet
      [] p.type = "DATA" ->
            server' = [server EXCEPT !.chan[p.ch].received = @ + p.len,
                                     !.chan[p.ch].grant = @ - p.len] /\ Quiet
      [] p.type = "ADJUST" ->
            server' = [server EXCEPT !.chan[p.ch].window = @ + p.bytes] /\ Quiet
      [] p.type = "EOF" -> server' = server /\ Quiet
      [] p.type = "CLOSE" ->
            /\ server' = [server EXCEPT !.chan[p.ch].state = "closed"]
            /\ IF Live(p.ch) THEN Tell(Msg("CLOSE", server.chan[p.ch].peer)) ELSE Quiet
ServerReceives ==
    /\ session.out # <<>> /\ session.link = "up" /\ ~server.gone
    /\ ServerHandles(Head(session.out))
    /\ session' = [session EXCEPT !.out = Tail(@)] /\ UNCHANGED <<uses, call>>

AtMostSent == IF "several" \in uses THEN 1 ELSE MaxSent
ServerSends(k, st, n) ==
    LET ch == server.chan[k] IN
    /\ "read" \in uses /\ Room /\ Live(k) /\ ~ch.eof
    /\ "several" \in uses => st = 0
    /\ n <= ch.window /\ n <= PacketSize /\ ch.sent[st] + n <= AtMostSent
    /\ server' = [server EXCEPT !.chan[k].window = @ - n, !.chan[k].sent[st] = @ + n]
    /\ Tell(Data(ch.peer, st, ch.sent[st], n)) /\ UNCHANGED <<uses, session, call>>
ServerEof(k) ==
    /\ uses \cap {"read", "wait_closed"} # {}
    /\ Room /\ Live(k) /\ ~server.chan[k].eof
    /\ server' = [server EXCEPT !.chan[k].eof = TRUE]
    /\ Tell(Msg("EOF", server.chan[k].peer)) /\ UNCHANGED <<uses, session, call>>
ServerExits(k) ==
    /\ Room /\ Live(k) /\ server.chan[k].eof
    /\ server' = [server EXCEPT !.chan[k].state = "closed"]
    /\ wire' = wire \o <<Msg("STATUS", server.chan[k].peer),
                         Msg("CLOSE", server.chan[k].peer)>>
    /\ UNCHANGED <<uses, session, call>>
ServerGrants(k) ==
    LET ch == server.chan[k] IN
    /\ Room /\ Live(k) /\ ch.grant < Window
    /\ server' = [server EXCEPT !.chan[k].grant = Window]
    /\ Tell(Adjust(ch.peer, Window - ch.grant)) /\ UNCHANGED <<uses, session, call>>
ServerOpens(kind) ==
    /\ Room /\ RoomForChannel
    /\ IF kind = "x11" THEN server.x11 ELSE server.listening
    /\ \E k \in NewNumbers :
        /\ \A j \in NewNumbers : j <= k
        /\ server' = [server EXCEPT !.chan[k].state = "asking"]
        /\ Tell(Open(kind, k, Window))
    /\ UNCHANGED <<uses, session, call>>
\* The server closes the connection: a recv returns 0 when all has been read, a send
\* still succeeds. Or the connection breaks: every read and write fails.
Breaks ==
    /\ \E end \in {"closed", "reset"} \cap uses :
          /\ session.link = "up" \/ (session.link = "closed" /\ end = "reset")
          /\ session' = [session EXCEPT !.link = end]
    /\ UNCHANGED <<uses, wire, call, server>>
ServerDisconnects ==
    /\ "disconnect" \in uses /\ Room
    /\ server' = [server EXCEPT !.gone = TRUE]
    /\ Tell(Msg("DISCONNECT", 0)) /\ UNCHANGED <<uses, session, call>>
ServerIgnores ==
    /\ "disconnect" \in uses /\ Room
    /\ Tell(Msg("IGNORE", 0)) /\ UNCHANGED <<uses, session, call, server>>

----------------------------------------------------------------------------
Begins ==
    \/ OpenEx("session") \/ DirectTcpip \/ SessionFree
    \/ ForwardListen \/ ForwardCancel \/ ForwardAccept
    \/ \E c \in Ids :
        \/ SetEnv(c) \/ RequestPty(c) \/ X11Req(c) \/ ProcessStartup(c)
        \/ SetBlocking(c) \/ AdjustNow(c)
        \/ \E st \in Streams : Poll(c, st)
        \/ \E n \in Sizes : WriteEx(c, n) \/ \E st \in Streams : ReadEx(c, st, n)
        \/ \E streams \in {{0}, {1}, {0, 1}} : Flush(c, streams)
        \/ \E mode \in Modes : HandleExtendedData(c, mode)
        \/ SendEof(c) \/ Close(c) \/ WaitClosed(c) \/ FreeChannel(c)
Continues ==
    \/ RequireQueued \/ RequireRead \/ AcceptFirst
    \/ ReadNoMore \/ ReadTake \/ ReadReturns \/ WriteChunk
    \/ PollLooks \/ PollSocket \/ PollDrained \/ FreesFirst \/ FreesRest
    \/ ClosedReturns \/ ClearPolled \/ ClearUnpolled \/ Pump \/ ReadFails
ServerActs ==
    \/ \E k \in Ids :
        \/ \E st \in Streams, n \in 1 .. PacketSize : ServerSends(k, st, n)
        \/ ServerEof(k) \/ ServerExits(k) \/ ServerGrants(k)
    \/ \E kind \in {"x11", "forwarded"} : ServerOpens(kind)
    \/ ServerDisconnects \/ ServerIgnores \/ Breaks

Next == Begins \/ Continues \/ TimesOut \/ PollTimesOut \/ ServerReceives \/ ServerActs

Spec == Init /\ [][Next]_vars /\ WF_vars(Continues) /\ WF_vars(ServerReceives)

----------------------------------------------------------------------------
(* Properties *)

Total(packets, Test(_), Val(_)) ==
    FoldLeft(LAMBDA sum, p : IF Test(p) THEN sum + Val(p) ELSE sum, 0, packets)
DataLen(packets, c) == Total(packets, LAMBDA p : IsDataOf(p, c), LAMBDA p : p.len)
AdjustLen(packets, c) ==
    Total(packets, LAMBDA p : p.type = "ADJUST" /\ p.ch = c, LAMBDA p : p.bytes)
ServersOf(c) == server.chan[session.chan[c].remote_id]

\* channel_window_read_ex and channel_window_write_ex: what the application is told of
\* the two windows, and of the bytes it could read, on any stream.
WindowRead(c) == session.chan[c].remote.window
ReadAvail(c) ==
    Total(session.packets, LAMBDA p : IsDataOf(p, c), LAMBDA p : p.len - p.head)
WindowWrite(c) == session.chan[c].local.window

\* The channels the two sides agree on: what is sent to a connection before it is
\* accepted is lost (packet.c:430), so those a listener queued are left out.
Agreed == {c \in session.held :
              session.chan[c].origin # "forwarded" /\ ServersOf(c).state # "asking"}

\* Channel numbers are not shared, and every channel the application has is found
\* by channel_locate, whatever the interleaving of our opens with the server's.
ChannelsAreFound ==
    /\ IsInjective(session.channels \o session.listener.queue)
    /\ \A c \in ToSet(session.channels \o session.listener.queue) :
          c < session.next_channel
    /\ session.held \subseteq ToSet(session.channels)
    /\ \A c \in Agreed : ServersOf(c).peer = c

\* Nothing of the receive window is lost or invented: what the server may send,
\* what is on the way, what waits to be read and what waits to be refunded are the
\* window the channel began with, unless the application merges extended data or
\* flushes standard data, whose refunds count the wrong header; and what the
\* application is told that the server may send is that, if no data was ever ignored,
\* for which the window is refunded although it was not shrunk.
CreditBalances ==
    \A c \in Agreed : ~session.chan[c].skewed =>
        LET onTheWay == DataLen(wire, c) + AdjustLen(session.out, session.chan[c].remote_id)
        IN  /\ ServersOf(c).window + onTheWay + DataLen(session.packets, c)
                  + session.chan[c].adjust_queue = Window
            /\ "mode" \notin uses => WindowRead(c) = ServersOf(c).window + onTheWay

\* What we think we may send, what we have sent that has not arrived, and what the
\* server has granted that has not arrived are what the server will take.
SendWindowAgrees ==
    \A c \in Agreed :
        WindowWrite(c) + DataLen(session.out, session.chan[c].remote_id)
        + AdjustLen(wire, c) = ServersOf(c).grant

\* The bytes of a stream that wait to be read and those on the way follow, without
\* a gap, those that were read, up to the last the server sent; and the application
\* is told of each byte that it could read.
BytesInOrder ==
    /\ \A c \in Agreed :
          ReadAvail(c) + DataLen(wire, c) =
              LET left == [st \in Streams |-> ServersOf(c).sent[st] - session.chan[c].taken[st]]
              IN  left[0] + left[1]
    /\ \A c \in Agreed, st \in Streams :
          LET p == SelectSeq(session.packets \o wire,
                             LAMBDA q : IsDataOf(q, c) /\ StreamOf(q) = st)
              begins == IF p = <<>> THEN ServersOf(c).sent[st] ELSE p[1].from + p[1].head
              ends == IF p = <<>> THEN begins ELSE p[Len(p)].from + p[Len(p)].len
          IN  /\ session.chan[c].taken[st] = begins
              /\ ends = ServersOf(c).sent[st]
              /\ \A i \in 2 .. Len(p) : p[i].from = p[i - 1].from + p[i - 1].len

\* channel_eof is true only when everything the server ever sent was read.
EofIsEnd == \A c \in Agreed : Eof(c) => session.chan[c].taken = ServersOf(c).sent

\* The call is in a read that will never end: blocking_read takes a recv of 0, the end
\* of what the server sent before it closed the connection, for nothing yet.
Spins ==
    /\ Blocks
    /\ session.link = "closed" /\ session.socket_state = "CONNECTED" /\ wire = <<>>

\* A call that awaits a reply returns: answered, because the server said it disconnects
\* or because the socket reports an error, in whatever order these and the packets
\* of other channels arrive. What leaves it waiting is one thing only, a connection
\* that the server closes without a word.
RequestsReturn == Awaits ~> ~Awaits \/ Spins
=============================================================================
