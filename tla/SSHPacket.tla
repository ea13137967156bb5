------------------------------ MODULE SSHPacket ------------------------------
(***************************************************************************)
(* packet.c: the input brigade of an SSH session and what packet_add does   *)
(* with a packet before, or instead of, putting it there.  The module is a  *)
(* library of operators from a session record to the next one; SSHChannel   *)
(* composes it with the calls of channel.c, with a server and the wire.     *)
(*                                                                          *)
(* As in the code, "local" is us as the source of data and "remote" is the  *)
(* server as the source of data: chan[c].remote.window is what the server   *)
(* may still send.  Bytes are counted, not carried: a data packet carries   *)
(* the bytes from + 1 .. from + len of its stream.                          *)
(***************************************************************************)
EXTENDS Integers, Sequences, FiniteSets, SequencesExt

CONSTANTS
    MaxChannels,  \* bound: channel numbers, on each side
    Window,       \* LIBSSH2_CHANNEL_WINDOW_DEFAULT
    PacketSize,   \* LIBSSH2_CHANNEL_PACKET_DEFAULT
    MinAdjust,    \* LIBSSH2_CHANNEL_MINADJUST
    TypeCode,     \* what an extended data header has over a data header: 4
    Modulus,      \* of the unsigned arithmetic on windows
    MaxQueue      \* queue_maxsize of the listener, 0 for no maximum

ASSUME SizesAssumption ==
    /\ {MaxChannels, Window, PacketSize, MinAdjust, TypeCode} \subseteq Nat \ {0}
    /\ MaxQueue \in Nat
    /\ Modulus \in Nat /\ Modulus > 2 * Window + TypeCode

Ids == 0 .. MaxChannels - 1
Streams == {0, 1}  \* the standard stream and SSH_EXTENDED_DATA_STDERR
Modes == {"NORMAL", "IGNORE", "MERGE"}

Wrap(n) == n % Modulus

\* struct _LIBSSH2_CHANNEL, and the bytes of each stream the application has had
\* (taken) or that were discarded on its behalf. skewed marks a channel on which
\* a miscounted refund was made, origin how it came to be.
NewChannel(origin, remote_id, local_window, remote_window) ==
    [origin |-> origin, remote_id |-> remote_id, blocking |-> FALSE,
     local |-> [window |-> local_window, eof |-> FALSE, close |-> FALSE],
     remote |-> [window |-> remote_window, eof |-> FALSE, close |-> FALSE],
     mode |-> "NORMAL", adjust_queue |-> 0, exit_status |-> 0,
     taken |-> [st \in Streams |-> 0], skewed |-> FALSE]

NoChannel == NewChannel("none", 0, 0, 0)
NoListener == [on |-> FALSE, queue |-> <<>>, queue_size |-> 0]

----------------------------------------------------------------------------
(* Packets *)

Msg(type, ch) == [type |-> type, ch |-> ch]
DataTypes == {"DATA", "EXTENDED"}
Data(ch, st, from, len) ==
    [type |-> IF st = 0 THEN "DATA" ELSE "EXTENDED", ch |-> ch,
     from |-> from, len |-> len, head |-> 0]
StreamOf(p) == IF p.type = "DATA" THEN 0 ELSE 1
Adjust(ch, bytes) == [type |-> "ADJUST", ch |-> ch, bytes |-> bytes]
Confirm(ch, sender, window) ==
    [type |-> "CONFIRM", ch |-> ch, sender |-> sender, window |-> window]
Open(kind, sender, window) ==
    [type |-> "OPEN", kind |-> kind, sender |-> sender, window |-> window]
Request(ch, kind) == [type |-> "REQUEST", ch |-> ch, kind |-> kind]

IsDataOf(p, c) == p.type \in DataTypes /\ p.ch = c

\* packet_write: a write on a socket that is gone fails and has no effect; one to a
\* server that has closed the connection is still taken.
CanWrite(s) == s.link # "reset"
PacketWrite(s, p) == IF CanWrite(s) THEN [s EXCEPT !.out = Append(@, p)] ELSE s

\* packet_ask without polling: the first packet of the type, for the channel, in
\* the order of arrival; 0 if there is none. askv looks type by type.
Ask(brigade, type, c) ==
    SelectInSeq(brigade, LAMBDA p : p.type = type /\ (c = -1 \/ p.ch = c))
Askv(brigade, types, c) ==
    LET found == SelectInSeq(types, LAMBDA t : Ask(brigade, t, c) # 0)
    IN  IF found = 0 THEN 0 ELSE Ask(brigade, types[found], c)

----------------------------------------------------------------------------
(* Channels of a session *)

\* channel_locate looks in session->channels only: a channel that waits in a
\* listener's queue is not found.
Located(s, c) == c \in ToSet(s.channels)

NextId(s) == Max({s.next_channel} \cup ToSet(s.channels))

\* Seeded fault: a channel's number is not set aside.
TakeIdAgain(s) == [s EXCEPT !.next_channel = NextId(s)]
TakeId(s) == [s EXCEPT !.next_channel = NextId(s) + 1]

\* channel_receive_window_adjust: small refunds wait in adjust_queue.
\* Seeded fault: what waited is sent, and stays.
ReceiveWindowAdjustTwice(s, c, adjustment, force) ==
    LET total == Wrap(adjustment + s.chan[c].adjust_queue) IN
    IF (~force /\ total < MinAdjust) \/ total = 0 \/ ~CanWrite(s)
    THEN [s EXCEPT !.chan[c].adjust_queue = total]
    ELSE [PacketWrite(s, Adjust(s.chan[c].remote_id, total)) EXCEPT
             !.chan[c].remote.window = Wrap(@ + total)]
ReceiveWindowAdjust(s, c, adjustment, force) ==
    LET total == Wrap(adjustment + s.chan[c].adjust_queue) IN
    IF (~force /\ total < MinAdjust) \/ total = 0 \/ ~CanWrite(s)
    THEN [s EXCEPT !.chan[c].adjust_queue = total]
    ELSE [PacketWrite(s, Adjust(s.chan[c].remote_id, total)) EXCEPT
             !.chan[c].adjust_queue = 0,
             !.chan[c].remote.window = Wrap(@ + total)]

----------------------------------------------------------------------------
(* packet_add *)

Enqueue(s, p) == [s EXCEPT !.packets = Append(@, p)]

\* Extended data on a channel that ignores it: refunded at once, although the
\* window has not been shrunk for it.
IgnoreExtended(s, p) ==
    ReceiveWindowAdjust([s EXCEPT !.chan[p.ch].taken[1] = p.from + p.len],
                        p.ch, p.len, FALSE)

\* Data is cut to the packet size, dropped when the window is empty, and cut to
\* the window, which then is not shrunk.
KeepData(s, p) ==
    LET channel == s.chan[p.ch]
        len == IF p.len > PacketSize THEN PacketSize ELSE p.len
    IN  IF channel.remote.window = 0 THEN s
        ELSE IF len > channel.remote.window
        THEN Enqueue([s EXCEPT !.chan[p.ch].remote.eof = FALSE],
                     [p EXCEPT !.len = channel.remote.window])
        ELSE Enqueue([s EXCEPT !.chan[p.ch].remote.eof = FALSE,
                               !.chan[p.ch].remote.window = @ - len],
                     [p EXCEPT !.len = len])

AddData(s, p) ==
    IF ~Located(s, p.ch) THEN s
    ELSE IF p.type = "EXTENDED" /\ s.chan[p.ch].mode = "IGNORE"
    THEN IgnoreExtended(s, p)
    ELSE KeepData(s, p)

AddEof(s, p) ==
    IF Located(s, p.ch) THEN [s EXCEPT !.chan[p.ch].remote.eof = TRUE] ELSE s

AddClose(s, p) ==
    IF Located(s, p.ch)
    THEN [s EXCEPT !.chan[p.ch].remote.close = TRUE, !.chan[p.ch].remote.eof = TRUE]
    ELSE s

AddExitStatus(s, p) ==
    IF Located(s, p.ch) THEN [s EXCEPT !.chan[p.ch].exit_status = 1] ELSE s

AddWindowAdjust(s, p) ==
    IF Located(s, p.ch) THEN [s EXCEPT !.chan[p.ch].local.window = @ + p.bytes] ELSE s

Refuse(s, p) == PacketWrite(s, Msg("FAIL", p.sender))

\* packet_queue_listener. The first of a queue is not counted in queue_size; a
\* confirmation that cannot be written leaves the channel unlinked.
QueueListener(s, p) ==
    LET c == NextId(s)
        l == s.listener
        accepted == [TakeId(s) EXCEPT !.chan[c] =
                        NewChannel("forwarded", p.sender, p.window, Window)]
    IN  IF ~l.on \/ (MaxQueue > 0 /\ MaxQueue <= l.queue_size) THEN Refuse(s, p)
        ELSE IF ~CanWrite(s) THEN TakeId(s)
        ELSE [PacketWrite(accepted, Confirm(p.sender, c, Window)) EXCEPT
                 !.listener.queue = Append(@, c),
                 !.listener.queue_size = IF l.queue = <<>> THEN @ ELSE @ + 1]

\* packet_x11_open: the channel is the application's from the callback on.
X11Open(s, p) ==
    LET c == NextId(s)
        accepted == [TakeId(s) EXCEPT !.chan[c] =
                        NewChannel("x11", p.sender, p.window, Window)]
    IN  IF ~s.x11 THEN Refuse(s, p)
        ELSE IF ~CanWrite(s) THEN TakeId(s)
        ELSE [PacketWrite(accepted, Confirm(p.sender, c, Window)) EXCEPT
                 !.channels = Append(@, c), !.held = @ \cup {c}]

AddOpen(s, p) == IF p.kind = "x11" THEN X11Open(s, p) ELSE QueueListener(s, p)

\* Seeded fault: a disconnect is read and forgotten.
AddDisconnectForgotten(s) == s
AddDisconnect(s) == [s EXCEPT !.socket_state = "DISCONNECTED"]

\* Every other packet waits in the brigade for who asks for it.
PacketAdd(s, p) ==
    CASE p.type = "DISCONNECT" -> AddDisconnect(s)
      [] p.type = "IGNORE" -> s
      [] p.type \in DataTypes -> AddData(s, p)
      [] p.type = "EOF" -> AddEof(s, p)
      [] p.type = "STATUS" -> AddExitStatus(s, p)
      [] p.type = "CLOSE" -> AddClose(s, p)
      [] p.type = "OPEN" -> AddOpen(s, p)
      [] p.type = "ADJUST" -> AddWindowAdjust(s, p)
      [] OTHER -> Enqueue(s, p)
=============================================================================
