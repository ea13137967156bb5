------------------------------ MODULE SSHStream ------------------------------
(***************************************************************************)
(* One channel used as two streams of bytes, which is how sftp.c,           *)
(* publickey.c and scp.c use it: what they read comes in pieces that have   *)
(* nothing to do with the packets of their own protocol.  The window, the   *)
(* brigade and the socket below are SSHChannel's.                           *)
(*                                                                          *)
(* A packet of the protocol above is a record; on its way to us it is cut   *)
(* into units, the smallest pieces that are read apart: the first byte of   *)
(* its length, the rest of it in two, and two halves of a body.             *)
(***************************************************************************)
EXTENDS Integers, Sequences, FiniteSets, SequencesExt

CONSTANTS
    Scenarios,  \* the sessions to look at: records of service, uses and sizes
    MaxCalls    \* bound: calls of a session

ASSUME MaxCallsAssumption == MaxCalls \in Nat

VARIABLES
    scenario,  \* the session that is looked at
    call,      \* the call the application is in
    chan,      \* the channel: what has arrived, what is on the way, what was written
    client,    \* the state the library keeps for the service
    server     \* the state the server keeps for it

vars == <<scenario, call, chan, client, server>>

Uses(name) == name \in scenario.uses

\* A call: its step, the request it made, how far it is in the packet it reads.
Call(fn, step, req) == [fn |-> fn, step |-> step, req |-> req, read |-> 0]
NoRequest == [fn |-> "none", id |-> 0]
Idle == Call("none", "none", NoRequest)
\* The stream is out of step: the length of a packet was read in part, or part of a
\* request was written. Bound: such a session is not followed any further.
Adrift == Call("adrift", "none", NoRequest)
Pending == call.fn \notin {"none", "adrift"}

NewChannel == [open |-> FALSE, blocking |-> FALSE, closed |-> FALSE,
               in |-> <<>>, wire |-> <<>>, out |-> <<>>]

HeaderUnits == 3
PacketUnits == 5
Units(p, n) == [i \in 1 .. n |-> [packet |-> p, part |-> i, of |-> n]]

\* channel_read of n: a read that blocks waits for something, or for the channel to
\* be closed; then as much as there is, and no more than n.
Readable == chan.in # <<>> \/ chan.closed
Count(n) == IF Len(chan.in) < n THEN Len(chan.in) ELSE n
Read(ch, n) == [ch EXCEPT !.in = SubSeq(@, Count(n) + 1, Len(@))]

\* channel_write: a request longer than a packet of the channel is written whole
\* only if the channel blocks.
Fits(req) == req.fn # "write" \/ req.n = 1
WritesAll(req) == chan.blocking \/ Fits(req)
Write(ch, req) == [ch EXCEPT !.out = Append(@, [req |-> req, whole |-> WritesAll(req)])]

\* The server writes packets, n units each.
Sent(ch, packets, n) ==
    [ch EXCEPT !.wire = @ \o [i \in 1 .. n * Len(packets) |->
        [packet |-> packets[1 + ((i - 1) \div n)], part |-> 1 + ((i - 1) % n), of |-> n]]]

\* The connection is lost, by a DISCONNECT or with its socket, and not the channel closed:
\* packet_read has nothing more for the channel, and says so with 0 or -1. What had not
\* arrived yet does not arrive. A request may still be written, to no one.
Lost == Uses("lost") /\ server.gone
\* A call waits for something to read on such a channel; channel_read_ex, which looks for
\* nothing but data and a CLOSE, tries again without end.
Spins == Lost /\ Pending /\ ~Readable

\* Some of what is on the way arrives. Where the server cuts its packets of the
\* channel is up to it: at least, except for "splits", not in a length.
Whole(u) == u.part >= HeaderUnits \/ u.of < HeaderUnits
Arrives ==
    /\ ~Lost
    /\ \E n \in 1 .. Len(chan.wire) :
          /\ Whole(chan.wire[n]) \/ Uses("splits")
          /\ chan' = [chan EXCEPT !.in = @ \o SubSeq(chan.wire, 1, n),
                                  !.wire = SubSeq(@, n + 1, Len(@))]
    /\ UNCHANGED <<scenario, call, client, server>>
\* The server goes away, with all it has written delivered; or the connection is lost.
ServerExits ==
    /\ Uses("exits") \/ Uses("lost")
    /\ chan.open /\ ~server.gone
    /\ server' = [server EXCEPT !.gone = TRUE]
    /\ UNCHANGED <<scenario, call, chan, client>>
CloseArrives ==
    /\ server.gone /\ ~Lost /\ chan.wire = <<>> /\ ~chan.closed
    /\ chan' = [chan EXCEPT !.closed = TRUE]
    /\ UNCHANGED <<scenario, call, client, server>>

\* What the server has to answer next: a request it has all of.
Waiting == chan.out # <<>> /\ Head(chan.out).whole /\ ~server.gone
Received(ch) == [ch EXCEPT !.out = Tail(@)]
=============================================================================
