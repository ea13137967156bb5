------------------------- MODULE SSHSubsystemsProofs -------------------------
(***************************************************************************)
(* For every set of sessions, every bound and whatever the server refuses: *)
(* what is on its way between the two sides belongs to the call that is    *)
(* being made (RepliesAreDue), and the two sides agree on the handles of   *)
(* SFTP (HandlesInStep).  Both rest on SubsystemsInv, which says of every  *)
(* service where the answer to the call is: it is not yet sent, or it is   *)
(* the whole of the stream from where the call reads, or it is in the      *)
(* brigade.                                                                *)
(***************************************************************************)
EXTENDS SSHSubsystems, SequenceTheorems, TLAPS

-----------------------------------------------------------------------------
(* The inductive invariant *)

\* Packets are of many shapes: a sequence of them is one over some set.
IsSeq(s) == \E S : s \in Seq(S)

\* What the library has still to read.
Stream == chan.in \o chan.wire
StreamIsSeq == \E S : chan.in \in Seq(S) /\ chan.wire \in Seq(S)
NothingToRead == chan.in = <<>> /\ chan.wire = <<>>
Asked == NothingToRead /\ chan.out = <<[req |-> call.req, whole |-> TRUE]>>

ChannelFields == {"open", "blocking", "closed", "in", "wire", "out"}
CallFields == {"fn", "step", "req", "read"}
Shaped(clientFields, serverFields) ==
    /\ DOMAIN chan = ChannelFields /\ DOMAIN call = CallFields
    /\ DOMAIN client = clientFields /\ DOMAIN server = serverFields
    /\ server.gone \in BOOLEAN
    /\ StreamIsSeq
    /\ chan.closed => server.gone /\ chan.wire = <<>>
    /\ call.fn = "none" => call = Idle
    /\ call.fn = "adrift" => call = Adrift

-----------------------------------------------------------------------------
(* SFTP *)

Types == {"none", "file", "dir"}
HandleRecords == [type : Types, offset : Int, names_left : Int, given : Int]
SFTPClientFields ==
    {"version", "request_id", "packets", "last_errno", "handles", "known", "calls"}
SFTPServerFields == {"gone", "moved", "attrs", "type"}

\* The library's handles are those of the server.
Agree(handles) ==
    /\ handles \in [Handles -> HandleRecords]
    /\ \A h \in Handles :
        /\ handles[h].type = "none" <=> server.type[h] = "none"
        /\ handles[h].type = "file" => handles[h].offset = server.moved[h]
        /\ handles[h].type = "dir" => handles[h].given + handles[h].names_left = server.moved[h]
ServerTyped == server.moved \in [Handles -> Int] /\ server.type \in [Handles -> Types]

\* A request is about a handle of the type it needs.
RequestFits ==
    LET req == call.req IN
    /\ req.fn = call.fn
    /\ req.fn \in {"read", "write"} =>
          req.h \in Handles /\ client.handles[req.h].type = "file" /\ req.n \in Int
    /\ req.fn = "readdir" =>
          /\ req.h \in Handles /\ client.handles[req.h].type = "dir"
          /\ client.handles[req.h].names_left = 0
    /\ req.fn = "close" => req.h \in Handles

\* What the call makes of the handles with its reply.
HandlesAfter(handles, p) ==
    LET h == call.req.h IN
    IF p.type = "STATUS" /\ p.status # "OK" THEN handles
    ELSE CASE p.type = "HANDLE" ->
                [handles EXCEPT ![p.n] = Handle(IF call.fn = "open" THEN "file" ELSE "dir")]
           [] p.type = "DATA" \/ (p.type = "STATUS" /\ call.fn = "write") ->
                [handles EXCEPT ![h].offset = @ + IF call.fn = "write" THEN call.req.n ELSE p.n]
           [] p.type = "NAME" /\ call.fn = "readdir" ->
                [handles EXCEPT ![h].names_left = p.n - 1, ![h].given = @ + 1]
           [] p.type = "STATUS" /\ call.fn = "close" -> [handles EXCEPT ![h] = NoHandle]
           [] OTHER -> handles
Taken(p) == HandlesAfter(client.handles, p)

Returned == call = Idle /\ NothingToRead /\ chan.out = <<>> /\ client.packets = <<>>
            /\ Agree(client.handles)
Asking == Pending /\ Asked /\ client.packets = <<>> /\ call.read = 0
          /\ Agree(client.handles) /\ RequestFits
Arriving ==
    /\ Pending /\ chan.out = <<>> /\ client.packets = <<>>
    /\ client.handles \in [Handles -> HandleRecords]
    /\ call.read \in 0 .. PacketUnits - 1 /\ Len(Stream) = PacketUnits - call.read
    /\ \A i \in 1 .. Len(Stream) : Stream[i].packet = Stream[1].packet
    /\ Stream[1].packet.id = call.req.id /\ Agree(Taken(Stream[1].packet))
InBrigade ==
    /\ Pending /\ chan.out = <<>> /\ NothingToRead /\ call.read = 0
    /\ client.handles \in [Handles -> HandleRecords]
    /\ client.packets = <<client.packets[1]>>
    /\ client.packets[1].id = call.req.id /\ Agree(Taken(client.packets[1]))
SFTPStage == ServerTyped /\ (Returned \/ Asking \/ Arriving \/ InBrigade)

SFTPInv ==
    /\ Shaped(SFTPClientFields, SFTPServerFields)
    /\ call.read \in 0 .. PacketUnits - 1
    /\ ~server.gone /\ call # Adrift => SFTPStage

-----------------------------------------------------------------------------
(* Public keys *)

PKeyClientFields == {"version", "list", "fetched", "error", "calls"}
PKeyServerFields == {"gone", "keys", "version", "meant"}

\* The units of a packet that were read already.
Begun == IF call.step = "body" THEN HeaderUnits ELSE 0
\* What the server has of the request, if it is there.
OutIs(out) == server.gone \/ chan.out = out
\* The keys 1, 2, ... in order.
InOrder(list) == IsSeq(list) /\ \A i \in DOMAIN list : list[i] = i

\* What the last packet says ends the call, and is what the server meant: keys is how
\* many keys the call will have by then.
EndsCall(p, keys) ==
    /\ p.type \in {"status", "version", "attribute"}
    /\ p.type = "status" /\ p.n = 0 /\ call.fn = "list" /\ ~server.gone => keys = server.keys
    /\ p.type = "status" /\ p.n # 0 => StatusError(p.n, client.version) = server.meant
    /\ p.type = "version" =>
          /\ call.fn = "version" /\ p.n \in Nat \ {0}
          /\ server.version = IF p.n > LIBSSH2_PUBLICKEY_VERSION
                              THEN LIBSSH2_PUBLICKEY_VERSION ELSE p.n
\* Every packet but the last is a key of a list, the next one.
NextKey(p, before) ==
    call.fn = "list" /\ p.type = "publickey" /\ p.n = Len(client.list) + 1 + before
\* p is the packet of unit i of n, the ones that were read included.
UnitFits(p, i, n) ==
    /\ p.id = call.req.id
    /\ i <= n - PacketUnits => NextKey(p, (i - 1) \div PacketUnits)
    /\ i > n - PacketUnits => EndsCall(p, Len(client.list) + (n \div PacketUnits) - 1)
KeysArriving ==
    LET n == Len(Stream) IN
    /\ (n + Begun) % PacketUnits = 0 /\ n > 0
    /\ \A i \in 1 .. n : UnitFits(Stream[i].packet, i + Begun, n + Begun)

PKeyIdle ==
    /\ call = Idle /\ NothingToRead /\ OutIs(<<>>)
    /\ client.fetched /\ ~server.gone => Len(client.list) = server.keys
    /\ client.error \in ToSet(StatusCodes) => client.error = server.meant
PKeyPending ==
    /\ Pending /\ ~client.fetched /\ client.error = "" /\ call.step \in {"length", "body"}
    /\ client.calls # 0 /\ (call.fn = "version" \/ client.version # 0)
PKeyAsked ==
    /\ PKeyPending /\ NothingToRead /\ OutIs(<<[req |-> call.req, whole |-> TRUE]>>)
    /\ call.step = "length" /\ client.list = <<>> /\ call.req.fn = call.fn
PKeyArriving == PKeyPending /\ OutIs(<<>>) /\ KeysArriving
PKeyAdrift == call = Adrift /\ ~client.fetched /\ client.error = "" /\ OutIs(<<>>)

PKeyInv ==
    /\ Shaped(PKeyClientFields, PKeyServerFields)
    /\ server.keys \in Nat /\ server.version \in Nat /\ client.version \in Nat
    /\ InOrder(client.list) /\ client.fetched \in BOOLEAN
    /\ client.version # 0 => client.version = server.version /\ call.fn # "version"
    /\ chan.open /\ ~server.gone => chan.blocking
    /\ client.calls \in Nat /\ (client.calls = 0 => client = PKeyClient)
    /\ PKeyIdle \/ PKeyAsked \/ PKeyArriving \/ PKeyAdrift

-----------------------------------------------------------------------------
(* SCP *)

SCPClientFields == {"moved", "size", "direction", "calls"}
SCPServerFields == {"gone", "next", "got"}

\* What the other side does next, before and after it has answered a step of the call.
Before(step) ==
    CASE step = "T" -> "T" [] step = "C" -> "C" [] step = "ack" -> "ack"
      [] step = "ackT" -> "T" [] step = "ackC" -> "C"
After(step) ==
    CASE step \in {"T", "ackT"} -> "C" [] step \in {"C", "ackC"} -> "file"
      [] step = "ack" -> IF Times THEN "T" ELSE "C"
\* What it answers a step with, and what the library has written for it to answer.
Expected(step) == IF step \in {"T", "C"} THEN step ELSE "ack"
WholeLine(type) == [req |-> Line(type), whole |-> TRUE]
ToAnswer(step) ==
    CASE step \in {"T", "C"} -> <<WholeLine("ack")>> [] step = "ack" -> <<>>
      [] step = "ackT" -> <<WholeLine("T")>> [] step = "ackC" -> <<WholeLine("C")>>

\* A refusal comes behind the answer, and nothing comes behind it.
Refused ==
    /\ server.gone /\ server.next \in {"ack", "T", "C"}
    /\ Stream # <<>> /\ Stream[Len(Stream)].packet.type = "error"
AnswerLen == IF Refused THEN Len(Stream) - 1 ELSE Len(Stream)

\* A step of the call is not answered yet; it is, with all that is there to be read.
StepAsked ==
    server.next = Before(call.step) /\ AnswerLen = 0 /\ chan.out = ToAnswer(call.step)
StepAnswered ==
    /\ server.next = After(call.step) /\ AnswerLen > 0 /\ chan.out = <<>>
    /\ call.fn = "send" => AnswerLen = 1
    /\ \A i \in 1 .. AnswerLen :
          /\ Stream[i].packet = Line(Expected(call.step))
          /\ Stream[i].part = Stream[i].of <=> i = AnswerLen
StepPending ==
    /\ call.fn \in {"recv", "send"} /\ call.req = Ack
    /\ call.step \in IF call.fn = "recv" THEN {"T", "C"} ELSE {"ack", "ackT", "ackC"}
    /\ client.direction = "none" /\ client.moved = 0 /\ server.got = 0
    /\ \A i \in 1 .. Len(Stream) : Stream[i].packet.id = 1
    /\ StepAsked \/ StepAnswered

\* Nothing is done, or no more is; the file may begin; it comes; it goes.
NotOpen ==
    /\ call = Idle /\ client.direction = "none" /\ NothingToRead /\ chan.out = <<>>
    /\ ~chan.open /\ client.moved = 0 /\ server.got = 0
    /\ client.calls = 0 => server.next = "start"
MayBegin ==
    /\ call = Idle /\ client.direction = "recv" /\ server.next = "file"
    /\ NothingToRead /\ chan.out = <<WholeLine("ack")>> /\ client.moved = 0
Receiving ==
    /\ call = Idle /\ client.direction = "recv" /\ server.next = "over" /\ chan.out = <<>>
    /\ client.moved \in Nat /\ client.moved + Len(Stream) = ScpSize
    /\ \A i \in 1 .. Len(Stream) : Stream[i].packet = Line("file")
Sending ==
    /\ call = Idle /\ client.direction = "send" /\ server.next = "file" /\ NothingToRead
    /\ client.moved \in Nat /\ server.got \in Nat
    /\ IsSeq(chan.out) /\ client.moved = server.got + Len(chan.out)
    /\ \A i \in 1 .. Len(chan.out) : chan.out[i].req = Line("file")

SCPInv ==
    /\ Shaped(SCPClientFields, SCPServerFields)
    /\ client.size \in Nat
    /\ client.calls = 0 => call = Idle /\ client.direction = "none"
    /\ NotOpen \/ StepPending \/ MayBegin \/ Receiving \/ Sending

SubsystemsInv ==
    /\ scenario \in Scenarios
    /\ Of("sftp") => SFTPInv
    /\ Of("publickey") => PKeyInv
    /\ Of("scp") => SCPInv

-----------------------------------------------------------------------------
(* The stream *)

\* A sequence over some set is one over a larger one.
LEMMA SeqWidens ==
    ASSUME NEW S, NEW T, NEW s \in Seq(S)
    PROVE  s \in Seq(S \cup T) /\ s \in Seq(T \cup S)
OBVIOUS

\* Where the elements of two sequences in a row are, and those of a part of one.
LEMMA ConcatAt ==
    ASSUME NEW S, NEW a, NEW b, a \in Seq(S), b \in Seq(S), NEW e, e = a \o b
    PROVE  /\ e \in Seq(S) /\ Len(e) = Len(a) + Len(b)
           /\ Len(a) \in Nat /\ Len(b) \in Nat
           /\ \A i \in 1 .. Len(a) : e[i] = a[i]
           /\ \A i \in 1 .. Len(b) : e[Len(a) + i] = b[i]
OBVIOUS

\* Sequences of one length with the same elements are equal.
LEMMA SameSeq ==
    ASSUME NEW S, NEW a, NEW b, a \in Seq(S), b \in Seq(S), Len(a) = Len(b),
           \A i \in 1 .. Len(a) : a[i] = b[i]
    PROVE  a = b
OBVIOUS

\* Of two sequences in a row, n of the second go over to the first.
GoOver(S, a, b, n, c, d, e) ==
    /\ a \in Seq(S) /\ b \in Seq(S) /\ n \in 1 .. Len(b)
    /\ c = SubSeq(b, 1, n) /\ d = SubSeq(b, n + 1, Len(b))
    /\ e = a \o c
WentOver(S, a, b, d, e) == e \in Seq(S) /\ d \in Seq(S) /\ e \o d = a \o b
\* The two in a row are then what they were.
LEMMA MoveOver ==
    ASSUME NEW S, NEW a, NEW b, NEW n, NEW c, NEW d, NEW e, GoOver(S, a, b, n, c, d, e)
    PROVE  WentOver(S, a, b, d, e)
<1> DEFINE x == e \o d
           y == a \o b
<1> /\ a \in Seq(S) /\ b \in Seq(S) /\ n \in 1 .. Len(b)
    /\ c = SubSeq(b, 1, n) /\ d = SubSeq(b, n + 1, Len(b)) /\ e = a \o c
    BY DEF GoOver
<1> x = e \o d /\ y = a \o b OBVIOUS
<1> HIDE DEF x, y
<1>0. /\ Len(a) \in Nat /\ Len(b) \in Nat /\ n \in Int /\ 1 <= n /\ n <= Len(b) OBVIOUS
<1>1. c \in Seq(S) /\ Len(c) = n /\ \A i \in 1 .. n : c[i] = b[i] OBVIOUS
<1>2. d \in Seq(S) /\ Len(d) = Len(b) - n /\ \A i \in 1 .. Len(b) - n : d[i] = b[i + n] OBVIOUS
<1>3. e \in Seq(S) /\ Len(e) = Len(a) + n BY <1>1
<1>t. d \in Seq(S) /\ e \in Seq(S) BY ONLY <1>2, <1>3
<1>4. x \in Seq(S) /\ Len(x) = Len(a) + Len(b)
    <2>1. x \in Seq(S) /\ Len(x) = Len(e) + Len(d) BY ONLY <1>t, x = e \o d
    <2> QED BY ONLY <1>0, <1>2, <1>3, <2>1
<1>5. y \in Seq(S) /\ Len(y) = Len(a) + Len(b) OBVIOUS
<1>6. \A i \in 1 .. Len(a) : e[i] = a[i] BY <1>1
<1>7. \A i \in 1 .. n : e[Len(a) + i] = c[i] BY <1>1
<1>8. \A i \in 1 .. Len(a) + n : x[i] = e[i]
    <2>1. \A i \in 1 .. Len(e) : x[i] = e[i] BY ONLY <1>t, x = e \o d
    <2> QED BY ONLY <1>3, <2>1
<1>9. \A i \in 1 .. Len(b) - n : x[Len(a) + n + i] = d[i]
    <2>1. \A i \in 1 .. Len(d) : x[Len(e) + i] = d[i] BY ONLY <1>t, x = e \o d
    <2> QED BY ONLY <1>0, <1>2, <1>3, <2>1
<1>10. \A i \in 1 .. Len(a) : y[i] = a[i] BY ONLY a \in Seq(S), b \in Seq(S), y = a \o b
<1>11. \A i \in 1 .. Len(b) : y[Len(a) + i] = b[i] BY ONLY a \in Seq(S), b \in Seq(S), y = a \o b
<1>12. ASSUME NEW i \in 1 .. Len(a) + Len(b) PROVE x[i] = y[i]
    <2>1. CASE i <= Len(a)
        <3>1. i \in 1 .. Len(a) /\ i \in 1 .. Len(a) + n
            BY ONLY <1>0, <2>1, i \in 1 .. Len(a) + Len(b)
        <3> QED BY ONLY <1>6, <1>8, <1>10, <3>1
    <2>2. CASE i > Len(a) /\ i <= Len(a) + n
        <3>1. PICK j \in 1 .. n : i = Len(a) + j BY ONLY <1>0, <2>2, i \in 1 .. Len(a) + Len(b)
        <3>2. i \in 1 .. Len(a) + n /\ j \in 1 .. Len(b)
            BY ONLY <1>0, <2>2, <3>1, i \in 1 .. Len(a) + Len(b)
        <3> QED BY ONLY <1>1, <1>7, <1>8, <1>11, <3>1, <3>2
    <2>3. CASE i > Len(a) + n
        <3>0. i - Len(a) - n \in 1 .. Len(b) - n /\ i = Len(a) + n + (i - Len(a) - n)
            BY ONLY <1>0, <2>3, i \in 1 .. Len(a) + Len(b)
        <3>1. PICK j \in 1 .. Len(b) - n : i = Len(a) + n + j BY ONLY <3>0
        <3>2. x[i] = b[j + n] BY ONLY <1>2, <1>9, <3>1
        <3>3. j + n \in 1 .. Len(b) /\ i = Len(a) + (j + n) BY ONLY <1>0, <3>1
        <3> QED BY ONLY <1>11, <3>2, <3>3
    <2>4. i <= Len(a) \/ (i > Len(a) /\ i <= Len(a) + n) \/ i > Len(a) + n
        BY ONLY <1>0, i \in 1 .. Len(a) + Len(b)
    <2> QED BY ONLY <2>1, <2>2, <2>3, <2>4
<1>13. x = y BY ONLY <1>4, <1>5, <1>12, SameSeq
<1> QED BY ONLY <1>2, <1>3, <1>13 DEF x, y, WentOver

\* Of two sequences in a row, k of the first are dropped.
AreDropped(S, a, b, k, d) ==
    a \in Seq(S) /\ b \in Seq(S) /\ k \in 0 .. Len(a) /\ d = SubSeq(a, k + 1, Len(a))
IsRest(x, y, k) ==
    Len(x) = Len(y) - k /\ Len(y) \in Nat /\ \A i \in 1 .. Len(y) - k : x[i] = y[i + k]
\* The two in a row are then without their first k elements.
LEMMA DropFront ==
    ASSUME NEW S, NEW a, NEW b, NEW k, NEW d, AreDropped(S, a, b, k, d),
           NEW x, NEW y, x = d \o b /\ y = a \o b
    PROVE  IsRest(x, y, k) /\ d \in Seq(S)
<1> a \in Seq(S) /\ b \in Seq(S) /\ k \in 0 .. Len(a) /\ d = SubSeq(a, k + 1, Len(a))
    BY DEF AreDropped
<1>0. Len(a) \in Nat /\ Len(b) \in Nat /\ k \in Int /\ 0 <= k /\ k <= Len(a) OBVIOUS
<1>1. d \in Seq(S) BY ONLY <1>0, a \in Seq(S), d = SubSeq(a, k + 1, Len(a))
<1>2. Len(d) = Len(a) - k BY ONLY <1>0, a \in Seq(S), d = SubSeq(a, k + 1, Len(a))
<1>3. \A i \in 1 .. Len(a) - k : d[i] = a[i + k]
    BY ONLY <1>0, a \in Seq(S), d = SubSeq(a, k + 1, Len(a))
<1>4. /\ Len(x) = Len(d) + Len(b)
      /\ \A i \in 1 .. Len(d) : x[i] = d[i]
      /\ \A i \in 1 .. Len(b) : x[Len(d) + i] = b[i]
    BY ONLY <1>1, b \in Seq(S), x = d \o b, ConcatAt
<1>5. /\ Len(y) = Len(a) + Len(b)
      /\ \A i \in 1 .. Len(a) : y[i] = a[i]
      /\ \A i \in 1 .. Len(b) : y[Len(a) + i] = b[i]
    BY ONLY a \in Seq(S), b \in Seq(S), y = a \o b, ConcatAt
<1>6. ASSUME NEW i \in 1 .. Len(y) - k PROVE x[i] = y[i + k]
    <2>1. CASE i <= Len(a) - k
        <3>1. i \in 1 .. Len(a) - k /\ i \in 1 .. Len(d) /\ i + k \in 1 .. Len(a)
            BY ONLY <1>0, <1>2, <1>5, <2>1, i \in 1 .. Len(y) - k
        <3> QED BY ONLY <1>3, <1>4, <1>5, <3>1
    <2>2. CASE i > Len(a) - k
        <3>1. i + k - Len(a) \in 1 .. Len(b) /\ i = Len(d) + (i + k - Len(a))
              /\ i + k = Len(a) + (i + k - Len(a))
            BY ONLY <1>0, <1>2, <1>5, <2>2, i \in 1 .. Len(y) - k
        <3>2. PICK j \in 1 .. Len(b) : i = Len(d) + j /\ i + k = Len(a) + j BY ONLY <3>1
        <3> QED BY ONLY <1>4, <1>5, <3>2
    <2>3. i <= Len(a) - k \/ i > Len(a) - k BY ONLY <1>0, <1>5, i \in 1 .. Len(y) - k
    <2> QED BY ONLY <2>1, <2>2, <2>3
<1>7. Len(x) = Len(y) - k /\ Len(y) \in Nat BY ONLY <1>0, <1>2, <1>4, <1>5
<1> QED BY ONLY <1>1, <1>6, <1>7 DEF IsRest

\* Behind two sequences in a row comes a third.
AreInARow(S, T, a, b, c, d, x, y) ==
    /\ a \in Seq(S) /\ b \in Seq(S) /\ c \in Seq(T)
    /\ d = b \o c /\ x = a \o d /\ y = a \o b
IsBehind(U, a, c, d, x, y) ==
    /\ a \in Seq(U) /\ d \in Seq(U)
    /\ Len(x) = Len(y) + Len(c) /\ Len(y) \in Nat /\ Len(c) \in Nat
    /\ \A i \in 1 .. Len(y) : x[i] = y[i]
    /\ \A i \in 1 .. Len(c) : x[Len(y) + i] = c[i]
\* The three in a row are the two, and then the third.
LEMMA PutBehind ==
    ASSUME NEW S, NEW T, NEW a, NEW b, NEW c, NEW d, NEW x, NEW y,
           AreInARow(S, T, a, b, c, d, x, y)
    PROVE  IsBehind(S \cup T, a, c, d, x, y)
<1> /\ a \in Seq(S) /\ b \in Seq(S) /\ c \in Seq(T)
    /\ d = b \o c /\ x = a \o d /\ y = a \o b
    BY DEF AreInARow
<1>1. a \in Seq(S \cup T) /\ b \in Seq(S \cup T) BY ONLY a \in Seq(S), b \in Seq(S), SeqWidens
<1>2. c \in Seq(S \cup T) BY ONLY c \in Seq(T), SeqWidens
<1> DEFINE U == S \cup T
<1> HIDE DEF U
<1>3. a \in Seq(U) /\ b \in Seq(U) /\ c \in Seq(U) BY <1>1, <1>2 DEF U
<1>4. /\ d \in Seq(U) /\ Len(d) = Len(b) + Len(c)
      /\ Len(b) \in Nat /\ Len(c) \in Nat
      /\ \A i \in 1 .. Len(b) : d[i] = b[i]
      /\ \A i \in 1 .. Len(c) : d[Len(b) + i] = c[i]
    BY ONLY <1>3, d = b \o c, ConcatAt
<1>t. d \in Seq(U) BY ONLY <1>4
<1>5. /\ Len(x) = Len(a) + Len(d) /\ Len(a) \in Nat
      /\ \A i \in 1 .. Len(a) : x[i] = a[i]
      /\ \A i \in 1 .. Len(d) : x[Len(a) + i] = d[i]
    BY ONLY <1>3, <1>t, x = a \o d, ConcatAt
<1>6. /\ Len(y) = Len(a) + Len(b)
      /\ \A i \in 1 .. Len(a) : y[i] = a[i]
      /\ \A i \in 1 .. Len(b) : y[Len(a) + i] = b[i]
    BY ONLY <1>3, y = a \o b, ConcatAt
<1>7. ASSUME NEW i \in 1 .. Len(y) PROVE x[i] = y[i]
    <2>1. CASE i <= Len(a)
        <3>1. i \in 1 .. Len(a) BY ONLY <1>4, <1>5, <1>6, <2>1, i \in 1 .. Len(y)
        <3> QED BY ONLY <1>5, <1>6, <3>1
    <2>2. CASE i > Len(a)
        <3>1. i - Len(a) \in 1 .. Len(b) /\ i - Len(a) \in 1 .. Len(d)
              /\ i = Len(a) + (i - Len(a))
            BY ONLY <1>4, <1>5, <1>6, <2>2, i \in 1 .. Len(y)
        <3>2. PICK j \in 1 .. Len(b) : j \in 1 .. Len(d) /\ i = Len(a) + j BY ONLY <3>1
        <3> QED BY ONLY <1>4, <1>5, <1>6, <3>2
    <2>3. i <= Len(a) \/ i > Len(a) BY ONLY <1>4, <1>5, <1>6, i \in 1 .. Len(y)
    <2> QED BY ONLY <2>1, <2>2, <2>3
<1>8. ASSUME NEW i \in 1 .. Len(c) PROVE x[Len(y) + i] = c[i]
    <2>1. Len(b) + i \in 1 .. Len(d) /\ Len(y) + i = Len(a) + (Len(b) + i)
        BY ONLY <1>4, <1>5, <1>6, i \in 1 .. Len(c)
    <2>2. PICK j \in 1 .. Len(d) : j = Len(b) + i /\ Len(y) + i = Len(a) + j BY ONLY <2>1
    <2> QED BY ONLY <1>4, <1>5, <2>2, i \in 1 .. Len(c)
<1>9. Len(x) = Len(y) + Len(c) /\ Len(y) \in Nat BY ONLY <1>4, <1>5, <1>6
<1>10. IsBehind(U, a, c, d, x, y) BY ONLY <1>3, <1>4, <1>t, <1>7, <1>8, <1>9 DEF IsBehind
<1> QED BY <1>10 DEF U

\* What there is to read, and what is read first.
LEMMA ReadFirst ==
    ASSUME NEW a, NEW b, \E S : a \in Seq(S) /\ b \in Seq(S), NEW e, e = a \o b
    PROVE  /\ Len(e) \in Nat /\ Len(a) \in Nat /\ Len(a) <= Len(e)
           /\ (a = <<>> /\ b = <<>>) <=> Len(e) = 0
           /\ (a = <<>> /\ b = <<>>) <=> e = <<>>
           /\ a # <<>> => Len(a) > 0 /\ Head(a) = e[1]
           /\ b = <<>> => Len(a) = Len(e)
<1>1. PICK S : a \in Seq(S) /\ b \in Seq(S) OBVIOUS
<1>2. /\ e \in Seq(S) /\ Len(e) = Len(a) + Len(b) /\ Len(a) \in Nat /\ Len(b) \in Nat
      /\ \A i \in 1 .. Len(a) : e[i] = a[i]
    BY ONLY <1>1, e = a \o b, ConcatAt
<1>3. (a = <<>> <=> Len(a) = 0) /\ (b = <<>> <=> Len(b) = 0) /\ (e = <<>> <=> Len(e) = 0)
    BY ONLY <1>1, <1>2
<1>4. ASSUME a # <<>> PROVE Len(a) > 0 /\ Head(a) = e[1]
    <2>1. Len(a) > 0 /\ 1 \in 1 .. Len(a) BY ONLY <1>2, <1>3, <1>4
    <2>2. Head(a) = a[1] BY ONLY <1>1, <1>4
    <2> QED BY ONLY <1>2, <2>1, <2>2
<1>5. /\ Len(e) \in Nat /\ Len(a) \in Nat /\ Len(a) <= Len(e)
      /\ (a = <<>> /\ b = <<>>) <=> Len(e) = 0
      /\ b = <<>> => Len(a) = Len(e)
    BY ONLY <1>2, <1>3
<1> QED BY ONLY <1>3, <1>4, <1>5

\* What there is to read, and whether it has arrived.
LEMMA StreamFacts ==
    ASSUME StreamIsSeq
    PROVE  /\ Len(Stream) \in Nat /\ Len(chan.in) \in Nat /\ Len(chan.in) <= Len(Stream)
           /\ NothingToRead <=> Len(Stream) = 0
           /\ NothingToRead <=> Stream = <<>>
           /\ chan.in # <<>> => Len(chan.in) > 0 /\ Head(chan.in) = Stream[1]
           /\ chan.wire = <<>> => Len(chan.in) = Len(Stream)
<1> DEFINE a == chan.in
           b == chan.wire
           e == Stream
<1>1. (\E S : a \in Seq(S) /\ b \in Seq(S)) /\ e = a \o b BY DEF StreamIsSeq, Stream
<1>2. NothingToRead <=> a = <<>> /\ b = <<>> BY DEF NothingToRead
<1> HIDE DEF a, b, e
<1>3. /\ Len(e) \in Nat /\ Len(a) \in Nat /\ Len(a) <= Len(e)
      /\ (a = <<>> /\ b = <<>>) <=> Len(e) = 0
      /\ (a = <<>> /\ b = <<>>) <=> e = <<>>
      /\ a # <<>> => Len(a) > 0 /\ Head(a) = e[1]
      /\ b = <<>> => Len(a) = Len(e)
    BY ONLY <1>1, ReadFirst
<1> QED BY ONLY <1>2, <1>3 DEF a, b, e

\* The same after a step.
LEMMA StreamFactsNext ==
    ASSUME StreamIsSeq'
    PROVE  /\ Len(Stream') \in Nat /\ (NothingToRead' <=> Len(Stream') = 0)
           /\ NothingToRead' <=> Stream' = <<>>
<1> DEFINE a == chan'.in
           b == chan'.wire
           e == Stream'
<1>1. (\E S : a \in Seq(S) /\ b \in Seq(S)) /\ e = a \o b BY DEF StreamIsSeq, Stream
<1>2. NothingToRead' <=> a = <<>> /\ b = <<>> BY DEF NothingToRead
<1> HIDE DEF a, b, e
<1>3. /\ Len(e) \in Nat
      /\ (a = <<>> /\ b = <<>>) <=> Len(e) = 0
      /\ (a = <<>> /\ b = <<>>) <=> e = <<>>
    BY ONLY <1>1, ReadFirst
<1> QED BY ONLY <1>2, <1>3 DEF e

\* The library reads n: it gets no more than there is.
LEMMA StreamRead ==
    ASSUME StreamIsSeq, NEW n \in Nat,
           chan'.in = SubSeq(chan.in, Count(n) + 1, Len(chan.in)), chan'.wire = chan.wire
    PROVE  /\ StreamIsSeq'
           /\ Count(n) \in Nat /\ Count(n) <= n /\ Count(n) <= Len(chan.in)
           /\ Count(n) = n \/ Count(n) = Len(chan.in)
           /\ Len(Stream') = Len(Stream) - Count(n)
           /\ \A i \in 1 .. Len(Stream) - Count(n) : Stream'[i] = Stream[i + Count(n)]
<1>1. PICK S : chan.in \in Seq(S) /\ chan.wire \in Seq(S) BY DEF StreamIsSeq
<1> DEFINE a == chan.in
           b == chan.wire
           d == chan'.in
           x == Stream'
           y == Stream
           k == Count(n)
<1>2. a \in Seq(S) /\ b \in Seq(S) BY <1>1
<1>3. y = a \o b /\ x = d \o b /\ d = SubSeq(a, k + 1, Len(a)) BY DEF Stream
<1>4. Len(a) \in Nat /\ k = IF Len(a) < n THEN Len(a) ELSE n BY <1>2 DEF Count
<1>5. chan'.in = d /\ chan'.wire = b OBVIOUS
<1> HIDE DEF a, b, d, x, y, k
<1>6. k \in 0 .. Len(a) /\ k \in Nat /\ k <= n /\ k <= Len(a) /\ (k = n \/ k = Len(a))
    BY ONLY <1>4, n \in Nat
<1>7. /\ d \in Seq(S) /\ Len(x) = Len(y) - k
      /\ \A i \in 1 .. Len(y) - k : x[i] = y[i + k]
    <2>1. AreDropped(S, a, b, k, d) BY ONLY <1>2, <1>3, <1>6 DEF AreDropped
    <2>2. IsRest(x, y, k) /\ d \in Seq(S) BY ONLY <1>3, <2>1, DropFront
    <2> QED BY ONLY <2>2 DEF IsRest
<1>8. StreamIsSeq' BY ONLY <1>2, <1>5, <1>7 DEF StreamIsSeq
<1> QED BY ONLY <1>6, <1>7, <1>8 DEF a, x, y, k

\* Some of what is on the way arrives: there is as much to read as there was.
LEMMA StreamArrives ==
    ASSUME StreamIsSeq, DOMAIN chan = ChannelFields, Arrives
    PROVE  /\ StreamIsSeq' /\ Stream' = Stream /\ ~NothingToRead
           /\ DOMAIN chan' = ChannelFields /\ chan'.out = chan.out /\ chan'.open = chan.open
           /\ chan'.blocking = chan.blocking /\ chan'.closed = chan.closed
           /\ UNCHANGED <<scenario, call, client, server>>
<1>1. PICK S : chan.in \in Seq(S) /\ chan.wire \in Seq(S) BY DEF StreamIsSeq
<1>2. PICK n \in 1 .. Len(chan.wire) :
        chan' = [chan EXCEPT !.in = @ \o SubSeq(chan.wire, 1, n),
                             !.wire = SubSeq(@, n + 1, Len(@))]
    BY DEF Arrives
<1>3. /\ DOMAIN chan' = ChannelFields /\ chan'.out = chan.out /\ chan'.open = chan.open
      /\ chan'.blocking = chan.blocking /\ chan'.closed = chan.closed
      /\ chan'.in = chan.in \o SubSeq(chan.wire, 1, n)
      /\ chan'.wire = SubSeq(chan.wire, n + 1, Len(chan.wire))
    BY <1>2 DEF ChannelFields
<1>4. UNCHANGED <<scenario, call, client, server>> BY DEF Arrives
<1> DEFINE a == chan.in
           b == chan.wire
           c == SubSeq(b, 1, n)
           d == chan'.wire
           e == chan'.in
           x == Stream'
           y == Stream
<1>5. a \in Seq(S) /\ b \in Seq(S) /\ n \in 1 .. Len(b) BY <1>1
<1>6. /\ c = SubSeq(b, 1, n) /\ d = SubSeq(b, n + 1, Len(b)) /\ e = a \o c
      /\ x = e \o d /\ y = a \o b
    BY <1>3 DEF Stream
<1>7. e = chan'.in /\ d = chan'.wire OBVIOUS
<1>8. NothingToRead => b = <<>> BY DEF NothingToRead
<1> HIDE DEF a, b, c, d, e, x, y
<1>9. e \in Seq(S) /\ d \in Seq(S) /\ x = y
    <2>1. GoOver(S, a, b, n, c, d, e) BY ONLY <1>5, <1>6 DEF GoOver
    <2>2. WentOver(S, a, b, d, e) BY ONLY <2>1, MoveOver
    <2>3. x = e \o d /\ y = a \o b BY ONLY <1>6
    <2> QED BY ONLY <2>2, <2>3 DEF WentOver
<1>10. StreamIsSeq' BY ONLY <1>7, <1>9 DEF StreamIsSeq
<1>11. b # <<>> BY ONLY <1>5
<1>12. x = y BY ONLY <1>9
<1> QED BY ONLY <1>3, <1>4, <1>8, <1>10, <1>11, <1>12 DEF x, y

\* The server writes units.
LEMMA StreamSent ==
    ASSUME StreamIsSeq, NEW T, NEW units, units \in Seq(T),
           chan'.in = chan.in, chan'.wire = chan.wire \o units
    PROVE  /\ StreamIsSeq' /\ Len(units) \in Nat
           /\ Len(Stream') = Len(Stream) + Len(units)
           /\ \A i \in 1 .. Len(Stream) : Stream'[i] = Stream[i]
           /\ \A i \in 1 .. Len(units) : Stream'[Len(Stream) + i] = units[i]
<1>1. PICK S : chan.in \in Seq(S) /\ chan.wire \in Seq(S) BY DEF StreamIsSeq
<1> DEFINE a == chan.in
           b == chan.wire
           d == chan'.wire
           x == Stream'
           y == Stream
           U == S \cup T
<1>2. a \in Seq(S) /\ b \in Seq(S) BY <1>1
<1>3. y = a \o b /\ x = a \o d /\ d = b \o units BY DEF Stream
<1>4. chan'.in = a /\ chan'.wire = d OBVIOUS
<1> HIDE DEF a, b, d, x, y
<1>5. /\ a \in Seq(S \cup T) /\ d \in Seq(S \cup T) /\ Len(units) \in Nat
      /\ Len(x) = Len(y) + Len(units)
      /\ \A i \in 1 .. Len(y) : x[i] = y[i]
      /\ \A i \in 1 .. Len(units) : x[Len(y) + i] = units[i]
    <2>1. AreInARow(S, T, a, b, units, d, x, y)
        BY ONLY <1>2, <1>3, units \in Seq(T) DEF AreInARow
    <2>2. IsBehind(S \cup T, a, units, d, x, y) BY ONLY <2>1, PutBehind
    <2> QED BY ONLY <2>2 DEF IsBehind
<1>6. a \in Seq(U) /\ d \in Seq(U) BY <1>5
<1> HIDE DEF U
<1>7. StreamIsSeq' BY ONLY <1>4, <1>6 DEF StreamIsSeq
<1> QED BY ONLY <1>5, <1>7 DEF x, y

\* The library reads: only what has arrived changes, and whether the channel blocks.
LEMMA ChannelRead ==
    ASSUME StreamIsSeq, DOMAIN chan = ChannelFields, NEW n \in Nat, NEW b,
           chan' = Read(chan, n) \/ chan' = [Read(chan, n) EXCEPT !.blocking = b]
    PROVE  /\ DOMAIN chan' = ChannelFields /\ UNCHANGED <<chan.open, chan.closed, chan.out>>
           /\ chan'.blocking \in {chan.blocking, b} /\ chan'.wire = chan.wire
           /\ chan' = Read(chan, n) => chan'.blocking = chan.blocking
           /\ StreamIsSeq'
           /\ Count(n) \in Nat /\ Count(n) <= n /\ Count(n) <= Len(chan.in)
           /\ Count(n) = n \/ Count(n) = Len(chan.in)
           /\ Len(Stream') = Len(Stream) - Count(n)
           /\ \A i \in 1 .. Len(Stream) - Count(n) : Stream'[i] = Stream[i + Count(n)]
<1> DEFINE k == Count(n)
<1> HIDE DEF k
<1>1. /\ DOMAIN chan' = ChannelFields /\ UNCHANGED <<chan.open, chan.closed, chan.out>>
      /\ chan'.blocking \in {chan.blocking, b} /\ chan'.wire = chan.wire
      /\ chan' = Read(chan, n) => chan'.blocking = chan.blocking
      /\ chan'.in = SubSeq(chan.in, k + 1, Len(chan.in))
    BY DEF ChannelFields, Read, k
<1>2. chan'.in = SubSeq(chan.in, Count(n) + 1, Len(chan.in)) /\ chan'.wire = chan.wire
    BY ONLY <1>1 DEF k
<1>3. /\ StreamIsSeq'
      /\ Count(n) \in Nat /\ Count(n) <= n /\ Count(n) <= Len(chan.in)
      /\ Count(n) = n \/ Count(n) = Len(chan.in)
      /\ Len(Stream') = Len(Stream) - Count(n)
      /\ \A i \in 1 .. Len(Stream) - Count(n) : Stream'[i] = Stream[i + Count(n)]
    BY ONLY StreamIsSeq, n \in Nat, <1>2, StreamRead
<1> QED BY ONLY <1>1, <1>3

\* A whole request is answered, when there is nothing else to read.
LEMMA StreamAnswered ==
    ASSUME StreamIsSeq, DOMAIN chan = ChannelFields, NothingToRead,
           NEW x, chan.out = <<x>>, NEW packets, NEW m \in Nat, Len(packets) = m,
           chan' = Sent(Received(chan), packets, PacketUnits)
    PROVE  /\ StreamIsSeq' /\ DOMAIN chan' = ChannelFields /\ chan'.out = <<>>
           /\ UNCHANGED <<chan.open, chan.closed, chan.blocking>>
           /\ Len(Stream') = 5 * m
           /\ \A i \in 1 .. 5 * m : Stream'[i].packet = packets[1 + ((i - 1) \div 5)]
<1> DEFINE U(i) == [packet |-> packets[1 + ((i - 1) \div 5)], part |-> 1 + ((i - 1) % 5), of |-> 5]
           N == 5 * m
           units == [i \in 1 .. N |-> U(i)]
           T == {U(i) : i \in 1 .. N}
<1>1. /\ DOMAIN chan' = ChannelFields /\ UNCHANGED <<chan.open, chan.closed, chan.blocking>>
      /\ chan'.out = Tail(chan.out) /\ chan'.in = chan.in
      /\ chan'.wire = chan.wire \o units
    BY DEF Sent, Received, ChannelFields, PacketUnits
<1>2. chan'.out = <<>> BY <1>1
<1>3. N \in Nat OBVIOUS
<1>4. \A i \in 1 .. N : U(i).packet = packets[1 + ((i - 1) \div 5)] OBVIOUS
<1> HIDE DEF U, N
<1>5. units \in Seq(T) /\ Len(units) = N /\ \A i \in 1 .. N : units[i] = U(i) BY <1>3
<1> HIDE DEF units, T
<1>6. /\ StreamIsSeq' /\ Len(Stream') = Len(Stream) + Len(units)
      /\ \A i \in 1 .. Len(units) : Stream'[Len(Stream) + i] = units[i]
    <2>1. units \in Seq(T) /\ chan'.in = chan.in /\ chan'.wire = chan.wire \o units
        BY ONLY <1>1, <1>5
    <2> QED BY ONLY StreamIsSeq, <2>1, StreamSent
<1>7. Len(Stream) = 0 BY StreamFacts
<1>8. Len(Stream') = N BY <1>3, <1>5, <1>6, <1>7
<1>9. ASSUME NEW i \in 1 .. N PROVE Stream'[i].packet = packets[1 + ((i - 1) \div 5)]
    <2>1. i \in 1 .. Len(units) /\ 0 + i = i BY <1>3, <1>5
    <2>2. Stream'[i] = units[i] BY <1>6, <1>7, <2>1
    <2> QED BY <1>4, <1>5, <2>2
<1> QED BY <1>1, <1>2, <1>6, <1>8, <1>9 DEF N

\* The library writes a request: nothing that it reads changes.
LEMMA ChannelWrites ==
    ASSUME StreamIsSeq, DOMAIN chan = ChannelFields, NEW req,
           \/ chan' = Write(chan, req)
           \/ chan' = Write([chan EXCEPT !.open = TRUE, !.blocking = TRUE], req)
    PROVE  /\ StreamIsSeq' /\ DOMAIN chan' = ChannelFields /\ UNCHANGED <<Stream, NothingToRead>>
           /\ chan'.in = chan.in /\ chan'.wire = chan.wire /\ chan'.closed = chan.closed
           /\ chan'.out = Append(chan.out, [req |-> req, whole |-> WritesAll(req)])
           /\ \/ chan'.open = chan.open /\ chan'.blocking = chan.blocking
              \/ chan'.open /\ chan'.blocking
<1>1. /\ DOMAIN chan' = ChannelFields
      /\ chan'.in = chan.in /\ chan'.wire = chan.wire /\ chan'.closed = chan.closed
      /\ chan'.out = Append(chan.out, [req |-> req, whole |-> WritesAll(req)])
      /\ \/ chan'.open = chan.open /\ chan'.blocking = chan.blocking
         \/ chan'.open /\ chan'.blocking
    BY DEF Write, ChannelFields
<1>2. StreamIsSeq' BY <1>1 DEF StreamIsSeq
<1>3. UNCHANGED <<Stream, NothingToRead>> BY <1>1 DEF Stream, NothingToRead
<1> QED BY <1>1, <1>2, <1>3

\* A channel that is freed is empty.
LEMMA ChannelFreed ==
    ASSUME chan' = [NewChannel EXCEPT !.closed = TRUE]
    PROVE  /\ StreamIsSeq' /\ DOMAIN chan' = ChannelFields /\ NothingToRead' /\ chan'.out = <<>>
           /\ chan'.wire = <<>> /\ ~chan'.open /\ ~chan'.blocking /\ Stream' = <<>>
           /\ chan'.in = <<>>
<1>1. /\ DOMAIN chan' = ChannelFields /\ chan'.in = <<>> /\ chan'.wire = <<>>
      /\ chan'.out = <<>> /\ ~chan'.open /\ ~chan'.blocking
    BY DEF NewChannel, ChannelFields
<1>2. <<>> \in Seq({}) OBVIOUS
<1>3. StreamIsSeq' BY <1>1, <1>2 DEF StreamIsSeq
<1>4. NothingToRead' BY <1>1 DEF NothingToRead
<1>5. Stream' = <<>> BY <1>3, <1>4, StreamFactsNext
<1> QED BY <1>1, <1>3, <1>4, <1>5

\* Nothing is read or written: what is on its way comes nearer, or the server goes away.
Carried ==
    /\ UNCHANGED <<scenario, call, client>>
    /\ DOMAIN chan' = ChannelFields /\ StreamIsSeq' /\ Stream' = Stream
    /\ NothingToRead' <=> NothingToRead
    /\ chan'.out = chan.out /\ chan'.open = chan.open /\ chan'.blocking = chan.blocking
    /\ chan'.closed => server'.gone /\ chan'.wire = <<>>
    /\ DOMAIN server' = DOMAIN server /\ server'.gone \in BOOLEAN
    /\ server.gone => server'.gone
    /\ \A f \in DOMAIN server \ {"gone"} : server'[f] = server[f]
    /\ UNCHANGED server \/ (server'.gone /\ ~server.gone)
\* It is what a delivery does, an exit of the server, and no step at all.
LEMMA CarriedOn ==
    ASSUME NEW cf, NEW sf, Shaped(cf, sf), "gone" \in sf,
           Delivers \/ ServerExits \/ UNCHANGED vars
    PROVE  Carried
<1>1. /\ DOMAIN chan = ChannelFields /\ DOMAIN server = sf /\ server.gone \in BOOLEAN
      /\ StreamIsSeq /\ (chan.closed => server.gone /\ chan.wire = <<>>)
    BY DEF Shaped
<1>2. CASE Arrives
    <2>1. /\ StreamIsSeq' /\ Stream' = Stream /\ ~NothingToRead
          /\ DOMAIN chan' = ChannelFields /\ chan'.out = chan.out /\ chan'.open = chan.open
          /\ chan'.blocking = chan.blocking /\ chan'.closed = chan.closed
          /\ UNCHANGED <<scenario, call, client, server>>
        BY <1>1, <1>2, StreamArrives
    <2>2. chan.wire # <<>> BY <1>2 DEF Arrives
    <2>3. NothingToRead' <=> NothingToRead
        <3>1. Stream' # <<>> BY <1>1, <2>1, StreamFacts
        <3> QED BY <2>1, <3>1, StreamFactsNext
    <2> QED BY <1>1, <2>1, <2>2, <2>3 DEF Carried
<1>3. CASE CloseArrives
    <2>1. /\ chan' = [chan EXCEPT !.closed = TRUE] /\ server.gone /\ chan.wire = <<>>
          /\ UNCHANGED <<scenario, call, client, server>>
        BY <1>3 DEF CloseArrives
    <2>2. /\ DOMAIN chan' = ChannelFields /\ chan'.in = chan.in /\ chan'.wire = chan.wire
          /\ chan'.out = chan.out /\ chan'.open = chan.open /\ chan'.blocking = chan.blocking
        BY <1>1, <2>1 DEF ChannelFields
    <2>3. StreamIsSeq' /\ Stream' = Stream /\ (NothingToRead' <=> NothingToRead)
        BY <1>1, <2>2 DEF StreamIsSeq, Stream, NothingToRead
    <2> QED BY <1>1, <2>1, <2>2, <2>3 DEF Carried
<1>4. CASE ServerExits
    <2>1. /\ server' = [server EXCEPT !.gone = TRUE] /\ ~server.gone
          /\ UNCHANGED <<scenario, call, chan, client>>
        BY <1>4 DEF ServerExits
    <2>2. /\ DOMAIN server' = DOMAIN server /\ server'.gone = TRUE
          /\ \A f \in DOMAIN server \ {"gone"} : server'[f] = server[f]
        BY <1>1, <2>1
    <2>3. StreamIsSeq' /\ Stream' = Stream /\ (NothingToRead' <=> NothingToRead)
        BY <1>1, <2>1 DEF StreamIsSeq, Stream, NothingToRead
    <2> QED BY <1>1, <2>1, <2>2, <2>3 DEF Carried
<1>5. CASE UNCHANGED vars
    <2>1. UNCHANGED <<scenario, call, chan, client, server>> BY <1>5 DEF vars
    <2>2. StreamIsSeq' /\ Stream' = Stream /\ (NothingToRead' <=> NothingToRead)
        BY <1>1, <2>1 DEF StreamIsSeq, Stream, NothingToRead
    <2> QED BY <1>1, <2>1, <2>2 DEF Carried
<1> QED BY <1>2, <1>3, <1>4, <1>5 DEF Delivers

\* What is the same of every service then.
LEMMA CarriedShape ==
    ASSUME NEW cf, NEW sf, Shaped(cf, sf), Carried
    PROVE  Shaped(cf, sf)'
BY DEF Shaped, Carried

\* No call, and one that is not followed.
LEMMA NoCall ==
    /\ Idle.fn = "none" /\ Idle.step = "none" /\ DOMAIN Idle = CallFields
    /\ Adrift.fn = "adrift" /\ Adrift.step = "none" /\ DOMAIN Adrift = CallFields
    /\ Idle.read = 0 /\ Adrift.read = 0
BY DEF Idle, Adrift, Call, CallFields

-----------------------------------------------------------------------------
(* Public keys *)

\* The keys listed so far and the next one.
LEMMA InOrderAppend ==
    ASSUME NEW s, InOrder(s), NEW x, x = Len(s) + 1
    PROVE  InOrder(Append(s, x)) /\ Len(Append(s, x)) = Len(s) + 1 /\ Len(s) \in Nat
<1>1. PICK S : s \in Seq(S) BY DEF InOrder, IsSeq
<1> DEFINE T == S \cup {x}
           a == Append(s, x)
<1>2. s \in Seq(T) /\ x \in T BY <1>1
<1> HIDE DEF T
<1>3. a \in Seq(T) /\ Len(a) = Len(s) + 1 /\ Len(s) \in Nat BY <1>2
<1>4. \A i \in DOMAIN s : s[i] = i BY DEF InOrder
<1>5. ASSUME NEW i \in DOMAIN a PROVE a[i] = i BY <1>2, <1>4
<1> HIDE DEF a
<1>6. InOrder(a) BY ONLY <1>3, <1>5 DEF InOrder, IsSeq
<1> QED BY ONLY <1>3, <1>6 DEF a

\* No key at all is in order.
LEMMA InOrderEmpty == InOrder(<<>>)
<1>1. <<>> \in Seq({}) OBVIOUS
<1>2. \A i \in DOMAIN <<>> : <<>>[i] = i OBVIOUS
<1> QED BY <1>1, <1>2 DEF InOrder, IsSeq

\* What the library tells the application of its own accord is not what a server says.
LEMMA NotStatusCodes ==
    /\ "" \notin ToSet(StatusCodes)
    /\ "no_response" \notin ToSet(StatusCodes) /\ "invalid_response" \notin ToSet(StatusCodes)
    /\ "unknown" \notin ToSet(StatusCodes)
<1> DEFINE Own == {"", "no_response", "invalid_response", "unknown"}
<1>1. DOMAIN StatusCodes = 1 .. 8 BY DEF StatusCodes
<1>2. /\ StatusCodes[1] \notin Own /\ StatusCodes[2] \notin Own /\ StatusCodes[3] \notin Own
      /\ StatusCodes[4] \notin Own /\ StatusCodes[5] \notin Own /\ StatusCodes[6] \notin Own
      /\ StatusCodes[7] \notin Own /\ StatusCodes[8] \notin Own
    BY DEF StatusCodes
<1> HIDE DEF Own
<1>3. ASSUME NEW i \in 1 .. 8 PROVE StatusCodes[i] \notin Own
    <2>1. i \in {1, 2, 3, 4, 5, 6, 7, 8} OBVIOUS
    <2> QED BY <1>2, <2>1
<1>4. ToSet(StatusCodes) \cap Own = {} BY <1>1, <1>3 DEF ToSet
<1> QED BY <1>4 DEF Own

\* What a server means that refuses.
LEMMA StatusMeanings ==
    ASSUME NEW version
    PROVE  /\ StatusError(1, version) = "access_denied"
           /\ version # 1 => StatusError(6, version) = "key_already_present"
           /\ StatusError(6, 1) = "general_failure"
           /\ StatusError(7, version) = "general_failure"
<1>1. /\ DOMAIN StatusCodes = 1 .. 8 /\ StatusCodes[1] = "access_denied"
      /\ StatusCodes[6] = "key_already_present" /\ StatusCodes[7] = "general_failure"
    BY DEF StatusCodes
<1>2. ASSUME NEW code \in 1 .. 8, code # 6 \/ version # 1
      PROVE  StatusError(code, version) = StatusCodes[code]
    BY <1>1, <1>2 DEF StatusError
<1>3. StatusError(6, 1) = StatusCodes[7]
    <2>1. 7 \in DOMAIN StatusCodes BY <1>1
    <2> QED BY ONLY <2>1 DEF StatusError
<1>4. 1 \in 1 .. 8 /\ 6 \in 1 .. 8 /\ 7 \in 1 .. 8 /\ 1 # 6 /\ 7 # 6 OBVIOUS
<1> QED BY <1>1, <1>2, <1>3, <1>4

\* The length of a packet is read.
LEMMA PacketLengthInv ==
    ASSUME PKeyInv, PacketLength
    PROVE  PKeyInv'
<1> USE DEF PKeyInv, Shaped
<1>0. UNCHANGED <<scenario, server>> /\ call.step = "length" BY DEF PacketLength
<1>1. chan' = Read(chan, 3) BY DEF PacketLength, HeaderUnits
<1> DEFINE k == Count(3)
<1>2. /\ DOMAIN chan' = ChannelFields /\ UNCHANGED <<chan.open, chan.closed, chan.out>>
      /\ chan'.wire = chan.wire /\ chan'.blocking = chan.blocking /\ StreamIsSeq'
      /\ k \in Nat /\ k <= 3 /\ k <= Len(chan.in) /\ (k = 3 \/ k = Len(chan.in))
      /\ Len(Stream') = Len(Stream) - k
      /\ \A i \in 1 .. Len(Stream) - k : Stream'[i] = Stream[i + k]
    BY <1>1, ChannelRead
<1>3. /\ Len(Stream) \in Nat /\ Len(chan.in) \in Nat /\ Len(chan.in) <= Len(Stream)
      /\ NothingToRead <=> Len(Stream) = 0
      /\ NothingToRead' <=> Len(Stream') = 0
    BY <1>2, StreamFacts, StreamFactsNext
<1>4. PKeyAsked \/ PKeyArriving
    <2>1. call # Idle /\ call # Adrift BY <1>0, NoCall
    <2> QED BY <2>1 DEF PKeyIdle, PKeyAdrift
<1>5. PKeyPending /\ Pending BY <1>4 DEF PKeyAsked, PKeyArriving, PKeyPending
<1>6. CASE chan.in = <<>>
    <2>1. chan.closed /\ chan.wire = <<>> /\ server.gone BY <1>6 DEF PacketLength, Readable
    <2>2. call' = Idle /\ client' = [client EXCEPT !.list = <<>>, !.error = "no_response"]
        BY <1>6 DEF PacketLength, PKeyFails
    <2>3. NothingToRead /\ NothingToRead'
        BY <1>2, <1>3, <1>6, <2>1 DEF NothingToRead
    <2>4. PKeyIdle'
        BY <1>0, <2>1, <2>2, <2>3, NotStatusCodes DEF PKeyIdle, OutIs, PKeyClientFields
    <2>5. Shaped(PKeyClientFields, PKeyServerFields)'
        BY <1>0, <1>2, <2>1, <2>2
        DEF PKeyClientFields, Idle, Call, CallFields
    <2> QED BY <1>0, <1>2, <1>5, <2>2, <2>4, <2>5, InOrderEmpty
            DEF PKeyClientFields, Idle, Call, PKeyPending
<1>7. CASE chan.in # <<>>
    <2>1. UNCHANGED client BY <1>7 DEF PacketLength
    <2>2. Len(chan.in) > 0 /\ ~NothingToRead BY <1>7, StreamFacts DEF NothingToRead
    <2>3. PKeyArriving BY <1>4, <2>2 DEF PKeyAsked
    <2>4. CASE k = 3
        <3>1. call' = [call EXCEPT !.step = "body"]
            BY <1>7, <2>4 DEF PacketLength, HeaderUnits
        <3>2. /\ DOMAIN call' = CallFields /\ call'.fn = call.fn /\ call'.req = call.req
              /\ call'.step = "body"
            BY <3>1 DEF CallFields
        <3>3. Begun = 0 /\ Begun' = 3 BY <1>0, <3>2 DEF Begun, HeaderUnits
        <3>4. KeysArriving'
            <4>0. PICK n : n = Len(Stream) OBVIOUS
            <4>1. /\ (n + 0) % 5 = 0 /\ n > 0
                  /\ \A i \in 1 .. n : UnitFits(Stream[i].packet, i + 0, n + 0)
                BY <2>3, <3>3, <4>0 DEF PKeyArriving, KeysArriving, PacketUnits
            <4>2. n \in Nat /\ Len(Stream') = n - 3 BY <1>2, <1>3, <2>4, <4>0
            <4>3. \A i \in 1 .. n - 3 : Stream'[i] = Stream[i + 3] BY <1>2, <2>4, <4>0
            <4>4. ASSUME NEW p, NEW i, NEW m PROVE UnitFits(p, i, m)' <=> UnitFits(p, i, m)
                BY <1>0, <2>1, <3>2 DEF UnitFits, NextKey, EndsCall
            <4>5. n >= 5 /\ n - 3 > 0 /\ ((n - 3) + 3) % 5 = 0 BY ONLY <4>1, <4>2
            <4>6. ASSUME NEW i \in 1 .. n - 3
                  PROVE  UnitFits(Stream[i].packet, i + 3, (n - 3) + 3)'
                <5>1. i + 3 \in 1 .. n /\ (i + 3) + 0 = i + 3 /\ n + 0 = (n - 3) + 3
                    BY ONLY <4>2, i \in 1 .. n - 3
                <5>2. UnitFits(Stream[i + 3].packet, i + 3, (n - 3) + 3)
                    BY ONLY <4>1, <5>1
                <5> QED BY <4>3, <4>4, <5>2
            <4> QED BY <3>3, <4>2, <4>5, <4>6 DEF KeysArriving, PacketUnits
        <3>5. PKeyArriving'
            BY <1>0, <1>2, <2>1, <2>3, <3>2, <3>4
            DEF PKeyArriving, PKeyPending, Pending, OutIs
        <3> QED BY <1>0, <1>2, <1>5, <2>1, <3>2, <3>5 DEF Pending
    <2>5. CASE k # 3
        <3>1. call' = Adrift BY <1>7, <2>5 DEF PacketLength, HeaderUnits
        <3>2. PKeyAdrift' BY <1>0, <1>2, <2>1, <2>3, <3>1
            DEF PKeyAdrift, PKeyArriving, PKeyPending, OutIs
        <3> QED BY <1>0, <1>2, <2>1, <3>1, <3>2 DEF Adrift, Call, CallFields
    <2> QED BY <2>4, <2>5
<1> QED BY <1>6, <1>7

\* The body is read: a key is kept, and another packet comes; or the call ends.
LEMMA PacketBodyInv ==
    ASSUME PKeyInv, PacketBody
    PROVE  PKeyInv'
<1> DEFINE k == Count(2)
<1>0. /\ UNCHANGED <<scenario, server>> /\ call.step = "body" /\ chan.in # <<>>
      /\ chan' = Read(chan, 2)
      /\ IF k < 2 THEN call' = Adrift /\ UNCHANGED client ELSE Response(Head(chan.in).packet)
    BY DEF PacketBody, PacketUnits, HeaderUnits
<1>1. /\ DOMAIN chan = ChannelFields /\ DOMAIN call = CallFields
      /\ DOMAIN client = PKeyClientFields /\ DOMAIN server = PKeyServerFields
      /\ server.gone \in BOOLEAN /\ StreamIsSeq
      /\ chan.closed => server.gone /\ chan.wire = <<>>
      /\ server.keys \in Nat /\ server.version \in Nat /\ client.version \in Nat
      /\ InOrder(client.list) /\ client.fetched \in BOOLEAN
      /\ client.version # 0 => client.version = server.version /\ call.fn # "version"
      /\ chan.open /\ ~server.gone => chan.blocking
      /\ client.calls \in Nat /\ (client.calls = 0 => client = PKeyClient)
    BY DEF PKeyInv, Shaped
<1>2. /\ DOMAIN chan' = ChannelFields /\ UNCHANGED <<chan.open, chan.closed, chan.out>>
      /\ chan'.wire = chan.wire /\ chan'.blocking = chan.blocking /\ StreamIsSeq'
      /\ k \in Nat /\ k <= 2 /\ k <= Len(chan.in) /\ (k = 2 \/ k = Len(chan.in))
      /\ Len(Stream') = Len(Stream) - k
      /\ \A i \in 1 .. Len(Stream) - k : Stream'[i] = Stream[i + k]
    BY <1>0, <1>1, ChannelRead
<1>3. /\ Len(Stream) \in Nat /\ Len(chan.in) \in Nat /\ Len(chan.in) <= Len(Stream)
      /\ Len(chan.in) > 0 /\ Head(chan.in) = Stream[1]
      /\ NothingToRead <=> Len(Stream) = 0
      /\ NothingToRead' <=> Len(Stream') = 0
    BY <1>0, <1>1, <1>2, StreamFacts, StreamFactsNext
<1>4. PKeyArriving
    <2>1. call # Idle /\ call # Adrift BY <1>0, NoCall
    <2> QED BY <1>0, <2>1 DEF PKeyInv, PKeyIdle, PKeyAdrift, PKeyAsked
<1>5. PKeyPending /\ Pending /\ OutIs(<<>>) /\ KeysArriving /\ client.calls # 0
    BY <1>4 DEF PKeyArriving, PKeyPending
<1>9. ~client.fetched /\ client.error = "" /\ client.calls # 0 BY <1>5 DEF PKeyPending
<1>10. server' = server BY <1>0
<1> DEFINE ChannelKept ==
        /\ DOMAIN chan' = ChannelFields /\ StreamIsSeq' /\ OutIs(<<>>)'
        /\ chan'.closed => server'.gone /\ chan'.wire = <<>>
        /\ chan'.open /\ ~server'.gone => chan'.blocking
        /\ server'.gone \in BOOLEAN /\ DOMAIN server' = PKeyServerFields
        /\ server'.keys \in Nat /\ server'.version \in Nat
<1>6. ChannelKept BY <1>0, <1>1, <1>2, <1>5 DEF OutIs
<1> HIDE DEF k, ChannelKept
<1>7. CASE k < 2
    <2>1. call' = Adrift /\ UNCHANGED client BY <1>0, <1>7
    <2>2. PKeyAdrift' BY <1>5, <1>6, <2>1 DEF PKeyAdrift, PKeyPending, ChannelKept
    <2> QED BY <1>0, <1>1, <1>6, <2>1, <2>2, NoCall DEF PKeyInv, Shaped, ChannelKept
<1>8. CASE ~(k < 2)
    <2> DEFINE p == Stream[1].packet
    <2>1. Response(p) BY <1>0, <1>3, <1>8
    <2>2. k = 2 BY <1>2, <1>8
    <2>0. PICK n : n = Len(Stream) OBVIOUS
    <2>3. /\ (n + 3) % 5 = 0 /\ n > 0 /\ n \in Nat
          /\ \A i \in 1 .. n : UnitFits(Stream[i].packet, i + 3, n + 3)
        BY <1>0, <1>3, <1>5, <2>0 DEF KeysArriving, PacketUnits, Begun, HeaderUnits
    <2>4. Len(Stream') = n - 2 /\ \A i \in 1 .. n - 2 : Stream'[i] = Stream[i + 2]
        BY <1>2, <2>0, <2>2
    <2>9. (n + 3) % 5 = 0 /\ n > 0 /\ n \in Nat BY ONLY <2>3
    <2>5. n >= 2 /\ (n # 2 => n >= 7)
        BY ONLY <2>9
    <2>6. UnitFits(p, 4, n + 3)
        <3>1. 1 \in 1 .. n /\ 1 + 3 = 4 BY <2>9
        <3> QED BY ONLY <2>3, <3>1
    <2> HIDE DEF p
    <2>7. CASE n = 2
        <3>1. EndsCall(p, Len(client.list))
            <4>1. /\ 4 > (n + 3) - 5 /\ (n + 3) \div 5 = 1 BY <2>7
            <4>2. Len(client.list) \in Nat BY <1>1 DEF InOrder, IsSeq
            <4>3. Len(client.list) + 1 - 1 = Len(client.list) BY <4>2
            <4> QED BY <2>6, <4>1, <4>3 DEF UnitFits, PacketUnits
        <3>2. NothingToRead' BY <1>3, <2>4, <2>7
        <3>3. ASSUME NEW error, PKeyFails(error),
                     error \in ToSet(StatusCodes) => error = server.meant
              PROVE  PKeyInv'
            <4>1. call' = Idle /\ client' = [client EXCEPT !.list = <<>>, !.error = error]
                BY <3>3 DEF PKeyFails
            <4>2. /\ DOMAIN client' = PKeyClientFields /\ client'.list = <<>>
                  /\ client'.error = error /\ client'.fetched = client.fetched
                  /\ client'.version = client.version /\ client'.calls = client.calls
                BY <1>1, <4>1 DEF PKeyClientFields
            <4>3. PKeyIdle'
                BY <1>6, <1>9, <1>10, <3>2, <3>3, <4>1, <4>2 DEF PKeyIdle, ChannelKept
            <4> QED BY <1>1, <1>6, <1>9, <1>10, <4>1, <4>2, <4>3, NoCall, InOrderEmpty
                    DEF PKeyInv, Shaped, ChannelKept
        <3>4. CASE p.type = "status" /\ p.n = 0 /\ call.fn # "version"
            <4>1. call' = Idle /\ client' = [client EXCEPT !.fetched = call.fn = "list"]
                BY <2>1, <3>4 DEF Response, ResponseCodes, PKeySucceeds
            <4>2. /\ DOMAIN client' = PKeyClientFields /\ client'.list = client.list
                  /\ client'.error = client.error /\ client'.fetched = (call.fn = "list")
                  /\ client'.version = client.version /\ client'.calls = client.calls
                BY <1>1, <4>1 DEF PKeyClientFields
            <4>3. call.fn = "list" /\ ~server.gone => Len(client.list) = server.keys
                BY <3>1, <3>4 DEF EndsCall
            <4>4. PKeyIdle'
                BY <1>6, <1>9, <1>10, <3>2, <4>1, <4>2, <4>3, NotStatusCodes
                DEF PKeyIdle, ChannelKept
            <4> QED BY <1>1, <1>6, <1>9, <1>10, <4>1, <4>2, <4>4, NoCall
                    DEF PKeyInv, Shaped, ChannelKept
        <3>5. CASE p.type = "status" /\ ~(p.n = 0 /\ call.fn # "version")
            <4>1. PKeyFails(StatusError(p.n, client.version))
                BY <2>1, <3>5 DEF Response, ResponseCodes
            <4>2. CASE p.n # 0 BY <3>1, <3>3, <3>5, <4>1, <4>2 DEF EndsCall
            <4>3. CASE p.n = 0
                <5>1. 0 \notin DOMAIN StatusCodes BY DEF StatusCodes
                <5>2. StatusError(p.n, client.version) = "unknown"
                    BY <4>3, <5>1 DEF StatusError
                <5> QED BY <3>3, <4>1, <5>2, NotStatusCodes
            <4> QED BY <4>2, <4>3
        <3>6. CASE p.type = "version"
            <4>1. call.fn = "version" /\ p.n \in Nat \ {0} BY <3>1, <3>6 DEF EndsCall
            <4>2. /\ call' = Idle
                  /\ client' = [client EXCEPT !.version = IF p.n > LIBSSH2_PUBLICKEY_VERSION
                                                   THEN LIBSSH2_PUBLICKEY_VERSION ELSE p.n]
                BY <2>1, <3>6, <4>1 DEF Response, ResponseCodes
            <4>3. /\ DOMAIN client' = PKeyClientFields /\ client'.list = client.list
                  /\ client'.error = client.error /\ client'.fetched = client.fetched
                  /\ client'.version = server.version /\ client'.calls = client.calls
                BY <1>1, <3>1, <3>6, <4>2 DEF PKeyClientFields, EndsCall
            <4>4. PKeyIdle'
                BY <1>6, <1>9, <1>10, <3>2, <4>2, <4>3, NotStatusCodes
                DEF PKeyIdle, ChannelKept
            <4> QED BY <1>1, <1>6, <1>9, <1>10, <4>2, <4>3, <4>4, NoCall
                    DEF PKeyInv, Shaped, ChannelKept
        <3>7. CASE p.type = "attribute"
            <4>1. PKeyFails("invalid_response") BY <2>1, <3>7 DEF Response, ResponseCodes
            <4> QED BY <3>3, <4>1, NotStatusCodes
        <3> QED BY <3>1, <3>4, <3>5, <3>6, <3>7 DEF EndsCall
    <2>8. CASE n # 2
        <3>1. call.fn = "list" /\ p.type = "publickey" /\ p.n = Len(client.list) + 1
            <4>1. 4 <= (n + 3) - 5 /\ (4 - 1) \div 5 = 0 BY <2>3, <2>5, <2>8
            <4>2. NextKey(p, 0) BY <2>6, <4>1 DEF UnitFits, PacketUnits
            <4>3. Len(client.list) \in Nat BY <1>1 DEF InOrder, IsSeq
            <4> QED BY <4>2, <4>3 DEF NextKey
        <3>2. /\ client' = [client EXCEPT !.list = Append(@, p.n)]
              /\ call' = [call EXCEPT !.step = "length"]
            BY <2>1, <3>1 DEF Response, ResponseCodes
        <3>3. /\ DOMAIN client' = PKeyClientFields /\ client'.list = Append(client.list, p.n)
              /\ client'.error = client.error /\ client'.fetched = client.fetched
              /\ client'.version = client.version /\ client'.calls = client.calls
              /\ DOMAIN call' = CallFields /\ call'.fn = call.fn /\ call'.req = call.req
              /\ call'.step = "length"
            BY <1>1, <3>2 DEF PKeyClientFields, CallFields
        <3>4. /\ InOrder(client'.list) /\ Len(client'.list) = Len(client.list) + 1
              /\ Len(client.list) \in Nat
            <4>1. InOrder(client.list) BY <1>1
            <4>2. client'.list = Append(client.list, p.n) BY <3>3
            <4> QED BY ONLY <3>1, <4>1, <4>2, InOrderAppend
        <3>5. KeysArriving'
            <4>1. Begun' = 0 BY <3>3 DEF Begun
            <4>2. ((n - 2) + 0) % 5 = 0 /\ n - 2 > 0 BY ONLY <2>3, <2>5, <2>8
            <4>3. ASSUME NEW q, NEW i \in 1 .. n - 2, UnitFits(q, (i + 2) + 3, n + 3)
                  PROVE  UnitFits(q, i + 0, (n - 2) + 0)'
                <5> DEFINE m == Len(client.list)
                <5>1. /\ q.id = call.req.id
                      /\ i + 5 <= (n + 3) - 5 => NextKey(q, ((i + 5) - 1) \div 5)
                      /\ i + 5 > (n + 3) - 5 => EndsCall(q, m + ((n + 3) \div 5) - 1)
                    BY <4>3 DEF UnitFits, PacketUnits
                <5>2. /\ ((i + 5) - 1) \div 5 = ((i - 1) \div 5) + 1
                      /\ (n + 3) \div 5 = ((n - 2) \div 5) + 1
                      /\ i <= (n - 2) - 5 => i + 5 <= (n + 3) - 5
                      /\ i > (n - 2) - 5 => i + 5 > (n + 3) - 5
                      /\ (i - 1) \div 5 \in Int /\ (n - 2) \div 5 \in Int
                    <6>1. i \in Int /\ 1 <= i BY ONLY <2>9, i \in 1 .. n - 2
                    <6>2. /\ ((i + 5) - 1) \div 5 = ((i - 1) \div 5) + 1
                          /\ (i - 1) \div 5 \in Int
                        BY ONLY <6>1
                    <6>3. /\ (n + 3) \div 5 = ((n - 2) \div 5) + 1
                          /\ (n - 2) \div 5 \in Int
                        BY ONLY <2>5, <2>9
                    <6>4. /\ i <= (n - 2) - 5 => i + 5 <= (n + 3) - 5
                          /\ i > (n - 2) - 5 => i + 5 > (n + 3) - 5
                        BY ONLY <2>9, <6>1
                    <6> QED BY ONLY <6>2, <6>3, <6>4
                <5>3. ASSUME i <= (n - 2) - 5 PROVE NextKey(q, (i - 1) \div 5)'
                    <6>1. PICK x \in Int : x = (i - 1) \div 5 BY <5>2
                    <6>2. NextKey(q, x + 1) BY ONLY <5>1, <5>2, <5>3, <6>1
                    <6>3. Len(client.list) + 1 + (x + 1) = Len(client'.list) + 1 + x
                        <7>1. PICK l \in Nat : l = Len(client.list) /\ l + 1 = Len(client'.list)
                            BY <3>4
                        <7>2. l + 1 + (x + 1) = (l + 1) + 1 + x BY ONLY x \in Int, l \in Nat
                        <7> QED BY <7>1, <7>2
                    <6>4. NextKey(q, x)' BY <3>3, <6>2, <6>3 DEF NextKey
                    <6> QED BY <6>1, <6>4
                <5>4. ASSUME i > (n - 2) - 5
                      PROVE  EndsCall(q, Len(client.list) + ((n - 2) \div 5) - 1)'
                    <6>1. EndsCall(q, m + (((n - 2) \div 5) + 1) - 1) BY ONLY <5>1, <5>2, <5>4
                    <6>2. m + (((n - 2) \div 5) + 1) - 1 = Len(client'.list) + ((n - 2) \div 5) - 1
                        <7>1. PICK l \in Nat : l = Len(client.list) /\ l + 1 = Len(client'.list)
                            BY <3>4
                        <7>2. PICK x \in Int : x = (n - 2) \div 5 BY <5>2
                        <7>3. l + (x + 1) - 1 = (l + 1) + x - 1 BY ONLY x \in Int, l \in Nat
                        <7> QED BY ONLY <7>1, <7>2, <7>3
                    <6>3. EndsCall(q, Len(client'.list) + ((n - 2) \div 5) - 1)
                        BY ONLY <6>1, <6>2
                    <6>4. /\ call'.fn = call.fn /\ server' = server
                          /\ client'.version = client.version
                        BY <1>0, <3>3
                    <6> QED BY ONLY <6>3, <6>4 DEF EndsCall, StatusError
                <5>5. i + 0 = i /\ (n - 2) + 0 = n - 2 BY ONLY <2>3, i \in 1 .. n - 2
                <5> QED BY <3>3, <5>1, <5>3, <5>4, <5>5 DEF UnitFits, PacketUnits
            <4>4. ASSUME NEW i \in 1 .. n - 2
                  PROVE  UnitFits(Stream[i].packet, i + 0, (n - 2) + 0)'
                <5>1. i + 2 \in 1 .. n BY ONLY <2>3, i \in 1 .. n - 2
                <5>2. UnitFits(Stream[i + 2].packet, (i + 2) + 3, n + 3) BY <2>3, <5>1
                <5> QED BY <2>4, <4>3, <5>2
            <4> QED BY <2>4, <4>1, <4>2, <4>4 DEF KeysArriving, PacketUnits
        <3>6. PKeyArriving'
            BY <1>5, <1>6, <3>3, <3>5
            DEF PKeyArriving, PKeyPending, Pending, ChannelKept
        <3> QED BY <1>0, <1>1, <1>5, <1>6, <3>3, <3>4, <3>6
                DEF PKeyInv, Shaped, ChannelKept, Pending
    <2> QED BY <2>7, <2>8
<1> QED BY <1>7, <1>8

\* A call begins: its request is written, and nothing else is there to read.
LEMMA PKeyCallBegins ==
    ASSUME PKeyInv, NEW req, NEW fn, fn \notin {"none", "adrift"}, req.fn = fn, fn # "write",
           call = Idle, call' = Call(fn, "length", req),
           \/ chan' = Write(chan, req) /\ chan.open
           \/ chan' = Write([chan EXCEPT !.open = TRUE, !.blocking = TRUE], req),
           UNCHANGED <<scenario, server>>,
           DOMAIN client' = PKeyClientFields, client'.calls \in Nat \ {0},
           client'.list = <<>>, ~client'.fetched, client'.fetched \in BOOLEAN,
           client'.error = "",
           client'.version = client.version, client.version = 0 <=> fn = "version"
    PROVE  PKeyInv'
<1>1. /\ DOMAIN chan = ChannelFields /\ StreamIsSeq /\ PKeyIdle
      /\ chan.closed => server.gone /\ chan.wire = <<>>
      /\ chan.open /\ ~server.gone => chan.blocking
    <2>1. PKeyIdle
        BY NoCall DEF PKeyInv, PKeyAsked, PKeyArriving, PKeyPending, PKeyAdrift, Pending
    <2> QED BY <2>1 DEF PKeyInv, Shaped
<1>2. /\ StreamIsSeq' /\ DOMAIN chan' = ChannelFields /\ NothingToRead'
      /\ chan'.wire = chan.wire /\ chan'.closed = chan.closed
      /\ chan'.out = Append(chan.out, [req |-> req, whole |-> WritesAll(req)])
      /\ chan'.open /\ ~server.gone => chan'.blocking
    BY <1>1, ChannelWrites DEF PKeyIdle
<1>3. WritesAll(req) = TRUE BY DEF WritesAll, Fits
<1>4. /\ call'.fn = fn /\ call'.req = req /\ call'.step = "length" /\ DOMAIN call' = CallFields
    BY DEF Call, CallFields
<1>5. OutIs(<<[req |-> call.req, whole |-> TRUE]>>)'
    <2>1. ASSUME ~server.gone PROVE chan'.out = <<[req |-> req, whole |-> TRUE]>>
        <3>1. chan.out = <<>> BY <1>1, <2>1 DEF PKeyIdle, OutIs
        <3> DEFINE x == [req |-> req, whole |-> WritesAll(req)]
        <3>2. chan'.out = Append(<<>>, x) BY <1>2, <3>1
        <3>3. x = [req |-> req, whole |-> TRUE] BY <1>3
        <3> HIDE DEF x
        <3>4. chan'.out = <<x>> BY ONLY <3>2
        <3> QED BY ONLY <3>3, <3>4
    <2> QED BY <1>4, <2>1 DEF OutIs
<1>6. PKeyAsked' BY <1>2, <1>4, <1>5 DEF PKeyAsked, PKeyPending, Pending
<1>7. Shaped(PKeyClientFields, PKeyServerFields)'
    BY <1>1, <1>2, <1>4 DEF PKeyInv, Shaped
<1>8. /\ server.keys \in Nat /\ server.version \in Nat /\ client.version \in Nat
      /\ client.version # 0 => client.version = server.version
    BY DEF PKeyInv
<1> QED BY <1>2, <1>4, <1>6, <1>7, <1>8, InOrderEmpty DEF PKeyInv

\* The state the library begins with.
LEMMA PKeyClientIs ==
    /\ PKeyClient.list = <<>> /\ PKeyClient.fetched = FALSE /\ PKeyClient.error = ""
    /\ PKeyClient.version = 0 /\ PKeyClient.calls = 0 /\ DOMAIN PKeyClient = PKeyClientFields
BY DEF PKeyClient, PKeyClientFields

\* A call of publickey.c begins, or the last: the server is asked, or the channel is gone.
LEMMA PKeyBeginsInv ==
    ASSUME PKeyInv, PKeyBegins, MaxCalls \in Nat
    PROVE  PKeyInv'
<1>1. DOMAIN client = PKeyClientFields /\ client.calls \in Nat BY DEF PKeyInv, Shaped
<1>2. ASSUME PKeyInit PROVE PKeyInv'
    <2>0. /\ call = Idle /\ ~chan.open /\ client.calls = 0 /\ client = PKeyClient
          /\ UNCHANGED <<scenario, server>>
        BY <1>2 DEF PKeyInit, PKeyInv
    <2>1. CASE UNCHANGED <<chan, call>> /\ client' = [client EXCEPT !.calls = MaxCalls]
        <3>1. /\ DOMAIN client' = PKeyClientFields /\ client'.calls = MaxCalls
              /\ client'.list = client.list /\ client'.fetched = client.fetched
              /\ client'.error = client.error /\ client'.version = client.version
            BY <1>1, <2>1 DEF PKeyClientFields
        <3>2. client'.calls = 0 => client' = PKeyClient BY <2>0, <2>1, <3>1 DEF PKeyClient
        <3>3. PKeyIdle /\ ~Pending
            BY <2>0, NoCall
            DEF PKeyInv, PKeyAsked, PKeyArriving, PKeyPending, PKeyAdrift, Pending
        <3>4. PKeyIdle' BY <2>0, <2>1, <3>1, <3>3 DEF PKeyIdle, NothingToRead, OutIs
        <3>5. Shaped(PKeyClientFields, PKeyServerFields)'
            BY <2>0, <2>1, <3>1 DEF PKeyInv, Shaped, StreamIsSeq
        <3> QED BY <2>0, <2>1, <3>1, <3>2, <3>4, <3>5 DEF PKeyInv
    <2>2. CASE /\ chan' = Write([chan EXCEPT !.open = TRUE, !.blocking = TRUE],
                                [fn |-> "version", id |-> 1])
               /\ call' = Call("version", "length", [fn |-> "version", id |-> 1])
               /\ client' = [client EXCEPT !.calls = @ + 1]
        <3>1. /\ DOMAIN client' = PKeyClientFields /\ client'.calls = 1
              /\ client'.list = <<>> /\ ~client'.fetched /\ client'.fetched \in BOOLEAN
              /\ client'.error = "" /\ client'.version = client.version /\ client.version = 0
            <4>1. /\ client.list = <<>> /\ client.fetched = FALSE /\ client.error = ""
                  /\ client.version = 0
                BY <2>0, PKeyClientIs
            <4>2. /\ DOMAIN client' = PKeyClientFields /\ client'.calls = 0 + 1
                  /\ client'.list = client.list /\ client'.fetched = client.fetched
                  /\ client'.error = client.error /\ client'.version = client.version
                <5>1. client.calls = 0 BY <2>0
                <5> QED BY ONLY <1>1, <2>2, <5>1 DEF PKeyClientFields
            <4>3. client'.calls = 1 BY ONLY <4>2
            <4> QED BY ONLY <4>1, <4>2, <4>3
        <3> DEFINE req == [fn |-> "version", id |-> 1]
        <3>2. req.fn = "version" OBVIOUS
        <3>3. /\ chan' = Write([chan EXCEPT !.open = TRUE, !.blocking = TRUE], req)
              /\ call' = Call("version", "length", req) /\ call = Idle
              /\ UNCHANGED <<scenario, server>>
            <4>1. call = Idle /\ UNCHANGED <<scenario, server>> BY <2>0
            <4> QED BY ONLY <2>2, <4>1
        <3> HIDE DEF req
        <3>4. client'.calls \in Nat \ {0}
            <4>1. client'.calls = 1 BY <3>1
            <4> QED BY ONLY <4>1
        <3> QED BY ONLY PKeyInv, <3>1, <3>2, <3>3, <3>4, PKeyCallBegins
    <2> QED BY <1>2, <2>1, <2>2 DEF PKeyInit
<1>3. ASSUME NEW fn \in {"add", "remove", "list"}, PKeyRequest(fn) PROVE PKeyInv'
    <2> DEFINE req == [fn |-> fn, id |-> client.calls + 1]
    <2>1. /\ call = Idle /\ chan.open /\ chan' = Write(chan, req)
          /\ call' = Call(fn, "length", req) /\ UNCHANGED <<scenario, server>>
          /\ client' = [client EXCEPT !.calls = @ + 1, !.list = <<>>, !.fetched = FALSE,
                                      !.error = ""]
        BY <1>3 DEF PKeyRequest
    <2>2. /\ DOMAIN client' = PKeyClientFields /\ client'.calls \in Nat \ {0}
          /\ client'.list = <<>> /\ ~client'.fetched /\ client'.fetched \in BOOLEAN
          /\ client'.error = "" /\ client'.version = client.version
        BY <1>1, <2>1 DEF PKeyClientFields
    <2>3. req.fn = fn OBVIOUS
    <2>4. /\ client.version = 0 <=> fn = "version"
          /\ fn \notin {"none", "adrift"} /\ fn # "write"
        BY <1>3 DEF PKeyRequest, PKeyInv
    <2> HIDE DEF req
    <2> QED BY ONLY PKeyInv, <2>1, <2>2, <2>3, <2>4, PKeyCallBegins
<1>4. ASSUME PKeyShutdown PROVE PKeyInv'
    <2>1. /\ chan' = [NewChannel EXCEPT !.closed = TRUE] /\ call' = Idle /\ UNCHANGED scenario
          /\ client' = [PKeyClient EXCEPT !.calls = MaxCalls]
          /\ server' = [server EXCEPT !.gone = TRUE]
        BY <1>4 DEF PKeyShutdown
    <2>2. /\ DOMAIN client' = PKeyClientFields /\ client'.calls = MaxCalls
          /\ client'.list = <<>> /\ client'.fetched = FALSE /\ client'.error = ""
          /\ client'.version = 0
        BY <2>1 DEF PKeyClientFields, PKeyClient
    <2>3. client'.calls = 0 => client' = PKeyClient BY <2>1, <2>2 DEF PKeyClient
    <2>4. /\ DOMAIN server' = PKeyServerFields /\ server'.gone = TRUE
          /\ server'.keys \in Nat /\ server'.version \in Nat
        BY <2>1 DEF PKeyInv, Shaped, PKeyServerFields
    <2>5. PKeyIdle'
        <3>1. NothingToRead' /\ OutIs(<<>>)' BY <2>1, <2>4, ChannelFreed DEF OutIs
        <3> QED BY ONLY <2>1, <2>2, <2>4, <3>1, NotStatusCodes DEF PKeyIdle
    <2>6. Shaped(PKeyClientFields, PKeyServerFields)'
        BY <2>1, <2>2, <2>4, ChannelFreed, NoCall DEF Shaped
    <2>7. ~chan'.open BY <2>1, ChannelFreed
    <2>8. /\ client'.version \in Nat /\ client'.version = 0 /\ client'.calls \in Nat
          /\ client'.fetched \in BOOLEAN /\ InOrder(client'.list)
        <3>1. client'.fetched \in BOOLEAN BY ONLY <2>2
        <3>0. client'.version = 0 /\ client'.calls = MaxCalls BY ONLY <2>2
        <3>2. client'.version \in Nat /\ client'.calls \in Nat BY ONLY <3>0, MaxCalls \in Nat
        <3>3. InOrder(client'.list) BY ONLY <2>2, InOrderEmpty
        <3> QED BY ONLY <2>2, <3>1, <3>2, <3>3
    <2> QED BY ONLY <2>3, <2>4, <2>5, <2>6, <2>7, <2>8 DEF PKeyInv
<1> QED BY <1>2, <1>3, <1>4 DEF PKeyBegins, AddEx, RemoveEx, ListFetch

\* The server answers with m keys, and the packet that ends the call.
LEMMA PKeyAnswersInv ==
    ASSUME PKeyInv, PKeyAsked, ~server.gone, UNCHANGED <<scenario, call, client>>,
           NEW packets, NEW m \in Nat, Len(packets) = m + 1,
           chan' = Sent(Received(chan), packets, PacketUnits),
           DOMAIN server' = PKeyServerFields, ~server'.gone, server'.gone \in BOOLEAN,
           server'.keys \in Nat, server'.version \in Nat,
           client.version # 0 => client.version = server'.version,
           m > 0 => call.fn = "list",
           \A j \in 1 .. m + 1 : packets[j].id = call.req.id,
           \A j \in 1 .. m : packets[j].type = "publickey" /\ packets[j].n = j,
           EndsCall(packets[m + 1], m)'
    PROVE  PKeyInv'
<1>1. /\ DOMAIN chan = ChannelFields /\ StreamIsSeq /\ NothingToRead /\ PKeyPending
      /\ chan.out = <<[req |-> call.req, whole |-> TRUE]>> /\ client.list = <<>>
      /\ chan.open => chan.blocking
      /\ ~chan.closed /\ Begun = 0
    BY DEF PKeyInv, Shaped, PKeyAsked, OutIs, Begun
<1>2. /\ StreamIsSeq' /\ DOMAIN chan' = ChannelFields /\ chan'.out = <<>>
      /\ UNCHANGED <<chan.open, chan.closed, chan.blocking>>
      /\ Len(Stream') = 5 * (m + 1)
      /\ \A i \in 1 .. 5 * (m + 1) : Stream'[i].packet = packets[1 + ((i - 1) \div 5)]
    <2>1. m + 1 \in Nat OBVIOUS
    <2> QED BY <1>1, <2>1, StreamAnswered
<1>3. Begun' = 0 BY <1>1 DEF Begun
<1>4. PICK n \in Nat : n = 5 * (m + 1) OBVIOUS
<1>5. ASSUME NEW i \in 1 .. n PROVE UnitFits(Stream[i].packet, i + 0, n + 0)'
    <2>1. PICK j \in 0 .. m : j = (i - 1) \div 5 /\ (i <= n - 5 => j < m) /\ (i > n - 5 => j = m)
        <3>1. /\ (i - 1) \div 5 \in 0 .. m /\ (i <= n - 5 => (i - 1) \div 5 < m)
              /\ i > n - 5 => (i - 1) \div 5 = m
            BY ONLY <1>4, m \in Nat, i \in 1 .. n
        <3> QED BY <3>1
    <2>2. Stream'[i].packet = packets[1 + j] BY <1>2, <1>4, <2>1
    <2>3. 1 + j \in 1 .. m + 1 BY ONLY <2>1, m \in Nat
    <2>4. packets[1 + j].id = call.req.id BY <2>3
    <2>5. ASSUME i <= n - 5 PROVE NextKey(packets[1 + j], j)'
        <3>1. 1 + j \in 1 .. m /\ m > 0 /\ 0 + 1 + j = 1 + j BY ONLY <2>1, <2>5, m \in Nat
        <3>2. call.fn = "list" /\ packets[1 + j].type = "publickey" /\ packets[1 + j].n = 1 + j
            BY <3>1
        <3>3. Len(client'.list) = 0 BY <1>1
        <3> QED BY <3>1, <3>2, <3>3 DEF NextKey
    <2>6. ASSUME i > n - 5 PROVE EndsCall(packets[1 + j], Len(client.list) + (n \div 5) - 1)'
        <3>1. 1 + j = m + 1 /\ 0 + (n \div 5) - 1 = m BY ONLY <1>4, <2>1, <2>6, m \in Nat
        <3>2. Len(client'.list) = 0 BY <1>1
        <3> QED BY <3>1, <3>2
    <2>7. i + 0 = i /\ n + 0 = n BY ONLY i \in 1 .. n, n \in Nat
    <2> QED BY <2>1, <2>2, <2>4, <2>5, <2>6, <2>7 DEF UnitFits, PacketUnits
<1>6. KeysArriving'
    <2>1. (n + 0) % 5 = 0 /\ n > 0 BY ONLY <1>4, m \in Nat
    <2> QED BY <1>2, <1>3, <1>4, <1>5, <2>1 DEF KeysArriving, PacketUnits
<1>7. PKeyArriving' BY <1>1, <1>2, <1>6 DEF PKeyArriving, PKeyPending, Pending, OutIs
<1>8. Shaped(PKeyClientFields, PKeyServerFields)' BY <1>1, <1>2 DEF PKeyInv, Shaped
<1> QED BY <1>1, <1>2, <1>7, <1>8 DEF PKeyInv

\* m keys and another packet.
AreKeysAnd(packets, req, m, last) ==
    m \in Nat /\ (packets = Append(ListOf(req, m), last) \/ (m = 0 /\ packets = <<last>>))
KeysThen(packets, req, m, last) ==
    /\ Len(packets) = m + 1 /\ packets[m + 1] = last
    /\ \A j \in 1 .. m : packets[j] = PKeyPacket(req, "publickey", j)
\* Which packet is where.
LEMMA ListOfThen ==
    ASSUME NEW req, NEW m, NEW last, NEW packets, AreKeysAnd(packets, req, m, last)
    PROVE  KeysThen(packets, req, m, last)
<1> m \in Nat BY DEF AreKeysAnd
<1> USE DEF KeysThen
<1>1. CASE packets = Append(ListOf(req, m), last)
    <2> DEFINE k == ListOf(req, m)
               T == {PKeyPacket(req, "publickey", j) : j \in 1 .. m}
               U == T \cup {last}
    <2>1. k \in Seq(T) /\ Len(k) = m /\ \A j \in 1 .. m : k[j] = PKeyPacket(req, "publickey", j)
        BY DEF ListOf
    <2> HIDE DEF k, T
    <2>2. k \in Seq(U) /\ last \in U BY <2>1
    <2> HIDE DEF U
    <2>3. packets = Append(k, last) BY <1>1 DEF k
    <2> QED BY ONLY <2>1, <2>2, <2>3, m \in Nat
<1>2. CASE m = 0 /\ packets = <<last>> BY <1>2
<1> QED BY <1>1, <1>2 DEF AreKeysAnd

\* The server answers a request, or refuses it.
LEMMA PKeyServesInv ==
    ASSUME PKeyInv, PKeyServes
    PROVE  PKeyInv'
<1> DEFINE req == call.req
<1>1. /\ PKeyAsked /\ ~server.gone /\ UNCHANGED <<scenario, call, client>>
      /\ chan.out = <<[req |-> call.req, whole |-> TRUE]>>
    <2>1. chan.out # <<>> /\ ~server.gone /\ UNCHANGED <<scenario, call, client>>
        BY DEF PKeyServes, Waiting
    <2>2. PKeyAsked BY <2>1 DEF PKeyInv, PKeyIdle, PKeyArriving, PKeyAdrift, OutIs
    <2> QED BY <2>1, <2>2 DEF PKeyAsked, OutIs
<1>2. /\ Head(chan.out).req = req /\ req.fn = call.fn
      /\ call.fn = "version" <=> client.version = 0
    <2>1. Head(chan.out).req = req BY <1>1
    <2>2. req.fn = call.fn /\ (call.fn = "version" \/ client.version # 0)
        BY <1>1 DEF PKeyAsked, PKeyPending
    <2> QED BY <2>1, <2>2 DEF PKeyInv
<1>3. /\ DOMAIN server = PKeyServerFields /\ server.gone = FALSE
      /\ server.keys \in Nat /\ server.version \in Nat
      /\ client.version # 0 => client.version = server.version
    BY <1>1 DEF PKeyInv, Shaped
<1>4. ASSUME NEW m \in Nat, NEW type, NEW n, NEW srv,
             \/ PKeyAnswers(Append(ListOf(req, m), PKeyPacket(req, type, n)), srv)
             \/ m = 0 /\ PKeyAnswers(<<PKeyPacket(req, type, n)>>, srv),
             DOMAIN srv = PKeyServerFields, srv.gone = FALSE,
             srv.keys \in Nat, srv.version \in Nat,
             client.version # 0 => client.version = srv.version,
             m > 0 => call.fn = "list",
             type \in {"status", "version", "attribute"},
             type = "status" /\ n = 0 /\ call.fn = "list" => m = srv.keys,
             type = "status" /\ n # 0 => StatusError(n, client.version) = srv.meant,
             type = "version" =>
                /\ call.fn = "version" /\ n \in Nat \ {0}
                /\ srv.version = IF n > LIBSSH2_PUBLICKEY_VERSION
                                 THEN LIBSSH2_PUBLICKEY_VERSION ELSE n
      PROVE  PKeyInv'
    <2> DEFINE last == PKeyPacket(req, type, n)
    <2>1. PICK packets : /\ chan' = Sent(Received(chan), packets, PacketUnits) /\ server' = srv
                         /\ packets = Append(ListOf(req, m), last) \/ (m = 0 /\ packets = <<last>>)
        BY <1>4 DEF PKeyAnswers
    <2>2. last.type = type /\ last.id = req.id /\ last.n = n BY DEF PKeyPacket
    <2>3. \A j \in 1 .. m : LET k == PKeyPacket(req, "publickey", j)
                            IN  k.type = "publickey" /\ k.id = req.id /\ k.n = j
        BY DEF PKeyPacket
    <2> HIDE DEF last
    <2>4. /\ Len(packets) = m + 1 /\ packets[m + 1] = last
          /\ \A j \in 1 .. m : packets[j] = PKeyPacket(req, "publickey", j)
        <3>1. AreKeysAnd(packets, req, m, last) BY ONLY <2>1, m \in Nat DEF AreKeysAnd
        <3>2. KeysThen(packets, req, m, last) BY ONLY <3>1, ListOfThen
        <3> QED BY <3>2 DEF KeysThen
    <2>5. \A j \in 1 .. m : packets[j].type = "publickey" /\ packets[j].n = j
        BY <2>3, <2>4
    <2>6. \A j \in 1 .. m + 1 : packets[j].id = call.req.id
        <3>1. ASSUME NEW j \in 1 .. m + 1 PROVE packets[j].id = call.req.id
            <4>1. j = m + 1 \/ j \in 1 .. m BY ONLY m \in Nat, j \in 1 .. m + 1
            <4> QED BY <2>2, <2>3, <2>4, <4>1
        <3> QED BY <3>1
    <2>7. EndsCall(packets[m + 1], m)'
        <3>1. packets' = packets /\ m' = m OBVIOUS
        <3>2. /\ last.type \in {"status", "version", "attribute"}
              /\ last.type = "status" /\ last.n = 0 /\ call'.fn = "list" => m = server'.keys
              /\ last.type = "status" /\ last.n # 0 =>
                    StatusError(last.n, client'.version) = server'.meant
              /\ last.type = "version" =>
                    /\ call'.fn = "version" /\ last.n \in Nat \ {0}
                    /\ server'.version = IF last.n > LIBSSH2_PUBLICKEY_VERSION
                                         THEN LIBSSH2_PUBLICKEY_VERSION ELSE last.n
            BY <1>1, <1>4, <2>1, <2>2
        <3> QED BY ONLY <2>4, <3>2 DEF EndsCall
    <2>8. /\ DOMAIN server' = PKeyServerFields /\ ~server'.gone /\ server'.gone \in BOOLEAN
          /\ server'.keys \in Nat /\ server'.version \in Nat
          /\ client.version # 0 => client.version = server'.version
        BY <1>4, <2>1
    <2> QED BY <1>1, <1>4, <2>1, <2>4, <2>5, <2>6, <2>7, <2>8, PKeyAnswersInv
<1>5. ASSUME NEW meaning, Refuses(req, meaning), CodeOf(meaning) # 0,
             StatusError(CodeOf(meaning), client.version) = meaning
      PROVE  PKeyInv'
    <2>1. PICK m \in 0 .. IF req.fn = "list" THEN server.keys ELSE 0 :
            PKeyAnswers(Append(ListOf(req, m), PKeyPacket(req, "status", CodeOf(meaning))),
                        [server EXCEPT !.meant = meaning])
        BY <1>5 DEF Refuses
    <2>2. m \in Nat /\ (m > 0 => call.fn = "list") BY <1>2, <1>3, <2>1
    <2> DEFINE srv == [server EXCEPT !.meant = meaning]
    <2>3. /\ DOMAIN srv = PKeyServerFields /\ srv.gone = FALSE /\ srv.meant = meaning
          /\ srv.keys = server.keys /\ srv.version = server.version
        BY <1>3 DEF PKeyServerFields
    <2> HIDE DEF srv
    <2>4. PKeyAnswers(Append(ListOf(req, m), PKeyPacket(req, "status", CodeOf(meaning))), srv)
        BY <2>1 DEF srv
    <2> QED BY <1>3, <1>4, <1>5, <2>2, <2>3, <2>4
<1>6. ASSUME NEW srv, NEW m \in Nat,
             \/ PKeyAnswers(Append(ListOf(req, m), PKeyPacket(req, "status", 0)), srv)
             \/ m = 0 /\ PKeyAnswers(<<PKeyPacket(req, "status", 0)>>, srv),
             DOMAIN srv = PKeyServerFields, srv.gone = FALSE,
             srv.keys \in Nat, srv.version = server.version, m > 0 => call.fn = "list",
             call.fn = "list" => m = srv.keys
      PROVE  PKeyInv'
    BY <1>3, <1>4, <1>6
<1>7. CASE /\ req.fn = "version"
           /\ \E v \in {1, 3} :
                PKeyAnswers(<<PKeyPacket(req, "version", v)>>,
                            [server EXCEPT !.version = IF v = 3 THEN 2 ELSE v])
    <2>1. PICK v \in {1, 3} :
            PKeyAnswers(<<PKeyPacket(req, "version", v)>>,
                        [server EXCEPT !.version = IF v = 3 THEN 2 ELSE v])
        BY <1>7
    <2> DEFINE srv == [server EXCEPT !.version = IF v = 3 THEN 2 ELSE v]
    <2>2. /\ DOMAIN srv = PKeyServerFields /\ srv.gone = FALSE
          /\ srv.keys = server.keys /\ srv.version = IF v = 3 THEN 2 ELSE v
        BY <1>3 DEF PKeyServerFields
    <2> HIDE DEF srv
    <2>3. PKeyAnswers(<<PKeyPacket(req, "version", v)>>, srv) BY <2>1 DEF srv
    <2>4. /\ srv.version \in Nat /\ v \in Nat \ {0}
          /\ srv.version = IF v > LIBSSH2_PUBLICKEY_VERSION THEN LIBSSH2_PUBLICKEY_VERSION ELSE v
        BY <2>2 DEF LIBSSH2_PUBLICKEY_VERSION
    <2>5. client.version = 0 /\ call.fn = "version" BY <1>2, <1>7
    <2>6. 0 \in Nat /\ ~(0 > 0) /\ 0 = 0 OBVIOUS
    <2>7. srv.keys \in Nat BY <1>3, <2>2
    <2> QED BY <1>4, <2>2, <2>3, <2>4, <2>5, <2>6, <2>7
<1>8. CASE req.fn = "add" /\ PKeyAnswers(<<PKeyPacket(req, "status", 0)>>,
                                         [server EXCEPT !.keys = @ + 1])
    <2> DEFINE srv == [server EXCEPT !.keys = @ + 1]
    <2>1. /\ DOMAIN srv = PKeyServerFields /\ srv.gone = FALSE
          /\ srv.keys \in Nat /\ srv.version = server.version
        BY <1>3 DEF PKeyServerFields
    <2>2. PKeyAnswers(<<PKeyPacket(req, "status", 0)>>, srv) BY <1>8
    <2> HIDE DEF srv
    <2>3. 0 \in Nat /\ ~(0 > 0) /\ call.fn # "list" BY <1>2, <1>8
    <2> QED BY <1>6, <2>1, <2>2, <2>3
<1>9. CASE req.fn = "remove" /\ server.keys > 0
           /\ PKeyAnswers(<<PKeyPacket(req, "status", 0)>>, [server EXCEPT !.keys = @ - 1])
    <2> DEFINE srv == [server EXCEPT !.keys = @ - 1]
    <2>1. /\ DOMAIN srv = PKeyServerFields /\ srv.gone = FALSE
          /\ srv.keys \in Nat /\ srv.version = server.version
        BY <1>3, <1>9 DEF PKeyServerFields
    <2>2. PKeyAnswers(<<PKeyPacket(req, "status", 0)>>, srv) BY <1>9
    <2> HIDE DEF srv
    <2>3. 0 \in Nat /\ ~(0 > 0) /\ call.fn # "list" BY <1>2, <1>9
    <2> QED BY <1>6, <2>1, <2>2, <2>3
<1>10. CASE req.fn = "list"
            /\ PKeyAnswers(Append(ListOf(req, server.keys), PKeyPacket(req, "status", 0)), server)
    <2>1. call.fn = "list" BY <1>2, <1>10
    <2> QED BY <1>3, <1>6, <1>10, <2>1
<1>11. CASE server.version > 1 /\ Refuses(req, "key_already_present")
    <2>1. CodeOf("key_already_present") = 6 BY DEF CodeOf
    <2>2. client.version # 1
        <3>1. server.version > 1 /\ (client.version # 0 => client.version = server.version)
            BY <1>3, <1>11
        <3> QED BY ONLY <3>1
    <2>3. StatusError(6, client.version) = "key_already_present"
        BY <2>2, StatusMeanings
    <2>9. /\ CodeOf("key_already_present") # 0
          /\ StatusError(CodeOf("key_already_present"), client.version) = "key_already_present"
        <3>7. CodeOf("key_already_present") # 0 BY ONLY <2>1
        <3>8. StatusError(CodeOf("key_already_present"), client.version) = "key_already_present"
            BY ONLY <2>1, <2>3, Zenon
        <3> QED BY ONLY <3>7, <3>8
    <2> QED BY <1>5, <1>11, <2>9
<1>12. CASE req.fn # "version" /\ Refuses(req, "general_failure")
    <2>1. client.version = server.version BY <1>2, <1>3, <1>12
    <2>2. CASE server.version = 1
        <3>1. CodeOf("general_failure") = 6 BY <2>2 DEF CodeOf
        <3>2. StatusError(6, client.version) = "general_failure"
            BY <2>1, <2>2, StatusMeanings
        <3>9. /\ CodeOf("general_failure") # 0
              /\ StatusError(CodeOf("general_failure"), client.version) = "general_failure"
            <4>7. CodeOf("general_failure") # 0 BY ONLY <3>1
            <4>8. StatusError(CodeOf("general_failure"), client.version) = "general_failure"
                BY ONLY <3>1, <3>2, Zenon
            <4> QED BY ONLY <4>7, <4>8
        <3> QED BY <1>5, <1>12, <3>9
    <2>3. CASE server.version # 1
        <3>1. CodeOf("general_failure") = 7 BY <2>3 DEF CodeOf
        <3>2. StatusError(7, client.version) = "general_failure" BY StatusMeanings
        <3>9. /\ CodeOf("general_failure") # 0
              /\ StatusError(CodeOf("general_failure"), client.version) = "general_failure"
            <4>7. CodeOf("general_failure") # 0 BY ONLY <3>1
            <4>8. StatusError(CodeOf("general_failure"), client.version) = "general_failure"
                BY ONLY <3>1, <3>2, Zenon
            <4> QED BY ONLY <4>7, <4>8
        <3> QED BY <1>5, <1>12, <3>9
    <2> QED BY <2>2, <2>3
<1>13. CASE Refuses(req, "access_denied")
    <2>1. CodeOf("access_denied") = 1 BY DEF CodeOf
    <2>2. StatusError(1, client.version) = "access_denied" BY StatusMeanings
    <2>9. /\ CodeOf("access_denied") # 0
          /\ StatusError(CodeOf("access_denied"), client.version) = "access_denied"
        <3>7. CodeOf("access_denied") # 0 BY ONLY <2>1
        <3>8. StatusError(CodeOf("access_denied"), client.version) = "access_denied"
            BY ONLY <2>1, <2>2, Zenon
        <3> QED BY ONLY <3>7, <3>8
    <2> QED BY <1>5, <1>13, <2>9
<1>14. CASE PKeyAnswers(<<PKeyPacket(req, "attribute", 0)>>, server)
    <2>1. 0 \in Nat /\ ~(0 > 0) OBVIOUS
    <2> QED BY <1>3, <1>4, <1>14, <2>1
<1> HIDE DEF req
<1>15. \/ /\ req.fn = "version"
          /\ \E v \in {1, 3} :
                PKeyAnswers(<<PKeyPacket(req, "version", v)>>,
                            [server EXCEPT !.version = IF v = 3 THEN 2 ELSE v])
       \/ req.fn = "add" /\ PKeyAnswers(<<PKeyPacket(req, "status", 0)>>,
                                        [server EXCEPT !.keys = @ + 1])
       \/ server.version > 1 /\ Refuses(req, "key_already_present")
       \/ req.fn = "remove" /\ server.keys > 0
          /\ PKeyAnswers(<<PKeyPacket(req, "status", 0)>>, [server EXCEPT !.keys = @ - 1])
       \/ req.fn = "list"
          /\ PKeyAnswers(Append(ListOf(req, server.keys), PKeyPacket(req, "status", 0)), server)
       \/ req.fn # "version" /\ Refuses(req, "general_failure")
       \/ Refuses(req, "access_denied")
       \/ PKeyAnswers(<<PKeyPacket(req, "attribute", 0)>>, server)
    BY <1>2 DEF PKeyServes
<1> QED BY <1>7, <1>8, <1>9, <1>10, <1>11, <1>12, <1>13, <1>14, <1>15

\* What is carried on changes nothing for the public keys.
LEMMA PKeyCarriedInv ==
    ASSUME PKeyInv, Carried
    PROVE  PKeyInv'
<1>1. Shaped(PKeyClientFields, PKeyServerFields) BY DEF PKeyInv
<1>2. Shaped(PKeyClientFields, PKeyServerFields)' BY <1>1, CarriedShape
<1>3. /\ call' = call /\ client' = client /\ chan'.out = chan.out /\ Stream' = Stream
      /\ chan'.open = chan.open /\ chan'.blocking = chan.blocking
      /\ NothingToRead' <=> NothingToRead
      /\ server.gone => server'.gone
      /\ server'.keys = server.keys /\ server'.version = server.version
      /\ server'.meant = server.meant
    BY <1>1 DEF Carried, Shaped, PKeyServerFields
<1>4. ASSUME NEW out, OutIs(out) PROVE OutIs(out)' BY <1>3, <1>4 DEF OutIs
<1>5. PKeyIdle => PKeyIdle' BY <1>3, <1>4 DEF PKeyIdle
<1>6. PKeyPending => PKeyPending' BY <1>3 DEF PKeyPending, Pending
<1>7. PKeyAsked => PKeyAsked'
    <2>1. ASSUME OutIs(<<[req |-> call.req, whole |-> TRUE]>>)
          PROVE  OutIs(<<[req |-> call.req, whole |-> TRUE]>>)'
        BY <1>3, <2>1 DEF OutIs
    <2> QED BY <1>3, <1>6, <2>1 DEF PKeyAsked
<1>8. PKeyArriving => PKeyArriving'
    <2>1. Begun' = Begun BY <1>3 DEF Begun
    <2>2. ASSUME NEW p, NEW keys, EndsCall(p, keys) PROVE EndsCall(p, keys)'
        BY <1>3, <2>2 DEF EndsCall
    <2>3. ASSUME NEW p, NEW i, NEW n, UnitFits(p, i, n) PROVE UnitFits(p, i, n)'
        BY <1>3, <2>2, <2>3 DEF UnitFits, NextKey
    <2>4. KeysArriving => KeysArriving'
        <3>1. PICK n : n = Len(Stream) OBVIOUS
        <3> QED BY <1>3, <2>1, <2>3 DEF KeysArriving
    <2> QED BY <1>4, <1>6, <2>4 DEF PKeyArriving
<1>9. PKeyAdrift => PKeyAdrift' BY <1>3, <1>4 DEF PKeyAdrift
<1> QED BY <1>2, <1>3, <1>5, <1>7, <1>8, <1>9 DEF PKeyInv

-----------------------------------------------------------------------------
(* SFTP *)

\* What a reply does with the library's state: it is a matter of the handles alone
\* what becomes of them, and the brigade is left as it is.
LEMMA TakesHandles ==
    ASSUME NEW c, DOMAIN c = SFTPClientFields, NEW p
    PROVE  /\ DOMAIN Takes(c, p) = SFTPClientFields /\ Takes(c, p).packets = c.packets
           /\ c.handles \in [Handles -> HandleRecords] =>
                Takes(c, p).handles = HandlesAfter(c.handles, p)
<1> DEFINE h == call.req.h
           d == Takes(c, p)
<1>1. CASE p.type = "STATUS" /\ p.status # "OK"
    <2>1. d = c \/ d = [c EXCEPT !.last_errno = p.status] BY <1>1 DEF Takes, Failed
    <2>2. HandlesAfter(c.handles, p) = c.handles BY <1>1 DEF HandlesAfter
    <2> QED BY <2>1, <2>2 DEF SFTPClientFields
<1>2. CASE ~(p.type = "STATUS" /\ p.status # "OK")
    <2>0. d = Succeeds(c, p) BY <1>2 DEF Takes
    <2>1. CASE p.type = "VERSION"
        <3>1. d = [c EXCEPT !.version = IF p.n > LIBSSH2_SFTP_VERSION
                                        THEN LIBSSH2_SFTP_VERSION ELSE p.n]
            BY <2>0, <2>1 DEF Succeeds
        <3>2. HandlesAfter(c.handles, p) = c.handles BY <1>2, <2>1 DEF HandlesAfter
        <3> QED BY <3>1, <3>2 DEF SFTPClientFields
    <2>2. CASE p.type = "HANDLE"
        <3> DEFINE x == Handle(IF call.fn = "open" THEN "file" ELSE "dir")
        <3>1. d = [c EXCEPT !.handles[p.n] = x] BY <2>0, <2>2 DEF Succeeds
        <3>2. HandlesAfter(c.handles, p) = [c.handles EXCEPT ![p.n] = x]
            BY <1>2, <2>2 DEF HandlesAfter
        <3> HIDE DEF x
        <3> QED BY <3>1, <3>2 DEF SFTPClientFields
    <2>3. CASE p.type = "DATA" \/ (p.type = "STATUS" /\ call.fn = "write")
        <3> DEFINE x == IF call.fn = "write" THEN call.req.n ELSE p.n
        <3>1. d = [c EXCEPT !.handles[h].offset = @ + x] BY <2>0, <2>3 DEF Succeeds, Moved
        <3>2. HandlesAfter(c.handles, p) = [c.handles EXCEPT ![h].offset = @ + x]
            BY <1>2, <2>3 DEF HandlesAfter
        <3> HIDE DEF x
        <3> QED BY <3>1, <3>2 DEF SFTPClientFields
    <2>4. CASE p.type = "NAME" /\ call.fn = "readdir"
        <3>1. d = PopName([c EXCEPT !.handles[h].names_left = p.n], h)
            BY <2>0, <2>4 DEF Succeeds
        <3>2. HandlesAfter(c.handles, p) =
                [c.handles EXCEPT ![h].names_left = p.n - 1, ![h].given = @ + 1]
            BY <1>2, <2>4 DEF HandlesAfter
        <3> DEFINE b == [c EXCEPT !.handles[h].names_left = p.n]
        <3>3. /\ DOMAIN b = SFTPClientFields /\ b.packets = c.packets
              /\ b.handles = [c.handles EXCEPT ![h].names_left = p.n]
            BY DEF SFTPClientFields
        <3>4. d = [b EXCEPT !.handles[h].names_left = @ - 1, !.handles[h].given = @ + 1]
            BY <3>1 DEF PopName
        <3> HIDE DEF b
        <3>5. /\ DOMAIN d = SFTPClientFields /\ d.packets = b.packets
              /\ d.handles = [b.handles EXCEPT ![h].names_left = @ - 1, ![h].given = @ + 1]
            BY <3>3, <3>4 DEF SFTPClientFields
        <3>6. ASSUME c.handles \in [Handles -> HandleRecords]
              PROVE  [b.handles EXCEPT ![h].names_left = @ - 1, ![h].given = @ + 1]
                        = [c.handles EXCEPT ![h].names_left = p.n - 1, ![h].given = @ + 1]
            <4> DEFINE H == c.handles
                       n == p.n
                       G == [H EXCEPT ![h].names_left = n]
            <4>0. H \in [Handles -> HandleRecords] BY <3>6
            <4>1. b.handles = G BY <3>3
            <4> HIDE DEF H, n
            <4>2. [G EXCEPT ![h].names_left = @ - 1, ![h].given = @ + 1]
                    = [H EXCEPT ![h].names_left = n - 1, ![h].given = @ + 1]
                <5>1. CASE h \in Handles
                    <6>1. PICK r : r = H[h] /\ r \in HandleRecords BY <4>0, <5>1
                    <6>2. PICK q : q = [r EXCEPT !.names_left = n] OBVIOUS
                    <6>3. G = [H EXCEPT ![h] = q] BY ONLY <4>0, <5>1, <6>1, <6>2 DEF G
                    <6>4. [G EXCEPT ![h].names_left = @ - 1, ![h].given = @ + 1]
                            = [H EXCEPT ![h] = [q EXCEPT !.names_left = @ - 1, !.given = @ + 1]]
                        <7> HIDE DEF G
                        <7>1. DOMAIN H = Handles BY ONLY <4>0
                        <7> QED BY ONLY <5>1, <6>3, <7>1
                    <6>5. [H EXCEPT ![h].names_left = n - 1, ![h].given = @ + 1]
                            = [H EXCEPT ![h] = [r EXCEPT !.names_left = n - 1, !.given = @ + 1]]
                        BY ONLY <4>0, <5>1, <6>1
                    <6>6. [q EXCEPT !.names_left = @ - 1, !.given = @ + 1]
                            = [r EXCEPT !.names_left = n - 1, !.given = @ + 1]
                        BY ONLY <6>1, <6>2 DEF HandleRecords
                    <6> QED BY ONLY <6>4, <6>5, <6>6
                <5>2. CASE h \notin Handles BY <4>0, <5>2
                <5> QED BY <5>1, <5>2
            <4> QED BY <4>1, <4>2 DEF H, n
        <3> QED BY <3>2, <3>3, <3>5, <3>6
    <2>5. CASE p.type = "ATTRS"
        <3>1. d = [c EXCEPT !.known = BinToAttr(p.attrs)] BY <2>0, <2>5 DEF Succeeds
        <3>2. HandlesAfter(c.handles, p) = c.handles BY <1>2, <2>5 DEF HandlesAfter
        <3> QED BY <3>1, <3>2 DEF SFTPClientFields
    <2>6. CASE p.type = "STATUS" /\ call.fn = "close"
        <3>1. d = [c EXCEPT !.handles[h] = NoHandle] BY <2>0, <2>6 DEF Succeeds
        <3>2. HandlesAfter(c.handles, p) = [c.handles EXCEPT ![h] = NoHandle]
            BY <1>2, <2>6 DEF HandlesAfter
        <3> QED BY <3>1, <3>2 DEF SFTPClientFields
    <2>7. CASE /\ p.type # "VERSION" /\ p.type # "HANDLE" /\ p.type # "DATA" /\ p.type # "ATTRS"
               /\ ~(p.type = "STATUS" /\ call.fn = "write")
               /\ ~(p.type = "NAME" /\ call.fn = "readdir")
               /\ ~(p.type = "STATUS" /\ call.fn = "close")
        <3>1. d = c BY <2>0, <2>7 DEF Succeeds
        <3>2. HandlesAfter(c.handles, p) = c.handles BY <1>2, <2>7 DEF HandlesAfter
        <3> QED BY <3>1, <3>2
    <2> QED BY <2>1, <2>2, <2>3, <2>4, <2>5, <2>6, <2>7
<1> QED BY <1>1, <1>2

\* They are a matter of the call and its request, not of how far the call is.
LEMMA AfterSame ==
    ASSUME NEW Hs, NEW p, call'.fn = call.fn, call'.req = call.req
    PROVE  HandlesAfter(Hs, p)' = HandlesAfter(Hs, p)
BY DEF HandlesAfter

\* A call finds its reply at the head of the brigade, or it does not find it.
LEMMA AskForOne ==
    ASSUME NEW types, NEW packets, packets = <<>> \/ packets = <<packets[1]>>
    PROVE  /\ packets = <<>> => AskFor(packets, types) = 0
           /\ AskFor(packets, types) \in {0, 1}
<1> DEFINE Found(type) == SelectInSeq(packets, LAMBDA p : p.type = type)
<1>1. ASSUME NEW type PROVE Found(type) \in {0, 1} /\ (packets = <<>> => Found(type) = 0)
    <2> DEFINE I == {i \in 1 .. Len(packets) : packets[i].type = type}
    <2>1. Found(type) = IF I # {} THEN Min(I) ELSE 0 BY DEF SelectInSeq
    <2>2. packets = <<>> => I = {} OBVIOUS
    <2>3. ASSUME packets = <<packets[1]>> PROVE I \subseteq {1}
        <3>1. PICK x : x = packets[1] OBVIOUS
        <3>2. packets = <<x>> BY <2>3, <3>1
        <3>3. Len(packets) = 1 BY ONLY <3>2
        <3> QED BY ONLY <3>3
    <2> HIDE DEF I
    <2>4. I = {} \/ I = {1} BY <2>2, <2>3
    <2>5. Min({1}) = 1
        <3>1. 1 <= 1 OBVIOUS
        <3>2. \E x \in {1} : \A y \in {1} : x <= y BY ONLY <3>1, Zenon
        <3>3. Min({1}) \in {1} BY ONLY <3>2, Zenon DEF Min
        <3> QED BY <3>3
    <2> QED BY <2>1, <2>2, <2>4, <2>5
<1>2. \E t : AskFor(packets, types) = IF t = 0 THEN 0 ELSE Found(types[t])
    <2> DEFINE t == SelectInSeq(types, LAMBDA type : Found(type) # 0)
    <2>1. AskFor(packets, types) = IF t = 0 THEN 0 ELSE Found(types[t]) BY Zenon DEF AskFor
    <2> HIDE DEF t, Found
    <2> QED BY <2>1
<1> HIDE DEF Found
<1> QED BY <1>1, <1>2

\* Between two calls nothing is on its way; what a call is at, otherwise.
LEMMA SFTPStages ==
    ASSUME SFTPInv, ~server.gone, call # Adrift
    PROVE  /\ ServerTyped
           /\ call.fn = "none" => Returned
           /\ call.fn # "none" => Asking \/ Arriving \/ InBrigade
<1>1. SFTPStage BY DEF SFTPInv
<1>2. Pending => call.fn # "none" BY DEF Pending
<1> QED BY <1>1, <1>2, NoCall DEF SFTPStage, Returned, Asking, Arriving, InBrigade

\* What the state of SFTP is made of.
LEMMA SFTPShape ==
    ASSUME SFTPInv
    PROVE  /\ DOMAIN chan = ChannelFields /\ DOMAIN call = CallFields
           /\ DOMAIN client = SFTPClientFields /\ DOMAIN server = SFTPServerFields
           /\ server.gone \in BOOLEAN /\ StreamIsSeq
           /\ chan.closed => server.gone /\ chan.wire = <<>>
           /\ call.fn = "none" => call = Idle
           /\ call.fn = "adrift" => call = Adrift
           /\ call.read \in 0 .. 4 /\ 0 \in 0 .. 4
BY DEF SFTPInv, Shaped, PacketUnits

\* What the library and the server agree on is a matter of the server's files.
LEMMA AgreeSame ==
    ASSUME NEW Hs, server'.moved = server.moved, server'.type = server.type
    PROVE  (Agree(Hs)' <=> Agree(Hs)) /\ (ServerTyped' <=> ServerTyped)
BY DEF Agree, ServerTyped

\* A request is made.
LEMMA SFTPRequestInv ==
    ASSUME SFTPInv, NEW fn, NEW h, NEW n, NEW attrs, RequestWith(fn, h, n, attrs),
           fn \notin {"none", "adrift"},
           fn \in {"read", "write"} =>
                h \in Handles /\ client.handles[h].type = "file" /\ n \in Int,
           fn = "readdir" => /\ h \in Handles /\ client.handles[h].type = "dir"
                             /\ client.handles[h].names_left = 0,
           fn = "close" => h \in Handles
    PROVE  SFTPInv'
<1> DEFINE req == [fn |-> fn, id |-> client.request_id, h |-> h, n |-> n,
                   attrs |-> AttrToBin(attrs), size |-> AttrSize(attrs),
                   offset |-> IF h = 0 THEN 0 ELSE client.handles[h].offset]
           step == IF Requirev(fn) THEN "flush" ELSE "ask"
<1>1. /\ call = Idle /\ chan' = Write(chan, req) /\ UNCHANGED <<scenario, server>>
      /\ call' = IF WritesAll(req) THEN Call(fn, step, req) ELSE Adrift
      /\ client' = [client EXCEPT !.request_id = @ + 1, !.calls = @ + 1,
                       !.known = IF attrs = NoAttrs THEN @ ELSE NoAttrs]
    BY DEF RequestWith
<1>2. req.fn = fn /\ req.h = h /\ req.n = n OBVIOUS
<1> HIDE DEF req, step
<1>3. /\ DOMAIN client' = SFTPClientFields /\ client'.handles = client.handles
      /\ client'.packets = client.packets
    BY <1>1, SFTPShape DEF SFTPClientFields
<1>4. /\ StreamIsSeq' /\ DOMAIN chan' = ChannelFields /\ (NothingToRead' <=> NothingToRead)
      /\ chan'.wire = chan.wire /\ chan'.closed = chan.closed
      /\ chan'.out = Append(chan.out, [req |-> req, whole |-> WritesAll(req)])
    BY <1>1, SFTPShape, ChannelWrites
<1>5. CASE WritesAll(req)
    <2>1. call' = Call(fn, step, req) BY <1>1, <1>5
    <2>2. /\ DOMAIN call' = CallFields /\ call'.fn = fn /\ call'.req = req /\ call'.read = 0
        BY <2>1 DEF Call, CallFields
    <2>3. Shaped(SFTPClientFields, SFTPServerFields)'
        BY <1>1, <1>3, <1>4, <2>2, SFTPShape DEF Shaped
    <2>4. ASSUME ~server'.gone PROVE SFTPStage'
        <3>1. ServerTyped /\ Returned BY <1>1, <2>4, NoCall, SFTPStages
        <3>2. chan'.out = <<[req |-> call'.req, whole |-> TRUE]>>
            <4> DEFINE x == [req |-> req, whole |-> WritesAll(req)]
            <4>1. chan'.out = Append(<<>>, x) BY <1>4, <3>1 DEF Returned
            <4>2. WritesAll(req) = TRUE BY <1>5 DEF WritesAll
            <4>3. x = [req |-> req, whole |-> TRUE] BY <4>2
            <4> HIDE DEF x
            <4>4. chan'.out = <<x>> BY ONLY <4>1
            <4> QED BY <2>2, <4>3, <4>4
        <3>3. Asked' BY <1>4, <3>1, <3>2 DEF Asked, Returned
        <3>4. Agree(client.handles)' /\ ServerTyped' BY <1>1, <1>3, <3>1, AgreeSame DEF Returned
        <3>5. RequestFits' BY <1>2, <1>3, <2>2 DEF RequestFits
        <3>6. Asking' BY <1>3, <2>2, <3>1, <3>3, <3>4, <3>5 DEF Asking, Pending, Returned
        <3> QED BY <3>4, <3>6 DEF SFTPStage
    <2> QED BY <2>2, <2>3, <2>4, SFTPShape DEF SFTPInv, PacketUnits
<1>6. CASE ~WritesAll(req)
    <2>1. call' = Adrift BY <1>1, <1>6
    <2>2. Shaped(SFTPClientFields, SFTPServerFields)'
        BY <1>1, <1>3, <1>4, <2>1, SFTPShape, NoCall DEF Shaped
    <2> QED BY <2>1, <2>2, NoCall, SFTPShape DEF SFTPInv, PacketUnits
<1> QED BY <1>5, <1>6

\* Of a request that is about no handle there is nothing more to be known.
LEMMA SFTPRequestPlain ==
    ASSUME SFTPInv, NEW fn, NEW h, NEW n, NEW attrs, RequestWith(fn, h, n, attrs),
           fn \notin {"none", "adrift", "read", "write", "readdir", "close"}
    PROVE  SFTPInv'
BY SFTPRequestInv

\* Nothing is asked: the handles change, or nothing of them.
LEMMA SFTPReturnedInv ==
    ASSUME SFTPInv, call = Idle, UNCHANGED <<call, chan>>,
           DOMAIN client' = SFTPClientFields, DOMAIN server' = SFTPServerFields,
           server'.gone = server.gone, client'.packets = client.packets,
           ~server.gone /\ Agree(client.handles) /\ ServerTyped =>
                Agree(client.handles)' /\ ServerTyped'
    PROVE  SFTPInv'
<1>1. StreamIsSeq' /\ (NothingToRead' <=> NothingToRead) BY SFTPShape DEF StreamIsSeq, NothingToRead
<1>2. Shaped(SFTPClientFields, SFTPServerFields)' BY <1>1, SFTPShape DEF Shaped
<1>3. ASSUME ~server'.gone PROVE SFTPStage'
    <2>1. ServerTyped /\ Returned BY <1>3, NoCall, SFTPStages
    <2>2. Agree(client.handles)' /\ ServerTyped' BY <1>3, <2>1 DEF Returned
    <2> QED BY <1>1, <2>1, <2>2 DEF SFTPStage, Returned
<1> QED BY <1>2, <1>3, SFTPShape DEF SFTPInv, PacketUnits

\* A call begins, or the application does what needs none.
LEMMA SFTPBeginsInv ==
    ASSUME SFTPInv, SFTPBegins
    PROVE  SFTPInv'
<1> USE SFTPAssumption
<1>1. ASSUME SFTPInit PROVE SFTPInv'
    <2> DEFINE req == [fn |-> "init", id |-> 0, h |-> 0, n |-> 1,
                       attrs |-> AttrToBin(NoAttrs), size |-> 1, offset |-> 0]
    <2>0. call = Idle /\ UNCHANGED <<scenario, server>> BY <1>1 DEF SFTPInit
    <2>1. CASE /\ chan' = Write([chan EXCEPT !.open = TRUE, !.blocking = TRUE], req)
               /\ call' = Call("init", "ask", req) /\ client' = client
        <3>1. req.fn = "init" OBVIOUS
        <3>2. /\ chan' = Write([chan EXCEPT !.open = TRUE, !.blocking = TRUE], req)
              /\ call' = Call("init", "ask", req) /\ client' = client
            BY <2>1
        <3> HIDE DEF req
        <3>3. WritesAll(req) = TRUE BY <3>1 DEF WritesAll, Fits
        <3>4. /\ StreamIsSeq' /\ DOMAIN chan' = ChannelFields /\ (NothingToRead' <=> NothingToRead)
              /\ chan'.wire = chan.wire /\ chan'.closed = chan.closed
              /\ chan'.out = Append(chan.out, [req |-> req, whole |-> WritesAll(req)])
            BY <3>2, SFTPShape, ChannelWrites
        <3>5. /\ DOMAIN call' = CallFields /\ call'.fn = "init" /\ call'.req = req
              /\ call'.read = 0
            BY <3>2 DEF Call, CallFields
        <3>6. Shaped(SFTPClientFields, SFTPServerFields)'
            BY <2>0, <3>2, <3>4, <3>5, SFTPShape DEF Shaped
        <3>7. ASSUME ~server'.gone PROVE SFTPStage'
            <4>1. ServerTyped /\ Returned BY <2>0, <3>7, NoCall, SFTPStages
            <4>2. chan'.out = <<[req |-> call'.req, whole |-> TRUE]>>
                <5> DEFINE x == [req |-> req, whole |-> WritesAll(req)]
                <5>1. chan'.out = Append(<<>>, x) BY <3>4, <4>1 DEF Returned
                <5>2. x = [req |-> req, whole |-> TRUE] BY <3>3
                <5> HIDE DEF x
                <5>3. chan'.out = <<x>> BY ONLY <5>1
                <5> QED BY <3>5, <5>2, <5>3
            <4>3. Asked' BY <3>4, <4>1, <4>2 DEF Asked, Returned
            <4>4. Agree(client.handles)' /\ ServerTyped'
                BY <2>0, <3>2, <4>1, AgreeSame DEF Returned
            <4>5. RequestFits' BY <3>1, <3>5 DEF RequestFits
            <4>6. Asking' BY <3>2, <3>5, <4>1, <4>3, <4>4, <4>5 DEF Asking, Pending, Returned
            <4> QED BY <4>4, <4>6 DEF SFTPStage
        <3> QED BY <3>5, <3>6, <3>7, SFTPShape DEF SFTPInv, PacketUnits
    <2>2. CASE client' = [client EXCEPT !.calls = MaxCalls] /\ UNCHANGED <<chan, call>>
        <3>1. /\ DOMAIN client' = SFTPClientFields /\ client'.packets = client.packets
              /\ client'.handles = client.handles
            BY <2>2, SFTPShape DEF SFTPClientFields
        <3>2. ASSUME Agree(client.handles), ServerTyped
              PROVE  Agree(client.handles)' /\ ServerTyped'
            BY <2>0, <3>1, <3>2, AgreeSame
        <3> QED BY <2>0, <2>2, <3>1, <3>2, SFTPShape, SFTPReturnedInv
    <2> QED BY <1>1, <2>1, <2>2 DEF SFTPInit
<1>2. ASSUME OpenEx PROVE SFTPInv'
    <2>1. PICK fn \in {"open", "opendir"} : RequestWith(fn, 0, 1, NoAttrs)
        BY <1>2 DEF OpenEx, Request
    <2> QED BY <2>1, SFTPRequestPlain
<1>3. ASSUME UnlinkEx \/ MkdirEx \/ RmdirEx \/ RenameEx PROVE SFTPInv'
    <2>1. PICK fn \in {"unlink", "mkdir", "rmdir", "rename"} : RequestWith(fn, 0, 1, NoAttrs)
        BY <1>3 DEF UnlinkEx, MkdirEx, RmdirEx, RenameEx, Request
    <2> QED BY <2>1, SFTPRequestPlain
<1>4. ASSUME StatEx PROVE SFTPInv'
    <2>1. PICK fn \in {"stat", "setstat"} : \E attrs : RequestWith(fn, 0, 1, attrs)
        BY <1>4 DEF StatEx, Request, Sets
    <2>2. PICK attrs : RequestWith(fn, 0, 1, attrs) BY <2>1
    <2> QED BY <2>2, SFTPRequestPlain
<1>5. ASSUME SymlinkEx PROVE SFTPInv'
    <2>1. PICK fn \in {"symlink", "readlink", "realpath"} : RequestWith(fn, 0, 1, NoAttrs)
        BY <1>5 DEF SymlinkEx, Request
    <2> QED BY <2>1, SFTPRequestPlain
<1>6. ASSUME SFTPShutdown PROVE SFTPInv'
    <2>1. /\ chan' = [NewChannel EXCEPT !.closed = TRUE] /\ call' = Idle /\ UNCHANGED scenario
          /\ client' = [SFTPClient EXCEPT !.calls = MaxCalls]
          /\ server' = [server EXCEPT !.gone = TRUE]
        BY <1>6 DEF SFTPShutdown, Freed
    <2>2. DOMAIN client' = SFTPClientFields BY <2>1 DEF SFTPClient, SFTPClientFields
    <2>3. DOMAIN server' = SFTPServerFields /\ server'.gone = TRUE
        BY <2>1, SFTPShape DEF SFTPServerFields
    <2>4. Shaped(SFTPClientFields, SFTPServerFields)'
        BY <2>1, <2>2, <2>3, ChannelFreed, NoCall DEF Shaped
    <2> QED BY <2>1, <2>3, <2>4, NoCall, SFTPShape DEF SFTPInv, PacketUnits
<1>7. ASSUME NEW h \in Handles, NEW n \in 1 .. Chunk, SFTPRead(h, n) \/ SFTPWrite(h, n)
      PROVE  SFTPInv'
    <2>1. PICK fn \in {"read", "write"} : RequestWith(fn, h, n, NoAttrs)
        BY <1>7 DEF SFTPRead, SFTPWrite, Request
    <2>2. client.handles[h].type = "file" BY <1>7 DEF SFTPRead, SFTPWrite, Held
    <2>3. fn \notin {"none", "adrift"} /\ fn # "readdir" /\ fn # "close" /\ n \in Int OBVIOUS
    <2> QED BY <2>1, <2>2, <2>3, SFTPRequestInv
<1>8. ASSUME NEW h \in Handles, Fstat(h) PROVE SFTPInv'
    <2>1. PICK fn \in {"fstat", "fsetstat"} : \E attrs : RequestWith(fn, h, 1, attrs)
        BY <1>8 DEF Fstat, Request, Sets
    <2>2. PICK attrs : RequestWith(fn, h, 1, attrs) BY <2>1
    <2> QED BY <2>2, SFTPRequestPlain
<1>9. ASSUME NEW h \in Handles, Readdir(h) PROVE SFTPInv'
    <2>0. client.handles[h].type = "dir" BY <1>9 DEF Readdir, Held
    <2>1. CASE client.handles[h].names_left = 0
        <3>1. RequestWith("readdir", h, 1, NoAttrs) BY <1>9, <2>1 DEF Readdir, Request
        <3> QED BY <2>0, <2>1, <3>1, SFTPRequestInv
    <2>2. CASE client.handles[h].names_left # 0
        <3>1. /\ call = Idle /\ UNCHANGED <<scenario, call, chan, server>>
              /\ client' = [client EXCEPT !.handles[h].names_left = @ - 1,
                                          !.handles[h].given = @ + 1]
            BY <1>9, <2>2 DEF Readdir, PopName
        <3>2. /\ DOMAIN client' = SFTPClientFields /\ client'.packets = client.packets
              /\ client'.handles = [client.handles EXCEPT ![h].names_left = @ - 1,
                                                          ![h].given = @ + 1]
            BY <3>1, SFTPShape DEF SFTPClientFields
        <3>3. ASSUME Agree(client.handles), ServerTyped
              PROVE  Agree(client.handles)' /\ ServerTyped'
            <4> DEFINE H == client.handles
                       G == client'.handles
            <4>1. /\ H \in [Handles -> HandleRecords]
                  /\ \A k \in Handles :
                        /\ H[k].type = "none" <=> server.type[k] = "none"
                        /\ H[k].type = "file" => H[k].offset = server.moved[k]
                        /\ H[k].type = "dir" => H[k].given + H[k].names_left = server.moved[k]
                BY <3>3 DEF Agree
            <4>2. G = [H EXCEPT ![h].names_left = @ - 1, ![h].given = @ + 1] BY <3>2
            <4> HIDE DEF H, G
            <4>3. H[h] \in HandleRecords BY <4>1
            <4>4. /\ G[h] = [H[h] EXCEPT !.names_left = @ - 1, !.given = @ + 1]
                  /\ \A k \in Handles \ {h} : G[k] = H[k]
                BY <4>1, <4>2, <4>3 DEF HandleRecords
            <4>5. /\ G[h] \in HandleRecords /\ G[h].type = H[h].type
                  /\ G[h].offset = H[h].offset
                  /\ G[h].given + G[h].names_left = H[h].given + H[h].names_left
                <5> DEFINE a == H[h]
                           b == G[h]
                <5>1. a \in HandleRecords /\ b = [a EXCEPT !.names_left = @ - 1, !.given = @ + 1]
                    BY <4>3, <4>4
                <5> HIDE DEF a, b
                <5>2. /\ a.type \in Types /\ a.offset \in Int
                      /\ a.given \in Int /\ a.names_left \in Int
                      /\ a = [type |-> a.type, offset |-> a.offset,
                              names_left |-> a.names_left, given |-> a.given]
                    BY ONLY <5>1 DEF HandleRecords
                <5>3. b = [type |-> a.type, offset |-> a.offset,
                           names_left |-> a.names_left - 1, given |-> a.given + 1]
                    BY ONLY <5>1, <5>2
                <5>4. a.names_left - 1 \in Int /\ a.given + 1 \in Int BY ONLY <5>2
                <5>5. b \in HandleRecords BY ONLY <5>2, <5>3, <5>4 DEF HandleRecords
                <5>6. /\ b.type = a.type /\ b.offset = a.offset
                      /\ b.given = a.given + 1 /\ b.names_left = a.names_left - 1
                    BY ONLY <5>3
                <5>7. b.given + b.names_left = a.given + a.names_left BY ONLY <5>2, <5>6
                <5> QED BY ONLY <5>5, <5>6, <5>7 DEF a, b
            <4>6. G \in [Handles -> HandleRecords] BY <4>1, <4>2, <4>4, <4>5
            <4>7. Agree(G)
                <5>1. ASSUME NEW k \in Handles, k # h
                      PROVE  /\ G[k].type = "none" <=> server.type[k] = "none"
                             /\ G[k].type = "file" => G[k].offset = server.moved[k]
                             /\ G[k].type = "dir" =>
                                    G[k].given + G[k].names_left = server.moved[k]
                    <6>1. G[k] = H[k] BY ONLY <4>4, <5>1
                    <6> QED BY <4>1, <6>1
                <5>2. /\ G[h].type = "none" <=> server.type[h] = "none"
                      /\ G[h].type = "file" => G[h].offset = server.moved[h]
                      /\ G[h].type = "dir" => G[h].given + G[h].names_left = server.moved[h]
                    BY ONLY <4>1, <4>5
                <5> QED BY ONLY <4>6, <5>1, <5>2 DEF Agree
            <4>8. G = client'.handles BY DEF G
            <4> QED BY <3>1, <3>3, <4>7, <4>8, AgreeSame
        <3> QED BY <3>1, <3>2, <3>3, SFTPShape, SFTPReturnedInv
    <2> QED BY <2>1, <2>2
<1>10. ASSUME NEW h \in Handles, CloseHandle(h) PROVE SFTPInv'
    <2>1. RequestWith("close", h, 1, NoAttrs) BY <1>10 DEF CloseHandle, Request
    <2> QED BY <2>1, SFTPRequestInv
<1>11. ASSUME NEW h \in Handles, NEW offset \in 0 .. FileSize, Seek(h, offset) PROVE SFTPInv'
    <2>1. /\ call = Idle /\ UNCHANGED <<scenario, call, chan>>
          /\ client' = [client EXCEPT !.handles[h].offset = offset]
          /\ server' = [server EXCEPT !.moved[h] = offset]
          /\ client.handles[h].type = "file" /\ offset \in Int
        BY <1>11 DEF Seek, Held
    <2>2. /\ DOMAIN client' = SFTPClientFields /\ client'.packets = client.packets
          /\ client'.handles = [client.handles EXCEPT ![h].offset = offset]
        BY <2>1, SFTPShape DEF SFTPClientFields
    <2>3. /\ DOMAIN server' = SFTPServerFields /\ server'.gone = server.gone
          /\ server'.moved = [server.moved EXCEPT ![h] = offset] /\ server'.type = server.type
        BY <2>1, SFTPShape DEF SFTPServerFields
    <2>4. ASSUME Agree(client.handles), ServerTyped
          PROVE  Agree(client.handles)' /\ ServerTyped'
        <3>1. ServerTyped' BY <2>1, <2>3, <2>4 DEF ServerTyped
        <3> DEFINE H == client.handles
                   G == client'.handles
        <3>2. /\ H \in [Handles -> HandleRecords]
              /\ \A k \in Handles :
                    /\ H[k].type = "none" <=> server.type[k] = "none"
                    /\ H[k].type = "file" => H[k].offset = server.moved[k]
                    /\ H[k].type = "dir" => H[k].given + H[k].names_left = server.moved[k]
            BY <2>4 DEF Agree
        <3>3. G = [H EXCEPT ![h].offset = offset] /\ H[h].type = "file" BY <2>1, <2>2
        <3> HIDE DEF H, G
        <3>4. H[h] \in HandleRecords BY <3>2
        <3>5. /\ G[h] = [H[h] EXCEPT !.offset = offset]
              /\ \A k \in Handles \ {h} : G[k] = H[k]
            BY <3>2, <3>3
        <3>6. G[h] \in HandleRecords /\ G[h].type = "file" /\ G[h].offset = offset
            BY <2>1, <3>3, <3>4, <3>5 DEF HandleRecords
        <3>7. G \in [Handles -> HandleRecords] BY <3>2, <3>3, <3>5, <3>6
        <3>8. /\ server'.moved[h] = offset
              /\ \A k \in Handles \ {h} : server'.moved[k] = server.moved[k]
            BY <2>3, <2>4 DEF ServerTyped
        <3>9. G = client'.handles BY DEF G
        <3>10. ASSUME NEW k \in Handles
               PROVE  /\ G[k].type = "none" <=> server'.type[k] = "none"
                      /\ G[k].type = "file" => G[k].offset = server'.moved[k]
                      /\ G[k].type = "dir" => G[k].given + G[k].names_left = server'.moved[k]
            BY <2>3, <3>2, <3>3, <3>5, <3>6, <3>8
        <3> QED BY <3>1, <3>7, <3>9, <3>10 DEF Agree
    <2> QED BY <2>1, <2>2, <2>3, <2>4, SFTPReturnedInv
<1> QED BY <1>1, <1>2, <1>3, <1>4, <1>5, <1>6, <1>7, <1>8, <1>9, <1>10, <1>11 DEF SFTPBegins

\* Part of a packet is read: the rest of it is still to come.
LEMMA ArrivesOn ==
    ASSUME Arriving, ServerTyped, UNCHANGED <<client, server>>, NEW k \in Nat,
           call.read + k < PacketUnits, StreamIsSeq, StreamIsSeq',
           Len(Stream') = Len(Stream) - k,
           \A i \in 1 .. Len(Stream) - k : Stream'[i] = Stream[i + k],
           chan'.out = chan.out,
           call'.fn = call.fn, call'.req = call.req, call'.read = call.read + k
    PROVE  SFTPStage'
<1>1. /\ Pending /\ chan.out = <<>> /\ client.packets = <<>>
      /\ client.handles \in [Handles -> HandleRecords]
      /\ call.read \in 0 .. 4 /\ Len(Stream) = 5 - call.read
      /\ \A i \in 1 .. Len(Stream) : Stream[i].packet = Stream[1].packet
      /\ Stream[1].packet.id = call.req.id /\ Agree(Taken(Stream[1].packet))
    BY DEF Arriving, PacketUnits
<1>2. PICK n : n = Len(Stream) OBVIOUS
<1>3. /\ n \in Nat /\ n - k > 0 /\ n = 5 - call.read /\ call'.read \in 0 .. 4
      /\ n - k = 5 - call'.read
    <2>1. call.read \in 0 .. 4 /\ n = 5 - call.read /\ call.read + k < 5
          /\ call'.read = call.read + k
        BY <1>1, <1>2 DEF PacketUnits
    <2> QED BY ONLY <2>1, k \in Nat
<1>4. \A i \in 1 .. n : Stream[i].packet = Stream[1].packet BY <1>1, <1>2
<1>5. ASSUME NEW i \in 1 .. n - k PROVE Stream'[i].packet = Stream[1].packet
    <2>1. i + k \in 1 .. n BY ONLY <1>3, k \in Nat, i \in 1 .. n - k
    <2>2. Stream'[i] = Stream[i + k] BY <1>2
    <2> QED BY <1>4, <2>1, <2>2
<1>6. Stream'[1].packet = Stream[1].packet
    <2>1. 1 \in 1 .. n - k BY ONLY <1>3, k \in Nat
    <2> QED BY <1>5, <2>1
<1>7. PICK p : p = Stream[1].packet OBVIOUS
<1>8. Agree(Taken(p))'
    <2>1. PICK H : H = Taken(p) OBVIOUS
    <2>2. Taken(p)' = H BY <2>1, AfterSame DEF Taken
    <2>3. Agree(H)' BY <1>1, <1>7, <2>1, AgreeSame
    <2> QED BY <2>2, <2>3
<1>9. Agree(Taken(Stream[1].packet))' BY <1>6, <1>7, <1>8
<1>10. \A i \in 1 .. Len(Stream') : Stream'[i].packet = Stream'[1].packet
    BY <1>2, <1>5, <1>6
<1>11. Arriving' BY <1>1, <1>2, <1>3, <1>6, <1>9, <1>10 DEF Arriving, Pending, PacketUnits
<1>12. ServerTyped' BY AgreeSame
<1> QED BY <1>11, <1>12 DEF SFTPStage

\* The call goes on with all as it was, or asks with its reply in the brigade.
LEMMA StageKept ==
    ASSUME SFTPInv, ~server.gone, Pending, UNCHANGED <<client, server>>,
           call'.fn = call.fn, call'.req = call.req, call'.read = call.read,
           Stream' = Stream, NothingToRead' <=> NothingToRead, chan'.out = chan.out
    PROVE  SFTPStage'
<1>1. ServerTyped /\ (Asking \/ Arriving \/ InBrigade) BY NoCall, SFTPStages DEF Pending
<1>2. ASSUME NEW p, Agree(Taken(p)) PROVE Agree(Taken(p))'
    <2>1. PICK H : H = Taken(p) OBVIOUS
    <2>2. Taken(p)' = H BY <2>1, AfterSame DEF Taken
    <2>3. Agree(H)' BY <1>2, <2>1, AgreeSame
    <2> QED BY <2>2, <2>3
<1>3. CASE Asking
    <2>1. Agree(client.handles)' BY <1>3, AgreeSame DEF Asking
    <2>2. RequestFits' BY <1>3 DEF Asking, RequestFits
    <2>3. Asked' BY <1>3 DEF Asking, Asked
    <2>4. Asking' BY <1>3, <2>1, <2>2, <2>3 DEF Asking, Pending
    <2> QED BY <1>1, <2>4, AgreeSame DEF SFTPStage
<1>4. CASE Arriving
    <2>1. Agree(Taken(Stream[1].packet))' BY <1>2, <1>4 DEF Arriving
    <2>2. Arriving' BY <1>4, <2>1 DEF Arriving, Pending
    <2> QED BY <1>1, <2>2, AgreeSame DEF SFTPStage
<1>5. CASE InBrigade
    <2>1. Agree(Taken(client.packets[1]))' BY <1>2, <1>5 DEF InBrigade
    <2>2. InBrigade' BY <1>5, <2>1 DEF InBrigade, Pending
    <2> QED BY <1>1, <2>2, AgreeSame DEF SFTPStage
<1> QED BY <1>1, <1>3, <1>4, <1>5

\* The brigade is asked for the reply.
LEMMA SFTPAskInv ==
    ASSUME SFTPInv, Ask
    PROVE  SFTPInv'
<1> DEFINE i == AskFor(client.packets, Responses(call.fn))
<1>1. /\ call.step = "ask" /\ UNCHANGED <<scenario, chan, server>>
      /\ IF i = 0 THEN call' = [call EXCEPT !.step = "read"] /\ UNCHANGED client
         ELSE /\ client' = Takes([client EXCEPT !.packets = RemoveAt(@, i)], client.packets[i])
              /\ call' = Idle
    BY DEF Ask
<1>2. Pending /\ call # Adrift /\ call # Idle BY <1>1, SFTPShape, NoCall DEF Pending
<1>3. StreamIsSeq' /\ Stream' = Stream /\ (NothingToRead' <=> NothingToRead)
    BY <1>1, SFTPShape DEF StreamIsSeq, Stream, NothingToRead
<1> HIDE DEF i
<1>4. CASE i = 0
    <2>1. call' = [call EXCEPT !.step = "read"] /\ UNCHANGED client BY <1>1, <1>4
    <2>2. /\ DOMAIN call' = CallFields /\ call'.fn = call.fn /\ call'.req = call.req
          /\ call'.read = call.read
        BY <2>1, SFTPShape DEF CallFields
    <2>3. Shaped(SFTPClientFields, SFTPServerFields)'
        BY <1>1, <1>2, <1>3, <2>1, <2>2, SFTPShape DEF Shaped, Pending
    <2>4. ~server'.gone => SFTPStage' BY <1>1, <1>2, <1>3, <2>1, <2>2, StageKept
    <2> QED BY <2>2, <2>3, <2>4, SFTPShape DEF SFTPInv, PacketUnits
<1>5. CASE i # 0
    <2> DEFINE c == [client EXCEPT !.packets = RemoveAt(@, i)]
               p == client.packets[i]
    <2>1. client' = Takes(c, p) /\ call' = Idle BY <1>1, <1>5
    <2>2. /\ DOMAIN c = SFTPClientFields /\ c.handles = client.handles
          /\ c.packets = RemoveAt(client.packets, i)
        BY SFTPShape DEF SFTPClientFields
    <2> HIDE DEF c, p
    <2>3. /\ DOMAIN client' = SFTPClientFields /\ client'.packets = c.packets
          /\ c.handles \in [Handles -> HandleRecords] =>
                client'.handles = HandlesAfter(c.handles, p)
        BY <2>1, <2>2, TakesHandles
    <2>4. Shaped(SFTPClientFields, SFTPServerFields)'
        BY <1>1, <1>3, <2>1, <2>3, SFTPShape, NoCall DEF Shaped
    <2>5. ASSUME ~server.gone PROVE SFTPStage'
        <3>1. ServerTyped /\ (Asking \/ Arriving \/ InBrigade)
            BY <1>2, <2>5, SFTPStages DEF Pending
        <3>2. client.packets # <<>> BY <1>5, AskForOne DEF i
        <3>3. InBrigade BY <3>1, <3>2 DEF Asking, Arriving
        <3>4. client.packets = <<client.packets[1]>> BY <3>3 DEF InBrigade
        <3>5. i \in {0, 1} BY <3>4, AskForOne DEF i
        <3>6. i = 1 /\ p = client.packets[1] BY <1>5, <3>5 DEF p
        <3>7. RemoveAt(client.packets, 1) = <<>>
            <4>1. PICK x : x = client.packets[1] OBVIOUS
            <4>2. client.packets = <<x>> BY <3>4, <4>1
            <4>3. RemoveAt(<<x>>, 1) = <<>> BY DEF RemoveAt
            <4> QED BY <4>2, <4>3
        <3>8. client'.packets = <<>> BY <2>2, <2>3, <3>6, <3>7
        <3>9. Agree(Taken(p)) BY <3>3, <3>6 DEF InBrigade
        <3>10. client'.handles = Taken(p)
            <4>1. client.handles \in [Handles -> HandleRecords] BY <3>3 DEF InBrigade
            <4> QED BY <2>2, <2>3, <4>1 DEF Taken
        <3>11. Agree(client.handles)' BY <1>1, <3>9, <3>10, AgreeSame
        <3>12. Returned' BY <1>1, <1>3, <2>1, <3>3, <3>8, <3>11 DEF Returned, InBrigade
        <3> QED BY <1>1, <3>1, <3>12, AgreeSame DEF SFTPStage
    <2> QED BY <1>1, <2>1, <2>4, <2>5, NoCall, SFTPShape DEF SFTPInv, PacketUnits
<1> QED BY <1>4, <1>5

\* Something of a length has been read, or the call will ask.
LEMMA SFTPFlushInv ==
    ASSUME SFTPInv, FlushRead
    PROVE  SFTPInv'
<1>1. /\ call.step = "flush" /\ call.read = 0 /\ UNCHANGED <<scenario, client, server>>
      /\ IF chan.in = <<>>
         THEN chan' = [chan EXCEPT !.blocking = FALSE] /\ call' = [call EXCEPT !.step = "ask"]
         ELSE chan' = [Read(chan, 1) EXCEPT !.blocking = TRUE] /\ call' = [call EXCEPT !.read = 1]
    BY DEF FlushRead
<1>2. Pending /\ call # Adrift /\ call # Idle BY <1>1, SFTPShape, NoCall DEF Pending
<1>3. /\ DOMAIN call' = CallFields /\ call'.fn = call.fn /\ call'.req = call.req
      /\ call'.read \in {0, 1} /\ (chan.in = <<>> => call'.read = 0)
      /\ chan.in # <<>> => call'.read = 1
    BY <1>1, SFTPShape DEF CallFields
<1>4. call'.fn \notin {"none", "adrift"} /\ call'.read \in 0 .. 4 BY <1>2, <1>3 DEF Pending
<1>5. CASE chan.in = <<>>
    <2>1. chan' = [chan EXCEPT !.blocking = FALSE] BY <1>1, <1>5
    <2>2. /\ DOMAIN chan' = ChannelFields /\ chan'.in = chan.in /\ chan'.wire = chan.wire
          /\ chan'.out = chan.out /\ chan'.closed = chan.closed
        BY <2>1, SFTPShape DEF ChannelFields
    <2>3. StreamIsSeq' /\ Stream' = Stream /\ (NothingToRead' <=> NothingToRead)
        BY <2>2, SFTPShape DEF StreamIsSeq, Stream, NothingToRead
    <2>4. Shaped(SFTPClientFields, SFTPServerFields)'
        BY <1>1, <1>3, <1>4, <2>2, <2>3, SFTPShape DEF Shaped
    <2>5. ~server'.gone => SFTPStage' BY <1>1, <1>2, <1>3, <1>5, <2>2, <2>3, StageKept
    <2> QED BY <1>4, <2>4, <2>5 DEF SFTPInv, PacketUnits
<1>6. CASE chan.in # <<>>
    <2>1. chan' = [Read(chan, 1) EXCEPT !.blocking = TRUE] BY <1>1, <1>6
    <2>2. /\ DOMAIN chan' = ChannelFields /\ UNCHANGED <<chan.open, chan.closed, chan.out>>
          /\ chan'.wire = chan.wire /\ StreamIsSeq'
          /\ Count(1) \in Nat /\ Count(1) <= 1
          /\ Count(1) = 1 \/ Count(1) = Len(chan.in)
          /\ Len(Stream') = Len(Stream) - Count(1)
          /\ \A i \in 1 .. Len(Stream) - Count(1) : Stream'[i] = Stream[i + Count(1)]
        <3>1. 1 \in Nat OBVIOUS
        <3> QED BY <2>1, <3>1, SFTPShape, ChannelRead
    <2>3. Count(1) = 1
        <3>1. Len(chan.in) > 0 /\ Len(chan.in) \in Nat BY <1>6, SFTPShape, StreamFacts
        <3> QED BY ONLY <2>2, <3>1
    <2>4. Shaped(SFTPClientFields, SFTPServerFields)'
        BY <1>1, <1>3, <1>4, <2>2, SFTPShape DEF Shaped
    <2>5. ASSUME ~server'.gone PROVE SFTPStage'
        <3>1. ServerTyped /\ (Asking \/ Arriving \/ InBrigade)
            BY <1>1, <1>2, <2>5, SFTPStages DEF Pending
        <3>2. ~NothingToRead BY <1>6 DEF NothingToRead
        <3>3. Arriving BY <3>1, <3>2 DEF Asking, Asked, InBrigade
        <3>4. call.read + 1 < PacketUnits /\ call'.read = call.read + 1 /\ 1 \in Nat
            BY <1>1, <1>3, <1>6 DEF PacketUnits
        <3> QED BY <1>1, <1>3, <2>2, <2>3, <3>1, <3>3, <3>4, SFTPShape, ArrivesOn
    <2> QED BY <1>4, <2>4, <2>5 DEF SFTPInv, PacketUnits
<1> QED BY <1>5, <1>6

\* A length has been read, or not all of it; or the channel is closed.
LEMMA SFTPLengthInv ==
    ASSUME SFTPInv, ReadLength
    PROVE  SFTPInv'
<1>1. /\ call.step \in {"read", "flush"} /\ call.read \in {0, 1} /\ UNCHANGED scenario
      /\ Readable
      /\ IF chan.in = <<>> THEN GivesUp
         ELSE /\ chan' = [Read(chan, HeaderUnits - call.read) EXCEPT !.blocking = TRUE]
              /\ call' = IF Count(HeaderUnits) >= HeaderUnits - call.read
                         THEN [call EXCEPT !.read = HeaderUnits] ELSE Adrift
              /\ UNCHANGED <<client, server>>
    BY DEF ReadLength
<1>2. Pending /\ call # Adrift /\ call # Idle BY <1>1, SFTPShape, NoCall DEF Pending
<1>3. CASE chan.in = <<>>
    <2>1. GivesUp /\ server.gone BY <1>1, <1>3, SFTPShape DEF Readable
    <2>2. call' = Idle BY <2>1 DEF GivesUp
    <2>3. CASE UNCHANGED <<chan, client, server>>
        <3>1. StreamIsSeq' BY <2>3, SFTPShape DEF StreamIsSeq
        <3>2. Shaped(SFTPClientFields, SFTPServerFields)'
            BY <2>1, <2>2, <2>3, <3>1, SFTPShape, NoCall DEF Shaped
        <3> QED BY <2>1, <2>2, <2>3, <3>2, NoCall, SFTPShape DEF SFTPInv, PacketUnits
    <2>4. CASE /\ chan' = Freed /\ server' = [server EXCEPT !.gone = TRUE]
               /\ client' = [client EXCEPT !.calls = MaxCalls]
        <3>1. /\ DOMAIN client' = SFTPClientFields /\ DOMAIN server' = SFTPServerFields
              /\ server'.gone = TRUE
            BY <2>4, SFTPShape DEF SFTPClientFields, SFTPServerFields
        <3>2. Shaped(SFTPClientFields, SFTPServerFields)'
            BY <2>2, <2>4, <3>1, ChannelFreed, NoCall DEF Shaped, Freed
        <3> QED BY <2>2, <3>1, <3>2, NoCall, SFTPShape DEF SFTPInv, PacketUnits
    <2> QED BY <2>1, <2>3, <2>4 DEF GivesUp
<1>4. CASE chan.in # <<>>
    <2> DEFINE n == HeaderUnits - call.read
               b == TRUE
    <2>1. /\ chan' = [Read(chan, n) EXCEPT !.blocking = b]
          /\ call' = IF Count(HeaderUnits) >= n THEN [call EXCEPT !.read = HeaderUnits] ELSE Adrift
          /\ UNCHANGED <<client, server>>
        BY <1>1, <1>4
    <2>2. n \in Nat /\ n + call.read = 3 /\ n <= 3 BY <1>1 DEF HeaderUnits
    <2> HIDE DEF n, b
    <2>3. /\ DOMAIN chan' = ChannelFields /\ UNCHANGED <<chan.open, chan.closed, chan.out>>
          /\ chan'.wire = chan.wire /\ StreamIsSeq'
          /\ Count(n) \in Nat /\ Count(n) <= n
          /\ Count(n) = n \/ Count(n) = Len(chan.in)
          /\ Len(Stream') = Len(Stream) - Count(n)
          /\ \A i \in 1 .. Len(Stream) - Count(n) : Stream'[i] = Stream[i + Count(n)]
        BY <2>1, <2>2, SFTPShape, ChannelRead
    <2>4. CASE Count(HeaderUnits) >= n
        <3>1. call' = [call EXCEPT !.read = HeaderUnits] BY <2>1, <2>4
        <3>2. /\ DOMAIN call' = CallFields /\ call'.fn = call.fn /\ call'.req = call.req
              /\ call'.read = 3
            BY <3>1, SFTPShape DEF CallFields, HeaderUnits
        <3>3. call'.fn \notin {"none", "adrift"} /\ call'.read \in 0 .. 4 BY <1>2, <3>2 DEF Pending
        <3>4. Shaped(SFTPClientFields, SFTPServerFields)'
            BY <2>1, <2>3, <3>2, <3>3, SFTPShape DEF Shaped
        <3>5. ASSUME ~server'.gone PROVE SFTPStage'
            <4>1. ServerTyped /\ (Asking \/ Arriving \/ InBrigade)
                BY <1>2, <2>1, <3>5, SFTPStages DEF Pending
            <4>2. ~NothingToRead BY <1>4 DEF NothingToRead
            <4>3. Arriving BY <4>1, <4>2 DEF Asking, Asked, InBrigade
            <4>4. Count(n) = n
                <5>1. Len(chan.in) \in Nat BY SFTPShape, StreamFacts
                <5> QED BY <2>2, <2>4, <5>1 DEF Count, HeaderUnits
            <4>5. call.read + n < PacketUnits /\ call'.read = call.read + n
                BY <1>1, <2>2, <3>2 DEF PacketUnits
            <4>6. UNCHANGED <<client, server>> /\ chan'.out = chan.out BY <2>1, <2>3
            <4>7. /\ Len(Stream') = Len(Stream) - n
                  /\ \A i \in 1 .. Len(Stream) - n : Stream'[i] = Stream[i + n]
                BY <2>3, <4>4
            <4> QED BY ONLY <2>2, <2>3, <3>2, <4>1, <4>3, <4>5, <4>6, <4>7, SFTPShape, SFTPInv,
                    ArrivesOn
        <3> QED BY <3>3, <3>4, <3>5 DEF SFTPInv, PacketUnits
    <2>5. CASE ~(Count(HeaderUnits) >= n)
        <3>1. call' = Adrift BY <2>1, <2>5
        <3>2. Shaped(SFTPClientFields, SFTPServerFields)'
            BY <2>1, <2>3, <3>1, SFTPShape, NoCall DEF Shaped
        <3> QED BY <3>1, <3>2, NoCall, SFTPShape DEF SFTPInv, PacketUnits
    <2> QED BY <2>4, <2>5
<1> QED BY <1>3, <1>4

\* A body has been read, or part of it: the packet is the reply.
LEMMA SFTPBodyInv ==
    ASSUME SFTPInv, ReadBody
    PROVE  SFTPInv'
<1> DEFINE n == PacketUnits - call.read
           got == call.read + Count(n)
           p == Head(chan.in).packet
<1>1. /\ call.step \in {"flush", "read"} /\ call.read >= 3 /\ chan.in # <<>>
      /\ IF got < PacketUnits THEN call' = [call EXCEPT !.read = got] /\ UNCHANGED client
         ELSE /\ client' = PacketAdd(client, p)
              /\ \E step : call' = [call EXCEPT !.read = 0, !.step = step]
      /\ chan' = Read(chan, n)
      /\ UNCHANGED <<scenario, server>>
    BY DEF ReadBody, HeaderUnits
<1>2. Pending /\ call # Adrift /\ call # Idle BY <1>1, SFTPShape, NoCall DEF Pending
<1>3. n \in Nat /\ n = 5 - call.read /\ call.read \in 0 .. 4 BY SFTPShape DEF PacketUnits
<1>4. got = call.read + Count(n) OBVIOUS
<1> HIDE DEF n, got
<1>5. /\ DOMAIN chan' = ChannelFields /\ UNCHANGED <<chan.open, chan.closed, chan.out>>
      /\ chan'.wire = chan.wire /\ StreamIsSeq'
      /\ Count(n) \in Nat /\ Count(n) <= n
      /\ Len(Stream') = Len(Stream) - Count(n)
      /\ \A i \in 1 .. Len(Stream) - Count(n) : Stream'[i] = Stream[i + Count(n)]
    BY <1>1, <1>3, SFTPShape, ChannelRead
<1>6. ASSUME ~server.gone PROVE ServerTyped /\ Arriving
    <2>1. ServerTyped /\ (Asking \/ Arriving \/ InBrigade)
        BY <1>2, <1>6, SFTPStages DEF Pending
    <2>2. ~NothingToRead BY <1>1 DEF NothingToRead
    <2> QED BY <2>1, <2>2 DEF Asking, Asked, InBrigade
<1>7. CASE got < 5
    <2>1. call' = [call EXCEPT !.read = got] /\ UNCHANGED client BY <1>1, <1>7 DEF PacketUnits
    <2>2. /\ DOMAIN call' = CallFields /\ call'.fn = call.fn /\ call'.req = call.req
          /\ call'.read = got
        BY <2>1, SFTPShape DEF CallFields
    <2>3. got \in 0 .. 4
        <3>1. Count(n) \in Nat BY <1>5
        <3>2. call.read \in 0 .. 4 BY <1>3
        <3> QED BY ONLY <1>4, <1>7, <3>1, <3>2
    <2>4. call'.fn \notin {"none", "adrift"} BY <1>2, <2>2 DEF Pending
    <2>5. Shaped(SFTPClientFields, SFTPServerFields)'
        BY <1>1, <1>5, <2>1, <2>2, <2>4, SFTPShape DEF Shaped
    <2>6. ASSUME ~server'.gone PROVE SFTPStage'
        <3>1. ServerTyped /\ Arriving BY <1>1, <1>6, <2>6
        <3>2. call.read + Count(n) < PacketUnits /\ call'.read = call.read + Count(n)
            BY <1>4, <1>7, <2>2 DEF PacketUnits
        <3>3. UNCHANGED <<client, server>> /\ chan'.out = chan.out BY <1>1, <1>5, <2>1
        <3> QED BY ONLY <1>5, <2>2, <3>1, <3>2, <3>3, SFTPShape, SFTPInv, ArrivesOn
    <2> QED BY <2>2, <2>3, <2>5, <2>6 DEF SFTPInv, PacketUnits
<1>8. CASE ~(got < 5)
    <2>1. PICK step : call' = [call EXCEPT !.read = 0, !.step = step]
        BY <1>1, <1>8 DEF PacketUnits
    <2>2. client' = [client EXCEPT !.packets = Append(@, p)]
        BY <1>1, <1>8 DEF PacketUnits, PacketAdd
    <2>3. /\ DOMAIN call' = CallFields /\ call'.fn = call.fn /\ call'.req = call.req
          /\ call'.read = 0
        BY <2>1, SFTPShape DEF CallFields
    <2>4. /\ DOMAIN client' = SFTPClientFields /\ client'.handles = client.handles
          /\ client'.packets = Append(client.packets, p)
        BY <2>2, SFTPShape DEF SFTPClientFields
    <2>5. call'.fn \notin {"none", "adrift"} BY <1>2, <2>3 DEF Pending
    <2>6. Shaped(SFTPClientFields, SFTPServerFields)'
        BY <1>1, <1>5, <2>3, <2>4, <2>5, SFTPShape DEF Shaped
    <2>7. ASSUME ~server'.gone PROVE SFTPStage'
        <3>1. ServerTyped /\ Arriving BY <1>1, <1>6, <2>7
        <3>2. /\ chan.out = <<>> /\ client.packets = <<>> /\ Len(Stream) = 5 - call.read
              /\ client.handles \in [Handles -> HandleRecords]
              /\ Stream[1].packet.id = call.req.id /\ Agree(Taken(Stream[1].packet))
            BY <3>1 DEF Arriving, PacketUnits
        <3>3. PICK q : q = Stream[1].packet /\ q = p BY <1>1, SFTPShape, StreamFacts
        <3> HIDE DEF p
        <3>4. client'.packets = <<q>> BY <2>4, <3>2, <3>3
        <3>5. client'.packets[1] = q BY <3>4
        <3>6. Len(Stream') = 0 BY <1>3, <1>4, <1>5, <1>8, <3>2
        <3>7. NothingToRead' BY <1>5, <3>6, StreamFactsNext
        <3>8. Agree(Taken(q))'
            <4>1. PICK H : H = Taken(q) OBVIOUS
            <4>2. Taken(q)' = H BY <2>3, <2>4, <4>1, AfterSame DEF Taken
            <4>3. Agree(H)' BY <1>1, <3>2, <3>3, <4>1, AgreeSame
            <4> QED BY <4>2, <4>3
        <3>9. InBrigade' BY <1>5, <2>3, <2>4, <2>5, <3>2, <3>3, <3>4, <3>5, <3>7, <3>8
            DEF InBrigade, Pending
        <3> QED BY <1>1, <3>1, <3>9, AgreeSame DEF SFTPStage
    <2> QED BY <2>3, <2>6, <2>7, SFTPShape DEF SFTPInv, PacketUnits
<1> QED BY <1>7, <1>8

\* What is carried on changes nothing for SFTP.
LEMMA SFTPCarriedInv ==
    ASSUME SFTPInv, Carried
    PROVE  SFTPInv'
<1>1. Shaped(SFTPClientFields, SFTPServerFields) BY DEF SFTPInv
<1>2. Shaped(SFTPClientFields, SFTPServerFields)' BY <1>1, CarriedShape
<1>3. /\ call' = call /\ client' = client /\ chan'.out = chan.out /\ Stream' = Stream
      /\ NothingToRead' <=> NothingToRead
      /\ server'.gone \/ UNCHANGED server
    BY DEF Carried
<1>4. ASSUME ~server'.gone, call' # Adrift PROVE SFTPStage'
    <2>1. UNCHANGED server /\ ~server.gone /\ call # Adrift BY <1>3, <1>4
    <2>2. CASE Pending BY <1>3, <2>1, <2>2, StageKept
    <2>3. CASE ~Pending
        <3>1. call = Idle BY <2>1, <2>3, SFTPShape DEF Pending
        <3>2. ServerTyped /\ Returned BY <2>1, <3>1, NoCall, SFTPStages
        <3>3. Agree(client.handles)' /\ ServerTyped' BY <1>3, <2>1, <3>2, AgreeSame DEF Returned
        <3> QED BY <1>3, <3>1, <3>2, <3>3 DEF SFTPStage, Returned
    <2> QED BY <2>2, <2>3
<1> QED BY <1>2, <1>3, <1>4, SFTPShape DEF SFTPInv, PacketUnits

\* What the server writes is a sequence of units.
LEMMA SentShape ==
    ASSUME StreamIsSeq, DOMAIN chan = ChannelFields, NEW reply,
           chan' = Sent(Received(chan), <<reply>>, PacketUnits)
    PROVE  StreamIsSeq' /\ DOMAIN chan' = ChannelFields /\ chan'.closed = chan.closed
<1> DEFINE N == PacketUnits * Len(<<reply>>)
           U(i) == [packet |-> <<reply>>[1 + ((i - 1) \div PacketUnits)],
                    part |-> 1 + ((i - 1) % PacketUnits), of |-> PacketUnits]
           T == {U(i) : i \in 1 .. N}
           units == [i \in 1 .. N |-> U(i)]
<1>1. /\ DOMAIN chan' = ChannelFields /\ chan'.closed = chan.closed
      /\ chan'.in = chan.in /\ chan'.wire = chan.wire \o units
    BY DEF Sent, Received, ChannelFields
<1>2. N \in Nat BY DEF PacketUnits
<1> HIDE DEF N, U
<1>3. units \in Seq(T) BY <1>2
<1> HIDE DEF units, T
<1> QED BY <1>1, <1>3, StreamSent

\* The server answers, with something that keeps the two sides together.
LEMMA SFTPAnswersInv ==
    ASSUME SFTPInv, Waiting, UNCHANGED <<scenario, call, client>>, NEW reply,
           chan' = Sent(Received(chan), <<reply>>, PacketUnits),
           DOMAIN server' = SFTPServerFields, server'.gone = server.gone,
           call # Adrift => reply.id = call.req.id /\ Agree(Taken(reply))' /\ ServerTyped'
    PROVE  SFTPInv'
<1>1. ~server.gone /\ chan.out # <<>> BY DEF Waiting
<1>2. StreamIsSeq' /\ DOMAIN chan' = ChannelFields /\ chan'.closed = chan.closed
    BY SFTPShape, SentShape
<1>3. Shaped(SFTPClientFields, SFTPServerFields)' BY <1>1, <1>2, SFTPShape DEF Shaped
<1>4. ASSUME call # Adrift PROVE SFTPStage'
    <2>1. Asking
        BY <1>1, <1>4, SFTPStages DEF Returned, Arriving, InBrigade
    <2>2. /\ NothingToRead /\ chan.out = <<[req |-> call.req, whole |-> TRUE]>>
          /\ Pending /\ client.packets = <<>> /\ call.read = 0
          /\ client.handles \in [Handles -> HandleRecords]
        BY <2>1 DEF Asking, Asked, Agree
    <2>3. PICK packets : packets = <<reply>> OBVIOUS
    <2>4. Len(packets) = 1 /\ packets[1] = reply BY <2>3
    <2>5. /\ chan'.out = <<>> /\ Len(Stream') = 5 * 1
          /\ \A i \in 1 .. 5 * 1 : Stream'[i].packet = packets[1 + ((i - 1) \div 5)]
        <3>1. PICK x : chan.out = <<x>> BY <2>2
        <3>2. 1 \in Nat OBVIOUS
        <3>3. chan' = Sent(Received(chan), packets, PacketUnits) BY <2>3
        <3>4. StreamIsSeq /\ DOMAIN chan = ChannelFields /\ NothingToRead
            BY <2>2, SFTPShape
        <3>5. Len(packets) = 1 BY <2>4
        <3> QED BY ONLY <3>1, <3>2, <3>3, <3>4, <3>5, StreamAnswered
    <2>6. ASSUME NEW i \in 1 .. 5 PROVE Stream'[i].packet = reply
        <3>1. 1 + ((i - 1) \div 5) = 1 /\ i \in 1 .. 5 * 1 BY ONLY i \in 1 .. 5
        <3> QED BY <2>4, <2>5, <3>1
    <2>7. 1 \in 1 .. 5 /\ 0 \in 0 .. 4 OBVIOUS
    <2>8. Stream'[1].packet = reply BY <2>6, <2>7
    <2>9. /\ Len(Stream') = 5 /\ \A i \in 1 .. 5 : Stream'[i].packet = Stream'[1].packet
          /\ Stream'[1].packet.id = call.req.id
        BY <1>4, <2>5, <2>6, <2>8
    <2>10. Agree(Taken(Stream[1].packet))'
        BY <1>4, <2>8
    <2>11. Arriving' BY <2>2, <2>5, <2>7, <2>9, <2>10 DEF Arriving, Pending, PacketUnits
    <2> QED BY <1>4, <2>11 DEF SFTPStage
<1> QED BY <1>3, <1>4, SFTPShape DEF SFTPInv, PacketUnits

\* One handle changes on both sides.
OneChanges(Hs, G, h, r, m, t) ==
    /\ Agree(Hs) /\ ServerTyped /\ h \in Handles /\ r \in HandleRecords
    /\ G = [Hs EXCEPT ![h] = r]
    /\ m \in Int /\ t \in Types
    /\ r.type = "none" <=> t = "none"
    /\ r.type = "file" => r.offset = m
    /\ r.type = "dir" => r.given + r.names_left = m
\* The two sides agree then as they did.
LEMMA AgreeAt ==
    ASSUME NEW Hs, NEW G, NEW h, NEW r, NEW m, NEW t, OneChanges(Hs, G, h, r, m, t),
           server'.moved = [server.moved EXCEPT ![h] = m],
           server'.type = [server.type EXCEPT ![h] = t]
    PROVE  Agree(G)' /\ ServerTyped'
<1>1. /\ Agree(Hs) /\ ServerTyped /\ h \in Handles /\ r \in HandleRecords
      /\ G = [Hs EXCEPT ![h] = r] /\ m \in Int /\ t \in Types
      /\ r.type = "none" <=> t = "none"
      /\ r.type = "file" => r.offset = m
      /\ r.type = "dir" => r.given + r.names_left = m
    BY DEF OneChanges
<1>2. ServerTyped' BY ONLY <1>1, server'.moved = [server.moved EXCEPT ![h] = m],
        server'.type = [server.type EXCEPT ![h] = t] DEF ServerTyped
<1>3. /\ server'.moved[h] = m /\ server'.type[h] = t
      /\ \A k \in Handles \ {h} :
            server'.moved[k] = server.moved[k] /\ server'.type[k] = server.type[k]
    BY ONLY <1>1, server'.moved = [server.moved EXCEPT ![h] = m],
        server'.type = [server.type EXCEPT ![h] = t] DEF ServerTyped
<1>4. /\ Hs \in [Handles -> HandleRecords]
      /\ \A k \in Handles :
            /\ Hs[k].type = "none" <=> server.type[k] = "none"
            /\ Hs[k].type = "file" => Hs[k].offset = server.moved[k]
            /\ Hs[k].type = "dir" => Hs[k].given + Hs[k].names_left = server.moved[k]
    BY ONLY <1>1 DEF Agree
<1>5. /\ G \in [Handles -> HandleRecords] /\ G[h] = r
      /\ \A k \in Handles \ {h} : G[k] = Hs[k]
    BY ONLY <1>1, <1>4
<1>6. ASSUME NEW k \in Handles
      PROVE  /\ G[k].type = "none" <=> server'.type[k] = "none"
             /\ G[k].type = "file" => G[k].offset = server'.moved[k]
             /\ G[k].type = "dir" => G[k].given + G[k].names_left = server'.moved[k]
    <2>1. CASE k = h BY ONLY <1>1, <1>3, <1>5, <2>1
    <2>2. CASE k # h BY ONLY <1>3, <1>4, <1>5, <2>2, k \in Handles
    <2> QED BY <2>1, <2>2
<1> QED BY <1>2, <1>5, <1>6 DEF Agree

\* What a reply says.
LEMMA ReplyIs ==
    ASSUME NEW req, NEW type, NEW n, NEW status
    PROVE  /\ Reply(req, type, n).type = type /\ Reply(req, type, n).id = req.id
           /\ Reply(req, type, n).n = n /\ Reply(req, type, n).status = "OK"
           /\ StatusReply(req, status).type = "STATUS" /\ StatusReply(req, status).id = req.id
           /\ StatusReply(req, status).status = status
BY DEF Reply, StatusReply

\* The server serves the request of the call, and the handles are those it is about.
Serving(req) ==
    /\ SFTPInv /\ Waiting /\ UNCHANGED <<scenario, call, client>> /\ req = Head(chan.out).req
    /\ call # Adrift =>
          /\ Pending /\ req = call.req /\ req.fn = call.fn /\ RequestFits
          /\ Agree(client.handles) /\ ServerTyped
\* No other request is ever served.
LEMMA ServingIs ==
    ASSUME SFTPInv, SFTPServes
    PROVE  Serving(Head(chan.out).req)
<1>1. Waiting /\ UNCHANGED <<scenario, call, client>> BY DEF SFTPServes
<1>2. ASSUME call # Adrift
      PROVE  /\ Pending /\ Head(chan.out).req = call.req /\ Head(chan.out).req.fn = call.fn
             /\ RequestFits /\ Agree(client.handles) /\ ServerTyped
    <2>1. ~server.gone /\ chan.out # <<>> BY <1>1 DEF Waiting
    <2>2. Asking /\ ServerTyped
        BY <1>2, <2>1, SFTPStages DEF Returned, Arriving, InBrigade
    <2>3. chan.out = <<[req |-> call.req, whole |-> TRUE]>> BY <2>2 DEF Asking, Asked
    <2>4. Head(chan.out).req = call.req
        <3>1. PICK x : x = [req |-> call.req, whole |-> TRUE] OBVIOUS
        <3>2. chan.out = <<x>> /\ x.req = call.req BY <2>3, <3>1
        <3> QED BY ONLY <3>2
    <2> QED BY <2>2, <2>4 DEF Asking, RequestFits
<1> QED BY <1>1, <1>2 DEF Serving

\* An answer that is about no handle.
LEMMA PlainAnswerInv ==
    ASSUME NEW req, Serving(req), NEW reply, NEW srv, Answers(req, reply, srv),
           DOMAIN srv = SFTPServerFields, srv.gone = server.gone,
           srv.moved = server.moved, srv.type = server.type, reply.id = req.id,
           call # Adrift => Taken(reply) = client.handles
    PROVE  SFTPInv'
<1>1. /\ SFTPInv /\ Waiting /\ UNCHANGED <<scenario, call, client>>
      /\ call # Adrift => req = call.req /\ Agree(client.handles) /\ ServerTyped
    BY DEF Serving
<1>2. chan' = Sent(Received(chan), <<reply>>, PacketUnits) /\ server' = srv BY DEF Answers
<1>3. ASSUME call # Adrift PROVE Agree(Taken(reply))' /\ ServerTyped'
    <2>1. PICK H : H = client.handles OBVIOUS
    <2>2. Taken(reply)' = H BY <1>1, <1>3, <2>1, AfterSame DEF Taken
    <2>3. Agree(H)' /\ ServerTyped' BY <1>1, <1>2, <1>3, <2>1, AgreeSame
    <2> QED BY <2>2, <2>3
<1>4. DOMAIN server' = SFTPServerFields /\ server'.gone = server.gone BY <1>2
<1> QED BY <1>1, <1>2, <1>3, <1>4, SFTPAnswersInv

\* An answer that is about one.
Changes(srv, reply, h, r, m, t) ==
    call # Adrift =>
        /\ srv.moved = [server.moved EXCEPT ![h] = m]
        /\ srv.type = [server.type EXCEPT ![h] = t]
        /\ OneChanges(client.handles, Taken(reply), h, r, m, t)
\* The invariant holds when it is on its way.
LEMMA HandleAnswerInv ==
    ASSUME NEW req, Serving(req), NEW reply, NEW srv, Answers(req, reply, srv),
           DOMAIN srv = SFTPServerFields, srv.gone = server.gone, reply.id = req.id,
           NEW h, NEW r, NEW m, NEW t, Changes(srv, reply, h, r, m, t)
    PROVE  SFTPInv'
<1>1. /\ SFTPInv /\ Waiting /\ UNCHANGED <<scenario, call, client>>
      /\ call # Adrift => req = call.req /\ Agree(client.handles) /\ ServerTyped
    BY DEF Serving
<1>2. chan' = Sent(Received(chan), <<reply>>, PacketUnits) /\ server' = srv BY DEF Answers
<1>3. ASSUME call # Adrift PROVE Agree(Taken(reply))' /\ ServerTyped'
    <2>1. PICK H, G : H = client.handles /\ G = Taken(reply) OBVIOUS
    <2>2. Taken(reply)' = G BY <1>1, <1>3, <2>1, AfterSame DEF Taken
    <2>3. /\ OneChanges(H, G, h, r, m, t) /\ server'.moved = [server.moved EXCEPT ![h] = m]
          /\ server'.type = [server.type EXCEPT ![h] = t]
        BY <1>2, <1>3, <2>1 DEF Changes
    <2>4. Agree(G)' /\ ServerTyped' BY ONLY <2>3, AgreeAt
    <2> QED BY <2>2, <2>4
<1>4. DOMAIN server' = SFTPServerFields /\ server'.gone = server.gone BY <1>2
<1> QED BY <1>1, <1>2, <1>3, <1>4, SFTPAnswersInv

\* The server refuses a request, or has nothing more of a directory.
LEMMA SFTPRefusesInv ==
    ASSUME NEW req, Serving(req), NEW status, status # "OK",
           Answers(req, StatusReply(req, status), server)
    PROVE  SFTPInv'
<1>1. PICK reply : reply = StatusReply(req, status) OBVIOUS
<1>2. reply.type = "STATUS" /\ reply.status # "OK" /\ reply.id = req.id BY <1>1, ReplyIs
<1>3. Taken(reply) = client.handles BY <1>2 DEF Taken, HandlesAfter
<1>4. SFTPInv BY DEF Serving
<1> QED BY <1>1, <1>2, <1>3, <1>4, SFTPShape, PlainAnswerInv

\* The server opens a file or a directory.
LEMMA SFTPOpensInv ==
    ASSUME NEW req, Serving(req), req.fn \in {"open", "opendir"}, ServerSucceeds(req)
    PROVE  SFTPInv'
<1>0. SFTPInv /\ (call # Adrift => req.fn = call.fn /\ Agree(client.handles) /\ ServerTyped)
    BY DEF Serving
<1> DEFINE type == IF req.fn = "open" THEN "file" ELSE "dir"
<1>1. PICK h \in FreeHandles :
        Answers(req, Reply(req, "HANDLE", h),
                [server EXCEPT !.type[h] = type, !.moved[h] = 0])
    BY Zenon DEF ServerSucceeds
<1>2. h \in Handles /\ server.type[h] = "none" BY DEF FreeHandles
<1>3. PICK reply : reply = Reply(req, "HANDLE", h) OBVIOUS
<1>4. reply.type = "HANDLE" /\ reply.id = req.id /\ reply.n = h BY <1>3, ReplyIs
<1> DEFINE srv == [server EXCEPT !.type[h] = type, !.moved[h] = 0]
<1>5. type \in {"file", "dir"} /\ type = IF req.fn = "open" THEN "file" ELSE "dir" OBVIOUS
<1> HIDE DEF type
<1>6. /\ DOMAIN srv = SFTPServerFields /\ srv.gone = server.gone
      /\ srv.moved = [server.moved EXCEPT ![h] = 0]
      /\ srv.type = [server.type EXCEPT ![h] = type]
    BY <1>0, SFTPShape DEF SFTPServerFields
<1>7. Answers(req, reply, srv) BY <1>1, <1>3
<1> HIDE DEF srv
<1>8. ASSUME call # Adrift
      PROVE  OneChanges(client.handles, Taken(reply), h, Handle(type), 0, type)
    <2>1. Taken(reply) = [client.handles EXCEPT ![h] = Handle(type)]
        BY <1>0, <1>4, <1>5, <1>8 DEF Taken, HandlesAfter
    <2>2. /\ Handle(type) \in HandleRecords /\ Handle(type).type = type
          /\ Handle(type).offset = 0 /\ Handle(type).given = 0 /\ Handle(type).names_left = 0
        BY <1>5 DEF Handle, NoHandle, HandleRecords, Types
    <2> QED BY <1>0, <1>2, <1>5, <1>8, <2>1, <2>2 DEF OneChanges, Types
<1>9. Changes(srv, reply, h, Handle(type), 0, type) BY <1>6, <1>8 DEF Changes
<1> QED BY ONLY Serving(req), <1>4, <1>6, <1>7, <1>9, HandleAnswerInv

\* The server reads n bytes of a file, or writes them.
LEMMA SFTPMovesInv ==
    ASSUME NEW req, Serving(req), req.fn \in {"read", "write"}, ServerSucceeds(req)
    PROVE  SFTPInv'
<1>0. /\ SFTPInv
      /\ call # Adrift =>
            /\ req = call.req /\ req.fn = call.fn /\ Agree(client.handles) /\ ServerTyped
            /\ req.h \in Handles /\ client.handles[req.h].type = "file" /\ req.n \in Int
    BY DEF Serving, RequestFits
<1>1. \E n, reply : /\ Answers(req, reply, [server EXCEPT !.moved[req.h] = @ + n])
                    /\ reply.id = req.id /\ reply.status = "OK"
                    /\ \/ req.fn = "read" /\ n \in 1 .. req.n /\ reply.type = "DATA"
                          /\ reply.n = n
                       \/ req.fn = "write" /\ n = req.n /\ reply.type = "STATUS"
    <2>1. CASE req.fn = "read"
        <3>1. PICK n \in 1 .. req.n :
                Answers(req, Reply(req, "DATA", n), [server EXCEPT !.moved[req.h] = @ + n])
            BY <2>1, Zenon DEF ServerSucceeds
        <3>2. PICK reply : reply = Reply(req, "DATA", n) OBVIOUS
        <3> QED BY <2>1, <3>1, <3>2, ReplyIs
    <2>2. CASE req.fn = "write"
        <3>1. Answers(req, StatusReply(req, "OK"), [server EXCEPT !.moved[req.h] = @ + req.n])
            BY <2>2, Zenon DEF ServerSucceeds
        <3>2. PICK reply, n : reply = StatusReply(req, "OK") /\ n = req.n OBVIOUS
        <3> QED BY <2>2, <3>1, <3>2, ReplyIs
    <2> QED BY <2>1, <2>2
<1>2. PICK n, reply : /\ Answers(req, reply, [server EXCEPT !.moved[req.h] = @ + n])
                      /\ reply.id = req.id /\ reply.status = "OK"
                      /\ \/ req.fn = "read" /\ n \in 1 .. req.n /\ reply.type = "DATA"
                            /\ reply.n = n
                         \/ req.fn = "write" /\ n = req.n /\ reply.type = "STATUS"
    BY <1>1
<1> DEFINE srv == [server EXCEPT !.moved[req.h] = @ + n]
<1>3. /\ DOMAIN srv = SFTPServerFields /\ srv.gone = server.gone
      /\ srv.moved = [server.moved EXCEPT ![req.h] = @ + n] /\ srv.type = server.type
    BY <1>0, SFTPShape DEF SFTPServerFields
<1>4. Answers(req, reply, srv) BY <1>2
<1> HIDE DEF srv
<1> DEFINE H == client.handles
           h == req.h
           m == server.moved[h] + n
           t == server.type[h]
           r == [H[h] EXCEPT !.offset = @ + n]
<1>5. ASSUME call # Adrift
      PROVE  /\ srv.moved = [server.moved EXCEPT ![h] = m]
             /\ srv.type = [server.type EXCEPT ![h] = t]
             /\ OneChanges(H, Taken(reply), h, r, m, t)
    <2>1. n \in Int /\ h \in Handles /\ H[h].type = "file" /\ Agree(H) /\ ServerTyped
        BY <1>0, <1>2, <1>5
    <2>2. /\ srv.moved = [server.moved EXCEPT ![h] = m]
          /\ srv.type = [server.type EXCEPT ![h] = t]
          /\ m \in Int /\ t \in Types
        BY <1>3, <2>1 DEF ServerTyped
    <2>3. Taken(reply) = [H EXCEPT ![h] = r]
        <3>1. Taken(reply) = [H EXCEPT ![h].offset = @ + n]
            <4>1. /\ call.req.h = h /\ (call.fn = "write" => call.req.n = n)
                  /\ call.fn # "write" => reply.n = n
                  /\ reply.type = "DATA" \/ (reply.type = "STATUS" /\ call.fn = "write")
                  /\ reply.type # "HANDLE" /\ reply.status = "OK"
                BY <1>0, <1>2, <1>5
            <4>2. Taken(reply) =
                    [H EXCEPT ![h].offset = @ + IF call.fn = "write" THEN call.req.n ELSE reply.n]
                BY <4>1 DEF Taken, HandlesAfter
            <4> QED BY <4>1, <4>2
        <3> QED BY <3>1
    <2>4. H[h] \in HandleRecords /\ H[h].offset = server.moved[h] /\ t # "none"
        BY <2>1 DEF Agree
    <2>5. r \in HandleRecords /\ r.type = "file" /\ r.offset = m
        <3>1. PICK a : a = H[h] OBVIOUS
        <3>2. a \in HandleRecords /\ r = [a EXCEPT !.offset = @ + n] /\ a.type = "file"
              /\ a.offset = server.moved[h]
            BY <2>1, <2>4, <3>1
        <3>3. m = server.moved[h] + n OBVIOUS
        <3> HIDE DEF r, m, H
        <3> QED BY ONLY <2>1, <3>2, <3>3 DEF HandleRecords
    <2> HIDE DEF r, m, t, H, h
    <2> QED BY ONLY <2>1, <2>2, <2>3, <2>4, <2>5 DEF OneChanges
<1>6. Changes(srv, reply, h, r, m, t) BY <1>5 DEF Changes
<1> HIDE DEF r, m, t, h, H
<1> QED BY ONLY Serving(req), <1>2, <1>3, <1>4, <1>6, HandleAnswerInv

\* The server lists n names of a directory.
LEMMA SFTPListsInv ==
    ASSUME NEW req, Serving(req), req.fn = "readdir", ServerSucceeds(req)
    PROVE  SFTPInv'
<1>0. /\ SFTPInv
      /\ call # Adrift =>
            /\ req = call.req /\ req.fn = call.fn /\ Agree(client.handles) /\ ServerTyped
            /\ req.h \in Handles /\ client.handles[req.h].type = "dir"
            /\ client.handles[req.h].names_left = 0
    BY DEF Serving, RequestFits
<1>1. PICK n \in 1 .. DirSize - server.moved[req.h] :
        Answers(req, Reply(req, "NAME", n), [server EXCEPT !.moved[req.h] = @ + n])
    BY Zenon DEF ServerSucceeds
<1>2. PICK reply : reply = Reply(req, "NAME", n) OBVIOUS
<1>3. reply.type = "NAME" /\ reply.id = req.id /\ reply.n = n BY <1>2, ReplyIs
<1> DEFINE srv == [server EXCEPT !.moved[req.h] = @ + n]
<1>4. /\ DOMAIN srv = SFTPServerFields /\ srv.gone = server.gone
      /\ srv.moved = [server.moved EXCEPT ![req.h] = @ + n] /\ srv.type = server.type
    BY <1>0, SFTPShape DEF SFTPServerFields
<1>5. Answers(req, reply, srv) BY <1>1, <1>2
<1> HIDE DEF srv
<1> DEFINE H == client.handles
           h == req.h
           m == server.moved[h] + n
           t == server.type[h]
           r == [H[h] EXCEPT !.names_left = n - 1, !.given = @ + 1]
<1>6. ASSUME call # Adrift
      PROVE  /\ srv.moved = [server.moved EXCEPT ![h] = m]
             /\ srv.type = [server.type EXCEPT ![h] = t]
             /\ OneChanges(H, Taken(reply), h, r, m, t)
    <2>1. /\ n \in Int /\ h \in Handles /\ H[h].type = "dir" /\ H[h].names_left = 0
          /\ Agree(H) /\ ServerTyped
        BY <1>0, <1>6
    <2>2. /\ srv.moved = [server.moved EXCEPT ![h] = m]
          /\ srv.type = [server.type EXCEPT ![h] = t]
          /\ m \in Int /\ t \in Types
        BY <1>4, <2>1 DEF ServerTyped
    <2>3. Taken(reply) = [H EXCEPT ![h] = r]
        <3>1. Taken(reply) = [H EXCEPT ![h].names_left = n - 1, ![h].given = @ + 1]
            BY <1>0, <1>3, <1>6 DEF Taken, HandlesAfter
        <3>2. H \in [Handles -> HandleRecords] BY <2>1 DEF Agree
        <3>3. n = n OBVIOUS
        <3> HIDE DEF H, h
        <3>4. [H EXCEPT ![h].names_left = n - 1, ![h].given = @ + 1] = [H EXCEPT ![h] = r]
            BY ONLY <2>1, <3>2 DEF r, HandleRecords
        <3> QED BY <3>1, <3>4
    <2>4. /\ H[h] \in HandleRecords /\ H[h].given + H[h].names_left = server.moved[h]
          /\ t # "none"
        BY <2>1 DEF Agree
    <2>5. r \in HandleRecords /\ r.type = "dir" /\ r.given + r.names_left = m
        <3>1. PICK a, k : a = H[h] /\ k = server.moved[h] OBVIOUS
        <3>2. /\ a \in HandleRecords /\ r = [a EXCEPT !.names_left = n - 1, !.given = @ + 1]
              /\ a.type = "dir" /\ a.names_left = 0 /\ a.given + a.names_left = k
            BY <2>1, <2>4, <3>1
        <3>3. m = k + n BY <3>1
        <3> HIDE DEF r, m, H
        <3>4. /\ a.given \in Int /\ a.offset \in Int
              /\ a = [type |-> a.type, offset |-> a.offset,
                      names_left |-> a.names_left, given |-> a.given]
            BY ONLY <3>2 DEF HandleRecords
        <3>5. r = [type |-> "dir", offset |-> a.offset, names_left |-> n - 1,
                   given |-> a.given + 1]
            BY ONLY <3>2, <3>4
        <3>6. n - 1 \in Int /\ a.given + 1 \in Int BY ONLY <2>1, <3>4
        <3>7. r \in HandleRecords BY ONLY <3>4, <3>5, <3>6 DEF HandleRecords, Types
        <3>8. r.type = "dir" /\ r.given = a.given + 1 /\ r.names_left = n - 1 BY ONLY <3>5
        <3>9. r.given + r.names_left = m BY ONLY <2>1, <3>2, <3>3, <3>4, <3>8
        <3> QED BY <3>7, <3>8, <3>9
    <2> HIDE DEF r, m, t, H, h
    <2> QED BY ONLY <2>1, <2>2, <2>3, <2>4, <2>5 DEF OneChanges
<1>7. Changes(srv, reply, h, r, m, t) BY <1>6 DEF Changes
<1> HIDE DEF r, m, t, h, H
<1> QED BY ONLY Serving(req), <1>3, <1>4, <1>5, <1>7, HandleAnswerInv

\* The server closes a file.
LEMMA SFTPClosesInv ==
    ASSUME NEW req, Serving(req), req.fn = "close", ServerSucceeds(req)
    PROVE  SFTPInv'
<1>0. /\ SFTPInv
      /\ call # Adrift =>
            /\ req = call.req /\ req.fn = call.fn /\ Agree(client.handles) /\ ServerTyped
            /\ req.h \in Handles
    BY DEF Serving, RequestFits
<1>1. Answers(req, StatusReply(req, "OK"), [server EXCEPT !.type[req.h] = "none"])
    BY Zenon DEF ServerSucceeds
<1>2. PICK reply : reply = StatusReply(req, "OK") OBVIOUS
<1>3. reply.type = "STATUS" /\ reply.id = req.id /\ reply.status = "OK" BY <1>2, ReplyIs
<1> DEFINE srv == [server EXCEPT !.type[req.h] = "none"]
<1>4. /\ DOMAIN srv = SFTPServerFields /\ srv.gone = server.gone
      /\ srv.type = [server.type EXCEPT ![req.h] = "none"] /\ srv.moved = server.moved
    BY <1>0, SFTPShape DEF SFTPServerFields
<1>5. Answers(req, reply, srv) BY <1>1, <1>2
<1> HIDE DEF srv
<1> DEFINE h == req.h
           m == server.moved[h]
<1>6. ASSUME call # Adrift
      PROVE  /\ srv.moved = [server.moved EXCEPT ![h] = m]
             /\ srv.type = [server.type EXCEPT ![h] = "none"]
             /\ OneChanges(client.handles, Taken(reply), h, NoHandle, m, "none")
    <2>1. /\ srv.moved = [server.moved EXCEPT ![h] = m] /\ m \in Int
          /\ srv.type = [server.type EXCEPT ![h] = "none"]
        BY <1>0, <1>4, <1>6 DEF ServerTyped
    <2>2. Taken(reply) = [client.handles EXCEPT ![h] = NoHandle]
        BY <1>0, <1>3, <1>6 DEF Taken, HandlesAfter
    <2>3. NoHandle \in HandleRecords /\ NoHandle.type = "none"
        BY DEF NoHandle, HandleRecords, Types
    <2>4. Agree(client.handles) /\ ServerTyped /\ h \in Handles BY <1>0, <1>6
    <2> HIDE DEF m, h
    <2> QED BY <2>1, <2>2, <2>3, <2>4 DEF OneChanges, Types
<1>7. Changes(srv, reply, h, NoHandle, m, "none") BY <1>6 DEF Changes
<1> HIDE DEF m, h
<1> QED BY ONLY Serving(req), <1>3, <1>4, <1>5, <1>7, HandleAnswerInv

\* The server does what is about no handle.
LEMMA SFTPDoesInv ==
    ASSUME NEW req, Serving(req), ServerSucceeds(req),
           req.fn \notin {"open", "opendir", "read", "readdir", "write", "close"}
    PROVE  SFTPInv'
<1>0. SFTPInv /\ (call # Adrift => req.fn = call.fn) BY DEF Serving
<1>1. \E reply, srv :
        /\ Answers(req, reply, srv) /\ reply.id = req.id
        /\ reply.type \in {"VERSION", "STATUS", "ATTRS", "NAME"}
        /\ srv = server \/ \E attrs : srv = [server EXCEPT !.attrs = attrs]
    <2>1. CASE req.fn = "init"
        <3>1. PICK version \in {2, 4} : Answers(req, Reply(req, "VERSION", version), server)
            BY <2>1, Zenon DEF ServerSucceeds
        <3>2. PICK reply : reply = Reply(req, "VERSION", version) OBVIOUS
        <3> QED BY <3>1, <3>2, ReplyIs
    <2>2. CASE req.fn \in {"setstat", "fsetstat"}
        <3>1. PICK attrs : Answers(req, StatusReply(req, "OK"), [server EXCEPT !.attrs = attrs])
            BY <2>2, Zenon DEF ServerSucceeds
        <3>2. PICK reply, srv : reply = StatusReply(req, "OK")
                                /\ srv = [server EXCEPT !.attrs = attrs]
            OBVIOUS
        <3> QED BY <3>1, <3>2, ReplyIs
    <2>3. CASE req.fn \in {"fstat", "stat"}
        <3>1. Answers(req, Reply(req, "ATTRS", 0), server) BY <2>3, Zenon DEF ServerSucceeds
        <3>2. PICK reply : reply = Reply(req, "ATTRS", 0) OBVIOUS
        <3> QED BY <3>1, <3>2, ReplyIs
    <2>4. CASE req.fn \in {"readlink", "realpath"}
        <3>1. Answers(req, Reply(req, "NAME", 1), server) BY <2>4, Zenon DEF ServerSucceeds
        <3>2. PICK reply : reply = Reply(req, "NAME", 1) OBVIOUS
        <3> QED BY <3>1, <3>2, ReplyIs
    <2>5. CASE req.fn \notin {"init", "setstat", "fsetstat", "fstat", "stat", "readlink", "realpath"}
        <3>1. Answers(req, StatusReply(req, "OK"), server) BY <2>5, Zenon DEF ServerSucceeds
        <3>2. PICK reply : reply = StatusReply(req, "OK") OBVIOUS
        <3> QED BY <3>1, <3>2, ReplyIs
    <2> QED BY <2>1, <2>2, <2>3, <2>4, <2>5
<1>2. PICK reply, srv :
        /\ Answers(req, reply, srv) /\ reply.id = req.id
        /\ reply.type \in {"VERSION", "STATUS", "ATTRS", "NAME"}
        /\ srv = server \/ \E attrs : srv = [server EXCEPT !.attrs = attrs]
    BY <1>1
<1>3. /\ DOMAIN srv = SFTPServerFields /\ srv.gone = server.gone
      /\ srv.moved = server.moved /\ srv.type = server.type
    BY <1>0, <1>2, SFTPShape DEF SFTPServerFields
<1>4. call # Adrift => Taken(reply) = client.handles
    BY <1>0, <1>2 DEF Taken, HandlesAfter
<1> QED BY <1>2, <1>3, <1>4, PlainAnswerInv

\* Whatever the server answers to a request, its answer is of the call and says of the handles
\* what has become of them.
LEMMA SFTPServesInv ==
    ASSUME SFTPInv, SFTPServes
    PROVE  SFTPInv'
<1>1. PICK req : req = Head(chan.out).req OBVIOUS
<1>2. Serving(req) BY <1>1, ServingIs
<1>3. CASE ServerSucceeds(req)
    <2>1. CASE req.fn \in {"open", "opendir"} BY <1>2, <1>3, <2>1, SFTPOpensInv
    <2>2. CASE req.fn \in {"read", "write"} BY <1>2, <1>3, <2>2, SFTPMovesInv
    <2>3. CASE req.fn = "readdir" BY <1>2, <1>3, <2>3, SFTPListsInv
    <2>4. CASE req.fn = "close" BY <1>2, <1>3, <2>4, SFTPClosesInv
    <2>5. CASE req.fn \notin {"open", "opendir", "read", "readdir", "write", "close"}
        BY <1>2, <1>3, <2>5, SFTPDoesInv
    <2> QED BY <2>1, <2>2, <2>3, <2>4, <2>5
<1>4. ASSUME NEW status \in Refusals, Answers(req, StatusReply(req, status), server)
      PROVE  SFTPInv'
    <2>1. status # "OK" BY SFTPAssumption
    <2> QED BY <1>2, <1>4, <2>1, SFTPRefusesInv
<1>5. ASSUME Answers(req, StatusReply(req, "EOF"), server) PROVE SFTPInv'
    BY <1>2, <1>5, SFTPRefusesInv
<1> QED BY <1>1, <1>3, <1>4, <1>5 DEF SFTPServes

-----------------------------------------------------------------------------
(* SCP *)

\* What the state of scp is made of.
LEMMA SCPShape ==
    ASSUME SCPInv
    PROVE  /\ DOMAIN chan = ChannelFields /\ DOMAIN call = CallFields
           /\ DOMAIN client = SCPClientFields /\ DOMAIN server = SCPServerFields
           /\ server.gone \in BOOLEAN /\ StreamIsSeq
           /\ chan.closed => server.gone /\ chan.wire = <<>>
           /\ call.fn = "none" => call = Idle
           /\ client.size \in Nat
           /\ client.calls = 0 => call = Idle /\ client.direction = "none"
BY DEF SCPInv, Shaped

\* It is so still when only the stream, the call and what was moved change.
LEMMA SCPShapeKept ==
    ASSUME SCPInv, UNCHANGED <<call, server>>, DOMAIN client' = SCPClientFields,
           DOMAIN chan' = ChannelFields, StreamIsSeq',
           chan'.closed = chan.closed, chan'.wire = chan.wire
    PROVE  Shaped(SCPClientFields, SCPServerFields)'
<1>1. Shaped(SCPClientFields, SCPServerFields) BY DEF SCPInv
<1>2. call' = call /\ server' = server OBVIOUS
<1> QED BY ONLY <1>1, <1>2, DOMAIN client' = SCPClientFields, DOMAIN chan' = ChannelFields,
    StreamIsSeq', chan'.closed = chan.closed, chan'.wire = chan.wire DEF Shaped

\* It is so still when the other side has written, or gone away.
LEMMA SCPShapeServed ==
    ASSUME SCPInv, ~server.gone, UNCHANGED <<call, client>>, DOMAIN chan' = ChannelFields,
           chan'.closed = chan.closed, StreamIsSeq', DOMAIN server' = SCPServerFields,
           server'.gone \in BOOLEAN
    PROVE  Shaped(SCPClientFields, SCPServerFields)'
<1>1. Shaped(SCPClientFields, SCPServerFields) BY DEF SCPInv
<1>2. call' = call /\ client' = client OBVIOUS
<1>3. ~chan'.closed BY <1>1 DEF Shaped
<1> QED BY ONLY <1>1, <1>2, <1>3, DOMAIN chan' = ChannelFields, StreamIsSeq',
    DOMAIN server' = SCPServerFields, server'.gone \in BOOLEAN DEF Shaped

\* Lines and acknowledgements are short, and of one call.
LEMMA LineIs ==
    ASSUME NEW type
    PROVE  /\ Line(type).type = type /\ Line(type).id = 1 /\ Line(type).n = ScpSize
           /\ WritesAll(Line(type)) = TRUE /\ WholeLine(type).req = Line(type)
           /\ WholeLine(type) = [req |-> Line(type), whole |-> WritesAll(Line(type))]
           /\ Ack = Line("ack")
<1>1. Line(type).type = type /\ Line(type).id = 1 /\ Line(type).n = ScpSize /\ Line(type).fn = "line"
    BY DEF Line
<1>2. WritesAll(Line(type)) = TRUE BY <1>1 DEF WritesAll, Fits
<1> QED BY <1>1, <1>2 DEF WholeLine, Ack

\* How much of what there is to read is the answer.
LEMMA AnswerShape ==
    ASSUME StreamIsSeq
    PROVE  /\ AnswerLen \in Nat /\ AnswerLen <= Len(Stream) /\ Len(Stream) \in Nat
           /\ Refused => Len(Stream) = AnswerLen + 1
           /\ ~Refused => AnswerLen = Len(Stream)
           /\ Stream = <<>> => AnswerLen = 0
<1>1. Len(Stream) \in Nat /\ (Stream # <<>> => Len(Stream) > 0) BY StreamFacts
<1>2. Refused => Stream # <<>> BY DEF Refused
<1> QED BY <1>1, <1>2 DEF AnswerLen

\* A unit of it is read.
LEMMA AnswerRead ==
    ASSUME StreamIsSeq, StreamIsSeq', AnswerLen > 0, Len(Stream') = Len(Stream) - 1,
           \A i \in 1 .. Len(Stream) - 1 : Stream'[i] = Stream[i + 1],
           UNCHANGED server
    PROVE  /\ AnswerLen' = AnswerLen - 1
           /\ \A i \in 1 .. AnswerLen - 1 : Stream'[i] = Stream[i + 1] /\ i + 1 \in 1 .. AnswerLen
<1>1. PICK n, a : n = Len(Stream) /\ a = AnswerLen OBVIOUS
<1>2. n \in Nat /\ a \in Nat /\ a > 0 /\ a <= n BY <1>1, AnswerShape
<1>3. Stream' = <<>> <=> n = 1
    <2>1. Len(Stream') = n - 1 BY <1>1
    <2>2. Stream' = <<>> <=> Len(Stream') = 0 BY StreamFactsNext
    <2> QED BY ONLY <1>2, <2>1, <2>2
<1>4. Stream # <<>> BY <1>1, <1>2, StreamFacts
<1>5. ASSUME n # 1 PROVE Stream'[n - 1] = Stream[n]
    <2>1. n - 1 \in 1 .. n - 1 /\ (n - 1) + 1 = n BY ONLY <1>2, <1>5
    <2>2. Stream'[n - 1] = Stream[(n - 1) + 1] BY <1>1, <2>1
    <2> QED BY <2>1, <2>2
<1>6. Refused' <=> Refused
    <2>1. CASE n = 1
        <3>1. ~Refused BY <1>1, <1>2, <2>1, AnswerShape
        <3> QED BY <1>3, <2>1, <3>1 DEF Refused
    <2>2. CASE n # 1
        <3>1. Len(Stream') = n - 1 BY <1>1
        <3>2. Stream'[Len(Stream')] = Stream[Len(Stream)] BY <1>1, <1>5, <2>2, <3>1
        <3> QED BY <1>3, <1>4, <2>2, <3>2 DEF Refused
    <2> QED BY <2>1, <2>2
<1>7. AnswerLen' = a - 1
    <2>1. CASE Refused
        <3>1. n = a + 1 BY <1>1, <2>1, AnswerShape
        <3>2. AnswerLen' = Len(Stream') - 1 BY <1>6, <2>1 DEF AnswerLen
        <3>3. Len(Stream') = n - 1 BY <1>1
        <3> QED BY ONLY <1>2, <3>1, <3>2, <3>3
    <2>2. CASE ~Refused
        <3>1. n = a BY <1>1, <2>2, AnswerShape
        <3>2. AnswerLen' = Len(Stream') BY <1>6, <2>2 DEF AnswerLen
        <3>3. Len(Stream') = n - 1 BY <1>1
        <3> QED BY ONLY <1>2, <3>1, <3>2, <3>3
    <2> QED BY <2>1, <2>2
<1>8. ASSUME NEW i \in 1 .. a - 1 PROVE Stream'[i] = Stream[i + 1] /\ i + 1 \in 1 .. a
    <2>1. i \in 1 .. n - 1 /\ i + 1 \in 1 .. a BY ONLY <1>2, i \in 1 .. a - 1
    <2> QED BY <1>1, <2>1
<1> QED BY <1>1, <1>7, <1>8

\* What is first is the answer, if it is no refusal.
LEMMA AnswerFirst ==
    ASSUME StreamIsSeq, StepPending, chan.in # <<>>, Head(chan.in).packet.type # "error"
    PROVE  /\ StepAnswered /\ Head(chan.in) = Stream[1]
           /\ Head(chan.in).packet = Line(Expected(call.step))
           /\ Head(chan.in).part = Head(chan.in).of <=> AnswerLen = 1
<1>1. Len(Stream) > 0 /\ Len(Stream) \in Nat /\ Head(chan.in) = Stream[1] BY StreamFacts
<1>2. AnswerLen > 0
    <2>1. CASE Refused
        <3>1. Len(Stream) = AnswerLen + 1 /\ AnswerLen \in Nat BY <2>1, AnswerShape
        <3>2. ASSUME AnswerLen = 0 PROVE FALSE
            <4>1. Len(Stream) = 1 BY <3>1, <3>2
            <4> QED BY <1>1, <2>1, <4>1 DEF Refused
        <3> QED BY <3>1, <3>2
    <2>2. CASE ~Refused BY <1>1, <2>2, AnswerShape
    <2> QED BY <2>1, <2>2
<1>3. StepAnswered BY <1>2 DEF StepPending, StepAsked
<1>4. AnswerLen \in Nat BY AnswerShape
<1>5. 1 \in 1 .. AnswerLen BY <1>2, <1>4
<1>6. /\ Stream[1].packet = Line(Expected(call.step))
      /\ Stream[1].part = Stream[1].of <=> 1 = AnswerLen
    BY <1>3, <1>5 DEF StepAnswered
<1> QED BY <1>1, <1>3, <1>6

\* Whatever else comes ends the call, and the channel with it.
LEMMA ScpFailsInv ==
    ASSUME SCPInv, StepPending, ScpFails, UNCHANGED scenario
    PROVE  SCPInv'
<1>1. /\ chan' = [NewChannel EXCEPT !.closed = TRUE]
      /\ server' = [server EXCEPT !.gone = TRUE] /\ call' = Idle /\ client' = client
    BY DEF ScpFails
<1>2. call # Idle BY NoCall DEF StepPending
<1>3. client.direction = "none" /\ client.moved = 0 /\ server.got = 0 /\ client.calls # 0
    BY <1>2, SCPShape DEF StepPending
<1>4. DOMAIN server' = SCPServerFields /\ server'.gone = TRUE /\ server'.got = server.got
    BY <1>1, SCPShape DEF SCPServerFields
<1>5. Shaped(SCPClientFields, SCPServerFields)'
    BY <1>1, <1>4, SCPShape, ChannelFreed, NoCall DEF Shaped
<1>6. NotOpen' BY <1>1, <1>3, <1>4, ChannelFreed DEF NotOpen
<1> QED BY <1>1, <1>3, <1>5, <1>6, SCPShape DEF SCPInv

\* A unit is read off the channel.
LEMMA UnitRead ==
    ASSUME StreamIsSeq, DOMAIN chan = ChannelFields, chan.in # <<>>, NEW ch, ch = Read(chan, 1)
    PROVE  /\ DOMAIN ch = ChannelFields /\ ch.out = chan.out /\ ch.open = chan.open
           /\ ch.closed = chan.closed /\ ch.wire = chan.wire
           /\ chan'.in = ch.in /\ chan'.wire = ch.wire =>
                /\ StreamIsSeq' /\ Len(Stream') = Len(Stream) - 1
                /\ \A i \in 1 .. Len(Stream) - 1 : Stream'[i] = Stream[i + 1]
<1>1. Len(chan.in) \in Nat /\ Len(chan.in) > 0 BY StreamFacts
<1>2. Count(1) = 1 BY <1>1 DEF Count
<1>3. /\ DOMAIN ch = ChannelFields /\ ch.out = chan.out /\ ch.open = chan.open
      /\ ch.closed = chan.closed /\ ch.wire = chan.wire
      /\ ch.in = SubSeq(chan.in, Count(1) + 1, Len(chan.in))
    BY DEF Read, ChannelFields
<1>4. ASSUME chan'.in = ch.in, chan'.wire = ch.wire
      PROVE  /\ StreamIsSeq' /\ Len(Stream') = Len(Stream) - 1
             /\ \A i \in 1 .. Len(Stream) - 1 : Stream'[i] = Stream[i + 1]
    <2>1. chan'.in = SubSeq(chan.in, Count(1) + 1, Len(chan.in)) /\ chan'.wire = chan.wire
        BY <1>3, <1>4
    <2>2. 1 \in Nat OBVIOUS
    <2>3. /\ StreamIsSeq' /\ Len(Stream') = Len(Stream) - Count(1)
          /\ \A i \in 1 .. Len(Stream) - Count(1) : Stream'[i] = Stream[i + Count(1)]
        BY ONLY StreamIsSeq, <2>1, <2>2, StreamRead
    <2> QED BY <1>2, <2>3
<1> QED BY <1>3, <1>4

\* What is read of the answer to a step; the rest of the stream is of the call still.
AnswerIsRead ==
    /\ StreamIsSeq' /\ Len(Stream') = Len(Stream) - 1 /\ Len(Stream) \in Nat /\ Len(Stream) > 0
    /\ AnswerLen' = AnswerLen - 1 /\ AnswerLen \in Nat
    /\ \A i \in 1 .. AnswerLen - 1 : Stream'[i] = Stream[i + 1] /\ i + 1 \in 1 .. AnswerLen
    /\ \A i \in 1 .. Len(Stream') : Stream'[i].packet.id = 1
\* So it is with every read of one unit.
LEMMA AnswerReadOff ==
    ASSUME SCPInv, StepPending, AnswerLen > 0, UNCHANGED server, chan.in # <<>>,
           NEW ch, ch = Read(chan, 1), chan'.in = ch.in, chan'.wire = ch.wire
    PROVE  AnswerIsRead
<1>1. StreamIsSeq /\ DOMAIN chan = ChannelFields BY SCPShape
<1>2. /\ StreamIsSeq' /\ Len(Stream') = Len(Stream) - 1
      /\ \A i \in 1 .. Len(Stream) - 1 : Stream'[i] = Stream[i + 1]
    BY <1>1, UnitRead
<1>3. /\ AnswerLen' = AnswerLen - 1
      /\ \A i \in 1 .. AnswerLen - 1 : Stream'[i] = Stream[i + 1] /\ i + 1 \in 1 .. AnswerLen
    BY <1>1, <1>2, AnswerRead
<1>4. AnswerLen \in Nat /\ Len(Stream) \in Nat /\ Len(Stream) > 0 BY <1>1, AnswerShape
<1>5. ASSUME NEW i \in 1 .. Len(Stream') PROVE Stream'[i].packet.id = 1
    <2>1. PICK n : n = Len(Stream) OBVIOUS
    <2>2. i \in 1 .. n - 1 /\ n \in Nat BY <1>2, <1>4, <2>1
    <2>3. i + 1 \in 1 .. n BY ONLY <2>2
    <2>4. Stream'[i] = Stream[i + 1] BY <1>2, <2>1, <2>2
    <2> QED BY <2>1, <2>3, <2>4 DEF StepPending
<1> QED BY <1>2, <1>3, <1>4, <1>5 DEF AnswerIsRead

\* A step has been answered: the library writes its next line.
LEMMA NextStepInv ==
    ASSUME SCPInv, StepPending, AnswerLen = 1, StepAnswered, chan.in # <<>>,
           UNCHANGED <<scenario, client, server>>, NEW type, NEW next,
           chan' = Write(Read(chan, 1), Line(type)), call' = [call EXCEPT !.step = next],
           next \in IF call.fn = "recv" THEN {"T", "C"} ELSE {"ack", "ackT", "ackC"},
           server.next = Before(next), ToAnswer(next) = <<WholeLine(type)>>
    PROVE  SCPInv'
<1>1. PICK ch : ch = Read(chan, 1) OBVIOUS
<1>2. /\ DOMAIN ch = ChannelFields /\ ch.out = chan.out /\ ch.open = chan.open
      /\ ch.closed = chan.closed /\ ch.wire = chan.wire
    BY <1>1, SCPShape, UnitRead
<1>3. /\ DOMAIN chan' = ChannelFields /\ chan'.in = ch.in /\ chan'.wire = ch.wire
      /\ chan'.closed = ch.closed /\ chan'.out = Append(ch.out, WholeLine(type))
    BY <1>1, <1>2, LineIs DEF Write, ChannelFields
<1>4. AnswerIsRead BY <1>1, <1>3, AnswerReadOff
<1>5. chan'.out = <<WholeLine(type)>>
    <2>1. PICK x : x = WholeLine(type) OBVIOUS
    <2>2. chan'.out = Append(<<>>, x) BY <1>2, <1>3, <2>1 DEF StepAnswered
    <2>3. chan'.out = <<x>> BY ONLY <2>2
    <2> QED BY <2>1, <2>3
<1>6. /\ DOMAIN call' = CallFields /\ call'.fn = call.fn /\ call'.req = call.req
      /\ call'.step = next
    BY SCPShape DEF CallFields
<1>7. call'.fn \in {"recv", "send"} /\ call # Idle BY <1>6, NoCall DEF StepPending
<1>8. AnswerLen' = 0 /\ StreamIsSeq' BY <1>4 DEF AnswerIsRead
<1>9. Shaped(SCPClientFields, SCPServerFields)'
    BY <1>2, <1>3, <1>6, <1>7, <1>8, SCPShape DEF Shaped
<1>10. StepAsked' BY <1>5, <1>6, <1>8 DEF StepAsked
<1>11. StepPending' BY <1>4, <1>6, <1>10 DEF StepPending, AnswerIsRead
<1> QED BY <1>7, <1>9, <1>11, SCPShape DEF SCPInv

\* The last step has been answered: the channel is the application's.
LEMMA HandOverInv ==
    ASSUME SCPInv, StepPending, AnswerLen = 1, StepAnswered, chan.in # <<>>,
           UNCHANGED <<scenario, server>>, NEW ch, HandOver(ch, call.fn, ScpSize),
           \/ ch = Write(Read(chan, 1), Ack) /\ call.fn = "recv"
           \/ ch = Read(chan, 1) /\ call.fn = "send",
           server.next = "file"
    PROVE  SCPInv'
<1>1. PICK c : c = Read(chan, 1) OBVIOUS
<1>2. /\ DOMAIN c = ChannelFields /\ c.out = <<>> /\ c.open = chan.open
      /\ c.closed = chan.closed /\ c.wire = chan.wire
    BY <1>1, SCPShape, UnitRead DEF StepAnswered
<1>3. /\ DOMAIN ch = ChannelFields /\ ch.in = c.in /\ ch.wire = c.wire /\ ch.closed = c.closed
      /\ call.fn = "recv" => ch.out = Append(c.out, WholeLine("ack"))
      /\ call.fn = "send" => ch.out = c.out
    <2>1. CASE ch = Write(c, Ack) /\ call.fn = "recv"
        <3>1. PICK x : x = [req |-> Ack, whole |-> WritesAll(Ack)] /\ x = WholeLine("ack")
            BY LineIs
        <3>2. ch = [c EXCEPT !.out = Append(@, x)] BY <2>1, <3>1 DEF Write
        <3> QED BY ONLY <1>2, <2>1, <3>1, <3>2 DEF ChannelFields
    <2>2. CASE ch = c /\ call.fn = "send" BY <1>2, <2>2
    <2> QED BY <1>1, <2>1, <2>2
<1>4. /\ DOMAIN chan' = ChannelFields /\ chan'.in = c.in /\ chan'.wire = c.wire
      /\ chan'.closed = c.closed /\ chan'.out = ch.out
    BY <1>3 DEF HandOver, ChannelFields
<1>5. AnswerIsRead BY <1>1, <1>4, AnswerReadOff
<1>6. NothingToRead'
    <2>1. ~Refused BY DEF Refused
    <2>2. Len(Stream) = 1 BY <2>1, SCPShape, AnswerShape
    <2>3. Len(Stream') = 0 /\ StreamIsSeq' BY <1>5, <2>2 DEF AnswerIsRead
    <2> QED BY <2>3, StreamFactsNext
<1>7. call' = Idle /\ client' = [client EXCEPT !.direction = call.fn, !.size = ScpSize]
    BY DEF HandOver
<1>8. /\ DOMAIN client' = SCPClientFields /\ client'.direction = call.fn
      /\ client'.size \in Nat /\ client'.moved = 0 /\ client'.calls = client.calls
    BY <1>7, SCPShape, ScpSizeAssumption DEF SCPClientFields, StepPending
<1>9. client.calls # 0 BY SCPShape, NoCall DEF StepPending
<1>10. Shaped(SCPClientFields, SCPServerFields)'
    BY <1>2, <1>4, <1>5, <1>7, <1>8, SCPShape, NoCall DEF Shaped, AnswerIsRead
<1>11. CASE call.fn = "recv"
    <2>1. chan'.out = <<WholeLine("ack")>>
        <3>1. PICK x : x = WholeLine("ack") OBVIOUS
        <3>2. chan'.out = Append(<<>>, x) BY <1>2, <1>3, <1>4, <1>11, <3>1
        <3>3. chan'.out = <<x>> BY ONLY <3>2
        <3> QED BY <3>1, <3>3
    <2>2. MayBegin' BY <1>6, <1>7, <1>8, <1>11, <2>1 DEF MayBegin
    <2> QED BY <1>8, <1>9, <1>10, <2>2 DEF SCPInv
<1>12. CASE call.fn = "send"
    <2>1. chan'.out = <<>> BY <1>2, <1>3, <1>4, <1>12
    <2>2. IsSeq(chan'.out) /\ Len(chan'.out) = 0
        <3>1. <<>> \in Seq({}) /\ Len(<<>>) = 0 OBVIOUS
        <3> QED BY <2>1, <3>1 DEF IsSeq
    <2>3. server'.got = 0 /\ server'.next = "file" BY DEF StepPending
    <2>4. Sending' BY <1>6, <1>7, <1>8, <1>12, <2>2, <2>3 DEF Sending
    <2> QED BY <1>8, <1>9, <1>10, <2>4 DEF SCPInv
<1> QED BY <1>11, <1>12 DEF StepPending

\* scp_recv reads a byte, and acknowledges a line with its last.
LEMMA RecvByteInv ==
    ASSUME SCPInv, RecvByte
    PROVE  SCPInv'
<1>1. call.fn = "recv" /\ Readable /\ UNCHANGED scenario BY DEF RecvByte
<1>2. StepPending
    BY <1>1, NoCall DEF SCPInv, NotOpen, MayBegin, Receiving, Sending
<1>3. call.step \in {"T", "C"} BY <1>1, <1>2 DEF StepPending
<1>4. CASE chan.in = <<>> \/ Head(chan.in).packet.type # call.step
    <2>1. ScpFails BY <1>4 DEF RecvByte
    <2> QED BY <1>1, <1>2, <2>1, ScpFailsInv
<1>5. CASE ~(chan.in = <<>> \/ Head(chan.in).packet.type # call.step)
    <2>1. chan.in # <<>> /\ Head(chan.in).packet.type # "error" BY <1>3, <1>5
    <2>2. /\ StepAnswered /\ Head(chan.in).packet = Line(Expected(call.step))
          /\ Head(chan.in).part = Head(chan.in).of <=> AnswerLen = 1
        BY <1>2, <2>1, SCPShape, AnswerFirst
    <2>3. UNCHANGED <<scenario, server>> BY <1>5 DEF RecvByte
    <2>4. CASE AnswerLen = 1
        <3>1. LineIsIn(Head(chan.in)) BY <1>5, <2>2, <2>4 DEF RecvByte
        <3>2. CASE call.step = "T"
            <4>1. /\ chan' = Write(Read(chan, 1), Line("ack")) /\ UNCHANGED client
                  /\ call' = [call EXCEPT !.step = "C"]
                BY <3>1, <3>2, LineIs DEF LineIsIn
            <4>2. /\ server.next = Before("C") /\ ToAnswer("C") = <<WholeLine("ack")>>
                BY <2>2, <3>2 DEF StepAnswered, After, Before, ToAnswer
            <4> QED BY <1>1, <1>2, <2>1, <2>2, <2>3, <2>4, <4>1, <4>2, NextStepInv
        <3>3. CASE call.step = "C"
            <4>1. HandOver(Write(Read(chan, 1), Ack), "recv", ScpSize)
                BY <2>2, <3>1, <3>3, LineIs DEF LineIsIn
            <4>2. server.next = "file" BY <2>2, <3>3 DEF StepAnswered, After
            <4> QED BY <1>1, <1>2, <2>1, <2>2, <2>3, <2>4, <4>1, <4>2, HandOverInv
        <3> QED BY <1>3, <3>2, <3>3
    <2>5. CASE AnswerLen # 1
        <3>1. chan' = Read(chan, 1) /\ UNCHANGED <<call, client>>
            BY <1>5, <2>2, <2>5 DEF RecvByte
        <3>2. /\ DOMAIN chan' = ChannelFields /\ chan'.out = chan.out /\ chan'.open = chan.open
              /\ chan'.closed = chan.closed /\ chan'.wire = chan.wire
            <4>1. PICK ch : ch = Read(chan, 1) OBVIOUS
            <4> QED BY <2>1, <3>1, <4>1, SCPShape, UnitRead
        <3>3. AnswerIsRead
            <4>1. PICK ch : ch = Read(chan, 1) OBVIOUS
            <4>2. AnswerLen > 0 BY <2>2 DEF StepAnswered
            <4> QED BY <1>2, <2>1, <2>3, <3>1, <4>1, <4>2, AnswerReadOff
        <3>4. Shaped(SCPClientFields, SCPServerFields)'
            <4>1. StreamIsSeq' BY <3>3 DEF AnswerIsRead
            <4>2. DOMAIN client' = SCPClientFields BY <3>1, SCPShape
            <4> QED BY <2>3, <3>1, <3>2, <4>1, <4>2, SCPShapeKept
        <3>5. PICK a : a = AnswerLen OBVIOUS
        <3>6. a \in Nat /\ a > 0 /\ a # 1 /\ AnswerLen' = a - 1
            BY <2>2, <2>5, <3>3, <3>5 DEF AnswerIsRead, StepAnswered
        <3>7. ASSUME NEW i \in 1 .. a - 1
              PROVE  /\ Stream'[i].packet = Line(Expected(call.step))
                     /\ Stream'[i].part = Stream'[i].of <=> i = a - 1
            <4>1. Stream'[i] = Stream[i + 1] /\ i + 1 \in 1 .. a
                BY <3>3, <3>5 DEF AnswerIsRead
            <4>2. /\ Stream[i + 1].packet = Line(Expected(call.step))
                  /\ Stream[i + 1].part = Stream[i + 1].of <=> i + 1 = a
                BY <2>2, <3>5, <4>1 DEF StepAnswered
            <4>3. i + 1 = a <=> i = a - 1 BY ONLY <3>6, i \in 1 .. a - 1
            <4> QED BY <4>1, <4>2, <4>3
        <3>8. a - 1 > 0 BY ONLY <3>6
        <3>9. StepAnswered'
            <4>1. server'.next = After(call.step)' /\ chan'.out = <<>> /\ call'.fn = "recv"
                BY <1>1, <2>2, <2>3, <3>1, <3>2 DEF StepAnswered, After, Times, Uses
            <4> QED BY <3>1, <3>6, <3>7, <3>8, <4>1 DEF StepAnswered
        <3>10. StepPending' BY <1>2, <2>3, <3>1, <3>3, <3>9 DEF StepPending, AnswerIsRead
        <3> QED BY <3>1, <3>4, <3>10, SCPShape DEF SCPInv
    <2> QED BY <2>4, <2>5
<1> QED BY <1>4, <1>5

\* scp_send reads an acknowledgement, and writes the next line.
LEMMA SendAckInv ==
    ASSUME SCPInv, SendAck
    PROVE  SCPInv'
<1>1. call.fn = "send" /\ Readable /\ UNCHANGED scenario BY DEF SendAck
<1>2. StepPending
    BY <1>1, NoCall DEF SCPInv, NotOpen, MayBegin, Receiving, Sending
<1>3. call.step \in {"ack", "ackT", "ackC"} BY <1>1, <1>2 DEF StepPending
<1>4. CASE chan.in = <<>> \/ Head(chan.in).packet.type # "ack"
    <2>1. ScpFails BY <1>4 DEF SendAck
    <2> QED BY <1>1, <1>2, <2>1, ScpFailsInv
<1>5. CASE ~(chan.in = <<>> \/ Head(chan.in).packet.type # "ack")
    <2>1. chan.in # <<>> /\ Head(chan.in).packet.type # "error" BY <1>5
    <2>2. StepAnswered BY <1>2, <2>1, SCPShape, AnswerFirst
    <2>3. UNCHANGED <<scenario, server>> BY <1>5 DEF SendAck
    <2>4. AnswerLen = 1 BY <1>1, <2>2 DEF StepAnswered
    <2>5. CASE call.step = "ack" /\ Times
        <3>1. /\ chan' = Write(Read(chan, 1), Line("T")) /\ UNCHANGED client
              /\ call' = [call EXCEPT !.step = "ackT"]
            BY <1>5, <2>5 DEF SendAck
        <3>2. server.next = Before("ackT") /\ ToAnswer("ackT") = <<WholeLine("T")>>
            BY <2>2, <2>5 DEF StepAnswered, After, Before, ToAnswer
        <3> QED BY <1>1, <1>2, <2>1, <2>2, <2>3, <2>4, <3>1, <3>2, NextStepInv
    <2>6. CASE call.step \in {"ack", "ackT"} /\ ~(call.step = "ack" /\ Times)
        <3>1. /\ chan' = Write(Read(chan, 1), Line("C")) /\ UNCHANGED client
              /\ call' = [call EXCEPT !.step = "ackC"]
            BY <1>5, <2>6 DEF SendAck
        <3>2. server.next = Before("ackC") /\ ToAnswer("ackC") = <<WholeLine("C")>>
            BY <2>2, <2>6 DEF StepAnswered, After, Before, ToAnswer
        <3> QED BY <1>1, <1>2, <2>1, <2>2, <2>3, <2>4, <3>1, <3>2, NextStepInv
    <2>7. CASE call.step = "ackC"
        <3>1. HandOver(Read(chan, 1), "send", ScpSize) BY <1>5, <2>7 DEF SendAck
        <3>2. server.next = "file" BY <2>2, <2>7 DEF StepAnswered, After
        <3> QED BY <1>1, <1>2, <2>1, <2>2, <2>3, <2>4, <3>1, <3>2, HandOverInv
    <2> QED BY <1>3, <2>5, <2>6, <2>7
<1> QED BY <1>4, <1>5

\* A session of scp begins.
LEMMA StartInv ==
    ASSUME SCPInv, NEW fn \in {"recv", "send"}, Start(fn)
    PROVE  SCPInv'
<1>1. /\ call = Idle /\ ~chan.open /\ client.calls = 0 /\ UNCHANGED scenario
      /\ client' = [client EXCEPT !.calls = 1]
    BY DEF Start
<1>2. NotOpen BY <1>1, SCPShape, NoCall DEF SCPInv, StepPending, MayBegin, Receiving, Sending
<1>3. /\ DOMAIN client' = SCPClientFields /\ client'.calls = 1 /\ client'.size = client.size
      /\ client'.direction = client.direction /\ client'.moved = client.moved
    BY <1>1, SCPShape DEF SCPClientFields
<1>4. CASE UNCHANGED <<chan, call, server>>
    <2>1. StreamIsSeq' /\ NothingToRead' BY <1>2, <1>4, SCPShape
        DEF StreamIsSeq, NothingToRead, NotOpen
    <2>2. Shaped(SCPClientFields, SCPServerFields)' BY <1>3, <1>4, <2>1, SCPShape, SCPShapeKept
    <2>3. NotOpen' BY <1>2, <1>3, <1>4, <2>1 DEF NotOpen
    <2> QED BY <1>3, <2>2, <2>3, SCPShape DEF SCPInv
<1>5. ASSUME LET ch == [chan EXCEPT !.open = TRUE, !.blocking = TRUE]
             IN  chan' = IF fn = "recv" THEN Write(ch, Ack) ELSE ch,
             call' = Call(fn, Head(Steps(fn)), Ack),
             server' = [server EXCEPT !.next = IF fn = "recv" THEN Head(Steps(fn)) ELSE "ack"]
      PROVE  SCPInv'
    <2>1. PICK step : step = Head(Steps(fn)) OBVIOUS
    <2>2. /\ step \in IF fn = "recv" THEN {"T", "C"} ELSE {"ack", "ackT", "ackC"}
          /\ fn = "send" => step = "ack"
        <3>1. Head(<<"T", "C">>) = "T" /\ Head(<<"C">>) = "C"
              /\ Head(<<"ack", "ackT", "ackC">>) = "ack" /\ Head(<<"ack", "ackC">>) = "ack"
            OBVIOUS
        <3> QED BY <2>1, <3>1 DEF Steps
    <2>3. /\ DOMAIN call' = CallFields /\ call'.fn = fn /\ call'.step = step /\ call'.req = Ack
        BY <1>5, <2>1 DEF Call, CallFields
    <2>4. /\ DOMAIN server' = SCPServerFields /\ server'.gone = server.gone
          /\ server'.got = server.got /\ server'.next = IF fn = "recv" THEN step ELSE "ack"
        BY <1>5, <2>1, SCPShape DEF SCPServerFields
    <2>5. /\ DOMAIN chan' = ChannelFields /\ chan'.in = chan.in /\ chan'.wire = chan.wire
          /\ chan'.closed = chan.closed
          /\ fn = "recv" => chan'.out = <<WholeLine("ack")>>
          /\ fn = "send" => chan'.out = <<>>
        <3>0. chan.out = <<>> BY <1>2 DEF NotOpen
        <3>1. CASE fn = "recv"
            <4>1. chan' = Write([chan EXCEPT !.open = TRUE, !.blocking = TRUE], Ack)
                BY <1>5, <3>1
            <4>2. PICK x : x = [req |-> Ack, whole |-> WritesAll(Ack)] /\ x = WholeLine("ack")
                BY LineIs
            <4>3. /\ DOMAIN chan' = ChannelFields /\ chan'.in = chan.in /\ chan'.wire = chan.wire
                  /\ chan'.closed = chan.closed /\ chan'.out = Append(<<>>, x)
                BY <3>0, <4>1, <4>2, SCPShape DEF Write, ChannelFields
            <4>4. chan'.out = <<x>> BY ONLY <4>3
            <4> QED BY <3>1, <4>2, <4>3, <4>4
        <3>2. CASE fn = "send"
            <4>1. chan' = [chan EXCEPT !.open = TRUE, !.blocking = TRUE] BY <1>5, <3>2
            <4> QED BY <3>0, <3>2, <4>1, SCPShape DEF ChannelFields
        <3> QED BY <3>1, <3>2
    <2>6. StreamIsSeq' /\ Stream' = Stream /\ NothingToRead
        BY <1>2, <2>5, SCPShape DEF StreamIsSeq, Stream, NotOpen
    <2>7. Stream = <<>> /\ Len(Stream) = 0 BY <2>6, SCPShape, StreamFacts
    <2>8. AnswerLen' = 0
        <3>1. ~Refused' BY <2>6, <2>7 DEF Refused
        <3> QED BY <2>6, <2>7, <3>1 DEF AnswerLen
    <2>9. Shaped(SCPClientFields, SCPServerFields)'
        BY <1>3, <2>3, <2>4, <2>5, <2>6, SCPShape DEF Shaped
    <2>10. server'.next = Before(step) /\ chan'.out = ToAnswer(step)
        BY <2>2, <2>4, <2>5 DEF Before, ToAnswer
    <2>11. StepAsked' BY <2>3, <2>8, <2>10 DEF StepAsked
    <2>12. StepPending' BY <1>2, <1>3, <2>2, <2>3, <2>4, <2>6, <2>7, <2>11
        DEF StepPending, NotOpen
    <2> QED BY <1>3, <2>9, <2>12, SCPShape DEF SCPInv
<1> QED BY <1>4, <1>5 DEF Start

\* The application moves the file.
LEMMA ReadFileInv ==
    ASSUME SCPInv, ReadFile
    PROVE  SCPInv'
<1> DEFINE k == client.size - client.moved
           n == Count(k)
<1>1. /\ call = Idle /\ client.direction = "recv" /\ client.moved < client.size
      /\ chan.in # <<>> /\ client' = [client EXCEPT !.moved = @ + n]
      /\ chan' = Read(chan, n) /\ UNCHANGED <<scenario, call, server>>
    BY DEF ReadFile
<1>2. Receiving
    <2>1. ~NothingToRead BY <1>1 DEF NothingToRead
    <2> QED BY <1>1, <2>1, NoCall DEF SCPInv, NotOpen, StepPending, MayBegin, Sending
<1>3. client.moved \in Nat /\ client.size \in Nat /\ k \in Nat
    <2>1. client.moved \in Nat /\ client.size \in Nat BY <1>2, SCPShape DEF Receiving
    <2> QED BY <1>1, <2>1
<1>4. n \in Nat /\ n <= Len(chan.in) /\ Count(n) = n
    <2>1. Len(chan.in) \in Nat BY SCPShape, StreamFacts
    <2> HIDE DEF k
    <2> QED BY <1>3, <2>1 DEF Count
<1> HIDE DEF n, k
<1>5. /\ DOMAIN chan' = ChannelFields /\ UNCHANGED <<chan.open, chan.closed, chan.out>>
      /\ chan'.wire = chan.wire /\ StreamIsSeq'
      /\ Len(Stream') = Len(Stream) - n
      /\ \A i \in 1 .. Len(Stream) - n : Stream'[i] = Stream[i + n]
    BY <1>1, <1>4, SCPShape, ChannelRead
<1>6. /\ DOMAIN client' = SCPClientFields /\ client'.size = client.size
      /\ client'.calls = client.calls /\ client'.direction = "recv"
      /\ client'.moved = client.moved + n
    BY <1>1, SCPShape DEF SCPClientFields
<1>7. PICK m : m = Len(Stream) OBVIOUS
<1>8. m \in Nat /\ client.moved + m = ScpSize /\ \A i \in 1 .. m : Stream[i].packet = Line("file")
    BY <1>2, <1>7, SCPShape, StreamFacts DEF Receiving
<1>9. client'.moved \in Nat /\ client'.moved + Len(Stream') = ScpSize
    <2>1. Len(Stream') = m - n BY <1>5, <1>7
    <2> QED BY ONLY <1>3, <1>4, <1>6, <1>8, <2>1
<1>10. ASSUME NEW i \in 1 .. Len(Stream') PROVE Stream'[i].packet = Line("file")
    <2>1. Len(Stream') = m - n BY <1>5, <1>7
    <2>2. i \in 1 .. m - n /\ i + n \in 1 .. m BY ONLY <1>4, <1>8, <2>1, i \in 1 .. Len(Stream')
    <2>3. Stream'[i] = Stream[i + n] BY <1>5, <1>7, <2>2
    <2> QED BY <1>8, <2>2, <2>3
<1>11. Receiving' BY <1>1, <1>2, <1>5, <1>6, <1>9, <1>10 DEF Receiving
<1>12. Shaped(SCPClientFields, SCPServerFields)' BY <1>1, <1>5, <1>6, SCPShapeKept
<1>13. client'.calls # 0 BY <1>1, <1>6, SCPShape
<1> QED BY <1>6, <1>11, <1>12, <1>13, SCPShape DEF SCPInv

\* The application writes the file.
LEMMA WriteFileInv ==
    ASSUME SCPInv, WriteFile
    PROVE  SCPInv'
<1>1. /\ call = Idle /\ client.direction = "send" /\ chan' = Write(chan, Line("file"))
      /\ client' = [client EXCEPT !.moved = @ + 1] /\ UNCHANGED <<scenario, call, server>>
    BY DEF WriteFile
<1>2. Sending BY <1>1, NoCall DEF SCPInv, NotOpen, StepPending, MayBegin, Receiving
<1>3. PICK x : /\ x = [req |-> Line("file"), whole |-> WritesAll(Line("file"))]
               /\ x.req = Line("file")
    BY LineIs
<1>4. /\ DOMAIN chan' = ChannelFields /\ chan'.in = chan.in /\ chan'.wire = chan.wire
      /\ chan'.closed = chan.closed /\ chan'.out = Append(chan.out, x)
    BY <1>1, <1>3, SCPShape DEF Write, ChannelFields
<1>5. StreamIsSeq' /\ NothingToRead' BY <1>2, <1>4, SCPShape DEF StreamIsSeq, NothingToRead, Sending
<1>6. /\ DOMAIN client' = SCPClientFields /\ client'.size = client.size
      /\ client'.calls = client.calls /\ client'.direction = "send"
      /\ client'.moved = client.moved + 1
    BY <1>1, SCPShape DEF SCPClientFields
<1>7. PICK o, p : o = chan.out /\ p = chan'.out OBVIOUS
<1>8. PICK S : o \in Seq(S) BY <1>2, <1>7 DEF Sending, IsSeq
<1>9. /\ p \in Seq(S \cup {x}) /\ Len(p) = Len(o) + 1 /\ p[Len(o) + 1] = x /\ Len(o) \in Nat
      /\ \A i \in 1 .. Len(o) : p[i] = o[i]
    <2>1. o \in Seq(S \cup {x}) /\ x \in S \cup {x} BY <1>8
    <2>2. p = Append(o, x) BY <1>4, <1>7
    <2> QED BY ONLY <2>1, <2>2
<1>10. ASSUME NEW i \in 1 .. Len(p) PROVE p[i].req = Line("file")
    <2>1. CASE i = Len(o) + 1 BY <1>3, <1>9, <2>1
    <2>2. CASE i # Len(o) + 1
        <3>1. i \in 1 .. Len(o) BY ONLY <1>9, <2>2, i \in 1 .. Len(p)
        <3> QED BY <1>2, <1>7, <1>9, <3>1 DEF Sending
    <2> QED BY <2>1, <2>2
<1>11. IsSeq(p) BY <1>9 DEF IsSeq
<1>12. /\ client.moved \in Nat /\ server.got \in Nat /\ client.moved = server.got + Len(o)
       /\ server.next = "file"
    BY <1>2, <1>7 DEF Sending
<1>13. client'.moved \in Nat /\ client'.moved = server.got + Len(p) BY <1>6, <1>9, <1>12
<1>14. Sending' BY <1>1, <1>5, <1>6, <1>7, <1>10, <1>11, <1>12, <1>13 DEF Sending
<1>15. Shaped(SCPClientFields, SCPServerFields)' BY <1>1, <1>4, <1>5, <1>6, SCPShapeKept
<1>16. client'.calls # 0 BY <1>1, <1>6, SCPShape
<1> QED BY <1>6, <1>14, <1>15, <1>16, SCPShape DEF SCPInv

\* What the other side writes.
UnitsOf(units, p, n) ==
    /\ \E T : units \in Seq(T)
    /\ Len(units) = n
    /\ \A i \in 1 .. n : units[i].packet = p /\ units[i].part = i /\ units[i].of = n
\* They are units of a packet, one after the other.
LEMMA UnitsAre ==
    ASSUME NEW p, NEW n \in Nat
    PROVE  UnitsOf(Units(p, n), p, n)
<1> DEFINE U(i) == [packet |-> p, part |-> i, of |-> n]
           T == {U(i) : i \in 1 .. n}
           units == [i \in 1 .. n |-> U(i)]
<1>1. Units(p, n) = units BY DEF Units
<1>2. \A i \in 1 .. n : U(i).packet = p /\ U(i).part = i /\ U(i).of = n OBVIOUS
<1> HIDE DEF U
<1>3. units \in Seq(T) /\ Len(units) = n /\ \A i \in 1 .. n : units[i] = U(i) OBVIOUS
<1> HIDE DEF units, T
<1> QED BY ONLY <1>1, <1>2, <1>3 DEF UnitsOf

WrittenBehind(p, n) ==
    /\ StreamIsSeq' /\ Len(Stream') = Len(Stream) + n /\ Len(Stream) \in Nat
    /\ \A i \in 1 .. Len(Stream) : Stream'[i] = Stream[i]
    /\ \A i \in 1 .. n : /\ Stream'[Len(Stream) + i].packet = p
                        /\ Stream'[Len(Stream) + i].part = i
                        /\ Stream'[Len(Stream) + i].of = n
\* They come behind what was on its way.
LEMMA UnitsWritten ==
    ASSUME StreamIsSeq, NEW units, NEW p, NEW n, n \in Nat, UnitsOf(units, p, n),
           chan'.in = chan.in, chan'.wire = chan.wire \o units
    PROVE  WrittenBehind(p, n)
<1>1. /\ Len(units) = n
      /\ \A i \in 1 .. n : units[i].packet = p /\ units[i].part = i /\ units[i].of = n
    BY DEF UnitsOf
<1>2. PICK T : units \in Seq(T) BY DEF UnitsOf
<1>3. /\ StreamIsSeq' /\ Len(Stream') = Len(Stream) + Len(units)
      /\ \A i \in 1 .. Len(Stream) : Stream'[i] = Stream[i]
      /\ \A i \in 1 .. Len(units) : Stream'[Len(Stream) + i] = units[i]
    BY ONLY StreamIsSeq, <1>2, chan'.in = chan.in, chan'.wire = chan.wire \o units, StreamSent
<1>4. Len(Stream) \in Nat BY StreamFacts
<1>5. Len(units) = n BY <1>1
<1>6. StreamIsSeq' /\ Len(Stream') = Len(Stream) + n BY <1>3, <1>5
<1>7. ASSUME NEW i \in 1 .. n
      PROVE  /\ Stream'[Len(Stream) + i].packet = p /\ Stream'[Len(Stream) + i].part = i
             /\ Stream'[Len(Stream) + i].of = n
    <2>1. Stream'[Len(Stream) + i] = units[i] BY ONLY <1>3, <1>5, i \in 1 .. n
    <2>2. units[i].packet = p /\ units[i].part = i /\ units[i].of = n BY <1>1
    <2> QED BY ONLY <2>1, <2>2
<1>8. \A i \in 1 .. Len(Stream) : Stream'[i] = Stream[i] BY <1>3
<1> QED BY ONLY <1>4, <1>6, <1>7, <1>8 DEF WrittenBehind

\* A step is answered.
LEMMA StepServedInv ==
    ASSUME SCPInv, StepPending, StepAsked, ~server.gone, UNCHANGED <<scenario, call, client>>,
           NEW n \in {1, 2}, call.fn = "send" => n = 1,
           DOMAIN chan' = ChannelFields, chan'.closed = chan.closed, chan'.out = <<>>,
           chan'.in = chan.in,
           chan'.wire = chan.wire \o Units(Line(Expected(call.step)), n),
           server' = [server EXCEPT !.next = After(call.step)]
    PROVE  SCPInv'
<1>1. PICK units, p : units = Units(Line(Expected(call.step)), n) /\ p = Line(Expected(call.step))
    OBVIOUS
<1>2. n \in Nat /\ n > 0 OBVIOUS
<1>3. UnitsOf(units, p, n) BY <1>1, <1>2, UnitsAre
<1>4. Len(Stream) = 0
    <2>1. ~Refused /\ AnswerLen = 0 BY DEF Refused, StepAsked
    <2> QED BY <2>1, SCPShape, AnswerShape
<1>5. /\ StreamIsSeq' /\ Len(Stream') = n
      /\ \A i \in 1 .. n : /\ Stream'[i].packet = p /\ Stream'[i].part = i
                          /\ Stream'[i].of = n
    <2>0. WrittenBehind(p, n)
        <3>1. StreamIsSeq BY SCPShape
        <3>2. chan'.in = chan.in /\ chan'.wire = chan.wire \o units BY <1>1
        <3> QED BY ONLY <1>2, <1>3, <3>1, <3>2, UnitsWritten
    <2>1. /\ StreamIsSeq' /\ Len(Stream') = 0 + n
          /\ \A i \in 1 .. n : /\ Stream'[0 + i].packet = p /\ Stream'[0 + i].part = i
                              /\ Stream'[0 + i].of = n
        BY ONLY <1>4, <2>0 DEF WrittenBehind
    <2>2. 0 + n = n /\ \A i \in 1 .. n : 0 + i = i BY ONLY <1>2
    <2> QED BY ONLY <2>1, <2>2
<1>6. /\ DOMAIN server' = SCPServerFields /\ server'.gone = server.gone
      /\ server'.got = server.got /\ server'.next = After(call.step)
    BY SCPShape DEF SCPServerFields
<1>7. AnswerLen' = n
    <2>1. ~Refused' BY <1>6 DEF Refused
    <2> QED BY <1>5, <2>1 DEF AnswerLen
<1>8. Shaped(SCPClientFields, SCPServerFields)' BY <1>5, <1>6, SCPShape, SCPShapeServed
<1>9. p.id = 1 BY <1>1, LineIs
<1>10. call' = call /\ client' = client OBVIOUS
<1>11. After(call.step)' = After(call.step) BY DEF After, Times, Uses
<1>12. StepAnswered' BY <1>1, <1>2, <1>5, <1>6, <1>7, <1>10, <1>11 DEF StepAnswered
<1>13. StepPending' BY <1>5, <1>6, <1>9, <1>10, <1>12 DEF StepPending
<1> QED BY <1>8, <1>10, <1>13, SCPShape DEF SCPInv

\* The other side answers a line, or sends the file, or takes a byte of it.
LEMMA ServesInv ==
    ASSUME SCPInv, Serves
    PROVE  SCPInv'
<1> DEFINE type == Head(chan.out).req.type
<1>1. /\ chan.out # <<>> /\ ~server.gone /\ UNCHANGED <<scenario, call, client>>
      /\ CASE type = "ack" /\ server.next = "T" -> Writes(Units(Line("T"), 2), "C")
           [] type = "ack" /\ server.next = "C" -> Writes(Units(Line("C"), 2), "file")
           [] type = "ack" /\ server.next = "file" -> Writes(FileUnits, "over")
           [] type \in {"T", "C"} -> Writes(Units(Ack, 1), IF type = "T" THEN "C" ELSE "file")
           [] type = "file" ->
                 /\ chan' = Received(chan)
                 /\ server' = [server EXCEPT !.got = @ + 1]
    BY DEF Serves, Waiting
<1> HIDE DEF type
<1>2. ASSUME NEW units, NEW next, Writes(units, next)
      PROVE  /\ DOMAIN chan' = ChannelFields /\ chan'.closed = chan.closed
             /\ chan'.in = chan.in /\ chan'.wire = chan.wire \o units
             /\ chan'.out = Tail(chan.out) /\ server' = [server EXCEPT !.next = next]
    BY <1>2, SCPShape DEF Writes, Received, ChannelFields
<1>3. ASSUME NEW line, chan.out = <<WholeLine(line)>>
      PROVE  type = line /\ Tail(chan.out) = <<>>
    <2>1. PICK x : x = WholeLine(line) OBVIOUS
    <2>2. chan.out = <<x>> /\ x.req.type = line BY <1>3, <2>1, LineIs
    <2> QED BY <2>2 DEF type
<1>4. CASE StepPending
    <2>1. StepAsked BY <1>1, <1>4 DEF StepPending, StepAnswered
    <2>2. chan.out = ToAnswer(call.step) /\ server.next = Before(call.step) BY <2>1 DEF StepAsked
    <2>3. call.step \in {"T", "C", "ackT", "ackC"}
        BY <1>1, <1>4, <2>2 DEF StepPending, ToAnswer
    <2>4. 1 \in {1, 2} /\ 2 \in {1, 2} OBVIOUS
    <2>5. CASE call.step = "T"
        <3>1. chan.out = <<WholeLine("ack")>> /\ server.next = "T" /\ call.fn = "recv"
            BY <1>4, <2>2, <2>5 DEF ToAnswer, Before, StepPending
        <3>2. type = "ack" /\ Tail(chan.out) = <<>> BY <1>3, <3>1
        <3>3. Writes(Units(Line("T"), 2), "C") BY <1>1, <3>1, <3>2
        <3>4. Expected(call.step) = "T" /\ After(call.step) = "C" BY <2>5 DEF Expected, After
        <3> QED BY <1>1, <1>2, <1>4, <2>1, <2>4, <3>1, <3>2, <3>3, <3>4, StepServedInv
    <2>6. CASE call.step = "C"
        <3>1. chan.out = <<WholeLine("ack")>> /\ server.next = "C" /\ call.fn = "recv"
            BY <1>4, <2>2, <2>6 DEF ToAnswer, Before, StepPending
        <3>2. type = "ack" /\ Tail(chan.out) = <<>> BY <1>3, <3>1
        <3>3. Writes(Units(Line("C"), 2), "file") BY <1>1, <3>1, <3>2
        <3>4. Expected(call.step) = "C" /\ After(call.step) = "file"
            BY <2>6 DEF Expected, After
        <3> QED BY <1>1, <1>2, <1>4, <2>1, <2>4, <3>1, <3>2, <3>3, <3>4, StepServedInv
    <2>7. CASE call.step \in {"ackT", "ackC"}
        <3>1. PICK line \in {"T", "C"} :
                /\ chan.out = <<WholeLine(line)>>
                /\ After(call.step) = IF line = "T" THEN "C" ELSE "file"
            BY <2>2, <2>7 DEF ToAnswer, After
        <3>2. type = line /\ Tail(chan.out) = <<>> BY <1>3, <3>1
        <3>3. Writes(Units(Line("ack"), 1), After(call.step)) BY <1>1, <3>1, <3>2, LineIs
        <3>4. Expected(call.step) = "ack" BY <2>7 DEF Expected
        <3> QED BY <1>1, <1>2, <1>4, <2>1, <2>4, <3>2, <3>3, <3>4, StepServedInv
    <2> QED BY <2>3, <2>5, <2>6, <2>7
<1>5. CASE MayBegin
    <2>1. chan.out = <<WholeLine("ack")>> /\ server.next = "file" BY <1>5 DEF MayBegin
    <2>2. type = "ack" /\ Tail(chan.out) = <<>> BY <1>3, <2>1
    <2>3. Writes(FileUnits, "over") BY <1>1, <2>1, <2>2
    <2>4. FileUnits = Units(Line("file"), ScpSize) BY DEF FileUnits, Units
    <2>5. PICK units, p, n : units = FileUnits /\ p = Line("file") /\ n = ScpSize OBVIOUS
    <2>6. n \in Nat BY <2>5, ScpSizeAssumption
    <2>7. UnitsOf(units, p, n) BY <2>4, <2>5, <2>6, UnitsAre
    <2>8. Len(Stream) = 0 BY <1>5, SCPShape, StreamFacts DEF MayBegin
    <2>9. /\ DOMAIN chan' = ChannelFields /\ chan'.closed = chan.closed
          /\ chan'.in = chan.in /\ chan'.wire = chan.wire \o units
          /\ chan'.out = <<>> /\ server' = [server EXCEPT !.next = "over"]
        BY <1>2, <2>2, <2>3, <2>5
    <2>10. StreamIsSeq' /\ Len(Stream') = n /\ \A i \in 1 .. n : Stream'[i].packet = p
        <3>0. WrittenBehind(p, n)
            <4>1. StreamIsSeq BY SCPShape
            <4> QED BY ONLY <2>6, <2>7, <2>9, <4>1, UnitsWritten
        <3>1. /\ StreamIsSeq' /\ Len(Stream') = 0 + n
              /\ \A i \in 1 .. n : Stream'[0 + i].packet = p
            BY ONLY <2>8, <3>0 DEF WrittenBehind
        <3>2. 0 + n = n /\ \A i \in 1 .. n : 0 + i = i BY ONLY <2>6
        <3> QED BY ONLY <3>1, <3>2
    <2>11. DOMAIN server' = SCPServerFields /\ server'.gone = server.gone /\ server'.next = "over"
        BY <2>9, SCPShape DEF SCPServerFields
    <2>12. Shaped(SCPClientFields, SCPServerFields)'
        BY <1>1, <2>9, <2>10, <2>11, SCPShape, SCPShapeServed
    <2>13. client'.moved \in Nat /\ client'.moved + Len(Stream') = ScpSize
        BY <1>1, <1>5, <2>5, <2>6, <2>10 DEF MayBegin
    <2>14. Receiving' BY <1>1, <1>5, <2>5, <2>9, <2>10, <2>11, <2>13 DEF MayBegin, Receiving
    <2> QED BY <1>1, <2>12, <2>14, SCPShape DEF SCPInv
<1>6. CASE Sending
    <2>1. PICK o, S : o = chan.out /\ o \in Seq(S) BY <1>6 DEF Sending, IsSeq
    <2>2. /\ o # <<>> /\ Len(o) \in Nat /\ Len(o) > 0 /\ Head(o) = o[1]
          /\ Tail(o) \in Seq(S) /\ Len(Tail(o)) = Len(o) - 1
          /\ \A i \in 1 .. Len(Tail(o)) : Tail(o)[i] = o[i + 1] /\ i + 1 \in 1 .. Len(o)
        BY <1>1, <2>1
    <2>3. \A i \in 1 .. Len(o) : o[i].req = Line("file") BY <1>6, <2>1 DEF Sending
    <2>4. type = "file"
        <3>1. Head(chan.out) = o[1] /\ 1 \in 1 .. Len(o) BY <2>1, <2>2
        <3>2. Head(chan.out).req = Line("file") BY <2>3, <3>1
        <3> QED BY <3>2, LineIs DEF type
    <2>5. chan' = Received(chan) /\ server' = [server EXCEPT !.got = @ + 1] BY <1>1, <2>4
    <2>6. /\ DOMAIN chan' = ChannelFields /\ chan'.closed = chan.closed
          /\ chan'.in = chan.in /\ chan'.wire = chan.wire /\ chan'.out = Tail(o)
        BY <2>1, <2>5, SCPShape DEF Received, ChannelFields
    <2>7. /\ DOMAIN server' = SCPServerFields /\ server'.gone = server.gone
          /\ server'.next = server.next /\ server'.got = server.got + 1
        BY <2>5, SCPShape DEF SCPServerFields
    <2>8. StreamIsSeq' /\ NothingToRead' BY <1>6, <2>6, SCPShape
        DEF StreamIsSeq, NothingToRead, Sending
    <2>9. Shaped(SCPClientFields, SCPServerFields)'
        BY <1>1, <2>6, <2>7, <2>8, SCPShape, SCPShapeServed
    <2>10. /\ client.moved \in Nat /\ server.got \in Nat /\ client.moved = server.got + Len(o)
        BY <1>6, <2>1 DEF Sending
    <2>11. server'.got \in Nat /\ client.moved = server'.got + Len(Tail(o))
        BY ONLY <2>2, <2>7, <2>10
    <2>12. IsSeq(Tail(o)) BY <2>2 DEF IsSeq
    <2>13. ASSUME NEW i \in 1 .. Len(Tail(o)) PROVE Tail(o)[i].req = Line("file")
        BY <2>2, <2>3
    <2>14. Sending' BY <1>1, <1>6, <2>6, <2>7, <2>8, <2>10, <2>11, <2>12, <2>13 DEF Sending
    <2> QED BY <1>1, <2>9, <2>14, SCPShape DEF SCPInv
<1> QED BY <1>1, <1>4, <1>5, <1>6 DEF SCPInv, NotOpen, Receiving

\* The other side is there.
LEMMA ServerStartsInv ==
    ASSUME SCPInv, ServerStarts
    PROVE  SCPInv'
<1>1. /\ chan.open /\ server.next = "ack" /\ ~server.gone /\ UNCHANGED <<scenario, call, client>>
      /\ chan' = [chan EXCEPT !.wire = @ \o Units(Ack, 1)]
      /\ server' = [server EXCEPT !.next = IF Times THEN "T" ELSE "C"]
    BY DEF ServerStarts
<1>2. StepPending BY <1>1 DEF SCPInv, NotOpen, MayBegin, Receiving, Sending
<1>3. call.step \in {"T", "C", "ack", "ackT", "ackC"} BY <1>2 DEF StepPending
<1>4. StepAsked
    <2>1. After(call.step) # "ack" BY <1>3 DEF After
    <2> QED BY <1>1, <1>2, <2>1 DEF StepPending, StepAnswered
<1>5. call.step = "ack" BY <1>1, <1>3, <1>4 DEF StepAsked, Before
<1>6. chan.out = <<>> BY <1>4, <1>5 DEF StepAsked, ToAnswer
<1>7. Expected(call.step) = "ack" /\ After(call.step) = IF Times THEN "T" ELSE "C"
    BY <1>5 DEF Expected, After
<1>8. /\ DOMAIN chan' = ChannelFields /\ chan'.closed = chan.closed /\ chan'.out = chan.out
      /\ chan'.in = chan.in /\ chan'.wire = chan.wire \o Units(Ack, 1)
    BY <1>1, SCPShape DEF ChannelFields
<1>9. 1 \in {1, 2} OBVIOUS
<1> QED BY <1>1, <1>2, <1>4, <1>6, <1>7, <1>8, <1>9, LineIs, StepServedInv

\* It says what is wrong instead, behind what it has said before.
LEMMA ServerRefusesInv ==
    ASSUME SCPInv, ServerRefuses
    PROVE  SCPInv'
<1>1. /\ chan.open /\ server.next \in {"ack", "T", "C"} /\ ~server.gone
      /\ UNCHANGED <<scenario, call, client>>
      /\ chan' = [chan EXCEPT !.wire = @ \o Units(Line("error"), 1)]
      /\ server' = [server EXCEPT !.gone = TRUE]
    BY DEF ServerRefuses
<1>2. StepPending BY <1>1 DEF SCPInv, NotOpen, MayBegin, Receiving, Sending
<1>3. PICK units, p, n : units = Units(Line("error"), 1) /\ p = Line("error") /\ n = 1 OBVIOUS
<1>4. n \in Nat BY <1>3
<1>5. UnitsOf(units, p, n) BY <1>3, <1>4, UnitsAre
<1>6. /\ DOMAIN chan' = ChannelFields /\ chan'.closed = chan.closed /\ chan'.out = chan.out
      /\ chan'.in = chan.in /\ chan'.wire = chan.wire \o units
    BY <1>1, <1>3, SCPShape DEF ChannelFields
<1>7. /\ DOMAIN server' = SCPServerFields /\ server'.gone = TRUE
      /\ server'.got = server.got /\ server'.next = server.next
    BY <1>1, SCPShape DEF SCPServerFields
<1>8. PICK m : m = Len(Stream) OBVIOUS
<1>9. /\ StreamIsSeq' /\ Len(Stream') = m + 1 /\ m \in Nat
      /\ \A i \in 1 .. m : Stream'[i] = Stream[i]
      /\ Stream'[m + 1].packet = p
    <2>1. /\ StreamIsSeq' /\ Len(Stream') = m + n /\ m \in Nat
          /\ \A i \in 1 .. m : Stream'[i] = Stream[i]
          /\ \A i \in 1 .. n : Stream'[m + i].packet = p
        <3>1. StreamIsSeq BY SCPShape
        <3>2. WrittenBehind(p, n) BY ONLY <1>4, <1>5, <1>6, <3>1, UnitsWritten
        <3> QED BY ONLY <1>8, <3>2 DEF WrittenBehind
    <2>2. 1 \in 1 .. n BY <1>3
    <2> QED BY <1>3, <2>1, <2>2
<1>10. AnswerLen = m
    <2>1. ~Refused BY <1>1 DEF Refused
    <2> QED BY <1>8, <2>1, SCPShape, AnswerShape
<1>11. AnswerLen' = m
    <2>1. Stream' # <<>>
        <3>1. Len(Stream') # 0 BY <1>9
        <3> QED BY <1>9, <3>1, StreamFactsNext
    <2>2. Stream'[Len(Stream')].packet.type = "error"
        <3>1. Stream'[Len(Stream')].packet = p BY ONLY <1>9
        <3>2. p.type = "error"
            <4>1. p = Line("error") BY <1>3
            <4> QED BY ONLY <4>1, LineIs
        <3> QED BY ONLY <3>1, <3>2
    <2>3. Refused' BY <1>1, <1>7, <2>1, <2>2 DEF Refused
    <2>4. AnswerLen' = Len(Stream') - 1 BY <2>3 DEF AnswerLen
    <2>5. Len(Stream') = m + 1 /\ m \in Nat BY <1>9
    <2> QED BY ONLY <2>4, <2>5
<1>12. Shaped(SCPClientFields, SCPServerFields)'
    BY <1>1, <1>6, <1>7, <1>9, SCPShape, SCPShapeServed
<1>13. call' = call /\ client' = client BY <1>1
<1>14. StepAsked => StepAsked' BY <1>6, <1>7, <1>10, <1>11, <1>13 DEF StepAsked
<1>15. ASSUME StepAnswered PROVE StepAnswered'
    <2>1. After(call.step)' = After(call.step) BY <1>1 DEF After, Times, Uses
    <2>2. \A i \in 1 .. m : Stream'[i] = Stream[i] BY <1>9
    <2>3. /\ server.next = After(call.step) /\ m > 0 /\ chan.out = <<>>
          /\ call.fn = "send" => m = 1
          /\ \A i \in 1 .. m :
                /\ Stream[i].packet = Line(Expected(call.step))
                /\ Stream[i].part = Stream[i].of <=> i = m
        BY <1>10, <1>15 DEF StepAnswered
    <2>4. \A i \in 1 .. m :
             /\ Stream'[i].packet = Line(Expected(call.step))
             /\ Stream'[i].part = Stream'[i].of <=> i = m
        BY <2>2, <2>3
    <2>5. server'.next = After(call.step)' /\ chan'.out = <<>> BY <1>6, <1>7, <2>1, <2>3
    <2>6. \A i \in 1 .. AnswerLen' :
             /\ Stream'[i].packet = Line(Expected(call'.step))
             /\ Stream'[i].part = Stream'[i].of <=> i = AnswerLen'
        BY ONLY <1>11, <1>13, <2>4
    <2>7. AnswerLen' > 0 BY ONLY <1>11, <2>3
    <2>8. call'.fn = "send" => AnswerLen' = 1 BY ONLY <1>11, <1>13, <2>3
    <2> QED BY ONLY <2>5, <2>6, <2>7, <2>8 DEF StepAnswered
<1>16. ASSUME NEW i \in 1 .. Len(Stream') PROVE Stream'[i].packet.id = 1
    <2>1. CASE i = m + 1
        <3>1. Stream'[m + 1].packet = p BY <1>9
        <3>2. p.id = 1
            <4>1. p = Line("error") BY <1>3
            <4> QED BY ONLY <4>1, LineIs
        <3> QED BY ONLY <2>1, <3>1, <3>2
    <2>2. CASE i # m + 1
        <3>1. i \in 1 .. m BY <1>9, <2>2
        <3> QED BY <1>2, <1>8, <1>9, <3>1 DEF StepPending
    <2> QED BY <2>1, <2>2
<1>17. StepPending' BY <1>2, <1>7, <1>13, <1>14, <1>15, <1>16 DEF StepPending
<1> QED BY <1>12, <1>13, <1>17, SCPShape DEF SCPInv

\* What is carried on changes nothing for scp.
LEMMA SCPCarriedInv ==
    ASSUME SCPInv, Carried
    PROVE  SCPInv'
<1>1. Shaped(SCPClientFields, SCPServerFields) BY DEF SCPInv
<1>2. Shaped(SCPClientFields, SCPServerFields)' BY <1>1, CarriedShape
<1>3. /\ call' = call /\ client' = client /\ chan'.out = chan.out /\ Stream' = Stream
      /\ scenario' = scenario /\ chan'.open = chan.open
      /\ NothingToRead' <=> NothingToRead
      /\ server.gone => server'.gone
      /\ server'.next = server.next /\ server'.got = server.got
      /\ UNCHANGED server \/ (server'.gone /\ ~server.gone)
    BY <1>1 DEF Carried, Shaped, SCPServerFields
<1>4. ASSUME StepPending PROVE AnswerLen' = AnswerLen
    <2>1. CASE UNCHANGED server
        <3>1. Refused' <=> Refused BY <1>3, <2>1 DEF Refused
        <3> QED BY <1>3, <3>1 DEF AnswerLen
    <2>2. CASE ~server.gone
        <3>1. ~Refused BY <2>2 DEF Refused
        <3>2. PICK n : n = Len(Stream) OBVIOUS
        <3>3. AnswerLen = n /\ n \in Nat BY <3>1, <3>2, SCPShape, AnswerShape
        <3>4. ~Refused'
            <4>1. CASE n = 0
                <5>1. Stream = <<>> BY <3>2, <4>1, SCPShape, StreamFacts
                <5> QED BY <1>3, <5>1 DEF Refused
            <4>2. CASE n # 0
                <5>1. StepAnswered BY <1>4, <3>3, <4>2 DEF StepPending, StepAsked
                <5>2. n \in 1 .. n BY <3>3, <4>2
                <5>3. Stream[n].packet = Line(Expected(call.step))
                    BY <3>3, <5>1, <5>2 DEF StepAnswered
                <5>4. Expected(call.step) # "error" BY DEF Expected
                <5>5. Stream[n].packet.type # "error" BY <5>3, <5>4, LineIs
                <5> QED BY <1>3, <3>2, <5>5 DEF Refused
            <4> QED BY <4>1, <4>2
        <3> QED BY <1>3, <3>1, <3>4 DEF AnswerLen
    <2> QED BY <1>3, <2>1, <2>2
<1>5. ASSUME StepPending PROVE StepPending'
    <2>1. StepAsked => StepAsked' BY <1>3, <1>4, <1>5 DEF StepAsked
    <2>2. StepAnswered => StepAnswered'
        <3>1. After(call.step)' = After(call.step) BY <1>3 DEF After, Times, Uses
        <3> QED BY <1>3, <1>4, <1>5, <3>1 DEF StepAnswered
    <2> QED BY <1>3, <1>5, <2>1, <2>2 DEF StepPending
<1>6. NotOpen => NotOpen' BY <1>3 DEF NotOpen
<1>7. MayBegin => MayBegin' BY <1>3 DEF MayBegin
<1>8. Receiving => Receiving' BY <1>3 DEF Receiving
<1>9. Sending => Sending' BY <1>3 DEF Sending
<1> QED BY <1>2, <1>3, <1>5, <1>6, <1>7, <1>8, <1>9, SCPShape DEF SCPInv

-----------------------------------------------------------------------------
(* All of them *)

\* A session as it begins.
LEMMA NewShape ==
    ASSUME chan = NewChannel, call = Idle, NEW cf, NEW sf, DOMAIN client = cf,
           DOMAIN server = sf, server.gone = FALSE
    PROVE  /\ Shaped(cf, sf) /\ NothingToRead /\ chan.out = <<>> /\ ~chan.open
           /\ call.fn = "none" /\ call.read = 0
<1>1. /\ DOMAIN chan = ChannelFields /\ chan.in = <<>> /\ chan.wire = <<>> /\ chan.out = <<>>
      /\ chan.open = FALSE /\ chan.closed = FALSE
    BY DEF NewChannel, ChannelFields
<1>2. <<>> \in Seq({}) OBVIOUS
<1>3. StreamIsSeq BY <1>1, <1>2 DEF StreamIsSeq
<1>4. Shaped(cf, sf) BY <1>1, <1>3, NoCall DEF Shaped
<1> QED BY <1>1, <1>4, NoCall DEF NothingToRead

\* The invariant holds at the beginning.
LEMMA SubsystemsInit == Init => SubsystemsInv
<1> SUFFICES ASSUME Init PROVE SubsystemsInv
    OBVIOUS
<1>1. scenario \in Scenarios /\ call = Idle /\ chan = NewChannel BY DEF Init
<1>2. ASSUME Of("sftp") PROVE SFTPInv
    <2>1. client = SFTPClient /\ server = SFTPServer BY <1>2 DEF Init, Of
    <2>2. /\ DOMAIN client = SFTPClientFields /\ DOMAIN server = SFTPServerFields
          /\ server.gone = FALSE /\ client.packets = <<>>
          /\ client.handles = [h \in Handles |-> NoHandle]
          /\ server.moved = [h \in Handles |-> 0] /\ server.type = [h \in Handles |-> "none"]
        BY <2>1 DEF SFTPClient, SFTPServer, SFTPClientFields, SFTPServerFields
    <2>3. NoHandle \in HandleRecords /\ NoHandle.type = "none"
        BY DEF NoHandle, HandleRecords, Types
    <2>4. ServerTyped BY <2>2 DEF ServerTyped, Types
    <2>5. Agree(client.handles) BY <2>2, <2>3 DEF Agree
    <2>6. /\ Shaped(SFTPClientFields, SFTPServerFields)
          /\ NothingToRead /\ chan.out = <<>> /\ call.read = 0
        BY <1>1, <2>2, NewShape
    <2>7. Returned BY <1>1, <2>2, <2>5, <2>6 DEF Returned
    <2>8. call.read \in 0 .. PacketUnits - 1 BY <2>6 DEF PacketUnits
    <2> QED BY <2>4, <2>6, <2>7, <2>8 DEF SFTPInv, SFTPStage
<1>3. ASSUME Of("publickey") PROVE PKeyInv
    <2>1. client = PKeyClient /\ server = PKeyServer BY <1>3 DEF Init, Of
    <2>2. /\ DOMAIN server = PKeyServerFields /\ server.gone = FALSE
          /\ server.keys \in Nat /\ server.version \in Nat
        BY <2>1 DEF PKeyServer, PKeyServerFields
    <2>3. /\ client.list = <<>> /\ client.fetched = FALSE /\ client.error = ""
          /\ client.version = 0 /\ client.calls = 0 /\ DOMAIN client = PKeyClientFields
        BY <2>1, PKeyClientIs
    <2>4. /\ Shaped(PKeyClientFields, PKeyServerFields)
          /\ NothingToRead /\ chan.out = <<>> /\ ~chan.open
        BY <1>1, <2>2, <2>3, NewShape
    <2>5. PKeyIdle BY <1>1, <2>3, <2>4, NotStatusCodes DEF PKeyIdle, OutIs
    <2>6. InOrder(client.list) BY <2>3, InOrderEmpty
    <2>12. client.version = 0 /\ client.calls = 0 BY <2>3
    <2>7. client.version \in Nat /\ client.calls \in Nat BY ONLY <2>12
    <2>8. client.fetched \in BOOLEAN
        <3>1. client.fetched = FALSE BY <2>3
        <3> QED BY ONLY <3>1
    <2>9. client.version # 0 => client.version = server.version /\ call.fn # "version"
        BY ONLY <2>12
    <2>10. chan.open /\ ~server.gone => chan.blocking BY ONLY <2>4
    <2>11. client.calls = 0 => client = PKeyClient BY ONLY <2>1
    <2> QED BY ONLY <2>2, <2>4, <2>5, <2>6, <2>7, <2>8, <2>9, <2>10, <2>11 DEF PKeyInv
<1>4. ASSUME Of("scp") PROVE SCPInv
    <2>1. client = SCPClient /\ server = SCPServer BY <1>4 DEF Init, Of
    <2>2. /\ DOMAIN client = SCPClientFields /\ DOMAIN server = SCPServerFields
          /\ server.gone = FALSE /\ client.moved = 0 /\ client.size = 0
          /\ client.direction = "none" /\ server.got = 0 /\ server.next = "start"
        BY <2>1 DEF SCPClient, SCPServer, SCPClientFields, SCPServerFields
    <2>3. /\ Shaped(SCPClientFields, SCPServerFields)
          /\ NothingToRead /\ chan.out = <<>> /\ ~chan.open
        BY <1>1, <2>2, NewShape
    <2>4. NotOpen BY <1>1, <2>2, <2>3 DEF NotOpen
    <2> QED BY <1>1, <2>2, <2>3, <2>4 DEF SCPInv
<1> QED BY <1>1, <1>2, <1>3, <1>4 DEF SubsystemsInv

\* A session uses one service, from beginning to end.
LEMMA SameSession ==
    ASSUME Next
    PROVE  scenario' = scenario
<1>1. SFTPBegins => scenario' = scenario
    <2>1. ASSUME NEW fn, NEW h, NEW n, NEW attrs, RequestWith(fn, h, n, attrs)
          PROVE  scenario' = scenario
        BY <2>1 DEF RequestWith
    <2>2. ASSUME NEW h, Readdir(h) PROVE scenario' = scenario
        BY <2>1, <2>2 DEF Readdir, Request
    <2> QED BY <2>1, <2>2 DEF SFTPBegins, SFTPInit, OpenEx, UnlinkEx, MkdirEx, RmdirEx, RenameEx,
            StatEx, SymlinkEx, SFTPShutdown, SFTPRead, SFTPWrite, Fstat, CloseHandle, Seek,
            Request, Sets
<1>2. PKeyBegins => scenario' = scenario
    BY DEF PKeyBegins, PKeyInit, AddEx, RemoveEx, ListFetch, PKeyShutdown, PKeyRequest
<1>3. SCPBegins => scenario' = scenario
    BY DEF SCPBegins, ScpRecv, ScpSend, Start, ReadFile, WriteFile
<1>4. SFTPContinues \/ PKeyContinues \/ SCPContinues => scenario' = scenario
    BY DEF SFTPContinues, Ask, FlushRead, ReadLength, ReadBody, PKeyContinues, PacketLength,
        PacketBody, SCPContinues, RecvByte, SendAck
<1>5. SFTPServes \/ PKeyServes \/ SCPServes \/ ServerRefuses => scenario' = scenario
    BY DEF SFTPServes, PKeyServes, SCPServes, Serves, ServerStarts, ServerRefuses
<1>6. Delivers \/ ServerExits => scenario' = scenario
    BY DEF Delivers, Arrives, CloseArrives, ServerExits
<1> QED BY <1>1, <1>2, <1>3, <1>4, <1>5, <1>6 DEF Next, Begins, Continues, ServerServes

\* Every step of a session keeps the invariant.
LEMMA SubsystemsNext ==
    ASSUME SubsystemsInv, [Next]_vars
    PROVE  SubsystemsInv'
<1>1. scenario' = scenario /\ scenario \in Scenarios
    BY SameSession DEF SubsystemsInv, vars
<1>2. ASSUME Of("sftp") PROVE SFTPInv'
    <2>0. SFTPInv BY <1>2 DEF SubsystemsInv
    <2>1. SFTPBegins => SFTPInv' BY <2>0, SFTPBeginsInv
    <2>2. SFTPContinues => SFTPInv'
        BY <2>0, SFTPAskInv, SFTPFlushInv, SFTPLengthInv, SFTPBodyInv DEF SFTPContinues
    <2>3. SFTPServes => SFTPInv' BY <2>0, SFTPServesInv
    <2>4. Delivers \/ ServerExits \/ UNCHANGED vars => SFTPInv'
        BY <2>0, CarriedOn, SFTPCarriedInv DEF SFTPInv, SFTPServerFields
    <2> QED BY <1>2, <2>1, <2>2, <2>3, <2>4 DEF Next, Begins, Continues, ServerServes, Of
<1>3. ASSUME Of("publickey") PROVE PKeyInv'
    <2>0. PKeyInv BY <1>3 DEF SubsystemsInv
    <2>1. PKeyBegins => PKeyInv' BY <2>0, PKeyBeginsInv, MaxCallsAssumption
    <2>2. PKeyContinues => PKeyInv'
        BY <2>0, PacketLengthInv, PacketBodyInv DEF PKeyContinues
    <2>3. PKeyServes => PKeyInv' BY <2>0, PKeyServesInv
    <2>4. Delivers \/ ServerExits \/ UNCHANGED vars => PKeyInv'
        BY <2>0, CarriedOn, PKeyCarriedInv DEF PKeyInv, PKeyServerFields
    <2> QED BY <1>3, <2>1, <2>2, <2>3, <2>4 DEF Next, Begins, Continues, ServerServes, Of
<1>4. ASSUME Of("scp") PROVE SCPInv'
    <2>0. SCPInv BY <1>4 DEF SubsystemsInv
    <2>1. SCPBegins => SCPInv'
        BY <2>0, StartInv, ReadFileInv, WriteFileInv DEF SCPBegins, ScpRecv, ScpSend
    <2>2. SCPContinues => SCPInv' BY <2>0, RecvByteInv, SendAckInv DEF SCPContinues
    <2>3. SCPServes \/ ServerRefuses => SCPInv'
        BY <2>0, ServesInv, ServerStartsInv, ServerRefusesInv DEF SCPServes
    <2>4. Delivers \/ ServerExits \/ UNCHANGED vars => SCPInv'
        BY <2>0, CarriedOn, SCPCarriedInv DEF SCPInv, SCPServerFields
    <2> QED BY <1>4, <2>1, <2>2, <2>3, <2>4 DEF Next, Begins, Continues, ServerServes, Of
<1> QED BY <1>1, <1>2, <1>3, <1>4 DEF SubsystemsInv, Of

\* Where the answer to the call is, whatever the service.
THEOREM SubsystemsInvariant == Spec => []SubsystemsInv
<1>1. SubsystemsInv /\ [Next]_vars => SubsystemsInv' BY SubsystemsNext
<1> QED BY <1>1, SubsystemsInit, PTL DEF Spec

\* What the stream is made of is at a place of it.
LEMMA StreamPackets ==
    ASSUME StreamIsSeq, NEW u \in ToSet(Stream)
    PROVE  \E i \in 1 .. Len(Stream) : u = Stream[i]
<1>1. \E S : Stream \in Seq(S)
    <2>1. PICK S : chan.in \in Seq(S) /\ chan.wire \in Seq(S) BY DEF StreamIsSeq
    <2>2. Stream \in Seq(S) BY <2>1 DEF Stream
    <2> QED BY <2>2
<1> QED BY <1>1 DEF ToSet

\* Every session is one with a service.
LEMMA Served ==
    ASSUME SubsystemsInv
    PROVE  Of("sftp") \/ Of("publickey") \/ Of("scp")
BY ServicesAssumption DEF SubsystemsInv, Of

\* What is in flight was written and not served, is on its way, or is in the brigade.
LEMMA WhereInFlight ==
    ASSUME StreamIsSeq, NEW p \in InFlight
    PROVE  \/ \E i \in DOMAIN chan.out : p = chan.out[i].req
           \/ \E i \in 1 .. Len(Stream) : p = Stream[i].packet
           \/ Of("sftp") /\ p \in ToSet(client.packets)
<1>1. CASE p \in {chan.out[i].req : i \in DOMAIN chan.out} BY <1>1
<1>2. CASE p \in {u.packet : u \in ToSet(chan.in \o chan.wire)}
    <2>1. PICK u \in ToSet(chan.in \o chan.wire) : p = u.packet BY <1>2
    <2>2. u \in ToSet(Stream) BY DEF Stream
    <2>3. \E i \in 1 .. Len(Stream) : u = Stream[i] BY <2>2, StreamPackets
    <2> QED BY <2>1, <2>3
<1>3. CASE p \in IF Of("sftp") THEN ToSet(client.packets) ELSE {} BY <1>3
<1> QED BY <1>1, <1>2, <1>3 DEF InFlight

\* What a sequence of one is made of.
LEMMA OfOne ==
    ASSUME NEW s, NEW x, s = <<x>>, NEW i \in DOMAIN s
    PROVE  s[i] = x
OBVIOUS

\* What is in flight while a call of SFTP is made is of that call.
LEMMA SFTPReplies ==
    ASSUME SFTPInv, ~server.gone, call # Adrift, NEW p,
           \/ \E i \in DOMAIN chan.out : p = chan.out[i].req
           \/ \E i \in 1 .. Len(Stream) : p = Stream[i].packet
           \/ Of("sftp") /\ p \in ToSet(client.packets)
    PROVE  Pending /\ p.id = call.req.id
<1>1. (NothingToRead <=> Len(Stream) = 0) /\ Len(Stream) \in Nat BY SFTPShape, StreamFacts
<1>2. NothingToRead => ~ \E i \in 1 .. Len(Stream) : p = Stream[i].packet BY ONLY <1>1
<1>3. chan.out = <<>> => ~ \E i \in DOMAIN chan.out : p = chan.out[i].req OBVIOUS
<1>4. client.packets = <<>> => ~ p \in ToSet(client.packets) BY DEF ToSet
<1>5. CASE Returned BY <1>2, <1>3, <1>4, <1>5 DEF Returned
<1>6. CASE Asking
    <2>1. \E i \in DOMAIN chan.out : p = chan.out[i].req
        BY <1>2, <1>4, <1>6 DEF Asking, Asked
    <2>2. chan.out = <<[req |-> call.req, whole |-> TRUE]>> BY <1>6 DEF Asking, Asked
    <2>3. p = call.req BY <2>1, <2>2, OfOne
    <2> QED BY <1>6, <2>3 DEF Asking
<1>7. CASE Arriving
    <2>1. PICK i \in 1 .. Len(Stream) : p = Stream[i].packet BY <1>3, <1>4, <1>7 DEF Arriving
    <2>2. p = Stream[1].packet BY <1>7, <2>1 DEF Arriving
    <2> QED BY <1>7, <2>2 DEF Arriving
<1>8. CASE InBrigade
    <2>1. p \in ToSet(client.packets) BY <1>2, <1>3, <1>8 DEF InBrigade
    <2>2. PICK i \in DOMAIN client.packets : p = client.packets[i] BY <2>1 DEF ToSet
    <2>3. PICK x : x = client.packets[1] OBVIOUS
    <2>4. client.packets = <<x>> BY <1>8, <2>3 DEF InBrigade
    <2>5. p = client.packets[1] BY <2>2, <2>3, <2>4, OfOne
    <2> QED BY <1>8, <2>5 DEF InBrigade
<1> QED BY <1>5, <1>6, <1>7, <1>8, SFTPStages

\* What is in flight while a call about public keys is made is of that call.
LEMMA PKeyReplies ==
    ASSUME PKeyInv, ~server.gone, call # Adrift, NEW p,
           \/ \E i \in DOMAIN chan.out : p = chan.out[i].req
           \/ \E i \in 1 .. Len(Stream) : p = Stream[i].packet
    PROVE  Pending /\ p.id = call.req.id
<1>0. StreamIsSeq BY DEF PKeyInv, Shaped
<1>1. (NothingToRead <=> Len(Stream) = 0) /\ Len(Stream) \in Nat BY <1>0, StreamFacts
<1>2. NothingToRead => ~ \E i \in 1 .. Len(Stream) : p = Stream[i].packet BY ONLY <1>1
<1>3. chan.out = <<>> => ~ \E i \in DOMAIN chan.out : p = chan.out[i].req OBVIOUS
<1>4. CASE PKeyIdle BY <1>2, <1>3, <1>4 DEF PKeyIdle, OutIs
<1>5. CASE PKeyAsked
    <2>1. \E i \in DOMAIN chan.out : p = chan.out[i].req BY <1>2, <1>5 DEF PKeyAsked
    <2>2. chan.out = <<[req |-> call.req, whole |-> TRUE]>> BY <1>5 DEF PKeyAsked, OutIs
    <2>3. p = call.req BY <2>1, <2>2, OfOne
    <2> QED BY <1>5, <2>3 DEF PKeyAsked, PKeyPending
<1>6. CASE PKeyArriving
    <2>1. PICK i \in 1 .. Len(Stream) : p = Stream[i].packet
        BY <1>3, <1>6 DEF PKeyArriving, OutIs
    <2>2. UnitFits(p, i + Begun, Len(Stream) + Begun) BY <1>6, <2>1 DEF PKeyArriving, KeysArriving
    <2>3. p.id = call.req.id BY <2>2 DEF UnitFits
    <2> QED BY <1>6, <2>3 DEF PKeyArriving, PKeyPending
<1> QED BY <1>4, <1>5, <1>6 DEF PKeyInv, PKeyAdrift

\* What is in flight in a session of scp is of the call that begins it, or it is the file
\* and what lets it begin.
LEMMA SCPReplies ==
    ASSUME SCPInv, chan.open, NEW p,
           \/ \E i \in DOMAIN chan.out : p = chan.out[i].req
           \/ \E i \in 1 .. Len(Stream) : p = Stream[i].packet
    PROVE  p.type \in {"file", "ack"} \/ (Pending /\ p.id = call.req.id)
<1>1. (NothingToRead <=> Len(Stream) = 0) /\ Len(Stream) \in Nat BY SCPShape, StreamFacts
<1>2. NothingToRead => ~ \E i \in 1 .. Len(Stream) : p = Stream[i].packet BY ONLY <1>1
<1>3. chan.out = <<>> => ~ \E i \in DOMAIN chan.out : p = chan.out[i].req OBVIOUS
<1>4. CASE StepPending
    <2>1. Pending /\ call.req.id = 1
        <3>1. call.fn \in {"recv", "send"} /\ call.req = Ack BY <1>4 DEF StepPending
        <3>2. Ack.id = 1 BY LineIs
        <3> QED BY ONLY <3>1, <3>2 DEF Pending
    <2>2. CASE \E i \in 1 .. Len(Stream) : p = Stream[i].packet
        BY <1>4, <2>1, <2>2 DEF StepPending
    <2>3. CASE \E i \in DOMAIN chan.out : p = chan.out[i].req
        <3>1. chan.out = ToAnswer(call.step)
            BY <1>3, <1>4, <2>3 DEF StepPending, StepAsked, StepAnswered
        <3>2. call.step \in {"T", "C", "ack", "ackT", "ackC"} BY <1>4 DEF StepPending
        <3>3. ToAnswer(call.step) # <<>> => \E type : ToAnswer(call.step) = <<WholeLine(type)>>
            BY <3>2 DEF ToAnswer
        <3>4. PICK type : chan.out = <<WholeLine(type)>> BY <1>3, <2>3, <3>1, <3>3
        <3>5. PICK i \in DOMAIN chan.out : p = chan.out[i].req BY <2>3
        <3>6. chan.out[i] = WholeLine(type) BY <3>4, OfOne
        <3>7. p = Line(type) BY <3>5, <3>6, LineIs
        <3> QED BY <2>1, <3>7, LineIs
    <2> QED BY <2>2, <2>3
<1>5. CASE MayBegin
    <2>1. PICK i \in DOMAIN chan.out : p = chan.out[i].req BY <1>2, <1>5 DEF MayBegin
    <2>2. chan.out = <<WholeLine("ack")>> BY <1>5 DEF MayBegin
    <2>3. chan.out[i] = WholeLine("ack") BY <2>2, OfOne
    <2>4. p = Line("ack") BY <2>1, <2>3, LineIs
    <2> QED BY <2>4, LineIs
<1>6. CASE Receiving
    <2>1. p = Line("file") BY <1>3, <1>6 DEF Receiving
    <2> QED BY <2>1, LineIs
<1>7. CASE Sending
    <2>1. PICK i \in DOMAIN chan.out : p = chan.out[i].req BY <1>2, <1>7 DEF Sending
    <2>2. i \in 1 .. Len(chan.out) BY <1>7, <2>1 DEF Sending, IsSeq
    <2>3. p = Line("file") BY <1>7, <2>1, <2>2 DEF Sending
    <2> QED BY <2>3, LineIs
<1> QED BY <1>4, <1>5, <1>6, <1>7 DEF SCPInv, NotOpen

\* Everything that is on its way between the two sides, or waits to be asked for, is of
\* the call that is being made: no reply can go to another request, although their
\* numbers are not compared.
THEOREM RepliesAreDueCorrect == Spec => []RepliesAreDue
<1>1. SubsystemsInv => RepliesAreDue
    <2> SUFFICES ASSUME SubsystemsInv, chan.open, call.fn # "adrift", ~server.gone
                 PROVE  \A p \in InFlight :
                            \/ Of("scp") /\ p.type \in {"file", "ack"}
                            \/ Pending /\ p.id = call.req.id
        BY DEF RepliesAreDue
    <2>0. call # Adrift BY NoCall
    <2> SUFFICES ASSUME NEW p \in InFlight
                 PROVE  \/ Of("scp") /\ p.type \in {"file", "ack"}
                        \/ Pending /\ p.id = call.req.id
        OBVIOUS
    <2>1. StreamIsSeq
        <3>1. Of("sftp") => StreamIsSeq BY SFTPShape DEF SubsystemsInv
        <3>2. Of("publickey") => StreamIsSeq BY DEF SubsystemsInv, PKeyInv, Shaped
        <3>3. Of("scp") => StreamIsSeq BY SCPShape DEF SubsystemsInv
        <3> QED BY <3>1, <3>2, <3>3, Served
    <2>2. \/ \E i \in DOMAIN chan.out : p = chan.out[i].req
          \/ \E i \in 1 .. Len(Stream) : p = Stream[i].packet
          \/ Of("sftp") /\ p \in ToSet(client.packets)
        BY <2>1, WhereInFlight
    <2>3. CASE Of("sftp")
        <3>1. SFTPInv BY <2>3 DEF SubsystemsInv
        <3> QED BY <2>0, <2>2, <3>1, SFTPReplies
    <2>4. CASE Of("publickey")
        <3>1. PKeyInv BY <2>4 DEF SubsystemsInv
        <3>2. ~Of("sftp") BY <2>4 DEF Of
        <3> QED BY <2>0, <2>2, <3>1, <3>2, PKeyReplies
    <2>5. CASE Of("scp")
        <3>1. SCPInv BY <2>5 DEF SubsystemsInv
        <3>2. ~Of("sftp") BY <2>5 DEF Of
        <3> QED BY <2>2, <2>5, <3>1, <3>2, SCPReplies
    <2> QED BY <2>3, <2>4, <2>5, Served
<1> QED BY <1>1, SubsystemsInvariant, PTL

\* Where the library thinks a file or a directory is, is where the server has got to, and
\* the two agree on which are open.
THEOREM HandlesInStepCorrect == Spec => []HandlesInStep
<1>1. SubsystemsInv => HandlesInStep
    <2> SUFFICES ASSUME SubsystemsInv, Of("sftp"), call = Idle, ~server.gone, NEW h \in Handles
                 PROVE  /\ (client.handles[h].type = "none") = (server.type[h] = "none")
                        /\ client.handles[h].type = "file" =>
                                client.handles[h].offset = server.moved[h]
                        /\ client.handles[h].type = "dir" =>
                                client.handles[h].given + client.handles[h].names_left
                                    = server.moved[h]
        BY DEF HandlesInStep, Of
    <2>1. SFTPInv BY DEF SubsystemsInv
    <2>2. Agree(client.handles) BY <2>1, NoCall, SFTPStages DEF Returned
    <2>3. /\ client.handles[h].type = "none" <=> server.type[h] = "none"
          /\ client.handles[h].type = "file" => client.handles[h].offset = server.moved[h]
          /\ client.handles[h].type = "dir" =>
                client.handles[h].given + client.handles[h].names_left = server.moved[h]
        BY <2>2 DEF Agree
    <2>4. (client.handles[h].type = "none") = (server.type[h] = "none")
        BY <2>3
    <2> QED BY <2>3, <2>4
<1> QED BY <1>1, SubsystemsInvariant, PTL

\* A list of keys that is handed out is all the keys the server had, in its order, and the
\* reason the application is told of a refusal is the one the server had; of a file that
\* scp sends, the other side has got what was written and is not on its way.
THEOREM KeysAndSendsAreWhole ==
    Spec => [](/\ Of("publickey") => KeysAreWhole
               /\ Of("scp") => SendIsWhole)
<1>1. SubsystemsInv /\ Of("publickey") => KeysAreWhole
    <2> SUFFICES ASSUME PKeyInv PROVE KeysAreWhole
        BY DEF SubsystemsInv
    <2>1. ASSUME client.fetched, ~server.gone, call = Idle
          PROVE  client.list = [i \in 1 .. server.keys |-> i]
        <3>1. PKeyIdle
            BY <2>1, NoCall DEF PKeyInv, PKeyAsked, PKeyArriving, PKeyPending, Pending, PKeyAdrift
        <3>2. Len(client.list) = server.keys BY <2>1, <3>1 DEF PKeyIdle
        <3>3. PICK list : list = client.list OBVIOUS
        <3>4. PICK S : list \in Seq(S) BY <3>3 DEF PKeyInv, InOrder, IsSeq
        <3>5. \A i \in DOMAIN list : list[i] = i BY <3>3 DEF PKeyInv, InOrder
        <3>6. list = [i \in 1 .. Len(list) |-> i] BY ONLY <3>4, <3>5
        <3> QED BY ONLY <3>2, <3>3, <3>6
    <2>2. ASSUME client.error \in ToSet(StatusCodes)
          PROVE  client.error = server.meant
        <3>1. client.error # "" BY <2>2, NotStatusCodes
        <3>2. PKeyIdle
            BY <3>1 DEF PKeyInv, PKeyAsked, PKeyArriving, PKeyPending, PKeyAdrift
        <3> QED BY <2>2, <3>2 DEF PKeyIdle
    <2> QED BY <2>1, <2>2 DEF KeysAreWhole
<1>2. SubsystemsInv /\ Of("scp") => SendIsWhole
    BY DEF SubsystemsInv, SCPInv, NotOpen, StepPending, MayBegin, Receiving, Sending, SendIsWhole
<1> QED BY <1>1, <1>2, SubsystemsInvariant, PTL
=============================================================================
