-------------------------------- MODULE SFTP ---------------------------------
(***************************************************************************)
(* sftp.c: requests and replies over one channel.  A request carries a      *)
(* number, but no reply is ever matched by it: packet_ask compares type and *)
(* number with strncmp, which ends at the first zero byte of the number.    *)
(* That every reply still goes to its request is what is checked.           *)
(***************************************************************************)
EXTENDS SSHStream

CONSTANTS
    FileSize,  \* bytes of every file on the server
    DirSize,   \* names in every directory on the server
    MaxOpen,   \* bound: handles of the server
    Chunk,     \* bound: bytes of one read or write
    AttrSets,  \* bound: the attributes that are set in one request
    SignBit,   \* bound: the first word that is negative as an int, for 2^31
    Refusals   \* bound: what a server refuses a request with

\* libssh2_sftp.h: the calls, and what a status says; these in the order of their numbers.
SFTPCalls ==
    {"open", "opendir", "read", "readdir", "write", "close", "seek", "fstat", "fsetstat",
     "rename", "unlink", "mkdir", "rmdir", "stat", "setstat", "symlink", "readlink", "realpath"}
Statuses ==
    <<"OK", "EOF", "NO_SUCH_FILE", "PERMISSION_DENIED", "FAILURE", "BAD_MESSAGE",
      "NO_CONNECTION", "CONNECTION_LOST", "OP_UNSUPPORTED", "INVALID_HANDLE",
      "NO_SUCH_PATH", "FILE_ALREADY_EXISTS", "WRITE_PROTECT", "NO_MEDIA",
      "NO_SPACE_ON_FILESYSTEM", "QUOTA_EXCEEDED", "UNKNOWN_PRINCIPLE", "LOCK_CONFLICT",
      "DIR_NOT_EMPTY", "NOT_A_DIRECTORY", "INVALID_FILENAME", "LINK_LOOP">>
\* LIBSSH2_SFTP_ATTRIBUTES: the words of each attribute that its flags name.
AttrFields == <<"SIZE", "UIDGID", "PERMISSIONS", "ACMODTIME">>
Words(field) == IF field = "PERMISSIONS" THEN 1 ELSE 2

ASSUME SFTPAssumption ==
    /\ {FileSize, DirSize, MaxOpen, Chunk, SignBit} \subseteq Nat
    /\ \A a \in AttrSets :
          /\ DOMAIN a \subseteq ToSet(AttrFields)
          /\ \A f \in DOMAIN a : a[f] \in [1 .. Words(f) -> 0 .. 2 * SignBit - 1]
    /\ Refusals \subseteq ToSet(Statuses) \ {"OK", "EOF"}
    /\ \A s \in Scenarios : s.service = "sftp" =>
          s.uses \subseteq SFTPCalls \cup {"exits", "lost", "splits", "lp64"}

NoAttrs == <<>>

\* A word of 32 bits is put together as an int, which is made an unsigned long: of 32
\* bits, or of 64 that repeat its sign, for which the word is negative here. A size is
\* two such words, the high one multiplied by 2^32: nothing is left of it in 32 bits,
\* and in 64 a negative low word takes one from it.
Ntohu32(w) == IF Uses("lp64") /\ w >= SignBit THEN w - 2 * SignBit ELSE w
Ntohu64(ws) ==
    IF ~Uses("lp64") THEN <<0, ws[2]>>
    ELSE <<IF Ntohu32(ws[2]) < 0 THEN (ws[1] - 1) % (2 * SignBit) ELSE ws[1], ws[2]>>
Ntoh(f, ws) == IF f = "SIZE" THEN Ntohu64(ws) ELSE [i \in DOMAIN ws |-> Ntohu32(ws[i])]

\* attrsize is what a request is allocated for; attr2bin writes the flags, then the
\* attributes they name; bin2attr reads one after the other as the flags say.
Present(flags) == SelectSeq(AttrFields, LAMBDA f : f \in flags)
AttrSize(attrs) == FoldLeft(LAMBDA n, f : n + Words(f), 1, Present(DOMAIN attrs))
AttrToBin(attrs) ==
    [flags |-> DOMAIN attrs,
     words |-> FoldLeft(LAMBDA s, f : s \o attrs[f], <<>>, Present(DOMAIN attrs))]
BinToAttr(bin) ==
    LET Take(r, f) == [attrs |-> (f :> Ntoh(f, SubSeq(r.s, 1, Words(f)))) @@ r.attrs,
                       s |-> SubSeq(r.s, Words(f) + 1, Len(r.s))]
    IN  FoldLeft(Take, [attrs |-> NoAttrs, s |-> bin.words], Present(bin.flags)).attrs

Handles == 1 .. MaxOpen
LIBSSH2_SFTP_VERSION == 3
\* union u of LIBSSH2_SFTP_HANDLE: a file's offset, or the names that are left of
\* the last reply; given counts the names the application has had.
NoHandle == [type |-> "none", offset |-> 0, names_left |-> 0, given |-> 0]
Handle(type) == [NoHandle EXCEPT !.type = type]

\* known: what the application was last told of the attributes of its file.
SFTPClient == [version |-> 0, request_id |-> 0, packets |-> <<>>, last_errno |-> "OK",
               handles |-> [h \in Handles |-> NoHandle], known |-> NoAttrs, calls |-> 0]
\* moved: the bytes of each open file read or written, from where it was sought to;
\* or the names of a directory that were listed.
SFTPServer == [gone |-> FALSE, moved |-> [h \in Handles |-> 0], attrs |-> NoAttrs,
               type |-> [h \in Handles |-> "none"]]

Held(h, type) == client.handles[h].type = type

----------------------------------------------------------------------------
(* Requests *)

Status == <<"STATUS">>
\* The responses each call accepts, in the order it asks for them.
Responses(fn) ==
    CASE fn = "init" -> <<"VERSION">>
      [] fn \in {"open", "opendir"} -> <<"HANDLE", "STATUS">>
      [] fn = "read" -> <<"DATA", "STATUS">>
      [] fn \in {"fstat", "fsetstat", "stat", "setstat"} -> <<"ATTRS", "STATUS">>
      [] fn \in {"readdir", "symlink", "readlink", "realpath"} -> <<"NAME", "STATUS">>
      [] OTHER -> Status
\* packet_require waits for one type, packet_requirev flushes and asks for several.
Requirev(fn) == Len(Responses(fn)) > 1

\* A request is written, and its reply awaited. What the application knows of the
\* attributes is not for long when it sets them.
RequestWith(fn, h, n, attrs) ==
    LET req == [fn |-> fn, id |-> client.request_id, h |-> h, n |-> n,
                attrs |-> AttrToBin(attrs), size |-> AttrSize(attrs),
                offset |-> IF h = 0 THEN 0 ELSE client.handles[h].offset]
    IN  /\ call = Idle /\ chan.open /\ Uses(fn) /\ client.calls < MaxCalls
        /\ chan' = Write(chan, req)
        /\ call' = IF WritesAll(req)
                   THEN Call(fn, IF Requirev(fn) THEN "flush" ELSE "ask", req) ELSE Adrift
        /\ client' = [client EXCEPT !.request_id = @ + 1, !.calls = @ + 1,
                         !.known = IF attrs = NoAttrs THEN @ ELSE NoAttrs]
        /\ UNCHANGED <<scenario, server>>
Request(fn, h, n) == RequestWith(fn, h, n, NoAttrs)
Sets(fn, h) == \E attrs \in AttrSets : RequestWith(fn, h, 1, attrs)

\* sftp_init: a channel, the subsystem, our version. The channel is opened and the
\* subsystem asked for as in SSHChannel; either may be refused.
SFTPInit ==
    /\ call = Idle /\ ~chan.open /\ client.calls = 0
    /\ \/ /\ LET req == [fn |-> "init", id |-> 0, h |-> 0, n |-> 1,
                        attrs |-> AttrToBin(NoAttrs), size |-> 1, offset |-> 0]
             IN  /\ chan' = Write([chan EXCEPT !.open = TRUE, !.blocking = TRUE], req)
                 /\ call' = Call("init", "ask", req)
          /\ client' = client
       \/ client' = [client EXCEPT !.calls = MaxCalls] /\ UNCHANGED <<chan, call>>
    /\ UNCHANGED <<scenario, server>>

OpenEx == \E fn \in {"open", "opendir"} : Request(fn, 0, 1)
SFTPRead(h, n) == Held(h, "file") /\ Request("read", h, n)
SFTPWrite(h, n) == Held(h, "file") /\ Request("write", h, n)
Fstat(h) == Held(h, "file") /\ (Request("fstat", h, 1) \/ Sets("fsetstat", h))
CloseHandle(h) == ~Held(h, "none") /\ Request("close", h, 1)
UnlinkEx == Request("unlink", 0, 1)
MkdirEx == Request("mkdir", 0, 1)
RmdirEx == Request("rmdir", 0, 1)
StatEx == Request("stat", 0, 1) \/ Sets("setstat", 0)
\* What the version of the server does not have is not asked for.
RenameEx == client.version >= 2 /\ Request("rename", 0, 1)
SymlinkEx == \E fn \in {"symlink", "readlink", "realpath"} :
                (client.version >= 3 \/ fn = "realpath") /\ Request(fn, 0, 1)

\* readdir hands out what the last reply left before it asks for more.
PopName(c, h) == [c EXCEPT !.handles[h].names_left = @ - 1, !.handles[h].given = @ + 1]
Readdir(h) ==
    /\ Held(h, "dir")
    /\ IF client.handles[h].names_left = 0 THEN Request("readdir", h, 1)
       ELSE /\ call = Idle
            /\ client' = PopName(client, h) /\ UNCHANGED <<scenario, call, chan, server>>

\* The application moves the offset of a file; the server is not told.
Seek(h, offset) ==
    /\ call = Idle /\ Held(h, "file") /\ Uses("seek")
    /\ client' = [client EXCEPT !.handles[h].offset = offset]
    /\ server' = [server EXCEPT !.moved[h] = offset]
    /\ UNCHANGED <<scenario, call, chan>>

\* sftp_shutdown, or the failure of sftp_init: the channel is freed. No handle was
\* ever linked to the session, so none is closed.
Freed == [NewChannel EXCEPT !.closed = TRUE]
SFTPShutdown ==
    /\ call \in {Idle, Adrift} /\ chan.open
    /\ chan' = Freed /\ call' = Idle
    /\ client' = [SFTPClient EXCEPT !.calls = MaxCalls]
    /\ server' = [server EXCEPT !.gone = TRUE]
    /\ UNCHANGED scenario

----------------------------------------------------------------------------
(* Replies *)

\* packet_ask: the oldest packet of a type, type by type.
AskFor(packets, types) ==
    LET Of(type) == SelectInSeq(packets, LAMBDA p : p.type = type)
        t == SelectInSeq(types, LAMBDA type : Of(type) # 0)
    IN  IF t = 0 THEN 0 ELSE Of(types[t])

\* What the call does with its reply: where a file is follows what was moved, and
\* a handle is forgotten only when the server has closed it.
\* Seeded fault: the offset follows what was asked for.
MovedAsAsked(c, h, p) == [c EXCEPT !.handles[h].offset = @ + call.req.n]
Moved(c, h, p) ==
    [c EXCEPT !.handles[h].offset = @ + IF call.fn = "write" THEN call.req.n ELSE p.n]
Succeeds(c, p) ==
    LET h == call.req.h IN
    CASE p.type = "VERSION" ->
            [c EXCEPT !.version = IF p.n > LIBSSH2_SFTP_VERSION
                                  THEN LIBSSH2_SFTP_VERSION ELSE p.n]
      [] p.type = "HANDLE" ->
            [c EXCEPT !.handles[p.n] = Handle(IF call.fn = "open" THEN "file" ELSE "dir")]
      [] p.type = "DATA" \/ (p.type = "STATUS" /\ call.fn = "write") -> Moved(c, h, p)
      [] p.type = "NAME" /\ call.fn = "readdir" ->
            PopName([c EXCEPT !.handles[h].names_left = p.n], h)
      [] p.type = "ATTRS" -> [c EXCEPT !.known = BinToAttr(p.attrs)]
      [] p.type = "STATUS" /\ call.fn = "close" -> [c EXCEPT !.handles[h] = NoHandle]
      [] OTHER -> c
\* Nothing more in a directory is no error.
Failed(c, p) == IF call.fn = "readdir" /\ p.status = "EOF" THEN c
                ELSE [c EXCEPT !.last_errno = p.status]
Takes(c, p) == IF p.type = "STATUS" /\ p.status # "OK" THEN Failed(c, p) ELSE Succeeds(c, p)

\* sftp_init frees the channel when no version comes.
GivesUp ==
    /\ call' = Idle
    /\ IF call.fn = "init"
       THEN /\ chan' = Freed /\ server' = [server EXCEPT !.gone = TRUE]
            /\ client' = [client EXCEPT !.calls = MaxCalls]
       ELSE UNCHANGED <<chan, client, server>>

\* Seeded fault: the reply stays in the brigade.
AskLeaves ==
    LET i == AskFor(client.packets, Responses(call.fn)) IN
    /\ call.step = "ask"
    /\ IF i = 0 THEN call' = [call EXCEPT !.step = "read"] /\ UNCHANGED client
       ELSE client' = Takes(client, client.packets[i]) /\ call' = Idle
    /\ UNCHANGED <<scenario, chan, server>>
Ask ==
    LET i == AskFor(client.packets, Responses(call.fn)) IN
    /\ call.step = "ask"
    /\ IF i = 0 THEN call' = [call EXCEPT !.step = "read"] /\ UNCHANGED client
       ELSE /\ client' = Takes([client EXCEPT !.packets = RemoveAt(@, i)], client.packets[i])
            /\ call' = Idle
    /\ UNCHANGED <<scenario, chan, server>>

\* packet_read without blocking: nothing has arrived, and the channel is left as it
\* is; or the first byte of a length, whose rest is then waited for.
FlushRead ==
    /\ call.step = "flush" /\ call.read = 0
    /\ IF chan.in = <<>>
       THEN chan' = [chan EXCEPT !.blocking = FALSE] /\ call' = [call EXCEPT !.step = "ask"]
       ELSE chan' = [Read(chan, 1) EXCEPT !.blocking = TRUE] /\ call' = [call EXCEPT !.read = 1]
    /\ UNCHANGED <<scenario, client, server>>

\* A length is read with one read: less than all of it is an error. Nothing at all
\* means that the channel is closed.
\* Seeded fault: that the channel is closed is not looked at.
ReadLengthWaits ==
    /\ \/ call.step = "read" /\ call.read = 0
       \/ call.step = "flush" /\ call.read = 1
    /\ chan.in # <<>>
    /\ chan' = [Read(chan, HeaderUnits - call.read) EXCEPT !.blocking = TRUE]
    /\ call' = IF Count(HeaderUnits) >= HeaderUnits - call.read
               THEN [call EXCEPT !.read = HeaderUnits] ELSE Adrift
    /\ UNCHANGED <<scenario, client, server>>
ReadLength ==
    /\ \/ call.step = "read" /\ call.read = 0
       \/ call.step = "flush" /\ call.read = 1
    /\ Readable
    /\ IF chan.in = <<>> THEN GivesUp
       ELSE /\ chan' = [Read(chan, HeaderUnits - call.read) EXCEPT !.blocking = TRUE]
            /\ call' = IF Count(HeaderUnits) >= HeaderUnits - call.read
                       THEN [call EXCEPT !.read = HeaderUnits] ELSE Adrift
            /\ UNCHANGED <<client, server>>
    /\ UNCHANGED scenario

\* packet_add: at the end of the brigade.
PacketAdd(c, p) == [c EXCEPT !.packets = Append(@, p)]
\* packet_requirev asks after each packet; packet_require, which asked once at its
\* beginning, only when the packet is of the type it waits for.
AsksNow(p) == Requirev(call.fn) \/ p.type = Responses(call.fn)[1]

\* The body is read piece by piece; then the packet is added to the brigade, and
\* the call flushes on, asks, or reads on.
ReadBody ==
    /\ call.step \in {"flush", "read"} /\ call.read >= HeaderUnits /\ chan.in # <<>>
    /\ LET got == call.read + Count(PacketUnits - call.read)
           p == Head(chan.in).packet
       IN  IF got < PacketUnits THEN call' = [call EXCEPT !.read = got] /\ UNCHANGED client
           ELSE /\ client' = PacketAdd(client, p)
                /\ call' = [call EXCEPT !.read = 0,
                               !.step = IF @ = "flush" THEN @
                                        ELSE IF AsksNow(p) THEN "ask" ELSE "read"]
    /\ chan' = Read(chan, PacketUnits - call.read)
    /\ UNCHANGED <<scenario, server>>

----------------------------------------------------------------------------
(* The server *)

\* What the draft means by attributes, and how it has them written.
Meant(bin) ==
    [f \in bin.flags |->
        LET at == (IF f # "SIZE" /\ "SIZE" \in bin.flags THEN 2 ELSE 0)
                  + (IF f \in {"PERMISSIONS", "ACMODTIME"} /\ "UIDGID" \in bin.flags
                     THEN 2 ELSE 0)
                  + (IF f = "ACMODTIME" /\ "PERMISSIONS" \in bin.flags THEN 1 ELSE 0)
        IN  SubSeq(bin.words, at + 1, at + Words(f))]
Part(f) == IF f \in DOMAIN server.attrs THEN server.attrs[f] ELSE <<>>
Written == [flags |-> DOMAIN server.attrs,
            words |-> Part("SIZE") \o Part("UIDGID") \o Part("PERMISSIONS")
                      \o Part("ACMODTIME")]

Reply(req, type, n) ==
    [type |-> type, id |-> req.id, n |-> n, attrs |-> Written, status |-> "OK"]
StatusReply(req, status) == [Reply(req, "STATUS", 0) EXCEPT !.status = status]

Answers(req, reply, srv) ==
    /\ chan' = Sent(Received(chan), <<reply>>, PacketUnits)
    /\ server' = srv
FreeHandles == {h \in Handles : server.type[h] = "none"}

ServerSucceeds(req) ==
    CASE req.fn = "init" ->
            \E version \in {2, 4} : Answers(req, Reply(req, "VERSION", version), server)
      [] req.fn \in {"open", "opendir"} ->
            \E h \in FreeHandles :
                /\ \A other \in FreeHandles : h <= other
                /\ Answers(req, Reply(req, "HANDLE", h),
                       [server EXCEPT !.type[h] = IF req.fn = "open" THEN "file" ELSE "dir",
                                      !.moved[h] = 0])
      [] req.fn = "read" ->
            \E n \in 1 .. req.n :
                /\ req.offset + n <= FileSize
                /\ Answers(req, Reply(req, "DATA", n), [server EXCEPT !.moved[req.h] = @ + n])
      [] req.fn = "readdir" ->
            \E n \in 1 .. DirSize - server.moved[req.h] :
                Answers(req, Reply(req, "NAME", n), [server EXCEPT !.moved[req.h] = @ + n])
      [] req.fn = "write" ->
            Answers(req, StatusReply(req, "OK"), [server EXCEPT !.moved[req.h] = @ + req.n])
      [] req.fn = "close" ->
            Answers(req, StatusReply(req, "OK"), [server EXCEPT !.type[req.h] = "none"])
      [] req.fn \in {"setstat", "fsetstat"} ->
            Answers(req, StatusReply(req, "OK"),
                    [server EXCEPT !.attrs = Meant(req.attrs) @@ @])
      [] req.fn \in {"fstat", "stat"} -> Answers(req, Reply(req, "ATTRS", 0), server)
      [] req.fn \in {"readlink", "realpath"} -> Answers(req, Reply(req, "NAME", 1), server)
      [] OTHER -> Answers(req, StatusReply(req, "OK"), server)
SFTPServes ==
    /\ Waiting
    /\ LET req == Head(chan.out).req IN
       \/ ServerSucceeds(req)
       \/ /\ req.fn # "init"
          /\ \E status \in Refusals : Answers(req, StatusReply(req, status), server)
       \/ /\ req.fn = "readdir" /\ server.moved[req.h] = DirSize
          /\ Answers(req, StatusReply(req, "EOF"), server)
    /\ UNCHANGED <<scenario, call, client>>

----------------------------------------------------------------------------
SFTPBegins ==
    \/ SFTPInit \/ OpenEx \/ UnlinkEx \/ MkdirEx \/ RmdirEx \/ RenameEx
    \/ StatEx \/ SymlinkEx \/ SFTPShutdown
    \/ \E h \in Handles :
        \/ \E n \in 1 .. Chunk : SFTPRead(h, n) \/ SFTPWrite(h, n)
        \/ Fstat(h) \/ Readdir(h) \/ CloseHandle(h)
        \/ \E offset \in 0 .. FileSize : Seek(h, offset)
SFTPContinues == Ask \/ FlushRead \/ ReadLength \/ ReadBody

\* Where the library thinks an open file is, is where the server has got to; the
\* names of a directory that the application has had and those it has yet to get
\* are those the server listed; and the two agree on which handles are open.
HandlesInStep ==
    scenario.service = "sftp" /\ call = Idle /\ chan.open /\ ~server.gone =>
        \A h \in Handles :
            LET handle == client.handles[h] IN
            /\ (handle.type = "none") = (server.type[h] = "none")
            /\ handle.type = "file" => handle.offset = server.moved[h]
            /\ handle.type = "dir" => handle.given + handle.names_left = server.moved[h]
=============================================================================
