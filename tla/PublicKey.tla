------------------------------ MODULE PublicKey ------------------------------
(***************************************************************************)
(* publickey.c: the list of keys an account may be used with.  Requests     *)
(* have no number and there is no brigade: every call reads packets until   *)
(* a status ends it.                                                        *)
(***************************************************************************)
EXTENDS SSHStream

CONSTANT MaxKeys  \* bound: keys of the account

ASSUME MaxKeysAssumption == MaxKeys \in Nat

LIBSSH2_PUBLICKEY_VERSION == 2

\* The names of responses, and what the codes of a status say; 0 says success.
ResponseCodes == {"status", "version", "publickey"}
StatusCodes ==
    <<"access_denied", "storage_exceeded", "version_not_supported", "key_not_found",
      "key_not_supported", "key_already_present", "general_failure",
      "request_not_supported">>
\* libssh2_publickey_status_error: what the application is told. A general failure
\* had the number 6 in version 1.
StatusError(code, version) ==
    LET status == IF code = 6 /\ version = 1 THEN 7 ELSE code
    IN  IF status \in DOMAIN StatusCodes THEN StatusCodes[status] ELSE "unknown"

\* list: the keys list_fetch has gathered; fetched: they were handed out; error: what
\* the application was told when its last call failed.
PKeyClient == [version |-> 0, list |-> <<>>, fetched |-> FALSE, error |-> "", calls |-> 0]
\* version: the one both sides have; meant: why the server refused the last request.
PKeyServer == [gone |-> FALSE, keys |-> 0, version |-> 0, meant |-> ""]

\* libssh2_publickey_init: unlike sftp_init it closes, but does not free, the channel
\* when it fails.
PKeyInit ==
    /\ call = Idle /\ ~chan.open /\ client.calls = 0
    /\ \/ /\ LET req == [fn |-> "version", id |-> 1]
             IN  /\ chan' = Write([chan EXCEPT !.open = TRUE, !.blocking = TRUE], req)
                 /\ call' = Call("version", "length", req)
          /\ client' = [client EXCEPT !.calls = @ + 1]
       \/ client' = [client EXCEPT !.calls = MaxCalls] /\ UNCHANGED <<chan, call>>
    /\ UNCHANGED <<scenario, server>>

PKeyRequest(fn) ==
    LET req == [fn |-> fn, id |-> client.calls + 1] IN
    /\ call = Idle /\ chan.open /\ client.version > 0 /\ client.calls < MaxCalls
    /\ chan' = Write(chan, req)
    /\ call' = Call(fn, "length", req)
    /\ client' = [client EXCEPT !.calls = @ + 1, !.list = <<>>, !.fetched = FALSE,
                               !.error = ""]
    /\ UNCHANGED <<scenario, server>>
AddEx == PKeyRequest("add")
RemoveEx == PKeyRequest("remove")
ListFetch == PKeyRequest("list")

PKeyShutdown ==
    /\ call \in {Idle, Adrift} /\ chan.open /\ client.version > 0
    /\ chan' = [NewChannel EXCEPT !.closed = TRUE] /\ call' = Idle
    /\ client' = [PKeyClient EXCEPT !.calls = MaxCalls]
    /\ server' = [server EXCEPT !.gone = TRUE]
    /\ UNCHANGED scenario

\* The call succeeds: what was listed is handed out.
PKeySucceeds == call' = Idle /\ client' = [client EXCEPT !.fetched = call.fn = "list"]
\* It fails: what was listed is freed.
PKeyFails(error) ==
    call' = Idle /\ client' = [client EXCEPT !.list = <<>>, !.error = error]

\* packet_receive: a length with one read, then a body with one read.
PacketLength ==
    /\ call.step = "length" /\ Readable
    /\ chan' = Read(chan, HeaderUnits)
    /\ IF chan.in = <<>> THEN PKeyFails("no_response")
       ELSE /\ call' = IF Count(HeaderUnits) = HeaderUnits THEN [call EXCEPT !.step = "body"]
                       ELSE Adrift
            /\ UNCHANGED client
    /\ UNCHANGED <<scenario, server>>

\* What a call does with a packet: a status ends it; a key is kept by the call that
\* lists; what has a name that is not known ends it too; the rest is ignored.
\* Seeded fault: what was listed is handed out although the status is an error.
ResponseListsAnyway(p) ==
    CASE p.type \notin ResponseCodes -> PKeyFails("invalid_response")
      [] p.type = "status" /\ (p.n = 0 \/ call.fn = "list") -> PKeySucceeds
      [] p.type = "status" /\ p.n # 0 /\ call.fn # "list" ->
            PKeyFails(StatusError(p.n, client.version))
      [] p.type = "version" /\ call.fn = "version" ->
            call' = Idle /\ client' = [client EXCEPT !.version = p.n]
      [] p.type = "publickey" /\ call.fn = "list" ->
            /\ client' = [client EXCEPT !.list = Append(@, p.n)]
            /\ call' = [call EXCEPT !.step = "length"]
      [] OTHER -> call' = [call EXCEPT !.step = "length"] /\ UNCHANGED client
Response(p) ==
    CASE p.type \notin ResponseCodes -> PKeyFails("invalid_response")
      [] p.type = "status" /\ p.n = 0 /\ call.fn # "version" -> PKeySucceeds
      [] p.type = "status" /\ (p.n # 0 \/ call.fn = "version") ->
            PKeyFails(StatusError(p.n, client.version))
      [] p.type = "version" /\ call.fn = "version" ->
            /\ call' = Idle
            /\ client' = [client EXCEPT !.version = IF p.n > LIBSSH2_PUBLICKEY_VERSION
                                                   THEN LIBSSH2_PUBLICKEY_VERSION ELSE p.n]
      [] p.type = "publickey" /\ call.fn = "list" ->
            /\ client' = [client EXCEPT !.list = Append(@, p.n)]
            /\ call' = [call EXCEPT !.step = "length"]
      [] OTHER -> call' = [call EXCEPT !.step = "length"] /\ UNCHANGED client
PacketBody ==
    /\ call.step = "body" /\ chan.in # <<>>
    /\ chan' = Read(chan, PacketUnits - HeaderUnits)
    /\ IF Count(PacketUnits - HeaderUnits) < PacketUnits - HeaderUnits
       THEN call' = Adrift /\ UNCHANGED client
       ELSE Response(Head(chan.in).packet)
    /\ UNCHANGED <<scenario, server>>

----------------------------------------------------------------------------
(* The server *)

PKeyPacket(req, type, n) == [type |-> type, id |-> req.id, n |-> n]
PKeyAnswers(packets, srv) ==
    chan' = Sent(Received(chan), packets, PacketUnits) /\ server' = srv
ListOf(req, n) == [i \in 1 .. n |-> PKeyPacket(req, "publickey", i)]
\* The codes a server refuses with, in the version both sides speak.
CodeOf(meaning) ==
    CASE meaning = "access_denied" -> 1
      [] meaning = "key_already_present" -> 6
      [] meaning = "general_failure" -> IF server.version = 1 THEN 6 ELSE 7
Refuses(req, meaning) ==
    \E n \in 0 .. IF req.fn = "list" THEN server.keys ELSE 0 :
        PKeyAnswers(Append(ListOf(req, n), PKeyPacket(req, "status", CodeOf(meaning))),
                    [server EXCEPT !.meant = meaning])
PKeyServes ==
    /\ Waiting
    /\ LET req == Head(chan.out).req
           ok == PKeyPacket(req, "status", 0)
       IN  \/ /\ req.fn = "version"
              /\ \E v \in {1, 3} :
                    PKeyAnswers(<<PKeyPacket(req, "version", v)>>,
                                [server EXCEPT !.version = IF v = 3 THEN 2 ELSE v])
           \/ /\ req.fn = "add" /\ server.keys < MaxKeys
              /\ PKeyAnswers(<<ok>>, [server EXCEPT !.keys = @ + 1])
           \/ /\ req.fn = "add" /\ server.keys > 0 /\ server.version > 1
              /\ Refuses(req, "key_already_present")
           \/ /\ req.fn = "remove" /\ server.keys > 0
              /\ PKeyAnswers(<<ok>>, [server EXCEPT !.keys = @ - 1])
           \/ req.fn = "list" /\ PKeyAnswers(Append(ListOf(req, server.keys), ok), server)
           \/ req.fn # "version" /\ Refuses(req, "general_failure")
           \/ Refuses(req, "access_denied")
           \/ PKeyAnswers(<<PKeyPacket(req, "attribute", 0)>>, server)
    /\ UNCHANGED <<scenario, call, client>>

----------------------------------------------------------------------------
PKeyBegins == PKeyInit \/ AddEx \/ RemoveEx \/ ListFetch \/ PKeyShutdown
PKeyContinues == PacketLength \/ PacketBody
=============================================================================
