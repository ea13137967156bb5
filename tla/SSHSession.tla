------------------------------ MODULE SSHSession -----------------------------
(***************************************************************************)
(* kex.c, session.c and userauth.c: a session starts, exchanges keys,       *)
(* authenticates, and exchanges keys again when the server says so, inside  *)
(* whatever call happened to read the server's KEXINIT.                     *)
(*                                                                          *)
(* Packet types are the numbers of libssh2_priv.h, because the code takes   *)
(* packets by number and some numbers mean different things to different    *)
(* methods.  Every packet carries the keys it was written with.  A call of  *)
(* the application is a record in `call`; the exchange that runs on top of  *)
(* it, alone in reading while it lasts, is a record in `kex`.               *)
(***************************************************************************)
EXTENDS Integers, Sequences, FiniteSets, SequencesExt, SSHMethods

CONSTANTS
    Sessions,   \* the sessions to look at: records of uses, the server's lists, guess
    Supported,  \* for each kind of method, those of this build, best first
    Prefs,      \* bound: kinds and lists method_pref is called with
    Exchanges,  \* bound: key exchanges of a session
    Tries       \* bound: authentication requests of a session

\* What the application calls and what the server and the network do.
CallNames == {"pref", "list", "password", "hostbased", "publickey", "kbdint", "read",
              "disconnect"}
Faults == {"rekey", "banner", "reset", "closed", "timeout"}
KindsInOrder == <<"KEX", "HOSTKEY", "CRYPT_CS", "CRYPT_SC", "MAC_CS", "MAC_SC",
                  "COMP_CS", "COMP_SC">>
Kinds == ToSet(KindsInOrder)

ASSUME SessionsAssumption ==
    /\ \A s \in Sessions :
          /\ s.uses \subseteq CallNames \cup Faults
          /\ s.guess => Head(s.lists["KEX"]) = Gex  \* no other first packet can be guessed
    /\ DOMAIN Supported = Kinds
    /\ \A k \in Kinds :
          /\ ToSet(Supported[k]) \subseteq ToSet(MethodNames(k))
          /\ Supported[k] = SelectSeq(MethodNames(k), LAMBDA m : m \in ToSet(Supported[k]))
    /\ {Exchanges, Tries} \subseteq Nat

VARIABLES
    uses,     \* the calls and faults of this session
    session,  \* LIBSSH2_SESSION, and what it has written to the socket
    wire,     \* packets on the way from the server
    call,     \* the call the application is in
    kex,      \* the key exchange it is in
    server    \* the server's side of the session

vars == <<uses, session, wire, call, kex, server>>

\* libssh2_priv.h: packet types. The banner line comes before all packets.
BANNER_LINE == 0
DISCONNECT == 1
SERVICE_REQUEST == 5
SERVICE_ACCEPT == 6
KEXINIT == 20
NEWKEYS == 21
KEXDH_INIT == 30
KEXDH_REPLY == 31
KEX_DH_GEX_GROUP == 31
KEX_DH_GEX_INIT == 32
KEX_DH_GEX_REPLY == 33
KEX_DH_GEX_REQUEST == 34
USERAUTH_REQUEST == 50
USERAUTH_FAILURE == 51
USERAUTH_SUCCESS == 52
USERAUTH_BANNER == 53
USERAUTH_PK_OK == 60
USERAUTH_PASSWD_CHANGEREQ == 60
USERAUTH_INFO_REQUEST == 60
USERAUTH_INFO_RESPONSE == 61
AnyPacket == <<-1>>

NoMethods == [k \in Kinds |-> ""]

\* The two directions: their methods, and the letters of their keys.
Out == [crypt |-> "CRYPT_CS", mac |-> "MAC_CS", comp |-> "COMP_CS", letters |-> ToServer]
In == [crypt |-> "CRYPT_SC", mac |-> "MAC_SC", comp |-> "COMP_SC", letters |-> ToClient]

\* What a packet is written with: before the first exchange nothing; then cipher and
\* MAC of the last exchange h, and the stream of the compression.
Plain == [crypt |-> [algo |-> "none"], mac |-> [hash |-> "none"], comp |-> NoComp]
Keys(method, way, h, session_id, begun) ==
    [crypt |-> CryptInit(method[way.crypt], h, session_id, way.letters),
     mac |-> MacHash(method[way.mac], MacInit(method[way.mac], h, session_id, way.letters)),
     comp |-> CompContext(method[way.comp], begun)]
OutKeys(s) ==
    IF s.newkeys THEN Keys(s.method, Out, s.secrets, s.session_id, s.stream) ELSE Plain
InKeys(s) ==
    IF s.newkeys THEN Keys(s.method, In, s.secrets, s.session_id, s.stream) ELSE Plain

Msg(type, what, n) ==
    [type |-> type, what |-> what, n |-> n, guess |-> FALSE, keys |-> Plain]
Under(p, keys) == [p EXCEPT !.keys = keys]
\* A write to a server that has closed the connection is still taken.
CanWrite(s) == s.link # "reset"
\* packet_write takes the methods and the contexts the session has at that moment.
PacketWrite(s, p) ==
    IF CanWrite(s) THEN [s EXCEPT !.out = Append(@, Under(p, OutKeys(s)))] ELSE s

Call(fn, need) == [fn |-> fn, need |-> need, asked |-> FALSE, key |-> NoKey]
Idle == Call("none", <<>>)
KexStep(step, h) == [step |-> step, asked |-> FALSE, h |-> h]
NoKex == KexStep("none", 0)
Exchanging == kex.step # "none"

\* A server may send the first packet of the method it likes best on trust.
Hello(keys, lists, guess, n) ==
    <<[Under(Msg(KEXINIT, lists, n), keys) EXCEPT !.guess = guess]>>
    \o IF guess THEN <<Under(Msg(KEX_DH_GEX_GROUP, [blob |-> "guess"], n), keys)>> ELSE <<>>

Init ==
    \E choice \in Sessions :
        /\ uses = choice.uses
        /\ session = [link |-> "up", socket_state |-> "CONNECTED", started |-> "no",
                      prefs |-> [k \in Kinds |-> <<>>], method |-> NoMethods,
                      secrets |-> 0, stream |-> 0, newkeys |-> FALSE,
                      exchanging |-> FALSE, kexinit |-> <<>>, burn |-> FALSE, session_id |-> 0,
                      authenticated |-> FALSE, packets |-> <<>>, tries |-> 0, out |-> <<>>]
        /\ wire = <<Msg(BANNER_LINE, "", 0)>>
                  \o Hello(Plain, choice.lists, choice.guess, 1)
        /\ call = Idle
        /\ kex = NoKex
        /\ server = [lists |-> choice.lists, guess |-> choice.guess, kex |-> "sent",
                     n |-> 1, method |-> NoMethods, in |-> Plain, out |-> Plain,
                     id |-> 0, authenticated |-> FALSE, challenges |-> 0,
                     greeted |-> FALSE, held |-> <<>>, gone |-> FALSE,
                     prompts |-> 0]

----------------------------------------------------------------------------
(* Agreeing on methods *)

\* method_pref: names are stripped in place, and after a name was stripped the
\* next one has moved to where nothing looks (for names of equal lengths).
Stripped(kind, prefs) ==
    LET Step(r, name) ==
          IF r.moved \/ name \in ToSet(Supported[kind])
          THEN [kept |-> Append(r.kept, name), moved |-> FALSE]
          ELSE [r EXCEPT !.moved = TRUE]
    IN  FoldLeft(Step, [kept |-> <<>>, moved |-> FALSE], prefs).kept
MethodPref(kind, prefs) ==
    /\ "pref" \in uses /\ call = Idle /\ session.started = "no"
    /\ session' = IF Stripped(kind, prefs) = <<>> THEN session
                  ELSE [session EXCEPT !.prefs[kind] = Stripped(kind, prefs)]
    /\ UNCHANGED <<uses, wire, call, kex, server>>

\* kexinit: the lists we offer.
Offer(s, k) == IF s.prefs[k] = <<>> THEN Supported[k] ELSE s.prefs[k]

\* kex_agree_*: our first method the server has, "" if there is none; a name
\* that method_pref let through although we do not have it is none.
AgreeInstr(haystack, needle) == needle \in ToSet(haystack)
Agreed(ours, theirs, known) ==
    LET i == SelectInSeq(ours, LAMBDA m : AgreeInstr(theirs, m)) IN
    IF i = 0 THEN "" ELSE IF ours[i] \in ToSet(known) THEN ours[i] ELSE ""

\* kex_agree_methods: kind by kind, each taking effect at once, up to the first
\* that cannot be agreed on; the server's guess is to be burnt unless it is for
\* our method. Compression starts anew, here and not with the new keys.
AgreeMethods(s) ==
    LET Choice(k) == Agreed(Offer(s, k), s.kexinit.what[k], Supported[k])
        fails == SelectInSeq(KindsInOrder, LAMBDA k : Choice(k) = "")
        Set(k) == fails = 0 \/ k \in ToSet(SubSeq(KindsInOrder, 1, fails - 1))
    IN  [s EXCEPT !.method = [k \in Kinds |-> IF Set(k) THEN Choice(k) ELSE @[k]],
                  !.stream = IF fails = 0 THEN s.kexinit.n ELSE @,
                  !.burn = s.kexinit.guess /\ Choice("KEX") # Head(s.kexinit.what["KEX"])]
CanAgree(s) ==
    \A k \in Kinds : Agreed(Offer(s, k), s.kexinit.what[k], Supported[k]) # ""

----------------------------------------------------------------------------
(* Exchanging keys *)

\* Where the call goes on when the exchange it ran into is over, or has failed:
\* to the service request, back to its caller, or to the packet it waits for.
AfterKex(s) ==
    /\ kex' = NoKex
    /\ CASE call.fn = "startup" ->
              /\ session' = PacketWrite(s, Msg(SERVICE_REQUEST, "", 0))
              /\ call' = IF CanWrite(s) THEN Call("service", <<SERVICE_ACCEPT>>) ELSE Idle
         [] call.fn = "read" -> session' = s /\ call' = Idle
         [] OTHER -> session' = s /\ call' = call
\* The session stays marked as exchanging keys.
KexFails(s) ==
    /\ kex' = NoKex /\ session' = s
    /\ call' = IF call.fn \in {"startup", "read"} THEN Idle ELSE call

\* kex_exchange up to the wait for the server's KEXINIT. A re-exchange forgets the
\* method and the host key.
KexBegins(s, reexchange) ==
    LET t == [s EXCEPT !.exchanging = TRUE,
                       !.method["KEX"] = IF reexchange THEN "" ELSE @,
                       !.method["HOSTKEY"] = IF reexchange THEN "" ELSE @]
    IN  IF CanWrite(t)
        THEN /\ session' = PacketWrite(t, Msg(KEXINIT, [k \in Kinds |-> Offer(t, k)], 0))
             /\ kex' = KexStep("kexinit", 0) /\ call' = call
        ELSE KexFails(t)

\* A packet of the exchange is written, and the exchange goes on to the next.
KexSends(s, p, step) ==
    IF CanWrite(s) THEN session' = PacketWrite(s, p) /\ kex' = step /\ call' = call
    ELSE KexFails(s)
\* Our value for the exchange is sent; after it a wrong guess is to be burnt.
KexInit(s, p) == KexSends(s, p, KexStep(IF s.burn THEN "burn" ELSE "reply", 0))

\* Both directions get the secrets of the exchange; the first one is the session's
\* identifier.
\* Seeded faults: the last one is; secrets are derived once.
NewKeysIdentify(s, h) ==
    [s EXCEPT !.newkeys = TRUE, !.secrets = h, !.exchanging = FALSE, !.session_id = h]
NewKeysOnce(s, h) ==
    [s EXCEPT !.newkeys = TRUE, !.secrets = IF @ = 0 THEN h ELSE @, !.exchanging = FALSE,
              !.session_id = IF @ = 0 THEN h ELSE @]
NewKeys(s, h) ==
    [s EXCEPT !.newkeys = TRUE, !.secrets = h, !.exchanging = FALSE,
              !.session_id = IF @ = 0 THEN h ELSE @]

\* The reply, which may be another packet of its number, is good if it comes with a
\* key of the host key's method and that key's signature over this exchange's hash.
Verified(s, p) ==
    LET name == s.method["HOSTKEY"] IN
    /\ HostkeyInit(name, p.what.blob)
    /\ SigVerify(name, p.what.sig, p.what.blob, p.n)

\* What the exchange does with the packet it waited for. Keys change when the server's NEWKEYS is in.
KexTakes(s, p) ==
    \/ /\ kex.step = "kexinit"
       /\ session' = [s EXCEPT !.kexinit = p] /\ kex' = KexStep("agree", 0) /\ call' = call
    \/ kex.step = "group" /\ KexInit(s, Msg(KEX_DH_GEX_INIT, p.what.blob, 0))
    \/ /\ kex.step = "burn"
       /\ session' = [s EXCEPT !.burn = FALSE] /\ kex' = KexStep("reply", 0) /\ call' = call
    \/ /\ kex.step = "reply"
       /\ IF Verified(s, p) THEN KexSends(s, Msg(NEWKEYS, "", 0), KexStep("newkeys", p.n))
          ELSE KexFails(s)
    \/ kex.step = "newkeys" /\ AfterKex(NewKeys(s, kex.h))

\* Between two waits: the methods are agreed on, and the method's exchange begins.
KexAgrees ==
    /\ kex.step = "agree"
    /\ IF CanAgree(session)
       THEN session' = AgreeMethods(session) /\ kex' = KexStep("agreed", 0) /\ call' = call
       ELSE KexFails(AgreeMethods(session))
    /\ UNCHANGED <<uses, wire, server>>
ExchangeKeys ==
    /\ kex.step = "agreed"
    /\ IF session.method["KEX"] = Gex
       THEN KexSends(session, Msg(KEX_DH_GEX_REQUEST, "", 0), KexStep("group", 0))
       ELSE KexInit(session, Msg(KEXDH_INIT, "", 0))
    /\ UNCHANGED <<uses, wire, server>>

KexNeeds ==
    CASE kex.step = "kexinit" -> <<KEXINIT>>
      [] kex.step = "burn" -> AnyPacket
      [] kex.step = "group" -> <<KEX_DH_GEX_GROUP>>
      [] kex.step = "reply" ->
            IF session.method["KEX"] = Gex THEN <<KEX_DH_GEX_REPLY>> ELSE <<KEXDH_REPLY>>
      [] kex.step = "newkeys" -> <<NEWKEYS>>

----------------------------------------------------------------------------
(* The calls *)

Begin(fn) == fn \in uses /\ call = Idle /\ session.started = "yes"
CanAuthenticate(fn) ==
    Begin(fn) /\ ~session.authenticated /\ session.tries < Tries
\* A packet is written and its answer awaited; when it cannot be written the call
\* is over.
Sends(s, p, then) ==
    /\ session' = PacketWrite(s, p)
    /\ call' = IF CanWrite(s) THEN then ELSE Idle
    /\ kex' = kex
Returns(s) == session' = s /\ call' = Idle /\ kex' = kex

\* session_startup: our banner line, the server's, keys, the service.
Startup ==
    /\ call = Idle /\ session.started = "no"
    /\ Sends([session EXCEPT !.started = "failed"], Msg(BANNER_LINE, "", 0),
             [Call("startup", <<BANNER_LINE>>) EXCEPT !.asked = TRUE])
    /\ UNCHANGED <<uses, wire, server>>

Answers == <<USERAUTH_SUCCESS, USERAUTH_FAILURE>>
Request(s, p, then) ==
    /\ Sends([s EXCEPT !.tries = @ + 1], p, then)
    /\ UNCHANGED <<uses, wire, server>>
Asks(fn) == Msg(USERAUTH_REQUEST, fn, 0)
UserauthList ==
    CanAuthenticate("list") /\ Request(session, Asks("list"), Call("list", Answers))
UserauthPassword ==
    /\ CanAuthenticate("password")
    /\ Request(session, Asks("password"),
               Call("password", Append(Answers, USERAUTH_PASSWD_CHANGEREQ)))
UserauthKbdint ==
    /\ CanAuthenticate("kbdint")
    /\ Request(session, Asks("kbdint"), Call("kbdint", Append(Answers, USERAUTH_INFO_REQUEST)))

\* libssh2_file_read_publickey: the first line of the file names the key's method.
Unreadable == {"missing", "empty", "no newline", "no space"}
PublicKeyFiles == ToSet(HostkeyMethods) \cup {"other-method", "cut base64"} \cup Unreadable
Base64Decodes(file) == file # "cut base64"
ReadPublickey(file) == IF file \notin Unreadable /\ Base64Decodes(file) THEN file ELSE NoKey
\* libssh2_file_read_privatekey: the file may not open, or not with the passphrase.
ReadPrivatekey(key) ==
    IF key \in ToSet(HostkeyMethods) THEN {InitPEM(key, opens) : opens \in BOOLEAN}
    ELSE {NoKey}

\* A call that cannot read its public key returns at once.
UserauthPublickey(file) ==
    /\ CanAuthenticate("publickey")
    /\ ReadPublickey(file) # NoKey
    /\ Request(session, Asks("publickey"),
               [Call("publickey", Append(Answers, USERAUTH_PK_OK))
                   EXCEPT !.key = ReadPublickey(file)])
\* What is signed begins with the session's identifier.
Sign(s) == s.session_id
Signed(fn, sig) ==
    Msg(USERAUTH_REQUEST, IF sig.over = Garbled THEN "garbled" ELSE fn, sig.over)
UserauthHostbased(file) ==
    /\ CanAuthenticate("hostbased")
    /\ \E key \in ReadPrivatekey(ReadPublickey(file)) \ {NoKey} :
       \E sig \in Signv(key, Sign(session)) :
          Request(session, Signed("hostbased", sig), Call("hostbased", Answers))
\* Second half of a public key's request, when the server would take the key.
SendsSigned(s) ==
    \E key \in ReadPrivatekey(call.key) :
        IF key = NoKey THEN Returns(s)
        ELSE \E sig \in Signv(key, Sign(s)) :
                Sends(s, Signed("signed", sig), Call("publickey", Answers))
\* One response to each prompt of the server, none if there is none.
Respond(s, p) ==
    Sends(s, Msg(USERAUTH_INFO_RESPONSE, "", p.n), [call EXCEPT !.asked = FALSE])
\* A password that has expired is the application's to change, or not.
ChangesPassword(s) ==
    \/ Sends(s, Asks("password"), [call EXCEPT !.asked = FALSE])
    \/ Returns(s)

\* Seeded fault: what is not a failure is a success.
SucceedsUnlessFailed(p) == p.type # USERAUTH_FAILURE
Succeeded(p) == p.type = USERAUTH_SUCCESS
Answered(s, p) == Returns(IF Succeeded(p) THEN [s EXCEPT !.authenticated = TRUE] ELSE s)

AuthCalls == {"list", "password", "hostbased", "publickey", "kbdint"}
\* What a call does with the packet it waited for: type 60 is a different packet to
\* each of three calls.
CallTakes(s, p) ==
    \/ /\ call.fn = "service"
       /\ Returns([s EXCEPT !.started = IF p.what = "ssh-userauth" THEN "yes" ELSE @])
    \/ /\ call.fn \in AuthCalls
       /\ IF Succeeded(p) \/ p.type = USERAUTH_FAILURE THEN Answered(s, p)
          ELSE \/ call.fn = "password" /\ ChangesPassword(s)
               \/ call.fn = "publickey" /\ SendsSigned(s)
               \/ call.fn = "kbdint" /\ Respond(s, p)

SessionDisconnect ==
    /\ Begin("disconnect")
    /\ session' = [PacketWrite(session, Msg(DISCONNECT, "", 0)) EXCEPT !.started = "over"]
    /\ UNCHANGED <<uses, wire, call, kex, server>>

----------------------------------------------------------------------------
(* Waiting for packets *)

Waits == kex.step \notin {"agree", "agreed"} /\ (Exchanging \/ call.need # <<>>)
Asked == IF Exchanging THEN kex.asked ELSE call.asked
Needs == IF Exchanging THEN KexNeeds ELSE call.need
Takes(s, p) == IF Exchanging THEN KexTakes(s, p) ELSE CallTakes(s, p)
GivesUp(s) == IF Exchanging THEN KexFails(s) ELSE Returns(s)

Wanted(p) == Needs = AnyPacket \/ p.type \in ToSet(Needs)
\* packet_askv: type by type as they are listed; packet_burn lists them all, the
\* lowest number first.
Found(packets) ==
    LET Of(type) == SelectInSeq(packets, LAMBDA p : p.type = type)
        types == IF Needs # AnyPacket THEN Needs
                 ELSE SetToSortSeq({packets[i].type : i \in DOMAIN packets}, <)
        t == SelectInSeq(types, LAMBDA type : Of(type) # 0)
    IN  IF t = 0 THEN 0 ELSE Of(types[t])
\* Seeded fault: the packet stays in the brigade.
TakesACopy(s) == Takes(s, s.packets[Found(s.packets)])
TakesFound(s) ==
    \E i \in DOMAIN s.packets \cap {Found(s.packets)} :
        /\ Wanted(s.packets[i])
        /\ Takes([s EXCEPT !.packets = RemoveAt(@, i)], s.packets[i])

\* packet_require, packet_requirev and packet_burn look in the brigade first.
RequireQueued ==
    /\ Waits /\ ~Asked
    /\ IF Found(session.packets) # 0 THEN TakesFound(session)
       ELSE /\ session' = session
            /\ kex' = IF Exchanging THEN [kex EXCEPT !.asked = TRUE] ELSE kex
            /\ call' = IF Exchanging THEN call ELSE [call EXCEPT !.asked = TRUE]
    /\ UNCHANGED <<uses, wire, server>>

\* The MAC of what was written with other keys is wrong.
MacAgrees(s, p) == p.keys = InKeys(s)

CanRead == session.link # "reset" /\ session.socket_state = "CONNECTED" /\ wire # <<>>

\* packet_add: a KEXINIT that comes while no keys are exchanged starts a
\* re-exchange, here and now.
PacketAdd(s, p) ==
    CASE p.type = DISCONNECT -> [s EXCEPT !.socket_state = "DISCONNECTED"]
      [] p.type = BANNER_LINE -> s
      [] OTHER -> [s EXCEPT !.packets = Append(@, p)]
StartsReexchange(p) == p.type = KEXINIT /\ ~session.exchanging

\* packet_read while something is awaited; what was written with other keys than
\* ours is not read as a packet.
RequireRead ==
    /\ Waits /\ Asked /\ CanRead
    /\ LET p == Head(wire)
           s == PacketAdd(session, p)
       IN  IF ~MacAgrees(session, p) THEN GivesUp(session)
           ELSE IF StartsReexchange(p) THEN KexBegins(s, TRUE)
           ELSE IF p.type = BANNER_LINE THEN KexBegins(s, FALSE)
           ELSE IF p.type # DISCONNECT /\ Wanted(p) THEN TakesFound(s)
           ELSE session' = s /\ UNCHANGED <<call, kex>>
    /\ wire' = Tail(wire) /\ UNCHANGED <<uses, server>>

\* Other calls, those of channels, read what has arrived.
PacketRead ==
    /\ Begin("read")
    /\ call' = Call("read", <<>>) /\ UNCHANGED <<uses, session, wire, kex, server>>
ReadArrived ==
    /\ call.fn = "read" /\ ~Exchanging
    /\ IF ~CanRead THEN Returns(session) /\ UNCHANGED wire
       ELSE LET p == Head(wire)
                s == PacketAdd(session, p)
            IN  /\ IF ~MacAgrees(session, p) THEN Returns(session)
                   ELSE IF ~StartsReexchange(p) THEN Returns(s)
                   ELSE KexBegins(s, TRUE)
                /\ wire' = Tail(wire)
    /\ UNCHANGED <<uses, server>>

\* The read reports an error, or the socket is known to be gone. A recv of 0, when the
\* server closed the connection and all it sent is read, is no error: banner_receive
\* and blocking_read ask again.
\* Seeded fault: that the socket is gone is not looked at.
ReadFailsOnError ==
    /\ Waits /\ Asked /\ session.link = "reset"
    /\ GivesUp(session) /\ UNCHANGED <<uses, wire, server>>
ReadFails ==
    /\ Waits /\ Asked
    /\ session.link = "reset" \/ session.socket_state = "DISCONNECTED"
    /\ GivesUp(session) /\ UNCHANGED <<uses, wire, server>>
\* Nothing comes for 30 seconds, in which a read that reports EAGAIN is given up. Nothing
\* obliges it to: blocking_read makes the socket a blocking one first.
TimesOut ==
    /\ "timeout" \in uses
    /\ Waits /\ Asked
    /\ call.fn # "startup" \/ Exchanging  \* no limit on the banner line
    /\ session.link = "up" /\ session.socket_state = "CONNECTED" /\ wire = <<>>
    /\ GivesUp(session) /\ UNCHANGED <<uses, wire, server>>

----------------------------------------------------------------------------
(* The server *)

Stamped(packets, keys) == [i \in DOMAIN packets |-> Under(packets[i], keys)]
Writes(srv, packets) ==
    wire' = wire \o Stamped(packets, srv.out)
Silent == wire' = wire
\* Between its KEXINIT and its NEWKEYS the server sends nothing else.
Answer(srv, p) ==
    IF srv.kex \in {"none", "newkeys"} THEN server' = srv /\ Writes(srv, <<p>>)
    ELSE server' = [srv EXCEPT !.held = Append(@, p)] /\ Silent

\* The client's first method that the server has, kind by kind.
ServersChoice(offered) ==
    [k \in Kinds |->
        LET i == SelectInSeq(offered[k], LAMBDA m : m \in ToSet(server.lists[k]))
        IN  IF i = 0 THEN "" ELSE offered[k][i]]
ServerLeaves ==
    server' = [server EXCEPT !.gone = TRUE] /\ Writes(server, <<Msg(DISCONNECT, "", 0)>>)

\* The server signs the hash, which has in it the group that it knows of, and turns to
\* its new keys; then come the answers it held.
ServersId == IF server.id = 0 THEN server.n ELSE server.id
ServerReplies(type, over) ==
    LET m == server.method
        key == m["HOSTKEY"]
        sig == Signature(key, over, IF key = "ssh-dss" THEN 40 ELSE 256)
        out == Keys(m, In, server.n, ServersId, server.n)
        signed == <<Msg(type, [blob |-> key, sig |-> sig], server.n), Msg(NEWKEYS, "", server.n)>>
    IN  /\ server' = [server EXCEPT !.kex = "newkeys", !.out = out, !.held = <<>>]
        /\ wire' = wire \o Stamped(signed, server.out) \o Stamped(server.held, out)

GroupSent == server.guess /\ server.method["KEX"] = Gex
Succeeds ==
    Answer([server EXCEPT !.authenticated = TRUE], Msg(USERAUTH_SUCCESS, "", 0))
FailsIt == Answer(server, Msg(USERAUTH_FAILURE, "", 0))
Challenges(what) ==
    /\ server.challenges < Tries
    /\ \E n \in IF what = "kbdint" THEN 0 .. 2 ELSE {0} :
          Answer([server EXCEPT !.challenges = @ + 1, !.prompts = n],
                 Msg(USERAUTH_PK_OK, what, n))
ServerAuthenticates(p) ==
    IF server.authenticated THEN server' = server /\ Silent
    ELSE CASE p.what \in {"hostbased", "signed"} ->
                 (p.n = server.id /\ Succeeds) \/ FailsIt
           [] p.what = "publickey" -> Challenges("publickey") \/ FailsIt
           [] p.what = "list" -> Succeeds \/ FailsIt
           [] p.what = "garbled" -> FailsIt
           [] OTHER -> Succeeds \/ FailsIt \/ Challenges(p.what)

ServerAgrees(choice) ==
    IF "" \in {choice[k] : k \in Kinds} THEN ServerLeaves
    ELSE server' = [server EXCEPT !.kex = "init", !.method = choice] /\ Silent
\* The client's NEWKEYS: what it writes from now on is under the new keys.
ServerTurns ==
    /\ server' = [server EXCEPT !.kex = "none", !.id = IF @ = 0 THEN server.n ELSE @,
                                !.in = Keys(server.method, Out, server.n, ServersId, server.n)]
    /\ Silent
\* What the server does with the next packet of ours.
ServerHandles(p) ==
    IF p.keys # server.in THEN ServerLeaves
    ELSE \/ p.type = BANNER_LINE /\ server' = server /\ Silent
         \/ p.type = DISCONNECT /\ server' = [server EXCEPT !.gone = TRUE] /\ Silent
         \/ p.type = KEXINIT /\ ServerAgrees(ServersChoice(p.what))
         \/ p.type = KEXDH_INIT /\ ServerReplies(KEXDH_REPLY, server.n)
         \/ /\ p.type = KEX_DH_GEX_REQUEST /\ server' = server
            /\ IF GroupSent THEN Silent
               ELSE Writes(server, <<Msg(KEX_DH_GEX_GROUP, [blob |-> "group"], server.n)>>)
         \/ /\ p.type = KEX_DH_GEX_INIT
            /\ ServerReplies(KEX_DH_GEX_REPLY,
                             IF (p.what = "guess") = GroupSent THEN server.n ELSE Garbled)
         \/ p.type = NEWKEYS /\ ServerTurns
         \/ /\ p.type = SERVICE_REQUEST
            /\ \E name \in {"ssh-userauth", "other"} :
                  Answer(server, Msg(SERVICE_ACCEPT, name, 0))
         \/ p.type = USERAUTH_REQUEST /\ ServerAuthenticates(p)
         \/ /\ p.type = USERAUTH_INFO_RESPONSE
            /\ IF p.n = server.prompts THEN ServerAuthenticates(Asks("kbdint")) ELSE FailsIt
ServerReceives ==
    /\ session.out # <<>> /\ session.link = "up" /\ ~server.gone
    /\ ServerHandles(Head(session.out))
    /\ session' = [session EXCEPT !.out = Tail(@)] /\ UNCHANGED <<uses, call, kex>>

Free == server.kex = "none" /\ ~server.gone /\ session.link = "up"
ServerRekeys ==
    /\ "rekey" \in uses /\ Free /\ server.n < Exchanges
    /\ server' = [server EXCEPT !.kex = "sent", !.n = @ + 1]
    /\ wire' = wire \o Hello(server.out, server.lists, server.guess, server.n + 1)
    /\ UNCHANGED <<uses, session, call, kex>>
\* A message for the user; the library leaves it in the brigade.
ServerBanner ==
    /\ "banner" \in uses /\ Free /\ server.id # 0 /\ ~server.authenticated
    /\ ~server.greeted
    /\ server' = [server EXCEPT !.greeted = TRUE]
    /\ Writes(server, <<Msg(USERAUTH_BANNER, "", 0)>>)
    /\ UNCHANGED <<uses, session, call, kex>>
ServerDisconnects ==
    /\ "reset" \in uses /\ Free
    /\ ServerLeaves /\ UNCHANGED <<uses, session, call, kex>>
\* The server closes the connection; or it breaks, and every read and write fails.
Breaks ==
    /\ \E end \in {"closed", "reset"} \cap uses :
          /\ session.link = "up" \/ (session.link = "closed" /\ end = "reset")
          /\ session' = [session EXCEPT !.link = end]
    /\ UNCHANGED <<uses, wire, call, kex, server>>

----------------------------------------------------------------------------
Begins ==
    \/ \E pref \in Prefs : MethodPref(pref.kind, pref.list)
    \/ \E file \in PublicKeyFiles : UserauthPublickey(file) \/ UserauthHostbased(file)
    \/ Startup \/ UserauthList \/ UserauthPassword \/ UserauthKbdint
    \/ PacketRead \/ SessionDisconnect
Continues ==
    \/ KexAgrees \/ ExchangeKeys
    \/ RequireQueued \/ RequireRead \/ ReadArrived \/ ReadFails
ServerActs == ServerRekeys \/ ServerBanner \/ ServerDisconnects \/ Breaks

Next == Begins \/ Continues \/ TimesOut \/ ServerReceives \/ ServerActs

Spec == Init /\ [][Next]_vars /\ WF_vars(Continues) /\ WF_vars(ServerReceives)

----------------------------------------------------------------------------
(* Properties *)

\* What the application can ask a session: its methods, and whether it is let in.
SessionMethods(s, kind) == s.method[kind]
UserauthAuthenticated(s) == s.authenticated

\* A re-exchange failed: "let's just hope we didn't send NEWKEYS yet" (packet.c:618).
Hopes == session.exchanging /\ ~Exchanging

\* The two sides change keys at the same packet, in each direction, whatever else
\* is on the way when the server asks for new keys: the next packet on the way is
\* written with the keys its reader has. Between two exchanges the methods that the
\* session reports are those the server works with.
KeysInStep ==
    ~Hopes /\ session.link = "up" /\ ~server.gone =>
        /\ wire # <<>> => Head(wire).keys = InKeys(session)
        /\ session.out # <<>> => Head(session.out).keys = server.in
        /\ session.newkeys /\ ~Exchanging =>
              \A k \in Kinds : SessionMethods(session, k) = server.method[k]

\* Only who the server let in is authenticated.
AuthenticatedBoth == UserauthAuthenticated(session) => server.authenticated

\* Every signature is over the identifier the server knows the session by, the
\* hash of its first exchange, however many there have been.
SignsTheSession ==
    \A i \in DOMAIN session.out :
        LET p == session.out[i] IN
        p.type = USERAUTH_REQUEST /\ p.what \in {"hostbased", "signed"} => p.n = server.id

\* What a request is answered with goes to the call that made it: as long as none
\* has timed out and no re-exchange has failed, one request or answer is on the way
\* while a call waits for it, and none when no call does.
IsAuth(p) == p.type >= USERAUTH_REQUEST /\ p.type # USERAUTH_BANNER
AnswersAreDue ==
    LET packets == session.out \o server.held \o wire \o session.packets
    IN  "timeout" \notin uses /\ ~Hopes /\ session.link = "up"
            /\ session.socket_state = "CONNECTED" /\ ~server.gone =>
            Cardinality({i \in DOMAIN packets : IsAuth(packets[i])})
                = IF call.fn \in AuthCalls THEN 1 ELSE 0

\* The call is in a read that will never end: the server closed the connection, and
\* all it sent has been read.
Spins ==
    /\ Waits /\ Asked
    /\ session.link = "closed" /\ session.socket_state = "CONNECTED" /\ wire = <<>>

\* Every call returns, however often keys are exchanged in it, when the server says that
\* it disconnects and when the socket reports an error. Two things leave a call
\* waiting: a connection that the server closes without a word, and a re-exchange
\* that failed, after which the server awaits the rest of it.
CallsReturn == call # Idle ~> call = Idle \/ Spins \/ Hopes
=============================================================================
