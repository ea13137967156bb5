--------------------------- MODULE SSHSessionProofs ---------------------------
(***************************************************************************)
(* Of every list of methods, on either side, every server that SSHSession  *)
(* allows for and every bound: only who the server let in is logged in     *)
(* (AuthenticatedBoth), what is signed is the identifier the server knows  *)
(* the session by (SignsTheSession), and, where keys are exchanged once or *)
(* nothing is compressed, the two sides change keys at the same packet     *)
(* (KeysInStep).                                                           *)
(*                                                                         *)
(* The first two need nothing about the order of packets.  What stands for *)
(* it is the keys they were written with: who writes with keys, or is      *)
(* understood when it does, has been through the first exchange.           *)
(*                                                                         *)
(* The third is about their order.  KeysInv says, for every step of the    *)
(* client's exchange and of the server's, which packets may be on their    *)
(* way in either direction and in the brigade, and behind which others.    *)
(* SSHAnswersProofs rests on it.                                           *)
(***************************************************************************)
EXTENDS SSHSession, WellFoundedInduction, TLAPS

-----------------------------------------------------------------------------
(* Sequences of packets *)

\* Packets are of many shapes: a sequence of them is one over some set.
IsSeq(s) == \E S : s \in Seq(S)

\* One packet, two, and none.
LEMMA SeqShort ==
    /\ IsSeq(<<>>) /\ ToSet(<<>>) = {}
    /\ \A x : IsSeq(<<x>>) /\ ToSet(<<x>>) \subseteq {x}
    /\ \A x, y : IsSeq(<<x, y>>) /\ ToSet(<<x, y>>) \subseteq {x, y}
<1>1. IsSeq(<<>>) /\ ToSet(<<>>) = {}
    <2>1. <<>> \in Seq({}) OBVIOUS
    <2> QED BY <2>1 DEF IsSeq, ToSet
<1>2. ASSUME NEW x PROVE IsSeq(<<x>>) /\ ToSet(<<x>>) \subseteq {x}
    <2>1. <<x>> \in Seq({x}) /\ DOMAIN <<x>> = 1..1 OBVIOUS
    <2>2. \A i \in DOMAIN <<x>> : <<x>>[i] = x BY <2>1
    <2>3. ToSet(<<x>>) \subseteq {x} BY <2>2 DEF ToSet
    <2> QED BY <2>1, <2>3 DEF IsSeq
<1>3. ASSUME NEW x, NEW y PROVE IsSeq(<<x, y>>) /\ ToSet(<<x, y>>) \subseteq {x, y}
    <2>1. <<x, y>> \in Seq({x, y}) /\ DOMAIN <<x, y>> = 1..2 OBVIOUS
    <2>2. \A i \in DOMAIN <<x, y>> : <<x, y>>[i] \in {x, y} BY <2>1
    <2>3. ToSet(<<x, y>>) \subseteq {x, y} BY <2>2 DEF ToSet
    <2> QED BY <2>1, <2>3 DEF IsSeq
<1> QED BY <1>1, <1>2, <1>3

\* A packet more at the end.
LEMMA SeqAppend ==
    ASSUME NEW s, IsSeq(s), NEW x
    PROVE  IsSeq(Append(s, x)) /\ ToSet(Append(s, x)) \subseteq ToSet(s) \cup {x}
<1>1. PICK S : s \in Seq(S) BY DEF IsSeq
<1> DEFINE T == S \cup {x}
<1>2. s \in Seq(T) /\ x \in T BY <1>1
<1> HIDE DEF T
<1>3. Append(s, x) \in Seq(T) BY <1>2
<1>4. ToSet(Append(s, x)) \subseteq ToSet(s) \cup {x} BY <1>2 DEF ToSet
<1> QED BY <1>3, <1>4 DEF IsSeq

\* Packets behind others.
LEMMA SeqConcat ==
    ASSUME NEW s, IsSeq(s), NEW t, IsSeq(t)
    PROVE  IsSeq(s \o t) /\ ToSet(s \o t) \subseteq ToSet(s) \cup ToSet(t)
<1>1. PICK S : s \in Seq(S) BY DEF IsSeq
<1>2. PICK T : t \in Seq(T) BY DEF IsSeq
<1> DEFINE U == S \cup T
<1>3. s \in Seq(U) /\ t \in Seq(U) BY <1>1, <1>2
<1> HIDE DEF U
<1>4. s \o t \in Seq(U) BY <1>3
<1>5. ToSet(s \o t) \subseteq ToSet(s) \cup ToSet(t) BY <1>3 DEF ToSet
<1> QED BY <1>4, <1>5 DEF IsSeq

\* The first packet is taken off.
LEMMA SeqTail ==
    ASSUME NEW s, IsSeq(s), s # <<>>
    PROVE  /\ IsSeq(Tail(s)) /\ ToSet(Tail(s)) \subseteq ToSet(s)
           /\ Head(s) \in ToSet(s)
<1>1. PICK S : s \in Seq(S) BY DEF IsSeq
<1>2. Tail(s) \in Seq(S) BY <1>1
<1>3. ToSet(Tail(s)) \subseteq ToSet(s) BY <1>1 DEF ToSet
<1>4. Head(s) \in ToSet(s) BY <1>1 DEF ToSet
<1> QED BY <1>2, <1>3, <1>4 DEF IsSeq

\* A packet is taken from anywhere.
LEMMA SeqRemove ==
    ASSUME NEW s, IsSeq(s), NEW i \in DOMAIN s
    PROVE  /\ IsSeq(RemoveAt(s, i)) /\ ToSet(RemoveAt(s, i)) \subseteq ToSet(s)
           /\ s[i] \in ToSet(s)
<1>1. PICK S : s \in Seq(S) BY DEF IsSeq
<1> DEFINE a == SubSeq(s, 1, i - 1)
           b == SubSeq(s, i + 1, Len(s))
<1>2. i \in 1..Len(s) /\ Len(s) \in Nat BY <1>1
<1>3. RemoveAt(s, i) = a \o b BY DEF RemoveAt
<1>4. a \in Seq(S) /\ ToSet(a) \subseteq ToSet(s)
    <2>1. a \in Seq(S) BY <1>1, <1>2
    <2>2. Len(a) = i - 1 /\ \A j \in 1..(i - 1) : a[j] = s[j] BY <1>1, <1>2
    <2> HIDE DEF a
    <2> QED BY <1>1, <1>2, <2>1, <2>2 DEF ToSet
<1>5. b \in Seq(S) /\ ToSet(b) \subseteq ToSet(s)
    <2>1. b \in Seq(S) BY <1>1, <1>2
    <2>2. Len(b) = Len(s) - i BY <1>1, <1>2
    <2>3. \A j \in 1..(Len(s) - i) : b[j] = s[(i + 1) + j - 1] BY <1>1, <1>2
    <2>4. ASSUME NEW j \in 1..(Len(s) - i) PROVE b[j] \in ToSet(s)
        <3>1. i + j \in DOMAIN s /\ (i + 1) + j - 1 = i + j BY <1>1, <1>2
        <3>2. b[j] = s[i + j] BY <2>3, <3>1
        <3> HIDE DEF b
        <3> QED BY <3>1, <3>2 DEF ToSet
    <2>5. DOMAIN b = 1..(Len(s) - i) BY <2>1, <2>2
    <2> QED BY <2>1, <2>4, <2>5 DEF ToSet
<1> HIDE DEF a, b
<1>6. IsSeq(a) /\ IsSeq(b) BY <1>4, <1>5 DEF IsSeq
<1>7. IsSeq(a \o b) /\ ToSet(a \o b) \subseteq ToSet(a) \cup ToSet(b)
    BY <1>6, SeqConcat
<1>8. s[i] \in ToSet(s) BY <1>1 DEF ToSet
<1> QED BY <1>3, <1>4, <1>5, <1>7, <1>8

\* Packets are written under keys.
LEMMA SeqStamped ==
    ASSUME NEW s, IsSeq(s), NEW keys
    PROVE  /\ IsSeq(Stamped(s, keys))
           /\ ToSet(Stamped(s, keys)) \subseteq {Under(p, keys) : p \in ToSet(s)}
<1>1. PICK S : s \in Seq(S) BY DEF IsSeq
<1> DEFINE T == {Under(p, keys) : p \in S}
<1>2. Stamped(s, keys) \in Seq(T)
    <2>1. \A i \in 1..Len(s) : Under(s[i], keys) \in T BY <1>1
    <2> HIDE DEF T
    <2> QED BY <1>1, <2>1 DEF Stamped
<1>3. ToSet(Stamped(s, keys)) \subseteq {Under(p, keys) : p \in ToSet(s)}
    BY <1>1 DEF ToSet, Stamped
<1> QED BY <1>2, <1>3 DEF IsSeq

-----------------------------------------------------------------------------
(* The inductive invariant *)

SessionFields ==
    {"link", "socket_state", "started", "prefs", "method", "secrets", "stream", "newkeys",
     "exchanging", "kexinit", "burn", "session_id", "authenticated", "packets", "tries",
     "out"}
ServerFields ==
    {"lists", "guess", "kex", "n", "method", "in", "out", "id", "authenticated",
     "challenges", "greeted", "held", "gone", "prompts"}
IsPacket(p) == DOMAIN p = {"type", "what", "n", "guess", "keys"}

\* A key exchange's first packet from the server carries no key.
Unkeyed == {"guess", "group"}
Replies == {KEXDH_REPLY, KEX_DH_GEX_REPLY}

\* A packet of the server, and the identifier of the session when it arrives: the
\* service is granted, and an exchange but the first answered, to who has one; a
\* success is only told to who was let in.
Incoming(p, id, srv) ==
    /\ IsPacket(p)
    /\ p.type = SERVICE_ACCEPT => id = 1 /\ srv.id = 1
    /\ p.type = USERAUTH_SUCCESS => srv.authenticated
    /\ p.type \in Replies /\ p.n # 1 => p.what.blob \in Unkeyed \/ id = 1

\* A packet of ours: who writes with keys has an identifier; the service is asked for
\* with keys, and signatures are over the identifier of both sides.
Outgoing(p, id, srv) ==
    /\ IsPacket(p)
    /\ p.keys # Plain => id = 1
    /\ p.type = SERVICE_REQUEST => p.keys # Plain
    /\ p.type = USERAUTH_REQUEST /\ p.what \in {"hostbased", "signed"}
         => p.n = 1 /\ srv.id = 1

SessionOk(s, srv) ==
    /\ DOMAIN s = SessionFields /\ IsSeq(s.packets) /\ IsSeq(s.out)
    /\ DOMAIN s.method = Kinds /\ s.method["HOSTKEY"] \notin Unkeyed
    /\ s.session_id \in {0, 1}
    /\ s.newkeys => s.session_id = 1
    /\ s.started = "yes" => s.session_id = 1 /\ srv.id = 1
    /\ s.authenticated => srv.authenticated
    /\ \A p \in ToSet(s.packets) : Incoming(p, s.session_id, srv)
    /\ \A p \in ToSet(s.out) : Outgoing(p, s.session_id, srv)

\* The first exchange is the server's first.
KexOk(k, s) ==
    /\ DOMAIN k = {"step", "asked", "h"}
    /\ k.step = "newkeys" => k.h = 1 \/ s.session_id = 1

CallOk(c, s) ==
    /\ DOMAIN c = {"fn", "need", "asked", "key"}
    /\ c.fn \in AuthCalls => s.started = "yes"
    /\ c.fn = "service" => c.need = <<SERVICE_ACCEPT>>

WireOk(w, s, srv) ==
    IsSeq(w) /\ \A p \in ToSet(w) : Incoming(p, s.session_id, srv)

\* The server knows the session by its first exchange, and has keys from then on.
ServerOk(srv, s) ==
    /\ DOMAIN srv = ServerFields /\ IsSeq(srv.held)
    /\ srv.id \in {0, 1}
    /\ srv.id = 0 => srv.n = 1 /\ srv.kex # "none" /\ srv.in = Plain
    /\ srv.id = 1 => srv.in # Plain
    /\ \A p \in ToSet(srv.held) : Incoming(p, s.session_id, srv)

SessionInv ==
    /\ SessionOk(session, server) /\ WireOk(wire, session, server)
    /\ KexOk(kex, session) /\ CallOk(call, session) /\ ServerOk(server, session)

-----------------------------------------------------------------------------
(* What is written *)

\* Packets are told apart by their numbers.
PacketTypes ==
    /\ BANNER_LINE = 0 /\ DISCONNECT = 1 /\ SERVICE_REQUEST = 5 /\ SERVICE_ACCEPT = 6
    /\ KEXINIT = 20 /\ NEWKEYS = 21 /\ KEXDH_INIT = 30 /\ KEXDH_REPLY = 31
    /\ KEX_DH_GEX_GROUP = 31 /\ KEX_DH_GEX_INIT = 32 /\ KEX_DH_GEX_REPLY = 33
    /\ KEX_DH_GEX_REQUEST = 34 /\ USERAUTH_REQUEST = 50 /\ USERAUTH_FAILURE = 51
    /\ USERAUTH_SUCCESS = 52 /\ USERAUTH_BANNER = 53 /\ USERAUTH_PK_OK = 60
    /\ USERAUTH_PASSWD_CHANGEREQ = 60 /\ USERAUTH_INFO_REQUEST = 60
    /\ USERAUTH_INFO_RESPONSE = 61

\* The numbers of the packets, which differ.
LEMMA Types == PacketTypes
BY DEF PacketTypes, BANNER_LINE, DISCONNECT, SERVICE_REQUEST, SERVICE_ACCEPT, KEXINIT,
   NEWKEYS, KEXDH_INIT, KEXDH_REPLY, KEX_DH_GEX_GROUP, KEX_DH_GEX_INIT, KEX_DH_GEX_REPLY,
   KEX_DH_GEX_REQUEST, USERAUTH_REQUEST, USERAUTH_FAILURE, USERAUTH_SUCCESS,
   USERAUTH_BANNER, USERAUTH_PK_OK, USERAUTH_PASSWD_CHANGEREQ, USERAUTH_INFO_REQUEST,
   USERAUTH_INFO_RESPONSE

\* A packet of ours or of the server's.
LEMMA Written ==
    ASSUME NEW type, NEW what, NEW n
    PROVE  /\ IsPacket(Msg(type, what, n)) /\ Msg(type, what, n).type = type
           /\ Msg(type, what, n).what = what /\ Msg(type, what, n).n = n
BY DEF Msg, IsPacket

\* Writing changes nothing but the keys.
LEMMA Rewritten ==
    ASSUME NEW p, IsPacket(p), NEW keys
    PROVE  LET q == Under(p, keys)
           IN  /\ IsPacket(q) /\ q.type = p.type /\ q.what = p.what /\ q.n = p.n
               /\ q.keys = keys
BY DEF Under, IsPacket

\* A cipher in use is not the lack of one.
LEMMA KeysAreKeys ==
    ASSUME NEW method, NEW way, NEW h, NEW id, NEW begun
    PROVE  Keys(method, way, h, id, begun) # Plain
<1> DEFINE c == CryptInit(method[way.crypt], h, id, way.letters)
<1>1. "iv" \in DOMAIN c BY DEF CryptInit
<1>2. "iv" \notin DOMAIN [algo |-> "none"] OBVIOUS
<1>3. c # [algo |-> "none"] BY <1>1, <1>2
<1> HIDE DEF c
<1>4. Plain.crypt = [algo |-> "none"] BY DEF Plain
<1>5. Keys(method, way, h, id, begun).crypt = c BY DEF Keys, c
<1> QED BY <1>3, <1>4, <1>5

\* What is written with keys is written after the first exchange.
LEMMA OutKeysOk ==
    ASSUME NEW s
    PROVE  OutKeys(s) # Plain <=> s.newkeys
BY KeysAreKeys DEF OutKeys

-----------------------------------------------------------------------------
(* What the client does *)

\* Before and after a step of the client: s is the session as it is when the packet
\* that was awaited has been taken from the brigade.
Before(s) == SessionOk(s, server) /\ KexOk(kex, s) /\ CallOk(call, s)
After(s) ==
    /\ SessionOk(session', server) /\ KexOk(kex', session') /\ CallOk(call', session')
    /\ s.session_id = 1 => session'.session_id = 1

\* Writing, or failing to, is all that PacketWrite does.
LEMMA PacketWriteOk ==
    ASSUME NEW s, SessionOk(s, server), NEW p, IsPacket(p),
           p.type = SERVICE_REQUEST => s.newkeys,
           p.type = USERAUTH_REQUEST /\ p.what \in {"hostbased", "signed"}
             => p.n = 1 /\ server.id = 1
    PROVE  /\ SessionOk(PacketWrite(s, p), server)
           /\ PacketWrite(s, p).session_id = s.session_id
           /\ PacketWrite(s, p).started = s.started
<1> DEFINE q == Under(p, OutKeys(s))
           t == [s EXCEPT !.out = Append(@, q)]
<1>1. CASE ~CanWrite(s) BY <1>1 DEF PacketWrite
<1>2. CASE CanWrite(s)
    <2>1. PacketWrite(s, p) = t BY <1>2 DEF PacketWrite
    <2>2. Outgoing(q, s.session_id, server)
        BY Rewritten, OutKeysOk, Types
        DEF Outgoing, SessionOk, PacketTypes
    <2>3. IsSeq(s.out) BY DEF SessionOk
    <2>4. IsSeq(Append(s.out, q)) /\ ToSet(Append(s.out, q)) \subseteq ToSet(s.out) \cup {q}
        BY <2>3, SeqAppend
    <2> HIDE DEF q
    <2>5. t.out = Append(s.out, q) /\ DOMAIN t = DOMAIN s
        BY DEF SessionOk, SessionFields
    <2>6. \A f \in SessionFields \ {"out"} : t[f] = s[f] BY DEF SessionOk
    <2>7. SessionOk(t, server)
        BY <2>2, <2>4, <2>5, <2>6 DEF SessionOk, SessionFields
    <2>8. t.session_id = s.session_id /\ t.started = s.started
        BY <2>6 DEF SessionFields
    <2> QED BY <2>1, <2>7, <2>8
<1> QED BY <1>1, <1>2

\* An exchange that fails leaves the session as it is.
LEMMA KexFailsOk ==
    ASSUME NEW s, Before(s), KexFails(s)
    PROVE  After(s)
BY DEF KexFails, Before, After, NoKex, KexStep, KexOk, CallOk, Idle, Call, AuthCalls

\* A call that returns, with a session that is as good as before.
LEMMA ReturnsOk ==
    ASSUME NEW s, NEW t, Before(s), Returns(t), SessionOk(t, server),
           t.session_id = s.session_id
    PROVE  After(s)
BY DEF Returns, Before, After, KexOk, CallOk, Idle, Call, AuthCalls

\* A packet is written and the call goes on to another wait.
LEMMA SendsOk ==
    ASSUME NEW s, NEW t, NEW p, NEW then, Before(s), Sends(t, p, then),
           SessionOk(t, server), t.session_id = s.session_id, IsPacket(p),
           p.type # SERVICE_REQUEST,
           p.type = USERAUTH_REQUEST /\ p.what \in {"hostbased", "signed"}
             => p.n = 1 /\ server.id = 1,
           CallOk(then, t)
    PROVE  After(s)
<1>1. /\ session' = PacketWrite(t, p) /\ SessionOk(session', server)
      /\ session'.session_id = t.session_id /\ session'.started = t.started
    BY PacketWriteOk DEF Sends
<1>2. CallOk(call', session')
    BY <1>1 DEF Sends, CallOk, Idle, Call, AuthCalls
<1>3. KexOk(kex', session') BY <1>1 DEF Sends, Before, KexOk
<1> QED BY <1>1, <1>2, <1>3 DEF After

\* The same of an exchange.
LEMMA KexSendsOk ==
    ASSUME NEW s, NEW p, NEW k, Before(s), KexSends(s, p, k), IsPacket(p),
           p.type \notin {SERVICE_REQUEST, USERAUTH_REQUEST}, KexOk(k, s)
    PROVE  After(s)
<1>1. CASE CanWrite(s)
    <2>1. /\ session' = PacketWrite(s, p) /\ SessionOk(session', server)
          /\ session'.session_id = s.session_id /\ session'.started = s.started
        BY <1>1, PacketWriteOk DEF KexSends, Before
    <2> QED BY <1>1, <2>1 DEF KexSends, After, Before, KexOk, CallOk
<1>2. CASE ~CanWrite(s) BY <1>2, KexFailsOk DEF KexSends
<1> QED BY <1>1, <1>2

\* Method and host key are kinds of methods.
LEMMA KindsKnown == {"KEX", "HOSTKEY"} \subseteq Kinds
<1>1. DOMAIN KindsInOrder = 1..8 /\ KindsInOrder[1] = "KEX" /\ KindsInOrder[2] = "HOSTKEY"
    BY DEF KindsInOrder
<1> QED BY <1>1 DEF Kinds, ToSet

\* KEXINIT is written, and method and host key forgotten.
LEMMA KexBeginsOk ==
    ASSUME NEW s, NEW re \in BOOLEAN, Before(s), KexBegins(s, re)
    PROVE  After(s)
<1> DEFINE t == [s EXCEPT !.exchanging = TRUE,
                          !.method["KEX"] = IF re THEN "" ELSE @,
                          !.method["HOSTKEY"] = IF re THEN "" ELSE @]
           p == Msg(KEXINIT, [k \in Kinds |-> Offer(t, k)], 0)
<1>1. /\ DOMAIN t = SessionFields
      /\ \A f \in SessionFields \ {"exchanging", "method"} : t[f] = s[f]
    BY DEF Before, SessionOk, SessionFields
<1>2. DOMAIN t.method = Kinds /\ t.method["HOSTKEY"] \notin Unkeyed
    BY KindsKnown DEF Before, SessionOk, SessionFields, Unkeyed
<1>3. /\ IF CanWrite(t)
         THEN session' = PacketWrite(t, p) /\ kex' = KexStep("kexinit", 0) /\ call' = call
         ELSE KexFails(t)
    BY DEF KexBegins
<1>4. IsPacket(p) /\ p.type = KEXINIT BY Written
<1> HIDE DEF t, p
<1>5. Before(t) /\ t.session_id = s.session_id /\ t.started = s.started
    BY <1>1, <1>2 DEF Before, SessionOk, SessionFields, KexOk, CallOk
<1>6. CASE CanWrite(t)
    <2>1. /\ SessionOk(session', server) /\ session'.session_id = t.session_id
          /\ session'.started = t.started
        BY <1>3, <1>4, <1>5, <1>6, PacketWriteOk, Types DEF Before, PacketTypes
    <2> QED BY <1>3, <1>5, <1>6, <2>1 DEF After, Before, KexOk, CallOk, KexStep
<1>7. CASE ~CanWrite(t) BY <1>3, <1>5, <1>7, KexFailsOk DEF After
<1> QED BY <1>6, <1>7

\* Our value for the exchange is written.
LEMMA KexInitOk ==
    ASSUME NEW s, NEW p, Before(s), KexInit(s, p), IsPacket(p),
           p.type \notin {SERVICE_REQUEST, USERAUTH_REQUEST}
    PROVE  After(s)
<1> DEFINE k == KexStep(IF s.burn THEN "burn" ELSE "reply", 0)
<1>1. KexSends(s, p, k) BY DEF KexInit
<1>2. KexOk(k, s) BY DEF KexOk, KexStep
<1> QED BY <1>1, <1>2, KexSendsOk

\* The exchange is over, or the call goes on.
LEMMA AfterKexOk ==
    ASSUME NEW s, Before(s), AfterKex(s), s.newkeys
    PROVE  After(s)
<1> DEFINE p == Msg(SERVICE_REQUEST, "", 0)
<1>1. KexOk(kex', session')
    BY DEF AfterKex, KexOk, NoKex, KexStep
<1>2. CASE call.fn = "startup"
    <2>1. session' = PacketWrite(s, p) BY <1>2 DEF AfterKex
    <2>2. IsPacket(p) /\ p.type = SERVICE_REQUEST BY DEF Msg, IsPacket
    <2> HIDE DEF p
    <2>3. SessionOk(session', server) /\ session'.session_id = s.session_id
        BY <2>1, <2>2, PacketWriteOk, Types DEF Before, PacketTypes
    <2>4. call' \in {Call("service", <<SERVICE_ACCEPT>>), Idle} BY <1>2 DEF AfterKex
    <2>5. CallOk(call', session') BY <2>4 DEF CallOk, Call, Idle, AuthCalls
    <2> QED BY <1>1, <2>3, <2>5 DEF After
<1>3. CASE call.fn # "startup"
    <2>1. session' = s /\ call' \in {call, Idle}
        BY <1>3 DEF AfterKex
    <2>2. CallOk(call', session')
        BY <2>1 DEF Before, CallOk, Idle, Call, AuthCalls
    <2> QED BY <1>1, <2>1, <2>2 DEF After, Before
<1> QED BY <1>2, <1>3

\* The first exchange names the session, and is the server's first.
LEMMA NewKeysOk ==
    ASSUME NEW s, Before(s), kex.step = "newkeys"
    PROVE  LET t == NewKeys(s, kex.h)
           IN  /\ Before(t) /\ t.newkeys
               /\ s.session_id = 1 => t.session_id = 1
<1> DEFINE t == NewKeys(s, kex.h)
<1>1. s.session_id \in {0, 1} /\ (s.session_id = 1 \/ kex.h = 1)
    BY DEF Before, SessionOk, KexOk
<1>2. t = [s EXCEPT !.newkeys = TRUE, !.secrets = kex.h, !.exchanging = FALSE,
                    !.session_id = IF s.session_id = 0 THEN kex.h ELSE s.session_id]
    BY DEF NewKeys
<1>3. DOMAIN s = SessionFields BY DEF Before, SessionOk
<1> HIDE DEF t
<1>4. DOMAIN t = SessionFields /\ t.session_id = 1
    BY <1>1, <1>2, <1>3 DEF SessionFields
<1>5. t.newkeys BY <1>2, <1>3 DEF SessionFields
<1>6. \A f \in SessionFields \ {"newkeys", "secrets", "exchanging", "session_id"} :
          t[f] = s[f]
    BY <1>2, <1>3
<1>7. SessionOk(t, server)
    BY <1>4, <1>6 DEF Before, SessionOk, SessionFields, Incoming, Outgoing
<1>8. KexOk(kex, t) /\ CallOk(call, t)
    BY <1>4, <1>6 DEF Before, SessionFields, KexOk, CallOk
<1> QED BY <1>4, <1>5, <1>7, <1>8 DEF Before, t

\* A reply that verifies names a key: it answers our value, not one that was guessed.
LEMMA VerifiedOk ==
    ASSUME NEW s, Before(s), NEW p, Incoming(p, s.session_id, server),
           p.type \in Replies, Verified(s, p)
    PROVE  p.n = 1 \/ s.session_id = 1
BY DEF Verified, HostkeyInit, Incoming, Before, SessionOk

\* What an exchange does with a packet.
LEMMA KexTakesOk ==
    ASSUME NEW s, Before(s), NEW p, Incoming(p, s.session_id, server), KexTakes(s, p),
           kex.step = "reply" => p.type \in Replies
    PROVE  After(s)
<1>1. CASE kex.step = "kexinit"
    <2> DEFINE t == [s EXCEPT !.kexinit = p]
    <2>1. session' = t /\ kex' = KexStep("agree", 0) /\ call' = call
        BY <1>1 DEF KexTakes
    <2>2. DOMAIN t = SessionFields /\ \A f \in SessionFields \ {"kexinit"} : t[f] = s[f]
        BY DEF Before, SessionOk, SessionFields
    <2> HIDE DEF t
    <2> QED
        BY <2>1, <2>2
        DEF After, Before, SessionOk, SessionFields, KexOk, CallOk, KexStep
<1>2. CASE kex.step = "group"
    <2> DEFINE m == Msg(KEX_DH_GEX_INIT, p.what.blob, 0)
    <2>1. KexInit(s, m) BY <1>2 DEF KexTakes
    <2>2. IsPacket(m) /\ m.type = 32 BY Written, Types DEF PacketTypes
    <2> HIDE DEF m
    <2> QED BY <2>1, <2>2, KexInitOk, Types DEF PacketTypes
<1>3. CASE kex.step = "burn"
    <2> DEFINE t == [s EXCEPT !.burn = FALSE]
    <2>1. session' = t /\ kex' = KexStep("reply", 0) /\ call' = call
        BY <1>3 DEF KexTakes
    <2>2. DOMAIN t = SessionFields /\ \A f \in SessionFields \ {"burn"} : t[f] = s[f]
        BY DEF Before, SessionOk, SessionFields
    <2> HIDE DEF t
    <2> QED
        BY <2>1, <2>2
        DEF After, Before, SessionOk, SessionFields, KexOk, CallOk, KexStep
<1>4. CASE kex.step = "reply"
    <2> DEFINE m == Msg(NEWKEYS, "", 0)
               k == KexStep("newkeys", p.n)
    <2>1. IF Verified(s, p) THEN KexSends(s, m, k) ELSE KexFails(s)
        BY <1>4 DEF KexTakes
    <2>2. IsPacket(m) /\ m.type = 21 BY Types DEF Msg, IsPacket, PacketTypes
    <2>3. Verified(s, p) => KexOk(k, s)
        BY <1>4, VerifiedOk DEF KexOk, KexStep
    <2> HIDE DEF m, k
    <2> QED BY <2>1, <2>2, <2>3, KexSendsOk, KexFailsOk, Types DEF PacketTypes
<1>5. CASE kex.step = "newkeys"
    <2> DEFINE t == NewKeys(s, kex.h)
    <2>1. AfterKex(t) BY <1>5 DEF KexTakes
    <2>2. Before(t) /\ t.newkeys /\ (s.session_id = 1 => t.session_id = 1)
        BY <1>5, NewKeysOk
    <2> HIDE DEF t
    <2>3. After(t) BY <2>1, <2>2, AfterKexOk
    <2> QED BY <2>2, <2>3 DEF After
<1> QED BY <1>1, <1>2, <1>3, <1>4, <1>5 DEF KexTakes

\* The methods that are agreed on are this library's.
LEMMA MethodsKnown ==
    ASSUME NEW ours, NEW theirs, NEW known
    PROVE  Agreed(ours, theirs, known) \in ToSet(known) \cup {""}
<1> DEFINE i == SelectInSeq(ours, LAMBDA m : AgreeInstr(theirs, m))
<1>1. Agreed(ours, theirs, known)
        = IF i = 0 THEN "" ELSE IF ours[i] \in ToSet(known) THEN ours[i] ELSE ""
    BY Zenon DEF Agreed
<1> HIDE DEF i
<1> QED BY <1>1

\* Agreeing changes methods, and no host key's method is named as a guess is.
LEMMA AgreeMethodsOk ==
    ASSUME NEW s, Before(s)
    PROVE  /\ Before(AgreeMethods(s))
           /\ AgreeMethods(s).session_id = s.session_id
<1> DEFINE Choice(k) == Agreed(Offer(s, k), s.kexinit.what[k], Supported[k])
           fails == SelectInSeq(KindsInOrder, LAMBDA k : Choice(k) = "")
           Set(k) == fails = 0 \/ k \in ToSet(SubSeq(KindsInOrder, 1, fails - 1))
           method == [k \in Kinds |-> IF Set(k) THEN Choice(k) ELSE s.method[k]]
           stream == IF fails = 0 THEN s.kexinit.n ELSE s.stream
           burn == s.kexinit.guess /\ Choice("KEX") # Head(s.kexinit.what["KEX"])
           t == AgreeMethods(s)
<1>1. t = [s EXCEPT !.method = method, !.stream = stream, !.burn = burn]
    BY Zenon DEF AgreeMethods
<1>2. Choice("HOSTKEY") \notin Unkeyed
    <2>1. ToSet(Supported["HOSTKEY"]) \subseteq ToSet(MethodNames("HOSTKEY"))
        BY KindsKnown, SessionsAssumption
    <2>2. MethodNames("HOSTKEY") = HostkeyMethods BY DEF MethodNames
    <2>3. DOMAIN HostkeyMethods = 1..2 /\ HostkeyMethods[1] = "ssh-rsa"
          /\ HostkeyMethods[2] = "ssh-dss"
        BY DEF HostkeyMethods
    <2>4. ToSet(HostkeyMethods) \subseteq {"ssh-rsa", "ssh-dss"} BY <2>3 DEF ToSet
    <2>5. Choice("HOSTKEY") \in ToSet(Supported["HOSTKEY"]) \cup {""} BY MethodsKnown
    <2> HIDE DEF Choice
    <2>6. Choice("HOSTKEY") \in {"ssh-rsa", "ssh-dss", ""} BY <2>1, <2>2, <2>4, <2>5
    <2> QED BY <2>6 DEF Unkeyed
<1> HIDE DEF Choice, Set, fails, stream, burn
<1>3. DOMAIN method = Kinds /\ method["HOSTKEY"] \notin Unkeyed
    BY <1>2, KindsKnown DEF Before, SessionOk
<1> HIDE DEF method, t
<1>4. DOMAIN s = SessionFields BY DEF Before, SessionOk
<1>5. /\ DOMAIN t = SessionFields /\ t.method = method
      /\ \A f \in SessionFields \ {"method", "stream", "burn"} : t[f] = s[f]
    BY <1>1, <1>4 DEF SessionFields
<1>6. SessionOk(t, server) BY <1>3, <1>5 DEF Before, SessionOk, SessionFields
<1>7. KexOk(kex, t) /\ CallOk(call, t) /\ t.session_id = s.session_id
    BY <1>5 DEF Before, SessionFields, KexOk, CallOk
<1> QED BY <1>6, <1>7 DEF Before, t

\* What is signed is the identifier, or the request says that it is not.
LEMMA SignedOk ==
    ASSUME NEW s, s.session_id = 1, NEW fn, NEW key, NEW sig \in Signv(key, Sign(s))
    PROVE  LET m == Signed(fn, sig)
           IN  /\ IsPacket(m) /\ m.type = USERAUTH_REQUEST
               /\ m.what = "garbled" \/ m.n = 1
<1>1. sig.over \in {1, Garbled}
    BY DEF Sign, Signv, RsaSignv, DssSignv, DsaSha1Sign, Signature
<1> DEFINE what == IF sig.over = Garbled THEN "garbled" ELSE fn
<1>2. Signed(fn, sig) = Msg(USERAUTH_REQUEST, what, sig.over) BY DEF Signed
<1>3. what = "garbled" \/ sig.over = 1 BY <1>1
<1> HIDE DEF what
<1> QED BY <1>2, <1>3, Written

\* A public key's second request.
LEMMA SendsSignedOk ==
    ASSUME NEW s, Before(s), SendsSigned(s), s.started = "yes"
    PROVE  After(s)
<1>1. SessionOk(s, server) /\ s.session_id = 1 /\ server.id = 1
    BY DEF Before, SessionOk
<1>2. PICK key \in ReadPrivatekey(call.key) :
        IF key = NoKey THEN Returns(s)
        ELSE \E sig \in Signv(key, Sign(s)) :
                Sends(s, Signed("signed", sig), Call("publickey", Answers))
    BY DEF SendsSigned
<1>3. CASE key = NoKey BY <1>1, <1>2, <1>3, ReturnsOk
<1>4. CASE key # NoKey
    <2>1. PICK sig \in Signv(key, Sign(s)) :
            Sends(s, Signed("signed", sig), Call("publickey", Answers))
        BY <1>2, <1>4
    <2> DEFINE m == Signed("signed", sig)
               c == Call("publickey", Answers)
    <2>2. IsPacket(m) /\ m.type = USERAUTH_REQUEST /\ (m.what = "garbled" \/ m.n = 1)
        BY <1>1, SignedOk
    <2>3. CallOk(c, s) BY DEF CallOk, Call
    <2>4. Sends(s, m, c) BY <2>1
    <2> HIDE DEF m, c
    <2> QED BY <1>1, <2>2, <2>3, <2>4, SendsOk, Types DEF PacketTypes
<1> QED BY <1>3, <1>4

\* A call goes on with another request or answer, in which nothing is signed.
LEMMA AsksOk ==
    ASSUME NEW s, Before(s), NEW p, Sends(s, p, [call EXCEPT !.asked = FALSE]),
           IsPacket(p), p.type \in {USERAUTH_REQUEST, USERAUTH_INFO_RESPONSE},
           p.type = USERAUTH_REQUEST => p.what \notin {"hostbased", "signed"}
    PROVE  After(s)
<1> DEFINE c == [call EXCEPT !.asked = FALSE]
<1>1. CallOk(c, s) /\ SessionOk(s, server) BY DEF Before, CallOk
<1>2. Sends(s, p, c) OBVIOUS
<1> HIDE DEF c
<1> QED BY <1>1, <1>2, SendsOk, Types DEF PacketTypes

\* The answer to a request: who is told of a success was let in.
LEMMA AnsweredOk ==
    ASSUME NEW s, Before(s), NEW p, Incoming(p, s.session_id, server), Answered(s, p)
    PROVE  After(s)
<1> DEFINE t == [s EXCEPT !.authenticated = TRUE]
<1>1. DOMAIN t = SessionFields /\ \A f \in SessionFields \ {"authenticated"} : t[f] = s[f]
    BY DEF Before, SessionOk
<1> HIDE DEF t
<1>2. CASE Succeeded(p)
    <2>1. Returns(t) BY <1>2 DEF Answered, t
    <2>2. server.authenticated BY <1>2 DEF Succeeded, Incoming
    <2>3. SessionOk(t, server) /\ t.session_id = s.session_id
        BY <1>1, <2>2 DEF Before, SessionOk, SessionFields
    <2> QED BY <2>1, <2>3, ReturnsOk
<1>3. CASE ~Succeeded(p) BY <1>3, ReturnsOk DEF Answered, Before
<1> QED BY <1>2, <1>3

\* What a call does with a packet.
LEMMA CallTakesOk ==
    ASSUME NEW s, Before(s), NEW p, Incoming(p, s.session_id, server), CallTakes(s, p),
           call.fn = "service" => p.type = SERVICE_ACCEPT
    PROVE  After(s)
<1>1. CASE call.fn = "service"
    <2> DEFINE t == [s EXCEPT !.started = IF p.what = "ssh-userauth" THEN "yes"
                                                                     ELSE s.started]
    <2>1. Returns(t) BY <1>1 DEF CallTakes, AuthCalls
    <2>2. s.session_id = 1 /\ server.id = 1 BY <1>1 DEF Incoming
    <2>3. DOMAIN t = SessionFields /\ \A f \in SessionFields \ {"started"} : t[f] = s[f]
        BY DEF Before, SessionOk
    <2> HIDE DEF t
    <2>4. SessionOk(t, server) /\ t.session_id = s.session_id
        BY <2>2, <2>3 DEF Before, SessionOk, SessionFields
    <2> QED BY <2>1, <2>4, ReturnsOk
<1>2. CASE call.fn # "service"
    <2>1. /\ call.fn \in AuthCalls
          /\ IF Succeeded(p) \/ p.type = USERAUTH_FAILURE THEN Answered(s, p)
             ELSE \/ call.fn = "password" /\ ChangesPassword(s)
                  \/ call.fn = "publickey" /\ SendsSigned(s)
                  \/ call.fn = "kbdint" /\ Respond(s, p)
        BY <1>2 DEF CallTakes
    <2>2. s.started = "yes" /\ SessionOk(s, server) BY <2>1 DEF Before, CallOk
    <2>3. CASE Answered(s, p) BY <2>3, AnsweredOk
    <2>4. CASE ChangesPassword(s)
        <3> DEFINE m == Asks("password")
        <3>1. IsPacket(m) /\ m.type = USERAUTH_REQUEST /\ m.what = "password"
            BY Written DEF Asks
        <3> HIDE DEF m
        <3>2. Sends(s, m, [call EXCEPT !.asked = FALSE]) => After(s)
            BY <3>1, AsksOk
        <3> QED BY <2>2, <2>4, <3>2, ReturnsOk DEF ChangesPassword, m
    <2>5. CASE SendsSigned(s) BY <2>2, <2>5, SendsSignedOk
    <2>6. CASE Respond(s, p)
        <3> DEFINE m == Msg(USERAUTH_INFO_RESPONSE, "", p.n)
        <3>1. /\ IsPacket(m) /\ m.type = USERAUTH_INFO_RESPONSE
              /\ m.type # USERAUTH_REQUEST
            BY Types DEF Msg, IsPacket, PacketTypes
        <3>2. Sends(s, m, [call EXCEPT !.asked = FALSE]) BY <2>6 DEF Respond
        <3> HIDE DEF m
        <3> QED BY <3>1, <3>2, AsksOk
    <2> QED BY <2>1, <2>3, <2>4, <2>5, <2>6
<1> QED BY <1>1, <1>2

\* What is wanted is what the exchange or the call waits for.
LEMMA WantedOk ==
    ASSUME NEW s, CallOk(call, s), NEW p, Wanted(p)
    PROVE  /\ kex.step = "reply" => p.type \in Replies
           /\ ~Exchanging /\ call.fn = "service" => p.type = SERVICE_ACCEPT
<1>1. \A x : ToSet(<<x>>) \subseteq {x} BY SeqShort
<1>2. ASSUME kex.step = "reply" PROVE p.type \in Replies
    <2>1. Needs \in {<<KEX_DH_GEX_REPLY>>, <<KEXDH_REPLY>>}
        BY <1>2 DEF Needs, Exchanging, KexNeeds
    <2>2. \A x : x # -1 => <<x>> # AnyPacket BY DEF AnyPacket
    <2>3. Needs # AnyPacket BY <2>1, <2>2, Types DEF PacketTypes
    <2> QED BY <1>1, <2>1, <2>3 DEF Wanted, Replies
<1>3. ASSUME ~Exchanging, call.fn = "service" PROVE p.type = SERVICE_ACCEPT
    <2>1. Needs = <<SERVICE_ACCEPT>> BY <1>3 DEF Needs, CallOk
    <2>2. \A x : x # -1 => <<x>> # AnyPacket BY DEF AnyPacket
    <2>3. Needs # AnyPacket BY <2>1, <2>2, Types DEF PacketTypes
    <2> QED BY <1>1, <2>1, <2>3 DEF Wanted
<1> QED BY <1>2, <1>3

\* A packet is taken from the brigade, by the exchange or by the call.
LEMMA TakesFoundOk ==
    ASSUME NEW s, Before(s), TakesFound(s)
    PROVE  After(s)
<1>1. PICK i \in DOMAIN s.packets :
        /\ Wanted(s.packets[i])
        /\ Takes([s EXCEPT !.packets = RemoveAt(s.packets, i)], s.packets[i])
    BY DEF TakesFound
<1> DEFINE p == s.packets[i]
           t == [s EXCEPT !.packets = RemoveAt(s.packets, i)]
<1>2. IsSeq(s.packets) /\ DOMAIN s = SessionFields BY DEF Before, SessionOk
<1>3. /\ IsSeq(RemoveAt(s.packets, i))
      /\ ToSet(RemoveAt(s.packets, i)) \subseteq ToSet(s.packets)
      /\ p \in ToSet(s.packets)
    BY <1>2, SeqRemove
<1>4. /\ DOMAIN t = SessionFields /\ t.packets = RemoveAt(s.packets, i)
      /\ \A f \in SessionFields \ {"packets"} : t[f] = s[f]
    BY <1>2 DEF SessionFields
<1>5. Wanted(p) /\ Takes(t, p) BY <1>1
<1> HIDE DEF p, t
<1>6. Before(t) /\ t.session_id = s.session_id
    BY <1>3, <1>4 DEF Before, SessionOk, SessionFields, KexOk, CallOk
<1>7. Incoming(p, t.session_id, server) BY <1>3, <1>6 DEF Before, SessionOk
<1>8. /\ kex.step = "reply" => p.type \in Replies
      /\ ~Exchanging /\ call.fn = "service" => p.type = SERVICE_ACCEPT
    BY <1>5, WantedOk DEF Before
<1>9. After(t)
    BY <1>5, <1>6, <1>7, <1>8, KexTakesOk, CallTakesOk DEF Takes
<1> QED BY <1>6, <1>9 DEF After

\* A packet that was read is as good in the brigade as on the way.
LEMMA PacketAddOk ==
    ASSUME NEW s, Before(s), NEW p, Incoming(p, s.session_id, server)
    PROVE  Before(PacketAdd(s, p)) /\ PacketAdd(s, p).session_id = s.session_id
<1>1. IsSeq(s.packets) /\ DOMAIN s = SessionFields BY DEF Before, SessionOk
<1>2. CASE p.type = DISCONNECT
    <2> DEFINE t == [s EXCEPT !.socket_state = "DISCONNECTED"]
    <2>1. PacketAdd(s, p) = t BY <1>2, Types DEF PacketAdd, PacketTypes
    <2>2. DOMAIN t = SessionFields
          /\ \A f \in SessionFields \ {"socket_state"} : t[f] = s[f]
        BY <1>1
    <2> HIDE DEF t
    <2> QED BY <2>1, <2>2 DEF Before, SessionOk, SessionFields, KexOk, CallOk
<1>3. CASE p.type = BANNER_LINE
    BY <1>3, Types DEF PacketAdd, PacketTypes
<1>4. CASE p.type \notin {DISCONNECT, BANNER_LINE}
    <2> DEFINE t == [s EXCEPT !.packets = Append(s.packets, p)]
    <2>1. PacketAdd(s, p) = t BY <1>4 DEF PacketAdd
    <2>2. /\ IsSeq(Append(s.packets, p))
          /\ ToSet(Append(s.packets, p)) \subseteq ToSet(s.packets) \cup {p}
        BY <1>1, SeqAppend
    <2>3. /\ DOMAIN t = SessionFields /\ t.packets = Append(s.packets, p)
          /\ \A f \in SessionFields \ {"packets"} : t[f] = s[f]
        BY <1>1 DEF SessionFields
    <2> HIDE DEF t
    <2> QED BY <2>1, <2>2, <2>3 DEF Before, SessionOk, SessionFields, KexOk, CallOk
<1> QED BY <1>2, <1>3, <1>4

\* An exchange or a call that fails.
LEMMA GivesUpOk ==
    ASSUME NEW s, Before(s), GivesUp(s)
    PROVE  After(s)
BY KexFailsOk, ReturnsOk DEF GivesUp, Before

\* A packet stays good as long as nobody forgets the session or the user.
LEMMA StaysGood ==
    ASSUME NEW p, NEW id, NEW jd, NEW srv, NEW tsrv,
           id = 1 => jd = 1, srv.id = 1 => tsrv.id = 1,
           srv.authenticated => tsrv.authenticated
    PROVE  /\ Incoming(p, id, srv) => Incoming(p, jd, tsrv)
           /\ Outgoing(p, id, srv) => Outgoing(p, jd, tsrv)
BY DEF Incoming, Outgoing

\* A step of the client leaves the server as it was, and at most reads a packet.
LEMMA ClientStep ==
    ASSUME SessionInv, After(session), server' = server,
           wire' = wire \/ (wire # <<>> /\ wire' = Tail(wire))
    PROVE  SessionInv'
<1>1. session.session_id = 1 => session'.session_id = 1 BY DEF After
<1>2. IsSeq(wire) /\ \A p \in ToSet(wire) : Incoming(p, session.session_id, server)
    BY DEF SessionInv, WireOk
<1>3. IsSeq(wire') /\ ToSet(wire') \subseteq ToSet(wire) BY <1>2, SeqTail
<1>4. WireOk(wire', session', server')
    BY <1>1, <1>2, <1>3 DEF WireOk, Incoming
<1>5. ServerOk(server', session')
    BY <1>1 DEF SessionInv, ServerOk, Incoming
<1> QED BY <1>4, <1>5 DEF SessionInv, After

-----------------------------------------------------------------------------
(* The client's actions *)

\* Preferences are not in the invariant.
LEMMA MethodPrefOk ==
    ASSUME SessionInv, NEW kind, NEW list, MethodPref(kind, list)
    PROVE  SessionInv'
<1> DEFINE t == [session EXCEPT !.prefs[kind] = Stripped(kind, list)]
<1>1. Before(session) /\ DOMAIN session = SessionFields
    BY DEF SessionInv, Before, SessionOk
<1>2. DOMAIN t = SessionFields /\ \A f \in SessionFields \ {"prefs"} : t[f] = session[f]
    BY <1>1
<1>3. session' \in {session, t} BY DEF MethodPref
<1> HIDE DEF t
<1>4. \A f \in SessionFields \ {"prefs"} : session'[f] = session[f]
    BY <1>2, <1>3
<1>5. DOMAIN session' = SessionFields BY <1>1, <1>2, <1>3
<1>6. SessionOk(session', server) /\ session'.session_id = session.session_id
    BY <1>1, <1>4, <1>5 DEF Before, SessionOk, SessionFields
<1>7. kex' = kex /\ call' = call /\ server' = server /\ wire' = wire BY DEF MethodPref
<1>8. CallOk(call', session') /\ KexOk(kex', session')
    BY <1>1, <1>4, <1>7 DEF Before, CallOk, KexOk, SessionFields
<1> QED BY <1>6, <1>7, <1>8, ClientStep DEF After

\* Startup writes the banner line, and forgets only that nothing was started.
LEMMA StartupOk ==
    ASSUME SessionInv, Startup
    PROVE  SessionInv'
<1> DEFINE t == [session EXCEPT !.started = "failed"]
           p == Msg(BANNER_LINE, "", 0)
           c == [Call("startup", <<BANNER_LINE>>) EXCEPT !.asked = TRUE]
<1>1. Before(session) /\ DOMAIN session = SessionFields /\ call = Idle
    BY DEF SessionInv, Before, SessionOk, Startup
<1>2. /\ DOMAIN t = SessionFields /\ t.started = "failed"
      /\ \A f \in SessionFields \ {"started"} : t[f] = session[f]
    BY <1>1 DEF SessionFields
<1>3. Sends(t, p, c) /\ server' = server /\ wire' = wire BY DEF Startup
<1>4. IsPacket(p) /\ p.type = 0 BY Types DEF Msg, IsPacket, PacketTypes
<1>5. CallOk(c, t) BY DEF CallOk, Call, AuthCalls
<1> HIDE DEF t, p, c
<1>6. SessionOk(t, server) /\ t.session_id = session.session_id
    BY <1>1, <1>2 DEF Before, SessionOk, SessionFields
<1>7. After(session) BY <1>1, <1>3, <1>4, <1>5, <1>6, SendsOk, Types DEF PacketTypes
<1> QED BY <1>3, <1>7, ClientStep

\* A request for authentication.
LEMMA RequestOk ==
    ASSUME SessionInv, session.started = "yes", NEW p, NEW c, Request(session, p, c),
           IsPacket(p), p.type = USERAUTH_REQUEST,
           p.what \in {"hostbased", "signed"} => p.n = 1,
           DOMAIN c = {"fn", "need", "asked", "key"}, c.fn \in AuthCalls
    PROVE  SessionInv'
<1> DEFINE t == [session EXCEPT !.tries = session.tries + 1]
<1>1. Before(session) /\ DOMAIN session = SessionFields
    BY DEF SessionInv, Before, SessionOk
<1>2. DOMAIN t = SessionFields /\ \A f \in SessionFields \ {"tries"} : t[f] = session[f]
    BY <1>1
<1>3. Sends(t, p, c) /\ server' = server /\ wire' = wire BY DEF Request
<1> HIDE DEF t
<1>4. /\ SessionOk(t, server) /\ t.session_id = session.session_id
      /\ t.started = "yes" /\ server.id = 1
    BY <1>1, <1>2 DEF Before, SessionOk, SessionFields
<1>5. CallOk(c, t) BY <1>4 DEF CallOk, AuthCalls
<1>6. p.type # SERVICE_REQUEST BY Types DEF PacketTypes
<1>7. After(session) BY <1>1, <1>3, <1>4, <1>5, <1>6, SendsOk
<1> QED BY <1>3, <1>7, ClientStep

\* The three requests that are not about a key.
LEMMA AskingOk ==
    ASSUME SessionInv, UserauthList \/ UserauthPassword \/ UserauthKbdint
    PROVE  SessionInv'
<1>1. PICK fn \in {"list", "password", "kbdint"} :
        /\ session.started = "yes"
        /\ \E need : Request(session, Asks(fn), Call(fn, need))
    BY DEF UserauthList, UserauthPassword, UserauthKbdint, CanAuthenticate, Begin
<1>2. PICK need : Request(session, Asks(fn), Call(fn, need)) BY <1>1
<1> DEFINE p == Asks(fn)
           c == Call(fn, need)
<1>3. IsPacket(p) /\ p.type = USERAUTH_REQUEST /\ p.what = fn BY Written DEF Asks
<1>4. DOMAIN c = {"fn", "need", "asked", "key"} /\ c.fn \in AuthCalls
    BY DEF Call, AuthCalls
<1>5. Request(session, p, c) BY <1>2
<1> HIDE DEF p, c
<1> QED BY <1>1, <1>3, <1>4, <1>5, RequestOk

\* A public key is shown to the server, with nothing signed.
LEMMA UserauthPublickeyOk ==
    ASSUME SessionInv, NEW file, UserauthPublickey(file)
    PROVE  SessionInv'
<1> DEFINE p == Asks("publickey")
           c == [Call("publickey", Append(Answers, USERAUTH_PK_OK))
                    EXCEPT !.key = ReadPublickey(file)]
<1>1. Request(session, p, c) /\ session.started = "yes"
    BY DEF UserauthPublickey, CanAuthenticate, Begin
<1>2. IsPacket(p) /\ p.type = USERAUTH_REQUEST /\ p.what = "publickey"
    BY Written DEF Asks
<1>3. DOMAIN c = {"fn", "need", "asked", "key"} /\ c.fn \in AuthCalls
    BY DEF Call, AuthCalls
<1> HIDE DEF p, c
<1> QED BY <1>1, <1>2, <1>3, RequestOk

\* The host's key signs.
LEMMA UserauthHostbasedOk ==
    ASSUME SessionInv, NEW file, UserauthHostbased(file)
    PROVE  SessionInv'
<1> DEFINE c == Call("hostbased", Answers)
<1>0. PICK key :
        \E sig \in Signv(key, Sign(session)) :
            Request(session, Signed("hostbased", sig), c)
    BY DEF UserauthHostbased
<1>1. PICK sig \in Signv(key, Sign(session)) : Request(session, Signed("hostbased", sig), c)
    BY <1>0
<1>2. session.started = "yes" BY DEF UserauthHostbased, CanAuthenticate, Begin
<1>3. session.session_id = 1 BY <1>2 DEF SessionInv, SessionOk
<1> DEFINE p == Signed("hostbased", sig)
<1>4. IsPacket(p) /\ p.type = USERAUTH_REQUEST /\ (p.what = "garbled" \/ p.n = 1)
    BY <1>3, SignedOk
<1>5. DOMAIN c = {"fn", "need", "asked", "key"} /\ c.fn \in AuthCalls
    BY DEF Call, AuthCalls
<1>6. Request(session, p, c) BY <1>1
<1> HIDE DEF p, c
<1> QED BY <1>2, <1>4, <1>5, <1>6, RequestOk

\* A read waits for nothing.
LEMMA PacketReadOk ==
    ASSUME SessionInv, PacketRead
    PROVE  SessionInv'
<1>1. Before(session) BY DEF SessionInv, Before
<1>2. /\ call' = Call("read", <<>>) /\ session' = session /\ kex' = kex
      /\ wire' = wire /\ server' = server
    BY DEF PacketRead
<1>3. CallOk(call', session') BY <1>2 DEF CallOk, Call, AuthCalls
<1> QED BY <1>1, <1>2, <1>3, ClientStep DEF Before, After

\* DISCONNECT is written, and no call begins any more.
LEMMA SessionDisconnectOk ==
    ASSUME SessionInv, SessionDisconnect
    PROVE  SessionInv'
<1> DEFINE p == Msg(DISCONNECT, "", 0)
           s == PacketWrite(session, p)
           t == [s EXCEPT !.started = "over"]
<1>1. IsPacket(p) /\ p.type = 1 BY Types DEF Msg, IsPacket, PacketTypes
<1>2. /\ session' = t /\ call = Idle /\ call' = call /\ kex' = kex
      /\ wire' = wire /\ server' = server
    BY DEF SessionDisconnect, Begin
<1> HIDE DEF p
<1>3. SessionOk(s, server) /\ s.session_id = session.session_id
    BY <1>1, PacketWriteOk, Types DEF SessionInv, PacketTypes
<1> HIDE DEF s
<1>4. DOMAIN s = SessionFields BY <1>3 DEF SessionOk
<1>5. /\ DOMAIN t = SessionFields /\ t.started = "over"
      /\ \A f \in SessionFields \ {"started"} : t[f] = s[f]
    BY <1>4 DEF SessionFields
<1> HIDE DEF t
<1>6. SessionOk(t, server) /\ t.session_id = session.session_id
    BY <1>3, <1>5 DEF SessionOk, SessionFields
<1>7. CallOk(call', t) BY <1>2 DEF CallOk, Idle, Call, AuthCalls
<1>8. KexOk(kex', t) BY <1>2, <1>6 DEF SessionInv, KexOk
<1> QED BY <1>2, <1>6, <1>7, <1>8, ClientStep DEF After

\* The methods agreed on, whole or in part, are the session's.
LEMMA KexAgreesOk ==
    ASSUME SessionInv, KexAgrees
    PROVE  SessionInv'
<1> DEFINE t == AgreeMethods(session)
<1>1. Before(session) BY DEF SessionInv, Before
<1>2. Before(t) /\ t.session_id = session.session_id BY <1>1, AgreeMethodsOk
<1>3. /\ IF CanAgree(session)
         THEN session' = t /\ kex' = KexStep("agreed", 0) /\ call' = call
         ELSE KexFails(t)
      /\ server' = server /\ wire' = wire
    BY DEF KexAgrees
<1> HIDE DEF t
<1>4. After(t)
    <2>1. CASE CanAgree(session)
        BY <1>2, <1>3, <2>1 DEF Before, After, KexOk, CallOk, KexStep
    <2>2. CASE ~CanAgree(session) BY <1>2, <1>3, <2>2, KexFailsOk
    <2> QED BY <2>1, <2>2
<1>5. After(session) BY <1>2, <1>4 DEF After
<1> QED BY <1>3, <1>5, ClientStep

\* The method's exchange begins with a packet of ours.
LEMMA ExchangeKeysOk ==
    ASSUME SessionInv, ExchangeKeys
    PROVE  SessionInv'
<1> DEFINE p == Msg(KEX_DH_GEX_REQUEST, "", 0)
           q == Msg(KEXDH_INIT, "", 0)
           k == KexStep("group", 0)
<1>1. Before(session) BY DEF SessionInv, Before
<1>2. /\ KexSends(session, p, k) \/ KexInit(session, q)
      /\ server' = server /\ wire' = wire
    BY DEF ExchangeKeys
<1>3. IsPacket(p) /\ p.type = 34 /\ IsPacket(q) /\ q.type = 30
    BY Types DEF Msg, IsPacket, PacketTypes
<1>4. KexOk(k, session) BY DEF KexOk, KexStep
<1> HIDE DEF p, q, k
<1>5. After(session)
    BY <1>1, <1>2, <1>3, <1>4, KexSendsOk, KexInitOk, Types DEF PacketTypes
<1> QED BY <1>2, <1>5, ClientStep

\* Nothing is taken from the brigade: from now on packets are read.
LEMMA RequireQueuedOk ==
    ASSUME SessionInv, RequireQueued
    PROVE  SessionInv'
<1>1. Before(session) BY DEF SessionInv, Before
<1>2. server' = server /\ wire' = wire BY DEF RequireQueued
<1>3. CASE Found(session.packets) # 0
    <2>1. TakesFound(session) BY <1>3 DEF RequireQueued
    <2> QED BY <1>1, <1>2, <2>1, TakesFoundOk, ClientStep
<1>4. CASE Found(session.packets) = 0
    <2>1. /\ session' = session
          /\ kex' = IF Exchanging THEN [kex EXCEPT !.asked = TRUE] ELSE kex
          /\ call' = IF Exchanging THEN call ELSE [call EXCEPT !.asked = TRUE]
        BY <1>4 DEF RequireQueued
    <2>2. KexOk(kex', session') BY <1>1, <2>1 DEF Before, KexOk
    <2>3. CallOk(call', session') BY <1>1, <2>1 DEF Before, CallOk
    <2>4. After(session) BY <1>1, <2>1, <2>2, <2>3 DEF Before, After
    <2> QED BY <1>2, <2>4, ClientStep
<1> QED BY <1>3, <1>4

\* A packet is read; it is refused, begins an exchange, is taken or is kept.
LEMMA RequireReadOk ==
    ASSUME SessionInv, RequireRead
    PROVE  SessionInv'
<1> DEFINE p == Head(wire)
           s == PacketAdd(session, p)
<1>1. Before(session) BY DEF SessionInv, Before
<1>2. wire # <<>> /\ wire' = Tail(wire) /\ server' = server
    BY DEF RequireRead, CanRead
<1>3. Incoming(p, session.session_id, server)
    BY <1>2, SeqTail DEF SessionInv, WireOk
<1>4. \/ GivesUp(session) \/ KexBegins(s, TRUE) \/ KexBegins(s, FALSE) \/ TakesFound(s)
      \/ session' = s /\ call' = call /\ kex' = kex
    BY DEF RequireRead
<1> HIDE DEF p
<1>5. Before(s) /\ s.session_id = session.session_id BY <1>1, <1>3, PacketAddOk
<1> HIDE DEF s
<1>6. CASE GivesUp(session) BY <1>1, <1>2, <1>6, GivesUpOk, ClientStep
<1>7. CASE KexBegins(s, TRUE) \/ KexBegins(s, FALSE)
    <2>1. After(s) BY <1>5, <1>7, KexBeginsOk
    <2> QED BY <1>2, <1>5, <2>1, ClientStep DEF After
<1>8. CASE TakesFound(s)
    <2>1. After(s) BY <1>5, <1>8, TakesFoundOk
    <2> QED BY <1>2, <1>5, <2>1, ClientStep DEF After
<1>9. CASE session' = s /\ call' = call /\ kex' = kex
    <2>1. After(s) BY <1>5, <1>9 DEF Before, After
    <2> QED BY <1>2, <1>5, <2>1, ClientStep DEF After
<1> QED BY <1>4, <1>6, <1>7, <1>8, <1>9

\* A read takes what has arrived, and may find itself exchanging keys.
LEMMA ReadArrivedOk ==
    ASSUME SessionInv, ReadArrived
    PROVE  SessionInv'
<1> DEFINE p == Head(wire)
           s == PacketAdd(session, p)
<1>1. Before(session) /\ SessionOk(session, server) BY DEF SessionInv, Before
<1>2. server' = server BY DEF ReadArrived
<1>3. CASE ~CanRead
    <2>1. Returns(session) /\ wire' = wire BY <1>3 DEF ReadArrived
    <2> QED BY <1>1, <1>2, <2>1, ReturnsOk, ClientStep
<1>4. CASE CanRead
    <2>1. wire # <<>> /\ wire' = Tail(wire) BY <1>4 DEF ReadArrived, CanRead
    <2>2. Returns(session) \/ Returns(s) \/ KexBegins(s, TRUE)
        BY <1>4 DEF ReadArrived
    <2>3. Incoming(p, session.session_id, server)
        BY <2>1, SeqTail DEF SessionInv, WireOk
    <2> HIDE DEF p
    <2>4. Before(s) /\ s.session_id = session.session_id BY <1>1, <2>3, PacketAddOk
    <2> HIDE DEF s
    <2>5. SessionOk(s, server) BY <2>4 DEF Before
    <2>6. After(session)
        <3>1. CASE Returns(session) BY <1>1, <3>1, ReturnsOk
        <3>2. CASE Returns(s) BY <1>1, <2>4, <2>5, <3>2, ReturnsOk
        <3>3. CASE KexBegins(s, TRUE)
            <4>1. After(s) BY <2>4, <3>3, KexBeginsOk
            <4> QED BY <2>4, <4>1 DEF After
        <3> QED BY <2>2, <3>1, <3>2, <3>3
    <2> QED BY <1>2, <2>1, <2>6, ClientStep
<1> QED BY <1>3, <1>4

\* A read that fails, or for which nothing comes.
LEMMA ReadEndsOk ==
    ASSUME SessionInv, ReadFails \/ TimesOut
    PROVE  SessionInv'
<1>1. Before(session) BY DEF SessionInv, Before
<1>2. GivesUp(session) /\ server' = server /\ wire' = wire BY DEF ReadFails, TimesOut
<1> QED BY <1>1, <1>2, GivesUpOk, ClientStep

-----------------------------------------------------------------------------
(* The server's actions *)

\* What a step of the server leaves behind, while the session is as it was.
ServerLike(srv) ==
    /\ ServerOk(srv, session)
    /\ server.id = 1 => srv.id = 1
    /\ server.authenticated => srv.authenticated
ServerAfter == ServerLike(server') /\ WireOk(wire', session, server')

\* The session loses at most what the server has read, or its link.
LEMMA ServerStep ==
    ASSUME SessionInv, ServerAfter, kex' = kex, call' = call,
           \/ session' = session
           \/ session.out # <<>> /\ session' = [session EXCEPT !.out = Tail(session.out)]
           \/ \E end : session' = [session EXCEPT !.link = end]
    PROVE  SessionInv'
<1>1. DOMAIN session = SessionFields /\ IsSeq(session.out)
    BY DEF SessionInv, SessionOk
<1>2. /\ DOMAIN session' = SessionFields /\ IsSeq(session'.out)
      /\ ToSet(session'.out) \subseteq ToSet(session.out)
      /\ \A f \in SessionFields \ {"out", "link"} : session'[f] = session[f]
    <2>1. CASE session' = session BY <1>1, <2>1
    <2>2. CASE /\ session.out # <<>>
               /\ session' = [session EXCEPT !.out = Tail(session.out)]
        <3>1. session'.out = Tail(session.out) BY <1>1, <2>2 DEF SessionFields
        <3>2. /\ IsSeq(Tail(session.out))
              /\ ToSet(Tail(session.out)) \subseteq ToSet(session.out)
            BY <1>1, <2>2, SeqTail
        <3> QED BY <1>1, <2>2, <3>1, <3>2
    <2>3. CASE \E end : session' = [session EXCEPT !.link = end]
        BY <1>1, <2>3 DEF SessionFields
    <2> QED BY <2>1, <2>2, <2>3
<1>3. SessionOk(session', server')
    <2>1. \A p \in ToSet(session'.packets) :
            Incoming(p, session'.session_id, server')
        BY <1>2, StaysGood
        DEF SessionInv, SessionOk, SessionFields, ServerAfter, ServerLike
    <2>2. \A p \in ToSet(session'.out) : Outgoing(p, session'.session_id, server')
        BY <1>2, StaysGood
        DEF SessionInv, SessionOk, SessionFields, ServerAfter, ServerLike
    <2> QED
        BY <1>2, <2>1, <2>2
        DEF SessionInv, SessionOk, SessionFields, ServerAfter, ServerLike
<1>4. session'.session_id = session.session_id /\ session'.started = session.started
    BY <1>2 DEF SessionFields
<1>5. WireOk(wire', session', server') BY <1>4 DEF ServerAfter, WireOk
<1>6. ServerOk(server', session') BY <1>4 DEF ServerAfter, ServerLike, ServerOk
<1>7. KexOk(kex', session') /\ CallOk(call', session')
    BY <1>4 DEF SessionInv, KexOk, CallOk
<1> QED BY <1>3, <1>5, <1>6, <1>7 DEF SessionInv

\* Good packets are written behind those on the way.
LEMMA WritesOk ==
    ASSUME SessionInv, NEW srv, ServerLike(srv), NEW packets, IsSeq(packets), NEW keys,
           \A p \in ToSet(packets) : Incoming(p, session.session_id, srv),
           NEW w, WireOk(w, session, srv)
    PROVE  WireOk(w \o Stamped(packets, keys), session, srv)
<1>1. /\ IsSeq(Stamped(packets, keys))
      /\ ToSet(Stamped(packets, keys)) \subseteq {Under(p, keys) : p \in ToSet(packets)}
    BY SeqStamped
<1>2. \A p \in ToSet(Stamped(packets, keys)) : Incoming(p, session.session_id, srv)
    <2>1. ASSUME NEW p \in ToSet(packets)
          PROVE  Incoming(Under(p, keys), session.session_id, srv)
        BY Rewritten DEF Incoming
    <2> QED BY <1>1, <2>1
<1>3. IsSeq(w) /\ \A p \in ToSet(w) : Incoming(p, session.session_id, srv) BY DEF WireOk
<1>4. /\ IsSeq(w \o Stamped(packets, keys))
      /\ ToSet(w \o Stamped(packets, keys)) \subseteq ToSet(w) \cup ToSet(Stamped(packets, keys))
    BY <1>1, <1>3, SeqConcat
<1> QED BY <1>2, <1>3, <1>4 DEF WireOk

\* What is on the way stays good.
LEMMA WireStays ==
    ASSUME SessionInv, NEW srv, ServerLike(srv)
    PROVE  WireOk(wire, session, srv)
BY StaysGood DEF SessionInv, WireOk, ServerLike

\* One packet is written.
LEMMA WritesOneOk ==
    ASSUME SessionInv, NEW srv, ServerLike(srv), NEW p, NEW keys,
           Incoming(p, session.session_id, srv)
    PROVE  WireOk(wire \o Stamped(<<p>>, keys), session, srv)
<1>1. IsSeq(<<p>>) /\ ToSet(<<p>>) \subseteq {p} BY SeqShort
<1> DEFINE packets == <<p>>
<1>2. IsSeq(packets) /\ \A q \in ToSet(packets) : Incoming(q, session.session_id, srv)
    BY <1>1
<1> HIDE DEF packets
<1>3. WireOk(wire \o Stamped(packets, keys), session, srv)
    BY <1>2, WireStays, WritesOk
<1> QED BY <1>3 DEF packets

\* An answer is written, or held while keys are exchanged.
LEMMA AnswerOk ==
    ASSUME SessionInv, NEW srv, ServerLike(srv), NEW p,
           Incoming(p, session.session_id, srv), Answer(srv, p)
    PROVE  ServerAfter
<1>1. CASE srv.kex \in {"none", "newkeys"}
    <2>1. server' = srv /\ wire' = wire \o Stamped(<<p>>, srv.out)
        BY <1>1 DEF Answer, Writes
    <2> QED BY <2>1, WritesOneOk DEF ServerAfter
<1>2. CASE srv.kex \notin {"none", "newkeys"}
    <2> DEFINE t == [srv EXCEPT !.held = Append(srv.held, p)]
    <2>1. server' = t /\ wire' = wire BY <1>2 DEF Answer, Silent
    <2>2. DOMAIN srv = ServerFields /\ IsSeq(srv.held) BY DEF ServerLike, ServerOk
    <2>3. /\ IsSeq(Append(srv.held, p))
          /\ ToSet(Append(srv.held, p)) \subseteq ToSet(srv.held) \cup {p}
        BY <2>2, SeqAppend
    <2>4. /\ DOMAIN t = ServerFields /\ t.held = Append(srv.held, p)
          /\ \A f \in ServerFields \ {"held"} : t[f] = srv[f]
        BY <2>2 DEF ServerFields
    <2> HIDE DEF t
    <2>5. t.id = srv.id /\ t.authenticated = srv.authenticated BY <2>4 DEF ServerFields
    <2>6. \A q \in ToSet(t.held) : Incoming(q, session.session_id, srv)
        BY <2>3, <2>4 DEF ServerLike, ServerOk
    <2>7. \A q \in ToSet(t.held) : Incoming(q, session.session_id, t)
        BY <2>5, <2>6, StaysGood
    <2>8. ServerLike(t)
        BY <2>3, <2>4, <2>7 DEF ServerLike, ServerOk, ServerFields
    <2> QED BY <2>1, <2>8, WireStays DEF ServerAfter
<1> QED BY <1>1, <1>2

\* A server that differs in nothing the invariant is about, but may have let in the user.
LEMMA LikeServer ==
    ASSUME SessionInv, NEW srv, DOMAIN srv = ServerFields,
           \A f \in {"kex", "n", "in", "id", "held"} : srv[f] = server[f],
           server.authenticated => srv.authenticated
    PROVE  ServerLike(srv)
<1>1. srv.id = server.id /\ srv.held = server.held OBVIOUS
<1>2. \A p \in ToSet(srv.held) : Incoming(p, session.session_id, srv)
    BY <1>1, StaysGood DEF SessionInv, ServerOk
<1> QED BY <1>1, <1>2 DEF SessionInv, ServerOk, ServerLike

\* Packets that promise nothing.
LEMMA PromisesNothing ==
    ASSUME NEW type, type \notin {SERVICE_ACCEPT, USERAUTH_SUCCESS} \cup Replies,
           NEW what, NEW n, NEW id, NEW srv
    PROVE  Incoming(Msg(type, what, n), id, srv)
BY Written DEF Incoming

\* The server says that it leaves.
LEMMA ServerLeavesOk ==
    ASSUME SessionInv, ServerLeaves
    PROVE  ServerAfter
<1> DEFINE t == [server EXCEPT !.gone = TRUE]
           p == Msg(DISCONNECT, "", 0)
<1>1. server' = t /\ wire' = wire \o Stamped(<<p>>, server.out)
    BY DEF ServerLeaves, Writes
<1>2. DOMAIN t = ServerFields /\ \A f \in ServerFields \ {"gone"} : t[f] = server[f]
    BY DEF SessionInv, ServerOk
<1>3. IsPacket(p) /\ p.type = 1 BY Types DEF Msg, IsPacket, PacketTypes
<1> HIDE DEF t, p
<1>4. ServerLike(t) BY <1>2, LikeServer DEF ServerFields
<1>5. Incoming(p, session.session_id, t)
    BY <1>3, Types DEF Incoming, Replies, PacketTypes
<1> QED BY <1>1, <1>4, <1>5, WritesOneOk DEF ServerAfter

\* Our packet was read and is answered with nothing, or fails.
LEMMA StaysOk ==
    ASSUME SessionInv, server' = server, Silent
    PROVE  ServerAfter
<1>1. ServerLike(server) BY LikeServer DEF SessionInv, ServerOk
<1> QED BY <1>1, WireStays DEF ServerAfter, Silent

\* A refusal promises nothing.
LEMMA FailsItOk ==
    ASSUME SessionInv, FailsIt
    PROVE  ServerAfter
<1> DEFINE p == Msg(USERAUTH_FAILURE, "", 0)
<1>1. ServerLike(server) BY LikeServer DEF SessionInv, ServerOk
<1>2. IsPacket(p) /\ p.type = 51 BY Types DEF Msg, IsPacket, PacketTypes
<1>3. Answer(server, p) BY DEF FailsIt
<1> HIDE DEF p
<1>4. Incoming(p, session.session_id, server)
    BY <1>2, Types DEF Incoming, Replies, PacketTypes
<1> QED BY <1>1, <1>3, <1>4, AnswerOk

\* Who is told of a success is let in first.
LEMMA SucceedsOk ==
    ASSUME SessionInv, Succeeds
    PROVE  ServerAfter
<1> DEFINE t == [server EXCEPT !.authenticated = TRUE]
           p == Msg(USERAUTH_SUCCESS, "", 0)
<1>1. /\ DOMAIN t = ServerFields /\ t.authenticated
      /\ \A f \in ServerFields \ {"authenticated"} : t[f] = server[f]
    BY DEF SessionInv, ServerOk, ServerFields
<1>2. IsPacket(p) /\ p.type = 52 BY Types DEF Msg, IsPacket, PacketTypes
<1>3. Answer(t, p) BY DEF Succeeds
<1> HIDE DEF t, p
<1>4. ServerLike(t) BY <1>1, LikeServer DEF ServerFields
<1>5. Incoming(p, session.session_id, t)
    BY <1>1, <1>2, Types DEF Incoming, Replies, PacketTypes
<1> QED BY <1>3, <1>4, <1>5, AnswerOk

\* Neither does a question.
LEMMA ChallengesOk ==
    ASSUME SessionInv, NEW what, Challenges(what)
    PROVE  ServerAfter
<1>1. PICK n :
        Answer([server EXCEPT !.challenges = server.challenges + 1, !.prompts = n],
               Msg(USERAUTH_PK_OK, what, n))
    BY DEF Challenges
<1> DEFINE t == [server EXCEPT !.challenges = server.challenges + 1, !.prompts = n]
           p == Msg(USERAUTH_PK_OK, what, n)
<1>2. /\ DOMAIN t = ServerFields
      /\ \A f \in ServerFields \ {"challenges", "prompts"} : t[f] = server[f]
    BY DEF SessionInv, ServerOk, ServerFields
<1>3. Answer(t, p) BY <1>1
<1>4. Incoming(p, session.session_id, t)
    BY PromisesNothing, Types DEF Replies, PacketTypes
<1> HIDE DEF t, p
<1>5. ServerLike(t) BY <1>2, LikeServer DEF ServerFields
<1> QED BY <1>3, <1>4, <1>5, AnswerOk

\* A request is answered in one of these ways.
LEMMA ServerAuthenticatesOk ==
    ASSUME SessionInv, NEW p, ServerAuthenticates(p)
    PROVE  ServerAfter
<1>1. \/ server' = server /\ Silent
      \/ Succeeds \/ FailsIt \/ \E what : Challenges(what)
    BY DEF ServerAuthenticates
<1> QED BY <1>1, StaysOk, SucceedsOk, FailsItOk, ChallengesOk

\* A reply to a later exchange is to a client that has been through the first.
LEMMA ServerRepliesOk ==
    ASSUME SessionInv, NEW type \in Replies, NEW over, ServerReplies(type, over),
           server.in # Plain => session.session_id = 1
    PROVE  ServerAfter
<1> DEFINE key == server.method["HOSTKEY"]
           sig == Signature(key, over, IF key = "ssh-dss" THEN 40 ELSE 256)
           out == Keys(server.method, In, server.n, ServersId, server.n)
           what == [blob |-> key, sig |-> sig]
           p == Msg(type, what, server.n)
           q == Msg(NEWKEYS, "", server.n)
           t == [server EXCEPT !.kex = "newkeys", !.out = out, !.held = <<>>]
<1>1. /\ server' = t
      /\ wire' = wire \o Stamped(<<p, q>>, server.out) \o Stamped(server.held, out)
    BY DEF ServerReplies
<1>2. IsPacket(p) /\ p.type = type /\ p.n = server.n BY Written
<1>3. IsPacket(q) /\ q.type = 21 BY Types DEF Msg, IsPacket, PacketTypes
<1> HIDE DEF out, what
<1>4. /\ DOMAIN t = ServerFields /\ t.kex = "newkeys" /\ t.held = <<>>
      /\ \A f \in ServerFields \ {"kex", "out", "held"} : t[f] = server[f]
    BY DEF SessionInv, ServerOk, ServerFields
<1> HIDE DEF p, q, t
<1>5. ServerLike(t)
    BY <1>4, SeqShort DEF SessionInv, ServerOk, ServerLike, ServerFields
<1>6. server.n # 1 => session.session_id = 1 BY DEF SessionInv, ServerOk
<1>7. type \notin {SERVICE_ACCEPT, USERAUTH_SUCCESS}
    BY Types DEF Replies, PacketTypes
<1>8. Incoming(p, session.session_id, t) BY <1>2, <1>6, <1>7 DEF Incoming
<1>9. Incoming(q, session.session_id, t)
    BY <1>3, Types DEF Incoming, Replies, PacketTypes
<1> DEFINE signed == <<p, q>>
<1>10. IsSeq(signed) /\ \A m \in ToSet(signed) : Incoming(m, session.session_id, t)
    BY <1>8, <1>9, SeqShort
<1> HIDE DEF signed
<1> DEFINE w == wire \o Stamped(signed, server.out)
<1>11. WireOk(w, session, t) BY <1>5, <1>10, WireStays, WritesOk
<1>12. /\ IsSeq(server.held)
       /\ \A m \in ToSet(server.held) : Incoming(m, session.session_id, t)
    BY <1>5, StaysGood DEF SessionInv, ServerOk, ServerLike
<1>13. wire' = w \o Stamped(server.held, out) BY <1>1 DEF signed
<1> HIDE DEF w
<1>14. WireOk(w \o Stamped(server.held, out), session, t)
    BY <1>5, <1>11, <1>12, WritesOk
<1> QED BY <1>1, <1>5, <1>13, <1>14 DEF ServerAfter

\* The server's first keys are those of its first exchange.
LEMMA ServerTurnsOk ==
    ASSUME SessionInv, ServerTurns
    PROVE  ServerAfter
<1> DEFINE keys == Keys(server.method, Out, server.n, ServersId, server.n)
           id == IF server.id = 0 THEN server.n ELSE server.id
           t == [server EXCEPT !.kex = "none", !.id = id, !.in = keys]
<1>1. server' = t /\ wire' = wire BY DEF ServerTurns, Silent
<1>2. keys # Plain BY KeysAreKeys
<1>3. id = 1 BY DEF SessionInv, ServerOk
<1> HIDE DEF keys, id
<1>4. /\ DOMAIN t = ServerFields /\ t.id = 1 /\ t.in = keys
      /\ \A f \in ServerFields \ {"kex", "id", "in"} : t[f] = server[f]
    BY <1>3 DEF SessionInv, ServerOk, ServerFields
<1> HIDE DEF t
<1>5. /\ IsSeq(t.held)
      /\ \A p \in ToSet(t.held) : Incoming(p, session.session_id, t)
    BY <1>4, StaysGood DEF SessionInv, ServerOk, ServerFields
<1>6. ServerLike(t)
    BY <1>2, <1>4, <1>5 DEF SessionInv, ServerOk, ServerLike, ServerFields
<1> QED BY <1>1, <1>6, WireStays DEF ServerAfter

\* Agreeing on methods is nothing that was told.
LEMMA ServerAgreesOk ==
    ASSUME SessionInv, NEW choice, ServerAgrees(choice)
    PROVE  ServerAfter
<1> DEFINE t == [server EXCEPT !.kex = "init", !.method = choice]
<1>1. ServerLeaves \/ (server' = t /\ wire' = wire) BY DEF ServerAgrees, Silent
<1>2. CASE ServerLeaves BY <1>2, ServerLeavesOk
<1>3. CASE server' = t /\ wire' = wire
    <2>1. /\ DOMAIN t = ServerFields /\ t.kex = "init"
          /\ \A f \in ServerFields \ {"kex", "method"} : t[f] = server[f]
        BY DEF SessionInv, ServerOk, ServerFields
    <2> HIDE DEF t
    <2>2. /\ IsSeq(t.held)
          /\ \A p \in ToSet(t.held) : Incoming(p, session.session_id, t)
        BY <2>1, StaysGood DEF SessionInv, ServerOk, ServerFields
    <2>3. ServerLike(t)
        BY <2>1, <2>2 DEF SessionInv, ServerOk, ServerLike, ServerFields
    <2> QED BY <1>3, <2>3, WireStays DEF ServerAfter
<1> QED BY <1>1, <1>2, <1>3

\* A group is no key.
LEMMA GroupOk ==
    ASSUME SessionInv, server' = server,
           Writes(server, <<Msg(KEX_DH_GEX_GROUP, [blob |-> "group"], server.n)>>)
    PROVE  ServerAfter
<1> DEFINE what == [blob |-> "group"]
           p == Msg(KEX_DH_GEX_GROUP, what, server.n)
<1>1. wire' = wire \o Stamped(<<p>>, server.out) BY DEF Writes
<1>2. what.blob \in Unkeyed BY DEF Unkeyed
<1> HIDE DEF what
<1>3. IsPacket(p) /\ p.type = 31 /\ p.what = what BY Written, Types DEF PacketTypes
<1> HIDE DEF p
<1>4. Incoming(p, session.session_id, server)
    BY <1>2, <1>3, Types DEF Incoming, PacketTypes
<1>5. ServerLike(server) BY LikeServer DEF SessionInv, ServerOk
<1> QED BY <1>1, <1>4, <1>5, WritesOneOk DEF ServerAfter

\* The service is granted to who asked with keys.
LEMMA ServiceOk ==
    ASSUME SessionInv, NEW name, Answer(server, Msg(SERVICE_ACCEPT, name, 0)),
           session.session_id = 1, server.id = 1
    PROVE  ServerAfter
<1> DEFINE p == Msg(SERVICE_ACCEPT, name, 0)
<1>1. IsPacket(p) /\ p.type = 6 BY Written, Types DEF PacketTypes
<1>2. Answer(server, p) OBVIOUS
<1> HIDE DEF p
<1>3. Incoming(p, session.session_id, server)
    BY <1>1, Types DEF Incoming, Replies, PacketTypes
<1>4. ServerLike(server) BY LikeServer DEF SessionInv, ServerOk
<1> QED BY <1>2, <1>3, <1>4, AnswerOk

\* The server hangs up.
LEMMA ServerGoneOk ==
    ASSUME SessionInv, server' = [server EXCEPT !.gone = TRUE], Silent
    PROVE  ServerAfter
<1> DEFINE t == [server EXCEPT !.gone = TRUE]
<1>1. DOMAIN t = ServerFields /\ \A f \in ServerFields \ {"gone"} : t[f] = server[f]
    BY DEF SessionInv, ServerOk
<1>2. server' = t OBVIOUS
<1> HIDE DEF t
<1>3. ServerLike(t) BY <1>1, LikeServer DEF ServerFields
<1> QED BY <1>2, <1>3, WireStays DEF ServerAfter, Silent

\* What the server does with a packet of ours.
LEMMA ServerHandlesOk ==
    ASSUME SessionInv, NEW p, Outgoing(p, session.session_id, server), ServerHandles(p)
    PROVE  ServerAfter
<1>1. CASE p.keys # server.in BY <1>1, ServerLeavesOk DEF ServerHandles
<1>2. CASE p.keys = server.in
    <2>1. server.in # Plain => session.session_id = 1 BY <1>2 DEF Outgoing
    <2>2. p.type = SERVICE_REQUEST => session.session_id = 1 /\ server.id = 1
        BY <1>2 DEF Outgoing, SessionInv, ServerOk
    <2>3. \/ server' = server /\ Silent
          \/ server' = [server EXCEPT !.gone = TRUE] /\ Silent
          \/ ServerAgrees(ServersChoice(p.what))
          \/ \E over : ServerReplies(KEXDH_REPLY, over) \/ ServerReplies(KEX_DH_GEX_REPLY, over)
          \/ /\ server' = server
             /\ Writes(server, <<Msg(KEX_DH_GEX_GROUP, [blob |-> "group"], server.n)>>)
          \/ ServerTurns
          \/ /\ p.type = SERVICE_REQUEST
             /\ \E name : Answer(server, Msg(SERVICE_ACCEPT, name, 0))
          \/ FailsIt \/ \E q : ServerAuthenticates(q)
        BY <1>2 DEF ServerHandles
    <2>4. {KEXDH_REPLY, KEX_DH_GEX_REPLY} = Replies BY DEF Replies
    <2>5. CASE server' = server /\ Silent BY <2>5, StaysOk
    <2>6. CASE server' = [server EXCEPT !.gone = TRUE] /\ Silent BY <2>6, ServerGoneOk
    <2>7. CASE ServerAgrees(ServersChoice(p.what)) BY <2>7, ServerAgreesOk
    <2>8. CASE \E over :
                 ServerReplies(KEXDH_REPLY, over) \/ ServerReplies(KEX_DH_GEX_REPLY, over)
        BY <2>1, <2>4, <2>8, ServerRepliesOk
    <2>9. CASE /\ server' = server
               /\ Writes(server, <<Msg(KEX_DH_GEX_GROUP, [blob |-> "group"], server.n)>>)
        BY <2>9, GroupOk
    <2>10. CASE ServerTurns BY <2>10, ServerTurnsOk
    <2>11. CASE /\ p.type = SERVICE_REQUEST
                /\ \E name : Answer(server, Msg(SERVICE_ACCEPT, name, 0))
        BY <2>2, <2>11, ServiceOk
    <2>12. CASE FailsIt \/ \E q : ServerAuthenticates(q)
        BY <2>12, FailsItOk, ServerAuthenticatesOk
    <2> QED BY <2>3, <2>5, <2>6, <2>7, <2>8, <2>9, <2>10, <2>11, <2>12
<1> QED BY <1>1, <1>2

\* The server reads a packet of ours.
LEMMA ServerReceivesOk ==
    ASSUME SessionInv, ServerReceives
    PROVE  SessionInv'
<1>1. /\ session.out # <<>> /\ ServerHandles(Head(session.out))
      /\ session' = [session EXCEPT !.out = Tail(session.out)] /\ call' = call /\ kex' = kex
    BY DEF ServerReceives
<1>2. Outgoing(Head(session.out), session.session_id, server)
    BY <1>1, SeqTail DEF SessionInv, SessionOk
<1>3. ServerAfter BY <1>1, <1>2, ServerHandlesOk
<1> QED BY <1>1, <1>3, ServerStep

\* KEXINIT, and what may come with it on trust.
LEMMA HelloOk ==
    ASSUME NEW keys, NEW lists, NEW guess, NEW n, NEW id, NEW srv
    PROVE  /\ IsSeq(Hello(keys, lists, guess, n))
           /\ \A p \in ToSet(Hello(keys, lists, guess, n)) : Incoming(p, id, srv)
<1> DEFINE m == Msg(KEXINIT, lists, n)
           p == [Under(m, keys) EXCEPT !.guess = guess]
           what == [blob |-> "guess"]
           g == Msg(KEX_DH_GEX_GROUP, what, n)
           q == Under(g, keys)
           t == IF guess THEN <<q>> ELSE <<>>
<1>1. Hello(keys, lists, guess, n) = <<p>> \o t BY DEF Hello
<1>2. IsPacket(p) /\ p.type = 20
    <2>1. IsPacket(m) /\ m.type = 20 BY Written, Types DEF PacketTypes
    <2> HIDE DEF m
    <2>2. IsPacket(Under(m, keys)) /\ Under(m, keys).type = 20 BY <2>1, Rewritten
    <2> QED BY <2>2 DEF IsPacket
<1>3. IsPacket(q) /\ q.type = 31 /\ q.what.blob = "guess"
    <2>1. what.blob = "guess" OBVIOUS
    <2> HIDE DEF what
    <2>2. IsPacket(g) /\ g.type = 31 /\ g.what = what BY Written, Types DEF PacketTypes
    <2> HIDE DEF g
    <2> QED BY <2>1, <2>2, Rewritten
<1> HIDE DEF p, q
<1>4. Incoming(p, id, srv) BY <1>2, Types DEF Incoming, Replies, PacketTypes
<1>5. Incoming(q, id, srv) BY <1>3, Types DEF Incoming, Unkeyed, PacketTypes
<1>6. IsSeq(t) /\ \A r \in ToSet(t) : Incoming(r, id, srv) BY <1>5, SeqShort
<1>7. IsSeq(<<p>>) /\ ToSet(<<p>>) \subseteq {p} BY SeqShort
<1> HIDE DEF t
<1> DEFINE u == <<p>>
<1>8. IsSeq(u) /\ \A r \in ToSet(u) : Incoming(r, id, srv) BY <1>4, <1>7
<1> HIDE DEF u
<1>9. IsSeq(u \o t) /\ ToSet(u \o t) \subseteq ToSet(u) \cup ToSet(t)
    BY <1>6, <1>8, SeqConcat
<1> QED BY <1>1, <1>6, <1>8, <1>9 DEF u

\* Keys are exchanged again only with who has keys.
LEMMA ServerRekeysOk ==
    ASSUME SessionInv, ServerRekeys
    PROVE  SessionInv'
<1> DEFINE t == [server EXCEPT !.kex = "sent", !.n = server.n + 1]
           h == Hello(server.out, server.lists, server.guess, server.n + 1)
<1>1. /\ server.kex = "none" /\ server' = t /\ wire' = wire \o h
      /\ session' = session /\ call' = call /\ kex' = kex
    BY DEF ServerRekeys, Free
<1>2. server.id = 1 BY <1>1 DEF SessionInv, ServerOk
<1>3. DOMAIN t = ServerFields /\ \A f \in ServerFields \ {"kex", "n"} : t[f] = server[f]
    BY DEF SessionInv, ServerOk
<1>4. IsSeq(h) /\ \A p \in ToSet(h) : Incoming(p, session.session_id, t) BY HelloOk
<1> HIDE DEF t, h
<1>5. /\ IsSeq(t.held)
      /\ \A p \in ToSet(t.held) : Incoming(p, session.session_id, t)
    BY <1>3, StaysGood DEF SessionInv, ServerOk, ServerFields
<1>6. ServerLike(t)
    BY <1>2, <1>3, <1>5 DEF SessionInv, ServerOk, ServerLike, ServerFields
<1>7. WireOk(wire, session, t) BY <1>6, WireStays
<1>8. IsSeq(wire \o h) /\ ToSet(wire \o h) \subseteq ToSet(wire) \cup ToSet(h)
    BY <1>4, <1>7, SeqConcat DEF WireOk
<1>9. WireOk(wire \o h, session, t) BY <1>4, <1>7, <1>8 DEF WireOk
<1>10. ServerAfter BY <1>1, <1>6, <1>9 DEF ServerAfter
<1> QED BY <1>1, <1>10, ServerStep

\* The server's message for the user.
LEMMA ServerBannerOk ==
    ASSUME SessionInv, ServerBanner
    PROVE  SessionInv'
<1> DEFINE t == [server EXCEPT !.greeted = TRUE]
           p == Msg(USERAUTH_BANNER, "", 0)
<1>1. /\ server' = t /\ wire' = wire \o Stamped(<<p>>, server.out)
      /\ session' = session /\ call' = call /\ kex' = kex
    BY DEF ServerBanner, Writes
<1>2. DOMAIN t = ServerFields /\ \A f \in ServerFields \ {"greeted"} : t[f] = server[f]
    BY DEF SessionInv, ServerOk
<1>3. IsPacket(p) /\ p.type = 53 BY Types DEF Msg, IsPacket, PacketTypes
<1> HIDE DEF t, p
<1>4. ServerLike(t) BY <1>2, LikeServer DEF ServerFields
<1>5. Incoming(p, session.session_id, t)
    BY <1>3, Types DEF Incoming, Replies, PacketTypes
<1>6. ServerAfter BY <1>1, <1>4, <1>5, WritesOneOk DEF ServerAfter
<1> QED BY <1>1, <1>6, ServerStep

\* The server leaves of its own accord.
LEMMA ServerDisconnectsOk ==
    ASSUME SessionInv, ServerDisconnects
    PROVE  SessionInv'
<1>1. ServerLeaves /\ session' = session /\ call' = call /\ kex' = kex
    BY DEF ServerDisconnects
<1> QED BY <1>1, ServerLeavesOk, ServerStep

\* The connection ends under both.
LEMMA BreaksOk ==
    ASSUME SessionInv, Breaks
    PROVE  SessionInv'
<1>1. /\ server' = server /\ Silent /\ call' = call /\ kex' = kex
      /\ \E end : session' = [session EXCEPT !.link = end]
    BY DEF Breaks, Silent
<1> QED BY <1>1, StaysOk, ServerStep

-----------------------------------------------------------------------------
(* The specification *)

\* A session at first, of one choice.
Starts(choice) ==
    /\ session = [link |-> "up", socket_state |-> "CONNECTED", started |-> "no",
                  prefs |-> [k \in Kinds |-> <<>>], method |-> NoMethods,
                  secrets |-> 0, stream |-> 0, newkeys |-> FALSE,
                  exchanging |-> FALSE, kexinit |-> <<>>, burn |-> FALSE, session_id |-> 0,
                  authenticated |-> FALSE, packets |-> <<>>, tries |-> 0, out |-> <<>>]
    /\ wire = <<Msg(BANNER_LINE, "", 0)>> \o Hello(Plain, choice.lists, choice.guess, 1)
    /\ call = Idle
    /\ kex = NoKex
    /\ server = [lists |-> choice.lists, guess |-> choice.guess, kex |-> "sent",
                 n |-> 1, method |-> NoMethods, in |-> Plain, out |-> Plain,
                 id |-> 0, authenticated |-> FALSE, challenges |-> 0,
                 greeted |-> FALSE, held |-> <<>>, gone |-> FALSE, prompts |-> 0]

\* Every session starts so.
LEMMA InitStarts == Init => \E choice \in Sessions : Starts(choice)
BY DEF Init, Starts

\* At first nobody has keys, and what is on the way promises nothing.
LEMMA InitOk == Init => SessionInv
<1> SUFFICES ASSUME Init PROVE SessionInv OBVIOUS
<1>1. PICK choice \in Sessions : Starts(choice) BY InitStarts
<1>2. IsSeq(<<>>) /\ ToSet(<<>>) = {} BY SeqShort
<1>3. DOMAIN NoMethods = Kinds /\ NoMethods["HOSTKEY"] \notin Unkeyed
    BY KindsKnown DEF NoMethods, Unkeyed
<1>4. SessionOk(session, server)
    <2>1. DOMAIN session = SessionFields BY <1>1 DEF Starts, SessionFields
    <2>2. /\ session.packets = <<>> /\ session.out = <<>> /\ session.method = NoMethods
          /\ session.session_id = 0 /\ ~session.newkeys /\ ~session.authenticated
          /\ session.started = "no"
        BY <1>1 DEF Starts
    <2> QED BY <1>2, <1>3, <2>1, <2>2 DEF SessionOk
<1>5. KexOk(kex, session) BY <1>1 DEF Starts, KexOk, NoKex, KexStep
<1>6. CallOk(call, session) BY <1>1 DEF Starts, CallOk, Idle, Call, AuthCalls
<1>7. ServerOk(server, session)
    <2>1. DOMAIN server = ServerFields BY <1>1 DEF Starts, ServerFields
    <2>2. server.id = 0 /\ server.n = 1 /\ server.kex = "sent" /\ server.in = Plain
          /\ server.held = <<>>
        BY <1>1 DEF Starts
    <2> QED BY <1>2, <2>1, <2>2 DEF ServerOk
<1> DEFINE b == Msg(BANNER_LINE, "", 0)
           u == <<b>>
           h == Hello(Plain, choice.lists, choice.guess, 1)
<1>8. IsPacket(b) /\ b.type = 0 BY Types DEF Msg, IsPacket, PacketTypes
<1>9. wire = u \o h BY <1>1 DEF Starts
<1> HIDE DEF b
<1>10. Incoming(b, session.session_id, server)
    BY <1>8, Types DEF Incoming, Replies, PacketTypes
<1>11. IsSeq(u) /\ \A p \in ToSet(u) : Incoming(p, session.session_id, server)
    BY <1>10, SeqShort
<1>12. IsSeq(h) /\ \A p \in ToSet(h) : Incoming(p, session.session_id, server)
    BY HelloOk
<1> HIDE DEF u, h
<1>13. WireOk(wire, session, server)
    <2>1. IsSeq(u \o h) /\ ToSet(u \o h) \subseteq ToSet(u) \cup ToSet(h)
        BY <1>11, <1>12, SeqConcat
    <2> QED BY <1>9, <1>11, <1>12, <2>1 DEF WireOk
<1> QED BY <1>4, <1>5, <1>6, <1>7, <1>13 DEF SessionInv

\* Every step of the client, of the server and of the network keeps the invariant.
LEMMA StepOk == SessionInv /\ [Next]_vars => SessionInv'
<1> SUFFICES ASSUME SessionInv, [Next]_vars PROVE SessionInv' OBVIOUS
<1>1. CASE Begins
    BY <1>1, MethodPrefOk, UserauthPublickeyOk, UserauthHostbasedOk, StartupOk,
       AskingOk, PacketReadOk, SessionDisconnectOk
    DEF Begins
<1>2. CASE Continues
    BY <1>2, KexAgreesOk, ExchangeKeysOk, RequireQueuedOk, RequireReadOk,
       ReadArrivedOk, ReadEndsOk
    DEF Continues
<1>3. CASE TimesOut BY <1>3, ReadEndsOk
<1>4. CASE ServerReceives BY <1>4, ServerReceivesOk
<1>5. CASE ServerActs
    BY <1>5, ServerRekeysOk, ServerBannerOk, ServerDisconnectsOk, BreaksOk DEF ServerActs
<1>6. CASE UNCHANGED vars
    <2>1. /\ session' = session /\ wire' = wire /\ call' = call /\ kex' = kex
          /\ server' = server
        BY <1>6 DEF vars
    <2> QED BY <2>1 DEF SessionInv
<1> QED BY <1>1, <1>2, <1>3, <1>4, <1>5, <1>6 DEF Next

\* The invariant holds always: who has keys or an identifier has been through the
\* first exchange with the server, and the server knows.
THEOREM SessionCorrect == Spec => []SessionInv
BY InitOk, StepOk, PTL DEF Spec

\* Whatever packets mean and whenever they come, in calls that failed before, in a
\* re-exchange or after it, the application finds itself logged in only if the
\* server has let it in.
THEOREM AuthenticatedCorrect == Spec => []AuthenticatedBoth
<1>1. SessionInv => AuthenticatedBoth
    BY DEF SessionInv, SessionOk, AuthenticatedBoth, UserauthAuthenticated
<1> QED BY <1>1, SessionCorrect, PTL

\* What is signed is the hash of the first exchange, which is what the server knows
\* the session by, however many exchanges there have been since.
THEOREM SignsCorrect == Spec => []SignsTheSession
<1>1. SessionInv => SignsTheSession
    <2> SUFFICES ASSUME SessionInv, NEW i \in DOMAIN session.out,
                        session.out[i].type = USERAUTH_REQUEST,
                        session.out[i].what \in {"hostbased", "signed"}
                 PROVE  session.out[i].n = server.id
        BY DEF SignsTheSession
    <2>1. session.out[i] \in ToSet(session.out) BY DEF ToSet
    <2> QED BY <2>1 DEF SessionInv, SessionOk, Outgoing
<1> QED BY <1>1, SessionCorrect, PTL

-----------------------------------------------------------------------------
(* Where packets are *)

\* A sequence, and where its packets are.
Placed(q) == IsSeq(q) /\ Len(q) \in Nat /\ DOMAIN q = 1..Len(q)

\* A packet more at the end; the first packet gone; a packet gone from somewhere.
Longer(q, p, t) ==
    /\ Placed(q) /\ Placed(t) /\ Len(t) = Len(q) + 1
    /\ t[Len(q) + 1] = p /\ \A i \in 1..Len(q) : t[i] = q[i]
Shorter(q, t) ==
    /\ Placed(q) /\ Placed(t) /\ Len(q) = Len(t) + 1
    /\ \A i \in 1..Len(t) : t[i] = q[i + 1]
Without(q, x, t) ==
    /\ Placed(q) /\ Placed(t) /\ Len(q) = Len(t) + 1 /\ x \in 1..Len(q)
    /\ \A i \in 1..Len(t) : t[i] = q[IF i < x THEN i ELSE i + 1]

\* Several packets more at the end.
Joined(q, r, t) ==
    /\ Placed(q) /\ Placed(r) /\ Placed(t) /\ Len(t) = Len(q) + Len(r)
    /\ \A i \in 1..Len(q) : t[i] = q[i]
    /\ \A i \in 1..Len(r) : t[Len(q) + i] = r[i]

\* Every sequence has its packets from 1 on.
LEMMA PlacedOk == ASSUME NEW q, IsSeq(q) PROVE Placed(q)
BY DEF IsSeq, Placed

\* What Append does.
LEMMA AppendPlaces == ASSUME NEW q, IsSeq(q), NEW p PROVE Longer(q, p, Append(q, p))
<1>1. PICK S : q \in Seq(S) BY DEF IsSeq
<1> DEFINE T == S \cup {p}
<1>2. q \in Seq(T) /\ p \in T BY <1>1
<1> HIDE DEF T
<1>3. Append(q, p) \in Seq(T) /\ Len(Append(q, p)) = Len(q) + 1 BY <1>2
<1>4. Append(q, p)[Len(q) + 1] = p /\ \A i \in 1..Len(q) : Append(q, p)[i] = q[i]
    BY <1>2
<1>5. Placed(q) /\ Placed(Append(q, p)) BY <1>2, <1>3, PlacedOk DEF IsSeq
<1> QED BY <1>3, <1>4, <1>5 DEF Longer

\* What Tail does.
LEMMA TailPlaces ==
    ASSUME NEW q, IsSeq(q), q # <<>>
    PROVE  Shorter(q, Tail(q)) /\ Head(q) = q[1]
<1>1. PICK S : q \in Seq(S) BY DEF IsSeq
<1>2. Tail(q) \in Seq(S) /\ Len(q) = Len(Tail(q)) + 1 /\ Head(q) = q[1] BY <1>1
<1>3. \A i \in 1..Len(Tail(q)) : Tail(q)[i] = q[i + 1] BY <1>1
<1>4. Placed(q) /\ Placed(Tail(q)) BY <1>1, <1>2, PlacedOk DEF IsSeq
<1> QED BY <1>2, <1>3, <1>4 DEF Shorter

\* What concatenation does.
LEMMA ConcatPlaces ==
    ASSUME NEW q, IsSeq(q), NEW r, IsSeq(r)
    PROVE  Joined(q, r, q \o r)
<1>1. PICK S : q \in Seq(S) BY DEF IsSeq
<1>2. PICK T : r \in Seq(T) BY DEF IsSeq
<1> DEFINE U == S \cup T
<1>3. q \in Seq(U) /\ r \in Seq(U) BY <1>1, <1>2
<1> HIDE DEF U
<1>4. q \o r \in Seq(U) /\ Len(q \o r) = Len(q) + Len(r) BY <1>3
<1>5. /\ \A i \in 1..Len(q) : (q \o r)[i] = q[i]
      /\ \A i \in 1..Len(r) : (q \o r)[Len(q) + i] = r[i]
    BY <1>3
<1>6. Placed(q) /\ Placed(r) /\ Placed(q \o r) BY <1>3, <1>4, PlacedOk DEF IsSeq
<1> QED BY <1>4, <1>5, <1>6 DEF Joined

\* What RemoveAt does.
LEMMA RemovePlaces ==
    ASSUME NEW q, IsSeq(q), NEW x \in DOMAIN q
    PROVE  Without(q, x, RemoveAt(q, x))
<1>1. PICK S : q \in Seq(S) BY DEF IsSeq
<1> DEFINE a == SubSeq(q, 1, x - 1)
           b == SubSeq(q, x + 1, Len(q))
<1>2. x \in 1..Len(q) /\ Len(q) \in Nat BY <1>1
<1>3. RemoveAt(q, x) = a \o b BY DEF RemoveAt
<1>4. a \in Seq(S) /\ Len(a) = x - 1 /\ \A j \in 1..(x - 1) : a[j] = q[j] BY <1>1, <1>2
<1>5. b \in Seq(S) /\ Len(b) = Len(q) - x /\ \A j \in 1..(Len(q) - x) : b[j] = q[x + j]
    <2>1. b \in Seq(S) /\ Len(b) = Len(q) - x BY <1>1, <1>2
    <2>2. \A j \in 1..(Len(q) - x) : b[j] = q[(x + 1) + j - 1] BY <1>1, <1>2
    <2>3. \A j \in 1..(Len(q) - x) : (x + 1) + j - 1 = x + j BY <1>2
    <2> HIDE DEF b
    <2> QED BY <2>1, <2>2, <2>3
<1> HIDE DEF a, b
<1> DEFINE t == a \o b
<1>6. /\ t \in Seq(S) /\ Len(t) = Len(a) + Len(b)
      /\ \A i \in 1..Len(a) : t[i] = a[i]
      /\ \A i \in 1..Len(b) : t[Len(a) + i] = b[i]
    <2>1. IsSeq(a) /\ IsSeq(b) BY <1>4, <1>5 DEF IsSeq
    <2>2. Joined(a, b, t) BY <2>1, ConcatPlaces
    <2>3. t \in Seq(S)
        <3>1. a \in Seq(S) /\ b \in Seq(S) BY <1>4, <1>5
        <3> QED BY <3>1
    <2> HIDE DEF t
    <2> QED BY <2>2, <2>3 DEF Joined
<1> HIDE DEF t
<1>7. Len(q) = Len(t) + 1 /\ Len(t) \in Nat
    <2>1. Len(a) = x - 1 /\ Len(b) = Len(q) - x BY <1>4, <1>5
    <2>2. Len(t) = Len(a) + Len(b) /\ Len(t) \in Nat BY <1>6
    <2>3. PICK l \in Nat : l = Len(q) BY <1>2
    <2>4. x \in Int /\ Len(t) = (x - 1) + (l - x) BY <1>2, <2>1, <2>2, <2>3
    <2>5. Len(t) = l - 1 BY <2>3, <2>4
    <2> QED BY <2>2, <2>3, <2>5
<1>8. ASSUME NEW i \in 1..Len(t) PROVE t[i] = q[IF i < x THEN i ELSE i + 1]
    <2>1. CASE i < x
        <3>1. i \in 1..Len(a) /\ i \in 1..(x - 1) BY <1>2, <1>4, <1>7, <2>1
        <3>2. t[i] = q[i] BY <1>4, <1>6, <3>1
        <3> QED BY <2>1, <3>2
    <2>2. CASE ~(i < x)
        <3>1. PICK j \in Int : j = i - Len(a) BY <1>2, <1>4, <1>7
        <3>2. j \in 1..Len(b) /\ Len(a) + j = i /\ x + j = i + 1
            BY <1>2, <1>4, <1>5, <1>7, <2>2, <3>1
        <3>3. t[i] = b[j] /\ b[j] = q[x + j] BY <1>5, <1>6, <3>2
        <3> QED BY <2>2, <3>2, <3>3
    <2> QED BY <2>1, <2>2
<1>9. Placed(q) /\ Placed(t) BY <1>1, <1>6, PlacedOk DEF IsSeq
<1> QED BY <1>2, <1>3, <1>7, <1>8, <1>9 DEF Without, t

\* A packet that is read and taken leaves the others where they were.
LEMMA TakenBack ==
    ASSUME NEW q, NEW p, NEW r, Longer(q, p, r), NEW t, Without(r, Len(q) + 1, t)
    PROVE  t = q
<1>1. Len(q) \in Nat /\ Len(t) \in Nat /\ Len(t) = Len(q)
    <2>1. Len(q) \in Nat /\ Len(r) = Len(q) + 1 BY DEF Longer, Placed
    <2>2. Len(t) \in Nat /\ Len(r) = Len(t) + 1 BY DEF Without, Placed
    <2> QED BY <2>1, <2>2
<1>0. ASSUME NEW i \in 1..Len(q) PROVE t[i] = q[i]
    <2>1. i < Len(q) + 1 /\ i \in 1..Len(t) BY <1>1
    <2>2. t[i] = r[i] BY <2>1 DEF Without
    <2> QED BY <2>2 DEF Longer
<1>2. PICK S : q \in Seq(S) BY DEF Longer, Placed, IsSeq
<1>3. PICK T : t \in Seq(T) BY DEF Without, Placed, IsSeq
<1> QED BY <1>0, <1>1, <1>2, <1>3

-----------------------------------------------------------------------------
(* Keys in step: the inductive invariant *)

Has(q, type) == \E i \in DOMAIN q : q[i].type = type
AtMostOne(q, type) ==
    \A i, j \in DOMAIN q : q[i].type = type /\ q[j].type = type => i = j

\* Packets behind a NEWKEYS, and those that are not behind one.
Turns(q, i) == \E j \in DOMAIN q : j < i /\ q[j].type = NEWKEYS
Early(q, i) == \A j \in DOMAIN q : q[j].type = NEWKEYS => i < j

\* Packets on their way in one direction: up to NEWKEYS, if it is there, under the old
\* keys, and then under the new ones.
Turning(q, old, new, turns) ==
    /\ AtMostOne(q, NEWKEYS) /\ (Has(q, NEWKEYS) <=> turns)
    /\ \A i \in DOMAIN q : q[i].keys = IF Turns(q, i) THEN new ELSE old

\* The keys of exchange e with the methods m, of the first session: none at first.
\* Compression began in the same exchange.
KeysAt(m, way, e) == IF e = 0 THEN Plain ELSE Keys(m, way, e, 1, e)

\* What the two sides agree on, if they do: the client's first that the server has.
Preferred(ours, theirs) ==
    LET i == SelectInSeq(ours, LAMBDA m : m \in ToSet(theirs))
    IN  IF i = 0 THEN "" ELSE ours[i]
Choice(offered, lists) == [k \in Kinds |-> Preferred(offered[k], lists[k])]
Offers(s) == [k \in Kinds |-> Offer(s, k)]

\* Before and after the client has sent its value for the exchange.
Opening == {"kexinit", "agree", "agreed", "group"}
Closing == {"burn", "reply"}
Between == {"none", "newkeys"}
Values == {KEXDH_INIT, KEX_DH_GEX_INIT}
ReplyType(m) == IF m["KEX"] = Gex THEN KEX_DH_GEX_REPLY ELSE KEXDH_REPLY

\* Where the two sides are: the client with the keys of exchange c, at a step of the next
\* one, the server in its exchange n.
Phase(step, sk, c, n) ==
    /\ c \in Nat /\ n \in Nat /\ n > 0
    /\ \/ step = "none" /\ ((sk = "sent" /\ n = c + 1) \/ (sk \in {"newkeys", "none"} /\ n = c))
       \/ step \in Opening /\ sk \in {"sent", "init"} /\ n = c + 1
       \/ step \in Closing /\ sk \in {"sent", "init", "newkeys"} /\ n = c + 1
       \/ step = "newkeys" /\ ((sk = "sent" /\ n = c + 2) \/ (sk \in {"newkeys", "none"} /\ n = c + 1))

\* The exchange whose keys the server reads and writes with.
Reads(sk, n) == IF sk = "none" THEN n ELSE n - 1
Wrote(sk, n) == IF sk \in {"none", "newkeys"} THEN n ELSE n - 1

\* One NEWKEYS is on its way to the server, or from it.
OursTurns(step, sk) == sk = "newkeys" /\ step \in Between
TheirsTurns(step, sk) == step = "newkeys" \/ (step \in Closing /\ sk = "newkeys")

\* Our KEXINIT is on its way until the server has it.
AskInv(out, step, sk, offers) ==
    /\ AtMostOne(out, KEXINIT)
    /\ \A i \in DOMAIN out : out[i].type = KEXINIT =>
          sk = "sent" /\ step \in Opening \cup Closing /\ out[i].what = offers
    /\ sk = "sent" /\ step \in Opening => Has(out, KEXINIT)

\* Our value is behind our KEXINIT.
ValueInv(out, step, sk, m) ==
    \A i \in DOMAIN out : out[i].type \in Values =>
        /\ step \in Closing /\ sk \in {"sent", "init"}
        /\ out[i].type = KEX_DH_GEX_INIT <=> m["KEX"] = Gex
        /\ sk = "sent" => \E j \in DOMAIN out : j < i /\ out[j].type = KEXINIT
        /\ \A j \in DOMAIN out : out[j].type \in Values => i = j

\* The server's KEXINIT is on its way, behind the NEWKEYS of the exchange before and
\* with its guess behind it, until the client has it.
Greets(p, srv) ==
    /\ p.what = srv.lists /\ p.guess = srv.guess
    /\ "rekey" \notin uses => p.n = 1
GreetInv(packets, w, step, sk, c, srv) ==
    /\ AtMostOne(w, KEXINIT) /\ AtMostOne(packets, KEXINIT)
    /\ Has(packets, KEXINIT) => step = "kexinit" /\ ~Has(w, KEXINIT)
    /\ \A i \in DOMAIN packets : packets[i].type = KEXINIT => Greets(packets[i], srv)
    /\ \A i \in DOMAIN w : w[i].type = KEXINIT =>
          /\ (step = "kexinit" /\ c = 0) \/ (sk = "sent" /\ step \in Between)
          /\ Greets(w[i], srv)
          /\ srv.guess => \E j \in DOMAIN w : i < j /\ w[j].type = KEXDH_REPLY
          /\ \A j \in DOMAIN w : w[j].type = NEWKEYS => j < i
    /\ sk = "sent" /\ step \in Between => Has(w, KEXINIT)

\* A reply with a key, of which there is one: it is in the brigade or on its way.
ShowsKey(p) == p.type \in Replies /\ p.what.blob \notin Unkeyed
ShowInv(packets, w, step, sk, n) ==
    /\ \A i \in DOMAIN packets :
          ShowsKey(packets[i]) => sk = "newkeys" /\ step \in Closing /\ packets[i].n = n
    /\ \A i \in DOMAIN w : ShowsKey(w[i]) => sk = "newkeys" /\ step \in Closing /\ w[i].n = n
    /\ \A i, j \in DOMAIN packets : ShowsKey(packets[i]) /\ ShowsKey(packets[j]) => i = j
    /\ \A i, j \in DOMAIN w : ShowsKey(w[i]) /\ ShowsKey(w[j]) => i = j
    /\ \A i \in DOMAIN packets, j \in DOMAIN w : ~(ShowsKey(packets[i]) /\ ShowsKey(w[j]))

\* The client waits for no more packets than are to come before NEWKEYS: a guess, which
\* to another method looks like its reply, and a reply.
GuessDue(packets, w) == Has(packets, KEXDH_REPLY) \/ Has(w, KEXDH_REPLY)
DueInv(packets, w, step, asked, burn, sk, m, guess) ==
    /\ ~Has(packets, NEWKEYS)
    /\ step \in {"kexinit", "agree"} /\ guess => GuessDue(packets, w)
    /\ step = "agreed" /\ burn => GuessDue(packets, w) /\ m["KEX"] # Gex
    /\ step = "group" => ~burn /\ m["KEX"] = Gex
    /\ step = "burn" => GuessDue(packets, w) /\ m["KEX"] # Gex
    /\ step = "burn" /\ sk = "newkeys" =>
          \E i \in DOMAIN w :
             /\ w[i].type = KEXDH_REPLY /\ Early(w, i)
             /\ Has(packets, KEXDH_REPLY)
                \/ \E j \in DOMAIN w : j < i /\ w[j].type = KEXDH_REPLY
    /\ step = "reply" /\ sk = "newkeys" =>
          \/ Has(packets, ReplyType(m))
          \/ \E i \in DOMAIN w : w[i].type = ReplyType(m) /\ Early(w, i)
    /\ step = "reply" /\ asked => ~Has(packets, ReplyType(m))

\* The methods: from the agreement on those that both sides prefer. Either compression
\* began with the only exchange, or there is none.
Agreeing == {"agreed", "group", "burn", "reply", "newkeys"}
MethodInv(s, step, m, srv) ==
    /\ s.newkeys <=> s.secrets > 0
    /\ s.newkeys => \A k \in Kinds \ {"KEX", "HOSTKEY"} : s.method[k] = m[k]
    /\ (step = "none" /\ s.newkeys) \/ step \in Agreeing =>
           \A k \in Kinds : s.method[k] = m[k]
    /\ s.newkeys \/ step \in Agreeing =>
          \/ "rekey" \notin uses /\ s.stream = 1
          \/ m["COMP_CS"] = "none" /\ m["COMP_SC"] = "none"
    /\ "rekey" \notin uses => srv.n = 1
    /\ srv.kex # "sent" \/ srv.n # 1 => srv.method = m
    /\ step = "agree" => Greets(s.kexinit, srv)

InStepOf(m, offers, k, s, w, srv) ==
    /\ Phase(k.step, srv.kex, s.secrets, srv.n)
    /\ k.step = "newkeys" => k.h = s.secrets + 1
    /\ srv.in = KeysAt(m, Out, Reads(srv.kex, srv.n))
    /\ srv.out = KeysAt(m, In, Wrote(srv.kex, srv.n))
    /\ Turning(s.out, KeysAt(m, Out, Reads(srv.kex, srv.n)),
               KeysAt(m, Out, Reads(srv.kex, srv.n) + 1), OursTurns(k.step, srv.kex))
    /\ Turning(w, KeysAt(m, In, s.secrets), KeysAt(m, In, s.secrets + 1),
               TheirsTurns(k.step, srv.kex))
    /\ AskInv(s.out, k.step, srv.kex, offers)
    /\ ValueInv(s.out, k.step, srv.kex, m)
    /\ GreetInv(s.packets, w, k.step, srv.kex, s.secrets, srv)
    /\ ShowInv(s.packets, w, k.step, srv.kex, srv.n)
    /\ DueInv(s.packets, w, k.step, k.asked, s.burn, srv.kex, m, srv.guess)
    /\ MethodInv(s, k.step, m, srv)

\* Keys are exchanged once, or nothing is compressed: a compression that both sides
\* agreed on begins anew with the agreement, and not with the keys.
Uncompressed ==
    \/ "rekey" \notin uses
    \/ \A k \in {"COMP_CS", "COMP_SC"} : "zlib" \notin ToSet(server.lists[k])
Live == session.link = "up" /\ ~server.gone /\ ~Hopes /\ Uncompressed

\* What is true of sessions that are broken, too.
BannerInv ==
    \A i \in DOMAIN wire : wire[i].type = BANNER_LINE =>
        i = 1 /\ ~session.exchanging /\ session.secrets = 0
HeldTypes == {SERVICE_ACCEPT, USERAUTH_FAILURE, USERAUTH_SUCCESS, USERAUTH_PK_OK}
BaseInv ==
    /\ BannerInv
    /\ \A p \in ToSet(server.held) : p.type \in HeldTypes
    /\ Exchanging => session.exchanging /\ call.fn # "none"
    /\ call.fn = "none" => call.need = <<>>
    /\ kex.asked \in BOOLEAN
    /\ session.started = "no" =>
          session.out = <<>> /\ ~Exchanging /\ session.secrets = 0 /\ call.fn = "none"
    /\ server.guess => Head(server.lists["KEX"]) = Gex
InStep ==
    InStepOf(Choice(Offers(session), server.lists), Offers(session), kex, session, wire, server)
KeysInv == BaseInv /\ (Live => InStep)

\* Writing under keys leaves packets where they are.
LEMMA StampedPlaces ==
    ASSUME NEW s, IsSeq(s), NEW keys
    PROVE  /\ Placed(s) /\ Placed(Stamped(s, keys)) /\ Len(Stamped(s, keys)) = Len(s)
           /\ \A i \in 1..Len(s) : Stamped(s, keys)[i] = Under(s[i], keys)
<1>1. IsSeq(Stamped(s, keys)) BY SeqStamped
<1>2. Placed(s) /\ Placed(Stamped(s, keys)) BY <1>1, PlacedOk
<1>3. DOMAIN Stamped(s, keys) = DOMAIN s BY DEF Stamped
<1>4. Len(Stamped(s, keys)) = Len(s)
    <2>1. PICK a \in Nat : a = Len(s) BY <1>2 DEF Placed
    <2>2. PICK b \in Nat : b = Len(Stamped(s, keys)) BY <1>2 DEF Placed
    <2>3. 1..a = 1..b BY <1>2, <1>3, <2>1, <2>2 DEF Placed
    <2>4. (a > 0 => a \in 1..b) /\ (b > 0 => b \in 1..a) BY <2>3
    <2> QED BY <2>1, <2>2, <2>4
<1>5. \A i \in 1..Len(s) : Stamped(s, keys)[i] = Under(s[i], keys)
    BY <1>2 DEF Stamped, Placed
<1> QED BY <1>2, <1>4, <1>5

-----------------------------------------------------------------------------
(* Packets on their way in one direction *)

\* A packet, other than NEWKEYS, under the keys of the last one.
LEMMA TurningAppends ==
    ASSUME NEW q, NEW p, NEW t, Longer(q, p, t), NEW old, NEW new, NEW turns \in BOOLEAN,
           Turning(q, old, new, turns), p.type # NEWKEYS,
           p.keys = IF turns THEN new ELSE old
    PROVE  Turning(t, old, new, turns)
<1>1. /\ Len(q) \in Nat /\ DOMAIN q = 1..Len(q) /\ DOMAIN t = 1..(Len(q) + 1)
      /\ t[Len(q) + 1] = p /\ \A i \in 1..Len(q) : t[i] = q[i]
    BY DEF Longer, Placed
<1>2. AtMostOne(t, NEWKEYS) BY <1>1 DEF Turning, AtMostOne
<1>3. Has(t, NEWKEYS) <=> Has(q, NEWKEYS) BY <1>1 DEF Has
<1>4. \A i \in DOMAIN q : Turns(t, i) <=> Turns(q, i) BY <1>1 DEF Turns
<1>5. Turns(t, Len(q) + 1) <=> Has(q, NEWKEYS) BY <1>1 DEF Turns, Has
<1> QED BY <1>1, <1>2, <1>3, <1>4, <1>5 DEF Turning

\* NEWKEYS itself is under the old ones.
LEMMA TurningAppendsNewKeys ==
    ASSUME NEW q, NEW p, NEW t, Longer(q, p, t), NEW old, NEW new,
           Turning(q, old, new, FALSE), p.type = NEWKEYS, p.keys = old
    PROVE  Turning(t, old, new, TRUE)
<1>1. /\ Len(q) \in Nat /\ DOMAIN q = 1..Len(q) /\ DOMAIN t = 1..(Len(q) + 1)
      /\ t[Len(q) + 1] = p /\ \A i \in 1..Len(q) : t[i] = q[i]
    BY DEF Longer, Placed
<1>2. \A i \in DOMAIN q : q[i].type # NEWKEYS /\ q[i].keys = old
    BY DEF Turning, Has, Turns
<1>3. AtMostOne(t, NEWKEYS) BY <1>1, <1>2 DEF AtMostOne
<1>4. Has(t, NEWKEYS) BY <1>1 DEF Has
<1>5. \A i \in DOMAIN t : ~Turns(t, i) BY <1>1, <1>2 DEF Turns
<1> QED BY <1>1, <1>2, <1>3, <1>4, <1>5 DEF Turning

\* Several packets, none of them NEWKEYS.
LEMMA TurningJoins ==
    ASSUME NEW q, NEW r, NEW t, Joined(q, r, t), NEW old, NEW new, NEW turns \in BOOLEAN,
           Turning(q, old, new, turns),
           \A i \in 1..Len(r) :
               r[i].type # NEWKEYS /\ r[i].keys = IF turns THEN new ELSE old
    PROVE  Turning(t, old, new, turns)
<1>1. /\ Len(q) \in Nat /\ DOMAIN q = 1..Len(q) /\ Len(r) \in Nat
      /\ DOMAIN t = 1..(Len(q) + Len(r))
      /\ \A i \in 1..Len(q) : t[i] = q[i]
      /\ \A i \in 1..Len(r) : t[Len(q) + i] = r[i]
    BY DEF Joined, Placed
<1>2. ASSUME NEW i \in DOMAIN t, i \notin DOMAIN q
      PROVE  t[i].type # NEWKEYS /\ t[i].keys = IF turns THEN new ELSE old
    <2>1. PICK j \in 1..Len(r) : i = Len(q) + j
        <3>1. i - Len(q) \in 1..Len(r) /\ i = Len(q) + (i - Len(q)) BY <1>1, <1>2
        <3> QED BY <3>1
    <2> QED BY <1>1, <2>1
<1>3. \A i \in DOMAIN q : i \in DOMAIN t /\ t[i] = q[i] BY <1>1
<1>4. AtMostOne(t, NEWKEYS) BY <1>2, <1>3 DEF Turning, AtMostOne
<1>5. Has(t, NEWKEYS) <=> Has(q, NEWKEYS) BY <1>2, <1>3 DEF Has
<1>6. \A i \in DOMAIN q : Turns(t, i) <=> Turns(q, i) BY <1>2, <1>3 DEF Turns
<1>7. ASSUME NEW i \in DOMAIN t, i \notin DOMAIN q
      PROVE  Turns(t, i) <=> Has(q, NEWKEYS)
    <2>1. \A j \in DOMAIN q : j < i BY <1>1, <1>7
    <2> QED BY <1>2, <1>3, <2>1 DEF Turns, Has
<1>8. ASSUME NEW i \in DOMAIN t PROVE t[i].keys = IF Turns(t, i) THEN new ELSE old
    <2>1. CASE i \in DOMAIN q BY <1>3, <1>6, <2>1 DEF Turning
    <2>2. CASE i \notin DOMAIN q BY <1>2, <1>7, <2>2 DEF Turning
    <2> QED BY <2>1, <2>2
<1> QED BY <1>4, <1>5, <1>8 DEF Turning

\* The first packet is written with the old keys; without it, the others are as before.
LEMMA TurningTail ==
    ASSUME NEW q, NEW t, Shorter(q, t), NEW old, NEW new, NEW turns \in BOOLEAN,
           Turning(q, old, new, turns), q[1].type # NEWKEYS
    PROVE  Turning(t, old, new, turns)
<1>1. /\ Len(t) \in Nat /\ DOMAIN t = 1..Len(t) /\ DOMAIN q = 1..(Len(t) + 1)
      /\ \A i \in 1..Len(t) : t[i] = q[i + 1]
    BY DEF Shorter, Placed
<1>2. \A i \in DOMAIN t : i \in Nat /\ i + 1 \in DOMAIN q /\ t[i] = q[i + 1] BY <1>1
<1>3. \A i \in DOMAIN q : i = 1 \/ (i - 1 \in DOMAIN t /\ q[i] = t[i - 1]) BY <1>1
<1>4. AtMostOne(t, NEWKEYS)
    <2>1. ASSUME NEW i \in DOMAIN t, NEW j \in DOMAIN t, t[i].type = NEWKEYS,
                 t[j].type = NEWKEYS
          PROVE  i = j
        <3>1. i + 1 = j + 1 BY <1>2, <2>1 DEF Turning, AtMostOne
        <3> QED BY <1>2, <3>1
    <2> QED BY <2>1 DEF AtMostOne
<1>5. Has(t, NEWKEYS) <=> Has(q, NEWKEYS) BY <1>2, <1>3 DEF Has
<1>6. ASSUME NEW i \in DOMAIN t PROVE Turns(t, i) <=> Turns(q, i + 1)
    <2>1. ASSUME NEW j \in DOMAIN t, j < i, t[j].type = NEWKEYS PROVE Turns(q, i + 1)
        <3>1. j + 1 \in DOMAIN q /\ j + 1 < i + 1 /\ q[j + 1].type = NEWKEYS
            BY <1>2, <2>1
        <3> QED BY <3>1 DEF Turns
    <2>2. ASSUME NEW j \in DOMAIN q, j < i + 1, q[j].type = NEWKEYS PROVE Turns(t, i)
        <3>1. j - 1 \in DOMAIN t /\ j - 1 < i /\ t[j - 1].type = NEWKEYS
            BY <1>1, <1>2, <1>3, <2>2
        <3> QED BY <3>1 DEF Turns
    <2> QED BY <2>1, <2>2 DEF Turns
<1> QED BY <1>2, <1>4, <1>5, <1>6 DEF Turning

\* Behind NEWKEYS all are written with the new keys.
LEMMA TurningTailNewKeys ==
    ASSUME NEW q, NEW t, Shorter(q, t), NEW old, NEW new, NEW newer,
           Turning(q, old, new, TRUE), q[1].type = NEWKEYS
    PROVE  Turning(t, new, newer, FALSE)
<1>1. /\ Len(t) \in Nat /\ DOMAIN t = 1..Len(t) /\ DOMAIN q = 1..(Len(t) + 1)
      /\ \A i \in 1..Len(t) : t[i] = q[i + 1]
    BY DEF Shorter, Placed
<1>2. 1 \in DOMAIN q BY <1>1
<1>3. \A i \in DOMAIN t : i + 1 \in DOMAIN q /\ i + 1 # 1 /\ 1 < i + 1 /\ t[i] = q[i + 1]
    BY <1>1
<1>4. \A i \in DOMAIN t : t[i].type # NEWKEYS BY <1>2, <1>3 DEF Turning, AtMostOne
<1>5. \A i \in DOMAIN t : t[i].keys = new
    <2>1. \A i \in DOMAIN t : Turns(q, i + 1) BY <1>2, <1>3 DEF Turns
    <2> QED BY <1>3, <2>1 DEF Turning
<1> QED BY <1>4, <1>5 DEF Turning, AtMostOne, Has, Turns

\* When it is there, one side has turned and the other has not.
LEMMA TurningNow ==
    ASSUME NEW q, NEW i \in DOMAIN q, NEW old, NEW new, NEW turns \in BOOLEAN,
           Turning(q, old, new, turns), q[i].type = NEWKEYS
    PROVE  turns
BY DEF Turning, Has

\* As long as NEWKEYS is not there, all are written with the old keys.
LEMMA TurningOld ==
    ASSUME NEW q, NEW old, NEW new, Turning(q, old, new, FALSE), NEW newer
    PROVE  Turning(q, old, newer, FALSE)
BY DEF Turning, Turns, Has

\* The next packet has the keys of its reader.
LEMMA TurningHead ==
    ASSUME NEW q, Placed(q), q # <<>>, NEW old, NEW new, NEW turns,
           Turning(q, old, new, turns)
    PROVE  q[1].keys = old
<1>1. DOMAIN q = 1..Len(q) /\ Len(q) \in Nat BY DEF Placed
<1>2. Len(q) # 0
    <2>1. PICK S : q \in Seq(S) BY DEF Placed, IsSeq
    <2> QED BY <2>1
<1>3. 1 \in DOMAIN q /\ ~Turns(q, 1) BY <1>1, <1>2 DEF Turns
<1> QED BY <1>3 DEF Turning

\* Where packets are, once one more is there, or some more, or one less.
LEMMA LongerPlaces ==
    ASSUME NEW q, NEW p, NEW t, Longer(q, p, t)
    PROVE  /\ \A i \in DOMAIN q : i \in DOMAIN t /\ t[i] = q[i]
           /\ \A i \in DOMAIN t : (i \in DOMAIN q /\ t[i] = q[i]) \/ (i = Len(t) /\ t[i] = p)
           /\ Len(t) \in DOMAIN t /\ t[Len(t)] = p
           /\ \A i \in DOMAIN q : i \in Nat /\ i < Len(t) /\ i # Len(t)
<1>1. /\ Len(q) \in Nat /\ DOMAIN q = 1..Len(q) /\ DOMAIN t = 1..(Len(q) + 1)
      /\ t[Len(q) + 1] = p /\ Len(t) = Len(q) + 1
      /\ \A i \in 1..Len(q) : t[i] = q[i]
    BY DEF Longer, Placed
<1> QED BY <1>1

\* And once some more are there.
LEMMA JoinedPlaces ==
    ASSUME NEW q, NEW r, NEW t, Joined(q, r, t)
    PROVE  /\ Len(q) \in Nat /\ Len(r) \in Nat /\ DOMAIN q = 1..Len(q)
           /\ \A i \in DOMAIN q : i \in DOMAIN t /\ t[i] = q[i]
           /\ \A j \in 1..Len(r) : Len(q) + j \in DOMAIN t /\ t[Len(q) + j] = r[j]
           /\ \A i \in DOMAIN t :
                 \/ i \in DOMAIN q /\ t[i] = q[i]
                 \/ \E j \in 1..Len(r) : i = Len(q) + j /\ t[i] = r[j]
<1>1. /\ Len(q) \in Nat /\ DOMAIN q = 1..Len(q) /\ Len(r) \in Nat
      /\ DOMAIN t = 1..(Len(q) + Len(r))
      /\ \A i \in 1..Len(q) : t[i] = q[i]
      /\ \A i \in 1..Len(r) : t[Len(q) + i] = r[i]
    BY DEF Joined, Placed
<1>2. ASSUME NEW i \in DOMAIN t, i \notin DOMAIN q
      PROVE  \E j \in 1..Len(r) : i = Len(q) + j /\ t[i] = r[j]
    <2>1. PICK j \in Int : j = i - Len(q) BY <1>1, <1>2
    <2>2. j \in 1..Len(r) /\ i = Len(q) + j BY <1>1, <1>2, <2>1
    <2> QED BY <1>1, <2>2
<1> QED BY <1>1, <1>2

\* And once the first is gone.
LEMMA ShorterPlaces ==
    ASSUME NEW q, NEW t, Shorter(q, t)
    PROVE  /\ 1 \in DOMAIN q
           /\ \A i \in DOMAIN t : i \in Nat /\ i + 1 \in DOMAIN q /\ t[i] = q[i + 1] /\ i + 1 # 1
           /\ \A i \in DOMAIN q :
                 i \in Nat /\ (i = 1 \/ (1 < i /\ i - 1 \in DOMAIN t /\ q[i] = t[i - 1]))
<1>1. /\ Len(t) \in Nat /\ DOMAIN t = 1..Len(t) /\ DOMAIN q = 1..(Len(t) + 1)
      /\ \A i \in 1..Len(t) : t[i] = q[i + 1]
    BY DEF Shorter, Placed
<1> QED BY <1>1

\* Every packet left was there, in its own place.
LEMMA WithoutPlaces ==
    ASSUME NEW q, NEW x, NEW t, Without(q, x, t)
    PROVE  \E place \in [DOMAIN t -> DOMAIN q] :
              /\ \A i \in DOMAIN t : t[i] = q[place[i]] /\ place[i] # x
              /\ \A i, j \in DOMAIN t : place[i] = place[j] => i = j
              /\ \A j \in DOMAIN q : j = x \/ \E i \in DOMAIN t : place[i] = j
<1>1. /\ Len(t) \in Nat /\ DOMAIN t = 1..Len(t) /\ DOMAIN q = 1..(Len(t) + 1)
      /\ x \in 1..(Len(t) + 1)
      /\ \A i \in 1..Len(t) : t[i] = q[IF i < x THEN i ELSE i + 1]
    BY DEF Without, Placed
<1> DEFINE place == [i \in DOMAIN t |-> IF i < x THEN i ELSE i + 1]
<1>2. place \in [DOMAIN t -> DOMAIN q] BY <1>1
<1>3. \A i \in DOMAIN t : t[i] = q[place[i]] /\ place[i] # x BY <1>1
<1>4. \A i, j \in DOMAIN t : place[i] = place[j] => i = j BY <1>1
<1>5. ASSUME NEW j \in DOMAIN q, j # x PROVE \E i \in DOMAIN t : place[i] = j
    <2>1. CASE j < x
        <3>1. j \in DOMAIN t BY <1>1, <2>1
        <3> QED BY <2>1, <3>1
    <2>2. CASE x < j
        <3>1. j - 1 \in DOMAIN t /\ ~(j - 1 < x) /\ (j - 1) + 1 = j BY <1>1, <2>2
        <3> QED BY <3>1
    <2> QED BY <1>1, <1>5, <2>1, <2>2
<1> QED BY <1>2, <1>3, <1>4, <1>5

-----------------------------------------------------------------------------
(* Our KEXINIT and our value *)

\* Something else is written.
LEMMA AskAppends ==
    ASSUME NEW q, NEW p, NEW t, Longer(q, p, t), NEW step, NEW step2, NEW sk, NEW offers,
           AskInv(q, step, sk, offers), p.type # KEXINIT,
           sk = "sent" /\ step \in Opening \cup Closing => step2 \in Opening \cup Closing,
           sk = "sent" /\ step2 \in Opening => step \in Opening
    PROVE  AskInv(t, step2, sk, offers)
BY LongerPlaces DEF AskInv, AtMostOne, Has

\* KEXINIT is written.
LEMMA AskAppendsHello ==
    ASSUME NEW q, NEW p, NEW t, Longer(q, p, t), NEW step, step \in Between, NEW sk,
           NEW offers, AskInv(q, step, sk, offers), p.type = KEXINIT, p.what = offers
    PROVE  AskInv(t, "kexinit", "sent", offers)
<1>1. step \notin Opening \cup Closing /\ "kexinit" \in Opening
    BY DEF Opening, Closing, Between
<1>2. \A i \in DOMAIN q : q[i].type # KEXINIT BY <1>1 DEF AskInv
<1> QED BY <1>1, <1>2, LongerPlaces DEF AskInv, AtMostOne, Has

\* Something else is read.
LEMMA AskTail ==
    ASSUME NEW q, NEW t, Shorter(q, t), NEW step, NEW sk, NEW offers,
           AskInv(q, step, sk, offers), q[1].type # KEXINIT
    PROVE  AskInv(t, step, sk, offers)
<1>1. /\ \A i \in DOMAIN t : i \in Nat /\ i + 1 \in DOMAIN q /\ t[i] = q[i + 1]
      /\ \A i \in DOMAIN q : i = 1 \/ (i - 1 \in DOMAIN t /\ q[i] = t[i - 1])
    BY ShorterPlaces
<1>2. AtMostOne(t, KEXINIT)
    <2>1. ASSUME NEW i \in DOMAIN t, NEW j \in DOMAIN t, t[i].type = KEXINIT,
                 t[j].type = KEXINIT
          PROVE  i = j
        <3>1. i + 1 = j + 1 BY <1>1, <2>1 DEF AskInv, AtMostOne
        <3> QED BY <1>1, <3>1
    <2> QED BY <2>1 DEF AtMostOne
<1>3. Has(q, KEXINIT) => Has(t, KEXINIT) BY <1>1 DEF Has
<1> QED BY <1>1, <1>2, <1>3 DEF AskInv

\* KEXINIT is read.
LEMMA AskTailHello ==
    ASSUME NEW q, NEW t, Shorter(q, t), NEW step, NEW sk, NEW offers,
           AskInv(q, step, sk, offers), q[1].type = KEXINIT
    PROVE  /\ sk = "sent" /\ step \in Opening \cup Closing /\ q[1].what = offers
           /\ AskInv(t, step, "init", offers)
<1>1. 1 \in DOMAIN q BY ShorterPlaces
<1>2. \A i \in DOMAIN t : t[i].type # KEXINIT
    BY <1>1, ShorterPlaces DEF AskInv, AtMostOne
<1> QED BY <1>1, <1>2 DEF AskInv, AtMostOne

\* Once the server has it, it is not there.
LEMMA AskLater ==
    ASSUME NEW q, NEW step, NEW sk, NEW offers, AskInv(q, step, sk, offers),
           sk # "sent" \/ step \in Between, NEW step2, NEW sk2,
           sk2 # "sent" \/ step2 \notin Opening
    PROVE  AskInv(q, step2, sk2, offers)
<1>1. step \in Between => step \notin Opening \cup Closing
    BY DEF Opening, Closing, Between
<1> QED BY <1>1 DEF AskInv, AtMostOne

\* The exchange goes on.
LEMMA AskStep ==
    ASSUME NEW q, NEW step, NEW sk, NEW offers, AskInv(q, step, sk, offers), NEW step2,
           \/ step \in Opening /\ step2 \in Opening
           \/ step \in Closing /\ step2 \in Closing
           \/ step \in Between /\ step2 \in Between
    PROVE  AskInv(q, step2, sk, offers)
BY DEF AskInv, Opening, Closing, Between

\* Something else than a value is written.
LEMMA ValueAppends ==
    ASSUME NEW q, NEW p, NEW t, Longer(q, p, t), NEW step, NEW step2, NEW sk, NEW m,
           ValueInv(q, step, sk, m), p.type \notin Values,
           step \in Closing => step2 \in Closing \/ sk \notin {"sent", "init"}
    PROVE  ValueInv(t, step2, sk, m)
BY LongerPlaces DEF ValueInv

\* The value is written.
LEMMA ValueAppendsValue ==
    ASSUME NEW q, NEW p, NEW t, Longer(q, p, t), NEW step, step \notin Closing,
           NEW step2 \in Closing, NEW sk \in {"sent", "init"}, NEW m,
           ValueInv(q, step, sk, m), p.type \in Values,
           p.type = KEX_DH_GEX_INIT <=> m["KEX"] = Gex,
           sk = "sent" => Has(q, KEXINIT)
    PROVE  ValueInv(t, step2, sk, m)
<1>1. \A i \in DOMAIN q : q[i].type \notin Values BY DEF ValueInv
<1> QED BY <1>1, LongerPlaces DEF ValueInv, Has

\* Something else is read.
LEMMA ValueTail ==
    ASSUME NEW q, NEW t, Shorter(q, t), NEW step, NEW sk, NEW m, ValueInv(q, step, sk, m),
           NEW sk2, q[1].type \notin Values,
           \/ q[1].type # KEXINIT /\ sk2 = sk
           \/ sk2 = "init"
    PROVE  ValueInv(t, step, sk2, m)
<1>1. /\ \A i \in DOMAIN t : i \in Nat /\ i + 1 \in DOMAIN q /\ t[i] = q[i + 1]
      /\ \A i \in DOMAIN q :
            i \in Nat /\ (i = 1 \/ (1 < i /\ i - 1 \in DOMAIN t /\ q[i] = t[i - 1]))
    BY ShorterPlaces
<1> SUFFICES ASSUME NEW i \in DOMAIN t, t[i].type \in Values
             PROVE  /\ step \in Closing /\ sk2 \in {"sent", "init"}
                    /\ t[i].type = KEX_DH_GEX_INIT <=> m["KEX"] = Gex
                    /\ sk2 = "sent" => \E j \in DOMAIN t : j < i /\ t[j].type = KEXINIT
                    /\ \A j \in DOMAIN t : t[j].type \in Values => i = j
    BY DEF ValueInv
<1>2. i \in Nat /\ i + 1 \in DOMAIN q /\ q[i + 1].type \in Values BY <1>1
<1>3. step \in Closing /\ sk \in {"sent", "init"} BY <1>2 DEF ValueInv
<1>4. t[i].type = KEX_DH_GEX_INIT <=> m["KEX"] = Gex BY <1>1, <1>2 DEF ValueInv
<1>5. ASSUME sk2 = "sent" PROVE \E j \in DOMAIN t : j < i /\ t[j].type = KEXINIT
    <2>1. sk = "sent" /\ q[1].type # KEXINIT BY <1>5
    <2>2. PICK j \in DOMAIN q : j < i + 1 /\ q[j].type = KEXINIT
        BY <1>2, <2>1 DEF ValueInv
    <2>3. j - 1 \in DOMAIN t /\ j - 1 < i /\ t[j - 1].type = KEXINIT
        BY <1>1, <1>2, <2>1, <2>2
    <2> QED BY <2>3
<1>6. ASSUME NEW j \in DOMAIN t, t[j].type \in Values PROVE i = j
    <2>1. j \in Nat /\ j + 1 \in DOMAIN q /\ q[j + 1].type \in Values BY <1>1, <1>6
    <2>2. i + 1 = j + 1 BY <1>2, <2>1 DEF ValueInv
    <2> QED BY <1>2, <2>1, <2>2
<1> QED BY <1>3, <1>4, <1>5, <1>6

\* The value is read.
LEMMA ValueTailValue ==
    ASSUME NEW q, NEW t, Shorter(q, t), NEW step, NEW sk, NEW m, ValueInv(q, step, sk, m),
           q[1].type \in Values, KEXINIT \notin Values
    PROVE  /\ step \in Closing /\ sk = "init"
           /\ q[1].type = KEX_DH_GEX_INIT <=> m["KEX"] = Gex
           /\ \A step2, sk2 : ValueInv(t, step2, sk2, m)
<1>1. 1 \in DOMAIN q BY ShorterPlaces
<1>2. \A i \in DOMAIN q : i \in Nat /\ (i = 1 \/ 1 < i) BY ShorterPlaces
<1>3. sk # "sent" BY <1>1, <1>2 DEF ValueInv
<1>4. \A i \in DOMAIN t : t[i].type \notin Values
    <2>1. \A i \in DOMAIN t : i + 1 \in DOMAIN q /\ i + 1 # 1 /\ t[i] = q[i + 1]
        BY ShorterPlaces
    <2> QED BY <1>1, <2>1 DEF ValueInv
<1> QED BY <1>1, <1>3, <1>4 DEF ValueInv

\* There is none before it is written, and none after it was read.
LEMMA ValueStep ==
    ASSUME NEW q, NEW step, NEW sk, NEW m, ValueInv(q, step, sk, m), NEW step2, NEW sk2,
           \/ step \notin Closing \/ sk \notin {"sent", "init"}
           \/ step2 \in Closing /\ sk2 = "init"
           \/ step2 \in Closing /\ sk2 = sk
    PROVE  ValueInv(q, step2, sk2, m)
BY DEF ValueInv

-----------------------------------------------------------------------------
(* The server's KEXINIT, and a reply with a key *)

\* A packet of one type, or none, is still that when one is taken away.
LEMMA AtMostOneTail ==
    ASSUME NEW q, NEW t, Shorter(q, t), NEW type, AtMostOne(q, type)
    PROVE  AtMostOne(t, type) /\ (q[1].type = type => ~Has(t, type))
<1>1. 1 \in DOMAIN q
      /\ \A i \in DOMAIN t : i \in Nat /\ i + 1 \in DOMAIN q /\ t[i] = q[i + 1] /\ i + 1 # 1
    BY ShorterPlaces
<1>2. ASSUME NEW i \in DOMAIN t, NEW j \in DOMAIN t, t[i].type = type, t[j].type = type
      PROVE  i = j
    <2>1. i + 1 = j + 1 BY <1>1, <1>2 DEF AtMostOne
    <2> QED BY <1>1, <2>1
<1>3. q[1].type = type => \A i \in DOMAIN t : t[i].type # type BY <1>1 DEF AtMostOne
<1> QED BY <1>2, <1>3 DEF AtMostOne, Has

\* The same of any place.
LEMMA AtMostOneWithout ==
    ASSUME NEW q, NEW x, NEW t, Without(q, x, t), NEW type, AtMostOne(q, type)
    PROVE  /\ AtMostOne(t, type) /\ (q[x].type = type => ~Has(t, type))
           /\ q[x].type # type => (Has(q, type) <=> Has(t, type))
<1>1. PICK place \in [DOMAIN t -> DOMAIN q] :
        /\ \A i \in DOMAIN t : t[i] = q[place[i]] /\ place[i] # x
        /\ \A i, j \in DOMAIN t : place[i] = place[j] => i = j
        /\ \A j \in DOMAIN q : j = x \/ \E i \in DOMAIN t : place[i] = j
    BY WithoutPlaces
<1>2. x \in DOMAIN q BY DEF Without, Placed
<1>3. AtMostOne(t, type) BY <1>1 DEF AtMostOne
<1>4. q[x].type = type => ~Has(t, type) BY <1>1, <1>2 DEF AtMostOne, Has
<1>5. q[x].type # type => (Has(q, type) <=> Has(t, type)) BY <1>1 DEF Has
<1> QED BY <1>3, <1>4, <1>5

\* A packet is read into the brigade.
LEMMA GreetReads ==
    ASSUME NEW q, NEW w, NEW q2, NEW w2, Longer(q, w[1], q2), Shorter(w, w2),
           NEW step, NEW sk, NEW c, NEW srv, GreetInv(q, w, step, sk, c, srv),
           w[1].type = KEXINIT => step = "kexinit"
    PROVE  GreetInv(q2, w2, step, sk, c, srv)
<1>1. /\ 1 \in DOMAIN w
      /\ \A i \in DOMAIN w2 : i \in Nat /\ i + 1 \in DOMAIN w /\ w2[i] = w[i + 1]
      /\ \A i \in DOMAIN w :
            i \in Nat /\ (i = 1 \/ (1 < i /\ i - 1 \in DOMAIN w2 /\ w[i] = w2[i - 1]))
    BY ShorterPlaces
<1>2. AtMostOne(w2, KEXINIT) /\ (w[1].type = KEXINIT => ~Has(w2, KEXINIT))
    BY AtMostOneTail DEF GreetInv
<1>3. w[1].type = KEXINIT => Has(w, KEXINIT) BY <1>1 DEF Has
<1>4. AtMostOne(q2, KEXINIT)
    BY <1>3, LongerPlaces DEF GreetInv, AtMostOne, Has
<1>5. Has(w2, KEXINIT) => Has(w, KEXINIT) BY <1>1 DEF Has
<1>6. Has(q2, KEXINIT) => step = "kexinit" /\ ~Has(w2, KEXINIT)
    <2>1. Has(q2, KEXINIT) => Has(q, KEXINIT) \/ w[1].type = KEXINIT
        BY LongerPlaces DEF Has
    <2> QED BY <1>2, <1>5, <2>1 DEF GreetInv
<1>7. \A i \in DOMAIN q2 : q2[i].type = KEXINIT => Greets(q2[i], srv)
    BY <1>1, LongerPlaces DEF GreetInv
<1>8. ASSUME NEW i \in DOMAIN w2, w2[i].type = KEXINIT
      PROVE  /\ (step = "kexinit" /\ c = 0) \/ (sk = "sent" /\ step \in Between)
             /\ Greets(w2[i], srv)
             /\ srv.guess => \E j \in DOMAIN w2 : i < j /\ w2[j].type = KEXDH_REPLY
             /\ \A j \in DOMAIN w2 : w2[j].type = NEWKEYS => j < i
    <2>1. i \in Nat /\ i + 1 \in DOMAIN w /\ w[i + 1].type = KEXINIT /\ w[i + 1] = w2[i]
        BY <1>1, <1>8
    <2>2. /\ (step = "kexinit" /\ c = 0) \/ (sk = "sent" /\ step \in Between)
          /\ Greets(w2[i], srv)
          /\ srv.guess => \E j \in DOMAIN w : i + 1 < j /\ w[j].type = KEXDH_REPLY
          /\ \A j \in DOMAIN w : w[j].type = NEWKEYS => j < i + 1
        BY <2>1 DEF GreetInv
    <2>3. ASSUME srv.guess PROVE \E j \in DOMAIN w2 : i < j /\ w2[j].type = KEXDH_REPLY
        <3>1. PICK j \in DOMAIN w : i + 1 < j /\ w[j].type = KEXDH_REPLY BY <2>2, <2>3
        <3>2. j \in Nat /\ j # 1 BY <1>1, <2>1, <3>1
        <3>3. j - 1 \in DOMAIN w2 /\ w2[j - 1].type = KEXDH_REPLY BY <1>1, <3>1, <3>2
        <3>4. i < j - 1 BY <2>1, <3>1, <3>2
        <3> QED BY <3>3, <3>4
    <2>4. ASSUME NEW j \in DOMAIN w2, w2[j].type = NEWKEYS PROVE j < i
        <3>1. j \in Nat /\ j + 1 < i + 1 BY <1>1, <2>2, <2>4
        <3> QED BY <2>1, <3>1
    <2> QED BY <2>2, <2>3, <2>4
<1>9. sk = "sent" /\ step \in Between => Has(w2, KEXINIT)
    <2>1. sk = "sent" /\ step \in Between => w[1].type # KEXINIT BY DEF Between
    <2>2. Has(w, KEXINIT) /\ w[1].type # KEXINIT => Has(w2, KEXINIT) BY <1>1 DEF Has
    <2> QED BY <2>1, <2>2 DEF GreetInv
<1> QED BY <1>2, <1>4, <1>6, <1>7, <1>8, <1>9 DEF GreetInv

\* A packet is read and dropped.
LEMMA GreetDrops ==
    ASSUME NEW q, NEW w, NEW w2, Shorter(w, w2), Placed(q),
           NEW step, NEW sk, NEW c, NEW srv, GreetInv(q, w, step, sk, c, srv),
           w[1].type # KEXINIT
    PROVE  GreetInv(q, w2, step, sk, c, srv)
<1> DEFINE q2 == Append(q, w[1])
<1>1. Longer(q, w[1], q2) BY AppendPlaces DEF Placed
<1> HIDE DEF q2
<1>2. GreetInv(q2, w2, step, sk, c, srv) BY <1>1, GreetReads
<1>3. \A i \in DOMAIN q : i \in DOMAIN q2 /\ q2[i] = q[i] BY <1>1, LongerPlaces
<1>4. AtMostOne(q, KEXINIT) BY DEF GreetInv
<1>5. Has(q, KEXINIT) => Has(q2, KEXINIT) BY <1>3 DEF Has
<1> QED BY <1>2, <1>4, <1>5 DEF GreetInv

\* The client reads it, and answers.
LEMMA GreetReadsHello ==
    ASSUME NEW q, NEW w, NEW q2, NEW w2, Longer(q, w[1], q2), Shorter(w, w2),
           NEW step, NEW sk, NEW c, NEW srv, GreetInv(q, w, step, sk, c, srv),
           w[1].type = KEXINIT, step # "kexinit", KEXDH_REPLY # KEXINIT
    PROVE  /\ GreetInv(q2, w2, "kexinit", sk, c, srv) /\ sk = "sent" /\ step \in Between
           /\ srv.guess => Has(w2, KEXDH_REPLY)
<1>1. /\ 1 \in DOMAIN w
      /\ \A i \in DOMAIN w2 : i \in Nat /\ i + 1 \in DOMAIN w /\ w2[i] = w[i + 1]
      /\ \A i \in DOMAIN w :
            i \in Nat /\ (i = 1 \/ (1 < i /\ i - 1 \in DOMAIN w2 /\ w[i] = w2[i - 1]))
    BY ShorterPlaces
<1>2. AtMostOne(w2, KEXINIT) /\ ~Has(w2, KEXINIT)
    BY AtMostOneTail DEF GreetInv
<1>3. \A i \in DOMAIN q : q[i].type # KEXINIT BY DEF GreetInv, Has
<1>4. AtMostOne(q2, KEXINIT) BY <1>3, LongerPlaces DEF AtMostOne
<1>5. Greets(w[1], srv) /\ sk = "sent" /\ step \in Between BY <1>1 DEF GreetInv
<1>6. \A i \in DOMAIN q2 : q2[i].type = KEXINIT => Greets(q2[i], srv)
    BY <1>3, <1>5, LongerPlaces
<1>7. srv.guess => Has(w2, KEXDH_REPLY)
    <2>1. srv.guess => \E j \in DOMAIN w : 1 < j /\ w[j].type = KEXDH_REPLY
        BY <1>1 DEF GreetInv
    <2> QED BY <1>1, <2>1 DEF Has
<1>8. "kexinit" \notin Between BY DEF Between
<1>9. \A i \in DOMAIN w2 : w2[i].type # KEXINIT BY <1>2 DEF Has
<1> QED BY <1>2, <1>4, <1>5, <1>6, <1>7, <1>8, <1>9 DEF GreetInv

\* A packet is taken from the brigade.
LEMMA GreetTakes ==
    ASSUME NEW q, NEW x, NEW q2, Without(q, x, q2), NEW w,
           NEW step, NEW sk, NEW c, NEW srv, GreetInv(q, w, step, sk, c, srv)
    PROVE  GreetInv(q2, w, step, sk, c, srv)
<1>1. PICK place \in [DOMAIN q2 -> DOMAIN q] : \A i \in DOMAIN q2 : q2[i] = q[place[i]]
    BY WithoutPlaces
<1>2. AtMostOne(q2, KEXINIT) BY AtMostOneWithout DEF GreetInv
<1>3. Has(q2, KEXINIT) => Has(q, KEXINIT) BY <1>1 DEF Has
<1>4. \A i \in DOMAIN q2 : q2[i].type = KEXINIT => Greets(q2[i], srv)
    BY <1>1 DEF GreetInv
<1> QED BY <1>2, <1>3, <1>4 DEF GreetInv

\* It is taken.
LEMMA GreetTakesHello ==
    ASSUME NEW q, NEW x, NEW q2, Without(q, x, q2), NEW w,
           NEW step, NEW sk, NEW c, NEW srv, GreetInv(q, w, step, sk, c, srv),
           q[x].type = KEXINIT, NEW step2, step2 \notin Between
    PROVE  GreetInv(q2, w, step2, sk, c, srv) /\ Greets(q[x], srv)
<1>1. x \in DOMAIN q BY DEF Without, Placed
<1>2. AtMostOne(q2, KEXINIT) /\ ~Has(q2, KEXINIT) BY AtMostOneWithout DEF GreetInv
<1>3. ~Has(w, KEXINIT) BY <1>1 DEF GreetInv, Has
<1> QED BY <1>1, <1>2, <1>3 DEF GreetInv, Has

\* Where it is, is right at another step.
LEMMA GreetStep ==
    ASSUME NEW q, NEW w, NEW step, NEW sk, NEW c, NEW srv, GreetInv(q, w, step, sk, c, srv),
           NEW step2, NEW sk2, NEW c2, NEW srv2,
           srv2.lists = srv.lists, srv2.guess = srv.guess,
           Has(q, KEXINIT) => step2 = "kexinit",
           Has(w, KEXINIT) =>
               (step2 = "kexinit" /\ c2 = 0) \/ (sk2 = "sent" /\ step2 \in Between),
           sk2 = "sent" /\ step2 \in Between => Has(w, KEXINIT)
    PROVE  GreetInv(q, w, step2, sk2, c2, srv2)
<1>1. \A p : Greets(p, srv2) <=> Greets(p, srv) BY DEF Greets
<1>2. \A i \in DOMAIN w : w[i].type = KEXINIT => Has(w, KEXINIT) BY DEF Has
<1> QED BY <1>1, <1>2 DEF GreetInv

\* The server writes something else.
LEMMA GreetJoins ==
    ASSUME NEW q, NEW w, NEW r, NEW w2, Joined(w, r, w2),
           NEW step, NEW sk, NEW c, NEW srv, GreetInv(q, w, step, sk, c, srv),
           \A i \in 1..Len(r) : r[i].type # KEXINIT,
           (\A i \in 1..Len(r) : r[i].type # NEWKEYS) \/ ~Has(w, KEXINIT)
    PROVE  GreetInv(q, w2, step, sk, c, srv)
<1>1. \A i \in DOMAIN w : i \in DOMAIN w2 /\ w2[i] = w[i] BY JoinedPlaces
<1>2. \A i \in DOMAIN w2 :
        \/ i \in DOMAIN w /\ w2[i] = w[i]
        \/ \E j \in 1..Len(r) : w2[i] = r[j]
    BY JoinedPlaces
<1>3. \A i \in DOMAIN w2 : w2[i].type = KEXINIT => i \in DOMAIN w /\ w2[i] = w[i]
    BY <1>2
<1>4. Has(w2, KEXINIT) <=> Has(w, KEXINIT) BY <1>1, <1>3 DEF Has
<1>5. AtMostOne(w2, KEXINIT) BY <1>3 DEF GreetInv, AtMostOne
<1>6. ASSUME NEW i \in DOMAIN w2, w2[i].type = KEXINIT
      PROVE  /\ (step = "kexinit" /\ c = 0) \/ (sk = "sent" /\ step \in Between)
             /\ Greets(w2[i], srv)
             /\ srv.guess => \E j \in DOMAIN w2 : i < j /\ w2[j].type = KEXDH_REPLY
             /\ \A j \in DOMAIN w2 : w2[j].type = NEWKEYS => j < i
    <2>1. i \in DOMAIN w /\ w[i].type = KEXINIT /\ w2[i] = w[i] BY <1>3, <1>6
    <2>2. \A j \in 1..Len(r) : r[j].type # NEWKEYS BY <2>1 DEF Has
    <2>3. \A j \in DOMAIN w2 : w2[j].type = NEWKEYS => j \in DOMAIN w /\ w2[j] = w[j]
        BY <1>2, <2>2
    <2> QED BY <1>1, <2>1, <2>3 DEF GreetInv
<1> QED BY <1>4, <1>5, <1>6 DEF GreetInv

\* The server writes it.
LEMMA GreetJoinsHello ==
    ASSUME NEW q, NEW w, NEW r, NEW w2, Joined(w, r, w2),
           NEW step \in Between, NEW sk, sk # "sent", NEW c, NEW srv,
           GreetInv(q, w, step, sk, c, srv), NEW srv2,
           Len(r) \in Nat, Len(r) > 0, r[1].type = KEXINIT, Greets(r[1], srv2),
           \A i \in 2..Len(r) : r[i].type \notin {KEXINIT, NEWKEYS},
           srv2.guess => Len(r) > 1 /\ r[2].type = KEXDH_REPLY, NEWKEYS # KEXINIT
    PROVE  GreetInv(q, w2, step, "sent", c, srv2)
<1>0. step # "kexinit" BY DEF Between
<1>1. /\ Len(w) \in Nat /\ DOMAIN w = 1..Len(w)
      /\ \A i \in DOMAIN w : i \in DOMAIN w2 /\ w2[i] = w[i]
      /\ \A j \in 1..Len(r) : Len(w) + j \in DOMAIN w2 /\ w2[Len(w) + j] = r[j]
    BY JoinedPlaces
<1>2. \A i \in DOMAIN w2 :
        \/ i \in DOMAIN w /\ w2[i] = w[i]
        \/ \E j \in 1..Len(r) : i = Len(w) + j /\ w2[i] = r[j]
    BY JoinedPlaces
<1>3. \A i \in DOMAIN q : q[i].type # KEXINIT BY <1>0 DEF GreetInv, Has
<1>4. \A i \in DOMAIN w : w[i].type # KEXINIT BY <1>0 DEF GreetInv
<1>5. \A j \in 1..Len(r) : j = 1 \/ j \in 2..Len(r) OBVIOUS
<1>6. PICK x \in DOMAIN w2 : x = Len(w) + 1 /\ w2[x] = r[1] BY <1>1
<1>7. \A i \in DOMAIN w2 : w2[i].type = KEXINIT => i = x BY <1>2, <1>4, <1>5, <1>6
<1>8. \A i \in DOMAIN w2 : w2[i].type = NEWKEYS => i < x
    <2>1. \A i \in DOMAIN w2 : w2[i].type = NEWKEYS => i \in DOMAIN w
        BY <1>2, <1>5
    <2>2. \A i \in DOMAIN w : i < x BY <1>1, <1>6
    <2> QED BY <2>1, <2>2
<1>9. ASSUME srv2.guess PROVE \E j \in DOMAIN w2 : x < j /\ w2[j].type = KEXDH_REPLY
    <2>1. 2 \in 1..Len(r) /\ r[2].type = KEXDH_REPLY BY <1>9
    <2>2. Len(w) + 2 \in DOMAIN w2 /\ w2[Len(w) + 2] = r[2] BY <1>1, <2>1
    <2>3. x < Len(w) + 2 BY <1>1, <1>6
    <2> QED BY <2>1, <2>2, <2>3
<1>10. Has(w2, KEXINIT) /\ AtMostOne(w2, KEXINIT) BY <1>6, <1>7 DEF Has, AtMostOne
<1>11. ~Has(q, KEXINIT) /\ AtMostOne(q, KEXINIT) BY <1>3 DEF Has, AtMostOne
<1>12. ASSUME NEW i \in DOMAIN w2, w2[i].type = KEXINIT
       PROVE  /\ Greets(w2[i], srv2)
              /\ srv2.guess => \E j \in DOMAIN w2 : i < j /\ w2[j].type = KEXDH_REPLY
              /\ \A j \in DOMAIN w2 : w2[j].type = NEWKEYS => j < i
    BY <1>6, <1>7, <1>8, <1>9, <1>12
<1> QED BY <1>3, <1>10, <1>11, <1>12 DEF GreetInv

\* A reply is read, or dropped.
LEMMA ShowReads ==
    ASSUME NEW q, NEW w, NEW w2, Shorter(w, w2),
           NEW step, NEW sk, NEW n, ShowInv(q, w, step, sk, n)
    PROVE  /\ ShowInv(q, w2, step, sk, n)
           /\ \A q2 : Longer(q, w[1], q2) => ShowInv(q2, w2, step, sk, n)
<1>1. /\ 1 \in DOMAIN w
      /\ \A i \in DOMAIN w2 : i \in Nat /\ i + 1 \in DOMAIN w /\ i + 1 # 1 /\ w2[i] = w[i + 1]
    BY ShorterPlaces
<1>2. \A i \in DOMAIN w2 : ShowsKey(w2[i]) => sk = "newkeys" /\ step \in Closing /\ w2[i].n = n
    BY <1>1 DEF ShowInv
<1>3. ASSUME NEW i \in DOMAIN w2, NEW j \in DOMAIN w2, ShowsKey(w2[i]), ShowsKey(w2[j])
      PROVE  i = j
    <2>1. i + 1 = j + 1 BY <1>1, <1>3 DEF ShowInv
    <2> QED BY <1>1, <2>1
<1>4. \A i \in DOMAIN w2 : ~(ShowsKey(w[1]) /\ ShowsKey(w2[i])) BY <1>1 DEF ShowInv
<1>5. \A i \in DOMAIN q, j \in DOMAIN w2 : ~(ShowsKey(q[i]) /\ ShowsKey(w2[j]))
    BY <1>1 DEF ShowInv
<1>6. ShowInv(q, w2, step, sk, n) BY <1>2, <1>3, <1>5 DEF ShowInv
<1>7. ASSUME NEW q2, Longer(q, w[1], q2) PROVE ShowInv(q2, w2, step, sk, n)
    <2>1. \A i \in DOMAIN q2 : (i \in DOMAIN q /\ q2[i] = q[i]) \/ (i = Len(q2) /\ q2[i] = w[1])
        BY <1>7, LongerPlaces
    <2>2. \A i \in DOMAIN q2 :
            ShowsKey(q2[i]) => sk = "newkeys" /\ step \in Closing /\ q2[i].n = n
        BY <1>1, <2>1 DEF ShowInv
    <2>3. \A i, j \in DOMAIN q2 : ShowsKey(q2[i]) /\ ShowsKey(q2[j]) => i = j
        BY <1>1, <2>1 DEF ShowInv
    <2>4. \A i \in DOMAIN q2, j \in DOMAIN w2 : ~(ShowsKey(q2[i]) /\ ShowsKey(w2[j]))
        BY <1>4, <1>5, <2>1
    <2> QED BY <1>2, <1>3, <2>2, <2>3, <2>4 DEF ShowInv
<1> QED BY <1>6, <1>7

\* A packet is taken; when it was the one, there is no other.
LEMMA ShowTakes ==
    ASSUME NEW q, NEW x, NEW q2, Without(q, x, q2), NEW w,
           NEW step, NEW sk, NEW n, ShowInv(q, w, step, sk, n)
    PROVE  /\ ShowInv(q2, w, step, sk, n)
           /\ ShowsKey(q[x]) =>
                 /\ sk = "newkeys" /\ step \in Closing /\ q[x].n = n
                 /\ \A step2, sk2, n2 : ShowInv(q2, w, step2, sk2, n2)
<1>1. PICK place \in [DOMAIN q2 -> DOMAIN q] :
        /\ \A i \in DOMAIN q2 : q2[i] = q[place[i]] /\ place[i] # x
        /\ \A i, j \in DOMAIN q2 : place[i] = place[j] => i = j
    BY WithoutPlaces
<1>2. x \in DOMAIN q BY DEF Without, Placed
<1>3. ShowInv(q2, w, step, sk, n) BY <1>1 DEF ShowInv
<1>4. ASSUME ShowsKey(q[x])
      PROVE  /\ sk = "newkeys" /\ step \in Closing /\ q[x].n = n
             /\ \A step2, sk2, n2 : ShowInv(q2, w, step2, sk2, n2)
    <2>1. \A i \in DOMAIN q2 : ~ShowsKey(q2[i]) BY <1>1, <1>2, <1>4 DEF ShowInv
    <2>2. \A i \in DOMAIN w : ~ShowsKey(w[i]) BY <1>2, <1>4 DEF ShowInv
    <2> QED BY <1>2, <1>4, <2>1, <2>2 DEF ShowInv
<1> QED BY <1>3, <1>4

\* There is none before the server's reply.
LEMMA ShowStep ==
    ASSUME NEW q, NEW w, NEW step, NEW sk, NEW n, ShowInv(q, w, step, sk, n),
           NEW step2, NEW sk2, NEW n2,
           \/ sk # "newkeys" \/ step \notin Closing
           \/ step2 \in Closing /\ sk2 = sk /\ n2 = n
    PROVE  ShowInv(q, w, step2, sk2, n2)
BY DEF ShowInv

\* The server writes something else, or its reply.
LEMMA ShowJoins ==
    ASSUME NEW q, NEW w, NEW r, NEW w2, Joined(w, r, w2), NEW step, NEW sk, NEW n,
           ShowInv(q, w, step, sk, n),
           \/ \A i \in 1..Len(r) : ~ShowsKey(r[i])
           \/ /\ \A i \in 1..Len(r) : ShowsKey(r[i]) => i = 1 /\ r[i].n = n
              /\ \A i \in DOMAIN q : ~ShowsKey(q[i])
              /\ \A i \in DOMAIN w : ~ShowsKey(w[i])
              /\ sk = "newkeys" /\ step \in Closing
    PROVE  ShowInv(q, w2, step, sk, n)
<1>1. \A i \in DOMAIN w2 :
        \/ i \in DOMAIN w /\ w2[i] = w[i]
        \/ \E j \in 1..Len(r) : i = Len(w) + j /\ w2[i] = r[j]
    BY JoinedPlaces
<1>2. CASE \A i \in 1..Len(r) : ~ShowsKey(r[i])
    <2>1. \A i \in DOMAIN w2 : ShowsKey(w2[i]) => i \in DOMAIN w /\ w2[i] = w[i]
        BY <1>1, <1>2
    <2> QED BY <2>1 DEF ShowInv
<1>3. CASE /\ \A i \in 1..Len(r) : ShowsKey(r[i]) => i = 1 /\ r[i].n = n
           /\ \A i \in DOMAIN q : ~ShowsKey(q[i])
           /\ \A i \in DOMAIN w : ~ShowsKey(w[i])
           /\ sk = "newkeys" /\ step \in Closing
    <2>1. \A i \in DOMAIN w2 : ShowsKey(w2[i]) => i = Len(w) + 1 /\ w2[i].n = n
        BY <1>1, <1>3
    <2> QED BY <1>3, <2>1 DEF ShowInv
<1> QED BY <1>2, <1>3

-----------------------------------------------------------------------------
(* What is to come before NEWKEYS *)

\* Packets that are early stay so.
LEMMA EarlyTail ==
    ASSUME NEW w, NEW w2, Shorter(w, w2), NEW i \in DOMAIN w, i # 1, Early(w, i)
    PROVE  i - 1 \in DOMAIN w2 /\ w2[i - 1] = w[i] /\ Early(w2, i - 1) /\ i \in Nat
<1>1. /\ \A j \in DOMAIN w2 : j \in Nat /\ j + 1 \in DOMAIN w /\ w2[j] = w[j + 1]
      /\ i \in Nat /\ i - 1 \in DOMAIN w2 /\ w[i] = w2[i - 1]
    BY ShorterPlaces
<1>2. ASSUME NEW j \in DOMAIN w2, w2[j].type = NEWKEYS PROVE i - 1 < j
    <2>1. j \in Nat /\ i < j + 1 BY <1>1, <1>2 DEF Early
    <2> QED BY <1>1, <2>1
<1> QED BY <1>1, <1>2 DEF Early

\* Also when packets are written behind them.
LEMMA EarlyJoins ==
    ASSUME NEW w, NEW r, NEW w2, Joined(w, r, w2), NEW i \in DOMAIN w, Early(w, i)
    PROVE  i \in DOMAIN w2 /\ w2[i] = w[i] /\ Early(w2, i)
<1>1. /\ Len(w) \in Nat /\ DOMAIN w = 1..Len(w)
      /\ \A j \in DOMAIN w2 :
            \/ j \in DOMAIN w /\ w2[j] = w[j]
            \/ \E l \in 1..Len(r) : j = Len(w) + l /\ w2[j] = r[l]
    BY JoinedPlaces
<1>2. i \in DOMAIN w2 /\ w2[i] = w[i] BY JoinedPlaces
<1>3. ASSUME NEW j \in DOMAIN w2, w2[j].type = NEWKEYS PROVE i < j
    <2>1. CASE j \in DOMAIN w BY <1>1, <1>3, <2>1, JoinedPlaces DEF Early
    <2>2. CASE j \notin DOMAIN w BY <1>1, <2>2
    <2> QED BY <2>1, <2>2
<1> QED BY <1>2, <1>3 DEF Early

\* A packet is read, and it is not the one that is waited for.
LEMMA DueReads ==
    ASSUME NEW q, NEW w, NEW q2, NEW w2, Longer(q, w[1], q2), Shorter(w, w2),
           NEW step, step # "burn", NEW asked \in BOOLEAN, NEW burn, NEW sk, NEW m,
           NEW guess, NEW asked2 \in BOOLEAN, asked2 => asked,
           DueInv(q, w, step, asked, burn, sk, m, guess), w[1].type # NEWKEYS,
           step = "reply" /\ asked2 => w[1].type # ReplyType(m)
    PROVE  DueInv(q2, w2, step, asked2, burn, sk, m, guess)
<1>1. /\ \A i \in DOMAIN q : i \in DOMAIN q2 /\ q2[i] = q[i]
      /\ \A i \in DOMAIN q2 : (i \in DOMAIN q /\ q2[i] = q[i]) \/ q2[i] = w[1]
      /\ Len(q2) \in DOMAIN q2 /\ q2[Len(q2)] = w[1]
    BY LongerPlaces
<1>2. \A i \in DOMAIN w : i = 1 \/ (i - 1 \in DOMAIN w2 /\ w[i] = w2[i - 1])
    BY ShorterPlaces
<1>3. GuessDue(q, w) => GuessDue(q2, w2) BY <1>1, <1>2 DEF GuessDue, Has
<1>4. ~Has(q2, NEWKEYS) BY <1>1 DEF DueInv, Has
<1>5. ASSUME step = "reply", sk = "newkeys"
      PROVE  \/ Has(q2, ReplyType(m))
             \/ \E i \in DOMAIN w2 : w2[i].type = ReplyType(m) /\ Early(w2, i)
    <2>1. CASE Has(q, ReplyType(m)) BY <1>1, <2>1 DEF Has
    <2>2. CASE \E i \in DOMAIN w : w[i].type = ReplyType(m) /\ Early(w, i)
        <3>1. PICK i \in DOMAIN w : w[i].type = ReplyType(m) /\ Early(w, i) BY <2>2
        <3>2. CASE i = 1 BY <1>1, <3>1, <3>2 DEF Has
        <3>3. CASE i # 1 BY <3>1, <3>3, EarlyTail
        <3> QED BY <3>2, <3>3
    <2> QED BY <1>5, <2>1, <2>2 DEF DueInv
<1>6. step = "reply" /\ asked2 => ~Has(q2, ReplyType(m))
    <2>1. step = "reply" /\ asked2 => ~Has(q, ReplyType(m)) BY DEF DueInv
    <2> QED BY <1>1, <2>1 DEF Has
<1> QED BY <1>3, <1>4, <1>5, <1>6 DEF DueInv

\* A packet is read and dropped that nobody waits for.
LEMMA DueDrops ==
    ASSUME NEW q, NEW w, NEW w2, Shorter(w, w2), NEW step, NEW asked, NEW burn, NEW sk,
           NEW m, NEW guess, DueInv(q, w, step, asked, burn, sk, m, guess),
           w[1].type \notin Replies
    PROVE  DueInv(q, w2, step, asked, burn, sk, m, guess)
<1>1. /\ w[1].type # KEXDH_REPLY /\ w[1].type # ReplyType(m)
    BY DEF Replies, ReplyType
<1>2. \A i \in DOMAIN w : i = 1 \/ (i - 1 \in DOMAIN w2 /\ w[i] = w2[i - 1])
    BY ShorterPlaces
<1>3. GuessDue(q, w) => GuessDue(q, w2) BY <1>1, <1>2 DEF GuessDue, Has
<1>4. ASSUME step = "burn", sk = "newkeys"
      PROVE  \E i \in DOMAIN w2 :
                /\ w2[i].type = KEXDH_REPLY /\ Early(w2, i)
                /\ Has(q, KEXDH_REPLY)
                   \/ \E j \in DOMAIN w2 : j < i /\ w2[j].type = KEXDH_REPLY
    <2>1. PICK i \in DOMAIN w :
             /\ w[i].type = KEXDH_REPLY /\ Early(w, i)
             /\ Has(q, KEXDH_REPLY)
                \/ \E j \in DOMAIN w : j < i /\ w[j].type = KEXDH_REPLY
        BY <1>4 DEF DueInv
    <2>2. /\ i - 1 \in DOMAIN w2 /\ w2[i - 1] = w[i] /\ Early(w2, i - 1) /\ i \in Nat
        BY <1>1, <2>1, EarlyTail
    <2>3. ASSUME NEW j \in DOMAIN w, j < i, w[j].type = KEXDH_REPLY
          PROVE  j - 1 \in DOMAIN w2 /\ j - 1 < i - 1 /\ w2[j - 1].type = KEXDH_REPLY
        <3>1. j # 1 /\ j \in Nat BY <1>1, <2>3, ShorterPlaces
        <3> QED BY <1>2, <2>2, <2>3, <3>1
    <2> QED BY <2>1, <2>2, <2>3
<1>5. ASSUME step = "reply", sk = "newkeys", ~Has(q, ReplyType(m))
      PROVE  \E i \in DOMAIN w2 : w2[i].type = ReplyType(m) /\ Early(w2, i)
    <2>1. PICK i \in DOMAIN w : w[i].type = ReplyType(m) /\ Early(w, i)
        BY <1>5 DEF DueInv
    <2> QED BY <1>1, <2>1, EarlyTail
<1> QED BY <1>3, <1>4, <1>5 DEF DueInv

\* As long as it waits for a reply, NEWKEYS is not the next packet.
LEMMA DueHead ==
    ASSUME NEW q, NEW w, NEW step, NEW burn, NEW sk, NEW m, NEW guess,
           DueInv(q, w, step, TRUE, burn, sk, m, guess), sk = "newkeys", step \in Closing,
           1 \in DOMAIN w, Placed(w)
    PROVE  w[1].type # NEWKEYS
<1>1. PICK i \in DOMAIN w : Early(w, i)
    <2>1. CASE step = "burn" BY <2>1 DEF DueInv
    <2>2. CASE step = "reply" BY <2>2 DEF DueInv
    <2> QED BY <2>1, <2>2 DEF Closing
<1>2. i \in 1..Len(w) /\ Len(w) \in Nat BY DEF Placed
<1>3. ~(i < 1) BY <1>2
<1> QED BY <1>1, <1>3 DEF Early

\* A packet is taken that is not what the exchange waits for: no exchange is on.
LEMMA DueTakes ==
    ASSUME NEW q, NEW x, NEW q2, Without(q, x, q2), NEW w, NEW step, NEW asked, NEW burn,
           NEW sk, NEW m, NEW guess, DueInv(q, w, step, asked, burn, sk, m, guess),
           NEW step2 \in Between, NEW asked2, NEW burn2, NEW sk2, NEW w2
    PROVE  DueInv(q2, w2, step2, asked2, burn2, sk2, m, guess)
<1>1. PICK place \in [DOMAIN q2 -> DOMAIN q] : \A i \in DOMAIN q2 : q2[i] = q[place[i]]
    BY WithoutPlaces
<1>2. ~Has(q2, NEWKEYS) BY <1>1 DEF DueInv, Has
<1> QED BY <1>2 DEF DueInv, Between

\* Between two exchanges nothing is to come.
LEMMA DueBetween ==
    ASSUME NEW q, NEW w, NEW step \in Between, NEW asked, NEW burn, NEW sk, NEW m, NEW guess
    PROVE  DueInv(q, w, step, asked, burn, sk, m, guess) <=> ~Has(q, NEWKEYS)
BY DEF DueInv, Between

\* KEXINIT is taken.
LEMMA DueTakesHello ==
    ASSUME NEW q, NEW x, NEW q2, Without(q, x, q2), NEW w, NEW asked, NEW burn,
           NEW sk, NEW m, NEW guess, DueInv(q, w, "kexinit", asked, burn, sk, m, guess),
           q[x].type # KEXDH_REPLY
    PROVE  DueInv(q2, w, "agree", FALSE, burn, sk, m, guess)
<1>1. PICK place \in [DOMAIN q2 -> DOMAIN q] :
        /\ \A i \in DOMAIN q2 : q2[i] = q[place[i]]
        /\ \A j \in DOMAIN q : j = x \/ \E i \in DOMAIN q2 : place[i] = j
    BY WithoutPlaces
<1>2. ~Has(q2, NEWKEYS) BY <1>1 DEF DueInv, Has
<1>3. GuessDue(q, w) => GuessDue(q2, w) BY <1>1 DEF GuessDue, Has
<1> QED BY <1>2, <1>3 DEF DueInv

\* A group is taken.
LEMMA DueTakesGroup ==
    ASSUME NEW q, NEW x, NEW q2, Without(q, x, q2), NEW w, NEW asked, NEW burn,
           NEW sk, sk # "newkeys", NEW m, NEW guess,
           DueInv(q, w, "group", asked, burn, sk, m, guess)
    PROVE  ~burn /\ m["KEX"] = Gex /\ DueInv(q2, w, "reply", FALSE, burn, sk, m, guess)
<1>1. PICK place \in [DOMAIN q2 -> DOMAIN q] : \A i \in DOMAIN q2 : q2[i] = q[place[i]]
    BY WithoutPlaces
<1>2. ~Has(q2, NEWKEYS) BY <1>1 DEF DueInv, Has
<1> QED BY <1>2 DEF DueInv

\* The guess is burnt, or what comes first in its place: the first packet of its number.
LEMMA DueBurns ==
    ASSUME NEW q, NEW w, NEW x, NEW q2, Without(q, x, q2), NEW asked, NEW burn, NEW sk,
           NEW m, NEW guess, DueInv(q, w, "burn", asked, burn, sk, m, guess),
           NEW burn2
    PROVE  DueInv(q2, w, "reply", FALSE, burn2, sk, m, guess)
<1>1. PICK place \in [DOMAIN q2 -> DOMAIN q] : \A i \in DOMAIN q2 : q2[i] = q[place[i]]
    BY WithoutPlaces
<1>2. ~Has(q2, NEWKEYS) BY <1>1 DEF DueInv, Has
<1>3. ReplyType(m) = KEXDH_REPLY BY DEF DueInv, ReplyType
<1>4. sk = "newkeys" => \E i \in DOMAIN w : w[i].type = KEXDH_REPLY /\ Early(w, i)
    BY DEF DueInv
<1> QED BY <1>2, <1>3, <1>4 DEF DueInv

\* The same for a guess that is burnt as soon as it has been read.
LEMMA DueReadsBurns ==
    ASSUME NEW q, NEW w, NEW q1, NEW w2, Longer(q, w[1], q1), Shorter(w, w2),
           NEW x, NEW q2, Without(q1, x, q2),
           \A i \in DOMAIN q1 : i < x => q1[i].type # q1[x].type,
           NEW asked, NEW burn, NEW sk, NEW m, NEW guess,
           DueInv(q, w, "burn", asked, burn, sk, m, guess), w[1].type # NEWKEYS, NEW burn2
    PROVE  DueInv(q2, w2, "reply", FALSE, burn2, sk, m, guess)
<1>1. PICK place \in [DOMAIN q2 -> DOMAIN q1] :
        /\ \A i \in DOMAIN q2 : q2[i] = q1[place[i]]
        /\ \A j \in DOMAIN q1 : j = x \/ \E i \in DOMAIN q2 : place[i] = j
    BY WithoutPlaces
<1>2. /\ \A i \in DOMAIN q : i \in DOMAIN q1 /\ q1[i] = q[i] /\ i \in Nat /\ i < Len(q1)
      /\ \A i \in DOMAIN q1 : (i \in DOMAIN q /\ q1[i] = q[i]) \/ (i = Len(q1) /\ q1[i] = w[1])
      /\ Len(q1) \in DOMAIN q1 /\ q1[Len(q1)] = w[1]
    BY LongerPlaces
<1>3. ~Has(q2, NEWKEYS)
    <2>1. \A i \in DOMAIN q1 : q1[i].type # NEWKEYS BY <1>2 DEF DueInv, Has
    <2> QED BY <1>1, <2>1 DEF Has
<1>4. ReplyType(m) = KEXDH_REPLY BY DEF DueInv, ReplyType
<1>5. ASSUME sk = "newkeys"
      PROVE  \/ Has(q2, KEXDH_REPLY)
             \/ \E i \in DOMAIN w2 : w2[i].type = KEXDH_REPLY /\ Early(w2, i)
    <2>1. PICK i \in DOMAIN w :
             /\ w[i].type = KEXDH_REPLY /\ Early(w, i)
             /\ Has(q, KEXDH_REPLY)
                \/ \E j \in DOMAIN w : j < i /\ w[j].type = KEXDH_REPLY
        BY <1>5 DEF DueInv
    <2>2. CASE i # 1 BY <2>1, <2>2, EarlyTail
    <2>3. CASE i = 1
        <3>1. Has(q, KEXDH_REPLY)
            <4>1. \A j \in DOMAIN w : j \in Nat /\ j > 0
                <5>1. \A j \in DOMAIN w : j \in Nat /\ (j = 1 \/ 1 < j) BY ShorterPlaces
                <5> QED BY <5>1
            <4>2. \A j \in DOMAIN w : ~(j < i) BY <2>3, <4>1
            <4> QED BY <2>1, <4>2
        <3>2. PICK j \in DOMAIN q : q[j].type = KEXDH_REPLY BY <3>1 DEF Has
        <3>3. j \in DOMAIN q1 /\ q1[j].type = KEXDH_REPLY /\ j < Len(q1) BY <1>2, <3>2
        <3>4. q1[Len(q1)].type = KEXDH_REPLY BY <1>2, <2>1, <2>3
        <3>5. x # Len(q1) BY <3>3, <3>4
        <3>6. \E l \in DOMAIN q2 : place[l] = Len(q1) BY <1>1, <1>2, <3>5
        <3> QED BY <1>1, <3>4, <3>6 DEF Has
    <2> QED BY <2>2, <2>3
<1> QED BY <1>3, <1>4, <1>5 DEF DueInv

\* The server writes something else.
LEMMA DueJoins ==
    ASSUME NEW q, NEW w, NEW r, NEW w2, Joined(w, r, w2), NEW step, NEW asked, NEW burn,
           NEW sk, NEW m, NEW guess, DueInv(q, w, step, asked, burn, sk, m, guess)
    PROVE  DueInv(q, w2, step, asked, burn, sk, m, guess)
<1>1. \A i \in DOMAIN w : i \in DOMAIN w2 /\ w2[i] = w[i] BY JoinedPlaces
<1>2. GuessDue(q, w) => GuessDue(q, w2) BY <1>1 DEF GuessDue, Has
<1>3. ASSUME step = "burn", sk = "newkeys"
      PROVE  \E i \in DOMAIN w2 :
                /\ w2[i].type = KEXDH_REPLY /\ Early(w2, i)
                /\ Has(q, KEXDH_REPLY)
                   \/ \E j \in DOMAIN w2 : j < i /\ w2[j].type = KEXDH_REPLY
    <2>1. PICK i \in DOMAIN w :
             /\ w[i].type = KEXDH_REPLY /\ Early(w, i)
             /\ Has(q, KEXDH_REPLY)
                \/ \E j \in DOMAIN w : j < i /\ w[j].type = KEXDH_REPLY
        BY <1>3 DEF DueInv
    <2>2. i \in DOMAIN w2 /\ w2[i] = w[i] /\ Early(w2, i) BY <2>1, EarlyJoins
    <2> QED BY <1>1, <2>1, <2>2
<1>4. ASSUME step = "reply", sk = "newkeys", ~Has(q, ReplyType(m))
      PROVE  \E i \in DOMAIN w2 : w2[i].type = ReplyType(m) /\ Early(w2, i)
    <2>1. PICK i \in DOMAIN w : w[i].type = ReplyType(m) /\ Early(w, i)
        BY <1>4 DEF DueInv
    <2> QED BY <2>1, EarlyJoins
<1> QED BY <1>2, <1>3, <1>4 DEF DueInv

\* The server writes its reply, and NEWKEYS behind it.
LEMMA DueJoinsReply ==
    ASSUME NEW q, NEW w, NEW r, NEW w2, Joined(w, r, w2), NEW step \in Closing, NEW asked,
           NEW burn, NEW sk, NEW m, NEW guess, DueInv(q, w, step, asked, burn, sk, m, guess),
           ~Has(w, NEWKEYS), Len(r) > 0, r[1].type = ReplyType(m), ReplyType(m) # NEWKEYS
    PROVE  DueInv(q, w2, step, asked, burn, "newkeys", m, guess)
<1>1. /\ Len(w) \in Nat /\ Len(r) \in Nat /\ DOMAIN w = 1..Len(w)
      /\ \A i \in DOMAIN w : i \in DOMAIN w2 /\ w2[i] = w[i]
      /\ \A j \in 1..Len(r) : Len(w) + j \in DOMAIN w2 /\ w2[Len(w) + j] = r[j]
      /\ \A i \in DOMAIN w2 :
            \/ i \in DOMAIN w /\ w2[i] = w[i]
            \/ \E j \in 1..Len(r) : i = Len(w) + j /\ w2[i] = r[j]
    BY JoinedPlaces
<1>2. PICK x \in DOMAIN w2 : x = Len(w) + 1 /\ w2[x] = r[1] BY <1>1
<1>3. Early(w2, x)
    <2> SUFFICES ASSUME NEW i \in DOMAIN w2, w2[i].type = NEWKEYS PROVE x < i
        BY DEF Early
    <2>1. i \notin DOMAIN w BY <1>1 DEF Has
    <2>2. PICK j \in 1..Len(r) : i = Len(w) + j /\ w2[i] = r[j] BY <1>1, <2>1
    <2>3. j # 1 BY <2>2
    <2> QED BY <1>1, <1>2, <2>2, <2>3
<1>4. GuessDue(q, w) => GuessDue(q, w2) BY <1>1 DEF GuessDue, Has
<1>5. ASSUME step = "burn"
      PROVE  \E i \in DOMAIN w2 :
                /\ w2[i].type = KEXDH_REPLY /\ Early(w2, i)
                /\ Has(q, KEXDH_REPLY)
                   \/ \E j \in DOMAIN w2 : j < i /\ w2[j].type = KEXDH_REPLY
    <2>1. GuessDue(q, w) /\ w2[x].type = KEXDH_REPLY BY <1>2, <1>5 DEF DueInv, ReplyType
    <2>2. ASSUME NEW j \in DOMAIN w, w[j].type = KEXDH_REPLY
          PROVE  j \in DOMAIN w2 /\ j < x /\ w2[j].type = KEXDH_REPLY
        BY <1>1, <1>2, <2>2
    <2> QED BY <1>3, <2>1, <2>2 DEF GuessDue, Has
<1> QED BY <1>2, <1>3, <1>4, <1>5 DEF DueInv, Closing

\* The exchange goes on without a packet.
LEMMA DueStep ==
    ASSUME NEW q, NEW w, NEW step, NEW asked, NEW burn, NEW sk, NEW m, NEW guess,
           DueInv(q, w, step, asked, burn, sk, m, guess), NEW sk2,
           sk2 = sk \/ sk2 # "newkeys" \/ step \in Between
    PROVE  DueInv(q, w, step, asked, burn, sk2, m, guess)
BY DEF DueInv, Between

-----------------------------------------------------------------------------
(* The keys and the methods of the two sides *)

\* What the invariant rests on: sessions, exchanges and packets are what they are.
Sane(k, s, w, srv) ==
    /\ DOMAIN s = SessionFields /\ DOMAIN k = {"step", "asked", "h"}
    /\ k.asked \in BOOLEAN /\ s.secrets \in Nat
    /\ DOMAIN srv = ServerFields
    /\ IsSeq(s.out) /\ IsSeq(s.packets) /\ IsSeq(w) /\ IsSeq(srv.held)
    /\ s.newkeys => s.session_id = 1
Fits(m, offers, k, s, w, srv) == Sane(k, s, w, srv) /\ InStepOf(m, offers, k, s, w, srv)

\* The kinds of methods.
LEMMA KindsAre ==
    Kinds = {"KEX", "HOSTKEY", "CRYPT_CS", "CRYPT_SC", "MAC_CS", "MAC_SC", "COMP_CS",
             "COMP_SC"}
<1>1. /\ DOMAIN KindsInOrder = 1..8
      /\ KindsInOrder[1] = "KEX" /\ KindsInOrder[2] = "HOSTKEY"
      /\ KindsInOrder[3] = "CRYPT_CS" /\ KindsInOrder[4] = "CRYPT_SC"
      /\ KindsInOrder[5] = "MAC_CS" /\ KindsInOrder[6] = "MAC_SC"
      /\ KindsInOrder[7] = "COMP_CS" /\ KindsInOrder[8] = "COMP_SC"
    BY DEF KindsInOrder
<1>2. Kinds = {KindsInOrder[i] : i \in 1..8} BY <1>1 DEF Kinds, ToSet
<1>3. 1..8 = {1, 2, 3, 4, 5, 6, 7, 8} OBVIOUS
<1> QED BY <1>1, <1>2, <1>3

\* Keys are made of the methods of their direction; and only a stream that compresses
\* has a beginning.
LEMMA KeysAlike ==
    ASSUME NEW m1, NEW m2, NEW way \in {In, Out}, NEW h, NEW b1, NEW b2,
           \A k \in Kinds \ {"KEX", "HOSTKEY"} : m1[k] = m2[k],
           b1 = b2 \/ (m2["COMP_CS"] = "none" /\ m2["COMP_SC"] = "none")
    PROVE  Keys(m1, way, h, 1, b1) = Keys(m2, way, h, 1, b2)
<1>1. /\ way.crypt \in Kinds \ {"KEX", "HOSTKEY"} /\ way.mac \in Kinds \ {"KEX", "HOSTKEY"}
      /\ way.comp \in Kinds \ {"KEX", "HOSTKEY"} /\ way.comp \in {"COMP_CS", "COMP_SC"}
    BY KindsAre DEF In, Out
<1>2. /\ m1[way.crypt] = m2[way.crypt] /\ m1[way.mac] = m2[way.mac]
      /\ m1[way.comp] = m2[way.comp]
    BY <1>1
<1>3. b1 = b2 \/ m2[way.comp] = "none" BY <1>1
<1>4. CompContext(m1[way.comp], b1) = CompContext(m2[way.comp], b2)
    BY <1>2, <1>3 DEF CompContext
<1> QED BY <1>2, <1>4 DEF Keys

\* Without another exchange, there is one.
LEMMA OnlyOnce ==
    ASSUME NEW step, NEW sk, NEW c, NEW n, Phase(step, sk, c, n), n = 1
    PROVE  c \in {0, 1}
BY DEF Phase

\* The client writes and reads with the keys of its last exchange.
LEMMA ClientsKeys ==
    ASSUME NEW m, NEW offers, NEW k, NEW s, NEW w, NEW srv, Fits(m, offers, k, s, w, srv)
    PROVE  OutKeys(s) = KeysAt(m, Out, s.secrets) /\ InKeys(s) = KeysAt(m, In, s.secrets)
<1>1. /\ Phase(k.step, srv.kex, s.secrets, srv.n) /\ MethodInv(s, k.step, m, srv)
      /\ Sane(k, s, w, srv)
    BY DEF Fits, InStepOf
<1>2. CASE ~s.newkeys
    <2>1. s.secrets \in Nat /\ ~(s.secrets > 0) BY <1>1, <1>2 DEF MethodInv, Sane
    <2>2. s.secrets = 0 BY <2>1
    <2> QED BY <1>2, <2>2 DEF OutKeys, InKeys, KeysAt
<1>3. CASE s.newkeys
    <2>1. s.session_id = 1 /\ s.secrets # 0 BY <1>1, <1>3 DEF MethodInv, Sane
    <2>2. \A x \in Kinds \ {"KEX", "HOSTKEY"} : s.method[x] = m[x]
        BY <1>1, <1>3 DEF MethodInv
    <2>3. s.stream = s.secrets \/ (m["COMP_CS"] = "none" /\ m["COMP_SC"] = "none")
        <3>1. CASE "rekey" \notin uses /\ s.stream = 1
            <4>1. srv.n = 1 BY <1>1, <3>1 DEF MethodInv
            <4> QED BY <1>1, <2>1, <3>1, <4>1, OnlyOnce
        <3> QED BY <1>1, <1>3, <3>1 DEF MethodInv
    <2>4. \A way \in {In, Out} :
            Keys(s.method, way, s.secrets, 1, s.stream)
              = Keys(m, way, s.secrets, 1, s.secrets)
        BY <2>2, <2>3, KeysAlike
    <2> QED BY <1>3, <2>1, <2>4 DEF OutKeys, InKeys, KeysAt
<1> QED BY <1>2, <1>3

\* What the client writes, other than in its wait for NEWKEYS, is under the keys
\* of what it wrote last.
LEMMA WritesInStep ==
    ASSUME NEW step, step # "newkeys", NEW sk, NEW c, NEW n, Phase(step, sk, c, n), NEW m
    PROVE  KeysAt(m, Out, c) = IF OursTurns(step, sk) THEN KeysAt(m, Out, Reads(sk, n) + 1)
                                                      ELSE KeysAt(m, Out, Reads(sk, n))
<1>1. CASE OursTurns(step, sk)
    <2>1. sk = "newkeys" /\ step = "none" BY <1>1 DEF OursTurns, Between
    <2>2. n = c /\ c \in Nat BY <2>1 DEF Phase, Opening, Closing
    <2>3. Reads(sk, n) + 1 = c BY <2>1, <2>2 DEF Reads
    <2> QED BY <1>1, <2>3
<1>2. CASE ~OursTurns(step, sk)
    <2>1. Reads(sk, n) = c
        <3>1. CASE step = "none" BY <1>2, <3>1 DEF Phase, OursTurns, Between, Reads, Opening, Closing
        <3>2. CASE step \in Opening
            <4>1. sk # "none" /\ n = c + 1 /\ c \in Nat
                BY <3>2 DEF Phase, Opening, Closing
            <4> QED BY <4>1 DEF Reads
        <3>3. CASE step \in Closing
            <4>1. sk # "none" /\ n = c + 1 /\ c \in Nat
                BY <3>3 DEF Phase, Opening, Closing
            <4> QED BY <4>1 DEF Reads
        <3> QED BY <3>1, <3>2, <3>3 DEF Phase
    <2> QED BY <1>2, <2>1
<1> QED BY <1>1, <1>2

\* What the server writes is under the keys of what it wrote last.
LEMMA AnswersInStep ==
    ASSUME NEW step, NEW sk, NEW c, NEW n, Phase(step, sk, c, n)
    PROVE  Wrote(sk, n) = IF TheirsTurns(step, sk) THEN c + 1 ELSE c
<1>1. c \in Nat /\ n \in Nat BY DEF Phase
<1>2. CASE step = "none"
    BY <1>1, <1>2 DEF Phase, TheirsTurns, Wrote, Opening, Closing
<1>3. CASE step \in Opening
    <2>1. sk \in {"sent", "init"} /\ n = c + 1 /\ step \notin Closing /\ step # "newkeys"
        BY <1>3 DEF Phase, Opening, Closing
    <2> QED BY <1>1, <2>1 DEF TheirsTurns, Wrote
<1>4. CASE step \in Closing
    <2>1. sk \in {"sent", "init", "newkeys"} /\ n = c + 1 /\ step # "newkeys"
        BY <1>4 DEF Phase, Opening, Closing
    <2> QED BY <1>1, <1>4, <2>1 DEF TheirsTurns, Wrote
<1>5. CASE step = "newkeys"
    <2>1. (sk = "sent" /\ n = c + 2) \/ (sk \in {"newkeys", "none"} /\ n = c + 1)
        BY <1>5 DEF Phase, Opening, Closing
    <2> QED BY <1>1, <1>5, <2>1 DEF TheirsTurns, Wrote
<1> QED BY <1>2, <1>3, <1>4, <1>5 DEF Phase

\* Both sides prefer the same.
LEMMA ServerChooses ==
    ASSUME NEW offered
    PROVE  ServersChoice(offered) = Choice(offered, server.lists)
BY Zenon DEF ServersChoice, Choice, Preferred

-----------------------------------------------------------------------------
(* What the client does, step by step *)

\* What of a session the invariant is about, and two that are alike in it but for some.
Relevant == {"method", "secrets", "stream", "newkeys", "kexinit", "burn", "packets", "out"}
Alike(s, t, but) ==
    /\ DOMAIN s = SessionFields /\ DOMAIN t = SessionFields
    /\ \A f \in Relevant \ but : t[f] = s[f]

\* Methods stay agreed on while the exchange goes on.
LEMMA MethodStep ==
    ASSUME NEW s, NEW t, Alike(s, t, {"out", "packets", "burn"}), NEW step, NEW m, NEW srv,
           MethodInv(s, step, m, srv), NEW step2,
           step2 = "agree" => step = "agree", step2 = "none" => step = "none",
           step2 \in Agreeing => step \in Agreeing
    PROVE  MethodInv(t, step2, m, srv)
<1>1. /\ t.method = s.method /\ t.secrets = s.secrets /\ t.stream = s.stream
      /\ t.newkeys = s.newkeys /\ t.kexinit = s.kexinit
    BY DEF Alike, Relevant
<1> QED BY <1>1 DEF MethodInv

\* At no other step is there less to be said of methods than at the beginning.
LEMMA MethodBegins ==
    ASSUME NEW s, NEW t, Alike(s, t, {"out", "packets", "burn", "method"}), NEW step, NEW m,
           NEW srv, MethodInv(s, step, m, srv),
           \A k \in Kinds \ {"KEX", "HOSTKEY"} : t.method[k] = s.method[k]
    PROVE  MethodInv(t, "kexinit", m, srv)
<1>1. /\ t.secrets = s.secrets /\ t.stream = s.stream
      /\ t.newkeys = s.newkeys /\ t.kexinit = s.kexinit
    BY DEF Alike, Relevant
<1> QED BY <1>1 DEF MethodInv, Agreeing

\* The invariant holds of its parts.
LEMMA FitsHas ==
    ASSUME NEW m, NEW offers, NEW k, NEW s, NEW w, NEW srv, Fits(m, offers, k, s, w, srv)
    PROVE  /\ Sane(k, s, w, srv)
           /\ Placed(s.out) /\ Placed(s.packets) /\ Placed(w)
           /\ Phase(k.step, srv.kex, s.secrets, srv.n)
           /\ AskInv(s.out, k.step, srv.kex, offers)
           /\ ValueInv(s.out, k.step, srv.kex, m)
           /\ GreetInv(s.packets, w, k.step, srv.kex, s.secrets, srv)
           /\ ShowInv(s.packets, w, k.step, srv.kex, srv.n)
           /\ DueInv(s.packets, w, k.step, k.asked, s.burn, srv.kex, m, srv.guess)
           /\ MethodInv(s, k.step, m, srv)
           /\ Turning(s.out, KeysAt(m, Out, Reads(srv.kex, srv.n)),
                      KeysAt(m, Out, Reads(srv.kex, srv.n) + 1), OursTurns(k.step, srv.kex))
           /\ Turning(w, KeysAt(m, In, s.secrets), KeysAt(m, In, s.secrets + 1),
                      TheirsTurns(k.step, srv.kex))
BY PlacedOk DEF Fits, InStepOf, Sane

\* A packet of ours, other than NEWKEYS, is in step.
LEMMA WriteTurns ==
    ASSUME NEW m, NEW offers, NEW k, NEW s, NEW w, NEW srv, Fits(m, offers, k, s, w, srv),
           k.step # "newkeys", NEW p, p.type # NEWKEYS, p.keys = OutKeys(s),
           NEW out2, Longer(s.out, p, out2)
    PROVE  Turning(out2, KeysAt(m, Out, Reads(srv.kex, srv.n)),
                   KeysAt(m, Out, Reads(srv.kex, srv.n) + 1), OursTurns(k.step, srv.kex))
<1>1. Phase(k.step, srv.kex, s.secrets, srv.n) BY FitsHas
<1>2. p.keys = KeysAt(m, Out, s.secrets) BY ClientsKeys
<1> DEFINE old == KeysAt(m, Out, Reads(srv.kex, srv.n))
           new == KeysAt(m, Out, Reads(srv.kex, srv.n) + 1)
<1>3. PICK turns \in BOOLEAN : turns = OursTurns(k.step, srv.kex) BY DEF OursTurns
<1>4. p.keys = IF turns THEN new ELSE old BY <1>1, <1>2, <1>3, WritesInStep
<1>5. Turning(s.out, old, new, turns) BY <1>3, FitsHas
<1> HIDE DEF old, new
<1>6. Turning(out2, old, new, turns) BY <1>4, <1>5, TurningAppends
<1> QED BY <1>3, <1>6 DEF old, new

\* Nothing that the invariant is about changes.
LEMMA SameFits ==
    ASSUME NEW m, NEW offers, NEW k, NEW s, NEW w, NEW srv, Fits(m, offers, k, s, w, srv),
           NEW t, Alike(s, t, {})
    PROVE  InStepOf(m, offers, k, t, w, srv)
<1>1. /\ t.out = s.out /\ t.packets = s.packets /\ t.secrets = s.secrets
      /\ t.burn = s.burn
    BY DEF Alike, Relevant
<1>2. MethodInv(t, k.step, m, srv)
    <2>1. Alike(s, t, {"out", "packets", "burn"}) BY DEF Alike
    <2> QED BY <2>1, MethodStep, FitsHas
<1>3. InStepOf(m, offers, k, s, w, srv) BY DEF Fits
<1> QED BY <1>1, <1>2, <1>3 DEF InStepOf

\* Between two exchanges a packet of ours is written.
LEMMA WriteFits ==
    ASSUME NEW m, NEW offers, NEW k, NEW s, NEW w, NEW srv, Fits(m, offers, k, s, w, srv),
           k.step = "none", NEW p, p.type \notin {KEXINIT, NEWKEYS} \cup Values,
           p.keys = OutKeys(s), NEW t, Alike(s, t, {"out"}), Longer(s.out, p, t.out)
    PROVE  InStepOf(m, offers, k, t, w, srv)
<1>1. t.packets = s.packets /\ t.secrets = s.secrets /\ t.burn = s.burn
    BY DEF Alike, Relevant
<1>2. MethodInv(t, k.step, m, srv)
    <2>1. Alike(s, t, {"out", "packets", "burn"}) BY DEF Alike
    <2> QED BY <2>1, MethodStep, FitsHas
<1>3. InStepOf(m, offers, k, s, w, srv) BY DEF Fits
<1>4. Turning(t.out, KeysAt(m, Out, Reads(srv.kex, srv.n)),
              KeysAt(m, Out, Reads(srv.kex, srv.n) + 1), OursTurns(k.step, srv.kex))
    BY WriteTurns
<1>5. AskInv(t.out, k.step, srv.kex, offers)
    <2>1. AskInv(s.out, k.step, srv.kex, offers) BY FitsHas
    <2> QED BY <2>1, AskAppends
<1>6. ValueInv(t.out, k.step, srv.kex, m)
    <2>1. ValueInv(s.out, k.step, srv.kex, m) BY FitsHas
    <2> QED BY <2>1, ValueAppends
<1> QED BY <1>1, <1>2, <1>3, <1>4, <1>5, <1>6 DEF InStepOf

\* Between two exchanges a packet is taken from the brigade.
LEMMA TakeFits ==
    ASSUME NEW m, NEW offers, NEW k, NEW s, NEW w, NEW srv, Fits(m, offers, k, s, w, srv),
           k.step = "none", NEW t, Alike(s, t, {"packets"}), NEW x,
           Without(s.packets, x, t.packets)
    PROVE  InStepOf(m, offers, k, t, w, srv)
<1>1. t.out = s.out /\ t.secrets = s.secrets /\ t.burn = s.burn
    BY DEF Alike, Relevant
<1>2. MethodInv(t, k.step, m, srv)
    <2>1. Alike(s, t, {"out", "packets", "burn"}) BY DEF Alike
    <2> QED BY <2>1, MethodStep, FitsHas
<1>3. InStepOf(m, offers, k, s, w, srv) BY DEF Fits
<1>4. GreetInv(t.packets, w, k.step, srv.kex, s.secrets, srv) BY GreetTakes, FitsHas
<1>5. ShowInv(t.packets, w, k.step, srv.kex, srv.n) BY ShowTakes, FitsHas
<1>6. DueInv(t.packets, w, k.step, k.asked, s.burn, srv.kex, m, srv.guess)
    <2>1. k.step \in Between BY DEF Between
    <2>2. DueInv(s.packets, w, k.step, k.asked, s.burn, srv.kex, m, srv.guess) BY FitsHas
    <2> QED BY <2>1, <2>2, DueTakes
<1> QED BY <1>1, <1>2, <1>3, <1>4, <1>5, <1>6 DEF InStepOf

\* A packet is read into the brigade that the client does not turn at; what it waits
\* for is then not in the brigade, unless it has to look there again.
LEMMA ReadFits ==
    ASSUME NEW m, NEW offers, NEW k, NEW s, NEW w, NEW srv, Fits(m, offers, k, s, w, srv),
           w # <<>>, w[1].type # NEWKEYS, w[1].type = KEXINIT => k.step = "kexinit",
           k.step # "burn", NEW k2, k2.step = k.step, k2.h = k.h,
           NEW t, Alike(s, t, {"packets"}), Longer(s.packets, w[1], t.packets),
           NEW w2, Shorter(w, w2), k2.asked \in BOOLEAN, k2.asked => k.asked,
           k.step = "reply" /\ k2.asked => w[1].type # ReplyType(m)
    PROVE  InStepOf(m, offers, k2, t, w2, srv)
<1>1. t.out = s.out /\ t.secrets = s.secrets /\ t.burn = s.burn
    BY DEF Alike, Relevant
<1>2. MethodInv(t, k.step, m, srv)
    <2>1. Alike(s, t, {"out", "packets", "burn"}) BY DEF Alike
    <2> QED BY <2>1, MethodStep, FitsHas
<1>3. InStepOf(m, offers, k, s, w, srv) /\ k.asked \in BOOLEAN BY DEF Fits, Sane
<1>4. Turning(w2, KeysAt(m, In, s.secrets), KeysAt(m, In, s.secrets + 1),
              TheirsTurns(k.step, srv.kex))
    <2>1. TheirsTurns(k.step, srv.kex) \in BOOLEAN BY DEF TheirsTurns
    <2> QED BY <2>1, TurningTail, FitsHas
<1>5. GreetInv(t.packets, w2, k.step, srv.kex, s.secrets, srv) BY GreetReads, FitsHas
<1>6. ShowInv(t.packets, w2, k.step, srv.kex, srv.n) BY ShowReads, FitsHas
<1>7. DueInv(t.packets, w2, k.step, k2.asked, s.burn, srv.kex, m, srv.guess)
    <2>1. DueInv(s.packets, w, k.step, k.asked, s.burn, srv.kex, m, srv.guess) BY FitsHas
    <2> QED BY <1>3, <2>1, DueReads
<1> QED BY <1>1, <1>2, <1>3, <1>4, <1>5, <1>6, <1>7 DEF InStepOf

\* A packet is read and dropped: a DISCONNECT, or the banner line.
LEMMA DropFits ==
    ASSUME NEW m, NEW offers, NEW k, NEW s, NEW w, NEW srv, Fits(m, offers, k, s, w, srv),
           w # <<>>, w[1].type \in {DISCONNECT, BANNER_LINE},
           NEW t, Alike(s, t, {}), NEW w2, Shorter(w, w2)
    PROVE  InStepOf(m, offers, k, t, w2, srv)
<1>1. /\ t.out = s.out /\ t.secrets = s.secrets /\ t.burn = s.burn
      /\ t.packets = s.packets
    BY DEF Alike, Relevant
<1>0. w[1].type \notin {NEWKEYS, KEXINIT} \cup Replies
    BY Types DEF PacketTypes, Replies
<1>2. MethodInv(t, k.step, m, srv)
    <2>1. Alike(s, t, {"out", "packets", "burn"}) BY DEF Alike
    <2> QED BY <2>1, MethodStep, FitsHas
<1>3. InStepOf(m, offers, k, s, w, srv) /\ k.asked \in BOOLEAN BY DEF Fits, Sane
<1>4. Turning(w2, KeysAt(m, In, s.secrets), KeysAt(m, In, s.secrets + 1),
              TheirsTurns(k.step, srv.kex))
    <2>1. TheirsTurns(k.step, srv.kex) \in BOOLEAN BY DEF TheirsTurns
    <2> QED BY <1>0, <2>1, TurningTail, FitsHas
<1>5. GreetInv(s.packets, w2, k.step, srv.kex, s.secrets, srv) BY <1>0, GreetDrops, FitsHas
<1>6. ShowInv(s.packets, w2, k.step, srv.kex, srv.n) BY ShowReads, FitsHas
<1>7. DueInv(s.packets, w2, k.step, k.asked, s.burn, srv.kex, m, srv.guess)
    <2>1. DueInv(s.packets, w, k.step, k.asked, s.burn, srv.kex, m, srv.guess) BY FitsHas
    <2> QED BY <1>0, <2>1, DueDrops
<1> QED BY <1>1, <1>2, <1>3, <1>4, <1>5, <1>6, <1>7 DEF InStepOf

\* KEXINIT is written, before any packet or because the server's was read.
LEMMA HelloFits ==
    ASSUME NEW m, NEW offers, NEW k, NEW s, NEW w, NEW srv, Fits(m, offers, k, s, w, srv),
           k.step = "none", srv.kex = "sent",
           NEW p, p.type = KEXINIT, p.what = offers, p.keys = OutKeys(s),
           NEW t, Alike(s, t, {"out", "packets", "method"}), Longer(s.out, p, t.out),
           \A x \in Kinds \ {"KEX", "HOSTKEY"} : t.method[x] = s.method[x],
           NEW k2, k2.step = "kexinit", NEW w2,
           Turning(w2, KeysAt(m, In, s.secrets), KeysAt(m, In, s.secrets + 1),
                   TheirsTurns("none", srv.kex)),
           GreetInv(t.packets, w2, "kexinit", srv.kex, s.secrets, srv),
           ShowInv(t.packets, w2, "none", srv.kex, srv.n),
           ~Has(t.packets, NEWKEYS), srv.guess => GuessDue(t.packets, w2)
    PROVE  InStepOf(m, offers, k2, t, w2, srv)
<1>0. k.step \in Between /\ "kexinit" \in Opening /\ "kexinit" \notin Closing
    BY DEF Between, Opening, Closing
<1>1. t.secrets = s.secrets /\ t.burn = s.burn
    BY DEF Alike, Relevant
<1>2. MethodInv(t, "kexinit", m, srv)
    <2>1. Alike(s, t, {"out", "packets", "burn", "method"}) BY DEF Alike
    <2> QED BY <2>1, MethodBegins, FitsHas
<1>3. InStepOf(m, offers, k, s, w, srv) BY DEF Fits
<1>4. Turning(t.out, KeysAt(m, Out, Reads(srv.kex, srv.n)),
              KeysAt(m, Out, Reads(srv.kex, srv.n) + 1), OursTurns("kexinit", srv.kex))
    <2>1. p.type # NEWKEYS BY Types DEF PacketTypes
    <2>2. OursTurns(k.step, srv.kex) = OursTurns("kexinit", srv.kex) BY DEF OursTurns
    <2> QED BY <2>1, <2>2, WriteTurns
<1>5. AskInv(t.out, "kexinit", "sent", offers)
    <2>1. AskInv(s.out, k.step, srv.kex, offers) BY FitsHas
    <2> QED BY <1>0, <2>1, AskAppendsHello
<1>6. ValueInv(t.out, "kexinit", srv.kex, m)
    <2>1. ValueInv(s.out, k.step, srv.kex, m) BY FitsHas
    <2>2. p.type \notin Values BY Types DEF Values, PacketTypes
    <2>3. k.step \notin Closing BY DEF Closing
    <2> QED BY <2>1, <2>2, <2>3, ValueAppends
<1>7. ShowInv(t.packets, w2, "kexinit", srv.kex, srv.n) BY ShowStep
<1>8. DueInv(t.packets, w2, "kexinit", k2.asked, s.burn, srv.kex, m, srv.guess)
    BY DEF DueInv
<1>9. TheirsTurns("none", srv.kex) = TheirsTurns("kexinit", srv.kex)
    BY DEF TheirsTurns, Closing
<1>10. Phase("kexinit", srv.kex, s.secrets, srv.n)
    BY <1>0, <1>3 DEF InStepOf, Phase, Closing
<1> QED
    BY <1>1, <1>2, <1>3, <1>4, <1>5, <1>6, <1>7, <1>8, <1>9, <1>10 DEF InStepOf

\* At first the server's KEXINIT is on its way.
LEMMA BannerFits ==
    ASSUME NEW m, NEW offers, NEW k, NEW s, NEW w, NEW srv, Fits(m, offers, k, s, w, srv),
           k.step = "none", s.secrets = 0,
           NEW p, p.type = KEXINIT, p.what = offers, p.keys = OutKeys(s),
           NEW t, Alike(s, t, {"out", "method"}), Longer(s.out, p, t.out),
           \A x \in Kinds \ {"KEX", "HOSTKEY"} : t.method[x] = s.method[x],
           NEW k2, k2.step = "kexinit"
    PROVE  InStepOf(m, offers, k2, t, w, srv)
<1>0. k.step \in Between BY DEF Between
<1>1. t.packets = s.packets /\ Alike(s, t, {"out", "packets", "method"})
    BY DEF Alike, Relevant
<1>2. srv.kex = "sent"
    <2>1. Phase("none", srv.kex, 0, srv.n) BY FitsHas
    <2> QED BY <2>1 DEF Phase, Opening, Closing
<1>3. GreetInv(s.packets, w, k.step, srv.kex, s.secrets, srv) BY FitsHas
<1>4. GreetInv(s.packets, w, "kexinit", srv.kex, s.secrets, srv)
    <2>1. ~Has(s.packets, KEXINIT) BY <1>3 DEF GreetInv
    <2>2. "kexinit" \notin Between BY DEF Between
    <2> QED BY <1>3, <2>1, <2>2, GreetStep
<1>5. srv.guess => GuessDue(s.packets, w)
    <2>1. PICK i \in DOMAIN w : w[i].type = KEXINIT
        BY <1>0, <1>2, <1>3 DEF GreetInv, Has
    <2>2. srv.guess => \E j \in DOMAIN w : w[j].type = KEXDH_REPLY
        BY <1>3, <2>1 DEF GreetInv
    <2> QED BY <2>2 DEF GuessDue, Has
<1>6. DueInv(s.packets, w, "none", k.asked, s.burn, srv.kex, m, srv.guess) BY FitsHas
<1>7. ~Has(s.packets, NEWKEYS) BY <1>6 DEF DueInv
<1>8. ShowInv(s.packets, w, "none", srv.kex, srv.n) BY FitsHas
<1>9. Turning(w, KeysAt(m, In, s.secrets), KeysAt(m, In, s.secrets + 1),
              TheirsTurns("none", srv.kex))
    BY FitsHas
<1> QED BY <1>1, <1>2, <1>4, <1>5, <1>7, <1>8, <1>9, HelloFits

\* It is read, and answered.
LEMMA RekeyFits ==
    ASSUME NEW m, NEW offers, NEW k, NEW s, NEW w, NEW srv, Fits(m, offers, k, s, w, srv),
           k.step = "none", w # <<>>, w[1].type = KEXINIT, NEW w2, Shorter(w, w2),
           NEW p, p.type = KEXINIT, p.what = offers, p.keys = OutKeys(s),
           NEW t, Alike(s, t, {"out", "packets", "method"}), Longer(s.out, p, t.out),
           Longer(s.packets, w[1], t.packets),
           \A x \in Kinds \ {"KEX", "HOSTKEY"} : t.method[x] = s.method[x],
           NEW k2, k2.step = "kexinit"
    PROVE  InStepOf(m, offers, k2, t, w2, srv)
<1>1. GreetInv(s.packets, w, k.step, srv.kex, s.secrets, srv) BY FitsHas
<1>2. /\ GreetInv(t.packets, w2, "kexinit", srv.kex, s.secrets, srv) /\ srv.kex = "sent"
      /\ srv.guess => Has(w2, KEXDH_REPLY)
    <2>1. KEXDH_REPLY # KEXINIT /\ k.step # "kexinit" BY Types DEF PacketTypes
    <2> QED BY <1>1, <2>1, GreetReadsHello
<1>3. Turning(w2, KeysAt(m, In, s.secrets), KeysAt(m, In, s.secrets + 1),
              TheirsTurns("none", srv.kex))
    <2>1. TheirsTurns(k.step, srv.kex) \in BOOLEAN /\ w[1].type # NEWKEYS
        BY Types DEF TheirsTurns, PacketTypes
    <2> QED BY <2>1, TurningTail, FitsHas
<1>4. ShowInv(t.packets, w2, "none", srv.kex, srv.n)
    <2>1. ShowInv(s.packets, w, "none", srv.kex, srv.n) BY FitsHas
    <2> QED BY <2>1, ShowReads
<1>5. ~Has(t.packets, NEWKEYS)
    <2>1. DueInv(s.packets, w, "none", k.asked, s.burn, srv.kex, m, srv.guess) BY FitsHas
    <2>2. ~Has(s.packets, NEWKEYS) BY <2>1 DEF DueInv
    <2>3. w[1].type # NEWKEYS BY Types DEF PacketTypes
    <2>4. \A i \in DOMAIN t.packets :
            (i \in DOMAIN s.packets /\ t.packets[i] = s.packets[i]) \/ t.packets[i] = w[1]
        BY LongerPlaces
    <2> QED BY <2>2, <2>3, <2>4 DEF Has
<1>6. srv.guess => GuessDue(t.packets, w2) BY <1>2 DEF GuessDue
<1> QED BY <1>2, <1>3, <1>4, <1>5, <1>6, HelloFits

\* The server's KEXINIT is taken.
LEMMA HelloTakenFits ==
    ASSUME NEW m, NEW offers, NEW k, NEW s, NEW w, NEW srv, Fits(m, offers, k, s, w, srv),
           k.step = "kexinit", NEW x, x \in DOMAIN s.packets, s.packets[x].type = KEXINIT,
           NEW t, Alike(s, t, {"packets", "kexinit"}), Without(s.packets, x, t.packets),
           t.kexinit = s.packets[x], NEW k2, k2.step = "agree", k2.asked = FALSE
    PROVE  InStepOf(m, offers, k2, t, w, srv)
<1>0. {"kexinit", "agree"} \subseteq Opening /\ "agree" \notin Closing \cup Between
    BY DEF Opening, Closing, Between
<1>1. t.secrets = s.secrets /\ t.burn = s.burn /\ t.out = s.out
    BY DEF Alike, Relevant
<1>2. GreetInv(s.packets, w, k.step, srv.kex, s.secrets, srv) BY FitsHas
<1>3. GreetInv(t.packets, w, "agree", srv.kex, s.secrets, srv) /\ Greets(s.packets[x], srv)
    BY <1>0, <1>2, GreetTakesHello
<1>4. MethodInv(t, "agree", m, srv)
    <2>1. /\ t.method = s.method /\ t.secrets = s.secrets /\ t.stream = s.stream
          /\ t.newkeys = s.newkeys
        BY DEF Alike, Relevant
    <2>2. MethodInv(s, "kexinit", m, srv) BY FitsHas
    <2> QED BY <1>3, <2>1, <2>2 DEF MethodInv, Agreeing
<1>5. InStepOf(m, offers, k, s, w, srv) BY DEF Fits
<1>6. DueInv(t.packets, w, "agree", FALSE, s.burn, srv.kex, m, srv.guess)
    <2>1. DueInv(s.packets, w, "kexinit", k.asked, s.burn, srv.kex, m, srv.guess)
        BY FitsHas
    <2>2. s.packets[x].type # KEXDH_REPLY BY Types DEF PacketTypes
    <2> QED BY <2>1, <2>2, DueTakesHello
<1>7. ShowInv(t.packets, w, "agree", srv.kex, srv.n)
    <2>1. ShowInv(t.packets, w, k.step, srv.kex, srv.n) BY ShowTakes, FitsHas
    <2>2. k.step \notin Closing BY DEF Closing
    <2> QED BY <2>1, <2>2, ShowStep
<1>8. AskInv(t.out, "agree", srv.kex, offers)
    <2>1. AskInv(s.out, k.step, srv.kex, offers) BY FitsHas
    <2> QED BY <1>0, <1>1, <2>1, AskStep
<1>9. ValueInv(t.out, "agree", srv.kex, m)
    <2>1. ValueInv(s.out, k.step, srv.kex, m) /\ k.step \notin Closing
        BY FitsHas DEF Closing
    <2> QED BY <1>1, <2>1, ValueStep
<1>10. Phase("agree", srv.kex, s.secrets, srv.n)
    BY <1>0, <1>5 DEF InStepOf, Phase, Closing
<1>11. /\ TheirsTurns("kexinit", srv.kex) = TheirsTurns("agree", srv.kex)
       /\ OursTurns("kexinit", srv.kex) = OursTurns("agree", srv.kex)
    BY DEF TheirsTurns, OursTurns, Closing, Between
<1> QED
    BY <1>1, <1>3, <1>4, <1>5, <1>6, <1>7, <1>8, <1>9, <1>10, <1>11 DEF InStepOf

-----------------------------------------------------------------------------
(* What is found first *)

\* Places have a first one.
LEMMA FirstPlace ==
    ASSUME NEW I \in SUBSET Nat, I # {}
    PROVE  Min(I) \in I /\ \A i \in I : Min(I) <= i
<1>1. PICK n \in I : \A i \in I : ~(<<i, n>> \in OpToRel(<, Nat))
    BY WFMin, NatLessThanWellFounded
<1>2. \A i \in I : ~(i < n) BY <1>1 DEF OpToRel
<1>3. \E x \in I : \A y \in I : x =< y BY <1>2
<1> QED BY ONLY <1>3, Zenon DEF Min

\* The first of the client's methods that the server has, if it has one.
LEMMA PreferredIs ==
    ASSUME NEW ours, NEW theirs
    PROVE  LET i == SelectInSeq(ours, LAMBDA m : m \in ToSet(theirs))
           IN  /\ Preferred(ours, theirs) = IF i = 0 THEN "" ELSE ours[i]
               /\ i # 0 => ours[i] \in ToSet(theirs)
<1> DEFINE I == {i \in 1..Len(ours) : ours[i] \in ToSet(theirs)}
           i == SelectInSeq(ours, LAMBDA m : m \in ToSet(theirs))
<1>1. i = IF I # {} THEN Min(I) ELSE 0 BY DEF SelectInSeq
<1>2. I \in SUBSET Nat OBVIOUS
<1>3. Preferred(ours, theirs) = IF i = 0 THEN "" ELSE ours[i] BY Zenon DEF Preferred
<1>4. i # 0 => i \in I
    <2> HIDE DEF I, i
    <2> QED BY <1>1, <1>2, FirstPlace
<1>5. i # 0 => ours[i] \in ToSet(theirs) BY <1>4
<1> QED BY <1>3, <1>5

\* What the client agrees to is what the server prefers, and its own.
LEMMA AgreedIs ==
    ASSUME NEW ours, NEW theirs, NEW known, Agreed(ours, theirs, known) # ""
    PROVE  /\ Agreed(ours, theirs, known) = Preferred(ours, theirs)
           /\ Preferred(ours, theirs) \in ToSet(known) \cap ToSet(theirs)
<1> DEFINE i == SelectInSeq(ours, LAMBDA m : m \in ToSet(theirs))
           j == SelectInSeq(ours, LAMBDA m : AgreeInstr(theirs, m))
<1>1. i = j BY DEF AgreeInstr
<1>2. Agreed(ours, theirs, known)
        = IF j = 0 THEN "" ELSE IF ours[j] \in ToSet(known) THEN ours[j] ELSE ""
    BY Zenon DEF Agreed
<1>3. /\ Preferred(ours, theirs) = IF i = 0 THEN "" ELSE ours[i]
      /\ i # 0 => ours[i] \in ToSet(theirs)
    BY PreferredIs
<1> HIDE DEF i, j
<1> QED BY <1>1, <1>2, <1>3

\* When they can agree, every kind is agreed on.
LEMMA AgreesOnAll ==
    ASSUME NEW s, DOMAIN s = SessionFields, CanAgree(s), NEW m,
           m = Choice(Offers(s), s.kexinit.what)
    PROVE  LET t == AgreeMethods(s)
           IN  /\ t.method = m /\ t.stream = s.kexinit.n
               /\ t.burn <=> s.kexinit.guess /\ m["KEX"] # Head(s.kexinit.what["KEX"])
               /\ \A f \in SessionFields \ {"method", "stream", "burn"} : t[f] = s[f]
               /\ \A k \in Kinds : m[k] \in ToSet(Supported[k]) \cap ToSet(s.kexinit.what[k])
<1> DEFINE C(k) == Agreed(Offer(s, k), s.kexinit.what[k], Supported[k])
           fails == SelectInSeq(KindsInOrder, LAMBDA k : C(k) = "")
           Set(k) == fails = 0 \/ k \in ToSet(SubSeq(KindsInOrder, 1, fails - 1))
           method == [k \in Kinds |-> IF Set(k) THEN C(k) ELSE s.method[k]]
           stream == IF fails = 0 THEN s.kexinit.n ELSE s.stream
           burn == s.kexinit.guess /\ C("KEX") # Head(s.kexinit.what["KEX"])
           t == AgreeMethods(s)
<1>1. t = [s EXCEPT !.method = method, !.stream = stream, !.burn = burn]
    BY Zenon DEF AgreeMethods
<1>2. \A k \in Kinds : C(k) # "" BY Zenon DEF CanAgree
<1>3. fails = 0
    <2> DEFINE I == {i \in 1..Len(KindsInOrder) : C(KindsInOrder[i]) = ""}
    <2>1. fails = IF I # {} THEN Min(I) ELSE 0 BY DEF SelectInSeq
    <2>2. \A i \in 1..Len(KindsInOrder) : KindsInOrder[i] \in Kinds
        <3>1. Len(KindsInOrder) = 8 /\ DOMAIN KindsInOrder = 1..8 BY DEF KindsInOrder
        <3> QED BY <3>1 DEF Kinds, ToSet
    <2> HIDE DEF C
    <2>3. I = {} BY <1>2, <2>2
    <2> HIDE DEF I, fails
    <2> QED BY <2>1, <2>3
<1>4. m = [k \in Kinds |-> Preferred(Offers(s)[k], s.kexinit.what[k])] BY DEF Choice
<1>5. \A k \in Kinds : Offers(s)[k] = Offer(s, k) BY DEF Offers
<1>6. ASSUME NEW k \in Kinds
      PROVE  /\ C(k) = m[k]
             /\ m[k] \in ToSet(Supported[k]) \cap ToSet(s.kexinit.what[k])
    <2>1. m[k] = Preferred(Offer(s, k), s.kexinit.what[k]) BY <1>4, <1>5
    <2>2. C(k) # "" BY <1>2
    <2> QED BY <2>1, <2>2, AgreedIs
<1> HIDE DEF C
<1>7. method = m
    <2>1. method = [k \in Kinds |-> C(k)] BY <1>3
    <2>2. m = [k \in Kinds |-> m[k]] BY <1>4
    <2> HIDE DEF method
    <2> QED BY <1>6, <2>1, <2>2
<1>8. stream = s.kexinit.n BY <1>3
<1>9. C("KEX") = m["KEX"] BY <1>6, KindsKnown
<1> HIDE DEF method, stream, fails
<1>10. PICK b \in BOOLEAN : b = burn OBVIOUS
<1>11. b <=> s.kexinit.guess /\ m["KEX"] # Head(s.kexinit.what["KEX"]) BY <1>9, <1>10
<1> HIDE DEF burn, t
<1>12. t = [s EXCEPT !.method = m, !.stream = s.kexinit.n, !.burn = b]
    BY <1>1, <1>7, <1>8, <1>10
<1>13. t.method = m /\ t.stream = s.kexinit.n /\ t.burn = b
    BY <1>12 DEF SessionFields
<1>14. \A f \in SessionFields \ {"method", "stream", "burn"} : t[f] = s[f] BY <1>12
<1> QED BY <1>6, <1>11, <1>13, <1>14 DEF t

-----------------------------------------------------------------------------
(* Agreement, and what follows it *)

\* What is known of the server that makes it what the invariant speaks of.
Known(m, s, srv) ==
    /\ m = Choice(Offers(s), srv.lists)
    /\ srv.guess => Head(srv.lists["KEX"]) = Gex
    /\ \/ "rekey" \notin uses
       \/ \A k \in {"COMP_CS", "COMP_SC"} : "zlib" \notin ToSet(srv.lists[k])

\* A method of compression that is not zlib is none.
LEMMA NotZlib ==
    ASSUME NEW k \in {"COMP_CS", "COMP_SC"}, NEW x \in ToSet(Supported[k]), x # "zlib"
    PROVE  x = "none"
<1>1. k \in Kinds BY KindsAre
<1>2. ToSet(Supported[k]) \subseteq ToSet(MethodNames(k)) BY <1>1, SessionsAssumption
<1>3. MethodNames(k) = CompMethods
    <2>1. k # "KEX" /\ k # "HOSTKEY" /\ k \notin {"CRYPT_CS", "CRYPT_SC"}
          /\ k \notin {"MAC_CS", "MAC_SC"}
        OBVIOUS
    <2> QED BY <2>1, Zenon DEF MethodNames
<1>4. DOMAIN CompMethods = 1..2 /\ CompMethods[1] = "none" /\ CompMethods[2] = "zlib"
    BY DEF CompMethods
<1>5. x \in ToSet(CompMethods) BY <1>2, <1>3
<1>6. PICK i \in 1..2 : x = CompMethods[i] BY <1>4, <1>5 DEF ToSet
<1>7. i = 1 \/ i = 2 BY <1>6
<1> QED BY <1>4, <1>6, <1>7

\* The methods are agreed on.
LEMMA AgreedFits ==
    ASSUME NEW m, NEW offers, NEW k, NEW s, NEW w, NEW srv, Fits(m, offers, k, s, w, srv),
           k.step = "agree", Known(m, s, srv), CanAgree(s),
           NEW k2, k2.step = "agreed"
    PROVE  InStepOf(m, offers, k2, AgreeMethods(s), w, srv)
<1> DEFINE t == AgreeMethods(s)
<1>0. {"agree", "agreed"} \subseteq Opening /\ "agreed" \notin Closing \cup Between
      /\ "agree" \notin Closing
    BY DEF Opening, Closing, Between
<1>1. DOMAIN s = SessionFields /\ Greets(s.kexinit, srv) /\ MethodInv(s, "agree", m, srv)
    <2>1. MethodInv(s, "agree", m, srv) BY FitsHas
    <2> QED BY <2>1 DEF Fits, Sane, MethodInv
<1>2. m = Choice(Offers(s), s.kexinit.what) BY <1>1 DEF Known, Greets
<1>3. /\ t.method = m /\ t.stream = s.kexinit.n
      /\ t.burn <=> s.kexinit.guess /\ m["KEX"] # Head(s.kexinit.what["KEX"])
      /\ \A f \in SessionFields \ {"method", "stream", "burn"} : t[f] = s[f]
      /\ \A x \in Kinds : m[x] \in ToSet(Supported[x]) \cap ToSet(s.kexinit.what[x])
    BY <1>1, <1>2, AgreesOnAll
<1> HIDE DEF t
<1>4. /\ t.method = m /\ t.stream = s.kexinit.n
      /\ \A f \in Relevant \ {"method", "stream", "burn"} : t[f] = s[f]
    BY <1>1, <1>3 DEF SessionFields, Relevant
<1>5. t.burn => srv.guess /\ m["KEX"] # Gex BY <1>1, <1>3 DEF Known, Greets
<1>6. /\ t.secrets = s.secrets /\ t.newkeys = s.newkeys /\ t.out = s.out
      /\ t.packets = s.packets
    BY <1>4 DEF Relevant
<1>7. MethodInv(t, "agreed", m, srv)
    <2>1. ("rekey" \notin uses /\ t.stream = 1)
          \/ (m["COMP_CS"] = "none" /\ m["COMP_SC"] = "none")
        <3>1. CASE "rekey" \notin uses BY <1>1, <1>4, <3>1 DEF Greets
        <3>2. CASE \A x \in {"COMP_CS", "COMP_SC"} : "zlib" \notin ToSet(srv.lists[x])
            <4>1. ASSUME NEW x \in {"COMP_CS", "COMP_SC"} PROVE m[x] = "none"
                <5>1. x \in Kinds BY KindsAre
                <5>2. m[x] \in ToSet(Supported[x]) /\ m[x] \in ToSet(srv.lists[x])
                    BY <1>1, <1>3, <5>1 DEF Greets
                <5>3. m[x] # "zlib" BY <3>2, <5>2
                <5> QED BY <5>2, <5>3, NotZlib
            <4> QED BY <4>1
        <3> QED BY <3>1, <3>2 DEF Known
    <2> QED BY <1>1, <1>4, <1>6, <2>1 DEF MethodInv
<1>8. InStepOf(m, offers, k, s, w, srv) BY DEF Fits
<1>9. GreetInv(s.packets, w, "agreed", srv.kex, s.secrets, srv)
    <2>1. GreetInv(s.packets, w, "agree", srv.kex, s.secrets, srv) BY FitsHas
    <2>2. ~Has(s.packets, KEXINIT) BY <2>1 DEF GreetInv
    <2>3. ~Has(w, KEXINIT) BY <1>0, <2>1 DEF GreetInv, Has, Between, Opening
    <2> QED BY <1>0, <2>1, <2>2, <2>3, GreetStep
<1>10. DueInv(s.packets, w, "agreed", k2.asked, t.burn, srv.kex, m, srv.guess)
    <2>1. DueInv(s.packets, w, "agree", k.asked, s.burn, srv.kex, m, srv.guess) BY FitsHas
    <2> QED BY <1>5, <2>1 DEF DueInv
<1>11. ShowInv(s.packets, w, "agreed", srv.kex, srv.n)
    <2>1. ShowInv(s.packets, w, "agree", srv.kex, srv.n) BY FitsHas
    <2> QED BY <1>0, <2>1, ShowStep
<1>12. AskInv(s.out, "agreed", srv.kex, offers)
    <2>1. AskInv(s.out, "agree", srv.kex, offers) BY FitsHas
    <2> QED BY <1>0, <2>1, AskStep
<1>13. ValueInv(s.out, "agreed", srv.kex, m)
    <2>1. ValueInv(s.out, "agree", srv.kex, m) BY FitsHas
    <2> QED BY <1>0, <2>1, ValueStep
<1>14. Phase("agreed", srv.kex, s.secrets, srv.n)
    BY <1>0, <1>8 DEF InStepOf, Phase, Closing
<1>15. /\ TheirsTurns("agree", srv.kex) = TheirsTurns("agreed", srv.kex)
       /\ OursTurns("agree", srv.kex) = OursTurns("agreed", srv.kex)
    BY DEF TheirsTurns, OursTurns, Closing, Between
<1>16. InStepOf(m, offers, k2, t, w, srv)
    BY <1>6, <1>7, <1>8, <1>9, <1>10, <1>11, <1>12, <1>13, <1>14, <1>15 DEF InStepOf
<1> QED BY <1>16 DEF t

\* A group is asked for.
LEMMA GroupAskedFits ==
    ASSUME NEW m, NEW offers, NEW k, NEW s, NEW w, NEW srv, Fits(m, offers, k, s, w, srv),
           k.step = "agreed", m["KEX"] = Gex,
           NEW p, p.type = KEX_DH_GEX_REQUEST, p.keys = OutKeys(s),
           NEW t, Alike(s, t, {"out"}), Longer(s.out, p, t.out),
           NEW k2, k2.step = "group"
    PROVE  InStepOf(m, offers, k2, t, w, srv)
<1>0. {"agreed", "group"} \subseteq Opening /\ "group" \notin Closing \cup Between
      /\ "agreed" \notin Closing
    BY DEF Opening, Closing, Between
<1>1. /\ t.secrets = s.secrets /\ t.burn = s.burn /\ t.packets = s.packets
    BY DEF Alike, Relevant
<1>2. p.type \notin {KEXINIT, NEWKEYS} \cup Values BY Types DEF PacketTypes, Values
<1>3. InStepOf(m, offers, k, s, w, srv) BY DEF Fits
<1>4. MethodInv(t, "group", m, srv)
    <2>1. Alike(s, t, {"out", "packets", "burn"}) BY DEF Alike
    <2>2. MethodInv(s, "agreed", m, srv) BY FitsHas
    <2> QED BY <2>1, <2>2, MethodStep DEF Agreeing
<1>5. Turning(t.out, KeysAt(m, Out, Reads(srv.kex, srv.n)),
              KeysAt(m, Out, Reads(srv.kex, srv.n) + 1), OursTurns(k.step, srv.kex))
    BY <1>2, WriteTurns
<1>6. AskInv(t.out, "group", srv.kex, offers)
    <2>1. AskInv(s.out, "agreed", srv.kex, offers) BY FitsHas
    <2> QED BY <1>0, <1>2, <2>1, AskAppends
<1>7. ValueInv(t.out, "group", srv.kex, m)
    <2>1. ValueInv(s.out, "agreed", srv.kex, m) BY FitsHas
    <2> QED BY <1>0, <1>2, <2>1, ValueAppends
<1>9. GreetInv(s.packets, w, "group", srv.kex, s.secrets, srv)
    <2>1. GreetInv(s.packets, w, "agreed", srv.kex, s.secrets, srv) BY FitsHas
    <2>2. ~Has(s.packets, KEXINIT) BY <2>1 DEF GreetInv
    <2>3. ~Has(w, KEXINIT) BY <2>1 DEF GreetInv, Has, Between
    <2> QED BY <1>0, <2>1, <2>2, <2>3, GreetStep
<1>10. DueInv(s.packets, w, "group", k2.asked, s.burn, srv.kex, m, srv.guess)
    <2>1. DueInv(s.packets, w, "agreed", k.asked, s.burn, srv.kex, m, srv.guess) BY FitsHas
    <2> QED BY <2>1 DEF DueInv
<1>11. ShowInv(s.packets, w, "group", srv.kex, srv.n)
    <2>1. ShowInv(s.packets, w, "agreed", srv.kex, srv.n) BY FitsHas
    <2> QED BY <1>0, <2>1, ShowStep
<1>14. Phase("group", srv.kex, s.secrets, srv.n)
    BY <1>0, <1>3 DEF InStepOf, Phase, Closing
<1>15. /\ TheirsTurns("agreed", srv.kex) = TheirsTurns("group", srv.kex)
       /\ OursTurns("agreed", srv.kex) = OursTurns("group", srv.kex)
    BY DEF TheirsTurns, OursTurns, Closing, Between
<1> QED
    BY <1>1, <1>3, <1>4, <1>5, <1>6, <1>7, <1>9, <1>10, <1>11, <1>14, <1>15 DEF InStepOf

\* Our value is written: after the agreement, or with the group, which is taken from the
\* brigade before.
LEMMA ValueFits ==
    ASSUME NEW m, NEW offers, NEW k, NEW s, NEW w, NEW srv, Fits(m, offers, k, s, w, srv),
           k.step \in {"agreed", "group"},
           NEW p, p.keys = OutKeys(s),
           p.type = IF m["KEX"] = Gex THEN KEX_DH_GEX_INIT ELSE KEXDH_INIT,
           NEW t, Alike(s, t, {"out", "packets"}), Longer(s.out, p, t.out),
           \/ k.step = "agreed" /\ m["KEX"] # Gex /\ t.packets = s.packets
           \/ k.step = "group" /\ \E x : Without(s.packets, x, t.packets),
           NEW k2, k2.step = (IF s.burn THEN "burn" ELSE "reply"), k2.asked = FALSE
    PROVE  InStepOf(m, offers, k2, t, w, srv)
<1>0. /\ k.step \in Opening /\ k.step \notin Closing \cup Between
      /\ k2.step \in Closing /\ k2.step \notin Opening \cup Between
    BY DEF Opening, Closing, Between
<1>1. t.secrets = s.secrets /\ t.burn = s.burn
    BY DEF Alike, Relevant
<1>2. /\ p.type \in Values /\ p.type \notin {KEXINIT, NEWKEYS}
      /\ (p.type = KEX_DH_GEX_INIT <=> m["KEX"] = Gex)
    BY Types DEF PacketTypes, Values
<1>3. InStepOf(m, offers, k, s, w, srv) BY DEF Fits
<1>4. MethodInv(t, k2.step, m, srv)
    <2>1. Alike(s, t, {"out", "packets", "burn"}) BY DEF Alike
    <2>2. MethodInv(s, k.step, m, srv) BY FitsHas
    <2>3. k.step \in Agreeing /\ k2.step \notin {"agree", "none"} BY DEF Agreeing
    <2> QED BY <2>1, <2>2, <2>3, MethodStep
<1>16. srv.kex \in {"sent", "init"} /\ srv.kex # "newkeys"
    <2>1. Phase(k.step, srv.kex, s.secrets, srv.n) BY FitsHas
    <2> QED BY <2>1, <1>0 DEF Phase
<1>5. Turning(t.out, KeysAt(m, Out, Reads(srv.kex, srv.n)),
              KeysAt(m, Out, Reads(srv.kex, srv.n) + 1), OursTurns(k.step, srv.kex))
    BY <1>2, WriteTurns
<1>6. AskInv(t.out, k2.step, srv.kex, offers)
    <2>1. AskInv(s.out, k.step, srv.kex, offers) BY FitsHas
    <2> QED BY <1>0, <1>2, <2>1, AskAppends
<1>7. ValueInv(t.out, k2.step, srv.kex, m)
    <2>1. ValueInv(s.out, k.step, srv.kex, m) BY FitsHas
    <2>2. srv.kex = "sent" => Has(s.out, KEXINIT)
        <3>1. AskInv(s.out, k.step, srv.kex, offers) BY FitsHas
        <3> QED BY <1>0, <3>1 DEF AskInv
    <2> QED BY <1>0, <1>2, <1>16, <2>1, <2>2, ValueAppendsValue
<1>8. \/ t.packets = s.packets
      \/ \E x : Without(s.packets, x, t.packets)
    OBVIOUS
<1>9. GreetInv(t.packets, w, k2.step, srv.kex, s.secrets, srv)
    <2>1. GreetInv(s.packets, w, k.step, srv.kex, s.secrets, srv) BY FitsHas
    <2>2. GreetInv(t.packets, w, k.step, srv.kex, s.secrets, srv)
        BY <1>8, <2>1, GreetTakes
    <2>3. k.step # "kexinit" OBVIOUS
    <2>4. ~Has(t.packets, KEXINIT) /\ ~Has(w, KEXINIT)
        BY <1>0, <2>2, <2>3 DEF GreetInv, Has
    <2> QED BY <1>0, <2>2, <2>4, GreetStep
<1>11. ShowInv(t.packets, w, k2.step, srv.kex, srv.n)
    <2>1. ShowInv(s.packets, w, k.step, srv.kex, srv.n) BY FitsHas
    <2>2. ShowInv(t.packets, w, k.step, srv.kex, srv.n) BY <1>8, <2>1, ShowTakes
    <2> QED BY <1>0, <2>2, ShowStep
<1>10. DueInv(t.packets, w, k2.step, FALSE, s.burn, srv.kex, m, srv.guess)
    <2>1. DueInv(s.packets, w, k.step, k.asked, s.burn, srv.kex, m, srv.guess) BY FitsHas
    <2>2. CASE k.step = "agreed" /\ m["KEX"] # Gex /\ t.packets = s.packets
        BY <1>16, <2>1, <2>2 DEF DueInv
    <2>3. CASE k.step = "group" /\ \E x : Without(s.packets, x, t.packets)
        <3>1. PICK x : Without(s.packets, x, t.packets) BY <2>3
        <3>2. PICK b : b = s.burn OBVIOUS
        <3>3. DueInv(s.packets, w, "group", k.asked, b, srv.kex, m, srv.guess)
            BY <2>1, <2>3, <3>2
        <3>4. DueInv(t.packets, w, "reply", FALSE, b, srv.kex, m, srv.guess)
            BY <1>16, <3>1, <3>3, DueTakesGroup
        <3>5. ~s.burn BY <2>1, <2>3 DEF DueInv
        <3> QED BY <3>2, <3>4, <3>5
    <2> QED BY <2>2, <2>3
<1>14. Phase(k2.step, srv.kex, s.secrets, srv.n)
    BY <1>0, <1>3, <1>16 DEF InStepOf, Phase
<1>15. /\ TheirsTurns(k.step, srv.kex) = TheirsTurns(k2.step, srv.kex)
       /\ OursTurns(k.step, srv.kex) = OursTurns(k2.step, srv.kex)
    BY <1>0, <1>16 DEF TheirsTurns, OursTurns, Between
<1> QED
    BY <1>1, <1>3, <1>4, <1>5, <1>6, <1>7, <1>9, <1>10, <1>11, <1>14, <1>15 DEF InStepOf

\* The guess, or what comes in its place, is burnt.
LEMMA BurntFits ==
    ASSUME NEW m, NEW offers, NEW k, NEW s, NEW w, NEW srv, Fits(m, offers, k, s, w, srv),
           k.step = "burn", NEW t, Alike(s, t, {"packets", "burn"}),
           NEW k2, k2.step = "reply", k2.asked = FALSE, NEW w2,
           Turning(w2, KeysAt(m, In, s.secrets), KeysAt(m, In, s.secrets + 1),
                   TheirsTurns("burn", srv.kex)),
           GreetInv(t.packets, w2, "burn", srv.kex, s.secrets, srv),
           ShowInv(t.packets, w2, "burn", srv.kex, srv.n),
           DueInv(t.packets, w2, "reply", FALSE, t.burn, srv.kex, m, srv.guess)
    PROVE  InStepOf(m, offers, k2, t, w2, srv)
<1>0. {"burn", "reply"} \subseteq Closing /\ {"burn", "reply"} \cap (Opening \cup Between) = {}
    BY DEF Opening, Closing, Between
<1>1. t.secrets = s.secrets /\ t.out = s.out BY DEF Alike, Relevant
<1>2. MethodInv(t, "reply", m, srv)
    <2>1. Alike(s, t, {"out", "packets", "burn"}) BY DEF Alike
    <2>2. MethodInv(s, "burn", m, srv) BY FitsHas
    <2> QED BY <2>1, <2>2, MethodStep DEF Agreeing
<1>3. InStepOf(m, offers, k, s, w, srv) BY DEF Fits
<1>4. GreetInv(t.packets, w2, "reply", srv.kex, s.secrets, srv)
    <2>1. ~Has(t.packets, KEXINIT) BY DEF GreetInv
    <2>2. ~Has(w2, KEXINIT) BY DEF GreetInv, Has, Between
    <2> QED BY <1>0, <2>1, <2>2, GreetStep
<1>5. ShowInv(t.packets, w2, "reply", srv.kex, srv.n) BY <1>0, ShowStep
<1>6. AskInv(s.out, "reply", srv.kex, offers)
    <2>1. AskInv(s.out, "burn", srv.kex, offers) BY FitsHas
    <2> QED BY <1>0, <2>1, AskStep
<1>7. ValueInv(s.out, "reply", srv.kex, m)
    <2>1. ValueInv(s.out, "burn", srv.kex, m) BY FitsHas
    <2> QED BY <1>0, <2>1, ValueStep
<1>8. Phase("reply", srv.kex, s.secrets, srv.n)
    BY <1>0, <1>3 DEF InStepOf, Phase, Opening
<1>9. /\ TheirsTurns("burn", srv.kex) = TheirsTurns("reply", srv.kex)
      /\ OursTurns("burn", srv.kex) = OursTurns("reply", srv.kex)
    BY <1>0 DEF TheirsTurns, OursTurns
<1> QED
    BY <1>1, <1>2, <1>3, <1>4, <1>5, <1>6, <1>7, <1>8, <1>9 DEF InStepOf

\* It was in the brigade.
LEMMA BurnTakenFits ==
    ASSUME NEW m, NEW offers, NEW k, NEW s, NEW w, NEW srv, Fits(m, offers, k, s, w, srv),
           k.step = "burn", NEW t, Alike(s, t, {"packets", "burn"}), NEW x,
           Without(s.packets, x, t.packets), NEW k2, k2.step = "reply", k2.asked = FALSE
    PROVE  InStepOf(m, offers, k2, t, w, srv)
<1>1. Turning(w, KeysAt(m, In, s.secrets), KeysAt(m, In, s.secrets + 1),
              TheirsTurns("burn", srv.kex))
    BY FitsHas
<1>2. GreetInv(t.packets, w, "burn", srv.kex, s.secrets, srv)
    <2>1. GreetInv(s.packets, w, "burn", srv.kex, s.secrets, srv) BY FitsHas
    <2> QED BY <2>1, GreetTakes
<1>3. ShowInv(t.packets, w, "burn", srv.kex, srv.n)
    <2>1. ShowInv(s.packets, w, "burn", srv.kex, srv.n) BY FitsHas
    <2> QED BY <2>1, ShowTakes
<1>4. DueInv(t.packets, w, "reply", FALSE, t.burn, srv.kex, m, srv.guess)
    <2>1. DueInv(s.packets, w, "burn", k.asked, s.burn, srv.kex, m, srv.guess) BY FitsHas
    <2>2. PICK b, b2 : b = s.burn /\ b2 = t.burn OBVIOUS
    <2>3. DueInv(s.packets, w, "burn", k.asked, b, srv.kex, m, srv.guess) BY <2>1, <2>2
    <2>4. DueInv(t.packets, w, "reply", FALSE, b2, srv.kex, m, srv.guess)
        BY <2>3, DueBurns
    <2> QED BY <2>2, <2>4
<1> QED BY <1>1, <1>2, <1>3, <1>4, BurntFits

\* Or it is read, and what is burnt is the first of its number.
FirstAt(q, x) == \A i \in DOMAIN q : i < x => q[i].type # q[x].type

\* The exchange goes on to its reply, and the two sides stay in step.
LEMMA BurnReadFits ==
    ASSUME NEW m, NEW offers, NEW k, NEW s, NEW w, NEW srv, Fits(m, offers, k, s, w, srv),
           k.step = "burn", w # <<>>, w[1].type # NEWKEYS,
           NEW q1, Longer(s.packets, w[1], q1), NEW w2, Shorter(w, w2),
           NEW t, Alike(s, t, {"packets", "burn"}), NEW x, Without(q1, x, t.packets),
           FirstAt(q1, x),
           NEW k2, k2.step = "reply", k2.asked = FALSE
    PROVE  InStepOf(m, offers, k2, t, w2, srv)
<1>1. Turning(w2, KeysAt(m, In, s.secrets), KeysAt(m, In, s.secrets + 1),
              TheirsTurns("burn", srv.kex))
    <2>1. TheirsTurns("burn", srv.kex) \in BOOLEAN BY DEF TheirsTurns
    <2>2. Turning(w, KeysAt(m, In, s.secrets), KeysAt(m, In, s.secrets + 1),
              TheirsTurns("burn", srv.kex))
        BY FitsHas
    <2> QED BY <2>1, <2>2, TurningTail
<1>2. GreetInv(t.packets, w2, "burn", srv.kex, s.secrets, srv)
    <2>1. GreetInv(s.packets, w, "burn", srv.kex, s.secrets, srv) BY FitsHas
    <2>2. ~Has(w, KEXINIT) BY <2>1 DEF GreetInv, Has, Between
    <2>3. 1 \in DOMAIN w BY ShorterPlaces
    <2>4. w[1].type # KEXINIT BY <2>2, <2>3 DEF Has
    <2>5. GreetInv(q1, w2, "burn", srv.kex, s.secrets, srv) BY <2>1, <2>4, GreetReads
    <2> QED BY <2>5, GreetTakes
<1>3. ShowInv(t.packets, w2, "burn", srv.kex, srv.n)
    <2>1. ShowInv(s.packets, w, "burn", srv.kex, srv.n) BY FitsHas
    <2>2. ShowInv(q1, w2, "burn", srv.kex, srv.n) BY <2>1, ShowReads
    <2> QED BY <2>2, ShowTakes
<1>4. DueInv(t.packets, w2, "reply", FALSE, t.burn, srv.kex, m, srv.guess)
    <2>1. DueInv(s.packets, w, "burn", k.asked, s.burn, srv.kex, m, srv.guess) BY FitsHas
    <2>2. PICK b, b2 : b = s.burn /\ b2 = t.burn OBVIOUS
    <2>3. DueInv(s.packets, w, "burn", k.asked, b, srv.kex, m, srv.guess) BY <2>1, <2>2
    <2> DEFINE q == s.packets
               q2 == t.packets
    <2>4. /\ DueInv(q, w, "burn", k.asked, b, srv.kex, m, srv.guess)
          /\ Longer(q, w[1], q1) /\ Without(q1, x, q2)
        BY <2>3
    <2> HIDE DEF q, q2
    <2>6. \A i \in DOMAIN q1 : i < x => q1[i].type # q1[x].type BY DEF FirstAt
    <2>5. DueInv(q2, w2, "reply", FALSE, b2, srv.kex, m, srv.guess)
        BY <2>4, <2>6, DueReadsBurns
    <2> QED BY <2>2, <2>5 DEF q2
<1> QED BY <1>1, <1>2, <1>3, <1>4, BurntFits

\* The reply with the server's key is taken, and answered with NEWKEYS.
LEMMA VerifiedFits ==
    ASSUME NEW m, NEW offers, NEW k, NEW s, NEW w, NEW srv, Fits(m, offers, k, s, w, srv),
           k.step = "reply", NEW x, ShowsKey(s.packets[x]),
           NEW p, p.type = NEWKEYS, p.keys = OutKeys(s),
           NEW t, Alike(s, t, {"out", "packets"}), Longer(s.out, p, t.out),
           Without(s.packets, x, t.packets),
           NEW k2, k2.step = "newkeys", k2.h = s.packets[x].n
    PROVE  InStepOf(m, offers, k2, t, w, srv)
<1>0. /\ k.step \in Closing /\ k.step \notin Opening \cup Between
      /\ k2.step \in Between /\ k2.step \notin Opening \cup Closing
    BY DEF Opening, Closing, Between
<1>1. t.secrets = s.secrets /\ t.burn = s.burn BY DEF Alike, Relevant
<1>2. p.type \notin Values /\ p.type # KEXINIT BY Types DEF PacketTypes, Values
<1>3. InStepOf(m, offers, k, s, w, srv) BY DEF Fits
<1>4. /\ srv.kex = "newkeys" /\ s.packets[x].n = srv.n
      /\ ShowInv(t.packets, w, "newkeys", srv.kex, srv.n)
    BY ShowTakes, FitsHas
<1>5. srv.n = s.secrets + 1 /\ s.secrets \in Nat
    <2>1. Phase("reply", "newkeys", s.secrets, srv.n) BY <1>3, <1>4 DEF InStepOf
    <2> QED BY <2>1 DEF Phase, Opening
<1>6. MethodInv(t, "newkeys", m, srv)
    <2>1. Alike(s, t, {"out", "packets", "burn"}) BY DEF Alike
    <2>2. MethodInv(s, "reply", m, srv) BY FitsHas
    <2> QED BY <2>1, <2>2, MethodStep DEF Agreeing
<1>7. Turning(t.out, KeysAt(m, Out, Reads(srv.kex, srv.n)),
              KeysAt(m, Out, Reads(srv.kex, srv.n) + 1), OursTurns("newkeys", srv.kex))
    <2>1. OursTurns(k.step, srv.kex) = FALSE /\ OursTurns("newkeys", srv.kex) = TRUE
        BY <1>0, <1>4 DEF OursTurns
    <2>2. p.keys = KeysAt(m, Out, s.secrets) BY ClientsKeys
    <2>3. Reads(srv.kex, srv.n) = s.secrets BY <1>4, <1>5 DEF Reads
    <2>4. Turning(s.out, KeysAt(m, Out, Reads(srv.kex, srv.n)),
                  KeysAt(m, Out, Reads(srv.kex, srv.n) + 1), FALSE)
        BY <2>1, FitsHas
    <2> QED BY <2>1, <2>2, <2>3, <2>4, TurningAppendsNewKeys
<1>8. AskInv(t.out, "newkeys", srv.kex, offers)
    <2>1. AskInv(s.out, k.step, srv.kex, offers) BY FitsHas
    <2> QED BY <1>2, <1>4, <2>1, AskAppends
<1>9. ValueInv(t.out, "newkeys", srv.kex, m)
    <2>1. ValueInv(s.out, k.step, srv.kex, m) BY FitsHas
    <2> QED BY <1>2, <1>4, <2>1, ValueAppends
<1>10. GreetInv(t.packets, w, "newkeys", srv.kex, s.secrets, srv)
    <2>1. GreetInv(s.packets, w, "reply", srv.kex, s.secrets, srv) BY FitsHas
    <2>2. GreetInv(t.packets, w, "reply", srv.kex, s.secrets, srv) BY <2>1, GreetTakes
    <2>3. ~Has(t.packets, KEXINIT) BY <2>2 DEF GreetInv
    <2>4. ~Has(w, KEXINIT) BY <2>2 DEF GreetInv, Has, Between
    <2> QED BY <1>4, <2>2, <2>3, <2>4, GreetStep
<1>11. DueInv(t.packets, w, "newkeys", k2.asked, s.burn, srv.kex, m, srv.guess)
    <2>1. DueInv(s.packets, w, k.step, k.asked, s.burn, srv.kex, m, srv.guess) BY FitsHas
    <2>2. PICK b : b = s.burn OBVIOUS
    <2>3. DueInv(s.packets, w, k.step, k.asked, b, srv.kex, m, srv.guess) BY <2>1, <2>2
    <2>4. "newkeys" \in Between BY DEF Between
    <2>5. DueInv(t.packets, w, "newkeys", k2.asked, b, srv.kex, m, srv.guess)
        BY <2>3, <2>4, DueTakes
    <2> QED BY <2>2, <2>5
<1>12. Phase("newkeys", srv.kex, s.secrets, srv.n)
    <2>1. Phase("reply", srv.kex, s.secrets, srv.n) BY <1>3 DEF InStepOf
    <2> QED BY <1>4, <1>5, <2>1 DEF Phase
<1>13. TheirsTurns(k.step, srv.kex) = TheirsTurns("newkeys", srv.kex)
    BY <1>0, <1>4 DEF TheirsTurns
<1> QED
    BY <1>1, <1>3, <1>4, <1>5, <1>6, <1>7, <1>8, <1>9, <1>10, <1>11, <1>12, <1>13
    DEF InStepOf

\* The server's NEWKEYS is read: from now on the keys are those of the exchange.
LEMMA TurnedFits ==
    ASSUME NEW m, NEW offers, NEW k, NEW s, NEW w, NEW srv, Fits(m, offers, k, s, w, srv),
           k.step = "newkeys", w # <<>>, w[1].type = NEWKEYS, NEW w2, Shorter(w, w2),
           NEW t, Alike(s, t, {"newkeys", "secrets"}), t.newkeys = TRUE, t.secrets = k.h,
           NEW k2, k2.step = "none"
    PROVE  InStepOf(m, offers, k2, t, w2, srv) /\ t.secrets \in Nat
<1>0. {"newkeys", "none"} \subseteq Between
      /\ {"newkeys", "none"} \cap (Opening \cup Closing) = {}
    BY DEF Opening, Closing, Between
<1>1. /\ t.burn = s.burn /\ t.out = s.out /\ t.packets = s.packets
      /\ t.method = s.method /\ t.stream = s.stream /\ t.kexinit = s.kexinit
    BY DEF Alike, Relevant
<1>2. KEXINIT # NEWKEYS BY Types DEF PacketTypes
<1>3. InStepOf(m, offers, k, s, w, srv) BY DEF Fits
<1>4. t.secrets = s.secrets + 1 /\ s.secrets \in Nat
    BY <1>3 DEF InStepOf, Fits, Sane
<1>5. MethodInv(t, "none", m, srv)
    <2>1. MethodInv(s, "newkeys", m, srv) BY FitsHas
    <2>2. \A x \in Kinds : t.method[x] = m[x] BY <1>1, <2>1 DEF MethodInv, Agreeing
    <2>3. \/ "rekey" \notin uses /\ t.stream = 1
          \/ m["COMP_CS"] = "none" /\ m["COMP_SC"] = "none"
        BY <1>1, <2>1 DEF MethodInv, Agreeing
    <2>4. t.newkeys /\ t.secrets > 0 BY <1>4
    <2>5. /\ "rekey" \notin uses => srv.n = 1
          /\ srv.kex # "sent" \/ srv.n # 1 => srv.method = m
        BY <2>1 DEF MethodInv
    <2> QED BY <2>2, <2>3, <2>4, <2>5 DEF MethodInv
<1>6. Turning(w2, KeysAt(m, In, t.secrets), KeysAt(m, In, t.secrets + 1),
              TheirsTurns("none", srv.kex))
    <2>1. TheirsTurns("newkeys", srv.kex) = TRUE /\ TheirsTurns("none", srv.kex) = FALSE
        BY <1>0 DEF TheirsTurns
    <2>2. Turning(w, KeysAt(m, In, s.secrets), KeysAt(m, In, t.secrets), TRUE)
        BY <1>4, <2>1, FitsHas
    <2>3. Turning(w2, KeysAt(m, In, t.secrets), KeysAt(m, In, t.secrets + 1), FALSE)
        BY <2>2, TurningTailNewKeys
    <2> QED BY <2>1, <2>3
<1>7. OursTurns("newkeys", srv.kex) = OursTurns("none", srv.kex)
    BY <1>0 DEF OursTurns
<1>8. GreetInv(s.packets, w2, "none", srv.kex, t.secrets, srv)
    <2>1. GreetInv(s.packets, w, "newkeys", srv.kex, s.secrets, srv) BY FitsHas
    <2>2. GreetInv(s.packets, w2, "newkeys", srv.kex, s.secrets, srv)
        BY <1>2, <2>1, GreetDrops, FitsHas
    <2>3. ~Has(s.packets, KEXINIT) BY <2>2 DEF GreetInv
    <2>4. Has(w2, KEXINIT) <=> srv.kex = "sent"
        BY <1>0, <2>2 DEF GreetInv, Has
    <2> QED BY <1>0, <2>2, <2>3, <2>4, GreetStep
<1>9. ShowInv(s.packets, w2, "none", srv.kex, srv.n)
    <2>1. ShowInv(s.packets, w, "newkeys", srv.kex, srv.n) BY FitsHas
    <2>2. ShowInv(s.packets, w2, "newkeys", srv.kex, srv.n) BY <2>1, ShowReads
    <2> QED BY <1>0, <2>2, ShowStep
<1>10. AskInv(s.out, "none", srv.kex, offers)
    <2>1. AskInv(s.out, "newkeys", srv.kex, offers) BY FitsHas
    <2> QED BY <1>0, <2>1, AskStep
<1>11. ValueInv(s.out, "none", srv.kex, m)
    <2>1. ValueInv(s.out, "newkeys", srv.kex, m) BY FitsHas
    <2> QED BY <1>0, <2>1, ValueStep
<1>12. DueInv(s.packets, w2, "none", k2.asked, s.burn, srv.kex, m, srv.guess)
    <2>1. DueInv(s.packets, w, k.step, k.asked, s.burn, srv.kex, m, srv.guess) BY FitsHas
    <2>2. ~Has(s.packets, NEWKEYS) BY <2>1 DEF DueInv
    <2> QED BY <2>2 DEF DueInv
<1>13. Phase("none", srv.kex, t.secrets, srv.n)
    <2>1. Phase("newkeys", srv.kex, s.secrets, srv.n) BY <1>3 DEF InStepOf
    <2> QED BY <1>0, <1>4, <2>1 DEF Phase
<1> QED
    BY <1>1, <1>3, <1>4, <1>5, <1>6, <1>7, <1>8, <1>9, <1>10, <1>11, <1>12, <1>13
    DEF InStepOf

\* The exchange has looked in the brigade, where what it waits for is not.
LEMMA AskedFits ==
    ASSUME NEW m, NEW offers, NEW k, NEW s, NEW w, NEW srv, Fits(m, offers, k, s, w, srv),
           NEW k2, k2.step = k.step, k2.h = k.h,
           k.step = "reply" => ~Has(s.packets, ReplyType(m))
    PROVE  InStepOf(m, offers, k2, s, w, srv)
<1>1. InStepOf(m, offers, k, s, w, srv) BY DEF Fits
<1>2. DueInv(s.packets, w, k.step, k2.asked, s.burn, srv.kex, m, srv.guess)
    <2>1. DueInv(s.packets, w, k.step, k.asked, s.burn, srv.kex, m, srv.guess) BY FitsHas
    <2> QED BY <2>1 DEF DueInv
<1> QED BY <1>1, <1>2 DEF InStepOf

-----------------------------------------------------------------------------
(* What the server does, step by step *)

\* What of the server the invariant is about.
RelevantOfServer == {"lists", "guess", "kex", "n", "method", "in", "out"}
ServersAlike(srv, srv2, but) ==
    /\ DOMAIN srv = ServerFields /\ DOMAIN srv2 = ServerFields
    /\ \A f \in RelevantOfServer \ but : srv2[f] = srv[f]

\* Packets are welcome in the same place to a server of the same lists.
LEMMA GreetSame ==
    ASSUME NEW q, NEW w, NEW step, NEW sk, NEW c, NEW srv, GreetInv(q, w, step, sk, c, srv),
           NEW srv2, srv2.lists = srv.lists, srv2.guess = srv.guess
    PROVE  GreetInv(q, w, step, sk, c, srv2)
BY DEF GreetInv, Greets

\* Methods are the same to a server of the same exchange.
LEMMA MethodSame ==
    ASSUME NEW s, NEW step, NEW m, NEW srv, MethodInv(s, step, m, srv),
           NEW srv2, srv2.lists = srv.lists, srv2.guess = srv.guess,
           "rekey" \notin uses => srv2.n = 1,
           srv2.kex # "sent" \/ srv2.n # 1 => srv2.method = m
    PROVE  MethodInv(s, step, m, srv2)
BY DEF MethodInv, Greets

\* Nothing of the server that the invariant is about changes.
LEMMA SameServerFits ==
    ASSUME NEW m, NEW offers, NEW k, NEW s, NEW w, NEW srv, InStepOf(m, offers, k, s, w, srv),
           NEW srv2, ServersAlike(srv, srv2, {})
    PROVE  InStepOf(m, offers, k, s, w, srv2)
<1>1. /\ srv2.lists = srv.lists /\ srv2.guess = srv.guess /\ srv2.kex = srv.kex
      /\ srv2.n = srv.n /\ srv2.method = srv.method /\ srv2.in = srv.in
      /\ srv2.out = srv.out
    BY DEF ServersAlike, RelevantOfServer
<1>2. GreetInv(s.packets, w, k.step, srv.kex, s.secrets, srv2)
    BY <1>1, GreetSame DEF InStepOf
<1>3. MethodInv(s, k.step, m, srv2)
    <2>1. MethodInv(s, k.step, m, srv) BY DEF InStepOf
    <2>2. /\ "rekey" \notin uses => srv2.n = 1
          /\ srv2.kex # "sent" \/ srv2.n # 1 => srv2.method = m
        BY <1>1, <2>1 DEF MethodInv
    <2> QED BY <1>1, <2>1, <2>2, MethodSame
<1> QED BY <1>1, <1>2, <1>3 DEF InStepOf

\* The server reads a packet that is not of an exchange.
LEMMA HandledFits ==
    ASSUME NEW m, NEW offers, NEW k, NEW s, NEW w, NEW srv, Fits(m, offers, k, s, w, srv),
           s.out # <<>>, s.out[1].type \notin {KEXINIT, NEWKEYS} \cup Values,
           NEW t, Alike(s, t, {"out"}), Shorter(s.out, t.out)
    PROVE  InStepOf(m, offers, k, t, w, srv)
<1>1. /\ t.secrets = s.secrets /\ t.burn = s.burn /\ t.packets = s.packets
    BY DEF Alike, Relevant
<1>2. InStepOf(m, offers, k, s, w, srv) BY DEF Fits
<1>3. MethodInv(t, k.step, m, srv)
    <2>1. Alike(s, t, {"out", "packets", "burn"}) BY DEF Alike
    <2> QED BY <2>1, MethodStep, FitsHas
<1>4. Turning(t.out, KeysAt(m, Out, Reads(srv.kex, srv.n)),
              KeysAt(m, Out, Reads(srv.kex, srv.n) + 1), OursTurns(k.step, srv.kex))
    <2>1. OursTurns(k.step, srv.kex) \in BOOLEAN BY DEF OursTurns
    <2> QED BY <2>1, TurningTail, FitsHas
<1>5. AskInv(t.out, k.step, srv.kex, offers) BY AskTail, FitsHas
<1>6. ValueInv(t.out, k.step, srv.kex, m) BY ValueTail, FitsHas
<1> QED BY <1>1, <1>2, <1>3, <1>4, <1>5, <1>6 DEF InStepOf

\* What the server writes under its keys, that is not of an exchange either.
Ordinary(p, keys) ==
    p.type \notin {KEXINIT, NEWKEYS} /\ ~ShowsKey(p) /\ p.keys = keys

\* Nothing that the server so writes takes the two sides out of step.
LEMMA AnsweredFits ==
    ASSUME NEW m, NEW offers, NEW k, NEW s, NEW w, NEW srv, Fits(m, offers, k, s, w, srv),
           NEW r, NEW w2, Joined(w, r, w2), \A i \in 1..Len(r) : Ordinary(r[i], srv.out)
    PROVE  InStepOf(m, offers, k, s, w2, srv)
<1>1. InStepOf(m, offers, k, s, w, srv) BY DEF Fits
<1>2. /\ \A i \in 1..Len(r) : r[i].type # NEWKEYS /\ r[i].type # KEXINIT
      /\ \A i \in 1..Len(r) : ~ShowsKey(r[i])
    BY DEF Ordinary
<1>3. Turning(w2, KeysAt(m, In, s.secrets), KeysAt(m, In, s.secrets + 1),
              TheirsTurns(k.step, srv.kex))
    <2>1. PICK turns \in BOOLEAN : turns = TheirsTurns(k.step, srv.kex) BY DEF TheirsTurns
    <2> DEFINE old == KeysAt(m, In, s.secrets)
               new == KeysAt(m, In, s.secrets + 1)
    <2>2. Phase(k.step, srv.kex, s.secrets, srv.n) BY FitsHas
    <2>3. srv.out = IF turns THEN new ELSE old
        <3>1. Wrote(srv.kex, srv.n) = IF TheirsTurns(k.step, srv.kex) THEN s.secrets + 1
                                                                     ELSE s.secrets
            BY <2>2, AnswersInStep
        <3>2. srv.out = KeysAt(m, In, Wrote(srv.kex, srv.n)) BY <1>1 DEF InStepOf
        <3> QED BY <2>1, <3>1, <3>2
    <2>4. Turning(w, old, new, turns) BY <2>1, FitsHas
    <2>5. \A i \in 1..Len(r) : r[i].keys = IF turns THEN new ELSE old
        BY <2>3 DEF Ordinary
    <2> HIDE DEF old, new
    <2>6. Turning(w2, old, new, turns) BY <1>2, <2>4, <2>5, TurningJoins
    <2> QED BY <2>1, <2>6 DEF old, new
<1>4. GreetInv(s.packets, w2, k.step, srv.kex, s.secrets, srv)
    <2>1. GreetInv(s.packets, w, k.step, srv.kex, s.secrets, srv) BY FitsHas
    <2> QED BY <1>2, <2>1, GreetJoins
<1>5. ShowInv(s.packets, w2, k.step, srv.kex, srv.n)
    <2>1. ShowInv(s.packets, w, k.step, srv.kex, srv.n) BY FitsHas
    <2> QED BY <1>2, <2>1, ShowJoins
<1>6. DueInv(s.packets, w2, k.step, k.asked, s.burn, srv.kex, m, srv.guess)
    <2>1. DueInv(s.packets, w, k.step, k.asked, s.burn, srv.kex, m, srv.guess) BY FitsHas
    <2>2. PICK b : b = s.burn OBVIOUS
    <2>3. PICK g : g = srv.guess OBVIOUS
    <2>4. DueInv(s.packets, w, k.step, k.asked, b, srv.kex, m, g) BY <2>1, <2>2, <2>3
    <2>5. DueInv(s.packets, w2, k.step, k.asked, b, srv.kex, m, g) BY <2>4, DueJoins
    <2> QED BY <2>2, <2>3, <2>5
<1> QED BY <1>1, <1>3, <1>4, <1>5, <1>6 DEF InStepOf

\* The server reads our KEXINIT, and agrees.
LEMMA ServerAgreesFits ==
    ASSUME NEW m, NEW offers, NEW k, NEW s, NEW w, NEW srv, Fits(m, offers, k, s, w, srv),
           s.out # <<>>, s.out[1].type = KEXINIT,
           NEW t, Alike(s, t, {"out"}), Shorter(s.out, t.out),
           NEW srv2, ServersAlike(srv, srv2, {"kex", "method"}),
           srv2.kex = "init", srv2.method = m
    PROVE  InStepOf(m, offers, k, t, w, srv2)
<1>0. Opening \cap Between = {} /\ Closing \cap Between = {} /\ "init" # "sent"
    BY DEF Opening, Closing, Between
<1>1. /\ t.secrets = s.secrets /\ t.burn = s.burn /\ t.packets = s.packets
    BY DEF Alike, Relevant
<1>2. /\ srv2.lists = srv.lists /\ srv2.guess = srv.guess
      /\ srv2.n = srv.n /\ srv2.in = srv.in /\ srv2.out = srv.out
    BY DEF ServersAlike, RelevantOfServer
<1>3. InStepOf(m, offers, k, s, w, srv) BY DEF Fits
<1>4. /\ srv.kex = "sent" /\ k.step \in Opening \cup Closing
      /\ AskInv(t.out, k.step, "init", offers)
    <2>1. AskInv(s.out, k.step, srv.kex, offers) BY FitsHas
    <2> QED BY <2>1, AskTailHello
<1>5. /\ Reads("init", srv.n) = Reads("sent", srv.n)
      /\ Wrote("init", srv.n) = Wrote("sent", srv.n)
      /\ TheirsTurns(k.step, "init") = TheirsTurns(k.step, "sent")
      /\ OursTurns(k.step, "init") = OursTurns(k.step, "sent")
    BY DEF Reads, Wrote, TheirsTurns, OursTurns
<1>6. MethodInv(t, k.step, m, srv2)
    <2>1. Alike(s, t, {"out", "packets", "burn"}) BY DEF Alike
    <2>2. MethodInv(t, k.step, m, srv) BY <2>1, MethodStep, FitsHas
    <2>3. "rekey" \notin uses => srv2.n = 1 BY <1>2, <2>2 DEF MethodInv
    <2> QED BY <1>2, <2>2, <2>3, MethodSame
<1>7. Turning(t.out, KeysAt(m, Out, Reads("init", srv.n)),
              KeysAt(m, Out, Reads("init", srv.n) + 1), OursTurns(k.step, "init"))
    <2>1. OursTurns(k.step, srv.kex) \in BOOLEAN BY DEF OursTurns
    <2>2. s.out[1].type # NEWKEYS BY Types DEF PacketTypes
    <2>3. Turning(t.out, KeysAt(m, Out, Reads(srv.kex, srv.n)),
                  KeysAt(m, Out, Reads(srv.kex, srv.n) + 1), OursTurns(k.step, srv.kex))
        BY <2>1, <2>2, TurningTail, FitsHas
    <2> QED BY <1>4, <1>5, <2>3
<1>8. ValueInv(t.out, k.step, "init", m)
    <2>1. ValueInv(s.out, k.step, srv.kex, m) BY FitsHas
    <2>2. s.out[1].type \notin Values BY Types DEF PacketTypes, Values
    <2> QED BY <2>1, <2>2, ValueTail
<1>9. GreetInv(s.packets, w, k.step, "init", s.secrets, srv2)
    <2>1. GreetInv(s.packets, w, k.step, srv.kex, s.secrets, srv) BY FitsHas
    <2>2. Has(s.packets, KEXINIT) => k.step = "kexinit" BY <2>1 DEF GreetInv
    <2>3. Has(w, KEXINIT) => k.step = "kexinit" /\ s.secrets = 0
        BY <1>0, <1>4, <2>1 DEF GreetInv, Has
    <2> QED BY <1>0, <1>2, <2>1, <2>2, <2>3, GreetStep
<1>10. ShowInv(s.packets, w, k.step, "init", srv.n)
    <2>1. ShowInv(s.packets, w, k.step, srv.kex, srv.n) /\ srv.kex # "newkeys"
        BY <1>4, FitsHas
    <2> QED BY <2>1, ShowStep
<1>11. DueInv(s.packets, w, k.step, k.asked, s.burn, "init", m, srv.guess)
    <2>1. DueInv(s.packets, w, k.step, k.asked, s.burn, srv.kex, m, srv.guess) BY FitsHas
    <2> QED BY <2>1 DEF DueInv
<1>12. Phase(k.step, "init", s.secrets, srv.n)
    <2>1. Phase(k.step, "sent", s.secrets, srv.n) BY <1>3, <1>4 DEF InStepOf
    <2> QED BY <1>4, <2>1 DEF Phase, Opening, Closing
<1> QED
    BY <1>1, <1>2, <1>3, <1>4, <1>5, <1>6, <1>7, <1>8, <1>9, <1>10, <1>11, <1>12
    DEF InStepOf

\* NEWKEYS is the last packet under the old keys.
LEMMA TurningJoinsNewKeys ==
    ASSUME NEW q, NEW r, NEW t, Joined(q, r, t), NEW old, NEW new,
           Turning(q, old, new, FALSE), Len(r) = 2,
           r[1].type # NEWKEYS, r[2].type = NEWKEYS, r[1].keys = old, r[2].keys = old
    PROVE  Turning(t, old, new, TRUE)
<1>1. PICK l \in Nat : l = Len(q) BY JoinedPlaces
<1>2. DOMAIN q = 1..l /\ 1..Len(r) = {1, 2} BY <1>1, JoinedPlaces
<1>3. \A i \in DOMAIN q : i \in DOMAIN t /\ t[i] = q[i] BY JoinedPlaces
<1>4. l + 1 \in DOMAIN t /\ t[l + 1] = r[1] BY <1>1, <1>2, JoinedPlaces
<1>5. l + 2 \in DOMAIN t /\ t[l + 2] = r[2]
    <2>1. PICK j \in 1..Len(r) : j = 2 BY <1>2
    <2>2. Len(q) + j \in DOMAIN t /\ t[Len(q) + j] = r[j] BY JoinedPlaces
    <2> QED BY <1>1, <2>1, <2>2
<1>6. \A i \in DOMAIN t : (i \in DOMAIN q /\ t[i] = q[i]) \/ i = l + 1 \/ i = l + 2
    <2>1. ASSUME NEW i \in DOMAIN t, i \notin DOMAIN q PROVE i = l + 1 \/ i = l + 2
        <3>1. \E j \in 1..Len(r) : i = Len(q) + j /\ t[i] = r[j] BY <2>1, JoinedPlaces
        <3>2. PICK j \in 1..Len(r) : i = Len(q) + j BY <3>1
        <3> QED BY <1>1, <1>2, <3>2
    <2> QED BY <1>3, <2>1
<1>7. \A i \in DOMAIN q : q[i].type # NEWKEYS /\ q[i].keys = old
    BY DEF Turning, Turns, Has
<1>8. \A i \in DOMAIN t : t[i].type = NEWKEYS => i = l + 2
    BY <1>3, <1>4, <1>6, <1>7
<1>9. ASSUME NEW i \in DOMAIN t PROVE ~Turns(t, i)
    <2>1. ~(l + 2 < i) BY <1>1, <1>2, <1>6
    <2> QED BY <1>8, <2>1 DEF Turns
<1>10. \A i \in DOMAIN t : t[i].keys = old BY <1>4, <1>5, <1>6, <1>7
<1>11. Has(t, NEWKEYS) BY <1>5 DEF Has
<1>12. AtMostOne(t, NEWKEYS) BY <1>8 DEF AtMostOne
<1> QED BY <1>9, <1>10, <1>11, <1>12 DEF Turning

\* The server reads our value: it writes its reply and NEWKEYS, and turns.
LEMMA RepliesFits ==
    ASSUME NEW m, NEW offers, NEW k, NEW s, NEW w, NEW srv, Fits(m, offers, k, s, w, srv),
           s.out # <<>>, s.out[1].type \in Values,
           NEW t, Alike(s, t, {"out"}), Shorter(s.out, t.out),
           NEW srv2, ServersAlike(srv, srv2, {"kex", "out"}), srv2.kex = "newkeys",
           srv2.out = KeysAt(m, In, srv.n),
           NEW r, NEW w2, Joined(w, r, w2), Len(r) = 2,
           r[1].type = (IF s.out[1].type = KEX_DH_GEX_INIT THEN KEX_DH_GEX_REPLY ELSE KEXDH_REPLY),
           r[1].n = srv.n, r[1].keys = srv.out,
           r[2].type = NEWKEYS, r[2].keys = srv.out
    PROVE  InStepOf(m, offers, k, t, w2, srv2)
<1>0. /\ Opening \cap Between = {} /\ Closing \cap Between = {} /\ Opening \cap Closing = {}
      /\ "init" # "sent" /\ "newkeys" \notin Closing /\ "newkeys" # "sent"
    BY DEF Opening, Closing, Between
<1>1. /\ t.secrets = s.secrets /\ t.burn = s.burn /\ t.packets = s.packets
    BY DEF Alike, Relevant
<1>2. /\ srv2.lists = srv.lists /\ srv2.guess = srv.guess /\ srv2.method = srv.method
      /\ srv2.n = srv.n /\ srv2.in = srv.in
    BY DEF ServersAlike, RelevantOfServer
<1>3. InStepOf(m, offers, k, s, w, srv) BY DEF Fits
<1>4. /\ k.step \in Closing /\ srv.kex = "init"
      /\ s.out[1].type = KEX_DH_GEX_INIT <=> m["KEX"] = Gex
      /\ ValueInv(t.out, k.step, "newkeys", m)
    <2>1. ValueInv(s.out, k.step, srv.kex, m) BY FitsHas
    <2>2. KEXINIT \notin Values BY Types DEF PacketTypes, Values
    <2> QED BY <2>1, <2>2, ValueTailValue
<1>5. /\ r[1].type = ReplyType(m) /\ ReplyType(m) # NEWKEYS /\ r[1].type # KEXINIT
      /\ r[1].type # NEWKEYS /\ r[2].type # KEXINIT /\ r[2].type \notin Replies
      /\ s.out[1].type # NEWKEYS /\ s.out[1].type # KEXINIT
    <2>1. r[1].type = ReplyType(m) BY <1>4 DEF ReplyType
    <2> QED BY <2>1, Types DEF PacketTypes, Values, ReplyType, Replies
<1>6. /\ Reads("newkeys", srv.n) = Reads("init", srv.n)
      /\ Wrote("newkeys", srv.n) = srv.n /\ Wrote("init", srv.n) = srv.n - 1
      /\ TheirsTurns(k.step, "newkeys") = TRUE /\ TheirsTurns(k.step, "init") = FALSE
      /\ OursTurns(k.step, "newkeys") = FALSE /\ OursTurns(k.step, "init") = FALSE
    BY <1>0, <1>4 DEF Reads, Wrote, TheirsTurns, OursTurns
<1>7. Phase(k.step, "init", s.secrets, srv.n) BY <1>3, <1>4 DEF InStepOf
<1>8. Phase(k.step, "newkeys", s.secrets, srv.n) /\ srv.n - 1 = s.secrets
    BY <1>0, <1>4, <1>7 DEF Phase
<1>9. srv.out = KeysAt(m, In, s.secrets) BY <1>3, <1>4, <1>6, <1>8 DEF InStepOf
<1>10. MethodInv(t, k.step, m, srv2)
    <2>1. Alike(s, t, {"out", "packets", "burn"}) BY DEF Alike
    <2>2. MethodInv(t, k.step, m, srv) BY <2>1, MethodStep, FitsHas
    <2>3. /\ "rekey" \notin uses => srv2.n = 1
          /\ srv2.kex # "sent" \/ srv2.n # 1 => srv2.method = m
        BY <1>0, <1>2, <1>4, <2>2 DEF MethodInv
    <2> QED BY <1>2, <2>2, <2>3, MethodSame
<1>11. Turning(t.out, KeysAt(m, Out, Reads("newkeys", srv.n)),
               KeysAt(m, Out, Reads("newkeys", srv.n) + 1), OursTurns(k.step, "newkeys"))
    <2>1. OursTurns(k.step, srv.kex) \in BOOLEAN BY DEF OursTurns
    <2>2. Turning(t.out, KeysAt(m, Out, Reads(srv.kex, srv.n)),
                  KeysAt(m, Out, Reads(srv.kex, srv.n) + 1), OursTurns(k.step, srv.kex))
        BY <1>5, <2>1, TurningTail, FitsHas
    <2> QED BY <1>4, <1>6, <2>2
<1>12. Turning(w, KeysAt(m, In, s.secrets), KeysAt(m, In, s.secrets + 1), FALSE)
    <2>1. Turning(w, KeysAt(m, In, s.secrets), KeysAt(m, In, s.secrets + 1),
                  TheirsTurns(k.step, srv.kex))
        BY FitsHas
    <2> QED BY <1>4, <1>6, <2>1
<1>13. Turning(w2, KeysAt(m, In, s.secrets), KeysAt(m, In, s.secrets + 1), TRUE)
    BY <1>5, <1>9, <1>12, TurningJoinsNewKeys
<1>14. AskInv(t.out, k.step, "newkeys", offers)
    <2>1. AskInv(s.out, k.step, srv.kex, offers) BY FitsHas
    <2>2. AskInv(t.out, k.step, srv.kex, offers) BY <1>5, <2>1, AskTail
    <2> QED BY <1>0, <1>4, <2>2, AskLater
<1>15. \A i \in 1..Len(r) : i = 1 \/ i = 2
    <2>1. 1..Len(r) = {1, 2} OBVIOUS
    <2> QED BY <2>1
<1>16. GreetInv(s.packets, w2, k.step, "newkeys", s.secrets, srv2)
    <2>1. GreetInv(s.packets, w, k.step, srv.kex, s.secrets, srv) BY FitsHas
    <2>2. ~Has(w, KEXINIT) /\ ~Has(s.packets, KEXINIT)
        BY <1>0, <1>4, <2>1 DEF GreetInv, Has, Closing
    <2>3. GreetInv(s.packets, w2, k.step, srv.kex, s.secrets, srv)
        BY <1>5, <1>15, <2>1, <2>2, GreetJoins
    <2>4. ~Has(w2, KEXINIT) BY <1>0, <1>4, <2>3 DEF GreetInv, Has, Closing
    <2> QED BY <1>0, <1>2, <2>2, <2>3, <2>4, GreetStep
<1>17. ShowInv(s.packets, w2, k.step, "newkeys", srv.n)
    <2>1. ShowInv(s.packets, w, k.step, srv.kex, srv.n) /\ srv.kex # "newkeys"
        BY <1>4, FitsHas
    <2>2. ShowInv(s.packets, w, k.step, "newkeys", srv.n) BY <2>1, ShowStep
    <2>3. /\ \A i \in DOMAIN s.packets : ~ShowsKey(s.packets[i])
          /\ \A i \in DOMAIN w : ~ShowsKey(w[i])
        BY <2>1 DEF ShowInv
    <2>4. \A i \in 1..Len(r) : ShowsKey(r[i]) => i = 1 /\ r[i].n = srv.n
        BY <1>5, <1>15 DEF ShowsKey
    <2> QED BY <1>4, <2>2, <2>3, <2>4, ShowJoins, ZenonT(40)
<1>18. DueInv(s.packets, w2, k.step, k.asked, s.burn, "newkeys", m, srv.guess)
    <2>1. DueInv(s.packets, w, k.step, k.asked, s.burn, srv.kex, m, srv.guess) BY FitsHas
    <2>2. PICK b : b = s.burn OBVIOUS
    <2>3. PICK g : g = srv.guess OBVIOUS
    <2>4. DueInv(s.packets, w, k.step, k.asked, b, srv.kex, m, g) BY <2>1, <2>2, <2>3
    <2>5. ~Has(w, NEWKEYS) BY <1>12 DEF Turning
    <2>6. DueInv(s.packets, w2, k.step, k.asked, b, "newkeys", m, g)
        BY <1>4, <1>5, <2>4, <2>5, DueJoinsReply
    <2> QED BY <2>2, <2>3, <2>6
<1>19. k.step = "newkeys" => k.h = s.secrets + 1 BY <1>3 DEF InStepOf
<1>20. srv2.in = KeysAt(m, Out, Reads("newkeys", srv.n)) BY <1>2, <1>3, <1>4, <1>6 DEF InStepOf
<1> QED
    BY <1>1, <1>2, <1>4, <1>6, <1>8, <1>10, <1>11, <1>13, <1>14, <1>16, <1>17, <1>18, <1>19,
       <1>20
    DEF InStepOf

\* The server reads NEWKEYS, and turns.
LEMMA TurnsServerFits ==
    ASSUME NEW m, NEW offers, NEW k, NEW s, NEW w, NEW srv, Fits(m, offers, k, s, w, srv),
           s.out # <<>>, s.out[1].type = NEWKEYS,
           NEW t, Alike(s, t, {"out"}), Shorter(s.out, t.out),
           NEW srv2, ServersAlike(srv, srv2, {"kex", "in"}), srv2.kex = "none",
           srv2.in = KeysAt(m, Out, srv.n)
    PROVE  InStepOf(m, offers, k, t, w, srv2)
<1>0. /\ Opening \cap Between = {} /\ Closing \cap Between = {} /\ Opening \cap Closing = {}
      /\ "none" # "sent" /\ "newkeys" # "sent" /\ "none" # "newkeys"
    BY DEF Opening, Closing, Between
<1>1. /\ t.secrets = s.secrets /\ t.burn = s.burn /\ t.packets = s.packets
    BY DEF Alike, Relevant
<1>2. /\ srv2.lists = srv.lists /\ srv2.guess = srv.guess /\ srv2.method = srv.method
      /\ srv2.n = srv.n /\ srv2.out = srv.out
    BY DEF ServersAlike, RelevantOfServer
<1>3. InStepOf(m, offers, k, s, w, srv) BY DEF Fits
<1>4. srv.kex = "newkeys" /\ k.step \in Between
    <2>1. PICK turns \in BOOLEAN : turns = OursTurns(k.step, srv.kex) BY DEF OursTurns
    <2>2. Turning(s.out, KeysAt(m, Out, Reads(srv.kex, srv.n)),
                  KeysAt(m, Out, Reads(srv.kex, srv.n) + 1), turns)
        BY <2>1, FitsHas
    <2>3. 1 \in DOMAIN s.out BY ShorterPlaces
    <2>4. turns BY <2>2, <2>3, TurningNow
    <2> QED BY <2>1, <2>4 DEF OursTurns
<1>5. srv.n \in Nat /\ Phase(k.step, "newkeys", s.secrets, srv.n)
    BY <1>3, <1>4 DEF InStepOf, Phase
<1>6. /\ Reads("newkeys", srv.n) = srv.n - 1 /\ Reads("none", srv.n) = srv.n
      /\ Wrote("newkeys", srv.n) = Wrote("none", srv.n)
      /\ TheirsTurns(k.step, "newkeys") = TheirsTurns(k.step, "none")
      /\ OursTurns(k.step, "newkeys") = TRUE /\ OursTurns(k.step, "none") = FALSE
      /\ (srv.n - 1) + 1 = srv.n
    BY <1>0, <1>4, <1>5 DEF Reads, Wrote, TheirsTurns, OursTurns
<1>7. Phase(k.step, "none", s.secrets, srv.n)
    BY <1>0, <1>4, <1>5 DEF Phase, Between
<1>8. MethodInv(t, k.step, m, srv2)
    <2>1. Alike(s, t, {"out", "packets", "burn"}) BY DEF Alike
    <2>2. MethodInv(t, k.step, m, srv) BY <2>1, MethodStep, FitsHas
    <2>3. /\ "rekey" \notin uses => srv2.n = 1
          /\ srv2.kex # "sent" \/ srv2.n # 1 => srv2.method = m
        BY <1>0, <1>2, <1>4, <2>2 DEF MethodInv
    <2> QED BY <1>2, <2>2, <2>3, MethodSame
<1>9. Turning(t.out, KeysAt(m, Out, Reads("none", srv.n)),
              KeysAt(m, Out, Reads("none", srv.n) + 1), OursTurns(k.step, "none"))
    <2>1. Turning(s.out, KeysAt(m, Out, srv.n - 1), KeysAt(m, Out, srv.n), TRUE)
        <3>1. Turning(s.out, KeysAt(m, Out, Reads(srv.kex, srv.n)),
                      KeysAt(m, Out, Reads(srv.kex, srv.n) + 1), OursTurns(k.step, srv.kex))
            BY FitsHas
        <3> QED BY <1>4, <1>6, <3>1
    <2>2. Turning(t.out, KeysAt(m, Out, srv.n), KeysAt(m, Out, srv.n + 1), FALSE)
        BY <2>1, TurningTailNewKeys
    <2> QED BY <1>6, <2>2
<1>10. Turning(w, KeysAt(m, In, s.secrets), KeysAt(m, In, s.secrets + 1),
               TheirsTurns(k.step, "none"))
    <2>1. Turning(w, KeysAt(m, In, s.secrets), KeysAt(m, In, s.secrets + 1),
                  TheirsTurns(k.step, srv.kex))
        BY FitsHas
    <2> QED BY <1>4, <1>6, <2>1
<1>11. AskInv(t.out, k.step, "none", offers)
    <2>1. AskInv(s.out, k.step, srv.kex, offers) BY FitsHas
    <2>2. s.out[1].type # KEXINIT BY Types DEF PacketTypes
    <2>3. AskInv(t.out, k.step, srv.kex, offers) BY <2>1, <2>2, AskTail
    <2> QED BY <1>0, <1>4, <2>3, AskLater
<1>12. ValueInv(t.out, k.step, "none", m)
    <2>1. ValueInv(s.out, k.step, srv.kex, m) BY FitsHas
    <2>2. s.out[1].type \notin Values /\ s.out[1].type # KEXINIT
        BY Types DEF PacketTypes, Values
    <2>3. ValueInv(t.out, k.step, srv.kex, m) BY <2>1, <2>2, ValueTail
    <2>4. srv.kex \notin {"sent", "init"} BY <1>4
    <2> QED BY <2>3, <2>4, ValueStep
<1>13. GreetInv(s.packets, w, k.step, "none", s.secrets, srv2)
    <2>1. GreetInv(s.packets, w, k.step, srv.kex, s.secrets, srv) BY FitsHas
    <2>2. Has(s.packets, KEXINIT) => k.step = "kexinit" BY <2>1 DEF GreetInv
    <2>3. ~Has(w, KEXINIT)
        <3>1. "kexinit" \notin Between BY DEF Between
        <3> QED BY <1>0, <1>4, <2>1, <3>1 DEF GreetInv, Has
    <2> QED BY <1>0, <1>2, <2>1, <2>2, <2>3, GreetStep
<1>14. ShowInv(s.packets, w, k.step, "none", srv.n)
    <2>1. ShowInv(s.packets, w, k.step, srv.kex, srv.n) /\ k.step \notin Closing
        BY <1>0, <1>4, FitsHas
    <2> QED BY <2>1, ShowStep
<1>15. DueInv(s.packets, w, k.step, k.asked, s.burn, "none", m, srv.guess)
    <2>1. DueInv(s.packets, w, k.step, k.asked, s.burn, srv.kex, m, srv.guess) BY FitsHas
    <2>2. PICK b : b = s.burn OBVIOUS
    <2>3. PICK g : g = srv.guess OBVIOUS
    <2>4. DueInv(s.packets, w, k.step, k.asked, b, srv.kex, m, g) BY <2>1, <2>2, <2>3
    <2>5. DueInv(s.packets, w, k.step, k.asked, b, "none", m, g)
        BY <1>0, <2>4, DueStep
    <2> QED BY <2>2, <2>3, <2>5
<1>16. k.step = "newkeys" => k.h = s.secrets + 1 BY <1>3 DEF InStepOf
<1>17. /\ srv2.in = KeysAt(m, Out, Reads("none", srv.n))
       /\ srv2.out = KeysAt(m, In, Wrote("none", srv.n))
    BY <1>2, <1>3, <1>4, <1>6 DEF InStepOf
<1> QED
    BY <1>1, <1>2, <1>7, <1>8, <1>9, <1>10, <1>11, <1>12, <1>13, <1>14, <1>15, <1>16, <1>17
    DEF InStepOf

\* The server wants new keys.
LEMMA RekeyServerFits ==
    ASSUME NEW m, NEW offers, NEW k, NEW s, NEW w, NEW srv, Fits(m, offers, k, s, w, srv),
           srv.kex = "none", "rekey" \in uses,
           NEW srv2, ServersAlike(srv, srv2, {"kex", "n"}), srv2.kex = "sent",
           srv2.n = srv.n + 1,
           NEW r, NEW w2, Joined(w, r, w2), Len(r) \in Nat, Len(r) > 0, r[1].type = KEXINIT,
           r[1].what = srv.lists, r[1].guess = srv.guess,
           \A i \in 2..Len(r) : r[i].type = KEXDH_REPLY,
           srv.guess => Len(r) > 1,
           \A i \in 1..Len(r) : r[i].keys = srv.out /\ ~ShowsKey(r[i])
    PROVE  InStepOf(m, offers, k, s, w2, srv2)
<1>0. /\ Opening \cap Between = {} /\ Closing \cap Between = {} /\ Opening \cap Closing = {}
      /\ "none" # "sent" /\ "newkeys" # "sent" /\ "none" # "newkeys"
    BY DEF Opening, Closing, Between
<1>2. /\ srv2.lists = srv.lists /\ srv2.guess = srv.guess /\ srv2.method = srv.method
      /\ srv2.in = srv.in /\ srv2.out = srv.out
    BY DEF ServersAlike, RelevantOfServer
<1>3. InStepOf(m, offers, k, s, w, srv) BY DEF Fits
<1>4. Phase(k.step, "none", s.secrets, srv.n) BY <1>3 DEF InStepOf
<1>5. srv.n \in Nat /\ k.step \in Between /\ Phase(k.step, "sent", s.secrets, srv.n + 1)
    BY <1>4 DEF Phase, Between
<1>6. /\ Reads("sent", srv.n + 1) = srv.n /\ Reads("none", srv.n) = srv.n
      /\ Wrote("sent", srv.n + 1) = srv.n /\ Wrote("none", srv.n) = srv.n
      /\ TheirsTurns(k.step, "sent") = TheirsTurns(k.step, "none")
      /\ OursTurns(k.step, "sent") = FALSE /\ OursTurns(k.step, "none") = FALSE
    BY <1>0, <1>5 DEF Reads, Wrote, TheirsTurns, OursTurns
<1>7. KEXDH_REPLY \notin {KEXINIT, NEWKEYS} /\ NEWKEYS # KEXINIT BY Types DEF PacketTypes
<1>8. \A i \in 1..Len(r) : r[i].type # NEWKEYS
    <2>1. \A i \in 1..Len(r) : i = 1 \/ i \in 2..Len(r) OBVIOUS
    <2> QED BY <1>7, <2>1
<1>9. MethodInv(s, k.step, m, srv2)
    <2>1. MethodInv(s, k.step, m, srv) BY FitsHas
    <2>2. srv2.method = m BY <1>0, <1>2, <2>1 DEF MethodInv
    <2> QED BY <1>2, <2>1, <2>2, MethodSame
<1>10. Turning(s.out, KeysAt(m, Out, Reads("sent", srv2.n)),
               KeysAt(m, Out, Reads("sent", srv2.n) + 1), OursTurns(k.step, "sent"))
    <2>1. Turning(s.out, KeysAt(m, Out, Reads(srv.kex, srv.n)),
                  KeysAt(m, Out, Reads(srv.kex, srv.n) + 1), OursTurns(k.step, srv.kex))
        BY FitsHas
    <2> QED BY <1>6, <2>1
<1>11. Turning(w2, KeysAt(m, In, s.secrets), KeysAt(m, In, s.secrets + 1),
               TheirsTurns(k.step, "sent"))
    <2>1. PICK turns \in BOOLEAN : turns = TheirsTurns(k.step, srv.kex) BY DEF TheirsTurns
    <2> DEFINE old == KeysAt(m, In, s.secrets)
               new == KeysAt(m, In, s.secrets + 1)
    <2>2. srv.out = IF turns THEN new ELSE old
        <3>1. Wrote(srv.kex, srv.n) = IF TheirsTurns(k.step, srv.kex) THEN s.secrets + 1
                                                                     ELSE s.secrets
            BY <1>4, AnswersInStep
        <3>2. srv.out = KeysAt(m, In, Wrote(srv.kex, srv.n)) BY <1>3 DEF InStepOf
        <3> QED BY <2>1, <3>1, <3>2
    <2>3. Turning(w, old, new, turns) BY <2>1, FitsHas
    <2>4. \A i \in 1..Len(r) : r[i].keys = IF turns THEN new ELSE old
        BY <2>2
    <2> HIDE DEF old, new
    <2>5. Turning(w2, old, new, turns) BY <1>8, <2>3, <2>4, TurningJoins
    <2> QED BY <1>6, <2>1, <2>5 DEF old, new
<1>12. AskInv(s.out, k.step, "sent", offers)
    <2>1. AskInv(s.out, k.step, srv.kex, offers) BY FitsHas
    <2> QED BY <1>0, <1>5, <2>1, AskLater
<1>13. ValueInv(s.out, k.step, "sent", m)
    <2>1. ValueInv(s.out, k.step, srv.kex, m) BY FitsHas
    <2>2. srv.kex \notin {"sent", "init"} OBVIOUS
    <2> QED BY <2>1, <2>2, ValueStep
<1>14. GreetInv(s.packets, w2, k.step, "sent", s.secrets, srv2)
    <2>1. GreetInv(s.packets, w, k.step, srv.kex, s.secrets, srv) BY FitsHas
    <2>2. Greets(r[1], srv2) BY <1>2 DEF Greets
    <2>3. \A i \in 2..Len(r) : r[i].type \notin {KEXINIT, NEWKEYS} BY <1>7
    <2>4. srv2.guess => Len(r) > 1 /\ r[2].type = KEXDH_REPLY
        <3>1. Len(r) > 1 => 2 \in 2..Len(r) OBVIOUS
        <3> QED BY <1>2, <3>1
    <2> QED BY <1>0, <1>5, <1>7, <2>1, <2>2, <2>3, <2>4, GreetJoinsHello
<1>15. ShowInv(s.packets, w2, k.step, "sent", srv2.n)
    <2>1. ShowInv(s.packets, w, k.step, srv.kex, srv.n) BY FitsHas
    <2>2. ShowInv(s.packets, w, k.step, "sent", srv2.n) BY <1>0, <2>1, ShowStep
    <2> QED BY <2>2, ShowJoins
<1>16. DueInv(s.packets, w2, k.step, k.asked, s.burn, "sent", m, srv.guess)
    <2>1. DueInv(s.packets, w, k.step, k.asked, s.burn, srv.kex, m, srv.guess) BY FitsHas
    <2>2. ~Has(s.packets, NEWKEYS) BY <2>1 DEF DueInv
    <2>3. PICK b : b = s.burn OBVIOUS
    <2>4. PICK g : g = srv.guess OBVIOUS
    <2>5. DueInv(s.packets, w2, k.step, k.asked, b, "sent", m, g) BY <1>5, <2>2, DueBetween
    <2> QED BY <2>3, <2>4, <2>5
<1>17. k.step = "newkeys" => k.h = s.secrets + 1 BY <1>3 DEF InStepOf
<1>18. /\ srv2.in = KeysAt(m, Out, Reads("sent", srv2.n))
       /\ srv2.out = KeysAt(m, In, Wrote("sent", srv2.n))
    BY <1>2, <1>3, <1>6 DEF InStepOf
<1> QED
    BY <1>2, <1>5, <1>9, <1>10, <1>11, <1>12, <1>13, <1>14, <1>15, <1>16, <1>17, <1>18
    DEF InStepOf

\* Nothing is on its way to the server before the session has begun: it may offer
\* anything.
LEMMA OffersFit ==
    ASSUME NEW m, NEW offers, NEW k, NEW s, NEW w, NEW srv, Fits(m, offers, k, s, w, srv),
           k.step = "none", s.out = <<>>, s.secrets = 0, ~s.newkeys,
           NEW t, Alike(s, t, {}), NEW m2, NEW offers2
    PROVE  InStepOf(m2, offers2, k, t, w, srv)
<1>0. /\ Opening \cap Between = {} /\ Closing \cap Between = {} /\ "none" \in Between
      /\ "none" # "sent" /\ "none" # "newkeys" /\ "none" # "agree" /\ "none" \notin Agreeing
    BY DEF Opening, Closing, Between, Agreeing
<1>1. /\ t.secrets = 0 /\ t.burn = s.burn /\ t.packets = s.packets /\ t.out = s.out
      /\ t.newkeys = s.newkeys
    BY DEF Alike, Relevant
<1>2. InStepOf(m, offers, k, s, w, srv) BY DEF Fits
<1>3. srv.kex = "sent" /\ srv.n = 1 /\ Phase(k.step, srv.kex, 0, srv.n)
    BY <1>0, <1>2 DEF InStepOf, Phase, Opening, Closing
<1>4. Reads("sent", 1) = 0 /\ Wrote("sent", 1) = 0 BY DEF Reads, Wrote
<1>5. \A way : KeysAt(m, way, 0) = Plain /\ KeysAt(m2, way, 0) = Plain BY DEF KeysAt
<1>6. DOMAIN s.out = {}
    <2>1. DOMAIN s.out = 1..0 OBVIOUS
    <2> QED BY <2>1
<1>7. ~OursTurns(k.step, srv.kex) /\ ~TheirsTurns(k.step, srv.kex)
    BY <1>0, <1>3 DEF OursTurns, TheirsTurns
<1>8. Turning(t.out, KeysAt(m2, Out, Reads(srv.kex, srv.n)),
              KeysAt(m2, Out, Reads(srv.kex, srv.n) + 1), OursTurns(k.step, srv.kex))
    BY <1>1, <1>6, <1>7 DEF Turning, AtMostOne, Has
<1>9. Turning(w, KeysAt(m2, In, 0), KeysAt(m2, In, 0 + 1), TheirsTurns(k.step, srv.kex))
    <2>1. Turning(w, KeysAt(m, In, 0), KeysAt(m, In, 0 + 1), FALSE)
        <3>1. Turning(w, KeysAt(m, In, 0), KeysAt(m, In, 0 + 1),
                      TheirsTurns(k.step, srv.kex))
            BY FitsHas
        <3>2. TheirsTurns(k.step, srv.kex) = FALSE BY <1>7 DEF TheirsTurns
        <3> QED BY <3>1, <3>2
    <2>2. Turning(w, KeysAt(m2, In, 0), KeysAt(m2, In, 0 + 1), FALSE)
        BY <1>5, <2>1, TurningOld
    <2>3. TheirsTurns(k.step, srv.kex) = FALSE BY <1>7 DEF TheirsTurns
    <2> QED BY <2>2, <2>3
<1>10. AskInv(t.out, k.step, srv.kex, offers2) /\ ValueInv(t.out, k.step, srv.kex, m2)
    <2>1. k.step \notin Opening BY <1>0
    <2> QED BY <1>1, <1>6, <2>1 DEF AskInv, ValueInv, AtMostOne
<1>11. MethodInv(t, k.step, m2, srv)
    <2>1. MethodInv(s, k.step, m, srv) BY FitsHas
    <2> QED BY <1>0, <1>1, <1>3, <2>1 DEF MethodInv
<1>12. DueInv(s.packets, w, k.step, k.asked, s.burn, srv.kex, m2, srv.guess)
    <2>1. DueInv(s.packets, w, k.step, k.asked, s.burn, srv.kex, m, srv.guess) BY FitsHas
    <2>2. ~Has(s.packets, NEWKEYS) BY <2>1 DEF DueInv
    <2>3. PICK b : b = s.burn OBVIOUS
    <2>4. PICK g : g = srv.guess OBVIOUS
    <2>5. DueInv(s.packets, w, k.step, k.asked, b, srv.kex, m2, g)
        BY <1>0, <2>2, DueBetween
    <2> QED BY <2>3, <2>4, <2>5
<1>13. /\ srv.in = KeysAt(m2, Out, Reads(srv.kex, srv.n))
       /\ srv.out = KeysAt(m2, In, Wrote(srv.kex, srv.n))
    BY <1>2, <1>3, <1>4, <1>5 DEF InStepOf
<1>14. /\ GreetInv(s.packets, w, k.step, srv.kex, s.secrets, srv)
       /\ ShowInv(s.packets, w, k.step, srv.kex, srv.n)
    BY FitsHas
<1> QED
    BY <1>0, <1>1, <1>3, <1>8, <1>9, <1>10, <1>11, <1>12, <1>13, <1>14 DEF InStepOf

-----------------------------------------------------------------------------
(* What is found in the brigade *)

\* The first packet of a type, if there is one.
LEMMA FirstOfType ==
    ASSUME NEW q, Placed(q), NEW type
    PROVE  LET of == SelectInSeq(q, LAMBDA p : p.type = type)
           IN  /\ of = 0 => ~Has(q, type)
               /\ of # 0 => of \in DOMAIN q /\ q[of].type = type
               /\ \A i \in DOMAIN q : i < of => q[i].type # type
<1> DEFINE I == {i \in 1..Len(q) : q[i].type = type}
           of == SelectInSeq(q, LAMBDA p : p.type = type)
<1>1. of = IF I # {} THEN Min(I) ELSE 0 BY DEF SelectInSeq
<1>2. I \in SUBSET Nat /\ 0 \notin I OBVIOUS
<1>3. DOMAIN q = 1..Len(q) BY DEF Placed
<1>4. \A i \in DOMAIN q : q[i].type = type <=> i \in I BY <1>3
<1>5. \A i \in I : i \in DOMAIN q /\ i \in Nat BY <1>3
<1> HIDE DEF I, of
<1>6. CASE I = {} BY <1>1, <1>4, <1>5, <1>6 DEF Has, of
<1>7. CASE I # {}
    <2>1. of \in I /\ \A i \in I : of <= i BY <1>1, <1>2, <1>7, FirstPlace
    <2>2. of # 0 /\ of \in DOMAIN q BY <1>2, <1>5, <2>1
    <2>3. \A i \in DOMAIN q : i < of => q[i].type # type
        BY <1>4, <1>5, <2>1
    <2> QED BY <1>4, <2>1, <2>2, <2>3 DEF of
<1> QED BY <1>6, <1>7

\* What is found is the first of its type.
LEMMA FoundIsFirst ==
    ASSUME NEW q, Placed(q), Found(q) \in DOMAIN q
    PROVE  \A i \in DOMAIN q : i < Found(q) => q[i].type # q[Found(q)].type
<1> DEFINE Of(type) == SelectInSeq(q, LAMBDA p : p.type = type)
           types == IF Needs # AnyPacket THEN Needs
                    ELSE SetToSortSeq({q[i].type : i \in DOMAIN q}, <)
           t == SelectInSeq(types, LAMBDA type : Of(type) # 0)
<1>1. Found(q) = IF t = 0 THEN 0 ELSE Of(types[t]) BY Zenon DEF Found
<1>2. DOMAIN q = 1..Len(q) BY DEF Placed
<1>3. 0 \notin DOMAIN q BY <1>2
<1> HIDE DEF types, t, Of
<1>4. Found(q) = Of(types[t]) /\ Of(types[t]) # 0 BY <1>1, <1>3
<1>5. PICK type : type = types[t] OBVIOUS
<1>6. /\ Of(type) # 0 => q[Of(type)].type = type
      /\ \A i \in DOMAIN q : i < Of(type) => q[i].type # type
    BY FirstOfType DEF Of
<1> QED BY <1>4, <1>5, <1>6

\* When nothing is found, what an exchange waits for is not there.
LEMMA FoundNothing ==
    ASSUME NEW q, Placed(q), Found(q) = 0, NEW type, Needs = <<type>>, Needs # AnyPacket
    PROVE  ~Has(q, type)
<1> DEFINE Of(x) == SelectInSeq(q, LAMBDA p : p.type = x)
           types == IF Needs # AnyPacket THEN Needs
                    ELSE SetToSortSeq({q[i].type : i \in DOMAIN q}, <)
           t == SelectInSeq(types, LAMBDA x : Of(x) # 0)
           I == {i \in 1..Len(types) : Of(types[i]) # 0}
<1>1. Found(q) = IF t = 0 THEN 0 ELSE Of(types[t]) BY Zenon DEF Found
<1>2. t = IF I # {} THEN Min(I) ELSE 0 BY DEF SelectInSeq
<1>3. types = <<type>> OBVIOUS
<1> HIDE DEF types
<1>4. Len(types) = 1 /\ types[1] = type BY <1>3
<1> HIDE DEF t, Of
<1>5. I \in SUBSET Nat /\ 0 \notin I /\ \A i \in I : Of(types[i]) # 0 OBVIOUS
<1>6. Of(type) # 0 => 1 \in I BY <1>4
<1> HIDE DEF I
<1>7. ASSUME Of(type) # 0 PROVE FALSE
    <2>1. t = Min(I) /\ t \in I BY <1>2, <1>5, <1>6, <1>7, FirstPlace
    <2>2. t # 0 /\ Of(types[t]) # 0 BY <1>5, <2>1
    <2> QED BY <1>1, <2>2
<1>8. Of(type) = 0 => ~Has(q, type) BY FirstOfType DEF Of
<1> QED BY <1>7, <1>8

\* What an exchange waits for.
LEMMA ExchangeNeeds ==
    ASSUME Exchanging
    PROVE  /\ kex.step = "kexinit" => Needs = <<KEXINIT>>
           /\ kex.step = "burn" => Needs = AnyPacket
           /\ kex.step = "group" => Needs = <<KEX_DH_GEX_GROUP>>
           /\ kex.step = "reply" => Needs = <<ReplyType(session.method)>>
           /\ kex.step = "newkeys" => Needs = <<NEWKEYS>>
           /\ kex.step \in {"kexinit", "group", "reply", "newkeys"} => Needs # AnyPacket
<1>1. Needs = KexNeeds BY DEF Needs
<1>2. kex.step = "kexinit" => KexNeeds = <<KEXINIT>> BY DEF KexNeeds
<1>3. kex.step = "burn" => KexNeeds = AnyPacket BY DEF KexNeeds
<1>4. kex.step = "group" => KexNeeds = <<KEX_DH_GEX_GROUP>> BY DEF KexNeeds
<1>5. kex.step = "reply" => KexNeeds = <<ReplyType(session.method)>>
    BY DEF KexNeeds, ReplyType
<1>6. kex.step = "newkeys" => KexNeeds = <<NEWKEYS>> BY DEF KexNeeds
<1>7. \A x : x # -1 => <<x>> # AnyPacket BY DEF AnyPacket
<1>8. /\ KEXINIT # -1 /\ KEX_DH_GEX_GROUP # -1 /\ NEWKEYS # -1
      /\ ReplyType(session.method) # -1
    BY Types DEF PacketTypes, ReplyType
<1> QED BY <1>1, <1>2, <1>3, <1>4, <1>5, <1>6, <1>7, <1>8

\* Of what it waits for it takes nothing else.
LEMMA ExchangeWants ==
    ASSUME NEW type, Needs = <<type>>, Needs # AnyPacket, NEW p
    PROVE  Wanted(p) <=> p.type = type
<1>1. ToSet(<<type>>) = {type}
    <2>1. DOMAIN <<type>> = 1..1 /\ <<type>>[1] = type OBVIOUS
    <2> QED BY <2>1 DEF ToSet
<1> QED BY <1>1 DEF Wanted

-----------------------------------------------------------------------------
(* What any step of the client keeps *)

\* What a step of the client leaves behind, when the packet that was awaited has been
\* taken from s.
Kept(s) ==
    /\ session'.link = s.link /\ session'.prefs = s.prefs
    /\ s.started # "no" => session'.started # "no"
    /\ kex'.asked \in BOOLEAN
    /\ kex'.step # "none" => session'.exchanging /\ call'.fn # "none"
    /\ call'.fn = "none" => call'.need = <<>>
    /\ kex.step = "none" /\ s.exchanging => kex'.step = "none" /\ session'.exchanging
    /\ kex.step = "none" /\ wire' = wire =>
          session'.exchanging = s.exchanging /\ session'.secrets = s.secrets

\* Where it begins.
Keepable(s) ==
    /\ DOMAIN s = SessionFields /\ IsSeq(s.out) /\ IsSeq(s.packets)
    /\ DOMAIN kex = {"step", "asked", "h"} /\ kex.asked \in BOOLEAN
    /\ DOMAIN call = {"fn", "need", "asked", "key"}
    /\ kex.step # "none" => s.exchanging /\ call.fn # "none"
    /\ call.fn = "none" => call.need = <<>>

\* Fields of a session that a step of the client keeps.
KeptFields == {"link", "prefs", "started", "exchanging", "secrets"}

\* A packet is written, if the link is up.
LEMMA WriteFields ==
    ASSUME NEW s, DOMAIN s = SessionFields, IsSeq(s.out), NEW p
    PROVE  LET t == PacketWrite(s, p)
           IN  /\ DOMAIN t = SessionFields
               /\ \A f \in SessionFields \ {"out"} : t[f] = s[f]
               /\ CanWrite(s) => Longer(s.out, Under(p, OutKeys(s)), t.out)
<1> DEFINE q == Under(p, OutKeys(s))
           t == [s EXCEPT !.out = Append(s.out, q)]
<1>1. CASE ~CanWrite(s) BY <1>1 DEF PacketWrite
<1>2. CASE CanWrite(s)
    <2>1. PacketWrite(s, p) = t BY <1>2 DEF PacketWrite
    <2> HIDE DEF q
    <2>2. DOMAIN t = SessionFields /\ \A f \in SessionFields \ {"out"} : t[f] = s[f]
        OBVIOUS
    <2>3. t.out = Append(s.out, q) BY DEF SessionFields
    <2>4. Longer(s.out, q, t.out) BY <2>3, AppendPlaces
    <2> HIDE DEF t
    <2> QED BY <2>1, <2>2, <2>4 DEF q
<1> QED BY <1>1, <1>2

\* A call returns.
LEMMA ReturnsKept ==
    ASSUME NEW s, Keepable(s), NEW t, Returns(t), ~Exchanging,
           \A f \in KeptFields \ {"started"} : t[f] = s[f],
           s.started # "no" => t.started # "no"
    PROVE  Kept(s)
BY DEF Kept, Keepable, KeptFields, Returns, Idle, Call, Exchanging

\* A call writes a packet and goes on.
LEMMA SendsKept ==
    ASSUME NEW s, Keepable(s), NEW t, NEW p, NEW then, Sends(t, p, then), ~Exchanging,
           DOMAIN t = SessionFields, IsSeq(t.out), then.fn # "none",
           \A f \in KeptFields \ {"started"} : t[f] = s[f],
           s.started # "no" => t.started # "no"
    PROVE  Kept(s)
<1>1. \A f \in KeptFields : session'[f] = t[f]
    BY WriteFields DEF Sends, KeptFields, SessionFields
<1>2. kex' = kex /\ (call' = then \/ call' = Idle) BY DEF Sends
<1>3. Idle.fn = "none" /\ Idle.need = <<>> BY DEF Idle, Call
<1> QED BY <1>1, <1>2, <1>3 DEF Kept, Keepable, KeptFields, Exchanging

\* An exchange fails, with as much of the session as it had.
LEMMA KexFailsKept ==
    ASSUME NEW s, Keepable(s), NEW t, KexFails(t), Exchanging,
           \A f \in KeptFields \ {"secrets"} : t[f] = s[f]
    PROVE  Kept(s)
<1>1. kex' = NoKex /\ session' = t /\ (call' = call \/ call' = Idle) BY DEF KexFails
<1>2. Idle.fn = "none" /\ Idle.need = <<>> BY DEF Idle, Call
<1>3. NoKex.step = "none" /\ NoKex.asked = FALSE BY DEF NoKex, KexStep
<1> QED BY <1>1, <1>2, <1>3 DEF Kept, Keepable, KeptFields, Exchanging

\* An exchange goes on.
LEMMA GoesOnKept ==
    ASSUME NEW s, Keepable(s), Exchanging, call' = call, kex'.asked \in BOOLEAN,
           \A f \in KeptFields \ {"secrets"} : session'[f] = s[f]
    PROVE  Kept(s)
BY DEF Kept, Keepable, KeptFields, Exchanging

\* A packet of the exchange is written, or it fails.
LEMMA KexSendsKept ==
    ASSUME NEW s, Keepable(s), NEW p, NEW step, KexSends(s, p, step), Exchanging,
           step.asked \in BOOLEAN
    PROVE  Kept(s)
<1>1. CASE CanWrite(s)
    <2>1. \A f \in KeptFields : session'[f] = s[f]
        BY <1>1, WriteFields DEF KexSends, KeptFields, SessionFields, Keepable
    <2>2. kex' = step /\ call' = call BY <1>1 DEF KexSends
    <2> QED BY <2>1, <2>2, GoesOnKept
<1>2. CASE ~CanWrite(s) BY <1>2, KexFailsKept DEF KexSends
<1> QED BY <1>1, <1>2

\* The exchange is over.
LEMMA AfterKexKept ==
    ASSUME NEW s, Keepable(s), NEW t, AfterKex(t), Exchanging,
           DOMAIN t = SessionFields, IsSeq(t.out),
           \A f \in KeptFields \ {"secrets", "exchanging"} : t[f] = s[f]
    PROVE  Kept(s)
<1>1. kex' = NoKex BY DEF AfterKex
<1>2. NoKex.step = "none" /\ NoKex.asked = FALSE BY DEF NoKex, KexStep
<1>3. Idle.fn = "none" /\ Idle.need = <<>> BY DEF Idle, Call
<1>4. CASE call.fn = "startup"
    <2>1. session' = PacketWrite(t, Msg(SERVICE_REQUEST, "", 0)) BY <1>4 DEF AfterKex
    <2>2. \A f \in KeptFields : session'[f] = t[f]
        BY <2>1, WriteFields, ZenonT(40) DEF KeptFields, SessionFields
    <2>3. call' = Call("service", <<SERVICE_ACCEPT>>) \/ call' = Idle
        BY <1>4 DEF AfterKex
    <2>4. Call("service", <<SERVICE_ACCEPT>>).fn # "none" BY DEF Call
    <2> QED BY <1>1, <1>2, <1>3, <2>2, <2>3, <2>4 DEF Kept, KeptFields, Exchanging
<1>5. CASE call.fn # "startup"
    <2>1. session' = t /\ (call' = call \/ call' = Idle) BY <1>5 DEF AfterKex
    <2> QED BY <1>1, <1>2, <1>3, <2>1 DEF Kept, Keepable, KeptFields, Exchanging
<1> QED BY <1>4, <1>5

\* What an exchange does with a packet.
LEMMA KexTakesKept ==
    ASSUME NEW s, Keepable(s), NEW p, KexTakes(s, p), Exchanging
    PROVE  Kept(s)
<1>1. CASE kex.step = "kexinit"
    <2>1. /\ session' = [s EXCEPT !.kexinit = p] /\ kex' = KexStep("agree", 0)
          /\ call' = call
        BY <1>1 DEF KexTakes
    <2>2. \A f \in KeptFields : session'[f] = s[f]
        BY <2>1 DEF Keepable, KeptFields, SessionFields
    <2>3. kex'.asked \in BOOLEAN BY <2>1 DEF KexStep
    <2> QED BY <2>1, <2>2, <2>3, GoesOnKept
<1>2. CASE kex.step \in {"group"}
    <2> DEFINE m == Msg(KEX_DH_GEX_INIT, p.what.blob, 0)
               k == KexStep(IF s.burn THEN "burn" ELSE "reply", 0)
    <2>1. KexSends(s, m, k) BY <1>2 DEF KexTakes, KexInit
    <2>2. k.asked \in BOOLEAN BY DEF KexStep
    <2> HIDE DEF m, k
    <2> QED BY <2>1, <2>2, KexSendsKept
<1>3. CASE kex.step = "burn"
    <2>1. /\ session' = [s EXCEPT !.burn = FALSE] /\ kex' = KexStep("reply", 0)
          /\ call' = call
        BY <1>3 DEF KexTakes
    <2>2. \A f \in KeptFields : session'[f] = s[f]
        BY <2>1 DEF Keepable, KeptFields, SessionFields
    <2>3. kex'.asked \in BOOLEAN BY <2>1 DEF KexStep
    <2> QED BY <2>1, <2>2, <2>3, GoesOnKept
<1>4. CASE kex.step = "reply"
    <2> DEFINE m == Msg(NEWKEYS, "", 0)
               k == KexStep("newkeys", p.n)
    <2>1. KexSends(s, m, k) \/ KexFails(s) BY <1>4 DEF KexTakes
    <2>2. k.asked \in BOOLEAN BY DEF KexStep
    <2> HIDE DEF m, k
    <2> QED BY <2>1, <2>2, KexSendsKept, KexFailsKept
<1>5. CASE kex.step = "newkeys"
    <2> DEFINE t == NewKeys(s, kex.h)
    <2>1. AfterKex(t) BY <1>5 DEF KexTakes
    <2>2. /\ DOMAIN t = SessionFields
          /\ \A f \in SessionFields \ {"newkeys", "secrets", "exchanging", "session_id"} :
                t[f] = s[f]
        BY DEF NewKeys, Keepable
    <2> HIDE DEF t
    <2>3. \A f \in KeptFields \ {"secrets", "exchanging"} : t[f] = s[f]
        BY <2>2 DEF KeptFields, SessionFields
    <2>4. IsSeq(t.out) BY <2>2 DEF Keepable, SessionFields
    <2> QED BY <2>1, <2>2, <2>3, <2>4, AfterKexKept
<1> QED BY <1>1, <1>2, <1>3, <1>4, <1>5 DEF KexTakes

\* The answer to a request.
LEMMA AnsweredKept ==
    ASSUME NEW s, Keepable(s), NEW p, Answered(s, p), ~Exchanging
    PROVE  Kept(s)
<1> DEFINE t == [s EXCEPT !.authenticated = TRUE]
<1>1. \A f \in KeptFields : t[f] = s[f] BY DEF Keepable, KeptFields, SessionFields
<1>2. Returns(t) \/ Returns(s) BY DEF Answered
<1>3. t.started = s.started BY <1>1 DEF KeptFields
<1> HIDE DEF t
<1> QED BY <1>1, <1>2, <1>3, ReturnsKept

\* What a call does with a packet.
LEMMA CallTakesKept ==
    ASSUME NEW s, Keepable(s), NEW p, CallTakes(s, p), ~Exchanging
    PROVE  Kept(s)
<1>0. IsSeq(s.out) /\ DOMAIN s = SessionFields BY DEF Keepable
<1>1. CASE call.fn = "service"
    <2> DEFINE t == [s EXCEPT !.started = IF p.what = "ssh-userauth" THEN "yes"
                                                                     ELSE s.started]
    <2>1. Returns(t) BY <1>1 DEF CallTakes, AuthCalls
    <2>2. /\ \A f \in KeptFields \ {"started"} : t[f] = s[f]
          /\ s.started # "no" => t.started # "no"
        BY <1>0 DEF KeptFields, SessionFields
    <2> HIDE DEF t
    <2> QED BY <2>1, <2>2, ReturnsKept
<1>2. CASE call.fn # "service"
    <2>1. /\ call.fn \in AuthCalls /\ call.fn # "none"
          /\ \/ Answered(s, p) \/ ChangesPassword(s) \/ SendsSigned(s) \/ Respond(s, p)
        BY <1>2 DEF CallTakes, AuthCalls
    <2> DEFINE c == [call EXCEPT !.asked = FALSE]
    <2>2. c.fn # "none" BY <2>1 DEF Keepable
    <2>3. CASE ChangesPassword(s)
        <3> DEFINE m == Asks("password")
        <3>1. Sends(s, m, c) \/ Returns(s) BY <2>3 DEF ChangesPassword
        <3> HIDE DEF m, c
        <3> QED BY <1>0, <2>2, <3>1, SendsKept, ReturnsKept
    <2>4. CASE SendsSigned(s)
        <3>1. Returns(s) \/ \E m : Sends(s, m, Call("publickey", Answers))
            BY <2>4 DEF SendsSigned
        <3> DEFINE d == Call("publickey", Answers)
        <3>2. d.fn # "none" BY DEF Call
        <3>3. Returns(s) \/ \E m : Sends(s, m, d) BY <3>1
        <3> HIDE DEF d
        <3> QED BY <1>0, <3>2, <3>3, SendsKept, ReturnsKept
    <2>5. CASE Respond(s, p)
        <3> DEFINE m == Msg(USERAUTH_INFO_RESPONSE, "", p.n)
        <3>1. Sends(s, m, c) BY <2>5 DEF Respond
        <3> HIDE DEF m, c
        <3> QED BY <1>0, <2>2, <3>1, SendsKept
    <2> QED BY <2>1, <2>3, <2>4, <2>5, AnsweredKept
<1> QED BY <1>1, <1>2

\* A packet is taken from the brigade.
LEMMA TakesFoundKept ==
    ASSUME NEW s, Keepable(s), TakesFound(s)
    PROVE  Kept(s)
<1>1. PICK i \in DOMAIN s.packets :
        Takes([s EXCEPT !.packets = RemoveAt(s.packets, i)], s.packets[i])
    BY DEF TakesFound
<1> DEFINE p == s.packets[i]
           t == [s EXCEPT !.packets = RemoveAt(s.packets, i)]
<1>2. IsSeq(RemoveAt(s.packets, i)) BY SeqRemove DEF Keepable
<1>3. /\ DOMAIN t = SessionFields /\ t.packets = RemoveAt(s.packets, i)
      /\ \A f \in SessionFields \ {"packets"} : t[f] = s[f]
    BY DEF Keepable, SessionFields
<1>4. Takes(t, p) BY <1>1
<1> HIDE DEF p, t
<1>5. Keepable(t) BY <1>2, <1>3 DEF Keepable, SessionFields
<1>6. Kept(t) BY <1>4, <1>5, KexTakesKept, CallTakesKept DEF Takes
<1> QED BY <1>3, <1>6 DEF Kept, SessionFields

\* An exchange or a call fails.
LEMMA GivesUpKept ==
    ASSUME NEW s, Keepable(s), GivesUp(s)
    PROVE  Kept(s)
BY ReturnsKept, KexFailsKept DEF GivesUp

\* An exchange begins, because of a packet that was read.
LEMMA KexBeginsKept ==
    ASSUME NEW s, Keepable(s), NEW re \in BOOLEAN, KexBegins(s, re), kex.step = "none",
           ~s.exchanging, call.fn # "none", wire' # wire
    PROVE  Kept(s)
<1> DEFINE t == [s EXCEPT !.exchanging = TRUE,
                          !.method["KEX"] = IF re THEN "" ELSE @,
                          !.method["HOSTKEY"] = IF re THEN "" ELSE @]
           p == Msg(KEXINIT, [k \in Kinds |-> Offer(t, k)], 0)
<1>1. /\ DOMAIN t = SessionFields /\ t.exchanging = TRUE
      /\ \A f \in SessionFields \ {"exchanging", "method"} : t[f] = s[f]
    BY DEF Keepable, SessionFields
<1>2. IF CanWrite(t)
      THEN session' = PacketWrite(t, p) /\ kex' = KexStep("kexinit", 0) /\ call' = call
      ELSE KexFails(t)
    BY DEF KexBegins
<1> HIDE DEF t, p
<1>3. IsSeq(t.out) BY <1>1 DEF Keepable, SessionFields
<1>4. \A f \in {"link", "prefs", "started", "exchanging"} : session'[f] = t[f]
    <2>1. CASE CanWrite(t) BY <1>1, <1>2, <1>3, <2>1, WriteFields DEF SessionFields
    <2>2. CASE ~CanWrite(t) BY <1>2, <2>2 DEF KexFails
    <2> QED BY <2>1, <2>2
<1>5. session'.exchanging /\ session'.link = s.link /\ session'.prefs = s.prefs
      /\ session'.started = s.started
    BY <1>1, <1>4 DEF SessionFields
<1>6. /\ kex'.asked \in BOOLEAN
      /\ kex'.step # "none" => call'.fn # "none"
      /\ call'.fn = "none" => call'.need = <<>>
    <2>1. CASE CanWrite(t)
        <3>1. kex' = KexStep("kexinit", 0) /\ call' = call BY <1>2, <2>1
        <3>2. kex'.asked = FALSE BY <3>1 DEF KexStep
        <3> QED BY <3>1, <3>2
    <2>2. CASE ~CanWrite(t)
        <3>1. kex' = NoKex /\ (call' = call \/ call' = Idle) BY <1>2, <2>2 DEF KexFails
        <3>2. kex'.step = "none" /\ kex'.asked = FALSE BY <3>1 DEF NoKex, KexStep
        <3>3. Idle.need = <<>> BY DEF Idle, Call
        <3> QED BY <3>1, <3>2, <3>3
    <2> QED BY <2>1, <2>2
<1> QED BY <1>5, <1>6 DEF Kept

\* What is true of the client before its step.
LEMMA KeepableNow ==
    ASSUME SessionInv, BaseInv
    PROVE  Keepable(session)
BY DEF SessionInv, SessionOk, KexOk, CallOk, BaseInv, Exchanging, Keepable

\* A packet that was read changes none of that.
LEMMA KeepableAdded ==
    ASSUME NEW s, Keepable(s), NEW p
    PROVE  /\ Keepable(PacketAdd(s, p))
           /\ \A f \in SessionFields \ {"packets", "socket_state"} : PacketAdd(s, p)[f] = s[f]
           /\ p.type \in {DISCONNECT, BANNER_LINE} => PacketAdd(s, p).packets = s.packets
           /\ p.type \notin {DISCONNECT, BANNER_LINE} =>
                 Longer(s.packets, p, PacketAdd(s, p).packets)
<1>1. IsSeq(s.packets) /\ DOMAIN s = SessionFields BY DEF Keepable
<1>2. CASE p.type = DISCONNECT
    <2> DEFINE t == [s EXCEPT !.socket_state = "DISCONNECTED"]
    <2>1. PacketAdd(s, p) = t BY <1>2, Types DEF PacketAdd, PacketTypes
    <2>2. DOMAIN t = SessionFields
          /\ \A f \in SessionFields \ {"socket_state"} : t[f] = s[f]
        BY <1>1
    <2> HIDE DEF t
    <2> QED BY <1>2, <2>1, <2>2 DEF Keepable, SessionFields
<1>3. CASE p.type = BANNER_LINE
    BY <1>3, Types DEF PacketAdd, PacketTypes
<1>4. CASE p.type \notin {DISCONNECT, BANNER_LINE}
    <2> DEFINE t == [s EXCEPT !.packets = Append(s.packets, p)]
    <2>1. PacketAdd(s, p) = t BY <1>4 DEF PacketAdd
    <2>2. IsSeq(Append(s.packets, p)) /\ Longer(s.packets, p, Append(s.packets, p))
        BY <1>1, SeqAppend, AppendPlaces
    <2>3. /\ DOMAIN t = SessionFields /\ t.packets = Append(s.packets, p)
          /\ \A f \in SessionFields \ {"packets"} : t[f] = s[f]
        BY <1>1 DEF SessionFields
    <2> HIDE DEF t
    <2> QED BY <1>4, <2>1, <2>2, <2>3 DEF Keepable, SessionFields
<1> QED BY <1>2, <1>3, <1>4

\* After a step of the client what is true of every session is true still, a session
\* that is in step was, and it offers what it did.
LEMMA ClientBase ==
    ASSUME SessionInv, BaseInv, Kept(session), session'.started # "no",
           server' = server, uses' = uses,
           wire' = wire \/ (wire # <<>> /\ wire' = Tail(wire))
    PROVE  BaseInv' /\ (Live' => Live) /\ Offers(session') = Offers(session)
<1>1. BannerInv'
    <2>1. CASE wire' = wire
        <3> SUFFICES ASSUME NEW i \in DOMAIN wire, wire[i].type = BANNER_LINE
                     PROVE  i = 1 /\ ~session'.exchanging /\ session'.secrets = 0
            BY <2>1 DEF BannerInv
        <3>1. i = 1 /\ ~session.exchanging /\ session.secrets = 0
            BY DEF BaseInv, BannerInv
        <3>2. kex.step = "none" BY <3>1 DEF BaseInv, Exchanging
        <3> QED BY <2>1, <3>1, <3>2 DEF Kept
    <2>2. CASE wire # <<>> /\ wire' = Tail(wire)
        <3>1. IsSeq(wire) BY DEF SessionInv, WireOk
        <3>2. PICK w : w = wire' OBVIOUS
        <3>3. Shorter(wire, w) BY <2>2, <3>1, <3>2, TailPlaces
        <3>4. \A i \in DOMAIN w : i + 1 \in DOMAIN wire /\ i + 1 # 1 /\ w[i] = wire[i + 1]
            BY <3>3, ShorterPlaces
        <3>5. \A i \in DOMAIN w : w[i].type # BANNER_LINE
            BY <3>4 DEF BaseInv, BannerInv
        <3> QED BY <3>2, <3>5 DEF BannerInv
    <2> QED BY <2>1, <2>2
<1>2. BaseInv'
    BY <1>1 DEF BaseInv, Kept, Exchanging
<1>3. Hopes => Hopes'
    BY DEF Hopes, Exchanging, Kept
<1>4. Uncompressed' => Uncompressed BY DEF Uncompressed
<1>5. Live' => Live BY <1>3, <1>4 DEF Live, Kept
<1>6. Offers(session') = Offers(session) BY DEF Kept, Offers, Offer
<1> QED BY <1>2, <1>5, <1>6

-----------------------------------------------------------------------------
(* What the client's actions do to a session in step *)

\* What is in step stays so, or the exchange fails.
Stays(m, offers, w) ==
    (session'.exchanging => kex'.step # "none") =>
        InStepOf(m, offers, kex', session', w, server)

\* A session in step, and an exchange that is where kex is.
InStepNow(m, offers, k, s, w) ==
    /\ Fits(m, offers, k, s, w, server) /\ k.step = kex.step /\ k.h = kex.h
    /\ Keepable(s) /\ s.link = "up"
    /\ s.exchanging <=> kex.step # "none"
    /\ Known(m, s, server) /\ s.method["HOSTKEY"] \notin Unkeyed

\* Fields that the keys are made of.
LEMMA SameOutKeys ==
    ASSUME NEW s, NEW t,
           \A f \in {"newkeys", "method", "secrets", "session_id", "stream"} : t[f] = s[f]
    PROVE  OutKeys(t) = OutKeys(s)
BY DEF OutKeys

\* A session that differs in nothing the invariant is about, nor in its keys.
LEMMA AlikeOf ==
    ASSUME NEW s, DOMAIN s = SessionFields, NEW t, DOMAIN t = SessionFields, NEW but,
           \A f \in SessionFields \ but : t[f] = s[f]
    PROVE  Alike(s, t, but)
BY DEF Alike, Relevant, SessionFields

\* A packet of ours is written.
LEMMA WriteAlike ==
    ASSUME NEW s, DOMAIN s = SessionFields, IsSeq(s.out), s.link = "up",
           NEW p, IsPacket(p)
    PROVE  LET t == PacketWrite(s, p)
               q == Under(p, OutKeys(s))
           IN  /\ DOMAIN t = SessionFields /\ \A f \in SessionFields \ {"out"} : t[f] = s[f]
               /\ Longer(s.out, q, t.out)
               /\ q.type = p.type /\ q.what = p.what /\ q.n = p.n /\ q.keys = OutKeys(s)
<1>1. CanWrite(s) BY DEF CanWrite
<1> QED BY <1>1, WriteFields, Rewritten

\* A call writes a packet.
LEMMA SendsFits ==
    ASSUME NEW m, NEW offers, NEW s, NEW w, InStepNow(m, offers, kex, s, w),
           kex.step = "none", NEW t, NEW p, NEW then, Sends(t, p, then), IsPacket(p),
           p.type \notin {KEXINIT, NEWKEYS} \cup Values, DOMAIN t = SessionFields,
           \A f \in SessionFields \ {"started", "tries"} : t[f] = s[f]
    PROVE  InStepOf(m, offers, kex', session', w, server)
<1>1. Fits(m, offers, kex, s, w, server) /\ DOMAIN s = SessionFields /\ IsSeq(s.out)
      /\ s.link = "up"
    BY DEF InStepNow, Keepable
<1>2. /\ t.out = s.out /\ t.link = s.link
      /\ \A f \in {"newkeys", "method", "secrets", "session_id", "stream"} : t[f] = s[f]
    BY DEF SessionFields
<1>3. session' = PacketWrite(t, p) /\ kex' = kex BY DEF Sends
<1> DEFINE u == PacketWrite(t, p)
           q == Under(p, OutKeys(t))
<1>4. /\ DOMAIN u = SessionFields /\ \A f \in SessionFields \ {"out"} : u[f] = t[f]
      /\ Longer(t.out, q, u.out) /\ q.type = p.type /\ q.keys = OutKeys(t)
    BY <1>1, <1>2, WriteAlike
<1>5. OutKeys(t) = OutKeys(s) BY <1>2, SameOutKeys
<1> HIDE DEF u, q
<1>6. \A f \in SessionFields \ {"started", "tries", "out"} : u[f] = s[f] BY <1>4
<1>7. Alike(s, u, {"out"})
    BY <1>1, <1>4, <1>6 DEF Alike, Relevant, SessionFields
<1>8. InStepOf(m, offers, kex, u, w, server) BY <1>1, <1>2, <1>4, <1>5, <1>7, WriteFits
<1> QED BY <1>3, <1>8 DEF u

\* A call returns.
LEMMA ReturnsFits ==
    ASSUME NEW m, NEW offers, NEW s, NEW w, InStepNow(m, offers, kex, s, w),
           NEW t, Returns(t), DOMAIN t = SessionFields,
           \A f \in SessionFields \ {"started", "authenticated"} : t[f] = s[f]
    PROVE  InStepOf(m, offers, kex', session', w, server)
<1>1. Fits(m, offers, kex, s, w, server) /\ DOMAIN s = SessionFields
    BY DEF InStepNow, Keepable
<1>2. Alike(s, t, {}) BY <1>1 DEF Alike, Relevant, SessionFields
<1>3. session' = t /\ kex' = kex BY DEF Returns
<1> QED BY <1>1, <1>2, <1>3, SameFits

\* Requests and answers are not of an exchange.
LEMMA RequestsOrdinary ==
    /\ USERAUTH_REQUEST \notin {KEXINIT, NEWKEYS} \cup Values
    /\ USERAUTH_INFO_RESPONSE \notin {KEXINIT, NEWKEYS} \cup Values
    /\ SERVICE_REQUEST \notin {KEXINIT, NEWKEYS} \cup Values
    /\ BANNER_LINE \notin {KEXINIT, NEWKEYS} \cup Values
    /\ DISCONNECT \notin {KEXINIT, NEWKEYS} \cup Values
BY Types DEF PacketTypes, Values

\* What is signed is put in a request.
LEMMA SignedIsRequest ==
    ASSUME NEW fn, NEW sig
    PROVE  IsPacket(Signed(fn, sig)) /\ Signed(fn, sig).type = USERAUTH_REQUEST
<1> DEFINE what == IF sig.over = Garbled THEN "garbled" ELSE fn
<1>1. Signed(fn, sig) = Msg(USERAUTH_REQUEST, what, sig.over) BY DEF Signed
<1> HIDE DEF what
<1> QED BY <1>1, Written

\* What a call does with a packet that was taken.
LEMMA CallTakesFits ==
    ASSUME NEW m, NEW offers, NEW s, NEW w, InStepNow(m, offers, kex, s, w),
           kex.step = "none", NEW p, CallTakes(s, p)
    PROVE  InStepOf(m, offers, kex', session', w, server)
<1>0. DOMAIN s = SessionFields BY DEF InStepNow, Keepable
<1>1. CASE call.fn = "service"
    <2> DEFINE t == [s EXCEPT !.started = IF p.what = "ssh-userauth" THEN "yes"
                                                                     ELSE s.started]
    <2>1. Returns(t) BY <1>1 DEF CallTakes, AuthCalls
    <2>2. DOMAIN t = SessionFields /\ \A f \in SessionFields \ {"started"} : t[f] = s[f]
        BY <1>0
    <2> HIDE DEF t
    <2> QED BY <2>1, <2>2, ReturnsFits
<1>2. CASE call.fn # "service"
    <2>1. Answered(s, p) \/ ChangesPassword(s) \/ SendsSigned(s) \/ Respond(s, p)
        BY <1>2 DEF CallTakes
    <2>2. CASE Answered(s, p)
        <3> DEFINE t == [s EXCEPT !.authenticated = TRUE]
        <3>1. Returns(t) \/ Returns(s) BY <2>2 DEF Answered
        <3>2. /\ DOMAIN t = SessionFields
              /\ \A f \in SessionFields \ {"authenticated"} : t[f] = s[f]
            BY <1>0
        <3> HIDE DEF t
        <3> QED BY <1>0, <3>1, <3>2, ReturnsFits
    <2>3. ASSUME NEW q, NEW then, Sends(s, q, then), IsPacket(q),
                 q.type \in {USERAUTH_REQUEST, USERAUTH_INFO_RESPONSE}
          PROVE  InStepOf(m, offers, kex', session', w, server)
        BY <1>0, <2>3, RequestsOrdinary, SendsFits
    <2> DEFINE c == [call EXCEPT !.asked = FALSE]
    <2>4. CASE ChangesPassword(s)
        <3> DEFINE q == Asks("password")
        <3>1. IsPacket(q) /\ q.type = USERAUTH_REQUEST BY Written DEF Asks
        <3>2. Sends(s, q, c) \/ Returns(s) BY <2>4 DEF ChangesPassword
        <3> HIDE DEF q, c
        <3> QED BY <1>0, <2>3, <3>1, <3>2, ReturnsFits
    <2>5. CASE SendsSigned(s)
        <3>1. Returns(s) \/ \E sig, then : Sends(s, Signed("signed", sig), then)
            BY <2>5 DEF SendsSigned
        <3>2. CASE Returns(s) BY <1>0, <3>2, ReturnsFits
        <3>3. CASE \E sig, then : Sends(s, Signed("signed", sig), then)
            <4>1. PICK sig, then : Sends(s, Signed("signed", sig), then) BY <3>3
            <4> QED BY <2>3, <4>1, SignedIsRequest
        <3> QED BY <3>1, <3>2, <3>3
    <2>6. CASE Respond(s, p)
        <3> DEFINE q == Msg(USERAUTH_INFO_RESPONSE, "", p.n)
        <3>1. IsPacket(q) /\ q.type = USERAUTH_INFO_RESPONSE
            <4>1. IsPacket(q) BY DEF Msg, IsPacket
            <4>2. q.type = USERAUTH_INFO_RESPONSE BY DEF Msg
            <4> QED BY <4>1, <4>2
        <3>2. Sends(s, q, c) BY <2>6 DEF Respond
        <3> HIDE DEF q, c
        <3> QED BY <2>3, <3>1, <3>2
    <2> QED BY <2>1, <2>2, <2>4, <2>5, <2>6
<1> QED BY <1>1, <1>2

\* A packet is taken out of the brigade: where the rest is.
LEMMA TakenPlaces ==
    ASSUME NEW s, DOMAIN s = SessionFields, IsSeq(s.packets), NEW x \in DOMAIN s.packets
    PROVE  LET t == [s EXCEPT !.packets = RemoveAt(s.packets, x)]
           IN  /\ DOMAIN t = SessionFields /\ Without(s.packets, x, t.packets)
               /\ \A f \in SessionFields \ {"packets"} : t[f] = s[f]
<1> DEFINE t == [s EXCEPT !.packets = RemoveAt(s.packets, x)]
<1>1. Without(s.packets, x, RemoveAt(s.packets, x)) BY RemovePlaces
<1>2. DOMAIN t = SessionFields /\ \A f \in SessionFields \ {"packets"} : t[f] = s[f]
    OBVIOUS
<1>3. t.packets = RemoveAt(s.packets, x) BY DEF SessionFields
<1> QED BY <1>1, <1>2, <1>3

\* Between two exchanges a call takes what it waited for.
LEMMA CallFoundFits ==
    ASSUME NEW m, NEW offers, NEW s, NEW w, InStepNow(m, offers, kex, s, w),
           kex.step = "none", TakesFound(s)
    PROVE  InStepOf(m, offers, kex', session', w, server)
<1>0. DOMAIN s = SessionFields /\ IsSeq(s.packets) /\ ~Exchanging
    BY DEF InStepNow, Keepable, Exchanging
<1>1. PICK x \in DOMAIN s.packets :
        CallTakes([s EXCEPT !.packets = RemoveAt(s.packets, x)], s.packets[x])
    BY <1>0 DEF TakesFound, Takes
<1> DEFINE t == [s EXCEPT !.packets = RemoveAt(s.packets, x)]
<1>2. /\ DOMAIN t = SessionFields /\ Without(s.packets, x, t.packets)
      /\ \A f \in SessionFields \ {"packets"} : t[f] = s[f]
    BY <1>0, TakenPlaces
<1>3. CallTakes(t, s.packets[x]) BY <1>1
<1> HIDE DEF t
<1>4. Alike(s, t, {"packets"}) BY <1>0, <1>2, AlikeOf
<1>5. Fits(m, offers, kex, s, w, server) BY DEF InStepNow
<1>6. InStepOf(m, offers, kex, t, w, server) BY <1>2, <1>4, <1>5, TakeFits
<1>7. IsSeq(t.packets) BY <1>2 DEF Without, Placed
<1>8. Fits(m, offers, kex, t, w, server) /\ Keepable(t)
    BY <1>2, <1>5, <1>6, <1>7 DEF Fits, Sane, InStepNow, Keepable, SessionFields
<1>9. Known(m, t, server)
    BY <1>2 DEF InStepNow, Known, Offers, Offer, SessionFields
<1>10. InStepNow(m, offers, kex, t, w)
    BY <1>2, <1>8, <1>9 DEF InStepNow, SessionFields
<1> QED BY <1>3, <1>10, CallTakesFits

-----------------------------------------------------------------------------
(* What an exchange does with a packet *)

\* An exchange that fails leaves the session marked.
LEMMA FailsStays ==
    ASSUME NEW s, s.exchanging, KexFails(s), NEW m, NEW offers, NEW w
    PROVE  Stays(m, offers, w)
BY DEF Stays, KexFails, NoKex, KexStep

\* A packet of the exchange is written, and the exchange goes on.
LEMMA KexSendsAlike ==
    ASSUME NEW t, DOMAIN t = SessionFields, IsSeq(t.out), t.link = "up",
           NEW p, IsPacket(p), NEW step, KexSends(t, p, step)
    PROVE  /\ kex' = step /\ DOMAIN session' = SessionFields
           /\ \A f \in SessionFields \ {"out"} : session'[f] = t[f]
           /\ \E q : /\ Longer(t.out, q, session'.out)
                    /\ q.type = p.type /\ q.what = p.what /\ q.keys = OutKeys(t)
<1> DEFINE u == PacketWrite(t, p)
           q == Under(p, OutKeys(t))
<1>1. session' = u /\ kex' = step BY DEF KexSends, CanWrite
<1>2. /\ DOMAIN u = SessionFields /\ \A f \in SessionFields \ {"out"} : u[f] = t[f]
      /\ Longer(t.out, q, u.out) /\ q.type = p.type /\ q.what = p.what /\ q.keys = OutKeys(t)
    BY WriteAlike
<1> HIDE DEF u, q
<1> QED BY <1>1, <1>2

\* What is taken is not in the brigade any more.
Taking(s, x, t) == t = [s EXCEPT !.packets = RemoveAt(s.packets, x)]

\* The rest of the session is as it was, and still in step.
LEMMA TakenAlike ==
    ASSUME NEW m, NEW offers, NEW k, NEW s, NEW w, InStepNow(m, offers, k, s, w),
           NEW x \in DOMAIN s.packets,
           NEW t, Taking(s, x, t)
    PROVE  /\ Fits(m, offers, k, s, w, server) /\ DOMAIN s = SessionFields
           /\ IsSeq(s.out) /\ s.link = "up"
           /\ DOMAIN t = SessionFields /\ Without(s.packets, x, t.packets)
           /\ \A f \in SessionFields \ {"packets"} : t[f] = s[f]
           /\ OutKeys(t) = OutKeys(s)
<1>1. /\ Fits(m, offers, k, s, w, server) /\ DOMAIN s = SessionFields /\ s.link = "up"
      /\ IsSeq(s.out) /\ IsSeq(s.packets)
    BY DEF InStepNow, Keepable
<1>2. /\ DOMAIN t = SessionFields /\ Without(s.packets, x, t.packets)
      /\ \A f \in SessionFields \ {"packets"} : t[f] = s[f]
    BY <1>1, TakenPlaces DEF Taking
<1>3. \A f \in {"newkeys", "method", "secrets", "session_id", "stream"} : t[f] = s[f]
    BY <1>2 DEF SessionFields
<1>4. OutKeys(t) = OutKeys(s) BY <1>3, SameOutKeys
<1> QED BY <1>1, <1>2, <1>4

\* The server's KEXINIT.
LEMMA KexinitStays ==
    ASSUME NEW m, NEW offers, NEW k, NEW s, NEW w, InStepNow(m, offers, k, s, w),
           NEW x \in DOMAIN s.packets, k.step = "kexinit", s.packets[x].type = KEXINIT,
           NEW t, Taking(s, x, t),
           session' = [t EXCEPT !.kexinit = s.packets[x]], kex' = KexStep("agree", 0)
    PROVE  InStepOf(m, offers, kex', session', w, server)
<1>1. /\ Fits(m, offers, k, s, w, server) /\ DOMAIN s = SessionFields
      /\ DOMAIN t = SessionFields /\ Without(s.packets, x, t.packets)
      /\ \A f \in SessionFields \ {"packets"} : t[f] = s[f]
    BY TakenAlike
<1> DEFINE p == s.packets[x]
           u == [t EXCEPT !.kexinit = p]
<1>2. /\ DOMAIN u = SessionFields /\ u.kexinit = p
      /\ \A f \in SessionFields \ {"kexinit"} : u[f] = t[f]
    BY <1>1 DEF SessionFields
<1>3. session' = u OBVIOUS
<1> HIDE DEF u
<1>4. Alike(s, u, {"packets", "kexinit"})
    BY <1>1, <1>2 DEF Alike, Relevant, SessionFields
<1>5. Without(s.packets, x, u.packets) BY <1>1, <1>2 DEF SessionFields
<1>6. kex'.step = "agree" /\ kex'.asked = FALSE BY DEF KexStep
<1> QED BY <1>1, <1>2, <1>3, <1>4, <1>5, <1>6, HelloTakenFits, ZenonT(40)

\* The group.
LEMMA GroupStays ==
    ASSUME NEW m, NEW offers, NEW k, NEW s, NEW w, InStepNow(m, offers, k, s, w),
           NEW x \in DOMAIN s.packets, k.step = "group",
           NEW t, Taking(s, x, t),
           NEW what, KexInit(t, Msg(KEX_DH_GEX_INIT, what, 0))
    PROVE  InStepOf(m, offers, kex', session', w, server)
<1>1. /\ Fits(m, offers, k, s, w, server) /\ DOMAIN s = SessionFields
      /\ IsSeq(s.out) /\ s.link = "up"
      /\ DOMAIN t = SessionFields /\ Without(s.packets, x, t.packets)
      /\ \A f \in SessionFields \ {"packets"} : t[f] = s[f]
      /\ OutKeys(t) = OutKeys(s)
    BY TakenAlike
<1> DEFINE p == Msg(KEX_DH_GEX_INIT, what, 0)
           step == KexStep(IF t.burn THEN "burn" ELSE "reply", 0)
<1>2. IsPacket(p) /\ p.type = KEX_DH_GEX_INIT BY Written
<1>3. t.link = "up" /\ IsSeq(t.out) /\ t.out = s.out /\ t.burn = s.burn
    BY <1>1 DEF SessionFields
<1>4. KexSends(t, p, step) BY DEF KexInit
<1>5. step.step = (IF s.burn THEN "burn" ELSE "reply") /\ step.asked = FALSE
    BY <1>3 DEF KexStep
<1> HIDE DEF p, step
<1>6. /\ kex' = step /\ DOMAIN session' = SessionFields
      /\ \A f \in SessionFields \ {"out"} : session'[f] = t[f]
      /\ \E q : /\ Longer(t.out, q, session'.out)
               /\ q.type = p.type /\ q.what = p.what /\ q.keys = OutKeys(t)
    BY <1>1, <1>2, <1>3, <1>4, KexSendsAlike
<1>7. PICK q : /\ Longer(t.out, q, session'.out)
               /\ q.type = p.type /\ q.what = p.what /\ q.keys = OutKeys(t)
    BY <1>6
<1>8. Alike(s, session', {"out", "packets"})
    BY <1>1, <1>6 DEF Alike, Relevant, SessionFields
<1>9. Without(s.packets, x, session'.packets) BY <1>1, <1>6 DEF SessionFields
<1>10. m["KEX"] = Gex
    <2>1. DueInv(s.packets, w, k.step, k.asked, s.burn, server.kex, m, server.guess)
        BY <1>1, FitsHas
    <2> QED BY <2>1 DEF DueInv
<1>11. q.type = IF m["KEX"] = Gex THEN KEX_DH_GEX_INIT ELSE KEXDH_INIT
    BY <1>2, <1>7, <1>10
<1>12. Longer(s.out, q, session'.out) /\ q.keys = OutKeys(s) BY <1>1, <1>3, <1>7
<1> QED BY <1>1, <1>5, <1>6, <1>8, <1>9, <1>11, <1>12, ValueFits

\* The reply.
LEMMA ReplyStays ==
    ASSUME NEW m, NEW offers, NEW k, NEW s, NEW w, InStepNow(m, offers, k, s, w),
           NEW x \in DOMAIN s.packets, k.step = "reply", s.packets[x].type \in Replies,
           NEW t, Taking(s, x, t), KexTakes(t, s.packets[x])
    PROVE  Stays(m, offers, w)
<1>1. /\ Fits(m, offers, k, s, w, server) /\ DOMAIN s = SessionFields
      /\ IsSeq(s.out) /\ s.link = "up"
      /\ DOMAIN t = SessionFields /\ Without(s.packets, x, t.packets)
      /\ \A f \in SessionFields \ {"packets"} : t[f] = s[f]
      /\ OutKeys(t) = OutKeys(s)
    BY TakenAlike
<1>2. /\ t.link = "up" /\ IsSeq(t.out) /\ t.out = s.out /\ t.method = s.method
      /\ t.exchanging = s.exchanging
    BY <1>1 DEF SessionFields
<1> DEFINE step == KexStep("newkeys", s.packets[x].n)
<1>0. IF Verified(t, s.packets[x]) THEN KexSends(t, Msg(NEWKEYS, "", 0), step)
      ELSE KexFails(t)
    BY DEF KexTakes, InStepNow
<1>3. CASE ~Verified(t, s.packets[x])
    <2>1. s.exchanging
        <3>1. s.exchanging <=> kex.step # "none" BY DEF InStepNow
        <3>2. kex.step = "reply" BY DEF InStepNow
        <3> QED BY <3>1, <3>2
    <2> QED BY <1>0, <1>2, <1>3, <2>1, FailsStays
<1>4. CASE Verified(t, s.packets[x])
    <2> DEFINE p == Msg(NEWKEYS, "", 0)
    <2>1. KexSends(t, p, step) BY <1>0, <1>4
    <2>2. IsPacket(p) /\ p.type = NEWKEYS BY DEF Msg, IsPacket
    <2>3. step.step = "newkeys" /\ step.h = s.packets[x].n BY DEF KexStep
    <2> HIDE DEF p, step
    <2>4. /\ kex' = step /\ DOMAIN session' = SessionFields
          /\ \A f \in SessionFields \ {"out"} : session'[f] = t[f]
          /\ \E q : /\ Longer(t.out, q, session'.out)
                   /\ q.type = p.type /\ q.what = p.what /\ q.keys = OutKeys(t)
        BY <1>1, <1>2, <2>1, <2>2, KexSendsAlike
    <2>5. PICK q : /\ Longer(t.out, q, session'.out)
                   /\ q.type = p.type /\ q.what = p.what /\ q.keys = OutKeys(t)
        BY <2>4
    <2>6. Alike(s, session', {"out", "packets"})
        BY <1>1, <2>4 DEF Alike, Relevant, SessionFields
    <2>7. Without(s.packets, x, session'.packets) BY <1>1, <2>4 DEF SessionFields
    <2>8. ShowsKey(s.packets[x])
        <3>1. s.method["HOSTKEY"] \notin Unkeyed BY DEF InStepNow
        <3>2. s.packets[x].what.blob = s.method["HOSTKEY"]
            BY <1>2, <1>4 DEF Verified, HostkeyInit
        <3> QED BY <3>1, <3>2 DEF ShowsKey
    <2>9. Longer(s.out, q, session'.out) /\ q.keys = OutKeys(s) /\ q.type = NEWKEYS
        BY <1>1, <1>2, <2>2, <2>5
    <2>10. InStepOf(m, offers, kex', session', w, server)
        BY <1>1, <2>3, <2>4, <2>6, <2>7, <2>8, <2>9, VerifiedFits
    <2> QED BY <2>10 DEF Stays
<1> QED BY <1>3, <1>4

\* A packet of the exchange that is taken for what it is waited for.
LEMMA KexTakesFits ==
    ASSUME NEW m, NEW offers, NEW k, NEW s, NEW w, InStepNow(m, offers, k, s, w),
           kex.step \in {"kexinit", "group", "reply"},
           NEW x \in DOMAIN s.packets, Wanted(s.packets[x]),
           KexTakes([s EXCEPT !.packets = RemoveAt(s.packets, x)], s.packets[x])
    PROVE  Stays(m, offers, w)
<1> DEFINE t == [s EXCEPT !.packets = RemoveAt(s.packets, x)]
           p == s.packets[x]
<1>1. KexTakes(t, p) /\ Taking(s, x, t) BY DEF Taking
<1>2. Exchanging /\ k.step = kex.step BY DEF Exchanging, InStepNow
<1> HIDE DEF t
<1>3. CASE kex.step = "kexinit"
    <2>1. p.type = KEXINIT BY <1>2, <1>3, ExchangeNeeds, ExchangeWants
    <2>2. session' = [t EXCEPT !.kexinit = p] /\ kex' = KexStep("agree", 0)
        BY <1>1, <1>3 DEF KexTakes
    <2>3. InStepOf(m, offers, kex', session', w, server)
        BY <1>1, <1>2, <1>3, <2>1, <2>2, KexinitStays
    <2> QED BY <2>3 DEF Stays
<1>4. CASE kex.step = "group"
    <2>1. KexInit(t, Msg(KEX_DH_GEX_INIT, p.what.blob, 0)) BY <1>1, <1>4 DEF KexTakes
    <2>2. PICK what : what = p.what.blob OBVIOUS
    <2>3. KexInit(t, Msg(KEX_DH_GEX_INIT, what, 0)) BY <2>1, <2>2
    <2>4. InStepOf(m, offers, kex', session', w, server)
        BY <1>1, <1>2, <1>4, <2>3, GroupStays
    <2> QED BY <2>4 DEF Stays
<1>5. CASE kex.step = "reply"
    <2>2. p.type = ReplyType(session.method)
        BY <1>2, <1>5, ExchangeNeeds, ExchangeWants
    <2>3. p.type \in Replies BY <2>2 DEF ReplyType, Replies
    <2> QED BY <1>1, <1>2, <1>5, <2>3, ReplyStays
<1> QED BY <1>3, <1>4, <1>5

-----------------------------------------------------------------------------
(* What is taken from the brigade, and what is read *)

\* What of it is in step now.
LEMMA NowHas ==
    ASSUME NEW m, NEW offers, NEW k, NEW s, NEW w, InStepNow(m, offers, k, s, w)
    PROVE  /\ Fits(m, offers, k, s, w, server) /\ Sane(k, s, w, server)
           /\ DOMAIN s = SessionFields /\ IsSeq(s.out) /\ IsSeq(s.packets)
           /\ k.step = kex.step /\ s.link = "up"
           /\ GreetInv(s.packets, w, k.step, server.kex, s.secrets, server)
           /\ DueInv(s.packets, w, k.step, k.asked, s.burn, server.kex, m, server.guess)
           /\ Turning(w, KeysAt(m, In, s.secrets), KeysAt(m, In, s.secrets + 1),
                      TheirsTurns(k.step, server.kex))
           /\ Placed(s.packets) /\ Placed(w)
<1>1. Fits(m, offers, k, s, w, server) /\ Keepable(s) /\ k.step = kex.step /\ s.link = "up"
    BY DEF InStepNow
<1>2. Sane(k, s, w, server) BY <1>1 DEF Fits
<1>3. DOMAIN s = SessionFields /\ IsSeq(s.out) /\ IsSeq(s.packets) BY <1>1 DEF Keepable
<1> QED BY <1>1, <1>2, <1>3, FitsHas

\* The guess is taken from the brigade.
LEMMA BurnStays ==
    ASSUME NEW m, NEW offers, NEW k, NEW s, NEW w, InStepNow(m, offers, k, s, w),
           kex.step = "burn", NEW x \in DOMAIN s.packets, NEW t, Taking(s, x, t),
           KexTakes(t, s.packets[x])
    PROVE  InStepOf(m, offers, kex', session', w, server)
<1>1. /\ Fits(m, offers, k, s, w, server) /\ DOMAIN s = SessionFields
      /\ DOMAIN t = SessionFields /\ Without(s.packets, x, t.packets)
      /\ \A f \in SessionFields \ {"packets"} : t[f] = s[f]
    BY TakenAlike
<1> DEFINE u == [t EXCEPT !.burn = FALSE]
<1>2. session' = u /\ kex' = KexStep("reply", 0) BY DEF KexTakes
<1>3. DOMAIN u = SessionFields /\ \A f \in SessionFields \ {"burn"} : u[f] = t[f] BY <1>1
<1> HIDE DEF u
<1>4. Alike(s, u, {"packets", "burn"}) BY <1>1, <1>3 DEF Alike, Relevant, SessionFields
<1>5. Without(s.packets, x, u.packets) BY <1>1, <1>3 DEF SessionFields
<1>6. kex'.step = "reply" /\ kex'.asked = FALSE BY <1>2 DEF KexStep
<1>7. k.step = "burn" BY DEF InStepNow
<1> QED BY <1>1, <1>2, <1>4, <1>5, <1>6, <1>7, BurnTakenFits

\* What is awaited is in the brigade.
LEMMA QueuedFits ==
    ASSUME NEW m, NEW offers, NEW s, NEW w, InStepNow(m, offers, kex, s, w), TakesFound(s)
    PROVE  Stays(m, offers, w)
<1>1. CASE kex.step = "none" BY <1>1, CallFoundFits DEF Stays
<1>2. CASE kex.step # "none"
    <2>1. PICK x \in DOMAIN s.packets :
            /\ Wanted(s.packets[x])
            /\ KexTakes([s EXCEPT !.packets = RemoveAt(s.packets, x)], s.packets[x])
        BY <1>2 DEF TakesFound, Takes, Exchanging
    <2>2. kex.step \in {"kexinit", "group", "burn", "reply", "newkeys"}
        BY <2>1 DEF KexTakes
    <2>3. CASE kex.step \in {"kexinit", "group", "reply"} BY <2>1, <2>3, KexTakesFits
    <2>4. CASE kex.step = "burn"
        <3>1. PICK t : Taking(s, x, t) /\ KexTakes(t, s.packets[x]) BY <2>1 DEF Taking
        <3> QED BY <2>4, <3>1, BurnStays DEF Stays
    <2>5. CASE kex.step = "newkeys"
        <3>1. s.packets[x].type = NEWKEYS
            BY <2>1, <2>5, ExchangeNeeds, ExchangeWants DEF Exchanging
        <3>2. ~Has(s.packets, NEWKEYS) BY NowHas DEF DueInv
        <3> QED BY <3>1, <3>2 DEF Has
    <2> QED BY <2>2, <2>3, <2>4, <2>5
<1> QED BY <1>1, <1>2

\* NEWKEYS comes to nobody who does not wait for it.
LEMMA HeadNotNewKeys ==
    ASSUME NEW m, NEW offers, NEW s, NEW w, InStepNow(m, offers, kex, s, w), w # <<>>,
           kex.step # "newkeys", kex.step \in Closing => kex.asked
    PROVE  w[1].type # NEWKEYS
<1> SUFFICES ASSUME w[1].type = NEWKEYS PROVE FALSE OBVIOUS
<1>1. 1 \in DOMAIN w
    <2>1. Placed(w) BY NowHas
    <2> QED BY <2>1, TailPlaces DEF Placed, Shorter
<1>2. PICK turns \in BOOLEAN : turns = TheirsTurns(kex.step, server.kex) BY DEF TheirsTurns
<1> DEFINE old == KeysAt(m, In, s.secrets)
           new == KeysAt(m, In, s.secrets + 1)
<1>3. Turning(w, old, new, turns) BY <1>2, NowHas
<1> HIDE DEF old, new
<1>4. turns BY <1>1, <1>3, TurningNow
<1>5. kex.step \in Closing /\ server.kex = "newkeys" BY <1>2, <1>4 DEF TheirsTurns
<1>6. kex.asked = TRUE
    <2>1. Sane(kex, s, w, server) BY NowHas
    <2> QED BY <1>5, <2>1 DEF Sane
<1>7. PICK b : b = s.burn OBVIOUS
<1>8. DueInv(s.packets, w, kex.step, TRUE, b, server.kex, m, server.guess)
    BY <1>6, <1>7, NowHas
<1>9. Placed(w) BY NowHas
<1> QED BY <1>1, <1>5, <1>8, <1>9, DueHead

\* KEXINIT comes to an exchange that waits for it, or that it begins.
LEMMA HeadKexinit ==
    ASSUME NEW m, NEW offers, NEW s, NEW w, InStepNow(m, offers, kex, s, w), w # <<>>,
           w[1].type = KEXINIT
    PROVE  kex.step \in {"kexinit", "none"}
<1>1. Placed(w) BY NowHas
<1>2. 1 \in DOMAIN w /\ \A j \in DOMAIN w : j >= 1
    BY <1>1, TailPlaces DEF Placed, Shorter
<1>3. GreetInv(s.packets, w, kex.step, server.kex, s.secrets, server) BY NowHas
<1>4. /\ kex.step = "kexinit" \/ kex.step \in Between
      /\ \A j \in DOMAIN w : w[j].type = NEWKEYS => j < 1
    BY <1>2, <1>3 DEF GreetInv
<1>5. ASSUME kex.step = "newkeys" PROVE FALSE
    <2>1. Has(w, NEWKEYS) BY <1>5, NowHas DEF Turning, TheirsTurns
    <2>2. PICK j \in DOMAIN w : w[j].type = NEWKEYS BY <2>1 DEF Has
    <2>3. j < 1 /\ j >= 1 /\ j \in Nat BY <1>1, <1>2, <1>4, <2>2 DEF Placed
    <2> QED BY <2>3
<1> QED BY <1>4, <1>5 DEF Between

\* What was read: s is the session with the packet in its brigade, w2 what is left.
Reading(s, w2) ==
    /\ wire # <<>> /\ Shorter(wire, w2)
    /\ DOMAIN s = SessionFields /\ Longer(session.packets, wire[1], s.packets)
    /\ \A f \in SessionFields \ {"packets", "socket_state"} : s[f] = session[f]

\* Any packet but NEWKEYS may be read, the exchange staying at its step.
LEMMA ReadNow ==
    ASSUME NEW m, NEW offers, InStepNow(m, offers, kex, session, wire),
           NEW s, NEW w2, Reading(s, w2), kex.step # "burn", wire[1].type # NEWKEYS,
           wire[1].type = KEXINIT => kex.step = "kexinit",
           NEW k2, DOMAIN k2 = {"step", "asked", "h"}, k2.step = kex.step, k2.h = kex.h,
           k2.asked \in BOOLEAN, k2.asked => kex.asked,
           kex.step = "reply" /\ k2.asked => wire[1].type # ReplyType(m)
    PROVE  InStepNow(m, offers, k2, s, w2)
<1>0. /\ wire # <<>> /\ Shorter(wire, w2)
      /\ DOMAIN s = SessionFields /\ Longer(session.packets, wire[1], s.packets)
      /\ \A f \in SessionFields \ {"packets", "socket_state"} : s[f] = session[f]
    BY DEF Reading
<1>1. Fits(m, offers, kex, session, wire, server) /\ DOMAIN session = SessionFields
      /\ Sane(kex, session, wire, server)
    BY NowHas
<1>2. Alike(session, s, {"packets"}) BY <1>0, <1>1 DEF Alike, Relevant, SessionFields
<1>3. InStepOf(m, offers, k2, s, w2, server) BY <1>0, <1>1, <1>2, ReadFits
<1>4. IsSeq(s.packets) /\ IsSeq(w2) BY <1>0 DEF Longer, Shorter, Placed
<1>5. /\ s.secrets = session.secrets /\ s.out = session.out /\ s.newkeys = session.newkeys
      /\ s.session_id = session.session_id /\ s.exchanging = session.exchanging
      /\ s.method = session.method /\ s.prefs = session.prefs /\ s.link = session.link
    BY <1>0 DEF SessionFields
<1>6. Sane(k2, s, w2, server) BY <1>0, <1>1, <1>4, <1>5 DEF Sane
<1>7. Keepable(s) BY <1>0, <1>4, <1>5 DEF InStepNow, Keepable
<1>8. Known(m, s, server) BY <1>5 DEF InStepNow, Known, Offers, Offer
<1> QED BY <1>3, <1>5, <1>6, <1>7, <1>8 DEF InStepNow, Fits

-----------------------------------------------------------------------------
(* Reading what is awaited *)

\* The only NEWKEYS is the one that was read: without it the brigade is as it was.
LEMMA OnlyNewKeys ==
    ASSUME NEW q, ~Has(q, NEWKEYS), NEW p, NEW r, Longer(q, p, r),
           NEW x \in DOMAIN r, r[x].type = NEWKEYS, NEW t, Without(r, x, t)
    PROVE  t = q
<1>1. x \in 1..Len(r) /\ Len(r) = Len(q) + 1 /\ Len(q) \in Nat /\ DOMAIN q = 1..Len(q)
    BY DEF Longer, Placed
<1>2. x \notin 1..Len(q) BY <1>1 DEF Longer, Has
<1>3. x = Len(q) + 1 BY <1>1, <1>2
<1> QED BY <1>3, TakenBack

\* A session and the same session with new keys.
OfKeys == {"newkeys", "secrets", "exchanging", "session_id"}
Turned(t, h, u) ==
    /\ DOMAIN u = SessionFields /\ u.newkeys = TRUE /\ u.secrets = h
    /\ u.session_id = IF t.session_id = 0 THEN h ELSE t.session_id
    /\ \A f \in SessionFields \ OfKeys : u[f] = t[f]

\* That is what NewKeys makes of a session.
LEMMA NewKeysTurned ==
    ASSUME NEW t, DOMAIN t = SessionFields, NEW h
    PROVE  Turned(t, h, NewKeys(t, h))
<1> DEFINE id == IF t.session_id = 0 THEN h ELSE t.session_id
           u == [t EXCEPT !.newkeys = TRUE, !.secrets = h, !.exchanging = FALSE,
                          !.session_id = id]
<1>1. NewKeys(t, h) = u BY DEF NewKeys
<1> HIDE DEF id
<1>2. DOMAIN u = SessionFields /\ u.newkeys = TRUE /\ u.secrets = h /\ u.session_id = id
    BY DEF SessionFields
<1>3. \A f \in SessionFields \ OfKeys : u[f] = t[f] BY DEF OfKeys
<1> HIDE DEF u
<1> QED BY <1>1, <1>2, <1>3 DEF id, Turned

\* After the exchange the service is asked for, or nothing is written.
LEMMA AfterKexFits ==
    ASSUME NEW m, NEW offers, NEW u, NEW w, Fits(m, offers, NoKex, u, w, server),
           u.link = "up", AfterKex(u)
    PROVE  InStepOf(m, offers, kex', session', w, server)
<1>1. DOMAIN u = SessionFields /\ IsSeq(u.out) BY DEF Fits, Sane
<1>2. kex' = NoKex /\ NoKex.step = "none" BY DEF AfterKex, NoKex, KexStep
<1>3. CASE session' = u BY <1>2, <1>3 DEF Fits
<1> DEFINE p == Msg(SERVICE_REQUEST, "", 0)
           v == PacketWrite(u, p)
           q == Under(p, OutKeys(u))
<1>4. CASE session' = v
    <2>1. IsPacket(p) /\ p.type = SERVICE_REQUEST BY DEF Msg, IsPacket
    <2> HIDE DEF p
    <2>2. /\ DOMAIN v = SessionFields /\ \A f \in SessionFields \ {"out"} : v[f] = u[f]
          /\ Longer(u.out, q, v.out) /\ q.type = p.type /\ q.keys = OutKeys(u)
        BY <1>1, <2>1, WriteAlike
    <2> HIDE DEF q, v
    <2>3. Alike(u, v, {"out"}) BY <1>1, <2>2 DEF Alike, Relevant, SessionFields
    <2>4. q.type \notin {KEXINIT, NEWKEYS} \cup Values BY <2>1, <2>2, RequestsOrdinary
    <2>5. InStepOf(m, offers, NoKex, v, w, server)
        BY <1>2, <2>2, <2>3, <2>4, WriteFits
    <2> QED BY <1>2, <1>4, <2>5
<1>5. session' = u \/ session' = v BY DEF AfterKex
<1> QED BY <1>3, <1>4, <1>5

\* NEWKEYS is read, and the exchange is over.
LEMMA TurnedStays ==
    ASSUME SessionInv, NEW m, NEW offers, InStepNow(m, offers, kex, session, wire),
           kex.step = "newkeys", NEW s, NEW w2, Reading(s, w2), wire[1].type = NEWKEYS,
           NEW x \in DOMAIN s.packets, s.packets[x].type = NEWKEYS,
           NEW t, Taking(s, x, t), KexTakes(t, s.packets[x])
    PROVE  InStepOf(m, offers, kex', session', w2, server)
<1>0. /\ wire # <<>> /\ Shorter(wire, w2)
      /\ DOMAIN s = SessionFields /\ Longer(session.packets, wire[1], s.packets)
      /\ \A f \in SessionFields \ {"packets", "socket_state"} : s[f] = session[f]
    BY DEF Reading
<1>1. /\ Fits(m, offers, kex, session, wire, server) /\ DOMAIN session = SessionFields
      /\ Sane(kex, session, wire, server) /\ session.link = "up"
      /\ ~Has(session.packets, NEWKEYS)
    BY NowHas DEF DueInv
<1>2. /\ Without(s.packets, x, RemoveAt(s.packets, x))
      /\ t = [s EXCEPT !.packets = RemoveAt(s.packets, x)]
    <2>1. IsSeq(s.packets) BY <1>0 DEF Longer, Placed
    <2> QED BY <2>1, RemovePlaces DEF Taking
<1>3. RemoveAt(s.packets, x) = session.packets BY <1>0, <1>1, <1>2, OnlyNewKeys
<1>4. /\ DOMAIN t = SessionFields /\ t.packets = session.packets
      /\ \A f \in SessionFields \ {"packets", "socket_state"} : t[f] = session[f]
    BY <1>0, <1>2, <1>3 DEF SessionFields
<1>14. PICK h : h = kex.h OBVIOUS
<1>15. Turned(t, h, NewKeys(t, h)) BY <1>4, NewKeysTurned
<1>16. PICK u : u = NewKeys(t, h) OBVIOUS
<1>6. /\ DOMAIN u = SessionFields /\ u.newkeys = TRUE /\ u.secrets = h
      /\ u.session_id = IF t.session_id = 0 THEN h ELSE t.session_id
      /\ \A f \in SessionFields \ OfKeys : u[f] = t[f]
    BY <1>15, <1>16 DEF Turned
<1>5. AfterKex(u) BY <1>14, <1>16 DEF KexTakes
<1>7. Alike(session, u, {"newkeys", "secrets"})
    BY <1>1, <1>4, <1>6 DEF Alike, Relevant, SessionFields, OfKeys
<1>8. NoKex.step = "none" /\ DOMAIN NoKex = {"step", "asked", "h"} /\ NoKex.asked = FALSE
    BY DEF NoKex, KexStep
<1>9. InStepOf(m, offers, NoKex, u, w2, server) /\ u.secrets \in Nat
    <2>1. PICK k2 : k2 = NoKex OBVIOUS
    <2>2. InStepOf(m, offers, k2, u, w2, server) /\ u.secrets \in Nat
        <3>1. /\ kex.step = "newkeys" /\ wire[1].type = NEWKEYS
              /\ u.newkeys = TRUE /\ u.secrets = kex.h /\ k2.step = "none"
            BY <1>6, <1>8, <1>14, <2>1
        <3> QED BY ONLY <1>0, <1>1, <1>7, <3>1, TurnedFits
    <2> QED BY <2>1, <2>2
<1>10. u.session_id = 1
    <2>1. t.session_id = session.session_id BY <1>4 DEF SessionFields
    <2>2. session.session_id \in {0, 1} /\ (kex.h = 1 \/ session.session_id = 1)
        BY DEF SessionInv, SessionOk, KexOk
    <2> QED BY <1>6, <1>14, <2>1, <2>2
<1>11. /\ u.out = session.out /\ u.packets = session.packets /\ u.link = session.link
    BY <1>4, <1>6 DEF SessionFields, OfKeys
<1>12. IsSeq(w2) BY <1>0 DEF Shorter, Placed
<1>13. Sane(NoKex, u, w2, server)
    BY <1>1, <1>6, <1>8, <1>9, <1>10, <1>11, <1>12 DEF Sane
<1> QED BY <1>1, <1>5, <1>9, <1>11, <1>13, AfterKexFits DEF Fits

\* The packet that was read is burnt, or what it was burnt in place of.
LEMMA BurnReadStays ==
    ASSUME NEW m, NEW offers, InStepNow(m, offers, kex, session, wire),
           kex.step = "burn", kex.asked, NEW s, NEW w2, Reading(s, w2),
           NEW x \in DOMAIN s.packets, x = Found(s.packets),
           NEW t, Taking(s, x, t), KexTakes(t, s.packets[x])
    PROVE  InStepOf(m, offers, kex', session', w2, server)
<1>0. /\ wire # <<>> /\ Shorter(wire, w2)
      /\ DOMAIN s = SessionFields /\ Longer(session.packets, wire[1], s.packets)
      /\ \A f \in SessionFields \ {"packets", "socket_state"} : s[f] = session[f]
    BY DEF Reading
<1>1. /\ Fits(m, offers, kex, session, wire, server) /\ DOMAIN session = SessionFields
    BY NowHas
<1>2. Placed(s.packets) /\ IsSeq(s.packets) BY <1>0 DEF Longer, Placed
<1>3. /\ DOMAIN t = SessionFields /\ Without(s.packets, x, t.packets)
      /\ \A f \in SessionFields \ {"packets"} : t[f] = s[f]
    BY <1>0, <1>2, TakenPlaces DEF Taking
<1> DEFINE u == [t EXCEPT !.burn = FALSE]
<1>4. session' = u /\ kex' = KexStep("reply", 0) BY DEF KexTakes
<1>5. DOMAIN u = SessionFields /\ \A f \in SessionFields \ {"burn"} : u[f] = t[f] BY <1>3
<1> HIDE DEF u
<1>6. Alike(session, u, {"packets", "burn"})
    BY <1>0, <1>1, <1>3, <1>5 DEF Alike, Relevant, SessionFields
<1>7. Without(s.packets, x, u.packets) BY <1>3, <1>5 DEF SessionFields
<1>8. kex'.step = "reply" /\ kex'.asked = FALSE BY <1>4 DEF KexStep
<1>9. wire[1].type # NEWKEYS BY <1>0, HeadNotNewKeys
<1>10. \A i \in DOMAIN s.packets : i < x => s.packets[i].type # s.packets[x].type
    BY <1>2, FoundIsFirst
<1>11. PICK q1 : q1 = s.packets OBVIOUS
<1>12. /\ Longer(session.packets, wire[1], q1) /\ Without(q1, x, u.packets)
       /\ \A i \in DOMAIN q1 : i < x => q1[i].type # q1[x].type
    BY <1>0, <1>7, <1>10, <1>11
<1>13. PICK k2 : k2 = kex' OBVIOUS
<1>14. InStepOf(m, offers, k2, u, w2, server)
    <2>1. kex.step = "burn" /\ k2.step = "reply" /\ k2.asked = FALSE BY <1>8, <1>13
    <2>2. FirstAt(q1, x) BY <1>12 DEF FirstAt
    <2>3. Without(q1, x, u.packets) BY <1>12
    <2>4. Longer(session.packets, wire[1], q1) BY <1>12
    <2> QED BY ONLY <1>0, <1>1, <1>6, <1>9, <2>1, <2>2, <2>3, <2>4, BurnReadFits
<1> QED BY <1>4, <1>13, <1>14

\* The packet that was awaited is read, and taken.
LEMMA ReadTakesFits ==
    ASSUME SessionInv, NEW m, NEW offers, InStepNow(m, offers, kex, session, wire),
           NEW s, NEW w2, Reading(s, w2), TakesFound(s), Wanted(wire[1]),
           Exchanging => kex.asked, wire[1].type = KEXINIT => kex.step # "none"
    PROVE  Stays(m, offers, w2)
<1>0. wire # <<>> BY DEF Reading
<1>1. PICK x \in DOMAIN s.packets :
        /\ x = Found(s.packets) /\ Wanted(s.packets[x])
        /\ Takes([s EXCEPT !.packets = RemoveAt(s.packets, x)], s.packets[x])
    BY DEF TakesFound
<1>2. PICK t : Taking(s, x, t) /\ Takes(t, s.packets[x]) BY <1>1 DEF Taking
<1>3. Exchanging => KexTakes(t, s.packets[x]) BY <1>2 DEF Takes
<1>4. CASE kex.step \notin {"burn", "newkeys"}
    <2>1. wire[1].type # NEWKEYS BY <1>0, <1>4, HeadNotNewKeys DEF Exchanging, Closing
    <2>2. wire[1].type = KEXINIT => kex.step = "kexinit" BY <1>0, HeadKexinit
    <2>3. kex.asked \in BOOLEAN /\ DOMAIN kex = {"step", "asked", "h"}
        BY DEF InStepNow, Keepable
    <2>4. CASE kex.step = "none"
        <3>1. InStepNow(m, offers, kex, s, w2) BY <1>4, <2>1, <2>2, <2>3, <2>4, ReadNow
        <3> QED BY <2>4, <3>1, CallFoundFits DEF Stays
    <2>5. CASE kex.step # "none"
        <3> DEFINE k2 == [kex EXCEPT !.asked = FALSE]
        <3>1. /\ DOMAIN k2 = {"step", "asked", "h"} /\ k2.asked = FALSE
              /\ k2.step = kex.step /\ k2.h = kex.h
            BY <2>3
        <3> HIDE DEF k2
        <3>2. InStepNow(m, offers, k2, s, w2) BY <1>4, <2>1, <2>2, <3>1, ReadNow
        <3>3. KexTakes(t, s.packets[x]) BY <1>3, <2>5 DEF Exchanging
        <3>4. KexTakes([s EXCEPT !.packets = RemoveAt(s.packets, x)], s.packets[x])
            BY <1>2, <3>3 DEF Taking
        <3>5. kex.step \in {"kexinit", "group", "reply"} BY <1>4, <3>3 DEF KexTakes
        <3> QED BY <1>1, <3>2, <3>4, <3>5, KexTakesFits
    <2> QED BY <2>4, <2>5
<1>5. CASE kex.step = "burn"
    <2>1. kex.asked /\ KexTakes(t, s.packets[x]) BY <1>3, <1>5 DEF Exchanging
    <2> QED BY <1>1, <1>2, <1>5, <2>1, BurnReadStays DEF Stays
<1>6. CASE kex.step = "newkeys"
    <2>1. Exchanging /\ KexTakes(t, s.packets[x]) BY <1>3, <1>6 DEF Exchanging
    <2>2. s.packets[x].type = NEWKEYS /\ wire[1].type = NEWKEYS
        BY <1>1, <1>6, <2>1, ExchangeNeeds, ExchangeWants
    <2> QED BY <1>1, <1>2, <1>6, <2>1, <2>2, TurnedStays DEF Stays
<1> QED BY <1>4, <1>5, <1>6

-----------------------------------------------------------------------------
(* An exchange begins *)

\* The exchange begins with our KEXINIT, under the keys of the last exchange.
Begun(s, t, q) ==
    /\ DOMAIN t = SessionFields
    /\ \A f \in SessionFields \ {"out", "method", "exchanging"} : t[f] = s[f]
    /\ \A x \in Kinds \ {"KEX", "HOSTKEY"} : t.method[x] = s.method[x]
    /\ Longer(s.out, q, t.out)
    /\ q.type = KEXINIT /\ q.what = Offers(s) /\ q.keys = OutKeys(s)

\* That is what KexBegins does to a session which is connected.
LEMMA KexBeginsWith ==
    ASSUME NEW s, DOMAIN s = SessionFields, IsSeq(s.out), s.link = "up",
           DOMAIN s.method = Kinds, s.newkeys => s.session_id = 1,
           NEW re \in BOOLEAN, KexBegins(s, re)
    PROVE  kex' = KexStep("kexinit", 0) /\ \E q : Begun(s, session', q)
<1> DEFINE t == [s EXCEPT !.exchanging = TRUE,
                          !.method["KEX"] = IF re THEN "" ELSE @,
                          !.method["HOSTKEY"] = IF re THEN "" ELSE @]
           p == Msg(KEXINIT, [k \in Kinds |-> Offer(t, k)], 0)
<1>1. /\ DOMAIN t = SessionFields
      /\ \A f \in SessionFields \ {"exchanging", "method"} : t[f] = s[f]
    BY DEF SessionFields
<1>2. \A x \in Kinds \ {"KEX", "HOSTKEY"} : t.method[x] = s.method[x]
    BY KindsKnown DEF SessionFields
<1>3. IF CanWrite(t)
      THEN session' = PacketWrite(t, p) /\ kex' = KexStep("kexinit", 0) /\ call' = call
      ELSE KexFails(t)
    BY DEF KexBegins
<1>4. p.what = Offers(s)
    <2>1. t.prefs = s.prefs BY <1>1 DEF SessionFields
    <2>2. p.what = [k \in Kinds |-> Offer(t, k)] BY DEF Msg
    <2> HIDE DEF t
    <2> QED BY <2>1, <2>2 DEF Offers, Offer
<1>5. IsPacket(p) /\ p.type = KEXINIT BY DEF Msg, IsPacket
<1> HIDE DEF t, p
<1>6. t.out = s.out /\ t.link = "up" BY <1>1 DEF SessionFields
<1>7. session' = PacketWrite(t, p) /\ kex' = KexStep("kexinit", 0)
    BY <1>3, <1>6 DEF CanWrite
<1> DEFINE u == PacketWrite(t, p)
           q == Under(p, OutKeys(t))
<1>8. /\ DOMAIN u = SessionFields /\ \A f \in SessionFields \ {"out"} : u[f] = t[f]
      /\ Longer(t.out, q, u.out)
      /\ q.type = p.type /\ q.what = p.what /\ q.keys = OutKeys(t)
    BY <1>1, <1>5, <1>6, WriteAlike
<1> HIDE DEF u, q
<1>9. OutKeys(t) = OutKeys(s)
    <2>1. /\ t.newkeys = s.newkeys /\ t.secrets = s.secrets /\ t.stream = s.stream
          /\ t.session_id = s.session_id
        BY <1>1 DEF SessionFields
    <2>2. ASSUME s.newkeys PROVE Keys(t.method, Out, s.secrets, 1, s.stream)
                                 = Keys(s.method, Out, s.secrets, 1, s.stream)
        <3>1. PICK m1, m2, h, b :
                m1 = t.method /\ m2 = s.method /\ h = s.secrets /\ b = s.stream
            OBVIOUS
        <3>2. \A k \in Kinds \ {"KEX", "HOSTKEY"} : m1[k] = m2[k] BY <1>2, <3>1
        <3>3. Keys(m1, Out, h, 1, b) = Keys(m2, Out, h, 1, b) BY ONLY <3>2, KeysAlike
        <3> QED BY <3>1, <3>3
    <2> QED BY <2>1, <2>2 DEF OutKeys
<1>10. u.method = t.method BY <1>8 DEF SessionFields
<1>11. Begun(s, u, q) BY <1>1, <1>2, <1>4, <1>5, <1>6, <1>8, <1>9, <1>10 DEF Begun
<1> QED BY <1>7, <1>11 DEF u

\* Before the first exchange: the banner line of the server was read.
LEMMA BannerStays ==
    ASSUME SessionInv, NEW m, NEW offers, offers = Offers(session),
           InStepNow(m, offers, kex, session, wire), kex.step = "none",
           session.secrets = 0, wire # <<>>, wire[1].type = BANNER_LINE,
           NEW w2, Shorter(wire, w2), KexBegins(session, FALSE)
    PROVE  InStepOf(m, offers, kex', session', w2, server)
<1>1. /\ Fits(m, offers, kex, session, wire, server) /\ DOMAIN session = SessionFields
      /\ session.link = "up" /\ Sane(kex, session, wire, server) /\ IsSeq(session.out)
    BY NowHas
<1>2. DOMAIN session.method = Kinds /\ (session.newkeys => session.session_id = 1)
    BY DEF SessionInv, SessionOk
<1>3. kex' = KexStep("kexinit", 0) /\ \E q : Begun(session, session', q)
    BY <1>1, <1>2, KexBeginsWith
<1>4. PICK q : Begun(session, session', q) BY <1>3
<1>5. Alike(session, session, {}) BY <1>1 DEF Alike
<1>6. InStepOf(m, offers, kex, session, w2, server) BY <1>1, <1>5, DropFits
<1>7. Fits(m, offers, kex, session, w2, server)
    BY <1>1, <1>6 DEF Fits, Sane, Shorter, Placed
<1>8. PICK t : t = session' OBVIOUS
<1>9. /\ Alike(session, t, {"out", "method"}) /\ Longer(session.out, q, t.out)
      /\ \A x \in Kinds \ {"KEX", "HOSTKEY"} : t.method[x] = session.method[x]
      /\ q.type = KEXINIT /\ q.what = offers /\ q.keys = OutKeys(session)
    BY <1>1, <1>4, <1>8 DEF Begun, Alike, Relevant, SessionFields
<1>10. PICK k2 : k2 = kex' OBVIOUS
<1>11. k2.step = "kexinit" BY <1>3, <1>10 DEF KexStep
<1>12. InStepOf(m, offers, k2, t, w2, server) BY <1>7, <1>9, <1>11, BannerFits
<1> QED BY <1>8, <1>10, <1>12

\* The server's KEXINIT was read, and begins an exchange.
LEMMA RekeyStays ==
    ASSUME SessionInv, NEW m, NEW offers, offers = Offers(session),
           InStepNow(m, offers, kex, session, wire), kex.step = "none",
           NEW s, NEW w2, Reading(s, w2), wire[1].type = KEXINIT, KexBegins(s, TRUE)
    PROVE  InStepOf(m, offers, kex', session', w2, server)
<1>0. /\ wire # <<>> /\ Shorter(wire, w2)
      /\ DOMAIN s = SessionFields /\ Longer(session.packets, wire[1], s.packets)
      /\ \A f \in SessionFields \ {"packets", "socket_state"} : s[f] = session[f]
    BY DEF Reading
<1>1. /\ Fits(m, offers, kex, session, wire, server) /\ DOMAIN session = SessionFields
      /\ session.link = "up" /\ IsSeq(session.out)
    BY NowHas
<1>2. DOMAIN session.method = Kinds /\ (session.newkeys => session.session_id = 1)
    BY DEF SessionInv, SessionOk
<1>3. /\ s.out = session.out /\ s.link = session.link /\ s.method = session.method
      /\ s.newkeys = session.newkeys /\ s.session_id = session.session_id
      /\ s.prefs = session.prefs /\ s.secrets = session.secrets /\ s.stream = session.stream
    BY <1>0 DEF SessionFields
<1>4. kex' = KexStep("kexinit", 0) /\ \E q : Begun(s, session', q)
    <2>1. /\ DOMAIN s = SessionFields /\ IsSeq(s.out) /\ s.link = "up"
          /\ DOMAIN s.method = Kinds /\ (s.newkeys => s.session_id = 1)
        BY <1>0, <1>1, <1>2, <1>3
    <2> QED BY <2>1, KexBeginsWith
<1>5. PICK q : Begun(s, session', q) BY <1>4
<1>6. PICK t : t = session' OBVIOUS
<1>7. OutKeys(s) = OutKeys(session) /\ Offers(s) = Offers(session)
    BY <1>3 DEF OutKeys, Offers, Offer
<1>8. /\ Alike(session, t, {"out", "packets", "method"})
      /\ Longer(session.out, q, t.out) /\ t.packets = s.packets
      /\ q.type = KEXINIT /\ q.what = offers /\ q.keys = OutKeys(session)
    BY <1>0, <1>1, <1>3, <1>5, <1>6, <1>7 DEF Begun, Alike, Relevant, SessionFields
<1>9. \A x \in Kinds \ {"KEX", "HOSTKEY"} : t.method[x] = session.method[x]
    BY <1>3, <1>5, <1>6 DEF Begun
<1>10. PICK k2 : k2 = kex' OBVIOUS
<1>11. k2.step = "kexinit" BY <1>4, <1>10 DEF KexStep
<1>12. Longer(session.packets, wire[1], t.packets) BY <1>0, <1>8
<1>13. InStepOf(m, offers, k2, t, w2, server)
    BY <1>0, <1>1, <1>8, <1>9, <1>11, <1>12, RekeyFits
<1> QED BY <1>6, <1>10, <1>13

-----------------------------------------------------------------------------
(* Reading *)

\* What arrives is under the keys that the client has.
LEMMA MacNow ==
    ASSUME NEW m, NEW offers, InStepNow(m, offers, kex, session, wire), wire # <<>>
    PROVE  MacAgrees(session, Head(wire)) /\ Head(wire) = wire[1] /\ Shorter(wire, Tail(wire))
<1>1. Fits(m, offers, kex, session, wire, server) /\ Placed(wire) BY NowHas
<1>2. InKeys(session) = KeysAt(m, In, session.secrets) BY <1>1, ClientsKeys
<1> DEFINE old == KeysAt(m, In, session.secrets)
           new == KeysAt(m, In, session.secrets + 1)
<1>3. PICK turns : turns = TheirsTurns(kex.step, server.kex) OBVIOUS
<1>4. Turning(wire, old, new, turns) BY <1>3, NowHas
<1> HIDE DEF old, new
<1>5. wire[1].keys = old BY <1>1, <1>4, TurningHead
<1>6. Head(wire) = wire[1] /\ Shorter(wire, Tail(wire)) BY <1>1, TailPlaces DEF Placed
<1> QED BY <1>2, <1>5, <1>6 DEF MacAgrees, old

\* What is dropped leaves the session in step.
LEMMA DropNow ==
    ASSUME NEW m, NEW offers, InStepNow(m, offers, kex, session, wire), wire # <<>>,
           wire[1].type \in {DISCONNECT, BANNER_LINE}, NEW w2, Shorter(wire, w2),
           NEW s, Keepable(s),
           \A f \in SessionFields \ {"packets", "socket_state"} : s[f] = session[f],
           s.packets = session.packets
    PROVE  InStepNow(m, offers, kex, s, w2)
<1>1. Fits(m, offers, kex, session, wire, server) /\ DOMAIN session = SessionFields
      /\ Sane(kex, session, wire, server)
    BY NowHas
<1>2. DOMAIN s = SessionFields BY DEF Keepable
<1>3. Alike(session, s, {}) BY <1>1, <1>2 DEF Alike, Relevant, SessionFields
<1>4. InStepOf(m, offers, kex, s, w2, server) BY <1>1, <1>3, DropFits
<1>5. /\ s.secrets = session.secrets /\ s.out = session.out /\ s.newkeys = session.newkeys
      /\ s.session_id = session.session_id /\ s.exchanging = session.exchanging
      /\ s.method = session.method /\ s.prefs = session.prefs /\ s.link = session.link
    BY DEF SessionFields
<1>6. IsSeq(w2) BY DEF Shorter, Placed
<1>7. Sane(kex, s, w2, server) BY <1>1, <1>2, <1>5, <1>6 DEF Sane
<1>8. Known(m, s, server) BY <1>5 DEF InStepNow, Known, Offers, Offer
<1> QED BY <1>4, <1>5, <1>7, <1>8 DEF InStepNow, Fits

\* What is read that nobody waits for stays in the brigade.
LEMMA KeepNow ==
    ASSUME NEW m, NEW offers, InStepNow(m, offers, kex, session, wire),
           NEW s, NEW w2, Reading(s, w2), wire[1].type = KEXINIT => kex.step # "none",
           Exchanging => ~Wanted(wire[1]), kex.step \in Closing => kex.asked
    PROVE  InStepNow(m, offers, kex, s, w2)
<1>0. wire # <<>> BY DEF Reading
<1>1. kex.step # "burn" BY ExchangeNeeds DEF Exchanging, Wanted
<1>2. wire[1].type # NEWKEYS
    <2>1. CASE kex.step = "newkeys"
        BY <2>1, ExchangeNeeds, ExchangeWants DEF Exchanging
    <2>2. CASE kex.step # "newkeys" BY <1>0, <2>2, HeadNotNewKeys
    <2> QED BY <2>1, <2>2
<1>3. wire[1].type = KEXINIT => kex.step = "kexinit" BY <1>0, HeadKexinit
<1>4. kex.step = "reply" => wire[1].type # ReplyType(m)
    <2> SUFFICES ASSUME kex.step = "reply" PROVE wire[1].type # ReplyType(m) OBVIOUS
    <2>1. wire[1].type # ReplyType(session.method)
        BY ExchangeNeeds, ExchangeWants DEF Exchanging
    <2>2. MethodInv(session, kex.step, m, server)
        <3>1. Fits(m, offers, kex, session, wire, server) BY NowHas
        <3> QED BY <3>1, FitsHas
    <2>3. session.method["KEX"] = m["KEX"] BY <2>2, KindsAre DEF MethodInv, Agreeing
    <2> QED BY <2>1, <2>3 DEF ReplyType
<1>5. kex.asked \in BOOLEAN /\ DOMAIN kex = {"step", "asked", "h"}
    BY DEF InStepNow, Keepable
<1> QED BY <1>1, <1>2, <1>3, <1>4, <1>5, ReadNow

\* A packet that is to be kept is read.
LEMMA AddReads ==
    ASSUME Keepable(session), wire # <<>>, Head(wire) = wire[1],
           Shorter(wire, Tail(wire)), wire[1].type \notin {DISCONNECT, BANNER_LINE}
    PROVE  Reading(PacketAdd(session, Head(wire)), Tail(wire))
<1>1. PICK p, s, w2 : p = Head(wire) /\ s = PacketAdd(session, p) /\ w2 = Tail(wire) OBVIOUS
<1>2. /\ Keepable(s) /\ Longer(session.packets, p, s.packets)
      /\ \A f \in SessionFields \ {"packets", "socket_state"} : s[f] = session[f]
    BY <1>1, KeepableAdded, ZenonT(40)
<1> QED BY <1>1, <1>2 DEF Reading, Keepable

\* What a call or an exchange does with what it reads.
LEMMA RequireReadFits ==
    ASSUME SessionInv, BaseInv, NEW m, NEW offers, offers = Offers(session),
           InStepNow(m, offers, kex, session, wire), RequireRead
    PROVE  Stays(m, offers, wire')
<1>1. PICK p, s, w2 : p = Head(wire) /\ s = PacketAdd(session, p) /\ w2 = Tail(wire) OBVIOUS
<1>2. wire # <<>> /\ wire' = w2 /\ Asked BY <1>1 DEF RequireRead, CanRead
<1>3. p = wire[1] /\ Shorter(wire, w2) /\ MacAgrees(session, p) BY <1>1, <1>2, MacNow
<1>4. IF StartsReexchange(p) THEN KexBegins(s, TRUE)
      ELSE IF p.type = BANNER_LINE THEN KexBegins(s, FALSE)
      ELSE IF p.type # DISCONNECT /\ Wanted(p) THEN TakesFound(s)
      ELSE session' = s /\ UNCHANGED <<call, kex>>
    BY <1>1, <1>3 DEF RequireRead
<1>5. Keepable(session) BY KeepableNow
<1>6. /\ Keepable(s)
      /\ \A f \in SessionFields \ {"packets", "socket_state"} : s[f] = session[f]
      /\ p.type \in {DISCONNECT, BANNER_LINE} => s.packets = session.packets
    BY <1>1, <1>5, KeepableAdded
<1>7. p.type \notin {DISCONNECT, BANNER_LINE} => Reading(s, w2)
    BY <1>1, <1>2, <1>3, <1>5, AddReads
<1>8. Exchanging => kex.asked BY <1>2 DEF Asked
<1>9. session.exchanging <=> kex.step # "none" BY DEF InStepNow
<1>10. CASE StartsReexchange(p)
    <2>1. p.type = KEXINIT /\ kex.step = "none" BY <1>9, <1>10 DEF StartsReexchange
    <2>2. Reading(s, w2) BY <1>7, <2>1, Types DEF PacketTypes
    <2>3. KexBegins(s, TRUE) BY <1>4, <1>10
    <2> QED BY <1>2, <1>3, <2>1, <2>2, <2>3, RekeyStays DEF Stays
<1>11. CASE ~StartsReexchange(p) /\ p.type = BANNER_LINE
    <2>1. session.secrets = 0 /\ kex.step = "none"
        <3>1. 1 \in DOMAIN wire
            <4>1. Placed(wire) BY NowHas
            <4> QED BY <1>3, <4>1 DEF Placed, Shorter
        <3> QED BY <1>3, <1>9, <1>11, <3>1 DEF BaseInv, BannerInv
    <2>2. s = session BY <1>1, <1>11, Types DEF PacketAdd, PacketTypes
    <2>3. KexBegins(session, FALSE) BY <1>4, <1>11, <2>2
    <2> QED BY <1>2, <1>3, <1>11, <2>1, <2>3, BannerStays DEF Stays
<1>12. CASE ~StartsReexchange(p) /\ p.type \notin {BANNER_LINE, DISCONNECT} /\ Wanted(p)
    <2>1. TakesFound(s) /\ Reading(s, w2) BY <1>4, <1>7, <1>12
    <2>2. p.type = KEXINIT => kex.step # "none" BY <1>9, <1>12 DEF StartsReexchange
    <2> QED BY <1>2, <1>3, <1>8, <1>12, <2>1, <2>2, ReadTakesFits
<1>13. CASE ~StartsReexchange(p) /\ p.type \notin {BANNER_LINE, DISCONNECT} /\ ~Wanted(p)
    <2>1. session' = s /\ kex' = kex /\ Reading(s, w2) BY <1>4, <1>7, <1>13
    <2>2. p.type = KEXINIT => kex.step # "none" BY <1>9, <1>13 DEF StartsReexchange
    <2>3. kex.step \in Closing => kex.asked BY <1>8 DEF Exchanging, Closing
    <2>4. InStepNow(m, offers, kex, s, w2) BY <1>3, <1>13, <2>1, <2>2, <2>3, KeepNow
    <2> QED BY <1>2, <2>1, <2>4 DEF InStepNow, Fits, Stays
<1>14. CASE ~StartsReexchange(p) /\ p.type = DISCONNECT
    <2>1. session' = s /\ kex' = kex
        BY <1>4, <1>14, Types DEF PacketTypes
    <2>2. InStepNow(m, offers, kex, s, w2) BY <1>2, <1>3, <1>6, <1>14, DropNow
    <2> QED BY <1>2, <2>1, <2>2 DEF InStepNow, Fits, Stays
<1> QED BY <1>10, <1>11, <1>12, <1>13, <1>14

\* What other calls read.
LEMMA ReadArrivedFits ==
    ASSUME SessionInv, BaseInv, NEW m, NEW offers, offers = Offers(session),
           InStepNow(m, offers, kex, session, wire), ReadArrived
    PROVE  Stays(m, offers, wire')
<1>0. ~Exchanging /\ kex.step = "none" BY DEF ReadArrived, Exchanging
<1>1. CASE ~CanRead
    <2>1. Returns(session) /\ wire' = wire BY <1>1 DEF ReadArrived
    <2>2. DOMAIN session = SessionFields BY NowHas
    <2>3. InStepOf(m, offers, kex', session', wire, server) BY <2>1, <2>2, ReturnsFits
    <2> QED BY <2>1, <2>3 DEF Stays
<1>2. CASE CanRead
    <2>1. PICK p, s, w2 : p = Head(wire) /\ s = PacketAdd(session, p) /\ w2 = Tail(wire)
        OBVIOUS
    <2>2. wire # <<>> BY <1>2 DEF CanRead
    <2>3. p = wire[1] /\ Shorter(wire, w2) /\ MacAgrees(session, p) BY <2>1, <2>2, MacNow
    <2>4. /\ wire' = w2
          /\ IF ~StartsReexchange(p) THEN Returns(s) ELSE KexBegins(s, TRUE)
        BY <1>2, <2>1, <2>3 DEF ReadArrived
    <2>5. Keepable(session) BY KeepableNow
    <2>6. /\ Keepable(s)
          /\ \A f \in SessionFields \ {"packets", "socket_state"} : s[f] = session[f]
          /\ p.type \in {DISCONNECT, BANNER_LINE} => s.packets = session.packets
        BY <2>1, <2>5, KeepableAdded
    <2>7. p.type \notin {DISCONNECT, BANNER_LINE} => Reading(s, w2)
        BY <2>1, <2>2, <2>3, <2>5, AddReads
    <2>8. session.exchanging <=> kex.step # "none" BY DEF InStepNow
    <2>9. CASE StartsReexchange(p)
        <3>1. p.type = KEXINIT BY <2>9 DEF StartsReexchange
        <3>2. Reading(s, w2) BY <2>7, <3>1, Types DEF PacketTypes
        <3>3. KexBegins(s, TRUE) BY <2>4, <2>9
        <3> QED BY <1>0, <2>3, <2>4, <3>1, <3>2, <3>3, RekeyStays DEF Stays
    <2>10. CASE ~StartsReexchange(p)
        <3>1. InStepNow(m, offers, kex, s, w2)
            <4>1. CASE p.type \in {DISCONNECT, BANNER_LINE}
                BY <2>2, <2>3, <2>6, <4>1, DropNow
            <4>2. CASE p.type \notin {DISCONNECT, BANNER_LINE}
                <5>1. p.type # KEXINIT BY <1>0, <2>8, <2>10 DEF StartsReexchange
                <5>2. kex.step \notin Closing BY <1>0 DEF Closing
                <5> QED BY <1>0, <2>3, <2>7, <4>2, <5>1, <5>2, KeepNow
            <4> QED BY <4>1, <4>2
        <3>2. Returns(s) /\ DOMAIN s = SessionFields BY <2>4, <2>6, <2>10 DEF Keepable
        <3>3. InStepOf(m, offers, kex', session', w2, server)
            BY <1>0, <3>1, <3>2, ReturnsFits
        <3> QED BY <2>4, <3>3 DEF Stays
    <2> QED BY <2>9, <2>10
<1> QED BY <1>1, <1>2

-----------------------------------------------------------------------------
(* The client's other actions *)

\* A packet that is taken is in the brigade, or is not, and then is read.
LEMMA RequireQueuedFits ==
    ASSUME NEW m, NEW offers, InStepNow(m, offers, kex, session, wire), RequireQueued
    PROVE  Stays(m, offers, wire')
<1>1. wire' = wire BY DEF RequireQueued
<1>2. CASE Found(session.packets) # 0
    <2>1. TakesFound(session) BY <1>2 DEF RequireQueued
    <2> QED BY <1>1, <2>1, QueuedFits
<1>3. CASE Found(session.packets) = 0
    <2>1. /\ session' = session
          /\ kex' = IF Exchanging THEN [kex EXCEPT !.asked = TRUE] ELSE kex
        BY <1>3 DEF RequireQueued
    <2>2. /\ Fits(m, offers, kex, session, wire, server) /\ Placed(session.packets)
          /\ Sane(kex, session, wire, server)
        BY NowHas
    <2>3. CASE Exchanging
        <3>1. PICK k2 : k2 = kex' OBVIOUS
        <3>2. k2.step = kex.step /\ k2.h = kex.h BY <2>1, <2>2, <2>3, <3>1 DEF Sane
        <3>3. kex.step = "reply" => ~Has(session.packets, ReplyType(m))
            <4> SUFFICES ASSUME kex.step = "reply" PROVE ~Has(session.packets, ReplyType(m))
                OBVIOUS
            <4>1. ~Has(session.packets, ReplyType(session.method))
                BY <1>3, <2>2, <2>3, ExchangeNeeds, FoundNothing
            <4>2. MethodInv(session, kex.step, m, server) BY <2>2, FitsHas
            <4>3. session.method["KEX"] = m["KEX"]
                BY <4>2, KindsAre DEF MethodInv, Agreeing
            <4> QED BY <4>1, <4>3 DEF ReplyType
        <3>4. InStepOf(m, offers, k2, session, wire, server)
            BY <2>2, <3>2, <3>3, AskedFits
        <3> QED BY <1>1, <2>1, <3>1, <3>4 DEF Stays
    <2>4. CASE ~Exchanging
        <3>1. kex' = kex BY <2>1, <2>4
        <3> QED BY <1>1, <2>1, <2>2, <3>1 DEF Fits, Stays
    <2> QED BY <2>3, <2>4
<1> QED BY <1>2, <1>3

\* The agreement leaves the rest of the session alone, if it is one or not.
LEMMA AgreeMethodsFields ==
    ASSUME NEW s, DOMAIN s = SessionFields
    PROVE  /\ DOMAIN AgreeMethods(s) = SessionFields
           /\ \A f \in SessionFields \ {"method", "stream", "burn"} : AgreeMethods(s)[f] = s[f]
<1> DEFINE C(k) == Agreed(Offer(s, k), s.kexinit.what[k], Supported[k])
           fails == SelectInSeq(KindsInOrder, LAMBDA k : C(k) = "")
           Set(k) == fails = 0 \/ k \in ToSet(SubSeq(KindsInOrder, 1, fails - 1))
           method == [k \in Kinds |-> IF Set(k) THEN C(k) ELSE s.method[k]]
           stream == IF fails = 0 THEN s.kexinit.n ELSE s.stream
           burn == s.kexinit.guess /\ C("KEX") # Head(s.kexinit.what["KEX"])
           t == AgreeMethods(s)
<1>1. t = [s EXCEPT !.method = method, !.stream = stream, !.burn = burn]
    BY Zenon DEF AgreeMethods
<1> HIDE DEF method, stream, burn, t
<1>2. /\ DOMAIN t = SessionFields
      /\ \A f \in SessionFields \ {"method", "stream", "burn"} : t[f] = s[f]
    BY <1>1 DEF SessionFields
<1> QED BY <1>2 DEF t

\* The methods are agreed on, or they are not.
LEMMA KexAgreesFits ==
    ASSUME NEW m, NEW offers, InStepNow(m, offers, kex, session, wire), KexAgrees
    PROVE  Stays(m, offers, wire')
<1>1. kex.step = "agree" /\ wire' = wire BY DEF KexAgrees
<1>2. /\ Fits(m, offers, kex, session, wire, server) /\ DOMAIN session = SessionFields
    BY NowHas
<1>3. Known(m, session, server) /\ session.exchanging BY <1>1 DEF InStepNow
<1>4. CASE CanAgree(session)
    <2>1. session' = AgreeMethods(session) /\ kex' = KexStep("agreed", 0)
        BY <1>4 DEF KexAgrees
    <2>2. PICK k2 : k2 = kex' OBVIOUS
    <2>3. k2.step = "agreed" BY <2>1, <2>2 DEF KexStep
    <2>4. InStepOf(m, offers, k2, AgreeMethods(session), wire, server)
        BY <1>1, <1>2, <1>3, <1>4, <2>3, AgreedFits
    <2> QED BY <1>1, <2>1, <2>2, <2>4 DEF Stays
<1>5. CASE ~CanAgree(session)
    <2>1. PICK t : t = AgreeMethods(session) OBVIOUS
    <2>2. KexFails(t) BY <1>5, <2>1 DEF KexAgrees
    <2>3. t.exchanging = session.exchanging
        BY <1>2, <2>1, AgreeMethodsFields DEF SessionFields
    <2> QED BY <1>3, <2>2, <2>3, FailsStays
<1> QED BY <1>4, <1>5

\* The method's exchange begins.
LEMMA ExchangeKeysFits ==
    ASSUME NEW m, NEW offers, InStepNow(m, offers, kex, session, wire), ExchangeKeys
    PROVE  InStepOf(m, offers, kex', session', wire', server)
<1>1. kex.step = "agreed" /\ wire' = wire BY DEF ExchangeKeys
<1>2. /\ Fits(m, offers, kex, session, wire, server) /\ DOMAIN session = SessionFields
      /\ IsSeq(session.out) /\ session.link = "up"
    BY NowHas
<1>3. session.method["KEX"] = m["KEX"]
    <2>1. MethodInv(session, kex.step, m, server) BY <1>2, FitsHas
    <2> QED BY <1>1, <2>1, KindsAre DEF MethodInv, Agreeing
<1>4. PICK t, k2 : t = session' /\ k2 = kex' OBVIOUS
<1>5. ASSUME NEW p, IsPacket(p), NEW step, KexSends(session, p, step)
      PROVE  /\ k2 = step /\ Alike(session, t, {"out"}) /\ t.packets = session.packets
             /\ \E q : /\ Longer(session.out, q, t.out)
                      /\ q.type = p.type /\ q.what = p.what /\ q.keys = OutKeys(session)
    <2>1. /\ kex' = step /\ DOMAIN session' = SessionFields
          /\ \A f \in SessionFields \ {"out"} : session'[f] = session[f]
          /\ \E q : /\ Longer(session.out, q, session'.out)
                   /\ q.type = p.type /\ q.what = p.what /\ q.keys = OutKeys(session)
        BY <1>2, <1>5, KexSendsAlike
    <2>2. Alike(session, t, {"out"}) /\ t.packets = session.packets
        BY <1>2, <1>4, <2>1 DEF Alike, Relevant, SessionFields
    <2> QED BY <1>4, <2>1, <2>2
<1>6. CASE session.method["KEX"] = Gex
    <2> DEFINE p == Msg(KEX_DH_GEX_REQUEST, "", 0)
               step == KexStep("group", 0)
    <2>1. KexSends(session, p, step) BY <1>6 DEF ExchangeKeys
    <2>2. IsPacket(p) /\ p.type = KEX_DH_GEX_REQUEST BY DEF Msg, IsPacket
    <2>3. step.step = "group" BY DEF KexStep
    <2> HIDE DEF p, step
    <2>4. PICK q : /\ Longer(session.out, q, t.out)
                   /\ q.type = p.type /\ q.what = p.what /\ q.keys = OutKeys(session)
        BY <1>5, <2>1, <2>2
    <2>5. k2 = step /\ Alike(session, t, {"out"}) BY <1>5, <2>1, <2>2
    <2>6. InStepOf(m, offers, k2, t, wire, server)
        BY <1>1, <1>2, <1>3, <1>6, <2>2, <2>3, <2>4, <2>5, GroupAskedFits
    <2> QED BY <1>1, <1>4, <2>6
<1>7. CASE session.method["KEX"] # Gex
    <2> DEFINE p == Msg(KEXDH_INIT, "", 0)
               step == KexStep(IF session.burn THEN "burn" ELSE "reply", 0)
    <2>1. KexSends(session, p, step) BY <1>7 DEF ExchangeKeys, KexInit
    <2>2. IsPacket(p) /\ p.type = KEXDH_INIT BY DEF Msg, IsPacket
    <2>3. step.step = (IF session.burn THEN "burn" ELSE "reply") /\ step.asked = FALSE
        BY DEF KexStep
    <2> HIDE DEF p, step
    <2>4. PICK q : /\ Longer(session.out, q, t.out)
                   /\ q.type = p.type /\ q.what = p.what /\ q.keys = OutKeys(session)
        BY <1>5, <2>1, <2>2
    <2>5. k2 = step /\ Alike(session, t, {"out"}) /\ t.packets = session.packets
        BY <1>5, <2>1, <2>2
    <2>6. q.type = IF m["KEX"] = Gex THEN KEX_DH_GEX_INIT ELSE KEXDH_INIT
        BY <1>3, <1>7, <2>2, <2>4
    <2>7. Alike(session, t, {"out", "packets"}) BY <2>5 DEF Alike
    <2>8. k2.step = (IF session.burn THEN "burn" ELSE "reply") /\ k2.asked = FALSE
        BY <2>3, <2>5
    <2>9. m["KEX"] # Gex BY <1>3, <1>7
    <2>10. InStepOf(m, offers, k2, t, wire, server)
        BY <1>1, <1>2, <2>4, <2>5, <2>6, <2>7, <2>8, <2>9, ValueFits
    <2> QED BY <1>1, <1>4, <2>10
<1> QED BY <1>6, <1>7

-----------------------------------------------------------------------------
(* Calls that begin, and calls that fail *)

\* A request is written.
LEMMA RequestFits ==
    ASSUME NEW m, NEW offers, InStepNow(m, offers, kex, session, wire),
           kex.step = "none", NEW p, IsPacket(p), p.type = USERAUTH_REQUEST,
           NEW then, Request(session, p, then)
    PROVE  InStepOf(m, offers, kex', session', wire', server)
<1> DEFINE t == [session EXCEPT !.tries = session.tries + 1]
<1>1. Sends(t, p, then) /\ wire' = wire BY DEF Request
<1>2. DOMAIN session = SessionFields BY NowHas
<1>3. DOMAIN t = SessionFields /\ \A f \in SessionFields \ {"started", "tries"} : t[f] = session[f]
    BY <1>2
<1> HIDE DEF t
<1> QED BY <1>1, <1>3, RequestsOrdinary, SendsFits

\* The requests, as they are written.
Requesting ==
    \E p, then :
        /\ Request(session, p, then) /\ IsPacket(p) /\ p.type = USERAUTH_REQUEST
        /\ then.fn # "none"

\* Each of the calls that authenticate begins with one of them.
LEMMA RequestsAre ==
    ASSUME \/ UserauthList \/ UserauthPassword \/ UserauthKbdint
           \/ \E file : UserauthPublickey(file) \/ UserauthHostbased(file)
    PROVE  Requesting /\ session.started = "yes" /\ call = Idle
<1>1. ASSUME NEW fn \in {"list", "password", "kbdint"}, NEW need,
             Request(session, Asks(fn), Call(fn, need))
      PROVE  Requesting
    <2>1. PICK p, then : p = Asks(fn) /\ then = Call(fn, need) OBVIOUS
    <2>2. IsPacket(p) /\ p.type = USERAUTH_REQUEST BY <2>1, Written DEF Asks
    <2>3. then.fn # "none" BY <2>1 DEF Call
    <2> QED BY <1>1, <2>1, <2>2, <2>3 DEF Requesting
<1>2. ASSUME UserauthList \/ UserauthPassword \/ UserauthKbdint
      PROVE  Requesting /\ session.started = "yes" /\ call = Idle
    <2>1. /\ session.started = "yes" /\ call = Idle
          /\ \E fn \in {"list", "password", "kbdint"} :
             \E need : Request(session, Asks(fn), Call(fn, need))
        BY <1>2 DEF UserauthList, UserauthPassword, UserauthKbdint, CanAuthenticate, Begin
    <2> QED BY <1>1, <2>1
<1>3. ASSUME NEW file, UserauthPublickey(file)
      PROVE  Requesting /\ session.started = "yes" /\ call = Idle
    <2> DEFINE p == Asks("publickey")
               c == [Call("publickey", Append(Answers, USERAUTH_PK_OK))
                        EXCEPT !.key = ReadPublickey(file)]
    <2>1. Request(session, p, c) /\ session.started = "yes" /\ call = Idle
        BY <1>3 DEF UserauthPublickey, CanAuthenticate, Begin
    <2>2. IsPacket(p) /\ p.type = USERAUTH_REQUEST BY Written DEF Asks
    <2>3. c.fn # "none" BY DEF Call
    <2> HIDE DEF p, c
    <2> QED BY <2>1, <2>2, <2>3 DEF Requesting
<1>4. ASSUME NEW file, UserauthHostbased(file)
      PROVE  Requesting /\ session.started = "yes" /\ call = Idle
    <2> DEFINE c == Call("hostbased", Answers)
    <2>1. /\ session.started = "yes" /\ call = Idle
          /\ \E sig : Request(session, Signed("hostbased", sig), c)
        BY <1>4 DEF UserauthHostbased, CanAuthenticate, Begin
    <2>2. PICK sig : Request(session, Signed("hostbased", sig), c) BY <2>1
    <2>3. c.fn # "none" BY DEF Call
    <2> HIDE DEF c
    <2>4. PICK p : p = Signed("hostbased", sig) OBVIOUS
    <2>5. IsPacket(p) /\ p.type = USERAUTH_REQUEST BY <2>4, SignedIsRequest
    <2> QED BY <2>1, <2>2, <2>3, <2>4, <2>5 DEF Requesting
<1> QED BY <1>2, <1>3, <1>4

\* The banner line is written.
LEMMA StartupFits ==
    ASSUME NEW m, NEW offers, InStepNow(m, offers, kex, session, wire),
           kex.step = "none", Startup
    PROVE  InStepOf(m, offers, kex', session', wire', server)
<1> DEFINE t == [session EXCEPT !.started = "failed"]
           p == Msg(BANNER_LINE, "", 0)
           c == [Call("startup", <<BANNER_LINE>>) EXCEPT !.asked = TRUE]
<1>1. Sends(t, p, c) /\ wire' = wire BY DEF Startup
<1>2. DOMAIN session = SessionFields BY NowHas
<1>3. DOMAIN t = SessionFields /\ \A f \in SessionFields \ {"started", "tries"} : t[f] = session[f]
    BY <1>2
<1>4. IsPacket(p) /\ p.type = BANNER_LINE BY DEF Msg, IsPacket
<1> HIDE DEF t, p, c
<1> QED BY <1>1, <1>3, <1>4, RequestsOrdinary, SendsFits

\* DISCONNECT is written.
LEMMA SessionDisconnectFits ==
    ASSUME NEW m, NEW offers, InStepNow(m, offers, kex, session, wire),
           kex.step = "none", SessionDisconnect
    PROVE  InStepOf(m, offers, kex', session', wire', server)
<1> DEFINE p == Msg(DISCONNECT, "", 0)
           s == PacketWrite(session, p)
           t == [s EXCEPT !.started = "over"]
           q == Under(p, OutKeys(session))
<1>1. session' = t /\ kex' = kex /\ wire' = wire BY DEF SessionDisconnect
<1>2. /\ Fits(m, offers, kex, session, wire, server) /\ DOMAIN session = SessionFields
      /\ IsSeq(session.out) /\ session.link = "up"
    BY NowHas
<1>3. IsPacket(p) /\ p.type = DISCONNECT BY DEF Msg, IsPacket
<1> HIDE DEF p
<1>4. /\ DOMAIN s = SessionFields /\ \A f \in SessionFields \ {"out"} : s[f] = session[f]
      /\ Longer(session.out, q, s.out) /\ q.type = p.type /\ q.keys = OutKeys(session)
    BY <1>2, <1>3, WriteAlike
<1> HIDE DEF s, q
<1>5. DOMAIN t = SessionFields /\ \A f \in SessionFields \ {"started"} : t[f] = s[f]
    BY <1>4
<1> HIDE DEF t
<1>6. Alike(session, t, {"out"}) /\ t.out = s.out
    BY <1>2, <1>4, <1>5 DEF Alike, Relevant, SessionFields
<1>7. q.type \notin {KEXINIT, NEWKEYS} \cup Values BY <1>3, <1>4, RequestsOrdinary
<1> QED BY <1>1, <1>2, <1>4, <1>6, <1>7, WriteFits

\* A call or an exchange gives up.
LEMMA GivesUpFits ==
    ASSUME NEW m, NEW offers, InStepNow(m, offers, kex, session, wire), GivesUp(session)
    PROVE  Stays(m, offers, wire)
<1>1. CASE Exchanging
    <2>1. KexFails(session) BY <1>1 DEF GivesUp
    <2>2. session.exchanging BY <1>1 DEF InStepNow, Exchanging
    <2> QED BY <2>1, <2>2, FailsStays
<1>2. CASE ~Exchanging
    <2>1. Returns(session) /\ kex.step = "none" BY <1>2 DEF GivesUp, Exchanging
    <2>2. DOMAIN session = SessionFields BY NowHas
    <2>3. InStepOf(m, offers, kex', session', wire, server) BY <2>1, <2>2, ReturnsFits
    <2> QED BY <2>3 DEF Stays
<1> QED BY <1>1, <1>2

\* Other methods are preferred, before the session has begun.
LEMMA MethodPrefFits ==
    ASSUME NEW m, NEW offers, InStepNow(m, offers, kex, session, wire), BaseInv,
           NEW kind, NEW prefs, MethodPref(kind, prefs), NEW m2, NEW offers2
    PROVE  InStepOf(m2, offers2, kex', session', wire', server)
<1>1. /\ kex' = kex /\ wire' = wire /\ session.started = "no"
    BY DEF MethodPref
<1> DEFINE list == Stripped(kind, prefs)
           t == [session EXCEPT !.prefs[kind] = list]
<1>2. session' = session \/ session' = t BY DEF MethodPref
<1> HIDE DEF list
<1>3. /\ Fits(m, offers, kex, session, wire, server) /\ DOMAIN session = SessionFields
    BY NowHas
<1>4. DOMAIN t = SessionFields /\ \A f \in SessionFields \ {"prefs"} : t[f] = session[f]
    BY <1>3
<1> HIDE DEF t
<1>5. Alike(session, session', {})
    BY <1>2, <1>3, <1>4 DEF Alike, Relevant, SessionFields
<1>6. session.out = <<>> /\ kex.step = "none" /\ session.secrets = 0
    BY <1>1 DEF BaseInv, Exchanging
<1>7. ~session.newkeys
    <2>1. MethodInv(session, kex.step, m, server) BY <1>3, FitsHas
    <2> QED BY <1>6, <2>1 DEF MethodInv
<1>8. PICK u : u = session' OBVIOUS
<1>9. InStepOf(m2, offers2, kex, u, wire, server)
    BY <1>3, <1>5, <1>6, <1>7, <1>8, OffersFit
<1> QED BY <1>1, <1>8, <1>9

-----------------------------------------------------------------------------
(* What is kept by each of the client's actions *)

\* A call or an exchange that waits has begun.
LEMMA Running ==
    ASSUME BaseInv, Waits \/ kex.step \in {"agree", "agreed"} \/ call.fn = "read"
    PROVE  session.started # "no" /\ call.fn # "none"
BY DEF BaseInv, Waits, Exchanging

\* What the client did with what it has read, it did with what it had.
LEMMA AddedKept ==
    ASSUME NEW s, Kept(s),
           \A f \in SessionFields \ {"packets", "socket_state"} : s[f] = session[f]
    PROVE  Kept(session)
<1>1. /\ s.link = session.link /\ s.prefs = session.prefs /\ s.started = session.started
      /\ s.exchanging = session.exchanging /\ s.secrets = session.secrets
    BY DEF SessionFields
<1> QED BY <1>1 DEF Kept

\* The wait for packets of the brigade.
LEMMA RequireQueuedKept ==
    ASSUME Keepable(session), RequireQueued
    PROVE  Kept(session)
<1>1. CASE Found(session.packets) # 0
    <2>1. TakesFound(session) BY <1>1 DEF RequireQueued
    <2> QED BY <2>1, TakesFoundKept
<1>2. CASE Found(session.packets) = 0
    <2>1. /\ session' = session
          /\ kex' = IF Exchanging THEN [kex EXCEPT !.asked = TRUE] ELSE kex
          /\ call' = IF Exchanging THEN call ELSE [call EXCEPT !.asked = TRUE]
        BY <1>2 DEF RequireQueued
    <2>2. kex'.step = kex.step /\ kex'.asked \in BOOLEAN BY <2>1 DEF Keepable
    <2>3. call'.fn = call.fn /\ call'.need = call.need BY <2>1 DEF Keepable
    <2> QED BY <2>1, <2>2, <2>3 DEF Kept, Keepable
<1> QED BY <1>1, <1>2

\* An exchange begins when none is on, in a call.
LEMMA BeginsKept ==
    ASSUME BaseInv, Keepable(session), wire # <<>>, IsSeq(wire), NEW p, p = Head(wire),
           NEW s, s = PacketAdd(session, p), NEW re \in BOOLEAN, KexBegins(s, re),
           StartsReexchange(p) \/ p.type = BANNER_LINE, call.fn # "none",
           wire' = Tail(wire)
    PROVE  Kept(session)
<1>1. Shorter(wire, Tail(wire)) /\ Head(wire) = wire[1] BY TailPlaces
<1>2. wire' # wire /\ 1 \in DOMAIN wire
    <2>1. PICK v : v = Tail(wire) OBVIOUS
    <2>2. /\ Len(wire) = Len(v) + 1 /\ Len(v) \in Nat /\ DOMAIN wire = 1..Len(wire)
        BY <1>1, <2>1 DEF Shorter, Placed
    <2>3. v # wire
        <3> SUFFICES ASSUME v = wire PROVE FALSE OBVIOUS
        <3>1. PICK l \in Nat : l = Len(v) BY <2>2
        <3>2. l = l + 1 BY <2>2, <3>1
        <3> QED BY <3>1, <3>2
    <2>4. PICK l \in Nat : l = Len(v) BY <2>2
    <2>5. 1 \in 1..(l + 1) OBVIOUS
    <2> QED BY <2>1, <2>2, <2>3, <2>4, <2>5
<1>3. ~session.exchanging
    <2>1. p.type = BANNER_LINE => ~session.exchanging
        BY <1>1, <1>2 DEF BaseInv, BannerInv
    <2> QED BY <2>1 DEF StartsReexchange
<1>4. kex.step = "none" BY <1>3 DEF BaseInv, Exchanging
<1>5. /\ Keepable(s)
      /\ \A f \in SessionFields \ {"packets", "socket_state"} : s[f] = session[f]
    BY KeepableAdded
<1>6. ~s.exchanging BY <1>3, <1>5 DEF SessionFields
<1>7. Kept(s) BY <1>2, <1>4, <1>5, <1>6, KexBeginsKept
<1> QED BY <1>5, <1>7, AddedKept

\* The wait for packets of the server.
LEMMA RequireReadKept ==
    ASSUME SessionInv, BaseInv, Keepable(session), RequireRead
    PROVE  Kept(session)
<1>1. PICK p, s : p = Head(wire) /\ s = PacketAdd(session, p) OBVIOUS
<1>2. wire # <<>> /\ wire' = Tail(wire) /\ Waits BY DEF RequireRead, CanRead
<1>3. \/ GivesUp(session)
      \/ StartsReexchange(p) /\ KexBegins(s, TRUE)
      \/ p.type = BANNER_LINE /\ KexBegins(s, FALSE)
      \/ TakesFound(s)
      \/ session' = s /\ call' = call /\ kex' = kex
    BY <1>1 DEF RequireRead
<1>4. IsSeq(wire) BY DEF SessionInv, WireOk
<1>5. call.fn # "none" BY <1>2, Running
<1>6. /\ Keepable(s)
      /\ \A f \in SessionFields \ {"packets", "socket_state"} : s[f] = session[f]
    BY <1>1, KeepableAdded
<1>7. CASE GivesUp(session) BY <1>7, GivesUpKept
<1>8. CASE \/ StartsReexchange(p) /\ KexBegins(s, TRUE)
           \/ p.type = BANNER_LINE /\ KexBegins(s, FALSE)
    BY <1>1, <1>2, <1>4, <1>5, <1>8, BeginsKept
<1>9. CASE TakesFound(s)
    <2>1. Kept(s) BY <1>6, <1>9, TakesFoundKept
    <2> QED BY <1>6, <2>1, AddedKept
<1>10. CASE session' = s /\ call' = call /\ kex' = kex
    <2>1. Kept(s) BY <1>6, <1>10 DEF Kept, Keepable
    <2> QED BY <1>6, <2>1, AddedKept
<1> QED BY <1>3, <1>7, <1>8, <1>9, <1>10

\* A read.
LEMMA ReadArrivedKept ==
    ASSUME SessionInv, BaseInv, Keepable(session), ReadArrived
    PROVE  Kept(session)
<1>0. ~Exchanging /\ call.fn = "read" BY DEF ReadArrived
<1>1. CASE Returns(session) BY <1>0, <1>1, ReturnsKept
<1>2. CASE ~Returns(session)
    <2>1. PICK p, s : p = Head(wire) /\ s = PacketAdd(session, p) OBVIOUS
    <2>2. wire # <<>> /\ wire' = Tail(wire)
        BY <1>2 DEF ReadArrived, CanRead
    <2>3. Returns(s) \/ (StartsReexchange(p) /\ KexBegins(s, TRUE))
        BY <1>2, <2>1 DEF ReadArrived
    <2>4. IsSeq(wire) BY DEF SessionInv, WireOk
    <2>5. /\ Keepable(s)
          /\ \A f \in SessionFields \ {"packets", "socket_state"} : s[f] = session[f]
        BY <2>1, KeepableAdded
    <2>6. CASE Returns(s)
        <3>1. Kept(s) BY <1>0, <2>5, <2>6, ReturnsKept
        <3> QED BY <2>5, <3>1, AddedKept
    <2>7. CASE StartsReexchange(p) /\ KexBegins(s, TRUE)
        <3>1. call.fn # "none" BY <1>0
        <3> QED BY <2>1, <2>2, <2>4, <2>7, <3>1, BeginsKept
    <2> QED BY <2>3, <2>6, <2>7
<1> QED BY <1>1, <1>2

\* The agreement, and the exchange after it.
LEMMA AgreesKept ==
    ASSUME Keepable(session), KexAgrees \/ ExchangeKeys
    PROVE  Kept(session)
<1>0. Exchanging BY DEF KexAgrees, ExchangeKeys, Exchanging
<1>1. CASE KexAgrees
    <2>1. PICK t : t = AgreeMethods(session) OBVIOUS
    <2>2. IF CanAgree(session)
          THEN session' = t /\ kex' = KexStep("agreed", 0) /\ call' = call
          ELSE KexFails(t)
        BY <1>1, <2>1 DEF KexAgrees
    <2>3. \A f \in SessionFields \ {"method", "stream", "burn"} : t[f] = session[f]
        BY <2>1, AgreeMethodsFields DEF Keepable
    <2>4. \A f \in KeptFields \ {"secrets"} : t[f] = session[f]
        BY <2>3 DEF KeptFields, SessionFields
    <2>5. CASE CanAgree(session)
        <3>1. kex' = KexStep("agreed", 0) /\ session' = t /\ call' = call BY <2>2, <2>5
        <3>2. kex'.asked \in BOOLEAN BY <3>1 DEF KexStep
        <3> QED BY <1>0, <2>4, <3>1, <3>2, GoesOnKept
    <2>6. CASE ~CanAgree(session) BY <1>0, <2>2, <2>4, <2>6, KexFailsKept
    <2> QED BY <2>5, <2>6
<1>2. CASE ExchangeKeys
    <2>1. PICK p, step : KexSends(session, p, step) /\ step.asked \in BOOLEAN
        <3>1. \E p : \E name : KexSends(session, p, KexStep(name, 0))
            BY <1>2 DEF ExchangeKeys, KexInit
        <3>2. PICK p, name : KexSends(session, p, KexStep(name, 0)) BY <3>1
        <3>3. KexStep(name, 0).asked \in BOOLEAN BY DEF KexStep
        <3> QED BY <3>2, <3>3
    <2> QED BY <1>0, <2>1, KexSendsKept
<1> QED BY <1>1, <1>2

\* Calls that begin after the session has.
LEMMA BeginsCallKept ==
    ASSUME BaseInv, Keepable(session), call = Idle,
           Requesting \/ PacketRead \/ SessionDisconnect
    PROVE  Kept(session)
<1>0. ~Exchanging /\ kex.step = "none" BY DEF BaseInv, Exchanging, Idle, Call
<1>1. CASE Requesting
    <2>1. PICK p, then : Request(session, p, then) /\ then.fn # "none"
        BY <1>1 DEF Requesting
    <2> DEFINE t == [session EXCEPT !.tries = session.tries + 1]
    <2>2. Sends(t, p, then) BY <2>1 DEF Request
    <2>3. DOMAIN t = SessionFields /\ \A f \in SessionFields \ {"tries"} : t[f] = session[f]
        BY DEF Keepable
    <2> HIDE DEF t
    <2>4. /\ IsSeq(t.out) /\ t.started = session.started
          /\ \A f \in KeptFields \ {"started"} : t[f] = session[f]
        BY <2>3 DEF Keepable, KeptFields, SessionFields
    <2> QED BY <1>0, <2>1, <2>2, <2>3, <2>4, SendsKept
<1>2. CASE PacketRead
    <2>1. session' = session /\ kex' = kex /\ call'.fn = "read"
        BY <1>2 DEF PacketRead, Call
    <2> QED BY <1>0, <2>1 DEF Kept, Keepable
<1>3. CASE SessionDisconnect
    <2> DEFINE s == PacketWrite(session, Msg(DISCONNECT, "", 0))
    <2>1. session' = [s EXCEPT !.started = "over"] /\ kex' = kex /\ call' = call
        BY <1>3 DEF SessionDisconnect
    <2>2. DOMAIN s = SessionFields /\ \A f \in SessionFields \ {"out"} : s[f] = session[f]
        BY WriteFields DEF Keepable
    <2> HIDE DEF s
    <2>3. /\ session'.link = session.link /\ session'.prefs = session.prefs
          /\ session'.started = "over" /\ session'.exchanging = session.exchanging
          /\ session'.secrets = session.secrets
        BY <2>1, <2>2 DEF SessionFields
    <2> QED BY <1>0, <2>1, <2>3 DEF Kept, Keepable
<1> QED BY <1>1, <1>2, <1>3

-----------------------------------------------------------------------------
(* The next state *)

\* The calls and faults of a session stay what they are.
LEMMA GreetPrime ==
    ASSUME uses' = uses, NEW q, NEW w, NEW step, NEW sk, NEW c, NEW srv,
           GreetInv(q, w, step, sk, c, srv)
    PROVE  GreetInv(q, w, step, sk, c, srv)'
BY DEF GreetInv, Greets, AtMostOne, Has, Between

\* The same of methods.
LEMMA MethodPrime ==
    ASSUME uses' = uses, NEW s, NEW step, NEW m, NEW srv, MethodInv(s, step, m, srv)
    PROVE  MethodInv(s, step, m, srv)'
BY DEF MethodInv, Greets, Agreeing

\* The same of what is in step.
LEMMA InStepPrime ==
    ASSUME uses' = uses, NEW m, NEW offers, NEW k, NEW s, NEW w, NEW srv,
           InStepOf(m, offers, k, s, w, srv)
    PROVE  InStepOf(m, offers, k, s, w, srv)'
<1>1. GreetInv(s.packets, w, k.step, srv.kex, s.secrets, srv)'
    BY GreetPrime DEF InStepOf
<1>2. MethodInv(s, k.step, m, srv)' BY MethodPrime DEF InStepOf
<1> QED BY <1>1, <1>2 DEF InStepOf

\* What is in step after an action is in step in the next state.
LEMMA InStepNext ==
    ASSUME uses' = uses, NEW m, NEW offers, m = Choice(Offers(session'), server'.lists),
           offers = Offers(session'),
           InStepOf(m, offers, kex', session', wire', server')
    PROVE  InStep'
<1>1. PICK k, s, w, srv : k = kex' /\ s = session' /\ w = wire' /\ srv = server' OBVIOUS
<1>2. InStepOf(m, offers, k, s, w, srv) BY <1>1
<1>3. InStepOf(m, offers, k, s, w, srv)' BY <1>2, InStepPrime
<1> QED BY <1>1, <1>3 DEF InStep

-----------------------------------------------------------------------------
(* Each action of the client keeps the two sides in step *)

\* A session that is in step, as the lemmas about steps of the client have it.
LEMMA NowInStep ==
    ASSUME SessionInv, BaseInv, Live, InStep,
           NEW m, m = Choice(Offers(session), server.lists),
           NEW offers, offers = Offers(session)
    PROVE  InStepNow(m, offers, kex, session, wire)
<1>1. InStepOf(m, offers, kex, session, wire, server) BY DEF InStep
<1>2. SessionOk(session, server) /\ WireOk(wire, session, server)
      /\ KexOk(kex, session) /\ ServerOk(server, session)
    BY DEF SessionInv
<1>3. Sane(kex, session, wire, server)
    <2>1. session.secrets \in Nat BY <1>1 DEF InStepOf, Phase
    <2>2. kex.asked \in BOOLEAN BY DEF BaseInv
    <2> QED BY <1>2, <2>1, <2>2 DEF Sane, SessionOk, WireOk, KexOk, ServerOk
<1>4. Keepable(session) BY KeepableNow
<1>5. session.link = "up" /\ Uncompressed /\ (session.exchanging => Exchanging)
    BY DEF Live, Hopes
<1>6. session.exchanging <=> kex.step # "none" BY <1>5 DEF BaseInv, Exchanging
<1>7. Known(m, session, server) BY <1>5 DEF Known, BaseInv, Uncompressed
<1>8. session.method["HOSTKEY"] \notin Unkeyed BY <1>2 DEF SessionOk
<1> QED BY <1>1, <1>3, <1>4, <1>5, <1>6, <1>7, <1>8 DEF InStepNow, Fits

\* What a step of the client that is not the first keeps.
ClientKept ==
    /\ Kept(session) /\ session'.started # "no"
    /\ server' = server /\ uses' = uses
    /\ wire' = wire \/ (wire # <<>> /\ wire' = Tail(wire))

\* An exchange or a call that goes on.
LEMMA ContinuesKept ==
    ASSUME SessionInv, BaseInv,
           \/ KexAgrees \/ ExchangeKeys
           \/ RequireQueued \/ RequireRead \/ ReadArrived \/ ReadFails \/ TimesOut
    PROVE  ClientKept
<1>1. Keepable(session) BY KeepableNow
<1>2. /\ server' = server /\ uses' = uses
      /\ wire' = wire \/ (wire # <<>> /\ wire' = Tail(wire))
    BY DEF KexAgrees, ExchangeKeys, RequireQueued, RequireRead, ReadArrived, ReadFails,
           TimesOut, CanRead
<1>3. session.started # "no"
    <2>1. Waits \/ kex.step \in {"agree", "agreed"} \/ call.fn = "read"
        BY DEF KexAgrees, ExchangeKeys, RequireQueued, RequireRead, ReadArrived, ReadFails,
               TimesOut
    <2> QED BY <2>1, Running
<1>4. Kept(session)
    <2>1. CASE KexAgrees \/ ExchangeKeys BY <1>1, <2>1, AgreesKept
    <2>2. CASE RequireQueued BY <1>1, <2>2, RequireQueuedKept
    <2>3. CASE RequireRead BY <1>1, <2>3, RequireReadKept
    <2>4. CASE ReadArrived BY <1>1, <2>4, ReadArrivedKept
    <2>5. CASE ReadFails \/ TimesOut
        <3>1. GivesUp(session) BY <2>5 DEF ReadFails, TimesOut
        <3> QED BY <1>1, <3>1, GivesUpKept
    <2> QED BY <2>1, <2>2, <2>3, <2>4, <2>5
<1>5. session'.started # "no" BY <1>3, <1>4 DEF Kept
<1> QED BY <1>2, <1>4, <1>5 DEF ClientKept

\* A call that begins in a session that has.
LEMMA BegunKept ==
    ASSUME SessionInv, BaseInv,
           (Requesting /\ session.started = "yes" /\ call = Idle)
           \/ PacketRead \/ SessionDisconnect
    PROVE  ClientKept
<1>1. Keepable(session) BY KeepableNow
<1>2. /\ server' = server /\ uses' = uses /\ wire' = wire
      /\ session.started = "yes" /\ call = Idle
    BY DEF Requesting, Request, PacketRead, SessionDisconnect, Begin
<1>3. Kept(session) BY <1>1, <1>2, BeginsCallKept
<1>4. session'.started # "no" BY <1>2, <1>3 DEF Kept
<1> QED BY <1>2, <1>3, <1>4 DEF ClientKept

\* The session begins.
LEMMA StartupKept == ASSUME SessionInv, BaseInv, Startup PROVE ClientKept
<1>1. Keepable(session) BY KeepableNow
<1> DEFINE s == [session EXCEPT !.started = "failed"]
           p == Msg(BANNER_LINE, "", 0)
           c == [Call("startup", <<BANNER_LINE>>) EXCEPT !.asked = TRUE]
<1>2. /\ server' = server /\ uses' = uses /\ wire' = wire /\ kex' = kex
      /\ session.started = "no" /\ Sends(s, p, c)
    BY DEF Startup, Sends
<1>3. kex.step = "none" BY <1>2 DEF BaseInv, Exchanging
<1>4. /\ DOMAIN s = SessionFields /\ s.started = "failed"
      /\ \A f \in SessionFields \ {"started"} : s[f] = session[f]
    BY <1>1 DEF Keepable, SessionFields
<1>5. c.fn # "none" /\ Idle.need = <<>> BY DEF Call, Idle
<1>6. Keepable(s)
    <2>1. /\ s.out = session.out /\ s.packets = session.packets
          /\ s.exchanging = session.exchanging
        BY <1>4 DEF SessionFields
    <2> QED BY <1>1, <1>4, <2>1 DEF Keepable
<1> HIDE DEF s, p, c
<1>7. IsSeq(s.out) BY <1>6 DEF Keepable
<1>8. Kept(s)
    <2>1. s.started # "no" => s.started # "no" OBVIOUS
    <2>2. \A f \in KeptFields \ {"started"} : s[f] = s[f] OBVIOUS
    <2>3. ~Exchanging BY <1>3 DEF Exchanging
    <2> QED BY <1>2, <1>4, <1>5, <1>6, <1>7, <2>1, <2>2, <2>3, SendsKept
<1>9. /\ s.link = session.link /\ s.prefs = session.prefs
      /\ s.exchanging = session.exchanging /\ s.secrets = session.secrets
    BY <1>4 DEF SessionFields
<1>10. Kept(session) /\ session'.started # "no" BY <1>2, <1>4, <1>8, <1>9 DEF Kept
<1> QED BY <1>2, <1>10 DEF ClientKept

\* A step of the client after which what was in step still is.
StaysInStep ==
    Live => Stays(Choice(Offers(session), server.lists), Offers(session), wire')

\* The same of a step after which nothing has failed.
LEMMA InStepStays ==
    ASSUME NEW m, NEW offers, NEW w, InStepOf(m, offers, kex', session', w, server)
    PROVE  Stays(m, offers, w)
BY DEF Stays

\* Such a step keeps the invariant.
LEMMA ClientKeys ==
    ASSUME SessionInv, KeysInv, ClientKept, StaysInStep
    PROVE  KeysInv'
<1>1. BaseInv BY DEF KeysInv
<1>2. BaseInv' /\ (Live' => Live) /\ Offers(session') = Offers(session)
    BY <1>1, ClientBase DEF ClientKept
<1>3. ASSUME Live' PROVE InStep'
    <2>1. PICK m, offers : m = Choice(Offers(session), server.lists)
                           /\ offers = Offers(session)
        OBVIOUS
    <2>2. Stays(m, offers, wire') BY <1>2, <1>3, <2>1 DEF StaysInStep
    <2>3. session'.exchanging => kex'.step # "none" BY <1>3 DEF Live, Hopes, Exchanging
    <2>4. InStepOf(m, offers, kex', session', wire', server') BY <2>2, <2>3 DEF Stays, ClientKept
    <2>5. m = Choice(Offers(session'), server'.lists) /\ offers = Offers(session')
        BY <1>2, <2>1 DEF ClientKept
    <2> QED BY <2>4, <2>5, InStepNext DEF ClientKept
<1> QED BY <1>2, <1>3 DEF KeysInv

\* An exchange goes on, or begins, or a call does.
LEMMA ContinuesKeys ==
    ASSUME SessionInv, KeysInv,
           \/ KexAgrees \/ ExchangeKeys
           \/ RequireQueued \/ RequireRead \/ ReadArrived \/ ReadFails \/ TimesOut
    PROVE  KeysInv'
<1>0. BaseInv /\ (Live => InStep) BY DEF KeysInv
<1>1. ClientKept BY <1>0, ContinuesKept
<1>2. StaysInStep
    <2> SUFFICES ASSUME Live
                 PROVE  Stays(Choice(Offers(session), server.lists), Offers(session), wire')
        BY DEF StaysInStep
    <2>1. PICK m, offers : m = Choice(Offers(session), server.lists)
                           /\ offers = Offers(session)
        OBVIOUS
    <2>2. InStepNow(m, offers, kex, session, wire) BY <1>0, <2>1, NowInStep
    <2>3. CASE KexAgrees BY <2>1, <2>2, <2>3, KexAgreesFits
    <2>4. CASE ExchangeKeys
        <3>1. InStepOf(m, offers, kex', session', wire', server)
            BY <2>2, <2>4, ExchangeKeysFits
        <3> QED BY <2>1, <3>1, InStepStays
    <2>5. CASE RequireQueued BY <2>1, <2>2, <2>5, RequireQueuedFits
    <2>6. CASE RequireRead BY <1>0, <2>1, <2>2, <2>6, RequireReadFits
    <2>7. CASE ReadArrived BY <1>0, <2>1, <2>2, <2>7, ReadArrivedFits
    <2>8. CASE ReadFails \/ TimesOut
        <3>1. GivesUp(session) /\ wire' = wire BY <2>8 DEF ReadFails, TimesOut
        <3>2. Stays(m, offers, wire) BY <2>2, <3>1, GivesUpFits
        <3> QED BY <2>1, <3>1, <3>2
    <2> QED BY <2>3, <2>4, <2>5, <2>6, <2>7, <2>8
<1> QED BY <1>1, <1>2, ClientKeys

\* A call begins in a session that has.
LEMMA BeginsKeys ==
    ASSUME SessionInv, KeysInv,
           (Requesting /\ session.started = "yes" /\ call = Idle)
           \/ PacketRead \/ SessionDisconnect
    PROVE  KeysInv'
<1>0. BaseInv /\ (Live => InStep) BY DEF KeysInv
<1>1. ClientKept BY <1>0, BegunKept
<1>2. call = Idle BY DEF PacketRead, SessionDisconnect, Begin
<1>3. kex.step = "none" BY <1>0, <1>2 DEF BaseInv, Exchanging, Idle, Call
<1>4. StaysInStep
    <2> SUFFICES ASSUME Live
                 PROVE  Stays(Choice(Offers(session), server.lists), Offers(session), wire')
        BY DEF StaysInStep
    <2>1. PICK m, offers : m = Choice(Offers(session), server.lists)
                           /\ offers = Offers(session)
        OBVIOUS
    <2>2. InStepNow(m, offers, kex, session, wire) BY <1>0, <2>1, NowInStep
    <2>3. InStepOf(m, offers, kex', session', wire', server)
        <3>1. CASE Requesting
            <4>1. PICK p, then : Request(session, p, then) /\ IsPacket(p)
                                 /\ p.type = USERAUTH_REQUEST
                BY <3>1 DEF Requesting
            <4> QED BY <1>3, <2>2, <4>1, RequestFits
        <3>2. CASE PacketRead
            <4>1. session' = session /\ kex' = kex /\ wire' = wire BY <3>2 DEF PacketRead
            <4>2. InStepOf(m, offers, kex, session, wire, server)
                BY <2>2 DEF InStepNow, Fits
            <4> QED BY <4>1, <4>2
        <3>3. CASE SessionDisconnect BY <1>3, <2>2, <3>3, SessionDisconnectFits
        <3> QED BY <3>1, <3>2, <3>3
    <2> QED BY <2>1, <2>3, InStepStays
<1> QED BY <1>1, <1>4, ClientKeys

\* The session begins.
LEMMA StartupKeys == ASSUME SessionInv, KeysInv, Startup PROVE KeysInv'
<1>0. BaseInv /\ (Live => InStep) BY DEF KeysInv
<1>1. ClientKept BY <1>0, StartupKept
<1>2. kex.step = "none" BY <1>0 DEF Startup, BaseInv, Exchanging
<1>3. StaysInStep
    <2> SUFFICES ASSUME Live
                 PROVE  Stays(Choice(Offers(session), server.lists), Offers(session), wire')
        BY DEF StaysInStep
    <2>1. PICK m, offers : m = Choice(Offers(session), server.lists)
                           /\ offers = Offers(session)
        OBVIOUS
    <2>2. InStepNow(m, offers, kex, session, wire) BY <1>0, <2>1, NowInStep
    <2>3. InStepOf(m, offers, kex', session', wire', server) BY <1>2, <2>2, StartupFits
    <2> QED BY <2>1, <2>3, InStepStays
<1> QED BY <1>1, <1>3, ClientKeys

\* Methods are preferred.
LEMMA MethodPrefKeys ==
    ASSUME SessionInv, KeysInv, NEW kind, NEW prefs, MethodPref(kind, prefs)
    PROVE  KeysInv'
<1>0. BaseInv /\ (Live => InStep) BY DEF KeysInv
<1>1. Keepable(session) BY <1>0, KeepableNow
<1>2. /\ server' = server /\ uses' = uses /\ wire' = wire /\ kex' = kex /\ call' = call
      /\ session.started = "no"
    BY DEF MethodPref
<1>3. \A f \in SessionFields \ {"prefs"} : session'[f] = session[f]
    BY <1>1 DEF MethodPref, Keepable, SessionFields
<1>4. /\ session'.started = session.started /\ session'.link = session.link
      /\ session'.exchanging = session.exchanging /\ session'.secrets = session.secrets
      /\ session'.out = session.out
    BY <1>3 DEF SessionFields
<1>5. BannerInv' BY <1>0, <1>2, <1>4 DEF BaseInv, BannerInv
<1>6. BaseInv' BY <1>0, <1>2, <1>4, <1>5 DEF BaseInv, Exchanging
<1>7. Live' => Live BY <1>2, <1>4 DEF Live, Hopes, Exchanging, Uncompressed
<1>8. ASSUME Live' PROVE InStep'
    <2>1. PICK m, offers : m = Choice(Offers(session), server.lists)
                           /\ offers = Offers(session)
        OBVIOUS
    <2>2. InStepNow(m, offers, kex, session, wire) BY <1>0, <1>7, <1>8, <2>1, NowInStep
    <2>3. PICK m2, offers2 : m2 = Choice(Offers(session'), server'.lists)
                             /\ offers2 = Offers(session')
        OBVIOUS
    <2>4. InStepOf(m2, offers2, kex', session', wire', server)
        BY <1>0, <2>2, MethodPrefFits
    <2>5. InStepOf(m2, offers2, kex', session', wire', server') BY <1>2, <2>4
    <2> QED BY <1>2, <2>3, <2>5, InStepNext
<1> QED BY <1>6, <1>8 DEF KeysInv

-----------------------------------------------------------------------------
(* Each action of the server keeps the two sides in step *)

\* No other banner line is on its way.
NoNewBanner(w, w2) ==
    \A i \in DOMAIN w2 : (i \in DOMAIN w /\ w2[i] = w[i]) \/ w2[i].type # BANNER_LINE

\* What a step of the server leaves as it was, whether the session is in step or not.
ServerKept ==
    /\ server'.lists = server.lists /\ server'.guess = server.guess
    /\ server.gone => server'.gone
    /\ \A p \in ToSet(server'.held) : p.type \in HeldTypes
    /\ NoNewBanner(wire, wire')

\* And the client, of which it may read a packet.
SessionLeft ==
    /\ kex' = kex /\ call' = call /\ uses' = uses
    /\ \A f \in SessionFields \ {"out", "link"} : session'[f] = session[f]
    /\ session.out = <<>> => session'.out = <<>>
    /\ session'.link = "up" => session.link = "up"

\* Packets are under keys when they are written, and else what they were.
LEMMA StampedAre ==
    ASSUME NEW r, IsSeq(r), NEW keys, NEW i \in 1..Len(r), IsPacket(r[i])
    PROVE  LET q == Stamped(r, keys)[i]
           IN  /\ IsPacket(q) /\ q.type = r[i].type /\ q.what = r[i].what
               /\ q.n = r[i].n /\ q.keys = keys
<1>1. Stamped(r, keys)[i] = Under(r[i], keys) BY StampedPlaces
<1>2. PICK p : p = r[i] OBVIOUS
<1>3. LET q == Under(p, keys)
      IN  IsPacket(q) /\ q.type = p.type /\ q.what = p.what /\ q.n = p.n /\ q.keys = keys
    BY <1>2, Rewritten
<1> QED BY <1>1, <1>2, <1>3

\* The server writes nothing.
LEMMA SilentKept ==
    ASSUME NEW srv, server' = srv, Silent,
           srv.lists = server.lists, srv.guess = server.guess, server.gone => srv.gone,
           \A p \in ToSet(srv.held) : p.type \in HeldTypes
    PROVE  ServerKept
BY DEF ServerKept, Silent, NoNewBanner

\* Packets that are no banner lines, written under some keys.
NoBanner(r) == IsSeq(r) /\ \A i \in 1..Len(r) : IsPacket(r[i]) /\ r[i].type # BANNER_LINE

\* They put no banner line on its way.
LEMMA WritesNoBanner ==
    ASSUME NEW w, IsSeq(w), NEW r, NoBanner(r), NEW keys
    PROVE  NoNewBanner(w, w \o Stamped(r, keys)) /\ IsSeq(w \o Stamped(r, keys))
<1>2. IsSeq(r) BY DEF NoBanner
<1>3. IsSeq(Stamped(r, keys)) /\ Len(Stamped(r, keys)) = Len(r) BY <1>2, StampedPlaces, SeqStamped
<1>4. PICK q : q = Stamped(r, keys) OBVIOUS
<1>5. PICK w2 : w2 = w \o q OBVIOUS
<1>6. Joined(w, q, w2) /\ IsSeq(w2) BY <1>3, <1>4, <1>5, ConcatPlaces, SeqConcat
<1>7. \A i \in 1..Len(q) : q[i].type # BANNER_LINE
    BY <1>2, <1>3, <1>4, StampedAre DEF NoBanner
<1>8. \A i \in DOMAIN w2 : (i \in DOMAIN w /\ w2[i] = w[i])
                           \/ \E j \in 1..Len(q) : w2[i] = q[j]
    BY <1>6, JoinedPlaces
<1>9. NoNewBanner(w, w2) BY <1>7, <1>8 DEF NoNewBanner
<1> QED BY <1>4, <1>5, <1>6, <1>9

\* The server writes packets behind those on their way.
LEMMA WritesKept ==
    ASSUME SessionInv, NEW srv, server' = srv,
           NEW r, NoBanner(r), NEW keys, wire' = wire \o Stamped(r, keys),
           srv.lists = server.lists, srv.guess = server.guess, server.gone => srv.gone,
           \A p \in ToSet(srv.held) : p.type \in HeldTypes
    PROVE  ServerKept
<1>1. IsSeq(wire) BY DEF SessionInv, WireOk
<1>2. NoNewBanner(wire, wire') BY <1>1, WritesNoBanner
<1> QED BY <1>2 DEF ServerKept

\* One packet, or two.
LEMMA FewNoBanner ==
    /\ \A p : IsPacket(p) /\ p.type # BANNER_LINE => NoBanner(<<p>>)
    /\ \A p, q : IsPacket(p) /\ p.type # BANNER_LINE /\ IsPacket(q) /\ q.type # BANNER_LINE
           => NoBanner(<<p, q>>)
<1>1. \A p : Len(<<p>>) = 1 /\ <<p>>[1] = p OBVIOUS
<1>2. \A p, q : Len(<<p, q>>) = 2 /\ <<p, q>>[1] = p /\ <<p, q>>[2] = q OBVIOUS
<1>3. \A i \in 1..1 : i = 1 OBVIOUS
<1>4. \A i \in 1..2 : i = 1 \/ i = 2 OBVIOUS
<1> QED BY <1>1, <1>2, <1>3, <1>4, SeqShort DEF NoBanner

\* After a step of the server what is true of every session is true still.
LEMMA ServerBase ==
    ASSUME SessionInv, BaseInv, ServerKept, SessionLeft
    PROVE  BaseInv' /\ (Live' => session'.link = "up" /\ ~server'.gone /\ Live)
           /\ Offers(session') = Offers(session)
           /\ Choice(Offers(session'), server'.lists) = Choice(Offers(session), server.lists)
<1>1. /\ session'.exchanging = session.exchanging /\ session'.secrets = session.secrets
      /\ session'.started = session.started /\ session'.prefs = session.prefs
      /\ kex' = kex /\ call' = call /\ uses' = uses
      /\ server'.lists = server.lists /\ server'.guess = server.guess
    BY DEF SessionLeft, ServerKept, SessionFields
<1>2. BannerInv'
    <2>1. PICK w : w = wire' OBVIOUS
    <2>2. \A i \in DOMAIN w : (i \in DOMAIN wire /\ w[i] = wire[i])
                              \/ w[i].type # BANNER_LINE
        BY <2>1 DEF ServerKept, NoNewBanner
    <2>3. \A i \in DOMAIN w : w[i].type = BANNER_LINE =>
              i = 1 /\ ~session.exchanging /\ session.secrets = 0
        BY <2>2 DEF BaseInv, BannerInv
    <2> QED BY <1>1, <2>1, <2>3 DEF BannerInv
<1>3. BaseInv'
    BY <1>1, <1>2 DEF BaseInv, Exchanging, SessionLeft, ServerKept
<1>4. Live' => session'.link = "up" /\ ~server'.gone /\ Live
    BY <1>1 DEF Live, Hopes, Exchanging, Uncompressed, SessionLeft, ServerKept
<1>5. Offers(session') = Offers(session) BY <1>1 DEF Offers, Offer
<1> QED BY <1>1, <1>3, <1>4, <1>5

\* A step of the server that keeps the invariant: the two sides stay in step, unless one
\* of them is gone.
ServesInStep ==
    Live /\ session'.link = "up" /\ ~server'.gone =>
        InStepOf(Choice(Offers(session), server.lists), Offers(session),
                 kex', session', wire', server')

\* Such a step keeps the invariant.
LEMMA ServerKeys ==
    ASSUME SessionInv, KeysInv, ServerKept, SessionLeft, ServesInStep
    PROVE  KeysInv'
<1>1. BaseInv BY DEF KeysInv
<1>2. BaseInv' /\ (Live' => session'.link = "up" /\ ~server'.gone /\ Live)
      /\ Offers(session') = Offers(session)
      /\ Choice(Offers(session'), server'.lists) = Choice(Offers(session), server.lists)
    BY <1>1, ServerBase
<1>3. ASSUME Live' PROVE InStep'
    <2>1. PICK m, offers : m = Choice(Offers(session), server.lists)
                           /\ offers = Offers(session)
        OBVIOUS
    <2>2. InStepOf(m, offers, kex', session', wire', server')
        BY <1>2, <1>3, <2>1 DEF ServesInStep
    <2>3. m = Choice(Offers(session'), server'.lists) /\ offers = Offers(session')
          /\ uses' = uses
        BY <1>2, <2>1 DEF SessionLeft
    <2> QED BY <2>2, <2>3, InStepNext
<1> QED BY <1>2, <1>3 DEF KeysInv

\* A server that differs from the server in nothing that is about an exchange.
AnswersAs(srv) ==
    /\ DOMAIN srv = ServerFields
    /\ \A f \in ServerFields \ {"authenticated", "challenges", "prompts", "greeted"} :
          srv[f] = server[f]

\* It is the same server, as far as the keys are concerned.
LEMMA AnswersAsIs ==
    ASSUME SessionInv, NEW srv, AnswersAs(srv)
    PROVE  /\ srv.lists = server.lists /\ srv.guess = server.guess /\ srv.gone = server.gone
           /\ srv.held = server.held /\ srv.kex = server.kex /\ srv.out = server.out
           /\ ServersAlike(server, srv, {}) /\ DOMAIN srv = ServerFields
<1>1. DOMAIN server = ServerFields BY DEF SessionInv, ServerOk
<1>2. ServersAlike(server, srv, {})
    BY <1>1 DEF ServersAlike, AnswersAs, RelevantOfServer, ServerFields
<1> QED BY <1>2 DEF AnswersAs, ServerFields

\* The server itself does.
LEMMA ServerAnswersAs == ASSUME SessionInv PROVE AnswersAs(server)
BY DEF SessionInv, ServerOk, AnswersAs

\* Answers are no packets of an exchange.
LEMMA HeldOrdinary ==
    ASSUME NEW p, IsPacket(p), p.type \in HeldTypes
    PROVE  /\ p.type \notin {KEXINIT, NEWKEYS, BANNER_LINE} /\ ~ShowsKey(p)
           /\ NoBanner(<<p>>)
<1>1. /\ p.type \notin {KEXINIT, NEWKEYS, BANNER_LINE} /\ p.type \notin Replies
    BY Types DEF PacketTypes, HeldTypes, Replies
<1> QED BY <1>1, FewNoBanner DEF ShowsKey

\* An answer, written or held.
LEMMA AnswerKept ==
    ASSUME SessionInv, BaseInv, NEW srv, AnswersAs(srv),
           NEW p, IsPacket(p), p.type \in HeldTypes, Answer(srv, p)
    PROVE  ServerKept
<1>1. /\ srv.lists = server.lists /\ srv.guess = server.guess /\ srv.gone = server.gone
      /\ srv.held = server.held /\ srv.kex = server.kex /\ srv.out = server.out
      /\ DOMAIN srv = ServerFields
    BY AnswersAsIs
<1>2. \A q \in ToSet(srv.held) : q.type \in HeldTypes BY <1>1 DEF BaseInv
<1>3. CASE srv.kex \in {"none", "newkeys"}
    <2>1. server' = srv /\ wire' = wire \o Stamped(<<p>>, srv.out)
        BY <1>3 DEF Answer, Writes
    <2>2. PICK r : r = <<p>> OBVIOUS
    <2>3. NoBanner(r) BY <2>2, HeldOrdinary
    <2> QED BY <1>1, <1>2, <2>1, <2>2, <2>3, WritesKept
<1>4. CASE srv.kex \notin {"none", "newkeys"}
    <2> DEFINE t == [srv EXCEPT !.held = Append(srv.held, p)]
    <2>1. server' = t /\ Silent BY <1>4 DEF Answer
    <2>2. /\ t.lists = srv.lists /\ t.guess = srv.guess /\ t.gone = srv.gone
          /\ t.held = Append(srv.held, p)
        BY <1>1 DEF ServerFields
    <2> HIDE DEF t
    <2>3. IsSeq(srv.held) BY <1>1 DEF SessionInv, ServerOk
    <2>4. ToSet(Append(srv.held, p)) \subseteq ToSet(srv.held) \cup {p} BY <2>3, SeqAppend
    <2>5. \A q \in ToSet(t.held) : q.type \in HeldTypes BY <1>2, <2>2, <2>4
    <2> QED BY <1>1, <2>1, <2>2, <2>5, SilentKept
<1> QED BY <1>3, <1>4

\* A packet that is not of an exchange, written under the server's keys.
LEMMA WritesOneFits ==
    ASSUME NEW m, NEW offers, NEW t, Fits(m, offers, kex, t, wire, server),
           NEW p, IsPacket(p), p.type \notin {KEXINIT, NEWKEYS}, ~ShowsKey(p),
           NEW w, w = wire \o Stamped(<<p>>, server.out)
    PROVE  InStepOf(m, offers, kex, t, w, server)
<1>1. IsSeq(wire) BY DEF Fits, Sane
<1>2. PICK r : r = <<p>> OBVIOUS
<1>3. IsSeq(r) /\ Len(r) = 1 /\ r[1] = p BY <1>2, SeqShort
<1>4. PICK q : q = Stamped(r, server.out) OBVIOUS
<1>5. IsSeq(q) /\ Len(q) = 1 BY <1>3, <1>4, StampedPlaces, SeqStamped
<1>6. Joined(wire, q, w) BY <1>1, <1>2, <1>4, <1>5, ConcatPlaces
<1>7. 1 \in 1..Len(r) BY <1>3
<1>8. /\ q[1].type = p.type /\ q[1].what = p.what /\ q[1].keys = server.out
    BY <1>3, <1>4, <1>7, StampedAre
<1>9. Ordinary(q[1], server.out) BY <1>8 DEF Ordinary, ShowsKey
<1>10. \A i \in 1..Len(q) : Ordinary(q[i], server.out)
    <2>1. \A i \in 1..1 : i = 1 OBVIOUS
    <2> QED BY <1>5, <1>9, <2>1
<1> QED BY <1>6, <1>10, AnsweredFits

\* An answer leaves the two in step.
LEMMA AnswerFits ==
    ASSUME SessionInv, NEW m, NEW offers, NEW t, Fits(m, offers, kex, t, wire, server),
           NEW srv, AnswersAs(srv), NEW p, IsPacket(p), p.type \in HeldTypes, Answer(srv, p)
    PROVE  InStepOf(m, offers, kex, t, wire', server')
<1>1. /\ srv.kex = server.kex /\ srv.out = server.out
      /\ ServersAlike(server, srv, {}) /\ DOMAIN srv = ServerFields
    BY AnswersAsIs
<1>2. CASE srv.kex \in {"none", "newkeys"}
    <2>1. server' = srv /\ wire' = wire \o Stamped(<<p>>, server.out)
        BY <1>1, <1>2 DEF Answer, Writes
    <2>2. PICK w : w = wire' OBVIOUS
    <2>3. InStepOf(m, offers, kex, t, w, server)
        BY <2>1, <2>2, HeldOrdinary, WritesOneFits
    <2>4. InStepOf(m, offers, kex, t, w, srv) BY <1>1, <2>3, SameServerFits
    <2> QED BY <2>1, <2>2, <2>4
<1>3. CASE srv.kex \notin {"none", "newkeys"}
    <2> DEFINE u == [srv EXCEPT !.held = Append(srv.held, p)]
    <2>1. server' = u /\ wire' = wire BY <1>3 DEF Answer, Silent
    <2>2. DOMAIN u = ServerFields /\ \A f \in ServerFields \ {"held"} : u[f] = srv[f]
        BY <1>1
    <2> HIDE DEF u
    <2>3. ServersAlike(server, u, {})
        BY <1>1, <2>2 DEF ServersAlike, RelevantOfServer, ServerFields
    <2>4. InStepOf(m, offers, kex, t, wire, u) BY <2>3, SameServerFits DEF Fits
    <2> QED BY <2>1, <2>4
<1> QED BY <1>2, <1>3

\* The answers to requests.
LEMMA AnswersAre ==
    ASSUME SessionInv,
           \/ Succeeds \/ FailsIt \/ \E what : Challenges(what)
           \/ \E name : Answer(server, Msg(SERVICE_ACCEPT, name, 0))
    PROVE  \E srv, p : AnswersAs(srv) /\ IsPacket(p) /\ p.type \in HeldTypes /\ Answer(srv, p)
<1>0. DOMAIN server = ServerFields BY DEF SessionInv, ServerOk
<1>1. CASE Succeeds
    <2> DEFINE t == [server EXCEPT !.authenticated = TRUE]
               p == Msg(USERAUTH_SUCCESS, "", 0)
    <2>1. Answer(t, p) BY <1>1 DEF Succeeds
    <2>2. AnswersAs(t) BY <1>0 DEF AnswersAs
    <2>3. IsPacket(p) /\ p.type \in HeldTypes BY DEF Msg, IsPacket, HeldTypes
    <2> HIDE DEF t, p
    <2> QED BY <2>1, <2>2, <2>3
<1>2. CASE FailsIt
    <2> DEFINE p == Msg(USERAUTH_FAILURE, "", 0)
    <2>1. Answer(server, p) BY <1>2 DEF FailsIt
    <2>2. AnswersAs(server) BY ServerAnswersAs
    <2>3. IsPacket(p) /\ p.type \in HeldTypes BY DEF Msg, IsPacket, HeldTypes
    <2> HIDE DEF p
    <2> QED BY <2>1, <2>2, <2>3
<1>3. ASSUME NEW what, Challenges(what)
      PROVE  \E srv, p : AnswersAs(srv) /\ IsPacket(p) /\ p.type \in HeldTypes
                         /\ Answer(srv, p)
    <2>1. PICK n :
            Answer([server EXCEPT !.challenges = server.challenges + 1, !.prompts = n],
                   Msg(USERAUTH_PK_OK, what, n))
        BY <1>3 DEF Challenges
    <2> DEFINE t == [server EXCEPT !.challenges = server.challenges + 1, !.prompts = n]
               p == Msg(USERAUTH_PK_OK, what, n)
    <2>2. AnswersAs(t) BY <1>0 DEF AnswersAs
    <2>3. IsPacket(p) /\ p.type \in HeldTypes BY DEF Msg, IsPacket, HeldTypes
    <2>4. Answer(t, p) BY <2>1
    <2> HIDE DEF t, p
    <2> QED BY <2>2, <2>3, <2>4
<1>4. ASSUME NEW name, Answer(server, Msg(SERVICE_ACCEPT, name, 0))
      PROVE  \E srv, p : AnswersAs(srv) /\ IsPacket(p) /\ p.type \in HeldTypes
                         /\ Answer(srv, p)
    <2> DEFINE p == Msg(SERVICE_ACCEPT, name, 0)
    <2>1. Answer(server, p) BY <1>4
    <2>2. AnswersAs(server) BY ServerAnswersAs
    <2>3. IsPacket(p) /\ p.type \in HeldTypes BY DEF Msg, IsPacket, HeldTypes
    <2> HIDE DEF p
    <2> QED BY <2>1, <2>2, <2>3
<1> QED BY <1>1, <1>2, <1>3, <1>4

\* The server says that it leaves, and then it is gone.
LEMMA ServerLeavesKept ==
    ASSUME SessionInv, BaseInv, ServerLeaves
    PROVE  ServerKept /\ server'.gone
<1> DEFINE t == [server EXCEPT !.gone = TRUE]
           p == Msg(DISCONNECT, "", 0)
<1>1. server' = t /\ wire' = wire \o Stamped(<<p>>, server.out)
    BY DEF ServerLeaves, Writes
<1>2. t.gone /\ t.lists = server.lists /\ t.guess = server.guess /\ t.held = server.held
    BY DEF SessionInv, ServerOk, ServerFields
<1>3. IsPacket(p) /\ p.type = DISCONNECT BY DEF Msg, IsPacket
<1> HIDE DEF t, p
<1>4. PICK r : r = <<p>> OBVIOUS
<1>5. NoBanner(r) BY <1>3, <1>4, FewNoBanner, Types DEF PacketTypes
<1>6. \A q \in ToSet(t.held) : q.type \in HeldTypes BY <1>2 DEF BaseInv
<1>7. ServerKept BY <1>1, <1>2, <1>4, <1>5, <1>6, WritesKept
<1> QED BY <1>1, <1>2, <1>7

\* The server reads the first packet of ours: t is the session without it.
Handling(m, offers, p, t) ==
    /\ Fits(m, offers, kex, session, wire, server) /\ m = Choice(offers, server.lists)
    /\ session.out # <<>> /\ p = session.out[1]
    /\ DOMAIN t = SessionFields /\ Shorter(session.out, t.out)
    /\ \A f \in SessionFields \ {"out"} : t[f] = session[f]

\* What is known when it reads it.
LEMMA HandlingHas ==
    ASSUME NEW m, NEW offers, NEW p, NEW t, Handling(m, offers, p, t)
    PROVE  /\ Fits(m, offers, kex, session, wire, server)
           /\ session.out # <<>> /\ p = session.out[1] /\ 1 \in DOMAIN session.out
           /\ Alike(session, t, {"out"}) /\ Shorter(session.out, t.out)
           /\ Sane(kex, t, wire, server)
<1>1. /\ Fits(m, offers, kex, session, wire, server)
      /\ session.out # <<>> /\ p = session.out[1] /\ Shorter(session.out, t.out)
      /\ DOMAIN t = SessionFields
      /\ \A f \in SessionFields \ {"out"} : t[f] = session[f]
    BY DEF Handling
<1>2. Sane(kex, session, wire, server) BY <1>1 DEF Fits
<1>3. Alike(session, t, {"out"}) BY <1>1, <1>2 DEF Alike, Relevant, SessionFields, Sane
<1>4. IsSeq(t.out) BY <1>1 DEF Shorter, Placed
<1>5. /\ t.secrets = session.secrets /\ t.packets = session.packets
      /\ t.newkeys = session.newkeys /\ t.session_id = session.session_id
    BY <1>1 DEF SessionFields
<1>6. Sane(kex, t, wire, server) BY <1>1, <1>2, <1>4, <1>5 DEF Sane
<1>7. 1 \in DOMAIN session.out BY <1>1, ShorterPlaces
<1> QED BY <1>1, <1>3, <1>6, <1>7

\* A packet that is not of an exchange is read.
LEMMA HandledNow ==
    ASSUME NEW m, NEW offers, NEW p, NEW t, Handling(m, offers, p, t),
           p.type \notin {KEXINIT, NEWKEYS} \cup Values
    PROVE  Fits(m, offers, kex, t, wire, server)
<1>1. /\ Fits(m, offers, kex, session, wire, server)
      /\ session.out # <<>> /\ p = session.out[1]
      /\ Alike(session, t, {"out"}) /\ Shorter(session.out, t.out)
      /\ Sane(kex, t, wire, server)
    BY HandlingHas
<1>2. InStepOf(m, offers, kex, t, wire, server) BY <1>1, HandledFits
<1> QED BY <1>1, <1>2 DEF Fits

\* Our KEXINIT is read.
LEMMA ServerAgreesKept ==
    ASSUME SessionInv, BaseInv, NEW choice, ServerAgrees(choice)
    PROVE  ServerKept
<1> DEFINE u == [server EXCEPT !.kex = "init", !.method = choice]
<1>1. ServerLeaves \/ (server' = u /\ Silent) BY DEF ServerAgrees
<1>2. CASE ServerLeaves BY <1>2, ServerLeavesKept
<1>3. CASE server' = u /\ Silent
    <2>1. /\ u.lists = server.lists /\ u.guess = server.guess
          /\ u.gone = server.gone /\ u.held = server.held
        BY DEF SessionInv, ServerOk, ServerFields
    <2> HIDE DEF u
    <2>2. \A p \in ToSet(u.held) : p.type \in HeldTypes BY <2>1 DEF BaseInv
    <2> QED BY <1>3, <2>1, <2>2, SilentKept
<1> QED BY <1>1, <1>2, <1>3

\* Our KEXINIT, from which the server takes the methods that we take, too.
LEMMA ServerAgreesNow ==
    ASSUME NEW m, NEW offers, NEW p, NEW t, Handling(m, offers, p, t),
           p.type = KEXINIT, ServerAgrees(ServersChoice(p.what))
    PROVE  server'.gone \/ InStepOf(m, offers, kex, t, wire', server')
<1>1. /\ Fits(m, offers, kex, session, wire, server)
      /\ session.out # <<>> /\ p = session.out[1] /\ 1 \in DOMAIN session.out
      /\ Alike(session, t, {"out"}) /\ Shorter(session.out, t.out)
      /\ Sane(kex, t, wire, server)
    BY HandlingHas
<1>2. p.what = offers
    <2>1. AskInv(session.out, kex.step, server.kex, offers) BY <1>1, FitsHas
    <2> QED BY <1>1, <2>1 DEF AskInv
<1>3. ServersChoice(p.what) = m BY <1>2, ServerChooses DEF Handling
<1> DEFINE u == [server EXCEPT !.kex = "init", !.method = m]
<1>4. ServerLeaves \/ (server' = u /\ wire' = wire)
    BY <1>3 DEF ServerAgrees, Silent
<1>5. DOMAIN server = ServerFields BY <1>1 DEF Sane
<1>6. CASE ServerLeaves BY <1>5, <1>6 DEF ServerLeaves, ServerFields
<1>7. CASE server' = u /\ wire' = wire
    <2>1. /\ DOMAIN u = ServerFields /\ u.kex = "init" /\ u.method = m
          /\ \A f \in ServerFields \ {"kex", "method"} : u[f] = server[f]
        BY <1>5 DEF ServerFields
    <2> HIDE DEF u
    <2>2. ServersAlike(server, u, {"kex", "method"})
        BY <1>5, <2>1 DEF ServersAlike, RelevantOfServer, ServerFields
    <2>3. session.out[1].type = KEXINIT BY <1>1
    <2>4. InStepOf(m, offers, kex, t, wire, u) BY <1>1, <2>1, <2>2, <2>3, ServerAgreesFits
    <2> QED BY <1>7, <2>4
<1> QED BY <1>4, <1>6, <1>7

\* The server's identifier of the session is that of the first exchange.
LEMMA ServersIdIs == ASSUME SessionInv PROVE ServersId = 1
BY DEF SessionInv, ServerOk, ServersId

\* NEWKEYS is read.
LEMMA ServerTurnsKept ==
    ASSUME SessionInv, BaseInv, ServerTurns
    PROVE  ServerKept
<1> DEFINE keys == Keys(server.method, Out, server.n, ServersId, server.n)
           id == IF server.id = 0 THEN server.n ELSE server.id
           u == [server EXCEPT !.kex = "none", !.id = id, !.in = keys]
<1>1. server' = u /\ Silent BY DEF ServerTurns
<1> HIDE DEF keys, id
<1>2. /\ u.lists = server.lists /\ u.guess = server.guess
      /\ u.gone = server.gone /\ u.held = server.held
    BY DEF SessionInv, ServerOk, ServerFields
<1> HIDE DEF u
<1>3. \A p \in ToSet(u.held) : p.type \in HeldTypes BY <1>2 DEF BaseInv
<1> QED BY <1>1, <1>2, <1>3, SilentKept

\* Our NEWKEYS, from which on the server reads with the keys we write with.
LEMMA ServerTurnsNow ==
    ASSUME SessionInv, NEW m, NEW offers, NEW p, NEW t, Handling(m, offers, p, t),
           p.type = NEWKEYS, ServerTurns
    PROVE  InStepOf(m, offers, kex, t, wire', server')
<1>1. /\ Fits(m, offers, kex, session, wire, server)
      /\ session.out # <<>> /\ p = session.out[1] /\ 1 \in DOMAIN session.out
      /\ Alike(session, t, {"out"}) /\ Shorter(session.out, t.out)
      /\ Sane(kex, t, wire, server)
    BY HandlingHas
<1> DEFINE keys == Keys(server.method, Out, server.n, ServersId, server.n)
           id == IF server.id = 0 THEN server.n ELSE server.id
           u == [server EXCEPT !.kex = "none", !.id = id, !.in = keys]
<1>2. server' = u /\ wire' = wire BY DEF ServerTurns, Silent
<1>3. server.method = m /\ server.n \in Nat /\ server.n > 0
    <2>1. Phase(kex.step, server.kex, session.secrets, server.n) BY <1>1, FitsHas
    <2>2. MethodInv(session, kex.step, m, server) BY <1>1, FitsHas
    <2>3. Turning(session.out, KeysAt(m, Out, Reads(server.kex, server.n)),
                  KeysAt(m, Out, Reads(server.kex, server.n) + 1),
                  OursTurns(kex.step, server.kex))
        BY <1>1, FitsHas
    <2>4. Has(session.out, NEWKEYS) BY <1>1 DEF Has
    <2>5. OursTurns(kex.step, server.kex) BY <2>3, <2>4 DEF Turning
    <2>6. server.kex = "newkeys" BY <2>5 DEF OursTurns
    <2> QED BY <2>1, <2>2, <2>6 DEF MethodInv, Phase
<1>4. keys = KeysAt(m, Out, server.n)
    <2>1. server.n # 0 BY <1>3
    <2> QED BY <1>3, <2>1, ServersIdIs DEF KeysAt
<1>5. DOMAIN server = ServerFields BY <1>1 DEF Sane
<1> HIDE DEF keys, id
<1>6. /\ DOMAIN u = ServerFields /\ u.kex = "none" /\ u.in = keys
      /\ \A f \in ServerFields \ {"kex", "id", "in"} : u[f] = server[f]
    BY <1>5 DEF ServerFields
<1> HIDE DEF u
<1>7. ServersAlike(server, u, {"kex", "in"})
    BY <1>5, <1>6 DEF ServersAlike, RelevantOfServer, ServerFields
<1>8. session.out[1].type = NEWKEYS BY <1>1
<1>9. InStepOf(m, offers, kex, t, wire, u)
    BY <1>1, <1>4, <1>6, <1>7, <1>8, TurnsServerFits
<1> QED BY <1>2, <1>9

\* What the server writes when it has our value: its reply and NEWKEYS, and behind them,
\* under its new keys, what it held.
Replying(type, signed, out, u) ==
    /\ IsSeq(signed) /\ Len(signed) = 2
    /\ IsPacket(signed[1]) /\ signed[1].type = type /\ signed[1].n = server.n
    /\ IsPacket(signed[2]) /\ signed[2].type = NEWKEYS
    /\ out = Keys(server.method, In, server.n, ServersId, server.n)
    /\ DOMAIN u = ServerFields /\ u.kex = "newkeys" /\ u.out = out /\ u.held = <<>>
    /\ \A f \in ServerFields \ {"kex", "out", "held"} : u[f] = server[f]
    /\ server' = u
    /\ wire' = (wire \o Stamped(signed, server.out)) \o Stamped(server.held, out)

\* That is what ServerReplies writes.
LEMMA RepliesAre ==
    ASSUME SessionInv, NEW type, NEW over, ServerReplies(type, over)
    PROVE  \E signed, out, u : Replying(type, signed, out, u)
<1> DEFINE key == server.method["HOSTKEY"]
           sig == Signature(key, over, IF key = "ssh-dss" THEN 40 ELSE 256)
           out == Keys(server.method, In, server.n, ServersId, server.n)
           what == [blob |-> key, sig |-> sig]
           p == Msg(type, what, server.n)
           q == Msg(NEWKEYS, "", server.n)
           u == [server EXCEPT !.kex = "newkeys", !.out = out, !.held = <<>>]
<1>1. /\ server' = u
      /\ wire' = wire \o Stamped(<<p, q>>, server.out) \o Stamped(server.held, out)
    BY DEF ServerReplies
<1>2. IsPacket(p) /\ p.type = type /\ p.n = server.n BY Written
<1>3. IsPacket(q) /\ q.type = NEWKEYS BY DEF Msg, IsPacket
<1>4. PICK keys : keys = out OBVIOUS
<1> HIDE DEF out, what
<1>5. /\ DOMAIN u = ServerFields /\ u.kex = "newkeys" /\ u.held = <<>> /\ u.out = out
      /\ \A f \in ServerFields \ {"kex", "out", "held"} : u[f] = server[f]
    BY DEF SessionInv, ServerOk, ServerFields
<1> HIDE DEF p, q, u
<1>6. PICK signed : signed = <<p, q>> OBVIOUS
<1>7. IsSeq(signed) /\ Len(signed) = 2 /\ signed[1] = p /\ signed[2] = q
    BY <1>6, SeqShort
<1>8. keys = Keys(server.method, In, server.n, ServersId, server.n)
    BY <1>4 DEF out
<1>9. wire' = (wire \o Stamped(signed, server.out)) \o Stamped(server.held, keys)
    BY <1>1, <1>4, <1>6
<1>10. Replying(type, signed, keys, u)
    BY <1>1, <1>2, <1>3, <1>4, <1>5, <1>7, <1>8, <1>9 DEF Replying
<1> QED BY <1>10

\* Packets that the server held are packets.
LEMMA HeldArePackets ==
    ASSUME SessionInv, BaseInv
    PROVE  /\ NoBanner(server.held)
           /\ \A i \in 1..Len(server.held) :
                 IsPacket(server.held[i]) /\ server.held[i].type \in HeldTypes
<1>1. IsSeq(server.held) /\ \A p \in ToSet(server.held) : IsPacket(p)
    BY DEF SessionInv, ServerOk, Incoming
<1>2. Placed(server.held) BY <1>1, PlacedOk
<1>3. \A i \in 1..Len(server.held) : server.held[i] \in ToSet(server.held)
    BY <1>2 DEF Placed, ToSet
<1>4. \A i \in 1..Len(server.held) :
          IsPacket(server.held[i]) /\ server.held[i].type \in HeldTypes
    BY <1>1, <1>3 DEF BaseInv
<1>5. BANNER_LINE \notin HeldTypes BY Types DEF PacketTypes, HeldTypes
<1> QED BY <1>1, <1>4, <1>5 DEF NoBanner

\* None of them is a banner line.
LEMMA ServerRepliesKept ==
    ASSUME SessionInv, BaseInv, NEW type \in Replies, NEW over, ServerReplies(type, over)
    PROVE  ServerKept
<1>1. \E signed, out, u : Replying(type, signed, out, u) BY RepliesAre
<1>2. PICK signed, out, u : Replying(type, signed, out, u) BY <1>1
<1>3. IsSeq(wire) BY DEF SessionInv, WireOk
<1>4. NoBanner(signed)
    <2>1. type # BANNER_LINE /\ NEWKEYS # BANNER_LINE BY Types DEF PacketTypes, Replies
    <2>2. \A i \in 1..2 : i = 1 \/ i = 2 OBVIOUS
    <2> QED BY <1>2, <2>1, <2>2 DEF NoBanner, Replying
<1>5. PICK w : w = wire \o Stamped(signed, server.out) OBVIOUS
<1>6. IsSeq(w) /\ NoNewBanner(wire, w) BY <1>3, <1>4, <1>5, WritesNoBanner
<1>7. NoNewBanner(w, w \o Stamped(server.held, out))
    BY <1>6, HeldArePackets, WritesNoBanner
<1>8. wire' = w \o Stamped(server.held, out) BY <1>2, <1>5 DEF Replying
<1>9. NoNewBanner(wire, wire') BY <1>6, <1>7, <1>8 DEF NoNewBanner
<1>10. /\ server' = u /\ u.held = <<>> /\ u.lists = server.lists
       /\ u.guess = server.guess /\ u.gone = server.gone
    BY <1>2 DEF Replying, ServerFields
<1>11. ToSet(<<>>) = {} BY SeqShort
<1> QED BY <1>9, <1>10, <1>11 DEF ServerKept

\* Our value is read, and answered.
LEMMA ServerRepliesNow ==
    ASSUME SessionInv, BaseInv, NEW m, NEW offers, NEW p, NEW t,
           Handling(m, offers, p, t), p.type \in Values, NEW over,
           NEW type, type = (IF p.type = KEX_DH_GEX_INIT THEN KEX_DH_GEX_REPLY ELSE KEXDH_REPLY),
           ServerReplies(type, over)
    PROVE  InStepOf(m, offers, kex, t, wire', server')
<1>1. /\ Fits(m, offers, kex, session, wire, server)
      /\ session.out # <<>> /\ p = session.out[1] /\ 1 \in DOMAIN session.out
      /\ Alike(session, t, {"out"}) /\ Shorter(session.out, t.out)
      /\ Sane(kex, t, wire, server)
    BY HandlingHas
<1>2. \E signed, out, u : Replying(type, signed, out, u) BY RepliesAre
<1>3. PICK signed, out, u : Replying(type, signed, out, u) BY <1>2
<1>4. server.method = m /\ server.n \in Nat /\ server.n > 0
    <2>1. Phase(kex.step, server.kex, session.secrets, server.n) BY <1>1, FitsHas
    <2>2. MethodInv(session, kex.step, m, server) BY <1>1, FitsHas
    <2>3. ValueInv(session.out, kex.step, server.kex, m) BY <1>1, FitsHas
    <2>4. KEXINIT \notin Values BY Types DEF PacketTypes, Values
    <2>5. server.kex = "init"
        <3>1. PICK q, q2, sk : q = session.out /\ q2 = t.out /\ sk = server.kex OBVIOUS
        <3>2. Shorter(q, q2) /\ ValueInv(q, kex.step, sk, m) /\ q[1].type \in Values
            BY <1>1, <2>3, <3>1
        <3>3. sk = "init" BY <2>4, <3>2, ValueTailValue
        <3> QED BY <3>1, <3>3
    <2> QED BY <2>1, <2>2, <2>5 DEF MethodInv, Phase
<1>5. out = KeysAt(m, In, server.n)
    <2>1. server.n # 0 BY <1>4
    <2> QED BY <1>3, <1>4, <2>1, ServersIdIs DEF KeysAt, Replying
<1>6. PICK r : r = Stamped(signed, server.out) OBVIOUS
<1>7. IsSeq(signed) /\ Len(signed) = 2 BY <1>3 DEF Replying
<1>8. IsSeq(r) /\ Len(r) = 2 BY <1>6, <1>7, StampedPlaces, SeqStamped
<1>9. 1 \in 1..Len(signed) /\ 2 \in 1..Len(signed) BY <1>7
<1>10. r[1].type = type /\ r[1].n = server.n /\ r[1].keys = server.out
    BY <1>3, <1>6, <1>7, <1>9, StampedAre DEF Replying
<1>11. r[2].type = NEWKEYS /\ r[2].keys = server.out
    BY <1>3, <1>6, <1>7, <1>9, StampedAre DEF Replying
<1>12. PICK w : w = wire \o r OBVIOUS
<1>13. IsSeq(wire) BY <1>1 DEF Sane
<1>14. Joined(wire, r, w) /\ IsSeq(w) BY <1>8, <1>12, <1>13, ConcatPlaces, SeqConcat
<1>15. /\ DOMAIN u = ServerFields /\ u.kex = "newkeys" /\ u.out = out /\ u.held = <<>>
       /\ \A f \in ServerFields \ {"kex", "out", "held"} : u[f] = server[f]
       /\ server' = u /\ wire' = w \o Stamped(server.held, out)
    BY <1>3, <1>6, <1>12 DEF Replying
<1>16. DOMAIN server = ServerFields BY <1>1 DEF Sane
<1>17. ServersAlike(server, u, {"kex", "out"})
    BY <1>15, <1>16 DEF ServersAlike, RelevantOfServer, ServerFields
<1>18. /\ session.out[1].type \in Values
       /\ type = (IF session.out[1].type = KEX_DH_GEX_INIT THEN KEX_DH_GEX_REPLY
                                                          ELSE KEXDH_REPLY)
    BY <1>1
<1>19. u.out = KeysAt(m, In, server.n) BY <1>5, <1>15
<1>20. InStepOf(m, offers, kex, t, w, u)
    BY <1>1, <1>8, <1>10, <1>11, <1>14, <1>15, <1>17, <1>18, <1>19, RepliesFits
<1>21. Sane(kex, t, w, u) BY <1>1, <1>14, <1>15, SeqShort DEF Sane
<1>22. Fits(m, offers, kex, t, w, u) BY <1>20, <1>21 DEF Fits
<1>23. PICK h, r2 : h = server.held /\ r2 = Stamped(server.held, out) OBVIOUS
<1>24. IsSeq(h) BY <1>23, HeldArePackets DEF NoBanner
<1>25. IsSeq(r2) /\ Len(r2) = Len(h) BY <1>23, <1>24, StampedPlaces, SeqStamped
<1>26. PICK w2 : w2 = w \o r2 OBVIOUS
<1>27. Joined(w, r2, w2) BY <1>14, <1>25, <1>26, ConcatPlaces
<1>28. \A i \in 1..Len(r2) : Ordinary(r2[i], u.out)
    <2> SUFFICES ASSUME NEW i \in 1..Len(r2) PROVE Ordinary(r2[i], u.out) OBVIOUS
    <2>1. i \in 1..Len(h) BY <1>25
    <2>2. IsPacket(h[i]) /\ h[i].type \in HeldTypes BY <1>23, <2>1, HeldArePackets
    <2>3. PICK a, b : a = h[i] /\ b = r2[i] OBVIOUS
    <2>4. b.type = a.type /\ b.what = a.what /\ b.keys = out
        BY <1>23, <1>24, <2>1, <2>2, <2>3, StampedAre
    <2>5. IsPacket(a) /\ a.type \in HeldTypes BY <2>2, <2>3
    <2>6. a.type \notin {KEXINIT, NEWKEYS} /\ ~ShowsKey(a) BY <2>5, HeldOrdinary
    <2>7. Ordinary(b, out) BY <2>4, <2>6 DEF Ordinary, ShowsKey
    <2> QED BY <1>15, <2>3, <2>7
<1>29. InStepOf(m, offers, kex, t, w2, u) BY <1>22, <1>27, <1>28, AnsweredFits
<1> QED BY <1>15, <1>23, <1>26, <1>29

\* A group is written, which is no key.
Group == Msg(KEX_DH_GEX_GROUP, [blob |-> "group"], server.n)

\* It is no packet that the invariant is about.
LEMMA GroupIs ==
    /\ IsPacket(Group) /\ ~ShowsKey(Group)
    /\ Group.type \notin {KEXINIT, NEWKEYS, BANNER_LINE}
<1> DEFINE what == [blob |-> "group"]
<1>1. what.blob \in Unkeyed BY DEF Unkeyed
<1> HIDE DEF what
<1>2. Group = Msg(KEX_DH_GEX_GROUP, what, server.n) BY DEF what, Group
<1>3. IsPacket(Group) /\ Group.type = KEX_DH_GEX_GROUP /\ Group.what = what BY <1>2, Written
<1>4. ~ShowsKey(Group) BY <1>1, <1>3 DEF ShowsKey
<1> QED BY <1>3, <1>4, Types DEF PacketTypes

\* Writing it leaves the base of the invariant as it was.
LEMMA GroupKept ==
    ASSUME SessionInv, BaseInv, server' = server, Writes(server, <<Group>>)
    PROVE  ServerKept
<1>1. wire' = wire \o Stamped(<<Group>>, server.out) BY DEF Writes
<1>2. PICK r : r = <<Group>> OBVIOUS
<1>3. NoBanner(r) BY <1>2, FewNoBanner, GroupIs
<1>4. \A p \in ToSet(server.held) : p.type \in HeldTypes BY DEF BaseInv
<1> QED BY <1>1, <1>2, <1>3, <1>4, WritesKept

\* What the server does with a packet of ours, when the two are in step or not.
LEMMA ServerAuthenticatesAs ==
    ASSUME NEW p, ServerAuthenticates(p)
    PROVE  \/ server' = server /\ Silent
           \/ Succeeds \/ FailsIt \/ \E what : Challenges(what)
BY DEF ServerAuthenticates

\* Whatever the packet, the base of the invariant is as it was.
LEMMA ServerHandlesKept ==
    ASSUME SessionInv, BaseInv, NEW p, ServerHandles(p)
    PROVE  ServerKept
<1>0. \A q \in ToSet(server.held) : q.type \in HeldTypes BY DEF BaseInv
<1>1. CASE p.keys # server.in BY <1>1, ServerLeavesKept DEF ServerHandles
<1>2. CASE p.keys = server.in
    <2>1. \/ server' = server /\ Silent
          \/ server' = [server EXCEPT !.gone = TRUE] /\ Silent
          \/ ServerAgrees(ServersChoice(p.what))
          \/ \E type \in Replies : \E over : ServerReplies(type, over)
          \/ server' = server /\ Writes(server, <<Group>>)
          \/ ServerTurns
          \/ \E name : Answer(server, Msg(SERVICE_ACCEPT, name, 0))
          \/ FailsIt \/ \E q : ServerAuthenticates(q)
        BY <1>2 DEF ServerHandles, Group, Replies
    <2>2. CASE server' = server /\ Silent BY <1>0, <2>2, SilentKept
    <2>3. CASE server' = [server EXCEPT !.gone = TRUE] /\ Silent
        <3> DEFINE u == [server EXCEPT !.gone = TRUE]
        <3>1. /\ u.lists = server.lists /\ u.guess = server.guess
              /\ u.gone = TRUE /\ u.held = server.held
            BY DEF SessionInv, ServerOk, ServerFields
        <3>2. server' = u /\ Silent BY <2>3
        <3> HIDE DEF u
        <3> QED BY <1>0, <3>1, <3>2, SilentKept
    <2>4. CASE ServerAgrees(ServersChoice(p.what)) BY <2>4, ServerAgreesKept
    <2>5. CASE \E type \in Replies : \E over : ServerReplies(type, over)
        BY <2>5, ServerRepliesKept
    <2>6. CASE server' = server /\ Writes(server, <<Group>>) BY <2>6, GroupKept
    <2>7. CASE ServerTurns BY <2>7, ServerTurnsKept
    <2>8. CASE \/ \E name : Answer(server, Msg(SERVICE_ACCEPT, name, 0))
               \/ FailsIt \/ Succeeds \/ \E what : Challenges(what)
        <3>1. \E srv, q : AnswersAs(srv) /\ IsPacket(q) /\ q.type \in HeldTypes
                          /\ Answer(srv, q)
            BY <2>8, AnswersAre
        <3> QED BY <3>1, AnswerKept
    <2>9. CASE \E q : ServerAuthenticates(q)
        BY <2>9, <2>2, <2>8, ServerAuthenticatesAs
    <2> QED BY <2>1, <2>2, <2>3, <2>4, <2>5, <2>6, <2>7, <2>8, <2>9
<1> QED BY <1>1, <1>2

\* What it does with it when they are.
LEMMA ServerHandlesNow ==
    ASSUME SessionInv, BaseInv, NEW m, NEW offers, NEW p, NEW t,
           Handling(m, offers, p, t), ServerHandles(p)
    PROVE  server'.gone \/ InStepOf(m, offers, kex, t, wire', server')
<1>1. CASE p.keys # server.in BY <1>1, ServerLeavesKept DEF ServerHandles
<1>2. CASE p.keys = server.in
    <2> DEFINE Others == {BANNER_LINE, KEX_DH_GEX_REQUEST, SERVICE_REQUEST, USERAUTH_REQUEST,
                          USERAUTH_INFO_RESPONSE}
    <2>0. \A x \in Others : x \notin {KEXINIT, NEWKEYS} \cup Values
        BY Types DEF PacketTypes, Values
    <2>1. \/ p.type \in Others /\ server' = server /\ Silent
          \/ server' = [server EXCEPT !.gone = TRUE] /\ Silent
          \/ p.type = KEXINIT /\ ServerAgrees(ServersChoice(p.what))
          \/ p.type = KEXDH_INIT /\ \E over : ServerReplies(KEXDH_REPLY, over)
          \/ p.type = KEX_DH_GEX_INIT /\ \E over : ServerReplies(KEX_DH_GEX_REPLY, over)
          \/ p.type \in Others /\ server' = server /\ Writes(server, <<Group>>)
          \/ p.type = NEWKEYS /\ ServerTurns
          \/ p.type \in Others /\ \E name : Answer(server, Msg(SERVICE_ACCEPT, name, 0))
          \/ p.type \in Others /\ (FailsIt \/ \E q : ServerAuthenticates(q))
        BY <1>2 DEF ServerHandles, Group
    <2> HIDE DEF Others
    <2>2. CASE p.type \in Others /\ server' = server /\ Silent
        <3>1. Fits(m, offers, kex, t, wire, server) BY <2>0, <2>2, HandledNow
        <3> QED BY <2>2, <3>1 DEF Fits, Silent
    <2>3. CASE server' = [server EXCEPT !.gone = TRUE] /\ Silent
        BY <2>3 DEF SessionInv, ServerOk, ServerFields
    <2>4. CASE p.type = KEXINIT /\ ServerAgrees(ServersChoice(p.what))
        BY <2>4, ServerAgreesNow
    <2>5. CASE p.type = KEXDH_INIT /\ \E over : ServerReplies(KEXDH_REPLY, over)
        <3>1. PICK over : ServerReplies(KEXDH_REPLY, over) BY <2>5
        <3>2. KEXDH_INIT \in Values /\ KEXDH_INIT # KEX_DH_GEX_INIT
            BY Types DEF PacketTypes, Values
        <3>3. PICK type : type = KEXDH_REPLY OBVIOUS
        <3>4. /\ p.type \in Values /\ ServerReplies(type, over)
              /\ type = (IF p.type = KEX_DH_GEX_INIT THEN KEX_DH_GEX_REPLY ELSE KEXDH_REPLY)
            BY <2>5, <3>1, <3>2, <3>3
        <3> QED BY <3>4, ServerRepliesNow
    <2>6. CASE p.type = KEX_DH_GEX_INIT /\ \E over : ServerReplies(KEX_DH_GEX_REPLY, over)
        <3>1. PICK over : ServerReplies(KEX_DH_GEX_REPLY, over) BY <2>6
        <3>2. KEX_DH_GEX_INIT \in Values BY DEF Values
        <3>3. PICK type : type = KEX_DH_GEX_REPLY OBVIOUS
        <3>4. /\ p.type \in Values /\ ServerReplies(type, over)
              /\ type = (IF p.type = KEX_DH_GEX_INIT THEN KEX_DH_GEX_REPLY ELSE KEXDH_REPLY)
            BY <2>6, <3>1, <3>2, <3>3
        <3> QED BY <3>4, ServerRepliesNow
    <2>7. CASE p.type \in Others /\ server' = server /\ Writes(server, <<Group>>)
        <3>1. Fits(m, offers, kex, t, wire, server) BY <2>0, <2>7, HandledNow
        <3>2. wire' = wire \o Stamped(<<Group>>, server.out) BY <2>7 DEF Writes
        <3>3. PICK g, w : g = Group /\ w = wire \o Stamped(<<Group>>, server.out) OBVIOUS
        <3>4. IsPacket(g) /\ g.type \notin {KEXINIT, NEWKEYS} /\ ~ShowsKey(g)
            BY <3>3, GroupIs
        <3>5. w = wire \o Stamped(<<g>>, server.out) BY <3>3
        <3>6. InStepOf(m, offers, kex, t, w, server) BY <3>1, <3>4, <3>5, WritesOneFits
        <3> QED BY <2>7, <3>2, <3>3, <3>6
    <2>8. CASE p.type = NEWKEYS /\ ServerTurns BY <2>8, ServerTurnsNow
    <2>9. CASE p.type \in Others /\ (\/ \E name : Answer(server, Msg(SERVICE_ACCEPT, name, 0))
                                     \/ FailsIt \/ Succeeds \/ \E what : Challenges(what))
        <3>1. Fits(m, offers, kex, t, wire, server) BY <2>0, <2>9, HandledNow
        <3>2. \E srv, q : AnswersAs(srv) /\ IsPacket(q) /\ q.type \in HeldTypes
                          /\ Answer(srv, q)
            BY <2>9, AnswersAre
        <3>3. PICK srv, q : AnswersAs(srv) /\ IsPacket(q) /\ q.type \in HeldTypes
                            /\ Answer(srv, q)
            BY <3>2
        <3> QED BY <3>1, <3>3, AnswerFits
    <2>10. CASE p.type \in Others /\ \E q : ServerAuthenticates(q)
        BY <2>2, <2>9, <2>10, ServerAuthenticatesAs
    <2> QED BY <2>1, <2>2, <2>3, <2>4, <2>5, <2>6, <2>7, <2>8, <2>9, <2>10
<1> QED BY <1>1, <1>2

\* The two sides are in step: what the lemmas about the server start from.
LEMMA NowFits ==
    ASSUME SessionInv, BaseInv, Live, InStep,
           NEW m, m = Choice(Offers(session), server.lists),
           NEW offers, offers = Offers(session)
    PROVE  Fits(m, offers, kex, session, wire, server)
BY NowInStep DEF InStepNow

\* The server reads a packet of ours.
LEMMA ServerReceivesKeys == ASSUME SessionInv, KeysInv, ServerReceives PROVE KeysInv'
<1>0. BaseInv /\ (Live => InStep) BY DEF KeysInv
<1>1. /\ session.out # <<>> /\ ServerHandles(Head(session.out))
      /\ session' = [session EXCEPT !.out = Tail(session.out)]
      /\ call' = call /\ kex' = kex /\ uses' = uses
    BY DEF ServerReceives
<1>2. DOMAIN session = SessionFields /\ IsSeq(session.out) BY DEF SessionInv, SessionOk
<1>3. PICK q : q = session.out OBVIOUS
<1>4. IsSeq(q) /\ q # <<>> BY <1>1, <1>2, <1>3
<1>5. Shorter(q, Tail(q)) /\ Head(q) = q[1] BY <1>4, TailPlaces
<1>6. PICK t : t = session' OBVIOUS
<1>7. /\ DOMAIN t = SessionFields /\ t.out = Tail(q)
      /\ \A f \in SessionFields \ {"out"} : t[f] = session[f]
    BY <1>1, <1>2, <1>3, <1>6 DEF SessionFields
<1>8. ServerKept BY <1>0, <1>1, ServerHandlesKept
<1>9. SessionLeft
    <2>1. t.link = session.link BY <1>7 DEF SessionFields
    <2> QED BY <1>1, <1>6, <1>7, <2>1 DEF SessionLeft
<1>10. ServesInStep
    <2> SUFFICES ASSUME Live, ~server'.gone
                 PROVE  InStepOf(Choice(Offers(session), server.lists), Offers(session),
                                 kex', session', wire', server')
        BY DEF ServesInStep
    <2>1. PICK m, offers : m = Choice(Offers(session), server.lists)
                           /\ offers = Offers(session)
        OBVIOUS
    <2>2. Fits(m, offers, kex, session, wire, server) BY <1>0, <2>1, NowFits
    <2>3. PICK p : p = Head(session.out) OBVIOUS
    <2>4. Handling(m, offers, p, t)
        BY <1>1, <1>3, <1>5, <1>7, <2>1, <2>2, <2>3 DEF Handling
    <2>5. ServerHandles(p) BY <1>1, <2>3
    <2>6. InStepOf(m, offers, kex, t, wire', server')
        BY <1>0, <2>4, <2>5, ServerHandlesNow
    <2> QED BY <1>1, <1>6, <2>1, <2>6
<1> QED BY <1>8, <1>9, <1>10, ServerKeys

\* KEXINIT, and a packet of the number of a reply if there is a guess.
Greeting(r, keys, lists, guess, n) ==
    /\ IsSeq(r) /\ Len(r) \in Nat /\ Len(r) > 0
    /\ r[1].type = KEXINIT /\ r[1].what = lists /\ r[1].guess = guess /\ r[1].n = n
    /\ \A i \in 2..Len(r) : r[i].type = KEXDH_REPLY
    /\ guess => Len(r) > 1
    /\ \A i \in 1..Len(r) :
          IsPacket(r[i]) /\ r[i].keys = keys /\ ~ShowsKey(r[i]) /\ r[i].type # BANNER_LINE
          /\ r[i].type # NEWKEYS

\* That is what Hello writes.
LEMMA HelloGreets ==
    ASSUME NEW keys, NEW lists, NEW guess, NEW n
    PROVE  Greeting(Hello(keys, lists, guess, n), keys, lists, guess, n)
<1> DEFINE m == Msg(KEXINIT, lists, n)
           p == [Under(m, keys) EXCEPT !.guess = guess]
           what == [blob |-> "guess"]
           g == Msg(KEX_DH_GEX_GROUP, what, n)
           q == Under(g, keys)
           t == IF guess THEN <<q>> ELSE <<>>
<1>1. Hello(keys, lists, guess, n) = <<p>> \o t BY DEF Hello
<1>2. /\ IsPacket(p) /\ p.type = KEXINIT /\ p.what = lists /\ p.guess = guess /\ p.n = n
      /\ p.keys = keys
    <2>1. IsPacket(m) /\ m.type = KEXINIT /\ m.what = lists /\ m.n = n BY Written
    <2> HIDE DEF m
    <2>2. /\ IsPacket(Under(m, keys)) /\ Under(m, keys).type = KEXINIT
          /\ Under(m, keys).what = lists /\ Under(m, keys).n = n /\ Under(m, keys).keys = keys
        BY <2>1, Rewritten
    <2> QED BY <2>2 DEF IsPacket
<1>3. IsPacket(q) /\ q.type = KEXDH_REPLY /\ q.what.blob \in Unkeyed /\ q.keys = keys
    <2>1. what.blob \in Unkeyed BY DEF Unkeyed
    <2> HIDE DEF what
    <2>2. IsPacket(g) /\ g.type = KEXDH_REPLY /\ g.what = what
        BY Written, Types DEF PacketTypes
    <2> HIDE DEF g
    <2> QED BY <2>1, <2>2, Rewritten
<1> HIDE DEF p, q
<1>4. ~ShowsKey(p) /\ ~ShowsKey(q)
    BY <1>2, <1>3, Types DEF ShowsKey, Replies, PacketTypes
<1>5. KEXINIT \notin {BANNER_LINE, NEWKEYS} /\ KEXDH_REPLY \notin {BANNER_LINE, NEWKEYS}
    BY Types DEF PacketTypes
<1>6. CASE guess
    <2>1. PICK r : r = Hello(keys, lists, guess, n) OBVIOUS
    <2>2. t = <<q>> BY <1>6
    <2> HIDE DEF t
    <2>3. IsSeq(r) /\ Len(r) = 2 /\ r[1] = p /\ r[2] = q
        <3>1. PICK x, y : x = <<p>> /\ y = <<q>> OBVIOUS
        <3>2. /\ IsSeq(x) /\ Len(x) = 1 /\ x[1] = p
              /\ IsSeq(y) /\ Len(y) = 1 /\ y[1] = q
            BY <3>1, SeqShort
        <3>3. r = x \o y BY <1>1, <2>1, <2>2, <3>1
        <3>4. Joined(x, y, r) BY <3>2, <3>3, ConcatPlaces
        <3>5. IsSeq(r) BY <3>2, <3>3, SeqConcat
        <3>6. 1 + 1 = 2 /\ 1 \in 1..1 OBVIOUS
        <3> QED BY <3>2, <3>4, <3>5, <3>6 DEF Joined
    <2>4. \A i \in 1..2 : i = 1 \/ i = 2 OBVIOUS
    <2>5. \A i \in 2..2 : i = 2 OBVIOUS
    <2>6. 2 \in Nat /\ 2 > 0 /\ 2 > 1 OBVIOUS
    <2>7. Greeting(r, keys, lists, guess, n)
        BY <1>2, <1>3, <1>4, <1>5, <2>3, <2>4, <2>5, <2>6 DEF Greeting
    <2> QED BY <2>1, <2>7
<1>7. CASE ~guess
    <2>1. PICK r : r = Hello(keys, lists, guess, n) OBVIOUS
    <2>2. r = <<p>>
        <3>1. t = <<>> BY <1>7
        <3> HIDE DEF t
        <3>2. <<p>> \o <<>> = <<p>> OBVIOUS
        <3> QED BY <1>1, <2>1, <3>1, <3>2
    <2>3. IsSeq(r) /\ Len(r) = 1 /\ r[1] = p BY <2>2, SeqShort
    <2>4. \A i \in 1..1 : i = 1 OBVIOUS
    <2>5. \A i \in 2..1 : FALSE OBVIOUS
    <2>6. 1 \in Nat /\ 1 > 0 OBVIOUS
    <2>7. Greeting(r, keys, lists, guess, n)
        BY <1>2, <1>4, <1>5, <1>7, <2>3, <2>4, <2>5, <2>6 DEF Greeting
    <2> QED BY <2>1, <2>7
<1> QED BY <1>6, <1>7

\* The server asks for new keys.
LEMMA ServerRekeysKeys == ASSUME SessionInv, KeysInv, ServerRekeys PROVE KeysInv'
<1>0. BaseInv /\ (Live => InStep) BY DEF KeysInv
<1> DEFINE u == [server EXCEPT !.kex = "sent", !.n = server.n + 1]
           h == Hello(server.out, server.lists, server.guess, server.n + 1)
<1>1. /\ "rekey" \in uses /\ server.kex = "none" /\ server' = u /\ wire' = wire \o h
      /\ uses' = uses /\ session' = session /\ call' = call /\ kex' = kex
    BY DEF ServerRekeys, Free
<1>2. /\ DOMAIN u = ServerFields /\ u.kex = "sent" /\ u.n = server.n + 1
      /\ \A f \in ServerFields \ {"kex", "n"} : u[f] = server[f]
    BY DEF SessionInv, ServerOk, ServerFields
<1>3. Greeting(h, server.out, server.lists, server.guess, server.n + 1) BY HelloGreets
<1> HIDE DEF u, h
<1>4. DOMAIN server = ServerFields /\ IsSeq(wire) BY DEF SessionInv, ServerOk, WireOk
<1>5. PICK w : w = wire' OBVIOUS
<1>6. IsSeq(h) BY <1>3 DEF Greeting
<1>7. Joined(wire, h, w) BY <1>1, <1>4, <1>5, <1>6, ConcatPlaces
<1>8. ServerKept
    <2>1. \A i \in DOMAIN w : (i \in DOMAIN wire /\ w[i] = wire[i])
                              \/ \E j \in 1..Len(h) : w[i] = h[j]
        BY <1>7, JoinedPlaces
    <2>2. \A j \in 1..Len(h) : h[j].type # BANNER_LINE BY <1>3 DEF Greeting
    <2>3. NoNewBanner(wire, w) BY <2>1, <2>2 DEF NoNewBanner
    <2>4. /\ u.lists = server.lists /\ u.guess = server.guess /\ u.gone = server.gone
          /\ u.held = server.held
        BY <1>2 DEF ServerFields
    <2> QED BY <1>0, <1>1, <1>5, <2>3, <2>4 DEF ServerKept, BaseInv
<1>9. SessionLeft BY <1>1 DEF SessionLeft
<1>10. ServesInStep
    <2> SUFFICES ASSUME Live
                 PROVE  InStepOf(Choice(Offers(session), server.lists), Offers(session),
                                 kex', session', wire', server')
        BY DEF ServesInStep
    <2>1. PICK m, offers : m = Choice(Offers(session), server.lists)
                           /\ offers = Offers(session)
        OBVIOUS
    <2>2. Fits(m, offers, kex, session, wire, server) BY <1>0, <2>1, NowFits
    <2>3. ServersAlike(server, u, {"kex", "n"})
        BY <1>2, <1>4 DEF ServersAlike, RelevantOfServer, ServerFields
    <2>4. /\ Len(h) \in Nat /\ Len(h) > 0 /\ h[1].type = KEXINIT
          /\ h[1].what = server.lists /\ h[1].guess = server.guess
          /\ \A i \in 2..Len(h) : h[i].type = KEXDH_REPLY
          /\ server.guess => Len(h) > 1
          /\ \A i \in 1..Len(h) : h[i].keys = server.out /\ ~ShowsKey(h[i])
        BY <1>3 DEF Greeting
    <2>5. InStepOf(m, offers, kex, session, w, u)
        BY <1>1, <1>2, <1>7, <2>2, <2>3, <2>4, RekeyServerFits
    <2> QED BY <1>1, <1>5, <2>1, <2>5
<1> QED BY <1>8, <1>9, <1>10, ServerKeys

\* The server's message for the user.
LEMMA ServerBannerKeys == ASSUME SessionInv, KeysInv, ServerBanner PROVE KeysInv'
<1>0. BaseInv /\ (Live => InStep) BY DEF KeysInv
<1> DEFINE u == [server EXCEPT !.greeted = TRUE]
           p == Msg(USERAUTH_BANNER, "", 0)
<1>1. /\ server' = u /\ wire' = wire \o Stamped(<<p>>, server.out)
      /\ uses' = uses /\ session' = session /\ call' = call /\ kex' = kex
    BY DEF ServerBanner, Writes
<1>2. AnswersAs(u) BY DEF SessionInv, ServerOk, AnswersAs
<1>3. IsPacket(p) /\ p.type = USERAUTH_BANNER BY DEF Msg, IsPacket
<1> HIDE DEF u, p
<1>4. p.type \notin {KEXINIT, NEWKEYS, BANNER_LINE} /\ ~ShowsKey(p)
    BY <1>3, Types DEF PacketTypes, ShowsKey, Replies
<1>5. /\ u.lists = server.lists /\ u.guess = server.guess /\ u.gone = server.gone
      /\ u.held = server.held /\ ServersAlike(server, u, {})
    BY <1>2, AnswersAsIs
<1>6. ServerKept
    <2>1. PICK r : r = <<p>> OBVIOUS
    <2>2. NoBanner(r) BY <1>3, <1>4, <2>1, FewNoBanner
    <2>3. \A x \in ToSet(u.held) : x.type \in HeldTypes BY <1>0, <1>5 DEF BaseInv
    <2> QED BY <1>1, <1>5, <2>1, <2>2, <2>3, WritesKept
<1>7. SessionLeft BY <1>1 DEF SessionLeft
<1>8. ServesInStep
    <2> SUFFICES ASSUME Live
                 PROVE  InStepOf(Choice(Offers(session), server.lists), Offers(session),
                                 kex', session', wire', server')
        BY DEF ServesInStep
    <2>1. PICK m, offers : m = Choice(Offers(session), server.lists)
                           /\ offers = Offers(session)
        OBVIOUS
    <2>2. Fits(m, offers, kex, session, wire, server) BY <1>0, <2>1, NowFits
    <2>3. PICK w : w = wire' OBVIOUS
    <2>4. InStepOf(m, offers, kex, session, w, server)
        BY <1>1, <1>3, <1>4, <2>2, <2>3, WritesOneFits
    <2>5. InStepOf(m, offers, kex, session, w, u) BY <1>5, <2>4, SameServerFits
    <2> QED BY <1>1, <2>1, <2>3, <2>5
<1> QED BY <1>6, <1>7, <1>8, ServerKeys

\* The server leaves: nobody is in step any more.
LEMMA ServerDisconnectsKeys == ASSUME SessionInv, KeysInv, ServerDisconnects PROVE KeysInv'
<1>1. ServerLeaves /\ uses' = uses /\ session' = session /\ call' = call /\ kex' = kex
    BY DEF ServerDisconnects
<1>2. ServerKept /\ server'.gone BY <1>1, ServerLeavesKept DEF KeysInv
<1>3. SessionLeft BY <1>1 DEF SessionLeft
<1> QED BY <1>2, <1>3, ServerKeys DEF ServesInStep

\* The connection ends.
LEMMA BreaksKeys == ASSUME SessionInv, KeysInv, Breaks PROVE KeysInv'
<1>1. /\ \E end \in {"closed", "reset"} : session' = [session EXCEPT !.link = end]
      /\ server' = server /\ wire' = wire /\ uses' = uses /\ call' = call /\ kex' = kex
    BY DEF Breaks
<1>2. DOMAIN session = SessionFields BY DEF SessionInv, SessionOk
<1>3. /\ \A f \in SessionFields \ {"link"} : session'[f] = session[f]
      /\ session'.link # "up"
    BY <1>1, <1>2 DEF SessionFields
<1>4. session'.out = session.out BY <1>3 DEF SessionFields
<1>5. SessionLeft BY <1>1, <1>3, <1>4 DEF SessionLeft
<1>6. \A p \in ToSet(server.held) : p.type \in HeldTypes BY DEF KeysInv, BaseInv
<1>7. ServerKept BY <1>1, <1>6, SilentKept DEF Silent
<1> QED BY <1>3, <1>5, <1>7, ServerKeys DEF ServesInStep

-----------------------------------------------------------------------------
(* At first, and from then on *)

\* At first the server's KEXINIT is on its way, behind its banner line.
LEMMA InitWire ==
    ASSUME NEW b, IsPacket(b), b.type = BANNER_LINE, b.keys = Plain,
           NEW r, NEW lists, NEW guess, Greeting(r, Plain, lists, guess, 1),
           NEW w, Joined(<<b>>, r, w)
    PROVE  /\ Placed(w) /\ 1 \in DOMAIN w /\ 2 \in DOMAIN w
           /\ guess => 3 \in DOMAIN w /\ w[3].type = KEXDH_REPLY
           /\ w[2].type = KEXINIT /\ w[2].what = lists /\ w[2].guess = guess /\ w[2].n = 1
           /\ \A i \in DOMAIN w :
                 /\ w[i].type = BANNER_LINE => i = 1
                 /\ w[i].type = KEXINIT => i = 2
                 /\ w[i].type # NEWKEYS /\ ~ShowsKey(w[i]) /\ w[i].keys = Plain
                 /\ i \in Nat
<1>1. Len(<<b>>) = 1 /\ <<b>>[1] = b OBVIOUS
<1>2. /\ Placed(w) /\ Len(w) = 1 + Len(r) /\ w[1] = b
      /\ \A i \in 1..Len(r) : w[1 + i] = r[i]
    <2>1. 1 \in 1..1 OBVIOUS
    <2> QED BY <1>1, <2>1 DEF Joined
<1>3. PICK l \in Nat : l = Len(r) /\ l > 0 BY DEF Greeting
<1>4. DOMAIN w = 1..(1 + l) BY <1>2, <1>3 DEF Placed
<1>5. /\ r[1].type = KEXINIT /\ r[1].what = lists /\ r[1].guess = guess /\ r[1].n = 1
      /\ \A i \in 2..l : r[i].type = KEXDH_REPLY
      /\ guess => l > 1
      /\ \A i \in 1..l : /\ IsPacket(r[i]) /\ r[i].keys = Plain /\ ~ShowsKey(r[i])
                         /\ r[i].type # BANNER_LINE /\ r[i].type # NEWKEYS
    BY <1>3 DEF Greeting
<1>6. /\ 1 \in DOMAIN w /\ 2 \in DOMAIN w /\ 1 \in 1..l
      /\ l > 1 => 3 \in DOMAIN w /\ 2 \in 2..l /\ 2 \in 1..l
    BY <1>3, <1>4
<1>7. w[2] = r[1]
    <2>1. 1 + 1 = 2 OBVIOUS
    <2> QED BY <1>2, <1>3, <1>6, <2>1
<1>8. l > 1 => w[3] = r[2]
    <2>1. 1 + 2 = 3 OBVIOUS
    <2> QED BY <1>2, <1>3, <1>6, <2>1
<1>9. KEXINIT # BANNER_LINE /\ KEXDH_REPLY # KEXINIT /\ BANNER_LINE # NEWKEYS
      /\ BANNER_LINE \notin Replies
    BY Types DEF PacketTypes, Replies
<1>10. \A i \in DOMAIN w : i \in Nat /\ (i = 1 \/ (i - 1 \in 1..l /\ 1 + (i - 1) = i))
    BY <1>3, <1>4
<1>11. \A j \in 1..l : j = 1 \/ j \in 2..l BY <1>3
<1>12. \A i \in Nat : i - 1 = 1 => i = 2 OBVIOUS
<1>13. ASSUME NEW i \in DOMAIN w
       PROVE  /\ w[i].type = BANNER_LINE => i = 1
              /\ w[i].type = KEXINIT => i = 2
              /\ w[i].type # NEWKEYS /\ ~ShowsKey(w[i]) /\ w[i].keys = Plain
              /\ i \in Nat
    <2>1. CASE i = 1 BY <1>2, <1>9, <2>1 DEF ShowsKey
    <2>2. CASE i # 1
        <3>1. PICK j \in 1..l : j = i - 1 /\ w[1 + j] = r[j] /\ 1 + j = i
            BY <1>2, <1>3, <1>10, <2>2
        <3>2. w[i] = r[j] BY <3>1
        <3>3. j = 1 => i = 2 BY <3>1
        <3>4. j # 1 => r[j].type = KEXDH_REPLY BY <1>5, <1>11
        <3> QED BY <1>5, <1>9, <1>10, <3>2, <3>3, <3>4
    <2> QED BY <2>1, <2>2
<1> QED BY <1>2, <1>5, <1>6, <1>7, <1>8, <1>13

\* Nothing is on its way to the server at first.
LEMMA NoneFits ==
    ASSUME NEW old, NEW new, NEW offers, NEW m
    PROVE  /\ Turning(<<>>, old, new, FALSE) /\ AskInv(<<>>, "none", "sent", offers)
           /\ ValueInv(<<>>, "none", "sent", m) /\ ~Has(<<>>, NEWKEYS) /\ ~Has(<<>>, KEXINIT)
<1>1. \A i \in DOMAIN <<>> : FALSE OBVIOUS
<1>2. "none" \notin Opening BY DEF Opening
<1> QED BY <1>1, <1>2 DEF Turning, AskInv, ValueInv, Has, AtMostOne

\* At first the two are in step.
LEMMA InitKeys == Init => KeysInv
<1> SUFFICES ASSUME Init PROVE KeysInv OBVIOUS
<1>1. PICK choice \in Sessions : Starts(choice) BY InitStarts
<1>2. /\ session.started = "no" /\ session.secrets = 0 /\ session.newkeys = FALSE
      /\ session.exchanging = FALSE /\ session.packets = <<>> /\ session.out = <<>>
    BY <1>1 DEF Starts
<1>3. /\ kex.step = "none" /\ kex.asked = FALSE /\ call.fn = "none" /\ call.need = <<>>
    BY <1>1 DEF Starts, NoKex, KexStep, Idle, Call
<1>4. /\ server.lists = choice.lists /\ server.guess = choice.guess /\ server.kex = "sent"
      /\ server.n = 1 /\ server.in = Plain /\ server.out = Plain /\ server.held = <<>>
    BY <1>1 DEF Starts
<1> DEFINE b == Msg(BANNER_LINE, "", 0)
           r == Hello(Plain, choice.lists, choice.guess, 1)
<1>5. IsPacket(b) /\ b.type = BANNER_LINE /\ b.keys = Plain BY DEF Msg, IsPacket
<1>6. Greeting(r, Plain, choice.lists, choice.guess, 1) BY HelloGreets
<1>7. wire = <<b>> \o r BY <1>1 DEF Starts
<1> HIDE DEF b, r
<1>8. IsSeq(<<b>>) /\ IsSeq(r) BY <1>6, SeqShort DEF Greeting
<1>9. PICK a : a = <<b>> OBVIOUS
<1>10. Joined(a, r, wire) BY <1>7, <1>8, <1>9, ConcatPlaces
<1>11. /\ Placed(wire) /\ 1 \in DOMAIN wire /\ 2 \in DOMAIN wire
       /\ choice.guess => 3 \in DOMAIN wire /\ wire[3].type = KEXDH_REPLY
       /\ wire[2].type = KEXINIT /\ wire[2].what = choice.lists
       /\ wire[2].guess = choice.guess /\ wire[2].n = 1
       /\ \A i \in DOMAIN wire :
             /\ wire[i].type = BANNER_LINE => i = 1
             /\ wire[i].type = KEXINIT => i = 2
             /\ wire[i].type # NEWKEYS /\ ~ShowsKey(wire[i]) /\ wire[i].keys = Plain
             /\ i \in Nat
    BY <1>5, <1>6, <1>9, <1>10, InitWire
<1>12. BaseInv
    <2>1. BannerInv BY <1>2, <1>11 DEF BannerInv
    <2>2. server.guess => Head(server.lists["KEX"]) = Gex
        BY <1>4, SessionsAssumption
    <2>3. \A p \in ToSet(server.held) : p.type \in HeldTypes BY <1>4, SeqShort
    <2>4. kex.asked \in BOOLEAN BY <1>3
    <2> QED BY <1>2, <1>3, <2>1, <2>2, <2>3, <2>4 DEF BaseInv, Exchanging
<1>13. InStep
    <2>1. PICK m, offers : m = Choice(Offers(session), server.lists)
                           /\ offers = Offers(session)
        OBVIOUS
    <2>2. Phase("none", "sent", 0, 1) BY DEF Phase
    <2>3. Reads("sent", 1) = 0 /\ Wrote("sent", 1) = 0 BY DEF Reads, Wrote
    <2>4. KeysAt(m, Out, 0) = Plain /\ KeysAt(m, In, 0) = Plain BY DEF KeysAt
    <2>5. OursTurns("none", "sent") = FALSE /\ TheirsTurns("none", "sent") = FALSE
        BY DEF OursTurns, TheirsTurns, Closing
    <2>6. ~Has(wire, NEWKEYS) /\ Has(wire, KEXINIT) BY <1>11 DEF Has
    <2>7. \A new : Turning(wire, Plain, new, FALSE)
        BY <1>11, <2>6 DEF Turning, AtMostOne, Turns
    <2>8. GreetInv(<<>>, wire, "none", "sent", 0, server)
        <3>1. AtMostOne(wire, KEXINIT) /\ AtMostOne(<<>>, KEXINIT)
            BY <1>11 DEF AtMostOne
        <3>2. ~Has(<<>>, KEXINIT) BY NoneFits
        <3>3. Greets(wire[2], server) BY <1>4, <1>11 DEF Greets
        <3>4. "none" \in Between BY DEF Between
        <3>5. server.guess => \E j \in DOMAIN wire : 2 < j /\ wire[j].type = KEXDH_REPLY
            <4>1. 2 < 3 OBVIOUS
            <4> QED BY <1>4, <1>11, <4>1
        <3>6. \A i \in DOMAIN <<>> : FALSE OBVIOUS
        <3>7. \A i \in DOMAIN wire : wire[i].type = KEXINIT =>
                /\ Greets(wire[i], server)
                /\ server.guess => \E j \in DOMAIN wire : i < j /\ wire[j].type = KEXDH_REPLY
                /\ \A j \in DOMAIN wire : wire[j].type = NEWKEYS => j < i
            BY <1>11, <3>3, <3>5
        <3> QED BY <2>6, <3>1, <3>2, <3>4, <3>6, <3>7 DEF GreetInv
    <2>9. ShowInv(<<>>, wire, "none", "sent", 1)
        <3>1. \A i \in DOMAIN <<>> : FALSE OBVIOUS
        <3> QED BY <1>11, <3>1 DEF ShowInv
    <2>10. DueInv(<<>>, wire, "none", FALSE, session.burn, "sent", m, server.guess)
        <3>1. PICK burn, g : burn = session.burn /\ g = server.guess OBVIOUS
        <3>2. "none" \in Between BY DEF Between
        <3>3. DueInv(<<>>, wire, "none", FALSE, burn, "sent", m, g)
            BY <3>2, NoneFits, DueBetween
        <3> QED BY <3>1, <3>3
    <2>11. MethodInv(session, "none", m, server)
        <3>1. ~(0 > 0) OBVIOUS
        <3>2. "none" \notin Agreeing BY DEF Agreeing
        <3> QED BY <1>2, <1>4, <3>1, <3>2 DEF MethodInv
    <2>12. InStepOf(m, offers, kex, session, wire, server)
        BY <1>2, <1>3, <1>4, <2>2, <2>3, <2>4, <2>5, <2>7, <2>8, <2>9, <2>10, <2>11, NoneFits
        DEF InStepOf
    <2> QED BY <2>1, <2>12 DEF InStep
<1> QED BY <1>12, <1>13 DEF KeysInv

\* Every step keeps the invariant.
LEMMA KeysStepOk == SessionInv /\ KeysInv /\ [Next]_vars => KeysInv'
<1> SUFFICES ASSUME SessionInv, KeysInv, [Next]_vars PROVE KeysInv' OBVIOUS
<1>1. CASE \E pref \in Prefs : MethodPref(pref.kind, pref.list) BY <1>1, MethodPrefKeys
<1>2. CASE \/ UserauthList \/ UserauthPassword \/ UserauthKbdint
           \/ \E file \in PublicKeyFiles : UserauthPublickey(file) \/ UserauthHostbased(file)
    <2>1. \/ UserauthList \/ UserauthPassword \/ UserauthKbdint
          \/ \E file : UserauthPublickey(file) \/ UserauthHostbased(file)
        BY <1>2
    <2> QED BY <2>1, RequestsAre, BeginsKeys
<1>3. CASE Startup BY <1>3, StartupKeys
<1>4. CASE PacketRead \/ SessionDisconnect BY <1>4, BeginsKeys
<1>5. CASE Continues \/ TimesOut BY <1>5, ContinuesKeys DEF Continues
<1>6. CASE ServerReceives BY <1>6, ServerReceivesKeys
<1>7. CASE ServerActs
    BY <1>7, ServerRekeysKeys, ServerBannerKeys, ServerDisconnectsKeys, BreaksKeys
    DEF ServerActs
<1>8. CASE UNCHANGED vars
    <2>1. BaseInv' BY <1>8 DEF vars, KeysInv, BaseInv, BannerInv, Exchanging
    <2>2. Live' => Live BY <1>8 DEF vars, Live, Hopes, Exchanging, Uncompressed
    <2>3. ASSUME Live' PROVE InStep'
        <3>1. PICK m, offers : m = Choice(Offers(session), server.lists)
                               /\ offers = Offers(session)
            OBVIOUS
        <3>2. InStepOf(m, offers, kex, session, wire, server)
            BY <2>2, <2>3, <3>1 DEF KeysInv, InStep
        <3>3. /\ uses' = uses /\ session' = session /\ wire' = wire /\ kex' = kex
              /\ server' = server
            BY <1>8 DEF vars
        <3>4. InStepOf(m, offers, kex', session', wire', server') BY <3>2, <3>3
        <3>5. m = Choice(Offers(session'), server'.lists) /\ offers = Offers(session')
            BY <3>1, <3>3
        <3> QED BY <3>3, <3>4, <3>5, InStepNext
    <2> QED BY <2>1, <2>3 DEF KeysInv
<1> QED BY <1>1, <1>2, <1>3, <1>4, <1>5, <1>6, <1>7, <1>8 DEF Next, Begins

\* What is in step has the keys of its reader, and between two exchanges the methods of
\* the server.
LEMMA KeysFollow == SessionInv /\ KeysInv => (Uncompressed => KeysInStep)
<1> SUFFICES ASSUME SessionInv, KeysInv, Uncompressed,
                    ~Hopes, session.link = "up", ~server.gone
             PROVE  /\ wire # <<>> => Head(wire).keys = InKeys(session)
                    /\ session.out # <<>> => Head(session.out).keys = server.in
                    /\ session.newkeys /\ ~Exchanging =>
                          \A k \in Kinds : SessionMethods(session, k) = server.method[k]
    BY DEF KeysInStep
<1>1. BaseInv /\ Live /\ InStep BY DEF KeysInv, Live
<1>2. PICK m, offers : m = Choice(Offers(session), server.lists)
                       /\ offers = Offers(session)
    OBVIOUS
<1>3. Fits(m, offers, kex, session, wire, server) BY <1>1, <1>2, NowFits
<1>4. InStepOf(m, offers, kex, session, wire, server) BY <1>3 DEF Fits
<1>5. IsSeq(wire) /\ IsSeq(session.out) /\ Placed(wire) /\ Placed(session.out)
    BY <1>3, FitsHas DEF Sane
<1>6. ASSUME wire # <<>> PROVE Head(wire).keys = InKeys(session)
    <2>1. Head(wire) = wire[1] BY <1>5, <1>6, TailPlaces
    <2>2. wire[1].keys = KeysAt(m, In, session.secrets)
        <3>1. PICK turns : turns = TheirsTurns(kex.step, server.kex) OBVIOUS
        <3>2. Turning(wire, KeysAt(m, In, session.secrets),
                      KeysAt(m, In, session.secrets + 1), turns)
            BY <1>3, <3>1, FitsHas
        <3> QED BY <1>5, <1>6, <3>2, TurningHead
    <2> QED BY <1>3, <2>1, <2>2, ClientsKeys
<1>7. ASSUME session.out # <<>> PROVE Head(session.out).keys = server.in
    <2>1. PICK q : q = session.out OBVIOUS
    <2>2. Placed(q) /\ q # <<>> /\ Head(q) = q[1] BY <1>5, <1>7, <2>1, TailPlaces
    <2>3. PICK turns, e : turns = OursTurns(kex.step, server.kex)
                          /\ e = Reads(server.kex, server.n)
        OBVIOUS
    <2>4. Turning(q, KeysAt(m, Out, e), KeysAt(m, Out, e + 1), turns)
        BY <1>3, <2>1, <2>3, FitsHas
    <2>5. q[1].keys = KeysAt(m, Out, e) BY <2>2, <2>4, TurningHead
    <2>6. server.in = KeysAt(m, Out, e) BY <1>4, <2>3 DEF InStepOf
    <2> QED BY <2>1, <2>2, <2>5, <2>6
<1>8. ASSUME session.newkeys, ~Exchanging, NEW k \in Kinds
      PROVE  SessionMethods(session, k) = server.method[k]
    <2>1. MethodInv(session, kex.step, m, server) BY <1>3, FitsHas
    <2>2. Phase(kex.step, server.kex, session.secrets, server.n) BY <1>3, FitsHas
    <2>3. kex.step = "none" BY <1>8 DEF Exchanging
    <2>4. session.method[k] = m[k] BY <1>8, <2>1, <2>3 DEF MethodInv
    <2>5. session.secrets \in Nat /\ session.secrets > 0
        BY <1>8, <2>1, <2>2 DEF MethodInv, Phase
    <2>6. server.kex # "sent" \/ server.n # 1
        BY <2>2, <2>3, <2>5 DEF Phase, Opening, Closing
    <2>7. server.method = m BY <2>1, <2>6 DEF MethodInv
    <2> QED BY <2>4, <2>7 DEF SessionMethods
<1> QED BY <1>6, <1>7, <1>8

\* However calls, re-exchanges and answers that were held meet, as long as no exchange
\* has failed half-way the next packet in each direction is under the keys that its reader
\* has, and between two exchanges the session reports the methods that the server uses.
THEOREM KeysCorrect == Spec => [](Uncompressed => KeysInStep)
<1>1. Init => SessionInv BY InitOk
<1>2. Init => KeysInv BY InitKeys
<1>3. SessionInv /\ [Next]_vars => SessionInv' BY StepOk
<1>4. SessionInv /\ KeysInv /\ [Next]_vars => KeysInv' BY KeysStepOk
<1>5. SessionInv /\ KeysInv => (Uncompressed => KeysInStep) BY KeysFollow
<1> QED BY <1>1, <1>2, <1>3, <1>4, <1>5, PTL DEF Spec
=============================================================================
