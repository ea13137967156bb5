--------------------------- MODULE SSHAnswersProofs ---------------------------
(***************************************************************************)
(* Of every list of methods, on either side, every server that SSHSession  *)
(* allows for and every bound: where keys are exchanged once or nothing is *)
(* compressed, what a request is answered with goes to the call that made  *)
(* it (AnswersAreDue).                                                     *)
(*                                                                         *)
(* It rests on the order that KeysInv gives to packets (SSHSessionProofs): *)
(* AnswersInv says where the one request or answer of a call is, and that  *)
(* what the server held until it had turned to its new keys is behind its  *)
(* NEWKEYS.                                                                *)
(***************************************************************************)
EXTENDS SSHSessionProofs, FiniteSetTheorems

-----------------------------------------------------------------------------
(* Answers are due: the inductive invariant *)

\* One request or answer, or none.
One(q) == \E i \in DOMAIN q : IsAuth(q[i]) /\ \A j \in DOMAIN q : IsAuth(q[j]) => j = i
None(q) == \A i \in DOMAIN q : ~IsAuth(q[i])

\* Where the one that is due is: among what is written, with the answers that the server
\* holds, on its way, or in the brigade.
Places == {"out", "held", "wire", "packets", "none"}
At(place, out, held, w, packets) ==
    /\ IF place = "out" THEN One(out) ELSE None(out)
    /\ IF place = "held" THEN One(held) ELSE None(held)
    /\ IF place = "wire" THEN One(w) ELSE None(w)
    /\ IF place = "packets" THEN One(packets) ELSE None(packets)

\* A request that may be answered by a challenge is one whose call can take it.
Unchallenged == {"list", "hostbased", "signed", "garbled"}
RequestsIn(q, need) ==
    \A i \in DOMAIN q : IsAuth(q[i]) =>
        /\ q[i].type \in {USERAUTH_REQUEST, USERAUTH_INFO_RESPONSE}
        /\ \/ q[i].type = USERAUTH_REQUEST /\ q[i].what \in Unchallenged
           \/ USERAUTH_PK_OK \in ToSet(need)

\* An answer is one that its call takes.
AnswersIn(q, need) ==
    \A i \in DOMAIN q : IsAuth(q[i]) =>
        /\ q[i].type \in {USERAUTH_FAILURE, USERAUTH_SUCCESS, USERAUTH_PK_OK}
        /\ q[i].type = USERAUTH_PK_OK => USERAUTH_PK_OK \in ToSet(need)

\* No answer is behind a KEXINIT, and in an exchange all are behind the NEWKEYS.
InOrder(w, step) ==
    /\ \A i, j \in DOMAIN w : w[i].type = KEXINIT /\ IsAuth(w[j]) => j < i
    /\ step # "none" => \A i \in DOMAIN w : IsAuth(w[i]) => Turns(w, i)

\* Who is let in is told, and not asked again.
LetIn(s, w, srv) ==
    srv.authenticated =>
        \/ s.authenticated
        \/ Has(srv.held, USERAUTH_SUCCESS) \/ Has(w, USERAUTH_SUCCESS)
        \/ Has(s.packets, USERAUTH_SUCCESS)

\* A call of someone who is not logged in waits for what may answer it.
CallWaits(c, s) ==
    c.fn \in AuthCalls =>
        /\ ~s.authenticated /\ IsSeq(c.need)
        /\ {USERAUTH_FAILURE, USERAUTH_SUCCESS} \subseteq ToSet(c.need)
        /\ ToSet(c.need) \subseteq {USERAUTH_FAILURE, USERAUTH_SUCCESS, USERAUTH_PK_OK}

\* All of it. None is in the brigade once it has been searched, nor in an exchange.
DueAt(place, c, k, s, w, srv) ==
    /\ place # "none" <=> c.fn \in AuthCalls
    /\ At(place, s.out, srv.held, w, s.packets)
    /\ RequestsIn(s.out, c.need) /\ AnswersIn(srv.held, c.need)
    /\ AnswersIn(w, c.need) /\ AnswersIn(s.packets, c.need)
    /\ c.asked \/ k.step # "none" => place # "packets"
    /\ InOrder(w, k.step) /\ LetIn(s, w, srv) /\ CallWaits(c, s)

\* Where AnswersAreDue claims something, the request or the answer is in some place.
Quiet == Live /\ "timeout" \notin uses /\ session.socket_state = "CONNECTED"
AnswersInv == Quiet => \E place \in Places : DueAt(place, call, kex, session, wire, server)

\* One sequence has the requests and answers of another, and no others.
Same(q, t) ==
    /\ One(q) => One(t)
    /\ None(q) => None(t)
    /\ Has(q, USERAUTH_SUCCESS) => Has(t, USERAUTH_SUCCESS)
    /\ \A i \in DOMAIN t : IsAuth(t[i]) =>
          \E j \in DOMAIN q : q[j].type = t[i].type /\ q[j].what = t[i].what

\* It has its own.
LEMMA SameSelf == ASSUME NEW q PROVE Same(q, q)
BY DEF Same

\* And those of one that has them.
LEMMA SameThen ==
    ASSUME NEW q, NEW r, NEW t, Same(q, r), Same(r, t)
    PROVE  Same(q, t)
<1>1. ASSUME NEW i \in DOMAIN t, IsAuth(t[i])
      PROVE  \E j \in DOMAIN q : q[j].type = t[i].type /\ q[j].what = t[i].what
    <2>1. PICK j \in DOMAIN r : r[j].type = t[i].type /\ r[j].what = t[i].what
        BY <1>1 DEF Same
    <2>2. IsAuth(r[j]) BY <1>1, <2>1 DEF IsAuth
    <2>3. PICK l \in DOMAIN q : q[l].type = r[j].type /\ q[l].what = r[j].what
        BY <2>2 DEF Same
    <2> QED BY <2>1, <2>3
<1> QED BY <1>1 DEF Same

\* Which packets are requests or answers is a matter of their numbers.
LEMMA AuthTypes ==
    ASSUME NEW p
    PROVE  /\ p.type \in {USERAUTH_REQUEST, USERAUTH_INFO_RESPONSE, USERAUTH_FAILURE,
                          USERAUTH_SUCCESS, USERAUTH_PK_OK} => IsAuth(p)
           /\ p.type \in {BANNER_LINE, DISCONNECT, SERVICE_REQUEST, SERVICE_ACCEPT, KEXINIT,
                          NEWKEYS, USERAUTH_BANNER, KEX_DH_GEX_REQUEST, KEX_DH_GEX_GROUP}
                          \cup Values \cup Replies => ~IsAuth(p)
<1>1. PacketTypes BY Types
<1> QED BY <1>1 DEF IsAuth, PacketTypes, Values, Replies

\* Another packet at the end.
LEMMA SameAppends ==
    ASSUME NEW q, NEW p, NEW t, Longer(q, p, t), ~IsAuth(p)
    PROVE  Same(q, t)
<1>1. /\ Len(q) \in Nat /\ DOMAIN q = 1..Len(q) /\ DOMAIN t = 1..(Len(q) + 1)
      /\ t[Len(q) + 1] = p /\ \A i \in 1..Len(q) : t[i] = q[i]
    BY DEF Longer, Placed
<1>2. \A i \in DOMAIN t : IsAuth(t[i]) => i \in DOMAIN q /\ t[i] = q[i] BY <1>1
<1>3. \A i \in DOMAIN q : i \in DOMAIN t /\ t[i] = q[i] BY <1>1
<1>4. One(q) => One(t) BY <1>2, <1>3 DEF One
<1>5. None(q) => None(t) BY <1>2 DEF None
<1>6. Has(q, USERAUTH_SUCCESS) => Has(t, USERAUTH_SUCCESS) BY <1>3 DEF Has
<1> QED BY <1>2, <1>4, <1>5, <1>6 DEF Same

\* Another packet less.
LEMMA SameWithout ==
    ASSUME NEW q, NEW x, NEW t, Without(q, x, t), ~IsAuth(q[x])
    PROVE  Same(q, t)
<1>1. /\ Len(t) \in Nat /\ DOMAIN q = 1..(Len(t) + 1) /\ DOMAIN t = 1..Len(t)
      /\ x \in 1..(Len(t) + 1) /\ \A i \in 1..Len(t) : t[i] = q[IF i < x THEN i ELSE i + 1]
    BY DEF Without, Placed
<1>2. \A i \in DOMAIN t : \E j \in DOMAIN q : t[i] = q[j] BY <1>1
<1>3. \A j \in DOMAIN q : j # x => \E i \in DOMAIN t : j = IF i < x THEN i ELSE i + 1
    <2> SUFFICES ASSUME NEW j \in DOMAIN q, j # x
                 PROVE  \E i \in DOMAIN t : j = IF i < x THEN i ELSE i + 1
        OBVIOUS
    <2>1. CASE j < x BY <1>1, <2>1
    <2>2. CASE j > x
        <3>1. j - 1 \in DOMAIN t /\ ~(j - 1 < x) /\ j = (j - 1) + 1 BY <1>1, <2>2
        <3> QED BY <3>1
    <2> QED BY <1>1, <2>1, <2>2
<1>4. \A j \in DOMAIN q : IsAuth(q[j]) =>
          \E i \in DOMAIN t : j = (IF i < x THEN i ELSE i + 1) /\ t[i] = q[j]
    BY <1>1, <1>3
<1>5. One(q) => One(t)
    <2> SUFFICES ASSUME One(q) PROVE One(t) OBVIOUS
    <2>1. PICK j \in DOMAIN q : IsAuth(q[j]) /\ \A l \in DOMAIN q : IsAuth(q[l]) => l = j
        BY DEF One
    <2>2. PICK i \in DOMAIN t : j = (IF i < x THEN i ELSE i + 1) /\ t[i] = q[j] BY <1>4, <2>1
    <2>3. ASSUME NEW l \in DOMAIN t, IsAuth(t[l]) PROVE l = i
        <3>1. PICK h : h = IF l < x THEN l ELSE l + 1 OBVIOUS
        <3>2. h \in DOMAIN q /\ t[l] = q[h] BY <1>1, <3>1
        <3>3. h = j BY <2>1, <2>3, <3>2
        <3> QED BY <1>1, <2>2, <3>1, <3>3
    <2> QED BY <2>1, <2>2, <2>3 DEF One
<1>7. None(q) => None(t) BY <1>2 DEF None
<1>8. Has(q, USERAUTH_SUCCESS) => Has(t, USERAUTH_SUCCESS)
    <2>1. \A j \in DOMAIN q : q[j].type = USERAUTH_SUCCESS => IsAuth(q[j]) BY AuthTypes
    <2> QED BY <1>4, <2>1 DEF Has
<1> QED BY <1>2, <1>5, <1>7, <1>8 DEF Same

\* The first packet gone is one of them gone.
LEMMA ShorterIsWithout == ASSUME NEW q, NEW t, Shorter(q, t) PROVE Without(q, 1, t)
<1>1. /\ Placed(q) /\ Placed(t) /\ Len(t) \in Nat /\ Len(q) = Len(t) + 1
      /\ \A i \in 1..Len(t) : t[i] = q[i + 1]
    BY DEF Shorter, Placed
<1>2. \A i \in 1..Len(t) : ~(i < 1) BY <1>1
<1> QED BY <1>1, <1>2 DEF Without

\* The one gone, there is none.
LEMMA NoneWithout ==
    ASSUME NEW q, NEW x, NEW t, Without(q, x, t), One(q), IsAuth(q[x])
    PROVE  None(t)
<1>1. /\ Len(t) \in Nat /\ DOMAIN q = 1..(Len(t) + 1) /\ DOMAIN t = 1..Len(t)
      /\ x \in 1..(Len(t) + 1) /\ \A i \in 1..Len(t) : t[i] = q[IF i < x THEN i ELSE i + 1]
    BY DEF Without, Placed
<1>2. \A j \in DOMAIN q : IsAuth(q[j]) => j = x BY <1>1 DEF One
<1>3. ASSUME NEW i \in DOMAIN t PROVE ~IsAuth(t[i])
    <2>1. PICK j : j = IF i < x THEN i ELSE i + 1 OBVIOUS
    <2>2. j \in DOMAIN q /\ j # x /\ t[i] = q[j] BY <1>1, <2>1
    <2> QED BY <1>2, <2>2
<1> QED BY <1>3 DEF None

\* One where there was none.
LEMMA OneAppends ==
    ASSUME NEW q, NEW p, NEW t, Longer(q, p, t), None(q), IsAuth(p)
    PROVE  /\ One(t) /\ \A i \in DOMAIN t : IsAuth(t[i]) => t[i] = p
           /\ p.type = USERAUTH_SUCCESS => Has(t, USERAUTH_SUCCESS)
<1>1. /\ Len(q) \in Nat /\ DOMAIN q = 1..Len(q) /\ DOMAIN t = 1..(Len(q) + 1)
      /\ t[Len(q) + 1] = p /\ \A i \in 1..Len(q) : t[i] = q[i]
    BY DEF Longer, Placed
<1>2. \A i \in DOMAIN t : i # Len(q) + 1 => ~IsAuth(t[i]) BY <1>1 DEF None
<1>3. Len(q) + 1 \in DOMAIN t BY <1>1
<1> QED BY <1>1, <1>2, <1>3 DEF One, Has

\* Others at the end, or before.
LEMMA SameJoins ==
    ASSUME NEW q, NEW r, NEW t, Joined(q, r, t)
    PROVE  /\ None(r) => Same(q, t)
           /\ None(q) => Same(r, t)
<1>1. /\ Len(q) \in Nat /\ Len(r) \in Nat /\ DOMAIN q = 1..Len(q) /\ DOMAIN r = 1..Len(r)
      /\ DOMAIN t = 1..(Len(q) + Len(r))
      /\ \A i \in 1..Len(q) : t[i] = q[i]
      /\ \A i \in 1..Len(r) : t[Len(q) + i] = r[i]
    BY DEF Joined, Placed
<1>2. ASSUME NEW i \in DOMAIN t
      PROVE  \/ i \in DOMAIN q /\ t[i] = q[i]
             \/ \E j \in DOMAIN r : i = Len(q) + j /\ t[i] = r[j]
    <2>1. CASE i <= Len(q) BY <1>1, <2>1
    <2>2. CASE i > Len(q)
        <3>1. i - Len(q) \in DOMAIN r /\ i = Len(q) + (i - Len(q)) BY <1>1, <2>2
        <3> QED BY <1>1, <3>1
    <2> QED BY <1>1, <2>1, <2>2
<1>3. \A i \in DOMAIN q : i \in DOMAIN t /\ t[i] = q[i] BY <1>1
<1>4. \A j \in DOMAIN r : Len(q) + j \in DOMAIN t /\ t[Len(q) + j] = r[j] BY <1>1
<1>5. ASSUME None(r) PROVE Same(q, t)
    <2>1. \A i \in DOMAIN t : IsAuth(t[i]) => i \in DOMAIN q /\ t[i] = q[i]
        BY <1>2, <1>5 DEF None
    <2>2. One(q) => One(t) BY <1>3, <2>1 DEF One
    <2>3. None(q) => None(t) BY <2>1 DEF None
    <2>4. Has(q, USERAUTH_SUCCESS) => Has(t, USERAUTH_SUCCESS) BY <1>3 DEF Has
    <2> QED BY <2>1, <2>2, <2>3, <2>4 DEF Same
<1>6. ASSUME None(q) PROVE Same(r, t)
    <2>1. \A i \in DOMAIN t : IsAuth(t[i]) =>
              \E j \in DOMAIN r : i = Len(q) + j /\ t[i] = r[j]
        BY <1>2, <1>6 DEF None
    <2>2. One(r) => One(t)
        <3> SUFFICES ASSUME One(r) PROVE One(t) OBVIOUS
        <3>1. PICK j \in DOMAIN r : IsAuth(r[j]) /\ \A l \in DOMAIN r : IsAuth(r[l]) => l = j
            BY DEF One
        <3>2. Len(q) + j \in DOMAIN t /\ IsAuth(t[Len(q) + j]) BY <1>4, <3>1
        <3>3. \A i \in DOMAIN t : IsAuth(t[i]) => i = Len(q) + j BY <2>1, <3>1
        <3> QED BY <3>2, <3>3 DEF One
    <2>3. None(r) => None(t) BY <2>1 DEF None
    <2>4. Has(r, USERAUTH_SUCCESS) => Has(t, USERAUTH_SUCCESS) BY <1>4 DEF Has
    <2> QED BY <2>1, <2>2, <2>3, <2>4 DEF Same
<1> QED BY <1>5, <1>6

\* Keys make no difference.
LEMMA SameStamped ==
    ASSUME NEW r, IsSeq(r), \A i \in 1..Len(r) : IsPacket(r[i]), NEW keys
    PROVE  Same(r, Stamped(r, keys))
<1>1. /\ Placed(r) /\ Placed(Stamped(r, keys)) /\ Len(Stamped(r, keys)) = Len(r)
    BY StampedPlaces
<1>2. \A i \in 1..Len(r) : /\ Stamped(r, keys)[i].type = r[i].type
                           /\ Stamped(r, keys)[i].what = r[i].what
    BY StampedAre
<1>3. PICK q : q = Stamped(r, keys) OBVIOUS
<1>4. DOMAIN q = DOMAIN r /\ \A i \in DOMAIN r : q[i].type = r[i].type /\ q[i].what = r[i].what
    BY <1>1, <1>2, <1>3 DEF Placed
<1>5. \A i \in DOMAIN r : IsAuth(q[i]) <=> IsAuth(r[i]) BY <1>4 DEF IsAuth
<1>6. Same(r, q) BY <1>4, <1>5 DEF Same, One, None, Has
<1> QED BY <1>3, <1>6

-----------------------------------------------------------------------------
(* Steps that leave requests and answers alone *)

\* The requests and answers of a sequence with those of another.
LEMMA SameIn ==
    ASSUME NEW q, NEW t, Same(q, t), NEW need
    PROVE  /\ RequestsIn(q, need) => RequestsIn(t, need)
           /\ AnswersIn(q, need) => AnswersIn(t, need)
<1>1. ASSUME NEW i \in DOMAIN t, IsAuth(t[i])
      PROVE  \E j \in DOMAIN q : /\ q[j].type = t[i].type /\ q[j].what = t[i].what
                                 /\ IsAuth(q[j])
    BY <1>1 DEF Same, IsAuth
<1>2. ASSUME RequestsIn(q, need) PROVE RequestsIn(t, need)
    BY <1>1, <1>2 DEF RequestsIn
<1>3. ASSUME AnswersIn(q, need) PROVE AnswersIn(t, need)
    BY <1>1, <1>3 DEF AnswersIn
<1> QED BY <1>2, <1>3

\* Where there is nothing, anything may be said.
LEMMA NoneIn ==
    ASSUME NEW q, None(q), NEW need
    PROVE  RequestsIn(q, need) /\ AnswersIn(q, need) /\ ~Has(q, USERAUTH_SUCCESS)
<1>1. \A i \in DOMAIN q : q[i].type = USERAUTH_SUCCESS => IsAuth(q[i]) BY AuthTypes
<1> QED BY <1>1 DEF None, RequestsIn, AnswersIn, Has

\* No call waits, and nothing is on its way.
LEMMA DueNot ==
    ASSUME NEW place, NEW c, NEW k, NEW s, NEW w, NEW srv, DueAt(place, c, k, s, w, srv),
           c.fn \notin AuthCalls
    PROVE  /\ place = "none" /\ None(s.out) /\ None(srv.held) /\ None(w) /\ None(s.packets)
           /\ srv.authenticated => s.authenticated
<1>1. place = "none" BY DEF DueAt
<1>2. None(s.out) /\ None(srv.held) /\ None(w) /\ None(s.packets) BY <1>1 DEF DueAt, At
<1>3. srv.authenticated => s.authenticated
    <2>1. ~Has(srv.held, USERAUTH_SUCCESS) BY <1>2, NoneIn
    <2>2. ~Has(w, USERAUTH_SUCCESS) BY <1>2, NoneIn
    <2>3. ~Has(s.packets, USERAUTH_SUCCESS) BY <1>2, NoneIn
    <2> QED BY <2>1, <2>2, <2>3 DEF DueAt, LetIn
<1> QED BY <1>1, <1>2, <1>3

\* A step of any actor that neither asks nor answers.
LEMMA DueStays ==
    ASSUME NEW place, NEW c, NEW k, NEW s, NEW w, NEW srv, DueAt(place, c, k, s, w, srv),
           NEW c2, NEW k2, NEW s2, NEW w2, NEW srv2,
           Same(s.out, s2.out), Same(srv.held, srv2.held),
           Same(w, w2), Same(s.packets, s2.packets),
           s2.authenticated = s.authenticated, srv2.authenticated = srv.authenticated,
           (c2.fn = c.fn /\ c2.need = c.need) \/ (c.fn \notin AuthCalls /\ c2.fn \notin AuthCalls),
           place = "packets" => ~c2.asked /\ k2.step = "none",
           InOrder(w2, k2.step)
    PROVE  DueAt(place, c2, k2, s2, w2, srv2)
<1>1. At(place, s2.out, srv2.held, w2, s2.packets) BY DEF DueAt, At, Same
<1>2. LetIn(s2, w2, srv2) BY DEF DueAt, LetIn, Same
<1>3. place # "none" <=> c2.fn \in AuthCalls BY DEF DueAt
<1>4. c2.asked \/ k2.step # "none" => place # "packets" OBVIOUS
<1>5. CallWaits(c2, s2) BY DEF DueAt, CallWaits
<1>6. /\ RequestsIn(s2.out, c2.need) /\ AnswersIn(srv2.held, c2.need)
      /\ AnswersIn(w2, c2.need) /\ AnswersIn(s2.packets, c2.need)
    <2>1. CASE c2.need = c.need
        <3>1. RequestsIn(s.out, c.need) /\ AnswersIn(srv.held, c.need)
              /\ AnswersIn(w, c.need) /\ AnswersIn(s.packets, c.need)
            BY DEF DueAt
        <3>2. RequestsIn(s2.out, c.need) BY <3>1, SameIn
        <3>3. AnswersIn(srv2.held, c.need) BY <3>1, SameIn
        <3>4. AnswersIn(w2, c.need) BY <3>1, SameIn
        <3>5. AnswersIn(s2.packets, c.need) BY <3>1, SameIn
        <3> QED BY <2>1, <3>2, <3>3, <3>4, <3>5
    <2>2. CASE c.fn \notin AuthCalls
        <3>1. None(s.out) /\ None(srv.held) /\ None(w) /\ None(s.packets) BY <2>2, DueNot
        <3>2. None(s2.out) /\ None(srv2.held) /\ None(w2) /\ None(s2.packets)
            BY <3>1 DEF Same
        <3> QED BY <3>2, NoneIn
    <2> QED BY <2>1, <2>2
<1> QED BY <1>1, <1>2, <1>3, <1>4, <1>5, <1>6 DEF DueAt

\* The first packet is read: the others are in order.
LEMMA OrderTail ==
    ASSUME NEW w, NEW w2, Shorter(w, w2), NEW step, NEW step2, InOrder(w, step),
           step2 # "none" => None(w2) \/ (step # "none" /\ w[1].type # NEWKEYS)
    PROVE  InOrder(w2, step2)
<1>1. /\ Len(w2) \in Nat /\ DOMAIN w2 = 1..Len(w2) /\ DOMAIN w = 1..(Len(w2) + 1)
      /\ \A i \in 1..Len(w2) : w2[i] = w[i + 1]
    BY DEF Shorter, Placed
<1>2. ASSUME NEW i \in DOMAIN w2, NEW j \in DOMAIN w2, w2[i].type = KEXINIT, IsAuth(w2[j])
      PROVE  j < i
    <2>1. j + 1 < i + 1 BY <1>1, <1>2 DEF InOrder
    <2> QED BY <1>1, <2>1
<1>3. ASSUME step2 # "none", NEW i \in DOMAIN w2, IsAuth(w2[i])
      PROVE  Turns(w2, i)
    <2>1. step # "none" /\ w[1].type # NEWKEYS BY <1>3 DEF None
    <2>2. i + 1 \in DOMAIN w /\ IsAuth(w[i + 1]) BY <1>1, <1>3
    <2>3. PICK j \in DOMAIN w : j < i + 1 /\ w[j].type = NEWKEYS
        BY <2>1, <2>2 DEF InOrder, Turns
    <2>4. j # 1 BY <2>1, <2>3
    <2>5. j - 1 \in DOMAIN w2 /\ j - 1 < i /\ w2[j - 1] = w[j] BY <1>1, <2>3, <2>4
    <2> QED BY <2>3, <2>5 DEF Turns
<1> QED BY <1>2, <1>3 DEF InOrder

\* Nothing is read, and an exchange does not begin.
LEMMA OrderStays ==
    ASSUME NEW w, NEW step, NEW step2, InOrder(w, step),
           step2 # "none" => None(w) \/ step # "none"
    PROVE  InOrder(w, step2)
<1>1. step2 # "none" => \A i \in DOMAIN w : IsAuth(w[i]) => Turns(w, i)
    BY DEF InOrder, None
<1> QED BY <1>1 DEF InOrder

\* In an exchange the next packet is no answer; behind a KEXINIT there is none.
LEMMA OrderHead ==
    ASSUME NEW w, Placed(w), w # <<>>, NEW step, InOrder(w, step)
    PROVE  /\ step # "none" => ~IsAuth(w[1])
           /\ w[1].type = KEXINIT => None(w)
<1>1. 1 \in DOMAIN w /\ Len(w) \in Nat /\ DOMAIN w = 1..Len(w)
    <2>1. Len(w) \in Nat /\ DOMAIN w = 1..Len(w) BY DEF Placed
    <2>2. Len(w) # 0 BY <2>1 DEF Placed, IsSeq
    <2> QED BY <2>1, <2>2
<1>2. ~Turns(w, 1) BY <1>1 DEF Turns
<1>3. step # "none" => ~IsAuth(w[1]) BY <1>1, <1>2 DEF InOrder
<1>4. ASSUME w[1].type = KEXINIT PROVE None(w)
    <2>1. \A j \in DOMAIN w : ~(j < 1) BY <1>1
    <2> QED BY <1>1, <1>4, <2>1 DEF InOrder, None
<1> QED BY <1>3, <1>4

\* Other packets at the end: answers only if there is no KEXINIT, and behind a NEWKEYS
\* in an exchange.
LEMMA OrderJoins ==
    ASSUME NEW w, NEW r, NEW w2, Joined(w, r, w2), NEW step, InOrder(w, step),
           None(r) \/ (/\ ~Has(w, KEXINIT) /\ ~Has(r, KEXINIT)
                       /\ step # "none" => Has(w, NEWKEYS))
    PROVE  InOrder(w2, step)
<1>1. /\ Len(w) \in Nat /\ Len(r) \in Nat /\ DOMAIN w = 1..Len(w) /\ DOMAIN r = 1..Len(r)
      /\ DOMAIN w2 = 1..(Len(w) + Len(r))
      /\ \A i \in 1..Len(w) : w2[i] = w[i]
      /\ \A i \in 1..Len(r) : w2[Len(w) + i] = r[i]
    BY DEF Joined, Placed
<1>2. ASSUME NEW i \in DOMAIN w2
      PROVE  \/ i \in DOMAIN w /\ w2[i] = w[i]
             \/ i > Len(w) /\ \E j \in DOMAIN r : w2[i] = r[j]
    <2>1. CASE i <= Len(w) BY <1>1, <2>1
    <2>2. CASE i > Len(w)
        <3>1. i - Len(w) \in DOMAIN r /\ i = Len(w) + (i - Len(w)) BY <1>1, <2>2
        <3> QED BY <1>1, <2>2, <3>1
    <2> QED BY <1>1, <2>1, <2>2
<1>3. ASSUME NEW i \in DOMAIN w2, NEW j \in DOMAIN w2, w2[i].type = KEXINIT, IsAuth(w2[j])
      PROVE  j < i
    <2>1. CASE None(r)
        <3>1. j \in DOMAIN w /\ w2[j] = w[j] BY <1>2, <1>3, <2>1 DEF None
        <3>2. CASE i \in DOMAIN w /\ w2[i] = w[i] BY <1>3, <3>1, <3>2 DEF InOrder
        <3>3. CASE i > Len(w) BY <1>1, <3>1, <3>3
        <3> QED BY <1>2, <3>2, <3>3
    <2>2. CASE ~Has(w, KEXINIT) /\ ~Has(r, KEXINIT) BY <1>2, <1>3, <2>2 DEF Has
    <2> QED BY <2>1, <2>2
<1>4. ASSUME step # "none", NEW i \in DOMAIN w2, IsAuth(w2[i]) PROVE Turns(w2, i)
    <2>1. \A j \in DOMAIN w : j \in DOMAIN w2 /\ w2[j] = w[j] BY <1>1
    <2>2. CASE i \in DOMAIN w /\ w2[i] = w[i]
        BY <1>4, <2>1, <2>2 DEF InOrder, Turns
    <2>3. CASE i > Len(w) /\ ~None(r)
        <3>1. PICK j \in DOMAIN w : w[j].type = NEWKEYS BY <1>4, <2>3 DEF Has
        <3>2. j < i BY <1>1, <2>3
        <3> QED BY <2>1, <3>1, <3>2 DEF Turns
    <2>4. CASE i > Len(w) /\ None(r) BY <1>2, <1>4, <2>2, <2>4 DEF None
    <2> QED BY <1>2, <2>2, <2>3, <2>4
<1> QED BY <1>3, <1>4 DEF InOrder

-----------------------------------------------------------------------------
(* What the client does in an exchange *)

\* A session with the packets of another, as far as requests and answers go.
Unmoved(s, t) ==
    /\ DOMAIN t = SessionFields /\ IsSeq(t.out) /\ t.out = s.out /\ t.packets = s.packets
    /\ t.socket_state = s.socket_state /\ t.authenticated = s.authenticated

\* A step from there that neither asks nor answers.
Silently(s) ==
    /\ Same(s.out, session'.out) /\ session'.packets = s.packets
    /\ session'.socket_state = s.socket_state /\ session'.authenticated = s.authenticated
    /\ call' = call \/ (call.fn \notin AuthCalls /\ call'.fn \notin AuthCalls)

\* An exchange fails.
LEMMA KexFailsSilent ==
    ASSUME NEW s, NEW t, Unmoved(s, t), KexFails(t)
    PROVE  Silently(s)
<1>1. session' = t BY DEF KexFails
<1>2. call' = call \/ (call.fn \notin AuthCalls /\ call'.fn \notin AuthCalls)
    BY DEF KexFails, Idle, Call, AuthCalls
<1>3. Same(s.out, t.out) BY SameSelf DEF Unmoved
<1> QED BY <1>1, <1>2, <1>3 DEF Silently, Unmoved

\* A packet of another kind is written.
LEMMA WritesSilent ==
    ASSUME NEW t, DOMAIN t = SessionFields, IsSeq(t.out), NEW p, IsPacket(p), ~IsAuth(p)
    PROVE  LET u == PacketWrite(t, p)
           IN  /\ DOMAIN u = SessionFields /\ Same(t.out, u.out)
               /\ \A f \in SessionFields \ {"out"} : u[f] = t[f]
<1>1. PICK u : u = PacketWrite(t, p) OBVIOUS
<1>2. DOMAIN u = SessionFields /\ \A f \in SessionFields \ {"out"} : u[f] = t[f]
    BY <1>1, WriteFields
<1>3. Same(t.out, u.out)
    <2>1. CASE CanWrite(t)
        <3>1. PICK q : q = Under(p, OutKeys(t)) OBVIOUS
        <3>2. Longer(t.out, q, u.out) BY <1>1, <2>1, <3>1, WriteFields
        <3>3. q.type = p.type BY <3>1 DEF Under, IsPacket
        <3>4. ~IsAuth(q) BY <3>3 DEF IsAuth
        <3> QED BY <3>2, <3>4, SameAppends
    <2>2. CASE ~CanWrite(t)
        <3>1. u = t BY <1>1, <2>2 DEF PacketWrite
        <3> QED BY <3>1, SameSelf
    <2> QED BY <2>1, <2>2
<1> QED BY <1>1, <1>2, <1>3

\* Packets of an exchange are of another kind.
LEMMA MessagesAre ==
    ASSUME NEW type, NEW what, NEW n
    PROVE  /\ IsPacket(Msg(type, what, n)) /\ Msg(type, what, n).type = type
           /\ Msg(type, what, n).what = what
BY DEF Msg, IsPacket

\* The exchange goes on, with a packet that is written.
LEMMA KexSendsSilent ==
    ASSUME NEW s, NEW t, Unmoved(s, t), NEW p, IsPacket(p), ~IsAuth(p), NEW step,
           KexSends(t, p, step)
    PROVE  Silently(s)
<1>1. CASE CanWrite(t)
    <2>1. session' = PacketWrite(t, p) /\ call' = call BY <1>1 DEF KexSends
    <2>2. DOMAIN t = SessionFields /\ IsSeq(t.out) BY DEF Unmoved
    <2>3. Same(t.out, session'.out) /\ \A f \in SessionFields \ {"out"} : session'[f] = t[f]
        BY <2>1, <2>2, WritesSilent
    <2>4. /\ session'.packets = t.packets /\ session'.socket_state = t.socket_state
          /\ session'.authenticated = t.authenticated
        BY <2>3 DEF SessionFields
    <2> QED BY <2>1, <2>3, <2>4 DEF Unmoved, Silently
<1>2. CASE ~CanWrite(t)
    <2>1. KexFails(t) BY <1>2 DEF KexSends
    <2> QED BY <2>1, KexFailsSilent
<1> QED BY <1>1, <1>2

\* It begins.
LEMMA KexBeginsSilent ==
    ASSUME NEW s, DOMAIN s = SessionFields, IsSeq(s.out), NEW re, KexBegins(s, re)
    PROVE  Silently(s)
<1>1. PICK t : t = [s EXCEPT !.exchanging = TRUE,
                             !.method["KEX"] = IF re THEN "" ELSE @,
                             !.method["HOSTKEY"] = IF re THEN "" ELSE @]
    OBVIOUS
<1>2. Unmoved(s, t) BY <1>1 DEF Unmoved, SessionFields
<1>3. CASE CanWrite(t)
    <2>1. PICK p : p = Msg(KEXINIT, [k \in Kinds |-> Offer(t, k)], 0) OBVIOUS
    <2>2. session' = PacketWrite(t, p) /\ call' = call BY <1>1, <1>3, <2>1 DEF KexBegins
    <2>3. IsPacket(p) /\ ~IsAuth(p) BY <2>1, MessagesAre, AuthTypes
    <2>4. DOMAIN t = SessionFields /\ IsSeq(t.out) BY <1>2 DEF Unmoved
    <2>5. Same(t.out, session'.out) /\ \A f \in SessionFields \ {"out"} : session'[f] = t[f]
        BY <2>2, <2>3, <2>4, WritesSilent
    <2>6. /\ session'.packets = t.packets /\ session'.socket_state = t.socket_state
          /\ session'.authenticated = t.authenticated
        BY <2>5 DEF SessionFields
    <2> QED BY <1>2, <2>2, <2>5, <2>6 DEF Unmoved, Silently
<1>4. CASE ~CanWrite(t)
    <2>1. KexFails(t) BY <1>1, <1>4 DEF KexBegins
    <2> QED BY <1>2, <2>1, KexFailsSilent
<1> QED BY <1>3, <1>4

\* It is over.
LEMMA AfterKexSilent ==
    ASSUME NEW s, NEW t, Unmoved(s, t), AfterKex(t)
    PROVE  Silently(s)
<1> DEFINE p == Msg(SERVICE_REQUEST, "", 0)
<1>1. IsPacket(p) /\ p.type = SERVICE_REQUEST BY DEF Msg, IsPacket
<1>2. CASE call.fn = "startup"
    <2>1. session' = PacketWrite(t, p) /\ call' \in {Call("service", <<SERVICE_ACCEPT>>), Idle}
        BY <1>2 DEF AfterKex
    <2> HIDE DEF p
    <2>2. ~IsAuth(p) BY <1>1, AuthTypes
    <2>3. DOMAIN t = SessionFields /\ IsSeq(t.out) BY DEF Unmoved
    <2>4. Same(t.out, session'.out) /\ \A f \in SessionFields \ {"out"} : session'[f] = t[f]
        BY <1>1, <2>1, <2>2, <2>3, WritesSilent
    <2>5. /\ session'.packets = t.packets /\ session'.socket_state = t.socket_state
          /\ session'.authenticated = t.authenticated
        BY <2>4 DEF SessionFields
    <2>6. call.fn \notin AuthCalls /\ call'.fn \notin AuthCalls
        BY <1>2, <2>1 DEF AuthCalls, Call, Idle
    <2> QED BY <2>4, <2>5, <2>6 DEF Unmoved, Silently
<1>3. CASE call.fn # "startup"
    <2>1. session' = t BY <1>3 DEF AfterKex
    <2>2. call' = call \/ (call.fn = "read" /\ call' = Idle) BY <1>3 DEF AfterKex
    <2>3. Same(s.out, t.out) BY SameSelf DEF Unmoved
    <2>4. call' = call \/ (call.fn \notin AuthCalls /\ call'.fn \notin AuthCalls)
        BY <2>2 DEF AuthCalls, Idle, Call
    <2> QED BY <2>1, <2>3, <2>4 DEF Unmoved, Silently
<1> QED BY <1>2, <1>3

\* It goes on with the packet it waited for.
LEMMA KexTakesSilent ==
    ASSUME NEW s, DOMAIN s = SessionFields, IsSeq(s.out), NEW p, KexTakes(s, p)
    PROVE  Silently(s)
<1>1. Unmoved(s, s) BY DEF Unmoved
<1>2. ASSUME NEW type \in Values, NEW what, KexInit(s, Msg(type, what, 0)) PROVE Silently(s)
    <2>1. PICK q : q = Msg(type, what, 0) OBVIOUS
    <2>2. IsPacket(q) /\ ~IsAuth(q) BY <2>1, MessagesAre, AuthTypes
    <2>3. PICK step : KexSends(s, q, step) BY <1>2, <2>1 DEF KexInit
    <2> QED BY <1>1, <2>2, <2>3, KexSendsSilent
<1>3. CASE kex.step = "kexinit"
    <2>1. session' = [s EXCEPT !.kexinit = p] /\ call' = call BY <1>3 DEF KexTakes
    <2>2. Same(s.out, s.out) BY SameSelf
    <2> QED BY <2>1, <2>2 DEF Silently, SessionFields
<1>4. CASE kex.step = "group"
    <2>1. KexInit(s, Msg(KEX_DH_GEX_INIT, p.what.blob, 0)) BY <1>4 DEF KexTakes
    <2>2. KEX_DH_GEX_INIT \in Values BY DEF Values
    <2> QED BY <1>2, <2>1, <2>2
<1>5. CASE kex.step = "burn"
    <2>1. session' = [s EXCEPT !.burn = FALSE] /\ call' = call BY <1>5 DEF KexTakes
    <2>2. Same(s.out, s.out) BY SameSelf
    <2> QED BY <2>1, <2>2 DEF Silently, SessionFields
<1>6. CASE kex.step = "reply"
    <2> DEFINE q == Msg(NEWKEYS, "", 0)
               step == KexStep("newkeys", p.n)
    <2>0. IF Verified(s, p) THEN KexSends(s, q, step) ELSE KexFails(s)
        BY <1>6 DEF KexTakes
    <2>3. IsPacket(q) /\ q.type = NEWKEYS BY DEF Msg, IsPacket
    <2> HIDE DEF q, step
    <2>1. CASE Verified(s, p)
        <3>1. ~IsAuth(q) BY <2>3, AuthTypes
        <3> QED BY <1>1, <2>0, <2>1, <2>3, <3>1, KexSendsSilent
    <2>2. CASE ~Verified(s, p)
        <3>1. KexFails(s) BY <2>0, <2>2
        <3> QED BY <1>1, <3>1, KexFailsSilent
    <2> QED BY <2>1, <2>2
<1>7. CASE kex.step = "newkeys"
    <2>1. PICK u : u = NewKeys(s, kex.h) OBVIOUS
    <2>2. AfterKex(u) BY <1>7, <2>1 DEF KexTakes
    <2>3. Unmoved(s, u) BY <2>1 DEF NewKeys, Unmoved, SessionFields
    <2> QED BY <2>2, <2>3, AfterKexSilent
<1> QED BY <1>3, <1>4, <1>5, <1>6, <1>7 DEF KexTakes

-----------------------------------------------------------------------------
(* What a call asks, and what it does with the answer *)

\* A session, connected, and nothing of any call anywhere.
Bare(s, w) ==
    /\ DOMAIN s = SessionFields /\ IsSeq(s.out) /\ s.link = "up" /\ kex.step = "none"
    /\ None(s.out) /\ None(server.held) /\ None(w) /\ None(s.packets)

\* A request is what is due.
Requests(p, need) ==
    /\ IsPacket(p) /\ p.type \in {USERAUTH_REQUEST, USERAUTH_INFO_RESPONSE}
    /\ \/ p.type = USERAUTH_REQUEST /\ p.what \in Unchallenged
       \/ USERAUTH_PK_OK \in ToSet(need)

\* A call that writes its request has it due, and nothing else.
LEMMA RequestDue ==
    ASSUME NEW s, NEW w, Bare(s, w), NEW t, DOMAIN t = SessionFields,
           \A f \in SessionFields \ {"tries"} : t[f] = s[f],
           NEW p, NEW then, Sends(t, p, then), Requests(p, then.need),
           then.fn \in AuthCalls, then.asked = FALSE, CallWaits(then, s),
           ~server.authenticated
    PROVE  DueAt("out", call', kex', session', w, server)
<1>1. /\ t.out = s.out /\ t.packets = s.packets /\ t.authenticated = s.authenticated
      /\ t.link = "up" /\ IsSeq(t.out)
    BY DEF Bare, SessionFields
<1>2. CanWrite(t) /\ IsPacket(p) BY <1>1 DEF CanWrite, Requests
<1>3. session' = PacketWrite(t, p) /\ call' = then /\ kex' = kex BY <1>2 DEF Sends
<1>4. PICK u : u = PacketWrite(t, p) OBVIOUS
<1>5. PICK q : q = Under(p, OutKeys(t)) OBVIOUS
<1>6. /\ DOMAIN u = SessionFields /\ \A f \in SessionFields \ {"out"} : u[f] = t[f]
      /\ Longer(t.out, q, u.out) /\ q.type = p.type /\ q.what = p.what
    BY <1>1, <1>2, <1>4, <1>5, WriteAlike
<1>7. u.packets = s.packets /\ u.authenticated = s.authenticated
    BY <1>1, <1>6 DEF SessionFields
<1>8. IsAuth(q) /\ None(t.out)
    <2>1. q.type \in {USERAUTH_REQUEST, USERAUTH_INFO_RESPONSE} BY <1>6 DEF Requests
    <2>2. IsAuth(q) BY <2>1, AuthTypes
    <2> QED BY <1>1, <2>2 DEF Bare
<1>9. One(u.out) /\ \A i \in DOMAIN u.out : IsAuth(u.out[i]) => u.out[i] = q
    BY <1>6, <1>8, OneAppends
<1>10. At("out", u.out, server.held, w, u.packets) BY <1>7, <1>9 DEF At, Bare
<1>11. RequestsIn(u.out, then.need) BY <1>6, <1>9 DEF RequestsIn, Requests
<1>12. /\ AnswersIn(server.held, then.need) /\ AnswersIn(w, then.need)
       /\ AnswersIn(u.packets, then.need)
    BY <1>7, NoneIn DEF Bare
<1>13. InOrder(w, kex.step) BY DEF Bare, InOrder, None
<1>14. LetIn(u, w, server) BY DEF LetIn
<1>15. CallWaits(then, u) BY <1>7 DEF CallWaits
<1>16. DueAt("out", then, kex, u, w, server)
    BY <1>10, <1>11, <1>12, <1>13, <1>14, <1>15 DEF DueAt
<1> QED BY <1>3, <1>4, <1>16

\* The call returns, and nothing is due.
LEMMA ReturnsDue ==
    ASSUME NEW s, NEW w, Bare(s, w), NEW t, DOMAIN t = SessionFields,
           \A f \in SessionFields \ {"authenticated"} : t[f] = s[f],
           server.authenticated => t.authenticated, Returns(t)
    PROVE  DueAt("none", call', kex', session', w, server)
<1>1. session' = t /\ call' = Idle /\ kex' = kex BY DEF Returns
<1>2. t.out = s.out /\ t.packets = s.packets BY DEF SessionFields
<1>3. Idle.fn \notin AuthCalls /\ Idle.asked = FALSE BY DEF Idle, Call, AuthCalls
<1>4. At("none", t.out, server.held, w, t.packets) BY <1>2 DEF At, Bare
<1>5. PICK need : need = Idle.need OBVIOUS
<1>6. /\ RequestsIn(t.out, need) /\ AnswersIn(server.held, need) /\ AnswersIn(w, need)
      /\ AnswersIn(t.packets, need)
    BY <1>2, NoneIn DEF Bare
<1>7. InOrder(w, kex.step) BY DEF Bare, InOrder, None
<1>8. LetIn(t, w, server) BY DEF LetIn
<1>9. CallWaits(Idle, t) BY <1>3 DEF CallWaits
<1>10. DueAt("none", Idle, kex, t, w, server)
    BY <1>3, <1>4, <1>5, <1>6, <1>7, <1>8, <1>9 DEF DueAt
<1> QED BY <1>1, <1>10

\* What is signed cannot be challenged.
LEMMA SignedRequests ==
    ASSUME NEW fn \in {"hostbased", "signed"}, NEW sig, NEW need
    PROVE  Requests(Signed(fn, sig), need)
<1>1. IsPacket(Signed(fn, sig)) /\ Signed(fn, sig).type = USERAUTH_REQUEST
    BY SignedIsRequest
<1>2. Signed(fn, sig).what \in {"garbled", fn} BY DEF Signed, Msg
<1> QED BY <1>1, <1>2 DEF Requests, Unchallenged

\* The call takes the answer that was due: it returns, or asks again.
LEMMA CallTakesDue ==
    ASSUME NEW s, NEW w, Bare(s, w), NEW p, CallTakes(s, p), call.fn \in AuthCalls,
           DOMAIN call = {"fn", "need", "asked", "key"},
           p.type \in {USERAUTH_FAILURE, USERAUTH_SUCCESS, USERAUTH_PK_OK},
           p.type = USERAUTH_PK_OK => USERAUTH_PK_OK \in ToSet(call.need),
           CallWaits(call, s), server.authenticated => p.type = USERAUTH_SUCCESS
    PROVE  \E place \in Places : DueAt(place, call', kex', session', w, server)
<1>1. PacketTypes BY Types
<1>2. call.fn # "service" BY DEF AuthCalls
<1>3. /\ "none" \in Places /\ "out" \in Places BY DEF Places
<1>4. DOMAIN s = SessionFields BY DEF Bare
<1>5. CASE Succeeded(p) \/ p.type = USERAUTH_FAILURE
    <2>1. Answered(s, p) BY <1>2, <1>5 DEF CallTakes
    <2>2. PICK t : t = IF Succeeded(p) THEN [s EXCEPT !.authenticated = TRUE] ELSE s
        OBVIOUS
    <2>3. Returns(t) BY <2>1, <2>2 DEF Answered
    <2>4. DOMAIN t = SessionFields /\ \A f \in SessionFields \ {"authenticated"} : t[f] = s[f]
        BY <1>4, <2>2
    <2>5. server.authenticated => t.authenticated
        <3>1. p.type = USERAUTH_SUCCESS => t.authenticated = TRUE
            BY <1>4, <2>2 DEF Succeeded, SessionFields
        <3> QED BY <3>1
    <2>6. DueAt("none", call', kex', session', w, server)
        BY <2>3, <2>4, <2>5, ReturnsDue
    <2> QED BY <1>3, <2>6
<1>6. CASE ~(Succeeded(p) \/ p.type = USERAUTH_FAILURE)
    <2>1. p.type # USERAUTH_SUCCESS /\ p.type = USERAUTH_PK_OK BY <1>6 DEF Succeeded
    <2>2. ~server.authenticated /\ USERAUTH_PK_OK \in ToSet(call.need) BY <2>1
    <2>3. ASSUME Returns(s) PROVE DueAt("none", call', kex', session', w, server)
        BY <1>4, <2>2, <2>3, ReturnsDue
    <2>4. ASSUME NEW q, NEW then, Sends(s, q, then), Requests(q, then.need),
                 then.fn \in AuthCalls, then.asked = FALSE, CallWaits(then, s)
          PROVE  DueAt("out", call', kex', session', w, server)
        BY <1>4, <2>2, <2>4, RequestDue
    <2> DEFINE again == [call EXCEPT !.asked = FALSE]
    <2>5. again.fn \in AuthCalls /\ again.asked = FALSE /\ again.need = call.need
          /\ CallWaits(again, s)
        BY DEF CallWaits
    <2> HIDE DEF again
    <2>6. CASE call.fn = "password" /\ ChangesPassword(s)
        <3> DEFINE q == Asks("password")
        <3>1. Sends(s, q, again) \/ Returns(s) BY <2>6 DEF ChangesPassword, again
        <3>2. IsPacket(q) /\ q.type = USERAUTH_REQUEST BY DEF Asks, Msg, IsPacket
        <3> HIDE DEF q
        <3>3. Requests(q, again.need) BY <2>2, <2>5, <3>2 DEF Requests
        <3>4. CASE Sends(s, q, again)
            <4>1. DueAt("out", call', kex', session', w, server) BY <2>4, <2>5, <3>3, <3>4
            <4> QED BY <1>3, <4>1
        <3> QED BY <1>3, <2>3, <3>1, <3>4
    <2>7. CASE call.fn = "kbdint" /\ Respond(s, p)
        <3> DEFINE q == Msg(USERAUTH_INFO_RESPONSE, "", p.n)
        <3>1. Sends(s, q, again) BY <2>7 DEF Respond, again
        <3>2. IsPacket(q) /\ q.type = USERAUTH_INFO_RESPONSE BY DEF Msg, IsPacket
        <3> HIDE DEF q
        <3>3. Requests(q, again.need) BY <2>2, <2>5, <3>2 DEF Requests
        <3>4. DueAt("out", call', kex', session', w, server) BY <2>4, <2>5, <3>1, <3>3
        <3> QED BY <1>3, <3>4
    <2>8. CASE call.fn = "publickey" /\ SendsSigned(s)
        <3> DEFINE then == Call("publickey", Answers)
        <3>1. Returns(s) \/ \E sig : Sends(s, Signed("signed", sig), then)
            BY <2>8 DEF SendsSigned
        <3>2. then.fn = "publickey" /\ then.asked = FALSE /\ then.need = Answers BY DEF Call
        <3> HIDE DEF then
        <3>3. ToSet(Answers) = {USERAUTH_SUCCESS, USERAUTH_FAILURE} BY DEF Answers, ToSet
        <3>4. then.fn \in AuthCalls BY <3>2 DEF AuthCalls
        <3>5. IsSeq(Answers)
            <4>1. Answers \in Seq({USERAUTH_SUCCESS, USERAUTH_FAILURE}) BY DEF Answers
            <4> QED BY <4>1 DEF IsSeq
        <3>8. CallWaits(then, s) BY <3>2, <3>3, <3>5 DEF CallWaits
        <3>6. CASE Returns(s) BY <1>3, <2>3, <3>6
        <3>7. CASE \E sig : Sends(s, Signed("signed", sig), then)
            <4>1. PICK sig : Sends(s, Signed("signed", sig), then) BY <3>7
            <4>2. PICK q : q = Signed("signed", sig) OBVIOUS
            <4>3. Requests(q, then.need) BY <4>2, SignedRequests
            <4>4. DueAt("out", call', kex', session', w, server)
                BY <2>4, <3>2, <3>4, <3>8, <4>1, <4>2, <4>3
            <4> QED BY <1>3, <4>4
        <3> QED BY <3>1, <3>6, <3>7
    <2> QED BY <1>2, <1>6, <2>6, <2>7, <2>8 DEF CallTakes
<1> QED BY <1>5, <1>6

-----------------------------------------------------------------------------
(* What the client does *)

\* A step of the client that neither asks nor answers.
LEMMA ClientDue ==
    ASSUME NEW place, DueAt(place, call, kex, session, wire, server),
           NEW s, Silently(s), s.out = session.out,
           s.authenticated = session.authenticated, Same(session.packets, s.packets),
           NEW w2, wire' = w2, Same(wire, w2), InOrder(w2, kex'.step), server' = server,
           call.asked \/ kex.step # "none" \/ call.fn \notin AuthCalls
    PROVE  DueAt(place, call', kex', session', wire', server')
<1>1. place # "packets"
    BY DEF DueAt
<1>2. /\ Same(session.out, session'.out) /\ Same(session.packets, session'.packets)
      /\ session'.authenticated = session.authenticated
      /\ call' = call \/ (call.fn \notin AuthCalls /\ call'.fn \notin AuthCalls)
    BY DEF Silently
<1>3. Same(server.held, server'.held) BY SameSelf
<1>4. PICK c2, k2, s2, srv2 : c2 = call' /\ k2 = kex' /\ s2 = session' /\ srv2 = server'
    OBVIOUS
<1>5. DueAt(place, c2, k2, s2, w2, srv2) BY <1>1, <1>2, <1>3, <1>4, DueStays
<1> QED BY <1>4, <1>5

\* One that reads nothing.
LEMMA StillDue ==
    ASSUME NEW place, DueAt(place, call, kex, session, wire, server),
           Silently(session), wire' = wire, server' = server,
           call.asked \/ kex.step # "none" \/ call.fn \notin AuthCalls,
           kex'.step # "none" => kex.step # "none"
    PROVE  DueAt(place, call', kex', session', wire', server')
<1>1. Same(wire, wire) /\ Same(session.packets, session.packets) BY SameSelf
<1>2. PICK step : step = kex'.step OBVIOUS
<1>3. InOrder(wire, kex.step) BY DEF DueAt
<1>4. InOrder(wire, step) BY <1>2, <1>3, OrderStays
<1>5. PICK w2 : w2 = wire OBVIOUS
<1>6. /\ session.out = session.out /\ session.authenticated = session.authenticated OBVIOUS
<1> QED BY <1>1, <1>2, <1>4, <1>5, <1>6, ClientDue

\* One that reads a packet that is neither a request nor an answer; s is the session
\* before it does anything else.
LEMMA ReadDue ==
    ASSUME NEW place, DueAt(place, call, kex, session, wire, server),
           NEW s, Silently(s), s.out = session.out,
           s.authenticated = session.authenticated, Same(session.packets, s.packets),
           NEW w2, wire' = w2, Shorter(wire, w2), ~IsAuth(wire[1]), server' = server,
           call.asked \/ kex.step # "none" \/ call.fn \notin AuthCalls,
           kex'.step # "none" =>
               None(wire) \/ (kex.step # "none" /\ wire[1].type # NEWKEYS)
    PROVE  DueAt(place, call', kex', session', wire', server')
<1>1. Without(wire, 1, w2) BY ShorterIsWithout
<1>2. Same(wire, w2) BY <1>1, SameWithout
<1>3. None(wire) => None(w2) BY <1>2 DEF Same
<1>4. PICK step : step = kex'.step OBVIOUS
<1>5. InOrder(wire, kex.step) BY DEF DueAt
<1>6. InOrder(w2, step) BY <1>3, <1>4, <1>5, OrderTail
<1> QED BY <1>2, <1>4, <1>6, ClientDue

\* A call that does not authenticate goes on with what it waited for.
LEMMA ServiceSilent ==
    ASSUME NEW s, DOMAIN s = SessionFields, NEW p, CallTakes(s, p),
           call.fn \notin AuthCalls
    PROVE  Silently(s) /\ kex' = kex
<1>1. PICK t : t = [s EXCEPT !.started = IF p.what = "ssh-userauth" THEN "yes" ELSE s.started]
    OBVIOUS
<1>2. Returns(t) BY <1>1 DEF CallTakes
<1>3. t.out = s.out /\ t.packets = s.packets /\ t.socket_state = s.socket_state
      /\ t.authenticated = s.authenticated
    BY <1>1 DEF SessionFields
<1>4. Same(s.out, t.out) BY <1>3, SameSelf
<1>5. Idle.fn \notin AuthCalls BY DEF Idle, Call, AuthCalls
<1> QED BY <1>2, <1>3, <1>4, <1>5 DEF Returns, Silently

\* An exchange ends with the packet it waited for last.
LEMMA NewKeysEnd ==
    ASSUME NEW s, NEW p, KexTakes(s, p), kex.step = "newkeys"
    PROVE  kex'.step = "none"
<1>1. kex' = NoKex BY DEF KexTakes, AfterKex
<1> QED BY <1>1 DEF NoKex, KexStep

\* Before the first keys are in use nobody authenticates.
LEMMA NobodyYet ==
    ASSUME SessionInv, NEW m, NEW offers, InStepNow(m, offers, kex, session, wire),
           session.secrets = 0, kex.step = "none"
    PROVE  call.fn \notin AuthCalls
<1> SUFFICES ASSUME call.fn \in AuthCalls PROVE FALSE OBVIOUS
<1>1. server.id = 1 /\ server.in # Plain
    BY DEF SessionInv, CallOk, SessionOk, ServerOk
<1>2. InStepOf(m, offers, kex, session, wire, server) BY DEF InStepNow, Fits
<1>3. Phase("none", server.kex, 0, server.n) BY <1>2 DEF InStepOf
<1>4. server.kex = "sent" /\ server.n = 1 BY <1>3 DEF Phase, Opening, Closing
<1>5. Reads(server.kex, server.n) = 0 BY <1>4 DEF Reads
<1>6. server.in = Plain BY <1>2, <1>5 DEF InStepOf, KeysAt
<1> QED BY <1>1, <1>6

-----------------------------------------------------------------------------
(* What the client takes, and what it reads *)

\* What a call that authenticates waits for is an answer, and it is any answer that may
\* come.
LEMMA CallWants ==
    ASSUME ~Exchanging, call.fn \in AuthCalls, NEW s, CallWaits(call, s), NEW p
    PROVE  /\ Needs # AnyPacket /\ Needs = call.need
           /\ Wanted(p) <=> p.type \in ToSet(call.need)
           /\ Wanted(p) => /\ p.type \in {USERAUTH_FAILURE, USERAUTH_SUCCESS, USERAUTH_PK_OK}
                           /\ IsAuth(p)
           /\ p.type \in {USERAUTH_FAILURE, USERAUTH_SUCCESS} => Wanted(p)
<1>1. PacketTypes BY Types
<1>2. Needs = call.need BY DEF Needs
<1>3. USERAUTH_FAILURE \in ToSet(Needs) BY <1>2 DEF CallWaits
<1>4. DOMAIN AnyPacket = 1..1 /\ AnyPacket[1] = -1 BY DEF AnyPacket
<1>5. ToSet(AnyPacket) = {-1} BY <1>4 DEF ToSet
<1>6. Needs # AnyPacket BY <1>1, <1>3, <1>5 DEF PacketTypes
<1>7. Wanted(p) <=> p.type \in ToSet(call.need) BY <1>2, <1>6 DEF Wanted
<1>8. Wanted(p) => p.type \in {USERAUTH_FAILURE, USERAUTH_SUCCESS, USERAUTH_PK_OK}
    BY <1>7 DEF CallWaits
<1>9. Wanted(p) => IsAuth(p) BY <1>8, AuthTypes
<1> QED BY <1>2, <1>6, <1>7, <1>8, <1>9 DEF CallWaits

\* Where a request or an answer is, is where the one that is due is.
LEMMA DueWhere ==
    ASSUME NEW place, NEW c, NEW k, NEW s, NEW w, NEW srv, DueAt(place, c, k, s, w, srv)
    PROVE  /\ ~None(s.out) => place = "out" /\ One(s.out)
           /\ ~None(srv.held) => place = "held" /\ One(srv.held)
           /\ ~None(w) => place = "wire" /\ One(w)
           /\ ~None(s.packets) => place = "packets" /\ One(s.packets)
           /\ place # "out" => None(s.out)
           /\ place # "held" => None(srv.held)
           /\ place # "wire" => None(w)
           /\ place # "packets" => None(s.packets)
BY DEF DueAt, At

\* Who was let in, the only answer says so.
LEMMA OnlyAnswer ==
    ASSUME NEW q, One(q), NEW x \in DOMAIN q, IsAuth(q[x]), Has(q, USERAUTH_SUCCESS)
    PROVE  q[x].type = USERAUTH_SUCCESS
<1>1. PICK i \in DOMAIN q : q[i].type = USERAUTH_SUCCESS BY DEF Has
<1>2. IsAuth(q[i]) BY <1>1, AuthTypes
<1> QED BY <1>1, <1>2 DEF One

\* The call takes its answer from the brigade s.packets, w being what is left to read.
LEMMA AnswerTaken ==
    ASSUME SessionInv, kex.step = "none", call.fn \in AuthCalls,
           NEW s, DOMAIN s = SessionFields, IsSeq(s.out), IsSeq(s.packets), s.link = "up",
           CallWaits(call, s), NEW w, None(w), None(s.out), None(server.held),
           One(s.packets), AnswersIn(s.packets, call.need),
           NEW x \in DOMAIN s.packets, IsAuth(s.packets[x]),
           server.authenticated => s.packets[x].type = USERAUTH_SUCCESS,
           CallTakes([s EXCEPT !.packets = RemoveAt(s.packets, x)], s.packets[x])
    PROVE  \E place \in Places : DueAt(place, call', kex', session', w, server)
<1> DEFINE t == [s EXCEPT !.packets = RemoveAt(s.packets, x)]
           p == s.packets[x]
<1>1. /\ DOMAIN t = SessionFields /\ Without(s.packets, x, t.packets)
      /\ \A f \in SessionFields \ {"packets"} : t[f] = s[f]
    BY TakenPlaces
<1>2. CallTakes(t, p) /\ IsAuth(p) OBVIOUS
<1>3. server.authenticated => p.type = USERAUTH_SUCCESS OBVIOUS
<1>4. /\ p.type \in {USERAUTH_FAILURE, USERAUTH_SUCCESS, USERAUTH_PK_OK}
      /\ p.type = USERAUTH_PK_OK => USERAUTH_PK_OK \in ToSet(call.need)
    BY DEF AnswersIn
<1> HIDE DEF t
<1>5. None(t.packets) BY <1>1, NoneWithout
<1>6. t.out = s.out /\ t.link = s.link /\ t.authenticated = s.authenticated
    BY <1>1 DEF SessionFields
<1>7. Bare(t, w) BY <1>1, <1>5, <1>6 DEF Bare
<1>8. CallWaits(call, t) BY <1>6 DEF CallWaits
<1>9. DOMAIN call = {"fn", "need", "asked", "key"} BY DEF SessionInv, CallOk
<1> QED BY <1>2, <1>3, <1>4, <1>7, <1>8, <1>9, CallTakesDue

\* What is due is found in the brigade, or is not there.
LEMMA FoundNoAnswer ==
    ASSUME NEW q, Placed(q), Found(q) = 0, ~Exchanging, call.fn \in AuthCalls,
           NEW s, CallWaits(call, s),
           AnswersIn(q, call.need)
    PROVE  None(q)
<1> SUFFICES ASSUME NEW y \in DOMAIN q, IsAuth(q[y]) PROVE FALSE BY DEF None
<1>1. Needs # AnyPacket /\ Needs = call.need BY CallWants
<1> DEFINE Of(v) == SelectInSeq(q, LAMBDA p : p.type = v)
           types == IF Needs # AnyPacket THEN Needs
                    ELSE SetToSortSeq({q[i].type : i \in DOMAIN q}, <)
           t == SelectInSeq(types, LAMBDA v : Of(v) # 0)
           I == {i \in 1..Len(types) : Of(types[i]) # 0}
<1>2. Found(q) = IF t = 0 THEN 0 ELSE Of(types[t]) BY Zenon DEF Found
<1>3. t = IF I # {} THEN Min(I) ELSE 0 BY DEF SelectInSeq
<1>4. types = call.need BY <1>1
<1> HIDE DEF types
<1>5. Placed(types) BY <1>4, PlacedOk DEF CallWaits
<1>6. PICK type : type = q[y].type OBVIOUS
<1>7. type \in ToSet(call.need)
    BY <1>6 DEF AnswersIn, CallWaits
<1>8. PICK i \in 1..Len(types) : types[i] = type
    BY <1>4, <1>5, <1>7 DEF ToSet, Placed
<1> HIDE DEF t, Of
<1>9. Of(type) # 0
    <2>1. Of(type) = 0 => ~Has(q, type) BY FirstOfType DEF Of
    <2>2. Has(q, type) BY <1>6 DEF Has
    <2> QED BY <2>1, <2>2
<1>10. I \in SUBSET Nat /\ 0 \notin I /\ i \in I /\ \A j \in I : Of(types[j]) # 0
    BY <1>8, <1>9
<1> HIDE DEF I
<1>11. t = Min(I) /\ t \in I BY <1>3, <1>10, FirstPlace
<1>12. t # 0 /\ Of(types[t]) # 0 BY <1>10, <1>11
<1> QED BY <1>2, <1>12

-----------------------------------------------------------------------------
(* Reading *)

\* A packet that is no answer is taken, of those that are none.
LEMMA TakenSilent ==
    ASSUME NEW s, DOMAIN s = SessionFields, IsSeq(s.out), IsSeq(s.packets), None(s.packets),
           Exchanging \/ call.fn \notin AuthCalls, TakesFound(s)
    PROVE  \E t : /\ Silently(t) /\ t.out = s.out /\ t.authenticated = s.authenticated
                  /\ t.socket_state = s.socket_state /\ Same(s.packets, t.packets)
                  /\ kex'.step # "none" => kex.step \notin {"none", "newkeys"}
<1>1. PICK x \in DOMAIN s.packets :
        Takes([s EXCEPT !.packets = RemoveAt(s.packets, x)], s.packets[x])
    BY DEF TakesFound
<1> DEFINE t == [s EXCEPT !.packets = RemoveAt(s.packets, x)]
<1>2. /\ DOMAIN t = SessionFields /\ Without(s.packets, x, t.packets)
      /\ \A f \in SessionFields \ {"packets"} : t[f] = s[f]
    BY TakenPlaces
<1>3. PICK p : p = s.packets[x] OBVIOUS
<1>4. Takes(t, p) BY <1>1, <1>3
<1> HIDE DEF t
<1>5. t.out = s.out /\ t.authenticated = s.authenticated /\ t.socket_state = s.socket_state
    BY <1>2 DEF SessionFields
<1>6. Same(s.packets, t.packets) BY <1>2, SameWithout DEF None
<1>7. CASE Exchanging
    <2>1. KexTakes(t, p) BY <1>4, <1>7 DEF Takes
    <2>2. Silently(t) BY <1>2, <1>5, <2>1, KexTakesSilent
    <2>3. kex'.step # "none" => kex.step \notin {"none", "newkeys"}
        BY <1>7, <2>1, NewKeysEnd DEF Exchanging
    <2> QED BY <1>5, <1>6, <2>2, <2>3
<1>8. CASE ~Exchanging
    <2>1. CallTakes(t, p) /\ call.fn \notin AuthCalls BY <1>4, <1>8 DEF Takes
    <2>2. Silently(t) /\ kex' = kex BY <1>2, <2>1, ServiceSilent
    <2>3. kex'.step # "none" => kex.step \notin {"none", "newkeys"}
        BY <1>8, <2>2 DEF Exchanging
    <2> QED BY <1>5, <1>6, <2>2, <2>3
<1> QED BY <1>7, <1>8

\* Where nothing has been asked, or in an exchange, no answer is in the brigade, and
\* none is next.
LEMMA NoAnswerNow ==
    ASSUME NEW place, DueAt(place, call, kex, session, wire, server),
           Exchanging \/ call.fn \notin AuthCalls
    PROVE  /\ None(session.packets)
           /\ Placed(wire) /\ wire # <<>> => ~IsAuth(wire[1])
<1>1. place # "packets" BY DEF DueAt, Exchanging
<1>2. None(session.packets) BY <1>1, DueWhere
<1>3. InOrder(wire, kex.step) BY DEF DueAt
<1>4. ASSUME Placed(wire), wire # <<>> PROVE ~IsAuth(wire[1])
    <2>1. CASE Exchanging BY <1>3, <1>4, <2>1, OrderHead DEF Exchanging
    <2>2. CASE call.fn \notin AuthCalls
        <3>1. None(wire) BY <2>2, DueNot
        <3>2. IsSeq(wire) BY <1>4 DEF Placed
        <3>3. Shorter(wire, Tail(wire)) BY <1>4, <3>2, TailPlaces
        <3>4. 1 \in DOMAIN wire BY <3>3 DEF Shorter, Placed
        <3> QED BY <3>1, <3>4 DEF None
    <2> QED BY <2>1, <2>2
<1> QED BY <1>2, <1>4

\* What was read is not NEWKEYS, if the exchange goes on.
LEMMA HeadGoesOn ==
    ASSUME NEW m, NEW offers, InStepNow(m, offers, kex, session, wire), wire # <<>>,
           Asked, kex.step # "none", kex.step # "newkeys" \/ ~Wanted(wire[1])
    PROVE  wire[1].type # NEWKEYS
<1>1. CASE kex.step = "newkeys" BY <1>1, ExchangeNeeds, ExchangeWants DEF Exchanging
<1>2. CASE kex.step # "newkeys"
    <2>1. kex.step \in Closing => kex.asked BY DEF Asked, Exchanging
    <2> QED BY <1>2, <2>1, HeadNotNewKeys
<1> QED BY <1>1, <1>2

\* A call reads its answer.
LEMMA AnswerRead ==
    ASSUME SessionInv, NEW m, NEW offers, InStepNow(m, offers, kex, session, wire),
           NEW place, DueAt(place, call, kex, session, wire, server),
           ~Exchanging, call.fn \in AuthCalls, call.asked,
           NEW s, NEW w2, Reading(s, w2), TakesFound(s), wire' = w2, server' = server
    PROVE  \E q \in Places : DueAt(q, call', kex', session', wire', server')
<1>0. kex.step = "none" BY DEF Exchanging
<1>1. /\ Shorter(wire, w2) /\ DOMAIN s = SessionFields
      /\ Longer(session.packets, wire[1], s.packets)
      /\ \A f \in SessionFields \ {"packets", "socket_state"} : s[f] = session[f]
    BY DEF Reading
<1>2. /\ s.out = session.out /\ s.link = "up" /\ s.authenticated = session.authenticated
      /\ IsSeq(s.out) /\ IsSeq(s.packets)
    BY <1>1, NowHas DEF SessionFields, Longer, Placed
<1>3. CallWaits(call, session) BY DEF DueAt
<1>4. CallWaits(call, s) BY <1>2, <1>3 DEF CallWaits
<1>5. PICK x \in DOMAIN s.packets :
        /\ Wanted(s.packets[x])
        /\ Takes([s EXCEPT !.packets = RemoveAt(s.packets, x)], s.packets[x])
    BY DEF TakesFound
<1>6. CallTakes([s EXCEPT !.packets = RemoveAt(s.packets, x)], s.packets[x])
    BY <1>5 DEF Takes
<1>7. IsAuth(s.packets[x]) BY <1>4, <1>5, CallWants
<1>8. None(session.packets)
    <2>1. place # "packets" BY DEF DueAt
    <2> QED BY <2>1, DueWhere
<1>9. IsAuth(wire[1])
    <2> SUFFICES ASSUME ~IsAuth(wire[1]) PROVE FALSE OBVIOUS
    <2>1. Same(session.packets, s.packets) BY <1>1, SameAppends
    <2>2. None(s.packets) BY <1>8, <2>1 DEF Same
    <2> QED BY <1>7, <2>2 DEF None
<1>10. 1 \in DOMAIN wire BY <1>1 DEF Shorter, Placed
<1>11. place = "wire" /\ One(wire) BY <1>9, <1>10, DueWhere DEF None
<1>12. None(session.out) /\ None(server.held) BY <1>11, DueWhere
<1>13. None(w2)
    <2>1. Without(wire, 1, w2) BY <1>1, ShorterIsWithout
    <2> QED BY <1>9, <1>11, <2>1, NoneWithout
<1>14. One(s.packets) /\ \A i \in DOMAIN s.packets : IsAuth(s.packets[i]) => s.packets[i] = wire[1]
    BY <1>1, <1>8, <1>9, OneAppends
<1>15. AnswersIn(s.packets, call.need)
    <2>1. AnswersIn(wire, call.need) BY DEF DueAt
    <2> QED BY <1>9, <1>10, <1>14, <2>1 DEF AnswersIn
<1>16. server.authenticated => s.packets[x].type = USERAUTH_SUCCESS
    <2> SUFFICES ASSUME server.authenticated PROVE s.packets[x].type = USERAUTH_SUCCESS
        OBVIOUS
    <2>1. ~Has(server.held, USERAUTH_SUCCESS) BY <1>12, NoneIn
    <2>2. ~Has(session.packets, USERAUTH_SUCCESS) BY <1>8, NoneIn
    <2>3. ~session.authenticated BY <1>3 DEF CallWaits
    <2>4. Has(wire, USERAUTH_SUCCESS) BY <2>1, <2>2, <2>3 DEF DueAt, LetIn
    <2>5. wire[1].type = USERAUTH_SUCCESS BY <1>9, <1>10, <1>11, <2>4, OnlyAnswer
    <2> QED BY <1>7, <1>14, <2>5
<1>17. \E q \in Places : DueAt(q, call', kex', session', w2, server)
    BY <1>0, <1>1, <1>2, <1>4, <1>6, <1>7, <1>12, <1>13, <1>14, <1>15, <1>16, AnswerTaken
<1> QED BY <1>17

-----------------------------------------------------------------------------
(* What is due stays due: reading *)

\* A packet that is no answer is read and kept, or an exchange begins with it.
LEMMA KeptDue ==
    ASSUME NEW m, NEW offers, InStepNow(m, offers, kex, session, wire),
           NEW place, DueAt(place, call, kex, session, wire, server),
           NEW s, NEW w2, Reading(s, w2), ~IsAuth(wire[1]), Silently(s), wire' = w2,
           server' = server, call.asked \/ kex.step # "none" \/ call.fn \notin AuthCalls,
           kex'.step # "none" =>
               None(wire) \/ (kex.step # "none" /\ wire[1].type # NEWKEYS)
    PROVE  DueAt(place, call', kex', session', wire', server')
<1>1. /\ Shorter(wire, w2) /\ DOMAIN s = SessionFields
      /\ Longer(session.packets, wire[1], s.packets)
      /\ \A f \in SessionFields \ {"packets", "socket_state"} : s[f] = session[f]
    BY DEF Reading
<1>2. s.out = session.out /\ s.authenticated = session.authenticated
    BY <1>1 DEF SessionFields
<1>3. Same(session.packets, s.packets) BY <1>1, SameAppends
<1> QED BY <1>1, <1>2, <1>3, ReadDue

\* What is awaited is read, and it is no answer.
LEMMA OtherRead ==
    ASSUME NEW m, NEW offers, InStepNow(m, offers, kex, session, wire),
           NEW place, DueAt(place, call, kex, session, wire, server),
           Exchanging \/ call.fn \notin AuthCalls, Asked,
           NEW s, NEW w2, Reading(s, w2), TakesFound(s), wire' = w2, server' = server
    PROVE  DueAt(place, call', kex', session', wire', server')
<1>1. /\ wire # <<>> /\ Shorter(wire, w2) /\ DOMAIN s = SessionFields
      /\ Longer(session.packets, wire[1], s.packets)
      /\ \A f \in SessionFields \ {"packets", "socket_state"} : s[f] = session[f]
    BY DEF Reading
<1>2. s.out = session.out /\ s.authenticated = session.authenticated
      /\ IsSeq(s.out) /\ IsSeq(s.packets)
    BY <1>1, NowHas DEF SessionFields, Longer, Placed
<1>3. None(session.packets) /\ ~IsAuth(wire[1])
    <2>1. Placed(wire) BY NowHas
    <2> QED BY <1>1, <2>1, NoAnswerNow
<1>4. Same(session.packets, s.packets) /\ None(s.packets)
    <2>1. Same(session.packets, s.packets) BY <1>1, <1>3, SameAppends
    <2> QED BY <1>3, <2>1 DEF Same
<1>5. PICK t : /\ Silently(t) /\ t.out = s.out /\ t.authenticated = s.authenticated
               /\ t.socket_state = s.socket_state /\ Same(s.packets, t.packets)
               /\ kex'.step # "none" => kex.step \notin {"none", "newkeys"}
    BY <1>1, <1>2, <1>4, TakenSilent
<1>6. Same(session.packets, t.packets) BY <1>4, <1>5, SameThen
<1>7. kex'.step # "none" => kex.step # "none" /\ wire[1].type # NEWKEYS
    BY <1>1, <1>5, HeadGoesOn
<1>8. call.asked \/ kex.step # "none" \/ call.fn \notin AuthCalls BY DEF Exchanging
<1>9. t.out = session.out /\ t.authenticated = session.authenticated BY <1>2, <1>5
<1> QED BY <1>1, <1>3, <1>5, <1>6, <1>7, <1>8, <1>9, ReadDue

\* A session goes on with the packet that was read, and with nothing else.
LEMMA StaysSilent ==
    ASSUME NEW s, session' = s, call' = call \/ (call.fn \notin AuthCalls /\ call' = Idle)
    PROVE  Silently(s)
<1>1. Same(s.out, s.out) BY SameSelf
<1>2. Idle.fn \notin AuthCalls BY DEF Idle, Call, AuthCalls
<1> QED BY <1>1, <1>2 DEF Silently

\* That the server has left is known from its DISCONNECT on.
LEMMA DisconnectIsKnown ==
    ASSUME NEW s, DOMAIN s = SessionFields, NEW p, p.type = DISCONNECT
    PROVE  PacketAdd(s, p).socket_state = "DISCONNECTED"
<1>1. PICK t : t = [s EXCEPT !.socket_state = "DISCONNECTED"] OBVIOUS
<1>2. PacketAdd(s, p) = t BY <1>1, Types DEF PacketAdd, PacketTypes
<1>3. t.socket_state = "DISCONNECTED" BY <1>1 DEF SessionFields
<1> QED BY <1>2, <1>3

\* What a call or an exchange does with what it reads.
LEMMA RequireReadDue ==
    ASSUME SessionInv, BaseInv, NEW m, NEW offers,
           InStepNow(m, offers, kex, session, wire), RequireRead,
           NEW place \in Places, DueAt(place, call, kex, session, wire, server),
           session'.socket_state = "CONNECTED"
    PROVE  \E q \in Places : DueAt(q, call', kex', session', wire', server')
<1>1. PICK p, s, w2 : p = Head(wire) /\ s = PacketAdd(session, p) /\ w2 = Tail(wire) OBVIOUS
<1>2. wire # <<>> /\ wire' = w2 /\ Asked /\ server' = server
    BY <1>1 DEF RequireRead, CanRead
<1>3. p = wire[1] /\ Shorter(wire, w2) /\ MacAgrees(session, p) BY <1>1, <1>2, MacNow
<1>4. IF StartsReexchange(p) THEN KexBegins(s, TRUE)
      ELSE IF p.type = BANNER_LINE THEN KexBegins(s, FALSE)
      ELSE IF p.type # DISCONNECT /\ Wanted(p) THEN TakesFound(s)
      ELSE session' = s /\ UNCHANGED <<call, kex>>
    BY <1>1, <1>3 DEF RequireRead
<1>5. Keepable(session) BY KeepableNow
<1>6. /\ Keepable(s)
      /\ \A f \in SessionFields \ {"packets", "socket_state"} : s[f] = session[f]
      /\ p.type \in {DISCONNECT, BANNER_LINE} => s.packets = session.packets
    BY <1>1, <1>5, KeepableAdded
<1>7. p.type \notin {DISCONNECT, BANNER_LINE} => Reading(s, w2)
    BY <1>1, <1>2, <1>3, <1>5, AddReads
<1>8. DOMAIN s = SessionFields /\ IsSeq(s.out) /\ DOMAIN session = SessionFields
      /\ Placed(wire)
    BY <1>6, NowHas DEF Keepable
<1>9. session.exchanging <=> kex.step # "none" BY DEF InStepNow
<1>10. call.asked \/ kex.step # "none" BY <1>2 DEF Asked, Exchanging
<1>11. CASE StartsReexchange(p)
    <2>1. p.type = KEXINIT /\ KexBegins(s, TRUE) BY <1>4, <1>11 DEF StartsReexchange
    <2>2. Reading(s, w2) BY <1>7, <2>1, Types DEF PacketTypes
    <2>3. Silently(s) BY <1>8, <2>1, KexBeginsSilent
    <2>4. ~IsAuth(wire[1]) BY <1>3, <2>1, AuthTypes
    <2>5. InOrder(wire, kex.step) BY DEF DueAt
    <2>6. None(wire) BY <1>2, <1>3, <1>8, <2>1, <2>5, OrderHead
    <2>7. DueAt(place, call', kex', session', wire', server')
        BY <1>2, <1>10, <2>2, <2>3, <2>4, <2>6, KeptDue
    <2> QED BY <2>7
<1>12. CASE ~StartsReexchange(p) /\ p.type = BANNER_LINE
    <2>1. session.secrets = 0 /\ kex.step = "none"
        <3>1. 1 \in DOMAIN wire BY <1>3 DEF Placed, Shorter
        <3> QED BY <1>3, <1>9, <1>12, <3>1 DEF BaseInv, BannerInv
    <2>2. s = session BY <1>1, <1>12, Types DEF PacketAdd, PacketTypes
    <2>3. KexBegins(s, FALSE) BY <1>4, <1>12
    <2>4. Silently(session) BY <1>8, <2>2, <2>3, KexBeginsSilent
    <2>5. ~IsAuth(wire[1]) BY <1>3, <1>12, AuthTypes
    <2>6. call.fn \notin AuthCalls BY <2>1, NobodyYet
    <2>7. None(wire) BY <2>6, DueNot
    <2>8. Same(session.packets, session.packets) BY SameSelf
    <2>9. DueAt(place, call', kex', session', wire', server')
        BY <1>2, <1>3, <2>4, <2>5, <2>6, <2>7, <2>8, ReadDue
    <2> QED BY <2>9
<1>13. CASE ~StartsReexchange(p) /\ p.type \notin {BANNER_LINE, DISCONNECT} /\ Wanted(p)
    <2>1. TakesFound(s) /\ Reading(s, w2) BY <1>4, <1>7, <1>13
    <2>2. CASE Exchanging \/ call.fn \notin AuthCalls
        <3>1. DueAt(place, call', kex', session', wire', server')
            BY <1>2, <2>1, <2>2, OtherRead
        <3> QED BY <3>1
    <2>3. CASE ~(Exchanging \/ call.fn \notin AuthCalls)
        <3>1. call.asked BY <1>10, <2>3 DEF Exchanging
        <3> QED BY <1>2, <2>1, <2>3, <3>1, AnswerRead
    <2> QED BY <2>2, <2>3
<1>14. CASE ~StartsReexchange(p) /\ p.type \notin {BANNER_LINE, DISCONNECT} /\ ~Wanted(p)
    <2>1. session' = s /\ kex' = kex /\ call' = call /\ Reading(s, w2)
        BY <1>4, <1>7, <1>14
    <2>2. Silently(s) BY <2>1, StaysSilent
    <2>3. ~IsAuth(wire[1])
        <3>1. CASE Exchanging \/ call.fn \notin AuthCalls BY <1>2, <1>8, <3>1, NoAnswerNow
        <3>2. CASE ~(Exchanging \/ call.fn \notin AuthCalls)
            <4> SUFFICES ASSUME IsAuth(wire[1]) PROVE FALSE OBVIOUS
            <4>1. 1 \in DOMAIN wire BY <1>3 DEF Placed, Shorter
            <4>2. AnswersIn(wire, call.need) /\ CallWaits(call, session) BY DEF DueAt
            <4>3. /\ p.type \in {USERAUTH_FAILURE, USERAUTH_SUCCESS, USERAUTH_PK_OK}
                  /\ p.type = USERAUTH_PK_OK => USERAUTH_PK_OK \in ToSet(call.need)
                BY <1>3, <4>1, <4>2 DEF AnswersIn
            <4> QED BY <1>14, <3>2, <4>2, <4>3, CallWants
        <3> QED BY <3>1, <3>2
    <2>4. kex'.step # "none" => kex.step # "none" /\ wire[1].type # NEWKEYS
        BY <1>2, <1>3, <1>14, <2>1, HeadGoesOn
    <2>5. DueAt(place, call', kex', session', wire', server')
        BY <1>2, <1>10, <2>1, <2>2, <2>3, <2>4, KeptDue
    <2> QED BY <2>5
<1>15. CASE ~StartsReexchange(p) /\ p.type = DISCONNECT
    <2>1. session' = s BY <1>4, <1>15, Types DEF PacketTypes
    <2>2. s.socket_state = "DISCONNECTED" BY <1>1, <1>8, <1>15, DisconnectIsKnown
    <2> QED BY <2>1, <2>2
<1> QED BY <1>11, <1>12, <1>13, <1>14, <1>15

\* What other calls read.
LEMMA ReadArrivedDue ==
    ASSUME SessionInv, BaseInv, NEW m, NEW offers,
           InStepNow(m, offers, kex, session, wire), ReadArrived,
           NEW place \in Places, DueAt(place, call, kex, session, wire, server),
           session'.socket_state = "CONNECTED"
    PROVE  \E q \in Places : DueAt(q, call', kex', session', wire', server')
<1>0. call.fn = "read" /\ ~Exchanging /\ kex.step = "none" /\ server' = server
    BY DEF ReadArrived, Exchanging
<1>1. call.fn \notin AuthCalls BY <1>0 DEF AuthCalls
<1>2. None(wire) BY <1>1, DueNot
<1>3. CASE ~CanRead
    <2>1. Returns(session) /\ wire' = wire BY <1>3 DEF ReadArrived
    <2>2. Silently(session) BY <1>1, <2>1, StaysSilent DEF Returns
    <2>3. kex' = kex BY <2>1 DEF Returns
    <2>4. DueAt(place, call', kex', session', wire', server')
        BY <1>0, <1>1, <2>1, <2>2, <2>3, StillDue
    <2> QED BY <2>4
<1>4. CASE CanRead
    <2>1. PICK p, s, w2 : p = Head(wire) /\ s = PacketAdd(session, p) /\ w2 = Tail(wire)
        OBVIOUS
    <2>2. wire # <<>> BY <1>4 DEF CanRead
    <2>3. p = wire[1] /\ Shorter(wire, w2) /\ MacAgrees(session, p) BY <2>1, <2>2, MacNow
    <2>4. /\ wire' = w2
          /\ IF ~StartsReexchange(p) THEN Returns(s) ELSE KexBegins(s, TRUE)
        BY <1>4, <2>1, <2>3 DEF ReadArrived
    <2>5. Keepable(session) BY KeepableNow
    <2>6. /\ Keepable(s)
          /\ \A f \in SessionFields \ {"packets", "socket_state"} : s[f] = session[f]
          /\ p.type \in {DISCONNECT, BANNER_LINE} => s.packets = session.packets
        BY <2>1, <2>5, KeepableAdded
    <2>7. p.type \notin {DISCONNECT, BANNER_LINE} => Reading(s, w2)
        BY <2>1, <2>2, <2>3, <2>5, AddReads
    <2>8. DOMAIN s = SessionFields /\ IsSeq(s.out) BY <2>6 DEF Keepable
    <2>9. Silently(s)
        <3>1. CASE StartsReexchange(p) BY <2>4, <2>8, <3>1, KexBeginsSilent
        <3>2. CASE ~StartsReexchange(p) BY <1>1, <2>4, <3>2, StaysSilent DEF Returns
        <3> QED BY <3>1, <3>2
    <2>10. ~IsAuth(wire[1])
        <3>1. 1 \in DOMAIN wire BY <2>3 DEF Shorter, Placed
        <3> QED BY <1>2, <3>1 DEF None
    <2>11. Same(session.packets, s.packets)
        <3>1. CASE p.type \in {DISCONNECT, BANNER_LINE} BY <2>6, <3>1, SameSelf
        <3>2. CASE p.type \notin {DISCONNECT, BANNER_LINE}
            <4>1. Longer(session.packets, wire[1], s.packets) BY <2>7, <3>2 DEF Reading
            <4> QED BY <2>10, <4>1, SameAppends
        <3> QED BY <3>1, <3>2
    <2>12. s.out = session.out /\ s.authenticated = session.authenticated
        BY <2>6 DEF SessionFields
    <2>13. DueAt(place, call', kex', session', wire', server')
        BY <1>0, <1>1, <1>2, <2>3, <2>4, <2>9, <2>10, <2>11, <2>12, ReadDue
    <2> QED BY <2>13
<1> QED BY <1>3, <1>4

-----------------------------------------------------------------------------
(* What is due stays due: the client's other steps *)

\* A packet that is taken is in the brigade, or is not, and then is read.
LEMMA RequireQueuedDue ==
    ASSUME SessionInv, NEW m, NEW offers, InStepNow(m, offers, kex, session, wire),
           RequireQueued, NEW place \in Places,
           DueAt(place, call, kex, session, wire, server)
    PROVE  \E q \in Places : DueAt(q, call', kex', session', wire', server')
<1>1. wire' = wire /\ server' = server BY DEF RequireQueued
<1>2. /\ DOMAIN session = SessionFields /\ IsSeq(session.out) /\ IsSeq(session.packets)
      /\ Placed(session.packets) /\ session.link = "up"
    BY NowHas
<1>3. /\ DOMAIN kex = {"step", "asked", "h"} /\ DOMAIN call = {"fn", "need", "asked", "key"}
    BY DEF SessionInv, KexOk, CallOk
<1>4. CallWaits(call, session) /\ AnswersIn(session.packets, call.need) BY DEF DueAt
<1>5. CASE Found(session.packets) # 0 /\ (Exchanging \/ call.fn \notin AuthCalls)
    <2>1. TakesFound(session) BY <1>5 DEF RequireQueued
    <2>2. None(session.packets) BY <1>5, NoAnswerNow
    <2>3. PICK t : /\ Silently(t) /\ t.out = session.out
                   /\ t.authenticated = session.authenticated
                   /\ Same(session.packets, t.packets)
                   /\ kex'.step # "none" => kex.step \notin {"none", "newkeys"}
        BY <1>2, <1>5, <2>1, <2>2, TakenSilent
    <2>4. PICK step, w2 : step = kex'.step /\ w2 = wire OBVIOUS
    <2>5. InOrder(wire, kex.step) BY DEF DueAt
    <2>6. InOrder(w2, step) BY <2>3, <2>4, <2>5, OrderStays
    <2>7. Same(wire, w2) BY <2>4, SameSelf
    <2>8. call.asked \/ kex.step # "none" \/ call.fn \notin AuthCalls BY <1>5 DEF Exchanging
    <2>9. DueAt(place, call', kex', session', wire', server')
        BY <1>1, <2>3, <2>4, <2>6, <2>7, <2>8, ClientDue
    <2> QED BY <2>9
<1>6. CASE Found(session.packets) # 0 /\ ~(Exchanging \/ call.fn \notin AuthCalls)
    <2>1. TakesFound(session) BY <1>6 DEF RequireQueued
    <2>2. PICK x \in DOMAIN session.packets :
            /\ Wanted(session.packets[x])
            /\ Takes([session EXCEPT !.packets = RemoveAt(session.packets, x)],
                     session.packets[x])
        BY <2>1 DEF TakesFound
    <2>3. CallTakes([session EXCEPT !.packets = RemoveAt(session.packets, x)],
                    session.packets[x])
        BY <1>6, <2>2 DEF Takes
    <2>4. IsAuth(session.packets[x]) BY <1>4, <1>6, <2>2, CallWants
    <2>5. place = "packets" /\ One(session.packets) BY <2>4, DueWhere DEF None
    <2>6. None(session.out) /\ None(server.held) /\ None(wire) BY <2>5, DueWhere
    <2>7. server.authenticated => session.packets[x].type = USERAUTH_SUCCESS
        <3> SUFFICES ASSUME server.authenticated
                     PROVE  session.packets[x].type = USERAUTH_SUCCESS
            OBVIOUS
        <3>1. ~Has(server.held, USERAUTH_SUCCESS) BY <2>6, NoneIn
        <3>2. ~Has(wire, USERAUTH_SUCCESS) BY <2>6, NoneIn
        <3>3. ~session.authenticated BY <1>4, <1>6 DEF CallWaits
        <3>4. Has(session.packets, USERAUTH_SUCCESS) BY <3>1, <3>2, <3>3 DEF DueAt, LetIn
        <3> QED BY <2>4, <2>5, <3>4, OnlyAnswer
    <2>8. kex.step = "none" BY <1>6 DEF Exchanging
    <2>9. \E q \in Places : DueAt(q, call', kex', session', wire, server)
        BY <1>2, <1>4, <1>6, <2>3, <2>4, <2>5, <2>6, <2>7, <2>8, AnswerTaken
    <2> QED BY <1>1, <2>9
<1>7. CASE Found(session.packets) = 0
    <2>1. /\ session' = session
          /\ kex' = IF Exchanging THEN [kex EXCEPT !.asked = TRUE] ELSE kex
          /\ call' = IF Exchanging THEN call ELSE [call EXCEPT !.asked = TRUE]
        BY <1>7 DEF RequireQueued
    <2>2. kex'.step = kex.step BY <1>3, <2>1
    <2>3. call'.fn = call.fn /\ call'.need = call.need BY <1>3, <2>1
    <2>4. CASE Exchanging \/ call.fn \notin AuthCalls
        <3>1. Silently(session)
            <4>1. Same(session.out, session.out) BY SameSelf
            <4> QED BY <2>1, <2>3, <2>4, <4>1 DEF Silently
        <3>2. call.asked \/ kex.step # "none" \/ call.fn \notin AuthCalls
            BY <2>4 DEF Exchanging
        <3>3. DueAt(place, call', kex', session', wire', server')
            BY <1>1, <2>2, <3>1, <3>2, StillDue
        <3> QED BY <3>3
    <2>5. CASE ~(Exchanging \/ call.fn \notin AuthCalls)
        <3>1. None(session.packets) BY <1>2, <1>4, <1>7, <2>5, FoundNoAnswer
        <3>2. place # "packets" BY <3>1 DEF DueAt, At, One, None
        <3>3. PICK c2, k2, s2, w2, srv2 : c2 = call' /\ k2 = kex' /\ s2 = session'
                                          /\ w2 = wire' /\ srv2 = server'
            OBVIOUS
        <3>4. Same(session.out, s2.out) /\ Same(server.held, srv2.held)
              /\ Same(wire, w2) /\ Same(session.packets, s2.packets)
            BY <1>1, <2>1, <3>3, SameSelf
        <3>5. InOrder(w2, k2.step) BY <1>1, <2>2, <3>3 DEF DueAt
        <3>6. DueAt(place, c2, k2, s2, w2, srv2)
            BY <1>1, <2>1, <2>3, <3>2, <3>3, <3>4, <3>5, DueStays
        <3> QED BY <3>3, <3>6
    <2> QED BY <2>4, <2>5
<1> QED BY <1>5, <1>6, <1>7

\* The methods are agreed on or they are not, and the exchange of the method begins.
LEMMA AgreesSilent ==
    ASSUME DOMAIN session = SessionFields, IsSeq(session.out), KexAgrees \/ ExchangeKeys
    PROVE  Silently(session)
<1>1. Unmoved(session, session) BY DEF Unmoved
<1>2. CASE KexAgrees
    <2>1. PICK t : t = AgreeMethods(session) OBVIOUS
    <2>2. (session' = t /\ call' = call) \/ KexFails(t) BY <1>2, <2>1 DEF KexAgrees
    <2>3. /\ DOMAIN t = SessionFields
          /\ \A f \in SessionFields \ {"method", "stream", "burn"} : t[f] = session[f]
        BY <2>1, AgreeMethodsFields
    <2>4. Unmoved(session, t) BY <2>3 DEF Unmoved, SessionFields
    <2>5. CASE session' = t /\ call' = call
        <3>1. Same(session.out, t.out) BY <2>4, SameSelf DEF Unmoved
        <3> QED BY <2>4, <2>5, <3>1 DEF Silently, Unmoved
    <2>6. CASE KexFails(t) BY <2>4, <2>6, KexFailsSilent
    <2> QED BY <2>2, <2>5, <2>6
<1>3. CASE ExchangeKeys
    <2>1. CASE session.method["KEX"] = Gex
        <3> DEFINE p == Msg(KEX_DH_GEX_REQUEST, "", 0)
        <3>1. PICK step : KexSends(session, p, step) BY <1>3, <2>1 DEF ExchangeKeys
        <3>2. IsPacket(p) /\ p.type = KEX_DH_GEX_REQUEST BY DEF Msg, IsPacket
        <3> HIDE DEF p
        <3>3. ~IsAuth(p) BY <3>2, AuthTypes
        <3> QED BY <1>1, <3>1, <3>2, <3>3, KexSendsSilent
    <2>2. CASE session.method["KEX"] # Gex
        <3> DEFINE p == Msg(KEXDH_INIT, "", 0)
        <3>1. PICK step : KexSends(session, p, step)
            BY <1>3, <2>2 DEF ExchangeKeys, KexInit
        <3>2. IsPacket(p) /\ p.type = KEXDH_INIT BY DEF Msg, IsPacket
        <3> HIDE DEF p
        <3>3. ~IsAuth(p) BY <3>2, AuthTypes DEF Values
        <3> QED BY <1>1, <3>1, <3>2, <3>3, KexSendsSilent
    <2> QED BY <2>1, <2>2
<1> QED BY <1>2, <1>3

\* Calls that do not authenticate begin.
LEMMA BeginsSilent ==
    ASSUME DOMAIN session = SessionFields, IsSeq(session.out),
           \/ \E kind, prefs : MethodPref(kind, prefs)
           \/ Startup \/ PacketRead \/ SessionDisconnect
    PROVE  /\ Silently(session) /\ call.fn \notin AuthCalls
           /\ wire' = wire /\ server' = server /\ kex' = kex
<1>1. call = Idle /\ Idle.fn \notin AuthCalls
    BY DEF MethodPref, Startup, PacketRead, SessionDisconnect, Begin, Idle, Call, AuthCalls
<1>2. wire' = wire /\ server' = server /\ kex' = kex
    BY DEF MethodPref, Startup, Sends, PacketRead, SessionDisconnect
<1>3. ASSUME NEW t, DOMAIN t = SessionFields, NEW but, but \in {"prefs", "started"},
             \A f \in SessionFields \ {but} : t[f] = session[f], NEW p,
             IsPacket(p), ~IsAuth(p)
      PROVE  LET u == PacketWrite(t, p)
             IN  /\ DOMAIN u = SessionFields /\ Same(session.out, u.out)
                 /\ u.packets = session.packets /\ u.socket_state = session.socket_state
                 /\ u.authenticated = session.authenticated
    <2>1. PICK u : u = PacketWrite(t, p) OBVIOUS
    <2>2. t.out = session.out /\ t.packets = session.packets
          /\ t.socket_state = session.socket_state
          /\ t.authenticated = session.authenticated
        BY <1>3 DEF SessionFields
    <2>3. /\ DOMAIN u = SessionFields /\ Same(t.out, u.out)
          /\ \A f \in SessionFields \ {"out"} : u[f] = t[f]
        BY <1>3, <2>1, <2>2, WritesSilent
    <2> QED BY <2>1, <2>2, <2>3 DEF SessionFields
<1>4. ASSUME NEW kind, NEW prefs, MethodPref(kind, prefs) PROVE Silently(session)
    <2>1. \A f \in SessionFields \ {"prefs"} : session'[f] = session[f]
        BY <1>4 DEF MethodPref, SessionFields
    <2>2. session'.out = session.out /\ session'.packets = session.packets
          /\ session'.socket_state = session.socket_state
          /\ session'.authenticated = session.authenticated
        BY <2>1 DEF SessionFields
    <2>3. call' = call BY <1>4 DEF MethodPref
    <2>4. Same(session.out, session.out) BY SameSelf
    <2> QED BY <2>2, <2>3, <2>4 DEF Silently
<1>5. ASSUME Startup PROVE Silently(session)
    <2> DEFINE t == [session EXCEPT !.started = "failed"]
               p == Msg(BANNER_LINE, "", 0)
               c == [Call("startup", <<BANNER_LINE>>) EXCEPT !.asked = TRUE]
    <2>1. session' = PacketWrite(t, p) /\ call' \in {c, Idle} BY <1>5 DEF Startup, Sends
    <2>2. DOMAIN t = SessionFields /\ \A f \in SessionFields \ {"started"} : t[f] = session[f]
        OBVIOUS
    <2>3. IsPacket(p) /\ p.type = BANNER_LINE BY DEF Msg, IsPacket
    <2>4. c.fn \notin AuthCalls BY DEF Call, AuthCalls
    <2> HIDE DEF t, p, c
    <2>5. ~IsAuth(p) BY <2>3, AuthTypes
    <2>6. "started" \in {"prefs", "started"} OBVIOUS
    <2>7. /\ Same(session.out, session'.out) /\ session'.packets = session.packets
          /\ session'.socket_state = session.socket_state
          /\ session'.authenticated = session.authenticated
        BY <1>3, <2>1, <2>2, <2>3, <2>5, <2>6
    <2> QED BY <1>1, <2>1, <2>4, <2>7 DEF Silently
<1>6. ASSUME PacketRead PROVE Silently(session)
    <2>1. session' = session /\ call'.fn = "read" BY <1>6 DEF PacketRead, Call
    <2>2. call'.fn \notin AuthCalls BY <2>1 DEF AuthCalls
    <2>3. Same(session.out, session.out) BY SameSelf
    <2> QED BY <1>1, <2>1, <2>2, <2>3 DEF Silently
<1>7. ASSUME SessionDisconnect PROVE Silently(session)
    <2> DEFINE p == Msg(DISCONNECT, "", 0)
               u == PacketWrite(session, p)
    <2>1. session' = [u EXCEPT !.started = "over"] /\ call' = call
        BY <1>7 DEF SessionDisconnect
    <2>2. IsPacket(p) /\ p.type = DISCONNECT BY DEF Msg, IsPacket
    <2> HIDE DEF p
    <2>3. ~IsAuth(p) BY <2>2, AuthTypes
    <2>4. DOMAIN session = SessionFields
          /\ \A f \in SessionFields \ {"started"} : session[f] = session[f]
        OBVIOUS
    <2>5. "started" \in {"prefs", "started"} OBVIOUS
    <2>6. /\ DOMAIN u = SessionFields /\ Same(session.out, u.out)
          /\ u.packets = session.packets /\ u.socket_state = session.socket_state
          /\ u.authenticated = session.authenticated
        BY <1>3, <2>2, <2>3, <2>4, <2>5
    <2> HIDE DEF u
    <2>7. session'.out = u.out /\ session'.packets = u.packets
          /\ session'.socket_state = u.socket_state
          /\ session'.authenticated = u.authenticated
        BY <2>1, <2>6 DEF SessionFields
    <2> QED BY <2>1, <2>6, <2>7 DEF Silently
<1> QED BY <1>1, <1>2, <1>4, <1>5, <1>6, <1>7

-----------------------------------------------------------------------------
(* Requests *)

\* The numbers that a call waits for, with one more or without.
LEMMA NeedsAre ==
    /\ IsSeq(Answers) /\ ToSet(Answers) = {USERAUTH_FAILURE, USERAUTH_SUCCESS}
    /\ LET more == Append(Answers, USERAUTH_PK_OK)
       IN  /\ IsSeq(more)
           /\ ToSet(more) = {USERAUTH_FAILURE, USERAUTH_SUCCESS, USERAUTH_PK_OK}
<1> DEFINE more == Append(Answers, USERAUTH_PK_OK)
<1>1. IsSeq(Answers)
    <2>1. Answers \in Seq({USERAUTH_SUCCESS, USERAUTH_FAILURE}) BY DEF Answers
    <2> QED BY <2>1 DEF IsSeq
<1>2. DOMAIN Answers = 1..2 /\ Len(Answers) = 2 /\ Answers[1] = USERAUTH_SUCCESS
      /\ Answers[2] = USERAUTH_FAILURE
    BY DEF Answers
<1>3. ToSet(Answers) = {USERAUTH_FAILURE, USERAUTH_SUCCESS} BY <1>2 DEF ToSet
<1>4. Longer(Answers, USERAUTH_PK_OK, more) BY <1>1, AppendPlaces
<1> HIDE DEF more
<1>5. IsSeq(more) /\ DOMAIN more = 1..3 /\ more[3] = USERAUTH_PK_OK
      /\ more[1] = USERAUTH_SUCCESS /\ more[2] = USERAUTH_FAILURE
    BY <1>2, <1>4 DEF Longer, Placed
<1>6. ToSet(more) = {USERAUTH_FAILURE, USERAUTH_SUCCESS, USERAUTH_PK_OK}
    BY <1>5 DEF ToSet
<1> QED BY <1>1, <1>3, <1>5, <1>6 DEF more

\* A call that may ask, and its request.
AuthAsking ==
    \E p, then :
        /\ Request(session, p, then) /\ Requests(p, then.need)
        /\ then.fn \in AuthCalls /\ then.asked = FALSE /\ CallWaits(then, session)

\* Each of the calls that authenticate begins with a request that it waits to see
\* answered.
LEMMA AsksAre ==
    ASSUME \/ UserauthList \/ UserauthPassword \/ UserauthKbdint
           \/ \E file : UserauthPublickey(file) \/ UserauthHostbased(file)
    PROVE  AuthAsking /\ call = Idle /\ ~session.authenticated
<1> DEFINE more == Append(Answers, USERAUTH_PK_OK)
<1>1. IsSeq(Answers) /\ ToSet(Answers) = {USERAUTH_FAILURE, USERAUTH_SUCCESS} BY NeedsAre
<1>2. IsSeq(more) /\ ToSet(more) = {USERAUTH_FAILURE, USERAUTH_SUCCESS, USERAUTH_PK_OK}
    BY NeedsAre
<1> HIDE DEF more
<1>3. /\ USERAUTH_PASSWD_CHANGEREQ = USERAUTH_PK_OK
      /\ USERAUTH_INFO_REQUEST = USERAUTH_PK_OK
    BY DEF USERAUTH_PASSWD_CHANGEREQ, USERAUTH_INFO_REQUEST, USERAUTH_PK_OK
<1>4. call = Idle /\ ~session.authenticated
    BY DEF UserauthList, UserauthPassword, UserauthKbdint, UserauthPublickey,
           UserauthHostbased, CanAuthenticate, Begin
<1>5. ASSUME NEW fn, NEW then, Request(session, Asks(fn), then), then.fn \in AuthCalls,
             then.asked = FALSE,
             \/ then.need = Answers /\ fn \in Unchallenged
             \/ then.need = more
      PROVE  AuthAsking
    <2>1. PICK p : p = Asks(fn) OBVIOUS
    <2>2. IsPacket(p) /\ p.type = USERAUTH_REQUEST /\ p.what = fn
        BY <2>1, MessagesAre DEF Asks
    <2>3. /\ IsSeq(then.need)
          /\ ToSet(then.need) \subseteq
              {USERAUTH_FAILURE, USERAUTH_SUCCESS, USERAUTH_PK_OK}
          /\ {USERAUTH_FAILURE, USERAUTH_SUCCESS} \subseteq ToSet(then.need)
          /\ then.need = more => USERAUTH_PK_OK \in ToSet(then.need)
        BY <1>1, <1>2, <1>5
    <2>4. Requests(p, then.need) BY <1>5, <2>2, <2>3 DEF Requests
    <2>5. CallWaits(then, session) BY <1>4, <2>3 DEF CallWaits
    <2> QED BY <1>5, <2>1, <2>4, <2>5 DEF AuthAsking
<1>6. ASSUME NEW fn \in AuthCalls, NEW need
      PROVE  LET c == Call(fn, need)
             IN  c.fn \in AuthCalls /\ c.asked = FALSE /\ c.need = need
    BY DEF Call
<1>7. CASE UserauthList
    <2> DEFINE then == Call("list", Answers)
    <2>1. Request(session, Asks("list"), then) BY <1>7 DEF UserauthList
    <2>2. "list" \in AuthCalls /\ "list" \in Unchallenged BY DEF AuthCalls, Unchallenged
    <2>3. then.fn \in AuthCalls /\ then.asked = FALSE /\ then.need = Answers BY <1>6, <2>2
    <2> HIDE DEF then
    <2> QED BY <1>4, <1>5, <2>1, <2>2, <2>3
<1>8. CASE UserauthPassword
    <2> DEFINE then == Call("password", more)
    <2>1. Request(session, Asks("password"), then)
        BY <1>3, <1>8 DEF UserauthPassword, more
    <2>2. "password" \in AuthCalls BY DEF AuthCalls
    <2>3. then.fn \in AuthCalls /\ then.asked = FALSE /\ then.need = more BY <1>6, <2>2
    <2> HIDE DEF then
    <2> QED BY <1>4, <1>5, <2>1, <2>3
<1>9. CASE UserauthKbdint
    <2> DEFINE then == Call("kbdint", more)
    <2>1. Request(session, Asks("kbdint"), then) BY <1>3, <1>9 DEF UserauthKbdint, more
    <2>2. "kbdint" \in AuthCalls BY DEF AuthCalls
    <2>3. then.fn \in AuthCalls /\ then.asked = FALSE /\ then.need = more BY <1>6, <2>2
    <2> HIDE DEF then
    <2> QED BY <1>4, <1>5, <2>1, <2>3
<1>10. ASSUME NEW file, UserauthPublickey(file) PROVE AuthAsking
    <2> DEFINE then == [Call("publickey", more) EXCEPT !.key = ReadPublickey(file)]
    <2>1. Request(session, Asks("publickey"), then)
        BY <1>10 DEF UserauthPublickey, more
    <2>2. then.fn = "publickey" /\ then.asked = FALSE /\ then.need = more BY DEF Call
    <2> HIDE DEF then
    <2>3. then.fn \in AuthCalls BY <2>2 DEF AuthCalls
    <2> QED BY <1>5, <2>1, <2>2, <2>3
<1>11. ASSUME NEW file, UserauthHostbased(file) PROVE AuthAsking
    <2> DEFINE then == Call("hostbased", Answers)
    <2>1. PICK sig : Request(session, Signed("hostbased", sig), then)
        BY <1>11 DEF UserauthHostbased
    <2>2. "hostbased" \in AuthCalls BY DEF AuthCalls
    <2>3. then.fn \in AuthCalls /\ then.asked = FALSE /\ then.need = Answers BY <1>6, <2>2
    <2> HIDE DEF then
    <2>4. PICK p : p = Signed("hostbased", sig) OBVIOUS
    <2>5. Requests(p, then.need) BY <2>4, SignedRequests
    <2>6. CallWaits(then, session) BY <1>1, <1>4, <2>3 DEF CallWaits
    <2> QED BY <2>1, <2>3, <2>4, <2>5, <2>6 DEF AuthAsking
<1> QED BY <1>4, <1>7, <1>8, <1>9, <1>10, <1>11

\* A call that begins with its request, in a session in which nothing is due.
LEMMA RequestsDue ==
    ASSUME NEW m, NEW offers, InStepNow(m, offers, kex, session, wire), kex.step = "none",
           AuthAsking, call = Idle, ~session.authenticated,
           NEW place, DueAt(place, call, kex, session, wire, server)
    PROVE  /\ DueAt("out", call', kex', session', wire', server')
           /\ session'.socket_state = session.socket_state
<1>1. PICK p, then :
        /\ Request(session, p, then) /\ Requests(p, then.need)
        /\ then.fn \in AuthCalls /\ then.asked = FALSE /\ CallWaits(then, session)
    BY DEF AuthAsking
<1>2. call.fn \notin AuthCalls BY DEF Idle, Call, AuthCalls
<1>3. /\ None(session.out) /\ None(server.held) /\ None(wire) /\ None(session.packets)
      /\ ~server.authenticated
    BY <1>2, DueNot
<1>4. DOMAIN session = SessionFields /\ IsSeq(session.out) /\ session.link = "up" BY NowHas
<1>5. Bare(session, wire) BY <1>3, <1>4 DEF Bare
<1> DEFINE t == [session EXCEPT !.tries = session.tries + 1]
<1>6. Sends(t, p, then) /\ wire' = wire /\ server' = server BY <1>1 DEF Request
<1>7. DOMAIN t = SessionFields /\ \A f \in SessionFields \ {"tries"} : t[f] = session[f]
    BY <1>4
<1> HIDE DEF t
<1>8. DueAt("out", call', kex', session', wire, server)
    BY <1>1, <1>3, <1>5, <1>6, <1>7, RequestDue
<1>9. session'.socket_state = session.socket_state
    <2>1. t.out = session.out /\ t.socket_state = session.socket_state
        BY <1>7 DEF SessionFields
    <2>2. IsSeq(t.out) /\ session' = PacketWrite(t, p) BY <1>4, <1>6, <2>1 DEF Sends
    <2>3. session'.socket_state = t.socket_state
        BY <1>7, <2>2, WriteFields DEF SessionFields
    <2> QED BY <2>1, <2>3
<1> QED BY <1>6, <1>8, <1>9

-----------------------------------------------------------------------------
(* Each action of the client keeps what is due *)

\* Of what was broken, or timed out, nothing is said.
LEMMA Breaking ==
    ASSUME ReadFails \/ TimesOut
    PROVE  ~Quiet'
<1>1. GivesUp(session) /\ uses' = uses BY DEF ReadFails, TimesOut
<1>2. session' = session BY <1>1 DEF GivesUp, KexFails, Returns
<1> QED BY <1>1, <1>2 DEF ReadFails, TimesOut, Quiet, Live

\* After such a step a session that is live was.
LEMMA ClientLive ==
    ASSUME SessionInv, BaseInv, ClientKept
    PROVE  (Live' => Live) /\ uses' = uses
BY ClientBase DEF ClientKept

\* A packet that is taken is not what tells that the server has left.
LEMMA TakesConnected ==
    ASSUME NEW s, DOMAIN s = SessionFields, IsSeq(s.out), IsSeq(s.packets), TakesFound(s)
    PROVE  session'.socket_state = s.socket_state
<1>1. PICK x \in DOMAIN s.packets :
        Takes([s EXCEPT !.packets = RemoveAt(s.packets, x)], s.packets[x])
    BY DEF TakesFound
<1> DEFINE t == [s EXCEPT !.packets = RemoveAt(s.packets, x)]
<1>2. /\ DOMAIN t = SessionFields
      /\ \A f \in SessionFields \ {"packets"} : t[f] = s[f]
    BY TakenPlaces
<1>3. PICK p : p = s.packets[x] OBVIOUS
<1>4. Takes(t, p) BY <1>1, <1>3
<1> HIDE DEF t
<1>5. IsSeq(t.out) /\ t.socket_state = s.socket_state BY <1>2 DEF SessionFields
<1>6. CASE Exchanging
    <2>1. KexTakes(t, p) BY <1>4, <1>6 DEF Takes
    <2>2. Silently(t) BY <1>2, <1>5, <2>1, KexTakesSilent
    <2> QED BY <1>5, <2>2 DEF Silently
<1>7. CASE ~Exchanging
    <2>1. CallTakes(t, p) BY <1>4, <1>7 DEF Takes
    <2>2. ASSUME NEW q, NEW then, Sends(t, q, then)
          PROVE  session'.socket_state = t.socket_state
        <3>1. session' = PacketWrite(t, q) BY <2>2 DEF Sends
        <3> QED BY <1>2, <1>5, <3>1, WriteFields DEF SessionFields
    <2>3. ASSUME NEW u, DOMAIN t = DOMAIN u, Returns(u), u.socket_state = t.socket_state
          PROVE  session'.socket_state = t.socket_state
        BY <2>3 DEF Returns
    <2>4. CASE call.fn \notin AuthCalls
        <3>1. Silently(t) BY <1>2, <2>1, <2>4, ServiceSilent
        <3> QED BY <1>5, <3>1 DEF Silently
    <2>5. CASE call.fn \in AuthCalls /\ (Succeeded(p) \/ p.type = USERAUTH_FAILURE)
        <3>1. Answered(t, p) BY <2>1, <2>5 DEF CallTakes, AuthCalls
        <3>2. PICK u : u = IF Succeeded(p) THEN [t EXCEPT !.authenticated = TRUE] ELSE t
            OBVIOUS
        <3>3. Returns(u) BY <3>1, <3>2 DEF Answered
        <3>4. DOMAIN t = DOMAIN u /\ u.socket_state = t.socket_state
            BY <1>2, <3>2 DEF SessionFields
        <3> QED BY <1>5, <2>3, <3>3, <3>4
    <2>6. CASE call.fn \in AuthCalls /\ ~(Succeeded(p) \/ p.type = USERAUTH_FAILURE)
        <3>1. \/ call.fn = "password" /\ ChangesPassword(t)
              \/ call.fn = "publickey" /\ SendsSigned(t)
              \/ call.fn = "kbdint" /\ Respond(t, p)
            BY <2>1, <2>6 DEF CallTakes, AuthCalls
        <3>2. Returns(t) \/ \E q, then : Sends(t, q, then)
            BY <3>1 DEF ChangesPassword, SendsSigned, Respond
        <3> QED BY <1>5, <2>2, <2>3, <3>2
    <2> QED BY <2>4, <2>5, <2>6
<1> QED BY <1>6, <1>7

\* A step that keeps what is due, of a session that was quiet before it if it is after.
KeepsDue ==
    /\ Quiet' => Quiet
    /\ Quiet /\ Quiet' => \A place \in Places :
           DueAt(place, call, kex, session, wire, server) =>
               \E q \in Places : DueAt(q, call', kex', session', wire', server')

\* An exchange or a call goes on.
LEMMA ContinuesDue ==
    ASSUME SessionInv, KeysInv,
           \/ KexAgrees \/ ExchangeKeys
           \/ RequireQueued \/ RequireRead \/ ReadArrived \/ ReadFails \/ TimesOut
    PROVE  KeepsDue
<1>0. BaseInv /\ (Live => InStep) BY DEF KeysInv
<1>1. (Live' => Live) /\ uses' = uses BY <1>0, ContinuesKept, ClientLive
<1>2. /\ DOMAIN session = SessionFields /\ IsSeq(session.out) /\ IsSeq(session.packets)
    BY DEF SessionInv, SessionOk
<1>3. CASE ReadFails \/ TimesOut
    <2>1. ~Quiet' BY <1>3, Breaking
    <2> QED BY <2>1 DEF KeepsDue
<1>4. ASSUME Quiet', ~(ReadFails \/ TimesOut) PROVE Quiet
    <2>1. CASE KexAgrees \/ ExchangeKeys
        <3>1. session'.socket_state = session.socket_state
            BY <1>2, <2>1, AgreesSilent DEF Silently
        <3> QED BY <1>1, <1>4, <3>1 DEF Quiet
    <2>2. CASE RequireQueued
        <3>1. session'.socket_state = session.socket_state
            BY <1>2, <2>2, TakesConnected DEF RequireQueued
        <3> QED BY <1>1, <1>4, <3>1 DEF Quiet
    <2>3. CASE RequireRead BY <1>1, <1>4, <2>3 DEF Quiet, RequireRead, CanRead
    <2>4. CASE ReadArrived
        <3>1. CASE CanRead BY <1>1, <1>4, <3>1 DEF Quiet, CanRead
        <3>2. CASE ~CanRead
            <4>1. session' = session BY <2>4, <3>2 DEF ReadArrived, Returns
            <4> QED BY <1>1, <1>4, <4>1 DEF Quiet
        <3> QED BY <3>1, <3>2
    <2> QED BY <1>4, <2>1, <2>2, <2>3, <2>4
<1>5. ASSUME Quiet, Quiet', ~(ReadFails \/ TimesOut), NEW place \in Places,
             DueAt(place, call, kex, session, wire, server)
      PROVE  \E q \in Places : DueAt(q, call', kex', session', wire', server')
    <2>1. Live /\ session'.socket_state = "CONNECTED" BY <1>5 DEF Quiet
    <2>2. PICK m, offers : m = Choice(Offers(session), server.lists)
                           /\ offers = Offers(session)
        OBVIOUS
    <2>3. InStepNow(m, offers, kex, session, wire) BY <1>0, <2>1, <2>2, NowInStep
    <2>4. CASE KexAgrees \/ ExchangeKeys
        <3>1. Silently(session) BY <1>2, <2>4, AgreesSilent
        <3>2. kex.step # "none" /\ wire' = wire /\ server' = server
            BY <2>4 DEF KexAgrees, ExchangeKeys
        <3>3. DueAt(place, call', kex', session', wire', server')
            BY <1>5, <3>1, <3>2, StillDue
        <3> QED BY <3>3
    <2>5. CASE RequireQueued BY <1>5, <2>3, <2>5, RequireQueuedDue
    <2>6. CASE RequireRead BY <1>0, <1>5, <2>1, <2>3, <2>6, RequireReadDue
    <2>7. CASE ReadArrived BY <1>0, <1>5, <2>1, <2>3, <2>7, ReadArrivedDue
    <2> QED BY <1>5, <2>4, <2>5, <2>6, <2>7
<1> QED BY <1>3, <1>4, <1>5 DEF KeepsDue

\* A call begins, or the session does.
LEMMA BeginsDue ==
    ASSUME SessionInv, KeysInv,
           \/ \E kind, prefs : MethodPref(kind, prefs)
           \/ Startup \/ PacketRead \/ SessionDisconnect
    PROVE  KeepsDue
<1>0. BaseInv BY DEF KeysInv
<1>1. DOMAIN session = SessionFields /\ IsSeq(session.out) BY DEF SessionInv, SessionOk
<1>2. /\ Silently(session) /\ call.fn \notin AuthCalls
      /\ wire' = wire /\ server' = server /\ kex' = kex
    BY <1>1, BeginsSilent
<1>3. (Live' => Live) /\ uses' = uses
    <2>1. CASE Startup BY <1>0, <2>1, StartupKept, ClientLive
    <2>2. CASE PacketRead \/ SessionDisconnect BY <1>0, <2>2, BegunKept, ClientLive
    <2>3. ASSUME NEW kind, NEW prefs, MethodPref(kind, prefs)
          PROVE  (Live' => Live) /\ uses' = uses
        <3>1. \A f \in SessionFields \ {"prefs"} : session'[f] = session[f]
            BY <1>1, <2>3 DEF MethodPref, SessionFields
        <3>2. session'.link = session.link /\ session'.exchanging = session.exchanging
            BY <3>1 DEF SessionFields
        <3>3. uses' = uses BY <2>3 DEF MethodPref
        <3> QED BY <1>2, <3>2, <3>3 DEF Live, Hopes, Exchanging, Uncompressed
    <2> QED BY <2>1, <2>2, <2>3
<1>4. Quiet' => Quiet BY <1>2, <1>3 DEF Quiet, Silently
<1>5. ASSUME NEW place \in Places, DueAt(place, call, kex, session, wire, server)
      PROVE  DueAt(place, call', kex', session', wire', server')
    BY <1>2, <1>5, StillDue
<1> QED BY <1>4, <1>5 DEF KeepsDue

\* A call begins with a request.
LEMMA AskingDue ==
    ASSUME SessionInv, KeysInv,
           \/ UserauthList \/ UserauthPassword \/ UserauthKbdint
           \/ \E file : UserauthPublickey(file) \/ UserauthHostbased(file)
    PROVE  KeepsDue
<1>0. BaseInv /\ (Live => InStep) BY DEF KeysInv
<1>1. AuthAsking /\ call = Idle /\ ~session.authenticated BY AsksAre
<1>2. Requesting /\ session.started = "yes" BY RequestsAre
<1>3. (Live' => Live) /\ uses' = uses BY <1>0, <1>1, <1>2, BegunKept, ClientLive
<1>4. kex.step = "none" BY <1>0, <1>1 DEF BaseInv, Exchanging, Idle, Call
<1>5. DOMAIN session = SessionFields /\ IsSeq(session.out) BY DEF SessionInv, SessionOk
<1>6. session'.socket_state = session.socket_state
    <2>1. PICK p, then : Request(session, p, then) BY <1>1 DEF AuthAsking
    <2> DEFINE t == [session EXCEPT !.tries = session.tries + 1]
    <2>2. session' = PacketWrite(t, p) BY <2>1 DEF Request, Sends
    <2>3. DOMAIN t = SessionFields /\ t.out = session.out
          /\ t.socket_state = session.socket_state
        BY <1>5 DEF SessionFields
    <2> HIDE DEF t
    <2>4. session'.socket_state = t.socket_state
        BY <1>5, <2>2, <2>3, WriteFields DEF SessionFields
    <2> QED BY <2>3, <2>4
<1>7. Quiet' => Quiet BY <1>3, <1>6 DEF Quiet
<1>8. ASSUME Quiet, NEW place \in Places, DueAt(place, call, kex, session, wire, server)
      PROVE  \E q \in Places : DueAt(q, call', kex', session', wire', server')
    <2>1. Live BY <1>8 DEF Quiet
    <2>2. PICK m, offers : m = Choice(Offers(session), server.lists)
                           /\ offers = Offers(session)
        OBVIOUS
    <2>3. InStepNow(m, offers, kex, session, wire) BY <1>0, <2>1, <2>2, NowInStep
    <2>4. DueAt("out", call', kex', session', wire', server')
        BY <1>1, <1>4, <1>8, <2>3, RequestsDue
    <2>5. "out" \in Places BY DEF Places
    <2> QED BY <2>4, <2>5
<1> QED BY <1>7, <1>8 DEF KeepsDue

-----------------------------------------------------------------------------
(* Each action of the server keeps what is due *)

\* Nothing is asked or answered in either.
LEMMA NoneSame == ASSUME NEW q, None(q), NEW t, None(t) PROVE Same(q, t)
<1>1. ~Has(q, USERAUTH_SUCCESS) BY NoneIn
<1>2. ~One(q) BY DEF One, None
<1> QED BY <1>1, <1>2 DEF Same, None

\* The rest of the session, when the server may have read a packet of it.
Unread(t) ==
    /\ t.packets = session.packets /\ t.authenticated = session.authenticated
    /\ t.socket_state = session.socket_state

\* The server neither asks nor answers.
LEMMA ServerStill ==
    ASSUME NEW place, DueAt(place, call, kex, session, wire, server),
           NEW t, Unread(t), Same(session.out, t.out),
           NEW w, Same(wire, w), InOrder(w, kex.step),
           NEW srv, Same(server.held, srv.held), srv.authenticated = server.authenticated
    PROVE  DueAt(place, call, kex, t, w, srv)
<1>1. Same(session.packets, t.packets) BY SameSelf DEF Unread
<1>2. t.authenticated = session.authenticated BY DEF Unread
<1>3. place = "packets" => ~call.asked /\ kex.step = "none" BY DEF DueAt
<1> QED BY <1>1, <1>2, <1>3, DueStays

\* It writes packets that are no answers.
LEMMA WritesStill ==
    ASSUME NEW w, IsSeq(w), NEW step, InOrder(w, step),
           NEW r, IsSeq(r), \A i \in 1..Len(r) : IsPacket(r[i]) /\ ~IsAuth(r[i]),
           NEW keys, NEW w2, w2 = w \o Stamped(r, keys)
    PROVE  /\ Joined(w, Stamped(r, keys), w2) /\ IsSeq(w2)
           /\ Same(w, w2) /\ InOrder(w2, step)
<1>1. PICK q : q = Stamped(r, keys) OBVIOUS
<1>2. IsSeq(q) BY <1>1, SeqStamped
<1>3. Joined(w, q, w2) /\ IsSeq(w2) BY <1>1, <1>2, ConcatPlaces, SeqConcat
<1>4. None(r)
    <2>1. Placed(r) BY PlacedOk
    <2> QED BY <2>1 DEF Placed, None
<1>5. None(q) BY <1>1, <1>4, SameStamped DEF Same
<1> QED BY <1>1, <1>3, <1>5, SameJoins, OrderJoins

\* One packet.
LEMMA WritesOneStill ==
    ASSUME NEW w, IsSeq(w), NEW step, InOrder(w, step), NEW p, IsPacket(p), ~IsAuth(p),
           NEW keys, NEW w2, w2 = w \o Stamped(<<p>>, keys)
    PROVE  Same(w, w2) /\ InOrder(w2, step)
<1>1. PICK r : r = <<p>> OBVIOUS
<1>2. IsSeq(r) /\ Len(r) = 1 /\ r[1] = p BY <1>1, SeqShort
<1>3. \A i \in 1..1 : i = 1 OBVIOUS
<1>4. \A i \in 1..Len(r) : IsPacket(r[i]) /\ ~IsAuth(r[i]) BY <1>2, <1>3
<1>5. w2 = w \o Stamped(r, keys) BY <1>1
<1> QED BY <1>2, <1>4, <1>5, WritesStill

\* When the server answers at once, no KEXINIT is on its way, and in an exchange its
\* NEWKEYS is.
LEMMA AnswersNow ==
    ASSUME NEW m, NEW offers, Fits(m, offers, kex, session, wire, server),
           server.kex \in {"none", "newkeys"}
    PROVE  ~Has(wire, KEXINIT) /\ (kex.step # "none" => Has(wire, NEWKEYS))
<1>1. /\ Phase(kex.step, server.kex, session.secrets, server.n)
      /\ GreetInv(session.packets, wire, kex.step, server.kex, session.secrets, server)
      /\ Turning(wire, KeysAt(m, In, session.secrets), KeysAt(m, In, session.secrets + 1),
                 TheirsTurns(kex.step, server.kex))
    BY FitsHas
<1>2. /\ server.kex # "sent" /\ kex.step \notin Opening
      /\ kex.step # "none" => TheirsTurns(kex.step, server.kex)
    BY <1>1 DEF Phase, TheirsTurns, Opening, Closing
<1>3. kex.step # "kexinit" BY <1>2 DEF Opening
<1>4. ~Has(wire, KEXINIT) BY <1>1, <1>2, <1>3 DEF GreetInv, Has
<1>5. kex.step # "none" => Has(wire, NEWKEYS) BY <1>1, <1>2 DEF Turning
<1> QED BY <1>4, <1>5

\* An answer that the call waits for, and the only one that says who is let in.
Due(a, srv) ==
    /\ IsPacket(a) /\ a.type \in {USERAUTH_FAILURE, USERAUTH_SUCCESS, USERAUTH_PK_OK}
    /\ a.type = USERAUTH_PK_OK => USERAUTH_PK_OK \in ToSet(call.need)
    /\ srv.authenticated => a.type = USERAUTH_SUCCESS

\* The request is read and answered: the answer is due in its place.
LEMMA AnswerDue ==
    ASSUME SessionInv, NEW m, NEW offers, Fits(m, offers, kex, session, wire, server),
           DueAt("out", call, kex, session, wire, server),
           NEW t, Unread(t), None(t.out),
           NEW srv, AnswersAs(srv), NEW a, Due(a, srv), Answer(srv, a)
    PROVE  \E q \in Places : DueAt(q, call, kex, t, wire', server')
<1>1. /\ None(server.held) /\ None(wire) /\ None(session.packets) /\ call.fn \in AuthCalls
      /\ InOrder(wire, kex.step) /\ CallWaits(call, session)
    BY DEF DueAt, At
<1>2. srv.held = server.held /\ srv.kex = server.kex /\ DOMAIN srv = ServerFields
    BY AnswersAsIs
<1>3. t.packets = session.packets /\ t.authenticated = session.authenticated BY DEF Unread
<1>4. RequestsIn(t.out, call.need) BY NoneIn
<1>5. AnswersIn(t.packets, call.need) BY <1>1, <1>3, NoneIn
<1>6. CallWaits(call, t) BY <1>1, <1>3 DEF CallWaits
<1>7. IsAuth(a) BY AuthTypes DEF Due
<1>8. IsSeq(wire) /\ IsSeq(server.held) BY DEF SessionInv, WireOk, ServerOk
<1>9. CASE srv.kex \in {"none", "newkeys"}
    <2>1. server' = srv /\ wire' = wire \o Stamped(<<a>>, srv.out) BY <1>9 DEF Answer, Writes
    <2>2. PICK r, w : r = Stamped(<<a>>, srv.out) /\ w = wire' OBVIOUS
    <2>3. PICK l : l = <<a>> OBVIOUS
    <2>4. IsSeq(l) /\ Len(l) = 1 /\ l[1] = a BY <2>3, SeqShort
    <2>5. IsSeq(r) /\ Len(r) = 1 /\ Placed(r) BY <2>2, <2>3, <2>4, StampedPlaces, SeqStamped
    <2>6. 1 \in 1..Len(l) BY <2>4
    <2>7. r[1].type = a.type BY <2>2, <2>3, <2>4, <2>6, StampedAre DEF Due
    <2>8. DOMAIN r = {1}
        <3>1. 1..1 = {1} OBVIOUS
        <3> QED BY <2>5, <3>1 DEF Placed
    <2>9. One(r) /\ AnswersIn(r, call.need)
          /\ (a.type = USERAUTH_SUCCESS => Has(r, USERAUTH_SUCCESS))
          /\ ~Has(r, KEXINIT)
        <3>1. IsAuth(r[1]) BY <1>7, <2>7 DEF IsAuth
        <3>2. a.type # KEXINIT BY <1>7, AuthTypes
        <3> QED BY <2>7, <2>8, <3>1, <3>2 DEF One, AnswersIn, Has, Due
    <2>10. Joined(wire, r, w) BY <1>8, <2>1, <2>2, <2>5, ConcatPlaces
    <2>11. Same(r, w) BY <1>1, <2>10, SameJoins
    <2>12. One(w) /\ (a.type = USERAUTH_SUCCESS => Has(w, USERAUTH_SUCCESS))
        BY <2>9, <2>11 DEF Same
    <2>13. AnswersIn(w, call.need) BY <2>9, <2>11, SameIn
    <2>14. InOrder(w, kex.step) BY <1>1, <1>2, <1>9, <2>9, <2>10, AnswersNow, OrderJoins
    <2>15. LetIn(t, w, srv) BY <2>12 DEF LetIn, Due
    <2>16. AnswersIn(srv.held, call.need) BY <1>1, <1>2, NoneIn
    <2>17. At("wire", t.out, srv.held, w, t.packets) BY <1>1, <1>2, <1>3, <2>12 DEF At
    <2>18. DueAt("wire", call, kex, t, w, srv)
        BY <1>1, <1>4, <1>5, <1>6, <2>13, <2>14, <2>15, <2>16, <2>17 DEF DueAt
    <2>19. "wire" \in Places BY DEF Places
    <2> QED BY <2>1, <2>2, <2>18, <2>19
<1>10. CASE srv.kex \notin {"none", "newkeys"}
    <2> DEFINE u == [srv EXCEPT !.held = Append(srv.held, a)]
    <2>1. server' = u /\ wire' = wire BY <1>10 DEF Answer, Silent
    <2>2. u.held = Append(srv.held, a) /\ u.authenticated = srv.authenticated
        BY <1>2 DEF ServerFields
    <2> HIDE DEF u
    <2>3. Longer(srv.held, a, u.held) BY <1>2, <1>8, <2>2, AppendPlaces
    <2>4. /\ One(u.held) /\ \A i \in DOMAIN u.held : IsAuth(u.held[i]) => u.held[i] = a
          /\ a.type = USERAUTH_SUCCESS => Has(u.held, USERAUTH_SUCCESS)
        BY <1>1, <1>2, <1>7, <2>3, OneAppends
    <2>5. AnswersIn(u.held, call.need) BY <2>4 DEF AnswersIn, Due
    <2>6. AnswersIn(wire, call.need) BY <1>1, NoneIn
    <2>7. LetIn(t, wire, u) BY <2>2, <2>4 DEF LetIn, Due
    <2>8. At("held", t.out, u.held, wire, t.packets) BY <1>1, <1>3, <2>4 DEF At
    <2>9. DueAt("held", call, kex, t, wire, u)
        BY <1>1, <1>4, <1>5, <1>6, <2>5, <2>6, <2>7, <2>8 DEF DueAt
    <2>10. "held" \in Places BY DEF Places
    <2> QED BY <2>1, <2>9, <2>10
<1> QED BY <1>9, <1>10

\* An answer that is none to a request to authenticate.
LEMMA OtherAnswerDue ==
    ASSUME SessionInv, NEW place, DueAt(place, call, kex, session, wire, server),
           NEW t, Unread(t), Same(session.out, t.out),
           NEW a, IsPacket(a), ~IsAuth(a), Answer(server, a)
    PROVE  DueAt(place, call, kex, t, wire', server')
<1>1. IsSeq(wire) /\ IsSeq(server.held) /\ DOMAIN server = ServerFields
    BY DEF SessionInv, WireOk, ServerOk
<1>2. InOrder(wire, kex.step) BY DEF DueAt
<1>3. CASE server.kex \in {"none", "newkeys"}
    <2>1. server' = server /\ wire' = wire \o Stamped(<<a>>, server.out)
        BY <1>3 DEF Answer, Writes
    <2>2. PICK w : w = wire' OBVIOUS
    <2>3. Same(wire, w) /\ InOrder(w, kex.step) BY <1>1, <1>2, <2>1, <2>2, WritesOneStill
    <2>4. Same(server.held, server.held) BY SameSelf
    <2> QED BY <2>1, <2>2, <2>3, <2>4, ServerStill
<1>4. CASE server.kex \notin {"none", "newkeys"}
    <2> DEFINE u == [server EXCEPT !.held = Append(server.held, a)]
    <2>1. server' = u /\ wire' = wire BY <1>4 DEF Answer, Silent
    <2>2. u.held = Append(server.held, a) /\ u.authenticated = server.authenticated
        BY <1>1 DEF ServerFields
    <2> HIDE DEF u
    <2>3. Longer(server.held, a, u.held) BY <1>1, <2>2, AppendPlaces
    <2>4. Same(server.held, u.held) BY <2>3, SameAppends
    <2>5. Same(wire, wire) BY SameSelf
    <2> QED BY <1>2, <2>1, <2>2, <2>4, <2>5, ServerStill
<1> QED BY <1>3, <1>4

\* A request is read, and what the server does with it.
LEMMA RequestHandled ==
    ASSUME SessionInv, NEW m, NEW offers, Fits(m, offers, kex, session, wire, server),
           NEW place, DueAt(place, call, kex, session, wire, server),
           NEW p, session.out # <<>>, p = session.out[1], IsAuth(p), ServerHandles(p),
           NEW t, Unread(t), Shorter(session.out, t.out)
    PROVE  server'.gone \/ \E q \in Places : DueAt(q, call, kex, t, wire', server')
<1>1. 1 \in DOMAIN session.out BY ShorterPlaces
<1>2. ~None(session.out) BY <1>1 DEF None
<1>3. place = "out" /\ One(session.out) BY <1>2, DueWhere
<1>4. DueAt("out", call, kex, session, wire, server) BY <1>3
<1>5. None(t.out)
    <2>1. Without(session.out, 1, t.out) BY ShorterIsWithout
    <2> QED BY <1>3, <2>1, NoneWithout
<1>6. /\ p.type \in {USERAUTH_REQUEST, USERAUTH_INFO_RESPONSE}
      /\ (p.type = USERAUTH_REQUEST /\ p.what \in Unchallenged)
         \/ USERAUTH_PK_OK \in ToSet(call.need)
    BY <1>1 DEF DueAt, RequestsIn
<1>7. ~server.authenticated
    <2>1. None(server.held) /\ None(wire) /\ None(session.packets) /\ call.fn \in AuthCalls
        BY <1>4 DEF DueAt, At
    <2>2. ~session.authenticated BY <2>1 DEF DueAt, CallWaits
    <2>3. ~Has(server.held, USERAUTH_SUCCESS) BY <2>1, NoneIn
    <2>4. ~Has(wire, USERAUTH_SUCCESS) BY <2>1, NoneIn
    <2>5. ~Has(session.packets, USERAUTH_SUCCESS) BY <2>1, NoneIn
    <2> QED BY <2>2, <2>3, <2>4, <2>5 DEF DueAt, LetIn
<1>8. DOMAIN server = ServerFields BY DEF SessionInv, ServerOk
<1>9. CASE Succeeds
    <2> DEFINE u == [server EXCEPT !.authenticated = TRUE]
               a == Msg(USERAUTH_SUCCESS, "", 0)
    <2>1. Answer(u, a) BY <1>9 DEF Succeeds
    <2>2. AnswersAs(u) BY <1>8 DEF AnswersAs
    <2>3. IsPacket(a) /\ a.type = USERAUTH_SUCCESS BY DEF Msg, IsPacket
    <2>4. USERAUTH_SUCCESS # USERAUTH_PK_OK BY Types DEF PacketTypes
    <2> HIDE DEF u, a
    <2>5. Due(a, u) BY <2>3, <2>4 DEF Due
    <2> QED BY <1>4, <1>5, <2>1, <2>2, <2>5, AnswerDue
<1>10. CASE FailsIt
    <2> DEFINE a == Msg(USERAUTH_FAILURE, "", 0)
    <2>1. Answer(server, a) BY <1>10 DEF FailsIt
    <2>2. AnswersAs(server) BY ServerAnswersAs
    <2>3. IsPacket(a) /\ a.type = USERAUTH_FAILURE BY DEF Msg, IsPacket
    <2>4. USERAUTH_FAILURE # USERAUTH_PK_OK BY Types DEF PacketTypes
    <2> HIDE DEF a
    <2>5. Due(a, server) BY <1>7, <2>3, <2>4 DEF Due
    <2> QED BY <1>4, <1>5, <2>1, <2>2, <2>5, AnswerDue
<1>11. ASSUME NEW what, Challenges(what), USERAUTH_PK_OK \in ToSet(call.need)
       PROVE  \E q \in Places : DueAt(q, call, kex, t, wire', server')
    <2>1. PICK n :
            Answer([server EXCEPT !.challenges = server.challenges + 1, !.prompts = n],
                   Msg(USERAUTH_PK_OK, what, n))
        BY <1>11 DEF Challenges
    <2> DEFINE u == [server EXCEPT !.challenges = server.challenges + 1, !.prompts = n]
               a == Msg(USERAUTH_PK_OK, what, n)
    <2>2. AnswersAs(u) /\ u.authenticated = server.authenticated
        BY <1>8 DEF AnswersAs, ServerFields
    <2>3. IsPacket(a) /\ a.type = USERAUTH_PK_OK BY DEF Msg, IsPacket
    <2>4. Answer(u, a) BY <2>1
    <2> HIDE DEF u, a
    <2>5. Due(a, u) BY <1>7, <1>11, <2>2, <2>3 DEF Due
    <2> QED BY <1>4, <1>5, <2>2, <2>4, <2>5, AnswerDue
<1>12. \/ ServerLeaves
       \/ Succeeds \/ FailsIt
       \/ USERAUTH_PK_OK \in ToSet(call.need) /\ \E what : Challenges(what)
    <2>1. PacketTypes BY Types
    <2>2. \/ ServerLeaves
          \/ p.type = USERAUTH_REQUEST /\ ServerAuthenticates(p)
          \/ p.type = USERAUTH_INFO_RESPONSE
             /\ (ServerAuthenticates(Asks("kbdint")) \/ FailsIt)
        BY <1>6, <2>1 DEF ServerHandles, PacketTypes
    <2>3. ASSUME NEW x, ServerAuthenticates(x)
          PROVE  \/ Succeeds \/ FailsIt
                 \/ x.what \notin Unchallenged /\ \E what : Challenges(what)
        BY <1>7, <2>3 DEF ServerAuthenticates, Unchallenged
    <2>4. CASE p.type = USERAUTH_REQUEST /\ ServerAuthenticates(p)
        BY <1>6, <2>3, <2>4
    <2>5. CASE p.type = USERAUTH_INFO_RESPONSE
               /\ (ServerAuthenticates(Asks("kbdint")) \/ FailsIt)
        <3>1. USERAUTH_PK_OK \in ToSet(call.need) BY <1>6, <2>1, <2>5 DEF PacketTypes
        <3> QED BY <2>3, <2>5, <3>1
    <2> QED BY <2>2, <2>4, <2>5
<1>13. CASE ServerLeaves BY <1>8, <1>13 DEF ServerLeaves, ServerFields
<1> QED BY <1>9, <1>10, <1>11, <1>12, <1>13

\* Our value is read: the answers that the server held are on their way, behind its
\* NEWKEYS.
LEMMA RepliesDue ==
    ASSUME SessionInv, BaseInv, NEW m, NEW offers,
           Fits(m, offers, kex, session, wire, server),
           NEW place \in Places, DueAt(place, call, kex, session, wire, server),
           NEW p, session.out # <<>>, p = session.out[1], p.type \in Values,
           NEW type \in Replies, NEW over, ServerReplies(type, over),
           NEW t, Unread(t), Shorter(session.out, t.out), Same(session.out, t.out)
    PROVE  \E q \in Places : DueAt(q, call, kex, t, wire', server')
<1>1. \E signed, out, u : Replying(type, signed, out, u) BY RepliesAre
<1>2. PICK signed, out, u : Replying(type, signed, out, u) BY <1>1
<1>3. IsSeq(wire) BY DEF SessionInv, WireOk
<1>4. InOrder(wire, kex.step) BY DEF DueAt
<1>5. IsSeq(signed) /\ Len(signed) = 2
      /\ IsPacket(signed[1]) /\ signed[1].type = type
      /\ IsPacket(signed[2]) /\ signed[2].type = NEWKEYS
    BY <1>2 DEF Replying
<1>6. \A i \in 1..Len(signed) : IsPacket(signed[i]) /\ ~IsAuth(signed[i])
    <2>1. ~IsAuth(signed[1]) BY <1>5, AuthTypes
    <2>2. ~IsAuth(signed[2]) BY <1>5, AuthTypes
    <2>3. \A i \in 1..2 : i = 1 \/ i = 2 OBVIOUS
    <2> QED BY <1>5, <2>1, <2>2, <2>3
<1>7. PICK r, w : r = Stamped(signed, server.out) /\ w = wire \o Stamped(signed, server.out)
    OBVIOUS
<1>8. Joined(wire, r, w) /\ IsSeq(w) /\ Same(wire, w) /\ InOrder(w, kex.step)
    BY <1>3, <1>4, <1>5, <1>6, <1>7, WritesStill
<1>9. PICK h, r2, w2 : /\ h = server.held /\ r2 = Stamped(server.held, out)
                       /\ w2 = w \o Stamped(server.held, out)
    OBVIOUS
<1>10. wire' = w2 /\ server' = u /\ u.held = <<>> /\ u.authenticated = server.authenticated
    BY <1>2, <1>7, <1>9 DEF Replying, ServerFields
<1>11. IsSeq(h) /\ \A i \in 1..Len(h) : IsPacket(h[i]) /\ h[i].type \in HeldTypes
    BY <1>9, HeldArePackets DEF NoBanner
<1>12. IsSeq(r2) /\ Len(r2) = Len(h) /\ Placed(r2) BY <1>9, <1>11, StampedPlaces, SeqStamped
<1>13. Joined(w, r2, w2) BY <1>8, <1>9, <1>12, ConcatPlaces
<1>14. Same(h, r2) BY <1>9, <1>11, SameStamped
<1>15. None(<<>>) BY DEF None
<1>16. CASE None(h)
    <2>1. None(r2) BY <1>14, <1>16 DEF Same
    <2>2. Same(w, w2) BY <1>13, <2>1, SameJoins
    <2>3. Same(wire, w2) BY <1>8, <2>2, SameThen
    <2>4. InOrder(w2, kex.step) BY <1>8, <1>13, <2>1, OrderJoins
    <2>5. Same(server.held, u.held) BY <1>9, <1>10, <1>15, <1>16, NoneSame
    <2>6. DueAt(place, call, kex, t, w2, u) BY <1>10, <2>3, <2>4, <2>5, ServerStill
    <2> QED BY <1>10, <2>6
<1>17. CASE ~None(h)
    <2>1. place = "held" /\ One(h) BY <1>9, <1>17, DueWhere
    <2>2. None(session.out) /\ None(wire) /\ None(session.packets) /\ call.fn \in AuthCalls
          /\ CallWaits(call, session) /\ AnswersIn(h, call.need)
        BY <1>9, <2>1 DEF DueAt, At
    <2>3. None(w) BY <1>8, <2>2 DEF Same
    <2>4. Same(r2, w2) BY <1>13, <2>3, SameJoins
    <2>5. Same(h, w2) BY <1>14, <2>4, SameThen
    <2>6. One(w2) /\ (Has(h, USERAUTH_SUCCESS) => Has(w2, USERAUTH_SUCCESS))
        BY <2>1, <2>5 DEF Same
    <2>7. AnswersIn(w2, call.need) BY <2>2, <2>5, SameIn
    <2>8. ~Has(w, KEXINIT) /\ Has(w, NEWKEYS)
        <3>1. kex.step \in Closing
            <4>1. ValueInv(session.out, kex.step, server.kex, m) BY FitsHas
            <4>2. 1 \in DOMAIN session.out BY ShorterPlaces
            <4> QED BY <4>1, <4>2 DEF ValueInv
        <3>2. kex.step # "kexinit" /\ kex.step \notin Between BY <3>1 DEF Closing, Between
        <3>3. GreetInv(session.packets, wire, kex.step, server.kex, session.secrets, server)
            BY FitsHas
        <3>4. ~Has(wire, KEXINIT) BY <3>2, <3>3 DEF GreetInv, Has
        <3>5. r[1].type = type /\ r[2].type = NEWKEYS
            <4>1. 1 \in 1..Len(signed) /\ 2 \in 1..Len(signed) BY <1>5
            <4> QED BY <1>5, <1>7, <4>1, StampedAre
        <3>6. Len(r) = 2 BY <1>5, <1>7, StampedPlaces
        <3>7. KEXINIT # NEWKEYS /\ KEXINIT # type BY Types DEF PacketTypes, Replies
        <3>8. \A j \in 1..Len(r) : r[j].type # KEXINIT
            <4>1. \A i \in 1..2 : i = 1 \/ i = 2 OBVIOUS
            <4> QED BY <3>5, <3>6, <3>7, <4>1
        <3>9. ~Has(w, KEXINIT)
            <4>1. \A i \in DOMAIN w : \/ i \in DOMAIN wire /\ w[i] = wire[i]
                                      \/ \E j \in 1..Len(r) : w[i] = r[j]
                BY <1>8, JoinedPlaces
            <4> QED BY <3>4, <3>8, <4>1 DEF Has
        <3>10. Has(w, NEWKEYS)
            <4>1. 2 \in 1..Len(r) BY <3>6
            <4>2. Len(wire) + 2 \in DOMAIN w /\ w[Len(wire) + 2] = r[2]
                BY <1>8, <4>1, JoinedPlaces
            <4> QED BY <3>5, <4>2 DEF Has
        <3> QED BY <3>9, <3>10
    <2>9. ~Has(r2, KEXINIT)
        <3>1. \A i \in 1..Len(h) : r2[i].type = h[i].type BY <1>9, <1>11, StampedAre
        <3>2. KEXINIT \notin HeldTypes BY Types DEF PacketTypes, HeldTypes
        <3>3. DOMAIN r2 = 1..Len(h) BY <1>12 DEF Placed
        <3> QED BY <1>11, <3>1, <3>2, <3>3 DEF Has
    <2>10. InOrder(w2, kex.step) BY <1>8, <1>13, <2>8, <2>9, OrderJoins
    <2>11. None(t.out) BY <2>2 DEF Same
    <2>12. t.packets = session.packets /\ t.authenticated = session.authenticated
        BY DEF Unread
    <2>13. RequestsIn(t.out, call.need) BY <2>11, NoneIn
    <2>14. AnswersIn(t.packets, call.need) BY <2>2, <2>12, NoneIn
    <2>15. AnswersIn(u.held, call.need) BY <1>10, <1>15, NoneIn
    <2>16. LetIn(t, w2, u)
        <3>1. ~Has(wire, USERAUTH_SUCCESS) BY <2>2, NoneIn
        <3>2. LetIn(session, wire, server) BY DEF DueAt
        <3> QED BY <1>9, <1>10, <2>6, <2>12, <3>1, <3>2 DEF LetIn
    <2>17. CallWaits(call, t) BY <2>2, <2>12 DEF CallWaits
    <2>18. At("wire", t.out, u.held, w2, t.packets)
        BY <1>10, <1>15, <2>2, <2>6, <2>11, <2>12 DEF At
    <2>19. DueAt("wire", call, kex, t, w2, u)
        BY <2>2, <2>7, <2>10, <2>13, <2>14, <2>15, <2>16, <2>17, <2>18 DEF DueAt
    <2>20. "wire" \in Places BY DEF Places
    <2> QED BY <1>10, <2>19, <2>20
<1> QED BY <1>16, <1>17

\* Another packet is read, and what the server does with it.
LEMMA OtherHandled ==
    ASSUME SessionInv, BaseInv, NEW m, NEW offers,
           Fits(m, offers, kex, session, wire, server),
           NEW place \in Places, DueAt(place, call, kex, session, wire, server),
           NEW p, session.out # <<>>, p = session.out[1], ~IsAuth(p), ServerHandles(p),
           NEW t, Unread(t), Shorter(session.out, t.out)
    PROVE  server'.gone \/ \E q \in Places : DueAt(q, call, kex, t, wire', server')
<1>1. Same(session.out, t.out)
    <2>1. Without(session.out, 1, t.out) BY ShorterIsWithout
    <2> QED BY <2>1, SameWithout
<1>2. DOMAIN server = ServerFields /\ IsSeq(wire) BY DEF SessionInv, ServerOk, WireOk
<1>3. InOrder(wire, kex.step) /\ Same(wire, wire) BY SameSelf DEF DueAt
<1>4. ASSUME NEW u, server' = u, wire' = wire, u.held = server.held,
             u.authenticated = server.authenticated
      PROVE  DueAt(place, call, kex, t, wire', server')
    <2>1. Same(server.held, u.held) BY <1>4, SameSelf
    <2> QED BY <1>1, <1>3, <1>4, <2>1, ServerStill
<1>5. CASE ServerLeaves BY <1>2, <1>5 DEF ServerLeaves, ServerFields
<1>6. CASE p.keys = server.in
    <2>1. PacketTypes BY Types
    <2>2. p.type \notin {USERAUTH_REQUEST, USERAUTH_INFO_RESPONSE} BY AuthTypes
    <2>3. \/ server' = server /\ Silent
          \/ server' = [server EXCEPT !.gone = TRUE] /\ Silent
          \/ ServerAgrees(ServersChoice(p.what))
          \/ /\ p.type \in Values
             /\ \E type \in Replies : \E over : ServerReplies(type, over)
          \/ server' = server /\ Writes(server, <<Group>>)
          \/ ServerTurns
          \/ \E name : Answer(server, Msg(SERVICE_ACCEPT, name, 0))
        BY <1>6, <2>2 DEF ServerHandles, Group, Replies, Values
    <2>4. CASE server' = server /\ Silent BY <1>4, <2>4 DEF Silent
    <2>5. CASE server' = [server EXCEPT !.gone = TRUE] /\ Silent
        BY <1>2, <2>5 DEF ServerFields
    <2>6. CASE ServerAgrees(ServersChoice(p.what))
        <3> DEFINE u == [server EXCEPT !.kex = "init", !.method = ServersChoice(p.what)]
        <3>1. ServerLeaves \/ (server' = u /\ wire' = wire)
            BY <2>6 DEF ServerAgrees, Silent
        <3>2. u.held = server.held /\ u.authenticated = server.authenticated
            BY <1>2 DEF ServerFields
        <3> HIDE DEF u
        <3> QED BY <1>4, <1>5, <3>1, <3>2
    <2>7. CASE /\ p.type \in Values
               /\ \E type \in Replies : \E over : ServerReplies(type, over)
        BY <1>1, <2>7, RepliesDue
    <2>8. CASE server' = server /\ Writes(server, <<Group>>)
        <3>1. wire' = wire \o Stamped(<<Group>>, server.out) BY <2>8 DEF Writes
        <3>2. PICK g, w : g = Group /\ w = wire \o Stamped(<<Group>>, server.out) OBVIOUS
        <3>3. IsPacket(g) /\ ~IsAuth(g)
            <4>1. g.type = KEX_DH_GEX_GROUP BY <3>2 DEF Group, Msg
            <4> QED BY <3>2, <4>1, GroupIs, AuthTypes
        <3>4. Same(wire, w) /\ InOrder(w, kex.step)
            BY <1>2, <1>3, <3>2, <3>3, WritesOneStill
        <3>5. Same(server.held, server.held) BY SameSelf
        <3>6. DueAt(place, call, kex, t, w, server) BY <1>1, <3>4, <3>5, ServerStill
        <3> QED BY <2>8, <3>1, <3>2, <3>6
    <2>9. CASE ServerTurns
        <3> DEFINE keys == Keys(server.method, Out, server.n, ServersId, server.n)
                   id == IF server.id = 0 THEN server.n ELSE server.id
                   u == [server EXCEPT !.kex = "none", !.id = id, !.in = keys]
        <3>1. server' = u /\ wire' = wire BY <2>9 DEF ServerTurns, Silent
        <3> HIDE DEF keys, id
        <3>2. u.held = server.held /\ u.authenticated = server.authenticated
            BY <1>2 DEF ServerFields
        <3> HIDE DEF u
        <3> QED BY <1>4, <3>1, <3>2
    <2>10. CASE \E name : Answer(server, Msg(SERVICE_ACCEPT, name, 0))
        <3>1. PICK name : Answer(server, Msg(SERVICE_ACCEPT, name, 0)) BY <2>10
        <3> DEFINE a == Msg(SERVICE_ACCEPT, name, 0)
        <3>2. IsPacket(a) /\ a.type = SERVICE_ACCEPT BY DEF Msg, IsPacket
        <3>3. Answer(server, a) BY <3>1
        <3> HIDE DEF a
        <3>4. ~IsAuth(a) BY <3>2, AuthTypes
        <3> QED BY <1>1, <3>2, <3>3, <3>4, OtherAnswerDue
    <2> QED BY <2>3, <2>4, <2>5, <2>6, <2>7, <2>8, <2>9, <2>10
<1> QED BY <1>5, <1>6 DEF ServerHandles

\* The server reads a packet of ours.
LEMMA ReceivesDue == ASSUME SessionInv, KeysInv, ServerReceives PROVE KeepsDue
<1>0. BaseInv /\ (Live => InStep) BY DEF KeysInv
<1>1. /\ session.out # <<>> /\ ServerHandles(Head(session.out))
      /\ session' = [session EXCEPT !.out = Tail(session.out)]
      /\ call' = call /\ kex' = kex /\ uses' = uses
    BY DEF ServerReceives
<1>2. DOMAIN session = SessionFields /\ IsSeq(session.out) BY DEF SessionInv, SessionOk
<1>3. PICK q : q = session.out OBVIOUS
<1>4. IsSeq(q) /\ q # <<>> BY <1>1, <1>2, <1>3
<1>5. Shorter(q, Tail(q)) /\ Head(q) = q[1] BY <1>4, TailPlaces
<1>6. PICK t : t = session' OBVIOUS
<1>7. /\ DOMAIN t = SessionFields /\ t.out = Tail(q)
      /\ \A f \in SessionFields \ {"out"} : t[f] = session[f]
    BY <1>1, <1>2, <1>3, <1>6 DEF SessionFields
<1>8. ServerKept BY <1>0, <1>1, ServerHandlesKept
<1>9. SessionLeft
    <2>1. t.link = session.link BY <1>7 DEF SessionFields
    <2> QED BY <1>1, <1>6, <1>7, <2>1 DEF SessionLeft
<1>10. Live' => Live /\ ~server'.gone BY <1>0, <1>8, <1>9, ServerBase
<1>11. Unread(t) BY <1>7 DEF Unread, SessionFields
<1>12. Quiet' => Quiet /\ ~server'.gone BY <1>1, <1>6, <1>10, <1>11 DEF Quiet, Unread
<1>13. ASSUME Quiet, Quiet', NEW place \in Places,
              DueAt(place, call, kex, session, wire, server)
       PROVE  \E x \in Places : DueAt(x, call', kex', session', wire', server')
    <2>1. Live BY <1>13 DEF Quiet
    <2>2. PICK m, offers : m = Choice(Offers(session), server.lists)
                           /\ offers = Offers(session)
        OBVIOUS
    <2>3. Fits(m, offers, kex, session, wire, server) BY <1>0, <2>1, <2>2, NowFits
    <2>4. PICK p : p = Head(session.out) OBVIOUS
    <2>5. p = session.out[1] /\ ServerHandles(p) /\ Shorter(session.out, t.out)
        BY <1>1, <1>3, <1>5, <1>7, <2>4
    <2>6. server'.gone \/ \E x \in Places : DueAt(x, call, kex, t, wire', server')
        <3>1. CASE IsAuth(p) BY <1>1, <1>11, <1>13, <2>3, <2>5, <3>1, RequestHandled
        <3>2. CASE ~IsAuth(p) BY <1>0, <1>1, <1>11, <1>13, <2>3, <2>5, <3>2, OtherHandled
        <3> QED BY <3>1, <3>2
    <2> QED BY <1>1, <1>6, <1>12, <1>13, <2>6
<1> QED BY <1>12, <1>13 DEF KeepsDue

\* The server writes of its own accord, and that is no answer.
LEMMA SpeaksDue ==
    ASSUME session' = session, call' = call, kex' = kex, uses' = uses,
           server'.lists = server.lists, server'.gone = server.gone,
           server'.held = server.held, server'.authenticated = server.authenticated,
           Same(wire, wire'), \A step : InOrder(wire, step) => InOrder(wire', step)
    PROVE  KeepsDue
<1>1. Quiet' => Quiet BY DEF Quiet, Live, Hopes, Exchanging, Uncompressed
<1>2. PICK w, srv : w = wire' /\ srv = server' OBVIOUS
<1>3. ASSUME NEW place \in Places, DueAt(place, call, kex, session, wire, server)
      PROVE  DueAt(place, call', kex', session', wire', server')
    <2>1. InOrder(wire, kex.step) BY <1>3 DEF DueAt
    <2>2. Same(wire, w) /\ InOrder(w, kex.step) BY <1>2, <2>1
    <2>3. Same(server.held, srv.held) /\ srv.authenticated = server.authenticated
        BY <1>2, SameSelf
    <2>4. Unread(session) /\ Same(session.out, session.out) BY SameSelf DEF Unread
    <2>5. DueAt(place, call, kex, session, w, srv) BY <1>3, <2>2, <2>3, <2>4, ServerStill
    <2> QED BY <1>2, <2>5
<1> QED BY <1>1, <1>3 DEF KeepsDue

\* It asks for new keys.
LEMMA RekeysDue == ASSUME SessionInv, ServerRekeys PROVE KeepsDue
<1> DEFINE u == [server EXCEPT !.kex = "sent", !.n = server.n + 1]
           h == Hello(server.out, server.lists, server.guess, server.n + 1)
<1>1. /\ server' = u /\ wire' = wire \o h
      /\ uses' = uses /\ session' = session /\ call' = call /\ kex' = kex
    BY DEF ServerRekeys
<1>2. /\ u.lists = server.lists /\ u.gone = server.gone /\ u.held = server.held
      /\ u.authenticated = server.authenticated
    BY DEF SessionInv, ServerOk, ServerFields
<1>3. Greeting(h, server.out, server.lists, server.guess, server.n + 1) BY HelloGreets
<1> HIDE DEF u, h
<1>4. IsSeq(wire) /\ IsSeq(h) BY <1>3 DEF SessionInv, WireOk, Greeting
<1>5. PICK w : w = wire' OBVIOUS
<1>6. Joined(wire, h, w) BY <1>1, <1>4, <1>5, ConcatPlaces
<1>7. None(h)
    <2>1. /\ DOMAIN h = 1..Len(h) /\ h[1].type = KEXINIT
          /\ \A i \in 2..Len(h) : h[i].type = KEXDH_REPLY
        BY <1>3, <1>6 DEF Greeting, Joined, Placed
    <2>2. \A i \in DOMAIN h : i = 1 \/ i \in 2..Len(h) BY <2>1
    <2>3. \A i \in DOMAIN h : h[i].type \in {KEXINIT, KEXDH_REPLY} BY <2>1, <2>2
    <2>4. KEXDH_REPLY \in Replies BY DEF Replies
    <2> QED BY <2>3, <2>4, AuthTypes DEF None
<1>8. Same(wire, w) BY <1>6, <1>7, SameJoins
<1>9. \A step : InOrder(wire, step) => InOrder(w, step) BY <1>6, <1>7, OrderJoins
<1> QED BY <1>1, <1>2, <1>5, <1>8, <1>9, SpeaksDue

\* Its message for the user.
LEMMA BannerDue == ASSUME SessionInv, ServerBanner PROVE KeepsDue
<1> DEFINE u == [server EXCEPT !.greeted = TRUE]
           p == Msg(USERAUTH_BANNER, "", 0)
<1>1. /\ server' = u /\ wire' = wire \o Stamped(<<p>>, server.out)
      /\ uses' = uses /\ session' = session /\ call' = call /\ kex' = kex
    BY DEF ServerBanner, Writes
<1>2. /\ u.lists = server.lists /\ u.gone = server.gone /\ u.held = server.held
      /\ u.authenticated = server.authenticated
    BY DEF SessionInv, ServerOk, ServerFields
<1>3. IsPacket(p) /\ p.type = USERAUTH_BANNER BY DEF Msg, IsPacket
<1> HIDE DEF u, p
<1>4. ~IsAuth(p) BY <1>3, AuthTypes
<1>5. PICK w : w = wire' OBVIOUS
<1>6. IsSeq(wire) BY DEF SessionInv, WireOk
<1>7. \A step : InOrder(wire, step) => Same(wire, w) /\ InOrder(w, step)
    BY <1>1, <1>3, <1>4, <1>5, <1>6, WritesOneStill
<1>8. Same(wire, w)
    <2>1. PICK r : r = <<p>> OBVIOUS
    <2>2. IsSeq(r) /\ Len(r) = 1 /\ r[1] = p /\ Placed(r) BY <2>1, SeqShort, PlacedOk
    <2>3. \A i \in 1..1 : i = 1 OBVIOUS
    <2>4. None(r) /\ \A i \in 1..Len(r) : IsPacket(r[i])
        BY <1>3, <1>4, <2>2, <2>3 DEF None, Placed
    <2>5. PICK s : s = Stamped(r, server.out) OBVIOUS
    <2>6. None(s) BY <2>2, <2>4, <2>5, SameStamped DEF Same
    <2>7. IsSeq(s) BY <2>2, <2>5, SeqStamped
    <2>8. Joined(wire, s, w) BY <1>1, <1>5, <1>6, <2>1, <2>5, <2>7, ConcatPlaces
    <2> QED BY <2>6, <2>8, SameJoins
<1> QED BY <1>1, <1>2, <1>5, <1>7, <1>8, SpeaksDue

\* The server leaves, or the connection ends: nothing is due any more.
LEMMA EndsDue == ASSUME SessionInv, ServerDisconnects \/ Breaks PROVE KeepsDue
<1>1. CASE ServerDisconnects
    <2>1. server'.gone
        BY <1>1 DEF ServerDisconnects, ServerLeaves, SessionInv, ServerOk, ServerFields
    <2> QED BY <2>1 DEF KeepsDue, Quiet, Live
<1>2. CASE Breaks
    <2>1. session'.link # "up"
        BY <1>2 DEF Breaks, SessionInv, SessionOk, SessionFields
    <2> QED BY <2>1 DEF KeepsDue, Quiet, Live
<1> QED BY <1>1, <1>2

-----------------------------------------------------------------------------
(* Answers are due at first, and from then on *)

\* At first no call waits, and nothing is asked or answered.
LEMMA InitAnswers == Init => AnswersInv
<1> SUFFICES ASSUME Init PROVE \E place \in Places :
                                   DueAt(place, call, kex, session, wire, server)
    BY DEF AnswersInv
<1>1. PICK choice \in Sessions : Starts(choice) BY InitStarts
<1> DEFINE b == Msg(BANNER_LINE, "", 0)
           h == Hello(Plain, choice.lists, choice.guess, 1)
<1>2. wire = <<b>> \o h BY <1>1 DEF Starts
<1>3. b.type = BANNER_LINE BY DEF Msg
<1>4. Greeting(h, Plain, choice.lists, choice.guess, 1) BY HelloGreets
<1> HIDE DEF b, h
<1>5. PICK l : l = <<b>> OBVIOUS
<1>6. IsSeq(l) /\ Len(l) = 1 /\ l[1] = b /\ Placed(l) BY <1>5, SeqShort, PlacedOk
<1>7. None(l)
    <2>1. \A i \in 1..1 : i = 1 OBVIOUS
    <2> QED BY <1>3, <1>6, <2>1, AuthTypes DEF None, Placed
<1>8. IsSeq(h) BY <1>4 DEF Greeting
<1>9. PICK w : w = wire OBVIOUS
<1>10. Joined(l, h, w) BY <1>2, <1>5, <1>6, <1>8, <1>9, ConcatPlaces
<1>11. None(h)
    <2>1. /\ DOMAIN h = 1..Len(h) /\ h[1].type = KEXINIT
          /\ \A i \in 2..Len(h) : h[i].type = KEXDH_REPLY
        BY <1>4, <1>10 DEF Greeting, Joined, Placed
    <2>2. \A i \in DOMAIN h : i = 1 \/ i \in 2..Len(h) BY <2>1
    <2>3. \A i \in DOMAIN h : h[i].type \in {KEXINIT, KEXDH_REPLY} BY <2>1, <2>2
    <2>4. KEXDH_REPLY \in Replies BY DEF Replies
    <2> QED BY <2>3, <2>4, AuthTypes DEF None
<1>12. None(w) BY <1>7, <1>10, <1>11, SameJoins DEF Same
<1>13. /\ session.out = <<>> /\ session.packets = <<>> /\ server.held = <<>>
       /\ ~server.authenticated /\ kex.step = "none" /\ call.fn \notin AuthCalls
    BY <1>1 DEF Starts, Idle, Call, NoKex, KexStep, AuthCalls
<1>14. None(<<>>) BY DEF None
<1>15. At("none", session.out, server.held, w, session.packets) BY <1>12, <1>13, <1>14 DEF At
<1>16. /\ RequestsIn(session.out, call.need) /\ AnswersIn(server.held, call.need)
       /\ AnswersIn(session.packets, call.need)
    BY <1>13, <1>14, NoneIn
<1>17. AnswersIn(w, call.need) BY <1>12, NoneIn
<1>18. InOrder(w, kex.step) BY <1>12, <1>13 DEF InOrder, None
<1>19. LetIn(session, w, server) /\ CallWaits(call, session) BY <1>13 DEF LetIn, CallWaits
<1>20. DueAt("none", call, kex, session, w, server)
    BY <1>13, <1>15, <1>16, <1>17, <1>18, <1>19 DEF DueAt
<1>21. "none" \in Places BY DEF Places
<1> QED BY <1>9, <1>20, <1>21

\* Every step keeps what is due.
LEMMA AnswersStepOk == SessionInv /\ KeysInv /\ AnswersInv /\ [Next]_vars => AnswersInv'
<1> SUFFICES ASSUME SessionInv, KeysInv, AnswersInv, [Next]_vars PROVE AnswersInv'
    OBVIOUS
<1>1. CASE KeepsDue
    <2> SUFFICES ASSUME Quiet'
                 PROVE  \E q \in Places : DueAt(q, call', kex', session', wire', server')
        BY DEF AnswersInv
    <2>1. Quiet BY <1>1 DEF KeepsDue
    <2>2. PICK place \in Places : DueAt(place, call, kex, session, wire, server)
        BY <2>1 DEF AnswersInv
    <2> QED BY <1>1, <2>1, <2>2 DEF KeepsDue
<1>2. CASE UNCHANGED vars
    BY <1>2 DEF vars, AnswersInv, Quiet, Live, Hopes, Exchanging, Uncompressed
<1>3. CASE Continues \/ TimesOut BY <1>1, <1>3, ContinuesDue DEF Continues
<1>4. CASE Begins
    <2>1. \/ \E kind, prefs : MethodPref(kind, prefs)
          \/ Startup \/ PacketRead \/ SessionDisconnect
          \/ UserauthList \/ UserauthPassword \/ UserauthKbdint
          \/ \E file : UserauthPublickey(file) \/ UserauthHostbased(file)
        BY <1>4 DEF Begins
    <2> QED BY <1>1, <2>1, BeginsDue, AskingDue
<1>5. CASE ServerReceives BY <1>1, <1>5, ReceivesDue
<1>6. CASE ServerActs BY <1>1, <1>6, RekeysDue, BannerDue, EndsDue DEF ServerActs
<1> QED BY <1>2, <1>3, <1>4, <1>5, <1>6 DEF Next

\* One of a sequence's packets is a request or an answer, or none is.
LEMMA CountOf ==
    ASSUME NEW q
    PROVE  LET n == Cardinality({i \in DOMAIN q : IsAuth(q[i])})
           IN  (One(q) => n = 1) /\ (None(q) => n = 0)
<1> DEFINE S == {i \in DOMAIN q : IsAuth(q[i])}
<1>1. ASSUME One(q) PROVE Cardinality(S) = 1
    <2>1. PICK i \in DOMAIN q : IsAuth(q[i]) /\ \A j \in DOMAIN q : IsAuth(q[j]) => j = i
        BY <1>1 DEF One
    <2>2. S = {i} BY <2>1
    <2> HIDE DEF S
    <2> QED BY <2>2, FS_Singleton
<1>2. ASSUME None(q) PROVE Cardinality(S) = 0
    <2>1. S = {} BY <1>2 DEF None
    <2> HIDE DEF S
    <2> QED BY <2>1, FS_EmptySet
<1> QED BY <1>1, <1>2

\* So the answer that is due is the only one.
LEMMA AnswersFollow ==
    SessionInv /\ AnswersInv => (Uncompressed => AnswersAreDue)
<1> SUFFICES ASSUME SessionInv, AnswersInv, Uncompressed,
                    "timeout" \notin uses, ~Hopes, session.link = "up",
                    session.socket_state = "CONNECTED", ~server.gone
             PROVE  LET packets == session.out \o server.held \o wire \o session.packets
                    IN  Cardinality({i \in DOMAIN packets : IsAuth(packets[i])})
                            = IF call.fn \in AuthCalls THEN 1 ELSE 0
    BY DEF AnswersAreDue
<1>1. PICK place \in Places : DueAt(place, call, kex, session, wire, server)
    BY DEF AnswersInv, Quiet, Live
<1>2. IsSeq(session.out) /\ IsSeq(server.held) /\ IsSeq(wire) /\ IsSeq(session.packets)
    BY DEF SessionInv, SessionOk, WireOk, ServerOk
<1>3. PICK a, b, c, d : /\ a = session.out /\ b = server.held /\ c = wire
                        /\ d = session.packets
    OBVIOUS
<1>4. IsSeq(a) /\ IsSeq(b) /\ IsSeq(c) /\ IsSeq(d) BY <1>2, <1>3
<1>5. At(place, a, b, c, d) /\ (place # "none" <=> call.fn \in AuthCalls)
    BY <1>1, <1>3 DEF DueAt
<1>6. PICK ab : ab = a \o b OBVIOUS
<1>7. Joined(a, b, ab) /\ IsSeq(ab) BY <1>4, <1>6, ConcatPlaces, SeqConcat
<1>8. PICK abc : abc = ab \o c OBVIOUS
<1>9. Joined(ab, c, abc) /\ IsSeq(abc) BY <1>4, <1>7, <1>8, ConcatPlaces, SeqConcat
<1>10. PICK q : q = abc \o d OBVIOUS
<1>11. Joined(abc, d, q) BY <1>4, <1>9, <1>10, ConcatPlaces
<1>12. q = session.out \o server.held \o wire \o session.packets
    BY <1>3, <1>6, <1>8, <1>10
<1>13. /\ None(b) => Same(a, ab)
       /\ None(a) => Same(b, ab)
       /\ None(c) => Same(ab, abc)
       /\ None(ab) => Same(c, abc)
       /\ None(d) => Same(abc, q)
       /\ None(abc) => Same(d, q)
    BY <1>7, <1>9, <1>11, SameJoins
<1>14. CASE call.fn \in AuthCalls
    <2>1. place \in {"out", "held", "wire", "packets"} BY <1>5, <1>14 DEF Places
    <2>2. One(q) BY <1>5, <1>13, <2>1 DEF At, Same
    <2>3. Cardinality({i \in DOMAIN q : IsAuth(q[i])}) = 1 BY <2>2, CountOf
    <2> QED BY <1>12, <1>14, <2>3
<1>15. CASE call.fn \notin AuthCalls
    <2>1. place = "none" BY <1>5, <1>15
    <2>2. None(q) BY <1>5, <1>13, <2>1 DEF At, Same
    <2>3. Cardinality({i \in DOMAIN q : IsAuth(q[i])}) = 0 BY <2>2, CountOf
    <2> QED BY <1>12, <1>15, <2>3
<1> QED BY <1>14, <1>15

\* One request or answer is on the way while a call waits for its answer, and none when
\* no call does, for every session of which nothing was compressed before a re-exchange
\* (kex.c:1530-1583, userauth.c:56-1660).
THEOREM AnswersCorrect == Spec => [](Uncompressed => AnswersAreDue)
<1>1. Init => SessionInv BY InitOk
<1>2. Init => KeysInv BY InitKeys
<1>3. Init => AnswersInv BY InitAnswers
<1>4. SessionInv /\ [Next]_vars => SessionInv' BY StepOk
<1>5. SessionInv /\ KeysInv /\ [Next]_vars => KeysInv' BY KeysStepOk
<1>6. SessionInv /\ KeysInv /\ AnswersInv /\ [Next]_vars => AnswersInv' BY AnswersStepOk
<1>7. SessionInv /\ AnswersInv => (Uncompressed => AnswersAreDue) BY AnswersFollow
<1> QED BY <1>1, <1>2, <1>3, <1>4, <1>5, <1>6, <1>7, PTL DEF Spec
=============================================================================
