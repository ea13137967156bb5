----------------------- MODULE FTPDataConnectionProofs -----------------------
(***************************************************************************)
(* What FTPDataConnection.tla states of the search for a data connection,  *)
(* of every preference, circumstance and bound.                            *)
(*                                                                         *)
(* DataConnInv is the inductive invariant.  It has a part for each of the  *)
(* four properties (Timed, Connected, InTime, Forgotten) and one, Typed,   *)
(* that they rest on.  Six of the actions send DATA_CON: what these have   *)
(* in common is SendsAgain, and SendsAgainKeeps does for all of them.      *)
(***************************************************************************)
EXTENDS FTPDataConnection, TLAPS

-----------------------------------------------------------------------------
(* The inductive invariants *)

\* The next command to be sent is one that needs a data connection.
NeedsData == queue # <<>> /\ Head(queue) \in {"REST", "RETR"}

\* A transfer is a DATA_CON, perhaps a REST, and a RETR: nothing is taken from the
\* queue before a DATA_CON has been, and behind a RETR comes the next transfer.
Queued ==
    /\ history = <<>> => state = "idle" /\ ~NeedsData
    /\ state = "transfer" => Len(history) = 2 /\ history[1] = "RETR" /\ ~NeedsData
    /\ \A i \in 1..Len(queue) - 1 : queue[i] = "RETR" => queue[i + 1] = "DATA_CON"

Typed == TypeOK /\ Queued

\* What is searched for is in the history, and isActiveDataConn says which it is.
Searching ==
    /\ state \in Type \cup {"awaitingOpen"} => history # <<>> /\ history[1] \in Type
    /\ "noSocket" \notin given /\ state \in Passive \cup {"awaitingOpen"} => ~active

Timed == Searching /\ AwaitingOpenIsTimed

\* An active type is only tried when no passive one is left, and a command that
\* needs a connection has one or an active type to come by one.
Connected ==
    /\ active => preferred \notin Passive
    /\ active /\ preferred = "none" => canUse \cap Passive = {}
    /\ \A i \in 1..Len(unanswered) : unanswered[i] \in Type \ Passive => active
    /\ streams = "open" => ~timer
    /\ state \in {"idle", "offset"} /\ NeedsData => active \/ streams = "open"
    /\ TransferIsConnected

\* What the server has still to answer, in each state, when replies are faster than
\* the timer.
Due ==
    CASE state \in Type         -> {<<state>>}
      [] state = "offset"       -> {<<"REST">>}
      [] state = "transfer"     -> {<<>>, <<"RETR">>}
      [] state = "quit"         -> {<<>>, <<"QUIT">>}
      [] OTHER                  -> {<<>>}

InTime ==
    "slow" \notin given =>
        /\ unanswered \in Due
        /\ streams = "opening" =>
               state = "awaitingOpen" \/ (state = "transfer" /\ active)

\* A type that failed is not among those that may be tried.
Forgotten ==
    preferred = "none" /\ given \cap {"sendErrors", "noSocket"} = {} =>
        /\ repeated = {}
        /\ canUse \cap failed = {}

-----------------------------------------------------------------------------
(* The operators *)

\* No type is named as a state or a command is.
TypeNames ==
    /\ Passive \subseteq Type
    /\ Type \cap {"none", "QUIT", "REST", "RETR", "DATA_CON", "idle", "offset",
                 "transfer", "quit", "awaitingOpen"} = {}

\* Types, states and commands have different names.
LEMMA NamesOfTypes == TypeNames
BY DEF TypeNames, Type, Passive

\* There is always a next type, or the connection is given up; without a preference
\* it is one whose flag is set, and an active one comes last.
LEMMA NextTypes ==
    ASSUME NEW can \in SUBSET Type, preferred \in Type \cup {"none"}
    PROVE  /\ NextType(can) \in Type \cup {"QUIT"}
           /\ preferred # "none" => NextType(can) = preferred
           /\ preferred = "none" => NextType(can) \in can \cup {"QUIT"}
           /\ preferred = "none" /\ NextType(can) \in Type \ Passive
                => can \cap Passive = {}
BY DEF NextType, Type, Passive

\* What is sent for a type.
LEMMA FallbackTypes ==
    ASSUME NEW t \in Type \cup {"QUIT"}, NEW sent \in Fallbacks(t)
    PROVE  /\ sent \in Type \cup {"QUIT"}
           /\ sent = "QUIT" <=> t = "QUIT"
           /\ "noSocket" \notin given => sent = t
           /\ sent \in Type \ Passive => t \in Type \ Passive
BY DEF Fallbacks, Type, Passive

\* pushCommandOnHistoryQueue:, of which two entries are kept.
LEMMA Pushed ==
    ASSUME NEW S, NEW h \in Seq(S), Len(h) <= 2, NEW c \in S
    PROVE  /\ Push(c, h) \in Seq(S) /\ Len(Push(c, h)) <= 2
           /\ Push(c, h) # <<>> /\ Push(c, h)[1] = c
           /\ h # <<>> => Len(Push(c, h)) = 2
<1> DEFINE g == <<c>> \o h
           n == IF h = <<>> THEN 1 ELSE 2
<1>1. g \in Seq(S) /\ Len(g) >= n /\ g[1] = c OBVIOUS
<1>2. /\ SubSeq(g, 1, n) \in Seq(S) /\ Len(SubSeq(g, 1, n)) = n
      /\ SubSeq(g, 1, n)[1] = g[1]
    BY <1>1
<1>3. Push(c, h) = SubSeq(g, 1, n) BY DEF Push
<1> QED BY <1>1, <1>2, <1>3

\* The names that histories and the wire are made of.
HistoryName == Type \cup Verb \cup {"QUIT"}
WireName == Type \cup {"REST", "RETR", "QUIT"}

\* Sending DATA_CON is well typed.
LEMMA SendTyped ==
    ASSUME Typed, NEW can \in SUBSET Type, NEW h \in Seq(HistoryName), Len(h) <= 2,
           NEW gone \in SUBSET Type, NEW rest \in Seq(WireName),
           SendDataCon(can, h, gone, rest)
    PROVE  /\ history' \in Seq(HistoryName) /\ Len(history') <= 2 /\ history' # <<>>
           /\ unanswered' \in Seq(WireName)
           /\ state' \in Type \cup {"quit"}
           /\ canUse' \subseteq can
           /\ active' \in BOOLEAN /\ streams' = "none" /\ receiving' = FALSE
           /\ failed' \subseteq Type /\ repeated' \subseteq Type
<1> USE DEF Typed, TypeOK
<1>1. preferred \in Type \cup {"none"} BY OptionsAssumption
<1> DEFINE t == NextType(can)
<1>2. t \in Type \cup {"QUIT"} BY <1>1, NextTypes
<1>3. PICK sent \in Fallbacks(t) :
        /\ history' = Push(t, h) /\ unanswered' = Append(rest, sent)
        /\ state' = IF sent = "QUIT" THEN "quit" ELSE sent
        /\ canUse' = IF t = "EPRT" /\ sent # t THEN can \ {t} ELSE can
        /\ active' = IF t = "QUIT" THEN active ELSE t \notin Passive
        /\ CloseDataStreams
        /\ failed' = failed \cup gone
        /\ repeated' = repeated \cup ({sent} \cap failed')
    BY DEF SendDataCon
<1>4. sent \in Type \cup {"QUIT"} BY <1>2, FallbackTypes
<1>5. history' \in Seq(HistoryName) /\ Len(history') <= 2 /\ history' # <<>>
    BY <1>2, <1>3, Pushed DEF HistoryName
<1>6. unanswered' \in Seq(WireName) BY <1>3, <1>4 DEF WireName
<1>7. failed' \subseteq Type /\ repeated' \subseteq Type BY <1>3
<1> QED BY <1>2, <1>3, <1>4, <1>5, <1>6, <1>7 DEF CloseDataStreams
-----------------------------------------------------------------------------
(* Steps that send DATA_CON *)

\* What the steps that send DATA_CON have in common: only types that may be tried
\* are tried, the one that failed is not among them, and when no reply is slow
\* nothing else is on the wire.
IsRest(rest) == rest = unanswered \/ (unanswered # <<>> /\ rest = Tail(unanswered))

SendsAgain ==
    /\ \E can \in SUBSET canUse, h \in Seq(HistoryName), gone \in SUBSET Type,
          rest \in Seq(WireName) :
        /\ Len(h) <= 2 /\ IsRest(rest)
        /\ "sendErrors" \notin given => can \cap gone = {}
        /\ "slow" \notin given => rest = <<>>
        /\ SendDataCon(can, h, gone, rest)
    /\ UNCHANGED sessionVars

\* FallBack is such a step.
LEMMA FallBackSendsAgain ==
    ASSUME Typed, NEW t \in Type, NEW rest \in Seq(WireName), IsRest(rest),
           "slow" \notin given => rest = <<>>,
           FallBack(t, history, rest), UNCHANGED sessionVars
    PROVE  SendsAgain
<1>1. history \in Seq(HistoryName) /\ Len(history) <= 2
    BY DEF Typed, TypeOK, HistoryName
<1>2. canUse \ {t} \in SUBSET canUse /\ {t} \in SUBSET Type
        /\ (canUse \ {t}) \cap {t} = {}
    OBVIOUS
<1>3. SendDataCon(canUse \ {t}, history, {t}, rest) BY DEF FallBack
<1> QED BY <1>1, <1>2, <1>3 DEF SendsAgain

\* It keeps what the connection's variables may hold.
LEMMA SendsAgainTyped ==
    ASSUME Typed, SendsAgain
    PROVE  /\ history' \in Seq(HistoryName) /\ Len(history') <= 2 /\ history' # <<>>
           /\ unanswered' \in Seq(WireName)
           /\ state' \in Type \cup {"quit"}
           /\ canUse' \subseteq Type
           /\ active' \in BOOLEAN /\ streams' = "none" /\ receiving' = FALSE
           /\ failed' \subseteq Type /\ repeated' \subseteq Type
<1>1. canUse \subseteq Type BY DEF Typed, TypeOK
<1>2. PICK can \in SUBSET canUse, h \in Seq(HistoryName), gone \in SUBSET Type,
           rest \in Seq(WireName) :
        Len(h) <= 2 /\ SendDataCon(can, h, gone, rest)
    BY DEF SendsAgain
<1>3. can \in SUBSET Type BY <1>1
<1> QED BY <1>1, <1>2, <1>3, SendTyped

\* Such a step keeps each of the invariants.
LEMMA SendsAgainKeeps ==
    ASSUME Typed, SendsAgain
    PROVE  /\ Timed' /\ InTime'
           /\ Connected => Connected'
           /\ Forgotten => Forgotten'
<1> USE DEF TypeNames
<1>1. /\ preferred \in Type \cup {"none"} /\ canUse \subseteq Type
      /\ unanswered \in Seq(WireName)
    BY OptionsAssumption DEF Typed, TypeOK, WireName
<1>2. PICK can \in SUBSET canUse, h \in Seq(HistoryName), gone \in SUBSET Type,
           rest \in Seq(WireName) :
        /\ Len(h) <= 2 /\ IsRest(rest)
        /\ "sendErrors" \notin given => can \cap gone = {}
        /\ "slow" \notin given => rest = <<>>
        /\ SendDataCon(can, h, gone, rest)
    BY DEF SendsAgain
<1> DEFINE t == NextType(can)
<1>3. PICK sent \in Fallbacks(t) :
        /\ history' = Push(t, h) /\ unanswered' = Append(rest, sent)
        /\ state' = IF sent = "QUIT" THEN "quit" ELSE sent
        /\ canUse' = IF t = "EPRT" /\ sent # t THEN can \ {t} ELSE can
        /\ active' = IF t = "QUIT" THEN active ELSE t \notin Passive
        /\ streams' = "none"
        /\ failed' = failed \cup gone
        /\ repeated' = repeated \cup ({sent} \cap failed')
    BY <1>2 DEF SendDataCon, CloseDataStreams
<1>4. given' = given /\ preferred' = preferred BY DEF SendsAgain, sessionVars
<1>5. /\ t \in Type \cup {"QUIT"}
      /\ preferred # "none" => t = preferred
      /\ preferred = "none" => t \in can \cup {"QUIT"}
      /\ preferred = "none" /\ t \in Type \ Passive => can \cap Passive = {}
    BY <1>1, NextTypes
<1>6. /\ sent \in Type \cup {"QUIT"} /\ (sent = "QUIT" <=> t = "QUIT")
      /\ "noSocket" \notin given => sent = t
      /\ sent \in Type \ Passive => t \in Type \ Passive
    BY <1>5, FallbackTypes
<1>7. history' # <<>> /\ history'[1] = t
    <2>1. t \in HistoryName BY <1>5 DEF HistoryName
    <2>2. Push(t, h) # <<>> /\ Push(t, h)[1] = t BY <1>2, <2>1, Pushed
    <2> QED BY <1>3, <2>2
<1>8. TypeNames BY NamesOfTypes
<1>9. Timed'
    <2>1. state' # "awaitingOpen" BY <1>3, <1>6, <1>8
    <2>2. state' \in Type => history' # <<>> /\ history'[1] \in Type
        BY <1>3, <1>5, <1>6, <1>7, <1>8
    <2>3. "noSocket" \notin given' /\ state' \in Passive => ~active'
        BY <1>3, <1>4, <1>5, <1>6, <1>8
    <2> QED BY <2>1, <2>2, <2>3 DEF Timed, Searching, AwaitingOpenIsTimed
<1>10. ASSUME Connected PROVE Connected'
    <2>1. active => active' /\ t \notin Passive
        BY <1>1, <1>3, <1>5, <1>8, <1>10 DEF Connected
    <2>2. \A i \in 1..Len(unanswered') : unanswered'[i] \in Type \ Passive => active'
        <3>1. \A i \in 1..Len(rest) : rest[i] \in Type \ Passive => active
            <4>1. CASE rest = unanswered BY <1>10, <4>1 DEF Connected
            <4>2. CASE unanswered # <<>> /\ rest = Tail(unanswered)
                <5>1. ASSUME NEW i \in 1..Len(rest)
                      PROVE  i + 1 \in 1..Len(unanswered)
                               /\ rest[i] = unanswered[i + 1]
                    BY <1>1, <4>2
                <5> QED BY <1>10, <5>1 DEF Connected
            <4> QED BY <1>2, <4>1, <4>2 DEF IsRest
        <3>2. sent \in Type \ Passive => active' BY <1>3, <1>6, <1>8
        <3>3. ASSUME NEW i \in 1..Len(unanswered')
              PROVE  unanswered'[i] = sent
                        \/ (i \in 1..Len(rest) /\ unanswered'[i] = rest[i])
            BY <1>2, <1>3, <1>6
        <3> QED BY <2>1, <3>1, <3>2, <3>3
    <2>3. active' => preferred' \notin Passive
        BY <1>3, <1>4, <1>5, <1>8, <1>10 DEF Connected
    <2>4. active' /\ preferred' = "none" => canUse' \cap Passive = {}
        BY <1>3, <1>4, <1>5, <1>8, <1>10 DEF Connected
    <2>5. state' \notin {"idle", "offset", "transfer"}
        BY <1>3, <1>6, <1>8
    <2> QED BY <1>3, <2>2, <2>3, <2>4, <2>5 DEF Connected, TransferIsConnected
<1>11. InTime'
    <2>1. CASE "slow" \in given' BY <2>1 DEF InTime
    <2>2. CASE "slow" \notin given'
        <3>1. unanswered' = <<sent>> BY <1>2, <1>3, <1>4, <2>2
        <3>2. CASE sent = "QUIT"
            <4>1. state' = "quit" /\ unanswered' = <<"QUIT">> BY <1>3, <3>1, <3>2
            <4> QED BY <1>3, <1>8, <4>1 DEF InTime, Due
        <3>3. CASE sent \in Type
            <4>1. state' = sent BY <1>3, <1>8, <3>3
            <4>2. Due' = {<<sent>>} BY <1>8, <3>3, <4>1 DEF Due
            <4> QED BY <1>3, <3>1, <4>2 DEF InTime
        <3> QED BY <1>6, <3>2, <3>3
    <2> QED BY <2>1, <2>2
<1>12. ASSUME Forgotten, preferred' = "none",
              given' \cap {"sendErrors", "noSocket"} = {}
       PROVE  repeated' = {} /\ canUse' \cap failed' = {}
    <2>1. repeated = {} /\ canUse \cap failed = {} BY <1>4, <1>12 DEF Forgotten
    <2>2. sent = t /\ can \cap gone = {} BY <1>2, <1>4, <1>6, <1>12
    <2>3. can \cap failed' = {} BY <1>3, <2>1, <2>2
    <2>4. sent \notin failed'
        <3>1. "QUIT" \notin failed' BY <1>3, <1>8 DEF Typed, TypeOK
        <3> QED BY <1>4, <1>5, <1>12, <2>2, <2>3, <3>1
    <2> QED BY <1>3, <2>1, <2>2, <2>3, <2>4
<1> QED BY <1>9, <1>10, <1>11, <1>12 DEF Forgotten
-----------------------------------------------------------------------------
(* The actions *)

DataConnInv == Typed /\ Timed /\ Connected /\ InTime /\ Forgotten

\* Behind a RETR comes the next transfer.
Ordered(q) == \A i \in 1..Len(q) - 1 : q[i] = "RETR" => q[i + 1] = "DATA_CON"

\* Once a type has been sent, what is queued need only be well ordered.
LEMMA SendsAgainHolds ==
    ASSUME DataConnInv, SendsAgain, queue' \in Seq(Verb), Ordered(queue'),
           timer' \in BOOLEAN, transfers' \in 0..MaxTransfers
    PROVE  DataConnInv'
<1>1. Typed BY DEF DataConnInv
<1>2. /\ history' \in Seq(HistoryName) /\ Len(history') <= 2 /\ history' # <<>>
      /\ unanswered' \in Seq(WireName)
      /\ state' \in Type \cup {"quit"}
      /\ canUse' \subseteq Type
      /\ active' \in BOOLEAN /\ streams' = "none" /\ receiving' = FALSE
      /\ failed' \subseteq Type /\ repeated' \subseteq Type
    BY <1>1, SendsAgainTyped
<1>3. given' \in Circumstances /\ preferred' \in Preferences
    BY <1>1 DEF SendsAgain, sessionVars, Typed, TypeOK
<1>4. TypeOK' BY <1>2, <1>3 DEF TypeOK, HistoryName, WireName
<1>5. Queued' BY <1>2, NamesOfTypes DEF Queued, Ordered, TypeNames
<1>6. Timed' /\ InTime' /\ Connected' /\ Forgotten'
    BY <1>1, SendsAgainKeeps DEF DataConnInv
<1> QED BY <1>4, <1>5, <1>6 DEF DataConnInv, Typed

\* The rest of a queue is in order when the queue is.
LEMMA OrderedTail ==
    ASSUME NEW q \in Seq(Verb), q # <<>>, Ordered(q)
    PROVE  Tail(q) \in Seq(Verb) /\ Ordered(Tail(q))
<1>1. ASSUME NEW i \in 1..Len(Tail(q)) - 1
      PROVE  i + 1 \in 1..Len(q) - 1 /\ Tail(q)[i] = q[i + 1]
                /\ Tail(q)[i + 1] = q[i + 1 + 1]
    OBVIOUS
<1> QED BY <1>1 DEF Ordered

\* What a transfer asked for adds to the queue keeps it in order, and does not change
\* its head.
LEMMA OrderedAsk ==
    ASSUME NEW q \in Seq(Verb), Ordered(q),
           NEW a \in {<<"DATA_CON", "RETR">>, <<"DATA_CON", "REST", "RETR">>}
    PROVE  /\ q \o a \in Seq(Verb) /\ Ordered(q \o a) /\ q \o a # <<>>
           /\ Head(q \o a) = IF q = <<>> THEN "DATA_CON" ELSE Head(q)
<1>1. /\ a \in Seq(Verb) /\ Len(a) \in {2, 3} /\ a[1] = "DATA_CON"
      /\ Len(a) = 3 => a[2] = "REST"
    <2>1. CASE a = <<"DATA_CON", "RETR">> BY <2>1 DEF Verb
    <2>2. CASE a = <<"DATA_CON", "REST", "RETR">> BY <2>2 DEF Verb
    <2> QED BY <2>1, <2>2
<1>3. q \o a \in Seq(Verb) /\ q \o a # <<>> BY <1>1
<1>4. Head(q \o a) = IF q = <<>> THEN "DATA_CON" ELSE Head(q)
    <2>1. Head(q \o a) = (q \o a)[1] BY <1>1, <1>3
    <2>2. CASE q = <<>>
        <3>1. q \o a = a BY <1>1, <2>2
        <3> QED BY <1>1, <2>1, <2>2, <3>1
    <2>3. CASE q # <<>>
        <3>1. (q \o a)[1] = q[1] /\ Head(q) = q[1] BY <1>1, <2>3
        <3> QED BY <2>1, <2>3, <3>1
    <2> QED BY <2>2, <2>3
<1>5. ASSUME NEW i \in 1..Len(q \o a) - 1, (q \o a)[i] = "RETR"
      PROVE  (q \o a)[i + 1] = "DATA_CON"
    <2>1. CASE i < Len(q)
        <3>1. i \in 1..Len(q) - 1 /\ (q \o a)[i] = q[i] /\ (q \o a)[i + 1] = q[i + 1]
            BY <1>1, <2>1
        <3> QED BY <1>5, <3>1 DEF Ordered
    <2>2. CASE i = Len(q)
        <3>1. i + 1 = Len(q) + 1 BY <2>2
        <3>2. \A k \in 1..Len(a) : (q \o a)[Len(q) + k] = a[k] BY <1>1
        <3>3. (q \o a)[Len(q) + 1] = a[1] BY <1>1, <3>2
        <3> QED BY <1>1, <2>2, <3>3
    <2>3. CASE i > Len(q)
        <3>1. (q \o a)[i] = a[i - Len(q)] /\ i - Len(q) \in 1..Len(a) - 1
            BY <1>1, <2>3
        <3>2. \A k \in 1..Len(a) - 1 : a[k] # "RETR"
            <4>1. CASE Len(a) = 2 BY <1>1, <4>1
            <4>2. CASE Len(a) = 3 BY <1>1, <4>2
            <4> QED BY <1>1, <4>1, <4>2
        <3> QED BY <1>5, <3>1, <3>2
    <2> QED BY <2>1, <2>2, <2>3
<1> QED BY <1>3, <1>4, <1>5 DEF Ordered

\* What the lemmas below take from the invariant.
LEMMA InvTypes ==
    ASSUME DataConnInv
    PROVE  /\ queue \in Seq(Verb) /\ Ordered(queue)
           /\ history \in Seq(HistoryName) /\ Len(history) <= 2
           /\ unanswered \in Seq(WireName)
           /\ timer \in BOOLEAN /\ transfers \in 0..MaxTransfers
           /\ TypeNames
BY NamesOfTypes
DEF DataConnInv, Typed, TypeOK, Queued, Ordered, HistoryName, WireName

\* A transfer joins the queue behind what is in it.
LEMMA AskKeeps == ASSUME DataConnInv, Ask PROVE DataConnInv'
<1>1. PICK a \in {<<"DATA_CON", "RETR">>, <<"DATA_CON", "REST", "RETR">>} :
        queue' = queue \o a
    BY DEF Ask
<1>2. /\ queue' \in Seq(Verb) /\ Ordered(queue') /\ queue' # <<>>
      /\ Head(queue') = IF queue = <<>> THEN "DATA_CON" ELSE Head(queue)
    BY <1>1, InvTypes, OrderedAsk
<1>3. NeedsData' => NeedsData BY <1>2 DEF NeedsData
<1>4. transfers' \in 0..MaxTransfers BY InvTypes, OptionsAssumption DEF Ask
<1>5. /\ UNCHANGED <<state, canUse, history, unanswered, streams, receiving, active,
                     timer, given, preferred, failed, repeated>>
    BY DEF Ask, sessionVars, ghostVars
<1>6. TypeOK' BY <1>2, <1>4, <1>5 DEF DataConnInv, Typed, TypeOK
<1>7. Queued' BY <1>2, <1>3, <1>5 DEF DataConnInv, Typed, Queued, Ordered
<1>8. Timed' BY <1>5 DEF DataConnInv, Timed, Searching, AwaitingOpenIsTimed
<1>9. Connected'
    BY <1>3, <1>5 DEF DataConnInv, Connected, TransferIsConnected
<1>10. InTime' BY <1>5 DEF DataConnInv, InTime, Due
<1>11. Forgotten' BY <1>5 DEF DataConnInv, Forgotten
<1> QED BY <1>6, <1>7, <1>8, <1>9, <1>10, <1>11 DEF DataConnInv, Typed

\* A command is sent when the connection is idle, and nothing is on the wire then.
LEMMA DispatchKeeps == ASSUME DataConnInv, Dispatch PROVE DataConnInv'
<1>1. /\ queue # <<>> /\ state = "idle" /\ queue' = Tail(queue)
      /\ UNCHANGED <<timer, transfers, given, preferred>>
    BY DEF Dispatch, sessionVars
<1>2. Tail(queue) \in Seq(Verb) /\ Ordered(Tail(queue))
    BY <1>1, InvTypes, OrderedTail
<1>3. "slow" \notin given => unanswered = <<>>
    BY <1>1, InvTypes DEF DataConnInv, InTime, Due, TypeNames
<1>4. CASE Head(queue) = "DATA_CON"
    <2>1. SendDataCon(canUse, Push("DATA_CON", history), {}, unanswered)
        BY <1>4 DEF Dispatch
    <2>2. /\ Push("DATA_CON", history) \in Seq(HistoryName)
          /\ Len(Push("DATA_CON", history)) <= 2
        <3>1. "DATA_CON" \in HistoryName BY DEF HistoryName, Verb
        <3> QED BY <3>1, InvTypes, Pushed
    <2>3. SendsAgain
        BY <1>1, <1>3, <2>1, <2>2, InvTypes DEF SendsAgain, IsRest, sessionVars
    <2> QED BY <1>1, <1>2, <2>3, InvTypes, SendsAgainHolds
<1>5. CASE Head(queue) # "DATA_CON"
    <2> DEFINE c == Head(queue)
    <2>1. c \in {"REST", "RETR"} BY <1>1, <1>5, InvTypes DEF Verb
    <2>2. /\ history' = Push(c, history)
          /\ unanswered' = Append(unanswered, c)
          /\ state' = IF c = "REST" THEN "offset" ELSE "transfer"
          /\ UNCHANGED <<canUse, streams, receiving, active, failed, repeated>>
        BY <1>5 DEF Dispatch, ghostVars
    <2>3. history # <<>>
        BY <1>1, <2>1 DEF DataConnInv, Typed, Queued, NeedsData
    <2>4. /\ history' \in Seq(HistoryName) /\ Len(history') = 2 /\ history'[1] = c
        <3>1. c \in HistoryName BY <2>1 DEF HistoryName, Verb
        <3> QED BY <2>2, <2>3, <3>1, InvTypes, Pushed
    <2>5. unanswered' \in Seq(WireName)
        BY <2>1, <2>2, InvTypes DEF WireName
    <2>6. c = "RETR" => ~NeedsData'
        <3>1. SUFFICES ASSUME c = "RETR", Tail(queue) # <<>>
                       PROVE  Head(Tail(queue)) = "DATA_CON"
            BY <1>1 DEF NeedsData
        <3>2. 1 \in 1..Len(queue) - 1 /\ queue[1] = c /\ Head(Tail(queue)) = queue[2]
            BY <1>1, <3>1, InvTypes
        <3> QED BY <3>1, <3>2, InvTypes DEF Ordered
    <2>7. active \/ streams = "open"
        BY <1>1, <2>1 DEF DataConnInv, Connected, NeedsData
    <2>8. TypeOK'
        <3>1. history' \in Seq(Type \cup Verb \cup {"QUIT"}) /\ Len(history') <= 2
            BY <2>4 DEF HistoryName
        <3>2. unanswered' \in Seq(Type \cup {"REST", "RETR", "QUIT"})
            BY <2>5 DEF WireName
        <3>3. state' \in {"offset", "transfer"} BY <2>2
        <3> QED BY <1>1, <1>2, <2>2, <3>1, <3>2, <3>3 DEF DataConnInv, Typed, TypeOK
    <2>9. Queued'
        BY <1>1, <1>2, <2>1, <2>2, <2>4, <2>6 DEF Queued, Ordered
    <2>10. Timed'
        BY <2>2, InvTypes DEF Timed, Searching, AwaitingOpenIsTimed, TypeNames
    <2>11. Connected'
        <3>1. \A i \in 1..Len(unanswered') :
                  unanswered'[i] \in Type \ Passive => active'
            <4>1. ASSUME NEW i \in 1..Len(unanswered')
                  PROVE  \/ unanswered'[i] = c
                         \/ /\ i \in 1..Len(unanswered)
                            /\ unanswered'[i] = unanswered[i]
                BY <2>1, <2>2, InvTypes DEF WireName
            <4>2. c \notin Type BY <2>1, InvTypes DEF TypeNames
            <4> QED BY <2>2, <4>1, <4>2 DEF DataConnInv, Connected
        <3> QED
            BY <1>1, <2>2, <2>7, <3>1 DEF DataConnInv, Connected, TransferIsConnected
    <2>12. InTime'
        <3>1. CASE "slow" \in given BY <1>1, <3>1 DEF InTime
        <3>2. CASE "slow" \notin given
            <4>1. unanswered' = <<c>> BY <1>3, <2>2, <3>2
            <4>2. streams # "opening"
                BY <1>1, <3>2 DEF DataConnInv, InTime
            <4>3. <<c>> \in Due'
                <5>1. CASE c = "REST"
                    BY <2>2, <5>1, InvTypes DEF Due, TypeNames
                <5>2. CASE c = "RETR"
                    BY <2>2, <5>2, InvTypes DEF Due, TypeNames
                <5> QED BY <2>1, <5>1, <5>2
            <4> QED BY <2>2, <4>1, <4>2, <4>3 DEF InTime
        <3> QED BY <3>1, <3>2
    <2>13. Forgotten' BY <1>1, <2>2 DEF DataConnInv, Forgotten
    <2> QED BY <2>8, <2>9, <2>10, <2>11, <2>12, <2>13 DEF DataConnInv, Typed
<1> QED BY <1>4, <1>5

\* A reply leaves a shorter list of those that are due; if none is slow, an empty one.
LEMMA Answered ==
    ASSUME DataConnInv, unanswered # <<>>
    PROVE  /\ Tail(unanswered) \in Seq(WireName)
           /\ \A i \in 1..Len(Tail(unanswered)) :
                  Tail(unanswered)[i] \in Type \ Passive => active
           /\ "slow" \notin given => Tail(unanswered) = <<>>
<1>1. ASSUME NEW i \in 1..Len(Tail(unanswered))
      PROVE  i + 1 \in 1..Len(unanswered) /\ Tail(unanswered)[i] = unanswered[i + 1]
    BY InvTypes
<1>2. \A i \in 1..Len(unanswered) : unanswered[i] \in Type \ Passive => active
    BY DEF DataConnInv, Connected
<1>3. ASSUME "slow" \notin given PROVE Tail(unanswered) = <<>>
    <2>1. PICK c \in WireName : unanswered = <<c>>
        <3>1. Len(unanswered) = 1
            BY <1>3, InvTypes DEF DataConnInv, InTime, Due, TypeNames
        <3>2. unanswered[1] \in WireName /\ unanswered = <<unanswered[1]>>
            BY <3>1, InvTypes
        <3> QED BY <3>2
    <2> QED BY <2>1
<1> QED BY <1>1, <1>2, <1>3, InvTypes

\* A reply that nothing is done about.
LEMMA PassedOver ==
    ASSUME DataConnInv, unanswered # <<>>, unanswered' = Tail(unanswered),
           "slow" \in given \/ <<>> \in Due,
           UNCHANGED <<given, preferred, queue, state, canUse, history, streams,
                       receiving, active, timer, transfers, failed, repeated>>
    PROVE  DataConnInv'
<1>1. TypeOK'
    <2>1. unanswered' \in Seq(Type \cup {"REST", "RETR", "QUIT"})
        BY Answered DEF WireName
    <2> QED BY <2>1 DEF DataConnInv, Typed, TypeOK
<1>2. Queued' BY DEF DataConnInv, Typed, Queued, NeedsData
<1>3. Timed' BY DEF DataConnInv, Timed, Searching, AwaitingOpenIsTimed
<1>4. Connected'
    <2>1. \A i \in 1..Len(unanswered') : unanswered'[i] \in Type \ Passive => active'
        BY Answered
    <2> QED BY <2>1 DEF DataConnInv, Connected, TransferIsConnected, NeedsData
<1>5. InTime' BY Answered DEF DataConnInv, InTime, Due
<1>6. Forgotten' BY DEF DataConnInv, Forgotten
<1> QED BY <1>1, <1>2, <1>3, <1>4, <1>5, <1>6 DEF DataConnInv, Typed

\* What is due, where it says which state the connection is in.
LEMMA DueStates ==
    ASSUME DataConnInv, unanswered # <<>>, "slow" \notin given
    PROVE  /\ Head(unanswered) \in Type => state = Head(unanswered)
           /\ Head(unanswered) = "REST" => state = "offset"
           /\ Head(unanswered) = "QUIT" => state = "quit"
<1>1. unanswered \in Due BY DEF DataConnInv, InTime
<1> QED BY <1>1, InvTypes DEF Due, TypeNames

\* 227 or 229: the data streams are opened under their timer.
LEMMA EntersPassiveKeeps == ASSUME DataConnInv, EntersPassive PROVE DataConnInv'
<1>1. PICK t \in Passive :
        /\ Replies(t) /\ unanswered' = Tail(unanswered)
        /\ IF state = t
           THEN state' = "awaitingOpen" /\ OpenDataStreams
           ELSE UNCHANGED <<state, streams, receiving, timer>>
        /\ UNCHANGED <<queue, canUse, history, active, transfers, sessionVars,
                       ghostVars>>
    BY DEF EntersPassive
<1>2. /\ unanswered # <<>> /\ Head(unanswered) = t /\ t \in Type
      /\ UNCHANGED <<queue, canUse, history, active, transfers, given, preferred,
                     failed, repeated>>
    BY <1>1, InvTypes DEF Replies, TypeNames, sessionVars, ghostVars
<1>3. CASE state # t BY <1>1, <1>2, <1>3, DueStates, PassedOver
<1>4. CASE state = t
    <2>1. /\ state' = "awaitingOpen" /\ streams' = "opening" /\ receiving' = FALSE
          /\ timer' = TRUE
        BY <1>1, <1>4 DEF OpenDataStreams
    <2>2. TypeOK'
        <3>1. unanswered' \in Seq(Type \cup {"REST", "RETR", "QUIT"})
            BY <1>1, <1>2, Answered DEF WireName
        <3> QED BY <1>2, <2>1, <3>1 DEF DataConnInv, Typed, TypeOK
    <2>3. history # <<>> /\ history[1] \in Type /\ ("noSocket" \notin given => ~active)
        BY <1>2, <1>4 DEF DataConnInv, Timed, Searching
    <2>4. Queued' BY <1>2, <2>1, <2>3 DEF DataConnInv, Typed, Queued
    <2>5. Timed' BY <1>2, <2>1, <2>3 DEF Timed, Searching, AwaitingOpenIsTimed
    <2>6. Connected'
        <3>1. \A i \in 1..Len(unanswered') :
                  unanswered'[i] \in Type \ Passive => active'
            BY <1>1, <1>2, Answered
        <3> QED BY <1>2, <2>1, <3>1 DEF DataConnInv, Connected, TransferIsConnected
    <2>7. InTime'
        <3>1. "slow" \notin given => unanswered' = <<>> BY <1>1, <1>2, Answered
        <3>2. Due' = {<<>>} BY <2>1, InvTypes DEF Due, TypeNames
        <3> QED BY <1>2, <2>1, <3>1, <3>2 DEF InTime
    <2>8. Forgotten' BY <1>2 DEF DataConnInv, Forgotten
    <2> QED BY <2>2, <2>4, <2>5, <2>6, <2>7, <2>8 DEF DataConnInv, Typed
<1> QED BY <1>3, <1>4

\* A reply after which the connection is idle: 200 to an active type, 350 to REST, the
\* end of a transfer.
LEMMA IdleKeeps ==
    ASSUME DataConnInv, unanswered # <<>>, unanswered' = Tail(unanswered),
           state' = "idle", active \/ ~NeedsData \/ streams' = "open",
           streams' \in {streams, "none"}, receiving' \in BOOLEAN,
           "slow" \notin given => streams' # "opening",
           UNCHANGED <<given, preferred, queue, canUse, history, active, timer,
                       transfers, failed, repeated>>
    PROVE  DataConnInv'
<1>1. TypeOK'
    <2>1. unanswered' \in Seq(Type \cup {"REST", "RETR", "QUIT"})
        BY Answered DEF WireName
    <2> QED BY <2>1 DEF DataConnInv, Typed, TypeOK
<1>2. Queued' BY DEF DataConnInv, Typed, Queued, NeedsData
<1>3. Timed' BY InvTypes DEF Timed, Searching, AwaitingOpenIsTimed, TypeNames
<1>4. Connected'
    <2>1. \A i \in 1..Len(unanswered') : unanswered'[i] \in Type \ Passive => active'
        BY Answered
    <2> QED BY <2>1 DEF DataConnInv, Connected, TransferIsConnected, NeedsData
<1>5. InTime'
    <2>1. "slow" \notin given => unanswered' = <<>> BY Answered
    <2>2. Due' = {<<>>} BY InvTypes DEF Due, TypeNames
    <2> QED BY <2>1, <2>2 DEF InTime
<1>6. Forgotten' BY DEF DataConnInv, Forgotten
<1> QED BY <1>1, <1>2, <1>3, <1>4, <1>5, <1>6 DEF DataConnInv, Typed

\* 200 makes the connection idle in every state; by then isActiveDataConn is set.
LEMMA AcceptsActiveKeeps == ASSUME DataConnInv, AcceptsActive PROVE DataConnInv'
<1>1. PICK t \in Type \ Passive :
        /\ Replies(t) /\ unanswered' = Tail(unanswered) /\ state' = "idle"
        /\ UNCHANGED <<queue, canUse, history, streams, receiving, active, timer,
                       transfers, sessionVars, ghostVars>>
    BY DEF AcceptsActive
<1>2. unanswered # <<>> /\ Head(unanswered) = t BY <1>1 DEF Replies
<1>3. active
    <2>1. 1 \in 1..Len(unanswered) /\ unanswered[1] = t BY <1>2, InvTypes
    <2> QED BY <2>1 DEF DataConnInv, Connected
<1>4. "slow" \notin given => streams # "opening"
    BY <1>1, <1>2, DueStates, InvTypes DEF DataConnInv, InTime, TypeNames
<1>5. receiving \in BOOLEAN BY DEF DataConnInv, Typed, TypeOK
<1> QED BY <1>1, <1>2, <1>3, <1>4, <1>5, IdleKeeps DEF sessionVars, ghostVars

\* 350
LEMMA OffsetReplyKeeps == ASSUME DataConnInv, OffsetReply PROVE DataConnInv'
<1>1. /\ unanswered # <<>> /\ Head(unanswered) = "REST"
      /\ unanswered' = Tail(unanswered)
      /\ UNCHANGED <<queue, canUse, history, streams, receiving, active, timer,
                     transfers, given, preferred, failed, repeated>>
    BY DEF OffsetReply, Replies, sessionVars, ghostVars
<1>2. CASE state # "offset"
    <2>1. state' = state BY <1>2 DEF OffsetReply
    <2> QED BY <1>1, <1>2, <2>1, DueStates, PassedOver
<1>3. CASE state = "offset"
    <2>1. state' = "idle" BY <1>3 DEF OffsetReply
    <2>2. active \/ ~NeedsData \/ streams = "open"
        BY <1>3 DEF DataConnInv, Connected
    <2>3. "slow" \notin given => streams # "opening"
        BY <1>3 DEF DataConnInv, InTime
    <2>4. receiving \in BOOLEAN BY DEF DataConnInv, Typed, TypeOK
    <2> QED BY <1>1, <2>1, <2>2, <2>3, <2>4, IdleKeeps
<1> QED BY <1>2, <1>3

\* 226: what is next in the queue is the DATA_CON of another transfer.
LEMMA TransferEndsKeeps == ASSUME DataConnInv, TransferEnds PROVE DataConnInv'
<1>1. ~NeedsData BY DEF TransferEnds, DataConnInv, Typed, Queued
<1> QED
    BY <1>1, IdleKeeps
    DEF TransferEnds, Replies, CloseDataStreams, sessionVars, ghostVars

\* 221
LEMMA GoodbyeKeeps == ASSUME DataConnInv, Goodbye PROVE DataConnInv'
<1>1. unanswered # <<>> /\ Head(unanswered) = "QUIT" BY DEF Goodbye, Replies
<1>2. "slow" \notin given => <<>> \in Due
    BY <1>1, DueStates, InvTypes DEF Due, TypeNames
<1> QED BY <1>1, <1>2, PassedOver DEF Goodbye, sessionVars, ghostVars

\* 500, 501, 502 or 522: the type is forgotten and the next one sent.
LEMMA RefusesKeeps == ASSUME DataConnInv, Refuses PROVE DataConnInv'
<1>1. PICK t \in Type :
        /\ Replies(t)
        /\ IF state \in Type
           THEN FallBack(state, history, Tail(unanswered))
           ELSE /\ unanswered' = Tail(unanswered)
                /\ UNCHANGED <<state, canUse, history, streams, receiving, active,
                               ghostVars>>
        /\ UNCHANGED <<queue, timer, transfers, sessionVars>>
    BY DEF Refuses
<1>2. unanswered # <<>> /\ Head(unanswered) = t BY <1>1 DEF Replies
<1>3. CASE state \in Type
    <2>1. SendsAgain
        <3>1. FallBack(state, history, Tail(unanswered)) /\ UNCHANGED sessionVars
            BY <1>1, <1>3
        <3>2. IsRest(Tail(unanswered)) BY <1>2 DEF IsRest
        <3> QED
            BY <1>2, <1>3, <3>1, <3>2, Answered, FallBackSendsAgain DEF DataConnInv
    <2> QED BY <1>1, <2>1, InvTypes, SendsAgainHolds
<1>4. CASE state \notin Type
    <2>1. /\ unanswered' = Tail(unanswered)
          /\ UNCHANGED <<given, preferred, queue, state, canUse, history, streams,
                         receiving, active, timer, transfers, failed, repeated>>
        BY <1>1, <1>4 DEF sessionVars, ghostVars
    <2> QED BY <1>2, <1>4, <2>1, DueStates, PassedOver
<1> QED BY <1>3, <1>4

\* 425: the transfer's command goes back to the front of a queue whose next transfer
\* begins with a DATA_CON.
LEMMA CannotOpenKeeps == ASSUME DataConnInv, CannotOpen425 PROVE DataConnInv'
<1>1. /\ unanswered # <<>> /\ Head(unanswered) = "RETR" /\ state = "transfer"
      /\ UNCHANGED <<timer, transfers, given, preferred>>
    BY DEF CannotOpen425, Replies, sessionVars
<1>2. CASE history[2] \in Type
    <2>1. /\ FallBack(history[2], history, Tail(unanswered))
          /\ queue' = <<history[1]>> \o queue
        BY <1>2 DEF CannotOpen425
    <2>2. history[1] = "RETR" /\ ~NeedsData
        BY <1>1 DEF DataConnInv, Typed, Queued
    <2>3. queue' \in Seq(Verb) /\ Ordered(queue')
        <3>1. queue' = <<"RETR">> \o queue /\ queue' \in Seq(Verb)
            BY <2>1, <2>2, InvTypes DEF Verb
        <3>2. queue # <<>> => queue[1] = "DATA_CON"
            BY <2>2, InvTypes DEF NeedsData, Verb
        <3>3. ASSUME NEW i \in 1..Len(queue') - 1, queue'[i] = "RETR"
              PROVE  queue'[i + 1] = "DATA_CON"
            <4>1. i \in 1..Len(queue) /\ queue'[i + 1] = queue[i] BY <3>1, InvTypes
            <4>2. CASE i = 1 BY <3>2, <4>1, <4>2, InvTypes
            <4>3. CASE i > 1
                <5>1. i - 1 \in 1..Len(queue) - 1 /\ queue'[i] = queue[i - 1]
                    BY <3>1, <4>1, <4>3, InvTypes
                <5>2. queue[(i - 1) + 1] = "DATA_CON"
                    BY <3>3, <5>1, InvTypes DEF Ordered
                <5> QED BY <4>1, <5>2
            <4> QED BY <4>1, <4>2, <4>3
        <3> QED BY <3>1, <3>3 DEF Ordered
    <2>4. SendsAgain
        <3>1. IsRest(Tail(unanswered)) BY <1>1 DEF IsRest
        <3> QED
            BY <1>1, <1>2, <2>1, <3>1, Answered, FallBackSendsAgain
            DEF DataConnInv, sessionVars
    <2> QED BY <1>1, <2>3, <2>4, InvTypes, SendsAgainHolds
<1>3. CASE history[2] \notin Type
    <2>1. /\ unanswered' = Tail(unanswered)
          /\ UNCHANGED <<given, preferred, queue, state, canUse, history, streams,
                         receiving, active, timer, transfers, failed, repeated>>
        BY <1>3 DEF CannotOpen425, sessionVars, ghostVars
    <2>2. <<>> \in Due BY <1>1, InvTypes DEF Due, TypeNames
    <2> QED BY <1>1, <2>1, <2>2, PassedOver
<1> QED BY <1>2, <1>3

\* While the streams are awaited nothing else is on the wire.
LEMMA NothingDue ==
    ASSUME DataConnInv, state = "awaitingOpen", "slow" \notin given
    PROVE  unanswered = <<>>
BY InvTypes DEF DataConnInv, InTime, Due, TypeNames

\* The errors of the two streams.
LEMMA ErrorsKeep ==
    ASSUME DataConnInv, ReceiveStreamError \/ SendStreamError
    PROVE  DataConnInv'
<1>1. /\ state = "awaitingOpen" /\ history[1] \in Type
      /\ UNCHANGED <<queue, timer, transfers, sessionVars>>
    BY DEF ReceiveStreamError, SendStreamError
<1>2. IsRest(unanswered) /\ unanswered \in Seq(WireName)
    BY InvTypes DEF IsRest
<1>3. CASE ReceiveStreamError
    <2>1. FallBack(history[1], history, unanswered)
        BY <1>3 DEF ReceiveStreamError
    <2>2. SendsAgain
        BY <1>1, <1>2, <2>1, NothingDue, FallBackSendsAgain DEF DataConnInv
    <2> QED BY <1>1, <2>2, InvTypes, SendsAgainHolds
<1>4. CASE SendStreamError
    <2> DEFINE can == canUse \ {IF history[1] = "PASV" THEN "PORT" ELSE history[1]}
    <2>1. /\ SendDataCon(can, history, {history[1]}, unanswered)
          /\ "sendErrors" \in given
        BY <1>4 DEF SendStreamError
    <2>2. can \in SUBSET canUse /\ {history[1]} \in SUBSET Type BY <1>1
    <2>3. SendsAgain
        BY <1>1, <1>2, <2>1, <2>2, NothingDue, InvTypes DEF SendsAgain
    <2> QED BY <1>1, <2>3, InvTypes, SendsAgainHolds
<1> QED BY <1>3, <1>4

\* The timer: it gives up the type it was started for, or, when it is left over from
\* an earlier one, whatever is the newest in the history.
LEMMA OpenTimesOutKeeps == ASSUME DataConnInv, OpenTimesOut PROVE DataConnInv'
<1>1. /\ timer /\ timer' = FALSE /\ (streams = "opening" \/ "slow" \in given)
      /\ UNCHANGED <<queue, transfers, given, preferred>>
    BY DEF OpenTimesOut, sessionVars
<1>2. CASE history[1] \in Type
    <2>1. FallBack(history[1], history, unanswered)
        BY <1>2 DEF OpenTimesOut
    <2>2. "slow" \notin given => unanswered = <<>>
        <3>1. state # "transfer"
            BY <1>2, InvTypes DEF DataConnInv, Typed, Queued, TypeNames
        <3>2. "slow" \notin given => state = "awaitingOpen"
            BY <1>1, <3>1 DEF DataConnInv, InTime
        <3> QED BY <3>2, NothingDue
    <2>3. SendsAgain
        BY <1>1, <1>2, <2>1, <2>2, InvTypes, FallBackSendsAgain
        DEF IsRest, DataConnInv, sessionVars
    <2> QED BY <1>1, <2>3, InvTypes, SendsAgainHolds
<1>3. CASE history[1] \notin Type
    <2>1. /\ streams' = "none" /\ receiving' = FALSE
          /\ UNCHANGED <<state, canUse, history, unanswered, active, failed, repeated>>
        BY <1>3 DEF OpenTimesOut, CloseDataStreams, ghostVars
    <2>2. state # "awaitingOpen"
        BY <1>3 DEF DataConnInv, Timed, Searching
    <2>3. streams # "open" BY <1>1 DEF DataConnInv, Connected
    <2>4. TypeOK' BY <1>1, <2>1 DEF DataConnInv, Typed, TypeOK
    <2>5. Queued' BY <1>1, <2>1 DEF DataConnInv, Typed, Queued, NeedsData
    <2>6. Timed'
        BY <1>1, <2>1, <2>2 DEF DataConnInv, Timed, Searching, AwaitingOpenIsTimed
    <2>7. Connected'
        BY <1>1, <2>1, <2>3 DEF DataConnInv, Connected, TransferIsConnected, NeedsData
    <2>8. InTime' BY <1>1, <2>1 DEF DataConnInv, InTime, Due
    <2>9. Forgotten' BY <1>1, <2>1 DEF DataConnInv, Forgotten
    <2> QED BY <2>4, <2>5, <2>6, <2>7, <2>8, <2>9 DEF DataConnInv, Typed
<1> QED BY <1>2, <1>3

\* The streams open: the receive stream stops the timer, the send stream makes the
\* connection idle in a passive mode, and the server connects only in an active one.
LEMMA StreamsKeep ==
    ASSUME DataConnInv, ServerConnects \/ ReceiveStreamOpens \/ SendStreamOpens
    PROVE  DataConnInv'
<1> USE DEF sessionVars, ghostVars, OpenDataStreams
<1>1. CASE ServerConnects
    <2>1. /\ state = "transfer" /\ active /\ streams' = "opening"
          /\ receiving' = FALSE /\ timer' = TRUE
          /\ UNCHANGED <<given, preferred, queue, state, canUse, history, unanswered,
                         active, transfers, failed, repeated>>
        BY <1>1 DEF ServerConnects
    <2>2. TypeOK' BY <2>1 DEF DataConnInv, Typed, TypeOK
    <2>3. Queued' BY <2>1 DEF DataConnInv, Typed, Queued, NeedsData
    <2>4. Timed' BY <2>1 DEF DataConnInv, Timed, Searching, AwaitingOpenIsTimed
    <2>5. Connected' BY <2>1 DEF DataConnInv, Connected, TransferIsConnected, NeedsData
    <2>6. InTime' BY <2>1 DEF DataConnInv, InTime, Due
    <2>7. Forgotten' BY <2>1 DEF DataConnInv, Forgotten
    <2> QED BY <2>2, <2>3, <2>4, <2>5, <2>6, <2>7 DEF DataConnInv, Typed
<1>2. CASE ReceiveStreamOpens
    <2>1. /\ streams = "opening" /\ receiving' = TRUE /\ timer' = FALSE
          /\ UNCHANGED <<given, preferred, queue, state, canUse, history, unanswered,
                         streams, active, transfers, failed, repeated>>
        BY <1>2 DEF ReceiveStreamOpens
    <2>2. TypeOK' BY <2>1 DEF DataConnInv, Typed, TypeOK
    <2>3. Queued' BY <2>1 DEF DataConnInv, Typed, Queued, NeedsData
    <2>4. Timed' BY <2>1 DEF DataConnInv, Timed, Searching, AwaitingOpenIsTimed
    <2>5. Connected' BY <2>1 DEF DataConnInv, Connected, TransferIsConnected, NeedsData
    <2>6. InTime' BY <2>1 DEF DataConnInv, InTime, Due
    <2>7. Forgotten' BY <2>1 DEF DataConnInv, Forgotten
    <2> QED BY <2>2, <2>3, <2>4, <2>5, <2>6, <2>7 DEF DataConnInv, Typed
<1>3. CASE SendStreamOpens
    <2>1. /\ streams = "opening" /\ streams' = "open" /\ timer' = FALSE
          /\ state' = IF active THEN state ELSE "idle"
          /\ UNCHANGED <<given, preferred, queue, canUse, history, unanswered,
                         receiving, active, transfers, failed, repeated>>
        BY <1>3 DEF SendStreamOpens
    <2>2. TypeOK' BY <2>1 DEF DataConnInv, Typed, TypeOK
    <2>3. Queued' BY <2>1 DEF DataConnInv, Typed, Queued, NeedsData
    <2>4. Timed'
        <3>1. Searching' BY <2>1, InvTypes DEF DataConnInv, Timed, Searching, TypeNames
        <3>2. state' = "awaitingOpen" => "noSocket" \in given
            BY <2>1 DEF DataConnInv, Timed, Searching
        <3> QED BY <2>1, <3>1, <3>2 DEF Timed, AwaitingOpenIsTimed
    <2>5. Connected' BY <2>1 DEF DataConnInv, Connected, TransferIsConnected, NeedsData
    <2>6. InTime'
        <3>1. CASE active BY <2>1, <3>1 DEF DataConnInv, InTime, Due
        <3>2. CASE ~active
            <4>1. "slow" \notin given => unanswered = <<>>
                BY <2>1, <3>2, NothingDue DEF DataConnInv, InTime
            <4>2. Due' = {<<>>} BY <2>1, <3>2, InvTypes DEF Due, TypeNames
            <4> QED BY <2>1, <4>1, <4>2 DEF InTime
        <3> QED BY <3>1, <3>2
    <2>7. Forgotten' BY <2>1 DEF DataConnInv, Forgotten
    <2> QED BY <2>2, <2>3, <2>4, <2>5, <2>6, <2>7 DEF DataConnInv, Typed
<1> QED BY <1>1, <1>2, <1>3

-----------------------------------------------------------------------------
(* The theorems *)

\* The search starts with every type available and nothing under way.
LEMMA InitHolds == Init => DataConnInv
<1> SUFFICES ASSUME Init PROVE DataConnInv OBVIOUS
<1> USE DEF Init
<1>1. TypeOK
    <2>1. /\ queue \in Seq(Verb) /\ history \in Seq(Type \cup Verb \cup {"QUIT"})
          /\ Len(history) <= 2
          /\ unanswered \in Seq(Type \cup {"REST", "RETR", "QUIT"})
        OBVIOUS
    <2>2. transfers \in 0..MaxTransfers BY OptionsAssumption
    <2> QED BY <2>1, <2>2 DEF TypeOK
<1>2. Queued BY DEF Queued, NeedsData
<1>3. Timed BY NamesOfTypes DEF Timed, Searching, AwaitingOpenIsTimed, TypeNames
<1>4. Connected BY DEF Connected, TransferIsConnected, NeedsData
<1>5. InTime BY NamesOfTypes DEF InTime, Due, TypeNames
<1>6. Forgotten BY DEF Forgotten
<1> QED BY <1>1, <1>2, <1>3, <1>4, <1>5, <1>6 DEF DataConnInv, Typed

\* Whichever of the three sources of events is the next to speak, the invariant holds.
LEMMA StepHolds == DataConnInv /\ [Next]_vars => DataConnInv'
<1> SUFFICES ASSUME DataConnInv, [Next]_vars PROVE DataConnInv' OBVIOUS
<1>1. CASE Ask BY <1>1, AskKeeps
<1>2. CASE Dispatch BY <1>2, DispatchKeeps
<1>3. CASE ServerReplies
    BY <1>3, EntersPassiveKeeps, AcceptsActiveKeeps, RefusesKeeps, OffsetReplyKeeps,
       CannotOpenKeeps, TransferEndsKeeps, GoodbyeKeeps
    DEF ServerReplies
<1>4. CASE StreamEvents
    BY <1>4, ErrorsKeep, OpenTimesOutKeeps, StreamsKeep DEF StreamEvents
<1>5. CASE UNCHANGED vars
    BY <1>5
    DEF vars, sessionVars, ghostVars, DataConnInv, Typed, TypeOK, Queued, NeedsData, Timed,
        Searching, AwaitingOpenIsTimed, Connected, TransferIsConnected, InTime, Due,
        Forgotten
<1> QED BY <1>1, <1>2, <1>3, <1>4, <1>5 DEF Next

\* The invariant of the search, in every session, with every preference and in every
\* circumstance.
THEOREM SearchCorrect == Spec => []DataConnInv
BY InitHolds, StepHolds, PTL DEF Spec

\* The variables of the search always have values the code expects.
THEOREM SearchTyped == Spec => []TypeOK
<1>1. DataConnInv => TypeOK BY DEF DataConnInv, Typed
<1> QED BY <1>1, SearchCorrect, PTL

\* A connection that could listen never waits for its streams without a timer or an
\* opened stream.
THEOREM AwaitingOpenTimed == Spec => []AwaitingOpenIsTimed
<1>1. DataConnInv => AwaitingOpenIsTimed BY DEF DataConnInv, Timed
<1> QED BY <1>1, SearchCorrect, PTL

\* A passive transfer never starts without open streams, whatever timers and late
\* replies did before.
THEOREM TransferConnected == Spec => []TransferIsConnected
<1>1. DataConnInv => TransferIsConnected BY DEF DataConnInv, Connected
<1> QED BY <1>1, SearchCorrect, PTL

\* Control connection, streams and timer never put two commands on the wire, as long
\* as no reply outlasts the timer.
THEOREM OneReply == Spec => []OneReplyDue
<1>1. DataConnInv => OneReplyDue
    <2> SUFFICES ASSUME DataConnInv, "slow" \notin given
                 PROVE  /\ Len(unanswered) <= 1
                        /\ state \in Type => unanswered = <<state>>
        BY DEF OneReplyDue
    <2>1. unanswered \in Due BY DEF DataConnInv, InTime
    <2>2. state \in Type => unanswered = <<state>>
        BY <2>1, InvTypes DEF Due, TypeNames
    <2>3. unanswered \in {<<>>, <<state>>, <<"REST">>, <<"RETR">>, <<"QUIT">>}
        BY <2>1 DEF Due
    <2>4. Len(unanswered) <= 1 BY <2>3
    <2> QED BY <2>2, <2>4
<1> QED BY <1>1, SearchCorrect, PTL

\* A type that has failed is not sent again, unless a send stream's error or the lack
\* of a socket comes into it.
THEOREM NeverRetried == Spec => []NeverRetriesFailed
<1>1. DataConnInv => NeverRetriesFailed
    BY DEF DataConnInv, Forgotten, NeverRetriesFailed
<1> QED BY <1>1, SearchCorrect, PTL
=============================================================================
