-------------------------- MODULE FTPDataConnection --------------------------
(***************************************************************************)
(* How CKFTPConnection finds a data connection that works.  DATA_CON asks  *)
(* nextAvailableDataConnectionType for one of PASV, EPSV, EPRT and PORT;   *)
(* a refusal, a stream error, a timeout or a 425 marks a type as unusable  *)
(* and sends DATA_CON again.  These events come from three sources that    *)
(* know nothing of each other: the control connection, the two data        *)
(* streams, and the timer that bounds their opening.                       *)
(*                                                                         *)
(* A transfer that has its connection simply ends here: what it tells the  *)
(* delegate, and what a failure removes, is in FTPSession.tla.             *)
(***************************************************************************)
EXTENDS Integers, Sequences, FiniteSets

CONSTANTS
    Preferences,    \* what [[self request] FTPDataConnectionType] may be, "none" for nil
    Circumstances,  \* the sets of circumstances below to search in
    MaxTransfers,   \* bound: transfers asked for
    MaxUnanswered   \* bound: commands on the wire when the timer fires

Type == {"PASV", "EPSV", "EPRT", "PORT"}
Passive == {"PASV", "EPSV"}
Verb == {"DATA_CON", "REST", "RETR"}

\* resumes: a transfer may be resumed (a REST before its RETR); sendErrors: the send
\* stream may be the first to report an error; noSocket: there may be no socket to
\* listen on; slow: a reply may take longer than the timer.
Circumstance == {"resumes", "sendErrors", "noSocket", "slow"}

ASSUME OptionsAssumption ==
    /\ Preferences \subseteq Type \cup {"none"}
    /\ Circumstances \subseteq SUBSET Circumstance
    /\ MaxTransfers \in Nat /\ MaxUnanswered \in Nat

VARIABLES
    given,      \* the circumstances of this session
    preferred,  \* the data connection type the client asked for, or "none"
    queue,      \* _commandQueue
    state,      \* _state: a Type or "offset" while its reply is due,
                \* "awaitingOpen", "idle", "transfer", "quit"
    canUse,     \* the types whose canUse flag is set
    history,    \* the two newest commands of _commandHistory, the newest first
    unanswered, \* the commands sent to the server and not answered, oldest first
    streams,    \* "none", "opening" or "open": the data streams
    receiving,  \* the receive stream has opened
    active,     \* _ftpFlags.isActiveDataConn
    timer,      \* _openStreamsTimeout is scheduled
    transfers,  \* the counter MaxTransfers bounds
    failed,     \* history variable: the types that failed, in any way
    repeated    \* history variable: those sent after they had failed

ghostVars == <<failed, repeated>>
sessionVars == <<given, preferred>>
vars == <<sessionVars, queue, state, canUse, history, unanswered, streams, receiving,
          active, timer, transfers, ghostVars>>

\* The queue, the flags, the history (two entries of it) and the wire hold what the
\* code puts there, and the state is one of the search's.
TypeOK ==
    /\ given \in Circumstances /\ preferred \in Preferences
    /\ queue \in Seq(Verb)
    /\ state \in Type \cup {"offset", "awaitingOpen", "idle", "transfer", "quit"}
    /\ canUse \subseteq Type
    /\ history \in Seq(Type \cup Verb \cup {"QUIT"}) /\ Len(history) <= 2
    /\ unanswered \in Seq(Type \cup {"REST", "RETR", "QUIT"})
    /\ streams \in {"none", "opening", "open"}
    /\ receiving \in BOOLEAN /\ active \in BOOLEAN /\ timer \in BOOLEAN
    /\ transfers \in 0..MaxTransfers
    /\ failed \subseteq Type /\ repeated \subseteq Type

Init ==
    /\ given \in Circumstances /\ preferred \in Preferences
    /\ queue = <<>> /\ state = "idle" /\ canUse = Type
    /\ history = <<>> /\ unanswered = <<>>
    /\ streams = "none" /\ receiving = FALSE /\ active = FALSE /\ timer = FALSE
    /\ transfers = 0
    /\ failed = {} /\ repeated = {}

\* The order of nextAvailableDataConnectionType; a preferred type is used whatever
\* its flag says.
NextType(can) ==
    CASE preferred # "none" -> preferred
      [] OTHER -> CASE "PASV" \in can -> "PASV"
                    [] "PASV" \notin can /\ "EPSV" \in can -> "EPSV"
                    [] can \cap Passive = {} /\ "EPRT" \in can -> "EPRT"
                    [] can = {"PORT"} -> "PORT"
                    [] can = {} -> "QUIT"

Push(c, h) == SubSeq(<<c>> \o h, 1, IF h = <<>> THEN 1 ELSE 2)

\* EPRT and PORT need a socket to listen on; when there is none EPRT becomes PORT
\* (and its flag is cleared), and PORT becomes PASV.
Fallbacks(t) ==
    {t} \cup (IF "noSocket" \notin given THEN {} ELSE
                 CASE t = "EPRT" -> {"PORT", "PASV"}
                   [] t = "PORT" -> {"PASV"}
                   [] OTHER      -> {})

CloseDataStreams == streams' = "none" /\ receiving' = FALSE

\* Seeded fault: no timer is started.
OpenDataStreamsUntimed == streams' = "opening" /\ receiving' = FALSE /\ UNCHANGED timer

OpenDataStreams == streams' = "opening" /\ receiving' = FALSE /\ timer' = TRUE

\* sendCommand: of DATA_CON, with the flags `can` and the history h, once the types
\* `gone` have failed and `rest` is what the server has still to answer.  A fallback
\* changes _state and what is written, and neither the history nor isActiveDataConn.
SendDataCon(can, h, gone, rest) ==
    LET t == NextType(can) IN
    \E sent \in Fallbacks(t) :
        /\ history' = Push(t, h)
        /\ unanswered' = Append(rest, sent)
        /\ state' = IF sent = "QUIT" THEN "quit" ELSE sent
        /\ canUse' = IF t = "EPRT" /\ sent # t THEN can \ {t} ELSE can
        /\ active' = IF t = "QUIT" THEN active ELSE t \notin Passive
        /\ CloseDataStreams
        /\ failed' = failed \cup gone
        /\ repeated' = repeated \cup ({sent} \cap failed')

\* Seeded fault: the flag of the type that failed is not cleared.
FallBackToSame(t, h, rest) == SendDataCon(canUse, h, {t}, rest)

\* A type that does not work: forget it, try the next.
FallBack(t, h, rest) == SendDataCon(canUse \ {t}, h, {t}, rest)

-----------------------------------------------------------------------------
(* The command queue *)

Ask ==
    /\ transfers < MaxTransfers /\ transfers' = transfers + 1
    /\ \/ queue' = queue \o <<"DATA_CON", "RETR">>
       \/ "resumes" \in given /\ queue' = queue \o <<"DATA_CON", "REST", "RETR">>
    /\ UNCHANGED <<state, canUse, history, unanswered, streams, receiving, active,
                   timer, sessionVars, ghostVars>>

\* Seeded fault: the state is not waited for.
DispatchAnytime ==
    /\ queue # <<>>
    /\ queue' = Tail(queue)
    /\ \/ /\ Head(queue) = "DATA_CON"
          /\ SendDataCon(canUse, Push("DATA_CON", history), {}, unanswered)
       \/ /\ Head(queue) # "DATA_CON"
          /\ history' = Push(Head(queue), history)
          /\ unanswered' = Append(unanswered, Head(queue))
          /\ state' = IF Head(queue) = "REST" THEN "offset" ELSE "transfer"
          /\ UNCHANGED <<canUse, streams, receiving, active, ghostVars>>
    /\ UNCHANGED <<timer, transfers, sessionVars>>

Dispatch ==
    /\ queue # <<>> /\ state = "idle"
    /\ queue' = Tail(queue)
    /\ \/ /\ Head(queue) = "DATA_CON"
          /\ SendDataCon(canUse, Push("DATA_CON", history), {}, unanswered)
       \/ /\ Head(queue) # "DATA_CON"
          /\ history' = Push(Head(queue), history)
          /\ unanswered' = Append(unanswered, Head(queue))
          /\ state' = IF Head(queue) = "REST" THEN "offset" ELSE "transfer"
          /\ UNCHANGED <<canUse, streams, receiving, active, ghostVars>>
    /\ UNCHANGED <<timer, transfers, sessionVars>>

-----------------------------------------------------------------------------
(* Replies on the control connection, to the oldest unanswered command *)

Replies(t) == unanswered # <<>> /\ Head(unanswered) = t

\* 227 or 229, in the state it belongs to: the streams are opened, under a new timer
\* (the old one is invalidated).
EntersPassive ==
    \E t \in Passive :
        /\ Replies(t) /\ unanswered' = Tail(unanswered)
        /\ IF state = t
           THEN state' = "awaitingOpen" /\ OpenDataStreams
           ELSE UNCHANGED <<state, streams, receiving, timer>>
        /\ UNCHANGED <<queue, canUse, history, active, transfers, sessionVars, ghostVars>>

\* 200 makes the connection idle in every state: the server will connect to the
\* listening socket when the transfer command comes.
AcceptsActive ==
    \E t \in Type \ Passive :
        /\ Replies(t) /\ unanswered' = Tail(unanswered)
        /\ state' = "idle"
        /\ UNCHANGED <<queue, canUse, history, streams, receiving, active, timer,
                       transfers, sessionVars, ghostVars>>

\* 500, 501, 502 (and 522 to EPRT): the state's own type is forgotten.
Refuses ==
    \E t \in Type :
        /\ Replies(t)
        /\ IF state \in Type
           THEN FallBack(state, history, Tail(unanswered))
           ELSE /\ unanswered' = Tail(unanswered)
                /\ UNCHANGED <<state, canUse, history, streams, receiving, active,
                               ghostVars>>
        /\ UNCHANGED <<queue, timer, transfers, sessionVars>>

\* 350
OffsetReply ==
    /\ Replies("REST") /\ unanswered' = Tail(unanswered)
    /\ state' = IF state = "offset" THEN "idle" ELSE state
    /\ UNCHANGED <<queue, canUse, history, streams, receiving, active, timer,
                   transfers, sessionVars, ghostVars>>

\* 425 to the transfer command: the type is taken from the command sent before it,
\* and the transfer command is put back at the front of the queue.
CannotOpen425 ==
    /\ Replies("RETR") /\ state = "transfer"
    /\ IF history[2] \in Type
       THEN /\ FallBack(history[2], history, Tail(unanswered))
            /\ queue' = <<history[1]>> \o queue
       ELSE /\ unanswered' = Tail(unanswered)
            /\ UNCHANGED <<queue, state, canUse, history, streams, receiving, active,
                           ghostVars>>
    /\ UNCHANGED <<timer, transfers, sessionVars>>

\* The transfer takes place, its streams end and the 226 comes.
TransferEnds ==
    /\ Replies("RETR") /\ state = "transfer" /\ streams = "open"
    /\ unanswered' = Tail(unanswered)
    /\ state' = "idle" /\ CloseDataStreams
    /\ UNCHANGED <<queue, canUse, history, active, timer, transfers, sessionVars,
                   ghostVars>>

Goodbye ==
    /\ Replies("QUIT") /\ unanswered' = Tail(unanswered)
    /\ UNCHANGED <<queue, state, canUse, history, streams, receiving, active, timer,
                   transfers, sessionVars, ghostVars>>

-----------------------------------------------------------------------------
(* The data streams and their timer *)

\* The server connects to the listening socket (dealWithConnectionSocket).
ServerConnects ==
    /\ state = "transfer" /\ active /\ streams = "none" /\ Replies("RETR")
    /\ OpenDataStreams
    /\ UNCHANGED <<queue, state, canUse, history, unanswered, active, transfers,
                   sessionVars, ghostVars>>

\* Seeded fault: the connection is idle as soon as one stream has opened.
ReceiveStreamIdles ==
    /\ streams = "opening" /\ ~receiving
    /\ receiving' = TRUE /\ timer' = FALSE
    /\ state' = IF active THEN state ELSE "idle"
    /\ UNCHANGED <<queue, canUse, history, unanswered, streams, active, transfers,
                   sessionVars, ghostVars>>

\* Either stream's opening stops the timer; only the send stream's makes the
\* connection idle, and only in a passive mode.
ReceiveStreamOpens ==
    /\ streams = "opening" /\ ~receiving
    /\ receiving' = TRUE /\ timer' = FALSE
    /\ UNCHANGED <<queue, state, canUse, history, unanswered, streams, active,
                   transfers, sessionVars, ghostVars>>

\* Seeded fault: it is the active mode that becomes idle.
SendStreamOpensSwapped ==
    /\ streams = "opening"
    /\ streams' = "open" /\ timer' = FALSE
    /\ state' = IF active THEN "idle" ELSE state
    /\ UNCHANGED <<queue, canUse, history, unanswered, receiving, active, transfers,
                   sessionVars, ghostVars>>

SendStreamOpens ==
    /\ streams = "opening"
    /\ streams' = "open" /\ timer' = FALSE
    /\ state' = IF active THEN state ELSE "idle"
    /\ UNCHANGED <<queue, canUse, history, unanswered, receiving, active, transfers,
                   sessionVars, ghostVars>>

\* An error reported by the receive stream first.
ReceiveStreamError ==
    /\ streams = "opening" /\ ~receiving /\ state = "awaitingOpen"
    /\ history[1] \in Type
    /\ FallBack(history[1], history, unanswered)
    /\ UNCHANGED <<queue, timer, transfers, sessionVars>>

\* An error reported by the send stream first: after PASV the flag it clears is
\* canUseActive.
SendStreamError ==
    /\ "sendErrors" \in given
    /\ streams = "opening" /\ state = "awaitingOpen" /\ history[1] \in Type
    /\ SendDataCon(canUse \ {IF history[1] = "PASV" THEN "PORT" ELSE history[1]},
                   history, {history[1]}, unanswered)
    /\ UNCHANGED <<queue, timer, transfers, sessionVars>>

\* dataConnectionOpenTimedOut: goes by the newest command of the history, whatever
\* the state is.
OpenTimesOut ==
    /\ timer /\ timer' = FALSE
    /\ streams = "opening" \/ "slow" \in given
    /\ Len(unanswered) < MaxUnanswered
    /\ IF history[1] \in Type
       THEN FallBack(history[1], history, unanswered)
       ELSE /\ CloseDataStreams
            /\ UNCHANGED <<state, canUse, history, unanswered, active, ghostVars>>
    /\ UNCHANGED <<queue, transfers, sessionVars>>

ServerReplies ==
    \/ EntersPassive \/ AcceptsActive \/ Refuses \/ OffsetReply
    \/ CannotOpen425 \/ TransferEnds \/ Goodbye

StreamEvents ==
    \/ ServerConnects \/ ReceiveStreamOpens \/ SendStreamOpens
    \/ ReceiveStreamError \/ SendStreamError \/ OpenTimesOut

Next == Ask \/ Dispatch \/ ServerReplies \/ StreamEvents

Spec == Init /\ [][Next]_vars

\* The queue is checked whenever the connection becomes idle; the server answers
\* what it is sent; the timer fires unless it is stopped; streams of which one has
\* opened see the other open or fail.
FairSpec ==
    /\ Spec
    /\ WF_vars(Dispatch) /\ WF_vars(ServerReplies) /\ WF_vars(OpenTimesOut)
    /\ WF_vars(SendStreamOpens)

-----------------------------------------------------------------------------
(* Properties *)

\* Without send stream errors and failures to listen, a type that has failed is not
\* tried again: every other handler clears the flag of the type that failed.
NeverRetriesFailed ==
    preferred = "none" /\ given \cap {"sendErrors", "noSocket"} = {} => repeated = {}

\* A connection that could listen cannot wait for its data streams forever: they are
\* being opened, and either their timer runs or one of them has stopped it.
AwaitingOpenIsTimed ==
    state = "awaitingOpen" /\ "noSocket" \notin given
        => streams = "opening" /\ (timer \/ receiving)

\* Unless a reply outlasts the timer, the three sources of events never make two
\* commands overlap on the wire, and a reply always finds the connection in the state
\* of the command it answers.
OneReplyDue ==
    "slow" \notin given =>
        /\ Len(unanswered) <= 1
        /\ state \in Type => unanswered = <<state>>

\* A passive transfer runs over streams that are open, and only an active one waits
\* for the server to connect.
TransferIsConnected ==
    state = "transfer" /\ unanswered # <<>> => active \/ streams = "open"

\* The search always ends: every transfer asked for gets a data connection and takes
\* place, or every type has failed and the connection is given up.
SearchEnds ==
    queue # <<>> /\ given = {} /\ preferred = "none"
        ~> (queue = <<>> /\ state = "idle") \/ state = "quit"
=============================================================================
