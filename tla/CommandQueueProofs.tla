------------------------- MODULE CommandQueueProofs -------------------------
(***************************************************************************)
(* What CommandQueue.tla states of every set of threads, commands and      *)
(* states: the dispatcher never acts on a command another thread has moved *)
(* from under it, never writes a command while a reply is due, a reply     *)
(* always finds its command at the head of the history, and a command that *)
(* is ready is not forgotten.                                              *)
(*                                                                         *)
(* DispatchInv is the inductive invariant.  Its first two conjuncts (the   *)
(* types) are inductive by themselves; the others are proved from them.    *)
(* WakeupInv, for the last claim, is inductive beside it.                  *)
(*                                                                         *)
(* A connection that lists no directory also implements CommandFifo, and   *)
(* loses no command: both rest on DispatchInv.                             *)
(***************************************************************************)
EXTENDS CommandQueue, TLAPS

Typed == TypeOK /\ CurIsCommand

\* DispatchInv but for the types.
Dispatching ==
    /\ PeekedStaysHead /\ OneOutstanding /\ LastCommandIsAwaited
    /\ pc \in {"history", "dequeue", "send"} => state \in {Sent[cur], NotConnected}
    /\ pc \in {"dequeue", "send"} => history # <<>> /\ Head(history) = cur
    /\ awaiting # NoCmd => state \in {Sent[awaiting], NotConnected, SentDisconnect}

\* DispatchInv says what its two parts say.
LEMMA DispatchInvParts == DispatchInv <=> Typed /\ Dispatching
BY DEF DispatchInv, Typed, Dispatching

-----------------------------------------------------------------------------
(* Types *)

\* The connection starts well typed.
LEMMA InitTyped == Init => Typed
<1> SUFFICES ASSUME Init PROVE Typed OBVIOUS
<1> USE DEF Init
<1>1. cmdQueue \in Seq(Cmd) /\ history \in Seq(Cmd) /\ tasks \in Seq(Task)
    OBVIOUS
<1>2. Len(history) <= HistorySize BY BoundsAssumption
<1>3. state \in State BY StatesAssumption
<1>4. pc \in BgPlace BY DEF BgPlace
<1>5. cpc \in [Thread -> CallerPlace] BY DEF CallerPlace
<1>6. forces \in 0..MaxForce /\ bulks \in [Thread -> 0..MaxBulk]
    BY BoundsAssumption
<1>7. submitted \in Seq(Cmd) /\ log \in Seq(Cmd) /\ dropped \in SUBSET Cmd
    OBVIOUS
<1> QED
    BY <1>1, <1>2, <1>3, <1>4, <1>5, <1>6, <1>7 DEF Typed, TypeOK, CurIsCommand

\* The two invocations the thread manager is asked for are tasks.
LEMMA TaskNames == "checkQueue" \in Task /\ "threadedForceDisconnect" \in Task
BY DEF Task

\* What a disconnect discards are commands.
LEMMA ElemsType == ASSUME NEW S, NEW s \in Seq(S) PROVE Elems(s) \subseteq S
BY DEF Elems

\* pushCommandOnHistoryQueue: keeps the history within its size, newest first.
LEMMA PushedHistory ==
    ASSUME NEW h \in Seq(Cmd), Len(h) <= HistorySize, NEW c \in Cmd,
           NEW g, g = IF Len(h) < HistorySize THEN <<c>> \o h
                      ELSE <<c>> \o SubSeq(h, 1, HistorySize - 1)
    PROVE  g \in Seq(Cmd) /\ Len(g) <= HistorySize
<1>1. CASE Len(h) < HistorySize
    BY <1>1, BoundsAssumption
<1>2. CASE ~(Len(h) < HistorySize)
    <2>1. Len(h) = HistorySize BY <1>2, BoundsAssumption
    <2>2. SubSeq(h, 1, HistorySize - 1) \in Seq(Cmd) BY <2>1, BoundsAssumption
    <2>3. Len(SubSeq(h, 1, HistorySize - 1)) = HistorySize - 1
        BY <2>1, BoundsAssumption
    <2> QED BY <1>2, <2>2, <2>3, BoundsAssumption
<1> QED BY <1>1, <1>2

\* A foreground thread's step keeps the types.
LEMMA CallerTyped ==
    ASSUME Typed, NEW t \in Thread, Caller(t)
    PROVE  Typed'
<1> USE DEF Typed, CurIsCommand, queueVars, bgVars, callerVars, boundVars, ghostVars
<1>1. ASSUME NEW c \in UserCmd, QueueCommand(t, c) PROVE Typed'
    BY <1>1, CommandsAssumption DEF QueueCommand, TypeOK, CallerPlace
<1>2. CASE ReadChecking(t)
    BY <1>2 DEF ReadChecking, TypeOK, CallerPlace
<1>3. CASE ScheduleCheck(t)
    BY <1>3, TaskNames DEF ScheduleCheck, TypeOK, CallerPlace
<1>4. CASE StartBulkCommands(t)
    BY <1>4, BoundsAssumption DEF StartBulkCommands, TypeOK
<1>5. CASE EndBulkCommands(t)
    <2>1. tasks' \in Seq(Task) BY <1>5, TaskNames DEF EndBulkCommands, TypeOK
    <2> QED BY <1>5, <2>1 DEF EndBulkCommands, TypeOK
<1>6. CASE ForceDisconnect(t)
    <2>1. tasks' \in Seq(Task) BY <1>6, TaskNames DEF ForceDisconnect, TypeOK
    <2>2. state' \in State BY <1>6, StatesAssumption DEF ForceDisconnect
    <2>3. forces' \in 0..MaxForce
        BY <1>6, BoundsAssumption DEF ForceDisconnect, TypeOK
    <2>4. cpc' \in [Thread -> CallerPlace]
        BY <1>6 DEF ForceDisconnect, TypeOK, CallerPlace
    <2> QED BY <1>6, <2>1, <2>2, <2>3, <2>4 DEF ForceDisconnect, TypeOK
<1>7. CASE ScheduleForceDisconnect(t)
    BY <1>7, TaskNames DEF ScheduleForceDisconnect, TypeOK, CallerPlace
<1> QED BY <1>1, <1>2, <1>3, <1>4, <1>5, <1>6, <1>7 DEF Caller

\* A step of checkQueue keeps the types.
LEMMA CheckQueueTyped ==
    ASSUME Typed, CheckQueue
    PROVE  Typed'
<1> USE DEF Typed, CurIsCommand, queueVars, bgVars, callerVars, boundVars, ghostVars,
            bgFrame
<1>1. CASE EnterCheckQueue BY <1>1 DEF EnterCheckQueue, TypeOK, BgPlace
<1>2. CASE CountCommands BY <1>2 DEF CountCommands, TypeOK, BgPlace
<1>3. CASE CurrentCommand BY <1>3 DEF CurrentCommand, TypeOK, BgPlace
<1>4. CASE TestState BY <1>4 DEF TestState, TypeOK, BgPlace
<1>5. CASE AssignSentState
    BY <1>5, CommandsAssumption DEF AssignSentState, TypeOK, BgPlace
<1>6. CASE PushHistory
    <2>1. history' \in Seq(Cmd) /\ Len(history') <= HistorySize
        BY <1>6, PushedHistory DEF PushHistory, TypeOK
    <2>2. pc' \in BgPlace BY <1>6 DEF PushHistory, BgPlace
    <2> QED BY <1>6, <2>1, <2>2 DEF PushHistory, TypeOK
<1>7. CASE DequeueCommand BY <1>7 DEF DequeueCommand, TypeOK, BgPlace
<1>8. CASE SendToServer
    BY <1>8, StatesAssumption, CommandsAssumption
    DEF SendToServer, TypeOK, BgPlace, Wire
<1>9. CASE Invoke BY <1>9 DEF Invoke, TypeOK, BgPlace
<1>10. CASE InvokeRaises BY <1>10 DEF InvokeRaises, TypeOK, BgPlace
<1>11. CASE InvokeListing
    <2>1. cmdQueue' \in Seq(Cmd) /\ log' \in Seq(Cmd)
        BY <1>11, CommandsAssumption DEF InvokeListing, TypeOK
    <2>2. tasks' \in Seq(Task)
        BY <1>11, TaskNames DEF InvokeListing, TypeOK
    <2>3. state' \in State BY <1>11, StatesAssumption DEF InvokeListing
    <2>4. pc' \in BgPlace BY <1>11 DEF InvokeListing, BgPlace
    <2> QED BY <1>11, <2>1, <2>2, <2>3, <2>4 DEF InvokeListing, TypeOK
<1>12. ASSUME NEW t \in Thread, InvokeListingRace(t) PROVE Typed'
    <2>1. PICK c \in UserCmd :
            /\ submitted' = Append(submitted, c)
            /\ cmdQueue' \in {Expand[cur] \o cmdQueue, Append(cmdQueue, c)}
        BY <1>12 DEF InvokeListingRace
    <2>2. cmdQueue' \in Seq(Cmd) /\ submitted' \in Seq(Cmd) /\ log' \in Seq(Cmd)
        <3>1. c \in Cmd /\ cur \in Cmd /\ Expand[cur] \in Seq(Cmd)
            BY <1>12, CommandsAssumption DEF InvokeListingRace
        <3>2. Expand[cur] \o cmdQueue \in Seq(Cmd) /\ Append(cmdQueue, c) \in Seq(Cmd)
            BY <3>1 DEF TypeOK
        <3>3. Append(submitted, c) \in Seq(Cmd) /\ Append(log, cur) \in Seq(Cmd)
            BY <3>1 DEF TypeOK
        <3>4. log' = Append(log, cur) BY <1>12 DEF InvokeListingRace
        <3> QED BY <2>1, <3>2, <3>3, <3>4
    <2>3. tasks' \in Seq(Task)
        BY <1>12, TaskNames DEF InvokeListingRace, TypeOK
    <2>4. state' \in State BY <1>12, StatesAssumption DEF InvokeListingRace
    <2>5. pc' \in BgPlace BY <1>12 DEF InvokeListingRace, BgPlace
    <2>6. cpc' \in [Thread -> CallerPlace]
        BY <1>12 DEF InvokeListingRace, TypeOK, CallerPlace
    <2> QED
        BY <1>12, <2>2, <2>3, <2>4, <2>5, <2>6 DEF InvokeListingRace, TypeOK
<1>13. CASE NextTry BY <1>13 DEF NextTry, TypeOK, BgPlace
<1>14. CASE CheckAgain BY <1>14 DEF CheckAgain, TypeOK, BgPlace
<1>15. CASE ExitCheckQueue BY <1>15 DEF ExitCheckQueue, TypeOK, BgPlace
<1> QED
    BY <1>1, <1>2, <1>3, <1>4, <1>5, <1>6, <1>7, <1>8, <1>9, <1>10, <1>11, <1>12,
       <1>13, <1>14, <1>15 DEF CheckQueue

\* Closing the connection and emptying its queue keeps the types.
LEMMA ClosingTyped ==
    ASSUME Typed, CloseAndEmpty, tasks' \in Seq(Task)
    PROVE  Typed'
<1> USE DEF CloseAndEmpty, bgVars, callerVars, boundVars
<1>1. cmdQueue' \in Seq(Cmd) OBVIOUS
<1>2. state' \in State BY StatesAssumption
<1>3. dropped' \in SUBSET Cmd BY ElemsType DEF Typed, TypeOK
<1>4. awaiting' \in Wire \cup {NoCmd} /\ open' \in BOOLEAN OBVIOUS
<1> QED BY <1>1, <1>2, <1>3, <1>4 DEF Typed, TypeOK, CurIsCommand

\* What the server sends, and a disconnect, keep the types.
LEMMA ServerTyped ==
    ASSUME Typed, ThreadedForceDisconnect \/ Server
    PROVE  Typed'
<1> USE DEF Typed, CurIsCommand, bgVars, callerVars, boundVars, eventFrame
<1>1. CASE ThreadedForceDisconnect
    <2>1. Tail(tasks) \in Seq(Task) BY <1>1 DEF ThreadedForceDisconnect, TypeOK
    <2>2. tasks' \in Seq(Task) BY <1>1, <2>1, TaskNames DEF ThreadedForceDisconnect
    <2> QED BY <1>1, <2>2, ClosingTyped DEF ThreadedForceDisconnect
<1>2. CASE ReplyToQuit
    <2>1. tasks' \in Seq(Task) BY <1>2, TaskNames DEF ReplyToQuit, TypeOK
    <2> QED BY <1>2, <2>1, ClosingTyped DEF ReplyToQuit
<1>3. CASE Greeting
    BY <1>3, StatesAssumption, TaskNames DEF Greeting, TypeOK
<1>4. CASE Login
    <2>1. cmdQueue' \in Seq(Cmd) BY <1>4, CommandsAssumption DEF Login, TypeOK
    <2>2. tasks' \in Seq(Task) BY <1>4, TaskNames DEF Login, TypeOK
    <2>3. state' \in State BY <1>4, StatesAssumption DEF Login
    <2> QED BY <1>4, <2>1, <2>2, <2>3 DEF Login, TypeOK
<1>5. CASE Reply
    <2>1. tasks' \in Seq(Task) BY <1>5, TaskNames DEF Reply, TypeOK
    <2>2. state' \in State
        BY <1>5, StatesAssumption, CommandsAssumption DEF Reply, TypeOK, Wire
    <2> QED BY <1>5, <2>1, <2>2 DEF Reply, TypeOK
<1>6. CASE LateReply
    <2>1. tasks' \in Seq(Task)
        <3>1. Append(tasks, "checkQueue") \in Seq(Task) BY TaskNames DEF TypeOK
        <3>2. tasks' \in {tasks, Append(tasks, "checkQueue")} BY <1>6 DEF LateReply
        <3> QED BY <3>1, <3>2 DEF TypeOK
    <2>2. state' \in State BY <1>6, StatesAssumption DEF LateReply, TypeOK
    <2> QED BY <1>6, <2>1, <2>2 DEF LateReply, TypeOK
<1>7. CASE StreamEnd
    <2>1. tasks' \in Seq(Task) BY <1>7, TaskNames DEF StreamEnd, TypeOK
    <2>2. state' \in State BY <1>7, StatesAssumption DEF StreamEnd
    <2> QED BY <1>7, <2>1, <2>2 DEF StreamEnd, TypeOK
<1> QED BY <1>1, <1>2, <1>3, <1>4, <1>5, <1>6, <1>7 DEF Server

-----------------------------------------------------------------------------
(* Dispatching *)

\* Nothing is queued and no reply is due when the connection starts.
LEMMA InitDispatching == Init => Dispatching
BY DEF Init, Dispatching, PeekedStaysHead, OneOutstanding, LastCommandIsAwaited

\* What the lemmas below take from the types.
LEMMA QueueTypes ==
    ASSUME Typed
    PROVE  /\ cmdQueue \in Seq(Cmd) /\ history \in Seq(Cmd)
           /\ awaiting \in Wire \cup {NoCmd}
           /\ CurIsCommand
BY DEF Typed, TypeOK

\* A foreground thread only appends to the queue, and the one state it writes is
\* NotConnected: in whatever place of checkQueue its step falls, the dispatcher is
\* not disturbed.
LEMMA CallerDispatching ==
    ASSUME Typed, Dispatching, NEW t \in Thread, Caller(t)
    PROVE  Dispatching'
<1> USE QueueTypes DEF Dispatching, PeekedStaysHead, OneOutstanding,
        LastCommandIsAwaited, queueVars, bgVars, callerVars, boundVars, ghostVars
<1>1. ASSUME NEW c \in UserCmd, QueueCommand(t, c) PROVE Dispatching'
    BY <1>1, CommandsAssumption DEF QueueCommand
<1>2. CASE ReadChecking(t) BY <1>2 DEF ReadChecking
<1>3. CASE ScheduleCheck(t) BY <1>3 DEF ScheduleCheck
<1>4. CASE StartBulkCommands(t) BY <1>4 DEF StartBulkCommands
<1>5. CASE EndBulkCommands(t) BY <1>5 DEF EndBulkCommands
<1>6. CASE ForceDisconnect(t) BY <1>6 DEF ForceDisconnect
<1>7. CASE ScheduleForceDisconnect(t) BY <1>7 DEF ScheduleForceDisconnect
<1> QED BY <1>1, <1>2, <1>3, <1>4, <1>5, <1>6, <1>7 DEF Caller

\* checkQueue itself.  TestState is where a reply that is due would be overtaken: the
\* state it finds is one a command awaits, and DispatchInv says no reply is due then.
LEMMA CheckQueueDispatching ==
    ASSUME Typed, Dispatching, CheckQueue
    PROVE  Dispatching'
<1> USE QueueTypes DEF Dispatching, PeekedStaysHead, OneOutstanding,
        LastCommandIsAwaited, CurIsCommand, queueVars, bgVars, callerVars, boundVars,
        bgFrame
<1>1. CASE EnterCheckQueue BY <1>1 DEF EnterCheckQueue
<1>2. CASE CountCommands BY <1>2 DEF CountCommands
<1>3. CASE CurrentCommand BY <1>3, CommandsAssumption DEF CurrentCommand
<1>4. CASE TestState BY <1>4, CommandsAssumption DEF TestState, Wire
<1>5. CASE AssignSentState BY <1>5 DEF AssignSentState
<1>6. CASE PushHistory BY <1>6, BoundsAssumption DEF PushHistory
<1>7. CASE DequeueCommand BY <1>7 DEF DequeueCommand
<1>8. CASE SendToServer BY <1>8, CommandsAssumption DEF SendToServer, Wire
<1>9. CASE Invoke BY <1>9 DEF Invoke
<1>10. CASE InvokeRaises BY <1>10 DEF InvokeRaises
<1>11. CASE InvokeListing BY <1>11 DEF InvokeListing
<1>12. ASSUME NEW t \in Thread, InvokeListingRace(t) PROVE Dispatching'
    BY <1>12 DEF InvokeListingRace
<1>13. CASE NextTry BY <1>13 DEF NextTry
<1>14. CASE CheckAgain BY <1>14 DEF CheckAgain
<1>15. CASE ExitCheckQueue BY <1>15 DEF ExitCheckQueue
<1> QED
    BY <1>1, <1>2, <1>3, <1>4, <1>5, <1>6, <1>7, <1>8, <1>9, <1>10, <1>11, <1>12,
       <1>13, <1>14, <1>15 DEF CheckQueue

\* The server's events and a disconnect come between two calls of checkQueue.
LEMMA ServerDispatching ==
    ASSUME Typed, Dispatching, ThreadedForceDisconnect \/ Server
    PROVE  Dispatching'
<1> USE QueueTypes DEF Dispatching, PeekedStaysHead, OneOutstanding,
        LastCommandIsAwaited, bgVars, callerVars, boundVars, eventFrame
<1>1. CASE ThreadedForceDisconnect
    BY <1>1 DEF ThreadedForceDisconnect, CloseAndEmpty
<1>2. CASE ReplyToQuit BY <1>2 DEF ReplyToQuit, CloseAndEmpty
<1>3. CASE Greeting BY <1>3 DEF Greeting
<1>4. CASE Login
    BY <1>4, StatesAssumption, CommandsAssumption DEF Login, Wire
<1>5. CASE Reply BY <1>5 DEF Reply
<1>6. CASE LateReply BY <1>6 DEF LateReply
<1>7. CASE StreamEnd BY <1>7 DEF StreamEnd
<1> QED BY <1>1, <1>2, <1>3, <1>4, <1>5, <1>6, <1>7 DEF Server

-----------------------------------------------------------------------------
(* The theorems *)

\* Every step of the connection, of whatever thread, keeps the invariant.
LEMMA DispatchStep == DispatchInv /\ [Next]_vars => DispatchInv'
<1> SUFFICES ASSUME Typed, Dispatching, [Next]_vars PROVE Typed' /\ Dispatching'
    BY DispatchInvParts, PTL
<1>1. ASSUME NEW t \in Thread, Caller(t) PROVE Typed' /\ Dispatching'
    BY <1>1, CallerTyped, CallerDispatching
<1>2. CASE CheckQueue BY <1>2, CheckQueueTyped, CheckQueueDispatching
<1>3. CASE ThreadedForceDisconnect \/ Server
    BY <1>3, ServerTyped, ServerDispatching
<1>4. CASE UNCHANGED vars
    BY <1>4 DEF vars, queueVars, bgVars, callerVars, boundVars, ghostVars, Typed,
        TypeOK, CurIsCommand, Dispatching, PeekedStaysHead, OneOutstanding,
        LastCommandIsAwaited
<1> QED BY <1>1, <1>2, <1>3, <1>4 DEF Next

\* In every reachable state of every session, DispatchInv holds.
THEOREM DispatchCorrect == Spec => []DispatchInv
<1>1. Init => DispatchInv BY InitTyped, InitDispatching, DispatchInvParts
<1> QED BY <1>1, DispatchStep, PTL DEF Spec

\* The variables of a connection always have the values their code expects.
THEOREM TypeCorrect == Spec => []TypeOK
<1>1. DispatchInv => TypeOK BY DEF DispatchInv
<1> QED BY <1>1, DispatchCorrect, PTL

\* The command checkQueue peeks at stays at the head until it has removed it, with
\* any number of threads queueing commands.
THEOREM PeekedCorrect == Spec => []PeekedStaysHead
<1>1. DispatchInv => PeekedStaysHead BY DEF DispatchInv
<1> QED BY <1>1, DispatchCorrect, PTL

\* checkQueue writes no command while a reply is due, although callers write the
\* state it goes by.
THEOREM OneOutstandingCorrect == Spec => []OneOutstanding
<1>1. DispatchInv => OneOutstanding BY DEF DispatchInv
<1> QED BY <1>1, DispatchCorrect, PTL

\* A reply finds its own command as lastCommand.
THEOREM LastCommandCorrect == Spec => []LastCommandIsAwaited
<1>1. DispatchInv => LastCommandIsAwaited BY DEF DispatchInv
<1> QED BY <1>1, DispatchCorrect, PTL

-----------------------------------------------------------------------------
(* The wakeup *)

\* A thread in the middle of a call that will ask for another check.
WillAsk(t) ==
    \/ cpc[t] \in {"flag", "force"}
    \/ cpc[t] = "schedule" /\ ~sawChecking[t]

\* checkQueue will be invoked: a bulk ends with a check, and so does every task.
CheckToCome == inBulk \/ tasks # <<>> \/ \E t \in Thread : WillAsk(t)

\* A command that is ready is not forgotten.  While checkQueue is on its way to the head
\* of the queue nothing else need be known, but that it will find one there; once it has
\* seen that nothing is ready, whatever has become so was counted, or another check
\* will come.  isCheckingQueue is cleared before checkQueue is left only when the queue
\* is empty: what is queued from then on asks for a check of its own.
WakeupInv ==
    /\ pc = "peek" => cmdQueue # <<>>
    /\ pc = "test" => cur # NoCmd
    /\ pc # "idle" /\ ~checking => cmdQueue = <<>> \/ CheckToCome
    /\ pc \in {"again", "exit"} /\ HeadIsReady => CheckToCome \/ checkCount > 0
    /\ pc = "idle" /\ HeadIsReady => CheckToCome \/ checkCount > 0 \/ checking

\* A foreground thread: a command queued makes the head ready, and the thread is in the
\* middle of its call; when it leaves it, the command was counted or a check asked for.
LEMMA CallerWakeup ==
    ASSUME Typed, WakeupInv, NEW t \in Thread, Caller(t)
    PROVE  WakeupInv'
<1>1. /\ cpc \in [Thread -> CallerPlace] /\ sawChecking \in [Thread -> BOOLEAN]
      /\ cmdQueue \in Seq(Cmd) /\ tasks \in Seq(Task) /\ checkCount \in Nat
    BY DEF Typed, TypeOK
<1>2. ASSUME NEW c \in UserCmd, QueueCommand(t, c) PROVE WakeupInv'
    <2>1. WillAsk(t)' BY <1>1, <1>2 DEF QueueCommand, WillAsk
    <2>2. CheckToCome' BY <2>1 DEF CheckToCome
    <2>3. pc' = pc /\ cur' = cur BY <1>2 DEF QueueCommand, bgVars
    <2>4. c \in Cmd BY CommandsAssumption
    <2>5. cmdQueue' = Append(cmdQueue, c) BY <1>2 DEF QueueCommand
    <2>6. cmdQueue' # <<>> BY <1>1, <2>4, <2>5
    <2> QED BY <2>2, <2>3, <2>6 DEF WakeupInv
<1>3. CASE ReadChecking(t)
    <2>1. /\ cpc' = [cpc EXCEPT ![t] = "schedule"]
          /\ sawChecking' = [sawChecking EXCEPT ![t] = checking]
          /\ checkCount' = IF checking THEN checkCount + 1 ELSE checkCount
          /\ UNCHANGED <<cmdQueue, checking, state, inBulk, tasks, pc, cur>>
        BY <1>3 DEF ReadChecking, bgVars
    <2>2. ~checking => CheckToCome'
        BY <1>1, <2>1 DEF CheckToCome, WillAsk
    <2>3. checking => checkCount' > 0 BY <1>1, <2>1
    <2> QED BY <2>1, <2>2, <2>3 DEF WakeupInv, HeadIsReady
<1>4. CASE ScheduleCheck(t)
    <2>1. /\ cpc' = [cpc EXCEPT ![t] = "idle"]
          /\ tasks' = IF ~inBulk /\ ~sawChecking[t] THEN Append(tasks, "checkQueue") ELSE tasks
          /\ cpc[t] = "schedule"
          /\ UNCHANGED <<cmdQueue, checking, checkCount, sawChecking, state, inBulk, pc, cur>>
        BY <1>4 DEF ScheduleCheck, bgVars, queueVars
    <2>2. CheckToCome => CheckToCome'
        <3>1. CASE inBulk BY <2>1, <3>1 DEF CheckToCome
        <3>2. CASE tasks # <<>> BY <1>1, <2>1, <3>2 DEF CheckToCome
        <3>3. ASSUME NEW u \in Thread, WillAsk(u), ~inBulk PROVE CheckToCome'
            <4>1. CASE u = t
                <5>1. ~sawChecking[t] BY <2>1, <3>3, <4>1 DEF WillAsk
                <5>2. tasks' # <<>> BY <1>1, <2>1, <3>3, <5>1
                <5> QED BY <5>2 DEF CheckToCome
            <4>2. CASE u # t
                <5>1. WillAsk(u)' BY <1>1, <2>1, <3>3, <4>2 DEF WillAsk
                <5> QED BY <5>1 DEF CheckToCome
            <4> QED BY <4>1, <4>2
        <3> QED BY <3>1, <3>2, <3>3 DEF CheckToCome
    <2> QED BY <2>1, <2>2 DEF WakeupInv, HeadIsReady
<1>5. CASE StartBulkCommands(t)
    <2>1. CheckToCome' BY <1>5 DEF StartBulkCommands, CheckToCome
    <2>2. UNCHANGED <<pc, cur, cmdQueue>> BY <1>5 DEF StartBulkCommands, bgVars, queueVars
    <2> QED BY <2>1, <2>2 DEF WakeupInv
<1>6. CASE EndBulkCommands(t)
    <2>1. CheckToCome' BY <1>1, <1>6 DEF EndBulkCommands, CheckToCome
    <2>2. UNCHANGED <<pc, cur, cmdQueue>> BY <1>6 DEF EndBulkCommands, bgVars, queueVars
    <2> QED BY <2>1, <2>2 DEF WakeupInv
<1>7. CASE ForceDisconnect(t)
    <2>1. CheckToCome' BY <1>1, <1>7 DEF ForceDisconnect, CheckToCome
    <2>2. UNCHANGED <<pc, cur, cmdQueue>> BY <1>7 DEF ForceDisconnect, bgVars, queueVars
    <2> QED BY <2>1, <2>2 DEF WakeupInv
<1>8. CASE ScheduleForceDisconnect(t)
    <2>1. tasks' # <<>>
        <3>1. tasks' = Append(tasks, "threadedForceDisconnect")
            BY <1>8 DEF ScheduleForceDisconnect
        <3> QED BY <1>1, <3>1
    <2>3. CheckToCome' BY <2>1 DEF CheckToCome
    <2>2. UNCHANGED <<pc, cur, cmdQueue>>
        BY <1>8 DEF ScheduleForceDisconnect, bgVars, queueVars
    <2> QED BY <2>2, <2>3 DEF WakeupInv
<1> QED BY <1>2, <1>3, <1>4, <1>5, <1>6, <1>7, <1>8 DEF Caller

\* checkQueue: the command it peeks at is the head, so that after TestState the head is
\* not ready when it goes on to look at the counter.
LEMMA CheckQueueWakeup ==
    ASSUME Typed, PeekedStaysHead, WakeupInv, CheckQueue
    PROVE  WakeupInv'
<1>1. cmdQueue \in Seq(Cmd) /\ tasks \in Seq(Task) /\ checkCount \in Nat
    BY DEF Typed, TypeOK
<1> USE DEF WakeupInv
<1>2. CASE EnterCheckQueue BY <1>2 DEF EnterCheckQueue
<1>3. ASSUME UNCHANGED <<tasks, inBulk, cpc, sawChecking>>
      PROVE  CheckToCome <=> CheckToCome'
    BY <1>3 DEF CheckToCome, WillAsk
<1> USE DEF bgFrame, callerVars
<1>4. CASE CountCommands BY <1>3, <1>4 DEF CountCommands, queueVars, HeadIsReady
<1>5. CASE CurrentCommand
    <2>1. cmdQueue # <<>> /\ Head(cmdQueue) \in Cmd BY <1>1, <1>5 DEF CurrentCommand
    <2> QED BY <1>3, <1>5, <2>1, CommandsAssumption DEF CurrentCommand, queueVars
<1>6. CASE TestState
    <2>1. cur # NoCmd /\ cmdQueue # <<>> /\ Head(cmdQueue) = cur
        BY <1>6 DEF TestState, PeekedStaysHead
    <2>2. pc' = "assign" \/ (pc' = "again" /\ ~HeadIsReady')
        BY <1>6, <2>1 DEF TestState, queueVars, HeadIsReady
    <2> QED BY <1>3, <1>6, <2>2 DEF TestState, queueVars
<1>7. CASE AssignSentState BY <1>3, <1>7 DEF AssignSentState, queueVars
<1>8. CASE PushHistory BY <1>3, <1>8 DEF PushHistory
<1>9. CASE DequeueCommand
    <2>1. cmdQueue' = <<>> \/ cmdQueue # <<>> BY <1>9 DEF DequeueCommand
    <2> QED BY <1>3, <1>9, <2>1 DEF DequeueCommand
<1>10. CASE SendToServer BY <1>3, <1>10 DEF SendToServer, queueVars
<1>11. CASE Invoke BY <1>3, <1>11 DEF Invoke, queueVars
<1>12. CASE InvokeRaises
    <2>1. ~checking => ~HeadIsReady' \/ CheckToCome'
        BY <1>3, <1>12 DEF InvokeRaises, queueVars, HeadIsReady
    <2> QED BY <1>12, <2>1 DEF InvokeRaises, queueVars
<1>13. CASE InvokeListing
    <2>1. tasks' # <<>> BY <1>1, <1>13 DEF InvokeListing
    <2>2. CheckToCome' BY <2>1 DEF CheckToCome
    <2> QED BY <1>13, <2>2 DEF InvokeListing
<1>14. ASSUME NEW t \in Thread, InvokeListingRace(t) PROVE WakeupInv'
    <2>1. tasks' # <<>> BY <1>1, <1>14 DEF InvokeListingRace
    <2>2. CheckToCome' BY <2>1 DEF CheckToCome
    <2> QED BY <1>14, <2>2 DEF InvokeListingRace
<1>15. CASE NextTry BY <1>3, <1>15 DEF NextTry, HeadIsReady
<1>16. CASE CheckAgain
    <2>1. pc' = "count" \/ (pc' = "exit" /\ UNCHANGED checkCount)
        BY <1>16 DEF CheckAgain
    <2> QED BY <1>3, <1>16, <2>1 DEF CheckAgain, HeadIsReady
<1>17. CASE ExitCheckQueue BY <1>3, <1>17 DEF ExitCheckQueue, HeadIsReady
<1> QED
    BY <1>2, <1>4, <1>5, <1>6, <1>7, <1>8, <1>9, <1>10, <1>11, <1>12, <1>13, <1>14,
       <1>15, <1>16, <1>17 DEF CheckQueue

\* What the server says, and a disconnect, ask for a check whenever they change the
\* state or the queue.
LEMMA ServerWakeup ==
    ASSUME Typed, WakeupInv, ThreadedForceDisconnect \/ Server
    PROVE  WakeupInv'
<1>1. tasks \in Seq(Task) BY DEF Typed, TypeOK
<1>2. ASSUME tasks' = Append(tasks, "checkQueue") PROVE tasks' # <<>> BY <1>1, <1>2
<1>3. ASSUME pc' = "idle", tasks' # <<>> PROVE WakeupInv'
    BY <1>3 DEF WakeupInv, CheckToCome
<1> USE DEF eventFrame, bgVars, CloseAndEmpty
<1>4. CASE ThreadedForceDisconnect
    <2>1. tasks' # <<>> BY <1>1, <1>4 DEF ThreadedForceDisconnect
    <2> QED BY <1>3, <1>4, <2>1 DEF ThreadedForceDisconnect
<1>5. CASE ReplyToQuit BY <1>2, <1>3, <1>5 DEF ReplyToQuit
<1>6. CASE Greeting BY <1>2, <1>3, <1>6 DEF Greeting
<1>7. CASE Login BY <1>2, <1>3, <1>7 DEF Login
<1>8. CASE Reply BY <1>2, <1>3, <1>8 DEF Reply
<1>9. CASE LateReply
    <2>1. CASE tasks' = Append(tasks, "checkQueue")
        BY <1>2, <1>3, <1>9, <2>1 DEF LateReply
    <2>2. CASE UNCHANGED <<state, tasks>>
        BY <1>9, <2>2 DEF LateReply, WakeupInv, CheckToCome, WillAsk, HeadIsReady,
                          callerVars
    <2> QED BY <1>9, <2>1, <2>2 DEF LateReply
<1>10. CASE StreamEnd BY <1>2, <1>3, <1>10 DEF StreamEnd
<1> QED BY <1>4, <1>5, <1>6, <1>7, <1>8, <1>9, <1>10 DEF Server

\* Whatever the threads, the commands and the exceptions are: a command that is ready
\* when all is at rest was counted in _checkQueueCount, or an exception has left
\* isCheckingQueue set.
THEOREM StrandedCorrect == Spec => []StrandedIsCounted
<1>1. Init => WakeupInv BY DEF Init, WakeupInv, HeadIsReady
<1>2. DispatchInv /\ WakeupInv /\ [Next]_vars => WakeupInv'
    <2> SUFFICES ASSUME Typed, PeekedStaysHead, WakeupInv, [Next]_vars PROVE WakeupInv'
        BY DEF DispatchInv, Typed
    <2>1. ASSUME NEW t \in Thread, Caller(t) PROVE WakeupInv'
        BY <2>1, CallerWakeup
    <2>2. CASE CheckQueue BY <2>2, CheckQueueWakeup
    <2>3. CASE ThreadedForceDisconnect \/ Server BY <2>3, ServerWakeup
    <2>4. CASE UNCHANGED vars
        BY <2>4 DEF vars, queueVars, bgVars, callerVars, WakeupInv, CheckToCome, WillAsk,
                    HeadIsReady
    <2> QED BY <2>1, <2>2, <2>3, <2>4 DEF Next
<1>3. WakeupInv => StrandedIsCounted
    BY DEF WakeupInv, StrandedIsCounted, Quiescent, CheckToCome, WillAsk
<1> QED BY <1>1, <1>2, <1>3, DispatchCorrect, PTL DEF Spec

-----------------------------------------------------------------------------
(* A connection that lists no directory. A listing inserts its commands without the
   queue's lock: with one, neither of the two theorems is true. *)

\* No command of the session is a listing.
NoListing == \A c \in Cmd : Kind[c] # "listing"

-----------------------------------------------------------------------------
(* The refinement *)

\* What CommandFifo calls pending: a command taken off the queue is, until it is sent.
Pending == IF pc = "send" THEN <<cur>> \o cmdQueue ELSE cmdQueue

\* The abstract step, or none.
FifoStep == [Fifo!Next]_(Fifo!fifoVars)

\* A step that leaves all of the queue's four parts alone is a stutter of it.
LEMMA Stutters ==
    ASSUME UNCHANGED <<Pending, awaiting, submitted, log>>
    PROVE  FifoStep
BY DEF FifoStep, Fifo!fifoVars, Pending

\* The front of a sequence and the rest make up the sequence.
LEMMA HeadAndTail ==
    ASSUME NEW S, NEW s \in Seq(S), s # <<>>
    PROVE  <<Head(s)>> \o Tail(s) = s
OBVIOUS

\* A sequence may grow behind while its head is held back.
LEMMA AppendAfterHead ==
    ASSUME NEW S, NEW s \in Seq(S), NEW a \in S, NEW b \in S
    PROVE  <<a>> \o Append(s, b) = Append(<<a>> \o s, b)
OBVIOUS

\* Putting a head in front is undone by taking it off.
LEMMA HeadOfPending ==
    ASSUME NEW S, NEW s \in Seq(S), NEW a \in S
    PROVE  /\ <<a>> \o s # <<>> /\ Head(<<a>> \o s) = a /\ Tail(<<a>> \o s) = s
OBVIOUS

\* Callers submit, or do what the queue does not see.
LEMMA CallerFifo ==
    ASSUME DispatchInv, NEW t \in Thread, Caller(t)
    PROVE  FifoStep
<1> USE DispatchInvParts, QueueTypes
<1>1. ASSUME NEW c \in UserCmd, QueueCommand(t, c) PROVE FifoStep
    <2>1. c \in Cmd /\ cmdQueue \in Seq(Cmd) BY CommandsAssumption
    <2>2. cmdQueue' = Append(cmdQueue, c) /\ UNCHANGED <<pc, cur, awaiting, log>>
        BY <1>1 DEF QueueCommand, bgVars
    <2>3. Pending' = Append(Pending, c)
        <3>1. CASE pc = "send"
            <4>1. cur \in Cmd BY <3>1 DEF DispatchInv, CurIsCommand
            <4> QED BY <2>1, <2>2, <3>1, <4>1, AppendAfterHead DEF Pending
        <3>2. CASE pc # "send" BY <2>2, <3>2 DEF Pending
        <3> QED BY <3>1, <3>2
    <2>4. c \notin Elems(submitted) /\ submitted' = Append(submitted, c)
        BY <1>1 DEF QueueCommand
    <2>5. Fifo!Submit(c)
        BY <2>2, <2>3, <2>4 DEF Fifo!Submit, Pending, Elems
    <2> QED BY <2>5 DEF FifoStep, Fifo!Next
<1>2. CASE ~ \E c \in UserCmd : QueueCommand(t, c)
    <2>1. UNCHANGED <<cmdQueue, pc, cur, awaiting, submitted, log>>
        BY <1>2
        DEF Caller, ReadChecking, ScheduleCheck, StartBulkCommands, EndBulkCommands,
            ForceDisconnect, ScheduleForceDisconnect, queueVars, bgVars, ghostVars
    <2> QED BY <2>1, Stutters DEF Pending
<1> QED BY <1>1, <1>2

\* checkQueue issues a command when it sends or invokes it; taking it off the queue
\* changes nothing of what is pending.
LEMMA CheckQueueFifo ==
    ASSUME NoListing, DispatchInv, CheckQueue
    PROVE  FifoStep
<1> USE DispatchInvParts, QueueTypes
<1>1. CASE DequeueCommand
    <2>1. cur \in Cmd /\ cmdQueue # <<>> /\ Head(cmdQueue) = cur
        BY <1>1, CommandsAssumption
        DEF DequeueCommand, DispatchInv, CurIsCommand, PeekedStaysHead
    <2>2. pc = "dequeue" /\ pc' = "send" /\ cur' = cur /\ cmdQueue' = Tail(cmdQueue)
        BY <1>1, <2>1 DEF DequeueCommand
    <2>3. <<Head(cmdQueue)>> \o Tail(cmdQueue) = cmdQueue BY <2>1, HeadAndTail
    <2>4. UNCHANGED Pending BY <2>1, <2>2, <2>3 DEF Pending
    <2> QED BY <1>1, <2>4, Stutters DEF DequeueCommand, bgFrame
<1>2. CASE SendToServer \/ Invoke \/ InvokeRaises
    <2>1. pc = "send" /\ cur \in Cmd /\ awaiting = NoCmd
        BY <1>2, CommandsAssumption
        DEF SendToServer, Invoke, InvokeRaises, DispatchInv, CurIsCommand,
            OneOutstanding
    <2>2. /\ pc' # "send" /\ cmdQueue' = cmdQueue /\ log' = Append(log, cur)
          /\ submitted' = submitted
        BY <1>2 DEF SendToServer, Invoke, InvokeRaises, queueVars, bgFrame
    <2>3. awaiting' = IF cur \in Wire THEN cur ELSE NoCmd
        BY <1>2, <2>1, CommandsAssumption
        DEF SendToServer, Invoke, InvokeRaises, Wire
    <2>4. Pending # <<>> /\ Head(Pending) = cur /\ Tail(Pending) = Pending'
        BY <2>1, <2>2, HeadOfPending DEF Pending
    <2>5. Fifo!Issue BY <2>1, <2>2, <2>3, <2>4 DEF Fifo!Issue, Pending
    <2> QED BY <2>5 DEF FifoStep, Fifo!Next
<1>3. CASE InvokeListing \/ \E t \in Thread : InvokeListingRace(t)
    BY <1>3 DEF InvokeListing, InvokeListingRace, NoListing
<1>4. CASE \/ EnterCheckQueue \/ CountCommands \/ CurrentCommand \/ TestState
           \/ AssignSentState \/ PushHistory \/ NextTry \/ CheckAgain \/ ExitCheckQueue
    <2>1. /\ pc # "send" /\ pc' # "send"
          /\ UNCHANGED <<cmdQueue, awaiting, submitted, log>>
        BY <1>4 DEF EnterCheckQueue, CountCommands, CurrentCommand, TestState,
           AssignSentState, PushHistory, NextTry, CheckAgain, ExitCheckQueue,
           queueVars, bgFrame
    <2> QED BY <2>1, Stutters DEF Pending
<1> QED BY <1>1, <1>2, <1>3, <1>4 DEF CheckQueue

\* The server answers, logs the client in, or goes away.
LEMMA ServerFifo ==
    ASSUME DispatchInv, ThreadedForceDisconnect \/ Server
    PROVE  FifoStep
<1>1. pc = "idle" /\ pc' = pc
    BY DEF Server, ThreadedForceDisconnect, ReplyToQuit, CloseAndEmpty, Greeting, Login,
       Reply, LateReply, StreamEnd, eventFrame, bgVars
<1>2. Pending = cmdQueue /\ Pending' = cmdQueue' BY <1>1 DEF Pending
<1>3. CASE ThreadedForceDisconnect \/ ReplyToQuit
    <2>1. Fifo!Discard
        BY <1>1, <1>3
        DEF ThreadedForceDisconnect, ReplyToQuit, CloseAndEmpty, Fifo!Discard
    <2> QED BY <2>1 DEF FifoStep, Fifo!Next
<1>4. CASE Login
    <2>1. awaiting = NoCmd
        BY <1>4, CommandsAssumption, StatesAssumption
        DEF Login, DispatchInv, TypeOK, Wire
    <2>2. Fifo!InsertLogin
        BY <1>1, <1>4, <2>1 DEF Login, eventFrame, Fifo!InsertLogin
    <2> QED BY <2>2 DEF FifoStep, Fifo!Next
<1>5. CASE Greeting \/ Reply \/ LateReply \/ StreamEnd
    <2>1. /\ UNCHANGED <<cmdQueue, submitted, log>>
          /\ awaiting' = awaiting \/ awaiting' = NoCmd
        BY <1>5 DEF Greeting, Reply, LateReply, StreamEnd, eventFrame
    <2>2. CASE awaiting' = awaiting BY <1>2, <2>1, <2>2, Stutters
    <2>3. CASE awaiting' # awaiting
        <3>1. Fifo!Answer BY <1>1, <2>1, <2>3 DEF Fifo!Answer
        <3> QED BY <3>1 DEF FifoStep, Fifo!Next
    <2> QED BY <2>2, <2>3
<1> QED BY <1>3, <1>4, <1>5 DEF Server

\* Whatever the threads do, a connection that lists no directory is a plain queue:
\* commands are issued in the order they were queued, each once, one at a time.
THEOREM FifoImplemented == NoListing => (Spec => ImplementsFifo)
<1> SUFFICES ASSUME NoListing PROVE Spec => ImplementsFifo OBVIOUS
<1>1. Init => Fifo!Init BY DEF Init, Fifo!Init
<1>2. DispatchInv /\ [Next]_vars => FifoStep
    <2> SUFFICES ASSUME DispatchInv, [Next]_vars PROVE FifoStep OBVIOUS
    <2>1. CASE UNCHANGED vars
        BY <2>1, Stutters DEF vars, queueVars, bgVars, ghostVars, Pending
    <2>2. ASSUME NEW t \in Thread, Caller(t) PROVE FifoStep BY <2>2, CallerFifo
    <2>3. CASE CheckQueue BY <2>3, CheckQueueFifo
    <2>4. CASE ThreadedForceDisconnect \/ Server BY <2>4, ServerFifo
    <2> QED BY <2>1, <2>2, <2>3, <2>4 DEF Next
<1> QED
    BY <1>1, <1>2, DispatchCorrect, PTL
    DEF Spec, ImplementsFifo, Fifo!Spec, FifoStep

-----------------------------------------------------------------------------
(* No command is lost *)

\* Outside of the places where checkQueue works on a command it holds none.
HoldsNone == pc \notin {"test", "assign", "history", "dequeue", "send"} => cur = NoCmd

Accounted == NoCommandLost /\ HoldsNone

\* The elements of the sequences that the queue's operations build.
LEMMA ElemsOfAppend ==
    ASSUME NEW S, NEW s \in Seq(S), NEW c \in S
    PROVE  Elems(Append(s, c)) = Elems(s) \cup {c}
<1>1. ASSUME NEW x \in Elems(Append(s, c)) PROVE x \in Elems(s) \cup {c}
    BY <1>1 DEF Elems
<1>2. ASSUME NEW x \in Elems(s) PROVE x \in Elems(Append(s, c))
    <2>1. PICK i \in 1..Len(s) : x = s[i] BY <1>2 DEF Elems
    <2>2. i \in 1..Len(Append(s, c)) /\ Append(s, c)[i] = x BY <2>1
    <2> QED BY <2>2 DEF Elems
<1>3. c \in Elems(Append(s, c))
    <2>1. Len(s) + 1 \in 1..Len(Append(s, c)) /\ Append(s, c)[Len(s) + 1] = c OBVIOUS
    <2> QED BY <2>1 DEF Elems
<1> QED BY <1>1, <1>2, <1>3

\* Taking the head off loses the head only.
LEMMA ElemsOfTail ==
    ASSUME NEW S, NEW s \in Seq(S), s # <<>>
    PROVE  Elems(s) \subseteq {Head(s)} \cup Elems(Tail(s))
<1> SUFFICES ASSUME NEW i \in 1..Len(s), i # 1 PROVE s[i] \in Elems(Tail(s))
    BY DEF Elems
<1>1. i - 1 \in 1..Len(Tail(s)) /\ Tail(s)[i - 1] = s[i] OBVIOUS
<1> QED BY <1>1 DEF Elems

\* Putting something in front loses nothing.
LEMMA ElemsAfter ==
    ASSUME NEW S, NEW s \in Seq(S), NEW t \in Seq(S)
    PROVE  Elems(s) \subseteq Elems(t \o s)
<1> SUFFICES ASSUME NEW i \in 1..Len(s) PROVE s[i] \in Elems(t \o s)
    BY DEF Elems
<1>1. Len(t) + i \in 1..Len(t \o s) /\ (t \o s)[Len(t) + i] = s[i] OBVIOUS
<1> QED BY <1>1 DEF Elems

\* The head is an element.
LEMMA HeadIsElem ==
    ASSUME NEW S, NEW s \in Seq(S), s # <<>>
    PROVE  Head(s) \in Elems(s)
<1>1. 1 \in 1..Len(s) /\ s[1] = Head(s) OBVIOUS
<1> QED BY <1>1 DEF Elems

\* What the lemmas below take from the types.
LEMMA AccountTypes ==
    ASSUME DispatchInv
    PROVE  /\ cmdQueue \in Seq(Cmd) /\ submitted \in Seq(Cmd) /\ log \in Seq(Cmd)
           /\ Elems(submitted) \subseteq Cmd /\ NoCmd \notin Cmd
BY CommandsAssumption, ElemsType DEF DispatchInv, TypeOK

\* A client's command is in the queue when it has been queued.
LEMMA CallerAccounted ==
    ASSUME DispatchInv, Accounted, NEW t \in Thread, Caller(t)
    PROVE  Accounted'
<1>1. ASSUME NEW c \in UserCmd, QueueCommand(t, c) PROVE Accounted'
    <2>1. c \in Cmd BY CommandsAssumption
    <2>2. /\ cmdQueue' = Append(cmdQueue, c) /\ submitted' = Append(submitted, c)
          /\ UNCHANGED <<pc, cur, log, dropped>>
        BY <1>1 DEF QueueCommand, bgVars
    <2>3. /\ Elems(cmdQueue') = Elems(cmdQueue) \cup {c}
          /\ Elems(submitted') = Elems(submitted) \cup {c}
        BY <2>1, <2>2, AccountTypes, ElemsOfAppend
    <2>4. Elems(log)' = Elems(log) BY <2>2 DEF Elems
    <2> QED BY <2>2, <2>3, <2>4 DEF Accounted, NoCommandLost, HoldsNone, Elems
<1>2. CASE ~ \E c \in UserCmd : QueueCommand(t, c)
    <2>1. UNCHANGED <<cmdQueue, pc, cur, log, submitted, dropped>>
        BY <1>2 DEF Caller, ReadChecking, ScheduleCheck, StartBulkCommands,
           EndBulkCommands, ForceDisconnect, ScheduleForceDisconnect, queueVars,
           bgVars, ghostVars
    <2> QED BY <2>1 DEF Accounted, NoCommandLost, HoldsNone, Elems
<1> QED BY <1>1, <1>2

\* checkQueue holds a command from its removal until it is in the log.
LEMMA CheckQueueAccounted ==
    ASSUME NoListing, DispatchInv, Accounted, CheckQueue
    PROVE  Accounted'
<1> USE AccountTypes
<1>1. CASE DequeueCommand
    <2>1. /\ cmdQueue # <<>> /\ Head(cmdQueue) = cur /\ cmdQueue' = Tail(cmdQueue)
          /\ pc' = "send" /\ UNCHANGED <<cur, log, submitted, dropped>>
        BY <1>1, CommandsAssumption
        DEF DequeueCommand, bgFrame, DispatchInv, CurIsCommand, PeekedStaysHead
    <2>2. Elems(cmdQueue) \subseteq {cur} \cup Elems(cmdQueue')
        BY <2>1, ElemsOfTail
    <2>3. Elems(log)' = Elems(log) /\ Elems(submitted)' = Elems(submitted)
        BY <2>1 DEF Elems
    <2> QED BY <2>1, <2>2, <2>3 DEF Accounted, NoCommandLost, HoldsNone, Elems
<1>2. CASE SendToServer \/ Invoke \/ InvokeRaises
    <2>1. /\ cur \in Cmd /\ cur' = NoCmd /\ log' = Append(log, cur)
          /\ UNCHANGED <<cmdQueue, submitted, dropped>>
        BY <1>2
        DEF SendToServer, Invoke, InvokeRaises, queueVars, bgFrame, Wire,
            DispatchInv, CurIsCommand
    <2>2. Elems(log') = Elems(log) \cup {cur} BY <2>1, ElemsOfAppend
    <2>3. Elems(cmdQueue)' = Elems(cmdQueue) /\ Elems(submitted)' = Elems(submitted)
        BY <2>1 DEF Elems
    <2> QED BY <2>1, <2>2, <2>3 DEF Accounted, NoCommandLost, HoldsNone, Elems
<1>3. CASE InvokeListing \/ \E t \in Thread : InvokeListingRace(t)
    BY <1>3 DEF InvokeListing, InvokeListingRace, NoListing
<1>4. CASE CurrentCommand
    BY <1>4
    DEF CurrentCommand, bgFrame, queueVars, Accounted, NoCommandLost, HoldsNone, Elems
<1>5. CASE TestState
    <2>1. cur = NoCmd \/ cur \in Elems(cmdQueue)
        BY <1>5, HeadIsElem DEF TestState, DispatchInv, PeekedStaysHead
    <2>2. UNCHANGED <<Elems(cmdQueue), Elems(log), Elems(submitted), dropped>>
        BY <1>5 DEF TestState, bgFrame, queueVars, Elems
    <2>3. HoldsNone' /\ (cur' = cur \/ cur' = NoCmd) BY <1>5 DEF TestState, HoldsNone
    <2> QED BY <2>1, <2>2, <2>3 DEF Accounted, NoCommandLost
<1>6. CASE \/ EnterCheckQueue \/ CountCommands \/ AssignSentState \/ PushHistory
           \/ NextTry \/ CheckAgain \/ ExitCheckQueue
    <2>1. UNCHANGED <<cmdQueue, cur, log, submitted, dropped>> /\ HoldsNone'
        BY <1>6 DEF EnterCheckQueue, CountCommands, AssignSentState, PushHistory,
           NextTry, CheckAgain, ExitCheckQueue, queueVars, bgFrame, HoldsNone, Accounted
    <2>2. UNCHANGED <<Elems(cmdQueue), Elems(log), Elems(submitted)>>
        BY <2>1 DEF Elems
    <2> QED BY <2>1, <2>2 DEF Accounted, NoCommandLost
<1> QED BY <1>1, <1>2, <1>3, <1>4, <1>5, <1>6 DEF CheckQueue

\* Only a disconnect empties the queue, and it notes what was there.
LEMMA ServerAccounted ==
    ASSUME DispatchInv, Accounted, ThreadedForceDisconnect \/ Server
    PROVE  Accounted'
<1>1. CASE ThreadedForceDisconnect \/ ReplyToQuit
    <2>1. /\ dropped' = dropped \cup Elems(cmdQueue)
          /\ UNCHANGED <<pc, cur, log, submitted>>
        BY <1>1 DEF ThreadedForceDisconnect, ReplyToQuit, CloseAndEmpty, bgVars
    <2>2. Elems(log)' = Elems(log) /\ Elems(submitted)' = Elems(submitted)
        BY <2>1 DEF Elems
    <2> QED BY <2>1, <2>2 DEF Accounted, NoCommandLost, HoldsNone
<1>2. CASE Login
    <2>1. /\ cmdQueue' = LoginCmds \o cmdQueue
          /\ UNCHANGED <<pc, cur, log, submitted, dropped>>
        BY <1>2 DEF Login, eventFrame, bgVars
    <2>2. Elems(cmdQueue) \subseteq Elems(cmdQueue')
        BY <2>1, AccountTypes, CommandsAssumption, ElemsAfter
    <2>3. Elems(log)' = Elems(log) /\ Elems(submitted)' = Elems(submitted)
        BY <2>1 DEF Elems
    <2> QED BY <2>1, <2>2, <2>3 DEF Accounted, NoCommandLost, HoldsNone, Elems
<1>3. CASE Greeting \/ Reply \/ LateReply \/ StreamEnd
    <2>1. UNCHANGED <<cmdQueue, pc, cur, log, submitted, dropped>>
        BY <1>3 DEF Greeting, Reply, LateReply, StreamEnd, eventFrame, bgVars
    <2> QED BY <2>1 DEF Accounted, NoCommandLost, HoldsNone, Elems
<1> QED BY <1>1, <1>2, <1>3 DEF Server

\* No command of a connection that lists no directory is ever lost, however many
\* threads queue.
THEOREM NoCommandLostCorrect == NoListing => (Spec => []NoCommandLost)
<1> SUFFICES ASSUME NoListing PROVE Spec => []NoCommandLost OBVIOUS
<1>1. Init => Accounted
    BY DEF Init, Accounted, NoCommandLost, HoldsNone, Elems
<1>2. DispatchInv /\ Accounted /\ [Next]_vars => Accounted'
    <2> SUFFICES ASSUME DispatchInv, Accounted, [Next]_vars PROVE Accounted' OBVIOUS
    <2>1. CASE UNCHANGED vars
        BY <2>1 DEF vars, queueVars, bgVars, ghostVars, Accounted, NoCommandLost,
           HoldsNone, Elems
    <2>2. ASSUME NEW t \in Thread, Caller(t) PROVE Accounted' BY <2>2, CallerAccounted
    <2>3. CASE CheckQueue BY <2>3, CheckQueueAccounted
    <2>4. CASE ThreadedForceDisconnect \/ Server BY <2>4, ServerAccounted
    <2> QED BY <2>1, <2>2, <2>3, <2>4 DEF Next
<1>3. Accounted => NoCommandLost BY DEF Accounted
<1> QED BY <1>1, <1>2, <1>3, DispatchCorrect, PTL DEF Spec
=============================================================================
