---------------------------- MODULE CommandQueue ----------------------------
(***************************************************************************)
(* The command queue of CKAbstractQueueConnection, as a stream connection  *)
(* runs it: foreground threads append commands (queueCommand:), the single *)
(* background thread of CKConnectionThreadManager dispatches them          *)
(* (checkQueue) whenever the connection's state is the one the command at  *)
(* the head awaits, and the server's replies, read on that same thread,    *)
(* move the state on.                                                      *)
(*                                                                         *)
(* Every region under _queueLock is one step; a read or a write of _state, *)
(* which no lock protects, is a step of its own.  The thread manager is    *)
(* the FIFO `tasks` here; ThreadManager.tla models how it is built.        *)
(***************************************************************************)
EXTENDS Integers, Sequences, FiniteSets

CONSTANTS
    Thread,         \* the threads that call the connection, bg thread excluded
    State,          \* the connection states
    NotConnected, SentPassword, Idle, SentDisconnect,   \* the ones named here
    Cmd,            \* every CKConnectionCommand of a session
    UserCmd,        \* those the foreground queues
    LoginCmds,      \* the sequence a login puts at the front of the queue
    Await, Sent,    \* a command's awaitState and sentState
    Ready,          \* the state a positive reply to a command sets
    Kind,           \* "wire", "quit", "invocation" or "listing"
    Raising,        \* the invocations that may raise an exception
    Expand,         \* what a listing puts at the front of the queue
    HistorySize,    \* QUEUE_HISTORY_COMMAND_SIZE
    MaxForce,       \* bound: calls of forceDisconnect
    MaxBulk,        \* bound: calls of startBulkCommands, per thread
    NoCmd

Wire == {c \in Cmd : Kind[c] \in {"wire", "quit"}}

ASSUME StatesAssumption ==
    /\ {NotConnected, SentPassword, Idle, SentDisconnect} \subseteq State
    /\ NotConnected \notin {SentPassword, Idle, SentDisconnect}
    /\ SentPassword \notin {Idle, SentDisconnect}
    /\ Idle # SentDisconnect

\* What every operation of CKFTPConnection that builds a command respects: no
\* command awaits a state in which a reply is due, nor the state of a
\* connection that is not up.
ASSUME CommandsAssumption ==
    /\ NoCmd \notin Cmd
    /\ UserCmd \subseteq Cmd
    /\ Raising \subseteq {c \in Cmd : Kind[c] = "invocation"}
    /\ LoginCmds \in Seq(Cmd)
    /\ Await \in [Cmd -> State] /\ Sent \in [Cmd -> State]
    /\ Ready \in [Cmd -> State]
    /\ Kind \in [Cmd -> {"wire", "quit", "invocation", "listing"}]
    /\ Expand \in [Cmd -> Seq(Cmd)]
    /\ \A c \in Cmd : Await[c] \notin {NotConnected, SentPassword, SentDisconnect}
    /\ \A c \in Wire : Sent[c] # SentPassword
    /\ \A c \in Wire, d \in Cmd : Sent[c] # Await[d]

ASSUME BoundsAssumption ==
    HistorySize \in Nat \ {0} /\ MaxForce \in Nat /\ MaxBulk \in Nat

VARIABLES
    cmdQueue,       \* _commandQueue
    history,        \* _commandHistory, the newest first
    state,          \* _state
    checking,       \* myQueueFlags.isCheckingQueue
    checkCount,     \* _checkQueueCount
    inBulk,         \* _inBulk
    tasks,          \* what the thread manager has yet to invoke
    pc, cur,        \* background thread: place in checkQueue, and its `command`
    cpc, sawChecking, \* a caller's place in its call, its local isChecking
    open,           \* the control streams are open
    loggedIn,       \* _ftpFlags.loggedIn
    forces, bulks,  \* the counters MaxForce and MaxBulk bound
    awaiting,       \* the command the server has been sent and not answered
    submitted,      \* history variable: commands in the order they were queued
    log,            \* history variable: commands in the order they were sent
    dropped         \* history variable: commands discarded by a disconnect

queueVars  == <<cmdQueue, history, checking, checkCount>>
bgVars     == <<pc, cur>>
callerVars == <<cpc, sawChecking>>
boundVars  == <<forces, bulks>>
ghostVars  == <<submitted, log, dropped>>
vars == <<queueVars, state, inBulk, tasks, bgVars, callerVars, open, loggedIn,
          boundVars, awaiting, ghostVars>>

Elems(s) == {s[i] : i \in 1..Len(s)}

BgPlace == {"idle", "count", "peek", "test", "assign", "history", "dequeue",
            "send", "more", "again", "exit"}
CallerPlace == {"idle", "flag", "schedule", "force"}
Task == {"checkQueue", "threadedForceDisconnect"}

\* The queue, its flags and counter, the thread manager's list, the place of every
\* thread in its call and what is on the wire always have the values the code gives
\* them; _checkQueueCount, an unsigned, is never decremented below zero.
TypeOK ==
    /\ cmdQueue \in Seq(Cmd) /\ history \in Seq(Cmd)
    /\ Len(history) <= HistorySize
    /\ state \in State
    /\ checking \in BOOLEAN /\ checkCount \in Nat /\ inBulk \in BOOLEAN
    /\ tasks \in Seq(Task)
    /\ pc \in BgPlace /\ cur \in Cmd \cup {NoCmd}
    /\ cpc \in [Thread -> CallerPlace] /\ sawChecking \in [Thread -> BOOLEAN]
    /\ open \in BOOLEAN /\ loggedIn \in BOOLEAN
    /\ forces \in 0..MaxForce /\ bulks \in [Thread -> 0..MaxBulk]
    /\ awaiting \in Wire \cup {NoCmd}
    /\ submitted \in Seq(Cmd) /\ log \in Seq(Cmd) /\ dropped \in SUBSET Cmd

Init ==
    /\ cmdQueue = <<>> /\ history = <<>>
    /\ state = NotConnected
    /\ checking = FALSE /\ checkCount = 0 /\ inBulk = FALSE
    /\ tasks = <<>>
    /\ pc = "idle" /\ cur = NoCmd
    /\ cpc = [t \in Thread |-> "idle"] /\ sawChecking = [t \in Thread |-> FALSE]
    /\ open = TRUE /\ loggedIn = FALSE
    /\ forces = 0 /\ bulks = [t \in Thread |-> 0]
    /\ awaiting = NoCmd
    /\ submitted = <<>> /\ log = <<>> /\ dropped = {}

-----------------------------------------------------------------------------
(* Foreground threads *)

\* Seeded fault: the command is inserted at the front.
QueueCommandFirst(t, c) ==
    /\ cpc[t] = "idle"
    /\ c \in UserCmd /\ c \notin Elems(submitted)
    /\ cmdQueue' = <<c>> \o cmdQueue
    /\ submitted' = Append(submitted, c)
    /\ cpc' = [cpc EXCEPT ![t] = "flag"]
    /\ UNCHANGED <<history, checking, checkCount, state, inBulk, tasks, bgVars,
                   sawChecking, open, loggedIn, boundVars, awaiting, log, dropped>>

\* [_queueLock lock]; [_commandQueue addObject:command]; [_queueLock unlock]
QueueCommand(t, c) ==
    /\ cpc[t] = "idle"
    /\ c \in UserCmd /\ c \notin Elems(submitted)
    /\ cmdQueue' = Append(cmdQueue, c)
    /\ submitted' = Append(submitted, c)
    /\ cpc' = [cpc EXCEPT ![t] = "flag"]
    /\ UNCHANGED <<history, checking, checkCount, state, inBulk, tasks, bgVars,
                   sawChecking, open, loggedIn, boundVars, awaiting, log, dropped>>

\* Seeded fault: a command queued during a check is not counted.
ReadCheckingUncounted(t) ==
    /\ cpc[t] = "flag"
    /\ sawChecking' = [sawChecking EXCEPT ![t] = checking]
    /\ cpc' = [cpc EXCEPT ![t] = "schedule"]
    /\ UNCHANGED <<queueVars, state, inBulk, tasks, bgVars, open, loggedIn, boundVars,
                   awaiting, ghostVars>>

\* The second locked region: read isCheckingQueue, count the command if it is set.
ReadChecking(t) ==
    /\ cpc[t] = "flag"
    /\ sawChecking' = [sawChecking EXCEPT ![t] = checking]
    /\ checkCount' = IF checking THEN checkCount + 1 ELSE checkCount
    /\ cpc' = [cpc EXCEPT ![t] = "schedule"]
    /\ UNCHANGED <<cmdQueue, history, checking, state, inBulk, tasks, bgVars, open,
                   loggedIn, boundVars, awaiting, ghostVars>>

ScheduleCheck(t) ==
    /\ cpc[t] = "schedule"
    /\ tasks' = IF ~inBulk /\ ~sawChecking[t]
                THEN Append(tasks, "checkQueue") ELSE tasks
    /\ cpc' = [cpc EXCEPT ![t] = "idle"]
    /\ UNCHANGED <<queueVars, state, inBulk, bgVars, sawChecking, open, loggedIn,
                   boundVars, awaiting, ghostVars>>

StartBulkCommands(t) ==
    /\ cpc[t] = "idle" /\ bulks[t] < MaxBulk
    /\ inBulk' = TRUE
    /\ bulks' = [bulks EXCEPT ![t] = @ + 1]
    /\ UNCHANGED <<queueVars, state, tasks, bgVars, callerVars, open, loggedIn,
                   forces, awaiting, ghostVars>>

EndBulkCommands(t) ==
    /\ cpc[t] = "idle" /\ inBulk
    /\ inBulk' = FALSE
    /\ tasks' = Append(tasks, "checkQueue")
    /\ UNCHANGED <<queueVars, state, bgVars, callerVars, open, loggedIn, boundVars,
                   awaiting, ghostVars>>

\* forceDisconnect: the caller's thread writes _state (and setState: schedules a
\* check) before the background thread is asked for threadedForceDisconnect.
ForceDisconnect(t) ==
    /\ cpc[t] = "idle" /\ forces < MaxForce
    /\ state' = NotConnected
    /\ tasks' = Append(tasks, "checkQueue")
    /\ forces' = forces + 1
    /\ cpc' = [cpc EXCEPT ![t] = "force"]
    /\ UNCHANGED <<queueVars, inBulk, bgVars, sawChecking, open, loggedIn, bulks,
                   awaiting, ghostVars>>

ScheduleForceDisconnect(t) ==
    /\ cpc[t] = "force"
    /\ tasks' = Append(tasks, "threadedForceDisconnect")
    /\ cpc' = [cpc EXCEPT ![t] = "idle"]
    /\ UNCHANGED <<queueVars, state, inBulk, bgVars, sawChecking, open, loggedIn,
                   boundVars, awaiting, ghostVars>>

Caller(t) ==
    \/ \E c \in UserCmd : QueueCommand(t, c)
    \/ ReadChecking(t)
    \/ ScheduleCheck(t)
    \/ StartBulkCommands(t)
    \/ EndBulkCommands(t)
    \/ ForceDisconnect(t)
    \/ ScheduleForceDisconnect(t)

-----------------------------------------------------------------------------
(* Background thread: checkQueue *)

bgFrame == <<inBulk, callerVars, open, loggedIn, boundVars, submitted, dropped>>

EnterCheckQueue ==
    /\ pc = "idle" /\ tasks # <<>> /\ Head(tasks) = "checkQueue"
    /\ tasks' = Tail(tasks)
    /\ checking' = TRUE
    /\ pc' = "count"
    /\ UNCHANGED <<cmdQueue, history, checkCount, state, cur, awaiting, log, bgFrame>>

\* Seeded fault: a single command counts as none.
CountCommandsOffByOne ==
    /\ pc = "count"
    /\ pc' = IF Len(cmdQueue) <= 1 THEN "again" ELSE "peek"
    /\ UNCHANGED <<queueVars, state, tasks, cur, awaiting, log, bgFrame>>

\* nextTry = 0 != [self numberOfCommands]
CountCommands ==
    /\ pc = "count"
    /\ pc' = IF cmdQueue = <<>> THEN "again" ELSE "peek"
    /\ UNCHANGED <<queueVars, state, tasks, cur, awaiting, log, bgFrame>>

CurrentCommand ==
    /\ pc = "peek"
    /\ cur' = IF cmdQueue = <<>> THEN NoCmd ELSE Head(cmdQueue)
    /\ pc' = "test"
    /\ UNCHANGED <<queueVars, state, tasks, awaiting, log, bgFrame>>

\* Seeded fault: the state the command awaits is not looked at.
TestStateUntested ==
    /\ pc = "test"
    /\ pc' = IF cur # NoCmd THEN "assign" ELSE "again"
    /\ UNCHANGED <<queueVars, state, tasks, cur, awaiting, log, bgFrame>>

TestState ==
    /\ pc = "test"
    /\ IF cur # NoCmd /\ state = Await[cur]
       THEN pc' = "assign" /\ cur' = cur
       ELSE pc' = "again" /\ cur' = NoCmd
    /\ UNCHANGED <<queueVars, state, tasks, awaiting, log, bgFrame>>

\* Seeded fault: the state is left as it was.
AssignSentStateForgotten ==
    /\ pc = "assign"
    /\ pc' = "history"
    /\ UNCHANGED <<queueVars, state, tasks, cur, awaiting, log, bgFrame>>

AssignSentState ==
    /\ pc = "assign"
    /\ state' = Sent[cur]
    /\ pc' = "history"
    /\ UNCHANGED <<queueVars, tasks, cur, awaiting, log, bgFrame>>

PushHistory ==
    /\ pc = "history"
    /\ history' = IF Len(history) < HistorySize
                  THEN <<cur>> \o history
                  ELSE <<cur>> \o SubSeq(history, 1, HistorySize - 1)
    /\ pc' = "dequeue"
    /\ UNCHANGED <<cmdQueue, checking, checkCount, state, tasks, cur, awaiting, log,
                   bgFrame>>

DequeueCommand ==
    /\ pc = "dequeue"
    /\ cmdQueue' = IF cmdQueue = <<>> THEN <<>> ELSE Tail(cmdQueue)
    /\ pc' = "send"
    /\ UNCHANGED <<history, checking, checkCount, state, tasks, cur, awaiting, log,
                   bgFrame>>

\* sendCommand: of a string writes it to the server.  The invocation queued by
\* disconnect writes QUIT.
SendToServer ==
    /\ pc = "send" /\ cur \in Wire
    /\ awaiting' = cur
    /\ state' = IF Kind[cur] = "quit" THEN SentDisconnect ELSE state
    /\ log' = Append(log, cur)
    /\ pc' = "more" /\ cur' = NoCmd
    /\ UNCHANGED <<queueVars, tasks, bgFrame>>

\* sendCommand: of an invocation runs it here (turnOnRecursiveUpload, ...).
Invoke ==
    /\ pc = "send" /\ cur \in Cmd /\ Kind[cur] = "invocation"
    /\ log' = Append(log, cur)
    /\ pc' = "more" /\ cur' = NoCmd
    /\ UNCHANGED <<queueVars, state, tasks, awaiting, bgFrame>>

\* An exception out of the invocation unwinds checkQueue: the manager's
\* processTasks catches it, and isCheckingQueue stays as it was.
InvokeRaises ==
    /\ pc = "send" /\ cur \in Raising
    /\ log' = Append(log, cur)
    /\ pc' = "idle" /\ cur' = NoCmd
    /\ UNCHANGED <<queueVars, state, tasks, awaiting, bgFrame>>

\* threadedContentsOfDirectory: inserts its commands at the front, ends the bulk
\* (which schedules a check) and sets the state to idle (which schedules another).
InvokeListing ==
    /\ pc = "send" /\ cur \in Cmd /\ Kind[cur] = "listing"
    /\ cmdQueue' = Expand[cur] \o cmdQueue
    /\ inBulk' = FALSE
    /\ state' = Idle
    /\ tasks' = tasks \o <<"checkQueue", "checkQueue">>
    /\ log' = Append(log, cur)
    /\ pc' = "more" /\ cur' = NoCmd
    /\ UNCHANGED <<history, checking, checkCount, awaiting, callerVars, open,
                   loggedIn, boundVars, submitted, dropped>>

\* Those insertions do not take _queueLock.  When they overlap another thread's
\* addObject:, one of the two writes to the array can be lost.
InvokeListingRace(t) ==
    /\ pc = "send" /\ cur \in Cmd /\ Kind[cur] = "listing"
    /\ cpc[t] = "idle"
    /\ \E c \in UserCmd :
        /\ c \notin Elems(submitted)
        /\ submitted' = Append(submitted, c)
        /\ cmdQueue' \in {Expand[cur] \o cmdQueue, Append(cmdQueue, c)}
    /\ cpc' = [cpc EXCEPT ![t] = "flag"]
    /\ inBulk' = FALSE
    /\ state' = Idle
    /\ tasks' = tasks \o <<"checkQueue", "checkQueue">>
    /\ log' = Append(log, cur)
    /\ pc' = "more" /\ cur' = NoCmd
    /\ UNCHANGED <<history, checking, checkCount, awaiting, sawChecking, open,
                   loggedIn, boundVars, dropped>>

\* "go to next one, there's something else to do"
NextTry ==
    /\ pc = "more"
    /\ IF cmdQueue = <<>>
       THEN checking' = FALSE /\ pc' = "again"
       ELSE checking' = checking /\ pc' = "peek"
    /\ UNCHANGED <<cmdQueue, history, checkCount, state, tasks, cur, awaiting, log,
                   bgFrame>>

CheckAgain ==
    /\ pc = "again"
    /\ IF checkCount > 0
       THEN checkCount' = checkCount - 1 /\ pc' = "count"
       ELSE checkCount' = checkCount /\ pc' = "exit"
    /\ UNCHANGED <<cmdQueue, history, checking, state, tasks, cur, awaiting, log,
                   bgFrame>>

ExitCheckQueue ==
    /\ pc = "exit"
    /\ checking' = FALSE
    /\ pc' = "idle"
    /\ UNCHANGED <<cmdQueue, history, checkCount, state, tasks, cur, awaiting, log,
                   bgFrame>>

-----------------------------------------------------------------------------
(* Background thread: disconnecting *)

CloseAndEmpty ==
    /\ state' = NotConnected
    /\ open' = FALSE
    /\ awaiting' = NoCmd
    /\ dropped' = dropped \cup Elems(cmdQueue)
    /\ cmdQueue' = <<>>
    /\ UNCHANGED <<history, checking, checkCount, inBulk, bgVars, callerVars,
                   loggedIn, boundVars, submitted, log>>

ThreadedForceDisconnect ==
    /\ pc = "idle" /\ tasks # <<>> /\ Head(tasks) = "threadedForceDisconnect"
    /\ tasks' = Append(Tail(tasks), "checkQueue")
    /\ CloseAndEmpty

\* The server says goodbye to a QUIT: [super threadedDisconnect].
ReplyToQuit ==
    /\ pc = "idle" /\ open
    /\ awaiting # NoCmd /\ Kind[awaiting] = "quit" /\ state = SentDisconnect
    /\ tasks' = Append(tasks, "checkQueue")
    /\ CloseAndEmpty

-----------------------------------------------------------------------------
(* Background thread: what the server does *)

eventFrame == <<checking, checkCount, inBulk, bgVars, callerVars, boundVars,
                submitted, log, dropped, history>>

\* The greeting (220) of a connection that never logged in starts the login;
\* it ends in sendPassword.
Greeting ==
    /\ pc = "idle" /\ open /\ state = NotConnected /\ ~loggedIn
    /\ awaiting = NoCmd
    /\ state' = SentPassword
    /\ tasks' = Append(tasks, "checkQueue")
    /\ UNCHANGED <<cmdQueue, open, loggedIn, awaiting, eventFrame>>

\* Seeded fault: the login's commands go to the back.
LoginLast ==
    /\ pc = "idle" /\ open /\ state = SentPassword
    /\ loggedIn' = TRUE
    /\ cmdQueue' = cmdQueue \o LoginCmds
    /\ state' = Idle
    /\ tasks' = Append(tasks, "checkQueue")
    /\ UNCHANGED <<open, awaiting, eventFrame>>

\* The reply to the password (230) pushes PWD, SYST and FEAT in front of whatever
\* the client queued meanwhile, and only then becomes idle.
Login ==
    /\ pc = "idle" /\ open /\ state = SentPassword
    /\ loggedIn' = TRUE
    /\ cmdQueue' = LoginCmds \o cmdQueue
    /\ state' = Idle
    /\ tasks' = Append(tasks, "checkQueue")
    /\ UNCHANGED <<open, awaiting, eventFrame>>

\* A final reply: the handler of the command's state sets the next one.
Reply ==
    /\ pc = "idle" /\ open
    /\ awaiting # NoCmd /\ state = Sent[awaiting] /\ Kind[awaiting] = "wire"
    /\ awaiting' = NoCmd
    /\ \E s \in {Ready[awaiting], Idle} : state' = s
    /\ tasks' = Append(tasks, "checkQueue")
    /\ UNCHANGED <<cmdQueue, open, loggedIn, eventFrame>>

\* A reply that finds another state, because forceDisconnect wrote it: the codes
\* parseCommand: handles in any state make the connection idle, the others
\* change nothing.
LateReply ==
    /\ pc = "idle" /\ open
    /\ awaiting # NoCmd /\ state = NotConnected
    /\ awaiting' = NoCmd
    /\ \/ state' = Idle /\ tasks' = Append(tasks, "checkQueue")
       \/ UNCHANGED <<state, tasks>>
    /\ UNCHANGED <<cmdQueue, open, loggedIn, eventFrame>>

\* NSStreamEventEndEncountered
StreamEnd ==
    /\ pc = "idle" /\ open
    /\ open' = FALSE
    /\ awaiting' = NoCmd
    /\ state' = NotConnected
    /\ tasks' = Append(tasks, "checkQueue")
    /\ UNCHANGED <<cmdQueue, loggedIn, eventFrame>>

CheckQueue ==
    \/ EnterCheckQueue \/ CountCommands \/ CurrentCommand \/ TestState
    \/ AssignSentState \/ PushHistory \/ DequeueCommand
    \/ SendToServer \/ Invoke \/ InvokeRaises \/ InvokeListing
    \/ (\E t \in Thread : InvokeListingRace(t))
    \/ NextTry \/ CheckAgain \/ ExitCheckQueue

Server == ReplyToQuit \/ Greeting \/ Login \/ Reply \/ LateReply \/ StreamEnd

Next ==
    \/ \E t \in Thread : Caller(t)
    \/ CheckQueue
    \/ ThreadedForceDisconnect
    \/ Server

Spec == Init /\ [][Next]_vars

\* The background thread runs its run loop: it invokes what it was asked to, and
\* finishes what it invokes.  Callers finish the calls they make.
Fairness ==
    /\ WF_vars(CheckQueue \/ ThreadedForceDisconnect)
    /\ \A t \in Thread : WF_vars(ReadChecking(t) \/ ScheduleCheck(t)
                                    \/ ScheduleForceDisconnect(t))

FairSpec == Spec /\ Fairness

-----------------------------------------------------------------------------
(* Properties *)

\* From the moment checkQueue peeks a command (currentCommand) until it removes
\* one (dequeueCommand removes whatever is at index 0), in another locked region,
\* the command it acts on stays at the head, whatever the other threads do.
PeekedStaysHead ==
    pc \in {"test", "assign", "history", "dequeue"} /\ cur # NoCmd
        => cmdQueue # <<>> /\ Head(cmdQueue) = cur

\* checkQueue is about to write to the server only when every command written
\* before has been answered or given up, even if a caller's forceDisconnect
\* writes _state between the test of the state and its assignment.
OneOutstanding ==
    pc \in {"assign", "history", "dequeue", "send"} => awaiting = NoCmd

\* While a reply is due, the head of the history is the command it answers: the
\* reply handlers take lastCommand for it.
LastCommandIsAwaited ==
    awaiting # NoCmd => history # <<>> /\ Head(history) = awaiting

CurIsCommand == pc \in {"assign", "history", "dequeue", "send"} => cur \in Cmd

\* The properties above are not inductive by themselves.  What else holds in each
\* place of checkQueue: the command it works on is one, it has the connection's state
\* to itself but for a forceDisconnect, its history entry is the newest; and while a
\* reply is due the state is none that a command awaits.
DispatchInv ==
    /\ TypeOK /\ CurIsCommand
    /\ PeekedStaysHead /\ OneOutstanding /\ LastCommandIsAwaited
    /\ pc \in {"history", "dequeue", "send"} => state \in {Sent[cur], NotConnected}
    /\ pc \in {"dequeue", "send"} => history # <<>> /\ Head(history) = cur
    /\ awaiting # NoCmd => state \in {Sent[awaiting], NotConnected, SentDisconnect}

HeadIsReady == cmdQueue # <<>> /\ state = Await[Head(cmdQueue)]

Quiescent ==
    /\ pc = "idle" /\ tasks = <<>> /\ ~inBulk
    /\ \A t \in Thread : cpc[t] = "idle"

\* A command that could be dispatched is never forgotten unless the counter (or,
\* after an exception, the flag) that should have caused another look is still
\* set: those are the only two ways to lose the wakeup.
StrandedIsCounted ==
    Quiescent /\ HeadIsReady => checkCount > 0 \/ checking

\* What the comment in checkQueue promises of the counter: a command queued while
\* checkQueue runs makes it look again, so that none is left ready and unsent.
NothingStranded == ~(Quiescent /\ HeadIsReady)

\* No command is lost: whatever a client queued is in the queue, in flight, was
\* sent, or was discarded by a disconnect.
NoCommandLost ==
    Elems(submitted) \subseteq
        Elems(cmdQueue) \cup Elems(log) \cup dropped \cup {cur}

\* The threads, flags and the counter implement a plain queue: a command counts
\* as issued when sendCommand: has it.
Fifo == INSTANCE CommandFifo WITH
    pending  <- IF pc = "send" THEN <<cur>> \o cmdQueue ELSE cmdQueue,
    inFlight <- awaiting,
    queued   <- submitted,
    issued   <- log

\* Every behaviour of checkQueue and its callers, listings aside, is one of
\* CommandFifo.
ImplementsFifo == Fifo!Spec

\* A state change of the connection is never ignored: once the connection is
\* ready for the command at the head and the thread manager holds a check, the
\* connection leaves that situation (sends it, or is disconnected).
WakeupIsHeeded ==
    \A c \in Cmd :
        (cmdQueue # <<>> /\ Head(cmdQueue) = c /\ HeadIsReady
            /\ \E i \in 1..Len(tasks) : tasks[i] = "checkQueue")
        ~> ~(cmdQueue # <<>> /\ Head(cmdQueue) = c /\ HeadIsReady)
=============================================================================
