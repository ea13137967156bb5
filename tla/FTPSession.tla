----------------------------- MODULE FTPSession -----------------------------
(***************************************************************************)
(* The operations of CKFTPConnection and the replies they get.  An         *)
(* operation leaves a record in a queue of its own (_fileDeletes,          *)
(* _fileRenames, _filePermissions, _downloadQueue, _uploadQueue) and one   *)
(* or more commands in _commandQueue; a reply handler knows nothing but    *)
(* the connection's state, and takes the head of the record queue for the  *)
(* operation the server answers.  That is right only as long as the six    *)
(* queues stay in step, and this module is about that.                     *)
(*                                                                         *)
(* Dispatching is one step here: CommandQueue.tla models its threads.  How *)
(* a data connection is set up is in FTPDataConnection.tla: here it opens  *)
(* or it does not.                                                         *)
(***************************************************************************)
EXTENDS Integers, Sequences, FiniteSets, Subsequences

CONSTANTS
    Op,         \* the operations a client asks for
    Kind,       \* what each of them is
    Sessions,   \* the sessions to look at: operations, and verbs that may be refused
    NoOp

OpKind == {"deleteFile", "deleteDirectory", "rename", "setPermissions",
           "download", "resumeDownload", "upload", "directoryContents"}
Verb == {"DELE", "RMD", "RNFR", "RNTO", "CHMOD", "SIZE", "DATA_CON", "REST",
         "RETR", "STOR", "LIST"}

ASSUME OpsAssumption == Kind \in [Op -> OpKind] /\ NoOp \notin Op
\* A server may answer a verb with an error, break off a transfer (451), answer with one of
\* the codes that make any state idle (450, 451, 504, 551, also 503 and 250), or with one
\* the state has no case for (a 550 to LIST, a 553 to STOR, a 500 to SIZE), or close the
\* connection (421).
ASSUME SessionsAssumption ==
    Sessions \subseteq [ops : SUBSET Op, refused : SUBSET (Verb \cup {"ABORT", "IDLES", "STUCK", "CLOSES"})]

\* The commands an operation queues, in order.
Verbs(k) ==
    CASE k = "deleteFile"        -> <<"DELE">>
      [] k = "deleteDirectory"   -> <<"RMD">>
      [] k = "rename"            -> <<"RNFR", "RNTO">>
      [] k = "setPermissions"    -> <<"CHMOD">>
      [] k = "download"          -> <<"SIZE", "DATA_CON", "RETR">>
      [] k = "resumeDownload"    -> <<"SIZE", "DATA_CON", "REST", "RETR">>
      [] k = "upload"            -> <<"DATA_CON", "STOR">>
      [] k = "directoryContents" -> <<"DATA_CON", "LIST">>

Command == [verb : Verb, op : Op]
NoCommand == [verb |-> "none", op |-> NoOp]

AwaitState(c) == IF c.verb = "RNTO" THEN "renameTo" ELSE "idle"

SentState(c) ==
    CASE c.verb = "DELE"     -> "deleteFile"
      [] c.verb = "RMD"      -> "deleteDirectory"
      [] c.verb = "RNFR"     -> "renameFrom"
      [] c.verb = "RNTO"     -> "awaitingRename"
      [] c.verb = "CHMOD"    -> "settingPermissions"
      [] c.verb = "SIZE"     -> "sentSize"
      [] c.verb = "DATA_CON" -> "settingPassive"
      [] c.verb = "REST"     -> "sentOffset"
      [] c.verb = "RETR"     -> "downloading"
      [] c.verb = "STOR"     -> "uploading"
      [] c.verb = "LIST"     -> "awaitingContents"

\* Seeded fault: no command depends on another.
NoDependants(c) == {}

\* dependantCommands: each command of a chain is made to depend on the one before.
Dependants(c) ==
    LET v == Verbs(Kind[c.op])
    IN  {[verb |-> v[i + 1], op |-> c.op] :
            i \in {j \in 1..(Len(v) - 1) : v[j] = c.verb}}

VARIABLES
    session,        \* what the client asks for, and the server refuses, in this session
    queue,          \* _commandQueue
    state,          \* _state
    records,        \* the record queues, by name
    dataOpen,       \* the data streams are open
    got226,         \* _ftpFlags.received226
    connected,      \* _isConnected
    awaited,        \* the command the server will answer next
    asked,          \* the operations asked for so far
    todo,           \* what the client's thread has left of the call it is in
    told,           \* history variable: what the delegate was told, in order
    removed,        \* history variable: commands removed for a failed transfer
    failed          \* history variable: operations that were refused, other than by the
                    \* reply that reports them and is their last

vars == <<session, queue, state, records, dataOpen, got226, connected, awaited,
          asked, todo, told, removed, failed>>

RecordQueue == {"deletions", "renames", "permissions", "downloads", "uploads"}

RecordsOf(k) ==
    CASE k \in {"deleteFile", "deleteDirectory"}  -> "deletions"
      [] k = "rename"                             -> "renames"
      [] k = "setPermissions"                     -> "permissions"
      [] k \in {"download", "resumeDownload"}     -> "downloads"
      [] k = "upload"                             -> "uploads"
      [] k = "directoryContents"                  -> "none"

State == {"notConnected", "idle", "renameTo", "sentQuit", "deleteFile",
          "deleteDirectory", "renameFrom", "awaitingRename",
          "settingPermissions", "sentSize", "settingPassive", "sentOffset",
          "downloading", "uploading", "awaitingContents"}

\* The six queues hold what belongs in them: commands in _commandQueue, operations in
\* the record queues; the state is one of the connection's.
TypeOK ==
    /\ queue \in Seq(Command)
    /\ state \in State
    /\ records \in [RecordQueue -> Seq(Op)]
    /\ dataOpen \in BOOLEAN /\ got226 \in BOOLEAN /\ connected \in BOOLEAN
    /\ awaited \in Command \cup {NoCommand}
    /\ asked \subseteq Op
    /\ todo \in Seq([verb : Verb \cup {"record"}, op : Op])
    /\ told \in Seq([op : Op \cup {NoOp}, done : Op])
    /\ removed \subseteq [cmd : Command, by : Op] /\ failed \subseteq Op

\* A connection that has logged in and is idle.
Init ==
    /\ session \in Sessions
    /\ queue = <<>> /\ state = "idle"
    /\ records = [q \in RecordQueue |-> <<>>]
    /\ dataOpen = FALSE /\ got226 = FALSE /\ connected = TRUE
    /\ awaited = NoCommand
    /\ asked = {} /\ todo = <<>>
    /\ told = <<>> /\ removed = {} /\ failed = {}

-----------------------------------------------------------------------------
(* The client's thread *)

\* A call of deleteFile:, rename:to:, downloadFile:..., and what it will queue.
Call(o) ==
    /\ todo = <<>> /\ o \in session.ops \ asked
    /\ asked' = asked \cup {o}
    /\ LET v == Verbs(Kind[o])
           cmds == [i \in 1..Len(v) |-> [verb |-> v[i], op |-> o]]
       IN  todo' = IF RecordsOf(Kind[o]) = "none" THEN cmds
                   ELSE <<[verb |-> "record", op |-> o]>> \o cmds
    /\ UNCHANGED <<queue, state, records, dataOpen, got226, connected, awaited,
                   told, removed, failed>>

\* queueDeletion:, queueRename:, queueDownload: ..., under _queueLock.
QueueRecord ==
    /\ todo # <<>> /\ Head(todo).verb = "record"
    /\ records' = [records EXCEPT ![RecordsOf(Kind[Head(todo).op])] =
                        Append(@, Head(todo).op)]
    /\ todo' = Tail(todo)
    /\ UNCHANGED <<queue, state, dataOpen, got226, connected, awaited, asked, told,
                   removed, failed>>

\* queueCommand:, under _queueLock again: the background thread runs in between.
QueueCommand ==
    /\ todo # <<>> /\ Head(todo).verb # "record"
    /\ queue' = Append(queue, Head(todo))
    /\ todo' = Tail(todo)
    /\ UNCHANGED <<state, records, dataOpen, got226, connected, awaited, asked,
                   told, removed, failed>>

-----------------------------------------------------------------------------
(* The background thread *)

\* Seeded fault: received226 is not cleared for the new data connection.
DispatchStale226 ==
    /\ queue # <<>> /\ state = AwaitState(Head(queue))
    /\ state' = SentState(Head(queue))
    /\ awaited' = Head(queue)
    /\ queue' = Tail(queue)
    /\ dataOpen' = IF Head(queue).verb = "DATA_CON" THEN FALSE ELSE dataOpen
    /\ UNCHANGED <<records, got226, connected, asked, todo, told, removed, failed>>

\* One command of checkQueue.  sendCommand: of DATA_CON closes the data connection
\* of the transfer before, and clears received226.
Dispatch ==
    /\ queue # <<>> /\ state = AwaitState(Head(queue))
    /\ state' = SentState(Head(queue))
    /\ awaited' = Head(queue)
    /\ queue' = Tail(queue)
    /\ IF Head(queue).verb = "DATA_CON"
       THEN dataOpen' = FALSE /\ got226' = FALSE
       ELSE UNCHANGED <<dataOpen, got226>>
    /\ UNCHANGED <<records, connected, asked, todo, told, removed, failed>>

Answered(v) == connected /\ state = v /\ awaited # NoCommand
Refuses(v) == v \in session.refused
\* Seeded fault: the newest record is taken for the oldest.
Newest(s) == IF s = <<>> THEN NoOp ELSE s[Len(s)]

First(s) == IF s = <<>> THEN NoOp ELSE Head(s)
Rest(s) == IF s = <<>> THEN <<>> ELSE Tail(s)
Told(o) == told' = Append(told, [op |-> o, done |-> awaited.op])
Idle == state' = "idle" /\ awaited' = NoCommand
\* Seeded fault: a record outlives its operation.
DequeueNothing(q) == UNCHANGED records

Dequeue(q) == records' = [records EXCEPT ![q] = Rest(@)]

\* A reply that ends an operation, well or not: tell the delegate about the record
\* at the head, dequeue it, become idle.
Finish(q) ==
    /\ Told(First(records[q])) /\ Dequeue(q) /\ Idle
    /\ UNCHANGED <<queue, dataOpen, got226, connected, asked, todo, removed, failed>>

DeleteFileReply      == Answered("deleteFile") /\ Finish("deletions")
DeleteDirectoryReply == Answered("deleteDirectory") /\ Finish("deletions")
PermissionsReply     == Answered("settingPermissions") /\ Finish("permissions")
RenameReply          == Answered("awaitingRename") /\ Finish("renames")

\* Seeded fault: the connection becomes idle between RNFR and RNTO.
RenameFromReplyIdle ==
    /\ Answered("renameFrom")
    /\ Idle
    /\ UNCHANGED <<queue, records, dataOpen, got226, connected, asked, todo, told,
                   removed, failed>>

RenameFromReply ==
    /\ Answered("renameFrom")
    /\ \/ /\ state' = "renameTo" /\ awaited' = NoCommand
          /\ UNCHANGED <<queue, records, dataOpen, got226, connected, asked, todo,
                         told, removed, failed>>
       \/ /\ Refuses("RNFR")
          /\ Told(First(records["renames"])) /\ Dequeue("renames") /\ Idle
          /\ failed' = failed \cup {awaited.op}
          /\ UNCHANGED <<queue, dataOpen, got226, connected, asked, todo, removed>>

\* "At this point the top of the command queue is something associated with this
\* download. Remove it and all of its dependents."
RemoveTop ==
    IF queue = <<>> THEN UNCHANGED <<queue, removed>>
    ELSE LET gone == {Head(queue)} \cup Dependants(Head(queue))
         IN  /\ queue' = Keep(queue, Command \ gone)
             /\ removed' = removed \cup {[cmd |-> c, by |-> awaited.op] :
                            c \in gone \cap {queue[i] : i \in 1..Len(queue)}}

FailTransfer(q) ==
    /\ Told(First(records[q])) /\ Dequeue(q) /\ Idle /\ RemoveTop
    /\ failed' = failed \cup {awaited.op}
    /\ UNCHANGED <<dataOpen, got226, connected, asked, todo>>

SizeReply ==
    /\ Answered("sentSize")
    /\ \/ Idle /\ UNCHANGED <<queue, records, dataOpen, got226, connected, asked,
                              todo, told, removed, failed>>
       \/ Refuses("SIZE") /\ FailTransfer("downloads")

\* 350 has a case, and the codes that make any state idle go on as it does (so they do
\* after a SIZE); to any other reply the connection does nothing.
OffsetReply ==
    /\ Answered("sentOffset")
    /\ \/ Idle
       \/ Refuses("REST") /\ awaited' = NoCommand /\ UNCHANGED state
    /\ UNCHANGED <<queue, records, dataOpen, got226, connected, asked, todo, told,
                   removed, failed>>

\* The data streams open, or every kind of data connection has failed and
\* nextAvailableDataConnectionType gives QUIT.
DataConnectionReply ==
    /\ Answered("settingPassive")
    /\ \/ dataOpen' = TRUE /\ Idle
       \/ Refuses("DATA_CON") /\ state' = "sentQuit" /\ UNCHANGED <<dataOpen, awaited>>
    /\ UNCHANGED <<queue, records, got226, connected, asked, todo, told, removed, failed>>

Transferring == state \in {"downloading", "uploading", "awaitingContents"}

\* 226 on the control connection: idle at once if the data streams are gone.
TransferComplete226 ==
    /\ Transferring /\ connected /\ awaited # NoCommand /\ ~got226
    /\ got226' = TRUE
    /\ IF dataOpen THEN UNCHANGED <<state, awaited>> ELSE Idle
    /\ UNCHANGED <<queue, records, dataOpen, connected, asked, todo, told, removed,
                   failed>>

\* Seeded fault: the streams stay open, and the other one ends too.
DataConnectionEndsTwice ==
    /\ Transferring /\ dataOpen /\ awaited # NoCommand
    /\ CASE state = "downloading" ->
                Told(First(records["downloads"])) /\ Dequeue("downloads")
         [] state = "uploading" ->
                Told(First(records["uploads"])) /\ Dequeue("uploads")
         [] state = "awaitingContents" -> Told(awaited.op) /\ UNCHANGED records
    /\ IF got226 THEN Idle ELSE UNCHANGED <<state, awaited>>
    /\ UNCHANGED <<queue, dataOpen, got226, connected, asked, todo, removed, failed>>

\* closeDataConnection: the transfer is finished for the delegate.
TransferEnds ==
    /\ dataOpen' = FALSE
    /\ CASE state = "downloading" ->
                Told(First(records["downloads"])) /\ Dequeue("downloads")
         [] state = "uploading" ->
                Told(First(records["uploads"])) /\ Dequeue("uploads")
         [] state = "awaitingContents" -> Told(awaited.op) /\ UNCHANGED records

\* The end of a data stream; the connection is idle only when 226 has come too.
DataConnectionEnds ==
    /\ Transferring /\ dataOpen /\ awaited # NoCommand
    /\ TransferEnds
    /\ IF got226 THEN Idle ELSE UNCHANGED <<state, awaited>>
    /\ UNCHANGED <<queue, got226, connected, asked, todo, removed, failed>>

\* An error reply to RETR, before any data (550) or after the data (451).
DownloadRefused ==
    /\ Answered("downloading") /\ ~got226
    /\ \/ dataOpen /\ Refuses("RETR")
       \/ ~dataOpen /\ Refuses("ABORT")
    /\ FailTransfer("downloads")

\* 450, 452, 532 and 552 dequeue the upload once; 550 dequeues it in its own case,
\* and the code after the switch dequeues, and reports, the next one.  Whether the data
\* have ended, and the upload been reported and dequeued by then, is not looked at.
UploadRefused ==
    /\ Answered("uploading") /\ ~got226 /\ Refuses("STOR")
    /\ \/ FailTransfer("uploads")
       \/ /\ Told(First(Rest(records["uploads"])))
          /\ records' = [records EXCEPT !["uploads"] = Rest(Rest(@))]
          /\ Idle /\ RemoveTop
          /\ failed' = failed \cup {awaited.op}
          /\ UNCHANGED <<dataOpen, got226, connected, asked, todo>>

\* parseCommand: makes the connection idle on 450, 451, 504, 551, 503 and 250, in any state,
\* and only then calls the handler of the state it was in.  A transfer, a data connection
\* that is set up and a QUIT have no case for most of them (451, 504 and 551 to STOR, 450
\* to LIST): nothing is told, and the record stays at the head of its queue, unless the
\* data had ended before.  When they end after it, closeDataConnection finds no transfer:
\* the streams are closed, now or later, and that is all.
MakesIdle ==
    /\ Refuses("IDLES") /\ connected /\ awaited # NoCommand /\ ~got226
    /\ Transferring \/ state \in {"settingPassive", "sentQuit"}
    /\ Idle /\ dataOpen' \in {dataOpen, FALSE}
    /\ failed' = IF Transferring /\ ~dataOpen THEN failed ELSE failed \cup {awaited.op}
    /\ UNCHANGED <<queue, records, got226, connected, asked, todo, told, removed>>

\* To a code without a case, of the state's or of parseCommand:'s, nothing is done: the
\* connection stays where it is, and no other reply comes.  A transfer's data may still end.
NoCaseFor ==
    /\ Refuses("STUCK") /\ connected /\ awaited # NoCommand /\ ~got226
    /\ Transferring \/ state = "sentSize"
    /\ awaited' = NoCommand /\ failed' = failed \cup {awaited.op}
    /\ \/ UNCHANGED <<dataOpen, told, records>>
       \/ Transferring /\ dataOpen /\ TransferEnds
    /\ UNCHANGED <<queue, state, got226, connected, asked, todo, removed>>

\* [super threadedDisconnect]: every queue is emptied.
EmptyAll ==
    /\ queue' = <<>>
    /\ records' = [q \in RecordQueue |-> <<>>]
    /\ connected' = FALSE /\ dataOpen' = FALSE
    /\ awaited' = NoCommand

QuitReply ==
    /\ Answered("sentQuit")
    /\ EmptyAll /\ state' = "notConnected"
    /\ UNCHANGED <<got226, asked, todo, told, removed, failed>>

\* 421, in whatever state: parseCommand: disconnects, and then calls the handler of
\* the state the connection was in, which reports its own record queue's head (now
\* nil) and makes the connection idle.  In renameFrom, awaitingRename,
\* deleteDirectory and settingPermissions the head is taken with objectAtIndex:0,
\* which raises on the emptied queue.
ServiceClosing ==
    /\ Refuses("CLOSES") /\ connected /\ awaited # NoCommand
    /\ EmptyAll
    /\ IF state \in {"deleteFile", "sentSize", "downloading", "uploading"}
       THEN Told(NoOp) /\ state' = "idle"
       ELSE state' = "notConnected" /\ UNCHANGED told
    /\ UNCHANGED <<got226, asked, todo, removed, failed>>

Client == (\E o \in Op : Call(o)) \/ QueueRecord \/ QueueCommand

Server ==
    \/ DeleteFileReply \/ DeleteDirectoryReply \/ PermissionsReply \/ RenameReply
    \/ RenameFromReply \/ SizeReply \/ OffsetReply \/ DataConnectionReply
    \/ TransferComplete226 \/ DataConnectionEnds \/ DownloadRefused
    \/ UploadRefused \/ MakesIdle \/ NoCaseFor \/ QuitReply \/ ServiceClosing

Next == (Client \/ Dispatch \/ Server) /\ UNCHANGED session

Spec == Init /\ [][Next]_vars

\* A client finishes its call, the background thread dispatches what is ready, and
\* the server answers every command; it may take any time between the calls.
FairSpec ==
    /\ Spec
    /\ WF_vars((QueueRecord \/ QueueCommand) /\ UNCHANGED session)
    /\ WF_vars(Dispatch /\ UNCHANGED session)
    /\ WF_vars(Server /\ UNCHANGED session)
    /\ WF_vars(DataConnectionEnds /\ UNCHANGED session)
    /\ WF_vars(TransferComplete226 /\ UNCHANGED session)

-----------------------------------------------------------------------------
(* Properties *)

\* The commands of the operations whose record is queued, in order: the one to be
\* answered, unless it is of a transfer whose record closeDataConnection has taken
\* already; what is queued; what the client is about to queue.
Recorded ==
    (IF awaited = NoCommand \/ (Transferring /\ ~dataOpen) THEN <<>> ELSE <<awaited>>)
    \o queue
    \o (IF todo # <<>> /\ Head(todo).verb = "record" THEN <<>> ELSE todo)

Operations(cmds) == [i \in 1..Len(cmds) |-> cmds[i].op]

InStep(q, V) == records[q] = Operations(Keep(Recorded, [verb : V, op : Op]))

\* The record queues and the command queue stay in step, in every interleaving of
\* the client's two locked regions with the background thread: each record queue
\* lists exactly the operations whose last command is still to be answered, in the
\* order they will be answered ("Uses same _fileDeletes queue, hope that's safe to
\* do. (Any chance one could get ahead of another?)").  Only a refusal in the middle
\* of an operation's commands, or of a transfer, breaks it: a 451 to STOR leaves the
\* upload's record at the head.
QueuesInStep ==
    connected /\ failed = {} =>
        /\ InStep("deletions", {"DELE", "RMD"})
        /\ InStep("renames", {"RNTO"})
        /\ InStep("permissions", {"CHMOD"})
        /\ InStep("downloads", {"RETR"})
        /\ InStep("uploads", {"STOR"})

\* Until then, the delegate is told about the operation the server answered, and
\* about no other.
ToldTheRightOne ==
    connected /\ failed = {} => \A i \in 1..Len(told) : told[i].op = told[i].done

\* A refused SIZE of a download whose commands are all queued takes the whole rest
\* of that download from the queue, and nothing else.
RefusedSizeRemovesItsChain ==
    [][(/\ SizeReply /\ failed = {} /\ failed' # {} /\ todo = <<>>
        /\ Kind[awaited.op] = "download")
        => removed' \ removed = {[cmd |-> [verb |-> v, op |-> awaited.op],
                                  by |-> awaited.op] : v \in {"DATA_CON", "RETR"}}]_vars

\* Until then, no operation is reported twice.
ToldOnce ==
    connected /\ failed = {} =>
        \A i, j \in 1..Len(told) : told[i].done = told[j].done => i = j

\* A transfer command is sent only over a data connection opened for it: by its own
\* DATA_CON, which no other command's DATA_CON has replaced.  (After a refusal the
\* removal may have taken the DATA_CON and left the transfer.)
TransferHasDataConnection ==
    [][connected /\ failed = {} /\ awaited'.verb \in {"RETR", "STOR", "LIST"} /\ awaited # awaited'
        => dataOpen /\ ~got226]_vars

\* What the comment says where a failed transfer is removed: the commands removed
\* from the top of the queue belong to that transfer.
RemovesOnlyItsOwn == \A r \in removed : r.cmd.op = r.by

\* A refused REST leaves the connection where it is.
OffsetRefused == state = "sentOffset" /\ awaited = NoCommand

\* Every operation the client asks for is reported, unless the connection ends, or one
\* was refused in the middle of its commands, or as a transfer: a 450 to LIST, or a 451 to
\* STOR, is reported to no one.
EveryOperationReported ==
    \A o \in Op :
        o \in asked ~> \/ (\E i \in 1..Len(told) : told[i].done = o)
                      \/ ~connected \/ failed # {} \/ OffsetRefused
=============================================================================
