-------------------------- MODULE RecursiveDeletion --------------------------
(***************************************************************************)
(* recursivelyDeleteDirectory: of CKStreamBasedConnection.  A second       *)
(* connection lists the directory and everything below it, then deletes    *)
(* the files, then the directories, children first.  What is done next is  *)
(* decided by two counters and two lists, from delegate messages that      *)
(* arrive on the main thread after the listing has gone on.                *)
(*                                                                         *)
(* Three threads of control: the client on the main thread, which also     *)
(* receives the second connection's messages; processRecursiveDeletionQueue *)
(* on the background thread; and the second connection with its server,    *)
(* which takes its commands in order (CommandQueue.tla).                   *)
(***************************************************************************)
EXTENDS Integers, Sequences, FiniteSets, SequencesExt, Subsequences

CONSTANTS
    Dir, File,      \* what is on the server
    Home,           \* the directory a connection begins in; nobody deletes it
    Parent,         \* the directory each of them is in
    Roots,          \* the directories the client asks to delete
    Refusable,      \* those whose deletion the server may refuse
    NoEntry         \* the directories the server may refuse to change to

Item == Dir \cup File

ASSUME TreeAssumption ==
    /\ IsFiniteSet(Item) /\ Home \in Dir /\ Parent \in [Item \ {Home} -> Dir] /\ Dir \cap File = {}
    /\ Roots \subseteq Dir \ {Home}
    /\ Refusable \subseteq Item /\ NoEntry \subseteq Dir \ {Home}

\* An item and the directories it is in: the least set with the parent of each.
Path ==
    [x \in Item |->
        {y \in Item :
            \A S \in SUBSET Item :
                x \in S /\ (\A z \in S \ {Home} : Parent[z] \in S) => y \in S}]

\* Nothing is within itself.
ASSUME TreeHasNoCycle == \A x \in Item \ {Home} : x \notin Path[Parent[x]]

\* The client does not ask for a directory within another it asks for.
ASSUME RootsApart == \A r, s \in Roots : r \in Path[s] => r = s

Command == ({"list", "rmd"} \X Dir) \cup ({"dele"} \X File) \cup {<<"quit">>}

\* What the delegate is told, with what was listed or whether it succeeded.
Message ==
    ({"contents"} \X Dir \X SUBSET Item) \cup ({"noEntry"} \X Dir)
    \cup ({"dele"} \X File \X BOOLEAN) \cup ({"rmd"} \X Dir \X BOOLEAN)
    \cup {<<"disconnected">>}

VARIABLES
    checks,         \* processRecursiveDeletionQueue invocations to come
    starting,       \* the background thread is between its check of the connection
                    \* and the locked region
    conn,           \* _recursiveDeletionConnection: "none" (nil), "open" or "closed"
    deletions,      \* _recursiveDeletionsQueue
    isDeleting,     \* myStreamFlags.isDeleting
    listings,       \* _numberOfDeletionListingsRemaining
    dirDeletions,   \* _numberOfDirDeletionsRemaining
    files,          \* _filesToDelete
    emptyDirs,      \* _emptyDirectoriesToDelete
    wire,           \* the second connection's commands, oldest first
    cwd,            \* where it is on the server
    exists,         \* what there is on the server
    messages,       \* the delegate messages on their way to the main thread
    asked,          \* history variable: the directories asked for, in order
    told,           \* history variable: those reported, with their success
    refused,        \* history variable: what the server refused to delete
    skipped,        \* history variable: directories it refused to change to
    lost            \* history variable: a deletion was begun on a connection that
                    \* was disconnecting, or gone

queueVars == <<deletions, isDeleting, listings, dirDeletions, files, emptyDirs>>
ghostVars == <<asked, told, refused, skipped, lost>>
vars == <<checks, starting, conn, queueVars, wire, cwd, exists, messages, ghostVars>>

Init ==
    /\ checks = 0 /\ starting = FALSE /\ conn = "none"
    /\ deletions = <<>> /\ isDeleting = FALSE /\ listings = 0 /\ dirDeletions = 0
    /\ files = <<>> /\ emptyDirs = <<>>
    /\ wire = <<>> /\ cwd = Home /\ exists = Item /\ messages = <<>>
    /\ asked = <<>> /\ told = <<>> /\ refused = {} /\ skipped = {} /\ lost = FALSE

Children(d) == {x \in exists \ {Home} : Parent[x] = d}

\* Messages to nil are lost.
Send(commands) == wire' = IF conn = "none" THEN wire ELSE wire \o commands

CommandsFor(verb, items) == [i \in 1..Len(items) |-> <<verb, items[i]>>]

-----------------------------------------------------------------------------
(* The client *)

\* recursivelyDeleteDirectory: the directory is queued and the background thread
\* asked to look.
Ask(r) ==
    /\ r \notin ToSet(asked)
    /\ deletions' = Append(deletions, r) /\ asked' = Append(asked, r)
    /\ checks' = checks + 1
    /\ UNCHANGED <<starting, conn, isDeleting, listings, dirDeletions, files, emptyDirs,
                   wire, cwd, exists, messages, told, refused, skipped, lost>>

-----------------------------------------------------------------------------
(* processRecursiveDeletionQueue, on the background thread *)

\* The connection is made before the lock is taken.
CheckConnection ==
    /\ checks > 0 /\ ~starting
    /\ checks' = checks - 1 /\ starting' = TRUE
    /\ IF conn = "none"
       THEN conn' = "open" /\ wire' = <<>> /\ cwd' = Home
       ELSE UNCHANGED <<conn, wire, cwd>>
    /\ UNCHANGED <<queueVars, exists, messages, ghostVars>>

\* List the first directory of the queue.
ListFirst(queue) ==
    /\ emptyDirs' = Append(emptyDirs, Head(queue))
    /\ listings' = listings + 1
    /\ Send(<< <<"list", Head(queue)>> >>)

StartDeletion ==
    /\ starting /\ starting' = FALSE
    /\ IF ~isDeleting /\ deletions # <<>>
       THEN /\ isDeleting' = TRUE /\ ListFirst(deletions)
            /\ lost' = (lost \/ conn # "open" \/ <<"quit">> \in ToSet(wire))
       ELSE UNCHANGED <<isDeleting, emptyDirs, listings, wire, lost>>
    /\ UNCHANGED <<checks, conn, deletions, dirDeletions, files, cwd, exists, messages,
                   asked, told, refused, skipped>>

-----------------------------------------------------------------------------
(* The second connection and its server *)

Serves(command) ==
    /\ conn = "open" /\ wire # <<>> /\ Head(wire) = command
    /\ wire' = Tail(wire)
    /\ UNCHANGED <<checks, starting, queueVars, asked, told, lost>>

Reports(news) == messages' = messages \o news

\* CWD, PWD, DATA_CON and LIST.
ListsDirectory ==
    \E d \in exists \cap Dir :
        /\ Serves(<<"list", d>>)
        /\ cwd' = d
        /\ Reports(<< <<"contents", d, Children(d)>> >>)
        /\ UNCHANGED <<conn, exists, refused, skipped>>

\* CWD is refused, and LIST lists where the connection is.
RefusesEntry ==
    \E d \in NoEntry \cup (Dir \ exists) :
        /\ Serves(<<"list", d>>)
        /\ Reports(<< <<"noEntry", d>>, <<"contents", cwd, Children(cwd)>> >>)
        /\ skipped' = skipped \cup {d}
        /\ UNCHANGED <<conn, cwd, exists, refused>>

\* A deletion may be refused, and is when the directory is not empty or nothing is
\* there.  The delegate is told either way.
DeletesItem ==
    \E x \in Item, verb \in {"dele", "rmd"}, ok \in BOOLEAN :
        /\ Serves(<<verb, x>>)
        /\ ok => x \in exists /\ Children(x) = {}
        /\ ~ok => x \in Refusable \/ x \notin exists \/ Children(x) # {}
        /\ exists' = IF ok THEN exists \ {x} ELSE exists
        /\ refused' = IF ~ok /\ x \in exists /\ Children(x) = {}
                      THEN refused \cup {x} ELSE refused
        /\ Reports(<< <<verb, x, ok>> >>)
        /\ UNCHANGED <<conn, cwd, skipped>>

\* 221: whatever was queued behind the QUIT is thrown away (emptyAllQueues).
Disconnects ==
    /\ conn = "open" /\ wire # <<>> /\ Head(wire) = <<"quit">>
    /\ conn' = "closed" /\ wire' = <<>>
    /\ Reports(<< <<"disconnected">> >>)
    /\ UNCHANGED <<checks, starting, queueVars, cwd, exists, ghostVars>>

-----------------------------------------------------------------------------
(* The second connection's messages, on the main thread.  Each handler holds  *)
(* _recursiveDeletionLock.                                                    *)

Receives(kind) ==
    /\ messages # <<>> /\ Head(messages)[1] = kind
    /\ messages' = Tail(messages)
    /\ UNCHANGED <<checks, starting, cwd, exists, asked, refused, skipped, lost>>

\* Seeded fault: parents first.
RemovalsAsListed(dirs) == CommandsFor("rmd", dirs)

\* The last listed is deleted first.
Removals(dirs) == CommandsFor("rmd", Reverse(dirs))

DeleteDirectories(dirs) ==
    /\ Send(Removals(dirs))
    /\ dirDeletions' = dirDeletions + Len(dirs) /\ emptyDirs' = <<>>

\* What a listing of d adds to the two lists, and the directories to list in turn.
Subdirectories(items) == Keep(items, Dir)
Found(items) == files \o Keep(items, File)
Emptied(d) == IF d \in ToSet(deletions) THEN emptyDirs ELSE Append(emptyDirs, d)

\* Once left is zero nothing is to be listed any more, and the files are deleted, or,
\* when there are none, the directories.
Proceed(left, lists, dirs) ==
    /\ listings' = left
    /\ IF left = 0 /\ files' = <<>>
       THEN /\ Send(lists \o Removals(dirs))
            /\ dirDeletions' = dirDeletions + Len(dirs) /\ emptyDirs' = <<>>
       ELSE /\ Send(IF left = 0 THEN lists \o CommandsFor("dele", files') ELSE lists)
            /\ emptyDirs' = dirs /\ UNCHANGED dirDeletions

\* Seeded fault: the listings asked for are not counted.
ContentsUncounted(d, items) ==
    /\ files' = Found(items)
    /\ Proceed(listings - 1, CommandsFor("list", Subdirectories(items)), Emptied(d))

\* Seeded fault: the files stay.
ContentsKeepingFiles(d, items) ==
    /\ files' = files
    /\ Proceed(listings - 1 + Len(Subdirectories(items)),
               CommandsFor("list", Subdirectories(items)), Emptied(d))

\* The directories in d are listed in their turn.
Contents(d, items) ==
    /\ files' = Found(items)
    /\ Proceed(listings - 1 + Len(Subdirectories(items)),
               CommandsFor("list", Subdirectories(items)), Emptied(d))

\* A listing of something that is not below the first directory of the queue is
\* counted and otherwise ignored.
DidReceiveContents ==
    /\ Receives("contents") /\ deletions # <<>>
    /\ LET d == Head(messages)[2] IN
       IF Head(deletions) \notin Path[d]
       THEN /\ listings' = listings - 1
            /\ UNCHANGED <<files, emptyDirs, dirDeletions, wire>>
       ELSE \E items \in SetToSeqs(Head(messages)[3]) : Contents(d, items)
    /\ UNCHANGED <<conn, deletions, isDeleting, told>>

\* didChangeToDirectory: with an error.
DidNotChangeToDirectory ==
    /\ Receives("noEntry")
    /\ listings' = listings - 1
    /\ UNCHANGED <<conn, deletions, isDeleting, dirDeletions, files, emptyDirs, wire,
                   told>>

DidDeleteFile ==
    /\ Receives("dele") /\ deletions # <<>>
    /\ files' = Keep(files, File \ {Head(messages)[2]})
    /\ IF files' = <<>> /\ listings = 0
       THEN DeleteDirectories(emptyDirs)
       ELSE UNCHANGED <<wire, dirDeletions, emptyDirs>>
    /\ UNCHANGED <<conn, deletions, isDeleting, listings, told>>

\* Seeded fault: the flag stays set.
FinishStillDeleting(rest) ==
    IF rest = <<>>
    THEN /\ Send(<< <<"quit">> >>)
         /\ UNCHANGED <<isDeleting, listings, emptyDirs>>
    ELSE ListFirst(rest) /\ UNCHANGED isDeleting

\* The next directory is begun, or the connection disconnected.
Finish(rest) ==
    IF rest = <<>>
    THEN /\ isDeleting' = FALSE /\ Send(<< <<"quit">> >>)
         /\ UNCHANGED <<listings, emptyDirs>>
    ELSE ListFirst(rest) /\ UNCHANGED isDeleting

\* The last directory deleted is the one asked for: the client is told.
DidDeleteDirectory ==
    /\ Receives("rmd") /\ deletions # <<>>
    /\ dirDeletions' = dirDeletions - 1
    /\ IF dirDeletions' = 0
       THEN /\ deletions' = Tail(deletions)
            /\ told' = Append(told, <<Head(messages)[2], Head(messages)[3]>>)
            /\ Finish(deletions')
       ELSE UNCHANGED <<deletions, told, isDeleting, listings, emptyDirs, wire>>
    /\ UNCHANGED <<conn, files>>

DidDisconnect ==
    /\ Receives("disconnected")
    /\ conn' = "none" /\ wire' = <<>>
    /\ UNCHANGED <<queueVars, told>>

Background == CheckConnection \/ StartDeletion

Server == ListsDirectory \/ RefusesEntry \/ DeletesItem \/ Disconnects

Delegate ==
    \/ DidReceiveContents \/ DidNotChangeToDirectory \/ DidDeleteFile
    \/ DidDeleteDirectory \/ DidDisconnect

Next ==
    \/ \E r \in Roots : Ask(r)
    \/ Background \/ Server \/ Delegate

Spec == Init /\ [][Next]_vars

\* Both threads run their loops and the server answers.  Nothing makes the client
\* ask.
FairSpec ==
    /\ Spec
    /\ WF_vars(Background) /\ WF_vars(Server) /\ WF_vars(Delegate)

-----------------------------------------------------------------------------
(* Properties *)

\* The counters, the lists and the messages hold what the code puts there.
TypeOK ==
    /\ checks \in 0..Len(asked) /\ starting \in BOOLEAN
    /\ conn \in {"none", "open", "closed"} /\ isDeleting \in BOOLEAN
    /\ deletions \in Seq(Roots) /\ listings \in Int /\ dirDeletions \in Nat
    /\ files \in Seq(File) /\ emptyDirs \in Seq(Dir)
    /\ wire \in Seq(Command) /\ cwd \in Dir /\ exists \subseteq Item
    /\ messages \in Seq(Message)
    /\ asked \in Seq(Roots) /\ told \in Seq(Dir \X BOOLEAN)
    /\ refused \subseteq Refusable /\ skipped \subseteq Dir /\ lost \in BOOLEAN

\* How many messages or commands of a kind there are in s.
Of(kind, s) == Len(Keep([i \in 1..Len(s) |-> s[i][1]], {kind}))

\* Each counter is the number of answers still to come, on the wire or on their way
\* to the main thread: it reaches zero when the last has arrived, and not before.
\* (A directory that cannot be entered is counted twice, once for the refused CWD and
\* once for the listing that comes all the same; a deletion begun on a connection
\* that is gone is never answered.)
CountersBalance ==
    skipped = {} /\ ~lost =>
        /\ listings = Of("list", wire) + Of("contents", messages)
        /\ dirDeletions = Of("rmd", wire) + Of("rmd", messages)

\* What is in it has been refused, wholly or in part.
PartlyRefused(x) == \E y \in refused : x \in Path[y]

\* A directory is never deleted before what is in it has been: only a refusal can
\* have left something there.  (Once a directory could not be entered the listings are
\* miscounted, and parents may go before their children are known.)
ChildrenFirst ==
    skipped = {} /\ wire # <<>> /\ Head(wire)[1] = "rmd" =>
        \A x \in Children(Head(wire)[2]) : PartlyRefused(x)

\* A deletion fails only when the server has refused a part of it, or has refused to
\* change to a directory.
FailsOnlyIfRefused ==
    skipped = {} =>
        \A i \in 1..Len(told) : ~told[i][2] => PartlyRefused(told[i][1])

\* Every directory the client asks to delete is reported, unless a directory cannot
\* be entered, or a deletion was begun while the connection of an earlier one was
\* disconnecting.
EveryDeletionReported ==
    \A r \in Roots :
        r \in ToSet(asked) ~>
            (\E i \in 1..Len(told) : told[i][1] = r) \/ skipped # {} \/ lost

\* "We're obviously not going to list that directory": a directory the connection
\* could not change to is not asked for again.
RefusedIsNotListed == \A d \in skipped : <<"list", d>> \notin ToSet(wire)
=============================================================================
