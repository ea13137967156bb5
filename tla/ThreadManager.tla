---------------------------- MODULE ThreadManager ----------------------------
(***************************************************************************)
(* CKConnectionThreadManager: how any thread has a message sent to a       *)
(* connection on the one background thread all connections share.          *)
(*                                                                         *)
(*     [[manager prepareWithInvocationTarget:con] checkQueue];             *)
(*                                                                         *)
(* is two messages: the first stores the target in an instance variable    *)
(* and keeps myLock, the second (forwardInvocation:) gives that target to  *)
(* the invocation and unlocks.  The invocation is added to myTasks, and    *)
(* the background thread is woken by a port message, or, when it posts to  *)
(* itself, by a delayed perform.  One wakeup processes everything there.   *)
(***************************************************************************)
EXTENDS Integers, Sequences, FiniteSets

CONSTANTS
    Caller,         \* the threads that post, the background thread excluded
    bg,             \* the background thread
    HasRunLoop,     \* the callers that run a run loop
    None,
    MaxCalls,       \* bound: invocations posted per thread
    MaxPort,        \* the messages the port's queue holds
    MaxRaises       \* bound: sends that raise an exception, per thread

Thread == Caller \cup {bg}

ASSUME ThreadAssumption ==
    /\ bg \notin Caller /\ None \notin Thread
    /\ HasRunLoop \subseteq Caller
ASSUME BoundAssumption ==
    MaxCalls \in Nat /\ MaxPort \in Nat \ {0} /\ MaxRaises \in Nat

\* An invocation: who posted it and as his how-manieth; it is meant for a target of
\* that thread's own choosing, which stands for any two threads using two
\* connections.
Task == Thread \X (1..MaxCalls)
Owner == [k \in Task |-> k[1]]

VARIABLES
    lock,       \* the thread that holds myLock, or None
    myTarget,
    myTasks,
    port,       \* CHECK_TASKS messages in myPort
    delayed,    \* performs of processTasks due on the background run loop
    batch,      \* the copy processTasks enumerates; the first is being invoked
    pc,         \* a thread's place in its call
    target,     \* the target of the invocation a thread is posting
    calls,      \* per thread, the invocations begun
    resend,     \* per thread, performs of runloopResend: due on its run loop
    raises,     \* the counter MaxRaises bounds
    delivered   \* history variable: what was invoked, in order

vars == <<lock, myTarget, myTasks, port, delayed, batch, pc, target, calls,
          resend, raises, delivered>>

Entry == [task : Task, target : Thread \cup {None}]

\* The lock has at most one holder, the port no more messages than it takes, every
\* queued invocation a target, and every thread a place in its call.
TypeOK ==
    /\ lock \in Thread \cup {None} /\ myTarget \in Thread \cup {None}
    /\ myTasks \in Seq(Entry) /\ batch \in Seq(Entry) /\ delivered \in Seq(Entry)
    /\ port \in 0..MaxPort /\ delayed \in Nat
    /\ pc \in [Thread -> {"idle", "prepared", "forwarded", "added"}]
    /\ target \in [Thread -> Thread \cup {None}]
    /\ calls \in [Thread -> 0..MaxCalls]
    /\ resend \in [Thread -> Nat] /\ raises \in [Thread -> 0..MaxRaises]

Init ==
    /\ lock = None /\ myTarget = None /\ myTasks = <<>>
    /\ port = 0 /\ delayed = 0 /\ batch = <<>>
    /\ pc = [t \in Thread |-> "idle"] /\ target = [t \in Thread |-> None]
    /\ calls = [t \in Thread |-> 0]
    /\ resend = [t \in Thread |-> 0] /\ raises = [t \in Thread |-> 0]
    /\ delivered = <<>>

-----------------------------------------------------------------------------
(* Posting *)

\* Seeded fault: the lock is not waited for.
PrepareUnlocked(t) ==
    /\ pc[t] = "idle" /\ calls[t] < MaxCalls /\ (t = bg => batch # <<>>)
    /\ lock' = t /\ myTarget' = t
    /\ calls' = [calls EXCEPT ![t] = @ + 1]
    /\ pc' = [pc EXCEPT ![t] = "prepared"]
    /\ UNCHANGED <<myTasks, port, delayed, batch, target, resend, raises, delivered>>

\* The background thread posts from within what it invokes.
Prepare(t) ==
    /\ pc[t] = "idle" /\ calls[t] < MaxCalls /\ (t = bg => batch # <<>>)
    /\ lock = None
    /\ lock' = t /\ myTarget' = t
    /\ calls' = [calls EXCEPT ![t] = @ + 1]
    /\ pc' = [pc EXCEPT ![t] = "prepared"]
    /\ UNCHANGED <<myTasks, port, delayed, batch, target, resend, raises, delivered>>

ForwardInvocation(t) ==
    /\ pc[t] = "prepared"
    /\ target' = [target EXCEPT ![t] = myTarget]
    /\ myTarget' = None /\ lock' = None
    /\ pc' = [pc EXCEPT ![t] = "forwarded"]
    /\ UNCHANGED <<myTasks, port, delayed, batch, calls, resend, raises, delivered>>

AddTask(t) ==
    /\ pc[t] = "forwarded" /\ lock = None
    /\ myTasks' = Append(myTasks, [task |-> <<t, calls[t]>>, target |-> target[t]])
    /\ pc' = [pc EXCEPT ![t] = "added"]
    /\ UNCHANGED <<lock, myTarget, port, delayed, batch, target, calls, resend,
                   raises, delivered>>

SendMessage(t) ==
    /\ pc[t] = "added" /\ t # bg /\ port < MaxPort
    /\ port' = port + 1
    /\ pc' = [pc EXCEPT ![t] = "idle"]
    /\ UNCHANGED <<lock, myTarget, myTasks, delayed, batch, target, calls, resend,
                   raises, delivered>>

\* sendBeforeDate: gives up after 5 seconds of a full port; that is only logged.
SendTimesOut(t) ==
    /\ pc[t] = "added" /\ t # bg /\ port = MaxPort
    /\ pc' = [pc EXCEPT ![t] = "idle"]
    /\ UNCHANGED <<lock, myTarget, myTasks, port, delayed, batch, target, calls,
                   resend, raises, delivered>>

\* Seeded fault: the exception is only logged.
SendRaisesLogged(t) ==
    /\ pc[t] = "added" /\ t # bg /\ raises[t] < MaxRaises
    /\ raises' = [raises EXCEPT ![t] = @ + 1]
    /\ pc' = [pc EXCEPT ![t] = "idle"]
    /\ UNCHANGED <<lock, myTarget, myTasks, port, delayed, batch, target, calls,
                   resend, delivered>>

\* An exception from the port, on whatever thread: the message is to be sent again by
\* the run loop of that thread.
SendRaises(t) ==
    /\ pc[t] = "added" /\ t # bg /\ raises[t] < MaxRaises
    /\ raises' = [raises EXCEPT ![t] = @ + 1]
    /\ resend' = [resend EXCEPT ![t] = @ + 1]
    /\ pc' = [pc EXCEPT ![t] = "idle"]
    /\ UNCHANGED <<lock, myTarget, myTasks, port, delayed, batch, target, calls,
                   delivered>>

\* On a thread that runs no run loop the perform stays due for ever.
RunloopResend(t) ==
    /\ t \in HasRunLoop
    /\ pc[t] = "idle" /\ resend[t] > 0
    /\ resend' = [resend EXCEPT ![t] = @ - 1]
    /\ pc' = [pc EXCEPT ![t] = "added"]
    /\ UNCHANGED <<lock, myTarget, myTasks, port, delayed, batch, target, calls,
                   raises, delivered>>

\* Seeded fault: a task the background thread posts wakes nobody.
PerformNever ==
    /\ pc[bg] = "added"
    /\ pc' = [pc EXCEPT ![bg] = "idle"]
    /\ UNCHANGED <<lock, myTarget, myTasks, port, delayed, batch, target, calls,
                   resend, raises, delivered>>

\* "we want to do this the next time through the runloop"
PerformLater ==
    /\ pc[bg] = "added"
    /\ delayed' = delayed + 1
    /\ pc' = [pc EXCEPT ![bg] = "idle"]
    /\ UNCHANGED <<lock, myTarget, myTasks, port, batch, target, calls, resend,
                   raises, delivered>>

-----------------------------------------------------------------------------
(* The background thread *)

\* Seeded fault: the tasks are copied and not removed.
ProcessTasksKeeping ==
    /\ batch = <<>> /\ pc[bg] = "idle" /\ lock = None
    /\ \/ port > 0 /\ port' = port - 1 /\ UNCHANGED delayed
       \/ delayed > 0 /\ delayed' = delayed - 1 /\ UNCHANGED port
    /\ batch' = myTasks
    /\ UNCHANGED <<lock, myTarget, myTasks, pc, target, calls, resend, raises,
                   delivered>>

\* One turn of its run loop: a port message or a delayed perform, and processTasks.
ProcessTasks ==
    /\ batch = <<>> /\ pc[bg] = "idle" /\ lock = None
    /\ \/ port > 0 /\ port' = port - 1 /\ UNCHANGED delayed
       \/ delayed > 0 /\ delayed' = delayed - 1 /\ UNCHANGED port
    /\ batch' = myTasks /\ myTasks' = <<>>
    /\ UNCHANGED <<lock, myTarget, pc, target, calls, resend, raises, delivered>>

\* The invocation returns, or raises an exception that processTasks catches.
InvocationEnds ==
    /\ batch # <<>> /\ pc[bg] = "idle"
    /\ delivered' = Append(delivered, Head(batch))
    /\ batch' = Tail(batch)
    /\ UNCHANGED <<lock, myTarget, myTasks, port, delayed, pc, target, calls, resend,
                   raises>>

Post(t) ==
    \/ ForwardInvocation(t) \/ AddTask(t) \/ SendMessage(t) \/ SendTimesOut(t)
    \/ SendRaises(t) \/ RunloopResend(t)

Next ==
    \/ \E t \in Thread : Prepare(t) \/ Post(t)
    \/ PerformLater \/ ProcessTasks \/ InvocationEnds

Spec == Init /\ [][Next]_vars

\* Threads finish the calls they make and the background thread turns its run loop.
\* (A thread waiting for myLock gets it once the others stop calling.)
FairSpec ==
    /\ Spec
    /\ \A t \in Thread : WF_vars(Post(t))
    /\ WF_vars(PerformLater) /\ WF_vars(ProcessTasks) /\ WF_vars(InvocationEnds)

-----------------------------------------------------------------------------
(* Properties *)

\* Every invocation goes to the target its own thread prepared, although the target
\* passes through an instance variable all threads share.
TargetIsOwn ==
    \A s \in {myTasks, batch, delivered} :
        \A i \in 1..Len(s) : s[i].target = Owner[s[i].task]

\* The lock, the batches, the two ways of waking the thread and a send that fails
\* implement a mailbox: exactly once, in order, to the right target.
Box == INSTANCE Mailbox WITH mail <- batch \o myTasks, delivered <- delivered

\* See Box.
ImplementsMailbox == Box!Spec

\* Thread t has a perform of runloopResend: due that nothing will carry out.
WakeupLost(t) == t \notin HasRunLoop /\ resend[t] > 0

WakeupComing ==
    \/ port > 0 \/ delayed > 0
    \/ \E t \in Thread : pc[t] = "added" \/ (t \in HasRunLoop /\ resend[t] > 0)

\* Whatever has been added to myTasks and is not invoked has a wakeup on its way,
\* though a message may find the port full or raise an exception; the one thing that
\* leaves an invocation asleep is an exception on a thread that runs no run loop, and
\* then it is an invocation of that thread.
AddedIsWoken ==
    WakeupComing \/ \A i \in 1..Len(myTasks) : WakeupLost(Owner[myTasks[i].task])

\* Every invocation a thread begins to post is carried out, unless a send of that
\* thread raised an exception and it runs no run loop.
EveryTaskRuns ==
    \A k \in Task :
        calls[k[1]] >= k[2] ~>
            (\E i \in 1..Len(delivered) : delivered[i].task = k) \/ WakeupLost(k[1])
=============================================================================
