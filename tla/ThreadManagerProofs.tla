------------------------- MODULE ThreadManagerProofs -------------------------
(***************************************************************************)
(* What ThreadManager.tla states of every number of threads, of calls and  *)
(* of messages in the port: each invocation reaches the target its own     *)
(* thread prepared, none that is waiting is without a wakeup unless the    *)
(* wakeup of its thread was lost, and the manager is a mailbox.            *)
(*                                                                         *)
(* ManagerInv is the inductive invariant: the lock is held from the        *)
(* prepared target to the forwarded invocation, and the numbers of the     *)
(* invocations in the queues lie behind the counters they come from.       *)
(***************************************************************************)
EXTENDS ThreadManager, TLAPS, SequenceTheorems

\* myTarget is the target of the thread that holds the lock, from the first of its
\* two messages to the second, and the invocation takes it along.
LockIsHeld ==
    /\ \A t \in Thread : pc[t] = "prepared" => lock = t /\ myTarget = t
    /\ \A t \in Thread : pc[t] = "forwarded" => target[t] = t
    /\ \A t \in Thread : pc[t] \in {"prepared", "forwarded"} => calls[t] \in 1..MaxCalls

\* The invocation a thread is about to add has a number no earlier one has.
Earlier(e) ==
    /\ e.task[2] <= calls[e.task[1]]
    /\ pc[e.task[1]] \in {"prepared", "forwarded"} => e.task[2] < calls[e.task[1]]

NumbersAreFresh ==
    \A s \in {myTasks, batch, delivered} : \A i \in 1..Len(s) : Earlier(s[i])

\* A thread's places in its call.
Place == {"idle", "prepared", "forwarded", "added"}

-----------------------------------------------------------------------------
(* Types *)

\* A task is a thread and a number; its owner is the thread.
LEMMA TaskParts ==
    ASSUME NEW k \in Task
    PROVE  /\ k[1] \in Thread /\ k[2] \in 1..MaxCalls
           /\ k = <<k[1], k[2]>> /\ Owner[k] = k[1]
BY DEF Task, Owner

\* The manager starts well typed, and so does every post.
LEMMA InitTyped == Init => TypeOK
BY BoundAssumption DEF Init, TypeOK

\* A counter below its bound can be incremented, and is then ahead of what it was
\* not behind.
LEMMA CountUp ==
    ASSUME NEW x \in Nat, NEW max \in Nat, x < max
    PROVE  x + 1 \in 1..max /\ x + 1 \in 0..max
OBVIOUS

\* What is not ahead of a number is behind the next.
LEMMA Ahead ==
    ASSUME NEW x \in Nat, NEW y \in Nat, y <= x, NEW z, z = x + 1
    PROVE  y < z /\ y <= z
OBVIOUS

\* Going to another place keeps pc's type.
LEMMA PlaceTyped ==
    ASSUME pc \in [Thread -> Place], NEW t \in Thread, NEW place \in Place,
           pc' = [pc EXCEPT ![t] = place]
    PROVE  pc' \in [Thread -> Place]
OBVIOUS

\* A changed number of performs keeps resend's type.
LEMMA ResendTyped ==
    ASSUME resend \in [Thread -> Nat], NEW t \in Thread, NEW n \in Nat,
           resend' = [resend EXCEPT ![t] = n]
    PROVE  resend' \in [Thread -> Nat]
OBVIOUS

\* Every step keeps the types.
LEMMA StepTyped == TypeOK /\ LockIsHeld /\ [Next]_vars => TypeOK'
<1> SUFFICES ASSUME TypeOK, LockIsHeld, [Next]_vars PROVE TypeOK' OBVIOUS
<1>0. pc \in [Thread -> Place] BY DEF TypeOK, Place
<1>q. pc' \in [Thread -> Place]
          => pc' \in [Thread -> {"idle", "prepared", "forwarded", "added"}]
    BY DEF Place
<1>1. ASSUME NEW t \in Thread, Prepare(t) PROVE TypeOK'
    <2>1. pc' \in [Thread -> Place] BY <1>0, <1>1, PlaceTyped DEF Prepare, Place
    <2>2. calls[t] \in 0..MaxCalls /\ calls[t] < MaxCalls BY <1>1 DEF Prepare, TypeOK
    <2>3. calls[t] + 1 \in 0..MaxCalls BY <2>2, BoundAssumption
    <2>4. calls' \in [Thread -> 0..MaxCalls] BY <1>1, <2>3 DEF Prepare, TypeOK
    <2> QED BY <1>q, <1>1, <2>1, <2>4 DEF Prepare, TypeOK
<1>2. ASSUME NEW t \in Thread, Post(t) PROVE TypeOK'
    <2>0. pc' \in [Thread -> Place]
        BY <1>0, <1>2, PlaceTyped DEF Place, Post, ForwardInvocation, AddTask,
           SendMessage, SendTimesOut, SendRaises, RunloopResend
    <2>1. CASE ForwardInvocation(t)
        <3>1. target' \in [Thread -> Thread \cup {None}]
            BY <2>1 DEF ForwardInvocation, TypeOK
        <3> QED BY <1>q, <2>0, <2>1, <3>1 DEF ForwardInvocation, TypeOK
    <2>2. CASE AddTask(t)
        <3>1. calls[t] \in 1..MaxCalls BY <2>2 DEF AddTask, LockIsHeld
        <3>2. target[t] \in Thread \cup {None} BY DEF TypeOK
        <3>3. [task |-> <<t, calls[t]>>, target |-> target[t]] \in Entry
            BY <3>1, <3>2 DEF Entry, Task
        <3>4. myTasks' \in Seq(Entry)
            BY <2>2, <3>3, AppendProperties DEF AddTask, TypeOK
        <3> QED BY <1>q, <2>0, <2>2, <3>4 DEF AddTask, TypeOK
    <2>3. CASE SendMessage(t)
        <3>1. port \in 0..MaxPort /\ port < MaxPort /\ port' = port + 1
            BY <2>3 DEF SendMessage, TypeOK
        <3>2. port' \in 0..MaxPort BY <3>1, BoundAssumption
        <3> QED BY <1>q, <2>0, <2>3, <3>2 DEF SendMessage, TypeOK
    <2>4. CASE SendTimesOut(t) BY <1>q, <2>0, <2>4 DEF SendTimesOut, TypeOK
    <2>5. CASE SendRaises(t)
        <3>1. raises[t] \in 0..MaxRaises /\ raises[t] < MaxRaises
            BY <2>5 DEF SendRaises, TypeOK
        <3>2. raises[t] + 1 \in 0..MaxRaises BY <3>1, BoundAssumption
        <3>3. raises' \in [Thread -> 0..MaxRaises] BY <2>5, <3>2 DEF SendRaises, TypeOK
        <3>4. resend \in [Thread -> Nat] BY DEF TypeOK
        <3>5. resend[t] + 1 \in Nat BY <3>4
        <3>6. resend' \in [Thread -> Nat] BY <2>5, <3>4, <3>5, ResendTyped DEF SendRaises
        <3> QED BY <1>q, <2>0, <2>5, <3>3, <3>6 DEF SendRaises, TypeOK
    <2>6. CASE RunloopResend(t)
        <3>1. resend \in [Thread -> Nat] BY DEF TypeOK
        <3>2. resend[t] \in Nat /\ resend[t] > 0 BY <2>6, <3>1 DEF RunloopResend
        <3>3. resend[t] - 1 \in Nat BY <3>2
        <3>4. resend' \in [Thread -> Nat]
            BY <2>6, <3>1, <3>3, ResendTyped DEF RunloopResend
        <3> QED BY <1>q, <2>0, <2>6, <3>4 DEF RunloopResend, TypeOK
    <2> QED BY <1>2, <2>1, <2>2, <2>3, <2>4, <2>5, <2>6 DEF Post
<1>3. CASE PerformLater
    <2>1. pc' \in [Thread -> Place]
        BY <1>0, <1>3, PlaceTyped DEF PerformLater, Place, Thread
    <2>2. delayed \in Nat BY DEF TypeOK
    <2>3. delayed' \in Nat BY <1>3, <2>2 DEF PerformLater
    <2> QED BY <1>q, <1>3, <2>1, <2>3 DEF PerformLater, TypeOK
<1>4. CASE ProcessTasks
    <2>0. port \in 0..MaxPort /\ delayed \in Nat BY DEF TypeOK
    <2>1. port' \in 0..MaxPort /\ delayed' \in Nat
        BY <1>4, <2>0, BoundAssumption DEF ProcessTasks
    <2>2. batch' \in Seq(Entry) /\ myTasks' \in Seq(Entry)
        BY <1>4 DEF ProcessTasks, TypeOK
    <2> QED BY <1>4, <2>1, <2>2 DEF ProcessTasks, TypeOK
<1>5. CASE InvocationEnds
    <2>1. Head(batch) \in Entry /\ Tail(batch) \in Seq(Entry)
        BY <1>5, HeadTailProperties DEF InvocationEnds, TypeOK
    <2>2. delivered' \in Seq(Entry)
        BY <1>5, <2>1, AppendProperties DEF InvocationEnds, TypeOK
    <2>3. batch' \in Seq(Entry) BY <1>5, <2>1 DEF InvocationEnds
    <2> QED BY <1>5, <2>2, <2>3 DEF InvocationEnds, TypeOK
<1>6. CASE UNCHANGED vars BY <1>6 DEF vars, TypeOK
<1> QED BY <1>1, <1>2, <1>3, <1>4, <1>5, <1>6 DEF Next

-----------------------------------------------------------------------------
(* The lock *)

\* Every step keeps the lock with the thread that prepared a target.
LEMMA StepLocked == TypeOK /\ LockIsHeld /\ [Next]_vars => LockIsHeld'
<1> SUFFICES ASSUME TypeOK, LockIsHeld, [Next]_vars PROVE LockIsHeld' OBVIOUS
<1> USE ThreadAssumption DEF TypeOK, LockIsHeld
<1>1. ASSUME NEW t \in Thread, Prepare(t) PROVE LockIsHeld'
    <2>1. calls[t] \in Nat /\ calls[t] < MaxCalls BY <1>1 DEF Prepare
    <2>2. calls[t] + 1 \in 1..MaxCalls BY <2>1, CountUp, BoundAssumption
    <2>3. calls'[t] = calls[t] + 1 /\ lock' = t /\ myTarget' = t BY <1>1 DEF Prepare
    <2>4. ASSUME NEW u \in Thread, u # t
          PROVE  /\ pc'[u] = pc[u] /\ target'[u] = target[u] /\ calls'[u] = calls[u]
                 /\ pc[u] # "prepared"
        BY <1>1, <2>4 DEF Prepare
    <2>5. pc'[t] = "prepared" BY <1>1 DEF Prepare
    <2> QED BY <2>2, <2>3, <2>4, <2>5
<1>2. ASSUME NEW t \in Thread, Post(t) PROVE LockIsHeld'
    <2>1. CASE ForwardInvocation(t) BY <2>1 DEF ForwardInvocation
    <2>2. CASE AddTask(t) BY <2>2 DEF AddTask
    <2>3. CASE SendMessage(t) BY <2>3 DEF SendMessage
    <2>4. CASE SendTimesOut(t) BY <2>4 DEF SendTimesOut
    <2>5. CASE SendRaises(t) BY <2>5 DEF SendRaises
    <2>6. CASE RunloopResend(t) BY <2>6 DEF RunloopResend
    <2> QED BY <1>2, <2>1, <2>2, <2>3, <2>4, <2>5, <2>6 DEF Post
<1>3. CASE PerformLater BY <1>3 DEF PerformLater
<1>4. CASE ProcessTasks BY <1>4 DEF ProcessTasks
<1>5. CASE InvocationEnds BY <1>5 DEF InvocationEnds
<1>6. CASE UNCHANGED vars BY <1>6 DEF vars
<1> QED BY <1>1, <1>2, <1>3, <1>4, <1>5, <1>6 DEF Next
-----------------------------------------------------------------------------
(* The invocations in the queues *)

InQueues(e) == \E s \in {myTasks, batch, delivered} : \E i \in 1..Len(s) : s[i] = e

\* What AddTask adds for thread t.
Posted(t) == [task |-> <<t, calls[t]>>, target |-> target[t]]

\* What is in a queue is an entry.
LEMMA QueuedIsEntry == ASSUME TypeOK, NEW e, InQueues(e) PROVE e \in Entry
BY ElementOfSeq DEF TypeOK, InQueues

\* An invocation in a queue was in a queue before, or has just been added.
LEMMA StepEntries ==
    ASSUME TypeOK, [Next]_vars, NEW e, InQueues(e)'
    PROVE  InQueues(e) \/ \E t \in Thread : AddTask(t) /\ e = Posted(t)
<1> USE DEF TypeOK
<1>1. ASSUME NEW t \in Thread, AddTask(t)
      PROVE  InQueues(e) \/ \E u \in Thread : AddTask(u) /\ e = Posted(u)
    <2>1. PICK s \in {myTasks', batch, delivered} : \E i \in 1..Len(s) : s[i] = e
        BY <1>1 DEF AddTask, InQueues
    <2>2. CASE s # myTasks' BY <2>1, <2>2 DEF InQueues
    <2>3. CASE s = myTasks'
        <3>1. Len(myTasks) \in Nat /\ myTasks' = Append(myTasks, Posted(t))
            BY <1>1 DEF AddTask, Posted
        <3>2. PICK i \in 1..Len(myTasks') : myTasks'[i] = e BY <2>1, <2>3
        <3>3. i \in 1..Len(myTasks) => e = myTasks[i] BY <3>1, <3>2
        <3>4. i \notin 1..Len(myTasks) => e = Posted(t) BY <3>1, <3>2
        <3>5. InQueues(e) \/ e = Posted(t)
            BY <3>1, <3>2, <3>3, <3>4 DEF InQueues
        <3> QED BY <1>1, <3>5
    <2> QED BY <2>1, <2>2, <2>3
<1>2. CASE ProcessTasks BY <1>2 DEF ProcessTasks, InQueues
<1>3. CASE InvocationEnds
    <2>1. PICK s \in {myTasks, batch', delivered'} : \E i \in 1..Len(s) : s[i] = e
        BY <1>3 DEF InvocationEnds, InQueues
    <2>2. Len(batch) \in Nat \ {0} /\ Head(batch) = batch[1]
        BY <1>3 DEF InvocationEnds
    <2>3. CASE s = batch'
        <3>1. PICK i \in 1..(Len(batch) - 1) : Tail(batch)[i] = e
            BY <1>3, <2>1, <2>3, HeadTailProperties DEF InvocationEnds
        <3>2. i + 1 \in 1..Len(batch) /\ batch[i + 1] = e
            BY <1>3, <2>2, <3>1, HeadTailProperties DEF InvocationEnds
        <3> QED BY <3>2 DEF InQueues
    <2>4. CASE s = delivered'
        <3>1. Len(delivered) \in Nat /\ delivered' = Append(delivered, batch[1])
            BY <1>3, <2>2 DEF InvocationEnds
        <3>2. PICK i \in 1..(Len(delivered) + 1) : Append(delivered, batch[1])[i] = e
            BY <2>1, <2>4, <3>1
        <3>3. i \in 1..Len(delivered) => e = delivered[i] BY <3>2
        <3>4. i = Len(delivered) + 1 => e = batch[1] BY <3>2
        <3>5. 1 \in 1..Len(batch) BY <2>2
        <3> QED BY <3>1, <3>2, <3>3, <3>4, <3>5 DEF InQueues
    <2>5. CASE s = myTasks BY <2>1, <2>5 DEF InQueues
    <2> QED BY <2>1, <2>3, <2>4, <2>5
<1>4. CASE UNCHANGED <<myTasks, batch, delivered>> BY <1>4 DEF InQueues
<1>5. ASSUME NEW t \in Thread, Prepare(t) \/ Post(t), ~AddTask(t)
      PROVE  UNCHANGED <<myTasks, batch, delivered>>
    BY <1>5 DEF Prepare, Post, ForwardInvocation, SendMessage, SendTimesOut,
                SendRaises, RunloopResend
<1>6. PerformLater => UNCHANGED <<myTasks, batch, delivered>> BY DEF PerformLater
<1>7. UNCHANGED vars => UNCHANGED <<myTasks, batch, delivered>> BY DEF vars
<1> QED BY <1>1, <1>2, <1>3, <1>4, <1>5, <1>6, <1>7 DEF Next

\* The counters never fall behind an invocation's number.
LEMMA StepEarlier ==
    ASSUME TypeOK, [Next]_vars, NEW e \in Entry, Earlier(e)
    PROVE  Earlier(e)'
<1> DEFINE o == e.task[1]
           n == e.task[2]
<1>1. o \in Thread /\ n \in Nat BY TaskParts, BoundAssumption DEF Entry
<1> USE <1>1, BoundAssumption DEF TypeOK, Earlier
<1>2. ASSUME NEW t \in Thread, Prepare(t) PROVE Earlier(e)'
    <2>1. CASE t = o
        <3>1. calls'[o] = calls[o] + 1 BY <1>2, <2>1 DEF Prepare
        <3>2. calls[o] \in Nat /\ n <= calls[o] BY <1>1
        <3>3. n < calls'[o] /\ n <= calls'[o] BY <1>1, <3>1, <3>2, Ahead
        <3> QED BY <3>3
    <2>2. CASE t # o
        <3>1. calls'[o] = calls[o] /\ pc'[o] = pc[o] BY <1>2, <2>2 DEF Prepare
        <3> QED BY <3>1
    <2> QED BY <2>1, <2>2
<1>3. ASSUME NEW t \in Thread, Post(t) PROVE Earlier(e)'
    <2>1. CASE ForwardInvocation(t) BY <2>1 DEF ForwardInvocation
    <2>2. CASE AddTask(t) BY <2>2 DEF AddTask
    <2>3. CASE SendMessage(t) BY <2>3 DEF SendMessage
    <2>4. CASE SendTimesOut(t) BY <2>4 DEF SendTimesOut
    <2>5. CASE SendRaises(t) BY <2>5 DEF SendRaises
    <2>6. CASE RunloopResend(t) BY <2>6 DEF RunloopResend
    <2> QED BY <1>3, <2>1, <2>2, <2>3, <2>4, <2>5, <2>6 DEF Post
<1>4. CASE PerformLater BY <1>4 DEF PerformLater, Thread
<1>5. CASE ProcessTasks BY <1>5 DEF ProcessTasks
<1>6. CASE InvocationEnds BY <1>6 DEF InvocationEnds
<1>7. CASE UNCHANGED vars BY <1>7 DEF vars
<1> QED BY <1>2, <1>3, <1>4, <1>5, <1>6, <1>7 DEF Next

\* A step keeps every invocation with its own target.
LEMMA StepTarget ==
    TypeOK /\ LockIsHeld /\ TargetIsOwn /\ [Next]_vars => TargetIsOwn'
<1> SUFFICES ASSUME TypeOK, LockIsHeld, TargetIsOwn, [Next]_vars,
                    NEW e, InQueues(e)'
             PROVE  e.target = Owner[e.task]
    BY DEF TargetIsOwn, InQueues
<1>1. CASE InQueues(e) BY <1>1 DEF TargetIsOwn, InQueues
<1>2. ASSUME NEW t \in Thread, AddTask(t), e = Posted(t)
      PROVE  e.target = Owner[e.task]
    <2>1. target[t] = t /\ <<t, calls[t]>> \in Task
        BY <1>2 DEF AddTask, LockIsHeld, Task
    <2>2. Owner[<<t, calls[t]>>] = t BY <2>1, TaskParts
    <2> QED BY <1>2, <2>1, <2>2 DEF Posted
<1> QED BY <1>1, <1>2, StepEntries

\* A step keeps the numbers in the queues behind the counters.
LEMMA StepFresh ==
    TypeOK /\ LockIsHeld /\ NumbersAreFresh /\ [Next]_vars => NumbersAreFresh'
<1> SUFFICES ASSUME TypeOK, LockIsHeld, NumbersAreFresh, [Next]_vars,
                    NEW e, InQueues(e)'
             PROVE  Earlier(e)'
    BY DEF NumbersAreFresh, InQueues
<1>1. CASE InQueues(e)
    <2>1. e \in Entry /\ Earlier(e)
        BY <1>1, QueuedIsEntry DEF NumbersAreFresh, InQueues
    <2> QED BY <2>1, StepEarlier
<1>2. ASSUME NEW t \in Thread, AddTask(t), e = Posted(t)
      PROVE  Earlier(e)'
    BY <1>2 DEF AddTask, Posted, Earlier, TypeOK, LockIsHeld
<1> QED BY <1>1, <1>2, StepEntries

\* What AddedIsWoken says of one invocation, by the thread that posted it.
Woken(t) == port > 0 \/ delayed > 0 \/ pc[t] = "added" \/ resend[t] > 0

\* The wakeup an invocation counts on is one its own thread sent, or is yet to send.
OwnersAreWoken == \A i \in 1..Len(myTasks) : Woken(Owner[myTasks[i].task])

\* An invocation in myTasks is of one of the threads.
LEMMA TasksHaveOwners ==
    ASSUME TypeOK, NEW i \in 1..Len(myTasks)
    PROVE  Owner[myTasks[i].task] \in Thread
<1>1. myTasks[i] \in Entry BY ElementOfSeq DEF TypeOK
<1>2. myTasks[i].task \in Task BY <1>1 DEF Entry
<1>3. \A k \in Task : Owner[k] = k[1] /\ k[1] \in Thread BY TaskParts
<1> QED BY <1>2, <1>3

\* An invocation is asleep only when its thread's wakeup is lost.
LEMMA OwnersGiveWakeups == TypeOK /\ OwnersAreWoken => AddedIsWoken
<1> SUFFICES ASSUME TypeOK, OwnersAreWoken, ~WakeupComing, NEW i \in 1..Len(myTasks)
             PROVE  WakeupLost(Owner[myTasks[i].task])
    BY DEF AddedIsWoken
<1> DEFINE t == Owner[myTasks[i].task]
<1>1. t \in Thread BY TasksHaveOwners
<1>2. resend[t] > 0 BY <1>1 DEF OwnersAreWoken, Woken, WakeupComing
<1> QED BY <1>1, <1>2 DEF WakeupLost, WakeupComing

\* A thread that has a wakeup has one after any step but the one that empties myTasks.
LEMMA StepWakeup ==
    ASSUME TypeOK, [Next]_vars, ~ProcessTasks, NEW u \in Thread, Woken(u)
    PROVE  Woken(u)'
<1> USE BoundAssumption, ThreadAssumption DEF TypeOK, Woken
<1>1. ASSUME NEW t \in Thread, Prepare(t) PROVE Woken(u)'
    BY <1>1 DEF Prepare
<1>2. ASSUME NEW t \in Thread, Post(t) PROVE Woken(u)'
    <2>1. CASE ForwardInvocation(t) BY <2>1 DEF ForwardInvocation
    <2>2. CASE AddTask(t) BY <2>2 DEF AddTask
    <2>3. CASE SendMessage(t) BY <2>3 DEF SendMessage
    <2>4. CASE SendTimesOut(t) BY <2>4 DEF SendTimesOut
    <2>5. CASE SendRaises(t) BY <2>5 DEF SendRaises
    <2>6. CASE RunloopResend(t) BY <2>6 DEF RunloopResend
    <2> QED BY <1>2, <2>1, <2>2, <2>3, <2>4, <2>5, <2>6 DEF Post
<1>3. CASE PerformLater BY <1>3 DEF PerformLater
<1>5. CASE InvocationEnds BY <1>5 DEF InvocationEnds
<1>6. CASE UNCHANGED vars BY <1>6 DEF vars
<1> QED BY <1>1, <1>2, <1>3, <1>5, <1>6 DEF Next

\* A step that neither adds a task nor takes them all leaves myTasks as it is.
LEMMA StepKeepsTasks ==
    ASSUME [Next]_vars, ~ProcessTasks, \A t \in Thread : ~AddTask(t)
    PROVE  UNCHANGED myTasks
<1>1. ASSUME NEW t \in Thread, Prepare(t) \/ Post(t), ~AddTask(t)
      PROVE  UNCHANGED myTasks
    BY <1>1 DEF Prepare, Post, ForwardInvocation, SendMessage, SendTimesOut,
                SendRaises, RunloopResend
<1> QED BY <1>1 DEF Next, vars, PerformLater, InvocationEnds

\* A step leaves no invocation without the wakeup of its thread.
LEMMA StepWoken == TypeOK /\ LockIsHeld /\ OwnersAreWoken /\ [Next]_vars => OwnersAreWoken'
<1> SUFFICES ASSUME TypeOK, LockIsHeld, OwnersAreWoken, [Next]_vars,
                    NEW i \in 1..Len(myTasks'), NEW o, o = Owner[myTasks'[i].task]
             PROVE  Woken(o)'
    BY DEF OwnersAreWoken
<1>1. CASE ProcessTasks
    <2>1. Len(myTasks') = 0 BY <1>1 DEF ProcessTasks
    <2> QED BY <2>1
<1>2. ASSUME NEW t \in Thread, AddTask(t), ~ProcessTasks
      PROVE  Woken(o)'
    <2>1. Len(myTasks) \in Nat /\ myTasks' = Append(myTasks, Posted(t))
        BY <1>2 DEF AddTask, Posted, TypeOK
    <2>2. CASE i \in 1..Len(myTasks)
        <3>1. myTasks'[i] = myTasks[i] BY <2>1, <2>2
        <3>2. Owner[myTasks[i].task] \in Thread BY <2>2, TasksHaveOwners
        <3> QED BY <1>2, <2>2, <3>1, <3>2, StepWakeup DEF OwnersAreWoken
    <2>3. CASE i \notin 1..Len(myTasks)
        <3>1. myTasks'[i].task = <<t, calls[t]>> BY <2>1, <2>3 DEF Posted
        <3>2. <<t, calls[t]>> \in Task BY <1>2 DEF AddTask, LockIsHeld, Task
        <3>3. o = t BY <3>1, <3>2, TaskParts
        <3>4. pc'[t] = "added" BY <1>2 DEF AddTask, TypeOK
        <3> QED BY <3>3, <3>4 DEF Woken
    <2> QED BY <2>2, <2>3
<1>3. CASE ~ProcessTasks /\ \A t \in Thread : ~AddTask(t)
    <2>1. myTasks' = myTasks BY <1>3, StepKeepsTasks
    <2>2. Owner[myTasks[i].task] \in Thread BY <2>1, TasksHaveOwners
    <2> QED BY <1>3, <2>1, <2>2, StepWakeup DEF OwnersAreWoken
<1> QED BY <1>1, <1>2, <1>3
-----------------------------------------------------------------------------
(* The theorems *)

ManagerInv == TypeOK /\ LockIsHeld /\ TargetIsOwn /\ NumbersAreFresh /\ OwnersAreWoken

\* The invariant holds at the start.
LEMMA InitInv == Init => ManagerInv
<1> SUFFICES ASSUME Init PROVE ManagerInv OBVIOUS
<1>1. TypeOK BY InitTyped
<1>2. LockIsHeld BY DEF Init, LockIsHeld
<1>3. TargetIsOwn /\ NumbersAreFresh
    BY DEF Init, TargetIsOwn, NumbersAreFresh
<1>4. OwnersAreWoken BY DEF Init, OwnersAreWoken
<1> QED BY <1>1, <1>2, <1>3, <1>4 DEF ManagerInv

\* Every step keeps the invariant.
LEMMA StepInv == ManagerInv /\ [Next]_vars => ManagerInv'
BY StepTyped, StepLocked, StepTarget, StepFresh, StepWoken DEF ManagerInv

\* The manager's inductive invariant (CKConnectionThreadManager): what follows from
\* it holds for every number of threads.
THEOREM ManagerCorrect == Spec => []ManagerInv
BY InitInv, StepInv, PTL DEF Spec

\* Every variable of the manager keeps its type.
THEOREM TypeCorrect == Spec => []TypeOK
<1>1. ManagerInv => TypeOK BY DEF ManagerInv
<1> QED BY <1>1, ManagerCorrect, PTL

\* prepareWithInvocationTarget: and forwardInvocation: hand every invocation to the
\* target of its own thread.
THEOREM TargetCorrect == Spec => []TargetIsOwn
<1>1. ManagerInv => TargetIsOwn BY DEF ManagerInv
<1> QED BY <1>1, ManagerCorrect, PTL

\* scheduleInvocation: leaves no invocation in myTasks without a wakeup to come, but
\* those of a thread that runs no run loop and whose send raised an exception.
THEOREM WokenCorrect == Spec => []AddedIsWoken
<1>1. ManagerInv => AddedIsWoken BY OwnersGiveWakeups DEF ManagerInv
<1> QED BY <1>1, ManagerCorrect, PTL

-----------------------------------------------------------------------------
(* The mailbox *)

\* Adding a task is a post of the mailbox: no entry in it is that task already.
LEMMA AddTaskPosts ==
    ASSUME ManagerInv, NEW t \in Thread, AddTask(t)
    PROVE  Box!Post(<<t, calls[t]>>)
<1> DEFINE k == <<t, calls[t]>>
<1> USE DEF ManagerInv
<1>1. k \in Task /\ Owner[k] = t /\ target[t] = t
    <2>1. k \in Task /\ target[t] = t BY DEF AddTask, LockIsHeld, Task
    <2> QED BY <2>1, TaskParts
<1>2. ASSUME NEW e, InQueues(e) PROVE e.task # k
    <2>1. Earlier(e) BY <1>2 DEF InQueues, NumbersAreFresh
    <2>2. pc[t] = "forwarded" /\ calls[t] \in Int
        BY BoundAssumption DEF AddTask, TypeOK
    <2>3. k[1] = t /\ k[2] = calls[t] OBVIOUS
    <2>4. CASE e.task = k
        <3>1. calls[t] < calls[t] BY <2>1, <2>2, <2>3, <2>4 DEF Earlier
        <3> QED BY <2>2, <3>1
    <2> QED BY <2>4
<1>3. ~Box!InMail(k)
    <2>1. SUFFICES ASSUME NEW i \in 1..Len(batch \o myTasks)
                   PROVE  InQueues((batch \o myTasks)[i])
        BY <1>2 DEF Box!InMail
    <2>1a. batch \in Seq(Entry) /\ myTasks \in Seq(Entry) BY DEF TypeOK
    <2>1b. Len(batch) \in Nat /\ Len(myTasks) \in Nat BY <2>1a
    <2>1c. Len(batch \o myTasks) = Len(batch) + Len(myTasks) BY <2>1a, ConcatProperties
    <2>2. /\ Len(batch) \in Nat /\ Len(myTasks) \in Nat
          /\ i \in 1..(Len(batch) + Len(myTasks))
        BY <2>1b, <2>1c
    <2>3. CASE i <= Len(batch)
        <3>1. (batch \o myTasks)[i] = batch[i] BY <2>2, <2>3 DEF TypeOK
        <3> QED BY <3>1, <2>2, <2>3 DEF InQueues
    <2>4. CASE i > Len(batch)
        <3>1. (batch \o myTasks)[i] = myTasks[i - Len(batch)]
            BY <2>2, <2>4 DEF TypeOK
        <3>2. i - Len(batch) \in 1..Len(myTasks) BY <2>2, <2>4
        <3> QED BY <3>1, <3>2 DEF InQueues
    <2> QED BY <2>2, <2>3, <2>4
<1>4. ~Box!IsDelivered(k) BY <1>2 DEF Box!IsDelivered, InQueues
<1>5. (batch \o myTasks)' = Append(batch \o myTasks, [task |-> k, target |-> Owner[k]])
    <2>1. Posted(t) \in Entry /\ Posted(t) = [task |-> k, target |-> Owner[k]]
        BY <1>1 DEF Posted, Entry, TypeOK
    <2>2. batch' = batch /\ myTasks' = Append(myTasks, Posted(t))
        BY DEF AddTask, Posted
    <2>3. batch \o Append(myTasks, Posted(t)) = Append(batch \o myTasks, Posted(t))
        <3>1. <<Posted(t)>> \in Seq(Entry) BY <2>1
        <3>2. batch \in Seq(Entry) /\ myTasks \in Seq(Entry)
              /\ (batch \o myTasks) \in Seq(Entry)
            BY DEF TypeOK
        <3>3. Append(myTasks, Posted(t)) = myTasks \o <<Posted(t)>>
            BY <2>1, AppendIsConcat DEF TypeOK
        <3>4. Append(batch \o myTasks, Posted(t)) = (batch \o myTasks) \o <<Posted(t)>>
            BY <2>1, <3>2, AppendIsConcat
        <3>5. (batch \o myTasks) \o <<Posted(t)>> = batch \o (myTasks \o <<Posted(t)>>)
            BY <3>1, <3>2, ConcatAssociative
        <3> QED BY <3>3, <3>4, <3>5
    <2> QED BY <2>1, <2>2, <2>3
<1>6. delivered' = delivered BY DEF AddTask
<1> QED BY <1>3, <1>4, <1>5, <1>6 DEF Box!Post

\* Copying the tasks changes nothing of the mailbox.
LEMMA ProcessStutters ==
    ASSUME TypeOK, ProcessTasks
    PROVE  UNCHANGED Box!mailVars
<1>1. batch \o myTasks = myTasks /\ batch' \o myTasks' = myTasks
    BY ConcatEmptySeq DEF ProcessTasks, TypeOK
<1> QED BY <1>1 DEF Box!mailVars, ProcessTasks

\* The end of an invocation delivers the head of the mailbox.
LEMMA InvocationDelivers ==
    ASSUME TypeOK, InvocationEnds
    PROVE  Box!Deliver
<1>1. batch # <<>> /\ batch \in Seq(Entry) /\ myTasks \in Seq(Entry)
    BY DEF TypeOK, InvocationEnds
<1>2. batch \o myTasks # <<>> BY <1>1, ConcatEqualIffEmpty
<1>3. Head(batch \o myTasks) = Head(batch) BY <1>1, <1>2
<1>4. Tail(batch \o myTasks) = Tail(batch) \o myTasks BY <1>1, <1>2
<1> QED BY <1>2, <1>3, <1>4 DEF InvocationEnds, Box!Deliver

\* Every step of the manager is a step of the mailbox, or a stutter.
LEMMA StepMailbox ==
    ManagerInv /\ [Next]_vars => [Box!Next]_Box!mailVars
<1> SUFFICES ASSUME ManagerInv, [Next]_vars PROVE [Box!Next]_Box!mailVars OBVIOUS
<1> USE DEF ManagerInv
<1>1. ASSUME NEW t \in Thread, AddTask(t) PROVE Box!Next
    <2>1. <<t, calls[t]>> \in Task BY <1>1 DEF AddTask, LockIsHeld, Task
    <2> QED BY <1>1, <2>1, AddTaskPosts DEF Box!Next
<1>2. ASSUME NEW t \in Thread, Prepare(t) \/ Post(t), ~AddTask(t)
      PROVE  UNCHANGED Box!mailVars
    BY <1>2 DEF Prepare, Post, ForwardInvocation, SendMessage, SendTimesOut,
                SendRaises, RunloopResend, Box!mailVars
<1>3. CASE PerformLater BY <1>3 DEF PerformLater, Box!mailVars
<1>4. CASE ProcessTasks BY <1>4, ProcessStutters
<1>5. CASE InvocationEnds BY <1>5, InvocationDelivers DEF Box!Next
<1>6. CASE UNCHANGED vars BY <1>6 DEF vars, Box!mailVars
<1> QED BY <1>1, <1>2, <1>3, <1>4, <1>5, <1>6 DEF Next

\* CKConnectionThreadManager implements the mailbox: every invocation posted is
\* delivered at most once, in the order of posting, to the target it was meant for.
THEOREM MailboxImplemented == Spec => ImplementsMailbox
<1>1. Init => Box!Init
    <2>1. <<>> \o <<>> = <<>> BY ConcatEmptySeq
    <2> QED BY <2>1 DEF Init, Box!Init
<1> QED BY <1>1, StepMailbox, ManagerCorrect, PTL DEF Spec, ImplementsMailbox, Box!Spec
=============================================================================
