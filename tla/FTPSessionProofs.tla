-------------------------- MODULE FTPSessionProofs --------------------------
(***************************************************************************)
(* For every set of operations, and whatever the server refuses: as long   *)
(* as nothing was refused in the middle of an operation's commands, the    *)
(* record queues and the command queue stay in step, the delegate is told  *)
(* about the operation the server answered, once, and a transfer is sent   *)
(* over a data connection opened for it.  All of it rests on SessionInv,   *)
(* which says of the commands to be answered that they are whole           *)
(* operations, one after the other, but for the first.                     *)
(***************************************************************************)
EXTENDS FTPSession, SequenceTheorems, WellFoundedInduction, TLAPS

-----------------------------------------------------------------------------
(* Induction over numbers and sequences *)

\* A non-empty set of natural numbers has a least element.
LEMMA LeastElement ==
    ASSUME NEW T \in SUBSET Nat, T # {}
    PROVE  \E n \in T : \A m \in T : n <= m
<1>1. PICK n \in T : \A m \in T : ~(<<m, n>> \in OpToRel(<, Nat))
    BY WFMin, NatLessThanWellFounded
<1>2. \A m \in T : ~(m < n)
    BY <1>1 DEF OpToRel
<1> QED BY <1>2

\* Induction, for a set of numbers in place of a formula.
LEMMA SetInduction ==
    ASSUME NEW S, 0 \in S, \A n \in Nat : n \in S => n + 1 \in S
    PROVE  Nat \subseteq S
<1> SUFFICES ASSUME ~(Nat \subseteq S) PROVE FALSE
    OBVIOUS
<1> DEFINE T == Nat \ S
<1>1. T \in SUBSET Nat /\ T # {} OBVIOUS
<1>2. PICK n \in T : \A m \in T : n <= m
    BY <1>1, LeastElement
<1>3. n \in Nat /\ n \notin S /\ n # 0 OBVIOUS
<1>4. n - 1 \in Nat /\ n - 1 < n BY <1>3
<1>5. n - 1 \in S BY <1>2, <1>4
<1> QED BY <1>3, <1>4, <1>5

\* The same for sequences: one element more at the end.
LEMMA SequenceInduction ==
    ASSUME NEW A, NEW T, <<>> \in T,
           \A s \in Seq(A), x \in A : s \in T => Append(s, x) \in T
    PROVE  Seq(A) \subseteq T
<1> DEFINE N == {n \in Nat : \A s \in Seq(A) : Len(s) = n => s \in T}
<1>1. 0 \in N
    <2> SUFFICES ASSUME NEW s \in Seq(A), Len(s) = 0 PROVE s \in T
        OBVIOUS
    <2>1. s = <<>> OBVIOUS
    <2> QED BY <2>1
<1>2. \A n \in Nat : n \in N => n + 1 \in N
    <2> SUFFICES ASSUME NEW n \in Nat, n \in N, NEW s \in Seq(A), Len(s) = n + 1
                 PROVE s \in T
        OBVIOUS
    <2> DEFINE front == SubSeq(s, 1, n)
    <2>1. front \in Seq(A) /\ Len(front) = n OBVIOUS
    <2>2. s[n + 1] \in A /\ s = Append(front, s[n + 1]) OBVIOUS
    <2>3. front \in T BY <2>1
    <2> QED BY <2>1, <2>2, <2>3
<1>3. Nat \subseteq N BY <1>1, <1>2, SetInduction
<1> QED BY <1>3

-----------------------------------------------------------------------------
(* Keep computes what it should *)

\* What is kept of the first n elements, when f says what is kept of fewer.
Step(f, s, S, n) ==
    IF n = 0 THEN <<>>
    ELSE IF s[n] \in S THEN Append(f[n - 1], s[n]) ELSE f[n - 1]

Scan(f, s, S, n) == f = [i \in 0..n |-> Step(f, s, S, i)]

\* Such a function takes a step at every place.
LEMMA ScanAt ==
    ASSUME NEW f, NEW s, NEW S, NEW n \in Nat, Scan(f, s, S, n), NEW i \in 0..n
    PROVE  f[i] = Step(f, s, S, i)
BY DEF Scan

\* There is such a function, for a sequence of any length.
LEMMA ScanExists ==
    ASSUME NEW s, NEW S
    PROVE  \A n \in Nat : \E f : Scan(f, s, S, n)
<1> DEFINE N == {n \in Nat : \E f : Scan(f, s, S, n)}
<1>1. 0 \in N
    <2>1. Scan([i \in 0..0 |-> <<>>], s, S, 0) BY DEF Scan, Step
    <2> QED BY <2>1
<1>2. \A n \in Nat : n \in N => n + 1 \in N
    <2> SUFFICES ASSUME NEW n \in Nat, NEW f, Scan(f, s, S, n)
                 PROVE \E g : Scan(g, s, S, n + 1)
        OBVIOUS
    <2> DEFINE g == [i \in 0..(n + 1) |-> IF i = n + 1 THEN Step(f, s, S, n + 1) ELSE f[i]]
    <2>1. \A i \in 0..n : f[i] = Step(f, s, S, i) BY ScanAt
    <2>2. \A i \in 0..n : g[i] = f[i] OBVIOUS
    <2>3. \A i \in 0..(n + 1) : Step(g, s, S, i) = Step(f, s, S, i)
        <3> SUFFICES ASSUME NEW i \in 0..(n + 1), i # 0 PROVE g[i - 1] = f[i - 1]
            BY DEF Step
        <3> QED BY <2>2
    <2>4. \A i \in 0..(n + 1) : g[i] = Step(g, s, S, i)
        BY <2>1, <2>2, <2>3
    <2>5. g = [i \in 0..(n + 1) |-> Step(g, s, S, i)] BY <2>4
    <2> QED BY <2>5 DEF Scan
<1>3. Nat \subseteq N BY <1>1, <1>2, SetInduction
<1> QED BY <1>3

\* Two of them agree as far as their sequences do.
LEMMA ScansAgree ==
    ASSUME NEW s, NEW t, NEW S, NEW n \in Nat, NEW m \in Nat, NEW f, NEW g,
           Scan(f, s, S, n), Scan(g, t, S, m), NEW k \in Nat, k <= n, k <= m,
           \A i \in 1..k : s[i] = t[i]
    PROVE  f[k] = g[k]
<1> DEFINE N == {i \in Nat : i <= k => f[i] = g[i]}
<1>1. \A i \in 0..k : f[i] = Step(f, s, S, i) /\ g[i] = Step(g, t, S, i)
    <2>1. \A i \in 0..n : f[i] = Step(f, s, S, i) BY ScanAt
    <2>2. \A i \in 0..m : g[i] = Step(g, t, S, i) BY ScanAt
    <2> QED BY <2>1, <2>2
<1>2. 0 \in N BY <1>1 DEF Step
<1>3. \A i \in Nat : i \in N => i + 1 \in N
    <2> SUFFICES ASSUME NEW i \in Nat, f[i] = g[i], i + 1 <= k PROVE f[i + 1] = g[i + 1]
        OBVIOUS
    <2>1. s[i + 1] = t[i + 1] /\ i + 1 \in 0..k /\ i + 1 # 0 /\ (i + 1) - 1 = i OBVIOUS
    <2> QED BY <1>1, <2>1 DEF Step
<1>4. Nat \subseteq N BY <1>2, <1>3, SetInduction
<1> QED BY <1>4

\* Keep is what a scan of the whole sequence ends with.
LEMMA KeepScans ==
    ASSUME NEW A, NEW s \in Seq(A), NEW S, NEW f, NEW n \in Nat, n >= Len(s),
           NEW t, \A i \in 1..Len(s) : t[i] = s[i], Scan(f, t, S, n)
    PROVE  Keep(s, S) = f[Len(s)]
<1> DEFINE g == CHOOSE h : Scan(h, s, S, Len(s))
<1>1. Len(s) \in Nat OBVIOUS
<1>2. Scan(g, s, S, Len(s))
    <2>1. \E h : Scan(h, s, S, Len(s)) BY <1>1, ScanExists
    <2> QED BY <2>1, Zenon
<1>3. Keep(s, S) = g[Len(s)] BY Zenon DEF Keep, Scan, Step
<1>4. g[Len(s)] = f[Len(s)]
    <2> HIDE DEF g
    <2> QED BY <1>1, <1>2, ScansAgree
<1> QED BY <1>3, <1>4

\* Nothing is left of nothing.
LEMMA KeepEmpty == ASSUME NEW S PROVE Keep(<<>>, S) = <<>>
<1>1. PICK f : Scan(f, <<>>, S, 0) BY ScanExists
<1>2. \A s \in Seq(Nat) : Len(s) = 0 => Keep(s, S) = f[0]
    <2> SUFFICES ASSUME NEW s \in Seq(Nat), Len(s) = 0 PROVE Keep(s, S) = f[Len(s)]
        OBVIOUS
    <2>1. s = <<>> /\ 0 >= Len(s) /\ \A i \in 1..Len(s) : <<>>[i] = s[i] OBVIOUS
    <2> QED BY <1>1, <2>1, KeepScans
<1>3. <<>> \in Seq(Nat) /\ Len(<<>>) = 0 OBVIOUS
<1>4. Keep(<<>>, S) = f[0] BY <1>2, <1>3
<1>5. f[0] = Step(f, <<>>, S, 0) BY <1>1, ScanAt
<1> QED BY <1>4, <1>5 DEF Step

\* One element more is kept, or is not.
LEMMA KeepAppend ==
    ASSUME NEW A, NEW s \in Seq(A), NEW x \in A, NEW S
    PROVE  Keep(Append(s, x), S) = IF x \in S THEN Append(Keep(s, S), x) ELSE Keep(s, S)
<1> DEFINE t == Append(s, x)
           n == Len(s) + 1
<1>1. t \in Seq(A) /\ Len(t) = n /\ t[n] = x /\ n \in Nat /\ Len(s) \in Nat
      /\ \A i \in 1..Len(s) : t[i] = s[i]
    OBVIOUS
<1>2. PICK f : Scan(f, t, S, n) BY <1>1, ScanExists
<1> HIDE DEF t
<1>3. Keep(t, S) = f[n] BY <1>1, <1>2, KeepScans
<1>4. Keep(s, S) = f[Len(s)]
    <2>1. n >= Len(s) OBVIOUS
    <2> HIDE DEF n
    <2> QED BY <1>1, <1>2, <2>1, KeepScans
<1>5. f[n] = Step(f, t, S, n) BY <1>1, <1>2, ScanAt
<1> QED BY <1>1, <1>3, <1>4, <1>5 DEF Step, t

\* What is kept belongs to S.
LEMMA KeepType ==
    ASSUME NEW A, NEW s \in Seq(A), NEW S
    PROVE  Keep(s, S) \in Seq(A \cap S)
<1> DEFINE B == A \cap S
           T == {t \in Seq(A) : Keep(t, S) \in Seq(B)}
<1>1. <<>> \in T
    <2>1. <<>> \in Seq(A) /\ <<>> \in Seq(A \cap S) OBVIOUS
    <2> QED BY <2>1, KeepEmpty
<1>2. ASSUME NEW t \in Seq(A), NEW x \in A, t \in T PROVE Append(t, x) \in T
    <2>1. Keep(Append(t, x), S) = IF x \in S THEN Append(Keep(t, S), x) ELSE Keep(t, S)
        BY KeepAppend
    <2>2. Keep(t, S) \in Seq(B) /\ Append(t, x) \in Seq(A) BY <1>2
    <2>3. x \in S => x \in B OBVIOUS
    <2>4. x \in S => Append(Keep(t, S), x) \in Seq(B)
        <3> HIDE DEF B
        <3> QED BY <2>2, <2>3
    <2> QED BY <2>1, <2>2, <2>4
<1>3. Seq(A) \subseteq T BY <1>1, <1>2, SequenceInduction
<1> QED BY <1>3

\* And so it does to whatever the sequence's elements belong to.
LEMMA KeepSeq ==
    ASSUME NEW A, NEW s \in Seq(A), NEW S
    PROVE  Keep(s, S) \in Seq(A)
<1> DEFINE B == A \cap S
<1>1. Keep(s, S) \in Seq(B) BY KeepType
<1>2. B \subseteq A OBVIOUS
<1> HIDE DEF B
<1>3. \A t \in Seq(B) : t \in Seq(A) BY <1>2
<1> QED BY <1>1, <1>3

\* What is kept of two sequences, one after the other.
LEMMA KeepConcat ==
    ASSUME NEW A, NEW s \in Seq(A), NEW t \in Seq(A), NEW S
    PROVE  Keep(s \o t, S) = Keep(s, S) \o Keep(t, S)
<1> DEFINE T == {u \in Seq(A) : Keep(s \o u, S) = Keep(s, S) \o Keep(u, S)}
<1> DEFINE B == A \cap S
<1>0. \A u \in Seq(A) : Keep(u, S) \in Seq(B) BY KeepType
<1>1. <<>> \in T
    <2>1. Keep(s, S) \in Seq(B) BY <1>0
    <2>2. s \o <<>> = s /\ Keep(s, S) \o <<>> = Keep(s, S) /\ <<>> \in Seq(A)
        <3> HIDE DEF B
        <3> QED BY <2>1
    <2> QED BY <2>2, KeepEmpty
<1>2. ASSUME NEW u \in Seq(A), NEW x \in A, u \in T PROVE Append(u, x) \in T
    <2>1. s \o Append(u, x) = Append(s \o u, x) /\ s \o u \in Seq(A) OBVIOUS
    <2>2. Keep(s \o u, S) = Keep(s, S) \o Keep(u, S) BY <1>2
    <2>3. Keep(s, S) \in Seq(B) /\ Keep(u, S) \in Seq(B) BY <1>0
    <2>4. x \in S => Keep(s, S) \o Append(Keep(u, S), x) = Append(Keep(s, S) \o Keep(u, S), x)
        <3>1. x \in S => x \in B OBVIOUS
        <3> HIDE DEF B
        <3> QED BY <2>3, <3>1
    <2>5. Keep(Append(s \o u, x), S)
            = IF x \in S THEN Append(Keep(s \o u, S), x) ELSE Keep(s \o u, S)
        BY <2>1, KeepAppend
    <2>6. Keep(Append(u, x), S) = IF x \in S THEN Append(Keep(u, S), x) ELSE Keep(u, S)
        BY KeepAppend
    <2>7. Append(u, x) \in Seq(A) OBVIOUS
    <2> QED BY <2>1, <2>2, <2>4, <2>5, <2>6, <2>7
<1>3. Seq(A) \subseteq T BY <1>1, <1>2, SequenceInduction
<1> QED BY <1>3

\* One element alone.
LEMMA KeepOne ==
    ASSUME NEW x, NEW S
    PROVE  Keep(<<x>>, S) = IF x \in S THEN <<x>> ELSE <<>>
<1> DEFINE A == {x}
<1>1. <<>> \in Seq(A) /\ x \in A /\ <<x>> = Append(<<>>, x) OBVIOUS
<1>2. Keep(Append(<<>>, x), S)
        = IF x \in S THEN Append(Keep(<<>>, S), x) ELSE Keep(<<>>, S)
    <2> HIDE DEF A
    <2> QED BY <1>1, KeepAppend
<1> QED BY <1>1, <1>2, KeepEmpty

-----------------------------------------------------------------------------
(* The inductive invariant *)

\* The commands of a call that the client has still to queue.
ToSend == IF todo # <<>> /\ Head(todo).verb = "record" THEN Tail(todo) ELSE todo
ToSendRecorded == IF todo # <<>> /\ Head(todo).verb = "record" THEN <<>> ELSE todo

Sent == IF awaited = NoCommand THEN <<>> ELSE <<awaited>>
Unreported ==
    IF awaited = NoCommand \/ (Transferring /\ ~dataOpen) THEN <<>> ELSE <<awaited>>

\* The commands to be answered, in order.
Ahead == Sent \o (queue \o ToSend)

\* Those of operations the delegate has to be told about.
Open == Unreported \o (queue \o ToSend)

\* The commands one call queues.
Commands(o) == [i \in 1..Len(Verbs(Kind[o])) |-> [verb |-> Verbs(Kind[o])[i], op |-> o]]

FirstVerb == {"DELE", "RMD", "RNFR", "CHMOD", "SIZE", "DATA_CON"}
LastVerb == {"DELE", "RMD", "RNTO", "CHMOD", "RETR", "STOR", "LIST"}
OverData == {"REST", "RETR", "STOR", "LIST"}

\* d comes after c: it is the next command of the same operation, or the first of
\* another one.
Follows(c, d) ==
    IF c.verb \in LastVerb THEN d.op # c.op /\ d.verb \in FirstVerb
    ELSE d \in Dependants(c)

\* Whole operations, but for the first, which may have begun.
Chained(s) ==
    /\ \A i \in 1..Len(s) : i + 1 <= Len(s) => Follows(s[i], s[i + 1])
    /\ s # <<>> => s[Len(s)].verb \in LastVerb

\* Nothing of an operation comes after its last command.
Apart(s) ==
    \A i, j \in 1..Len(s) : i < j /\ s[i].verb \in LastVerb => s[i].op # s[j].op

\* A call queues its record first.
CallShape ==
    /\ \A i \in 1..Len(todo) : todo[i].verb = "record" => i = 1
    /\ todo # <<>> /\ Head(todo).verb = "record" =>
        /\ Tail(todo) = Commands(Head(todo).op)
        /\ RecordsOf(Kind[Head(todo).op]) # "none"

\* The state tells which command is to be answered.
StateTellsCommand ==
    IF awaited = NoCommand THEN state \in {"idle", "renameTo", "sentOffset"}
    ELSE state \in {SentState(awaited), "sentQuit"}

\* The data connection of a transfer is open from its DATA_CON on.
DataConnectionReady ==
    /\ state \in {"settingPassive", "sentOffset"} => ~got226
    /\ state = "sentOffset" => dataOpen
    /\ state = "idle" /\ Ahead # <<>> /\ Ahead[1].verb \in OverData =>
            dataOpen /\ ~got226

\* After RNFR comes RNTO.
RenameGoesOn == state = "renameTo" => Ahead # <<>> /\ Ahead[1].verb = "RNTO"

\* The last commands of the operations with a record in q.
EndVerbs(q) ==
    CASE q = "deletions"   -> {"DELE", "RMD"}
      [] q = "renames"     -> {"RNTO"}
      [] q = "permissions" -> {"CHMOD"}
      [] q = "downloads"   -> {"RETR"}
      [] q = "uploads"     -> {"STOR"}

OperationsEnding(s, q) == Operations(Keep(s, [verb : EndVerbs(q), op : Op]))

RecordsInStep == \A q \in RecordQueue : records[q] = OperationsEnding(Recorded, q)

\* What was reported is not reported again.
Reported ==
    /\ \A i \in 1..Len(told) : told[i].op = told[i].done /\ told[i].done \in asked
    /\ \A i, j \in 1..Len(told) : told[i].done = told[j].done => i = j
    /\ \A i \in 1..Len(told), j \in 1..Len(Open) : Open[j].op # told[i].done

InStepInv ==
    /\ removed = {}
    /\ StateTellsCommand /\ DataConnectionReady /\ RenameGoesOn
    /\ Chained(Ahead) /\ Apart(Ahead)
    /\ \A i \in 1..Len(Ahead) : Ahead[i].op \in asked
    /\ RecordsInStep /\ Reported

SessionInv == TypeOK /\ CallShape /\ (connected /\ failed = {} => InStepInv)
-----------------------------------------------------------------------------
(* The commands of one operation *)

\* The verbs of every kind of operation, their number and their order.
LEMMA VerbsTable ==
    /\ Verbs("deleteFile") \in Seq(Verb) /\ Len(Verbs("deleteFile")) = 1
    /\ Verbs("deleteFile")[1] = "DELE"
    /\ Verbs("deleteDirectory") \in Seq(Verb) /\ Len(Verbs("deleteDirectory")) = 1
    /\ Verbs("deleteDirectory")[1] = "RMD"
    /\ Verbs("rename") \in Seq(Verb) /\ Len(Verbs("rename")) = 2
    /\ Verbs("rename")[1] = "RNFR"
    /\ Verbs("rename")[2] = "RNTO"
    /\ Verbs("setPermissions") \in Seq(Verb) /\ Len(Verbs("setPermissions")) = 1
    /\ Verbs("setPermissions")[1] = "CHMOD"
    /\ Verbs("download") \in Seq(Verb) /\ Len(Verbs("download")) = 3
    /\ Verbs("download")[1] = "SIZE"
    /\ Verbs("download")[2] = "DATA_CON"
    /\ Verbs("download")[3] = "RETR"
    /\ Verbs("resumeDownload") \in Seq(Verb) /\ Len(Verbs("resumeDownload")) = 4
    /\ Verbs("resumeDownload")[1] = "SIZE"
    /\ Verbs("resumeDownload")[2] = "DATA_CON"
    /\ Verbs("resumeDownload")[3] = "REST"
    /\ Verbs("resumeDownload")[4] = "RETR"
    /\ Verbs("upload") \in Seq(Verb) /\ Len(Verbs("upload")) = 2
    /\ Verbs("upload")[1] = "DATA_CON"
    /\ Verbs("upload")[2] = "STOR"
    /\ Verbs("directoryContents") \in Seq(Verb) /\ Len(Verbs("directoryContents")) = 2
    /\ Verbs("directoryContents")[1] = "DATA_CON"
    /\ Verbs("directoryContents")[2] = "LIST"
BY DEF Verbs, Verb

\* The operations by how many commands they have.
LEMMA VerbsLength ==
    ASSUME NEW k \in OpKind
    PROVE  /\ k \in {"deleteFile", "deleteDirectory", "setPermissions"} => Len(Verbs(k)) = 1
           /\ k \in {"rename", "upload", "directoryContents"} => Len(Verbs(k)) = 2
           /\ k = "download" => Len(Verbs(k)) = 3
           /\ k = "resumeDownload" => Len(Verbs(k)) = 4
<1>1. /\ Len(Verbs("deleteFile")) = 1 /\ Len(Verbs("deleteDirectory")) = 1
      /\ Len(Verbs("setPermissions")) = 1 /\ Len(Verbs("rename")) = 2
      /\ Len(Verbs("upload")) = 2 /\ Len(Verbs("directoryContents")) = 2
      /\ Len(Verbs("download")) = 3 /\ Len(Verbs("resumeDownload")) = 4
    BY VerbsTable
<1> QED BY <1>1

\* A sequence of commands begins and ends as it should.
LEMMA VerbsShape ==
    ASSUME NEW k \in OpKind
    PROVE  /\ Verbs(k) \in Seq(Verb) /\ Len(Verbs(k)) \in 1..4
           /\ Verbs(k)[1] \in FirstVerb
           /\ \A i \in 1..Len(Verbs(k)) : Verbs(k)[i] \in LastVerb <=> i = Len(Verbs(k))
<1>1. ASSUME NEW v \in Seq(Verb), Len(v) = 1, v[1] \in FirstVerb \cap LastVerb
      PROVE  \A i \in 1..Len(v) : v[i] \in LastVerb <=> i = Len(v)
    BY <1>1
<1>2. ASSUME NEW v \in Seq(Verb), Len(v) = 2, v[1] \notin LastVerb, v[2] \in LastVerb
      PROVE  \A i \in 1..Len(v) : v[i] \in LastVerb <=> i = Len(v)
    <2>1. \A i \in 1..Len(v) : i = 1 \/ i = 2 BY <1>2
    <2> QED BY <1>2, <2>1
<1>3. ASSUME NEW v \in Seq(Verb), Len(v) = 3, v[1] \notin LastVerb, v[2] \notin LastVerb,
             v[3] \in LastVerb
      PROVE  \A i \in 1..Len(v) : v[i] \in LastVerb <=> i = Len(v)
    <2>1. \A i \in 1..Len(v) : i = 1 \/ i = 2 \/ i = 3 BY <1>3
    <2> QED BY <1>3, <2>1
<1>4. ASSUME NEW v \in Seq(Verb), Len(v) = 4, v[1] \notin LastVerb, v[2] \notin LastVerb,
             v[3] \notin LastVerb, v[4] \in LastVerb
      PROVE  \A i \in 1..Len(v) : v[i] \in LastVerb <=> i = Len(v)
    <2>1. \A i \in 1..Len(v) : i = 1 \/ i = 2 \/ i = 3 \/ i = 4 BY <1>4
    <2> QED BY <1>4, <2>1
<1>5. CASE k \in {"deleteFile", "deleteDirectory", "setPermissions"}
    <2> DEFINE v == Verbs(k)
    <2>1. /\ v \in Seq(Verb) /\ Len(v) = 1 /\ v[1] \in FirstVerb \cap LastVerb
        BY <1>5, VerbsTable DEF FirstVerb, LastVerb
    <2>2. \A i \in 1..Len(v) : v[i] \in LastVerb <=> i = Len(v) BY <1>1, <2>1
    <2> QED BY <2>1, <2>2
<1>6. CASE k \in {"rename", "upload", "directoryContents"}
    <2> DEFINE v == Verbs(k)
    <2>1. /\ v \in Seq(Verb) /\ Len(v) = 2 /\ v[1] \in FirstVerb
          /\ v[1] \notin LastVerb /\ v[2] \in LastVerb
        BY <1>6, VerbsTable DEF FirstVerb, LastVerb
    <2>2. \A i \in 1..Len(v) : v[i] \in LastVerb <=> i = Len(v) BY <1>2, <2>1
    <2> QED BY <2>1, <2>2
<1>7. CASE k = "download"
    <2> DEFINE v == Verbs(k)
    <2>1. /\ v \in Seq(Verb) /\ Len(v) = 3 /\ v[1] \in FirstVerb
          /\ v[1] \notin LastVerb /\ v[2] \notin LastVerb /\ v[3] \in LastVerb
        BY <1>7, VerbsTable DEF FirstVerb, LastVerb
    <2>2. \A i \in 1..Len(v) : v[i] \in LastVerb <=> i = Len(v) BY <1>3, <2>1
    <2> QED BY <2>1, <2>2
<1>8. CASE k = "resumeDownload"
    <2> DEFINE v == Verbs(k)
    <2>1. /\ v \in Seq(Verb) /\ Len(v) = 4 /\ v[1] \in FirstVerb
          /\ v[1] \notin LastVerb /\ v[2] \notin LastVerb /\ v[3] \notin LastVerb
          /\ v[4] \in LastVerb
        BY <1>8, VerbsTable DEF FirstVerb, LastVerb
    <2>2. \A i \in 1..Len(v) : v[i] \in LastVerb <=> i = Len(v) BY <1>4, <2>1
    <2> QED BY <2>1, <2>2
<1> QED BY <1>5, <1>6, <1>7, <1>8 DEF OpKind

\* An operation's commands are its verbs', in their order.
LEMMA CommandsShape ==
    ASSUME NEW o \in Op
    PROVE  /\ Commands(o) \in Seq(Command) /\ Commands(o) # <<>>
           /\ Len(Commands(o)) = Len(Verbs(Kind[o]))
           /\ \A i \in 1..Len(Commands(o)) :
                Commands(o)[i].op = o /\ Commands(o)[i].verb = Verbs(Kind[o])[i]
<1>1. Kind[o] \in OpKind BY OpsAssumption
<1> DEFINE v == Verbs(Kind[o])
<1>2. v \in Seq(Verb) /\ Len(v) \in 1..4 BY <1>1, VerbsShape
<1>3. Commands(o) = [i \in 1..Len(v) |-> [verb |-> v[i], op |-> o]] BY DEF Commands
<1> HIDE DEF v
<1>4. \A i \in 1..Len(v) : [verb |-> v[i], op |-> o] \in Command BY <1>2 DEF Command
<1>5. Commands(o) \in Seq(Command) /\ Len(Commands(o)) = Len(v) BY <1>2, <1>3, <1>4
<1>6. \A i \in 1..Len(v) : Commands(o)[i] = [verb |-> v[i], op |-> o] BY <1>3
<1>7. Commands(o) # <<>> BY <1>2, <1>5
<1>8. \A i \in 1..Len(Commands(o)) : Commands(o)[i].op = o /\ Commands(o)[i].verb = v[i]
    <2> SUFFICES ASSUME NEW i \in 1..Len(v)
                 PROVE Commands(o)[i].op = o /\ Commands(o)[i].verb = v[i]
        BY <1>5
    <2>1. Commands(o)[i] = [verb |-> v[i], op |-> o] BY <1>6
    <2> QED BY <2>1
<1> QED BY <1>5, <1>7, <1>8 DEF v

\* Within an operation, the next command depends on the one before.
LEMMA CommandsChained ==
    ASSUME NEW o \in Op
    PROVE  /\ Chained(Commands(o)) /\ Apart(Commands(o))
           /\ Commands(o)[1].verb \in FirstVerb
<1> DEFINE v == Verbs(Kind[o])
           s == Commands(o)
<1>1. Kind[o] \in OpKind BY OpsAssumption
<1>2. /\ v \in Seq(Verb) /\ Len(v) \in 1..4 /\ v[1] \in FirstVerb
      /\ \A i \in 1..Len(v) : v[i] \in LastVerb <=> i = Len(v)
    BY <1>1, VerbsShape
<1>3. /\ s \in Seq(Command) /\ Len(s) = Len(v)
      /\ \A i \in 1..Len(v) : s[i].op = o /\ s[i].verb = v[i] /\ s[i] \in Command
      /\ \A i \in 1..Len(v) : s[i] = [verb |-> v[i], op |-> o]
    <2>1. s \in Seq(Command) /\ Len(s) = Len(v) BY CommandsShape
    <2>2. \A i \in 1..Len(v) : s[i] = [verb |-> v[i], op |-> o]
        BY <1>2, <2>1 DEF Commands
    <2> HIDE DEF s, v
    <2>3. \A i \in 1..Len(v) : s[i] \in Command BY <2>1
    <2>4. ASSUME NEW i \in 1..Len(v) PROVE s[i].op = o /\ s[i].verb = v[i]
        <3>1. s[i] = [verb |-> v[i], op |-> o] BY <2>2
        <3> QED BY <3>1
    <2> QED BY <2>1, <2>2, <2>3, <2>4
<1>4. ASSUME NEW i \in 1..Len(s), i + 1 <= Len(s) PROVE Follows(s[i], s[i + 1])
    <2>1. i \in 1..Len(v) /\ i + 1 \in 1..Len(v) /\ i # Len(v) /\ i \in 1..(Len(v) - 1)
        BY <1>2, <1>3, <1>4
    <2>2. s[i].verb \notin LastVerb BY <1>2, <1>3, <2>1
    <2>3. s[i + 1] = [verb |-> v[i + 1], op |-> s[i].op] BY <1>3, <2>1
    <2>4. Dependants(s[i]) = {[verb |-> v[n + 1], op |-> o] :
                                n \in {j \in 1..(Len(v) - 1) : v[j] = v[i]}}
        BY <1>3, <2>1 DEF Dependants
    <2>5. s[i + 1] \in Dependants(s[i]) BY <1>3, <2>1, <2>4
    <2> QED BY <2>2, <2>5 DEF Follows
<1>5. s[Len(s)].verb \in LastVerb BY <1>2, <1>3
<1>6. Apart(s) BY <1>2, <1>3 DEF Apart
<1> HIDE DEF s, v
<1>7. Chained(s) BY <1>4, <1>5 DEF Chained
<1>8. s[1].verb \in FirstVerb BY <1>2, <1>3
<1> QED BY <1>6, <1>7, <1>8 DEF s

\* What can depend on a command.
LEMMA DependantsTable ==
    ASSUME NEW c \in Command, NEW d \in Dependants(c)
    PROVE  /\ d.op = c.op
           /\ c.verb = "RNFR" => d.verb = "RNTO"
           /\ c.verb = "SIZE" => d.verb = "DATA_CON"
           /\ c.verb = "DATA_CON" => d.verb \in OverData
           /\ c.verb = "REST" => d.verb = "RETR"
           /\ d.verb \in OverData => c.verb \in {"DATA_CON", "REST"}
           /\ d.verb = "RNTO" => c.verb = "RNFR"
<1> DEFINE v == Verbs(Kind[c.op])
<1>1. Kind[c.op] \in OpKind BY OpsAssumption DEF Command
<1>2. PICK i \in 1..(Len(v) - 1) : v[i] = c.verb /\ d = [verb |-> v[i + 1], op |-> c.op]
    BY DEF Dependants
<1>3. d.op = c.op /\ d.verb = v[i + 1] BY <1>2
<1>4. i + 1 <= Len(v) /\ i \in Nat /\ i # 0 /\ Len(v) \in Nat BY <1>1, <1>2, VerbsShape
<1>5. CASE Kind[c.op] \in {"deleteFile", "deleteDirectory", "setPermissions"}
    <2>1. Len(v) = 1 BY <1>5, VerbsTable
    <2> QED BY <1>4, <2>1
<1>6. CASE Kind[c.op] \in {"rename", "upload", "directoryContents"}
    <2>1. Len(v) = 2 BY <1>6, VerbsTable
    <2>2. i = 1 BY <1>4, <2>1
    <2> QED BY <1>2, <1>3, <1>6, <2>2, VerbsTable DEF OverData
<1>7. CASE Kind[c.op] = "download"
    <2>1. Len(v) = 3 BY <1>7, VerbsTable
    <2>2. i = 1 \/ i = 2 BY <1>4, <2>1
    <2> QED BY <1>2, <1>3, <1>7, <2>2, VerbsTable DEF OverData
<1>8. CASE Kind[c.op] = "resumeDownload"
    <2>1. Len(v) = 4 BY <1>8, VerbsTable
    <2>2. i = 1 \/ i = 2 \/ i = 3 BY <1>4, <2>1
    <2>3. CASE i = 1 BY <1>2, <1>3, <1>8, <2>3, VerbsTable DEF OverData
    <2>4. CASE i = 2 BY <1>2, <1>3, <1>8, <2>4, VerbsTable DEF OverData
    <2>5. CASE i = 3 BY <1>2, <1>3, <1>8, <2>5, VerbsTable DEF OverData
    <2> QED BY <2>2, <2>3, <2>4, <2>5
<1> QED BY <1>1, <1>5, <1>6, <1>7, <1>8 DEF OpKind

\* Operations and Keep, of one sequence after the other.
LEMMA EndingConcat ==
    ASSUME NEW s \in Seq(Command), NEW t \in Seq(Command), NEW q
    PROVE  /\ OperationsEnding(s \o t, q) = OperationsEnding(s, q) \o OperationsEnding(t, q)
           /\ OperationsEnding(s, q) \in Seq(Op)
<1> DEFINE S == [verb : EndVerbs(q), op : Op]
           C == Command \cap S
<1>1. Keep(s, S) \in Seq(C) /\ Keep(t, S) \in Seq(C) BY KeepType
<1>2. Keep(s \o t, S) = Keep(s, S) \o Keep(t, S) BY KeepConcat
<1>3. \A c \in C : c.op \in Op BY DEF Command
<1>4. OperationsEnding(s, q) = Operations(Keep(s, S)) /\ OperationsEnding(t, q) = Operations(Keep(t, S))
      /\ OperationsEnding(s \o t, q) = Operations(Keep(s \o t, S))
    BY DEF OperationsEnding
<1> HIDE DEF C, S
<1>5. ASSUME NEW a \in Seq(C), NEW b \in Seq(C)
      PROVE  /\ Operations(a \o b) = Operations(a) \o Operations(b)
             /\ Operations(a) \in Seq(Op)
    <2>1. Operations(a) \in Seq(Op) /\ Operations(b) \in Seq(Op) BY <1>3 DEF Operations
    <2>2. Operations(a \o b) = Operations(a) \o Operations(b) BY DEF Operations
    <2> QED BY <2>1, <2>2
<1> QED BY <1>1, <1>2, <1>4, <1>5

\* No command ends no operation.
LEMMA EndingEmpty == ASSUME NEW q PROVE OperationsEnding(<<>>, q) = <<>>
BY KeepEmpty DEF OperationsEnding, Operations

\* One command ends its own operation, or none.
LEMMA EndingOne ==
    ASSUME NEW c \in Command, NEW q
    PROVE  OperationsEnding(<<c>>, q) = IF c.verb \in EndVerbs(q) THEN <<c.op>> ELSE <<>>
<1> DEFINE S == [verb : EndVerbs(q), op : Op]
<1>1. c \in S <=> c.verb \in EndVerbs(q) BY DEF Command
<1>2. Keep(<<c>>, S) = IF c \in S THEN <<c>> ELSE <<>> BY KeepOne
<1>3. OperationsEnding(<<c>>, q) = Operations(Keep(<<c>>, S)) BY DEF OperationsEnding
<1>4. Operations(<<c>>) = <<c.op>> /\ Operations(<<>>) = <<>> BY DEF Operations
<1> QED BY <1>1, <1>2, <1>3, <1>4

\* An operation has one command that ends it, and its record in that one's queue.
LEMMA EndingCommands ==
    ASSUME NEW o \in Op, NEW q \in RecordQueue
    PROVE  OperationsEnding(Commands(o), q) = IF RecordsOf(Kind[o]) = q THEN <<o>> ELSE <<>>
<1> DEFINE v == Verbs(Kind[o])
           c(i) == [verb |-> v[i], op |-> o]
           E(s) == OperationsEnding(s, q)
           kept(i) == IF v[i] \in EndVerbs(q) THEN <<o>> ELSE <<>>
<1>1. Kind[o] \in OpKind BY OpsAssumption
<1>2. v \in Seq(Verb) /\ Len(v) \in 1..4 BY <1>1, VerbsShape
<1>3. Commands(o) = [i \in 1..Len(v) |-> c(i)] BY DEF Commands
<1>4. \A i \in 1..Len(v) : c(i) \in Command BY <1>2 DEF Command
<1>5. \A i \in 1..Len(v) : E(<<c(i)>>) = kept(i) /\ <<c(i)>> \in Seq(Command)
    <2> SUFFICES ASSUME NEW i \in 1..Len(v) PROVE E(<<c(i)>>) = kept(i) /\ <<c(i)>> \in Seq(Command)
        OBVIOUS
    <2>1. c(i) \in Command BY <1>4
    <2>2. c(i).verb = v[i] /\ c(i).op = o OBVIOUS
    <2> HIDE DEF c, v
    <2>3. E(<<c(i)>>) = kept(i) BY <2>1, <2>2, EndingOne
    <2> QED BY <2>1, <2>3
<1>6. \A s, t \in Seq(Command) : E(s \o t) = E(s) \o E(t) BY EndingConcat
<1> HIDE DEF c, E
<1>60. \A i \in 1..Len(v) : kept(i) \in Seq(Op) /\ (v[i] \notin EndVerbs(q) => kept(i) = <<>>)
    OBVIOUS
<1>61. \A a \in Seq(Op) : <<>> \o a = a /\ a \o <<>> = a OBVIOUS
<1> HIDE DEF kept
<1>7. CASE Len(v) = 1
    <2>1. Commands(o) = <<c(1)>> BY <1>3, <1>7
    <2>2. E(Commands(o)) = kept(1) BY <1>5, <1>7, <2>1, SMT
    <2>3. Kind[o] \in {"deleteFile", "deleteDirectory", "setPermissions"}
        BY <1>1, <1>7, VerbsTable DEF OpKind
    <2> QED BY <2>2, <2>3, VerbsTable DEF RecordQueue, RecordsOf, EndVerbs, E, kept
<1>8. CASE Len(v) = 2
    <2>1. Commands(o) = <<c(1)>> \o <<c(2)>> BY <1>3, <1>8
    <2>2. 1 \in 1..Len(v) /\ 2 \in 1..Len(v) BY <1>8
    <2>5. E(Commands(o)) = kept(1) \o kept(2)
        <3>1. E(<<c(1)>> \o <<c(2)>>) = E(<<c(1)>>) \o E(<<c(2)>>) BY <1>5, <1>6, <2>2
        <3> QED BY <1>5, <2>1, <2>2, <3>1, Zenon
    <2>3. Kind[o] \in {"rename", "upload", "directoryContents"}
        BY <1>1, <1>8, VerbsTable DEF OpKind
    <2>6. v[1] \notin EndVerbs(q) BY <2>3, VerbsTable DEF RecordQueue, EndVerbs
    <2>7. E(Commands(o)) = kept(2) BY <1>60, <1>61, <2>2, <2>5, <2>6
    <2>8. v[2] \in EndVerbs(q) <=> RecordsOf(Kind[o]) = q
        <3>1. CASE Kind[o] = "rename"
            <4>1. v[2] = "RNTO" BY <3>1, VerbsTable
            <4> QED BY <3>1, <4>1 DEF RecordQueue, RecordsOf, EndVerbs
        <3>2. CASE Kind[o] = "upload"
            <4>1. v[2] = "STOR" BY <3>2, VerbsTable
            <4> QED BY <3>2, <4>1 DEF RecordQueue, RecordsOf, EndVerbs
        <3>3. CASE Kind[o] = "directoryContents"
            <4>1. v[2] = "LIST" BY <3>3, VerbsTable
            <4> QED BY <3>3, <4>1 DEF RecordQueue, RecordsOf, EndVerbs
        <3> QED BY <2>3, <3>1, <3>2, <3>3
    <2> QED BY <2>7, <2>8 DEF E, kept
<1>9. CASE Len(v) = 3
    <2>1. Commands(o) = (<<c(1)>> \o <<c(2)>>) \o <<c(3)>> BY <1>3, <1>9
    <2>2. 1 \in 1..Len(v) /\ 2 \in 1..Len(v) /\ 3 \in 1..Len(v) BY <1>9
    <2>3. <<c(1)>> \o <<c(2)>> \in Seq(Command) BY <1>4, <2>2
    <2>4. E(Commands(o)) = (kept(1) \o kept(2)) \o kept(3)
        <3>1. E(<<c(1)>> \o <<c(2)>>) = E(<<c(1)>>) \o E(<<c(2)>>) BY <1>5, <1>6, <2>2
        <3>2. E(Commands(o)) = E(<<c(1)>> \o <<c(2)>>) \o E(<<c(3)>>)
            BY <1>5, <1>6, <2>1, <2>2, <2>3
        <3> QED BY <1>5, <2>2, <3>1, <3>2, Zenon
    <2>5. Kind[o] = "download"
        <3>1. Kind[o] \in OpKind /\ Len(Verbs(Kind[o])) = 3 BY <1>1, <1>9
        <3> HIDE DEF v
        <3> QED BY <3>1, VerbsLength DEF OpKind
    <2>6. v[1] \notin EndVerbs(q) /\ v[2] \notin EndVerbs(q)
        BY <2>5, VerbsTable DEF RecordQueue, EndVerbs
    <2>7. E(Commands(o)) = kept(3) BY <1>60, <1>61, <2>2, <2>4, <2>6
    <2> QED BY <2>5, <2>7, VerbsTable DEF RecordQueue, RecordsOf, EndVerbs, E, kept
<1>10. CASE Len(v) = 4
    <2>1. Commands(o) = (<<c(1)>> \o <<c(2)>>) \o (<<c(3)>> \o <<c(4)>>) BY <1>3, <1>10
    <2>2. 1 \in 1..Len(v) /\ 2 \in 1..Len(v) /\ 3 \in 1..Len(v) /\ 4 \in 1..Len(v)
        BY <1>10
    <2>3. <<c(1)>> \o <<c(2)>> \in Seq(Command) /\ <<c(3)>> \o <<c(4)>> \in Seq(Command)
        BY <1>4, <2>2
    <2>4. E(Commands(o)) = (kept(1) \o kept(2)) \o (kept(3) \o kept(4))
        <3>1. E(<<c(1)>> \o <<c(2)>>) = E(<<c(1)>>) \o E(<<c(2)>>) BY <1>5, <1>6, <2>2
        <3>2. E(<<c(3)>> \o <<c(4)>>) = E(<<c(3)>>) \o E(<<c(4)>>) BY <1>5, <1>6, <2>2
        <3>3. E(Commands(o)) = E(<<c(1)>> \o <<c(2)>>) \o E(<<c(3)>> \o <<c(4)>>)
            BY <1>6, <2>1, <2>3
        <3> QED BY <1>5, <2>2, <3>1, <3>2, <3>3, Zenon
    <2>5. Kind[o] = "resumeDownload"
        <3>1. Kind[o] \in OpKind /\ Len(Verbs(Kind[o])) = 4 BY <1>1, <1>10
        <3> HIDE DEF v
        <3> QED BY <3>1, VerbsLength DEF OpKind
    <2>6. v[1] \notin EndVerbs(q) /\ v[2] \notin EndVerbs(q) /\ v[3] \notin EndVerbs(q)
        BY <2>5, VerbsTable DEF RecordQueue, EndVerbs
    <2>7. E(Commands(o)) = kept(4)
        <3>1. kept(1) = <<>> /\ kept(2) = <<>> /\ kept(3) = <<>> /\ kept(4) \in Seq(Op)
            BY <1>60, <2>2, <2>6
        <3>2. <<>> \in Seq(Op) OBVIOUS
        <3>3. <<>> \o <<>> = <<>> /\ <<>> \o kept(4) = kept(4) BY <1>61, <3>1, <3>2
        <3> QED BY <2>4, <3>1, <3>3
    <2> QED BY <2>5, <2>7, VerbsTable DEF RecordQueue, RecordsOf, EndVerbs, E, kept
<1> QED BY <1>2, <1>7, <1>8, <1>9, <1>10

\* No record, no queue the operation ends in.
LEMMA EndingUnrecorded ==
    ASSUME NEW o \in Op, RecordsOf(Kind[o]) = "none", NEW q \in RecordQueue
    PROVE  OperationsEnding(Commands(o), q) = <<>>
BY EndingCommands DEF RecordQueue

-----------------------------------------------------------------------------
(* Types *)

Called == [verb : Verb \cup {"record"}, op : Op]

\* The client and the background thread, by what they do to the queues.
LEMMA CallIs ==
    ASSUME NEW o \in Op, Call(o)
    PROVE  /\ todo = <<>> /\ o \notin asked /\ asked' = asked \cup {o}
           /\ todo' = IF RecordsOf(Kind[o]) = "none" THEN Commands(o)
                      ELSE <<[verb |-> "record", op |-> o]>> \o Commands(o)
           /\ UNCHANGED <<queue, state, records, dataOpen, got226, connected, awaited,
                          told, removed, failed>>
BY DEF Call, Commands

\* A call of the client keeps the types: what it has still to queue is one operation.
LEMMA CallTyped ==
    ASSUME TypeOK, NEW o \in Op, Call(o)
    PROVE  TypeOK' /\ CallShape'
<1> DEFINE r == [verb |-> "record", op |-> o]
           s == Commands(o)
<1>1. /\ s \in Seq(Command) /\ s # <<>>
      /\ \A i \in 1..Len(s) : s[i].op = o
    BY CommandsShape
<1>2. r \in Called /\ Command \subseteq Called BY DEF Command, Called
<1>3. r.verb = "record" /\ r.op = o OBVIOUS
<1>4. \A c \in Command : c.verb # "record" BY DEF Command, Verb
<1>5. todo' = s \/ (todo' = <<r>> \o s /\ RecordsOf(Kind[o]) # "none") BY CallIs
<1> HIDE DEF s, r
<1>6. todo' \in Seq(Called)
    <2>1. s \in Seq(Called) /\ <<r>> \in Seq(Called) BY <1>1, <1>2
    <2> QED BY <1>5, <2>1, ConcatProperties
<1>7. TypeOK' BY <1>6, CallIs DEF TypeOK, Called
<1>8. CASE todo' = s
    <2>1. Head(s) = s[1] /\ 1 \in 1..Len(s) /\ \A i \in 1..Len(s) : s[i] \in Command
        BY <1>1
    <2> QED BY <1>4, <1>7, <1>8, <2>1 DEF CallShape
<1>9. CASE todo' = <<r>> \o s /\ RecordsOf(Kind[o]) # "none"
    <2>1. Head(todo') = r /\ Tail(todo') = s BY <1>1, <1>9
    <2>2. \A i \in 1..Len(todo') : i # 1 => todo'[i].verb # "record"
        <3> SUFFICES ASSUME NEW i \in 1..Len(todo'), i # 1 PROVE todo'[i].verb # "record"
            OBVIOUS
        <3>1. todo'[i] = s[i - 1] /\ s[i - 1] \in Command BY <1>1, <1>9
        <3> QED BY <1>4, <3>1
    <2> QED BY <1>3, <1>7, <1>9, <2>1, <2>2 DEF CallShape, s
<1> QED BY <1>5, <1>8, <1>9

\* Only the first thing left of a call can be its record.
LEMMA TodoTail ==
    ASSUME TypeOK, CallShape, todo # <<>>, todo' = Tail(todo)
    PROVE  /\ todo' \in Seq(Called) /\ CallShape' /\ Head(todo) \in Called
           /\ \A i \in 1..Len(todo') : todo'[i].verb # "record"
<1>1. todo \in Seq(Called) BY DEF TypeOK, Called
<1>2. todo' \in Seq(Called) /\ Head(todo) \in Called BY <1>1
<1>3. \A i \in 1..Len(todo') : todo'[i] = todo[i + 1] /\ i + 1 \in 1..Len(todo) /\ i + 1 # 1
    BY <1>1
<1>4. \A i \in 1..Len(todo') : todo'[i].verb # "record"
    BY <1>3 DEF CallShape
<1>5. todo' # <<>> => Head(todo') = todo'[1] /\ 1 \in 1..Len(todo') BY <1>2
<1>6. CallShape' BY <1>4, <1>5 DEF CallShape
<1> QED BY <1>2, <1>4, <1>6

\* Every kind of operation has its record queue, or none.
LEMMA RecordsOfType == ASSUME NEW k \in OpKind PROVE RecordsOf(k) \in RecordQueue \cup {"none"}
BY DEF OpKind, RecordsOf, RecordQueue

\* So does the record that the client queues.
LEMMA QueueRecordTyped ==
    ASSUME TypeOK, CallShape, QueueRecord
    PROVE  TypeOK' /\ CallShape'
<1>1. todo' \in Seq(Called) /\ CallShape' /\ Head(todo) \in Called
    BY TodoTail DEF QueueRecord
<1>2. Head(todo).op \in Op BY <1>1 DEF Called
<1> DEFINE q == RecordsOf(Kind[Head(todo).op])
<1>3. q \in RecordQueue
    <2>1. Kind[Head(todo).op] \in OpKind BY <1>2, OpsAssumption
    <2>2. q # "none" BY DEF QueueRecord, CallShape
    <2> QED BY <2>1, <2>2, RecordsOfType
<1>4. /\ records' = [records EXCEPT ![q] = Append(records[q], Head(todo).op)]
      /\ records \in [RecordQueue -> Seq(Op)]
    BY DEF QueueRecord, TypeOK
<1> HIDE DEF q
<1>5. records' \in [RecordQueue -> Seq(Op)] BY <1>2, <1>3, <1>4
<1> QED BY <1>1, <1>5 DEF QueueRecord, TypeOK, Called

\* And the command that it queues.
LEMMA QueueCommandTyped ==
    ASSUME TypeOK, CallShape, QueueCommand
    PROVE  TypeOK' /\ CallShape' /\ Head(todo) \in Command
<1>1. todo' \in Seq(Called) /\ CallShape' /\ Head(todo) \in Called
    BY TodoTail DEF QueueCommand
<1>2. Head(todo) \in Command BY <1>1 DEF Called, Command, QueueCommand
<1>3. queue' \in Seq(Command) BY <1>2 DEF QueueCommand, TypeOK
<1> QED BY <1>1, <1>2, <1>3 DEF QueueCommand, TypeOK, Called

\* What the session's other parts may be, for the steps that leave todo alone.
LEMMA SameCall ==
    ASSUME CallShape, UNCHANGED todo
    PROVE  CallShape'
BY DEF CallShape

\* What is sent leads to a state of the connection.
LEMMA SentStateIsState == ASSUME NEW c \in Command PROVE SentState(c) \in State
<1>1. c.verb \in Verb BY DEF Command
<1> QED BY <1>1 DEF Verb, SentState, State

\* Sending the head of the queue keeps the types.
LEMMA DispatchTyped ==
    ASSUME TypeOK, CallShape, Dispatch
    PROVE  TypeOK' /\ CallShape' /\ Head(queue) \in Command
<1>1. Head(queue) \in Command /\ queue' \in Seq(Command) BY DEF Dispatch, TypeOK
<1>2. state' \in State BY <1>1, SentStateIsState DEF Dispatch
<1> QED BY <1>1, <1>2, SameCall DEF Dispatch, TypeOK

\* The command answered is one, and belongs to an operation.
LEMMA AnsweredTyped ==
    ASSUME TypeOK, awaited # NoCommand
    PROVE  awaited \in Command /\ awaited.op \in Op /\ awaited.verb \in Verb
BY DEF TypeOK, Command

\* What the delegate is told is about an operation, or about none.
LEMMA TellsTyped ==
    ASSUME TypeOK, awaited # NoCommand, NEW o \in Op \cup {NoOp}, Told(o)
    PROVE  told' \in Seq([op : Op \cup {NoOp}, done : Op])
<1> DEFINE news == [op : Op \cup {NoOp}, done : Op]
<1>1. [op |-> o, done |-> awaited.op] \in news BY AnsweredTyped
<1>2. told \in Seq(news) /\ told' = Append(told, [op |-> o, done |-> awaited.op])
    BY DEF Told, TypeOK
<1> HIDE DEF news
<1>3. told' \in Seq(news) BY <1>1, <1>2
<1> QED BY <1>3 DEF news

\* So it is when the record is taken from the head of its queue.
LEMMA TakesTyped ==
    ASSUME TypeOK, NEW q \in RecordQueue, awaited # NoCommand
    PROVE  /\ Dequeue(q) => records' \in [RecordQueue -> Seq(Op)]
           /\ Told(First(records[q])) => told' \in Seq([op : Op \cup {NoOp}, done : Op])
<1>1. records[q] \in Seq(Op) /\ records \in [RecordQueue -> Seq(Op)] BY DEF TypeOK
<1>2. Rest(records[q]) \in Seq(Op) /\ First(records[q]) \in Op \cup {NoOp}
    BY <1>1 DEF Rest, First
<1>3. Dequeue(q) => records' \in [RecordQueue -> Seq(Op)]
    BY <1>1, <1>2 DEF Dequeue
<1>4. Told(First(records[q])) => told' \in Seq([op : Op \cup {NoOp}, done : Op])
    BY <1>2, TellsTyped
<1> QED BY <1>3, <1>4

\* A connection that becomes idle awaits no command.
LEMMA IdleTyped == ASSUME Idle PROVE state' \in State /\ awaited' \in Command \cup {NoCommand}
BY DEF Idle, State

\* An answer that ends its operation keeps the types.
LEMMA FinishTyped ==
    ASSUME TypeOK, CallShape, NEW q \in RecordQueue, awaited # NoCommand, Finish(q)
    PROVE  TypeOK' /\ CallShape'
<1>1. /\ records' \in [RecordQueue -> Seq(Op)]
      /\ told' \in Seq([op : Op \cup {NoOp}, done : Op])
    BY TakesTyped DEF Finish
<1> QED BY <1>1, IdleTyped, SameCall DEF Finish, TypeOK

\* So does what is removed from the queue behind a refused SIZE.
LEMMA RemoveTopTyped ==
    ASSUME TypeOK, awaited # NoCommand, RemoveTop
    PROVE  queue' \in Seq(Command) /\ removed' \subseteq [cmd : Command, by : Op]
<1>1. CASE queue = <<>> BY <1>1 DEF RemoveTop, TypeOK
<1>2. CASE queue # <<>>
    <2> DEFINE gone == {Head(queue)} \cup Dependants(Head(queue))
    <2>1. queue' = Keep(queue, Command \ gone) BY <1>2 DEF RemoveTop
    <2>2. removed' = removed \cup {[cmd |-> c, by |-> awaited.op] :
                            c \in gone \cap {queue[i] : i \in 1..Len(queue)}}
        BY <1>2 DEF RemoveTop
    <2> HIDE DEF gone
    <2>3. queue \in Seq(Command) /\ removed \subseteq [cmd : Command, by : Op] BY DEF TypeOK
    <2>4. queue' \in Seq(Command) BY <2>1, <2>3, KeepSeq
    <2>5. \A i \in 1..Len(queue) : queue[i] \in Command BY <2>3
    <2>6. removed' \subseteq [cmd : Command, by : Op]
        BY <2>2, <2>3, <2>5, AnsweredTyped
    <2> QED BY <2>4, <2>6
<1> QED BY <1>1, <1>2

\* And a refusal that ends a transfer.
LEMMA FailTransferTyped ==
    ASSUME TypeOK, CallShape, NEW q \in RecordQueue, awaited # NoCommand, FailTransfer(q)
    PROVE  TypeOK' /\ CallShape'
<1>1. /\ records' \in [RecordQueue -> Seq(Op)]
      /\ told' \in Seq([op : Op \cup {NoOp}, done : Op])
    BY TakesTyped DEF FailTransfer
<1>2. queue' \in Seq(Command) /\ removed' \subseteq [cmd : Command, by : Op]
    BY RemoveTopTyped DEF FailTransfer
<1>3. failed' \subseteq Op BY AnsweredTyped DEF FailTransfer, TypeOK
<1> QED BY <1>1, <1>2, <1>3, IdleTyped, SameCall DEF FailTransfer, TypeOK

\* What the delegate is told when data end, and of what is queued then.
LEMMA TransferEndsTyped ==
    ASSUME TypeOK, awaited # NoCommand, Transferring, TransferEnds
    PROVE  /\ records' \in [RecordQueue -> Seq(Op)]
           /\ told' \in Seq([op : Op \cup {NoOp}, done : Op])
<1>1. CASE state = "downloading" BY <1>1, TakesTyped DEF TransferEnds, RecordQueue
<1>2. CASE state = "uploading" BY <1>2, TakesTyped DEF TransferEnds, RecordQueue
<1>3. CASE state = "awaitingContents"
    <2>1. Told(awaited.op) /\ UNCHANGED records BY <1>3 DEF TransferEnds
    <2> QED BY <2>1, AnsweredTyped, TellsTyped DEF TypeOK
<1> QED BY <1>1, <1>2, <1>3 DEF Transferring

\* And the end of a data connection, before the 226 or after it.
LEMMA DataConnectionEndsTyped ==
    ASSUME TypeOK, CallShape, DataConnectionEnds
    PROVE  TypeOK' /\ CallShape'
<1>0. awaited # NoCommand /\ Transferring BY DEF DataConnectionEnds
<1>1. /\ records' \in [RecordQueue -> Seq(Op)]
      /\ told' \in Seq([op : Op \cup {NoOp}, done : Op])
    BY <1>0, TransferEndsTyped DEF DataConnectionEnds
<1>2. state' \in State /\ awaited' \in Command \cup {NoCommand}
    <2>1. CASE got226 BY <2>1, IdleTyped DEF DataConnectionEnds
    <2>2. CASE ~got226 BY <2>2 DEF DataConnectionEnds, TypeOK
    <2> QED BY <2>1, <2>2
<1> QED BY <1>1, <1>2, SameCall DEF DataConnectionEnds, TransferEnds, TypeOK

\* A reply that makes the connection idle, and one that is not heeded.
LEMMA UnreportedTyped ==
    ASSUME TypeOK, CallShape, MakesIdle \/ NoCaseFor
    PROVE  TypeOK' /\ CallShape'
<1>1. CASE MakesIdle
    <2>1. /\ awaited # NoCommand /\ Idle /\ dataOpen' \in {dataOpen, FALSE}
          /\ failed' = failed \/ failed' = failed \cup {awaited.op}
          /\ UNCHANGED <<queue, records, got226, connected, asked, todo, told, removed>>
        BY <1>1 DEF MakesIdle
    <2>2. failed' \subseteq Op /\ dataOpen' \in BOOLEAN BY <2>1, AnsweredTyped DEF TypeOK
    <2> QED BY <2>1, <2>2, IdleTyped, SameCall DEF TypeOK
<1>2. CASE NoCaseFor
    <2>1. /\ awaited # NoCommand /\ awaited' = NoCommand
          /\ failed' = failed \cup {awaited.op}
          /\ UNCHANGED <<queue, state, got226, connected, asked, todo, removed>>
        BY <1>2 DEF NoCaseFor
    <2>2. failed' \subseteq Op BY <2>1, AnsweredTyped DEF TypeOK
    <2>3. /\ records' \in [RecordQueue -> Seq(Op)] /\ dataOpen' \in BOOLEAN
          /\ told' \in Seq([op : Op \cup {NoOp}, done : Op])
        <3>1. CASE UNCHANGED <<dataOpen, told, records>> BY <3>1 DEF TypeOK
        <3>2. CASE Transferring /\ TransferEnds
            BY <2>1, <3>2, TransferEndsTyped DEF TransferEnds
        <3> QED BY <1>2, <3>1, <3>2 DEF NoCaseFor
    <2> QED BY <2>1, <2>2, <2>3, SameCall DEF TypeOK
<1> QED BY <1>1, <1>2

\* And every reply of the server.
LEMMA ServerTyped ==
    ASSUME TypeOK, CallShape, Server
    PROVE  TypeOK' /\ CallShape'
<1> USE DEF Answered, RecordQueue
<1>1. CASE DeleteFileReply BY <1>1, FinishTyped DEF DeleteFileReply
<1>2. CASE DeleteDirectoryReply BY <1>2, FinishTyped DEF DeleteDirectoryReply
<1>3. CASE PermissionsReply BY <1>3, FinishTyped DEF PermissionsReply
<1>4. CASE RenameReply BY <1>4, FinishTyped DEF RenameReply
<1> HIDE DEF RecordQueue
<1>5. CASE RenameFromReply
    <2>1. awaited # NoCommand BY <1>5 DEF RenameFromReply
    <2>2. CASE state' = "renameTo"
        <3>1. /\ state' = "renameTo" /\ awaited' = NoCommand
              /\ UNCHANGED <<queue, records, dataOpen, got226, connected, asked, todo,
                             told, removed, failed>>
            BY <1>5, <2>2 DEF RenameFromReply, Idle
        <3>2. state' \in State BY <3>1 DEF State
        <3> QED BY <3>1, <3>2, SameCall DEF TypeOK
    <2>3. CASE state' # "renameTo"
        <3>1. /\ Told(First(records["renames"])) /\ Dequeue("renames") /\ Idle
              /\ failed' = failed \cup {awaited.op}
              /\ UNCHANGED <<queue, dataOpen, got226, connected, asked, todo, removed>>
            BY <1>5, <2>3 DEF RenameFromReply
        <3>2. "renames" \in RecordQueue BY DEF RecordQueue
        <3>3. /\ records' \in [RecordQueue -> Seq(Op)]
              /\ told' \in Seq([op : Op \cup {NoOp}, done : Op])
            BY <2>1, <3>1, <3>2, TakesTyped
        <3>4. failed' \subseteq Op BY <2>1, <3>1, AnsweredTyped DEF TypeOK
        <3> QED BY <3>1, <3>3, <3>4, IdleTyped, SameCall DEF TypeOK
    <2> QED BY <2>2, <2>3
<1>6. CASE SizeReply
    <2>1. "downloads" \in RecordQueue BY DEF RecordQueue
    <2>2. CASE FailTransfer("downloads")
        BY <1>6, <2>1, <2>2, FailTransferTyped DEF SizeReply
    <2>3. CASE ~FailTransfer("downloads")
        BY <1>6, <2>3, IdleTyped, SameCall DEF SizeReply, TypeOK
    <2> QED BY <2>2, <2>3
<1>7. CASE OffsetReply
    <2>1. state' \in State /\ awaited' \in Command \cup {NoCommand}
        BY <1>7, IdleTyped DEF OffsetReply, TypeOK
    <2> QED BY <1>7, <2>1, SameCall DEF OffsetReply, TypeOK
<1>8. CASE DataConnectionReply
    <2>1. /\ state' \in State /\ awaited' \in Command \cup {NoCommand}
          /\ dataOpen' \in BOOLEAN
        BY <1>8, IdleTyped DEF DataConnectionReply, TypeOK, State
    <2> QED BY <1>8, <2>1, SameCall DEF DataConnectionReply, TypeOK
<1>9. CASE TransferComplete226
    <2>1. state' \in State /\ awaited' \in Command \cup {NoCommand}
        <3>1. CASE dataOpen BY <1>9, <3>1 DEF TransferComplete226, TypeOK
        <3>2. CASE ~dataOpen BY <1>9, <3>2, IdleTyped DEF TransferComplete226
        <3> QED BY <3>1, <3>2
    <2> QED BY <1>9, <2>1, SameCall DEF TransferComplete226, TypeOK
<1>10. CASE DataConnectionEnds BY <1>10, DataConnectionEndsTyped
<1>11. CASE DownloadRefused
    <2>1. "downloads" \in RecordQueue BY DEF RecordQueue
    <2> QED BY <1>11, <2>1, FailTransferTyped DEF DownloadRefused
<1>12. CASE UploadRefused
    <2>1. "uploads" \in RecordQueue /\ awaited # NoCommand
        BY <1>12 DEF RecordQueue, UploadRefused
    <2>2. CASE FailTransfer("uploads") BY <2>1, <2>2, FailTransferTyped
    <2>3. CASE ~FailTransfer("uploads")
        <3>1. /\ Told(First(Rest(records["uploads"])))
              /\ records' = [records EXCEPT !["uploads"] = Rest(Rest(@))]
              /\ Idle /\ RemoveTop
              /\ failed' = failed \cup {awaited.op}
              /\ UNCHANGED <<dataOpen, got226, connected, asked, todo>>
            BY <1>12, <2>3 DEF UploadRefused
        <3>2. records["uploads"] \in Seq(Op) /\ records \in [RecordQueue -> Seq(Op)]
            BY <2>1 DEF TypeOK
        <3>3. Rest(records["uploads"]) \in Seq(Op) BY <3>2 DEF Rest
        <3>4. /\ Rest(Rest(records["uploads"])) \in Seq(Op)
              /\ First(Rest(records["uploads"])) \in Op \cup {NoOp}
            BY <3>3 DEF Rest, First
        <3>5. records' \in [RecordQueue -> Seq(Op)] BY <3>1, <3>2, <3>4
        <3>6. told' \in Seq([op : Op \cup {NoOp}, done : Op])
            BY <2>1, <3>1, <3>4, TellsTyped
        <3>7. queue' \in Seq(Command) /\ removed' \subseteq [cmd : Command, by : Op]
            BY <2>1, <3>1, RemoveTopTyped
        <3>8. failed' \subseteq Op BY <2>1, <3>1, AnsweredTyped DEF TypeOK
        <3> QED BY <3>1, <3>5, <3>6, <3>7, <3>8, IdleTyped, SameCall DEF TypeOK
    <2> QED BY <2>2, <2>3
<1>13. CASE QuitReply
    <2>1. records' \in [RecordQueue -> Seq(Op)] /\ queue' \in Seq(Command)
          /\ state' \in State
        BY <1>13 DEF QuitReply, EmptyAll, State
    <2> QED BY <1>13, <2>1, SameCall DEF QuitReply, EmptyAll, TypeOK
<1>14. CASE ServiceClosing
    <2>1. records' \in [RecordQueue -> Seq(Op)] /\ queue' \in Seq(Command)
        BY <1>14 DEF ServiceClosing, EmptyAll
    <2>2. state' \in State BY <1>14 DEF ServiceClosing, State
    <2>3. told' \in Seq([op : Op \cup {NoOp}, done : Op])
        <3>1. awaited # NoCommand BY <1>14 DEF ServiceClosing
        <3>2. Told(NoOp) \/ UNCHANGED told BY <1>14 DEF ServiceClosing
        <3>3. CASE Told(NoOp) BY <3>1, <3>3, TellsTyped
        <3>4. CASE UNCHANGED told BY <3>4 DEF TypeOK
        <3> QED BY <3>2, <3>3, <3>4
    <2> QED BY <1>14, <2>1, <2>2, <2>3, SameCall DEF ServiceClosing, EmptyAll, TypeOK
<1>15. CASE MakesIdle \/ NoCaseFor BY <1>15, UnreportedTyped
<1> QED BY <1>1, <1>2, <1>3, <1>4, <1>5, <1>6, <1>7, <1>8, <1>9, <1>10, <1>11, <1>12,
           <1>13, <1>14, <1>15 DEF Server

-----------------------------------------------------------------------------
(* The commands ahead, as sequences *)

Waiting == queue \o ToSend
WaitingRecorded == queue \o ToSendRecorded

\* Commands one after the other.
LEMMA CommandsAssociative ==
    ASSUME NEW a \in Seq(Command), NEW b \in Seq(Command), NEW c \in Seq(Command)
    PROVE  (a \o b) \o c = a \o (b \o c)
BY ConcatAssociative

\* The parts of what is to be answered are sequences of commands.
LEMMA QueuesTyped ==
    ASSUME TypeOK, CallShape
    PROVE  /\ ToSend \in Seq(Command) /\ ToSendRecorded \in Seq(Command)
           /\ Sent \in Seq(Command) /\ Unreported \in Seq(Command)
           /\ Waiting \in Seq(Command) /\ WaitingRecorded \in Seq(Command)
           /\ Ahead = Sent \o Waiting /\ Open = Unreported \o Waiting
           /\ Recorded = Unreported \o WaitingRecorded
           /\ Ahead \in Seq(Command) /\ Open \in Seq(Command) /\ Recorded \in Seq(Command)
<1>1. todo \in Seq(Called) /\ queue \in Seq(Command) BY DEF TypeOK, Called
<1>2. \A c \in Called : c.verb # "record" => c \in Command BY DEF Called, Command
<1>3. \A s \in Seq(Called) :
        (\A i \in 1..Len(s) : s[i] \in Command) => s \in Seq(Command)
    OBVIOUS
<1>4. ToSend \in Seq(Command) /\ ToSendRecorded \in Seq(Command)
    <2>1. CASE todo # <<>> /\ Head(todo).verb = "record"
        <3> DEFINE s == Tail(todo)
        <3>1. s \in Seq(Called) /\ \A i \in 1..Len(s) : s[i] = todo[i + 1] /\ i + 1 \in 1..Len(todo)
            BY <1>1, <2>1
        <3>2. \A i \in 1..Len(s) : s[i].verb # "record" /\ s[i] \in Called
            BY <1>1, <3>1 DEF CallShape
        <3> HIDE DEF s
        <3>3. s \in Seq(Command) BY <1>2, <1>3, <3>1, <3>2
        <3> QED BY <2>1, <3>3 DEF ToSend, ToSendRecorded, s
    <2>2. CASE ~(todo # <<>> /\ Head(todo).verb = "record")
        <3>1. \A i \in 1..Len(todo) : todo[i] \in Called /\ todo[i].verb # "record"
            BY <1>1, <2>2 DEF CallShape
        <3>2. todo \in Seq(Command) BY <1>1, <1>2, <1>3, <3>1
        <3> QED BY <2>2, <3>2 DEF ToSend, ToSendRecorded
    <2> QED BY <2>1, <2>2
<1>5. Sent \in Seq(Command) /\ Unreported \in Seq(Command)
    BY DEF TypeOK, Sent, Unreported
<1>6. Recorded = (Unreported \o queue) \o ToSendRecorded
    BY DEF Recorded, Unreported, ToSendRecorded
<1>7. Waiting \in Seq(Command) /\ WaitingRecorded \in Seq(Command)
    BY <1>1, <1>4, ConcatProperties DEF Waiting, WaitingRecorded
<1>8. Recorded = Unreported \o WaitingRecorded
    <2>1. (Unreported \o queue) \o ToSendRecorded = Unreported \o (queue \o ToSendRecorded)
        <3>1. /\ Unreported \in Seq(Command) /\ queue \in Seq(Command)
              /\ ToSendRecorded \in Seq(Command)
            BY <1>1, <1>4, <1>5
        <3> QED BY ONLY <3>1, CommandsAssociative
    <2> QED BY <1>6, <2>1, Zenon DEF WaitingRecorded
<1>9. /\ Ahead = Sent \o Waiting /\ Open = Unreported \o Waiting
    BY <1>1, <1>4, <1>5, CommandsAssociative DEF Ahead, Open, Waiting
<1>10. Ahead \in Seq(Command) /\ Open \in Seq(Command) /\ Recorded \in Seq(Command)
    BY <1>5, <1>7, <1>8, <1>9, ConcatProperties
<1> QED BY <1>1, <1>4, <1>5, <1>7, <1>8, <1>9, <1>10

\* Whole operations after whole operations.
LEMMA ChainedConcat ==
    ASSUME NEW s \in Seq(Command), NEW t \in Seq(Command), t # <<>>,
           Chained(s), Chained(t), s # <<>> => Follows(s[Len(s)], t[1])
    PROVE  Chained(s \o t)
<1> DEFINE u == s \o t
<1>1. /\ u \in Seq(Command) /\ Len(u) = Len(s) + Len(t) /\ Len(s) \in Nat /\ Len(t) \in Nat
      /\ Len(t) > 0
      /\ \A i \in 1..Len(s) : u[i] = s[i]
      /\ \A i \in 1..Len(u) : i > Len(s) => u[i] = t[i - Len(s)]
    OBVIOUS
<1> HIDE DEF u
<1>2. ASSUME NEW i \in 1..Len(u), i + 1 <= Len(u) PROVE Follows(u[i], u[i + 1])
    <2>1. CASE i + 1 <= Len(s)
        <3>1. u[i] = s[i] /\ u[i + 1] = s[i + 1] /\ i \in 1..Len(s) BY <1>1, <2>1
        <3> QED BY <2>1, <3>1 DEF Chained
    <2>2. CASE i = Len(s)
        <3>1. u[i] = s[Len(s)] /\ u[i + 1] = t[1] /\ s # <<>> BY <1>1, <2>2
        <3> QED BY <3>1
    <2>3. CASE i > Len(s)
        <3>1. i - Len(s) \in 1..Len(t) /\ (i - Len(s)) + 1 \in 1..Len(t) BY <1>1, <1>2, <2>3
        <3>2. u[i] = t[i - Len(s)] /\ u[i + 1] = t[(i - Len(s)) + 1]
            <4>1. (i + 1) - Len(s) = (i - Len(s)) + 1 /\ i + 1 \in 1..Len(u) /\ i + 1 > Len(s)
                BY <1>1, <1>2, <2>3
            <4> QED BY <1>1, <2>3, <4>1
        <3> QED BY <3>1, <3>2 DEF Chained
    <2> QED BY <1>1, <2>1, <2>2, <2>3
<1>3. u[Len(u)] = t[Len(t)] BY <1>1
<1>4. u[Len(u)].verb \in LastVerb BY <1>3 DEF Chained
<1> QED BY <1>2, <1>4 DEF Chained, u

\* Two sequences with no operation in common.
LEMMA ApartConcat ==
    ASSUME NEW s \in Seq(Command), NEW t \in Seq(Command), Apart(s), Apart(t),
           \A i \in 1..Len(s), j \in 1..Len(t) : s[i].op # t[j].op
    PROVE  Apart(s \o t)
<1> DEFINE u == s \o t
<1>1. /\ Len(u) = Len(s) + Len(t) /\ Len(s) \in Nat /\ Len(t) \in Nat
      /\ \A i \in 1..Len(s) : u[i] = s[i]
      /\ \A i \in 1..Len(u) : i > Len(s) => u[i] = t[i - Len(s)] /\ i - Len(s) \in 1..Len(t)
    OBVIOUS
<1> HIDE DEF u
<1>2. ASSUME NEW i \in 1..Len(u), NEW j \in 1..Len(u), i < j, u[i].verb \in LastVerb
      PROVE  u[i].op # u[j].op
    <2>1. CASE j <= Len(s)
        <3>1. i \in 1..Len(s) /\ j \in 1..Len(s) BY <1>1, <1>2, <2>1
        <3> QED BY <1>1, <1>2, <3>1 DEF Apart
    <2>2. CASE i <= Len(s) /\ j > Len(s)
        <3>1. i \in 1..Len(s) /\ u[i] = s[i] BY <1>1, <2>2
        <3>2. j - Len(s) \in 1..Len(t) /\ u[j] = t[j - Len(s)] BY <1>1, <2>2
        <3> QED BY <3>1, <3>2
    <2>3. CASE i > Len(s)
        <3>1. /\ u[i] = t[i - Len(s)] /\ i - Len(s) \in 1..Len(t)
              /\ u[j] = t[j - Len(s)] /\ j - Len(s) \in 1..Len(t)
              /\ i - Len(s) < j - Len(s)
            BY <1>1, <1>2, <2>3
        <3> QED BY <1>2, <3>1 DEF Apart
    <2> QED BY <1>1, <2>1, <2>2, <2>3
<1> QED BY <1>2 DEF Apart, u

\* Without its first command.
LEMMA ChainRest ==
    ASSUME NEW c \in Command, NEW t \in Seq(Command),
           Chained(<<c>> \o t), Apart(<<c>> \o t)
    PROVE  /\ Chained(t) /\ Apart(t)
           /\ t # <<>> => Follows(c, t[1])
           /\ t = <<>> => c.verb \in LastVerb
           /\ c.verb \in LastVerb => \A i \in 1..Len(t) : t[i].op # c.op
<1> DEFINE u == <<c>> \o t
<1>1. /\ u[1] = c /\ Len(u) = Len(t) + 1 /\ Len(t) \in Nat /\ u # <<>>
      /\ \A i \in 1..Len(t) : u[i + 1] = t[i]
    OBVIOUS
<1>0. Chained(u) /\ Apart(u) OBVIOUS
<1> HIDE DEF u
<1>2. \A i \in 1..Len(t) : i + 1 \in 1..Len(u) BY <1>1
<1>3. \A i \in 1..Len(t) : i + 1 <= Len(t) => Follows(t[i], t[i + 1])
    <2> SUFFICES ASSUME NEW i \in 1..Len(t), i + 1 <= Len(t) PROVE Follows(t[i], t[i + 1])
        OBVIOUS
    <2>1. t[i] = u[i + 1] /\ t[i + 1] = u[(i + 1) + 1] /\ i + 1 \in 1..Len(u)
          /\ (i + 1) + 1 <= Len(u)
        BY <1>1
    <2> QED BY <1>0, <2>1 DEF Chained
<1>4. t # <<>> => t[Len(t)].verb \in LastVerb
    <2> SUFFICES ASSUME t # <<>> PROVE t[Len(t)].verb \in LastVerb
        OBVIOUS
    <2>1. Len(t) \in 1..Len(t) OBVIOUS
    <2>2. t[Len(t)] = u[Len(u)] BY <1>1, <2>1
    <2> QED BY <1>0, <1>1, <2>2 DEF Chained
<1>5. Apart(t)
    <2> SUFFICES ASSUME NEW i \in 1..Len(t), NEW j \in 1..Len(t), i < j, t[i].verb \in LastVerb
                 PROVE t[i].op # t[j].op
        BY DEF Apart
    <2>1. t[i] = u[i + 1] /\ t[j] = u[j + 1] /\ i + 1 \in 1..Len(u) /\ j + 1 \in 1..Len(u)
          /\ i + 1 < j + 1
        BY <1>1
    <2> QED BY <1>0, <2>1 DEF Apart
<1>6. t # <<>> => Follows(c, t[1])
    <2> SUFFICES ASSUME t # <<>> PROVE Follows(c, t[1])
        OBVIOUS
    <2>1. 1 \in 1..Len(t) /\ 1 \in 1..Len(u) /\ 1 + 1 <= Len(u) /\ t[1] = u[1 + 1] BY <1>1
    <2> QED BY <1>0, <1>1, <2>1 DEF Chained
<1>7. t = <<>> => c.verb \in LastVerb
    <2> SUFFICES ASSUME t = <<>> PROVE c.verb \in LastVerb
        OBVIOUS
    <2>1. Len(u) = 1 BY <1>1
    <2> QED BY <1>0, <1>1, <2>1 DEF Chained
<1>8. c.verb \in LastVerb => \A i \in 1..Len(t) : t[i].op # c.op
    <2> SUFFICES ASSUME c.verb \in LastVerb, NEW i \in 1..Len(t) PROVE t[i].op # c.op
        OBVIOUS
    <2>1. t[i] = u[i + 1] /\ i + 1 \in 1..Len(u) /\ 1 \in 1..Len(u) /\ 1 < i + 1 BY <1>1
    <2> QED BY <1>0, <1>1, <2>1 DEF Apart
<1> QED BY <1>3, <1>4, <1>5, <1>6, <1>7, <1>8 DEF Chained

-----------------------------------------------------------------------------
(* The state and the command to be answered *)

\* Which command a state waits for.
LEMMA VerbOfState ==
    ASSUME NEW c \in Command
    PROVE  /\ SentState(c) = "deleteFile" => c.verb = "DELE"
           /\ SentState(c) = "deleteDirectory" => c.verb = "RMD"
           /\ SentState(c) = "renameFrom" => c.verb = "RNFR"
           /\ SentState(c) = "awaitingRename" => c.verb = "RNTO"
           /\ SentState(c) = "settingPermissions" => c.verb = "CHMOD"
           /\ SentState(c) = "sentSize" => c.verb = "SIZE"
           /\ SentState(c) = "settingPassive" => c.verb = "DATA_CON"
           /\ SentState(c) = "sentOffset" => c.verb = "REST"
           /\ SentState(c) = "downloading" => c.verb = "RETR"
           /\ SentState(c) = "uploading" => c.verb = "STOR"
           /\ SentState(c) = "awaitingContents" => c.verb = "LIST"
<1>1. c.verb \in Verb BY DEF Command
<1> QED BY <1>1 DEF SentState, Verb

\* And the other way round, where it matters.
LEMMA StateOfVerb ==
    ASSUME NEW c \in Command
    PROVE  /\ SentState(c) \notin {"idle", "renameTo", "notConnected", "sentQuit"}
           /\ SentState(c) \in {"downloading", "uploading", "awaitingContents"} =>
                c.verb \in OverData \cap LastVerb
           /\ SentState(c) = "settingPassive" => c.verb = "DATA_CON"
           /\ SentState(c) = "sentOffset" => c.verb = "REST"
<1>1. c.verb \in Verb BY DEF Command
<1> QED BY <1>1 DEF SentState, Verb, OverData, LastVerb

\* The command the server is about to answer.
LEMMA AnsweredVerb ==
    ASSUME TypeOK, InStepInv, awaited # NoCommand, state # "sentQuit"
    PROVE  awaited \in Command /\ state = SentState(awaited)
BY AnsweredTyped DEF InStepInv, StateTellsCommand

-----------------------------------------------------------------------------
(* What a step does to the commands ahead *)

\* The answer is final for the command: it is no longer ahead.
LEMMA HeadAnswered ==
    ASSUME TypeOK, CallShape, CallShape', InStepInv, awaited # NoCommand,
           awaited' = NoCommand, UNCHANGED <<queue, todo, asked>>
    PROVE  /\ Ahead = <<awaited>> \o Waiting /\ Ahead' = Waiting
           /\ Open' = Waiting /\ Recorded' = WaitingRecorded
           /\ Waiting \in Seq(Command) /\ WaitingRecorded \in Seq(Command)
           /\ Chained(Ahead') /\ Apart(Ahead')
           /\ \A i \in 1..Len(Ahead') : Ahead'[i].op \in asked'
           /\ Waiting # <<>> => Follows(awaited, Waiting[1])
           /\ Waiting = <<>> => awaited.verb \in LastVerb
           /\ awaited.verb \in LastVerb =>
                \A i \in 1..Len(Waiting) : Waiting[i].op # awaited.op
<1>1. awaited \in Command BY AnsweredTyped
<1>2. /\ Waiting \in Seq(Command) /\ WaitingRecorded \in Seq(Command)
      /\ Ahead = Sent \o Waiting /\ Sent = <<awaited>>
    BY QueuesTyped DEF Sent
<1>3. Waiting' = Waiting /\ WaitingRecorded' = WaitingRecorded
      /\ ToSend' = ToSend /\ ToSendRecorded' = ToSendRecorded
    BY DEF Waiting, WaitingRecorded, ToSend, ToSendRecorded
<1>4. Sent' = <<>> /\ Unreported' = <<>> BY DEF Sent, Unreported
<1>5. \A s \in Seq(Command) : <<>> \o s = s OBVIOUS
<1>6. Ahead' = Waiting /\ Open' = Waiting
    <2>1. Ahead' = Sent' \o Waiting' /\ Open' = Unreported' \o Waiting'
        BY DEF Ahead, Open, Waiting
    <2> QED BY <1>2, <1>3, <1>4, <1>5, <2>1
<1>7. Recorded' = WaitingRecorded
    <2>1. Recorded' = (<<>> \o queue) \o ToSendRecorded
        BY <1>3 DEF Recorded, ToSendRecorded
    <2>2. queue \in Seq(Command) BY DEF TypeOK
    <2>3. <<>> \o queue = queue BY <2>2
    <2> QED BY <2>1, <2>3 DEF WaitingRecorded
<1>8. /\ Chained(Waiting) /\ Apart(Waiting)
      /\ Waiting # <<>> => Follows(awaited, Waiting[1])
      /\ Waiting = <<>> => awaited.verb \in LastVerb
      /\ awaited.verb \in LastVerb => \A i \in 1..Len(Waiting) : Waiting[i].op # awaited.op
    <2>1. Chained(<<awaited>> \o Waiting) /\ Apart(<<awaited>> \o Waiting)
        BY <1>2 DEF InStepInv
    <2> QED BY <1>1, <1>2, <2>1, ChainRest
<1>9. \A i \in 1..Len(Waiting) : Waiting[i].op \in asked
    <2>1. \A i \in 1..Len(Waiting) : Waiting[i] = Ahead[i + 1] /\ i + 1 \in 1..Len(Ahead)
        BY <1>2
    <2> QED BY <2>1 DEF InStepInv
<1> QED BY <1>2, <1>6, <1>7, <1>8, <1>9

\* What was recorded of the command answered, and what of the rest.
LEMMA HeadRecorded ==
    ASSUME TypeOK, CallShape, InStepInv, awaited # NoCommand,
           ~(Transferring /\ ~dataOpen), NEW q \in RecordQueue
    PROVE  LET rest == OperationsEnding(WaitingRecorded, q) IN
           /\ rest \in Seq(Op)
           /\ records[q] = IF awaited.verb \in EndVerbs(q) THEN <<awaited.op>> \o rest ELSE rest
<1> DEFINE rest == OperationsEnding(WaitingRecorded, q)
<1>1. awaited \in Command BY AnsweredTyped
<1>2. Unreported = <<awaited>> BY DEF Unreported
<1>3. WaitingRecorded \in Seq(Command) /\ Recorded = <<awaited>> \o WaitingRecorded
    BY <1>2, QueuesTyped
<1>4. <<awaited>> \in Seq(Command) BY <1>1
<1>5. OperationsEnding(Recorded, q) = OperationsEnding(<<awaited>>, q) \o rest
      /\ rest \in Seq(Op)
    BY <1>3, <1>4, EndingConcat
<1>6. records[q] = OperationsEnding(Recorded, q) BY DEF InStepInv, RecordsInStep
<1>7. OperationsEnding(<<awaited>>, q) = IF awaited.verb \in EndVerbs(q) THEN <<awaited.op>> ELSE <<>>
    BY <1>1, EndingOne
<1> HIDE DEF rest
<1>8. <<>> \o rest = rest BY <1>5
<1>9. records[q] = IF awaited.verb \in EndVerbs(q) THEN <<awaited.op>> \o rest ELSE rest
    BY <1>5, <1>6, <1>7, <1>8
<1> QED BY <1>5, <1>9 DEF rest

\* Only one record queue has the operations that end with this command.
LEMMA OneEnding ==
    ASSUME NEW q \in RecordQueue, NEW r \in RecordQueue, NEW v, v \in EndVerbs(q), v \in EndVerbs(r)
    PROVE  q = r
BY DEF RecordQueue, EndVerbs

\* An operation ends with the last of its commands.
LEMMA EndIsLast == ASSUME NEW q \in RecordQueue PROVE EndVerbs(q) \subseteq LastVerb
BY DEF RecordQueue, EndVerbs, LastVerb

\* A reply that tells the delegate about the head of the right record queue.
LEMMA TellsTheHead ==
    ASSUME TypeOK, CallShape, InStepInv, awaited # NoCommand, ~(Transferring /\ ~dataOpen),
           NEW q \in RecordQueue, awaited.verb \in EndVerbs(q),
           Told(First(records[q])), Dequeue(q)
    PROVE  /\ Told(awaited.op)
           /\ \A r \in RecordQueue : records'[r] = OperationsEnding(WaitingRecorded, r)
<1>1. records \in [RecordQueue -> Seq(Op)] BY DEF TypeOK
<1>2. ASSUME NEW r \in RecordQueue, r # q
      PROVE  records'[r] = OperationsEnding(WaitingRecorded, r)
    <2>1. awaited.verb \notin EndVerbs(r) BY <1>2, OneEnding
    <2>2. records[r] = OperationsEnding(WaitingRecorded, r) BY <2>1, HeadRecorded
    <2>3. records'[r] = records[r] BY <1>1, <1>2 DEF Dequeue
    <2> QED BY <2>2, <2>3
<1> DEFINE rest == OperationsEnding(WaitingRecorded, q)
<1>3. records[q] = <<awaited.op>> \o rest /\ rest \in Seq(Op) BY HeadRecorded
<1> HIDE DEF rest
<1>4. awaited.op \in Op BY AnsweredTyped
<1>5. records[q] # <<>> /\ Head(records[q]) = awaited.op /\ Tail(records[q]) = rest
    BY <1>3, <1>4
<1>6. First(records[q]) = awaited.op BY <1>5 DEF First
<1>7. records'[q] = rest BY <1>1, <1>5 DEF Dequeue, Rest
<1>8. Told(awaited.op) BY <1>6
<1> QED BY <1>2, <1>7, <1>8 DEF rest

\* The delegate is told about the operation answered, whose last command this was.
LEMMA ToldInTurn ==
    ASSUME TypeOK, CallShape, InStepInv, awaited # NoCommand, ~(Transferring /\ ~dataOpen),
           awaited.verb \in LastVerb, Told(awaited.op), asked' = asked, Open' = Waiting
    PROVE  Reported'
<1> DEFINE news == [op : Op \cup {NoOp}, done : Op]
           n == Len(told) + 1
<1>1. awaited \in Command BY AnsweredTyped
<1>2. /\ Waiting \in Seq(Command) /\ Ahead = <<awaited>> \o Waiting /\ Open = <<awaited>> \o Waiting
    BY QueuesTyped DEF Sent, Unreported
<1>3. \A i \in 1..Len(Waiting) : Waiting[i].op # awaited.op
    <2>1. Chained(<<awaited>> \o Waiting) /\ Apart(<<awaited>> \o Waiting)
        BY <1>2 DEF InStepInv
    <2> QED BY <1>1, <1>2, <2>1, ChainRest
<1>4. /\ awaited.op \in asked
      /\ \A i \in 1..Len(told) : awaited.op # told[i].done
      /\ \A i \in 1..Len(told), j \in 1..Len(Waiting) : Waiting[j].op # told[i].done
    <2>1. Ahead[1] = awaited /\ 1 \in 1..Len(Ahead) /\ Open[1] = awaited /\ 1 \in 1..Len(Open)
        BY <1>2
    <2>2. \A j \in 1..Len(Waiting) : Waiting[j] = Open[j + 1] /\ j + 1 \in 1..Len(Open)
        BY <1>2
    <2>3. \A i \in 1..Len(told), j \in 1..Len(Open) : Open[j].op # told[i].done
        BY DEF InStepInv, Reported
    <2>4. \A i \in 1..Len(Ahead) : Ahead[i].op \in asked BY DEF InStepInv
    <2>5. awaited.op \in asked BY <2>1, <2>4
    <2>6. \A i \in 1..Len(told) : awaited.op # told[i].done BY <2>1, <2>3
    <2>7. \A i \in 1..Len(told), j \in 1..Len(Waiting) : Waiting[j].op # told[i].done
        BY <2>2, <2>3
    <2> QED BY <2>5, <2>6, <2>7
<1>5. told \in Seq(news) /\ told' = Append(told, [op |-> awaited.op, done |-> awaited.op])
    BY DEF TypeOK, Told
<1> DEFINE new == [op |-> awaited.op, done |-> awaited.op]
<1>6. new.op = awaited.op /\ new.done = awaited.op OBVIOUS
<1> HIDE DEF new, news
<1>7. /\ Len(told') = n /\ told'[n] = new /\ n \in 1..Len(told')
      /\ \A i \in 1..Len(told') : i # n => i \in 1..Len(told) /\ told'[i] = told[i]
    BY <1>5 DEF new
<1> HIDE DEF n
<1>8. \A i \in 1..Len(told') : told'[i].op = told'[i].done /\ told'[i].done \in asked
    BY <1>4, <1>6, <1>7 DEF InStepInv, Reported
<1>9. ASSUME NEW i \in 1..Len(told'), NEW j \in 1..Len(told'), told'[i].done = told'[j].done
      PROVE  i = j
    BY <1>4, <1>6, <1>7, <1>9 DEF InStepInv, Reported
<1>10. \A i \in 1..Len(told'), j \in 1..Len(Waiting) : Waiting[j].op # told'[i].done
    BY <1>3, <1>4, <1>6, <1>7
<1> QED BY <1>8, <1>9, <1>10 DEF Reported

-----------------------------------------------------------------------------
(* The steps of the server *)

\* Nothing of the state needs the data connection when an operation has ended.
LEMMA NextIsFirst ==
    ASSUME NEW c \in Command, NEW d \in Command, Follows(c, d), c.verb \in LastVerb
    PROVE  d.verb \notin OverData
BY DEF Follows, FirstVerb, OverData

\* The end of an operation, by a reply or by the end of its data: all but what becomes
\* of the data streams.
LEMMA FinishKeeps ==
    ASSUME TypeOK, CallShape, CallShape', InStepInv, awaited # NoCommand,
           ~(Transferring /\ ~dataOpen), Idle,
           NEW q \in RecordQueue, awaited.verb \in EndVerbs(q),
           Told(First(records[q])), Dequeue(q),
           UNCHANGED <<queue, todo, asked, removed>>
    PROVE  InStepInv'
<1>1. awaited.verb \in LastVerb BY EndIsLast
<1>2. awaited' = NoCommand /\ state' = "idle" BY DEF Idle
<1>3. /\ Ahead' = Waiting /\ Open' = Waiting /\ Recorded' = WaitingRecorded
      /\ Chained(Ahead') /\ Apart(Ahead')
      /\ \A i \in 1..Len(Ahead') : Ahead'[i].op \in asked'
      /\ Waiting \in Seq(Command)
      /\ Waiting # <<>> => Follows(awaited, Waiting[1])
    BY <1>2, HeadAnswered
<1>4. Told(awaited.op) /\ \A r \in RecordQueue : records'[r] = OperationsEnding(Recorded', r)
    BY <1>3, TellsTheHead
<1>5. Reported' BY <1>1, <1>3, <1>4, ToldInTurn
<1>6. Waiting # <<>> => Waiting[1].verb \notin OverData
    <2>1. Waiting # <<>> => Waiting[1] \in Command BY <1>3
    <2> QED BY <1>1, <1>3, <2>1, AnsweredTyped, NextIsFirst
<1>7. DataConnectionReady' /\ RenameGoesOn' /\ StateTellsCommand'
    BY <1>2, <1>3, <1>6 DEF DataConnectionReady, RenameGoesOn, StateTellsCommand
<1>8. RecordsInStep' BY <1>4 DEF RecordsInStep
<1> QED BY <1>3, <1>5, <1>7, <1>8 DEF InStepInv

\* A reply in the middle of an operation's commands.
LEMMA GoesOnKeeps ==
    ASSUME TypeOK, CallShape, CallShape', InStepInv, awaited # NoCommand, ~Transferring,
           awaited.verb \notin LastVerb, awaited' = NoCommand,
           UNCHANGED <<queue, todo, asked, removed, records, told>>,
           state' \in {"idle", "renameTo", "sentOffset"}
    PROVE  /\ awaited \in Command /\ Waiting \in Seq(Command) /\ Ahead' = Waiting
           /\ Waiting # <<>> /\ Waiting[1] \in Dependants(awaited)
           /\ DataConnectionReady' /\ RenameGoesOn' => InStepInv'
<1>1. /\ Ahead' = Waiting /\ Open' = Waiting /\ Recorded' = WaitingRecorded
      /\ Chained(Ahead') /\ Apart(Ahead')
      /\ \A i \in 1..Len(Ahead') : Ahead'[i].op \in asked'
      /\ Waiting \in Seq(Command)
      /\ Waiting # <<>> => Follows(awaited, Waiting[1])
      /\ Waiting = <<>> => awaited.verb \in LastVerb
    BY HeadAnswered
<1>2. Waiting # <<>> /\ Waiting[1] \in Dependants(awaited) BY <1>1 DEF Follows
<1>3. RecordsInStep'
    <2> SUFFICES ASSUME NEW q \in RecordQueue PROVE records'[q] = OperationsEnding(Recorded', q)
        BY DEF RecordsInStep
    <2>1. awaited.verb \notin EndVerbs(q) BY EndIsLast
    <2> QED BY <1>1, <2>1, HeadRecorded
<1>4. Reported'
    <2>1. Open = <<awaited>> \o Waiting BY QueuesTyped DEF Unreported
    <2>2. \A j \in 1..Len(Waiting) : Waiting[j] = Open[j + 1] /\ j + 1 \in 1..Len(Open)
        BY <1>1, <2>1
    <2>3. \A i \in 1..Len(told), j \in 1..Len(Waiting) : Waiting[j].op # told[i].done
        BY <2>2 DEF InStepInv, Reported
    <2> QED BY <1>1, <2>3 DEF InStepInv, Reported
<1>5. StateTellsCommand' BY DEF StateTellsCommand
<1>6. DataConnectionReady' /\ RenameGoesOn' => InStepInv'
    BY <1>1, <1>3, <1>4, <1>5 DEF InStepInv
<1> QED BY <1>1, <1>2, <1>6, AnsweredTyped

\* The reply to a command that ends an operation.
LEMMA FinishReplyKeeps ==
    ASSUME TypeOK, CallShape, CallShape', InStepInv, Answered(state), state # "sentQuit",
           ~Transferring, NEW q \in RecordQueue, awaited.verb \in EndVerbs(q), Finish(q)
    PROVE  InStepInv'
BY FinishKeeps DEF Finish, Answered

\* A 350 to RNFR: the rename goes on with its second command.
LEMMA RenameFromKeeps ==
    ASSUME TypeOK, CallShape, CallShape', InStepInv, RenameFromReply, failed' = {}
    PROVE  InStepInv'
<1>1. /\ state = "renameFrom" /\ awaited # NoCommand /\ state' = "renameTo"
      /\ awaited' = NoCommand
      /\ UNCHANGED <<queue, records, dataOpen, got226, connected, asked, todo, told,
                     removed, failed>>
    BY DEF RenameFromReply, Answered
<1>2. awaited \in Command /\ awaited.verb = "RNFR" BY <1>1, AnsweredVerb, VerbOfState
<1>3. ~Transferring /\ awaited.verb \notin LastVerb BY <1>1, <1>2 DEF Transferring, LastVerb
<1>4. /\ Waiting \in Seq(Command) /\ Ahead' = Waiting /\ Waiting # <<>>
      /\ Waiting[1] \in Dependants(awaited)
      /\ DataConnectionReady' /\ RenameGoesOn' => InStepInv'
    BY <1>1, <1>3, GoesOnKeeps
<1>5. Waiting[1].verb = "RNTO" BY <1>2, <1>4, DependantsTable
<1> QED BY <1>1, <1>4, <1>5 DEF DataConnectionReady, RenameGoesOn

\* The reply to SIZE that is not a refusal: the download goes on.
LEMMA SizeKeeps ==
    ASSUME TypeOK, CallShape, CallShape', InStepInv, SizeReply, failed' = {}
    PROVE  InStepInv'
<1>1. /\ state = "sentSize" /\ awaited # NoCommand /\ state' = "idle"
      /\ awaited' = NoCommand
      /\ UNCHANGED <<queue, records, dataOpen, got226, connected, asked, todo, told,
                     removed, failed>>
    BY DEF SizeReply, Answered, FailTransfer, Idle
<1>2. awaited \in Command /\ awaited.verb = "SIZE" BY <1>1, AnsweredVerb, VerbOfState
<1>3. ~Transferring /\ awaited.verb \notin LastVerb BY <1>1, <1>2 DEF Transferring, LastVerb
<1>4. /\ Waiting \in Seq(Command) /\ Ahead' = Waiting /\ Waiting # <<>>
      /\ Waiting[1] \in Dependants(awaited)
      /\ DataConnectionReady' /\ RenameGoesOn' => InStepInv'
    BY <1>1, <1>3, GoesOnKeeps
<1>5. Waiting[1].verb \notin OverData BY <1>2, <1>4, DependantsTable DEF OverData
<1> QED BY <1>1, <1>4, <1>5 DEF DataConnectionReady, RenameGoesOn

\* The reply to REST, also a refusal, at which the connection stays where it is.
LEMMA OffsetKeeps ==
    ASSUME TypeOK, CallShape, CallShape', InStepInv, OffsetReply
    PROVE  InStepInv'
<1>1. /\ state = "sentOffset" /\ awaited # NoCommand /\ state' \in {"idle", "sentOffset"}
      /\ awaited' = NoCommand
      /\ UNCHANGED <<queue, records, dataOpen, got226, connected, asked, todo, told,
                     removed, failed>>
    BY DEF OffsetReply, Answered, Idle
<1>2. awaited \in Command /\ awaited.verb = "REST" BY <1>1, AnsweredVerb, VerbOfState
<1>3. ~Transferring /\ awaited.verb \notin LastVerb BY <1>1, <1>2 DEF Transferring, LastVerb
<1>4. DataConnectionReady' /\ RenameGoesOn' => InStepInv'
    BY <1>1, <1>3, GoesOnKeeps
<1>5. dataOpen /\ ~got226 BY <1>1 DEF InStepInv, DataConnectionReady
<1> QED BY <1>1, <1>4, <1>5 DEF DataConnectionReady, RenameGoesOn

\* The reply to PASV or PORT: the data connection opens, or there is none left to try.
LEMMA DataConnectionReplyKeeps ==
    ASSUME TypeOK, CallShape, CallShape', InStepInv, DataConnectionReply
    PROVE  InStepInv'
<1>1. /\ state = "settingPassive" /\ awaited # NoCommand
      /\ UNCHANGED <<queue, records, got226, connected, asked, todo, told, removed, failed>>
    BY DEF DataConnectionReply, Answered
<1>2. awaited \in Command /\ awaited.verb = "DATA_CON" BY <1>1, AnsweredVerb, VerbOfState
<1>3. ~Transferring /\ awaited.verb \notin LastVerb /\ ~got226
    BY <1>1, <1>2 DEF Transferring, LastVerb, InStepInv, DataConnectionReady
<1>4. CASE dataOpen' = TRUE /\ Idle
    <2>1. state' = "idle" /\ awaited' = NoCommand BY <1>4 DEF Idle
    <2>2. DataConnectionReady' /\ RenameGoesOn' => InStepInv'
        BY <1>1, <1>3, <2>1, GoesOnKeeps
    <2> QED BY <1>1, <1>3, <1>4, <2>1, <2>2 DEF DataConnectionReady, RenameGoesOn
<1>5. CASE state' = "sentQuit" /\ UNCHANGED <<dataOpen, awaited>>
    <2>1. ~Transferring' BY <1>5 DEF Transferring
    <2>2. /\ Ahead' = Ahead /\ Open' = Open /\ Recorded' = Recorded
        BY <1>1, <1>3, <1>5, <2>1
           DEF Ahead, Open, Recorded, Sent, Unreported, ToSend
    <2>3. StateTellsCommand' /\ DataConnectionReady' /\ RenameGoesOn'
        BY <1>1, <1>5 DEF StateTellsCommand, DataConnectionReady, RenameGoesOn
    <2>4. RecordsInStep' /\ Reported' BY <1>1, <2>2 DEF InStepInv, RecordsInStep, Reported
    <2> QED BY <1>1, <2>2, <2>3, <2>4 DEF InStepInv
<1> QED BY <1>4, <1>5 DEF DataConnectionReply

\* A transfer is of one of the three verbs that end an operation.
LEMMA TransferVerb ==
    ASSUME TypeOK, InStepInv, awaited # NoCommand, Transferring
    PROVE  /\ awaited \in Command /\ state = SentState(awaited)
           /\ awaited.verb \in OverData /\ awaited.verb \in LastVerb
           /\ state = "downloading" => awaited.verb = "RETR"
           /\ state = "uploading" => awaited.verb = "STOR"
           /\ state = "awaitingContents" => awaited.verb = "LIST"
<1>1. state \in {"downloading", "uploading", "awaitingContents"} BY DEF Transferring
<1>2. awaited \in Command /\ state = SentState(awaited) BY <1>1, AnsweredVerb
<1> QED BY <1>1, <1>2, StateOfVerb, VerbOfState

\* A transfer that has been reported already is answered: the connection is idle.
LEMMA ReportedKeeps ==
    ASSUME TypeOK, CallShape, CallShape', InStepInv, Transferring, awaited # NoCommand,
           ~dataOpen, ~dataOpen', state' = "idle", awaited' = NoCommand,
           UNCHANGED <<queue, records, asked, todo, told, removed>>
    PROVE  InStepInv'
<1>1. /\ Ahead' = Waiting /\ Open' = Waiting /\ Recorded' = WaitingRecorded
      /\ Chained(Ahead') /\ Apart(Ahead')
      /\ \A i \in 1..Len(Ahead') : Ahead'[i].op \in asked'
      /\ Waiting \in Seq(Command) /\ WaitingRecorded \in Seq(Command)
      /\ Waiting # <<>> => Follows(awaited, Waiting[1])
    BY HeadAnswered
<1>2. Open = Waiting /\ Recorded = WaitingRecorded
    <2>1. Unreported = <<>> BY DEF Unreported
    <2>2. \A s \in Seq(Command) : <<>> \o s = s OBVIOUS
    <2> QED BY <1>1, <2>1, <2>2, QueuesTyped
<1>3. RecordsInStep' /\ Reported'
    BY <1>1, <1>2 DEF InStepInv, RecordsInStep, Reported
<1>4. Waiting # <<>> => Waiting[1].verb \notin OverData
    <2>1. Waiting # <<>> => Waiting[1] \in Command BY <1>1
    <2> QED BY <1>1, <2>1, TransferVerb, NextIsFirst
<1>5. StateTellsCommand' /\ DataConnectionReady' /\ RenameGoesOn'
    BY <1>1, <1>4 DEF StateTellsCommand, DataConnectionReady, RenameGoesOn
<1> QED BY <1>1, <1>3, <1>5 DEF InStepInv

\* The 226, before the data have ended or after them.
LEMMA Transfer226Keeps ==
    ASSUME TypeOK, CallShape, CallShape', InStepInv, TransferComplete226
    PROVE  InStepInv'
<1>1. /\ Transferring /\ awaited # NoCommand
      /\ UNCHANGED <<queue, records, dataOpen, connected, asked, todo, told, removed, failed>>
    BY DEF TransferComplete226
<1>2. CASE dataOpen
    <2>1. UNCHANGED <<state, awaited>> BY <1>2 DEF TransferComplete226
    <2>2. /\ Ahead' = Ahead /\ Open' = Open /\ Recorded' = Recorded
        BY <1>1, <2>1 DEF Ahead, Open, Recorded, Sent, Unreported, ToSend, Transferring
    <2>3. StateTellsCommand' /\ DataConnectionReady' /\ RenameGoesOn'
        BY <1>1, <2>1, <2>2
           DEF StateTellsCommand, DataConnectionReady, RenameGoesOn, InStepInv, Transferring
    <2>4. RecordsInStep' /\ Reported' BY <1>1, <2>2 DEF InStepInv, RecordsInStep, Reported
    <2> QED BY <1>1, <2>2, <2>3, <2>4 DEF InStepInv
<1>3. CASE ~dataOpen
    <2>1. state' = "idle" /\ awaited' = NoCommand BY <1>3 DEF TransferComplete226, Idle
    <2> QED BY <1>1, <1>3, <2>1, ReportedKeeps
<1> QED BY <1>2, <1>3

\* The end of a data stream before 226: the operation is reported, and its command
\* still to be answered.
LEMMA EndsBefore226 ==
    ASSUME TypeOK, CallShape, CallShape', InStepInv, awaited # NoCommand, Transferring,
           dataOpen, dataOpen' = FALSE, UNCHANGED <<state, awaited>>, Told(awaited.op),
           \A r \in RecordQueue : records'[r] = OperationsEnding(WaitingRecorded, r),
           UNCHANGED <<queue, todo, asked, removed>>
    PROVE  InStepInv'
<1>1. /\ Waiting \in Seq(Command) /\ WaitingRecorded \in Seq(Command) BY QueuesTyped
<1>2. Unreported' = <<>> /\ Sent' = Sent BY DEF Unreported, Transferring, Sent
<1>3. Ahead' = Ahead BY <1>2 DEF Ahead, ToSend
<1>4. Open' = Waiting
    <2>1. Open' = <<>> \o Waiting BY <1>2 DEF Open, Waiting, ToSend
    <2> QED BY <1>1, <2>1
<1>5. Recorded' = WaitingRecorded
    <2>1. Recorded' = (<<>> \o queue) \o ToSendRecorded
        BY DEF Recorded, ToSendRecorded, Transferring
    <2>2. queue \in Seq(Command) BY DEF TypeOK
    <2>3. <<>> \o queue = queue BY <2>2
    <2> QED BY <2>1, <2>3 DEF WaitingRecorded
<1>6. Reported' BY <1>4, TransferVerb, ToldInTurn
<1>7. RecordsInStep' BY <1>5 DEF RecordsInStep
<1>8. StateTellsCommand' /\ DataConnectionReady' /\ RenameGoesOn'
    BY <1>3 DEF StateTellsCommand, DataConnectionReady, RenameGoesOn, InStepInv, Transferring
<1> QED BY <1>3, <1>6, <1>7, <1>8 DEF InStepInv

\* The same after 226.
LEMMA EndsAfter226 ==
    ASSUME TypeOK, CallShape, CallShape', InStepInv, awaited # NoCommand, Transferring,
           dataOpen, Idle, Told(awaited.op),
           \A r \in RecordQueue : records'[r] = OperationsEnding(WaitingRecorded, r),
           UNCHANGED <<queue, todo, asked, removed>>
    PROVE  InStepInv'
<1>1. state' = "idle" /\ awaited' = NoCommand BY DEF Idle
<1>2. /\ Ahead' = Waiting /\ Open' = Waiting /\ Recorded' = WaitingRecorded
      /\ Chained(Ahead') /\ Apart(Ahead')
      /\ \A i \in 1..Len(Ahead') : Ahead'[i].op \in asked'
      /\ Waiting \in Seq(Command)
      /\ Waiting # <<>> => Follows(awaited, Waiting[1])
    BY <1>1, HeadAnswered
<1>3. Reported' BY <1>2, TransferVerb, ToldInTurn
<1>4. Waiting # <<>> => Waiting[1].verb \notin OverData
    <2>1. Waiting # <<>> => Waiting[1] \in Command BY <1>2
    <2> QED BY <1>2, <2>1, TransferVerb, NextIsFirst
<1>5. StateTellsCommand' /\ DataConnectionReady' /\ RenameGoesOn'
    BY <1>1, <1>2, <1>4 DEF StateTellsCommand, DataConnectionReady, RenameGoesOn
<1>6. RecordsInStep' BY <1>2 DEF RecordsInStep
<1> QED BY <1>2, <1>3, <1>5, <1>6 DEF InStepInv

\* The end of the data, before the 226 or after it.
LEMMA DataConnectionEndsKeeps ==
    ASSUME TypeOK, CallShape, CallShape', InStepInv, DataConnectionEnds
    PROVE  InStepInv'
<1>1. /\ Transferring /\ awaited # NoCommand /\ dataOpen /\ dataOpen' = FALSE
      /\ UNCHANGED <<queue, got226, connected, asked, todo, removed, failed>>
    BY DEF DataConnectionEnds, TransferEnds
<1>2. /\ Told(awaited.op)
      /\ \A r \in RecordQueue : records'[r] = OperationsEnding(WaitingRecorded, r)
    <2>1. CASE state = "downloading"
        <3>1. Told(First(records["downloads"])) /\ Dequeue("downloads")
            BY <2>1 DEF DataConnectionEnds, TransferEnds
        <3>2. "downloads" \in RecordQueue /\ awaited.verb \in EndVerbs("downloads")
            BY <1>1, <2>1, TransferVerb DEF RecordQueue, EndVerbs
        <3> QED BY <1>1, <3>1, <3>2, TellsTheHead
    <2>2. CASE state = "uploading"
        <3>1. Told(First(records["uploads"])) /\ Dequeue("uploads")
            BY <2>2 DEF DataConnectionEnds, TransferEnds
        <3>2. "uploads" \in RecordQueue /\ awaited.verb \in EndVerbs("uploads")
            BY <1>1, <2>2, TransferVerb DEF RecordQueue, EndVerbs
        <3> QED BY <1>1, <3>1, <3>2, TellsTheHead
    <2>3. CASE state = "awaitingContents"
        <3>1. Told(awaited.op) /\ UNCHANGED records BY <2>3 DEF DataConnectionEnds, TransferEnds
        <3>2. \A r \in RecordQueue : awaited.verb \notin EndVerbs(r)
            BY <1>1, <2>3, TransferVerb DEF RecordQueue, EndVerbs
        <3> QED BY <1>1, <3>1, <3>2, HeadRecorded
    <2> QED BY <1>1, <2>1, <2>2, <2>3 DEF Transferring
<1>3. CASE got226
    <2>1. Idle BY <1>3 DEF DataConnectionEnds
    <2> QED BY <1>1, <1>2, <2>1, EndsAfter226
<1>4. CASE ~got226
    <2>1. UNCHANGED <<state, awaited>> BY <1>4 DEF DataConnectionEnds
    <2> QED BY <1>1, <1>2, <2>1, EndsBefore226
<1> QED BY <1>3, <1>4

\* A refusal in the middle of an operation leaves it in failed, and 221 and 421 end
\* the connection.
LEMMA RefusalFails ==
    ASSUME DownloadRefused \/ UploadRefused \/ NoCaseFor \/ QuitReply \/ ServiceClosing
    PROVE  ~(connected' /\ failed' = {})
<1>1. CASE DownloadRefused BY <1>1 DEF DownloadRefused, FailTransfer
<1>2. CASE UploadRefused BY <1>2 DEF UploadRefused, FailTransfer
<1>3. CASE QuitReply BY <1>3 DEF QuitReply, EmptyAll
<1>4. CASE ServiceClosing BY <1>4 DEF ServiceClosing, EmptyAll
<1>5. CASE NoCaseFor BY <1>5 DEF NoCaseFor
<1> QED BY <1>1, <1>2, <1>3, <1>4, <1>5

\* Every reply that refuses nothing keeps records and commands in step.
LEMMA ServerKeeps ==
    ASSUME TypeOK, CallShape, CallShape', InStepInv, Server, connected' /\ failed' = {}
    PROVE  InStepInv'
<1>0. ASSUME NEW v, Answered(v), v \in {"deleteFile", "deleteDirectory",
                                        "settingPermissions", "awaitingRename"}
      PROVE  /\ Answered(state) /\ state # "sentQuit" /\ ~Transferring
             /\ awaited \in Command /\ SentState(awaited) = v
    <2>1. state = v /\ awaited # NoCommand BY <1>0 DEF Answered
    <2> QED BY <1>0, <2>1, AnsweredVerb DEF Answered, Transferring
<1>1. CASE DeleteFileReply
    <2>1. "deletions" \in RecordQueue /\ awaited.verb \in EndVerbs("deletions")
        BY <1>0, <1>1, VerbOfState DEF DeleteFileReply, RecordQueue, EndVerbs
    <2> QED BY <1>0, <1>1, <2>1, FinishReplyKeeps DEF DeleteFileReply
<1>2. CASE DeleteDirectoryReply
    <2>1. "deletions" \in RecordQueue /\ awaited.verb \in EndVerbs("deletions")
        BY <1>0, <1>2, VerbOfState DEF DeleteDirectoryReply, RecordQueue, EndVerbs
    <2> QED BY <1>0, <1>2, <2>1, FinishReplyKeeps DEF DeleteDirectoryReply
<1>3. CASE PermissionsReply
    <2>1. "permissions" \in RecordQueue /\ awaited.verb \in EndVerbs("permissions")
        BY <1>0, <1>3, VerbOfState DEF PermissionsReply, RecordQueue, EndVerbs
    <2> QED BY <1>0, <1>3, <2>1, FinishReplyKeeps DEF PermissionsReply
<1>4. CASE RenameReply
    <2>1. "renames" \in RecordQueue /\ awaited.verb \in EndVerbs("renames")
        BY <1>0, <1>4, VerbOfState DEF RenameReply, RecordQueue, EndVerbs
    <2> QED BY <1>0, <1>4, <2>1, FinishReplyKeeps DEF RenameReply
<1>5. CASE RenameFromReply BY <1>5, RenameFromKeeps
<1>6. CASE SizeReply BY <1>6, SizeKeeps
<1>7. CASE OffsetReply BY <1>7, OffsetKeeps
<1>8. CASE DataConnectionReply BY <1>8, DataConnectionReplyKeeps
<1>9. CASE TransferComplete226 BY <1>9, Transfer226Keeps
<1>10. CASE DataConnectionEnds BY <1>10, DataConnectionEndsKeeps
<1>11. CASE DownloadRefused \/ UploadRefused \/ NoCaseFor \/ QuitReply \/ ServiceClosing
    BY <1>11, RefusalFails
<1>12. CASE MakesIdle
    <2>1. /\ awaited # NoCommand /\ state' = "idle" /\ awaited' = NoCommand
          /\ UNCHANGED <<queue, records, asked, todo, told, removed>>
          /\ dataOpen' = dataOpen \/ dataOpen' = FALSE
        BY <1>12 DEF MakesIdle, Idle
    <2>2. Transferring /\ ~dataOpen
        <3> SUFFICES ASSUME ~(Transferring /\ ~dataOpen) PROVE FALSE
            OBVIOUS
        <3>1. failed' = failed \cup {awaited.op} BY <1>12 DEF MakesIdle
        <3> QED BY <3>1
    <2>3. ~dataOpen' BY <2>1, <2>2
    <2> QED BY <2>1, <2>2, <2>3, ReportedKeeps
<1> QED BY <1>1, <1>2, <1>3, <1>4, <1>5, <1>6, <1>7, <1>8, <1>9, <1>10, <1>11, <1>12 DEF Server

-----------------------------------------------------------------------------
(* The steps of the client and of the background thread *)

\* How what is recorded is made up after a step.
LEMMA RecordedNext ==
    ASSUME Unreported' \in Seq(Command), queue' \in Seq(Command),
           ToSendRecorded' \in Seq(Command)
    PROVE  Recorded' = Unreported' \o WaitingRecorded'
<1>1. Recorded' = (Unreported' \o queue') \o ToSendRecorded'
    BY DEF Recorded, Unreported, ToSendRecorded
<1> QED BY <1>1 DEF WaitingRecorded

\* A call: the operation has its record and its commands still to come.
LEMMA CallKeeps ==
    ASSUME TypeOK, CallShape, TypeOK', CallShape', InStepInv, NEW o \in Op, Call(o)
    PROVE  InStepInv'
<1> DEFINE s == Commands(o)
           r == [verb |-> "record", op |-> o]
<1>1. /\ s \in Seq(Command) /\ s # <<>> /\ \A i \in 1..Len(s) : s[i].op = o
      /\ Chained(s) /\ Apart(s) /\ s[1].verb \in FirstVerb
    BY CommandsShape, CommandsChained
<1>2. /\ todo = <<>> /\ o \notin asked /\ asked' = asked \cup {o}
      /\ todo' = IF RecordsOf(Kind[o]) = "none" THEN s ELSE <<r>> \o s
      /\ UNCHANGED <<queue, state, records, dataOpen, got226, connected, awaited,
                     told, removed, failed>>
    BY CallIs
<1>3. \A c \in Command : c.verb # "record" BY DEF Command, Verb
<1>4. r.verb = "record" OBVIOUS
<1> HIDE DEF s, r
<1>5. ToSend' = s /\ (ToSendRecorded' = IF RecordsOf(Kind[o]) = "none" THEN s ELSE <<>>)
    <2>1. CASE RecordsOf(Kind[o]) = "none"
        <3>1. todo' = s BY <1>2, <2>1
        <3>2. Head(s) \in Command BY <1>1
        <3> QED BY <1>3, <2>1, <3>1, <3>2 DEF ToSend, ToSendRecorded
    <2>2. CASE RecordsOf(Kind[o]) # "none"
        <3>1. todo' = <<r>> \o s BY <1>2, <2>2
        <3>2. todo' # <<>> /\ Head(todo') = r /\ Tail(todo') = s BY <1>1, <3>1
        <3> QED BY <1>4, <2>2, <3>2 DEF ToSend, ToSendRecorded
    <2> QED BY <2>1, <2>2
<1>6. ToSend = <<>> /\ ToSendRecorded = <<>> BY <1>2 DEF ToSend, ToSendRecorded
<1>7. Sent' = Sent /\ Unreported' = Unreported /\ Transferring' = Transferring
    BY <1>2 DEF Sent, Unreported, Transferring
<1>8. /\ Sent \in Seq(Command) /\ Unreported \in Seq(Command) /\ queue \in Seq(Command)
      /\ Ahead = Sent \o (queue \o <<>>) /\ Open = Unreported \o (queue \o <<>>)
      /\ Recorded = Unreported \o (queue \o <<>>)
      /\ Ahead \in Seq(Command) /\ Open \in Seq(Command) /\ Recorded \in Seq(Command)
    BY <1>6, QueuesTyped DEF Waiting, WaitingRecorded, TypeOK
<1>9. /\ Ahead' = Sent \o (queue \o s) /\ Open' = Unreported \o (queue \o s)
      /\ Recorded' = Unreported \o (queue \o ToSendRecorded')
    <2>1. ToSendRecorded' \in Seq(Command)
        <3>1. <<>> \in Seq(Command) OBVIOUS
        <3> QED BY <1>1, <1>5, <3>1
    <2>2. Recorded' = Unreported' \o WaitingRecorded'
        BY <1>2, <1>7, <1>8, <2>1, RecordedNext
    <2> QED BY <1>2, <1>5, <1>7, <2>2 DEF Ahead, Open, WaitingRecorded
<1>10. \A a \in Seq(Command) : a \o (queue \o s) = (a \o (queue \o <<>>)) \o s
    <2> TAKE a \in Seq(Command)
    <2>0. queue \in Seq(Command) /\ s \in Seq(Command) BY <1>1, <1>8
    <2>1. (a \o queue) \o s = a \o (queue \o s) BY ONLY <2>0, CommandsAssociative, a \in Seq(Command)
    <2>2. queue \o <<>> = queue BY <1>8, ConcatEmptySeq, Zenon
    <2> QED BY <2>1, <2>2, Zenon
<1>11. Ahead' = Ahead \o s /\ Open' = Open \o s
    <2>1. Ahead' = (Sent \o (queue \o <<>>)) \o s BY <1>8, <1>9, <1>10
    <2>2. Open' = (Unreported \o (queue \o <<>>)) \o s BY <1>8, <1>9, <1>10
    <2> QED BY <1>8, <2>1, <2>2
<1>12. \A i \in 1..Len(Ahead) : Ahead[i].op \in asked /\ Ahead[i].op # o
    BY <1>2 DEF InStepInv
<1>13. Chained(Ahead')
    <2>1. Ahead # <<>> => Follows(Ahead[Len(Ahead)], s[1])
        <3> SUFFICES ASSUME Ahead # <<>> PROVE Follows(Ahead[Len(Ahead)], s[1])
            OBVIOUS
        <3>1. Len(Ahead) \in 1..Len(Ahead) /\ 1 \in 1..Len(s) BY <1>1, <1>8
        <3>2. Ahead[Len(Ahead)].verb \in LastVerb BY DEF InStepInv, Chained
        <3> QED BY <1>1, <1>12, <3>1, <3>2 DEF Follows
    <2> QED BY <1>1, <1>8, <1>11, <2>1, ChainedConcat DEF InStepInv
<1>14. Apart(Ahead') BY <1>1, <1>8, <1>11, <1>12, ApartConcat DEF InStepInv
<1>15. \A i \in 1..Len(Ahead') : Ahead'[i].op \in asked'
    <2>1. \A i \in 1..Len(Ahead') :
            \/ i \in 1..Len(Ahead) /\ Ahead'[i] = Ahead[i]
            \/ i - Len(Ahead) \in 1..Len(s) /\ Ahead'[i] = s[i - Len(Ahead)]
        BY <1>1, <1>8, <1>11
    <2> QED BY <1>1, <1>2, <1>12, <2>1
<1>16. RecordsInStep'
    <2> SUFFICES ASSUME NEW q \in RecordQueue PROVE records'[q] = OperationsEnding(Recorded', q)
        BY DEF RecordsInStep
    <2>1. records[q] = OperationsEnding(Recorded, q) BY DEF InStepInv, RecordsInStep
    <2>2. CASE RecordsOf(Kind[o]) = "none"
        <3>1. Recorded' = Recorded \o s
            <4>1. Recorded' = (Unreported \o (queue \o <<>>)) \o s
                BY <1>5, <1>8, <1>9, <1>10, <2>2
            <4> QED BY <1>8, <4>1
        <3>2. /\ OperationsEnding(Recorded', q) = OperationsEnding(Recorded, q) \o OperationsEnding(s, q)
              /\ OperationsEnding(Recorded, q) \in Seq(Op)
            <4>1. Recorded \in Seq(Command) /\ s \in Seq(Command) BY <1>1, <1>8
            <4> QED BY <3>1, <4>1, EndingConcat
        <3>3. OperationsEnding(s, q) = <<>> BY <2>2, EndingUnrecorded DEF s
        <3>4. \A a \in Seq(Op) : a \o <<>> = a OBVIOUS
        <3> QED BY <1>2, <2>1, <3>2, <3>3, <3>4
    <2>3. CASE RecordsOf(Kind[o]) # "none"
        BY <1>2, <1>5, <1>8, <1>9, <2>1, <2>3
    <2> QED BY <2>2, <2>3
<1>17. Reported'
    <2>1. \A j \in 1..Len(Open') :
            \/ j \in 1..Len(Open) /\ Open'[j] = Open[j]
            \/ j - Len(Open) \in 1..Len(s) /\ Open'[j] = s[j - Len(Open)]
        BY <1>1, <1>8, <1>11
    <2>2. \A i \in 1..Len(told) : told[i].done \in asked /\ told[i].done # o
        BY <1>2 DEF InStepInv, Reported
    <2>3. ASSUME NEW i \in 1..Len(told), NEW j \in 1..Len(Open')
          PROVE  Open'[j].op # told[i].done
        <3>1. CASE j \in 1..Len(Open) /\ Open'[j] = Open[j]
            BY <3>1 DEF InStepInv, Reported
        <3>2. CASE j - Len(Open) \in 1..Len(s) /\ Open'[j] = s[j - Len(Open)]
            BY <1>1, <2>2, <3>2
        <3> QED BY <2>1, <3>1, <3>2
    <2> QED BY <1>2, <2>2, <2>3 DEF InStepInv, Reported
<1>18. StateTellsCommand' /\ DataConnectionReady' /\ RenameGoesOn'
    <2>1. Ahead # <<>> => Ahead' # <<>> /\ Ahead'[1] = Ahead[1] BY <1>1, <1>8, <1>11
    <2>2. Ahead = <<>> => Ahead' = s BY <1>1, <1>11
    <2>3. s[1].verb \notin OverData BY <1>1 DEF FirstVerb, OverData
    <2> QED BY <1>2, <2>1, <2>2, <2>3
            DEF InStepInv, StateTellsCommand, DataConnectionReady, RenameGoesOn
<1> QED BY <1>2, <1>13, <1>14, <1>15, <1>16, <1>17, <1>18 DEF InStepInv

\* The steps that move a command from one queue to the next.
LEMMA SameAheadKeeps ==
    ASSUME InStepInv, Ahead' = Ahead, Open' = Open,
           UNCHANGED <<asked, told, removed>>,
           RecordsInStep', StateTellsCommand', DataConnectionReady', RenameGoesOn'
    PROVE  InStepInv'
BY DEF InStepInv, Reported

\* The record is queued before the first of the operation's commands.
LEMMA QueueRecordKeeps ==
    ASSUME TypeOK, CallShape, TypeOK', CallShape', InStepInv, QueueRecord
    PROVE  InStepInv'
<1> DEFINE o == Head(todo).op
           s == Commands(o)
           p == RecordsOf(Kind[o])
<1>1. /\ todo # <<>> /\ Head(todo).verb = "record" /\ todo' = Tail(todo)
      /\ records' = [records EXCEPT ![p] = Append(@, o)]
      /\ UNCHANGED <<queue, state, dataOpen, got226, connected, awaited, asked, told,
                     removed, failed>>
    BY DEF QueueRecord
<1>2. o \in Op /\ p \in RecordQueue
    <2>1. Head(todo) \in Called BY <1>1, TodoTail
    <2>2. o \in Op BY <2>1 DEF Called
    <2>3. Kind[o] \in OpKind /\ p # "none" BY <1>1, <2>2, OpsAssumption DEF CallShape
    <2> QED BY <2>2, <2>3, RecordsOfType
<1>3. todo' = s /\ Tail(todo) = s BY <1>1 DEF CallShape
<1>4. s \in Seq(Command) /\ s # <<>> BY <1>2, CommandsShape
<1>5. \A c \in Command : c.verb # "record" BY DEF Command, Verb
<1>6. Head(s) \in Command BY <1>4
<1>7. ToSend = s /\ ToSend' = s /\ ToSendRecorded = <<>> /\ ToSendRecorded' = s
    BY <1>1, <1>3, <1>4, <1>5, <1>6 DEF ToSend, ToSendRecorded
<1> HIDE DEF s
<1>8. Ahead' = Ahead /\ Open' = Open /\ Unreported' = Unreported
    BY <1>1, <1>7 DEF Ahead, Open, Sent, Unreported, Transferring
<1>9. /\ Unreported \in Seq(Command) /\ queue \in Seq(Command)
      /\ Recorded = Unreported \o (queue \o <<>>) /\ Recorded \in Seq(Command)
      /\ Recorded' = Unreported \o (queue \o s)
    <2>1. Unreported \in Seq(Command) /\ queue \in Seq(Command)
          /\ Recorded = Unreported \o (queue \o <<>>) /\ Recorded \in Seq(Command)
        BY <1>7, QueuesTyped DEF WaitingRecorded, TypeOK
    <2>2. Recorded' = Unreported' \o WaitingRecorded'
        BY <1>1, <1>4, <1>7, <1>8, <2>1, RecordedNext
    <2> QED BY <1>1, <1>7, <1>8, <2>1, <2>2 DEF WaitingRecorded
<1>10. \A a \in Seq(Command) : a \o (queue \o s) = (a \o (queue \o <<>>)) \o s
    <2> TAKE a \in Seq(Command)
    <2>0. queue \in Seq(Command) /\ s \in Seq(Command) BY <1>4, <1>9
    <2>1. (a \o queue) \o s = a \o (queue \o s) BY ONLY <2>0, CommandsAssociative, a \in Seq(Command)
    <2>2. queue \o <<>> = queue BY <1>9, ConcatEmptySeq, Zenon
    <2> QED BY <2>1, <2>2, Zenon
<1>11. Recorded' = Recorded \o s
    <2>1. Recorded' = (Unreported \o (queue \o <<>>)) \o s BY <1>9, <1>10
    <2> QED BY <1>9, <2>1
<1>12. RecordsInStep'
    <2> SUFFICES ASSUME NEW q \in RecordQueue PROVE records'[q] = OperationsEnding(Recorded', q)
        BY DEF RecordsInStep
    <2>1. /\ records[q] = OperationsEnding(Recorded, q) /\ records[q] \in Seq(Op)
          /\ records \in [RecordQueue -> Seq(Op)]
        BY DEF InStepInv, RecordsInStep, TypeOK
    <2>2. OperationsEnding(Recorded', q) = records[q] \o OperationsEnding(s, q)
        <3>1. Recorded \in Seq(Command) /\ s \in Seq(Command) BY <1>4, <1>9
        <3>2. OperationsEnding(Recorded \o s, q) = OperationsEnding(Recorded, q) \o OperationsEnding(s, q)
            BY <3>1, EndingConcat
        <3> QED BY <1>11, <2>1, <3>2
    <2>3. OperationsEnding(s, q) = IF p = q THEN <<o>> ELSE <<>>
        BY <1>2, EndingCommands DEF s
    <2> HIDE DEF o, p
    <2>4. records'[q] = IF p = q THEN Append(records[q], o) ELSE records[q]
        BY <1>1, <1>2, <2>1
    <2>5. \A a \in Seq(Op) : a \o <<>> = a /\ Append(a, o) = a \o <<o>>
        BY <1>2
    <2> QED BY <2>1, <2>2, <2>3, <2>4, <2>5
<1>13. StateTellsCommand' /\ DataConnectionReady' /\ RenameGoesOn'
    BY <1>1, <1>8 DEF InStepInv, StateTellsCommand, DataConnectionReady, RenameGoesOn
<1> QED BY <1>1, <1>8, <1>12, <1>13, SameAheadKeeps

\* A command moves from the call to the queue, where it is still to be answered.
LEMMA QueueCommandKeeps ==
    ASSUME TypeOK, CallShape, TypeOK', CallShape', InStepInv, QueueCommand
    PROVE  InStepInv'
<1>1. /\ todo # <<>> /\ Head(todo).verb # "record" /\ todo' = Tail(todo)
      /\ queue' = Append(queue, Head(todo))
      /\ UNCHANGED <<state, records, dataOpen, got226, connected, awaited, asked,
                     told, removed, failed>>
    BY DEF QueueCommand
<1>2. \A i \in 1..Len(todo') : todo'[i].verb # "record" BY <1>1, TodoTail
<1>3. todo' # <<>> => Head(todo').verb # "record"
    <2>1. todo' \in Seq(Called) BY <1>1, TodoTail
    <2>2. todo' # <<>> => 1 \in 1..Len(todo') /\ Head(todo') = todo'[1] BY <2>1
    <2> QED BY <1>2, <2>2
<1>4. ToSend = todo /\ ToSendRecorded = todo /\ ToSend' = Tail(todo) /\ ToSendRecorded' = Tail(todo)
    BY <1>1, <1>3 DEF ToSend, ToSendRecorded
<1>5. todo \in Seq(Command) /\ queue \in Seq(Command) /\ Head(todo) \in Command
    BY <1>4, QueuesTyped, QueueCommandTyped DEF TypeOK
<1>6. Append(queue, Head(todo)) \o Tail(todo) = queue \o todo BY <1>1, <1>5
<1>7. Waiting' = Waiting /\ WaitingRecorded' = WaitingRecorded
    BY <1>1, <1>4, <1>6 DEF Waiting, WaitingRecorded
<1>8. Unreported' = Unreported /\ Sent' = Sent BY <1>1 DEF Unreported, Sent, Transferring
<1>9. Ahead' = Ahead /\ Open' = Open BY <1>7, <1>8 DEF Ahead, Open, Waiting
<1>10. Recorded' = Recorded
    <2>1. /\ Unreported \in Seq(Command) /\ ToSendRecorded \in Seq(Command)
          /\ Recorded = Unreported \o WaitingRecorded
        BY QueuesTyped
    <2>2. queue' \in Seq(Command) /\ ToSendRecorded' \in Seq(Command)
        BY <1>1, <1>4, <1>5
    <2>3. Recorded' = Unreported' \o WaitingRecorded' BY <1>8, <2>1, <2>2, RecordedNext
    <2> QED BY <1>7, <1>8, <2>1, <2>3
<1>11. RecordsInStep' /\ StateTellsCommand' /\ DataConnectionReady' /\ RenameGoesOn'
    BY <1>1, <1>9, <1>10
       DEF InStepInv, RecordsInStep, StateTellsCommand, DataConnectionReady, RenameGoesOn
<1> QED BY <1>1, <1>9, <1>11, SameAheadKeeps

\* What is dispatched was first in line, and what it needs is there.
LEMMA DispatchReady ==
    ASSUME TypeOK, CallShape, InStepInv, Dispatch
    PROVE  /\ awaited = NoCommand /\ Head(queue) \in Command
           /\ Ahead # <<>> /\ Ahead[1] = Head(queue)
           /\ Head(queue).verb \in OverData => dataOpen /\ ~got226
<1>1. Head(queue) \in Command /\ queue \in Seq(Command) /\ queue # <<>>
    BY DEF TypeOK, Dispatch
<1>2. state = AwaitState(Head(queue)) BY DEF Dispatch
<1>3. awaited = NoCommand
    <2> SUFFICES ASSUME awaited # NoCommand PROVE FALSE
        OBVIOUS
    <2>1. state \notin {"idle", "renameTo"} 
        BY AnsweredTyped, StateOfVerb DEF InStepInv, StateTellsCommand
    <2> QED BY <1>2, <2>1 DEF AwaitState
<1>4. Ahead # <<>> /\ Ahead[1] = Head(queue)
    <2>1. Sent = <<>> BY <1>3 DEF Sent
    <2>2. ToSend \in Seq(Command) BY QueuesTyped
    <2> QED BY <1>1, <2>1, <2>2 DEF Ahead
<1>5. Head(queue).verb \in OverData => state = "idle" BY <1>2 DEF AwaitState, OverData
<1> QED BY <1>1, <1>3, <1>4, <1>5 DEF InStepInv, DataConnectionReady

\* A command moves from the queue to the server, where it is still to be answered.
LEMMA DispatchKeeps ==
    ASSUME TypeOK, CallShape, TypeOK', CallShape', InStepInv, Dispatch
    PROVE  InStepInv'
<1> DEFINE c == Head(queue)
<1>1. /\ c \in Command /\ queue \in Seq(Command) /\ queue # <<>> /\ awaited = NoCommand
      /\ c.verb \in OverData => dataOpen /\ ~got226
    BY DispatchReady DEF TypeOK, Dispatch
<1>2. /\ state' = SentState(c) /\ awaited' = c /\ queue' = Tail(queue)
      /\ IF c.verb = "DATA_CON" THEN dataOpen' = FALSE /\ got226' = FALSE
         ELSE UNCHANGED <<dataOpen, got226>>
      /\ UNCHANGED <<records, connected, asked, todo, told, removed, failed>>
    BY DEF Dispatch
<1>3. awaited' # NoCommand
    <2>1. c.op \in Op BY <1>1 DEF Command
    <2> QED BY <1>2, <2>1, OpsAssumption DEF NoCommand
<1> HIDE DEF c
<1>4. state' \in {"downloading", "uploading", "awaitingContents"} => dataOpen'
    BY <1>1, <1>2, StateOfVerb DEF OverData
<1>5. /\ Sent = <<>> /\ Unreported = <<>> /\ Sent' = <<c>> /\ Unreported' = <<c>>
    BY <1>1, <1>2, <1>3, <1>4 DEF Sent, Unreported, Transferring
<1>6. ToSend' = ToSend /\ ToSendRecorded' = ToSendRecorded BY <1>2 DEF ToSend, ToSendRecorded
<1>7. ToSend \in Seq(Command) /\ ToSendRecorded \in Seq(Command) BY QueuesTyped
<1>8. \A t \in Seq(Command) : <<>> \o (queue \o t) = <<c>> \o (Tail(queue) \o t)
    BY <1>1 DEF c
<1>9. Ahead' = Ahead /\ Open' = Open BY <1>2, <1>5, <1>6, <1>7, <1>8 DEF Ahead, Open
<1>10. Recorded' = Recorded
    <2>3. Unreported' \in Seq(Command) /\ queue' \in Seq(Command) BY <1>1, <1>2, <1>5
    <2>1. Recorded' = Unreported' \o WaitingRecorded' BY <1>6, <1>7, <2>3, RecordedNext
    <2>2. Recorded = Unreported \o WaitingRecorded BY QueuesTyped
    <2> QED BY <1>2, <1>5, <1>6, <1>7, <1>8, <2>1, <2>2 DEF WaitingRecorded
<1>11. RecordsInStep' BY <1>2, <1>10 DEF InStepInv, RecordsInStep
<1>12. StateTellsCommand' BY <1>2, <1>3 DEF StateTellsCommand
<1>13. RenameGoesOn' BY <1>1, <1>2, StateOfVerb DEF RenameGoesOn
<1>14. DataConnectionReady'
    <2>1. state' \notin {"idle"} BY <1>1, <1>2, StateOfVerb
    <2>2. state' = "settingPassive" => ~got226' BY <1>1, <1>2, StateOfVerb
    <2>3. state' = "sentOffset" => ~got226' /\ dataOpen'
        BY <1>1, <1>2, StateOfVerb DEF OverData
    <2> QED BY <2>1, <2>2, <2>3 DEF DataConnectionReady
<1> QED BY <1>2, <1>9, <1>11, <1>12, <1>13, <1>14, SameAheadKeeps

-----------------------------------------------------------------------------
(* The invariant *)

\* At first there is nothing to be answered.
LEMMA InitHolds == Init => SessionInv
<1> SUFFICES ASSUME Init PROVE SessionInv
    OBVIOUS
<1>1. TypeOK
    <2>1. <<>> \in Seq(Command) /\ <<>> \in Seq(Op) /\ <<>> \in Seq(Called)
          /\ <<>> \in Seq([op : Op \cup {NoOp}, done : Op])
        OBVIOUS
    <2> QED BY <2>1 DEF Init, TypeOK, State, Called
<1>2. CallShape BY DEF Init, CallShape
<1>3. Ahead = <<>> /\ Open = <<>> /\ Recorded = <<>>
    <2>1. <<>> \o <<>> = <<>> OBVIOUS
    <2> QED BY <2>1 DEF Init, Ahead, Open, Recorded, Sent, Unreported, ToSend
<1>4. Chained(Ahead) /\ Apart(Ahead) /\ \A i \in 1..Len(Ahead) : Ahead[i].op \in asked
    BY <1>3 DEF Chained, Apart
<1>5. RecordsInStep
    BY <1>3, EndingEmpty DEF Init, RecordsInStep
<1>6. Reported BY <1>3 DEF Init, Reported
<1>7. StateTellsCommand /\ DataConnectionReady /\ RenameGoesOn
    BY <1>3 DEF Init, StateTellsCommand, DataConnectionReady, RenameGoesOn
<1>8. removed = {} BY DEF Init
<1> QED BY <1>1, <1>2, <1>4, <1>5, <1>6, <1>7, <1>8 DEF SessionInv, InStepInv

\* Every step keeps the types and the shape of a call.
LEMMA StepTyped == TypeOK /\ CallShape /\ [Next]_vars => TypeOK' /\ CallShape'
<1> SUFFICES ASSUME TypeOK, CallShape, [Next]_vars PROVE TypeOK' /\ CallShape'
    OBVIOUS
<1>1. CASE \E o \in Op : Call(o) BY <1>1, CallTyped
<1>2. CASE QueueRecord BY <1>2, QueueRecordTyped
<1>3. CASE QueueCommand BY <1>3, QueueCommandTyped
<1>4. CASE Dispatch BY <1>4, DispatchTyped
<1>5. CASE Server BY <1>5, ServerTyped
<1>6. CASE UNCHANGED vars BY <1>6 DEF vars, TypeOK, CallShape
<1> QED BY <1>1, <1>2, <1>3, <1>4, <1>5, <1>6 DEF Next, Client

\* A connection that ended does not begin again, and what failed stays failed.
LEMMA StaysBroken ==
    ASSUME [Next]_vars, connected' /\ failed' = {}
    PROVE  connected /\ failed = {}
<1>1. CASE Client BY <1>1 DEF Client, Call, QueueRecord, QueueCommand
<1>2. CASE Dispatch BY <1>2 DEF Dispatch
<1>3. CASE Server
    BY <1>3 DEF Server, DeleteFileReply, DeleteDirectoryReply, PermissionsReply, RenameReply,
        Finish, RenameFromReply, SizeReply, FailTransfer, OffsetReply, DataConnectionReply,
        TransferComplete226, DataConnectionEnds, DownloadRefused, UploadRefused,
        MakesIdle, NoCaseFor, QuitReply, ServiceClosing, EmptyAll
<1>4. CASE UNCHANGED vars BY <1>4 DEF vars
<1> QED BY <1>1, <1>2, <1>3, <1>4 DEF Next

\* Every step keeps the invariant.
LEMMA StepHolds == SessionInv /\ [Next]_vars => SessionInv'
<1> SUFFICES ASSUME SessionInv, [Next]_vars PROVE SessionInv'
    OBVIOUS
<1>1. TypeOK /\ CallShape BY DEF SessionInv
<1>2. TypeOK' /\ CallShape' BY <1>1, StepTyped
<1>3. ASSUME connected' /\ failed' = {} PROVE InStepInv'
    <2>1. InStepInv BY <1>3, StaysBroken DEF SessionInv
    <2>2. CASE \E o \in Op : Call(o) BY <1>1, <1>2, <2>1, <2>2, CallKeeps
    <2>3. CASE QueueRecord BY <1>1, <1>2, <2>1, <2>3, QueueRecordKeeps
    <2>4. CASE QueueCommand BY <1>1, <1>2, <2>1, <2>4, QueueCommandKeeps
    <2>5. CASE Dispatch BY <1>1, <1>2, <2>1, <2>5, DispatchKeeps
    <2>6. CASE Server BY <1>1, <1>2, <1>3, <2>1, <2>6, ServerKeeps
    <2>7. CASE UNCHANGED vars
        <3>1. /\ state' = state /\ awaited' = awaited /\ dataOpen' = dataOpen /\ told' = told
              /\ got226' = got226 /\ asked' = asked /\ removed' = removed
              /\ records' = records /\ queue' = queue /\ todo' = todo
            BY <2>7 DEF vars
        <3>2. /\ ToSend' = ToSend /\ ToSendRecorded' = ToSendRecorded
              /\ Sent' = Sent /\ Unreported' = Unreported /\ Transferring' = Transferring
            BY <3>1 DEF ToSend, ToSendRecorded, Sent, Unreported, Transferring
        <3>3. Ahead' = Ahead /\ Open' = Open /\ Recorded' = Recorded
            BY <3>1, <3>2 DEF Ahead, Open, Recorded
        <3>4. StateTellsCommand' /\ DataConnectionReady' /\ RenameGoesOn'
            BY <2>1, <3>1, <3>2, <3>3
            DEF InStepInv, StateTellsCommand, DataConnectionReady, RenameGoesOn
        <3>5. RecordsInStep' /\ Reported'
            BY <2>1, <3>1, <3>3 DEF InStepInv, RecordsInStep, Reported
        <3> QED BY <2>1, <3>1, <3>3, <3>4, <3>5 DEF InStepInv
    <2> QED BY <2>2, <2>3, <2>4, <2>5, <2>6, <2>7 DEF Next, Client
<1> QED BY <1>2, <1>3 DEF SessionInv

-----------------------------------------------------------------------------
(* The theorems *)

\* Whatever the server refuses, the six queues hold what belongs in them; and until a
\* refusal in the middle of an operation's commands, or the end of the connection, the
\* commands ahead are whole operations.
THEOREM SessionCorrect == Spec => []SessionInv
<1> QED BY InitHolds, StepHolds, PTL DEF Spec

\* The six queues hold what belongs in them, in every state.
THEOREM SessionTyped == Spec => []TypeOK
<1>1. SessionInv => TypeOK BY DEF SessionInv
<1> QED BY <1>1, SessionCorrect, PTL

\* For every set of operations, each record queue lists the operations whose last
\* command is still to be answered, in the order of their answers.
THEOREM QueuesStayInStep == Spec => []QueuesInStep
<1>1. SessionInv => QueuesInStep
    BY DEF SessionInv, InStepInv, RecordsInStep, QueuesInStep, InStep, RecordQueue,
           OperationsEnding, EndVerbs
<1> QED BY <1>1, SessionCorrect, PTL

\* The delegate is told about the operation the server answered.
THEOREM TellsTheRightOne == Spec => []ToldTheRightOne
<1>1. SessionInv => ToldTheRightOne
    BY DEF SessionInv, InStepInv, Reported, ToldTheRightOne
<1> QED BY <1>1, SessionCorrect, PTL

\* And once about each.
THEOREM TellsOnce == Spec => []ToldOnce
<1>1. SessionInv => ToldOnce
    BY DEF SessionInv, InStepInv, Reported, ToldOnce
<1> QED BY <1>1, SessionCorrect, PTL

\* Only dispatching sets the command to be answered.
LEMMA OnlyDispatchAwaits ==
    ASSUME [Next]_vars, awaited' # awaited, awaited' # NoCommand
    PROVE  Dispatch
<1>1. ~Client BY DEF Client, Call, QueueRecord, QueueCommand
<1>2. ~Server
    BY DEF Server, DeleteFileReply, DeleteDirectoryReply, PermissionsReply, RenameReply,
        Finish, RenameFromReply, SizeReply, FailTransfer, OffsetReply, DataConnectionReply,
        TransferComplete226, DataConnectionEnds, DownloadRefused, UploadRefused,
        MakesIdle, NoCaseFor, QuitReply, ServiceClosing, EmptyAll, Idle
<1>3. ~UNCHANGED vars BY DEF vars
<1> QED BY <1>1, <1>2, <1>3 DEF Next

\* A transfer is sent only over a data connection opened for it.
THEOREM TransfersOverOpenData == Spec => TransferHasDataConnection
<1>1. SessionInv /\ [Next]_vars =>
        [connected /\ failed = {} /\ awaited'.verb \in {"RETR", "STOR", "LIST"} /\ awaited # awaited'
            => dataOpen /\ ~got226]_vars
    <2> SUFFICES ASSUME SessionInv, [Next]_vars, connected /\ failed = {},
                        awaited'.verb \in {"RETR", "STOR", "LIST"}, awaited # awaited'
                 PROVE  dataOpen /\ ~got226
        OBVIOUS
    <2>1. awaited' # NoCommand BY DEF NoCommand
    <2>2. Dispatch BY <2>1, OnlyDispatchAwaits
    <2>3. awaited' = Head(queue) BY <2>2 DEF Dispatch
    <2> QED BY <2>2, <2>3, DispatchReady DEF SessionInv, OverData
<1> QED BY <1>1, SessionCorrect, PTL DEF Spec, TransferHasDataConnection

\* Two commands follow the SIZE of a download: nothing else depends on the first.
LEMMA DownloadChain ==
    ASSUME NEW o \in Op, Kind[o] = "download"
    PROVE  /\ Dependants([verb |-> "SIZE", op |-> o]) = {[verb |-> "DATA_CON", op |-> o]}
           /\ Dependants([verb |-> "DATA_CON", op |-> o]) = {[verb |-> "RETR", op |-> o]}
<1> DEFINE v == Verbs(Kind[o])
           c(x) == [verb |-> x, op |-> o]
<1>1. v[1] = "SIZE" /\ v[2] = "DATA_CON" /\ v[3] = "RETR" /\ Len(v) = 3 BY VerbsTable
<1>2. \A x \in Verb : Dependants(c(x)) = {c(v[i + 1]) : i \in {j \in 1..(Len(v) - 1) : v[j] = x}}
    BY DEF Dependants
<1> HIDE DEF v
<1>3. \A j \in 1..(Len(v) - 1) : j = 1 \/ j = 2 BY <1>1
<1>4. {j \in 1..(Len(v) - 1) : v[j] = "SIZE"} = {1}
      /\ {j \in 1..(Len(v) - 1) : v[j] = "DATA_CON"} = {2}
    BY <1>1, <1>3
<1> HIDE DEF c
<1>5. Dependants(c("SIZE")) = {c("DATA_CON")} /\ Dependants(c("DATA_CON")) = {c("RETR")}
    BY <1>1, <1>2, <1>4 DEF Verb
<1> QED BY <1>5 DEF c

\* A refused SIZE takes the rest of its download from the queue, and nothing else.
THEOREM SizeRemovesItsChain == Spec => RefusedSizeRemovesItsChain
<1>1. ASSUME SessionInv, SizeReply, failed = {}, failed' # {}, todo = <<>>,
             Kind[awaited.op] = "download"
      PROVE  removed' \ removed = {[cmd |-> [verb |-> v, op |-> awaited.op],
                                    by |-> awaited.op] : v \in {"DATA_CON", "RETR"}}
    <2> DEFINE o == awaited.op
               c(v) == [verb |-> v, op |-> o]
    <2>1. /\ connected /\ state = "sentSize" /\ awaited # NoCommand /\ FailTransfer("downloads")
        BY <1>1 DEF SizeReply, Answered
    <2>2. TypeOK /\ CallShape /\ InStepInv BY <1>1, <2>1 DEF SessionInv
    <2>3. awaited \in Command /\ awaited.verb = "SIZE" /\ o \in Op
        BY <2>1, <2>2, AnsweredVerb, VerbOfState, AnsweredTyped
    <2>4. awaited = c("SIZE") BY <2>3 DEF Command
    <2>5. Dependants(awaited) = {c("DATA_CON")} /\ Dependants(c("DATA_CON")) = {c("RETR")}
        BY <1>1, <2>3, <2>4, DownloadChain
    <2>6. queue \in Seq(Command) /\ Ahead = <<awaited>> \o queue
        <3>1. ToSend = <<>> BY <1>1 DEF ToSend
        <3>2. queue \in Seq(Command) BY <2>2 DEF TypeOK
        <3>3. queue \o <<>> = queue BY <3>2
        <3> QED BY <2>1, <3>1, <3>2, <3>3 DEF Ahead, Sent
    <2>7. /\ Chained(queue) /\ Apart(queue)
          /\ queue # <<>> => Follows(awaited, queue[1])
          /\ queue = <<>> => awaited.verb \in LastVerb
        BY <2>2, <2>3, <2>6, ChainRest DEF InStepInv
    <2>8. queue # <<>> /\ queue[1] = c("DATA_CON")
        BY <2>3, <2>5, <2>7 DEF Follows, LastVerb
    <2>9. Len(queue) >= 2 /\ queue[2] = c("RETR")
        <3>1. c("DATA_CON").verb \notin LastVerb BY DEF LastVerb
        <3>2. Len(queue) # 1 BY <2>7, <2>8, <3>1 DEF Chained
        <3>3. Len(queue) >= 2 /\ 1 \in 1..Len(queue) /\ 1 + 1 <= Len(queue) BY <2>6, <2>8, <3>2
        <3>4. Follows(queue[1], queue[1 + 1]) BY <2>7, <3>3 DEF Chained
        <3>5. queue[2] \in Dependants(c("DATA_CON")) BY <2>8, <3>1, <3>4 DEF Follows
        <3> QED BY <2>5, <3>3, <3>5
    <2>10. removed = {} /\ RemoveTop BY <2>1, <2>2 DEF InStepInv, FailTransfer
    <2>11. Head(queue) = c("DATA_CON") BY <2>6, <2>8
    <2> HIDE DEF c
    <2>12. removed' = {[cmd |-> d, by |-> o] :
                d \in {c("DATA_CON"), c("RETR")} \cap {queue[i] : i \in 1..Len(queue)}}
        BY <2>5, <2>8, <2>10, <2>11 DEF RemoveTop
    <2>13. 1 \in 1..Len(queue) /\ 2 \in 1..Len(queue) BY <2>6, <2>9
    <2>14. {c("DATA_CON"), c("RETR")} \cap {queue[i] : i \in 1..Len(queue)}
                = {c("DATA_CON"), c("RETR")}
        BY <2>8, <2>9, <2>13
    <2>15. removed' = {[cmd |-> d, by |-> o] : d \in {c("DATA_CON"), c("RETR")}}
        BY <2>12, <2>14
    <2> QED BY <2>10, <2>15 DEF c
<1>2. SessionInv /\ [Next]_vars =>
        [(/\ SizeReply /\ failed = {} /\ failed' # {} /\ todo = <<>>
          /\ Kind[awaited.op] = "download")
          => removed' \ removed = {[cmd |-> [verb |-> v, op |-> awaited.op],
                                    by |-> awaited.op] : v \in {"DATA_CON", "RETR"}}]_vars
    BY <1>1
<1> QED BY <1>2, SessionCorrect, PTL DEF Spec, RefusedSizeRemovesItsChain
=============================================================================
