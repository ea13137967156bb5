----------------------- MODULE RecursiveDeletionProofs -----------------------
(***************************************************************************)
(* For every finite tree, whatever the client asks for and the server      *)
(* refuses: as long as every directory can be entered the counters count   *)
(* the answers to come, nothing is deleted before what is in it, and a     *)
(* deletion fails only if a part of it was refused.  All of it rests on    *)
(* DeletionInv, which says of what is in a directory that has been listed  *)
(* that it is in one of the lists, on its way, or refused.                 *)
(*                                                                         *)
(* Every action is treated twice: what it does to the types and to the     *)
(* counts holds always (the lemmas ending in Shape), what it does to the   *)
(* tree as long as every directory can be entered (those in Order).        *)
(***************************************************************************)
EXTENDS RecursiveDeletion, SequenceTheorems, FiniteSetTheorems, WellFoundedInduction, TLAPS

-----------------------------------------------------------------------------
(* Induction over numbers and sequences *)

\* A non-empty set of natural numbers has a least element.
LEMMA LeastElement ==
    ASSUME NEW T \in SUBSET Nat, T # {}
    PROVE  \E n \in T : \A m \in T : n <= m
<1>1. PICK n \in T : \A m \in T : ~(<<m, n>> \in OpToRel(<, Nat))
    BY WFMin, NatLessThanWellFounded
<1>2. \A m \in T : ~(m < n)
    BY <1>1 DEF OpToRel
<1> QED BY <1>2

\* Induction, for a set of numbers in place of a formula.
LEMMA SetInduction ==
    ASSUME NEW S, 0 \in S, \A n \in Nat : n \in S => n + 1 \in S
    PROVE  Nat \subseteq S
<1> SUFFICES ASSUME ~(Nat \subseteq S) PROVE FALSE
    OBVIOUS
<1> DEFINE T == Nat \ S
<1>1. T \in SUBSET Nat /\ T # {} OBVIOUS
<1>2. PICK n \in T : \A m \in T : n <= m
    BY <1>1, LeastElement
<1>3. n \in Nat /\ n \notin S /\ n # 0 OBVIOUS
<1>4. n - 1 \in Nat /\ n - 1 < n BY <1>3
<1>5. n - 1 \in S BY <1>2, <1>4
<1> QED BY <1>3, <1>4, <1>5

\* The same for sequences: one element more at the end.
LEMMA SequenceInduction ==
    ASSUME NEW A, NEW T, <<>> \in T,
           \A s \in Seq(A), x \in A : s \in T => Append(s, x) \in T
    PROVE  Seq(A) \subseteq T
<1> DEFINE N == {n \in Nat : \A s \in Seq(A) : Len(s) = n => s \in T}
<1>1. 0 \in N
    <2> SUFFICES ASSUME NEW s \in Seq(A), Len(s) = 0 PROVE s \in T
        OBVIOUS
    <2>1. s = <<>> OBVIOUS
    <2> QED BY <2>1
<1>2. \A n \in Nat : n \in N => n + 1 \in N
    <2> SUFFICES ASSUME NEW n \in Nat, n \in N, NEW s \in Seq(A), Len(s) = n + 1
                 PROVE s \in T
        OBVIOUS
    <2> DEFINE front == SubSeq(s, 1, n)
    <2>1. front \in Seq(A) /\ Len(front) = n OBVIOUS
    <2>2. s[n + 1] \in A /\ s = Append(front, s[n + 1]) OBVIOUS
    <2>3. front \in T BY <2>1
    <2> QED BY <2>1, <2>2, <2>3
<1>3. Nat \subseteq N BY <1>1, <1>2, SetInduction
<1> QED BY <1>3

-----------------------------------------------------------------------------
(* Keep computes what it should *)

\* What is kept of the first n elements, when f says what is kept of fewer.
Step(f, s, S, n) ==
    IF n = 0 THEN <<>>
    ELSE IF s[n] \in S THEN Append(f[n - 1], s[n]) ELSE f[n - 1]

Scan(f, s, S, n) == f = [i \in 0..n |-> Step(f, s, S, i)]

\* Such a function takes a step at every place.
LEMMA ScanAt ==
    ASSUME NEW f, NEW s, NEW S, NEW n \in Nat, Scan(f, s, S, n), NEW i \in 0..n
    PROVE  f[i] = Step(f, s, S, i)
BY DEF Scan

\* There is such a function, for a sequence of any length.
LEMMA ScanExists ==
    ASSUME NEW s, NEW S
    PROVE  \A n \in Nat : \E f : Scan(f, s, S, n)
<1> DEFINE N == {n \in Nat : \E f : Scan(f, s, S, n)}
<1>1. 0 \in N
    <2>1. Scan([i \in 0..0 |-> <<>>], s, S, 0) BY DEF Scan, Step
    <2> QED BY <2>1
<1>2. \A n \in Nat : n \in N => n + 1 \in N
    <2> SUFFICES ASSUME NEW n \in Nat, NEW f, Scan(f, s, S, n)
                 PROVE \E g : Scan(g, s, S, n + 1)
        OBVIOUS
    <2> DEFINE g == [i \in 0..(n + 1) |-> IF i = n + 1 THEN Step(f, s, S, n + 1) ELSE f[i]]
    <2>1. \A i \in 0..n : f[i] = Step(f, s, S, i) BY ScanAt
    <2>2. \A i \in 0..n : g[i] = f[i] OBVIOUS
    <2>3. \A i \in 0..(n + 1) : Step(g, s, S, i) = Step(f, s, S, i)
        <3> SUFFICES ASSUME NEW i \in 0..(n + 1), i # 0 PROVE g[i - 1] = f[i - 1]
            BY DEF Step
        <3> QED BY <2>2
    <2>4. \A i \in 0..(n + 1) : g[i] = Step(g, s, S, i)
        BY <2>1, <2>2, <2>3
    <2>5. g = [i \in 0..(n + 1) |-> Step(g, s, S, i)] BY <2>4
    <2> QED BY <2>5 DEF Scan
<1>3. Nat \subseteq N BY <1>1, <1>2, SetInduction
<1> QED BY <1>3

\* Two of them agree as far as their sequences do.
LEMMA ScansAgree ==
    ASSUME NEW s, NEW t, NEW S, NEW n \in Nat, NEW m \in Nat, NEW f, NEW g,
           Scan(f, s, S, n), Scan(g, t, S, m), NEW k \in Nat, k <= n, k <= m,
           \A i \in 1..k : s[i] = t[i]
    PROVE  f[k] = g[k]
<1> DEFINE N == {i \in Nat : i <= k => f[i] = g[i]}
<1>1. \A i \in 0..k : f[i] = Step(f, s, S, i) /\ g[i] = Step(g, t, S, i)
    <2>1. \A i \in 0..n : f[i] = Step(f, s, S, i) BY ScanAt
    <2>2. \A i \in 0..m : g[i] = Step(g, t, S, i) BY ScanAt
    <2> QED BY <2>1, <2>2
<1>2. 0 \in N BY <1>1 DEF Step
<1>3. \A i \in Nat : i \in N => i + 1 \in N
    <2> SUFFICES ASSUME NEW i \in Nat, f[i] = g[i], i + 1 <= k PROVE f[i + 1] = g[i + 1]
        OBVIOUS
    <2>1. s[i + 1] = t[i + 1] /\ i + 1 \in 0..k /\ i + 1 # 0 /\ (i + 1) - 1 = i OBVIOUS
    <2> QED BY <1>1, <2>1 DEF Step
<1>4. Nat \subseteq N BY <1>2, <1>3, SetInduction
<1> QED BY <1>4

\* Keep is what a scan of the whole sequence ends with.
LEMMA KeepScans ==
    ASSUME NEW A, NEW s \in Seq(A), NEW S, NEW f, NEW n \in Nat, n >= Len(s),
           NEW t, \A i \in 1..Len(s) : t[i] = s[i], Scan(f, t, S, n)
    PROVE  Keep(s, S) = f[Len(s)]
<1> DEFINE g == CHOOSE h : Scan(h, s, S, Len(s))
<1>1. Len(s) \in Nat OBVIOUS
<1>2. Scan(g, s, S, Len(s))
    <2>1. \E h : Scan(h, s, S, Len(s)) BY <1>1, ScanExists
    <2> QED BY <2>1, Zenon
<1>3. Keep(s, S) = g[Len(s)] BY Zenon DEF Keep, Scan, Step
<1>4. g[Len(s)] = f[Len(s)]
    <2> HIDE DEF g
    <2> QED BY <1>1, <1>2, ScansAgree
<1> QED BY <1>3, <1>4

\* Nothing is left of nothing.
LEMMA KeepEmpty == ASSUME NEW S PROVE Keep(<<>>, S) = <<>>
<1>1. PICK f : Scan(f, <<>>, S, 0) BY ScanExists
<1>2. \A s \in Seq(Nat) : Len(s) = 0 => Keep(s, S) = f[0]
    <2> SUFFICES ASSUME NEW s \in Seq(Nat), Len(s) = 0 PROVE Keep(s, S) = f[Len(s)]
        OBVIOUS
    <2>1. s = <<>> /\ 0 >= Len(s) /\ \A i \in 1..Len(s) : <<>>[i] = s[i] OBVIOUS
    <2> QED BY <1>1, <2>1, KeepScans
<1>3. <<>> \in Seq(Nat) /\ Len(<<>>) = 0 OBVIOUS
<1>4. Keep(<<>>, S) = f[0] BY <1>2, <1>3
<1>5. f[0] = Step(f, <<>>, S, 0) BY <1>1, ScanAt
<1> QED BY <1>4, <1>5 DEF Step

\* One element more is kept, or is not.
LEMMA KeepAppend ==
    ASSUME NEW A, NEW s \in Seq(A), NEW x \in A, NEW S
    PROVE  Keep(Append(s, x), S) = IF x \in S THEN Append(Keep(s, S), x) ELSE Keep(s, S)
<1> DEFINE t == Append(s, x)
           n == Len(s) + 1
<1>1. t \in Seq(A) /\ Len(t) = n /\ t[n] = x /\ n \in Nat /\ Len(s) \in Nat
      /\ \A i \in 1..Len(s) : t[i] = s[i]
    OBVIOUS
<1>2. PICK f : Scan(f, t, S, n) BY <1>1, ScanExists
<1> HIDE DEF t
<1>3. Keep(t, S) = f[n] BY <1>1, <1>2, KeepScans
<1>4. Keep(s, S) = f[Len(s)]
    <2>1. n >= Len(s) OBVIOUS
    <2> HIDE DEF n
    <2> QED BY <1>1, <1>2, <2>1, KeepScans
<1>5. f[n] = Step(f, t, S, n) BY <1>1, <1>2, ScanAt
<1> QED BY <1>1, <1>3, <1>4, <1>5 DEF Step, t

\* What is kept belongs to S.
LEMMA KeepType ==
    ASSUME NEW A, NEW s \in Seq(A), NEW S
    PROVE  Keep(s, S) \in Seq(A \cap S)
<1> DEFINE B == A \cap S
           T == {t \in Seq(A) : Keep(t, S) \in Seq(B)}
<1>1. <<>> \in T
    <2>1. <<>> \in Seq(A) /\ <<>> \in Seq(A \cap S) OBVIOUS
    <2> QED BY <2>1, KeepEmpty
<1>2. ASSUME NEW t \in Seq(A), NEW x \in A, t \in T PROVE Append(t, x) \in T
    <2>1. Keep(Append(t, x), S) = IF x \in S THEN Append(Keep(t, S), x) ELSE Keep(t, S)
        BY KeepAppend
    <2>2. Keep(t, S) \in Seq(B) /\ Append(t, x) \in Seq(A) BY <1>2
    <2>3. x \in S => x \in B OBVIOUS
    <2>4. x \in S => Append(Keep(t, S), x) \in Seq(B)
        <3> HIDE DEF B
        <3> QED BY <2>2, <2>3
    <2> QED BY <2>1, <2>2, <2>4
<1>3. Seq(A) \subseteq T BY <1>1, <1>2, SequenceInduction
<1> QED BY <1>3

\* And so it does to whatever the sequence's elements belong to.
LEMMA KeepSeq ==
    ASSUME NEW A, NEW s \in Seq(A), NEW S
    PROVE  Keep(s, S) \in Seq(A)
<1> DEFINE B == A \cap S
<1>1. Keep(s, S) \in Seq(B) BY KeepType
<1>2. B \subseteq A OBVIOUS
<1> HIDE DEF B
<1>3. \A t \in Seq(B) : t \in Seq(A) BY <1>2
<1> QED BY <1>1, <1>3

\* What is kept of two sequences, one after the other.
LEMMA KeepConcat ==
    ASSUME NEW A, NEW s \in Seq(A), NEW t \in Seq(A), NEW S
    PROVE  Keep(s \o t, S) = Keep(s, S) \o Keep(t, S)
<1> DEFINE T == {u \in Seq(A) : Keep(s \o u, S) = Keep(s, S) \o Keep(u, S)}
<1> DEFINE B == A \cap S
<1>0. \A u \in Seq(A) : Keep(u, S) \in Seq(B) BY KeepType
<1>1. <<>> \in T
    <2>1. Keep(s, S) \in Seq(B) BY <1>0
    <2>2. s \o <<>> = s /\ Keep(s, S) \o <<>> = Keep(s, S) /\ <<>> \in Seq(A)
        <3> HIDE DEF B
        <3> QED BY <2>1
    <2> QED BY <2>2, KeepEmpty
<1>2. ASSUME NEW u \in Seq(A), NEW x \in A, u \in T PROVE Append(u, x) \in T
    <2>1. s \o Append(u, x) = Append(s \o u, x) /\ s \o u \in Seq(A) OBVIOUS
    <2>2. Keep(s \o u, S) = Keep(s, S) \o Keep(u, S) BY <1>2
    <2>3. Keep(s, S) \in Seq(B) /\ Keep(u, S) \in Seq(B) BY <1>0
    <2>4. x \in S => Keep(s, S) \o Append(Keep(u, S), x) = Append(Keep(s, S) \o Keep(u, S), x)
        <3>1. x \in S => x \in B OBVIOUS
        <3> HIDE DEF B
        <3> QED BY <2>3, <3>1
    <2>5. Keep(Append(s \o u, x), S)
            = IF x \in S THEN Append(Keep(s \o u, S), x) ELSE Keep(s \o u, S)
        BY <2>1, KeepAppend
    <2>6. Keep(Append(u, x), S) = IF x \in S THEN Append(Keep(u, S), x) ELSE Keep(u, S)
        BY KeepAppend
    <2>7. Append(u, x) \in Seq(A) OBVIOUS
    <2> QED BY <2>1, <2>2, <2>4, <2>5, <2>6, <2>7
<1>3. Seq(A) \subseteq T BY <1>1, <1>2, SequenceInduction
<1> QED BY <1>3

\* One element alone.
LEMMA KeepOne ==
    ASSUME NEW x, NEW S
    PROVE  Keep(<<x>>, S) = IF x \in S THEN <<x>> ELSE <<>>
<1> DEFINE A == {x}
<1>1. <<>> \in Seq(A) /\ x \in A /\ <<x>> = Append(<<>>, x) OBVIOUS
<1>2. Keep(Append(<<>>, x), S)
        = IF x \in S THEN Append(Keep(<<>>, S), x) ELSE Keep(<<>>, S)
    <2> HIDE DEF A
    <2> QED BY <1>1, KeepAppend
<1> QED BY <1>1, <1>2, KeepEmpty

\* Everything is kept of elements in S.
LEMMA KeepAll ==
    ASSUME NEW A, NEW s \in Seq(A), NEW S, \A i \in 1..Len(s) : s[i] \in S
    PROVE  Keep(s, S) = s
<1> DEFINE T == {t \in Seq(A) : (\A i \in 1..Len(t) : t[i] \in S) => Keep(t, S) = t}
<1>1. <<>> \in T
    <2>1. <<>> \in Seq(A) OBVIOUS
    <2> QED BY <2>1, KeepEmpty
<1>2. ASSUME NEW t \in Seq(A), NEW x \in A, t \in T PROVE Append(t, x) \in T
    <2>1. /\ Append(t, x) \in Seq(A) /\ Len(Append(t, x)) = Len(t) + 1
          /\ Append(t, x)[Len(t) + 1] = x
          /\ \A i \in 1..Len(t) : Append(t, x)[i] = t[i] /\ i \in 1..(Len(t) + 1)
          /\ Len(t) + 1 \in 1..(Len(t) + 1)
        OBVIOUS
    <2>2. Keep(Append(t, x), S) = IF x \in S THEN Append(Keep(t, S), x) ELSE Keep(t, S)
        BY KeepAppend
    <2>3. t \in Seq(A) /\ ((\A i \in 1..Len(t) : t[i] \in S) => Keep(t, S) = t) BY <1>2
    <2>4. (\A i \in 1..Len(Append(t, x)) : Append(t, x)[i] \in S)
            => x \in S /\ \A i \in 1..Len(t) : t[i] \in S
        BY <2>1
    <2> QED BY <2>1, <2>2, <2>3, <2>4
<1>3. Seq(A) \subseteq T BY <1>1, <1>2, SequenceInduction
<1> QED BY <1>3

\* Nothing is kept of elements outside S.
LEMMA KeepNone ==
    ASSUME NEW A, NEW s \in Seq(A), NEW S, \A i \in 1..Len(s) : s[i] \notin S
    PROVE  Keep(s, S) = <<>>
<1> DEFINE T == {t \in Seq(A) : (\A i \in 1..Len(t) : t[i] \notin S) => Keep(t, S) = <<>>}
<1>1. <<>> \in T
    <2>1. <<>> \in Seq(A) OBVIOUS
    <2> QED BY <2>1, KeepEmpty
<1>2. ASSUME NEW t \in Seq(A), NEW x \in A, t \in T PROVE Append(t, x) \in T
    <2>1. /\ Append(t, x) \in Seq(A) /\ Len(Append(t, x)) = Len(t) + 1
          /\ Append(t, x)[Len(t) + 1] = x
          /\ \A i \in 1..Len(t) : Append(t, x)[i] = t[i] /\ i \in 1..(Len(t) + 1)
          /\ Len(t) + 1 \in 1..(Len(t) + 1)
        OBVIOUS
    <2>2. Keep(Append(t, x), S) = IF x \in S THEN Append(Keep(t, S), x) ELSE Keep(t, S)
        BY KeepAppend
    <2>3. (\A i \in 1..Len(t) : t[i] \notin S) => Keep(t, S) = <<>> BY <1>2
    <2>4. (\A i \in 1..Len(Append(t, x)) : Append(t, x)[i] \notin S)
            => x \notin S /\ \A i \in 1..Len(t) : t[i] \notin S
        BY <2>1
    <2> QED BY <2>1, <2>2, <2>3, <2>4
<1>3. Seq(A) \subseteq T BY <1>1, <1>2, SequenceInduction
<1> QED BY <1>3

Elements(s) == {s[i] : i \in 1..Len(s)}

Distinct(s) == \A i, j \in 1..Len(s) : s[i] = s[j] => i = j

\* One element more at the end is one more among the elements, and may be there already.
LEMMA ElementsAppend ==
    ASSUME NEW A, NEW s \in Seq(A), NEW x \in A
    PROVE  /\ Elements(Append(s, x)) = Elements(s) \cup {x}
           /\ Distinct(Append(s, x)) <=> Distinct(s) /\ x \notin Elements(s)
<1> DEFINE t == Append(s, x)
           n == Len(s)
<1>1. t \in Seq(A) /\ Len(t) = n + 1 /\ t[n + 1] = x /\ n \in Nat
    OBVIOUS
<1>2. \A i \in 1..n : t[i] = s[i] OBVIOUS
<1>3. 1..(n + 1) = 1..n \cup {n + 1} /\ n + 1 \notin 1..n BY <1>1
<1> HIDE DEF t, n
<1>4. Elements(t) = Elements(s) \cup {x}
    <2>1. Elements(t) = {t[i] : i \in 1..n \cup {n + 1}} BY <1>1, <1>3 DEF Elements
    <2>2. Elements(s) = {t[i] : i \in 1..n} BY <1>2 DEF Elements, n
    <2> QED BY <1>1, <2>1, <2>2
<1>5. Distinct(t) => Distinct(s) /\ x \notin Elements(s)
    <2>1. SUFFICES ASSUME \A i, j \in 1..n \cup {n + 1} : t[i] = t[j] => i = j
                   PROVE Distinct(s) /\ x \notin Elements(s)
        BY <1>1, <1>3 DEF Distinct
    <2>2. \A i, j \in 1..n : s[i] = s[j] => i = j BY <1>2, <2>1
    <2>3. \A i \in 1..n : s[i] # x BY <1>1, <1>2, <1>3, <2>1
    <2> QED BY <2>2, <2>3 DEF Distinct, Elements, n
<1>6. Distinct(s) /\ x \notin Elements(s) => Distinct(t)
    <2>1. SUFFICES ASSUME \A i, j \in 1..n : s[i] = s[j] => i = j,
                          \A i \in 1..n : s[i] # x
                   PROVE \A i, j \in 1..n \cup {n + 1} : t[i] = t[j] => i = j
        BY <1>1, <1>3 DEF Distinct, Elements, n
    <2> QED BY <1>1, <1>2, <2>1
<1> QED BY <1>4, <1>5, <1>6 DEF t

\* What is kept are the elements in S, each as often as before.
LEMMA KeepElements ==
    ASSUME NEW A, NEW s \in Seq(A), NEW S
    PROVE  /\ Elements(Keep(s, S)) = Elements(s) \cap S
           /\ Distinct(s) => Distinct(Keep(s, S))
<1> DEFINE good(t) == /\ Elements(Keep(t, S)) = Elements(t) \cap S
                      /\ Distinct(t) => Distinct(Keep(t, S))
           T == {t \in Seq(A) : good(t)}
<1>1. <<>> \in T
    <2>1. <<>> \in Seq(A) /\ Elements(<<>>) = {} BY DEF Elements
    <2> QED BY <2>1, KeepEmpty
<1>2. ASSUME NEW t \in Seq(A), NEW x \in A, t \in T PROVE Append(t, x) \in T
    <2>1. Keep(Append(t, x), S) = IF x \in S THEN Append(Keep(t, S), x) ELSE Keep(t, S)
        BY KeepAppend
    <2>2. good(t) BY <1>2
    <2>3. Keep(t, S) \in Seq(A) BY KeepSeq
    <2>4. /\ Elements(Append(t, x)) = Elements(t) \cup {x}
          /\ Distinct(Append(t, x)) <=> Distinct(t) /\ x \notin Elements(t)
        BY ElementsAppend
    <2>5. /\ Elements(Append(Keep(t, S), x)) = Elements(Keep(t, S)) \cup {x}
          /\ Distinct(Append(Keep(t, S), x))
                <=> Distinct(Keep(t, S)) /\ x \notin Elements(Keep(t, S))
        BY <2>3, ElementsAppend
    <2>6. CASE x \in S
        <3>1. Keep(Append(t, x), S) = Append(Keep(t, S), x) BY <2>1, <2>6
        <3>2. good(Append(t, x)) BY <2>2, <2>4, <2>5, <2>6, <3>1
        <3> QED BY <3>2
    <2>7. CASE x \notin S
        <3>1. Keep(Append(t, x), S) = Keep(t, S) BY <2>1, <2>7
        <3>2. good(Append(t, x)) BY <2>2, <2>4, <2>7, <3>1
        <3> QED BY <3>2
    <2> QED BY <2>6, <2>7
<1>3. Seq(A) \subseteq T BY <1>1, <1>2, SequenceInduction
<1> QED BY <1>3

-----------------------------------------------------------------------------
(* The inductive invariant.  Its parts about the tree are operators of the   *)
(* values they are about, X being what exists and R what has been refused.   *)

Root == Head(deletions)

\* What is under way, oldest first: a command is answered by a message at its place.
Line == messages \o wire

IsListing(m) == m[1] \in {"list", "contents"}

\* The directories whose contents have been asked for and not handled.
Pending(L) == {d \in Dir : \E i \in 1..Len(L) : IsListing(L[i]) /\ L[i][2] = d}

ListedOnce(L) ==
    \A i, j \in 1..Len(L) : IsListing(L[i]) /\ IsListing(L[j]) /\ L[i][2] = L[j][2] => i = j

\* What has been sent is counted, and only what will be told.
ConnInv ==
    /\ Of("disconnected", messages) = IF conn = "closed" THEN 1 ELSE 0
    /\ conn = "none" => wire = <<>>
    /\ dirDeletions >= Of("rmd", wire) + Of("rmd", messages)

Balance ==
    /\ listings = Of("list", wire) + Of("contents", messages)
    /\ dirDeletions = Of("rmd", wire) + Of("rmd", messages)

\* Between deletions nothing is left to do.
IdleInv ==
    /\ listings = 0 /\ dirDeletions = 0 /\ emptyDirs = <<>>
    /\ \A i \in 1..Len(messages) : messages[i][1] = "disconnected"
    /\ \A i \in 1..Len(wire) : wire[i] = <<"quit">>

\* During one the directories are deleted last, and the one asked for last of all.
BusyInv ==
    /\ conn = "open" /\ deletions # <<>>
    /\ \A i \in 1..Len(wire) : wire[i] # <<"quit">>
    /\ dirDeletions > 0 =>
          /\ listings = 0 /\ emptyDirs = <<>>
          /\ Line # <<>> /\ Line[Len(Line)][1] = "rmd" /\ Line[Len(Line)][2] = Root

\* A deletion begun on a connection that is gone gets no further.
LostInv ==
    /\ isDeleting /\ dirDeletions = 0
    /\ \A i \in 1..Len(messages) : messages[i][1] = "disconnected"
    /\ \/ wire = <<>> \/ Head(wire) = <<"quit">>
       \/ conn = "closed" /\ Head(wire)[1] = "list"

PhaseInv ==
    /\ lost => LostInv
    /\ ~lost => Balance
    /\ ~lost /\ ~isDeleting => IdleInv
    /\ ~lost /\ isDeleting => BusyInv

ChildrenIn(X, d) == {x \in X \ {Home} : Parent[x] = d}
RefusedIn(R, x) == \E y \in R : x \in Path[y]

\* The list E begins with the directory r that is being deleted, and has every other
\* directory after the one it is in.  Those that are not pending have been handled.
Collected(r, E, P) ==
    /\ E # <<>> /\ E[1] = r /\ Distinct(E)
    /\ \A j \in 2..Len(E) :
          /\ E[j] # Home
          /\ \E i \in 1..(j - 1) : E[i] = Parent[E[j]] /\ E[i] \notin P
    /\ \A d \in Elements(E) : r \in Path[d]

\* A directory's contents are asked for once, after those of the one it is in.
Awaited(r, E, P) ==
    \A d \in P \ {r} :
        d # Home /\ d \notin Elements(E) /\ Parent[d] \in Elements(E) \ P

\* All that is in a directory that has been handled is known, or was refused.
Handled(E, P, F, X, R) ==
    \A d \in Elements(E) \ P :
        d \in X /\ ChildrenIn(X, d) \subseteq Elements(E) \cup P \cup F \cup R

TreeInv(r, E, P, F, X, R) ==
    Collected(r, E, P) /\ Awaited(r, E, P) /\ Handled(E, P, F, X, R)

\* A listing on its way misses nothing.
ContentsInv(M, X) ==
    \A i \in 1..Len(M) : M[i][1] = "contents" =>
        /\ M[i][2] \in X
        /\ ChildrenIn(X, M[i][2]) \subseteq M[i][3]
        /\ \A x \in M[i][3] : x # Home /\ Parent[x] = M[i][2]

\* What is in a directory is deleted before it, or was refused.
RemovalInv(W, X, R) ==
    \A i \in 1..Len(W) : W[i][1] = "rmd" =>
        /\ W[i][2] \in X
        /\ \A x \in ChildrenIn(X, W[i][2]) :
              RefusedIn(R, x) \/ \E j \in 1..(i - 1) : W[j] = <<"rmd", x>>
        /\ \A j \in 1..Len(W) : W[j][1] = "rmd" /\ W[j][2] = W[i][2] => i = j

\* What the server answers, as long as it lets the connection in everywhere.
AnswersInv(M, X, R) ==
    \A i \in 1..Len(M) :
        /\ M[i][1] # "noEntry"
        /\ M[i][1] = "rmd" /\ ~M[i][3] => RefusedIn(R, M[i][2])
        /\ M[i][1] = "dele" => M[i][2] \notin X \/ M[i][2] \in R

ToldInv(T, R) == \A i \in 1..Len(T) : ~T[i][2] => RefusedIn(R, T[i][1])

\* Until the directories are deleted, each of them is where it must be in the list.
TreeKnown ==
    ~lost /\ isDeleting /\ dirDeletions = 0 =>
        /\ ListedOnce(Line)
        /\ TreeInv(Root, emptyDirs, Pending(Line), Elements(files), exists, refused)

OrderInv ==
    /\ PhaseInv /\ TreeKnown
    /\ ContentsInv(messages, exists)
    /\ RemovalInv(wire, exists, refused)
    /\ AnswersInv(messages, exists, refused)
    /\ ToldInv(told, refused)

DeletionInv == TypeOK /\ ConnInv /\ (skipped = {} => OrderInv)

-----------------------------------------------------------------------------
(* Counting commands and messages of a kind *)

Kinds(s) == [i \in 1..Len(s) |-> s[i][1]]

\* Messages are counted by their kinds.
LEMMA OfKinds == ASSUME NEW k, NEW s PROVE Of(k, s) = Len(Keep(Kinds(s), {k}))
BY DEF Of, Kinds

\* The kinds of two sequences in a row.
LEMMA KindsConcat ==
    ASSUME NEW A, NEW s \in Seq(A), NEW t \in Seq(A)
    PROVE  /\ Kinds(s) \in Seq({a[1] : a \in A}) /\ Kinds(t) \in Seq({a[1] : a \in A})
           /\ Kinds(s \o t) = Kinds(s) \o Kinds(t)
<1> DEFINE B == {a[1] : a \in A}
<1>1. \A a \in A : a[1] \in B OBVIOUS
<1> HIDE DEF B
<1>2. Kinds(s) \in Seq(B) /\ Kinds(t) \in Seq(B) BY <1>1 DEF Kinds
<1>3. Kinds(s \o t) = Kinds(s) \o Kinds(t) BY DEF Kinds
<1> QED BY <1>2, <1>3 DEF B

\* A count is a number.
LEMMA OfType ==
    ASSUME NEW A, NEW s \in Seq(A), NEW k
    PROVE  Of(k, s) \in Nat
<1> DEFINE B == {a[1] : a \in A}
<1>1. Kinds(s) \in Seq(B) BY KindsConcat
<1>2. Keep(Kinds(s), {k}) \in Seq(B) BY <1>1, KeepSeq
<1> QED BY <1>2, OfKinds

\* Messages and commands of a kind are counted one sequence after the other.
LEMMA OfConcat ==
    ASSUME NEW A, NEW s \in Seq(A), NEW t \in Seq(A), NEW k
    PROVE  Of(k, s \o t) = Of(k, s) + Of(k, t)
<1> DEFINE B == {a[1] : a \in A}
<1>1. Kinds(s) \in Seq(B) /\ Kinds(t) \in Seq(B) /\ Kinds(s \o t) = Kinds(s) \o Kinds(t)
    BY KindsConcat
<1> HIDE DEF B
<1>2. ASSUME NEW u \in Seq(B), NEW v \in Seq(B)
      PROVE  Len(Keep(u \o v, {k})) = Len(Keep(u, {k})) + Len(Keep(v, {k}))
    <2>1. Keep(u \o v, {k}) = Keep(u, {k}) \o Keep(v, {k}) BY KeepConcat
    <2>2. Keep(u, {k}) \in Seq(B) /\ Keep(v, {k}) \in Seq(B) BY KeepSeq
    <2> QED BY <2>1, <2>2, ConcatProperties
<1>3. Len(Keep(Kinds(s \o t), {k})) = Len(Keep(Kinds(s), {k})) + Len(Keep(Kinds(t), {k}))
    BY <1>1, <1>2
<1> QED BY <1>3, OfKinds

\* Nothing is counted in an empty sequence.
LEMMA OfEmpty == ASSUME NEW k PROVE Of(k, <<>>) = 0
<1>1. Kinds(<<>>) = <<>> BY DEF Kinds
<1>2. Keep(<<>>, {k}) = <<>> BY KeepEmpty
<1>3. Of(k, <<>>) = Len(Keep(Kinds(<<>>), {k})) BY OfKinds
<1> QED BY <1>1, <1>2, <1>3

\* One message counts one, if it is of the kind.
LEMMA OfOne ==
    ASSUME NEW m, NEW k
    PROVE  Of(k, <<m>>) = IF m[1] = k THEN 1 ELSE 0
<1>1. Kinds(<<m>>) = <<m[1]>> BY DEF Kinds
<1>2. Keep(<<m[1]>>, {k}) = IF m[1] \in {k} THEN <<m[1]>> ELSE <<>> BY KeepOne
<1>3. Of(k, <<m>>) = Len(Keep(Kinds(<<m>>), {k})) BY OfKinds
<1>4. Of(k, <<m>>) = IF m[1] = k THEN Len(<<m[1]>>) ELSE Len(<<>>) BY <1>1, <1>2, <1>3, Zenon
<1>5. Len(<<m[1]>>) = 1 /\ Len(<<>>) = 0 OBVIOUS
<1> QED BY <1>4, <1>5

\* So does one more at the end.
LEMMA OfAppend ==
    ASSUME NEW A, NEW s \in Seq(A), NEW m \in A, NEW k
    PROVE  Of(k, Append(s, m)) = Of(k, s) + IF m[1] = k THEN 1 ELSE 0
<1>1. <<m>> \in Seq(A) /\ Append(s, m) = s \o <<m>> OBVIOUS
<1>2. \A u, v \in Seq(A) : Of(k, u \o v) = Of(k, u) + Of(k, v) BY OfConcat
<1> QED BY <1>1, <1>2, OfOne

\* And the first.
LEMMA OfHead ==
    ASSUME NEW A, NEW s \in Seq(A), s # <<>>, NEW k
    PROVE  Of(k, s) = Of(k, Tail(s)) + IF Head(s)[1] = k THEN 1 ELSE 0
<1>1. s = <<Head(s)>> \o Tail(s) /\ Tail(s) \in Seq(A) /\ <<Head(s)>> \in Seq(A) OBVIOUS
<1>2. \A u, v \in Seq(A) : Of(k, u \o v) = Of(k, u) + Of(k, v) BY OfConcat
<1>3. Of(k, <<Head(s)>>) = IF Head(s)[1] = k THEN 1 ELSE 0 BY OfOne
<1>4. Of(k, <<Head(s)>>) \in Nat /\ Of(k, Tail(s)) \in Nat BY <1>1, OfType
<1>5. Of(k, s) = Of(k, <<Head(s)>>) + Of(k, Tail(s)) BY <1>1, <1>2, Zenon
<1> QED BY <1>3, <1>4, <1>5

\* Messages that are all of one kind count each.
LEMMA OfAll ==
    ASSUME NEW A, NEW s \in Seq(A), NEW k, \A i \in 1..Len(s) : s[i][1] = k
    PROVE  Of(k, s) = Len(s)
<1> DEFINE B == {a[1] : a \in A}
<1>1. Kinds(s) \in Seq(B) BY KindsConcat
<1>2. Len(Kinds(s)) = Len(s) /\ \A i \in 1..Len(s) : Kinds(s)[i] = k BY DEF Kinds
<1> HIDE DEF B
<1>3. Keep(Kinds(s), {k}) = Kinds(s) BY <1>1, <1>2, KeepAll
<1> QED BY <1>2, <1>3, OfKinds

\* The count is 0 when none is of the kind, and only then.
LEMMA OfNone ==
    ASSUME NEW A, NEW s \in Seq(A), NEW k
    PROVE  Of(k, s) = 0 <=> \A i \in 1..Len(s) : s[i][1] # k
<1> DEFINE B == {a[1] : a \in A}
           u == Kinds(s)
<1>1. u \in Seq(B) BY KindsConcat
<1>2. Len(u) = Len(s) /\ \A i \in 1..Len(s) : u[i] = s[i][1] BY DEF Kinds
<1>3. Of(k, s) = Len(Keep(u, {k})) BY OfKinds
<1> HIDE DEF B, u
<1>4. ASSUME \A i \in 1..Len(s) : s[i][1] # k PROVE Of(k, s) = 0
    <2>1. Keep(u, {k}) = <<>> BY <1>1, <1>2, <1>4, KeepNone
    <2> QED BY <1>3, <2>1
<1>5. ASSUME Of(k, s) = 0 PROVE \A i \in 1..Len(s) : s[i][1] # k
    <2>1. Elements(Keep(u, {k})) = Elements(u) \cap {k} BY <1>1, KeepElements
    <2>2. Keep(u, {k}) \in Seq(B) BY <1>1, KeepSeq
    <2>3. Elements(Keep(u, {k})) = {} BY <1>3, <1>5, <2>2 DEF Elements
    <2> QED BY <1>2, <2>1, <2>3 DEF Elements
<1> QED BY <1>4, <1>5
-----------------------------------------------------------------------------
(* Commands and messages *)

\* What is sent are commands.
LEMMA CommandTypes ==
    /\ \A d \in Dir : <<"list", d>> \in Command /\ <<"rmd", d>> \in Command
    /\ \A x \in File : <<"dele", x>> \in Command
    /\ <<"quit">> \in Command
BY DEF Command

\* A command is of one of four kinds, about a directory, a file or nothing.
LEMMA CommandShape ==
    ASSUME NEW c \in Command
    PROVE  /\ c[1] \in {"list", "rmd", "dele", "quit"}
           /\ c[1] \in {"list", "rmd"} => c[2] \in Dir /\ c = <<c[1], c[2]>>
           /\ c[1] = "dele" => c[2] \in File /\ c = <<c[1], c[2]>>
           /\ c[1] = "quit" => c = <<"quit">>
<1>1. CASE c \in {"list", "rmd"} \X Dir BY <1>1
<1>2. CASE c \in {"dele"} \X File BY <1>2
<1>3. CASE c = <<"quit">> BY <1>3
<1> QED BY <1>1, <1>2, <1>3 DEF Command

\* A message is of one of five kinds, about a directory, an item or nothing.
LEMMA MessageShape ==
    ASSUME NEW m \in Message
    PROVE  /\ m[1] \in {"contents", "noEntry", "dele", "rmd", "disconnected"}
           /\ m[1] = "contents" => m[2] \in Dir /\ m[3] \subseteq Item
           /\ m[1] = "noEntry" => m[2] \in Dir
           /\ m[1] = "dele" => m[2] \in File /\ m[3] \in BOOLEAN
           /\ m[1] = "rmd" => m[2] \in Dir /\ m[3] \in BOOLEAN
<1>1. CASE m \in {"contents"} \X Dir \X SUBSET Item BY <1>1
<1>2. CASE m \in {"noEntry"} \X Dir BY <1>2
<1>3. CASE m \in {"dele"} \X File \X BOOLEAN BY <1>3
<1>4. CASE m \in {"rmd"} \X Dir \X BOOLEAN BY <1>4
<1>5. CASE m = <<"disconnected">> BY <1>5
<1> QED BY <1>1, <1>2, <1>3, <1>4, <1>5 DEF Message

\* The same command for several items.
LEMMA CommandsForShape ==
    ASSUME NEW A, NEW items \in Seq(A), NEW verb
    PROVE  /\ Len(CommandsFor(verb, items)) = Len(items)
           /\ \A i \in 1..Len(items) : CommandsFor(verb, items)[i] = <<verb, items[i]>>
           /\ \A B : (\A x \in A : <<verb, x>> \in B) => CommandsFor(verb, items) \in Seq(B)
<1>1. \A i \in 1..Len(items) : items[i] \in A OBVIOUS
<1> QED BY <1>1 DEF CommandsFor

\* One command for each of a sequence of directories or files.
LEMMA CommandsForType ==
    /\ \A ds \in Seq(Dir) : /\ CommandsFor("list", ds) \in Seq(Command)
                            /\ CommandsFor("rmd", ds) \in Seq(Command)
    /\ \A fs \in Seq(File) : CommandsFor("dele", fs) \in Seq(Command)
BY CommandsForShape, CommandTypes

\* They are all of one kind.
LEMMA OfCommandsFor ==
    ASSUME NEW A, NEW items \in Seq(A), NEW verb, NEW k
    PROVE  Of(k, CommandsFor(verb, items)) = IF k = verb THEN Len(items) ELSE 0
<1> DEFINE B == {<<verb, x>> : x \in A}
           s == CommandsFor(verb, items)
<1>1. s \in Seq(B) /\ Len(s) = Len(items) BY CommandsForShape
<1>2. \A i \in 1..Len(s) : s[i][1] = verb BY <1>1, CommandsForShape
<1> HIDE DEF B, s
<1>3. k = verb => Of(k, s) = Len(s) BY <1>1, <1>2, OfAll
<1>4. k # verb => Of(k, s) = 0 BY <1>1, <1>2, OfNone
<1> QED BY <1>1, <1>3, <1>4 DEF s

\* Backwards a sequence has as many elements, the last one first.
LEMMA ReverseType ==
    ASSUME NEW A, NEW s \in Seq(A)
    PROVE  /\ Reverse(s) \in Seq(A) /\ Len(Reverse(s)) = Len(s)
           /\ \A i \in 1..Len(s) : Reverse(s)[i] = s[Len(s) - i + 1]
BY DEF Reverse

\* The removals: one for each directory.
LEMMA RemovalsType ==
    ASSUME NEW dirs \in Seq(Dir)
    PROVE  /\ Removals(dirs) \in Seq(Command) /\ Len(Removals(dirs)) = Len(dirs)
           /\ Of("rmd", Removals(dirs)) = Len(dirs)
           /\ \A k : k # "rmd" => Of(k, Removals(dirs)) = 0
           /\ \A i \in 1..Len(dirs) : Removals(dirs)[i] = <<"rmd", dirs[Len(dirs) - i + 1]>>
<1> DEFINE r == Reverse(dirs)
<1>1. r \in Seq(Dir) /\ Len(r) = Len(dirs) BY ReverseType
<1>2. \A i \in 1..Len(dirs) : r[i] = dirs[Len(dirs) - i + 1] BY ReverseType
<1>3. Removals(dirs) = CommandsFor("rmd", r) BY DEF Removals
<1> HIDE DEF r
<1>4. Removals(dirs) \in Seq(Command) BY <1>1, <1>3, CommandsForType
<1>5. Len(Removals(dirs)) = Len(dirs) BY <1>1, <1>3, CommandsForShape
<1>6. \A i \in 1..Len(r) : Removals(dirs)[i] = <<"rmd", r[i]>>
    BY <1>1, <1>3, CommandsForShape
<1>7. Of("rmd", Removals(dirs)) = Len(dirs) BY <1>1, <1>3, OfCommandsFor
<1>8. \A k : k # "rmd" => Of(k, Removals(dirs)) = 0 BY <1>1, <1>3, OfCommandsFor
<1> QED BY <1>1, <1>2, <1>4, <1>5, <1>6, <1>7, <1>8

\* What is sent is on the wire, unless there is nobody to send it to.
LEMMA SendEffect ==
    ASSUME wire \in Seq(Command), NEW c \in Seq(Command), Send(c)
    PROVE  /\ wire' \in Seq(Command)
           /\ conn = "none" => wire' = wire
           /\ conn # "none" => wire' = wire \o c
           /\ \A k : /\ Of(k, wire') = Of(k, wire) + IF conn = "none" THEN 0 ELSE Of(k, c)
                     /\ Of(k, c) \in Nat /\ Of(k, wire) \in Nat
<1>1. \A k : Of(k, wire \o c) = Of(k, wire) + Of(k, c) BY OfConcat
<1>2. \A k : Of(k, c) \in Nat /\ Of(k, wire) \in Nat BY OfType
<1>3. wire \o c \in Seq(Command) OBVIOUS
<1>4. CASE conn = "none" BY <1>2, <1>4 DEF Send
<1>5. CASE conn # "none" BY <1>1, <1>2, <1>3, <1>5 DEF Send
<1> QED BY <1>4, <1>5

\* The elements of a set in some order.
LEMMA SetToSeqsShape ==
    ASSUME NEW S \in SUBSET Item, NEW items \in SetToSeqs(S)
    PROVE  items \in Seq(Item) /\ Distinct(items) /\ Elements(items) = S
<1> DEFINE n == Cardinality(S)
<1>1. IsFiniteSet(S) /\ n \in Nat BY FS_Subset, FS_CardinalityType, TreeAssumption
<1>2. items \in [1..n -> S] /\ \A i, j \in 1..n : i # j => items[i] # items[j]
    BY DEF SetToSeqs
<1>3. IsFiniteSet(1..n) /\ Cardinality(1..n) = n
    BY <1>1, FS_Interval
<1>4. ASSUME NEW x \in S PROVE \E i \in 1..n : items[i] = x
    <2> SUFFICES ASSUME \A i \in 1..n : items[i] # x PROVE FALSE
        OBVIOUS
    <2> DEFINE T == S \ {x}
    <2>1. IsFiniteSet(T) /\ Cardinality(T) = n - 1 BY <1>1, FS_RemoveElement
    <2>2. items \in [1..n -> T] BY <1>2
    <2>3. Cardinality(T) < Cardinality(1..n) BY <1>1, <1>3, <2>1
    <2> HIDE DEF T, n
    <2>4. \E i, j \in 1..n : i # j /\ items[i] = items[j]
        BY <1>3, <2>1, <2>2, <2>3, FS_PigeonHole
    <2> QED BY <1>2, <2>4
<1> HIDE DEF n
<1>5. items \in Seq(Item) /\ Len(items) = n BY <1>1, <1>2
<1> QED BY <1>2, <1>4, <1>5 DEF Distinct, Elements

-----------------------------------------------------------------------------
(* Paths *)

\* An item is within itself.
LEMMA PathSelf == ASSUME NEW x \in Item PROVE x \in Path[x] /\ Path[x] \subseteq Item
BY DEF Path

\* What a directory is within, everything in it is within.
LEMMA PathWithin ==
    ASSUME NEW x \in Item, NEW y \in Path[x]
    PROVE  y \in Item /\ Path[y] \subseteq Path[x]
<1>1. y \in Item BY DEF Path
<1> SUFFICES ASSUME NEW z \in Path[y] PROVE z \in Path[x]
    BY <1>1
<1>2. z \in Item BY <1>1 DEF Path
<1> SUFFICES ASSUME NEW S \in SUBSET Item, x \in S, \A w \in S \ {Home} : Parent[w] \in S
             PROVE  z \in S
    BY <1>2 DEF Path
<1>3. y \in S BY DEF Path
<1> QED BY <1>1, <1>3 DEF Path

\* Its parent is a directory, and what that is within it is within.
LEMMA PathParent ==
    ASSUME NEW x \in Item, x # Home
    PROVE  Parent[x] \in Dir /\ Parent[x] \in Item /\ Path[Parent[x]] \subseteq Path[x]
<1>1. Parent[x] \in Dir /\ Parent[x] \in Item BY TreeAssumption DEF Item
<1>2. Parent[x] \in Path[x]
    <2> SUFFICES ASSUME NEW S \in SUBSET Item, x \in S, \A w \in S \ {Home} : Parent[w] \in S
                 PROVE  Parent[x] \in S
        BY <1>1 DEF Path
    <2> QED OBVIOUS
<1> QED BY <1>1, <1>2, PathWithin
-----------------------------------------------------------------------------
(* Types, and how the connection stands *)

Shape == TypeOK /\ ConnInv

\* At first the types and the counts are right.
LEMMA InitShape == Init => Shape
<1> SUFFICES ASSUME Init PROVE Shape
    OBVIOUS
<1>0. /\ \A S : <<>> \in Seq(S)
      /\ Len(<<>>) = 0 /\ Home \in Dir
    BY TreeAssumption
<1>1. TypeOK
    <2>1. checks \in 0..Len(asked) /\ starting \in BOOLEAN
        <3>1. checks = 0 /\ Len(asked) = 0 BY <1>0, Zenon DEF Init
        <3>2. starting \in BOOLEAN BY DEF Init
        <3> QED BY <3>1, <3>2
    <2>2. conn \in {"none", "open", "closed"} /\ isDeleting \in BOOLEAN BY <1>0 DEF Init
    <2>3. deletions \in Seq(Roots) /\ listings \in Int /\ dirDeletions \in Nat BY <1>0 DEF Init
    <2>4. files \in Seq(File) /\ emptyDirs \in Seq(Dir) BY <1>0 DEF Init
    <2>5. wire \in Seq(Command) /\ cwd \in Dir /\ exists \subseteq Item BY <1>0 DEF Init
    <2>6. messages \in Seq(Message) BY <1>0 DEF Init
    <2>7. asked \in Seq(Roots) /\ told \in Seq(Dir \X BOOLEAN) BY <1>0 DEF Init
    <2>8. refused \subseteq Refusable /\ skipped \subseteq Dir /\ lost \in BOOLEAN BY <1>0 DEF Init
    <2> QED BY <2>1, <2>2, <2>3, <2>4, <2>5, <2>6, <2>7, <2>8 DEF TypeOK
<1>2. Of("disconnected", <<>>) = 0 /\ Of("rmd", <<>>) = 0 BY OfEmpty
<1>3. ConnInv BY <1>2 DEF Init, ConnInv
<1> QED BY <1>1, <1>3 DEF Shape

\* A deletion asked for keeps them.
LEMMA AskShape == ASSUME Shape, NEW r \in Roots, Ask(r) PROVE Shape'
<1> USE DEF Shape
<1>1. ConnInv' BY DEF ConnInv, Ask, Of
<1>2. Append(deletions, r) \in Seq(Roots) /\ Append(asked, r) \in Seq(Roots)
      /\ Len(Append(asked, r)) = Len(asked) + 1
    BY DEF TypeOK
<1>3. TypeOK' BY <1>2 DEF TypeOK, Ask
<1> QED BY <1>1, <1>3

\* So does the opening of the second connection.
LEMMA CheckConnectionShape == ASSUME Shape, CheckConnection PROVE Shape'
<1> USE DEF Shape
<1>0. Home \in Dir /\ <<>> \in Seq(Command) BY TreeAssumption
<1>1. TypeOK'
    <2>1. checks' \in 0..Len(asked) /\ starting' \in BOOLEAN
        <3>1. checks' \in 0..Len(asked) BY DEF TypeOK, CheckConnection
        <3>2. starting' \in BOOLEAN BY DEF CheckConnection
        <3> QED BY <3>1, <3>2
    <2>2. conn' \in {"none", "open", "closed"} /\ wire' \in Seq(Command) /\ cwd' \in Dir
        BY <1>0 DEF TypeOK, CheckConnection
    <2> QED BY <2>1, <2>2 DEF TypeOK, CheckConnection, queueVars, ghostVars
<1>2. Of("rmd", <<>>) = 0 BY OfEmpty
<1>3. CASE conn = "none"
    <2>1. conn' = "open" /\ wire' = wire /\ messages' = messages
          /\ dirDeletions' = dirDeletions
        BY <1>3 DEF ConnInv, CheckConnection, queueVars
    <2> QED BY <1>1, <1>3, <2>1 DEF ConnInv, Of
<1>4. CASE conn # "none"
    <2>1. conn' = conn /\ wire' = wire /\ messages' = messages
          /\ dirDeletions' = dirDeletions
        BY <1>4 DEF CheckConnection, queueVars
    <2> QED BY <1>1, <1>4, <2>1 DEF ConnInv, Of
<1> QED BY <1>3, <1>4

\* The first directory of a queue is listed.
LEMMA ListFirstShape ==
    ASSUME Shape, NEW q \in Seq(Roots), q # <<>>, ListFirst(q)
    PROVE  /\ Head(q) \in Roots /\ Head(q) \in Dir
           /\ emptyDirs' = Append(emptyDirs, Head(q))
           /\ emptyDirs' \in Seq(Dir)
           /\ listings' = listings + 1
           /\ listings' \in Int
           /\ <<"list", Head(q)>> \in Command
           /\ wire' \in Seq(Command)
           /\ conn = "none" => wire' = wire
           /\ conn # "none" => wire' = wire \o << <<"list", Head(q)>> >>
           /\ Of("rmd", wire') = Of("rmd", wire)
           /\ conn # "none" => Of("list", wire') = Of("list", wire) + 1
<1> DEFINE c == << <<"list", Head(q)>> >>
<1>1. Head(q) \in Roots /\ Head(q) \in Dir BY TreeAssumption
<1>2. <<"list", Head(q)>> \in Command BY <1>1, CommandTypes
<1>3. c \in Seq(Command) BY <1>2
<1>4. wire \in Seq(Command) /\ emptyDirs \in Seq(Dir) /\ listings \in Int BY DEF Shape, TypeOK
<1>5. Send(c) /\ emptyDirs' = Append(emptyDirs, Head(q)) /\ listings' = listings + 1
    BY DEF ListFirst
<1>6. Of("rmd", c) = 0 /\ Of("list", c) = 1 BY OfOne
<1> HIDE DEF c
<1>7. /\ wire' \in Seq(Command)
      /\ conn = "none" => wire' = wire
      /\ conn # "none" => wire' = wire \o c
      /\ \A k : /\ Of(k, wire') = Of(k, wire) + IF conn = "none" THEN 0 ELSE Of(k, c)
                /\ Of(k, c) \in Nat /\ Of(k, wire) \in Nat
    BY <1>3, <1>4, <1>5, SendEffect
<1>8. Append(emptyDirs, Head(q)) \in Seq(Dir) BY <1>1, <1>4
<1>9. /\ Of("rmd", wire') = Of("rmd", wire)
      /\ conn # "none" => Of("list", wire') = Of("list", wire) + 1
    BY <1>6, <1>7
<1>10. conn # "none" => wire' = wire \o << <<"list", Head(q)>> >> BY <1>7 DEF c
<1>11. emptyDirs' \in Seq(Dir) /\ listings' \in Int BY <1>4, <1>5, <1>8
<1>12. conn = "none" => wire' = wire BY <1>7
<1>13. wire' \in Seq(Command) BY <1>7
<1> QED BY <1>1, <1>2, <1>5, <1>9, <1>10, <1>11, <1>12, <1>13

\* And the listing that a deletion begins with.
LEMMA StartDeletionShape == ASSUME Shape, StartDeletion PROVE Shape'
<1> USE DEF Shape
<1>1. CASE ~isDeleting /\ deletions # <<>>
    <2>1. ListFirst(deletions) BY <1>1 DEF StartDeletion
    <2>2. deletions \in Seq(Roots) BY DEF TypeOK
    <2>3. /\ emptyDirs' \in Seq(Dir) /\ listings' \in Int /\ wire' \in Seq(Command)
          /\ conn = "none" => wire' = wire /\ Of("rmd", wire') = Of("rmd", wire)
          /\ Of("rmd", wire') = Of("rmd", wire)
        BY <1>1, <2>1, <2>2, ListFirstShape
    <2>4. lost' \in BOOLEAN BY <1>1 DEF StartDeletion, TypeOK
    <2>5. TypeOK' BY <1>1, <2>3, <2>4 DEF TypeOK, StartDeletion
    <2>6. ConnInv' BY <1>1, <2>3 DEF ConnInv, StartDeletion, Of
    <2> QED BY <2>5, <2>6
<1>2. CASE ~(~isDeleting /\ deletions # <<>>)
    <2>1. TypeOK' BY <1>2 DEF TypeOK, StartDeletion
    <2>2. ConnInv' BY <1>2 DEF ConnInv, StartDeletion, Of
    <2> QED BY <2>1, <2>2
<1> QED BY <1>1, <1>2

\* A command is taken and answered.
LEMMA ServesShape ==
    ASSUME Shape, NEW c, Serves(c), NEW news \in Seq(Message), Reports(news)
    PROVE  /\ wire \in Seq(Command) /\ wire # <<>> /\ Head(wire) = c /\ c \in Command
           /\ wire' = Tail(wire) /\ wire' \in Seq(Command)
           /\ messages' = messages \o news /\ messages' \in Seq(Message)
           /\ conn = "open"
           /\ \A k : /\ Of(k, wire) = Of(k, wire') + IF c[1] = k THEN 1 ELSE 0
                     /\ Of(k, messages') = Of(k, messages) + Of(k, news)
                     /\ Of(k, wire') \in Nat /\ Of(k, messages) \in Nat
                     /\ Of(k, news) \in Nat
<1>1. wire \in Seq(Command) /\ messages \in Seq(Message) BY DEF Shape, TypeOK
<1>2. wire # <<>> /\ Head(wire) = c /\ wire' = Tail(wire) /\ conn = "open"
    BY DEF Serves
<1>3. wire' \in Seq(Command) /\ c \in Command BY <1>1, <1>2
<1>4. messages' = messages \o news BY DEF Reports
<1>5. messages' \in Seq(Message) BY <1>1, <1>4
<1>6. \A k : Of(k, wire) = Of(k, wire') + IF c[1] = k THEN 1 ELSE 0
    BY <1>1, <1>2, OfHead
<1>7. \A k : Of(k, messages') = Of(k, messages) + Of(k, news) BY <1>1, <1>4, OfConcat
<1>8. \A k : Of(k, wire') \in Nat /\ Of(k, messages) \in Nat /\ Of(k, news) \in Nat
    BY <1>1, <1>3, OfType
<1> QED BY <1>1, <1>2, <1>3, <1>4, <1>5, <1>6, <1>7, <1>8

\* The contents of a directory are items, and exist.
LEMMA ChildrenType ==
    ASSUME Shape, NEW d
    PROVE  Children(d) \subseteq Item /\ Children(d) \subseteq exists
BY DEF Shape, TypeOK, Children

\* A listing is answered by one message: types and counts stay right.
LEMMA ListsDirectoryShape == ASSUME Shape, ListsDirectory PROVE Shape'
<1> USE DEF Shape
<1>1. PICK d \in exists \cap Dir :
        /\ Serves(<<"list", d>>) /\ cwd' = d
        /\ Reports(<< <<"contents", d, Children(d)>> >>)
        /\ UNCHANGED <<conn, exists, refused, skipped>>
    BY DEF ListsDirectory
<1> DEFINE m == <<"contents", d, Children(d)>>
           news == <<m>>
<1>2. Children(d) \subseteq Item BY ChildrenType
<1>3. m \in Message BY <1>1, <1>2 DEF Message
<1>4. Of("rmd", news) = 0 /\ Of("disconnected", news) = 0
    <2>1. m[1] # "rmd" /\ m[1] # "disconnected" OBVIOUS
    <2> HIDE DEF m
    <2> QED BY <2>1, OfOne
<1>5. Reports(news) BY <1>1
<1>6. news \in Seq(Message)
    <2> HIDE DEF m
    <2> QED BY <1>3
<1> HIDE DEF news
<1>7. /\ wire' \in Seq(Command) /\ messages' \in Seq(Message) /\ conn = "open"
      /\ \A k : /\ Of(k, wire) = Of(k, wire') + IF "list" = k THEN 1 ELSE 0
                /\ Of(k, messages') = Of(k, messages) + Of(k, news)
                /\ Of(k, wire') \in Nat /\ Of(k, messages) \in Nat
    <2>1. <<"list", d>>[1] = "list" OBVIOUS
    <2> QED BY <1>1, <1>5, <1>6, <2>1, ServesShape
<1>8. TypeOK' BY <1>1, <1>7 DEF TypeOK, Serves, queueVars
<1>9. conn' = conn /\ dirDeletions' = dirDeletions BY <1>1 DEF Serves, queueVars
<1>10. Of("rmd", wire') = Of("rmd", wire) /\ Of("rmd", messages') = Of("rmd", messages)
       /\ Of("disconnected", messages') = Of("disconnected", messages)
    BY <1>4, <1>7
<1>11. ConnInv' BY <1>7, <1>9, <1>10 DEF ConnInv
<1> QED BY <1>8, <1>11

\* A refused CWD is answered by two messages, one of them by the LIST behind it.
LEMMA RefusesEntryShape == ASSUME Shape, RefusesEntry PROVE Shape'
<1> USE DEF Shape
<1>1. PICK d \in NoEntry \cup (Dir \ exists) :
        /\ Serves(<<"list", d>>)
        /\ Reports(<< <<"noEntry", d>>, <<"contents", cwd, Children(cwd)>> >>)
        /\ skipped' = skipped \cup {d}
        /\ UNCHANGED <<conn, cwd, exists, refused>>
    BY DEF RefusesEntry
<1> DEFINE m == <<"noEntry", d>>
           n == <<"contents", cwd, Children(cwd)>>
           news == <<m, n>>
<1>2. Children(cwd) \subseteq Item /\ d \in Dir BY TreeAssumption, ChildrenType
<1>3. m \in Message /\ n \in Message BY <1>2 DEF Message, TypeOK
<1>4. m[1] = "noEntry" /\ n[1] = "contents" OBVIOUS
<1>5. Reports(news) BY <1>1
<1> HIDE DEF m, n
<1>6. news \in Seq(Message) BY <1>3
<1>7. Of("rmd", news) = 0 /\ Of("disconnected", news) = 0
    <2>1. news = Append(<<m>>, n) /\ <<m>> \in Seq(Message) BY <1>3
    <2>2. Of("rmd", <<m>>) = 0 /\ Of("disconnected", <<m>>) = 0 BY <1>4, OfOne
    <2>3. \A k : Of(k, Append(<<m>>, n)) = Of(k, <<m>>) + IF n[1] = k THEN 1 ELSE 0
        BY <1>3, <2>1, OfAppend
    <2>4. Of("rmd", Append(<<m>>, n)) = 0 /\ Of("disconnected", Append(<<m>>, n)) = 0
        BY <1>4, <2>2, <2>3
    <2> QED BY <2>1, <2>4
<1> HIDE DEF news
<1>8. /\ wire' \in Seq(Command) /\ messages' \in Seq(Message) /\ conn = "open"
      /\ \A k : /\ Of(k, wire) = Of(k, wire') + IF "list" = k THEN 1 ELSE 0
                /\ Of(k, messages') = Of(k, messages) + Of(k, news)
                /\ Of(k, wire') \in Nat /\ Of(k, messages) \in Nat
    <2>1. <<"list", d>>[1] = "list" OBVIOUS
    <2> QED BY <1>1, <1>5, <1>6, <2>1, ServesShape
<1>9. TypeOK' BY <1>1, <1>2, <1>8 DEF TypeOK, Serves, queueVars
<1>10. conn' = conn /\ dirDeletions' = dirDeletions BY <1>1 DEF Serves, queueVars
<1>11. Of("rmd", wire') = Of("rmd", wire) /\ Of("rmd", messages') = Of("rmd", messages)
       /\ Of("disconnected", messages') = Of("disconnected", messages)
    BY <1>7, <1>8
<1>12. ConnInv' BY <1>8, <1>10, <1>11 DEF ConnInv
<1> QED BY <1>9, <1>12

\* A deletion and its answer.
ItemServed(x, verb, ok) ==
    /\ Serves(<<verb, x>>) /\ Reports(<< <<verb, x, ok>> >>)
    /\ <<verb, x>> \in Command
    /\ verb = "dele" => x \in File
    /\ verb = "rmd" => x \in Dir
    /\ << <<verb, x, ok>> >> \in Seq(Message)
    /\ ok => x \in exists /\ Children(x) = {}
    /\ ~ok => x \in Refusable \/ x \notin exists \/ Children(x) # {}
    /\ exists' = IF ok THEN exists \ {x} ELSE exists
    /\ refused' = IF ~ok /\ x \in exists /\ Children(x) = {}
                  THEN refused \cup {x} ELSE refused
    /\ UNCHANGED <<conn, cwd, skipped>>

\* A file or a directory is deleted, or it is refused.
LEMMA DeletesItemCase ==
    ASSUME Shape, DeletesItem
    PROVE  \E x \in Item, verb \in {"dele", "rmd"}, ok \in BOOLEAN : ItemServed(x, verb, ok)
<1>1. PICK x \in Item, verb \in {"dele", "rmd"}, ok \in BOOLEAN :
        /\ Serves(<<verb, x>>) /\ Reports(<< <<verb, x, ok>> >>)
        /\ ok => x \in exists /\ Children(x) = {}
        /\ ~ok => x \in Refusable \/ x \notin exists \/ Children(x) # {}
        /\ exists' = IF ok THEN exists \ {x} ELSE exists
        /\ refused' = IF ~ok /\ x \in exists /\ Children(x) = {}
                      THEN refused \cup {x} ELSE refused
        /\ UNCHANGED <<conn, cwd, skipped>>
    BY DEF DeletesItem
<1>2. <<verb, x>> \in Command
    <2>1. wire \in Seq(Command) /\ wire # <<>> /\ Head(wire) = <<verb, x>>
        BY <1>1 DEF Serves, Shape, TypeOK
    <2>2. Head(wire) \in Command BY <2>1
    <2> QED BY <2>1, <2>2
<1>3. <<verb, x>>[1] = verb /\ <<verb, x>>[2] = x OBVIOUS
<1>4. (verb = "dele" => x \in File) /\ (verb = "rmd" => x \in Dir)
    BY <1>2, <1>3, CommandShape
<1>5. <<verb, x, ok>> \in Message BY <1>4 DEF Message
<1>6. << <<verb, x, ok>> >> \in Seq(Message)
    <2>1. \A m \in Message : <<m>> \in Seq(Message) OBVIOUS
    <2> QED BY <1>5, <2>1
<1>7. ItemServed(x, verb, ok) BY <1>1, <1>2, <1>4, <1>6 DEF ItemServed
<1> QED BY <1>7

\* Either is answered by one message: types and counts stay right.
LEMMA DeletesItemShape == ASSUME Shape, DeletesItem PROVE Shape'
<1>0. PICK x \in Item, verb \in {"dele", "rmd"}, ok \in BOOLEAN : ItemServed(x, verb, ok)
    BY DeletesItemCase
<1>1. /\ Serves(<<verb, x>>) /\ Reports(<< <<verb, x, ok>> >>)
      /\ << <<verb, x, ok>> >> \in Seq(Message)
      /\ ~ok => x \in Refusable \/ x \notin exists \/ Children(x) # {}
      /\ exists' = IF ok THEN exists \ {x} ELSE exists
      /\ refused' = IF ~ok /\ x \in exists /\ Children(x) = {}
                    THEN refused \cup {x} ELSE refused
      /\ UNCHANGED <<conn, cwd, skipped>>
    BY <1>0 DEF ItemServed
<1> USE DEF Shape
<1> DEFINE m == <<verb, x, ok>>
           news == <<m>>
<1>2. Reports(news) /\ news \in Seq(Message) BY <1>1
<1>3. \A k : Of(k, news) = IF verb = k THEN 1 ELSE 0
    <2>1. m[1] = verb OBVIOUS
    <2> HIDE DEF m
    <2> QED BY <2>1, OfOne
<1> HIDE DEF news
<1>4. /\ wire' \in Seq(Command) /\ messages' \in Seq(Message) /\ conn = "open"
      /\ \A k : /\ Of(k, wire) = Of(k, wire') + IF verb = k THEN 1 ELSE 0
                /\ Of(k, messages') = Of(k, messages) + Of(k, news)
                /\ Of(k, wire') \in Nat /\ Of(k, messages) \in Nat
    <2>1. <<verb, x>>[1] = verb OBVIOUS
    <2> QED BY <1>1, <1>2, <2>1, ServesShape
<1>5. exists' \subseteq Item /\ refused' \subseteq Refusable BY <1>1 DEF TypeOK
<1>6. TypeOK' BY <1>1, <1>4, <1>5 DEF TypeOK, Serves, queueVars
<1>7. conn' = conn /\ dirDeletions' = dirDeletions /\ dirDeletions \in Nat
    BY <1>1 DEF Serves, queueVars, TypeOK
<1>8. verb # "disconnected" OBVIOUS
<1>9. /\ Of("rmd", wire') + Of("rmd", messages') = Of("rmd", wire) + Of("rmd", messages)
      /\ Of("disconnected", messages') = Of("disconnected", messages)
    BY <1>3, <1>4, <1>8
<1>10. ConnInv' BY <1>4, <1>7, <1>9 DEF ConnInv
<1> QED BY <1>6, <1>10

\* The second connection ends with one message, and what was sent is gone.
LEMMA DisconnectsShape ==
    ASSUME Shape, Disconnects
    PROVE  /\ Shape' /\ messages' = Append(messages, <<"disconnected">>)
           /\ \A k : Of(k, messages') = Of(k, messages) + IF k = "disconnected" THEN 1 ELSE 0
           /\ \A k : Of(k, messages) \in Nat /\ Of(k, wire) \in Nat
<1> USE DEF Shape
<1> DEFINE m == <<"disconnected">>
<1>1. m \in Message /\ m[1] = "disconnected" BY DEF Message
<1>2. messages \in Seq(Message) /\ wire \in Seq(Command) BY DEF TypeOK
<1>3. messages' = messages \o <<m>> BY DEF Disconnects, Reports
<1> HIDE DEF m
<1>4. messages' = Append(messages, m) /\ messages' \in Seq(Message) BY <1>1, <1>2, <1>3
<1>5. \A k : Of(k, messages') = Of(k, messages) + IF k = "disconnected" THEN 1 ELSE 0
    BY <1>1, <1>2, <1>4, OfAppend
<1>6. \A k : Of(k, messages) \in Nat /\ Of(k, wire) \in Nat BY <1>2, OfType
<1>7. Of("rmd", <<>>) = 0 /\ <<>> \in Seq(Command) BY OfEmpty
<1>8. TypeOK' BY <1>4, <1>7 DEF TypeOK, Disconnects, queueVars, ghostVars
<1>9. /\ conn = "open" /\ conn' = "closed" /\ wire' = <<>> /\ dirDeletions' = dirDeletions
      /\ dirDeletions \in Nat
    BY DEF Disconnects, queueVars, TypeOK
<1>10. /\ Of("disconnected", messages') = 1 /\ Of("rmd", messages') = Of("rmd", messages)
       /\ dirDeletions >= Of("rmd", messages)
    BY <1>5, <1>6, <1>9 DEF ConnInv
<1>11. ConnInv' BY <1>6, <1>7, <1>9, <1>10 DEF ConnInv
<1> QED BY <1>4, <1>5, <1>6, <1>8, <1>11 DEF m

\* A message is taken.
LEMMA ReceivesShape ==
    ASSUME Shape, NEW kind, Receives(kind)
    PROVE  /\ messages \in Seq(Message) /\ messages # <<>>
           /\ Head(messages) \in Message /\ Head(messages)[1] = kind
           /\ messages' = Tail(messages) /\ messages' \in Seq(Message)
           /\ \A k : /\ Of(k, messages) = Of(k, messages') + IF kind = k THEN 1 ELSE 0
                     /\ Of(k, messages') \in Nat /\ Of(k, wire) \in Nat
<1>1. messages \in Seq(Message) /\ wire \in Seq(Command) BY DEF Shape, TypeOK
<1>2. messages # <<>> /\ Head(messages)[1] = kind /\ messages' = Tail(messages)
    BY DEF Receives
<1>3. messages' \in Seq(Message) /\ Head(messages) \in Message BY <1>1, <1>2
<1>4. \A k : Of(k, messages) = Of(k, messages') + IF Head(messages)[1] = k THEN 1 ELSE 0
    BY <1>1, <1>2, OfHead
<1>5. \A k : Of(k, messages') \in Nat /\ Of(k, wire) \in Nat BY <1>1, <1>3, OfType
<1> QED BY <1>1, <1>2, <1>3, <1>4, <1>5

\* The directories of the list are deleted, and counted.
LEMMA DeleteDirectoriesEffect ==
    ASSUME Shape, NEW dirs \in Seq(Dir), DeleteDirectories(dirs)
    PROVE  /\ wire' \in Seq(Command)
           /\ conn = "none" => wire' = wire
           /\ conn # "none" => wire' = wire \o Removals(dirs)
           /\ \A k : Of(k, wire') = Of(k, wire) + IF conn = "none" \/ k # "rmd" THEN 0 ELSE Len(dirs)
           /\ dirDeletions' = dirDeletions + Len(dirs) /\ dirDeletions' \in Nat
           /\ emptyDirs' = <<>> /\ emptyDirs' \in Seq(Dir)
<1> DEFINE c == Removals(dirs)
<1>1. /\ c \in Seq(Command) /\ Of("rmd", c) = Len(dirs)
      /\ \A k : k # "rmd" => Of(k, c) = 0
    BY RemovalsType
<1>2. wire \in Seq(Command) /\ dirDeletions \in Nat BY DEF Shape, TypeOK
<1>3. Send(c) BY DEF DeleteDirectories
<1> HIDE DEF c
<1>4. /\ wire' \in Seq(Command)
      /\ conn = "none" => wire' = wire
      /\ conn # "none" => wire' = wire \o c
      /\ \A k : Of(k, wire') = Of(k, wire) + IF conn = "none" THEN 0 ELSE Of(k, c)
    BY <1>1, <1>2, <1>3, SendEffect
<1>5. ASSUME NEW k
      PROVE  Of(k, wire') = Of(k, wire) + IF conn = "none" \/ k # "rmd" THEN 0 ELSE Len(dirs)
    <2>1. CASE k = "rmd" BY <1>1, <1>4, <2>1
    <2>2. CASE k # "rmd" BY <1>1, <1>4, <2>2
    <2> QED BY <2>1, <2>2
<1>6. dirDeletions' = dirDeletions + Len(dirs) /\ emptyDirs' = <<>> BY DEF DeleteDirectories
<1>7. dirDeletions' \in Nat /\ emptyDirs' \in Seq(Dir) BY <1>2, <1>6
<1> QED BY <1>4, <1>5, <1>6, <1>7 DEF c

\* What a listing adds.
FoundLast(items) == listings - 1 + Len(Subdirectories(items)) = 0 /\ files' = <<>>

\* What a listing leads to: more listings, the files, or the directories.
LEMMA ContentsEffect ==
    ASSUME Shape, NEW d \in Dir, NEW items \in Seq(Item), Contents(d, items)
    PROVE  /\ Subdirectories(items) \in Seq(Dir) /\ Emptied(d) \in Seq(Dir)
           /\ files' = Found(items) /\ files' \in Seq(File)
           /\ listings' = listings - 1 + Len(Subdirectories(items)) /\ listings' \in Int
           /\ wire' \in Seq(Command) /\ emptyDirs' \in Seq(Dir) /\ dirDeletions' \in Nat
           /\ \A k : /\ conn = "none" => Of(k, wire') = Of(k, wire)
                     /\ conn # "none" /\ k = "list" =>
                          Of(k, wire') = Of(k, wire) + Len(Subdirectories(items))
                     /\ conn # "none" /\ k = "rmd" =>
                          Of(k, wire') = Of(k, wire) + IF FoundLast(items) THEN Len(Emptied(d)) ELSE 0
           /\ FoundLast(items) =>
                 /\ dirDeletions' = dirDeletions + Len(Emptied(d)) /\ emptyDirs' = <<>>
                 /\ conn # "none" =>
                      wire' = wire \o (CommandsFor("list", Subdirectories(items)) \o Removals(Emptied(d)))
           /\ ~FoundLast(items) =>
                 /\ dirDeletions' = dirDeletions /\ emptyDirs' = Emptied(d)
                 /\ conn # "none" /\ listings' # 0 =>
                      wire' = wire \o CommandsFor("list", Subdirectories(items))
                 /\ conn # "none" /\ listings' = 0 =>
                      wire' = wire \o (CommandsFor("list", Subdirectories(items)) \o CommandsFor("dele", files'))
           /\ conn = "none" => wire' = wire
<1> DEFINE subs == Subdirectories(items)
           lists == CommandsFor("list", subs)
           left == listings - 1 + Len(subs)
           dirs == Emptied(d)
           deles == CommandsFor("dele", files')
<1>1. /\ wire \in Seq(Command) /\ dirDeletions \in Nat /\ listings \in Int
      /\ files \in Seq(File) /\ emptyDirs \in Seq(Dir)
    BY DEF Shape, TypeOK
<1>2. subs \in Seq(Dir)
    <2>1. Keep(items, Dir) \in Seq(Item \cap Dir) BY KeepType
    <2>2. Item \cap Dir = Dir BY DEF Item
    <2> QED BY <2>1, <2>2 DEF Subdirectories
<1>3. files' = Found(items) /\ files' \in Seq(File)
    <2>1. Keep(items, File) \in Seq(Item \cap File) BY KeepType
    <2>2. Item \cap File = File BY DEF Item
    <2>3. Keep(items, File) \in Seq(File) BY <2>1, <2>2
    <2>4. files' = files \o Keep(items, File) /\ files' = Found(items) BY DEF Contents, Found
    <2>5. files \o Keep(items, File) \in Seq(File) BY <1>1, <2>3
    <2> QED BY <2>4, <2>5
<1>4. dirs \in Seq(Dir)
    <2>1. Append(emptyDirs, d) \in Seq(Dir) BY <1>1
    <2> QED BY <1>1, <2>1 DEF Emptied
<1>5. Proceed(left, lists, dirs) BY DEF Contents
<1>6. lists \in Seq(Command) BY <1>2, CommandsForType
<1>7. deles \in Seq(Command) BY <1>3, CommandsForType
<1>8. /\ Removals(dirs) \in Seq(Command) /\ Of("rmd", Removals(dirs)) = Len(dirs)
      /\ Of("list", Removals(dirs)) = 0
    BY <1>4, RemovalsType
<1>9. /\ Of("list", lists) = Len(subs) /\ Of("rmd", lists) = 0
      /\ Of("list", deles) = 0 /\ Of("rmd", deles) = 0
    BY <1>2, <1>3, OfCommandsFor
<1>10. left \in Int /\ Len(dirs) \in Nat /\ Len(subs) \in Nat BY <1>1, <1>2, <1>4
<1>11. FoundLast(items) <=> left = 0 /\ files' = <<>> BY DEF FoundLast
<1> HIDE DEF subs, lists, left, dirs, deles
<1>12. CASE left = 0 /\ files' = <<>>
    <2> DEFINE c == lists \o Removals(dirs)
    <2>1. Send(c) /\ dirDeletions' = dirDeletions + Len(dirs) /\ emptyDirs' = <<>>
          /\ listings' = left
        BY <1>5, <1>12 DEF Proceed
    <2>2. c \in Seq(Command) BY <1>6, <1>8
    <2>3. /\ Of("list", c) = Of("list", lists) + Of("list", Removals(dirs))
          /\ Of("rmd", c) = Of("rmd", lists) + Of("rmd", Removals(dirs))
        BY <1>6, <1>8, OfConcat
    <2> HIDE DEF c
    <2>4. /\ wire' \in Seq(Command)
          /\ conn = "none" => wire' = wire
          /\ conn # "none" => wire' = wire \o c
          /\ \A k : /\ Of(k, wire') = Of(k, wire) + IF conn = "none" THEN 0 ELSE Of(k, c)
                    /\ Of(k, wire) \in Nat
        BY <1>1, <2>1, <2>2, SendEffect
    <2>5. Of("list", c) = Len(subs) /\ Of("rmd", c) = Len(dirs)
        BY <1>8, <1>9, <1>10, <2>3
    <2>6. \A k : /\ conn = "none" => Of(k, wire') = Of(k, wire)
                 /\ conn # "none" /\ k = "list" => Of(k, wire') = Of(k, wire) + Len(subs)
                 /\ conn # "none" /\ k = "rmd" => Of(k, wire') = Of(k, wire) + Len(dirs)
        BY <2>4, <2>5
    <2>7. FoundLast(items) BY <1>11, <1>12
    <2>8. listings' \in Int /\ emptyDirs' \in Seq(Dir) /\ dirDeletions' \in Nat
        BY <1>1, <1>10, <2>1
    <2> QED BY <1>2, <1>3, <1>4, <2>1, <2>4, <2>6, <2>7, <2>8 DEF subs, lists, left, dirs, c
<1>13. CASE ~(left = 0 /\ files' = <<>>)
    <2> DEFINE c == IF left = 0 THEN lists \o deles ELSE lists
    <2>1. Send(c) /\ dirDeletions' = dirDeletions /\ emptyDirs' = dirs
          /\ listings' = left
        BY <1>5, <1>13 DEF Proceed, deles
    <2>2. lists \o deles \in Seq(Command) BY <1>6, <1>7
    <2>3. c \in Seq(Command) BY <1>6, <2>2
    <2>4. /\ Of("list", lists \o deles) = Of("list", lists) + Of("list", deles)
          /\ Of("rmd", lists \o deles) = Of("rmd", lists) + Of("rmd", deles)
        BY <1>6, <1>7, OfConcat
    <2>5. Of("list", c) = Len(subs) /\ Of("rmd", c) = 0
        BY <1>9, <1>10, <2>4
    <2>6. (left = 0 => c = lists \o deles) /\ (left # 0 => c = lists) OBVIOUS
    <2> HIDE DEF c
    <2>7. /\ wire' \in Seq(Command)
          /\ conn = "none" => wire' = wire
          /\ conn # "none" => wire' = wire \o c
          /\ \A k : /\ Of(k, wire') = Of(k, wire) + IF conn = "none" THEN 0 ELSE Of(k, c)
                    /\ Of(k, wire) \in Nat
        BY <1>1, <2>1, <2>3, SendEffect
    <2>8. \A k : /\ conn = "none" => Of(k, wire') = Of(k, wire)
                 /\ conn # "none" /\ k = "list" => Of(k, wire') = Of(k, wire) + Len(subs)
                 /\ conn # "none" /\ k = "rmd" => Of(k, wire') = Of(k, wire) + 0
        BY <2>5, <2>7
    <2>9. ~FoundLast(items) BY <1>11, <1>13
    <2>10. listings' \in Int /\ emptyDirs' \in Seq(Dir) /\ dirDeletions' \in Nat
        BY <1>1, <1>4, <1>10, <2>1
    <2> QED BY <1>2, <1>3, <1>4, <2>1, <2>6, <2>7, <2>8, <2>9, <2>10
            DEF subs, lists, left, dirs, deles
<1> QED BY <1>12, <1>13

\* A listing of what is below the first directory, or of something else.
ContentsOf(m, items) ==
    /\ Head(deletions) \in Path[m[2]] /\ items \in SetToSeqs(m[3]) /\ Contents(m[2], items)

\* A listing of something else is only counted.
LEMMA DidReceiveContentsCases ==
    ASSUME Shape, DidReceiveContents
    PROVE  /\ Receives("contents") /\ deletions # <<>>
           /\ UNCHANGED <<conn, deletions, isDeleting, told>>
           /\ Head(messages)[2] \in Dir /\ Head(messages)[3] \in SUBSET Item
           /\ \/ /\ Head(deletions) \notin Path[Head(messages)[2]]
                 /\ listings' = listings - 1
                 /\ UNCHANGED <<files, emptyDirs, dirDeletions, wire>>
              \/ \E items \in Seq(Item) : ContentsOf(Head(messages), items)
<1>1. Receives("contents") /\ deletions # <<>>
      /\ UNCHANGED <<conn, deletions, isDeleting, told>>
    BY DEF DidReceiveContents
<1>2. Head(messages) \in Message /\ Head(messages)[1] = "contents" BY <1>1, ReceivesShape
<1> DEFINE m == Head(messages)
<1>3. m[2] \in Dir /\ m[3] \in SUBSET Item BY <1>2, MessageShape
<1>4. CASE Head(deletions) \notin Path[m[2]]
    BY <1>1, <1>3, <1>4 DEF DidReceiveContents
<1>5. CASE Head(deletions) \in Path[m[2]]
    <2>1. PICK items \in SetToSeqs(m[3]) : Contents(m[2], items)
        BY <1>5, Zenon DEF DidReceiveContents
    <2>2. items \in Seq(Item) BY <1>3, SetToSeqsShape
    <2> QED BY <1>1, <1>3, <1>5, <2>1, <2>2 DEF ContentsOf
<1> QED BY <1>4, <1>5

\* A listing that is handled leads to commands that are counted.
LEMMA DidReceiveContentsShape == ASSUME Shape, DidReceiveContents PROVE Shape'
<1>1. /\ Receives("contents") /\ UNCHANGED <<conn, deletions, isDeleting, told>>
      /\ Head(messages)[2] \in Dir
    BY DidReceiveContentsCases
<1>2. /\ messages' \in Seq(Message)
      /\ \A k : /\ Of(k, messages) = Of(k, messages') + IF "contents" = k THEN 1 ELSE 0
                /\ Of(k, messages') \in Nat /\ Of(k, wire) \in Nat
    BY <1>1, ReceivesShape
<1>3. CASE listings' = listings - 1 /\ UNCHANGED <<files, emptyDirs, dirDeletions, wire>>
    <2>1. TypeOK' BY <1>1, <1>2, <1>3 DEF Shape, TypeOK, Receives
    <2>2. /\ Of("rmd", messages') = Of("rmd", messages)
          /\ Of("disconnected", messages') = Of("disconnected", messages)
        BY <1>2
    <2>3. Of("rmd", wire') = Of("rmd", wire) BY <1>3
    <2>4. ConnInv' BY <1>1, <1>3, <2>2, <2>3 DEF Shape, ConnInv
    <2> QED BY <2>1, <2>4 DEF Shape
<1>4. ASSUME NEW items \in Seq(Item), ContentsOf(Head(messages), items) PROVE Shape'
    <2> DEFINE d == Head(messages)[2]
    <2>1. Contents(d, items) BY <1>4 DEF ContentsOf
    <2>2. /\ files' \in Seq(File) /\ listings' \in Int /\ Emptied(d) \in Seq(Dir)
          /\ wire' \in Seq(Command) /\ emptyDirs' \in Seq(Dir) /\ dirDeletions' \in Nat
          /\ conn = "none" => wire' = wire
          /\ conn = "none" => Of("rmd", wire') = Of("rmd", wire)
          /\ conn # "none" => Of("rmd", wire') = Of("rmd", wire) + IF FoundLast(items) THEN Len(Emptied(d)) ELSE 0
          /\ FoundLast(items) => dirDeletions' = dirDeletions + Len(Emptied(d))
          /\ ~FoundLast(items) => dirDeletions' = dirDeletions
        BY <1>1, <2>1, ContentsEffect
    <2>3. dirDeletions \in Nat /\ Len(Emptied(d)) \in Nat BY <2>2 DEF Shape, TypeOK
    <2> HIDE DEF d
    <2>4. TypeOK' BY <1>1, <1>2, <2>2 DEF Shape, TypeOK, Receives
    <2>5. Of("rmd", messages') = Of("rmd", messages)
          /\ Of("disconnected", messages') = Of("disconnected", messages)
        BY <1>2
    <2>6. dirDeletions' >= Of("rmd", wire') + Of("rmd", messages')
        <3>1. /\ dirDeletions >= Of("rmd", wire) + Of("rmd", messages)
              /\ Of("rmd", wire) \in Nat /\ Of("rmd", messages) \in Nat
            BY <1>2 DEF Shape, ConnInv
        <3>2. Of("rmd", messages') = Of("rmd", messages) BY <2>5
        <3> QED BY <2>2, <2>3, <3>1, <3>2
    <2>7. ConnInv' BY <1>1, <2>2, <2>5, <2>6 DEF Shape, ConnInv
    <2> QED BY <2>4, <2>7 DEF Shape
<1> QED BY <1>3, <1>4, DidReceiveContentsCases

\* So does a directory that cannot be entered.
LEMMA DidNotChangeToDirectoryShape ==
    ASSUME Shape, DidNotChangeToDirectory PROVE Shape'
<1>1. Receives("noEntry") BY DEF DidNotChangeToDirectory
<1>2. /\ messages' \in Seq(Message)
      /\ \A k : /\ Of(k, messages) = Of(k, messages') + IF "noEntry" = k THEN 1 ELSE 0
                /\ Of(k, messages') \in Nat
    BY <1>1, ReceivesShape
<1>3. TypeOK' BY <1>1, <1>2 DEF Shape, TypeOK, DidNotChangeToDirectory, Receives
<1>4. /\ Of("rmd", messages') = Of("rmd", messages)
      /\ Of("disconnected", messages') = Of("disconnected", messages)
    BY <1>2
<1>5. UNCHANGED <<conn, dirDeletions, wire>> BY DEF DidNotChangeToDirectory
<1>6. ConnInv' BY <1>4, <1>5 DEF Shape, ConnInv, Of
<1> QED BY <1>3, <1>6 DEF Shape

\* The last file gone, the directories are deleted.
LEMMA DidDeleteFileCases ==
    ASSUME Shape, DidDeleteFile
    PROVE  /\ Receives("dele") /\ deletions # <<>>
           /\ UNCHANGED <<conn, deletions, isDeleting, listings, told>>
           /\ files' = Keep(files, File \ {Head(messages)[2]}) /\ files' \in Seq(File)
           /\ \/ files' = <<>> /\ listings = 0 /\ DeleteDirectories(emptyDirs)
              \/ ~(files' = <<>> /\ listings = 0) /\ UNCHANGED <<wire, dirDeletions, emptyDirs>>
<1>1. files \in Seq(File) BY DEF Shape, TypeOK
<1>2. Keep(files, File \ {Head(messages)[2]}) \in Seq(File) BY <1>1, KeepSeq
<1> QED BY <1>2 DEF DidDeleteFile

\* And a file that is deleted, or was refused.
LEMMA DidDeleteFileShape == ASSUME Shape, DidDeleteFile PROVE Shape'
<1>1. /\ Receives("dele") /\ UNCHANGED <<conn, deletions, isDeleting, listings, told>>
      /\ files' \in Seq(File)
    BY DidDeleteFileCases
<1>2. /\ messages' \in Seq(Message)
      /\ \A k : /\ Of(k, messages) = Of(k, messages') + IF "dele" = k THEN 1 ELSE 0
                /\ Of(k, messages') \in Nat /\ Of(k, wire) \in Nat
    BY <1>1, ReceivesShape
<1>3. /\ Of("rmd", messages') = Of("rmd", messages)
      /\ Of("disconnected", messages') = Of("disconnected", messages)
    BY <1>2
<1>4. CASE UNCHANGED <<wire, dirDeletions, emptyDirs>>
    <2>1. TypeOK' BY <1>1, <1>2, <1>4 DEF Shape, TypeOK, Receives
    <2>2. ConnInv' BY <1>1, <1>3, <1>4 DEF Shape, ConnInv, Of
    <2> QED BY <2>1, <2>2 DEF Shape
<1>5. CASE DeleteDirectories(emptyDirs)
    <2>1. emptyDirs \in Seq(Dir) /\ dirDeletions \in Nat BY DEF Shape, TypeOK
    <2>2. /\ wire' \in Seq(Command)
          /\ conn = "none" => wire' = wire
          /\ \A k : Of(k, wire') = Of(k, wire) + IF conn = "none" \/ k # "rmd" THEN 0 ELSE Len(emptyDirs)
          /\ dirDeletions' = dirDeletions + Len(emptyDirs) /\ dirDeletions' \in Nat
          /\ emptyDirs' \in Seq(Dir)
        BY <1>5, <2>1, DeleteDirectoriesEffect
    <2>3. TypeOK' BY <1>1, <1>2, <2>2 DEF Shape, TypeOK, Receives
    <2>4. Len(emptyDirs) \in Nat BY <2>1
    <2>5. dirDeletions' >= Of("rmd", wire') + Of("rmd", messages')
        BY <1>2, <1>3, <2>1, <2>2, <2>4 DEF Shape, ConnInv
    <2>6. ConnInv' BY <1>1, <1>3, <2>2, <2>5 DEF Shape, ConnInv
    <2> QED BY <2>3, <2>6 DEF Shape
<1> QED BY <1>4, <1>5, DidDeleteFileCases

\* The deletion of a directory is not the last, or is, and the queue is empty then or
\* is not.
LEMMA DidDeleteDirectoryCases ==
    ASSUME Shape, DidDeleteDirectory
    PROVE  /\ Receives("rmd") /\ deletions # <<>>
           /\ dirDeletions' = dirDeletions - 1 /\ dirDeletions' \in Nat
           /\ UNCHANGED <<conn, files>>
           /\ \/ /\ dirDeletions' # 0
                 /\ UNCHANGED <<deletions, told, isDeleting, listings, emptyDirs, wire>>
              \/ /\ dirDeletions' = 0 /\ deletions' = Tail(deletions)
                 /\ told' = Append(told, <<Head(messages)[2], Head(messages)[3]>>)
                 /\ \/ /\ deletions' = <<>> /\ isDeleting' = FALSE
                       /\ Send(<< <<"quit">> >>) /\ UNCHANGED <<listings, emptyDirs>>
                    \/ /\ deletions' # <<>> /\ ListFirst(deletions') /\ UNCHANGED isDeleting
<1>1. Receives("rmd") /\ deletions # <<>> /\ dirDeletions' = dirDeletions - 1
      /\ UNCHANGED <<conn, files>>
    BY DEF DidDeleteDirectory
<1>2. dirDeletions' \in Nat
    <2>1. /\ \A k : /\ Of(k, messages) = Of(k, messages') + IF "rmd" = k THEN 1 ELSE 0
                    /\ Of(k, messages') \in Nat /\ Of(k, wire) \in Nat
        BY <1>1, ReceivesShape
    <2>2. Of("rmd", messages) = Of("rmd", messages') + 1 /\ Of("rmd", messages') \in Nat
          /\ Of("rmd", wire) \in Nat
        BY <2>1
    <2>3. dirDeletions \in Nat /\ dirDeletions >= Of("rmd", wire) + Of("rmd", messages)
        BY DEF Shape, TypeOK, ConnInv
    <2> QED BY <1>1, <2>2, <2>3
<1>3. CASE dirDeletions' = 0
    <2>1. deletions' = Tail(deletions) /\ Finish(deletions')
          /\ told' = Append(told, <<Head(messages)[2], Head(messages)[3]>>)
        BY <1>3 DEF DidDeleteDirectory
    <2>2. CASE deletions' = <<>> BY <1>1, <1>2, <1>3, <2>1, <2>2 DEF Finish
    <2>3. CASE deletions' # <<>> BY <1>1, <1>2, <1>3, <2>1, <2>3 DEF Finish
    <2> QED BY <2>2, <2>3
<1>4. CASE dirDeletions' # 0
    BY <1>1, <1>2, <1>4 DEF DidDeleteDirectory
<1> QED BY <1>3, <1>4

\* QUIT is sent over the second connection, if there is one.
LEMMA QuitEffect ==
    ASSUME Shape, Send(<< <<"quit">> >>)
    PROVE  /\ wire' \in Seq(Command)
           /\ conn = "none" => wire' = wire
           /\ conn # "none" => wire' = wire \o << <<"quit">> >>
           /\ \A k : k # "quit" => Of(k, wire') = Of(k, wire)
<1> DEFINE c == << <<"quit">> >>
<1>1. <<"quit">> \in Command BY CommandTypes
<1>2. c \in Seq(Command) BY <1>1
<1>3. \A k : k # "quit" => Of(k, c) = 0 BY OfOne
<1>4. Send(c) /\ wire \in Seq(Command) BY DEF Shape, TypeOK
<1> HIDE DEF c
<1>5. /\ wire' \in Seq(Command)
      /\ conn = "none" => wire' = wire
      /\ conn # "none" => wire' = wire \o c
      /\ \A k : /\ Of(k, wire') = Of(k, wire) + IF conn = "none" THEN 0 ELSE Of(k, c)
                /\ Of(k, wire) \in Nat
    BY <1>2, <1>4, SendEffect
<1>6. \A k : k # "quit" => Of(k, wire') = Of(k, wire) BY <1>3, <1>5
<1> QED BY <1>5, <1>6 DEF c

\* A directory deleted is counted, the last one of a deletion ends it.
LEMMA DidDeleteDirectoryShape == ASSUME Shape, DidDeleteDirectory PROVE Shape'
<1>1. /\ Receives("rmd") /\ deletions # <<>>
      /\ dirDeletions' = dirDeletions - 1 /\ dirDeletions' \in Nat
      /\ UNCHANGED <<conn, files>>
    BY DidDeleteDirectoryCases
<1>2. /\ messages' \in Seq(Message) /\ Head(messages) \in Message
      /\ Head(messages)[1] = "rmd"
      /\ \A k : /\ Of(k, messages) = Of(k, messages') + IF "rmd" = k THEN 1 ELSE 0
                /\ Of(k, messages') \in Nat /\ Of(k, wire) \in Nat
    BY <1>1, ReceivesShape
<1>3. /\ Of("rmd", messages) = Of("rmd", messages') + 1
      /\ Of("disconnected", messages') = Of("disconnected", messages)
    BY <1>2
<1>4. /\ deletions \in Seq(Roots) /\ Tail(deletions) \in Seq(Roots)
      /\ told \in Seq(Dir \X BOOLEAN) /\ dirDeletions \in Nat
    BY <1>1 DEF Shape, TypeOK
<1>5. ASSUME Of("rmd", wire') = Of("rmd", wire), conn = "none" => wire' = wire
      PROVE  ConnInv'
    <2>1. dirDeletions' >= Of("rmd", wire') + Of("rmd", messages')
        BY <1>1, <1>2, <1>3, <1>4, <1>5 DEF Shape, ConnInv
    <2> QED BY <1>1, <1>3, <1>5, <2>1 DEF Shape, ConnInv
<1>6. CASE UNCHANGED <<deletions, told, isDeleting, listings, emptyDirs, wire>>
    <2>1. TypeOK' BY <1>1, <1>2, <1>6 DEF Shape, TypeOK, Receives
    <2> QED BY <1>5, <1>6, <2>1 DEF Shape
<1>7. CASE /\ deletions' = Tail(deletions)
           /\ told' = Append(told, <<Head(messages)[2], Head(messages)[3]>>)
    <2>1. Head(messages)[2] \in Dir /\ Head(messages)[3] \in BOOLEAN BY <1>2, MessageShape
    <2>2. <<Head(messages)[2], Head(messages)[3]>> \in Dir \X BOOLEAN BY <2>1
    <2>3. told' \in Seq(Dir \X BOOLEAN) /\ deletions' \in Seq(Roots)
        <3> DEFINE P == Dir \X BOOLEAN
        <3>1. \A t \in Seq(P), p \in P : Append(t, p) \in Seq(P) OBVIOUS
        <3> QED BY <1>4, <1>7, <2>2, <3>1
    <2>4. CASE /\ deletions' = <<>> /\ isDeleting' = FALSE
               /\ Send(<< <<"quit">> >>) /\ UNCHANGED <<listings, emptyDirs>>
        <3>1. /\ wire' \in Seq(Command)
              /\ conn = "none" => wire' = wire
              /\ \A k : k # "quit" => Of(k, wire') = Of(k, wire)
            BY <2>4, QuitEffect
        <3>2. isDeleting' \in BOOLEAN BY <2>4
        <3>3. TypeOK' BY <1>1, <1>2, <2>3, <2>4, <3>1, <3>2 DEF Shape, TypeOK, Receives
        <3>4. Of("rmd", wire') = Of("rmd", wire) BY <3>1
        <3> QED BY <1>5, <3>1, <3>3, <3>4 DEF Shape
    <2>5. CASE deletions' # <<>> /\ ListFirst(deletions') /\ UNCHANGED isDeleting
        <3>1. /\ emptyDirs' \in Seq(Dir) /\ listings' \in Int /\ wire' \in Seq(Command)
              /\ conn = "none" => wire' = wire
              /\ Of("rmd", wire') = Of("rmd", wire)
            <4>1. \A q \in Seq(Roots) : q # <<>> /\ ListFirst(q) =>
                    /\ emptyDirs' \in Seq(Dir) /\ listings' \in Int /\ wire' \in Seq(Command)
                    /\ conn = "none" => wire' = wire
                    /\ Of("rmd", wire') = Of("rmd", wire)
                BY ListFirstShape
            <4> QED BY <2>3, <2>5, <4>1
        <3>2. TypeOK' BY <1>1, <1>2, <2>3, <2>5, <3>1 DEF Shape, TypeOK, Receives
        <3> QED BY <1>5, <3>1, <3>2 DEF Shape
    <2> QED BY <1>6, <2>4, <2>5, DidDeleteDirectoryCases
<1> QED BY <1>6, <1>7, DidDeleteDirectoryCases

\* With the connection all that was sent is gone, and nothing was counted.
LEMMA DidDisconnectShape == ASSUME Shape, DidDisconnect PROVE Shape'
<1>1. Receives("disconnected") /\ conn' = "none" /\ wire' = <<>> /\ UNCHANGED <<queueVars, told>>
    BY DEF DidDisconnect
<1>2. /\ messages' \in Seq(Message)
      /\ \A k : /\ Of(k, messages) = Of(k, messages') + IF "disconnected" = k THEN 1 ELSE 0
                /\ Of(k, messages') \in Nat /\ Of(k, wire) \in Nat
    BY <1>1, ReceivesShape
<1>3. /\ Of("rmd", messages') = Of("rmd", messages) /\ Of("rmd", wire) \in Nat
      /\ Of("disconnected", messages) = Of("disconnected", messages') + 1
      /\ Of("disconnected", messages') \in Nat /\ Of("rmd", messages') \in Nat
    BY <1>2
<1>4. Of("rmd", <<>>) = 0 /\ <<>> \in Seq(Command) BY OfEmpty
<1>5. TypeOK' BY <1>1, <1>2, <1>4 DEF Shape, TypeOK, Receives, queueVars
<1>6. Of("disconnected", messages') = 0 BY <1>3 DEF Shape, ConnInv
<1>7. dirDeletions' = dirDeletions /\ dirDeletions \in Nat
    BY <1>1 DEF queueVars, Shape, TypeOK
<1>8. dirDeletions' >= 0 + Of("rmd", messages') BY <1>3, <1>7 DEF Shape, ConnInv
<1>9. ConnInv' BY <1>1, <1>3, <1>4, <1>6, <1>7, <1>8 DEF ConnInv
<1> QED BY <1>5, <1>9 DEF Shape

\* When nothing changes types and counts stay right.
LEMMA StutterShape == ASSUME Shape, UNCHANGED vars PROVE Shape'
<1> USE DEF vars, queueVars, ghostVars
<1>1. TypeOK' BY DEF Shape, TypeOK
<1>2. ConnInv' BY DEF Shape, ConnInv, Of
<1> QED BY <1>1, <1>2 DEF Shape

\* What holds always.
LEMMA NextShape == ASSUME Shape, [Next]_vars PROVE Shape'
<1>1. CASE \E r \in Roots : Ask(r) BY <1>1, AskShape
<1>2. CASE Background BY <1>2, CheckConnectionShape, StartDeletionShape DEF Background
<1>3. CASE Server
    BY <1>3, ListsDirectoryShape, RefusesEntryShape, DeletesItemShape, DisconnectsShape
       DEF Server
<1>4. CASE Delegate
    BY <1>4, DidReceiveContentsShape, DidNotChangeToDirectoryShape, DidDeleteFileShape,
       DidDeleteDirectoryShape, DidDisconnectShape DEF Delegate
<1>5. CASE UNCHANGED vars BY <1>5, StutterShape
<1> QED BY <1>1, <1>2, <1>3, <1>4, <1>5 DEF Next
-----------------------------------------------------------------------------
(* The tree *)

\* What is to be deleted is a directory, and not the one the connection begins in.
LEMMA RootIsDir == Roots \subseteq Dir \ {Home} /\ Dir \subseteq Item
BY TreeAssumption DEF Item

\* At first there is the directory to be deleted.
LEMMA TreeBegun ==
    ASSUME NEW r \in Roots, NEW F, NEW X, NEW R
    PROVE  TreeInv(r, <<r>>, {r}, F, X, R)
<1> DEFINE E == <<r>>
<1>1. E # <<>> /\ E[1] = r /\ Len(E) = 1 /\ Elements(E) = {r} BY DEF Elements
<1>2. r \in Path[r] BY RootIsDir, PathSelf
<1> HIDE DEF E
<1>3. Distinct(E) BY <1>1 DEF Distinct
<1>4. Collected(r, E, {r}) BY <1>1, <1>2, <1>3 DEF Collected
<1> QED BY <1>1, <1>4 DEF TreeInv, Awaited, Handled, E

\* A directory asked for is below the one being deleted.
LEMMA AwaitedIsBelow ==
    ASSUME NEW r \in Roots, NEW E \in Seq(Dir), NEW P \in SUBSET Dir,
           Collected(r, E, P), Awaited(r, E, P), NEW d \in P
    PROVE  /\ d # Home /\ r \in Path[d]
           /\ d \in Elements(E) <=> d = r
<1>1. r \in Elements(E) BY DEF Collected, Elements
<1>2. CASE d = r BY <1>1, <1>2, RootIsDir, PathSelf
<1>3. CASE d # r
    <2>1. d # Home /\ d \notin Elements(E) /\ Parent[d] \in Elements(E) BY <1>3 DEF Awaited
    <2>2. r \in Path[Parent[d]] BY <2>1 DEF Collected
    <2>3. d \in Item BY RootIsDir
    <2>4. r \in Path[d] BY <2>1, <2>2, <2>3, PathParent
    <2> QED BY <1>3, <2>1, <2>4
<1> QED BY <1>2, <1>3

\* The parent of a directory in the list, other than the first, has been handled; that
\* of the first is not below it.
LEMMA ParentIsHandled ==
    ASSUME NEW r \in Roots, NEW E \in Seq(Dir), NEW P, Collected(r, E, P),
           NEW d \in Item, d # Home, r \in Path[Parent[d]]
    PROVE  /\ d # r
           /\ d \in Elements(E) => Parent[d] \in Elements(E) \ P
<1>1. d # r BY TreeHasNoCycle
<1>2. ASSUME d \in Elements(E) PROVE Parent[d] \in Elements(E) \ P
    <2>1. PICK j \in 1..Len(E) : E[j] = d BY <1>2 DEF Elements
    <2>2. j \in 2..Len(E) BY <1>1, <2>1 DEF Collected
    <2>3. PICK i \in 1..(j - 1) : E[i] = Parent[d] /\ E[i] \notin P
        BY <2>1, <2>2 DEF Collected
    <2>4. i \in 1..Len(E) BY <2>2, <2>3
    <2> QED BY <2>3, <2>4 DEF Elements
<1> QED BY <1>1, <1>2

\* S is what a listing of d may say.
Lists(d, S, X) ==
    /\ d \in X /\ ChildrenIn(X, d) \subseteq S
    /\ \A x \in S : x # Home /\ Parent[x] = d

\* The list of directories once d is handled.
Extended(r, E, d) == IF d = r THEN E ELSE Append(E, d)

\* The contents S of d are handled.
LEMMA ContentsHandled ==
    ASSUME NEW r \in Roots, NEW E \in Seq(Dir), NEW P \in SUBSET Dir, NEW F,
           NEW X \in SUBSET Item, NEW R, TreeInv(r, E, P, F, X, R),
           NEW d \in P, NEW S \in SUBSET Item, Lists(d, S, X)
    PROVE  /\ TreeInv(r, Extended(r, E, d), (P \ {d}) \cup (S \cap Dir),
                       F \cup (S \cap File), X, R)
           /\ (S \cap Dir) \cap P = {}
           /\ Extended(r, E, d) \in Seq(Dir)
<1>0. /\ d \in X /\ ChildrenIn(X, d) \subseteq S
      /\ \A x \in S : x # Home /\ Parent[x] = d
    BY DEF Lists
<1> USE <1>0
<1> DEFINE E2 == Extended(r, E, d)
           N == S \cap Dir
           P2 == (P \ {d}) \cup N
           F2 == F \cup (S \cap File)
<1>1. Collected(r, E, P) /\ Awaited(r, E, P) /\ Handled(E, P, F, X, R) BY DEF TreeInv
<1>2. /\ d # Home /\ r \in Path[d] /\ d \in Item /\ d \in Dir
      /\ d \in Elements(E) <=> d = r
    BY <1>1, AwaitedIsBelow, RootIsDir
<1>3. d \notin S
    <2> SUFFICES ASSUME d \in S PROVE FALSE
        OBVIOUS
    <2>1. Parent[d] = d OBVIOUS
    <2> QED BY <1>2, <2>1, PathSelf, TreeHasNoCycle
<1>4. ASSUME NEW x \in N PROVE x # r /\ x \notin Elements(E) /\ x \notin P /\ x # Home
    <2>1. x \in Item /\ x # Home /\ Parent[x] = d OBVIOUS
    <2>2. x # r /\ (x \in Elements(E) => Parent[x] \notin P)
        BY <1>1, <1>2, <2>1, ParentIsHandled
    <2>3. x \notin P
        <3> SUFFICES ASSUME x \in P PROVE FALSE
            OBVIOUS
        <3>1. Parent[x] \notin P BY <1>1, <2>2 DEF Awaited
        <3> QED BY <2>1, <3>1
    <2> QED BY <2>1, <2>2, <2>3
<1>5. /\ E2 \in Seq(Dir) /\ Elements(E2) = Elements(E) \cup {d} /\ Distinct(E2)
      /\ Len(E2) >= Len(E) /\ Len(E2) \in Nat /\ Len(E) \in Nat
      /\ \A i \in 1..Len(E) : E2[i] = E[i]
      /\ \A j \in 1..Len(E2) : j \notin 1..Len(E) => d # r /\ j = Len(E) + 1 /\ E2[j] = d
    <2>1. Distinct(E) /\ r \in Elements(E) BY <1>1 DEF Collected, Elements
    <2>2. CASE d = r BY <2>1, <2>2 DEF Extended
    <2>3. CASE d # r
        <3>1. E2 = Append(E, d) BY <2>3 DEF Extended
        <3>2. /\ Elements(E2) = Elements(E) \cup {d}
              /\ Distinct(E2) <=> Distinct(E) /\ d \notin Elements(E)
            BY <1>2, <3>1, ElementsAppend
        <3>3. /\ E2 \in Seq(Dir) /\ Len(E2) = Len(E) + 1 /\ E2[Len(E) + 1] = d
              /\ \A i \in 1..Len(E) : E2[i] = E[i]
            BY <1>2, <3>1
        <3>4. Len(E) \in Nat OBVIOUS
        <3>5. \A j \in 1..(Len(E) + 1) : j \notin 1..Len(E) => j = Len(E) + 1 BY <3>4
        <3> QED BY <1>2, <2>1, <2>3, <3>2, <3>3, <3>4, <3>5
    <2> QED BY <2>2, <2>3
<1>6. Elements(E) \ P \subseteq Elements(E2) \ P2 BY <1>4, <1>5
<1>7. d \in Elements(E2) \ P2 BY <1>3, <1>5
<1> HIDE DEF N, E2
<1>8. Collected(r, E2, P2)
    <2>1. E2 # <<>> /\ E2[1] = r
        <3>1. E # <<>> /\ E[1] = r BY <1>1 DEF Collected
        <3>2. Len(E) >= 1 BY <3>1
        <3> QED BY <1>5, <3>1, <3>2
    <2>2. ASSUME NEW j \in 2..Len(E2)
          PROVE  E2[j] # Home /\ \E i \in 1..(j - 1) : E2[i] = Parent[E2[j]] /\ E2[i] \notin P2
        <3>1. CASE j \in 1..Len(E)
            <4>1. j \in 2..Len(E) /\ E2[j] = E[j] BY <1>5, <3>1
            <4>2. PICK i \in 1..(j - 1) : E[i] = Parent[E[j]] /\ E[i] \notin P
                BY <1>1, <4>1 DEF Collected
            <4>3. i \in 1..Len(E) BY <4>1, <4>2
            <4>4. E[i] \in Elements(E) \ P BY <4>2, <4>3 DEF Elements
            <4>5. E2[i] = E[i] /\ E[i] \notin P2 BY <1>5, <1>6, <4>3, <4>4
            <4> QED BY <1>1, <4>1, <4>2, <4>5 DEF Collected
        <3>2. CASE j \notin 1..Len(E)
            <4>1. d # r /\ j = Len(E) + 1 /\ E2[j] = d BY <1>5, <3>2
            <4>2. Parent[d] \in Elements(E) \ P BY <1>1, <4>1 DEF Awaited
            <4>3. PICK i \in 1..Len(E) : E[i] = Parent[d] BY <4>2 DEF Elements
            <4>4. Parent[d] \notin P2 BY <1>6, <4>2
            <4>5. E2[i] = Parent[E2[j]] /\ E2[i] \notin P2 /\ i \in 1..(j - 1)
                BY <1>5, <4>1, <4>3, <4>4
            <4> QED BY <1>2, <4>1, <4>5
        <3> QED BY <3>1, <3>2
    <2>3. \A e \in Elements(E2) : r \in Path[e] BY <1>1, <1>2, <1>5 DEF Collected
    <2> QED BY <1>5, <2>1, <2>2, <2>3 DEF Collected
<1>9. Awaited(r, E2, P2)
    <2> SUFFICES ASSUME NEW p \in P2, p # r
                 PROVE  p # Home /\ p \notin Elements(E2) /\ Parent[p] \in Elements(E2) \ P2
        BY DEF Awaited
    <2>1. CASE p \in P \ {d}
        <3>1. p # Home /\ p \notin Elements(E) /\ Parent[p] \in Elements(E) \ P
            BY <1>1, <2>1 DEF Awaited
        <3> QED BY <1>5, <1>6, <2>1, <3>1
    <2>2. CASE p \in N
        <3>1. p # Home /\ p \notin Elements(E) /\ p # d BY <1>3, <1>4, <2>2 DEF N
        <3>2. Parent[p] = d BY <2>2 DEF N
        <3> QED BY <1>5, <1>7, <3>1, <3>2
    <2> QED BY <2>1, <2>2
<1>10. Handled(E2, P2, F2, X, R)
    <2> SUFFICES ASSUME NEW e \in Elements(E2) \ P2
                 PROVE  e \in X /\ ChildrenIn(X, e) \subseteq Elements(E2) \cup P2 \cup F2 \cup R
        BY DEF Handled
    <2>1. CASE e = d
        <3>1. S \subseteq N \cup (S \cap File) BY DEF N, Item
        <3> QED BY <2>1, <3>1
    <2>2. CASE e # d
        <3>1. e \in Elements(E) \ P BY <1>5, <2>2
        <3>2. e \in X /\ ChildrenIn(X, e) \subseteq Elements(E) \cup P \cup F \cup R
            BY <1>1, <3>1 DEF Handled
        <3>3. P \subseteq P2 \cup {d} OBVIOUS
        <3> QED BY <1>5, <3>2, <3>3
    <2> QED BY <2>1, <2>2
<1>11. TreeInv(r, E2, P2, F2, X, R) BY <1>8, <1>9, <1>10 DEF TreeInv
<1> QED BY <1>4, <1>5, <1>11 DEF N, E2

\* A file is gone, or was refused.
LEMMA FileAnswered ==
    ASSUME NEW r, NEW E, NEW P, NEW F, NEW X, NEW R, TreeInv(r, E, P, F, X, R),
           NEW x, x \notin X \/ x \in R, NEW G, F \subseteq G \cup {x}
    PROVE  TreeInv(r, E, P, G, X, R)
<1>1. Collected(r, E, P) /\ Awaited(r, E, P) /\ Handled(E, P, F, X, R) BY DEF TreeInv
<1>2. Handled(E, P, G, X, R) BY <1>1 DEF Handled, ChildrenIn
<1> QED BY <1>1, <1>2 DEF TreeInv

\* The server deletes files, and refuses to.
LEMMA FilesGone ==
    ASSUME NEW r, NEW E \in Seq(Dir), NEW P, NEW F, NEW X, NEW R, TreeInv(r, E, P, F, X, R),
           NEW X2, X2 \subseteq X, X \cap Dir \subseteq X2, NEW R2, R \subseteq R2
    PROVE  TreeInv(r, E, P, F, X2, R2)
<1>1. Collected(r, E, P) /\ Awaited(r, E, P) /\ Handled(E, P, F, X, R) BY DEF TreeInv
<1>2. Elements(E) \subseteq Dir BY DEF Elements
<1>3. Handled(E, P, F, X2, R2) BY <1>1, <1>2 DEF Handled, ChildrenIn
<1> QED BY <1>1, <1>3 DEF TreeInv

\* What has been refused stays refused.
LEMMA RefusedMore ==
    ASSUME NEW R, NEW R2, R \subseteq R2, NEW x, RefusedIn(R, x) PROVE RefusedIn(R2, x)
BY DEF RefusedIn

\* When all has been handled, the directories are deleted children first.
LEMMA RemovalsOrdered ==
    ASSUME NEW r \in Roots, NEW E \in Seq(Dir), NEW X, NEW R \in SUBSET Item,
           Collected(r, E, {}), Handled(E, {}, {}, X, R),
           NEW W \in Seq(Command), \A i \in 1..Len(W) : W[i][1] # "rmd"
    PROVE  RemovalInv(W \o Removals(E), X, R)
<1> DEFINE n == Len(E)
           V == W \o Removals(E)
           w == Len(W)
<1>1. /\ Removals(E) \in Seq(Command) /\ Len(Removals(E)) = n
      /\ \A k \in 1..n : Removals(E)[k] = <<"rmd", E[n - k + 1]>>
    BY RemovalsType
<1>2. n \in Nat /\ w \in Nat OBVIOUS
<1>3. Len(V) = w + n /\ \A k \in 1..w : V[k] = W[k]
    <2>1. \A a, b \in Seq(Command) :
            Len(a \o b) = Len(a) + Len(b) /\ \A k \in 1..Len(a) : (a \o b)[k] = a[k]
        OBVIOUS
    <2>2. Len(V) = Len(W) + Len(Removals(E)) /\ \A k \in 1..Len(W) : V[k] = W[k]
        BY <1>1, <2>1, Zenon
    <2> QED BY <1>1, <2>2
<1>4. ASSUME NEW p \in 1..n PROVE w + n - p + 1 \in 1..Len(V) /\ V[w + n - p + 1] = <<"rmd", E[p]>>
    <2> DEFINE k == n - p + 1
    <2>1. k \in 1..n /\ n - k + 1 = p /\ w + n - p + 1 = w + k BY <1>2
    <2>2. V[w + k] = Removals(E)[k]
        <3> HIDE DEF k
        <3> QED BY <1>1, <1>2, <2>1
    <2>3. Removals(E)[k] = <<"rmd", E[p]>> BY <1>1, <2>1
    <2>4. w + k \in 1..(w + n) BY <1>2, <2>1
    <2> QED BY <1>3, <2>1, <2>2, <2>3, <2>4
<1>5. ASSUME NEW i \in 1..Len(V), V[i][1] = "rmd"
      PROVE  \E p \in 1..n : i = w + n - p + 1 /\ V[i][2] = E[p]
    <2>1. i > w BY <1>2, <1>3, <1>5
    <2> DEFINE p == w + n - i + 1
    <2>2. p \in 1..n /\ i = w + n - p + 1 BY <1>2, <1>3, <2>1
    <2> HIDE DEF p, V
    <2>3. V[i] = <<"rmd", E[p]>> BY <1>4, <2>2
    <2> QED BY <2>2, <2>3
<1> HIDE DEF V
<1>6. SUFFICES ASSUME NEW i \in 1..Len(V), V[i][1] = "rmd"
               PROVE  /\ V[i][2] \in X
                      /\ \A x \in ChildrenIn(X, V[i][2]) :
                            RefusedIn(R, x) \/ \E j \in 1..(i - 1) : V[j] = <<"rmd", x>>
                      /\ \A j \in 1..Len(V) : V[j][1] = "rmd" /\ V[j][2] = V[i][2] => i = j
    BY DEF RemovalInv, V
<1>7. PICK p \in 1..n : i = w + n - p + 1 /\ V[i][2] = E[p] BY <1>5, <1>6
<1>8. E[p] \in Elements(E) /\ E[p] \in Dir BY DEF Elements
<1>9. E[p] \in X /\ ChildrenIn(X, E[p]) \subseteq Elements(E) \cup R BY <1>8 DEF Handled
<1>10. ASSUME NEW x \in ChildrenIn(X, E[p])
       PROVE  RefusedIn(R, x) \/ \E j \in 1..(i - 1) : V[j] = <<"rmd", x>>
    <2>1. CASE x \in R BY <2>1, PathSelf DEF RefusedIn
    <2>2. CASE x \in Elements(E)
        <3>1. PICK q \in 1..n : E[q] = x BY <2>2 DEF Elements
        <3>2. x # Home /\ Parent[x] = E[p] /\ x \in Item
            BY <3>1, RootIsDir DEF ChildrenIn
        <3>3. r \in Path[E[p]] BY <1>8 DEF Collected
        <3>4. x # r BY <3>2, <3>3, TreeHasNoCycle
        <3>5. q \in 2..n BY <1>2, <3>1, <3>4 DEF Collected
        <3>6. PICK k \in 1..(q - 1) : E[k] = E[p] BY <3>1, <3>2, <3>5 DEF Collected
        <3>7. k \in 1..n BY <1>2, <3>5, <3>6
        <3>8. k = p BY <3>6, <3>7 DEF Collected, Distinct
        <3>9. V[w + n - q + 1] = <<"rmd", x>> BY <1>4, <3>1
        <3>10. w + n - q + 1 \in 1..(i - 1)
            <4>1. p < q /\ q <= n BY <3>5, <3>6, <3>8
            <4> QED BY <1>2, <1>7, <4>1
        <3> QED BY <3>9, <3>10
    <2> QED BY <1>9, <2>1, <2>2
<1>11. ASSUME NEW j \in 1..Len(V), V[j][1] = "rmd", V[j][2] = V[i][2] PROVE i = j
    <2>1. PICK q \in 1..n : j = w + n - q + 1 /\ V[j][2] = E[q] BY <1>5, <1>11
    <2>2. p = q BY <1>7, <1>11, <2>1 DEF Collected, Distinct
    <2> QED BY <1>7, <2>1, <2>2
<1> QED BY <1>7, <1>9, <1>10, <1>11
-----------------------------------------------------------------------------
(* What is under way *)

Sent == Command \cup Message

\* Commands and messages, one sequence of both.
LEMMA SentSeq ==
    /\ \A s \in Seq(Command) : s \in Seq(Sent)
    /\ \A s \in Seq(Message) : s \in Seq(Sent)
<1>1. Command \subseteq Sent /\ Message \subseteq Sent BY DEF Sent
<1> QED BY <1>1

\* A command is replaced by its answer.
LEMMA LineServed ==
    ASSUME NEW A, NEW M \in Seq(A), NEW W \in Seq(A), W # <<>>, NEW m \in A
    PROVE  LET L == M \o W
               L2 == (M \o <<m>>) \o Tail(W)
               p == Len(M) + 1
           IN  /\ L \in Seq(A) /\ L2 \in Seq(A) /\ Len(L2) = Len(L) /\ p \in 1..Len(L)
               /\ L[p] = Head(W) /\ L2[p] = m
               /\ \A i \in 1..Len(L) : i # p => L2[i] = L[i]
<1> DEFINE L == M \o W
           L2 == (M \o <<m>>) \o Tail(W)
           p == Len(M) + 1
<1>1. L \in Seq(A) /\ L2 \in Seq(A) OBVIOUS
<1>2. Len(L2) = Len(L) /\ p \in 1..Len(L) OBVIOUS
<1>3. L[p] = Head(W) /\ L2[p] = m OBVIOUS
<1>4. ASSUME NEW i \in 1..Len(L), i # p PROVE L2[i] = L[i]
    <2>1. CASE i <= Len(M)
        <3>1. L2[i] = M[i] /\ L[i] = M[i] BY <2>1
        <3> QED BY <3>1
    <2>2. CASE i > Len(M)
        <3>1. i > Len(M) + 1 /\ i <= Len(M) + Len(W) BY <1>4, <2>2
        <3>2. L[i] = W[i - Len(M)] BY <3>1
        <3>3. L2[i] = Tail(W)[i - (Len(M) + 1)] BY <3>1
        <3>4. Tail(W)[i - (Len(M) + 1)] = W[i - Len(M)] BY <3>1
        <3> QED BY <3>2, <3>3, <3>4
    <2> QED BY <2>1, <2>2
<1> QED BY <1>1, <1>2, <1>3, <1>4

\* The oldest message is taken.
LEMMA LineReceived ==
    ASSUME NEW A, NEW M \in Seq(A), NEW W \in Seq(A), M # <<>>
    PROVE  LET L == M \o W
               L2 == Tail(M) \o W
           IN  /\ L \in Seq(A) /\ L2 \in Seq(A) /\ Len(L) = Len(L2) + 1
               /\ L2 = Tail(L) /\ L # <<>>
               /\ L[1] = Head(M) /\ \A i \in 1..Len(L2) : L2[i] = L[i + 1]
<1> DEFINE L == M \o W
           L2 == Tail(M) \o W
<1>1. L \in Seq(A) /\ L2 \in Seq(A) /\ Len(L) = Len(L2) + 1 /\ L[1] = Head(M) OBVIOUS
<1>2. ASSUME NEW i \in 1..Len(L2) PROVE L2[i] = L[i + 1]
    <2>1. CASE i <= Len(Tail(M))
        <3>1. L2[i] = Tail(M)[i] /\ Tail(M)[i] = M[i + 1] /\ L[i + 1] = M[i + 1] BY <2>1
        <3> QED BY <3>1
    <2>2. CASE i > Len(Tail(M))
        <3>1. L2[i] = W[i - Len(Tail(M))] /\ L[i + 1] = W[i + 1 - Len(M)] BY <2>2
        <3>2. Len(Tail(M)) = Len(M) - 1 OBVIOUS
        <3> QED BY <3>1, <3>2
    <2> QED BY <2>1, <2>2
<1> HIDE DEF L, L2
<1>3. L2 = Tail(L) /\ L # <<>> BY <1>1, <1>2
<1> QED BY <1>1, <1>2, <1>3 DEF L, L2

\* A listing stays pending when it is answered.
LEMMA PendingServed ==
    ASSUME NEW L, NEW L2, Len(L2) = Len(L), Len(L) \in Nat, NEW p \in 1..Len(L),
           IsListing(L2[p]) <=> IsListing(L[p]),
           IsListing(L[p]) => L2[p][2] = L[p][2],
           \A i \in 1..Len(L) : i # p => L2[i] = L[i]
    PROVE  Pending(L2) = Pending(L) /\ (ListedOnce(L) => ListedOnce(L2))
<1>1. ASSUME NEW i \in 1..Len(L)
      PROVE  /\ IsListing(L2[i]) <=> IsListing(L[i])
             /\ IsListing(L[i]) => L2[i][2] = L[i][2]
    BY <1>1
<1>2. Pending(L2) = Pending(L) BY <1>1 DEF Pending
<1>3. ListedOnce(L) => ListedOnce(L2) BY <1>1 DEF ListedOnce
<1> QED BY <1>2, <1>3

\* It is handled when its contents are received.
LEMMA PendingReceived ==
    ASSUME NEW L, NEW L2, Len(L2) \in Nat, Len(L) = Len(L2) + 1,
           \A i \in 1..Len(L2) : L2[i] = L[i + 1]
    PROVE  /\ ListedOnce(L) => ListedOnce(L2)
           /\ ~IsListing(L[1]) => Pending(L2) = Pending(L)
           /\ IsListing(L[1]) /\ ListedOnce(L) => Pending(L2) = Pending(L) \ {L[1][2]}
           /\ IsListing(L[1]) /\ L[1][2] \in Dir => L[1][2] \in Pending(L)
<1>1. \A i \in 1..Len(L2) : i + 1 \in 1..Len(L) /\ i + 1 # 1 OBVIOUS
<1>2. \A i \in 1..Len(L) : i # 1 => i - 1 \in 1..Len(L2) /\ (i - 1) + 1 = i OBVIOUS
<1>3. 1 \in 1..Len(L) OBVIOUS
<1>4. ASSUME ListedOnce(L) PROVE ListedOnce(L2)
    <2> SUFFICES ASSUME NEW i \in 1..Len(L2), NEW j \in 1..Len(L2),
                        IsListing(L2[i]), IsListing(L2[j]), L2[i][2] = L2[j][2]
                 PROVE  i = j
        BY DEF ListedOnce
    <2>1. L2[i] = L[i + 1] /\ L2[j] = L[j + 1] OBVIOUS
    <2>2. i + 1 = j + 1 BY <1>1, <1>4, <2>1 DEF ListedOnce
    <2> QED BY <2>2
<1>5. Pending(L2) \subseteq Pending(L) BY <1>1 DEF Pending
<1>6. ASSUME NEW d \in Pending(L), d \notin Pending(L2)
      PROVE  IsListing(L[1]) /\ L[1][2] = d
    <2>1. PICK i \in 1..Len(L) : IsListing(L[i]) /\ L[i][2] = d BY DEF Pending
    <2>2. i = 1
        <3> SUFFICES ASSUME i # 1 PROVE FALSE
            OBVIOUS
        <3>1. i - 1 \in 1..Len(L2) /\ L2[i - 1] = L[i] BY <1>2
        <3> QED BY <1>6, <2>1, <3>1 DEF Pending
    <2> QED BY <2>1, <2>2
<1>7. ASSUME IsListing(L[1]), ListedOnce(L) PROVE L[1][2] \notin Pending(L2)
    <2> SUFFICES ASSUME NEW i \in 1..Len(L2), IsListing(L2[i]), L2[i][2] = L[1][2] PROVE FALSE
        BY DEF Pending
    <2>1. L2[i] = L[i + 1] OBVIOUS
    <2>2. i + 1 = 1 BY <1>1, <1>3, <1>7, <2>1 DEF ListedOnce
    <2> QED BY <2>2
<1>8. IsListing(L[1]) /\ L[1][2] \in Dir => L[1][2] \in Pending(L) BY <1>3 DEF Pending
<1>9. ~IsListing(L[1]) => Pending(L2) = Pending(L) BY <1>5, <1>6
<1>10. IsListing(L[1]) /\ ListedOnce(L) => Pending(L2) = Pending(L) \ {L[1][2]}
    BY <1>5, <1>6, <1>7
<1> QED BY <1>4, <1>8, <1>9, <1>10

\* Commands are sent after all the others.
LEMMA PendingSent ==
    ASSUME NEW A, NEW L \in Seq(A), NEW c \in Seq(A), NEW subs \in Seq(Dir),
           Len(c) >= Len(subs), Distinct(subs), Elements(subs) \cap Pending(L) = {},
           \A i \in 1..Len(subs) : c[i] = <<"list", subs[i]>>,
           \A i \in 1..Len(c) : i > Len(subs) => ~IsListing(c[i])
    PROVE  /\ Pending(L \o c) = Pending(L) \cup Elements(subs)
           /\ ListedOnce(L) => ListedOnce(L \o c)
<1> DEFINE L2 == L \o c
           n == Len(L)
<1>1. /\ Len(L2) = n + Len(c) /\ n \in Nat /\ Len(c) \in Nat /\ Len(subs) \in Nat
      /\ \A i \in 1..n : L2[i] = L[i] /\ i \in 1..Len(L2)
      /\ \A i \in 1..Len(c) : L2[n + i] = c[i] /\ n + i \in 1..Len(L2)
      /\ \A i \in 1..Len(L2) : i \notin 1..n => i - n \in 1..Len(c) /\ n + (i - n) = i
    OBVIOUS
<1>2. \A i \in 1..Len(subs) : /\ subs[i] \in Dir /\ i \in 1..Len(c)
                              /\ <<"list", subs[i]>>[1] = "list"
                              /\ <<"list", subs[i]>>[2] = subs[i]
    BY <1>1
<1> HIDE DEF L2, n
<1>3. ASSUME NEW i \in 1..Len(L2), i \notin 1..n, IsListing(L2[i])
      PROVE  \E k \in 1..Len(subs) : i = n + k /\ L2[i][2] = subs[k]
    <2> DEFINE k == i - n
    <2>1. k \in 1..Len(c) /\ i = n + k /\ L2[i] = c[k] BY <1>1, <1>3
    <2>2. k \in 1..Len(subs) BY <1>1, <1>3, <2>1
    <2>3. L2[i][2] = subs[k] BY <1>2, <2>1, <2>2
    <2> HIDE DEF k
    <2> QED BY <2>1, <2>2, <2>3
<1>4. ASSUME NEW k \in 1..Len(subs)
      PROVE  n + k \in 1..Len(L2) /\ IsListing(L2[n + k]) /\ L2[n + k][2] = subs[k]
    BY <1>1, <1>2 DEF IsListing
<1>5. Pending(L2) \subseteq Pending(L) \cup Elements(subs)
    <2> SUFFICES ASSUME NEW i \in 1..Len(L2), IsListing(L2[i]), L2[i][2] \in Dir
                 PROVE  L2[i][2] \in Pending(L) \cup Elements(subs)
        BY DEF Pending
    <2>1. CASE i \in 1..n BY <1>1, <2>1 DEF Pending, n
    <2>2. CASE i \notin 1..n BY <1>3, <2>2 DEF Elements
    <2> QED BY <2>1, <2>2
<1>6. Pending(L) \subseteq Pending(L2) BY <1>1 DEF Pending, n
<1>7. Elements(subs) \subseteq Pending(L2) BY <1>2, <1>4 DEF Pending, Elements
<1>8. ASSUME ListedOnce(L) PROVE ListedOnce(L2)
    <2> SUFFICES ASSUME NEW i \in 1..Len(L2), NEW j \in 1..Len(L2),
                        IsListing(L2[i]), IsListing(L2[j]), L2[i][2] = L2[j][2]
                 PROVE  i = j
        BY DEF ListedOnce
    <2>1. ASSUME NEW a \in 1..n, IsListing(L2[a]), NEW b \in 1..Len(L2), b \notin 1..n,
                 IsListing(L2[b]), L2[a][2] = L2[b][2]
          PROVE  FALSE
        <3>1. PICK k \in 1..Len(subs) : L2[b][2] = subs[k] BY <1>3, <2>1
        <3>2. L2[a] = L[a] BY <1>1
        <3>3. subs[k] \in Pending(L) BY <1>2, <2>1, <3>1, <3>2 DEF Pending, n
        <3> QED BY <3>3 DEF Elements
    <2>2. CASE i \in 1..n /\ j \in 1..n
        BY <1>1, <1>8, <2>2 DEF ListedOnce, n
    <2>3. CASE i \notin 1..n /\ j \notin 1..n
        <3>1. PICK k \in 1..Len(subs) : i = n + k /\ L2[i][2] = subs[k] BY <1>3, <2>3
        <3>2. PICK l \in 1..Len(subs) : j = n + l /\ L2[j][2] = subs[l] BY <1>3, <2>3
        <3> QED BY <3>1, <3>2 DEF Distinct
    <2> QED BY <2>1, <2>2, <2>3
<1> QED BY <1>5, <1>6, <1>7, <1>8 DEF L2

\* No listing is counted, and so none is pending.
LEMMA NothingPending ==
    ASSUME NEW M \in Seq(Message), NEW W \in Seq(Command),
           Of("list", W) = 0, Of("contents", M) = 0
    PROVE  Pending(M \o W) = {}
<1>1. \A i \in 1..Len(M) : M[i][1] # "contents" BY OfNone
<1>2. \A i \in 1..Len(W) : W[i][1] # "list" BY OfNone
<1>3. \A i \in 1..Len(M) : ~IsListing(M[i])
    <2> SUFFICES ASSUME NEW i \in 1..Len(M) PROVE ~IsListing(M[i])
        OBVIOUS
    <2>1. M[i] \in Message OBVIOUS
    <2> QED BY <1>1, <2>1, MessageShape DEF IsListing
<1>4. \A i \in 1..Len(W) : ~IsListing(W[i])
    <2> SUFFICES ASSUME NEW i \in 1..Len(W) PROVE ~IsListing(W[i])
        OBVIOUS
    <2>1. W[i] \in Command OBVIOUS
    <2> QED BY <1>2, <2>1, CommandShape DEF IsListing
<1>5. M \in Seq(Sent) /\ W \in Seq(Sent) BY SentSeq
<1>6. \A i \in 1..Len(M \o W) :
        \/ i \in 1..Len(M) /\ (M \o W)[i] = M[i]
        \/ i - Len(M) \in 1..Len(W) /\ (M \o W)[i] = W[i - Len(M)]
    <2>1. \A a, b \in Seq(Sent) : \A i \in 1..Len(a \o b) :
            \/ i \in 1..Len(a) /\ (a \o b)[i] = a[i]
            \/ i - Len(a) \in 1..Len(b) /\ (a \o b)[i] = b[i - Len(a)]
        OBVIOUS
    <2> QED BY <1>5, <2>1, Zenon
<1>7. \A i \in 1..Len(M \o W) : ~IsListing((M \o W)[i]) BY <1>3, <1>4, <1>6, Zenon
<1> QED BY <1>7, Zenon DEF Pending
-----------------------------------------------------------------------------
(* Removals and answers *)

\* A sequence without the first element.
LEMMA TailShape ==
    ASSUME NEW A, NEW s \in Seq(A), s # <<>>
    PROVE  /\ Tail(s) \in Seq(A) /\ Len(Tail(s)) \in Nat /\ Len(s) = Len(Tail(s)) + 1
           /\ Head(s) = s[1] /\ Head(s) \in A
           /\ \A i \in 1..Len(Tail(s)) : Tail(s)[i] = s[i + 1] /\ i + 1 \in 1..Len(s)
OBVIOUS

\* A sequence with one more at the end.
LEMMA AppendShape ==
    ASSUME NEW A, NEW s \in Seq(A), NEW m \in A
    PROVE  /\ s \o <<m>> \in Seq(A) /\ Len(s \o <<m>>) = Len(s) + 1 /\ Len(s) \in Nat
           /\ (s \o <<m>>)[Len(s) + 1] = m
           /\ \A i \in 1..Len(s) : (s \o <<m>>)[i] = s[i]
           /\ \A i \in 1..(Len(s) + 1) : i \in 1..Len(s) \/ i = Len(s) + 1
OBVIOUS

\* Something else is answered, and only files may be gone after it.
LEMMA RemovalTail ==
    ASSUME NEW W \in Seq(Command), W # <<>>, Head(W)[1] # "rmd",
           NEW X, NEW R, RemovalInv(W, X, R),
           NEW X2, X2 \subseteq X, X \cap Dir \subseteq X2, NEW R2, R \subseteq R2
    PROVE  RemovalInv(Tail(W), X2, R2)
<1> DEFINE V == Tail(W)
<1>1. /\ V \in Seq(Command) /\ Len(V) \in Nat /\ Len(W) = Len(V) + 1
      /\ Head(W) = W[1] /\ \A i \in 1..Len(V) : V[i] = W[i + 1] /\ i + 1 \in 1..Len(W)
    BY TailShape
<1> HIDE DEF V
<1>2. SUFFICES ASSUME NEW i \in 1..Len(V), V[i][1] = "rmd"
               PROVE  /\ V[i][2] \in X2
                      /\ \A x \in ChildrenIn(X2, V[i][2]) :
                            RefusedIn(R2, x) \/ \E j \in 1..(i - 1) : V[j] = <<"rmd", x>>
                      /\ \A j \in 1..Len(V) : V[j][1] = "rmd" /\ V[j][2] = V[i][2] => i = j
    BY DEF RemovalInv, V
<1>3. V[i] = W[i + 1] /\ i + 1 \in 1..Len(W) BY <1>1
<1>4. /\ W[i + 1][2] \in X
      /\ \A x \in ChildrenIn(X, W[i + 1][2]) :
            RefusedIn(R, x) \/ \E j \in 1..((i + 1) - 1) : W[j] = <<"rmd", x>>
      /\ \A j \in 1..Len(W) : W[j][1] = "rmd" /\ W[j][2] = W[i + 1][2] => i + 1 = j
    BY <1>2, <1>3 DEF RemovalInv
<1>5. V[i] \in Command /\ V[i][2] \in Dir
    <2>1. V[i] \in Command BY <1>1
    <2> QED BY <1>2, <2>1, CommandShape
<1>6. V[i][2] \in X2 BY <1>3, <1>4, <1>5
<1>7. ASSUME NEW x \in ChildrenIn(X2, V[i][2])
      PROVE  RefusedIn(R2, x) \/ \E j \in 1..(i - 1) : V[j] = <<"rmd", x>>
    <2>1. x \in ChildrenIn(X, W[i + 1][2]) BY <1>3 DEF ChildrenIn
    <2>2. CASE RefusedIn(R, x) BY <2>2, RefusedMore
    <2>3. CASE ~RefusedIn(R, x)
        <3>1. (i + 1) - 1 = i OBVIOUS
        <3>2. PICK j \in 1..i : W[j] = <<"rmd", x>> BY <1>4, <2>1, <2>3, <3>1
        <3>3. W[j][1] = "rmd" BY <3>2
        <3>4. j # 1 BY <1>1, <3>3
        <3>5. j - 1 \in 1..(i - 1) /\ j - 1 \in 1..Len(V) /\ (j - 1) + 1 = j BY <1>1, <3>4
        <3>6. V[j - 1] = <<"rmd", x>> BY <1>1, <3>2, <3>5
        <3> QED BY <3>5, <3>6
    <2> QED BY <2>2, <2>3
<1>8. ASSUME NEW j \in 1..Len(V), V[j][1] = "rmd", V[j][2] = V[i][2] PROVE i = j
    <2>1. V[j] = W[j + 1] /\ j + 1 \in 1..Len(W) BY <1>1
    <2>2. i + 1 = j + 1 BY <1>3, <1>4, <1>8, <2>1
    <2> QED BY <2>2
<1> QED BY <1>6, <1>7, <1>8

\* A directory is deleted, or refused; or it is refused because something in it was.
LEMMA RemovalAnswered ==
    ASSUME NEW W \in Seq(Command), W # <<>>, NEW d \in Dir, Head(W) = <<"rmd", d>>,
           NEW X \in SUBSET Item, NEW R \in SUBSET Item, RemovalInv(W, X, R),
           NEW ok \in BOOLEAN, ok => ChildrenIn(X, d) = {},
           NEW X2, X2 = IF ok THEN X \ {d} ELSE X,
           NEW R2, R2 = IF ~ok /\ d \in X /\ ChildrenIn(X, d) = {} THEN R \cup {d} ELSE R
    PROVE  RemovalInv(Tail(W), X2, R2) /\ (~ok => RefusedIn(R2, d))
<1> DEFINE V == Tail(W)
<1>1. /\ V \in Seq(Command) /\ Len(V) \in Nat /\ Len(W) = Len(V) + 1
      /\ Head(W) = W[1] /\ \A i \in 1..Len(V) : V[i] = W[i + 1] /\ i + 1 \in 1..Len(W)
    BY TailShape
<1>2. W[1][1] = "rmd" /\ W[1][2] = d /\ 1 \in 1..Len(W) BY <1>1
<1>3. /\ d \in X
      /\ \A x \in ChildrenIn(X, d) : RefusedIn(R, x)
      /\ \A j \in 1..Len(W) : W[j][1] = "rmd" /\ W[j][2] = d => j = 1
    <2>1. /\ W[1][2] \in X
          /\ \A x \in ChildrenIn(X, W[1][2]) :
                RefusedIn(R, x) \/ \E j \in 1..(1 - 1) : W[j] = <<"rmd", x>>
          /\ \A j \in 1..Len(W) : W[j][1] = "rmd" /\ W[j][2] = W[1][2] => 1 = j
        BY <1>2 DEF RemovalInv
    <2>2. 1..(1 - 1) = {} OBVIOUS
    <2> QED BY <1>2, <2>1, <2>2
<1>4. R \subseteq R2 /\ X2 \subseteq X OBVIOUS
<1>5. ~ok => RefusedIn(R2, d)
    <2> SUFFICES ASSUME ~ok PROVE RefusedIn(R2, d)
        OBVIOUS
    <2>1. d \in Item BY RootIsDir
    <2>2. CASE ChildrenIn(X, d) = {}
        <3>1. d \in R2 BY <1>3, <2>2
        <3> QED BY <2>1, <3>1, PathSelf DEF RefusedIn
    <2>3. CASE ChildrenIn(X, d) # {}
        <3>1. PICK x \in ChildrenIn(X, d) : RefusedIn(R, x) BY <1>3, <2>3
        <3>2. x \in Item /\ x # Home /\ Parent[x] = d BY DEF ChildrenIn
        <3>3. PICK y \in R : x \in Path[y] BY <3>1 DEF RefusedIn
        <3>4. d \in Path[x] BY <2>1, <3>2, PathParent, PathSelf
        <3>5. d \in Path[y] BY <3>3, <3>4, PathWithin
        <3> QED BY <1>4, <3>5 DEF RefusedIn
    <2> QED BY <2>2, <2>3
<1> HIDE DEF V
<1>6. ASSUME NEW i \in 1..Len(V), V[i][1] = "rmd"
      PROVE  /\ V[i][2] \in X2
             /\ \A x \in ChildrenIn(X2, V[i][2]) :
                   RefusedIn(R2, x) \/ \E j \in 1..(i - 1) : V[j] = <<"rmd", x>>
             /\ \A j \in 1..Len(V) : V[j][1] = "rmd" /\ V[j][2] = V[i][2] => i = j
    <2>1. V[i] = W[i + 1] /\ i + 1 \in 1..Len(W) /\ i + 1 # 1 BY <1>1
    <2>2. /\ W[i + 1][2] \in X
          /\ \A x \in ChildrenIn(X, W[i + 1][2]) :
                RefusedIn(R, x) \/ \E j \in 1..((i + 1) - 1) : W[j] = <<"rmd", x>>
          /\ \A j \in 1..Len(W) : W[j][1] = "rmd" /\ W[j][2] = W[i + 1][2] => i + 1 = j
        BY <1>6, <2>1 DEF RemovalInv
    <2>3. V[i][2] # d BY <1>3, <1>6, <2>1
    <2>4. V[i][2] \in X2 BY <2>1, <2>2, <2>3
    <2>5. ASSUME NEW x \in ChildrenIn(X2, V[i][2])
          PROVE  RefusedIn(R2, x) \/ \E j \in 1..(i - 1) : V[j] = <<"rmd", x>>
        <3>1. x \in ChildrenIn(X, W[i + 1][2]) /\ x \in X2 BY <2>1 DEF ChildrenIn
        <3>2. CASE RefusedIn(R, x) BY <1>4, <3>2, RefusedMore
        <3>3. CASE ~RefusedIn(R, x)
            <4>1. (i + 1) - 1 = i OBVIOUS
            <4>2. PICK j \in 1..i : W[j] = <<"rmd", x>> BY <2>2, <3>1, <3>3, <4>1
            <4>3. CASE j = 1
                <5>1. x = d BY <1>2, <4>2, <4>3
                <5>2. ~ok BY <3>1, <5>1
                <5> QED BY <1>5, <5>1, <5>2
            <4>4. CASE j # 1
                <5>1. j - 1 \in 1..(i - 1) /\ j - 1 \in 1..Len(V) /\ (j - 1) + 1 = j
                    BY <1>1, <4>4
                <5>2. V[j - 1] = <<"rmd", x>> BY <1>1, <4>2, <5>1
                <5> QED BY <5>1, <5>2
            <4> QED BY <4>3, <4>4
        <3> QED BY <3>2, <3>3
    <2>6. ASSUME NEW j \in 1..Len(V), V[j][1] = "rmd", V[j][2] = V[i][2] PROVE i = j
        <3>1. V[j] = W[j + 1] /\ j + 1 \in 1..Len(W) BY <1>1
        <3>2. i + 1 = j + 1 BY <2>1, <2>2, <2>6, <3>1
        <3> QED BY <3>2
    <2> QED BY <2>4, <2>5, <2>6
<1>7. RemovalInv(V, X2, R2) BY <1>6 DEF RemovalInv
<1> QED BY <1>5, <1>7 DEF V

\* Other commands are sent.
LEMMA RemovalExtended ==
    ASSUME NEW W \in Seq(Command), NEW X, NEW R, RemovalInv(W, X, R),
           NEW c \in Seq(Command), \A i \in 1..Len(c) : c[i][1] # "rmd"
    PROVE  RemovalInv(W \o c, X, R)
<1> DEFINE V == W \o c
<1>1. /\ \A i \in 1..Len(W) : V[i] = W[i] /\ i \in 1..Len(V)
      /\ \A i \in 1..Len(V) : i \notin 1..Len(W) => i - Len(W) \in 1..Len(c) /\ V[i] = c[i - Len(W)]
      /\ Len(W) \in Nat
    OBVIOUS
<1> HIDE DEF V
<1>2. ASSUME NEW i \in 1..Len(V), V[i][1] = "rmd" PROVE i \in 1..Len(W)
    <2>1. SUFFICES ASSUME i \notin 1..Len(W) PROVE FALSE OBVIOUS
    <2>2. i - Len(W) \in 1..Len(c) /\ V[i] = c[i - Len(W)] BY <1>1, <2>1
    <2>3. c[i - Len(W)][1] # "rmd" BY <2>2
    <2> QED BY <1>2, <2>2, <2>3
<1>3. SUFFICES ASSUME NEW i \in 1..Len(V), V[i][1] = "rmd"
               PROVE  /\ V[i][2] \in X
                      /\ \A x \in ChildrenIn(X, V[i][2]) :
                            RefusedIn(R, x) \/ \E j \in 1..(i - 1) : V[j] = <<"rmd", x>>
                      /\ \A j \in 1..Len(V) : V[j][1] = "rmd" /\ V[j][2] = V[i][2] => i = j
    BY DEF RemovalInv, V
<1>4. i \in 1..Len(W) /\ V[i] = W[i] BY <1>1, <1>2, <1>3
<1>5. /\ W[i][2] \in X
      /\ \A x \in ChildrenIn(X, W[i][2]) :
            RefusedIn(R, x) \/ \E j \in 1..(i - 1) : W[j] = <<"rmd", x>>
      /\ \A j \in 1..Len(W) : W[j][1] = "rmd" /\ W[j][2] = W[i][2] => i = j
    BY <1>3, <1>4 DEF RemovalInv
<1>6. \A j \in 1..(i - 1) : j \in 1..Len(W) /\ V[j] = W[j] BY <1>1, <1>4
<1>7. ASSUME NEW j \in 1..Len(V), V[j][1] = "rmd", V[j][2] = V[i][2] PROVE i = j
    <2>1. j \in 1..Len(W) /\ V[j] = W[j] BY <1>1, <1>2, <1>7
    <2> QED BY <1>4, <1>5, <1>7, <2>1
<1>8. ASSUME NEW x \in ChildrenIn(X, V[i][2])
      PROVE  RefusedIn(R, x) \/ \E j \in 1..(i - 1) : V[j] = <<"rmd", x>>
    BY <1>4, <1>5, <1>6
<1> QED BY <1>4, <1>5, <1>7, <1>8

\* Of no removals there is nothing to say.
LEMMA RemovalNone ==
    ASSUME NEW W, NEW X, NEW R, \A i \in 1..Len(W) : W[i][1] # "rmd"
    PROVE  RemovalInv(W, X, R)
BY DEF RemovalInv

\* What was true of the answers stays true, and is of one more.
LEMMA AnswersTail ==
    ASSUME NEW M \in Seq(Message), M # <<>>, NEW X, NEW R, AnswersInv(M, X, R)
    PROVE  AnswersInv(Tail(M), X, R)
<1>1. \A i \in 1..Len(Tail(M)) : Tail(M)[i] = M[i + 1] /\ i + 1 \in 1..Len(M) BY TailShape
<1> QED BY <1>1 DEF AnswersInv

\* One answer more, to what has been deleted or refused.
LEMMA AnswersExtended ==
    ASSUME NEW M \in Seq(Message), NEW X, NEW R, AnswersInv(M, X, R),
           NEW X2, X2 \subseteq X, NEW R2, R \subseteq R2, NEW m \in Message,
           m[1] # "noEntry", m[1] = "rmd" /\ ~m[3] => RefusedIn(R2, m[2]),
           m[1] = "dele" => m[2] \notin X2 \/ m[2] \in R2
    PROVE  AnswersInv(M \o <<m>>, X2, R2)
<1>1. /\ Len(M \o <<m>>) = Len(M) + 1 /\ (M \o <<m>>)[Len(M) + 1] = m
      /\ \A i \in 1..Len(M) : (M \o <<m>>)[i] = M[i]
      /\ \A i \in 1..(Len(M) + 1) : i \in 1..Len(M) \/ i = Len(M) + 1
    BY AppendShape
<1>2. ASSUME NEW i \in 1..Len(M)
      PROVE  /\ M[i][1] # "noEntry"
             /\ M[i][1] = "rmd" /\ ~M[i][3] => RefusedIn(R2, M[i][2])
             /\ M[i][1] = "dele" => M[i][2] \notin X2 \/ M[i][2] \in R2
    <2>1. /\ M[i][1] # "noEntry"
          /\ M[i][1] = "rmd" /\ ~M[i][3] => RefusedIn(R, M[i][2])
          /\ M[i][1] = "dele" => M[i][2] \notin X \/ M[i][2] \in R
        BY DEF AnswersInv
    <2> QED BY <2>1, RefusedMore
<1> QED BY <1>1, <1>2 DEF AnswersInv

\* One listing less to be handled.
LEMMA ContentsTail ==
    ASSUME NEW M \in Seq(Message), M # <<>>, NEW X, ContentsInv(M, X)
    PROVE  ContentsInv(Tail(M), X)
<1>1. \A i \in 1..Len(Tail(M)) : Tail(M)[i] = M[i + 1] /\ i + 1 \in 1..Len(M) BY TailShape
<1> QED BY <1>1 DEF ContentsInv

\* One listing more to be handled, of what is there.
LEMMA ContentsExtended ==
    ASSUME NEW M \in Seq(Message), NEW X, ContentsInv(M, X),
           NEW X2, X2 \subseteq X,
           \A i \in 1..Len(M) : M[i][1] = "contents" /\ M[i][2] \in X => M[i][2] \in X2,
           NEW m \in Message,
           m[1] = "contents" => /\ m[2] \in X2 /\ ChildrenIn(X2, m[2]) \subseteq m[3]
                                /\ \A x \in m[3] : x # Home /\ Parent[x] = m[2]
    PROVE  ContentsInv(M \o <<m>>, X2)
<1>1. /\ Len(M \o <<m>>) = Len(M) + 1 /\ (M \o <<m>>)[Len(M) + 1] = m
      /\ \A i \in 1..Len(M) : (M \o <<m>>)[i] = M[i]
      /\ \A i \in 1..(Len(M) + 1) : i \in 1..Len(M) \/ i = Len(M) + 1
    BY AppendShape
<1>2. ASSUME NEW i \in 1..Len(M), M[i][1] = "contents"
      PROVE  /\ M[i][2] \in X2 /\ ChildrenIn(X2, M[i][2]) \subseteq M[i][3]
             /\ \A x \in M[i][3] : x # Home /\ Parent[x] = M[i][2]
    <2>1. /\ M[i][2] \in X /\ ChildrenIn(X, M[i][2]) \subseteq M[i][3]
          /\ \A x \in M[i][3] : x # Home /\ Parent[x] = M[i][2]
        BY <1>2 DEF ContentsInv
    <2>2. M[i][2] \in X2 BY <1>2, <2>1
    <2> QED BY <2>1, <2>2 DEF ChildrenIn
<1> QED BY <1>1, <1>2 DEF ContentsInv

\* A failure that was told stays justified.
LEMMA ToldMore ==
    ASSUME NEW T, NEW R, ToldInv(T, R), NEW R2, R \subseteq R2
    PROVE  ToldInv(T, R2)
BY RefusedMore DEF ToldInv
-----------------------------------------------------------------------------
(* The order of things, action by action *)

\* The types of what the order is about.
LEMMA ShapeFacts ==
    ASSUME Shape
    PROVE  /\ wire \in Seq(Command) /\ messages \in Seq(Message)
           /\ deletions \in Seq(Roots) /\ emptyDirs \in Seq(Dir) /\ files \in Seq(File)
           /\ listings \in Int /\ dirDeletions \in Nat
           /\ exists \in SUBSET Item /\ refused \in SUBSET Item
           /\ isDeleting \in BOOLEAN /\ lost \in BOOLEAN
           /\ conn \in {"none", "open", "closed"}
           /\ \A k : Of(k, wire) \in Nat /\ Of(k, messages) \in Nat
<1>1. wire \in Seq(Command) /\ messages \in Seq(Message) BY DEF Shape, TypeOK
<1>2. \A k : Of(k, wire) \in Nat /\ Of(k, messages) \in Nat BY <1>1, OfType
<1> QED BY <1>1, <1>2, TreeAssumption DEF Shape, TypeOK

\* A deletion asked for changes nothing of the one under way.
LEMMA AskOrder == ASSUME Shape, OrderInv, NEW r \in Roots, Ask(r) PROVE OrderInv'
<1>1. /\ UNCHANGED <<conn, isDeleting, listings, dirDeletions, files, emptyDirs, wire, exists,
                     messages, told, refused, lost>>
      /\ deletions' = Append(deletions, r)
    BY DEF Ask
<1>2. deletions # <<>> => deletions' # <<>> /\ Root' = Root BY <1>1, ShapeFacts DEF Root
<1>3. Line' = Line BY <1>1 DEF Line
<1>4. Of("list", wire') = Of("list", wire) /\ Of("contents", messages') = Of("contents", messages)
      /\ Of("rmd", wire') = Of("rmd", wire) /\ Of("rmd", messages') = Of("rmd", messages)
    BY <1>1
<1>5. PhaseInv' BY <1>1, <1>2, <1>3, <1>4
      DEF OrderInv, PhaseInv, LostInv, Balance, IdleInv, BusyInv
<1>6. TreeKnown' BY <1>1, <1>2, <1>3 DEF OrderInv, TreeKnown, PhaseInv, BusyInv
<1> QED BY <1>1, <1>5, <1>6 DEF OrderInv

\* Nor does the opening of the second connection.
LEMMA CheckConnectionOrder == ASSUME Shape, OrderInv, CheckConnection PROVE OrderInv'
<1>1. /\ UNCHANGED <<deletions, isDeleting, listings, dirDeletions, files, emptyDirs, exists,
                     messages, told, refused, lost>>
      /\ conn # "none" => conn' = conn
    BY DEF CheckConnection, queueVars, ghostVars
<1>2. wire' = wire BY DEF CheckConnection, Shape, ConnInv
<1>3. conn = "none" => wire = <<>> BY DEF Shape, ConnInv
<1>4. Root' = Root /\ Line' = Line BY <1>1, <1>2 DEF Root, Line
<1>5. PhaseInv' BY <1>1, <1>2, <1>3, <1>4
      DEF OrderInv, PhaseInv, LostInv, Balance, IdleInv, BusyInv, Of
<1>6. TreeKnown' BY <1>1, <1>4 DEF OrderInv, TreeKnown
<1> QED BY <1>1, <1>2, <1>5, <1>6 DEF OrderInv

\* Nothing is under way, and the first directory is listed.
LEMMA BegunOrder ==
    ASSUME Shape', wire' = << <<"list", Root'>> >>, messages' = <<>>, conn' = "open",
           isDeleting', ~lost', deletions' # <<>>, emptyDirs' = <<Root'>>,
           listings' = 1, dirDeletions' = 0
    PROVE  /\ PhaseInv' /\ TreeKnown'
           /\ RemovalInv(wire', exists', refused')
<1> DEFINE r == Root'
           L == << <<"list", r>> >>
<1>1. r \in Roots /\ r \in Dir
    <2>1. deletions' \in Seq(Roots) BY DEF Shape, TypeOK
    <2>2. Head(deletions') \in Roots BY <2>1
    <2> QED BY <2>2, RootIsDir DEF Root
<1>2. <<"list", r>>[1] = "list" /\ <<"list", r>>[2] = r OBVIOUS
<1>3. /\ Of("list", L) = 1 /\ Of("rmd", L) = 0
      /\ Of("contents", <<>>) = 0 /\ Of("rmd", <<>>) = 0
    BY <1>2, OfOne, OfEmpty
<1>4. Balance' BY <1>3 DEF Balance
<1>5. BusyInv'
    <2>1. ASSUME NEW i \in 1..Len(wire') PROVE wire'[i] # <<"quit">>
        <3>1. wire'[i] = <<"list", r>> OBVIOUS
        <3>2. <<"quit">>[1] = "quit" OBVIOUS
        <3> QED BY <1>2, <3>1, <3>2
    <2> QED BY <2>1 DEF BusyInv
<1>6. PhaseInv' BY <1>4, <1>5 DEF PhaseInv
<1>7. Len(L) = 1 /\ L[1] = <<"list", r>> OBVIOUS
<1>8. Line' = L
    <2>1. <<>> \o L = L OBVIOUS
    <2> QED BY <2>1 DEF Line
<1> HIDE DEF L
<1>9. \A i \in 1..Len(L) : i = 1 BY <1>7
<1>10. ListedOnce(L) BY <1>9 DEF ListedOnce
<1>11. IsListing(L[1]) /\ L[1][2] = r /\ 1 \in 1..Len(L) BY <1>2, <1>7 DEF IsListing
<1>12. Pending(L) = {r} BY <1>1, <1>9, <1>11 DEF Pending
<1>13. TreeInv(r, <<r>>, {r}, Elements(files'), exists', refused') BY <1>1, TreeBegun
<1>14. TreeKnown' BY <1>8, <1>10, <1>12, <1>13 DEF TreeKnown
<1>15. \A i \in 1..Len(L) : L[i][1] # "rmd" BY <1>2, <1>7, <1>9
<1>16. RemovalInv(L, exists', refused') BY <1>15, RemovalNone
<1> QED BY <1>6, <1>14, <1>16 DEF L

\* A queue that all hold something of one kind, or none does, is empty.
LEMMA NoneLeft ==
    ASSUME NEW A, NEW s \in Seq(A), NEW k, Of(k, s) = 0, \A i \in 1..Len(s) : s[i][1] = k
    PROVE  s = <<>>
<1>1. \A i \in 1..Len(s) : s[i][1] # k BY OfNone
<1> SUFFICES ASSUME s # <<>> PROVE FALSE
    OBVIOUS
<1>2. 1 \in 1..Len(s) OBVIOUS
<1> QED BY <1>1, <1>2

\* A deletion begins on an open connection, or is lost.
LEMMA StartDeletionOrder ==
    ASSUME Shape, Shape', OrderInv, StartDeletion PROVE OrderInv'
<1>1. UNCHANGED <<conn, deletions, dirDeletions, files, exists, messages, told, refused>>
    BY DEF StartDeletion
<1>2. CASE UNCHANGED <<isDeleting, emptyDirs, listings, wire, lost>>
    <2>1. Root' = Root /\ Line' = Line BY <1>1, <1>2 DEF Root, Line
    <2>2. PhaseInv' BY <1>1, <1>2, <2>1
          DEF OrderInv, PhaseInv, LostInv, Balance, IdleInv, BusyInv, Of
    <2>3. TreeKnown' BY <1>1, <1>2, <2>1 DEF OrderInv, TreeKnown
    <2> QED BY <1>1, <1>2, <2>2, <2>3 DEF OrderInv
<1>3. CASE /\ ~isDeleting /\ deletions # <<>>
           /\ isDeleting' = TRUE /\ ListFirst(deletions)
           /\ lost' = (lost \/ conn # "open" \/ <<"quit">> \in ToSet(wire))
    <2> DEFINE r == Head(deletions)
               c == << <<"list", r>> >>
    <2>1. ~lost /\ IdleInv BY <1>3 DEF OrderInv, PhaseInv, LostInv
    <2>2. wire \in Seq(Command) /\ messages \in Seq(Message) /\ deletions \in Seq(Roots)
        BY ShapeFacts
    <2>3. /\ emptyDirs' = Append(emptyDirs, r) /\ listings' = listings + 1
          /\ <<"list", r>> \in Command
          /\ conn = "none" => wire' = wire
          /\ conn # "none" => wire' = wire \o c
        BY <1>3, <2>2, ListFirstShape
    <2>4. emptyDirs' = <<r>> /\ listings' = 1 /\ dirDeletions' = 0
        BY <1>1, <2>1, <2>3 DEF IdleInv
    <2>5. Root' = r BY <1>1 DEF Root
    <2>6. <<"list", r>>[1] = "list" OBVIOUS
    <2>7. wire # <<>> => Head(wire) = <<"quit">> /\ wire[1] = <<"quit">> /\ <<"quit">> \in ToSet(wire)
        <3> SUFFICES ASSUME wire # <<>>
                     PROVE  Head(wire) = <<"quit">> /\ wire[1] = <<"quit">> /\ <<"quit">> \in ToSet(wire)
            OBVIOUS
        <3>1. 1 \in 1..Len(wire) /\ Head(wire) = wire[1] /\ 1 \in DOMAIN wire BY <2>2
        <3>2. wire[1] = <<"quit">> BY <2>1, <3>1 DEF IdleInv
        <3>3. wire[1] \in ToSet(wire) BY <3>1 DEF ToSet
        <3> QED BY <3>1, <3>2, <3>3, Zenon
    <2>8. CASE lost'
        <3>1. \/ wire' = <<>>
              \/ Head(wire') = <<"quit">>
              \/ conn' = "closed" /\ Head(wire')[1] = "list"
            <4>1. CASE conn = "none"
                <5>1. wire = <<>> BY <4>1 DEF Shape, ConnInv
                <5>2. wire' = wire BY <2>3, <4>1
                <5>3. wire' = <<>> BY <5>1, <5>2
                <5> QED BY <5>3
            <4>2. CASE conn # "none" /\ wire = <<>>
                <5>1. conn = "closed"
                    <6>1. <<"quit">> \notin ToSet(wire) BY <4>2 DEF ToSet
                    <6> QED BY <1>3, <2>1, <2>8, <4>2, <6>1, ShapeFacts
                <5>2. wire' = c
                    <6>1. <<>> \o c = c OBVIOUS
                    <6> QED BY <2>3, <4>2, <6>1
                <5>3. Head(c) = <<"list", r>> OBVIOUS
                <5> QED BY <1>1, <2>6, <5>1, <5>2, <5>3
            <4>3. CASE conn # "none" /\ wire # <<>>
                <5>1. c \in Seq(Command) BY <2>3
                <5>2. Head(wire \o c) = Head(wire)
                    <6> HIDE DEF c
                    <6> QED BY <2>2, <4>3, <5>1
                <5>3. wire' = wire \o c BY <2>3, <4>3
                <5>4. Head(wire) = <<"quit">> BY <2>7, <4>3
                <5> HIDE DEF c
                <5>5. Head(wire') = <<"quit">> BY <5>2, <5>3, <5>4
                <5> QED BY <5>5
            <4> QED BY <4>1, <4>2, <4>3
        <3>2. LostInv' BY <1>1, <1>3, <2>1, <2>4, <3>1 DEF LostInv, IdleInv
        <3>3. PhaseInv' BY <2>8, <3>2 DEF PhaseInv
        <3>4. RemovalInv(wire', exists, refused)
            <4>1. CASE conn = "none" BY <2>3, <4>1 DEF OrderInv
            <4>2. CASE conn # "none"
                <5>1. c \in Seq(Command) BY <2>3
                <5>2. \A i \in 1..Len(c) : c[i][1] # "rmd" BY <2>6
                <5>3. RemovalInv(wire, exists, refused) BY DEF OrderInv
                <5> HIDE DEF c
                <5>4. RemovalInv(wire \o c, exists, refused)
                    BY <2>2, <5>1, <5>2, <5>3, RemovalExtended
                <5> QED BY <2>3, <4>2, <5>4
            <4> QED BY <4>1, <4>2
        <3> QED BY <1>1, <2>8, <3>3, <3>4 DEF OrderInv, TreeKnown
    <2>9. CASE ~lost'
        <3>1. conn = "open" /\ <<"quit">> \notin ToSet(wire) BY <1>3, <2>9
        <3>2. wire = <<>> BY <2>7, <3>1
        <3>3. messages = <<>>
            <4>1. Of("disconnected", messages) = 0 BY <3>1 DEF Shape, ConnInv
            <4> QED BY <2>1, <2>2, <4>1, NoneLeft DEF IdleInv
        <3>4. wire' = c
            <4>1. <<>> \o c = c OBVIOUS
            <4> QED BY <2>3, <3>1, <3>2, <4>1
        <3>5. PhaseInv' /\ TreeKnown' /\ RemovalInv(wire', exists', refused')
            BY <1>1, <1>3, <2>4, <2>5, <2>9, <3>1, <3>3, <3>4, BegunOrder
        <3> QED BY <1>1, <3>5 DEF OrderInv
    <2> QED BY <2>8, <2>9
<1> QED BY <1>2, <1>3 DEF StartDeletion

\* What is last stays last.
LEMMA LastServed ==
    ASSUME NEW L, NEW L2, Len(L2) = Len(L), Len(L) \in Nat, NEW p \in 1..Len(L),
           L[p][1] = "rmd" => L2[p][1] = "rmd" /\ L2[p][2] = L[p][2],
           \A i \in 1..Len(L) : i # p => L2[i] = L[i],
           L[Len(L)][1] = "rmd"
    PROVE  L2[Len(L2)][1] = "rmd" /\ L2[Len(L2)][2] = L[Len(L)][2]
<1>1. CASE p = Len(L) BY <1>1
<1>2. CASE p # Len(L) BY <1>2
<1> QED BY <1>1, <1>2

\* The verb of a command and the kind of its answer.
Answers(c, m) ==
    /\ \/ c[1] = "list" /\ m[1] = "contents"
       \/ c[1] \in {"dele", "rmd"} /\ m[1] = c[1]
    /\ m[2] = c[2]

\* What is under way, one sequence after the other.
LEMMA SentAssociative ==
    ASSUME NEW a \in Seq(Sent), NEW b \in Seq(Sent), NEW c \in Seq(Sent)
    PROVE  (a \o b) \o c = a \o (b \o c)
BY ConcatAssociative

\* A command that is answered belongs to a deletion that goes on.
LEMMA ServedOrder ==
    ASSUME Shape, Shape', OrderInv, NEW c, NEW m \in Message, Answers(c, m),
           Serves(c), Reports(<<m>>), conn' = conn
    PROVE  /\ ~lost /\ isDeleting /\ PhaseInv'
           /\ c[1] = "list" => dirDeletions = 0
           /\ c[1] = "rmd" => dirDeletions > 0
           /\ Pending(Line') = Pending(Line)
           /\ ListedOnce(Line) => ListedOnce(Line')
<1> DEFINE news == <<m>>
<1>1. news \in Seq(Message) /\ Reports(news) /\ \A k : Of(k, news) = IF m[1] = k THEN 1 ELSE 0
    BY OfOne
<1> HIDE DEF news
<1>2. /\ wire \in Seq(Command) /\ wire # <<>> /\ Head(wire) = c /\ c \in Command
      /\ wire' = Tail(wire) /\ wire' \in Seq(Command)
      /\ messages' = messages \o news /\ messages' \in Seq(Message)
      /\ conn = "open"
      /\ \A k : /\ Of(k, wire) = Of(k, wire') + IF c[1] = k THEN 1 ELSE 0
                /\ Of(k, messages') = Of(k, messages) + Of(k, news)
                /\ Of(k, wire') \in Nat /\ Of(k, messages) \in Nat
    BY <1>1, ServesShape
<1>3. UNCHANGED <<deletions, isDeleting, listings, dirDeletions, files, emptyDirs, lost, told>>
    BY DEF Serves, queueVars
<1>4. c # <<"quit">>
    <2>1. <<"quit">>[1] = "quit" OBVIOUS
    <2> QED BY <2>1 DEF Answers
<1>5. wire[1] = c /\ 1 \in 1..Len(wire) BY <1>2
<1>6. ~lost BY <1>2, <1>4 DEF OrderInv, PhaseInv, LostInv, Answers
<1>7. isDeleting BY <1>4, <1>5, <1>6 DEF OrderInv, PhaseInv, IdleInv
<1>8. Balance /\ BusyInv BY <1>6, <1>7 DEF OrderInv, PhaseInv
<1>9. /\ Of("list", wire) + Of("contents", messages) = Of("list", wire') + Of("contents", messages')
      /\ Of("rmd", wire) + Of("rmd", messages) = Of("rmd", wire') + Of("rmd", messages')
      /\ c[1] = "list" => Of("list", wire) > 0
      /\ c[1] = "rmd" => Of("rmd", wire) > 0
    <2>1. /\ Of("list", wire) = Of("list", wire') + IF c[1] = "list" THEN 1 ELSE 0
          /\ Of("rmd", wire) = Of("rmd", wire') + IF c[1] = "rmd" THEN 1 ELSE 0
          /\ Of("contents", messages') = Of("contents", messages) + Of("contents", news)
          /\ Of("rmd", messages') = Of("rmd", messages) + Of("rmd", news)
          /\ Of("contents", news) = IF m[1] = "contents" THEN 1 ELSE 0
          /\ Of("rmd", news) = IF m[1] = "rmd" THEN 1 ELSE 0
          /\ Of("list", wire') \in Nat /\ Of("rmd", wire') \in Nat
          /\ Of("contents", messages) \in Nat /\ Of("rmd", messages) \in Nat
        BY <1>1, <1>2
    <2>2. (m[1] = "contents" <=> c[1] = "list") /\ (m[1] = "rmd" <=> c[1] = "rmd")
        BY DEF Answers
    <2> QED BY <2>1, <2>2
<1>10. Balance' BY <1>3, <1>8, <1>9 DEF Balance
<1>11. /\ listings \in Int /\ dirDeletions \in Nat
       /\ Of("contents", messages) \in Nat /\ Of("rmd", messages) \in Nat
    BY ShapeFacts
<1>12. c[1] = "rmd" => dirDeletions > 0
    <2>1. Of("rmd", wire) \in Nat BY ShapeFacts
    <2> QED BY <1>8, <1>9, <1>11, <2>1 DEF Balance
<1>13. c[1] = "list" => dirDeletions = 0
    <2>1. Of("list", wire) \in Nat BY ShapeFacts
    <2> QED BY <1>8, <1>9, <1>11, <2>1 DEF Balance, BusyInv
<1> DEFINE L == Line
           L2 == Line'
           p == Len(messages) + 1
<1>14. /\ Len(L) \in Nat /\ Len(L2) = Len(L) /\ p \in 1..Len(L) /\ L[p] = c /\ L2[p] = m
       /\ \A i \in 1..Len(L) : i # p => L2[i] = L[i]
    <2>1. \A M, W \in Seq(Sent) : \A n \in Sent : W # <<>> =>
            /\ Len(M \o W) \in Nat
            /\ Len((M \o <<n>>) \o Tail(W)) = Len(M \o W)
            /\ Len(M) + 1 \in 1..Len(M \o W)
            /\ (M \o W)[Len(M) + 1] = Head(W) /\ ((M \o <<n>>) \o Tail(W))[Len(M) + 1] = n
            /\ \A i \in 1..Len(M \o W) : i # Len(M) + 1 =>
                  ((M \o <<n>>) \o Tail(W))[i] = (M \o W)[i]
        <3> TAKE M, W \in Seq(Sent)
        <3> TAKE n \in Sent
        <3> HAVE W # <<>>
        <3>1. Len(M \o W) \in Nat /\ M \o W \in Seq(Sent) OBVIOUS
        <3> QED BY <3>1, LineServed
    <2>2. messages \in Seq(Sent) /\ wire \in Seq(Sent) /\ m \in Sent
        BY <1>2, SentSeq, ShapeFacts DEF Sent
    <2>3. L2 = (messages \o <<m>>) \o Tail(wire) BY <1>2 DEF Line, news
    <2> HIDE DEF L2
    <2>4. L = messages \o wire /\ Head(wire) = c /\ wire # <<>> BY <1>2 DEF Line
    <2> HIDE DEF L
    <2> QED BY <2>1, <2>2, <2>3, <2>4, Zenon
<1> HIDE DEF L, L2, p
<1>15. Pending(L2) = Pending(L) /\ (ListedOnce(L) => ListedOnce(L2))
    <2>1. IsListing(m) <=> IsListing(c) BY DEF IsListing, Answers
    <2>2. m[2] = c[2] BY DEF Answers
    <2> QED BY <1>14, <2>1, <2>2, PendingServed
<1>16. ASSUME dirDeletions > 0
       PROVE  Line' # <<>> /\ Line'[Len(Line')][1] = "rmd" /\ Line'[Len(Line')][2] = Root
    <2>1. L[Len(L)][1] = "rmd" /\ L[Len(L)][2] = Root BY <1>8, <1>16 DEF BusyInv, L
    <2>2. c[1] = "rmd" => m[1] = "rmd" /\ m[2] = c[2] BY DEF Answers
    <2>3. L2[Len(L2)][1] = "rmd" /\ L2[Len(L2)][2] = L[Len(L)][2]
        BY <1>14, <2>1, <2>2, LastServed
    <2>4. Len(L2) # 0 BY <1>14
    <2>5. Len(<<>>) = 0 OBVIOUS
    <2> QED BY <2>1, <2>3, <2>4, <2>5 DEF L2
<1>17. BusyInv'
    <2>1. \A i \in 1..Len(wire') : wire'[i] # <<"quit">>
        <3>1. \A i \in 1..Len(Tail(wire)) : Tail(wire)[i] = wire[i + 1] /\ i + 1 \in 1..Len(wire)
            BY <1>2, TailShape
        <3> QED BY <1>2, <1>8, <3>1 DEF BusyInv
    <2>2. Root' = Root BY <1>3 DEF Root
    <2> QED BY <1>2, <1>3, <1>8, <1>16, <2>1, <2>2 DEF BusyInv
<1>18. PhaseInv' BY <1>3, <1>6, <1>7, <1>10, <1>17 DEF PhaseInv
<1> QED BY <1>6, <1>7, <1>12, <1>13, <1>15, <1>18 DEF L, L2

\* What is listed is what is there.
LEMMA ListsDirectoryOrder ==
    ASSUME Shape, Shape', OrderInv, ListsDirectory PROVE OrderInv'
<1>1. PICK d \in exists \cap Dir :
        /\ Serves(<<"list", d>>)
        /\ Reports(<< <<"contents", d, Children(d)>> >>)
        /\ UNCHANGED <<conn, exists, refused, skipped>>
    BY DEF ListsDirectory
<1> DEFINE c == <<"list", d>>
           m == <<"contents", d, Children(d)>>
<1>2. Children(d) \subseteq Item /\ Children(d) = ChildrenIn(exists, d)
    BY ChildrenType DEF Children, ChildrenIn
<1>3. m \in Message BY <1>1, <1>2 DEF Message
<1>4. /\ c[1] = "list" /\ c[2] = d
      /\ m[1] = "contents" /\ m[2] = d /\ m[3] = ChildrenIn(exists, d)
    BY <1>2
<1>5. Serves(c) /\ Reports(<<m>>) BY <1>1
<1> HIDE DEF c, m
<1>6. Answers(c, m) BY <1>4 DEF Answers
<1>7. /\ ~lost /\ isDeleting /\ PhaseInv'
      /\ Pending(Line') = Pending(Line) /\ (ListedOnce(Line) => ListedOnce(Line'))
    BY <1>1, <1>3, <1>5, <1>6, ServedOrder
<1>8. /\ wire \in Seq(Command) /\ wire # <<>> /\ Head(wire) = c /\ wire' = Tail(wire)
      /\ messages \in Seq(Message) /\ messages' = messages \o <<m>>
    BY <1>5, ShapeFacts DEF Serves, Reports
<1>9. UNCHANGED <<deletions, isDeleting, listings, dirDeletions, files, emptyDirs, lost, told,
                  exists, refused>>
    BY <1>1, <1>5 DEF Serves, queueVars
<1>10. Root' = Root BY <1>9 DEF Root
<1>11. TreeKnown' BY <1>7, <1>9, <1>10 DEF OrderInv, TreeKnown
<1>12. RemovalInv(Tail(wire), exists, refused)
    <2>1. RemovalInv(wire, exists, refused) BY DEF OrderInv
    <2>2. Head(wire)[1] # "rmd" BY <1>4, <1>8
    <2> QED BY <1>8, <2>1, <2>2, RemovalTail
<1>13. ContentsInv(messages \o <<m>>, exists)
    <2>1. ContentsInv(messages, exists) BY DEF OrderInv
    <2>2. \A x \in m[3] : x # Home /\ Parent[x] = m[2] BY <1>4 DEF ChildrenIn
    <2>3. m[2] \in exists /\ ChildrenIn(exists, m[2]) \subseteq m[3] BY <1>1, <1>4
    <2> QED BY <1>3, <1>8, <2>1, <2>2, <2>3, ContentsExtended
<1>14. AnswersInv(messages \o <<m>>, exists, refused)
    <2>1. AnswersInv(messages, exists, refused) BY DEF OrderInv
    <2> QED BY <1>3, <1>4, <1>8, <2>1, AnswersExtended
<1> QED BY <1>7, <1>8, <1>9, <1>11, <1>12, <1>13, <1>14 DEF OrderInv

\* An item that is gone, or refused, is accounted for.
LEMMA DeletesItemOrder ==
    ASSUME Shape, Shape', OrderInv, DeletesItem PROVE OrderInv'
<1>0. PICK x \in Item, verb \in {"dele", "rmd"}, ok \in BOOLEAN : ItemServed(x, verb, ok)
    BY DeletesItemCase
<1>1. /\ Serves(<<verb, x>>) /\ Reports(<< <<verb, x, ok>> >>)
      /\ verb = "dele" => x \in File
      /\ verb = "rmd" => x \in Dir
      /\ ok => x \in exists /\ Children(x) = {}
      /\ exists' = IF ok THEN exists \ {x} ELSE exists
      /\ refused' = IF ~ok /\ x \in exists /\ Children(x) = {}
                    THEN refused \cup {x} ELSE refused
      /\ conn' = conn
    BY <1>0 DEF ItemServed
<1> DEFINE c == <<verb, x>>
           m == <<verb, x, ok>>
<1>2. m \in Message BY <1>1 DEF Message
<1>3. c[1] = verb /\ c[2] = x /\ m[1] = verb /\ m[2] = x /\ m[3] = ok OBVIOUS
<1>4. Serves(c) /\ Reports(<<m>>) BY <1>1
<1>5. Head(wire) = <<verb, x>> BY <1>1 DEF Serves
<1> HIDE DEF c, m
<1>6. Answers(c, m) BY <1>3 DEF Answers
<1>7. /\ ~lost /\ isDeleting /\ PhaseInv'
      /\ c[1] = "rmd" => dirDeletions > 0
      /\ Pending(Line') = Pending(Line) /\ (ListedOnce(Line) => ListedOnce(Line'))
    BY <1>1, <1>2, <1>4, <1>6, ServedOrder
<1>8. /\ wire \in Seq(Command) /\ wire # <<>> /\ Head(wire) = c /\ wire' = Tail(wire)
      /\ messages \in Seq(Message) /\ messages' = messages \o <<m>>
      /\ exists \in SUBSET Item /\ refused \in SUBSET Item /\ emptyDirs \in Seq(Dir)
    BY <1>4, ShapeFacts DEF Serves, Reports
<1>9. UNCHANGED <<deletions, isDeleting, listings, dirDeletions, files, emptyDirs, lost, told>>
    BY <1>4 DEF Serves, queueVars
<1>10. Root' = Root BY <1>9 DEF Root
<1>11. exists' \subseteq exists /\ refused \subseteq refused' BY <1>1
<1>12. Children(x) = ChildrenIn(exists, x) BY DEF Children, ChildrenIn
<1>13. /\ ContentsInv(messages, exists) /\ AnswersInv(messages, exists, refused)
       /\ RemovalInv(wire, exists, refused) /\ ToldInv(told, refused)
    BY DEF OrderInv
<1>14. ToldInv(told', refused') BY <1>9, <1>11, <1>13, ToldMore
<1>15. m[1] # "contents" /\ m[1] # "noEntry" BY <1>3
<1>16. CASE verb = "dele"
    <2>1. x \in File /\ x \notin Dir BY <1>1, <1>16, TreeAssumption
    <2>2. exists \cap Dir \subseteq exists' BY <1>1, <2>1
    <2>3. TreeKnown'
        <3> SUFFICES ASSUME dirDeletions = 0
                     PROVE  /\ ListedOnce(Line')
                            /\ TreeInv(Root, emptyDirs, Pending(Line), Elements(files), exists', refused')
            BY <1>7, <1>9, <1>10 DEF TreeKnown
        <3>1. /\ ListedOnce(Line)
              /\ TreeInv(Root, emptyDirs, Pending(Line), Elements(files), exists, refused)
            BY <1>7 DEF OrderInv, TreeKnown
        <3> QED BY <1>7, <1>8, <1>11, <2>2, <3>1, FilesGone
    <2>4. RemovalInv(wire', exists', refused')
        <3>1. Head(wire)[1] # "rmd" BY <1>3, <1>8, <1>16
        <3> QED BY <1>8, <1>11, <1>13, <2>2, <3>1, RemovalTail
    <2>5. ContentsInv(messages', exists')
        <3>1. ASSUME NEW i \in 1..Len(messages), messages[i][1] = "contents", messages[i][2] \in exists
              PROVE  messages[i][2] \in exists'
            <4>1. messages[i] \in Message BY <1>8
            <4>2. messages[i][2] \in Dir BY <3>1, <4>1, MessageShape
            <4> QED BY <2>2, <3>1, <4>2
        <3> QED BY <1>2, <1>8, <1>11, <1>13, <1>15, <3>1, ContentsExtended
    <2>6. x \notin exists' \/ x \in refused'
        <3>1. Children(x) = {} BY <2>1, TreeAssumption DEF Children, Shape, TypeOK
        <3> QED BY <1>1, <3>1
    <2>7. AnswersInv(messages', exists', refused')
        BY <1>2, <1>3, <1>8, <1>11, <1>13, <1>15, <1>16, <2>6, AnswersExtended
    <2> QED BY <1>7, <1>14, <2>3, <2>4, <2>5, <2>7 DEF OrderInv
<1>17. CASE verb = "rmd"
    <2>1. x \in Dir /\ dirDeletions > 0 BY <1>1, <1>3, <1>7, <1>17
    <2>2. TreeKnown' BY <1>9, <2>1 DEF TreeKnown
    <2>3. RemovalInv(Tail(wire), exists', refused') /\ (~ok => RefusedIn(refused', x))
        <3>1. Head(wire) = <<"rmd", x>> BY <1>5, <1>17
        <3> QED BY <1>1, <1>8, <1>12, <1>13, <2>1, <3>1, RemovalAnswered
    <2>4. \A i \in 1..Len(messages) : messages[i][1] # "contents"
        <3>1. Balance /\ BusyInv BY <1>7 DEF OrderInv, PhaseInv
        <3>2. Of("contents", messages) \in Nat /\ Of("list", wire) \in Nat BY ShapeFacts
        <3>3. Of("contents", messages) = 0 BY <2>1, <3>1, <3>2 DEF Balance, BusyInv
        <3> QED BY <1>8, <3>3, OfNone
    <2>5. ContentsInv(messages', exists')
        BY <1>2, <1>8, <1>11, <1>13, <1>15, <2>4, ContentsExtended
    <2>6. AnswersInv(messages', exists', refused')
        BY <1>2, <1>3, <1>8, <1>11, <1>13, <1>15, <1>17, <2>3, AnswersExtended
    <2> QED BY <1>7, <1>8, <1>14, <2>2, <2>3, <2>5, <2>6 DEF OrderInv
<1> QED BY <1>16, <1>17

\* The end of the second connection, and of what was still to be sent over it.
LEMMA DisconnectsOrder ==
    ASSUME Shape, Shape', OrderInv, Disconnects PROVE OrderInv'
<1> DEFINE m == <<"disconnected">>
<1>1. /\ conn' = "closed" /\ wire' = <<>> /\ wire # <<>> /\ Head(wire) = <<"quit">>
      /\ messages' = messages \o <<m>>
      /\ UNCHANGED <<deletions, isDeleting, listings, dirDeletions, files, emptyDirs, lost, told,
                     exists, refused>>
    BY DEF Disconnects, Reports, queueVars, ghostVars
<1>2. wire \in Seq(Command) /\ messages \in Seq(Message) BY ShapeFacts
<1>3. m \in Message /\ m[1] = "disconnected" BY DEF Message
<1>4. 1 \in 1..Len(wire) /\ wire[1] = <<"quit">> BY <1>1, <1>2
<1>5. ~(~lost /\ isDeleting) BY <1>4 DEF OrderInv, PhaseInv, BusyInv
<1> HIDE DEF m
<1>6. ASSUME \A i \in 1..Len(messages) : messages[i][1] = "disconnected"
      PROVE  \A i \in 1..Len(messages') : messages'[i][1] = "disconnected"
    <2>1. /\ Len(messages \o <<m>>) = Len(messages) + 1
          /\ (messages \o <<m>>)[Len(messages) + 1] = m
          /\ \A i \in 1..Len(messages) : (messages \o <<m>>)[i] = messages[i]
          /\ \A i \in 1..(Len(messages) + 1) : i \in 1..Len(messages) \/ i = Len(messages) + 1
        BY <1>2, <1>3, AppendShape
    <2> QED BY <1>1, <1>3, <1>6, <2>1
<1>7. Of("list", <<>>) = 0 /\ Of("rmd", <<>>) = 0 /\ Len(<<>>) = 0 BY OfEmpty
<1>8. PhaseInv'
    <2>1. CASE lost
        <3>1. LostInv BY <2>1 DEF OrderInv, PhaseInv
        <3>2. LostInv' BY <1>1, <1>6, <3>1 DEF LostInv
        <3> QED BY <1>1, <2>1, <3>2 DEF PhaseInv
    <2>2. CASE ~lost
        <3>1. ~isDeleting /\ IdleInv BY <1>5, <2>2 DEF OrderInv, PhaseInv
        <3>2. IdleInv' BY <1>1, <1>6, <1>7, <3>1 DEF IdleInv
        <3>3. Of("contents", messages') = 0 /\ Of("rmd", messages') = 0
            <4>1. messages' \in Seq(Message) BY DEF Shape, TypeOK
            <4>2. \A i \in 1..Len(messages') :
                    messages'[i][1] # "contents" /\ messages'[i][1] # "rmd"
                BY <3>2 DEF IdleInv
            <4> QED BY <4>1, <4>2, OfNone
        <3>4. Balance' BY <1>1, <1>7, <3>2, <3>3 DEF Balance, IdleInv
        <3> QED BY <1>1, <2>2, <3>1, <3>2, <3>4 DEF PhaseInv
    <2> QED BY <2>1, <2>2
<1>9. TreeKnown' BY <1>1, <1>5 DEF TreeKnown
<1>10. RemovalInv(wire', exists', refused') BY <1>1, <1>7, RemovalNone
<1>11. ContentsInv(messages', exists')
    <2>1. ContentsInv(messages, exists) BY DEF OrderInv
    <2> QED BY <1>1, <1>2, <1>3, <2>1, ContentsExtended
<1>12. AnswersInv(messages', exists', refused')
    <2>1. AnswersInv(messages, exists, refused) BY DEF OrderInv
    <2> QED BY <1>1, <1>2, <1>3, <2>1, AnswersExtended
<1> QED BY <1>1, <1>8, <1>9, <1>10, <1>11, <1>12 DEF OrderInv

\* Two sequences in a row.
LEMMA ConcatShape ==
    ASSUME NEW A, NEW s \in Seq(A), NEW t \in Seq(A)
    PROVE  /\ s \o t \in Seq(A) /\ Len(s \o t) = Len(s) + Len(t)
           /\ Len(s) \in Nat /\ Len(t) \in Nat
           /\ \A i \in 1..Len(s) : (s \o t)[i] = s[i]
           /\ \A i \in 1..Len(t) : (s \o t)[Len(s) + i] = t[i]
           /\ \A i \in 1..Len(s \o t) :
                 i \in 1..Len(s) \/ (i - Len(s) \in 1..Len(t) /\ (s \o t)[i] = t[i - Len(s)])
OBVIOUS

\* The elements of either are elements of both in a row.
LEMMA ElementsConcat ==
    ASSUME NEW A, NEW s \in Seq(A), NEW t \in Seq(A)
    PROVE  Elements(s \o t) = Elements(s) \cup Elements(t)
<1> DEFINE u == s \o t
<1>1. /\ Len(s) \in Nat /\ Len(t) \in Nat /\ Len(u) = Len(s) + Len(t)
      /\ \A i \in 1..Len(s) : u[i] = s[i] /\ i \in 1..Len(u)
      /\ \A i \in 1..Len(t) : u[Len(s) + i] = t[i] /\ Len(s) + i \in 1..Len(u)
      /\ \A i \in 1..Len(u) :
            i \in 1..Len(s) \/ (i - Len(s) \in 1..Len(t) /\ u[i] = t[i - Len(s)])
    BY ConcatShape
<1> HIDE DEF u
<1>2. Elements(u) \subseteq Elements(s) \cup Elements(t) BY <1>1 DEF Elements
<1>3. Elements(s) \subseteq Elements(u) BY <1>1 DEF Elements
<1>4. Elements(t) \subseteq Elements(u) BY <1>1 DEF Elements
<1> QED BY <1>2, <1>3, <1>4 DEF u

\* Nobody disconnects.
LEMMA NoQuitConcat ==
    ASSUME NEW W \in Seq(Command), NEW c \in Seq(Command),
           \A i \in 1..Len(W) : W[i] # <<"quit">>, \A i \in 1..Len(c) : c[i][1] # "quit"
    PROVE  \A i \in 1..Len(W \o c) : (W \o c)[i] # <<"quit">>
<1>1. \A i \in 1..Len(W \o c) :
        \/ i \in 1..Len(W) /\ (W \o c)[i] = W[i]
        \/ i - Len(W) \in 1..Len(c) /\ (W \o c)[i] = c[i - Len(W)]
    BY ConcatShape
<1>2. <<"quit">>[1] = "quit" OBVIOUS
<1> QED BY <1>1, <1>2

\* A message that is received is an answer of the deletion that goes on.
LEMMA ReceivedOrder ==
    ASSUME Shape, OrderInv, NEW kind, kind # "disconnected", Receives(kind)
    PROVE  /\ ~lost /\ isDeleting /\ Balance /\ BusyInv
           /\ AnswersInv(messages', exists, refused) /\ ContentsInv(messages', exists)
           /\ messages' \o wire \in Seq(Sent) /\ messages' \o wire = Tail(Line)
           /\ Line \in Seq(Sent) /\ Line # <<>> /\ Line[1] = Head(messages)
           /\ ListedOnce(Line) => ListedOnce(messages' \o wire)
           /\ kind # "contents" => Pending(messages' \o wire) = Pending(Line)
           /\ kind = "contents" =>
                 /\ dirDeletions = 0
                 /\ Head(messages)[2] \in Pending(Line)
                 /\ ListedOnce(Line) =>
                      Pending(messages' \o wire) = Pending(Line) \ {Head(messages)[2]}
<1>1. /\ messages \in Seq(Message) /\ messages # <<>>
      /\ Head(messages) \in Message /\ Head(messages)[1] = kind
      /\ messages' = Tail(messages) /\ messages' \in Seq(Message)
      /\ \A k : /\ Of(k, messages) = Of(k, messages') + IF kind = k THEN 1 ELSE 0
                /\ Of(k, messages') \in Nat /\ Of(k, wire) \in Nat
    BY ReceivesShape
<1>2. 1 \in 1..Len(messages) /\ messages[1] = Head(messages) BY <1>1
<1>3. ~lost BY <1>1, <1>2 DEF OrderInv, PhaseInv, LostInv
<1>4. isDeleting BY <1>1, <1>2, <1>3 DEF OrderInv, PhaseInv, IdleInv
<1>5. Balance /\ BusyInv BY <1>3, <1>4 DEF OrderInv, PhaseInv
<1>6. AnswersInv(messages', exists, refused) /\ ContentsInv(messages', exists)
    BY <1>1, AnswersTail, ContentsTail DEF OrderInv
<1>7. messages \in Seq(Sent) /\ wire \in Seq(Sent) /\ messages' \in Seq(Sent)
    BY <1>1, SentSeq, ShapeFacts
<1> DEFINE L == messages \o wire
           L2 == Tail(messages) \o wire
<1>8. /\ L \in Seq(Sent) /\ L2 \in Seq(Sent) /\ Len(L) = Len(L2) + 1
      /\ L2 = Tail(L) /\ L # <<>>
      /\ L[1] = Head(messages) /\ \A i \in 1..Len(L2) : L2[i] = L[i + 1]
    <2>1. \A M, W \in Seq(Sent) : M # <<>> =>
            /\ M \o W \in Seq(Sent) /\ Tail(M) \o W \in Seq(Sent)
            /\ Len(M \o W) = Len(Tail(M) \o W) + 1
            /\ Tail(M) \o W = Tail(M \o W) /\ M \o W # <<>>
            /\ (M \o W)[1] = Head(M)
            /\ \A i \in 1..Len(Tail(M) \o W) : (Tail(M) \o W)[i] = (M \o W)[i + 1]
        <3> TAKE M, W \in Seq(Sent)
        <3> HAVE M # <<>>
        <3> QED BY LineReceived
    <2> QED BY <1>1, <1>7, <2>1, Zenon
<1>9. L2 = messages' \o wire /\ L = Line BY <1>1 DEF Line
<1> HIDE DEF L, L2
<1>10. Len(L2) \in Nat BY <1>8
<1>11. /\ ListedOnce(L) => ListedOnce(L2)
       /\ ~IsListing(L[1]) => Pending(L2) = Pending(L)
       /\ IsListing(L[1]) /\ ListedOnce(L) => Pending(L2) = Pending(L) \ {L[1][2]}
       /\ IsListing(L[1]) /\ L[1][2] \in Dir => L[1][2] \in Pending(L)
    BY <1>8, <1>10, PendingReceived
<1>12. kind # "contents" => ~IsListing(Head(messages)) BY <1>1, MessageShape DEF IsListing
<1>13. kind = "contents" => IsListing(Head(messages)) /\ Head(messages)[2] \in Dir
    BY <1>1, MessageShape DEF IsListing
<1>14. kind = "contents" => dirDeletions = 0
    <2> SUFFICES ASSUME kind = "contents" PROVE dirDeletions = 0
        OBVIOUS
    <2>1. Of("contents", messages) > 0 BY <1>1
    <2>2. Of("list", wire) \in Nat /\ Of("contents", messages) \in Nat /\ dirDeletions \in Nat
        BY ShapeFacts
    <2> QED BY <1>5, <2>1, <2>2 DEF Balance, BusyInv
<1> QED BY <1>3, <1>4, <1>5, <1>6, <1>8, <1>9, <1>11, <1>12, <1>13, <1>14

\* All has been handled, and the directories are to be deleted, the one asked for last.
LEMMA RemovalsSent ==
    ASSUME Shape', isDeleting', ~lost', conn' = "open", deletions' # <<>>,
           NEW W \in Seq(Command), NEW E \in Seq(Dir), wire' = W \o Removals(E),
           Of("rmd", W) = 0, Of("list", W) = 0, \A i \in 1..Len(W) : W[i] # <<"quit">>,
           Of("rmd", messages') = 0, Of("contents", messages') = 0,
           Collected(Root', E, {}), Handled(E, {}, {}, exists', refused'),
           listings' = 0, emptyDirs' = <<>>, dirDeletions' = Len(E)
    PROVE  PhaseInv' /\ TreeKnown' /\ RemovalInv(wire', exists', refused')
<1> DEFINE V == Removals(E)
<1>1. /\ V \in Seq(Command) /\ Len(V) = Len(E)
      /\ Of("rmd", V) = Len(E) /\ Of("list", V) = 0
      /\ \A i \in 1..Len(E) : V[i] = <<"rmd", E[Len(E) - i + 1]>>
    BY RemovalsType
<1>2. E # <<>> /\ E[1] = Root' BY DEF Collected
<1>3. Len(E) \in Nat /\ Len(E) > 0 BY <1>2
<1>4. deletions' \in Seq(Roots) /\ messages' \in Seq(Message) /\ refused' \in SUBSET Item
    BY TreeAssumption DEF Shape, TypeOK
<1>5. Root' \in Roots
    <2>1. Head(deletions') \in Roots BY <1>4
    <2> QED BY <2>1 DEF Root
<1>6. \A i \in 1..Len(W) : W[i][1] # "rmd" BY OfNone
<1>7. RemovalInv(W \o V, exists', refused') BY <1>4, <1>5, <1>6, RemovalsOrdered
<1>8. TreeKnown' BY <1>3 DEF TreeKnown
<1> HIDE DEF V
<1>9. Balance'
    <2>1. \A u, v \in Seq(Command) : /\ Of("rmd", u \o v) = Of("rmd", u) + Of("rmd", v)
                                     /\ Of("list", u \o v) = Of("list", u) + Of("list", v)
        BY OfConcat
    <2>2. Of("rmd", wire') = Of("rmd", W) + Of("rmd", V)
          /\ Of("list", wire') = Of("list", W) + Of("list", V)
        BY <1>1, <2>1 DEF V
    <2> QED BY <1>1, <1>3, <2>2 DEF Balance
<1>10. \A i \in 1..Len(wire') : wire'[i] # <<"quit">>
    <2>1. ASSUME NEW i \in 1..Len(V) PROVE V[i][1] # "quit"
        <3>1. V[i] = <<"rmd", E[Len(E) - i + 1]>> BY <1>1, <2>1
        <3> QED BY <3>1
    <2>2. \A i \in 1..Len(W \o V) : (W \o V)[i] # <<"quit">> BY <1>1, <2>1, NoQuitConcat
    <2> QED BY <2>2 DEF V
<1>11. Line' # <<>> /\ Line'[Len(Line')][1] = "rmd" /\ Line'[Len(Line')][2] = Root'
    <2>1. messages' \in Seq(Sent) /\ W \in Seq(Sent) /\ V \in Seq(Sent) BY <1>1, <1>4, SentSeq
    <2>2. Line' = messages' \o (W \o V) BY DEF Line, V
    <2>3. \A a, b, c \in Seq(Sent) : c # <<>> =>
            /\ Len(a \o (b \o c)) > 0
            /\ (a \o (b \o c))[Len(a \o (b \o c))] = c[Len(c)]
        OBVIOUS
    <2>4. Len(V) > 0 /\ Len(<<>>) = 0 BY <1>1, <1>3
    <2>5. Len(Line') > 0 /\ Line'[Len(Line')] = V[Len(V)] BY <2>1, <2>2, <2>3, <2>4
    <2>6. V[Len(E)] = <<"rmd", E[Len(E) - Len(E) + 1]>> BY <1>1, <1>3
    <2>7. Len(E) - Len(E) + 1 = 1 BY <1>3
    <2>8. V[Len(V)] = <<"rmd", Root'>> BY <1>1, <1>2, <2>6, <2>7
    <2>9. V[Len(V)][1] = "rmd" /\ V[Len(V)][2] = Root' BY <2>8
    <2> QED BY <2>4, <2>5, <2>9
<1>12. BusyInv' BY <1>10, <1>11 DEF BusyInv
<1>13. PhaseInv' BY <1>9, <1>12 DEF PhaseInv
<1> QED BY <1>7, <1>8, <1>13 DEF V

\* What a listing of d that was waited for says: it is of a directory below the first,
\* that is there, and nothing in it was known.
LEMMA ContentsAwaited ==
    ASSUME Shape, OrderInv, Receives("contents"), deletions # <<>>
    PROVE  LET m == Head(messages)
               E2 == Emptied(m[2])
               P1 == Pending(Line) \ {m[2]}
               N == m[3] \cap Dir
           IN  /\ Root \in Path[m[2]]
               /\ TreeInv(Root, E2, P1 \cup N, Elements(files) \cup (m[3] \cap File), exists, refused)
               /\ N \cap Pending(Line) = {} /\ E2 \in Seq(Dir)
               /\ ListedOnce(messages' \o wire) /\ Pending(messages' \o wire) = P1
<1> DEFINE m == Head(messages)
           d == m[2]
           S == m[3]
           E2 == Emptied(d)
           P == Pending(Line)
           F == Elements(files)
           r == Root
<1>1. /\ messages \in Seq(Message) /\ messages # <<>> /\ m \in Message /\ m[1] = "contents"
    BY ReceivesShape
<1>2. d \in Dir /\ S \in SUBSET Item BY <1>1, MessageShape
<1>3. /\ ~lost /\ isDeleting /\ dirDeletions = 0 /\ d \in P
      /\ ListedOnce(Line) => ListedOnce(messages' \o wire)
      /\ ListedOnce(Line) => Pending(messages' \o wire) = P \ {d}
    BY ReceivedOrder
<1>4. ListedOnce(Line) /\ TreeInv(r, emptyDirs, P, F, exists, refused)
    BY <1>3 DEF OrderInv, TreeKnown
<1>5. /\ d \in exists /\ ChildrenIn(exists, d) \subseteq S
      /\ \A x \in S : x # Home /\ Parent[x] = d
    <2>1. 1 \in 1..Len(messages) /\ messages[1] = m BY <1>1
    <2> HIDE DEF m
    <2>2. ContentsInv(messages, exists) BY DEF OrderInv
    <2> QED BY <1>1, <2>1, <2>2 DEF ContentsInv
<1>6. /\ deletions \in Seq(Roots) /\ emptyDirs \in Seq(Dir) /\ exists \in SUBSET Item
    BY ShapeFacts
<1>7. r \in Roots /\ r \in ToSet(deletions)
    <2>1. Head(deletions) \in Roots /\ 1 \in DOMAIN deletions /\ Head(deletions) = deletions[1]
        BY <1>6
    <2>2. deletions[1] \in ToSet(deletions) BY <2>1 DEF ToSet
    <2> QED BY <2>1, <2>2 DEF Root
<1>8. P \in SUBSET Dir BY DEF Pending
<1> HIDE DEF m, r, P, F
<1>9. Collected(r, emptyDirs, P) /\ Awaited(r, emptyDirs, P) BY <1>4 DEF TreeInv
<1>10. r \in Path[d] BY <1>3, <1>6, <1>7, <1>8, <1>9, AwaitedIsBelow
<1>11. E2 = Extended(r, emptyDirs, d)
    <2>1. ToSet(deletions) \subseteq Roots BY <1>6 DEF ToSet
    <2>2. d \in ToSet(deletions) <=> d = r
        <3>1. ASSUME d \in ToSet(deletions) PROVE d = r
            <4>1. d \in Roots BY <2>1, <3>1
            <4> QED BY <1>7, <1>10, <4>1, RootsApart
        <3> QED BY <1>7, <3>1
    <2> QED BY <2>2 DEF Emptied, Extended
<1> HIDE DEF E2, d, S
<1>12. /\ TreeInv(r, E2, (P \ {d}) \cup (S \cap Dir), F \cup (S \cap File), exists, refused)
       /\ (S \cap Dir) \cap P = {} /\ E2 \in Seq(Dir)
    <2>1. d \in P /\ S \in SUBSET Item /\ Lists(d, S, exists) BY <1>2, <1>3, <1>5 DEF Lists
    <2> QED BY <1>4, <1>6, <1>7, <1>8, <1>11, <2>1, ContentsHandled
<1> QED BY <1>3, <1>4, <1>10, <1>12 DEF m, d, S, E2, r, P, F

\* A directory's contents are collected, and asked for in their turn; after the
\* last of them the files are deleted, or the directories.
LEMMA DidReceiveContentsOrder ==
    ASSUME Shape, Shape', OrderInv, DidReceiveContents PROVE OrderInv'
<1> DEFINE m == Head(messages)
           d == m[2]
           S == m[3]
           E2 == Emptied(d)
           L1 == messages' \o wire
           P1 == Pending(L1)
           N == S \cap Dir
           F2 == Elements(files) \cup (S \cap File)
<1>1. /\ Receives("contents") /\ deletions # <<>>
      /\ UNCHANGED <<conn, deletions, isDeleting, told>>
      /\ d \in Dir /\ S \in SUBSET Item
    BY DidReceiveContentsCases
<1>2. UNCHANGED <<exists, refused, lost>> BY <1>1 DEF Receives
<1>3. /\ ~lost /\ isDeleting /\ Balance /\ BusyInv /\ dirDeletions = 0
      /\ AnswersInv(messages', exists, refused) /\ ContentsInv(messages', exists)
      /\ L1 \in Seq(Sent)
    BY <1>1, ReceivedOrder
<1>4. /\ Root \in Path[d]
      /\ TreeInv(Root, E2, P1 \cup N, F2, exists, refused)
      /\ N \cap P1 = {} /\ E2 \in Seq(Dir) /\ ListedOnce(L1)
    <2>1. /\ Root \in Path[d]
          /\ TreeInv(Root, E2, (Pending(Line) \ {d}) \cup N, F2, exists, refused)
          /\ N \cap Pending(Line) = {} /\ E2 \in Seq(Dir)
          /\ ListedOnce(L1) /\ P1 = Pending(Line) \ {d}
        BY <1>1, ContentsAwaited
    <2> HIDE DEF E2, d, N, L1, F2
    <2> QED BY <2>1
<1>5. PICK items \in Seq(Item) : ContentsOf(m, items)
    BY <1>4, DidReceiveContentsCases DEF Root
<1> DEFINE subs == Subdirectories(items)
           lists == CommandsFor("list", subs)
<1>6. items \in SetToSeqs(S) /\ Contents(d, items) BY <1>5 DEF ContentsOf
<1>7. Distinct(items) /\ Elements(items) = S BY <1>1, <1>6, SetToSeqsShape
<1>8. /\ subs \in Seq(Dir) /\ files' = Found(items) /\ files' \in Seq(File)
      /\ listings' = listings - 1 + Len(subs)
      /\ wire' \in Seq(Command)
      /\ conn = "open" => /\ Of("list", wire') = Of("list", wire) + Len(subs)
                          /\ Of("rmd", wire') = Of("rmd", wire) + IF FoundLast(items) THEN Len(E2) ELSE 0
      /\ FoundLast(items) =>
            /\ dirDeletions' = dirDeletions + Len(E2) /\ emptyDirs' = <<>>
            /\ conn = "open" => wire' = wire \o (lists \o Removals(E2))
      /\ ~FoundLast(items) =>
            /\ dirDeletions' = dirDeletions /\ emptyDirs' = E2
            /\ conn = "open" /\ listings' # 0 => wire' = wire \o lists
            /\ conn = "open" /\ listings' = 0 => wire' = wire \o (lists \o CommandsFor("dele", files'))
    BY <1>1, <1>6, ContentsEffect
<1>9. Elements(subs) = N /\ Distinct(subs)
    BY <1>7, KeepElements DEF Subdirectories
<1>10. Elements(files') = F2
    <2>1. Elements(Keep(items, File)) = S \cap File BY <1>7, KeepElements
    <2>2. files \in Seq(File) BY ShapeFacts
    <2>3. Keep(items, File) \in Seq(File)
        <3>1. Keep(items, File) \in Seq(Item \cap File) BY KeepType
        <3>2. Item \cap File = File BY DEF Item
        <3> QED BY <3>1, <3>2
    <2>4. Elements(files \o Keep(items, File)) = Elements(files) \cup Elements(Keep(items, File))
        BY <2>2, <2>3, ElementsConcat
    <2> QED BY <1>8, <2>1, <2>4 DEF Found
<1>11. /\ wire \in Seq(Command) /\ messages' \in Seq(Message) /\ Len(subs) \in Nat
       /\ listings \in Int /\ Root' = Root /\ conn = "open"
    BY <1>1, <1>3, <1>8, ShapeFacts DEF BusyInv, Root, Shape, TypeOK
<1>12. /\ Of("contents", messages) = Of("contents", messages') + 1
       /\ Of("rmd", messages) = Of("rmd", messages')
       /\ \A k : Of(k, messages') \in Nat /\ Of(k, wire) \in Nat
    BY <1>1, ReceivesShape
<1>13. Of("rmd", wire) = 0 /\ Of("rmd", messages') = 0 BY <1>3, <1>12 DEF Balance
<1>14. listings = Of("list", wire) + Of("contents", messages') + 1
    BY <1>3, <1>12 DEF Balance
<1>15. /\ lists \in Seq(Command) /\ Len(lists) = Len(subs)
       /\ \A i \in 1..Len(subs) : lists[i] = <<"list", subs[i]>>
    BY <1>8, CommandsForType, CommandsForShape
<1>16. /\ AnswersInv(messages', exists', refused') /\ ContentsInv(messages', exists')
       /\ ToldInv(told', refused')
    BY <1>1, <1>2, <1>3 DEF OrderInv
<1> HIDE DEF m, d, S, E2, L1, N, F2, subs, lists
<1>17. CASE FoundLast(items)
    <2>1. listings' = 0 /\ files' = <<>> BY <1>8, <1>17 DEF FoundLast, subs
    <2>2. Len(subs) = 0 /\ Of("list", wire) = 0 /\ Of("contents", messages') = 0
        <3>1. 0 = listings - 1 + Len(subs) BY <1>8, <2>1
        <3>2. Of("list", wire) \in Nat /\ Of("contents", messages') \in Nat BY <1>12
        <3>3. \A a, b, n \in Nat : 0 = (a + b + 1) - 1 + n => n = 0 /\ a = 0 /\ b = 0
            OBVIOUS
        <3> QED BY <1>11, <1>14, <3>1, <3>2, <3>3, Zenon
    <2>3. N = {} BY <1>9, <2>2 DEF Elements
    <2>4. F2 = {}
        <3>1. Elements(<<>>) = {} BY DEF Elements
        <3> QED BY <1>10, <2>1, <3>1
    <2>5. P1 = {} BY <1>11, <2>2, NothingPending DEF L1
    <2>6. TreeInv(Root, E2, {}, {}, exists, refused) BY <1>4, <2>3, <2>4, <2>5
    <2>7. wire' = wire \o Removals(E2)
        <3>1. lists = <<>> BY <1>15, <2>2
        <3>2. Removals(E2) \in Seq(Command) BY <1>4, RemovalsType
        <3>3. \A c \in Seq(Command) : <<>> \o c = c OBVIOUS
        <3> QED BY <1>8, <1>11, <1>17, <3>1, <3>2, <3>3
    <2>8. dirDeletions' = Len(E2) /\ emptyDirs' = <<>> BY <1>3, <1>4, <1>8, <1>17
    <2>9. \A i \in 1..Len(wire) : wire[i] # <<"quit">> BY <1>3 DEF BusyInv
    <2>10. PhaseInv' /\ TreeKnown' /\ RemovalInv(wire', exists', refused')
        BY <1>1, <1>2, <1>3, <1>4, <1>11, <1>13, <2>1, <2>2, <2>6, <2>7, <2>8, <2>9, RemovalsSent
           DEF TreeInv
    <2> QED BY <1>16, <2>10 DEF OrderInv
<1>18. CASE ~FoundLast(items)
    <2>1. PICK c \in Seq(Command) :
            /\ wire' = wire \o c /\ Len(c) >= Len(subs)
            /\ \A i \in 1..Len(subs) : c[i] = <<"list", subs[i]>>
            /\ \A i \in 1..Len(c) : i > Len(subs) => c[i][1] = "dele"
            /\ \A i \in 1..Len(c) : c[i][1] # "rmd" /\ c[i][1] # "quit"
        <3>0. \A i \in 1..Len(subs) : lists[i][1] = "list"
            <4>1. ASSUME NEW i \in 1..Len(subs) PROVE lists[i][1] = "list"
                <5>1. lists[i] = <<"list", subs[i]>> BY <1>15
                <5> QED BY <5>1
            <4> QED BY <4>1
        <3>1. CASE listings' # 0
            <4>1. wire' = wire \o lists BY <1>8, <1>11, <1>18, <3>1
            <4>2. \A i \in 1..Len(lists) : ~(i > Len(subs)) BY <1>11, <1>15
            <4>3. Len(lists) >= Len(subs) BY <1>11, <1>15
            <4>4. \A i \in 1..Len(lists) : lists[i][1] # "rmd" /\ lists[i][1] # "quit"
                BY <1>15, <3>0
            <4> QED BY <1>15, <4>1, <4>2, <4>3, <4>4
        <3>2. CASE listings' = 0
            <4> DEFINE deles == CommandsFor("dele", files')
            <4>1. /\ deles \in Seq(Command) /\ Len(deles) = Len(files')
                  /\ \A i \in 1..Len(files') : deles[i] = <<"dele", files'[i]>>
                BY <1>8, CommandsForType, CommandsForShape
            <4>2. \A i \in 1..Len(deles) : deles[i][1] = "dele"
                <5>1. ASSUME NEW i \in 1..Len(deles) PROVE deles[i][1] = "dele"
                    <6>1. deles[i] = <<"dele", files'[i]>> BY <4>1
                    <6> QED BY <6>1
                <5> QED BY <5>1
            <4>3. wire' = wire \o (lists \o deles) BY <1>8, <1>11, <1>18, <3>2
            <4> HIDE DEF deles
            <4> DEFINE c == lists \o deles
            <4>4. /\ c \in Seq(Command) /\ Len(c) = Len(lists) + Len(deles)
                  /\ Len(deles) \in Nat
                  /\ \A i \in 1..Len(lists) : c[i] = lists[i]
                  /\ \A i \in 1..Len(c) :
                        i \in 1..Len(lists) \/ (i - Len(lists) \in 1..Len(deles) /\ c[i] = deles[i - Len(lists)])
                <5>1. deles \in Seq(Command) BY <4>1
                <5>2. lists \in Seq(Command) BY <1>15
                <5> QED BY <5>1, <5>2, ConcatShape
            <4> HIDE DEF c
            <4>5. ASSUME NEW i \in 1..Len(c)
                  PROVE  /\ i > Len(subs) => c[i][1] = "dele"
                         /\ c[i][1] # "rmd" /\ c[i][1] # "quit"
                <5>1. CASE i \in 1..Len(lists)
                    <6>1. c[i][1] = "list" /\ ~(i > Len(subs))
                        BY <1>11, <1>15, <3>0, <4>4, <5>1
                    <6> QED BY <6>1
                <5>2. CASE i \notin 1..Len(lists)
                    <6>1. c[i][1] = "dele" BY <4>2, <4>4, <5>2
                    <6> QED BY <6>1
                <5> QED BY <5>1, <5>2
            <4>6. Len(c) >= Len(subs) BY <1>11, <1>15, <4>4
            <4>7. \A i \in 1..Len(subs) : c[i] = <<"list", subs[i]>> BY <1>15, <4>4
            <4> QED BY <4>3, <4>4, <4>5, <4>6, <4>7 DEF c
        <3> QED BY <3>1, <3>2
    <2>2. /\ dirDeletions' = 0 /\ emptyDirs' = E2
          /\ Of("rmd", wire') = 0 /\ Of("list", wire') = Of("list", wire) + Len(subs)
        BY <1>3, <1>8, <1>11, <1>13, <1>18
    <2>3. Line' = L1 \o c
        <3>1. messages' \in Seq(Sent) /\ wire \in Seq(Sent) /\ c \in Seq(Sent)
            BY <1>11, SentSeq
        <3>2. (messages' \o wire) \o c = messages' \o (wire \o c)
            BY <3>1, SentAssociative, Zenon
        <3> QED BY <2>1, <3>2, Zenon DEF Line, L1
    <2>4. Pending(L1 \o c) = P1 \cup N /\ ListedOnce(L1 \o c)
        <3>1. c \in Seq(Sent) BY SentSeq
        <3>2. \A i \in 1..Len(c) : i > Len(subs) => ~IsListing(c[i]) BY <2>1 DEF IsListing
        <3>3. Elements(subs) \cap P1 = {} BY <1>4, <1>9
        <3>4. Pending(L1 \o c) = P1 \cup Elements(subs)
              /\ (ListedOnce(L1) => ListedOnce(L1 \o c))
            BY <1>3, <1>8, <1>9, <2>1, <3>1, <3>2, <3>3, PendingSent
        <3> QED BY <1>4, <1>9, <3>4
    <2>5. TreeKnown' BY <1>2, <1>4, <1>10, <1>11, <2>2, <2>3, <2>4 DEF TreeKnown
    <2>6. Balance'
        <3>1. listings' = listings - 1 + Len(subs) BY <1>8
        <3>2. Of("list", wire) \in Nat /\ Of("contents", messages') \in Nat BY <1>12
        <3>3. listings' = Of("list", wire') + Of("contents", messages')
            <4>1. Of("list", wire') = Of("list", wire) + Len(subs) BY <2>2
            <4>2. Len(subs) \in Nat BY <1>11
            <4> QED BY <1>14, <3>1, <3>2, <4>1, <4>2
        <3> QED BY <1>13, <2>2, <3>3 DEF Balance
    <2>7. \A i \in 1..Len(wire') : wire'[i] # <<"quit">>
        <3>1. \A i \in 1..Len(wire) : wire[i] # <<"quit">> BY <1>3 DEF BusyInv
        <3>2. \A i \in 1..Len(wire \o c) : (wire \o c)[i] # <<"quit">>
            BY <1>11, <2>1, <3>1, NoQuitConcat
        <3> QED BY <2>1, <3>2
    <2>8. BusyInv' BY <1>1, <1>3, <2>2, <2>7 DEF BusyInv
    <2>9. PhaseInv' BY <1>1, <1>2, <1>3, <2>6, <2>8 DEF PhaseInv
    <2>10. RemovalInv(wire', exists', refused')
        <3>1. RemovalInv(wire, exists, refused) BY DEF OrderInv
        <3>2. RemovalInv(wire \o c, exists, refused) BY <1>11, <2>1, <3>1, RemovalExtended
        <3> QED BY <1>2, <2>1, <3>2
    <2> QED BY <1>16, <2>5, <2>9, <2>10 DEF OrderInv
<1> QED BY <1>17, <1>18

\* The oldest answer is taken, and what is last stays last.
LEMMA LastReceived ==
    ASSUME NEW A, NEW L \in Seq(A), L # <<>>, Tail(L) # <<>>
    PROVE  Tail(L)[Len(Tail(L))] = L[Len(L)]
OBVIOUS

\* A file is struck off, and after the last one the directories are deleted.
LEMMA DidDeleteFileOrder ==
    ASSUME Shape, Shape', OrderInv, DidDeleteFile PROVE OrderInv'
<1> DEFINE m == Head(messages)
           L1 == messages' \o wire
<1>1. /\ Receives("dele") /\ deletions # <<>>
      /\ UNCHANGED <<conn, deletions, isDeleting, listings, told>>
      /\ files' = Keep(files, File \ {m[2]}) /\ files' \in Seq(File)
      /\ \/ files' = <<>> /\ listings = 0 /\ DeleteDirectories(emptyDirs)
         \/ UNCHANGED <<wire, dirDeletions, emptyDirs>>
    BY DidDeleteFileCases
<1>2. UNCHANGED <<exists, refused, lost>> BY <1>1 DEF Receives
<1>3. /\ ~lost /\ isDeleting /\ Balance /\ BusyInv
      /\ AnswersInv(messages', exists, refused) /\ ContentsInv(messages', exists)
      /\ L1 \in Seq(Sent) /\ L1 = Tail(Line)
      /\ Line \in Seq(Sent) /\ Line # <<>> /\ Line[1] = m
      /\ ListedOnce(Line) => ListedOnce(L1)
      /\ Pending(L1) = Pending(Line)
    BY <1>1, ReceivedOrder
<1>4. /\ messages \in Seq(Message) /\ messages # <<>> /\ m[1] = "dele"
      /\ messages' \in Seq(Message)
      /\ \A k : /\ Of(k, messages) = Of(k, messages') + IF "dele" = k THEN 1 ELSE 0
                /\ Of(k, messages') \in Nat /\ Of(k, wire) \in Nat
    BY <1>1, ReceivesShape
<1>5. /\ Of("rmd", messages) = Of("rmd", messages') /\ Of("rmd", messages') \in Nat
      /\ Of("contents", messages) = Of("contents", messages') /\ Of("contents", messages') \in Nat
      /\ Of("rmd", wire) \in Nat /\ Of("list", wire) \in Nat
    BY <1>4
<1>6. m[2] \notin exists \/ m[2] \in refused
    <2>1. 1 \in 1..Len(messages) /\ messages[1] = m BY <1>4
    <2>2. AnswersInv(messages, exists, refused) BY DEF OrderInv
    <2> HIDE DEF m
    <2> QED BY <1>4, <2>1, <2>2 DEF AnswersInv
<1>7. /\ wire \in Seq(Command) /\ emptyDirs \in Seq(Dir) /\ files \in Seq(File)
      /\ dirDeletions \in Nat /\ Root' = Root
    BY <1>1, ShapeFacts DEF Root
<1>8. Elements(files) \subseteq Elements(files') \cup {m[2]}
    <2>1. Elements(files') = Elements(files) \cap (File \ {m[2]}) BY <1>1, <1>7, KeepElements
    <2>2. Elements(files) \subseteq File BY <1>7 DEF Elements
    <2> QED BY <2>1, <2>2
<1>9. /\ AnswersInv(messages', exists', refused') /\ ContentsInv(messages', exists')
      /\ ToldInv(told', refused')
    BY <1>1, <1>2, <1>3 DEF OrderInv
<1> HIDE DEF m, L1
<1>10. dirDeletions = 0 =>
         /\ ListedOnce(L1)
         /\ TreeInv(Root, emptyDirs, Pending(L1), Elements(files'), exists, refused)
    <2> SUFFICES ASSUME dirDeletions = 0
                 PROVE  /\ ListedOnce(L1)
                        /\ TreeInv(Root, emptyDirs, Pending(L1), Elements(files'), exists, refused)
        OBVIOUS
    <2>1. /\ ListedOnce(Line)
          /\ TreeInv(Root, emptyDirs, Pending(L1), Elements(files), exists, refused)
        BY <1>3 DEF OrderInv, TreeKnown
    <2>2. TreeInv(Root, emptyDirs, Pending(L1), Elements(files'), exists, refused)
        BY <1>6, <1>8, <2>1, FileAnswered
    <2> QED BY <1>3, <2>1, <2>2
<1>11. CASE UNCHANGED <<wire, dirDeletions, emptyDirs>>
    <2>1. Line' = L1 BY <1>11 DEF Line, L1
    <2>2. TreeKnown' BY <1>2, <1>7, <1>10, <1>11, <2>1 DEF TreeKnown
    <2>3. Balance' BY <1>1, <1>3, <1>5, <1>11 DEF Balance
    <2>4. ASSUME dirDeletions > 0
          PROVE  Line' # <<>> /\ Line'[Len(Line')][1] = "rmd" /\ Line'[Len(Line')][2] = Root
        <3>1. Line[Len(Line)][1] = "rmd" /\ Line[Len(Line)][2] = Root BY <1>3, <2>4 DEF BusyInv
        <3>2. Tail(Line) # <<>>
            <4> SUFFICES ASSUME Tail(Line) = <<>> PROVE FALSE
                OBVIOUS
            <4>1. Len(Line) = Len(Tail(Line)) + 1 BY <1>3, TailShape
            <4>2. Len(<<>>) = 0 OBVIOUS
            <4>3. Len(Tail(Line)) = 0 BY <4>2
            <4>4. Len(Line) = 1 BY <4>1, <4>3
            <4> QED BY <1>3, <1>4, <3>1, <4>4
        <3>3. L1[Len(L1)] = Line[Len(Line)] BY <1>3, <3>2, LastReceived
        <3> QED BY <1>3, <2>1, <3>1, <3>2, <3>3
    <2>5. BusyInv' BY <1>1, <1>3, <1>7, <1>11, <2>4 DEF BusyInv
    <2>6. PhaseInv' BY <1>1, <1>2, <1>3, <2>3, <2>5 DEF PhaseInv
    <2>7. RemovalInv(wire', exists', refused') BY <1>2, <1>11 DEF OrderInv
    <2> QED BY <1>9, <2>2, <2>6, <2>7 DEF OrderInv
<1>12. CASE files' = <<>> /\ listings = 0 /\ DeleteDirectories(emptyDirs)
    <2>1. /\ wire' = wire \o Removals(emptyDirs)
          /\ dirDeletions' = dirDeletions + Len(emptyDirs) /\ emptyDirs' = <<>>
        BY <1>3, <1>7, <1>12, DeleteDirectoriesEffect DEF BusyInv
    <2>2. CASE dirDeletions > 0
        <3>1. emptyDirs = <<>> /\ Len(emptyDirs) = 0 BY <1>3, <2>2 DEF BusyInv
        <3>2. Removals(emptyDirs) = <<>>
            <4>1. Removals(emptyDirs) \in Seq(Command) /\ Len(Removals(emptyDirs)) = 0
                BY <1>7, <3>1, RemovalsType
            <4> QED BY <4>1
        <3>3. wire' = wire BY <1>7, <2>1, <3>2
        <3>4. UNCHANGED <<wire, dirDeletions, emptyDirs>> BY <1>7, <2>1, <3>1, <3>3
        <3> QED BY <1>11, <3>4
    <2>3. CASE dirDeletions = 0
        <3>1. /\ Of("list", wire) = 0 /\ Of("contents", messages') = 0
              /\ Of("rmd", wire) = 0 /\ Of("rmd", messages') = 0
            BY <1>3, <1>5, <1>12, <2>3 DEF Balance
        <3>2. Pending(L1) = {} BY <1>4, <1>7, <3>1, NothingPending DEF L1
        <3>3. Elements(files') = {} BY <1>12 DEF Elements
        <3>4. Collected(Root, emptyDirs, {}) /\ Handled(emptyDirs, {}, {}, exists, refused)
            BY <1>10, <2>3, <3>2, <3>3 DEF TreeInv
        <3>5. /\ dirDeletions' = Len(emptyDirs) /\ listings' = 0
              /\ \A i \in 1..Len(wire) : wire[i] # <<"quit">>
              /\ isDeleting' /\ ~lost' /\ conn' = "open" /\ deletions' # <<>>
            BY <1>1, <1>2, <1>3, <1>7, <1>12, <2>1, <2>3 DEF BusyInv
        <3>6. PhaseInv' /\ TreeKnown' /\ RemovalInv(wire', exists', refused')
            BY <1>2, <1>7, <2>1, <3>1, <3>4, <3>5, RemovalsSent
        <3> QED BY <1>9, <3>6 DEF OrderInv
    <2> QED BY <1>7, <2>2, <2>3
<1> QED BY <1>1, <1>11, <1>12

\* The last directory ends the deletion, and the next begins.
LEMMA DidDeleteDirectoryOrder ==
    ASSUME Shape, Shape', OrderInv, DidDeleteDirectory PROVE OrderInv'
<1> DEFINE m == Head(messages)
           L1 == messages' \o wire
<1>1. /\ Receives("rmd") /\ deletions # <<>>
      /\ dirDeletions' = dirDeletions - 1 /\ dirDeletions' \in Nat
      /\ UNCHANGED <<conn, files>>
    BY DidDeleteDirectoryCases
<1>2. UNCHANGED <<exists, refused, lost>> BY <1>1 DEF Receives
<1>3. /\ ~lost /\ isDeleting /\ Balance /\ BusyInv
      /\ AnswersInv(messages', exists, refused) /\ ContentsInv(messages', exists)
      /\ L1 \in Seq(Sent) /\ L1 = Tail(Line)
      /\ Line \in Seq(Sent) /\ Line # <<>> /\ Line[1] = m
    BY <1>1, ReceivedOrder
<1>4. /\ messages \in Seq(Message) /\ messages # <<>> /\ m[1] = "rmd"
      /\ messages' \in Seq(Message)
      /\ \A k : /\ Of(k, messages) = Of(k, messages') + IF "rmd" = k THEN 1 ELSE 0
                /\ Of(k, messages') \in Nat /\ Of(k, wire) \in Nat
    BY <1>1, ReceivesShape
<1>5. /\ Of("rmd", messages) = Of("rmd", messages') + 1 /\ Of("rmd", messages') \in Nat
      /\ Of("contents", messages) = Of("contents", messages') /\ Of("contents", messages') \in Nat
      /\ Of("rmd", wire) \in Nat /\ Of("list", wire) \in Nat
    BY <1>4
<1>6. /\ dirDeletions = Of("rmd", wire) + Of("rmd", messages') + 1
      /\ dirDeletions' = Of("rmd", wire) + Of("rmd", messages')
      /\ dirDeletions > 0
    <2>1. dirDeletions = Of("rmd", wire) + Of("rmd", messages) BY <1>3 DEF Balance
    <2>2. \A a, b \in Nat : /\ a + (b + 1) = a + b + 1 /\ (a + b + 1) - 1 = a + b
                            /\ a + b + 1 > 0
        OBVIOUS
    <2> QED BY <1>1, <1>5, <2>1, <2>2
<1>7. /\ listings = 0 /\ emptyDirs = <<>>
      /\ Line[Len(Line)][1] = "rmd" /\ Line[Len(Line)][2] = Root
    BY <1>3, <1>6 DEF BusyInv
<1>8. ~m[3] => RefusedIn(refused, m[2])
    <2>1. 1 \in 1..Len(messages) /\ messages[1] = m BY <1>4
    <2>2. AnswersInv(messages, exists, refused) BY DEF OrderInv
    <2> HIDE DEF m
    <2> QED BY <1>4, <2>1, <2>2 DEF AnswersInv
<1>9. AnswersInv(messages', exists', refused') /\ ContentsInv(messages', exists')
    BY <1>2, <1>3
<1>10. wire \in Seq(Command) /\ deletions \in Seq(Roots) BY ShapeFacts
<1>11. L1 # <<>> => L1[Len(L1)] = Line[Len(Line)] BY <1>3, LastReceived
<1>12. CASE /\ dirDeletions' # 0
            /\ UNCHANGED <<deletions, told, isDeleting, listings, emptyDirs, wire>>
    <2>1. Line' = L1 BY <1>12 DEF Line
    <2>2. Root' = Root BY <1>12 DEF Root
    <2>3. TreeKnown' BY <1>12 DEF TreeKnown
    <2>4. Balance' BY <1>3, <1>5, <1>6, <1>12 DEF Balance
    <2>5. L1 # <<>>
        <3> SUFFICES ASSUME L1 = <<>> PROVE FALSE
            OBVIOUS
        <3>1. messages' = <<>> /\ wire = <<>> BY <1>4, <1>10
        <3>2. Of("rmd", <<>>) = 0 BY OfEmpty
        <3> QED BY <1>6, <1>12, <3>1, <3>2
    <2> HIDE DEF L1
    <2>6. BusyInv' BY <1>1, <1>3, <1>7, <1>11, <1>12, <2>1, <2>2, <2>5 DEF BusyInv
    <2>7. PhaseInv' BY <1>2, <1>3, <1>12, <2>4, <2>6 DEF PhaseInv
    <2>8. RemovalInv(wire', exists', refused') /\ ToldInv(told', refused')
        BY <1>2, <1>12 DEF OrderInv
    <2> QED BY <1>9, <2>3, <2>7, <2>8 DEF OrderInv
<1>13. ASSUME /\ dirDeletions' = 0 /\ deletions' = Tail(deletions)
              /\ told' = Append(told, <<m[2], m[3]>>)
              /\ \/ /\ deletions' = <<>> /\ isDeleting' = FALSE
                    /\ Send(<< <<"quit">> >>) /\ UNCHANGED <<listings, emptyDirs>>
                 \/ /\ deletions' # <<>> /\ ListFirst(deletions') /\ UNCHANGED isDeleting
       PROVE  OrderInv'
    <2>1. Of("rmd", wire) = 0 /\ Of("rmd", messages') = 0 BY <1>5, <1>6, <1>13
    <2>2. L1 = <<>>
        <3> SUFFICES ASSUME L1 # <<>> PROVE FALSE
            OBVIOUS
        <3>1. L1[Len(L1)][1] = "rmd" BY <1>7, <1>11
        <3>2. \A i \in 1..Len(messages') : messages'[i][1] # "rmd" BY <1>4, <2>1, OfNone
        <3>3. \A i \in 1..Len(wire) : wire[i][1] # "rmd" BY <1>10, <2>1, OfNone
        <3>4. messages' \in Seq(Sent) /\ wire \in Seq(Sent) BY <1>4, <1>10, SentSeq
        <3>5. \A i \in 1..Len(L1) :
                \/ i \in 1..Len(messages') /\ L1[i] = messages'[i]
                \/ i - Len(messages') \in 1..Len(wire) /\ L1[i] = wire[i - Len(messages')]
            BY <3>4, ConcatShape
        <3>6. Len(L1) \in 1..Len(L1) BY <1>3
        <3> HIDE DEF L1
        <3> QED BY <3>1, <3>2, <3>3, <3>5, <3>6
    <2>3. messages' = <<>> /\ wire = <<>> BY <1>4, <1>10, <2>2
    <2>4. ToldInv(told', refused')
        <3>1. told \in Seq(Dir \X BOOLEAN) /\ ToldInv(told, refused)
            BY DEF Shape, TypeOK, OrderInv
        <3> DEFINE t == <<m[2], m[3]>>
        <3>2. t[1] = m[2] /\ t[2] = m[3] OBVIOUS
        <3>3. told' = Append(told, t) BY <1>13
        <3> HIDE DEF t, m
        <3>4. \A A : \A s \in Seq(A) : \A i \in 1..Len(Append(s, t)) :
                \/ i \in 1..Len(s) /\ Append(s, t)[i] = s[i]
                \/ Append(s, t)[i] = t
            OBVIOUS
        <3>5. \A i \in 1..Len(told') : (i \in 1..Len(told) /\ told'[i] = told[i]) \/ told'[i] = t
            BY <3>1, <3>3, <3>4
        <3> QED BY <1>2, <1>8, <3>1, <3>2, <3>5 DEF ToldInv
    <2>5. \A c : <<>> \o <<c>> = <<c>> OBVIOUS
    <2>6. conn = "open" /\ conn' = "open" /\ conn # "none" BY <1>1, <1>3 DEF BusyInv
    <2>7. CASE /\ deletions' = <<>> /\ isDeleting' = FALSE
               /\ Send(<< <<"quit">> >>) /\ UNCHANGED <<listings, emptyDirs>>
        <3>1. wire' = << <<"quit">> >>
            <4>1. wire' = wire \o << <<"quit">> >> BY <2>6, <2>7, QuitEffect
            <4> QED BY <2>3, <2>5, <4>1
        <3>2. \A i \in 1..Len(wire') : wire'[i] = <<"quit">> /\ wire'[i][1] = "quit" BY <3>1
        <3>3. wire' \in Seq(Command) BY DEF Shape, TypeOK
        <3>4. \A i \in 1..Len(wire') : wire'[i][1] # "rmd" /\ wire'[i][1] # "list" BY <3>2
        <3>5. Of("rmd", wire') = 0 /\ Of("list", wire') = 0 BY <3>3, <3>4, OfNone
        <3>6. Of("rmd", messages') = 0 /\ Of("contents", messages') = 0 /\ Len(messages') = 0
            BY <2>3, OfEmpty
        <3>7. Balance' BY <1>7, <1>13, <2>7, <3>5, <3>6 DEF Balance
        <3>8. IdleInv' BY <1>7, <1>13, <2>7, <3>2, <3>6 DEF IdleInv
        <3>9. PhaseInv' BY <1>2, <1>3, <2>7, <3>7, <3>8 DEF PhaseInv
        <3>10. TreeKnown' BY <2>7 DEF TreeKnown
        <3>11. RemovalInv(wire', exists', refused') BY <3>4, RemovalNone
        <3> QED BY <1>9, <2>4, <3>9, <3>10, <3>11 DEF OrderInv
    <2>8. CASE deletions' # <<>> /\ ListFirst(deletions') /\ UNCHANGED isDeleting
        <3>1. deletions' \in Seq(Roots) BY DEF Shape, TypeOK
        <3>2. /\ emptyDirs' = Append(emptyDirs, Root') /\ listings' = listings + 1
              /\ wire' = wire \o << <<"list", Root'>> >>
            <4>1. \A q \in Seq(Roots) : q # <<>> /\ ListFirst(q) =>
                    /\ emptyDirs' = Append(emptyDirs, Head(q)) /\ listings' = listings + 1
                    /\ wire' = wire \o << <<"list", Head(q)>> >>
                BY <2>6, ListFirstShape
            <4> QED BY <2>8, <3>1, <4>1 DEF Root
        <3>3. emptyDirs' = <<Root'>> /\ listings' = 1 /\ wire' = << <<"list", Root'>> >>
            BY <1>7, <2>3, <2>5, <3>2
        <3>4. PhaseInv' /\ TreeKnown' /\ RemovalInv(wire', exists', refused')
            BY <1>2, <1>3, <1>13, <2>3, <2>6, <2>8, <3>3, BegunOrder
        <3> QED BY <1>9, <2>4, <3>4 DEF OrderInv
    <2> QED BY <1>13, <2>7, <2>8
<1> QED BY <1>12, <1>13, DidDeleteDirectoryCases

\* The end that is handled changes nothing of the deletions.
LEMMA DidDisconnectOrder ==
    ASSUME Shape, Shape', OrderInv, DidDisconnect PROVE OrderInv'
<1>1. /\ Receives("disconnected") /\ conn' = "none" /\ wire' = <<>>
      /\ UNCHANGED <<deletions, isDeleting, listings, dirDeletions, files, emptyDirs, told,
                     exists, refused, lost>>
    BY DEF DidDisconnect, Receives, queueVars
<1>2. /\ messages \in Seq(Message) /\ messages # <<>> /\ messages' = Tail(messages)
      /\ Of("disconnected", messages) = Of("disconnected", messages') + 1
      /\ Of("disconnected", messages') \in Nat
    BY <1>1, ReceivesShape
<1>3. conn = "closed" BY <1>2 DEF Shape, ConnInv
<1>4. ~(~lost /\ isDeleting) BY <1>3 DEF OrderInv, PhaseInv, BusyInv
<1>5. ASSUME \A i \in 1..Len(messages) : messages[i][1] = "disconnected"
      PROVE  \A i \in 1..Len(messages') : messages'[i][1] = "disconnected"
    <2>1. \A i \in 1..Len(Tail(messages)) : Tail(messages)[i] = messages[i + 1] /\ i + 1 \in 1..Len(messages)
        BY <1>2, TailShape
    <2> QED BY <1>2, <1>5, <2>1
<1>6. Of("list", <<>>) = 0 /\ Of("rmd", <<>>) = 0 /\ Len(<<>>) = 0 BY OfEmpty
<1>7. PhaseInv'
    <2>1. CASE lost
        <3>1. LostInv BY <2>1 DEF OrderInv, PhaseInv
        <3>2. LostInv' BY <1>1, <1>5, <3>1 DEF LostInv
        <3> QED BY <1>1, <2>1, <3>2 DEF PhaseInv
    <2>2. CASE ~lost
        <3>1. ~isDeleting /\ IdleInv BY <1>4, <2>2 DEF OrderInv, PhaseInv
        <3>2. IdleInv' BY <1>1, <1>5, <1>6, <3>1 DEF IdleInv
        <3>3. Of("contents", messages') = 0 /\ Of("rmd", messages') = 0
            <4>1. messages' \in Seq(Message) BY DEF Shape, TypeOK
            <4>2. \A i \in 1..Len(messages') :
                    messages'[i][1] # "contents" /\ messages'[i][1] # "rmd"
                BY <3>2 DEF IdleInv
            <4> QED BY <4>1, <4>2, OfNone
        <3>4. Balance' BY <1>1, <1>6, <3>2, <3>3 DEF Balance, IdleInv
        <3> QED BY <1>1, <2>2, <3>1, <3>2, <3>4 DEF PhaseInv
    <2> QED BY <2>1, <2>2
<1>8. TreeKnown' BY <1>1, <1>4 DEF TreeKnown
<1>9. RemovalInv(wire', exists', refused') BY <1>1, <1>6, RemovalNone
<1>10. ContentsInv(messages', exists') /\ AnswersInv(messages', exists', refused')
    BY <1>1, <1>2, ContentsTail, AnswersTail DEF OrderInv
<1> QED BY <1>1, <1>7, <1>8, <1>9, <1>10 DEF OrderInv

\* The server lets the connection in everywhere.
LEMMA NoEntryRefused == ASSUME Shape, OrderInv, DidNotChangeToDirectory PROVE FALSE
<1>1. messages # <<>> /\ Head(messages)[1] = "noEntry" /\ messages \in Seq(Message)
    BY ShapeFacts DEF DidNotChangeToDirectory, Receives
<1>2. 1 \in 1..Len(messages) /\ messages[1] = Head(messages) BY <1>1
<1> QED BY <1>1, <1>2 DEF OrderInv, AnswersInv

\* What holds as long as every directory can be entered.
LEMMA NextOrder ==
    ASSUME Shape, Shape', skipped = {} => OrderInv, [Next]_vars, skipped' = {}
    PROVE  OrderInv'
<1>1. ASSUME NEW r \in Roots, Ask(r) PROVE OrderInv'
    <2>1. skipped = {} BY <1>1 DEF Ask
    <2> QED BY <1>1, <2>1, AskOrder
<1>2. CASE CheckConnection
    <2>1. skipped = {} BY <1>2 DEF CheckConnection, ghostVars
    <2> QED BY <1>2, <2>1, CheckConnectionOrder
<1>3. CASE StartDeletion
    <2>1. skipped = {} BY <1>3 DEF StartDeletion
    <2> QED BY <1>3, <2>1, StartDeletionOrder
<1>4. CASE ListsDirectory
    <2>1. skipped = {} BY <1>4 DEF ListsDirectory
    <2> QED BY <1>4, <2>1, ListsDirectoryOrder
<1>5. CASE RefusesEntry BY <1>5 DEF RefusesEntry
<1>6. CASE DeletesItem
    <2>1. skipped = {} BY <1>6 DEF DeletesItem
    <2> QED BY <1>6, <2>1, DeletesItemOrder
<1>7. CASE Disconnects
    <2>1. skipped = {} BY <1>7 DEF Disconnects, ghostVars
    <2> QED BY <1>7, <2>1, DisconnectsOrder
<1>8. CASE DidReceiveContents
    <2>1. skipped = {} BY <1>8 DEF DidReceiveContents, Receives
    <2> QED BY <1>8, <2>1, DidReceiveContentsOrder
<1>9. CASE DidNotChangeToDirectory
    <2>1. skipped = {} BY <1>9 DEF DidNotChangeToDirectory, Receives
    <2> QED BY <1>9, <2>1, NoEntryRefused
<1>10. CASE DidDeleteFile
    <2>1. skipped = {} BY <1>10 DEF DidDeleteFile, Receives
    <2> QED BY <1>10, <2>1, DidDeleteFileOrder
<1>11. CASE DidDeleteDirectory
    <2>1. skipped = {} BY <1>11 DEF DidDeleteDirectory, Receives
    <2> QED BY <1>11, <2>1, DidDeleteDirectoryOrder
<1>12. CASE DidDisconnect
    <2>1. skipped = {} BY <1>12 DEF DidDisconnect, Receives
    <2> QED BY <1>12, <2>1, DidDisconnectOrder
<1>13. CASE UNCHANGED vars
    <2>1. skipped = {} /\ OrderInv BY <1>13 DEF vars, ghostVars
    <2>2. /\ UNCHANGED <<conn, deletions, isDeleting, listings, dirDeletions, files, emptyDirs,
                         wire, exists, messages, told, refused, lost>>
        BY <1>13 DEF vars, queueVars, ghostVars
    <2>3. Root' = Root /\ Line' = Line BY <2>2 DEF Root, Line
    <2>4. PhaseInv' BY <2>1, <2>2, <2>3
          DEF OrderInv, PhaseInv, LostInv, Balance, IdleInv, BusyInv, Of
    <2>5. TreeKnown' BY <2>1, <2>2, <2>3 DEF OrderInv, TreeKnown
    <2> QED BY <2>1, <2>2, <2>4, <2>5 DEF OrderInv
<1> QED BY <1>1, <1>2, <1>3, <1>4, <1>5, <1>6, <1>7, <1>8, <1>9, <1>10, <1>11, <1>12, <1>13
        DEF Next, Background, Server, Delegate

\* At first nothing is under way.
LEMMA InitOrder == Init => OrderInv
<1> SUFFICES ASSUME Init PROVE OrderInv
    OBVIOUS
<1>1. /\ conn = "none" /\ deletions = <<>> /\ ~isDeleting /\ listings = 0 /\ dirDeletions = 0
      /\ files = <<>> /\ emptyDirs = <<>> /\ wire = <<>> /\ messages = <<>> /\ told = <<>>
      /\ ~lost
    BY DEF Init
<1>2. Of("list", <<>>) = 0 /\ Of("rmd", <<>>) = 0 /\ Of("contents", <<>>) = 0 /\ Len(<<>>) = 0
    BY OfEmpty
<1>3. PhaseInv BY <1>1, <1>2 DEF PhaseInv, Balance, IdleInv
<1>4. TreeKnown BY <1>1 DEF TreeKnown
<1>5. /\ ContentsInv(messages, exists) /\ RemovalInv(wire, exists, refused)
      /\ AnswersInv(messages, exists, refused) /\ ToldInv(told, refused)
    BY <1>1, <1>2 DEF ContentsInv, RemovalInv, AnswersInv, ToldInv
<1> QED BY <1>3, <1>4, <1>5 DEF OrderInv

-----------------------------------------------------------------------------
(* Theorems *)

\* The invariant: what recursivelyDeleteDirectory: and the handlers of the second
\* connection's messages keep true of the counters, the lists, the commands under way
\* and the tree, whatever the tree and the refusals are.
THEOREM DeletionCorrect == Spec => []DeletionInv
<1>1. Init => DeletionInv BY InitShape, InitOrder DEF DeletionInv, Shape
<1>2. DeletionInv /\ [Next]_vars => DeletionInv'
    <2> SUFFICES ASSUME DeletionInv, [Next]_vars PROVE DeletionInv'
        OBVIOUS
    <2>1. Shape /\ (skipped = {} => OrderInv) BY DEF DeletionInv, Shape
    <2>2. Shape' BY <2>1, NextShape
    <2>3. skipped' = {} => OrderInv' BY <2>1, <2>2, NextOrder
    <2> QED BY <2>2, <2>3 DEF DeletionInv, Shape
<1> QED BY <1>1, <1>2, PTL DEF Spec

\* The counters, the lists and the messages hold what the code puts there, in a tree of
\* any shape.
THEOREM DeletionTyped == Spec => []TypeOK
<1>1. DeletionInv => TypeOK BY DEF DeletionInv
<1> QED BY <1>1, DeletionCorrect, PTL

\* _numberOfDeletionListingsRemaining and _numberOfDirDeletionsRemaining are the number
\* of the answers to come.
THEOREM CountersAreRight == Spec => []CountersBalance
<1>1. DeletionInv => CountersBalance
    BY DEF DeletionInv, OrderInv, PhaseInv, Balance, CountersBalance
<1> QED BY <1>1, DeletionCorrect, PTL

\* No directory is deleted before what is in it: the list of empty directories, which is
\* taken from its end, has every directory after its parent, and the deletions are sent
\* once everything in every directory of the list is known.
THEOREM DeletesChildrenFirst == Spec => []ChildrenFirst
<1>1. DeletionInv => ChildrenFirst
    <2> SUFFICES ASSUME DeletionInv, skipped = {}, wire # <<>>, Head(wire)[1] = "rmd",
                        NEW x \in Children(Head(wire)[2])
                 PROVE  PartlyRefused(x)
        BY DEF ChildrenFirst
    <2>1. wire \in Seq(Command) /\ RemovalInv(wire, exists, refused)
        BY DEF DeletionInv, TypeOK, OrderInv
    <2>2. 1 \in 1..Len(wire) /\ wire[1] = Head(wire) BY <2>1
    <2>3. x \in ChildrenIn(exists, wire[1][2]) BY <2>2 DEF Children, ChildrenIn
    <2>4. RefusedIn(refused, x) \/ \E j \in 1..(1 - 1) : wire[j] = <<"rmd", x>>
        BY <2>1, <2>2, <2>3 DEF RemovalInv
    <2>5. 1..(1 - 1) = {} OBVIOUS
    <2> QED BY <2>4, <2>5 DEF RefusedIn, PartlyRefused
<1> QED BY <1>1, DeletionCorrect, PTL

\* The delegate is told that a deletion failed only when the server has refused a part
\* of it.
THEOREM FailsOnlyWhenRefused == Spec => []FailsOnlyIfRefused
<1>1. DeletionInv => FailsOnlyIfRefused
    BY DEF DeletionInv, OrderInv, ToldInv, RefusedIn, FailsOnlyIfRefused, PartlyRefused
<1> QED BY <1>1, DeletionCorrect, PTL
=============================================================================
