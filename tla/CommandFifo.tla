---------------------------- MODULE CommandFifo -----------------------------
(***************************************************************************)
(* What a command queue promises, without threads, locks or flags: the     *)
(* commands are issued in the order of the queue, each once, a command is  *)
(* written to the server only when none before it is unanswered, and only  *)
(* a disconnect discards any.                                              *)
(***************************************************************************)
EXTENDS Sequences, Naturals

CONSTANTS Cmd, UserCmd, Wire, LoginCmds, NoCmd

VARIABLES
    pending,    \* the commands waiting, in the order they will be issued
    inFlight,   \* the command written to the server and not answered, or NoCmd
    queued,     \* the commands clients have queued
    issued      \* the commands issued, in order

fifoVars == <<pending, inFlight, queued, issued>>

Init ==
    /\ pending = <<>> /\ inFlight = NoCmd /\ queued = <<>> /\ issued = <<>>

Submit(c) ==
    /\ c \notin {queued[i] : i \in 1..Len(queued)}
    /\ pending' = Append(pending, c)
    /\ queued' = Append(queued, c)
    /\ UNCHANGED <<inFlight, issued>>

Issue ==
    /\ pending # <<>> /\ inFlight = NoCmd
    /\ issued' = Append(issued, Head(pending))
    /\ pending' = Tail(pending)
    /\ inFlight' = IF Head(pending) \in Wire THEN Head(pending) ELSE NoCmd
    /\ UNCHANGED queued

Answer ==
    /\ inFlight # NoCmd /\ inFlight' = NoCmd
    /\ UNCHANGED <<pending, queued, issued>>

\* A login goes in front of what waits.
InsertLogin ==
    /\ inFlight = NoCmd
    /\ pending' = LoginCmds \o pending
    /\ UNCHANGED <<inFlight, queued, issued>>

Discard ==
    /\ pending' = <<>> /\ inFlight' = NoCmd
    /\ UNCHANGED <<queued, issued>>

Next ==
    \/ \E c \in UserCmd : Submit(c)
    \/ Issue \/ Answer \/ InsertLogin \/ Discard

Spec == Init /\ [][Next]_fifoVars
=============================================================================
