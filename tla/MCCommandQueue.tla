--------------------------- MODULE MCCommandQueue ---------------------------
(* Small sessions of CommandQueue: what each command awaits and sets. *)
EXTENDS CommandQueue, TLC

CONSTANTS main, worker, notConnected, sentPassword, idle, sentDisconnect, busy,
    renameTo, awaitingContents, a, b, f, q, i, l, p, none

MCState ==
    {notConnected, sentPassword, idle, sentDisconnect, busy, renameTo, awaitingContents}
MCCmd == {a, b, f, q, i, l, p}

\* a: an ordinary command; f, b: RNFR and RNTO, which awaits the state RNFR's reply
\* sets; q: disconnect; i: an invocation; l: a listing; p: the login's PWD.
MCAwait == [c \in MCCmd |-> IF c = b THEN renameTo ELSE idle]
MCSent == [c \in MCCmd |->
    CASE c = q -> sentDisconnect [] c = i -> idle [] c = l -> awaitingContents
      [] OTHER -> busy]
MCReady == [c \in MCCmd |-> IF c = f THEN renameTo ELSE idle]
MCKind == [c \in MCCmd |->
    CASE c = q -> "quit" [] c = i -> "invocation" [] c = l -> "listing"
      [] OTHER -> "wire"]
MCExpand == [c \in MCCmd |-> IF c = l THEN <<p>> ELSE <<>>]
MCLogin == <<p>>
=============================================================================
