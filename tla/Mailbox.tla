------------------------------ MODULE Mailbox -------------------------------
(***************************************************************************)
(* What CKConnectionThreadManager promises: an invocation posted by any    *)
(* thread is delivered once, in the order of posting, to the target it was *)
(* meant for.                                                              *)
(***************************************************************************)
EXTENDS Sequences, Naturals

CONSTANTS Task, Owner       \* Owner[k]: the target task k is meant for

VARIABLES mail, delivered

mailVars == <<mail, delivered>>

InMail(k) == \E i \in 1..Len(mail) : mail[i].task = k
IsDelivered(k) == \E i \in 1..Len(delivered) : delivered[i].task = k

Init == mail = <<>> /\ delivered = <<>>

Post(k) ==
    /\ ~InMail(k) /\ ~IsDelivered(k)
    /\ mail' = Append(mail, [task |-> k, target |-> Owner[k]])
    /\ UNCHANGED delivered

Deliver ==
    /\ mail # <<>>
    /\ delivered' = Append(delivered, Head(mail))
    /\ mail' = Tail(mail)

Next == (\E k \in Task : Post(k)) \/ Deliver

Spec == Init /\ [][Next]_mailVars
=============================================================================
