---------------------------- MODULE SSHSubsystems ----------------------------
(***************************************************************************)
(* What is done over a channel of an SSH session: files with sftp.c and     *)
(* scp.c, keys with publickey.c.  A session here uses one of them.          *)
(***************************************************************************)
EXTENDS SFTP, PublicKey, SCP

ASSUME ServicesAssumption ==
    \A s \in Scenarios : s.service \in {"sftp", "publickey", "scp"}

Init ==
    /\ scenario \in Scenarios
    /\ call = Idle
    /\ chan = NewChannel
    /\ client = CASE scenario.service = "sftp" -> SFTPClient
                  [] scenario.service = "publickey" -> PKeyClient
                  [] scenario.service = "scp" -> SCPClient
    /\ server = CASE scenario.service = "sftp" -> SFTPServer
                  [] scenario.service = "publickey" -> PKeyServer
                  [] scenario.service = "scp" -> SCPServer

Of(service) == scenario.service = service
Begins == \/ Of("sftp") /\ SFTPBegins
          \/ Of("publickey") /\ PKeyBegins
          \/ Of("scp") /\ SCPBegins
Continues == \/ Of("sftp") /\ SFTPContinues
             \/ Of("publickey") /\ PKeyContinues
             \/ Of("scp") /\ SCPContinues
ServerServes == \/ Of("sftp") /\ SFTPServes
                \/ Of("publickey") /\ PKeyServes
                \/ Of("scp") /\ SCPServes
Delivers == Arrives \/ CloseArrives

Next == \/ Begins \/ Continues \/ ServerServes \/ Delivers \/ ServerExits
        \/ Of("scp") /\ ServerRefuses

Spec == Init /\ [][Next]_vars /\ WF_vars(Continues) /\ WF_vars(ServerServes)
             /\ WF_vars(Delivers)

----------------------------------------------------------------------------
(* Properties *)

\* Everything that is on its way between the two sides, and every reply that waits
\* to be asked for, belongs to the call that is being made; nothing is left over
\* when the call returns. So no reply can go to another request, although the
\* numbers of requests are not compared. The bytes of a file are no reply.
InFlight ==
    {chan.out[i].req : i \in DOMAIN chan.out}
    \cup {u.packet : u \in ToSet(chan.in \o chan.wire)}
    \cup (IF Of("sftp") THEN ToSet(client.packets) ELSE {})
RepliesAreDue ==
    chan.open /\ call.fn # "adrift" /\ ~server.gone =>
        \A p \in InFlight :
            (Of("scp") /\ p.type \in {"file", "ack"}) \/ (Pending /\ p.id = call.req.id)

\* A list of keys that is handed out is all the keys, and a refusal says what the server
\* meant.
KeysAreWhole ==
    /\ client.fetched /\ ~server.gone /\ call = Idle =>
          client.list = [i \in 1 .. server.keys |-> i]
    /\ client.error \in ToSet(StatusCodes) => client.error = server.meant

\* Not a byte of a file that is sent is lost, or made up.
SendIsWhole ==
    chan.open /\ client.direction = "send" => client.moved = server.got + Len(chan.out)

\* The attributes that are read as they were written: with longs of 64 bits those without
\* a word that is negative as an int (of the size, the low one); with longs of 32 bits all
\* but a size of 4 GiB or more.
ReadsBack(f, ws) ==
    IF Uses("lp64") THEN \A i \in DOMAIN ws : ws[i] < SignBit \/ (f = "SIZE" /\ i = 1)
    ELSE f = "SIZE" => ws[1] = 0

\* The attributes the application is told of are the file's, those it last set, each as
\* it was set if it is one that reads back, and
\* what it sets them with has the length that was announced; keys and refusals are the
\* server's; a file begins where the application begins to read, or to write, and is whole.
TransfersAreWhole ==
    /\ Of("sftp") =>
          /\ client.known # NoAttrs =>
                /\ DOMAIN client.known = DOMAIN server.attrs
                /\ \A f \in DOMAIN server.attrs :
                      ReadsBack(f, server.attrs[f]) => client.known[f] = server.attrs[f]
          /\ \A i \in DOMAIN chan.out :
                chan.out[i].req.size = 1 + Len(chan.out[i].req.attrs.words)
    /\ Of("publickey") => KeysAreWhole
    /\ Of("scp") /\ chan.open /\ client.direction = "recv" =>
          client.moved + Len(SelectSeq(chan.in \o chan.wire, LAMBDA u : u.packet.type = "file"))
              = IF server.next = "over" THEN ScpSize ELSE 0
    /\ Of("scp") => SendIsWhole

\* Every call returns, if the server does not close the channel in the middle of a packet;
\* or the connection is lost, and the call tries to read for ever, with nothing to read.
CallsReturn == Pending ~> ~Pending \/ Spins
=============================================================================
