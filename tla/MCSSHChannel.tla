---------------------------- MODULE MCSSHChannel -----------------------------
(* What the application does, and what goes wrong, in the sessions checked. *)
EXTENDS SSHChannel

MCUses ==
    {{"open", "read", "blocking", "reset"},
     {"open", "read", "free"},
     {"open", "read", "mode"},
     {"open", "read", "flush", "adjust"},
     {"open", "read", "several"},
     {"open", "write", "blocking", "eof", "close", "wait_closed", "timeout", "disconnect"},
     {"open", "request", "timeout", "disconnect", "reset", "closed"},
     {"open", "request", "x11", "several", "close"},
     {"open", "direct", "several", "timeout"},
     {"open", "read", "poll", "reset", "closed"},
     {"open", "listen", "session_free", "several", "reset"},
     {"open", "request", "x11", "several", "free"},
     {"listen", "free", "several", "timeout"},
     {"open", "listen", "several", "free", "reset"}}
==============================================================================
