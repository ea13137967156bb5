--------------------------- MODULE MCSSHSubsystems ---------------------------
(* The sessions checked: the calls made in each, and what goes wrong. *)
EXTENDS SSHSubsystems

Scenario(service, does) == [service |-> service, uses |-> does]
\* A size of more than 4 GiB, whose low word is negative; a user of -2; and small words.
MCAttrSets ==
    {"SIZE" :> <<1, 9>> @@ "PERMISSIONS" :> <<3>>,
     "SIZE" :> <<0, 5>> @@ "UIDGID" :> <<14, 6>> @@ "ACMODTIME" :> <<7, 2>>,
     "PERMISSIONS" :> <<7>> @@ "ACMODTIME" :> <<4, 5>>}
MCScenarios ==
    {Scenario("sftp", {"open", "read", "write", "close", "fstat"}),
     Scenario("sftp", {"open", "read", "seek"}),
     Scenario("sftp", {"open", "read", "exits"}),
     Scenario("sftp", {"open", "opendir", "readdir", "close"}),
     Scenario("sftp", {"open", "unlink", "mkdir", "rmdir", "rename", "stat", "exits"}),
     Scenario("sftp", {"open", "symlink", "readlink", "realpath", "exits"}),
     Scenario("sftp", {"open", "fsetstat", "fstat", "stat"}),
     Scenario("sftp", {"open", "fsetstat", "fstat", "lp64"}),
     Scenario("sftp", {"setstat", "stat", "lp64"}),
     Scenario("sftp", {"open", "read", "lost"}),
     Scenario("sftp", {"open", "read", "splits"}),
     Scenario("publickey", {"exits"}),
     Scenario("publickey", {"splits"}),
     Scenario("publickey", {"lost"}),
     Scenario("scp", {"recv", "send", "times", "exits"}),
     Scenario("scp", {"recv", "send", "lost"}),
     Scenario("scp", {"recv", "send"})}
==============================================================================
