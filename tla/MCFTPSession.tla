---------------------------- MODULE MCFTPSession ----------------------------
(* Small sessions of FTPSession. *)
EXTENDS FTPSession

CONSTANTS dele, rmd, ren, chmod, get, resume, put, list

MCKind == [o \in Op |->
    CASE o = dele   -> "deleteFile"
      [] o = rmd    -> "deleteDirectory"
      [] o = ren    -> "rename"
      [] o = chmod  -> "setPermissions"
      [] o = get    -> "download"
      [] o = resume -> "resumeDownload"
      [] o = put    -> "upload"
      [] o = list   -> "directoryContents"]

\* Refusals that leave the queues in step, and those that do not.
Session(ops, refused) == [ops |-> ops, refused |-> refused]
MCSessions ==
    LET Broken == {"SIZE", "RETR", "STOR", "DATA_CON", "ABORT", "REST", "RNFR", "CLOSES"}
        Unreported == {"IDLES", "STUCK"}
    IN  {Session({dele, rmd, ren, chmod}, {"DELE", "RMD", "RNTO", "CHMOD"}),
         Session({dele, rmd, get, list}, {"DELE", "RNTO", "DATA_CON"}),
         Session({dele, get, list}, Unreported), Session({put, get, list}, Unreported),
         Session({get, put, ren}, Broken), Session({get, put, resume}, Broken)}
RetrRefused == {Session({get, dele}, {"RETR"})}
=============================================================================
