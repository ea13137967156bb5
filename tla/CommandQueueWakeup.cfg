SPECIFICATION Spec
CONSTANTS
    main = main  worker = worker
    notConnected = notConnected  sentPassword = sentPassword  idle = idle
    sentDisconnect = sentDisconnect  busy = busy  renameTo = renameTo
    awaitingContents = awaitingContents
    a = a  b = b  f = f  q = q  i = i  l = l  p = p  none = none
    NotConnected = notConnected  SentPassword = sentPassword  Idle = idle  SentDisconnect = sentDisconnect
    State <- MCState
    Cmd <- MCCmd
    Await <- MCAwait  Sent <- MCSent  Ready <- MCReady  Kind <- MCKind
    Expand <- MCExpand  LoginCmds <- MCLogin
    Thread = {main}
    UserCmd = {a, i}
    Raising = {}
    HistorySize = 2
    MaxForce = 0
    MaxBulk = 0
    NoCmd = none
INVARIANTS NothingStranded
CHECK_DEADLOCK FALSE
