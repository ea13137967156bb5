SPECIFICATION FairSpec
CONSTANTS
    dele = dele  rmd = rmd  ren = ren  chmod = chmod  get = get  resume = resume
    put = put  list = list
    NoOp = none
    Kind <- MCKind
    Op = {dele, rmd, ren, chmod, get, resume, put, list}
    Sessions <- MCSessions
INVARIANTS QueuesInStep ToldTheRightOne ToldOnce
PROPERTIES TransferHasDataConnection EveryOperationReported RefusedSizeRemovesItsChain
CHECK_DEADLOCK FALSE
