SPECIFICATION Spec
CONSTANTS
    dele = dele  rmd = rmd  ren = ren  chmod = chmod  get = get  resume = resume
    put = put  list = list
    NoOp = none
    Kind <- MCKind
    Op = {dele, rmd, ren, chmod, get, resume, put, list}
    Sessions <- RetrRefused
INVARIANTS RemovesOnlyItsOwn
CHECK_DEADLOCK FALSE
