\* One thread that polls a collapsed CQ of 2 while the QP submits; no errors.
SPECIFICATION Spec
CONSTANTS
  Threads = {t1}
  WqeNum = 2
  CqeNum = 2
  IdxMod = 8
  MaxWqes = 4
  Errors = FALSE
CHECK_DEADLOCK FALSE
INVARIANT
  PolledIsComplete
