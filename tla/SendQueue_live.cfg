\* No errors: everything reserved completes and every poll returns, with either way
\* to publish (LD_ST without slot waits, which do not depend on it).
SPECIFICATION LiveSpec
CONSTANTS
  t1 = t1
  t2 = t2
  Threads = {t1, t2}
  WqeNum = 2
  CqeNum = 2
  IdxMod = 4
  Counts = {1, 2}
  MaxWqes = 3
  FewerWqes = 2
  Sharing = "GPU"
  ReadyMode = "ATOMIC_CAS"
  WqeCounterCheck = FALSE
  SkipDbRinging = FALSE
  Errors = FALSE
PROPERTIES
  EveryWqeCompletes
  PollReturns
