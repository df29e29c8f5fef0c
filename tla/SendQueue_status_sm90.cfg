\* From sm_90 on a poll looks at the owner bit only: two laps later the slot
\* reads as if it were still the CQE asked about.
SPECIFICATION Spec
CONSTANTS
  t1 = t1
  t2 = t2
  Threads = {t1, t2}
  WqeNum = 2
  CqeNum = 2
  IdxMod = 8
  Counts = {1, 2}
  MaxWqes = 5
  Sharing = "GPU"
  ReadyMode = "ATOMIC_CAS"
  WqeCounterCheck = FALSE
  SkipDbRinging = FALSE
  Errors = TRUE
SYMMETRY Symmetry
INVARIANT
  ErrorIsTrue
