\* Two GPU threads on two slots and two CQEs, in the modes of MCSendQueueModes;
\* the fifth WQE begins the third lap, with a producer index that wraps.
SPECIFICATION ModesSpec
CONSTANTS
  t1 = t1
  t2 = t2
  Threads = {t1, t2}
  WqeNum = 2
  CqeNum = 2
  IdxMod = 5
  Counts = {1, 2}
  MaxWqes = 5
  FewerWqes = 4
  Sharing = "GPU"
  ReadyMode = "ATOMIC_CAS"
  WqeCounterCheck = TRUE
  SkipDbRinging = FALSE
  Errors = TRUE
SYMMETRY Symmetry
INVARIANTS
  TypeOK
  PublishedIntact
  DoorbellCoversReady
  NoLostDoorbell
  SuccessIsTrue
  ErrorIsTrue
PROPERTIES
  DbrMovesForward
  ImplementsWorkQueue
