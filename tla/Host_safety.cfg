\* Memory: three blocks, every step may fail but the insertion, GDRCopy is there.
\* Reset: two, each of which may fail at any place and be tried again, more
\* than two laps of a queue of 2, by both builds of the polls.
\* QP: the masks of QpMasks.  Objects: one of each, UMEMs of host memory.
\* Attributes: every attribute with every library, symbol and origin.
SPECIFICATION Spec
CONSTANTS
  a1 = a1
  a2 = a2
  a3 = a3
  Addrs = {a1, a2, a3}
  LibLoads = TRUE
  EnvDisables = FALSE
  MemFaults = {"cuda_malloc", "set_attr", "mh", "pin", "map", "calloc", "register", "device_ptr"}
  Builds = {TRUE, FALSE}
  CqeNum = 2
  IdxMod = 4
  MaxWqes = 5
  MaxResets = 2
  ResetFaults = {"copy_from", "memset", "copy_to", "sync"}
  Masks <- QpMasks
  GpuUmem = FALSE
  Values = {0, 1, 2, 3}
SYMMETRY Symmetry
CHECK_DEADLOCK FALSE
INVARIANTS
  NothingLost
  PollsTrueWhileCounted
  StateIsKnown
  AttrsAsPromised
  NoNullFollowed
  DeviceMemoryLive
  AllGivenBack
  TakenIsAsked
