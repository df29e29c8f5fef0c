\* Export: two QPs on one or two UARs; every step may fail.
\* Transfers: a thread and a warp of 2 lanes, two calls between them on a queue of 4.
\* Alone: one thread and a queue of 4, see MCQpExport.
SPECIFICATION ExportSpec
CONSTANTS
  q1 = q1
  q2 = q2
  q3 = q3
  u1 = u1
  u2 = u2
  t1 = t1
  None = None
  Multi = Multi
  Qps = {q1, q2}
  Uars = {u1, u2}
  Handlers = {"AUTO", "CPU_PROXY", "SM_DB", "SM_NO_DBR", "SM_BF"}
  Gdrcopy = TRUE
  SameAddress = TRUE
  Faults = {"register", "device_ptr", "alloc", "copy", "cq_dbr", "multi_calloc", "multi_copy"}
  Threads = {t1}
  WarpSize = 2
  SlotNum = 4
  MaxTransfer = 2
  ThreadCalls <- AllThreadCalls
  WarpCalls <- AllWarpCalls
  MaxCalls = 2
SYMMETRY Symmetry
INVARIANTS
  NothingLost
  PointersLive
  SubmitReachesDevice
  WholeWqes
  MovedOnce
  DataFirst
  AloneSafe
