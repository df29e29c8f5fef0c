\* One QP or a group, of every handler and doorbell mode; every stage may fail.
\* Layout: requests below, at and above the limits of the device and of the rounding.
SPECIFICATION HlSpec
CONSTANTS
  Groups = {FALSE, TRUE}
  Handlers = {"AUTO", "CPU_PROXY", "GPU_SM_DB", "GPU_SM_BF"}
  DbrModes = {"VALID_DBR", "NO_DBR_HW", "NO_DBR_SW_EMULATED"}
  Faults = {"cq_attr", "cq_mem", "ring", "cq_copy", "cq_umem", "cq", "uar", "qp_attr", "qp_mem", "qp_umem", "dbr_mem", "dbr_host", "dbr_umem", "qp", "gverbs", "dmabuf", "list", "list_copy"}
  MaxQpWr = 32768
  MaxRqDesc = 512
  MaxSqDesc = 1024
  MaxSendWqebb = 32768
  MaxCqe = 4194303
  MaxSrqWr = 32767
  MaxSrqSge = 31
  Wrs = {0, 1, 3, 5, 100, 32768, 3000000}
  Sges = {0, 1, 2, 3, 32, 63}
  Inlines = {0, 28, 29, 1000}
  CqSizes = {0, 1, 3, 64, 4194304}
  Offsets = {0, 4096}
  HlSizes = {0, 1, 3, 1024, 32768, 32769, 65535}
CHECK_DEADLOCK FALSE
INVARIANTS
  AllOrNothing
  ReleasedInOrder
  RoomAsAsked
  DeviceAgrees
