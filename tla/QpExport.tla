------------------------------- MODULE QpExport -------------------------------
(***************************************************************************)
(* Exporting QPs to the GPU, src/src/doca_gpunetio.cpp: the registration   *)
(* of UARs with its reference counts, export_qp's choice of NIC handler,   *)
(* the device copies of one QP or of an array, and their withdrawal; and   *)
(* the function the GPU's submit picks for what was exported.              *)
(*                                                                         *)
(* The caller is taken to withdraw an array before the QPs in it, to keep  *)
(* one device copy per QP, and to stop the service before a QP it watches  *)
(* is withdrawn: nothing in the code checks any of this.                   *)
(***************************************************************************)
EXTENDS Naturals, FiniteSets

CONSTANTS
  Qps, Uars,
  None, Multi,      \* no device copy; the array of device copies
  Handlers,         \* NIC handlers callers ask for
  Gdrcopy,          \* support_gdrcopy of the device
  SameAddress,      \* CUDA maps a registered page at its host address
  Faults            \* calls that may fail in this environment

HandlerTypes == {"AUTO", "CPU_PROXY", "SM_DB", "SM_BF", "SM_NO_DBR"}
DbrModes == {"VALID", "NO_DBR_HW", "NO_DBR_SW"}
DeviceModes == {"DBR_VALID", "NO_DBR_EXT"}
FaultTypes == {"register", "device_ptr", "alloc", "copy", "cq_dbr", "multi_calloc", "multi_copy"}
LeakySteps == {"cq_dbr", "multi_calloc", "multi_copy", "multi_unexport"}

Page(q) == <<"page", q>>

ASSUME QpExportAssumption ==
  /\ Handlers \subseteq HandlerTypes
  /\ Faults \subseteq FaultTypes
  /\ Gdrcopy \in BOOLEAN /\ SameAddress \in BOOLEAN
  /\ IsFiniteSet(Qps)
  /\ None \notin Qps \cup {Multi, "page"} /\ Multi \notin Qps \cup {"page"} /\ "page" \notin Qps
  /\ \A q \in Qps : Page(q) \notin Qps \cup {None, Multi}

VARIABLES
  exported,         \* QPs with a doca_gpu_verbs_qp
  uar,              \* QP -> UAR of its verbs QP
  devMode,          \* QP -> send_dbr_mode the device has for it
  handler,          \* QP -> nic_handler its device copy gets
  mode,             \* QP -> send_dbr_mode_ext
  cpuProxy,         \* QPs with cpu_proxy set
  cpuDb,            \* QP -> cpu_db: None, "page", or the copy it points into
  dev,              \* QP -> qp_gpu: None, the QP (a copy of its own) or Multi
  array,            \* QPs in the array the caller holds
  live,             \* copies and doorbell pages allocated
  refcount,         \* registered_uar_refcount
  registered,       \* UARs registered with CUDA
  leaky,            \* steps so far that left something behind: LeakySteps
  last              \* what the last call returned

uarVars == <<refcount, registered>>
qpVars == <<exported, uar, devMode, handler, mode, cpuProxy, cpuDb, dev, array>>
vars == <<qpVars, live, uarVars, leaky, last>>

Init ==
  /\ exported = {} /\ cpuProxy = {} /\ array = {} /\ live = {} /\ registered = {}
  /\ uar \in [Qps -> Uars]
  /\ devMode \in [Qps -> DeviceModes]
  /\ handler = [q \in Qps |-> "AUTO"]
  /\ mode = [q \in Qps |-> "VALID"]
  /\ cpuDb = [q \in Qps |-> None]
  /\ dev = [q \in Qps |-> None]
  /\ refcount = [u \in Uars |-> 0]
  /\ leaky = {}
  /\ last = "none"

-----------------------------------------------------------------------------
(* UAR registration.                                                       *)

ExportUar(u) ==
  /\ refcount' = [refcount EXCEPT ![u] = @ + 1]
  /\ registered' = registered \cup {u}

(* export_uar fails where CUDA does not register the page, or gives no GPU *)
(* address for it, be it registered already.                               *)
UarFails(u) == ("register" \in Faults /\ u \notin registered) \/ "device_ptr" \in Faults

UnexportUarAtOnce(u) ==                     \* seeded bug: unregistered by the first
  /\ refcount' = [refcount EXCEPT ![u] = @ - 1]
  /\ registered' = registered \ {u}

(* unexport_uar is handed the GPU address; its table is keyed by host      *)
(* address, and an address it does not know is refused.                    *)
UnexportUar(u) ==
  IF ~SameAddress
    THEN UNCHANGED uarVars
    ELSE /\ refcount' = [refcount EXCEPT ![u] = @ - 1]
         /\ registered' = IF refcount[u] = 1 THEN registered \ {u} ELSE registered

-----------------------------------------------------------------------------
(* doca_gpu_verbs_export_qp.                                               *)

RefusedNoHandler(q, h, m) ==                \* seeded bug: handler and mode not compared
  \/ m = "NO_DBR_SW" /\ ~Gdrcopy
  \/ m = "VALID" /\ devMode[q] # "DBR_VALID"
  \/ m = "NO_DBR_HW" /\ devMode[q] # "NO_DBR_EXT"

(* What is refused before anything is registered: a handler that writes no *)
(* record where one is asked for, an emulation GDRCopy must serve, and a   *)
(* mode the device does not have.                                          *)
Refused(q, h, m) ==
  \/ h = "SM_NO_DBR" /\ m = "VALID"
  \/ m = "NO_DBR_SW" /\ ~Gdrcopy
  \/ m = "VALID" /\ devMode[q] # "DBR_VALID"
  \/ m = "NO_DBR_HW" /\ devMode[q] # "NO_DBR_EXT"

(* The handler a QP gets once its UAR is registered.                       *)
Chosen(q, h, m) ==
  IF h # "AUTO" THEN h
  ELSE IF devMode[q] = "NO_DBR_EXT" \/ m = "NO_DBR_SW" THEN "SM_NO_DBR" ELSE "SM_DB"

ExportGpu(q, h, m) ==
  /\ q \notin exported
  /\ h # "CPU_PROXY"
  /\ ~Refused(q, h, m)
  /\ ExportUar(uar[q])
  /\ exported' = exported \cup {q}
  /\ handler' = [handler EXCEPT ![q] = Chosen(q, h, m)]
  /\ mode' = [mode EXCEPT ![q] = m]
  /\ cpuProxy' = IF m = "NO_DBR_SW" THEN cpuProxy \cup {q} ELSE cpuProxy
  /\ last' = "export_ok"
  /\ UNCHANGED <<uar, devMode, cpuDb, dev, array, live, leaky>>

(* Asked for, or the way out for AUTO when the UAR cannot be exported.     *)
ToProxy(q, h) == h = "CPU_PROXY" \/ (h = "AUTO" /\ UarFails(uar[q]))

ExportProxy(q, h, m) ==
  /\ q \notin exported
  /\ ~Refused(q, h, m)
  /\ ToProxy(q, h)
  /\ exported' = exported \cup {q}
  /\ handler' = [handler EXCEPT ![q] = "CPU_PROXY"]
  /\ mode' = [mode EXCEPT ![q] = m]
  /\ cpuProxy' = cpuProxy \cup {q}
  /\ cpuDb' = [cpuDb EXCEPT ![q] = "page"]
  /\ live' = live \cup {Page(q)}
  /\ last' = "export_ok"
  /\ UNCHANGED <<uar, devMode, dev, array, uarVars, leaky>>

(* A failure before the UAR leaves nothing.  The CQ's doorbell record is   *)
(* asked for last: the error path then gives back the UAR, by its GPU      *)
(* address, but never the page.                                            *)
ExportFails(q, h, m) ==
  /\ q \notin exported
  /\ \/ /\ \/ Refused(q, h, m) \/ "alloc" \in Faults
           \/ h \notin {"AUTO", "CPU_PROXY"} /\ UarFails(uar[q])
           \/ "cq_dbr" \in Faults /\ h # "CPU_PROXY" /\ SameAddress
        /\ UNCHANGED <<live, uarVars, leaky>>
     \/ /\ "cq_dbr" \in Faults /\ ~Refused(q, h, m)
        /\ h # "CPU_PROXY" /\ ~SameAddress
        /\ ExportUar(uar[q])
        /\ UNCHANGED <<live, leaky>>
     \/ /\ "cq_dbr" \in Faults /\ ~Refused(q, h, m)
        /\ ToProxy(q, h)
        /\ live' = live \cup {Page(q)}
        /\ leaky' = leaky \cup {"cq_dbr"}
        /\ UNCHANGED uarVars
  /\ last' = "export_error"
  /\ UNCHANGED qpVars

-----------------------------------------------------------------------------
(* Device copies.                                                          *)

(* The word the proxy reads, for a QP whose doorbell record is emulated    *)
(* while the GPU rings: sq_wqe_pi of the device copy.                      *)
Emulated(q) == mode[q] = "NO_DBR_SW" /\ handler[q] # "CPU_PROXY"

WordAtExport(q, copy) == cpuDb              \* seeded bug: never moved to the copy
WordIn(q, copy) == IF Emulated(q) THEN [cpuDb EXCEPT ![q] = copy] ELSE cpuDb

(* doca_gpu_verbs_get_qp_dev, the first time.                              *)
GetDev(q) ==
  /\ q \in exported
  /\ dev[q] = None
  /\ live' = live \cup {q}
  /\ dev' = [dev EXCEPT ![q] = q]
  /\ cpuDb' = WordIn(q, q)
  /\ last' = "get_ok"
  /\ UNCHANGED <<exported, uar, devMode, handler, mode, cpuProxy, array, uarVars, leaky>>

GetDevFails(q) ==
  /\ q \in exported
  /\ dev[q] = None
  /\ {"alloc", "copy"} \cap Faults # {}
  /\ last' = "get_error"
  /\ UNCHANGED <<qpVars, live, uarVars, leaky>>

(* doca_gpu_verbs_export_multi_qps_dev.  The QPs point into the array      *)
(* before it is filled, and are left so when the copy fails.               *)
PointInto(Q) ==
  /\ dev' = [q \in Qps |-> IF q \in Q THEN Multi ELSE dev[q]]
  /\ cpuDb' = [q \in Qps |-> IF q \in Q /\ Emulated(q) THEN Multi ELSE cpuDb[q]]

ExportMulti(Q) ==
  /\ Q # {} /\ Q \subseteq exported
  /\ array = {} /\ Multi \notin live
  /\ \A q \in Q : dev[q] = None
  /\ PointInto(Q)
  /\ live' = live \cup {Multi}
  /\ array' = Q
  /\ last' = "multi_ok"
  /\ UNCHANGED <<exported, uar, devMode, handler, mode, cpuProxy, uarVars, leaky>>

ExportMultiFails(Q) ==
  /\ Q # {} /\ Q \subseteq exported
  /\ array = {} /\ Multi \notin live
  /\ \A q \in Q : dev[q] = None
  /\ \/ "alloc" \in Faults /\ last' = "multi_error" /\ UNCHANGED <<dev, cpuDb, live, leaky>>
     \/ /\ "multi_calloc" \in Faults       \* the status is still that of the allocation
        /\ live' = live \cup {Multi}
        /\ leaky' = leaky \cup {"multi_calloc"}
        /\ last' = "multi_ok"
        /\ UNCHANGED <<dev, cpuDb>>
     \/ /\ "multi_copy" \in Faults
        /\ PointInto(Q)
        /\ leaky' = leaky \cup {"multi_copy"}
        /\ last' = "multi_error"
        /\ UNCHANGED live
  /\ UNCHANGED <<exported, uar, devMode, handler, mode, cpuProxy, array, uarVars>>

UnexportMultiKeeps ==                       \* seeded bug: the QPs keep pointing into it
  /\ array # {}
  /\ live' = live \ {Multi}
  /\ array' = {}
  /\ last' = "unexport_ok"
  /\ UNCHANGED <<exported, uar, devMode, handler, mode, cpuProxy, cpuDb, dev, uarVars, leaky>>

(* doca_gpu_verbs_unexport_multi_qps_dev: cpu_db of an emulated QP is left *)
(* pointing into the array.                                                *)
UnexportMulti ==
  /\ array # {}
  /\ dev' = [q \in Qps |-> IF q \in array THEN None ELSE dev[q]]
  /\ live' = live \ {Multi}
  /\ array' = {}
  /\ leaky' = IF \E q \in array : Emulated(q) THEN leaky \cup {"multi_unexport"} ELSE leaky
  /\ last' = "unexport_ok"
  /\ UNCHANGED <<exported, uar, devMode, handler, mode, cpuProxy, cpuDb, uarVars>>

FreedWithoutPage(q) == {dev[q]}             \* seeded bug: the page is not freed
FreedWith(q) == {dev[q]} \cup (IF cpuDb[q] = "page" THEN {Page(q)} ELSE {})

ReleaseUar(q) ==
  IF handler[q] = "CPU_PROXY" THEN UNCHANGED uarVars ELSE UnexportUar(uar[q])

(* doca_gpu_verbs_unexport_qp.                                             *)
Unexport(q) ==
  /\ q \in exported
  /\ q \notin array
  /\ live' = live \ FreedWith(q)
  /\ ReleaseUar(q)
  /\ exported' = exported \ {q}
  /\ cpuProxy' = cpuProxy \ {q}
  /\ cpuDb' = [cpuDb EXCEPT ![q] = None]
  /\ dev' = [dev EXCEPT ![q] = None]
  /\ handler' = [handler EXCEPT ![q] = "AUTO"]
  /\ mode' = [mode EXCEPT ![q] = "VALID"]
  /\ last' = "unexport_ok"
  /\ UNCHANGED <<uar, devMode, array, leaky>>

-----------------------------------------------------------------------------
Next ==
  \/ UnexportMulti
  \/ \E Q \in SUBSET Qps : ExportMulti(Q) \/ ExportMultiFails(Q)
  \/ \E q \in Qps :
       \/ GetDev(q) \/ GetDevFails(q) \/ Unexport(q)
       \/ \E h \in Handlers, m \in DbrModes :
            ExportGpu(q, h, m) \/ ExportProxy(q, h, m) \/ ExportFails(q, h, m)

Spec == Init /\ [][Next]_vars

-----------------------------------------------------------------------------
SubmitDbOnly(q) ==                          \* seeded bug: one handler forgotten
  IF handler[q] = "SM_DB" THEN "submit_db" ELSE "submit_proxy"

(* doca_gpu_dev_verbs_submit on the GPU, for the default template: which   *)
(* function posts the doorbell of a QP.                                    *)
Submit(q) ==
  CASE handler[q] = "SM_DB" -> "submit_db"
    [] handler[q] = "SM_NO_DBR" -> "submit_db_no_dbr"
    [] OTHER -> "submit_proxy"

-----------------------------------------------------------------------------
(* Every variable keeps its type.                                          *)
TypeOK ==
  /\ exported \subseteq Qps /\ cpuProxy \subseteq exported /\ array \subseteq exported
  /\ uar \in [Qps -> Uars] /\ devMode \in [Qps -> DeviceModes]
  /\ handler \in [Qps -> HandlerTypes] /\ mode \in [Qps -> DbrModes]
  /\ \A q \in Qps : /\ cpuDb[q] \in {None, "page", q, Multi}
                    /\ dev[q] \in {None, q, Multi}
  /\ live \subseteq Qps \cup {Multi} \cup {Page(q) : q \in Qps}
  /\ refcount \in [Uars -> 0 .. Cardinality(Qps)] /\ registered \subseteq Uars
  /\ leaky \subseteq LeakySteps

(* Every registration and allocation belongs to a QP or to the array.  A   *)
(* UAR shared by several QPs is registered as long as one of them rings it *)
(* from the GPU and no longer: unexporting one never takes it away from    *)
(* the others, nor does a failed export.  Memory is not lost, whatever     *)
(* fails but the two steps that leave something: the request for the CQ's  *)
(* record in export_qp, and the host buffer of the array's export.         *)
GpuUsers(u) == {q \in exported : uar[q] = u /\ handler[q] # "CPU_PROXY"}
UarBalanced == \A u \in Uars :
  /\ refcount[u] = Cardinality(GpuUsers(u))
  /\ u \in registered <=> refcount[u] > 0
Owned == {Page(q) : q \in {r \in exported : cpuDb[r] = "page"}}
           \cup {q \in exported : dev[q] = q}
           \cup (IF array = {} THEN {} ELSE {Multi})
NothingLost == UarBalanced /\ (leaky \cap {"cq_dbr", "multi_calloc"} = {} => live \subseteq Owned)

(* The word the service thread reads, of a QP it may be asked to progress  *)
(* (and reset_tracking_and_memory writes).  A QP of the CPU proxy has its  *)
(* page.  Where the GPU rings, the word is sq_wqe_pi of the device copy    *)
(* the QP has, never of an earlier one, and the word of a QP that never    *)
(* was in an array is allocated.  The code promises less than one would    *)
(* like: before the first device copy the word is null, unexport_multi     *)
(* leaves the pointer into the array it frees (Forsaken), an array's       *)
(* failed filling too (FillFailed), and the proxy stays on through all of  *)
(* them.  These are the only ways to a word that is not there.             *)
Forsaken(q) == "multi_unexport" \in leaky /\ cpuDb[q] = Multi /\ dev[q] = None
FillFailed(q) == "multi_copy" \in leaky /\ cpuDb[q] = Multi
WordIsRead == \A q \in cpuProxy :
  IF handler[q] = "CPU_PROXY"
    THEN cpuDb[q] = "page" /\ Page(q) \in live
    ELSE /\ dev[q] # None => cpuDb[q] = dev[q]
         /\ cpuDb[q] \in live \cup {None} \/ Forsaken(q) \/ FillFailed(q)

(* What get_qp_dev hands out with success is allocated, but for a QP of an *)
(* array whose filling failed; and the service thread's word is the one    *)
(* GPU threads publish in, with the exceptions of WordIsRead.              *)
PointersLive ==
  /\ WordIsRead
  /\ "multi_copy" \notin leaky => \A q \in exported : dev[q] = None \/ dev[q] \in live

(* The QPs whose handler submit knows: BlueFlame falls to the CPU proxy's  *)
(* function, although no proxy runs for such a QP.                         *)
Submittable == {q \in exported : handler[q] # "SM_BF"}

(* What a kernel submits reaches the device.  A device that reads the      *)
(* doorbell record has somebody writing it: the GPU under the lock, or the *)
(* CPU proxy; and where the GPU hands its index to the CPU proxy, there is *)
(* a page to hand it in (sq_db of every other handler is the UAR).         *)
SubmitReachesDevice == \A q \in Submittable :
  /\ devMode[q] = "DBR_VALID" => Submit(q) = "submit_db" \/ q \in cpuProxy
  /\ Submit(q) = "submit_proxy" => cpuDb[q] = "page"
=============================================================================
