------------------------------ MODULE HighLevel ------------------------------
(***************************************************************************)
(* doca_gpunetio_high_level.cpp: a QP with its CQ, their rings, their      *)
(* registrations (UMEMs), a UAR and the export to the GPU are acquired one *)
(* after the other, for one QP or for a main and a companion QP that share *)
(* the UAR; a failure anywhere takes the error path of the function it     *)
(* happens in, then that of its caller.  Destruction releases in the order *)
(* of destroy_qp_hl_internal.                                              *)
(*                                                                         *)
(* A stage acquires one resource; a resource is its kind and the QP it is  *)
(* for.  `undo' holds the releases the running error path or destructor    *)
(* still has to make, each a step of its own, in the order of their turns. *)
(***************************************************************************)
EXTENDS Naturals, Sequences

CONSTANTS
  Groups,     \* is a group created, or a single QP: a set of Booleans
  Handlers,   \* nic_handler asked for
  DbrModes,   \* send_dbr_mode_ext asked for
  Faults      \* what may fail: a stage, by the kind of its resource; "dmabuf":
              \* a registration fails with the descriptor of its memory open

Roles == {"main", "companion"}
CqStages == <<"cq_attr", "cq_mem", "ring", "cq_copy", "cq_umem", "cq">>
QpStages == <<"qp_attr", "qp_mem", "qp_umem", "dbr_mem", "dbr_umem", "qp">>
Kinds == {"cq_attr", "cq_mem", "ring", "cq_umem", "cq", "uar", "qp_attr", "qp_mem",
          "qp_umem", "dbr_mem", "dbr_host", "dbr_umem", "qp", "gverbs"}
Stages == {"uar", "gverbs"} \cup {CqStages[i] : i \in DOMAIN CqStages}
          \cup {QpStages[i] : i \in DOMAIN QpStages}
Umems == {"cq_umem", "qp_umem", "dbr_umem"}

ASSUME HighLevelAssumption ==
  /\ Groups \subseteq BOOLEAN
  /\ Handlers \subseteq {"AUTO", "CPU_PROXY", "GPU_SM_DB", "GPU_SM_BF"}
  /\ DbrModes \subseteq {"VALID_DBR", "NO_DBR_HW", "NO_DBR_SW_EMULATED"}
  /\ Faults \subseteq Kinds \cup {"cq_copy", "dmabuf", "list", "list_copy"}

VARIABLES
  asked,      \* the attributes of the call, and whether the GPU can map a UAR
  pos,        \* the stage of the plan the call is at
  undo,       \* the releases left: when, of what, by which call
  field,      \* role -> kind -> the pointer in the structure, or Null
  handler,    \* role -> nic_handler
  live,       \* the resources there are
  onUar,      \* the resources that use the UAR
  status,     \* of the call
  misused,    \* resources released when they were not live, or by the wrong call
  leaky,      \* failures so far whose error path is incomplete, by stage; "leftover":
              \* the error path freed the buffer an uninitialised pointer held
  list,       \* the flat list of QPs: "none", "delivered" or "lost"
  listed      \* what doca_gpu_verbs_qp_flat_list_create_hl() returned

qpVars == <<asked, pos, undo, field, handler, live, onUar, status, misused, leaky>>
vars == <<qpVars, list, listed>>

Null == <<"null", "null">>
Resources == Kinds \X Roles
NoFields == [k \in Kinds |-> Null]
For(stages, r) == [i \in DOMAIN stages |-> <<stages[i], r>>]

OneQp == For(CqStages \o <<"uar">> \o QpStages \o <<"gverbs">>, "main")
QpOfGroup == CqStages \o QpStages \o <<"gverbs">>
QpGroup == <<<<"uar", "main">>>> \o For(QpOfGroup, "main") \o For(QpOfGroup, "companion")
Plan == IF asked.group THEN QpGroup ELSE OneQp

Init ==
  /\ asked \in [group : Groups, handler : Handlers, dbr : DbrModes, register : BOOLEAN]
  /\ asked.group => asked.handler # "GPU_SM_BF"
  /\ pos = 1
  /\ undo = {}
  /\ field = [r \in Roles |-> NoFields]
  /\ handler = [r \in Roles |-> IF asked.group THEN "AUTO" ELSE asked.handler]
  /\ live = {} /\ onUar = {} /\ misused = {} /\ leaky = {}
  /\ status = "running"
  /\ list = "none" /\ listed = "none"

-----------------------------------------------------------------------------
(* create_qp: AUTO asks whether the GPU can map the UAR; a doorbell mode   *)
(* without record makes GPU_SM_DB GPU_SM_NO_DBR.                           *)
Resolved ==
  LET h == IF asked.handler # "AUTO" THEN asked.handler
           ELSE IF asked.register THEN "GPU_SM_DB" ELSE "CPU_PROXY"
  IN  IF h = "GPU_SM_DB" /\ asked.dbr # "VALID_DBR" THEN "GPU_SM_NO_DBR" ELSE h

(* The doorbell record lies in host memory when the CPU writes it.         *)
DbrOnHostAsked ==                            \* seeded bug: AUTO not resolved
  asked.handler = "CPU_PROXY" \/ asked.dbr = "NO_DBR_SW_EMULATED"
DbrOnHost == Resolved = "CPU_PROXY" \/ asked.dbr = "NO_DBR_SW_EMULATED"
KindOf(stage) == IF stage = "dbr_mem" /\ DbrOnHost THEN "dbr_host" ELSE stage

UarOf(r) == field["main"]["uar"]             \* the companion's is the main QP's

(* Setters refuse a null argument, so a stage needs what earlier ones made.*)
NeedsNoCq(stage, r) ==                       \* seeded bug: a QP without CQ
  /\ stage = "qp_attr" => UarOf(r) # Null
  /\ stage = "gverbs" => field[r]["qp"] # Null
Needs(stage, r) ==
  /\ stage = "qp_attr" => UarOf(r) # Null
  /\ stage = "qp" => field[r]["cq"] # Null
  /\ stage = "gverbs" => field[r]["qp"] # Null

(* What a function releases itself when it has succeeded.                  *)
Temporary(stage, r) ==
  CASE stage = "cq_copy" -> {<<"ring", r>>}
    [] stage = "cq" -> {<<"cq_attr", r>>}
    [] stage = "qp" -> {<<"qp_attr", r>>}
    [] OTHER -> {}

Running(stage, r) ==
  /\ status = "running" /\ undo = {}
  /\ Plan[pos] = <<stage, r>>

Acquire(stage, r) ==
  LET x == <<KindOf(stage), r>>
  IN  /\ Running(stage, r)
      /\ Needs(stage, r)
      /\ pos' = pos + 1
      /\ live' = (live \cup (IF stage = "cq_copy" THEN {} ELSE {x})) \ Temporary(stage, r)
      /\ field' = IF stage = "cq_copy" THEN [field EXCEPT ![r]["ring"] = Null]
                  ELSE [field EXCEPT ![r][x[1]] = x]
      /\ onUar' = IF stage \in {"qp", "gverbs"} \/ (stage = "cq" /\ asked.group /\ UarOf(r) # Null)
                  THEN onUar \cup {x} ELSE onUar
      /\ handler' = IF stage = "qp" THEN [handler EXCEPT ![r] = Resolved] ELSE handler
      /\ status' = IF pos = Len(Plan) THEN "success" ELSE "running"
      /\ UNCHANGED <<asked, undo, misused, leaky, list, listed>>

-----------------------------------------------------------------------------
(* Releases: pointers that are set, in the order of the code.  The error   *)
(* path of a function comes first, then that of its caller: main QP, then  *)
(* companion.                                                              *)
Call(x) == IF x[1] = "dbr_host" THEN "free" ELSE "release"
Held(f, r, kinds, from) ==
  {[turn |-> from + i, of |-> f[r][kinds[i]], by |-> Call(f[r][kinds[i]])] :
     i \in {j \in DOMAIN kinds : f[r][kinds[j]] # Null}}

CqErrorPathNoMem(f, r) ==                    \* seeded bug
  Held(f, r, <<"cq_attr", "cq_umem", "ring">>, 0)
CqErrorPath(f, r) == Held(f, r, <<"cq_attr", "cq_umem", "ring", "cq_mem">>, 0)

(* create_qp's error path gives the record to doca_gpu_mem_free() unless   *)
(* the handler is CPU_PROXY.                                               *)
QpErrorPath(f, r) ==
  Held(f, r, <<"qp_attr", "qp_umem", "qp_mem", "dbr_umem", "dbr_mem">>, 0)
  \cup {[turn |-> 6, of |-> x, by |-> IF Resolved = "CPU_PROXY" THEN "free" ELSE "release"] :
          x \in {f[r]["dbr_host"]} \ {Null}}

Turns(r) == IF r = "main" THEN 6 ELSE 17
DestroyCqFirst(f, r) ==                      \* seeded bug
  Held(f, r, <<"gverbs", "cq", "cq_umem", "cq_mem", "qp", "qp_umem", "qp_mem", "dbr_umem",
               "dbr_mem", "dbr_host", "uar">>, Turns(r))
DestroyInternal(f, r) ==
  Held(f, r, <<"gverbs", "qp", "qp_umem", "qp_mem", "dbr_umem", "dbr_mem", "dbr_host", "uar">>,
       Turns(r))
  \cup IF f[r]["cq"] = Null THEN {}
       ELSE Held(f, r, <<"cq", "cq_umem", "cq_mem">>, Turns(r) + 8)

DestroyAll(f) ==
  DestroyInternal(f, "main")
  \cup IF asked.group THEN DestroyInternal(f, "companion") ELSE {}

WithQp(f, r) == f                            \* seeded bug: pointers kept
WithoutQp(f, r) ==
  [f EXCEPT ![r] = [k \in Kinds |->
     IF k \in {"qp_attr", "qp_umem", "qp_mem", "dbr_umem", "dbr_mem", "dbr_host"}
     THEN Null ELSE f[r][k]]]

(* The pointer a failed doca_gpu_mem_alloc() leaves in umem_dev_ptr: the   *)
(* local variable, uninitialised or holding the ring it was used for last. *)
FailedAlloc(stage, r) ==
  IF stage = "dbr_mem" THEN {field[r]["qp_mem"]}
  ELSE {Null} \cup {x \in live : x[1] \in {"cq_mem", "qp_mem"}}

(* The error paths, and whether the caller is told.                        *)
FailCq(stage, r, f) ==
  IF stage = "cq_copy"
  THEN /\ undo' = CqErrorPath(f, r)          \* create_cq returns DOCA_SUCCESS
       /\ status' = "running"
       /\ pos' = pos + 3
  ELSE /\ undo' = CqErrorPath(f, r) \cup DestroyAll(f)
       /\ status' = "error"
       /\ pos' = pos

FailQp(stage, r, f) ==
  IF KindOf(stage) = "dbr_host"
  THEN /\ undo' = QpErrorPath(f, r)          \* create_qp returns DOCA_SUCCESS
       /\ status' = "running"
       /\ pos' = pos + 3
  ELSE /\ undo' = QpErrorPath(f, r) \cup DestroyAll(WithoutQp(f, r))
       /\ status' = "error"
       /\ pos' = pos

FailExport ==                                \* returns without an error path
  /\ undo' = {} /\ pos' = pos
  /\ status' = "error"

FailUar(f) ==
  IF asked.handler = "GPU_SM_BF"
  THEN undo' = DestroyAll(f) /\ pos' = pos /\ status' = "error"
  ELSE undo' = {} /\ pos' = pos + 1 /\ status' = "running"   \* DOCA_SUCCESS

Fail(stage, r) ==
  /\ Running(stage, r)
  /\ KindOf(stage) \in Faults \/ ~Needs(stage, r)
  /\ \E left \in IF stage \in {"cq_mem", "qp_mem"} \/ (stage = "dbr_mem" /\ ~DbrOnHost)
                 THEN FailedAlloc(stage, r) ELSE {Null},
        fd \in IF stage \in Umems /\ "dmabuf" \in Faults THEN BOOLEAN ELSE {FALSE} :
       LET f == IF left = Null THEN field ELSE [field EXCEPT ![r][stage] = left]
       IN  /\ CASE stage \in {CqStages[i] : i \in DOMAIN CqStages} -> FailCq(stage, r, f)
                [] stage = "uar" -> FailUar(f)
                [] stage = "gverbs" -> FailExport
                [] OTHER -> FailQp(stage, r, f)
           /\ live' = IF fd THEN live \cup {<<"dmabuf", r>>} ELSE live
           /\ leaky' = leaky \cup (IF fd THEN {"dmabuf"} ELSE {})
                            \cup ({KindOf(stage)} \cap {"gverbs", "dbr_host"})
                            \cup (IF left \in live /\ stage # "dbr_mem" THEN {"leftover"} ELSE {})
           /\ field' = IF stage \in {QpStages[i] : i \in DOMAIN QpStages} THEN WithoutQp(f, r) ELSE f
  /\ UNCHANGED <<asked, handler, onUar, misused, list, listed>>

(* One release.  doca_gpu_mem_free() refuses what is not in its table.     *)
Refused(u) ==
  /\ u.by = "release"
  /\ u.of[1] = "dbr_host" \/ (u.of \notin live /\ u.of[1] \in {"cq_mem", "qp_mem", "dbr_mem"})

Release ==
  \E u \in undo :
    /\ \A v \in undo : u.turn <= v.turn
    /\ live' = IF Refused(u) THEN live ELSE live \ {u.of}
    /\ leaky' = IF Refused(u) /\ u.of \in live THEN leaky \cup {"emulated"} ELSE leaky
    /\ misused' = IF Refused(u) \/ u.of \in live THEN misused ELSE misused \cup {u.of}
    /\ undo' = undo \ {u}
    /\ UNCHANGED <<asked, pos, field, handler, onUar, status, list, listed>>

Destroy ==
  /\ status = "success"
  /\ status' = "destroyed"
  /\ undo' = DestroyAll(field)
  /\ field' = [r \in Roles |-> NoFields]
  /\ UNCHANGED <<asked, pos, handler, live, onUar, misused, leaky, list, listed>>

-----------------------------------------------------------------------------
(* A flat list: an array on the GPU with a copy of each QP.  When a copy   *)
(* fails, status is still DOCA_SUCCESS, and cudaFree() gets the address of *)
(* the caller's pointer instead of the array.                              *)
FlatListCreate ==
  /\ status = "success" /\ list = "none"
  /\ \/ list' = "delivered" /\ listed' = "success"
     \/ "list_copy" \in Faults /\ list' = "lost" /\ listed' = "success"
     \/ "list" \in Faults /\ list' = "none" /\ listed' = "error"
  /\ UNCHANGED qpVars

FlatListDestroy ==
  /\ list = "delivered"
  /\ list' = "none" /\ listed' = "none"
  /\ UNCHANGED qpVars

Next ==
  \/ Release \/ Destroy \/ FlatListCreate \/ FlatListDestroy
  \/ \E stage \in Stages, r \in Roles : Acquire(stage, r) \/ Fail(stage, r)

Spec == Init /\ [][Next]_vars

-----------------------------------------------------------------------------
(* Every variable keeps its type, and AUTO is resolved in every QP.        *)
TypeOK ==
  /\ pos \in 1 .. Len(Plan) + 1
  /\ undo \subseteq [turn : 1..28, of : Resources, by : {"free", "release"}]
  /\ field \in [Roles -> [Kinds -> Resources \cup {Null}]]
  /\ handler \in [Roles -> {"AUTO", "CPU_PROXY", "GPU_SM_DB", "GPU_SM_BF", "GPU_SM_NO_DBR"}]
  /\ \A r \in Roles : <<"qp", r>> \in live => handler[r] # "AUTO"
  /\ live \subseteq Resources \cup {<<"dmabuf", r>> : r \in Roles}
  /\ onUar \subseteq Resources /\ misused \subseteq Resources
  /\ leaky \subseteq Kinds \cup {"dmabuf", "leftover", "emulated"}
  /\ status \in {"running", "success", "error", "destroyed"}
  /\ list \in {"none", "delivered", "lost"} /\ listed \in {"none", "success", "error"}

(* A call that returned success made all there is of every QP it returns,  *)
(* with no temporary left, whatever failed silently on the way; and the    *)
(* record lies where its writer can store to it: in GPU memory for a GPU   *)
(* that keeps it, in host memory for the CPU proxy and its emulation.      *)
Whole(r) == {<<k, r>> : k \in {"cq_mem", "cq_umem", "cq", "qp_mem", "qp_umem", "dbr_umem",
                               "qp", "gverbs"}} \cup {<<KindOf("dbr_mem"), r>>, <<"uar", "main">>}
RecordReachable(r) ==
  /\ handler[r] \in {"GPU_SM_DB", "GPU_SM_BF"} /\ asked.dbr = "VALID_DBR" => <<"dbr_mem", r>> \in live
  /\ handler[r] = "CPU_PROXY" \/ asked.dbr = "NO_DBR_SW_EMULATED" => <<"dbr_host", r>> \in live
SuccessIsWhole == status = "success" =>
  /\ live = Whole("main") \cup IF asked.group THEN Whole("companion") ELSE {}
  /\ \A r \in Roles : <<"qp", r>> \in live => RecordReachable(r)

(* "DOCA_SUCCESS - in case of success. doca_error code - in case of        *)
(* failure": all of it or nothing.  A call that failed, or destroyed,      *)
(* leaves nothing behind, unless one of four steps failed on the way: the  *)
(* export, the calloc of the record, a registration with a dmabuf, or, for *)
(* a GPU handler whose record is emulated, a step after the record's.      *)
AllOrNothing ==
  /\ SuccessIsWhole
  /\ /\ status \in {"error", "destroyed"} /\ undo = {}
     /\ leaky \cap {"gverbs", "dbr_host", "dmabuf", "emulated"} = {}
     => live = {}

(* An object goes once, by its own allocator, and before what it stands    *)
(* on: a registration before its memory, a CQ or QP before its UMEMs, a QP *)
(* before its CQ and everything on a UAR before the UAR; a call that fails *)
(* in creating one QP releases none of what is in use.  The exceptions: a  *)
(* group's UAR goes with its main QP, before the companion, and a leftover *)
(* pointer is freed.                                                       *)
StandsOn(x) ==
  LET r == x[2]
  IN  (CASE x[1] = "cq_umem" -> {<<"cq_mem", r>>}
         [] x[1] = "cq" -> {<<"cq_umem", r>>}
         [] x[1] = "qp_umem" -> {<<"qp_mem", r>>}
         [] x[1] = "dbr_umem" -> {<<KindOf("dbr_mem"), r>>}
         [] x[1] = "qp" -> {<<"cq", r>>, <<"qp_umem", r>>, <<"dbr_umem", r>>}
         [] x[1] = "gverbs" -> {<<"qp", r>>}
         [] OTHER -> {})
      \cup IF x \in onUar /\ ~asked.group THEN {<<"uar", "main">>} ELSE {}
ReleasedInOrder ==
  /\ misused = {}
  /\ "leftover" \notin leaky => \A x \in live : StandsOn(x) \subseteq live
=============================================================================
