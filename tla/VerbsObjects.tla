---------------------------- MODULE VerbsObjects ----------------------------
(***************************************************************************)
(* Creating and destroying the verbs objects of src/src/doca_verbs_*.cpp:  *)
(* device, UAR, UMEM, CQ and QP with their attributes, SRQ; one of each.   *)
(* Every call but the SRQ's tries the DOCA SDK first, each source file     *)
(* through a wrapper of its own, and goes on with the open implementation  *)
(* when the wrapper says NOT_FOUND or NOT_SUPPORTED.  An open CQ, QP or    *)
(* SRQ acquires its resources stage by stage and gives them back in one    *)
(* function, which the constructor's catch, the public destroy and the     *)
(* destructor share.                                                       *)
(*                                                                         *)
(* Left out: memalign and new failing; DOCA_SDK_LIB_PATH changing while    *)
(* the process runs.  The attributes of a QP have their PD when it is      *)
(* created.  A behaviour ends where something is lost for good.            *)
(***************************************************************************)
EXTENDS Naturals, Sequences

CONSTANT GpuUmem    \* UMEMs are of GPU memory, by dmabuf file descriptor

ASSUME GpuUmemAssumption == GpuUmem \in BOOLEAN

Objects == {"dev", "uar", "umem", "cq_attr", "cq", "qp_attr", "qp", "srq"}
Wrappers == {"dev", "uar", "umem", "cq", "qp"}
WrapperOf(o) == CASE o = "cq_attr" -> "cq" [] o = "qp_attr" -> "qp" [] OTHER -> o
AttrOf(o) == IF o = "cq" THEN "cq_attr" ELSE "qp_attr"

VARIABLES
  lib,              \* the wrappers that find their SDK libraries and symbols
  handle,           \* of each object: "none", "sdk" or "open"
  res,              \* of each object: the resources it holds
  ext,              \* of each object: what it was given, of a UAR and a UMEM
  pd_set,           \* the QP attributes have their protection domain
  leaked,           \* ghost: what no handle leads to any more, and why
  crashed           \* a null pointer has been dereferenced

objVars == <<lib, handle, res, ext, pd_set, leaked, crashed>>

ObjInit ==
  /\ lib \in {{}, Wrappers} \cup {Wrappers \ {w} : w \in Wrappers}
  /\ handle = [o \in Objects |-> "none"]
  /\ res = [o \in Objects |-> {}]
  /\ ext = [o \in Objects |-> {}]
  /\ pd_set = FALSE
  /\ leaked = {}
  /\ crashed = FALSE
-----------------------------------------------------------------------------
(* Stages.                                                                 *)

\* device_attr, the buffer, its registration, the doorbell page, the DevX object.
UarStages == <<"uar">>
UmemStages == <<"umem">>
NoStages == <<>>    \* a device and attributes are memory of the process

\* What is given, of x, is not made; with a UMEM comes its buffer.
GivenStages(x) == IF "umem" \in x THEN IF "uar" \in x THEN <<"attr", "obj">> ELSE <<"attr", "uar", "obj">>
                  ELSE <<"attr", "buf", "umem", "obj">>
CqStages(x) == IF x = {} THEN <<"attr", "buf", "umem", "uar", "obj">> ELSE GivenStages(x)
QpStages(x) == IF x = {} THEN <<"attr", "uar", "buf", "umem", "obj">> ELSE GivenStages(x)

\* An SRQ has no doorbell page.
SrqStages(x) == GivenStages(x \cup {"uar"})

Stages(o, x) ==
  CASE o = "uar" -> UarStages
    [] o = "umem" -> UmemStages
    [] o = "cq" -> CqStages(x)
    [] o = "qp" -> QpStages(x)
    [] o = "srq" -> SrqStages(x)
    [] OTHER -> NoStages

Resources(stages) == {stages[i] : i \in DOMAIN stages}

\* Values are checked after the attributes are there; nothing else precedes "buf".
MayFailAt(stages, i) == stages[i] = "buf" => stages[i - 1] = "attr"

\* seeded bug: in the order they were made.
ReleaseOrderAsMade == <<"attr", "buf", "umem", "uar", "obj">>

ReleaseOrder == <<"attr", "obj", "uar", "umem", "buf">>

Position(r) == CHOOSE i \in DOMAIN ReleaseOrder : ReleaseOrder[i] = r

\* A QP gives its UAR up whatever the device answers.
Stops(o) == {"obj", "umem"} \cup (IF o = "qp" THEN {} ELSE {"uar"})

\* destroy(), with the device refusing to release R.
Kept(o, have, R) ==
  {x \in have : \E r \in R \cap have \cap Stops(o) : Position(r) <= Position(x)}
Forgotten(o, have, R) == ((R \cap have) \ Stops(o)) \ Kept(o, have, R)

\* seeded bug: the catch lets the exception through.
LeftByNoCatch(o, have, R) == have

\* The constructor failed: catch (...) calls destroy() once.
LeftByCatch(o, have, R) == Kept(o, have, R) \cup Forgotten(o, have, R)

\* doca_verbs_*_destroy: destroy(), then delete, whose destructor tries once more.
LeftByDestroy(o, have, R, R2) ==
  Forgotten(o, have, R) \cup LeftByCatch(o, Kept(o, have, R), R2)

Lose(o, x, left, refusals) ==
  leaked' = IF left = {} THEN {}
            ELSE {[of |-> o, left |-> left, ext |-> x, refused |-> refusals # {}]}
-----------------------------------------------------------------------------
(* The SDK.                                                                *)

\* What a wrapper asks for before it calls the SDK.
SdkReached(o) ==
  /\ WrapperOf(o) \in lib
  /\ o \in {"uar", "umem", "cq", "qp"} => handle["dev"] = "sdk"
  /\ o \in {"cq", "qp"} => handle[AttrOf(o)] = "sdk"

\* seeded bug: an error of the SDK is taken for its absence.
FallsBackAlways(o) == TRUE

\* The wrapper of umem_create answers NOT_SUPPORTED for any error of the GPU call.
FallsBack(o) == o = "umem" /\ GpuUmem

\* The device comes with an imported PD and context.
SdkParts(o) == IF o = "dev" THEN {"sdk", "sdk_pd", "sdk_context"} ELSE {"sdk"}

Running == leaked = {} /\ ~crashed

\* A caller has what it passes; a QP gets the CQ as its send and receive CQ.
Ready(o) ==
  /\ Running
  /\ handle[o] = "none"
  /\ o \in {"uar", "umem", "cq", "qp"} => handle["dev"] # "none"
  /\ o \in {"cq", "qp"} => handle[AttrOf(o)] # "none"
  /\ o = "qp" => pd_set /\ handle["cq"] # "none"

MayBeGiven(o) ==
  {g \in {"uar", "umem"} : o \in {"cq", "qp", "srq"} /\ handle[g] # "none" /\ (o = "srq" => g = "umem")}

Created(o, type, holds, x) ==
  /\ handle' = [handle EXCEPT ![o] = type]
  /\ res' = [res EXCEPT ![o] = holds]
  /\ ext' = [ext EXCEPT ![o] = x]
  /\ UNCHANGED <<lib, pd_set, leaked, crashed>>

CreateSdk(o) == Ready(o) /\ SdkReached(o) /\ Created(o, "sdk", SdkParts(o), {})

\* Opening a device has several steps and closes again what it got; the SDK may
\* refuse to.
CreateSdkRefused(o, R) ==
  /\ Ready(o)
  /\ SdkReached(o)
  /\ ~FallsBack(o)
  /\ R # {} => o = "dev"
  /\ UNCHANGED <<lib, handle, res, ext, pd_set, crashed>>
  /\ Lose(o, {}, R, R)
-----------------------------------------------------------------------------
(* The open implementation.                                                *)

OpenReached(o) == Ready(o) /\ (~SdkReached(o) \/ FallsBack(o))

\* net_dev->open of a device of the SDK.
NullDevice(o) == o \in {"uar", "umem", "cq", "qp"} /\ handle["dev"] = "sdk"

OpenCrash(o) ==
  /\ OpenReached(o)
  /\ NullDevice(o)
  /\ crashed' = TRUE
  /\ UNCHANGED <<lib, handle, res, ext, pd_set, leaked>>

\* PD or address and size not given: the handle's memory is not freed.
OpenInvalid(o) ==
  /\ o \in {"dev", "umem"}
  /\ OpenReached(o)
  /\ UNCHANGED <<lib, handle, res, ext, pd_set, crashed>>
  /\ Lose(o, {}, {"handle"}, {})

\* Attributes of the SDK's are none of the open implementation's.
OpenAccepts(o) == OpenReached(o) /\ ~NullDevice(o) /\ (o \in {"cq", "qp"} => handle[AttrOf(o)] = "open")

OpenCreate(o, x) ==
  /\ OpenAccepts(o)
  /\ o = "qp" => handle["cq"] = "open"
  /\ Created(o, "open", Resources(Stages(o, x)), x)

OpenCreateFails(o, x, R) ==
  /\ OpenAccepts(o)
  /\ \E i \in DOMAIN Stages(o, x) :
       /\ MayFailAt(Stages(o, x), i)
       /\ Lose(o, x, LeftByCatch(o, Resources(SubSeq(Stages(o, x), 1, i - 1)), R), R)
  /\ UNCHANGED <<lib, handle, res, ext, pd_set, crashed>>
-----------------------------------------------------------------------------
(* Destruction, and the protection domain.                                 *)

Gone(o) ==
  /\ handle' = [handle EXCEPT ![o] = "none"]
  /\ res' = [res EXCEPT ![o] = {}]
  /\ ext' = [ext EXCEPT ![o] = {}]
  /\ pd_set' = (pd_set /\ o # "qp_attr")
  /\ UNCHANGED <<lib, crashed>>

DestroySdk(o, R) ==
  /\ Running
  /\ handle[o] = "sdk"
  /\ Gone(o)
  /\ Lose(o, {}, R \cap SdkParts(o), R)

DestroyOpen(o, R, R2) ==
  /\ Running
  /\ handle[o] = "open"
  /\ o # "srq"
  /\ Gone(o)
  /\ Lose(o, ext[o], LeftByDestroy(o, res[o], R, R2), R \cup R2)

\* An SRQ whose destroy fails stays: the call may be repeated.
DestroySrq(R) ==
  /\ Running
  /\ handle["srq"] = "open"
  /\ IF Kept("srq", res["srq"], R) = {}
     THEN Gone("srq") /\ UNCHANGED leaked
     ELSE /\ res' = [res EXCEPT !["srq"] = Kept("srq", @, R)]
          /\ UNCHANGED <<lib, handle, ext, pd_set, leaked, crashed>>

\* Device and attributes of different kinds are refused.
SetPd ==
  /\ Running
  /\ handle["qp_attr"] # "none"
  /\ handle["dev"] = handle["qp_attr"]
  /\ pd_set' = TRUE
  /\ UNCHANGED <<lib, handle, res, ext, leaked, crashed>>

Refusals == SUBSET {"obj", "uar", "umem"}

ObjNext ==
  \/ \E o \in Objects :
       \/ CreateSdk(o) \/ OpenCrash(o) \/ OpenInvalid(o)
       \/ \E R \in SUBSET {"sdk", "sdk_pd"} : CreateSdkRefused(o, R)
       \/ \E R \in SUBSET SdkParts("dev") : DestroySdk(o, R)
       \/ \E x \in SUBSET MayBeGiven(o) :
            OpenCreate(o, x) \/ \E R \in Refusals : OpenCreateFails(o, x, R)
       \/ \E R, R2 \in Refusals : DestroyOpen(o, R, R2)
  \/ \E R \in Refusals : DestroySrq(R)
  \/ SetPd

ObjSpec == ObjInit /\ [][ObjNext]_objVars
-----------------------------------------------------------------------------
\* Type invariant; a handle of the SDK holds the SDK's parts, an open one its own.
ObjTypeOK ==
  /\ lib \subseteq Wrappers /\ pd_set \in BOOLEAN /\ crashed \in BOOLEAN
  /\ ext \in [Objects -> SUBSET {"uar", "umem"}]
  /\ \A o \in Objects :
       CASE handle[o] = "none" -> res[o] = {}
         [] handle[o] = "sdk" -> res[o] = SdkParts(o)
         [] OTHER -> res[o] \subseteq Resources(Stages(o, ext[o]))

\* Where all wrappers find the SDK or none does, no object of one implementation
\* reaches code of the other that follows its null pointer (net_dev->open in
\* doca_verbs_{uar,umem,cq,qp}_create).
NoNullDevice == lib \in {{}, Wrappers} => ~crashed

Sound(o, holds, x) ==
  /\ "obj" \in holds => Resources(Stages(o, x)) \ {"attr"} \subseteq holds
  /\ "umem" \in holds => o = "umem" \/ "buf" \in holds

\* While the device may use a DevX object, the memory registered for it, the
\* registration and the doorbell page it was created with are there: after whatever
\* stage creation failed, and whatever the device refused to release.
DeviceMemoryLive ==
  /\ \A o \in Objects : Sound(o, res[o], ext[o])
  /\ \A l \in leaked : Sound(l.of, l.left, l.ext)

\* What is lost for good was refused by the device or the SDK in the call that lost
\* it, the memory of a handle that two early returns drop apart.
AllGivenBack == \A l \in leaked : l.refused \/ l.left = {"handle"}
=============================================================================
