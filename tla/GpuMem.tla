-------------------------------- MODULE GpuMem --------------------------------
(***************************************************************************)
(* The GPU device handle and its table of allocations, with the GDRCopy    *)
(* mappings behind one of the memory types: src/src/doca_gpunetio.cpp and  *)
(* src/src/doca_gpunetio_gdrcopy.cpp, open implementation.                 *)
(*                                                                         *)
(* An allocation is a sequence of acquisitions, any of which may fail.     *)
(* held[a] is what the process really owns on behalf of allocation a; the  *)
(* table is what the library knows.                                        *)
(***************************************************************************)
EXTENDS Naturals, Sequences

CONSTANTS
  Addrs,            \* GPU addresses an allocation may get
  LibLoads,         \* GDRCopy: library and device can be opened
  EnvDisables,      \* DOCA_GPUNETIO_DISABLE_GDRCOPY is set
  MemFaults            \* steps that may fail in this environment

Kinds == {"GPU", "GPU_CPU", "CPU_GPU"}
Steps == {"cuda_malloc", "set_attr", "mh", "pin", "map", "calloc", "register",
          "device_ptr", "insert"}

ASSUME GpuMemAssumption ==
  LibLoads \in BOOLEAN /\ EnvDisables \in BOOLEAN /\ MemFaults \subseteq Steps

VARIABLES
  dev,              \* "none", "open" or "destroyed": of the latest handle
  tried, supported, \* statics of gdrcopy_is_supported
  gdr,              \* support_gdrcopy of the device
  table,            \* mtable: addresses with an entry
  kind,             \* address -> mtype of its entry
  held,             \* address -> what is owned on behalf of its allocation
  lost,             \* what a failed or partial release left behind, owned by none
  failed,           \* steps that have failed so far
  last              \* what the last call returned

memVars == <<dev, tried, supported, gdr, table, kind, held, lost, failed, last>>
devVars == <<dev, tried, supported, gdr>>

MemInit ==
  /\ dev = "none"
  /\ tried = FALSE
  /\ supported = FALSE
  /\ gdr = FALSE
  /\ table = {}
  /\ kind = [a \in Addrs |-> "GPU"]
  /\ held = [a \in Addrs |-> {}]
  /\ lost = {}
  /\ failed = {}
  /\ last = "none"

-----------------------------------------------------------------------------
(* GDRCopy.                                                                *)

IsSupportedOnce == ~EnvDisables /\ LibLoads
IsSupported == IF tried THEN supported ELSE IsSupportedOnce

-----------------------------------------------------------------------------
(* doca_gpu_create and doca_gpu_destroy.  A create that fails undoes all    *)
(* but what the process remembers of GDRCopy.                              *)

Create ==
  /\ dev # "open"
  /\ dev' = "open"
  /\ gdr' = IsSupported
  /\ supported' = IsSupported
  /\ tried' = TRUE
  /\ last' = "create_ok"
  /\ UNCHANGED <<table, kind, held, lost, failed>>

CreateFails ==
  /\ dev # "open"
  /\ \/ UNCHANGED <<tried, supported>>
     \/ tried' = TRUE /\ supported' = IsSupported
  /\ last' = "create_error"
  /\ UNCHANGED <<dev, gdr, table, kind, held, lost, failed>>

(* With entries left, destroy reports an error and still frees the handle: *)
(* the memory stays taken and nobody lists it.                             *)
Destroy ==
  /\ dev = "open"
  /\ dev' = "destroyed"
  /\ table' = {}
  /\ last' = IF table = {} THEN "destroy_ok" ELSE "destroy_invalid"
  /\ UNCHANGED <<tried, supported, gdr, kind, held, lost, failed>>

-----------------------------------------------------------------------------
(* The steps of an allocation, and those that own something after.         *)

AllocSteps(k) ==
  CASE k = "GPU" -> <<"cuda_malloc", "set_attr", "insert">>
    [] k = "GPU_CPU" /\ gdr ->
         <<"cuda_malloc", "set_attr", "mh", "pin", "map", "insert">>
    [] OTHER -> <<"calloc", "register", "device_ptr", "insert">>

Acquires == {"cuda_malloc", "mh", "pin", "map", "calloc", "register"}
Acquired(steps) == {steps[i] : i \in 1 .. Len(steps)} \cap Acquires

UndoneTooLittle(k, step) ==                 \* seeded bug: attribute failure undoes nothing
  IF step = "register" THEN {"calloc"} ELSE {}

(* What the error path of a failing step gives back.  create_mapping gives *)
(* back its own handle and pin, not the memory it was to map; without      *)
(* GDRCopy a failing device_ptr frees the host memory only.                *)
Undone(k, step) ==
  CASE step = "set_attr" -> {"cuda_malloc"}
    [] step = "pin" -> {"mh"}
    [] step = "map" -> {"mh", "pin"}
    [] step = "register" -> {"calloc"}
    [] step = "device_ptr" /\ k = "GPU_CPU" -> {"calloc"}
    [] step = "device_ptr" /\ k = "CPU_GPU" -> {"register", "calloc"}
    [] OTHER -> {}

Alloc(a, k) ==
  /\ dev = "open"
  /\ held[a] = {}
  /\ table' = table \cup {a}
  /\ kind' = [kind EXCEPT ![a] = k]
  /\ held' = [held EXCEPT ![a] = Acquired(AllocSteps(k))]
  /\ last' = "alloc_ok"
  /\ UNCHANGED <<devVars, lost, failed>>

AllocFails(k) ==
  /\ dev = "open"
  /\ \E i \in 1 .. Len(AllocSteps(k)) :
       LET step == AllocSteps(k)[i]
       IN /\ step \in MemFaults
          /\ failed' = failed \cup {step}
          /\ lost' = lost \cup (Acquired(SubSeq(AllocSteps(k), 1, i - 1)) \ Undone(k, step))
  /\ last' = "alloc_error"
  /\ UNCHANGED <<devVars, table, kind, held>>

-----------------------------------------------------------------------------
(* doca_gpu_mem_free.                                                      *)

ReleasedNoUnmap(k) ==                       \* seeded bug: mapping kept
  IF k = "CPU_GPU" THEN {"register", "calloc"} ELSE {"cuda_malloc"}

(* GPU_CPU memory that fell back to host memory is passed to cudaFree,     *)
(* which does not own it: nothing is released.                             *)
Released(k) ==
  CASE k = "GPU" -> {"cuda_malloc"}
    [] k = "GPU_CPU" -> IF gdr THEN {"map", "pin", "mh", "cuda_malloc"} ELSE {}
    [] OTHER -> {"register", "calloc"}

Free(a) ==
  /\ dev = "open"
  /\ a \in table
  /\ lost' = lost \cup (held[a] \ Released(kind[a]))
  /\ held' = [held EXCEPT ![a] = {}]
  /\ table' = table \ {a}
  /\ last' = "free_ok"
  /\ UNCHANGED <<devVars, kind, failed>>

FreeUnknown(a) ==
  /\ dev = "open"
  /\ a \notin table
  /\ last' = "free_invalid"
  /\ UNCHANGED <<devVars, table, kind, held, lost, failed>>

-----------------------------------------------------------------------------
MemNext ==
  \/ Create \/ CreateFails \/ Destroy
  \/ \E k \in Kinds : AllocFails(k)
  \/ \E a \in Addrs :
       \/ Free(a) \/ FreeUnknown(a)
       \/ \E k \in Kinds : Alloc(a, k)

MemSpec == MemInit /\ [][MemNext]_memVars

-----------------------------------------------------------------------------
(* Every variable keeps its type; a device uses GDRCopy only if the one     *)
(* attempt to open it was made and went well.                              *)
MemTypeOK ==
  /\ gdr => supported
  /\ supported => tried
  /\ dev \in {"none", "open", "destroyed"}
  /\ tried \in BOOLEAN /\ supported \in BOOLEAN /\ gdr \in BOOLEAN
  /\ table \subseteq Addrs
  /\ kind \in [Addrs -> Kinds]
  /\ held \in [Addrs -> SUBSET Acquires]
  /\ lost \subseteq Acquires /\ failed \subseteq Steps

(* The steps whose error path is complete: a failing GDRCopy mapping leaves *)
(* the CUDA memory it was for, a failing insertion leaves everything.      *)
Complete == {"cuda_malloc", "set_attr", "calloc", "register", "device_ptr"}

(* Whatever the sequence of allocations, failures and frees over several   *)
(* handles: every error path and every free gives back all that was taken, *)
(* until a step without a complete error path fails; and a mapping, a pin  *)
(* or its handle is never left behind, whatever fails.                     *)
NothingLost ==
  /\ failed \subseteq Complete => lost = {}
  /\ lost \cap {"mh", "pin", "map"} = {}
=============================================================================
