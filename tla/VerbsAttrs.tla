----------------------------- MODULE VerbsAttrs -----------------------------
(***************************************************************************)
(* The attribute objects of src/src/doca_verbs_qp.cpp, doca_verbs_cq.cpp   *)
(* and doca_verbs_srq.cpp and their way through the SDK wrappers.  An      *)
(* object of kind "init" is taken by the creation of a QP, "mod" by its    *)
(* modification, "ah" by an object of kind "mod", "cq" and "srq" by the    *)
(* creation of a CQ or an SRQ; of QPs, CQs, UARs and UMEMs there are the   *)
(* getters.  An object is either the SDK's or an open one.  The setters    *)
(* and getters have one body: check, forward to the SDK if the object is   *)
(* the SDK's, refuse if there is no open object, check, store.  The tables *)
(* below say which there are and how their bodies differ.                  *)
(*                                                                         *)
(* A behaviour follows one attribute of one object.  A call that is        *)
(* refused changes nothing and is no step.  0 is the null pointer where    *)
(* the attribute is an object, and what a new object holds.  A device and  *)
(* attributes of different origin are the concern of VerbsObjects.         *)
(***************************************************************************)
EXTENDS Naturals

CONSTANT Values     \* what an attribute may be set to, as a number

ASSUME ValuesAssumption == 0 \in Values /\ Values \subseteq Nat

VARIABLES
  attr,         \* <<kind, name>>; constant
  sys,          \* constant: DOCA_SDK_LIB_PATH, the libraries and the symbol of
                \* attr, of which kind the device and the objects passed are
  attr_type,    \* "none", "sdk" or "open"
  value,        \* what the object holds
  asked,        \* ghost: the value of the last setter that reported success
  taken,        \* ghost: what was last taken or read, and what was asked then
  half,         \* ghost: a setter failed between two calls of the SDK
  null_used     \* a null pointer has been called or followed

attrVars == <<attr, sys, attr_type, value, asked, taken, half, null_used>>
-----------------------------------------------------------------------------
(* The setters.                                                            *)

InitObjects == {"init"} \X {"pd", "send_cq", "receive_cq"}
InitSizes == {"init"} \X {"sq_sig_all", "sq_wr", "rq_wr", "send_max_sges"}
InitLimits == {"init"} \X {"receive_max_sges", "max_inline_data", "user_index", "qp_type"}
InitExternal == {"init"} \X {"external_umem", "external_umem_dbr", "external_uar"}
InitModes == {"init"} \X {"qp_context", "core_direct_master", "send_dbr_mode"}
InitOpenOnly == {"init"} \X {"emulate_no_dbr_ext"}
InitSdkOnly == {"init"} \X {"ordering_semantic"}
InitUntyped == {"init"} \X {"srq"}      \* does not look at the type
ModStates == {"mod"} \X {"next_state", "current_state", "path_mtu"}
ModNumbers == {"mod"} \X {"rq_psn", "sq_psn", "dest_qp_num"}
ModAccess == {"mod"} \X {"allow_remote_write", "allow_remote_read", "atomic_mode"}
ModPath == {"mod"} \X {"pkey_index", "port_num", "ack_timeout", "retry_cnt"}
ModTimers == {"mod"} \X {"rnr_retry", "min_rnr_timer"}
ModAtomics == {"mod"} \X {"max_rd_atomic", "max_dest_rd_atomic"}
ModOpenOnly == {"mod"} \X {"counter_set_id"}
AhAddress == {"ah"} \X {"gid", "addr_type", "dlid"}
AhRoute == {"ah"} \X {"sl", "sgid_index", "static_rate", "hop_limit", "traffic_class"}
CqSizes == {"cq"} \X {"cq_size", "cq_context"}
CqExternal == {"cq"} \X {"external_umem", "external_uar"}
CqModes == {"cq"} \X {"cq_overrun", "cq_collapsed"}
SrqAttrs == {"srq"} \X {"srq_wr", "receive_max_sges", "type", "pd", "external_umem"}

(* What only getters read.                                                 *)
QpReads == {"qp_object"} \X {"qpn", "dbr_addr", "uar_addr", "wq"}
CqReads == {"cq_object"} \X {"wq", "dbr_addr", "cqn"}
UarReads == {"uar_object"} \X {"id", "reg_addr", "dbr_less_addr"}
UmemReads == {"umem_object"} \X {"id", "size", "address"}
Reads == QpReads \cup CqReads \cup UarReads \cup UmemReads

InitAttrs == InitObjects \cup InitSizes \cup InitLimits \cup InitExternal \cup InitModes
               \cup InitOpenOnly \cup InitSdkOnly \cup InitUntyped
ModAttrs == ModStates \cup ModNumbers \cup ModAccess \cup ModPath \cup ModTimers
              \cup ModAtomics \cup ModOpenOnly
AhAttrs == AhAddress \cup AhRoute
CqAttrs == CqSizes \cup CqExternal \cup CqModes
AllAttrs == InitAttrs \cup ModAttrs \cup AhAttrs \cup CqAttrs \cup SrqAttrs \cup Reads

InitPointers == InitObjects \cup InitExternal \cup InitUntyped
CqPointers == CqExternal
Pointers == InitPointers \cup CqPointers

\* What a setter checks before it looks at the type.  A null PD is refused by the wrapper.
Accepts(v) ==
  /\ attr \in Pointers => v # 0
  /\ attr \in {<<"init", "core_direct_master">>, <<"srq", "type">>} => v \in {0, 1}
  /\ attr \in SrqAttrs \ {<<"srq", "type">>} => v # 0

PowerOfTwo(v) == \E i \in 0..v : v = 2 ^ i

\* And what only the open path checks.
OpenTakes(v) ==
  /\ attr = <<"cq", "cq_collapsed">> => v \in {0, 1}
  /\ attr \in ModAtomics => PowerOfTwo(v)
  /\ attr = <<"init", "pd">> => sys.object = "open"
-----------------------------------------------------------------------------
(* The wrappers.                                                           *)

WrappedObjects == InitObjects
WrappedSizes == InitSizes \cup InitLimits
WrappedExternal == InitExternal \cup {<<"init", "qp_context">>, <<"init", "core_direct_master">>}
WrappedOptional == {"init"} \X {"send_dbr_mode", "ordering_semantic"}
WrappedStates == ModStates \cup ModNumbers
WrappedAccess == ModAccess
WrappedPath == ModPath \cup ModTimers \cup ModAtomics
WrappedAh == AhAttrs
WrappedCq == CqAttrs
WrappedQpReads == QpReads
WrappedCqReads == CqReads
WrappedUarReads == UarReads
WrappedUmemReads == UmemReads
WrappedReads == WrappedQpReads \cup WrappedCqReads \cup WrappedUarReads \cup WrappedUmemReads
Wrapped == WrappedObjects \cup WrappedSizes \cup WrappedExternal \cup WrappedOptional
             \cup WrappedStates \cup WrappedAccess \cup WrappedPath \cup WrappedAh \cup WrappedCq \cup WrappedReads

\* The symbols looked up when the libraries are loaded.
InitSymbols == InitAttrs \ InitOpenOnly
ModSymbols == ModAttrs \ ModOpenOnly
AhSymbols == AhAttrs
CqSymbols == CqAttrs
QpReadSymbols == QpReads
UarReadSymbols == UarReads
UmemReadSymbols == UmemReads
ReadSymbols == QpReadSymbols \cup CqReads \cup UarReadSymbols \cup UmemReadSymbols
Symbols == InitSymbols \cup ModSymbols \cup AhSymbols \cup CqSymbols \cup ReadSymbols

\* Those without which the libraries count as not found.
QpRequired == (InitSymbols \ WrappedOptional) \cup ModSymbols \cup AhSymbols
CqRequired == CqSymbols \ {<<"cq", "cq_collapsed">>}
Required == QpRequired \cup CqRequired \cup ReadSymbols

Found == sys.env /\ sys.libs /\ (attr \in Required => sys.symbol)
Resolved == Found /\ attr \in Symbols /\ sys.symbol

\* seeded bug: the pointer of an optional symbol is called unseen.
ReachesUnchecked == /\ attr \in Wrapped
                    /\ attr \in Pointers => sys.object = "sdk"

\* The wrapper of a setter or getter calls the SDK.
Reaches ==
  /\ attr \in Wrapped
  /\ attr \in Pointers => sys.object = "sdk"
  /\ attr \in WrappedOptional \cup {<<"cq", "cq_collapsed">>} => Resolved

\* A second call, which switches the external datapath on, may fail after the first.
CallsTwice == {<<"init", "external_umem">>, <<"cq", "external_umem">>}
-----------------------------------------------------------------------------
(* The operations.                                                         *)

AttrInit ==
  /\ attr \in AllAttrs
  /\ sys \in [env : BOOLEAN, libs : BOOLEAN, symbol : BOOLEAN,
              dev : {"sdk", "open"}, object : {"sdk", "open"}]
  /\ "sdk" \in {sys.dev, sys.object} => sys.env
  /\ attr_type = "none"
  /\ value = 0 /\ asked = 0 /\ half = FALSE
  /\ taken = [got |-> 0, asked |-> 0]
  /\ null_used = FALSE

Kind == attr[1]

\* The wrapper of an AH object needs a device of the SDK.
SdkCreates == Found /\ Kind # "srq" /\ (Kind = "ah" => sys.dev = "sdk")

\* A refusal by the SDK is the caller's answer; its absence is not.
CreateAttr ==
  /\ attr_type = "none" /\ attr \notin Reads
  /\ attr_type' = IF SdkCreates THEN "sdk" ELSE "open"
  /\ UNCHANGED <<attr, sys, value, asked, taken, half, null_used>>

\* A QP, CQ, UAR or UMEM, of its device's origin.
CreateObject(v) ==
  /\ attr_type = "none" /\ attr \in Reads /\ v # 0
  /\ sys.dev = "sdk" => Found
  /\ attr_type' = sys.dev
  /\ value' = v /\ asked' = v
  /\ UNCHANGED <<attr, sys, taken, half, null_used>>

SetSdk(v) ==
  /\ attr_type = "sdk" /\ attr \notin Reads /\ Accepts(v) /\ Reaches
  /\ null_used' = (null_used \/ ~Resolved)
  /\ \/ value' = v /\ asked' = v /\ half' = FALSE
     \/ attr \in CallsTwice /\ value' = v /\ half' = TRUE /\ UNCHANGED asked
  /\ UNCHANGED <<attr, sys, attr_type, taken>>

SetOpen(v) ==
  /\ attr_type = "open" /\ attr \notin InitSdkOnly \cup Reads
  /\ Accepts(v) /\ OpenTakes(v)
  /\ value' = v /\ asked' = v
  /\ UNCHANGED <<attr, sys, attr_type, taken, half, null_used>>

\* qp_init_attr->open is followed whatever the type.
SetUntyped(v) ==
  /\ attr_type = "sdk" /\ attr \in InitUntyped /\ Accepts(v)
  /\ null_used' = TRUE
  /\ UNCHANGED <<attr, sys, attr_type, value, asked, taken, half>>

Gettable == {<<"init", "send_dbr_mode">>, <<"mod", "current_state">>}
              \cup InitSdkOnly \cup InitOpenOnly \cup InitUntyped \cup SrqAttrs \cup Reads

Readable == IF attr_type = "sdk" THEN Reaches ELSE attr_type = "open" /\ attr \notin InitSdkOnly

\* The SDK is asked for reg_addr whichever address of its UAR is wanted.
OtherAddress == attr = <<"uar_object", "dbr_less_addr">> /\ sys.dev = "sdk"

GetAttr ==
  /\ attr \in Gettable /\ Readable
  /\ taken' = [got |-> IF OtherAddress THEN 0 ELSE value, asked |-> asked]
  /\ null_used' = (null_used \/ (attr_type = "sdk" /\ ~Resolved))
  /\ UNCHANGED <<attr, sys, attr_type, value, asked, half>>

\* seeded bug: the constructor forgets the UMEM of the doorbell record.
QpCopiesNoDbr == InitAttrs \ {<<"init", "ordering_semantic">>, <<"init", "external_umem_dbr">>}

\* What the constructors and set_ah_attr copy.
QpCopies == InitAttrs \ InitSdkOnly
CqCopies == CqAttrs
AhCopies == AhAttrs
SrqCopies == SrqAttrs
Copied == QpCopies \cup CqCopies \cup AhCopies \cup SrqCopies \cup ModAttrs

\* An open QP takes open CQs only.
CqsFit == attr_type = "open" /\ value # 0 /\ attr \in InitObjects \ {<<"init", "pd">>}
            => sys.object = "open"

\* What takes the object: of the same origin, or the call is refused ...
TakerType == IF Kind \in {"init", "cq"} THEN sys.dev
             ELSE IF Kind = "ah" THEN IF Found THEN "sdk" ELSE "open"
             ELSE attr_type

\* ... but for an open QP attribute given an AH object of the SDK.
TakeAttr ==
  /\ attr_type # "none" /\ attr \notin Reads /\ CqsFit
  /\ \/ TakerType = attr_type
     \/ Kind = "ah" /\ TakerType = "open"
  /\ null_used' = (null_used \/ TakerType # attr_type)
  /\ taken' = [got |-> IF attr_type = "sdk" \/ attr \in Copied THEN value ELSE 0,
               asked |-> IF half THEN value ELSE asked]
  /\ UNCHANGED <<attr, sys, attr_type, value, asked, half>>

DestroyAttr ==
  /\ attr_type # "none"
  /\ attr_type' = "none"
  /\ value' = 0 /\ asked' = 0 /\ half' = FALSE
  /\ UNCHANGED <<attr, sys, taken, null_used>>

AttrNext ==
  \/ CreateAttr \/ GetAttr \/ TakeAttr \/ DestroyAttr
  \/ \E v \in Values : CreateObject(v) \/ SetSdk(v) \/ SetOpen(v) \/ SetUntyped(v)

AttrSpec == AttrInit /\ [][AttrNext]_attrVars
-----------------------------------------------------------------------------
(* Properties.                                                             *)

\* The types; and an open object never holds a value its setter refuses, so
\* that the commands built from it need not check again.
AttrTypeOK ==
  /\ attr \in AllAttrs
  /\ attr_type \in {"none", "sdk", "open"}
  /\ {value, asked, taken.got, taken.asked} \subseteq Values
  /\ half \in BOOLEAN /\ null_used \in BOOLEAN
  /\ attr_type = "open" /\ value # 0 =>
       /\ attr \in ModAtomics => PowerOfTwo(value)
       /\ attr \in {<<"init", "core_direct_master">>, <<"cq", "cq_collapsed">>, <<"srq", "type">>} => value = 1

\* Whatever libraries are installed, with whatever symbols, and whichever
\* origin the objects passed have, no SDK function is called through a pointer
\* that was not resolved and no open object is followed that is not there.
\* The setter of the SRQ is the exception: it does not look at the type.
NullSafe == null_used => attr \in InitUntyped

\* What is created or modified, and what a getter returns, has the value the
\* caller was last told is set, whichever path each call took.  Two exceptions:
\* an external UMEM in an object of the SDK may be there after its setter
\* failed, and the address of a UAR of the SDK is that of another register.
TakenIsAsked == ~half /\ ~OtherAddress => taken.got = taken.asked
=============================================================================
