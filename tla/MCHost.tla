------------------------------- MODULE MCHost -------------------------------
(***************************************************************************)
(* Five parts of the host library that share no state, checked in one run: *)
(* the memory table and the recovery of a QP (src/src/doca_gpunetio.cpp),  *)
(* the state machine of a QP, the life of the verbs objects and their      *)
(* attributes (src/src/doca_verbs_*.cpp).  part is the one a behaviour     *)
(* exercises.                                                              *)
(***************************************************************************)
EXTENDS GpuMem, QpReset, VerbsQp, VerbsObjects, VerbsAttrs, TLC

CONSTANTS a1, a2, a3

VARIABLE part

Symmetry == Permutations(Addrs)

(* What a transition requires with none or all of its optional attributes  *)
(* and any of the two states given; and with the next state given, what it *)
(* requires and one attribute more or less.                                *)
QpMasks ==
  LET transitions == {"RST2INIT", "INIT2INIT", "INIT2RTR", "RTR2RTS", "RTS2RTS"}
      exact == UNION {{Requested(t), Requested(t) \cup OptionalOf(t)} : t \in transitions}
      near == UNION {{Requested(t) \ {a}, Requested(t) \cup {a}} : t \in transitions, a \in Attrs}
  IN  {m \cup s : m \in exact, s \in SUBSET StateBits} \cup {m \cup {"NEXT_STATE"} : m \in near}

\* Where attributes are not the subject.
NoSdk == [env |-> FALSE, libs |-> FALSE, symbol |-> FALSE, dev |-> "open", object |-> "open"]

Init == /\ part \in {"memory", "reset", "qp", "objects", "attrs"}
        /\ MemInit /\ ResetInit /\ QpInit /\ ObjInit /\ AttrInit
        /\ part # "reset" => counter_check
        /\ part # "objects" => lib = {}
        /\ part # "attrs" => attr = <<"init", "pd">> /\ sys = NoSdk

Next ==
  \/ part = "memory" /\ MemNext /\ UNCHANGED <<part, resetVars, qpVars, objVars, attrVars>>
  \/ part = "reset" /\ ResetNext /\ UNCHANGED <<part, memVars, qpVars, objVars, attrVars>>
  \/ part = "qp" /\ QpNext /\ UNCHANGED <<part, memVars, resetVars, objVars, attrVars>>
  \/ part = "objects" /\ ObjNext /\ UNCHANGED <<part, memVars, resetVars, qpVars, attrVars>>
  \/ part = "attrs" /\ AttrNext /\ UNCHANGED <<part, memVars, resetVars, qpVars, objVars>>

Spec == Init /\ [][Next]_<<part, memVars, resetVars, qpVars, objVars, attrVars>>

(* Neither creation nor an attribute follows a null pointer: not into an   *)
(* SDK function that was not found, and not into the open object of a      *)
(* handle of the SDK.  Where some wrappers find the SDK and others do not, *)
(* creation does; and the setter of the SRQ does not look at the type.     *)
NoNullFollowed == NoNullDevice /\ NullSafe
=============================================================================
