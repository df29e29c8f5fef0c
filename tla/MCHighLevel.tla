----------------------------- MODULE MCHighLevel -----------------------------
(***************************************************************************)
(* Two parts that share no state, checked in one run: the creation of a    *)
(* high-level QP (doca_gpunetio_high_level.cpp), and the layout of the     *)
(* rings it asks for (create() of doca_verbs_qp.cpp and its siblings).     *)
(* part is the one a behaviour exercises; the layout of one request stands *)
(* still while the creation is exercised, and conversely.                  *)
(***************************************************************************)
EXTENDS HighLevel, QueueLayout

VARIABLE part

IdleLayout ==
  request = [kind |-> "cq", size |-> 1, offset |-> -1] /\ stage = "asked"
  /\ made = NoObject /\ exported = NoExport
IdleCreation ==
  /\ Init
  /\ asked = [group |-> FALSE, handler |-> "CPU_PROXY", dbr |-> "VALID_DBR", register |-> FALSE]

HlInit ==
  \/ part = "creation" /\ Init /\ IdleLayout
  \/ part = "layout" /\ QlInit /\ IdleCreation

HlNext ==
  \/ part = "creation" /\ Next /\ UNCHANGED <<part, qlVars>>
  \/ part = "layout" /\ QlNext /\ UNCHANGED <<part, vars>>

HlSpec == HlInit /\ [][HlNext]_<<part, vars, qlVars>>
=============================================================================
