-------------------------- MODULE MCSendQueueModes --------------------------
(***************************************************************************)
(* The queue of MCSendQueue with its two ways to publish and the two       *)
(* builds of its polls, in one run.  mode is what a behaviour uses:        *)
(*   "cas": publication by atomicCAS, polls of before sm_90, which compare *)
(*     wqe_counter, and errors, over more than two laps;                   *)
(*   "ld_st": the same with publication by a load and a separate store,    *)
(*     over two laps;                                                      *)
(*   "owner": "cas" with the polls of sm_90 and later, which look at the   *)
(*     owner bit only; no errors;                                          *)
(*   "owner_errors": the same with errors, over two laps, all that such    *)
(*     polls can tell apart (the run status_sm90 has what comes after).    *)
(* The sizes are those of the cfg throughout, so its properties speak of   *)
(* every mode.  The run live has the first two, without errors, and the    *)
(* fairness of FairSpec.                                                   *)
(***************************************************************************)
EXTENDS MCSendQueue

CONSTANT FewerWqes    \* bound: MaxWqes in the modes "ld_st" and "owner_errors"

VARIABLE mode

LdSt == INSTANCE SendQueue WITH ReadyMode <- "LD_ST", MaxWqes <- FewerWqes
Owner == INSTANCE SendQueue WITH WqeCounterCheck <- FALSE, Errors <- FALSE
OwnerErrors == INSTANCE SendQueue WITH WqeCounterCheck <- FALSE, MaxWqes <- FewerWqes

ModesInit == Init /\ mode \in {"cas", "ld_st", "owner", "owner_errors"}

ModesNext ==
  \/ mode = "cas" /\ Next /\ UNCHANGED mode
  \/ mode = "ld_st" /\ LdSt!Next /\ UNCHANGED mode
  \/ mode = "owner" /\ Owner!Next /\ UNCHANGED mode
  \/ mode = "owner_errors" /\ OwnerErrors!Next /\ UNCHANGED mode

ModesSpec == ModesInit /\ [][ModesNext]_<<mode, vars>>

-----------------------------------------------------------------------------
LiveInit == Init /\ mode \in {"cas", "ld_st"}

Stay(A) == A /\ UNCHANGED mode

StepInMode(t) ==
  \/ mode = "cas" /\ Step(t)
  \/ mode = "ld_st" /\ LdSt!Step(t)

LiveSpec ==
  /\ LiveInit /\ [][ModesNext]_<<mode, vars>>
  /\ WF_<<mode, vars>>(Stay(NicTakeDb))
  /\ WF_<<mode, vars>>(Stay(NicComplete))
  /\ \A t \in Threads : WF_<<mode, vars>>(Stay(StepInMode(t)))
=============================================================================
