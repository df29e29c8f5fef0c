------------------------------- MODULE QpReset -------------------------------
(***************************************************************************)
(* Recovering a QP: the host drives it through RST, and                    *)
(* doca_gpu_verbs_reset_tracking_and_memory (src/src/doca_gpunetio.cpp)    *)
(* makes the host and device copies start again from index 0.  The         *)
(* completion queue is not reset: the NIC goes on with its own index and   *)
(* owner bits, and the polls of doca_gpunetio_dev_verbs_cq.cuh add         *)
(* cqe_rsvd to find a completion of the new epoch.                         *)
(*                                                                         *)
(* Posting and polling are one step each here: their interleavings are     *)
(* SendQueue's.  The caller resets when every WQE has completed, and stops *)
(* the CPU proxy before; it resets as often as it likes, and tries again   *)
(* after a failure.                                                        *)
(***************************************************************************)
EXTENDS Integers

CONSTANTS
  Builds,           \* of the kernels' polls: TRUE, arch < sm_90, compares wqe_counter
  CqeNum,           \* cqe_num
  IdxMod,           \* 2^16 in the code: range of a CQE's wqe_counter
  MaxWqes,          \* bound: WQEs of an epoch
  MaxResets,        \* bound: resets of a behaviour
  ResetFaults       \* where a reset may fail

Places == {"copy_from", "memset", "copy_to", "sync"}

ASSUME QpResetAssumption ==
  /\ CqeNum \in Nat \ {0} /\ IdxMod \in Nat /\ IdxMod > CqeNum
  /\ MaxWqes \in Nat /\ MaxResets \in Nat
  /\ Builds \subseteq BOOLEAN /\ ResetFaults \subseteq Places

VARIABLES
  counter_check,    \* the build of the polls: they compare wqe_counter
  resets,           \* resets that succeeded
  usable,           \* the last reset, if any, reported success
  sq_rsvd_index,    \* of the device copy
  cqe_ci,           \* of the device copy
  cqe_rsvd,         \* of the device copy
  nic_ci,           \* WQEs of this epoch the NIC has completed
  nic_ok,           \* of those, the ones before the first error
  cq_pi,            \* CQEs the NIC has written since the CQ was created
  cq,               \* slot -> the bits of its CQE
  status,           \* index -> what the last poll of it returned
  earlier           \* history: CQEs of the epochs before the last one

resetVars == <<counter_check, resets, usable, sq_rsvd_index, cqe_ci, cqe_rsvd, nic_ci, nic_ok,
               cq_pi, cq, status, earlier>>

Slots == 0 .. CqeNum - 1
CqSlot(i) == i % CqeNum
OwnerBit(i) == (i \div CqeNum) % 2

(* mlx5_init_cqes: invalid, owned by hardware.  Filler: 0xff in all bytes. *)
Invalid == [owner |-> 1, counter |-> 0, error |-> FALSE]
Filler == [owner |-> 1, counter |-> IdxMod - 1, error |-> FALSE]

ResetInit ==
  /\ counter_check \in Builds
  /\ resets = 0
  /\ usable = TRUE
  /\ sq_rsvd_index = 0 /\ cqe_ci = 0 /\ cqe_rsvd = 0
  /\ nic_ci = 0 /\ nic_ok = 0 /\ cq_pi = 0
  /\ cq = [s \in Slots |-> Invalid]
  /\ status = [i \in 0 .. MaxWqes - 1 |-> "none"]
  /\ earlier = 0

-----------------------------------------------------------------------------
(* Posting waits for a slot, as reserve_wq_slots does; every WQE completes *)
(* with a CQE, in error after the first error.                             *)
Post ==
  /\ usable
  /\ sq_rsvd_index < MaxWqes
  /\ sq_rsvd_index < CqeNum \/ cqe_ci > sq_rsvd_index - CqeNum
  /\ sq_rsvd_index' = sq_rsvd_index + 1
  /\ UNCHANGED <<counter_check, resets, usable, cqe_ci, cqe_rsvd, nic_ci, nic_ok, cq_pi, cq,
                 status, earlier>>

NicExecute ==
  /\ nic_ci < sq_rsvd_index
  /\ \E ok \in BOOLEAN :
       /\ ok => nic_ok = nic_ci
       /\ cq' = [cq EXCEPT ![CqSlot(cq_pi)] =
                   [owner |-> OwnerBit(cq_pi), counter |-> nic_ci % IdxMod, error |-> ~ok]]
       /\ nic_ok' = IF ok THEN nic_ok + 1 ELSE nic_ok
  /\ nic_ci' = nic_ci + 1
  /\ cq_pi' = cq_pi + 1
  /\ UNCHANGED <<counter_check, resets, usable, sq_rsvd_index, cqe_ci, cqe_rsvd, status, earlier>>

-----------------------------------------------------------------------------
(* One pass of a poll for index i: what it returns.                        *)
SeenByOwner(i) ==                           \* seeded bug: wqe_counter ignored
  cq[CqSlot(i + cqe_rsvd)].owner = OwnerBit(i + cqe_rsvd)
Seen(i) ==
  LET inCq == i + cqe_rsvd
      cqe == cq[CqSlot(inCq)]
  IN  /\ cqe.owner = OwnerBit(inCq)
      /\ counter_check => cqe.counter = i % IdxMod

Result(i) ==
  IF i < cqe_ci THEN "ok"
  ELSE IF i >= cqe_ci + CqeNum \/ ~Seen(i) THEN "busy"
  ELSE IF cq[CqSlot(i + cqe_rsvd)].error THEN "error" ELSE "ok"

PollOne(i) ==
  /\ usable
  /\ i < sq_rsvd_index
  /\ status' = [status EXCEPT ![i] = Result(i)]
  /\ cqe_ci' = IF Result(i) = "ok" /\ i >= cqe_ci THEN i + 1 ELSE cqe_ci
  /\ UNCHANGED <<counter_check, resets, usable, sq_rsvd_index, cqe_rsvd, nic_ci, nic_ok,
                 cq_pi, cq, earlier>>

-----------------------------------------------------------------------------
Drained == nic_ci = sq_rsvd_index

RsvdKept == cqe_rsvd                        \* seeded bug: the epoch is not added
NewRsvd == sq_rsvd_index

(* The device copy starts again: indices at 0, cqe_rsvd from the old copy. *)
(* It counts the CQEs of the epoch that ends here, and none before it.     *)
CopyTo ==
  /\ sq_rsvd_index' = 0 /\ cqe_ci' = 0
  /\ cqe_rsvd' = NewRsvd
  /\ nic_ci' = 0 /\ nic_ok' = 0             \* the NIC restarted the QP in RST
  /\ status' = [i \in DOMAIN status |-> "none"]
  /\ earlier' = cq_pi - nic_ci

Reset ==
  /\ Drained
  /\ resets < MaxResets
  /\ resets' = resets + 1
  /\ usable' = TRUE
  /\ cq' = [s \in Slots |-> Filler]
  /\ CopyTo
  /\ UNCHANGED <<counter_check, cq_pi>>

(* A step of the reset fails; the caller may only try again.               *)
ResetFails(place) ==
  /\ Drained
  /\ resets < MaxResets
  /\ place \in ResetFaults
  /\ usable' = FALSE
  /\ cq' = IF place = "copy_from" THEN cq ELSE [s \in Slots |-> Filler]
  /\ IF place = "sync" THEN CopyTo
     ELSE UNCHANGED <<sq_rsvd_index, cqe_ci, cqe_rsvd, nic_ci, nic_ok, status, earlier>>
  /\ UNCHANGED <<counter_check, resets, cq_pi>>

-----------------------------------------------------------------------------
ResetNext ==
  \/ Post \/ NicExecute \/ Reset
  \/ \E i \in 0 .. MaxWqes - 1 : PollOne(i)
  \/ \E place \in Places : ResetFails(place)

ResetSpec == ResetInit /\ [][ResetNext]_resetVars

-----------------------------------------------------------------------------
(* Every variable keeps its type, and the indices of an epoch their order. *)
ResetTypeOK ==
  /\ counter_check \in BOOLEAN /\ resets \in 0 .. MaxResets /\ usable \in BOOLEAN
  /\ sq_rsvd_index \in 0 .. MaxWqes /\ nic_ci \in 0 .. sq_rsvd_index
  /\ nic_ok \in 0 .. nic_ci /\ cqe_ci \in 0 .. sq_rsvd_index
  /\ cqe_rsvd \in 0 .. MaxWqes /\ cq_pi \in Nat /\ earlier \in Nat
  /\ cq \in [Slots -> [owner : {0, 1}, counter : 0 .. IdxMod - 1, error : BOOLEAN]]
  /\ status \in [0 .. MaxWqes - 1 -> {"none", "ok", "busy", "error"}]

(* "Reset QP tracking state and memory": a reset makes no difference to    *)
(* polls.  One that returns success speaks of a WQE of this epoch that the *)
(* NIC completed without error, never of a CQE, or of the filler, of       *)
(* before the reset; and "this function waits for the completion to        *)
(* arrive": once it has, the next pass of a poll within a queue of cqe_ci  *)
(* sees it.  The code does not keep this when an epoch that had WQEs is    *)
(* reset a second time: cqe_rsvd forgets the epochs before the last.       *)
PollsSurviveReset ==
  /\ \A i \in DOMAIN status : status[i] = "ok" => i < nic_ok
  /\ \A i \in 0 .. nic_ci - 1 :
       usable /\ i < cqe_ci + CqeNum /\ i + CqeNum >= nic_ci =>
         Result(i) = IF i < nic_ok THEN "ok" ELSE "error"

(* The filler reads as not written yet: by its wqe_counter, or because the *)
(* first lap of this epoch expects the other owner bit.                    *)
FillerTold == counter_check \/ \A s \in Slots : OwnerBit(s + cqe_rsvd) # Filler.owner

(* How far the code does keep it.  After any number of resets and failed   *)
(* attempts, polls are right as long as no epoch with WQEs came before the *)
(* last one (earlier), and, where they look at the owner bit only, as long *)
(* as that epoch left the CQ where the filler reads as not written.        *)
PollsTrueWhileCounted == earlier = 0 /\ FillerTold => PollsSurviveReset
=============================================================================
