------------------------------ MODULE CollapsedCq ------------------------------
(***************************************************************************)
(* The collapsed completion queue: the NIC writes every CQE into the one   *)
(* slot 0, so a poll learns the 16-bit wqe_counter of the latest           *)
(* completion only and rebuilds the 64-bit index from it.  Several threads *)
(* poll while the QP goes on submitting.  Source:                          *)
(* doca_gpu_dev_verbs_poll_cq_collapsed_at in                              *)
(* src/include/device/doca_gpunetio_dev_verbs_cq.cuh; the QP's submissions *)
(* are reduced to their effect on sq_wqe_pi (SendQueue has them in full).  *)
(***************************************************************************)
EXTENDS Integers

CONSTANTS
  Threads,          \* GPU threads polling
  WqeNum,           \* sq_wqe_num: WQEs in flight at most
  CqeNum,           \* cqe_num of the CQ
  IdxMod,           \* 2^16 in the code: range of wqe_counter
  MaxWqes,          \* bound: WQEs submitted in a behaviour
  Errors            \* TRUE: a WQE may complete with an error

(* A counter is told from those a lap of IdxMod away by the distances a    *)
(* poll meets: at most the entries of the queue, plus two.                 *)
ASSUME SizesAssumption ==
  /\ WqeNum \in Nat \ {0}
  /\ CqeNum \in Nat
  /\ CqeNum >= WqeNum
  /\ IdxMod \in Nat
  /\ IdxMod >= CqeNum + 2
  /\ MaxWqes \in Nat
  /\ Errors \in BOOLEAN

VARIABLES
  sq_wqe_pi,        \* WQEs submitted
  cqe_ci,           \* software consumer index, WQEs known to be complete
  wqe_counter,      \* of the CQE in slot 0
  opcode,           \* of the CQE in slot 0
  nic_ci,           \* NIC: WQEs completed
  nic_ok,           \* NIC: WQEs completed before the first error
  pc,               \* thread -> next step
  cons,             \* thread -> cons_index it polls
  new_ci,           \* thread -> new_cqe_ci it computed
  status            \* thread -> status its poll returned

nicVars == <<wqe_counter, opcode, nic_ci, nic_ok>>
vars == <<sq_wqe_pi, cqe_ci, nicVars, pc, cons, new_ci, status>>

Opcodes == {"invalid", "ok", "req_err"}
Pcs == {"idle", "gate", "load_ci", "load_cqe", "advance"}
Statuses == {"none", "ok", "error"}

Idx16(i) == i % IdxMod                      \* (uint16_t)i
Larger(i, j) == IF i >= j THEN i ELSE j

Init ==
  /\ sq_wqe_pi = 0
  /\ cqe_ci = 0
  /\ wqe_counter = 0
  /\ opcode = "invalid"
  /\ nic_ci = 0
  /\ nic_ok = 0
  /\ pc = [t \in Threads |-> "idle"]
  /\ cons = [t \in Threads |-> 0]
  /\ new_ci = [t \in Threads |-> 0]
  /\ status = [t \in Threads |-> "none"]

Goto(t, label) == pc' = [pc EXCEPT ![t] = label]

-----------------------------------------------------------------------------
(* The QP and the NIC.  Callers keep at most WqeNum WQEs in flight.        *)

Submit ==
  /\ sq_wqe_pi < nic_ci + WqeNum
  /\ sq_wqe_pi < MaxWqes
  /\ sq_wqe_pi' = sq_wqe_pi + 1
  /\ UNCHANGED <<cqe_ci, nicVars, pc, cons, new_ci, status>>

(* After an error the queue is flushed: every later WQE fails too.         *)
NicComplete ==
  /\ nic_ci < sq_wqe_pi
  /\ nic_ci' = nic_ci + 1
  /\ wqe_counter' = Idx16(nic_ci)
  /\ \/ nic_ok = nic_ci /\ nic_ok' = nic_ci + 1 /\ opcode' = "ok"
     \/ (Errors \/ nic_ok < nic_ci) /\ nic_ok' = nic_ok /\ opcode' = "req_err"
  /\ UNCHANGED <<sq_wqe_pi, cqe_ci, pc, cons, new_ci, status>>

-----------------------------------------------------------------------------
(* A poll at cons_index.                                                   *)

StartPoll(t, index) ==
  /\ pc[t] = "idle"
  /\ Goto(t, "gate")
  /\ cons' = [cons EXCEPT ![t] = index]
  /\ new_ci' = [new_ci EXCEPT ![t] = 0]
  /\ status' = [status EXCEPT ![t] = "none"]
  /\ UNCHANGED <<sq_wqe_pi, cqe_ci, nicVars>>

Submitted(t) == sq_wqe_pi >= cons[t]

PassGate(t) ==
  /\ pc[t] = "gate"
  /\ Submitted(t)
  /\ Goto(t, "load_ci")
  /\ UNCHANGED <<sq_wqe_pi, cqe_ci, nicVars, cons, new_ci, status>>

LoadCi(t) ==
  /\ pc[t] = "load_ci"
  /\ \/ /\ cons[t] < cqe_ci
        /\ Goto(t, "advance")
        /\ status' = [status EXCEPT ![t] = "ok"]
     \/ /\ cons[t] >= cqe_ci
        /\ Goto(t, "load_cqe")
        /\ UNCHANGED status
  /\ UNCHANGED <<sq_wqe_pi, cqe_ci, nicVars, cons, new_ci>>

BehindNoOffset(index) ==                    \* seeded bug: no - 2
  Idx16(Idx16(index) - wqe_counter) < CqeNum

(* The counter is of a completion before the one the poll waits for.       *)
Behind(index) == Idx16(Idx16(index) - wqe_counter - 2) < CqeNum

CounterAsIs(index) ==                       \* seeded bug: carry forgotten
  index - Idx16(index) + Idx16(wqe_counter + 1)

CarryOnEqual(index) ==                      \* seeded bug: >= in place of >
  LET counter == Idx16(wqe_counter + 1)
  IN index - Idx16(index) + counter
       + (IF Idx16(index) >= counter THEN IdxMod ELSE 0)

(* new_cqe_ci: the upper bits of cons_index, the counter plus one, and a   *)
(* carry when the counter has wrapped past cons_index.                     *)
NewCi(index) ==
  LET counter == Idx16(wqe_counter + 1)
  IN index - Idx16(index) + counter
       + (IF Idx16(index) > counter THEN IdxMod ELSE 0)

(* The cqe_ci read before was at most cons_index: else the poll is over.   *)
LoadCqe(t) ==
  /\ pc[t] = "load_cqe"
  /\ LET waits == opcode = "invalid" \/ Behind(cons[t])
     IN \/ /\ waits
           /\ Goto(t, "load_ci")
           /\ UNCHANGED <<new_ci, status>>
        \/ /\ ~waits
           /\ opcode = "ok"
           /\ Goto(t, "advance")
           /\ new_ci' = [new_ci EXCEPT ![t] = NewCi(cons[t])]
           /\ status' = [status EXCEPT ![t] = "ok"]
        \/ /\ ~waits
           /\ opcode = "req_err"
           /\ Goto(t, "idle")
           /\ status' = [status EXCEPT ![t] = "error"]
           /\ UNCHANGED new_ci
  /\ UNCHANGED <<sq_wqe_pi, cqe_ci, nicVars, cons>>

AdvanceCi(t) ==
  /\ pc[t] = "advance"
  /\ cqe_ci' = Larger(cqe_ci, new_ci[t])
  /\ Goto(t, "idle")
  /\ UNCHANGED <<sq_wqe_pi, nicVars, cons, new_ci, status>>

-----------------------------------------------------------------------------
Step(t) == PassGate(t) \/ LoadCi(t) \/ LoadCqe(t) \/ AdvanceCi(t)

Next ==
  \/ Submit \/ NicComplete
  \/ \E t \in Threads : Step(t) \/ \E index \in 0 .. MaxWqes : StartPoll(t, index)

Spec == Init /\ [][Next]_vars

(* Threads inside a poll keep running, and the NIC executes WQEs.          *)
FairSpec == Spec /\ WF_vars(NicComplete) /\ \A t \in Threads : WF_vars(Step(t))

-----------------------------------------------------------------------------
(* Every variable keeps its type.                                          *)
TypeOK ==
  /\ sq_wqe_pi \in Nat
  /\ cqe_ci \in Nat
  /\ wqe_counter \in 0 .. IdxMod - 1
  /\ opcode \in Opcodes
  /\ nic_ci \in Nat
  /\ nic_ok \in Nat
  /\ pc \in [Threads -> Pcs]
  /\ cons \in [Threads -> Nat]
  /\ new_ci \in [Threads -> Nat]
  /\ status \in [Threads -> Statuses]

(* cons_index is the "index of the CQ to be polled", and the function      *)
(* "waits for the completion to arrive": a poll that returns success       *)
(* speaks of a WQE that has completed without error.  The code does not    *)
(* keep this: with the - 2 of its loop a poll of index i is satisfied by   *)
(* the completion of i - 1, one less (SeenBefore in DeviceProofs).         *)
PolledIsComplete == \A t \in Threads : status[t] = "ok" => cons[t] < nic_ok

(* The index rebuilt from 16 bits claims no WQE that has not succeeded ... *)
ConsumerBehindNic == cqe_ci <= nic_ok

(* ... and is not a lap too low: once a poll has returned success, cqe_ci  *)
(* covers the WQEs before cons_index, so that a later poll of one of them  *)
(* need not look at the CQE.                                               *)
ConsumerCoversPolls ==
  \A t \in Threads : pc[t] = "idle" /\ status[t] = "ok" => cons[t] <= cqe_ci

(* Both: 16 bits of one counter, a cqe_ci that was loaded before it and    *)
(* the carry of a wrap give an index between what polls have reported and  *)
(* what has succeeded.                                                     *)
ConsumerIsExact == ConsumerBehindNic /\ ConsumerCoversPolls

(* The NIC has completed most of a lap of wqe_counter past cons_index: the *)
(* counter reads as one that is still behind (Behind).                     *)
Lapped(t) == nic_ci - cons[t] >= IdxMod - CqeNum

(* "This function waits for the completion to arrive": once it has, the    *)
(* poll returns, unless the NIC gets that far ahead first.                 *)
PollReturns ==
  \A t \in Threads : pc[t] # "idle" /\ nic_ci > cons[t] ~> pc[t] = "idle" \/ Lapped(t)
=============================================================================
