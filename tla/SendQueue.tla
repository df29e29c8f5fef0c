------------------------------ MODULE SendQueue ------------------------------
(***************************************************************************)
(* The GPU-driven send queue of a QP: GPU threads that share the QP        *)
(* reserve WQE slots, wait for the slots to be free, write their WQEs,     *)
(* publish them in order, ring the doorbell under the QP's lock, and poll  *)
(* the completion queue; the NIC takes doorbells, executes WQEs and writes *)
(* CQEs.  Source: src/include/device/doca_gpunetio_dev_verbs_qp.cuh,       *)
(* ..._cq.cuh, ..._common.cuh (atomics and lock), ..._onesided.cuh         *)
(* (callers).                                                              *)
(*                                                                         *)
(* Every WQE asks for a CQE (all callers set CQ_UPDATE), so the CQE of     *)
(* WQE i is the i-th CQE.  Indices are the 64-bit counters of the code,    *)
(* taken as naturals; the 16-bit fields of the doorbell, of the doorbell   *)
(* record and of a CQE are taken modulo IdxMod.                            *)
(***************************************************************************)
EXTENDS Integers

CONSTANTS
  Threads,          \* GPU threads posting on the QP
  WqeNum,           \* sq_wqe_num, slots of the send queue
  CqeNum,           \* cqe_num, slots of the completion queue
  IdxMod,           \* 2^16 in the code: range of a hardware index field
  Counts,           \* numbers of WQEs one operation may reserve
  MaxWqes,          \* bound: WQEs reserved in a behaviour
  Sharing,          \* resource_sharing_mode
  ReadyMode,        \* ready_mode
  WqeCounterCheck,  \* TRUE: the build for arch < sm_90 compares wqe_counter
  SkipDbRinging,    \* TRUE: callers may pass CODE_OPT_SKIP_DB_RINGING
  Errors            \* TRUE: a WQE may complete with an error

SharingModes == {"EXCLUSIVE", "GPU"}  \* CTA is GPU with narrower scopes
ReadyModes == {"ATOMIC_CAS", "LD_ST"}

(* CQ and SQ are created with the same number of entries or more CQEs; a   *)
(* 16-bit index is ambiguous only over IdxMod entries.                     *)
ASSUME SizesAssumption ==
  /\ WqeNum \in Nat \ {0}
  /\ CqeNum \in Nat
  /\ CqeNum >= WqeNum
  /\ IdxMod \in Nat
  /\ IdxMod > WqeNum
  /\ MaxWqes \in Nat
  /\ Counts \subseteq Nat \ {0}

ASSUME ModesAssumption ==
  /\ Sharing \in SharingModes
  /\ ReadyMode \in ReadyModes
  /\ WqeCounterCheck \in BOOLEAN
  /\ SkipDbRinging \in BOOLEAN
  /\ Errors \in BOOLEAN

(* EXCLUSIVE promises that one thread uses the QP.                         *)
ASSUME ExclusiveAssumption ==
  Sharing = "EXCLUSIVE" => \A t, u \in Threads : t = u

VARIABLES
  sq_rsvd_index,    \* next index to reserve
  sq_ready_index,   \* WQEs below it are published
  sq_wqe_pi,        \* largest producer index submitted
  sq_lock,          \* 0 free, 1 held
  cqe_ci,           \* completions below it are known to have succeeded
  wq,               \* slot -> index of the WQE it holds
  cq,               \* slot -> index of the CQE it holds, seen as bits only
  dbr,              \* doorbell record of the send queue, mod IdxMod
  db,               \* doorbell on its way to the NIC, or NoDb
  nic_pi,           \* NIC: WQEs it has been told about
  nic_ci,           \* NIC: WQEs it has completed
  nic_ok,           \* NIC: WQEs completed before the first error
  pc,               \* thread -> next step
  base, count,      \* thread -> first index and size of its reservation
  cur,              \* thread -> next WQE to write
  cons, seen_ci,    \* thread -> cons_index it polls, cqe_ci it read
  caller,           \* thread -> who called the poll
  status            \* thread -> status its poll returned

indexVars == <<sq_rsvd_index, sq_ready_index, sq_wqe_pi, sq_lock>>
ringVars == <<wq, cq, dbr, db>>
nicVars == <<nic_pi, nic_ci, nic_ok>>
opVars == <<base, count, cur>>
pollVars == <<cons, seen_ci, caller, status>>
vars == <<indexVars, cqe_ci, ringVars, nicVars, pc, opVars, pollVars>>

NoDb == -1
PollPcs == {"load_ci", "load_cqe", "advance"}
FillPcs == {"write", "ready", "ready_store"}
SubmitPcs == {"fetch_max", "ring_early", "update_dbr", "ring_again", "unlock"}
Pcs == {"idle", "lock"} \cup PollPcs \cup FillPcs \cup SubmitPcs
Callers == {"none", "reserve", "wait", "try"}
Statuses == {"none", "ok", "error", "busy"}

Slot(i) == i % WqeNum                   \* get_wqe_ptr: wqe_idx & nwqes_mask
CqSlot(i) == i % CqeNum                 \* cons_index & (cqe_num - 1)
Idx16(i) == i % IdxMod                  \* prepare_dbr, prepare_db
OwnerBit(i) == (i \div CqeNum) % 2      \* !!(cons_index & cqe_num)
Prod(t) == base[t] + count[t]           \* prod_index the operation submits
Larger(i, j) == IF i >= j THEN i ELSE j

(* At export every CQE is invalid and owned by hardware: the owner bit of  *)
(* the lap before the first.                                               *)
Init ==
  /\ sq_rsvd_index = 0
  /\ sq_ready_index = 0
  /\ sq_wqe_pi = 0
  /\ sq_lock = 0
  /\ cqe_ci = 0
  /\ wq = [s \in 0 .. WqeNum - 1 |-> s - WqeNum]
  /\ cq = [s \in 0 .. CqeNum - 1 |-> s - CqeNum]
  /\ dbr = 0
  /\ db = NoDb
  /\ nic_pi = 0
  /\ nic_ci = 0
  /\ nic_ok = 0
  /\ pc = [t \in Threads |-> "idle"]
  /\ base = [t \in Threads |-> 0]
  /\ count = [t \in Threads |-> 0]
  /\ cur = [t \in Threads |-> 0]
  /\ cons = [t \in Threads |-> 0]
  /\ seen_ci = [t \in Threads |-> 0]
  /\ caller = [t \in Threads |-> "none"]
  /\ status = [t \in Threads |-> "none"]

Goto(t, label) == pc' = [pc EXCEPT ![t] = label]

-----------------------------------------------------------------------------
(* Polling: doca_gpu_dev_verbs_poll_cq_at (caller "reserve" or "wait",     *)
(* loops until the CQE is there) and doca_gpu_dev_verbs_poll_one_cq_at     *)
(* (caller "try", one pass).                                               *)

StartPoll(t, index, who) ==
  /\ Goto(t, "load_ci")
  /\ cons' = [cons EXCEPT ![t] = index]
  /\ caller' = [caller EXCEPT ![t] = who]
  /\ status' = [status EXCEPT ![t] = "none"]
  /\ UNCHANGED seen_ci

(* The slot wait of reserve_wq_slots drops the status of its poll and goes *)
(* on to write; the other callers return it to the kernel.                 *)
FinishPoll(t, result) ==
  /\ Goto(t, IF caller[t] = "reserve" THEN "write" ELSE "idle")
  /\ status' = [status EXCEPT ![t] = result]
  /\ UNCHANGED <<cons, caller>>

NotYet(t) ==
  IF caller[t] = "try"
  THEN FinishPoll(t, "busy")
  ELSE Goto(t, "load_ci") /\ UNCHANGED <<cons, caller, status>>

InWindow(index, ci) == index < ci + CqeNum

Failed(e) == e >= nic_ok                \* opcode is REQ_ERR

ObservedByOwnerOnly(e, index) ==        \* seeded bug: wqe_counter not compared
  OwnerBit(e) = OwnerBit(index)

ObservedAnyLap(e, index) ==             \* seeded bug: owner bit not compared
  WqeCounterCheck => Idx16(e) = Idx16(index)

(* What the owner bit (and, before sm_90, wqe_counter) of the CQE in the   *)
(* slot of index tells: e is the index whose completion the slot holds.    *)
Observed(e, index) ==
  /\ OwnerBit(e) = OwnerBit(index)
  /\ WqeCounterCheck => Idx16(e) = Idx16(index)

LoadCi(t) ==
  /\ pc[t] = "load_ci"
  /\ \/ /\ cons[t] < cqe_ci
        /\ Goto(t, "advance")
        /\ status' = [status EXCEPT ![t] = "ok"]
        /\ UNCHANGED <<cons, seen_ci, caller>>
     \/ /\ cons[t] >= cqe_ci
        /\ caller[t] = "try" => InWindow(cons[t], cqe_ci)
        /\ Goto(t, "load_cqe")
        /\ seen_ci' = [seen_ci EXCEPT ![t] = cqe_ci]
        /\ UNCHANGED <<cons, caller, status>>
     \/ /\ cons[t] >= cqe_ci
        /\ caller[t] = "try"
        /\ ~InWindow(cons[t], cqe_ci)
        /\ FinishPoll(t, "busy")
        /\ UNCHANGED seen_ci
  /\ UNCHANGED <<indexVars, cqe_ci, ringVars, nicVars, opVars>>

LoadCqe(t) ==
  /\ pc[t] = "load_cqe"
  /\ LET e == cq[CqSlot(cons[t])]
         there == InWindow(cons[t], seen_ci[t]) /\ Observed(e, cons[t])
     IN \/ /\ there
           /\ ~Failed(e)
           /\ Goto(t, "advance")
           /\ status' = [status EXCEPT ![t] = "ok"]
           /\ UNCHANGED <<cons, caller>>
        \/ /\ there
           /\ Failed(e)
           /\ FinishPoll(t, "error")
        \/ /\ ~there
           /\ NotYet(t)
  /\ UNCHANGED <<indexVars, cqe_ci, ringVars, nicVars, opVars, seen_ci>>

AdvanceCiForgotten(t) ==                \* seeded bug: cqe_ci not advanced
  /\ pc[t] = "advance"
  /\ FinishPoll(t, "ok")
  /\ UNCHANGED <<indexVars, cqe_ci, ringVars, nicVars, opVars, seen_ci>>

AdvanceCi(t) ==
  /\ pc[t] = "advance"
  /\ cqe_ci' = Larger(cqe_ci, cons[t] + 1)
  /\ FinishPoll(t, "ok")
  /\ UNCHANGED <<indexVars, ringVars, nicVars, opVars, seen_ci>>

-----------------------------------------------------------------------------
(* One operation (put, signal, ...): reserve_wq_slots, wqe_prepare_* for   *)
(* each WQE, mark_wqes_ready, submit_db.                                   *)

SlotWaitOnFirst(first, n) == first - WqeNum   \* seeded bug: first slot only

(* The slots of a reservation are free once the WQE that last used the     *)
(* last of them, one lap before, has completed.                            *)
SlotWaitIndex(first, n) == first + n - 1 - WqeNum

Reserve(t, n) ==
  /\ pc[t] = "idle"
  /\ sq_rsvd_index + n <= MaxWqes
  /\ base' = [base EXCEPT ![t] = sq_rsvd_index]
  /\ count' = [count EXCEPT ![t] = n]
  /\ cur' = [cur EXCEPT ![t] = sq_rsvd_index]
  /\ sq_rsvd_index' = sq_rsvd_index + n
  /\ LET index == SlotWaitIndex(sq_rsvd_index, n)
     IN \/ index >= 0 /\ StartPoll(t, index, "reserve")
        \/ index < 0 /\ Goto(t, "write") /\ UNCHANGED pollVars
  /\ UNCHANGED <<sq_ready_index, sq_wqe_pi, sq_lock, cqe_ci, ringVars, nicVars>>

WriteWqe(t) ==
  /\ pc[t] = "write"
  /\ wq' = [wq EXCEPT ![Slot(cur[t])] = cur[t]]
  /\ cur' = [cur EXCEPT ![t] = cur[t] + 1]
  /\ Goto(t, IF cur[t] + 1 = Prod(t) THEN "ready" ELSE "write")
  /\ UNCHANGED <<indexVars, cqe_ci, cq, dbr, db, nicVars, base, count, pollVars>>

MyTurnAlways(t) == TRUE                 \* seeded bug: publication out of order

(* Publishing waits for every earlier reservation to be published.         *)
MyTurn(t) == Sharing = "EXCLUSIVE" \/ sq_ready_index = base[t]

MarkReady(t) ==
  /\ pc[t] = "ready"
  /\ MyTurn(t)
  /\ \/ /\ Sharing = "EXCLUSIVE" \/ ReadyMode = "ATOMIC_CAS"
        /\ sq_ready_index' = Prod(t)
        /\ Goto(t, "lock")
     \/ /\ Sharing # "EXCLUSIVE"
        /\ ReadyMode = "LD_ST"
        /\ Goto(t, "ready_store")
        /\ UNCHANGED sq_ready_index
  /\ UNCHANGED <<sq_rsvd_index, sq_wqe_pi, sq_lock, cqe_ci, ringVars, nicVars,
                 opVars, pollVars>>

StoreReady(t) ==
  /\ pc[t] = "ready_store"
  /\ sq_ready_index' = Prod(t)
  /\ Goto(t, "lock")
  /\ UNCHANGED <<sq_rsvd_index, sq_wqe_pi, sq_lock, cqe_ci, ringVars, nicVars,
                 opVars, pollVars>>

-----------------------------------------------------------------------------
(* submit_db: only the thread that raises sq_wqe_pi rings, twice around    *)
(* the update of the doorbell record.                                      *)

LockAlwaysFree == TRUE                  \* seeded bug: lock not waited for

LockFree == Sharing = "EXCLUSIVE" \/ sq_lock = 0

Lock(t) ==
  /\ pc[t] = "lock"
  /\ LockFree
  /\ sq_lock' = 1
  /\ Goto(t, "fetch_max")
  /\ UNCHANGED <<sq_rsvd_index, sq_ready_index, sq_wqe_pi, cqe_ci, ringVars,
                 nicVars, opVars, pollVars>>

SkipSubmit(t) ==
  /\ pc[t] = "lock"
  /\ SkipDbRinging
  /\ Goto(t, "idle")
  /\ UNCHANGED <<indexVars, cqe_ci, ringVars, nicVars, opVars, pollVars>>

FetchStore(t) ==                        \* seeded bug: store in place of fetch_max
  /\ pc[t] = "fetch_max"
  /\ sq_wqe_pi' = Prod(t)
  /\ Goto(t, "ring_early")
  /\ UNCHANGED <<sq_rsvd_index, sq_ready_index, sq_lock, cqe_ci, ringVars,
                 nicVars, opVars, pollVars>>

FetchMax(t) ==
  /\ pc[t] = "fetch_max"
  /\ sq_wqe_pi' = Larger(sq_wqe_pi, Prod(t))
  /\ Goto(t, IF sq_wqe_pi < Prod(t) THEN "ring_early" ELSE "unlock")
  /\ UNCHANGED <<sq_rsvd_index, sq_ready_index, sq_lock, cqe_ci, ringVars,
                 nicVars, opVars, pollVars>>

DbValue(t) == Idx16(Prod(t))
DbrValueWide(t) == Prod(t)              \* seeded bug: not masked to 16 bits
DbrValue(t) == Idx16(Prod(t))

RingDb(t, here, after) ==
  /\ pc[t] = here
  /\ db' = DbValue(t)
  /\ Goto(t, after)
  /\ UNCHANGED <<indexVars, cqe_ci, wq, cq, dbr, nicVars, opVars, pollVars>>

RingEarly(t) == RingDb(t, "ring_early", "update_dbr")

UpdateDbr(t) ==
  /\ pc[t] = "update_dbr"
  /\ dbr' = DbrValue(t)
  /\ Goto(t, "ring_again")
  /\ UNCHANGED <<indexVars, cqe_ci, wq, cq, db, nicVars, opVars, pollVars>>

RingAgainForgotten(t) ==                \* seeded bug: early ring only
  /\ pc[t] = "ring_again"
  /\ Goto(t, "unlock")
  /\ UNCHANGED <<indexVars, cqe_ci, ringVars, nicVars, opVars, pollVars>>

RingAgain(t) == RingDb(t, "ring_again", "unlock")

Unlock(t) ==
  /\ pc[t] = "unlock"
  /\ sq_lock' = 0
  /\ Goto(t, "idle")
  /\ UNCHANGED <<sq_rsvd_index, sq_ready_index, sq_wqe_pi, cqe_ci, ringVars,
                 nicVars, opVars, pollVars>>

-----------------------------------------------------------------------------
(* The kernel waits on the ticket of its last operation (wait with a       *)
(* ticket), on whatever was reserved last (wait without one), or looks     *)
(* once (poll_one_cq_at).                                                  *)

PollTargets(t) ==
  (IF count[t] > 0 THEN {Prod(t) - 1} ELSE {})
  \cup (IF sq_rsvd_index > 0 THEN {sq_rsvd_index - 1} ELSE {})

Wait(t) ==
  /\ pc[t] = "idle"
  /\ \E index \in PollTargets(t) : StartPoll(t, index, "wait")
  /\ UNCHANGED <<indexVars, cqe_ci, ringVars, nicVars, opVars>>

TryPoll(t) ==
  /\ pc[t] = "idle"
  /\ \E index \in PollTargets(t) : StartPoll(t, index, "try")
  /\ UNCHANGED <<indexVars, cqe_ci, ringVars, nicVars, opVars>>

-----------------------------------------------------------------------------
(* The NIC, from how the code uses it.  It reads a 16-bit index as the     *)
(* nearest one at or after its own.  A doorbell it had to drop is          *)
(* recovered from the doorbell record, the recovery path submit_db speaks  *)
(* of.  Doorbells on their way coalesce: all carry the latest index.       *)

NextIndex(field) == nic_pi + Idx16(field - nic_pi)

NicDoorbell ==
  /\ db # NoDb
  /\ nic_pi' = NextIndex(db)
  /\ db' = NoDb
  /\ UNCHANGED <<indexVars, cqe_ci, wq, cq, dbr, nic_ci, nic_ok, pc, opVars, pollVars>>

NicRecover ==
  /\ db # NoDb
  /\ nic_pi' = NextIndex(dbr)
  /\ db' = NoDb
  /\ UNCHANGED <<indexVars, cqe_ci, wq, cq, dbr, nic_ci, nic_ok, pc, opVars, pollVars>>

(* After an error the queue is flushed: every later WQE fails too.         *)
NicComplete ==
  /\ nic_ci < nic_pi
  /\ cq' = [cq EXCEPT ![CqSlot(nic_ci)] = nic_ci]
  /\ nic_ci' = nic_ci + 1
  /\ \/ nic_ok = nic_ci /\ nic_ok' = nic_ci + 1
     \/ (Errors \/ nic_ok < nic_ci) /\ nic_ok' = nic_ok
  /\ UNCHANGED <<indexVars, cqe_ci, wq, dbr, db, nic_pi, pc, opVars, pollVars>>

-----------------------------------------------------------------------------
Step(t) ==
  \/ LoadCi(t) \/ LoadCqe(t) \/ AdvanceCi(t)
  \/ WriteWqe(t) \/ MarkReady(t) \/ StoreReady(t)
  \/ Lock(t) \/ SkipSubmit(t) \/ FetchMax(t)
  \/ RingEarly(t) \/ UpdateDbr(t) \/ RingAgain(t) \/ Unlock(t)

Call(t) == (\E n \in Counts : Reserve(t, n)) \/ Wait(t) \/ TryPoll(t)

NicTakeDb == NicDoorbell \/ NicRecover

Next == NicTakeDb \/ NicComplete \/ \E t \in Threads : Step(t) \/ Call(t)

Spec == Init /\ [][Next]_vars

(* A GPU thread inside a call keeps running (independent thread            *)
(* scheduling); the NIC handles doorbells and WQEs.  Nothing obliges a     *)
(* kernel to make another call.                                            *)
Fairness ==
  /\ WF_vars(NicTakeDb)
  /\ WF_vars(NicComplete)
  /\ \A t \in Threads : WF_vars(Step(t))

FairSpec == Spec /\ Fairness

-----------------------------------------------------------------------------
(* Properties.                                                             *)

(* Every variable keeps its type, whatever the constants.                  *)
TypeOK ==
  /\ sq_rsvd_index \in Nat
  /\ sq_ready_index \in Nat
  /\ sq_wqe_pi \in Nat
  /\ sq_lock \in {0, 1}
  /\ cqe_ci \in Nat
  /\ wq \in [0 .. WqeNum - 1 -> Int]
  /\ cq \in [0 .. CqeNum - 1 -> Int]
  /\ dbr \in 0 .. IdxMod - 1
  /\ db \in (0 .. IdxMod - 1) \cup {NoDb}
  /\ nic_pi \in Nat
  /\ nic_ci \in Nat
  /\ nic_ok \in Nat
  /\ pc \in [Threads -> Pcs]
  /\ base \in [Threads -> Nat]
  /\ count \in [Threads -> Nat]
  /\ cur \in [Threads -> Nat]
  /\ cons \in [Threads -> Nat]
  /\ seen_ci \in [Threads -> Nat]
  /\ caller \in [Threads -> Callers]
  /\ status \in [Threads -> Statuses]

(* A WQE stays in its slot, whole, from publication until the NIC has      *)
(* completed it: no thread that reuses the slot one lap later can reach it *)
(* first.  This is what wait_until_slot_available is for.                  *)
PublishedIntact ==
  \A i \in nic_ci .. sq_ready_index - 1 : wq[Slot(i)] = i

(* The NIC is never told about a WQE that is not published, nor led        *)
(* backwards: a stale 16-bit index would read as a jump of almost IdxMod.  *)
(* This is what mark_wqes_ready, fetch_max and the lock are for.           *)
DoorbellCoversReady ==
  /\ nic_pi <= sq_wqe_pi
  /\ sq_wqe_pi <= sq_ready_index
  /\ sq_ready_index <= sq_rsvd_index

(* sq_lock admits one thread to fetch_max .. unlock.                       *)
LockExclusion ==
  \A t, u \in Threads :
    pc[t] \in SubmitPcs /\ pc[u] \in SubmitPcs => t = u

(* No doorbell is lost: when no submit_db is under way and none is on its  *)
(* way to the NIC, the NIC knows of everything that was submitted, the     *)
(* recovery path included; and without SKIP_DB_RINGING everything          *)
(* published has been submitted.                                           *)
NoLostDoorbell ==
  db = NoDb /\ (\A t \in Threads : pc[t] \notin SubmitPcs \cup {"lock"}) =>
    /\ nic_pi = sq_wqe_pi
    /\ ~SkipDbRinging => sq_wqe_pi = sq_ready_index

(* A poll that returns success is right: the WQE it asked about has        *)
(* completed without error, however stale the cqe_ci it had read and       *)
(* whatever lap the CQE it saw belongs to.                                 *)
SuccessIsTrue ==
  \A t \in Threads :
    pc[t] \notin PollPcs /\ status[t] = "ok" => cons[t] < nic_ok

(* cqe_ci claims no completion that has not succeeded.                     *)
ConsumerBehindNic == cqe_ci <= nic_ok

(* A poll that returns an error is right: the WQE it asked about itself    *)
(* has completed with an error.                                            *)
ErrorIsTrue ==
  \A t \in Threads :
    status[t] = "error" => nic_ok <= cons[t] /\ cons[t] < nic_ci

(* The doorbell record moves forward, by no more than a queue of WQEs: the *)
(* NIC can always tell which index its 16 bits mean.                       *)
RecordForward == dbr' # dbr => Idx16(dbr' - dbr) <= WqeNum
DbrMovesForward == [][RecordForward]_vars

(* The queue keeps the promise of WorkQueue: the steps of the threads and  *)
(* the NIC, seen through these five counters, are those of a bounded FIFO. *)
WQ == INSTANCE WorkQueue WITH
        Depth <- WqeNum,
        posted <- sq_ready_index,
        submitted <- nic_pi,
        executed <- nic_ci,
        succeeded <- nic_ok,
        acked <- cqe_ci

ImplementsWorkQueue == WQ!Spec

(* Every WQE reserved is eventually executed: slots are freed, turns to    *)
(* publish come, the lock is handed on and doorbells arrive.               *)
EveryWqeCompletes ==
  \A i \in 0 .. MaxWqes - 1 : sq_rsvd_index > i ~> nic_ci > i

(* A poll that waits returns once its completion has arrived, with success *)
(* or error (doca_gpu_dev_verbs_poll_cq_at).                               *)
PollReturns ==
  \A t \in Threads :
    pc[t] \in PollPcs /\ nic_ci > cons[t] ~> pc[t] \notin PollPcs
=============================================================================
