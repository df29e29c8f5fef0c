------------------------------- MODULE CpuProxy -------------------------------
(***************************************************************************)
(* The CPU proxy of src/src/doca_gpunetio.cpp.  GPU threads publish WQEs   *)
(* and raise an index in memory; a service thread of the host, or nobody   *)
(* else, turns the index into doorbell record and doorbell.  The host adds *)
(* QPs to the service while it runs and finally destroys it.               *)
(*                                                                         *)
(* Posting is reduced to its promise (SendQueue has it in full): a thread  *)
(* publishes the next WQE of a QP whenever fewer than WqeNum are under way.*)
(***************************************************************************)
EXTENDS Integers, FiniteSetsExt

CONSTANTS
  Threads,          \* GPU threads
  FullQps,          \* QPs whose doorbell only the CPU rings, with a record
  NoDbrHwQps,       \* the same on a NIC without doorbell record
  AssistedQps,      \* NO_DBR_SW_EMULATED: the GPU rings, the CPU keeps the record
  Populations,      \* the sets of QPs an application may work with
  WqeNum,           \* sq_wqe_num
  IdxMod,           \* 2^16 in the code: range of a hardware index
  First,            \* index every QP has come to when the service starts
  MaxWqes           \* bound: WQEs posted in a behaviour, over all QPs

QPs == FullQps \cup NoDbrHwQps \cup AssistedQps

ASSUME ProxyAssumption ==
  /\ FullQps \cap NoDbrHwQps = {}
  /\ (FullQps \cup NoDbrHwQps) \cap AssistedQps = {}
  /\ Populations \subseteq SUBSET QPs
  /\ WqeNum \in Nat \ {0}
  /\ First \in Nat
  /\ MaxWqes \in Nat
  /\ IdxMod \in Nat
  /\ IdxMod > 2 * WqeNum

VARIABLES
  used,             \* the QPs of this application, in Populations
  ready,            \* QP -> WQEs published
  cpu_db,           \* QP -> the index the proxy reads (sq_wqe_pi if assisted)
  last,             \* QP -> sq_wqe_pi_last
  dbr,              \* QP -> doorbell record, mod IdxMod
  db,               \* QP -> indices of the doorbells on their way to the NIC
  nic_pi, nic_ci,   \* QP -> WQEs the NIC knows of, has executed
  pc, on, prod,     \* GPU thread -> next step, its QP, its prod_index
  qps, running,     \* the service: monitored QPs, its flag
  lock, waiting,    \* service_lock, and whether a writer waits for it
  svc,              \* next step of the service thread
  todo, cur,        \* QPs left in this round, QP being progressed
  tmp_db,           \* index loaded for cur
  progressed,       \* of this round
  host, host_qp     \* next step of the controlling thread, QP it monitors

qpVars == <<ready, cpu_db, last, dbr, db, nic_pi, nic_ci>>
gpuVars == <<pc, on, prod>>
roundVars == <<todo, cur, tmp_db, progressed>>
serviceVars == <<qps, running, lock, waiting>>
hostVars == <<host, host_qp>>
vars == <<used, qpVars, gpuVars, roundVars, serviceVars, svc, hostVars>>

NoQp == "none"
SvcPcs == {"check", "rdlock", "next", "load", "ring_early", "update_dbr", "ring",
           "yield", "exited"}
IteratingPcs == {"next", "load", "ring_early", "update_dbr", "ring"}
HostPcs == {"idle", "wrlock", "waiting", "insert", "join", "gone"}

Idx16(i) == i % IdxMod
Larger(i, j) == IF i >= j THEN i ELSE j

(* The NIC still reads the 16 bits of index k as "behind" from index i.    *)
Recent(k, i) == 2 * (i - k) <= IdxMod

Init ==
  /\ used \in Populations
  /\ ready = [q \in QPs |-> First]
  /\ cpu_db = [q \in QPs |-> First]
  /\ last = [q \in QPs |-> First]
  /\ dbr = [q \in QPs |-> Idx16(First)]
  /\ db = [q \in QPs |-> {}]
  /\ nic_pi = [q \in QPs |-> First]
  /\ nic_ci = [q \in QPs |-> First]
  /\ pc = [t \in Threads |-> "idle"]
  /\ on = [t \in Threads |-> NoQp]
  /\ prod = [t \in Threads |-> 0]
  /\ qps = {}
  /\ running = TRUE
  /\ lock = "free"
  /\ waiting = FALSE
  /\ svc = "check"
  /\ todo = {}
  /\ cur = NoQp
  /\ tmp_db = 0
  /\ progressed = FALSE
  /\ host = "idle"
  /\ host_qp = NoQp

-----------------------------------------------------------------------------
(* GPU threads.                                                            *)

(* WQEs of all QPs, for the bound.                                         *)
Posted == MapThenSumSet(LAMBDA r : ready[r] - First, QPs)

(* Assumed of the environment: in the time that half the range of an index *)
(* is posted, a GPU thread that raised an index rings it, doorbells arrive, *)
(* and the service brings the record of a QP the GPU rings up to date.     *)
Timely(q, i) ==
  /\ \A t \in Threads : pc[t] = "ring" /\ on[t] = q => Recent(prod[t], i)
  /\ \A k \in db[q] : Recent(k, i)
  /\ q \in AssistedQps => Recent(last[q], i)

Post(t, q) ==
  /\ pc[t] = "idle"
  /\ q \in used
  /\ ready[q] < nic_ci[q] + WqeNum
  /\ Timely(q, ready[q] + 1)
  /\ Posted < MaxWqes
  /\ ready' = [ready EXCEPT ![q] = @ + 1]
  /\ pc' = [pc EXCEPT ![t] = "submit"]
  /\ on' = [on EXCEPT ![t] = q]
  /\ prod' = [prod EXCEPT ![t] = ready[q] + 1]
  /\ UNCHANGED <<used, cpu_db, last, dbr, db, nic_pi, nic_ci, roundVars, serviceVars,
                 svc, hostVars>>

Raised(t) == Larger(cpu_db[on[t]], prod[t])

(* submit_proxy: one fetch_max; the proxy does the rest.                   *)
SubmitProxy(t) ==
  /\ pc[t] = "submit"
  /\ on[t] \notin AssistedQps
  /\ cpu_db' = [cpu_db EXCEPT ![on[t]] = Raised(t)]
  /\ pc' = [pc EXCEPT ![t] = "idle"]
  /\ UNCHANGED <<used, ready, last, dbr, db, nic_pi, nic_ci, on, prod, roundVars,
                 serviceVars, svc, hostVars>>

(* submit_db_no_dbr: whoever raises the index rings, without a lock.       *)
SubmitNoDbr(t) ==
  /\ pc[t] = "submit"
  /\ on[t] \in AssistedQps
  /\ cpu_db' = [cpu_db EXCEPT ![on[t]] = Raised(t)]
  /\ pc' = [pc EXCEPT ![t] = IF cpu_db[on[t]] < prod[t] THEN "ring" ELSE "idle"]
  /\ UNCHANGED <<used, ready, last, dbr, db, nic_pi, nic_ci, on, prod, roundVars,
                 serviceVars, svc, hostVars>>

GpuRing(t) ==
  /\ pc[t] = "ring"
  /\ db' = [db EXCEPT ![on[t]] = @ \cup {prod[t]}]
  /\ pc' = [pc EXCEPT ![t] = "idle"]
  /\ UNCHANGED <<used, ready, cpu_db, last, dbr, nic_pi, nic_ci, on, prod, roundVars,
                 serviceVars, svc, hostVars>>

-----------------------------------------------------------------------------
(* The service thread: priv_service_mainloop.                              *)

CheckRunning ==
  /\ svc = "check"
  /\ svc' = IF running THEN "rdlock" ELSE "exited"
  /\ UNCHANGED <<used, qpVars, gpuVars, roundVars, serviceVars, hostVars>>

StartRoundSticky ==                         \* seeded bug: progressed not reset
  /\ todo' = qps
  /\ UNCHANGED progressed

StartRound ==
  /\ todo' = qps
  /\ progressed' = FALSE

RdLock ==
  /\ svc = "rdlock"
  /\ lock = "free"
  /\ lock' = "read"
  /\ svc' = "next"
  /\ StartRound
  /\ UNCHANGED <<used, qpVars, gpuVars, cur, tmp_db, qps, running, waiting, hostVars>>

(* The order of a std::set of pointers is any order.                       *)
NextQp ==
  /\ svc = "next"
  /\ \E q \in todo : cur' = q /\ todo' = todo \ {q}
  /\ svc' = "load"
  /\ UNCHANGED <<used, qpVars, gpuVars, tmp_db, progressed, serviceVars, hostVars>>

Again ==
  /\ svc = "next"
  /\ todo = {}
  /\ progressed
  /\ StartRound
  /\ UNCHANGED <<used, qpVars, gpuVars, cur, tmp_db, serviceVars, svc, hostVars>>

RdUnlockReaderFirst ==                      \* seeded bug: no hand-over to a writer
  /\ svc = "next"
  /\ todo = {}
  /\ ~progressed
  /\ svc' = "rdlock"
  /\ lock' = "free"
  /\ UNCHANGED <<used, qpVars, gpuVars, roundVars, qps, running, waiting, hostVars>>

(* A writer that came while the lock was read-locked has it next (glibc).  *)
RdUnlock ==
  /\ svc = "next"
  /\ todo = {}
  /\ ~progressed
  /\ svc' = "yield"
  /\ waiting' = FALSE
  /\ lock' = IF waiting THEN "write" ELSE "free"
  /\ host' = IF waiting THEN "insert" ELSE host
  /\ UNCHANGED <<used, qpVars, gpuVars, roundVars, qps, running, host_qp>>

Yield ==
  /\ svc = "yield"
  /\ svc' = "check"
  /\ UNCHANGED <<used, qpVars, gpuVars, roundVars, serviceVars, hostVars>>

(* cpu_proxy_progress: what follows the load depends on who rings and      *)
(* whether the NIC has a record.                                           *)
LoadDb ==
  /\ svc = "load"
  /\ tmp_db' = cpu_db[cur]
  /\ svc' = CASE cpu_db[cur] = last[cur] -> "next"
              [] cpu_db[cur] # last[cur] /\ cur \in FullQps -> "ring_early"
              [] cpu_db[cur] # last[cur] /\ cur \in AssistedQps -> "update_dbr"
              [] OTHER -> "ring"
  /\ UNCHANGED <<used, qpVars, gpuVars, todo, cur, progressed, serviceVars, hostVars>>

SvcRing(from, to) ==
  /\ svc = from
  /\ svc' = to
  /\ db' = [db EXCEPT ![cur] = @ \cup {tmp_db}]

RingEarly ==
  /\ SvcRing("ring_early", "update_dbr")
  /\ UNCHANGED <<used, ready, cpu_db, last, dbr, nic_pi, nic_ci, gpuVars, roundVars,
                 serviceVars, hostVars>>

DbrValAhead(i) == Idx16(i + WqeNum)         \* seeded bug: wrong record

DbrVal(i) == Idx16(i)                       \* htobe32(tmp_db & 0xffff)

UpdateDbrThenSkip ==                        \* seeded bug: no second doorbell
  /\ svc = "update_dbr"
  /\ dbr' = [dbr EXCEPT ![cur] = DbrVal(tmp_db)]
  /\ last' = [last EXCEPT ![cur] = tmp_db]
  /\ progressed' = (progressed \/ cur \notin AssistedQps)
  /\ svc' = "next"
  /\ UNCHANGED <<used, ready, cpu_db, db, nic_pi, nic_ci, gpuVars, todo, cur, tmp_db,
                 serviceVars, hostVars>>

UpdateDbr ==
  /\ svc = "update_dbr"
  /\ dbr' = [dbr EXCEPT ![cur] = DbrVal(tmp_db)]
  /\ svc' = "ring"
  /\ UNCHANGED <<used, ready, cpu_db, last, db, nic_pi, nic_ci, gpuVars, roundVars,
                 serviceVars, hostVars>>

RememberedReloaded == cpu_db[cur]             \* seeded bug: loads the index again

Remembered == tmp_db                        \* sq_wqe_pi_last = tmp_db

(* The assisted mode reports no progress, so it does not keep the loop on. *)
Ring ==
  /\ SvcRing("ring", "next")
  /\ last' = [last EXCEPT ![cur] = Remembered]
  /\ progressed' = (progressed \/ cur \notin AssistedQps)
  /\ UNCHANGED <<used, ready, cpu_db, dbr, nic_pi, nic_ci, gpuVars, todo, cur, tmp_db,
                 serviceVars, hostVars>>

-----------------------------------------------------------------------------
(* The controlling thread: service_monitor_qp and destroy_service.         *)

Monitor(q) ==
  /\ host = "idle"
  /\ q \in used \ qps
  /\ host' = "wrlock"
  /\ host_qp' = q
  /\ UNCHANGED <<used, qpVars, gpuVars, roundVars, serviceVars, svc>>

WrLockNever ==                              \* seeded bug: inserts without the lock
  /\ host = "wrlock"
  /\ host' = "insert"
  /\ UNCHANGED <<used, qpVars, gpuVars, roundVars, qps, running, lock, waiting, svc, host_qp>>

WrLock ==
  /\ host = "wrlock"
  /\ \/ lock = "free" /\ lock' = "write" /\ host' = "insert" /\ UNCHANGED waiting
     \/ lock = "read" /\ waiting' = TRUE /\ host' = "waiting" /\ UNCHANGED lock
  /\ UNCHANGED <<used, qpVars, gpuVars, roundVars, qps, running, svc, host_qp>>

(* Insert and unlock.                                                      *)
Insert ==
  /\ host = "insert"
  /\ qps' = qps \cup {host_qp}
  /\ lock' = "free"
  /\ host' = "idle"
  /\ UNCHANGED <<used, qpVars, gpuVars, roundVars, running, waiting, svc, host_qp>>

Destroy ==
  /\ host = "idle"
  /\ running' = FALSE
  /\ host' = "join"
  /\ UNCHANGED <<used, qpVars, gpuVars, roundVars, qps, lock, waiting, svc, host_qp>>

(* pthread_join; the lock, the set and the service are freed.              *)
Join ==
  /\ host = "join"
  /\ svc = "exited"
  /\ qps' = {}
  /\ host' = "gone"
  /\ UNCHANGED <<used, qpVars, gpuVars, roundVars, running, lock, waiting, svc, host_qp>>

-----------------------------------------------------------------------------
(* The NIC.  Doorbells of CPU and GPU may arrive in any order, so it takes *)
(* an index only if that is ahead of its own in the sense of serial        *)
(* numbers.  A doorbell it drops is recovered from the record, where there *)
(* is one.                                                                 *)

Ahead(field, known) ==
  LET d == Idx16(field - known) IN IF 2 * d < IdxMod THEN d ELSE 0

TakeIndex(q, field) == nic_pi' = [nic_pi EXCEPT ![q] = @ + Ahead(field, @)]

NicDoorbell(q) ==
  /\ \E k \in db[q] :
       /\ db' = [db EXCEPT ![q] = @ \ {k}]
       /\ \/ TakeIndex(q, Idx16(k))
          \/ q \notin NoDbrHwQps /\ TakeIndex(q, dbr[q])
  /\ UNCHANGED <<used, ready, cpu_db, last, dbr, nic_ci, gpuVars, roundVars, serviceVars,
                 svc, hostVars>>

NicExecute(q) ==
  /\ nic_ci[q] < nic_pi[q]
  /\ nic_ci' = [nic_ci EXCEPT ![q] = @ + 1]
  /\ UNCHANGED <<used, ready, cpu_db, last, dbr, db, nic_pi, gpuVars, roundVars,
                 serviceVars, svc, hostVars>>

-----------------------------------------------------------------------------
ServiceStep ==
  \/ CheckRunning \/ RdLock \/ NextQp \/ Again \/ RdUnlock \/ Yield
  \/ LoadDb \/ RingEarly \/ UpdateDbr \/ Ring

GpuStep(t) == SubmitProxy(t) \/ SubmitNoDbr(t) \/ GpuRing(t)

HostStep == WrLock \/ Insert \/ Join
HostCall == Destroy \/ \E q \in QPs : Monitor(q)

Done == host = "gone" /\ UNCHANGED vars

Next ==
  \/ ServiceStep \/ HostStep \/ HostCall \/ Done
  \/ \E t \in Threads : GpuStep(t) \/ \E q \in QPs : Post(t, q)
  \/ \E q \in QPs : NicDoorbell(q) \/ NicExecute(q)

Spec == Init /\ [][Next]_vars

(* The operating system runs the service thread and the calls in progress, *)
(* the GPU runs threads inside a call, the NIC takes doorbells.            *)
FairSpec ==
  /\ Spec
  /\ WF_vars(ServiceStep) /\ WF_vars(HostStep)
  /\ \A t \in Threads : WF_vars(GpuStep(t))
  /\ \A q \in QPs : WF_vars(NicDoorbell(q)) /\ WF_vars(NicExecute(q))

-----------------------------------------------------------------------------
(* Every variable keeps its type.                                          *)
TypeOK ==
  /\ used \subseteq QPs /\ qps \subseteq used
  /\ ready \in [QPs -> Nat] /\ cpu_db \in [QPs -> Nat] /\ last \in [QPs -> Nat]
  /\ dbr \in [QPs -> 0 .. IdxMod - 1]
  /\ db \in [QPs -> SUBSET Nat]
  /\ nic_pi \in [QPs -> Nat] /\ nic_ci \in [QPs -> Nat]
  /\ pc \in [Threads -> {"idle", "submit", "ring"}]
  /\ on \in [Threads -> QPs \cup {NoQp}]
  /\ prod \in [Threads -> Nat]
  /\ todo \subseteq QPs
  /\ running \in BOOLEAN /\ waiting \in BOOLEAN /\ progressed \in BOOLEAN
  /\ lock \in {"free", "read", "write"}
  /\ svc \in SvcPcs /\ host \in HostPcs
  /\ cur \in QPs \cup {NoQp} /\ host_qp \in QPs \cup {NoQp}
  /\ tmp_db \in Nat

(* Once the proxy believes it has rung everything and no doorbell is on    *)
(* its way, the NIC does know everything, although the first doorbell      *)
(* leaves before the record is written and the NIC may drop it.            *)
NoLostDoorbell ==
  \A q \in QPs :
    db[q] = {} /\ ~(cur = q /\ svc \in {"ring_early", "update_dbr", "ring"})
      => nic_pi[q] >= last[q]

(* The set of QPs and the lock stay as they are while the service thread   *)
(* walks the set: insertions wait for the writer's lock, and the service   *)
(* is freed only after the thread has left.                                *)
IterationUndisturbed ==
  [][(svc \in IteratingPcs) => (qps' = qps)]_vars

(* The record of a QP that only the CPU rings never goes backwards nor     *)
(* forward by more than a queue: its 16 bits are unambiguous to the NIC.   *)
RecordMovesForward ==
  [][\A q \in FullQps : Idx16(dbr'[q] - dbr[q]) <= WqeNum]_vars

(* The QPs behave as bounded FIFO queues: the NIC is told of published     *)
(* WQEs only, in order, whoever rings.                                     *)
WQ(q) == INSTANCE WorkQueue WITH
  Depth <- WqeNum, posted <- ready[q] - First, submitted <- nic_pi[q] - First,
  executed <- nic_ci[q] - First, succeeded <- nic_ci[q] - First, acked <- 0

ImplementsWorkQueue ==
  /\ \A q \in QPs : WQ(q)!Init
  /\ [][\A q \in QPs : [WQ(q)!Next]_(WQ(q)!wqVars)]_vars

(* Everything published on a monitored QP is executed, unless the service  *)
(* is destroyed first.                                                     *)
PublishedIsRung ==
  \A q \in QPs : \A i \in First + 1 .. First + MaxWqes :
    ready[q] >= i /\ q \in qps ~> nic_ci[q] >= i \/ ~running

(* The calls that wait for the service thread return: monitor_qp, because  *)
(* the thread lets the writer in between two rounds, and destroy_service,  *)
(* provided that the kernels stop posting, as the bound MaxWqes makes them.*)
HostCallsReturn ==
  /\ \A q \in QPs : host = "wrlock" /\ host_qp = q ~> q \in qps \/ ~running
  /\ host = "join" ~> host = "gone"
=============================================================================
