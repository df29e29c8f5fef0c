------------------------------ MODULE MCQpExport ------------------------------
(***************************************************************************)
(* Three parts that share no state, checked in one run: the QP handed to   *)
(* kernels and withdrawn (src/src/doca_gpunetio.cpp), the one-sided        *)
(* operations kernels call on it (doca_gpunetio_dev_verbs_onesided.cuh),   *)
(* and the queue of a QP that one thread uses alone                        *)
(* (RESOURCE_SHARING_MODE_EXCLUSIVE: no atomics, no lock).  part is the    *)
(* one a behaviour exercises.                                              *)
(***************************************************************************)
EXTENDS QpExport, Transfers, TLC

CONSTANTS q1, q2, q3, u1, u2, t1

VARIABLES
  part,
  \* Those of SendQueue.
  sq_rsvd_index, sq_ready_index, sq_wqe_pi, sq_lock, cqe_ci, wq, cq, dbr, db,
  nic_pi, nic_ci, nic_ok, pc, base, count, cur, cons, seen_ci, caller, status

aloneVars ==
  <<sq_rsvd_index, sq_ready_index, sq_wqe_pi, sq_lock, cqe_ci, wq, cq, dbr, db,
    nic_pi, nic_ci, nic_ok, pc, base, count, cur, cons, seen_ci, caller, status>>

(* A completion queue twice as long as the send queue, indices past the    *)
(* 16-bit wrap, and operations that do not ring.                           *)
Alone == INSTANCE SendQueue WITH
  Threads <- {t1}, WqeNum <- 4, CqeNum <- 8, IdxMod <- 8, Counts <- {1, 3}, MaxWqes <- 12,
  Sharing <- "EXCLUSIVE", ReadyMode <- "ATOMIC_CAS", WqeCounterCheck <- FALSE,
  SkipDbRinging <- TRUE, Errors <- TRUE

Symmetry == Permutations(Qps) \cup Permutations(Uars)

C(kind, size) == [kind |-> kind, size |-> size, mcst |-> FALSE, blocking |-> FALSE]
Get(size, mcst, blocking) == [C("get", size) EXCEPT !.mcst = mcst, !.blocking = blocking]
GetWait(how) == [kind |-> "get_wait", how |-> how, size |-> 0, mcst |-> TRUE, blocking |-> TRUE]
Post(format, size) == [kind |-> "post", op |-> format, size |-> size, mcst |-> FALSE, blocking |-> FALSE]

\* One, one and a half and two and a half transfers; every format.
AllThreadCalls ==
  {C("put", 0), C("put", 2), C("put", 5), C("put_signal", 3), C("p", 1), C("p_signal", 1),
   C("signal", 0), GetWait("ticket"), GetWait("all")}
    \cup {Get(3, m, b) : m, b \in BOOLEAN}
    \cup {Post(f, IF f \in DataOps THEN 1 ELSE 0) : f \in {"WAIT", "WRITE_2SGE", "READ_2SGE", "WRITE_INL13", "MASKED", "MASKED_CS8"}}
AllWarpCalls == {C("put", 1)} \cup {Get(1, m, b) : m, b \in BOOLEAN}

ExportInit ==
  /\ Init /\ TrInit /\ Alone!Init
  /\ part \in {"export", "transfers", "alone"}
  /\ part # "export" => \A q, r \in Qps : uar[q] = uar[r] /\ devMode[q] = "DBR_VALID"

ExportNext ==
  \/ part = "export" /\ Next /\ UNCHANGED <<part, trVars, aloneVars>>
  \/ part = "transfers" /\ TrNext /\ UNCHANGED <<part, vars, aloneVars>>
  \/ part = "alone" /\ Alone!Next /\ UNCHANGED <<part, vars, trVars>>

ExportSpec == ExportInit /\ [][ExportNext]_<<part, vars, trVars, aloneVars>>

(* Without atomics the queue is as safe for one thread as with them for    *)
(* many: no published WQE is overwritten, no doorbell or poll leads or     *)
(* lies, though some operations leave the ringing to a later one.          *)
AloneSafe ==
  /\ Alone!PublishedIntact /\ Alone!DoorbellCoversReady /\ Alone!NoLostDoorbell
  /\ Alone!SuccessIsTrue /\ Alone!ErrorIsTrue
=============================================================================
