---------------------------- MODULE SendQueueInv ----------------------------
(***************************************************************************)
(* The inductive invariant of SendQueue: what every step of a thread or of *)
(* the NIC keeps true and from which the safety properties of SendQueue    *)
(* follow.  TLC checks it on the small instances, SendQueueProofs proves   *)
(* it for all values of the constants.                                     *)
(***************************************************************************)
EXTENDS SendQueue

(* t holds a reservation it has not published yet.                         *)
Reserving(t) == pc[t] \in PollPcs /\ caller[t] = "reserve"
Filling(t) == pc[t] \in FillPcs \/ Reserving(t)

(* v is the 16-bit form of an index the NIC may move to, up to k.          *)
Reaches(v, k) == \E i \in nic_pi .. k : v = Idx16(i)

(* The counters of threads and NIC, in the order of a WQE's life; slots    *)
(* bound how far publication runs ahead of execution.                      *)
IndexOrder ==
  /\ cqe_ci <= nic_ok
  /\ nic_ok <= nic_ci
  /\ nic_ci <= nic_pi
  /\ nic_pi <= sq_wqe_pi
  /\ sq_wqe_pi <= sq_ready_index
  /\ sq_ready_index <= sq_rsvd_index
  /\ sq_ready_index <= nic_ci + WqeNum

(* Unpublished reservations lie between sq_ready_index and sq_rsvd_index   *)
(* and do not overlap.                                                     *)
Reservations ==
  /\ \A t \in Threads :
       Filling(t) =>
         /\ count[t] > 0
         /\ sq_ready_index <= base[t]
         /\ Prod(t) <= sq_rsvd_index
  /\ \A t, u \in Threads :
       t # u /\ Filling(t) /\ Filling(u) =>
         Prod(t) <= base[u] \/ Prod(u) <= base[t]

(* The single thread of EXCLUSIVE publishes without waiting for its turn:  *)
(* it is always its turn.                                                  *)
ExclusiveTurn ==
  Sharing = "EXCLUSIVE" =>
    \A t \in Threads :
      IF Filling(t)
      THEN sq_ready_index = base[t] /\ Prod(t) = sq_rsvd_index
      ELSE sq_ready_index = sq_rsvd_index

StoreTurn == \A t \in Threads : pc[t] = "ready_store" => sq_ready_index = base[t]

(* A thread that fills its reservation has waited for the slots; what it   *)
(* has written so far is in them.                                          *)
SlotsFree == \A t \in Threads : pc[t] \in FillPcs => Prod(t) <= nic_ci + WqeNum

Progress ==
  \A t \in Threads :
    /\ Reserving(t) => cur[t] = base[t]
    /\ pc[t] = "write" => base[t] <= cur[t] /\ cur[t] < Prod(t)
    /\ pc[t] \in {"ready", "ready_store"} => cur[t] = Prod(t)

Written ==
  \A t \in Threads :
    pc[t] \in FillPcs => \A i \in base[t] .. cur[t] - 1 : wq[Slot(i)] = i

(* Between publication and the end of submit_db.                           *)
Submitting ==
  \A t \in Threads :
    /\ pc[t] \in {"lock", "fetch_max"} => Prod(t) <= sq_ready_index
    /\ pc[t] \in {"ring_early", "update_dbr", "ring_again"} => Prod(t) = sq_wqe_pi

LockHeld == \A t \in Threads : pc[t] \in SubmitPcs => sq_lock = 1

(* The slots of the completion queue hold the last CqeNum completions.     *)
CqHolds ==
  \A s \in 0 .. CqeNum - 1 :
    /\ CqSlot(cq[s]) = s
    /\ nic_ci - CqeNum <= cq[s]
    /\ cq[s] < nic_ci

Polling ==
  \A t \in Threads :
    /\ pc[t] = "load_cqe" => seen_ci[t] <= cqe_ci /\ seen_ci[t] <= cons[t]
    /\ pc[t] = "advance" => status[t] = "ok"
    /\ status[t] = "ok" => cons[t] < nic_ok
    /\ Reserving(t) => cons[t] = SlotWaitIndex(base[t], count[t])

(* Doorbell and doorbell record, around the two rings of submit_db.        *)
Ringing(labels) == \E t \in Threads : pc[t] \in labels

DbReaches ==
  db # NoDb => Reaches(db, sq_wqe_pi) /\ Reaches(dbr, sq_wqe_pi)

DbrStale ==
  Ringing({"ring_early"}) =>
    \E k \in nic_pi .. sq_wqe_pi :
      dbr = Idx16(k) /\ (db # NoDb => Reaches(db, k))

DbrCurrent ==
  ~Ringing({"ring_early", "update_dbr"}) => dbr = Idx16(sq_wqe_pi)

DbrBehind ==
  \E k \in 0 .. sq_wqe_pi : sq_wqe_pi <= k + WqeNum /\ dbr = Idx16(k)

Told ==
  ~Ringing({"ring_early", "update_dbr", "ring_again"}) =>
    nic_pi = sq_wqe_pi \/ db = Idx16(sq_wqe_pi)

ToBeSubmitted ==
  ~SkipDbRinging =>
    \/ sq_wqe_pi = sq_ready_index
    \/ \E t \in Threads : pc[t] \in {"lock", "fetch_max"} /\ Prod(t) = sq_ready_index

IInv ==
  /\ TypeOK
  /\ IndexOrder
  /\ Reservations
  /\ ExclusiveTurn
  /\ StoreTurn
  /\ SlotsFree
  /\ Progress
  /\ Written
  /\ PublishedIntact
  /\ Submitting
  /\ LockHeld
  /\ LockExclusion
  /\ CqHolds
  /\ Polling
  /\ DbReaches
  /\ DbrStale
  /\ DbrCurrent
  /\ DbrBehind
  /\ Told
  /\ ToBeSubmitted
=============================================================================
