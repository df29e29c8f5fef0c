---------------------------- MODULE CpuProxyProofs ----------------------------
(***************************************************************************)
(* Theorems about CpuProxy, for every set of GPU threads and QPs of the    *)
(* three modes, every queue size and every width of an index.              *)
(***************************************************************************)
EXTENDS CpuProxy, ModArith

RingPcs == {"ring_early", "update_dbr", "ring"}

(* The service thread is between loading q's index and remembering it.     *)
Ringing(q) == cur = q /\ svc \in RingPcs

(* The index whose 16 bits are in the record of q.                         *)
Recorded(q) == IF cur = q /\ svc = "ring" THEN tmp_db ELSE last[q]

(* The index up to which the service thread has rung q.                    *)
Rung(q) == IF Ringing(q) THEN tmp_db ELSE last[q]

-----------------------------------------------------------------------------
(* The inductive invariant, conjunct by conjunct.                          *)

(* The lock and those who hold it or wait for it.                          *)
LockHeld ==
  /\ lock = "read" <=> svc \in IteratingPcs
  /\ lock = "write" <=> host = "insert"
  /\ waiting <=> host = "waiting"
  /\ host = "waiting" => lock = "read"
  /\ host \in {"wrlock", "waiting", "insert"} => host_qp \in used

(* Which QPs the steps of cpu_proxy_progress are about.                    *)
Progressing ==
  /\ svc \in {"load"} \cup RingPcs => cur \in QPs
  /\ svc = "ring_early" => cur \in FullQps
  /\ svc = "update_dbr" => cur \in FullQps \cup AssistedQps

(* Execution, the NIC's knowledge, the index handed to the proxy and       *)
(* publication, at most a queue apart.                                     *)
IndexOrder ==
  \A q \in QPs :
    /\ First <= nic_ci[q] /\ nic_ci[q] <= nic_pi[q] /\ nic_pi[q] <= cpu_db[q]
    /\ cpu_db[q] <= ready[q] /\ ready[q] <= nic_ci[q] + WqeNum

(* The service thread is behind the GPU threads.                           *)
ServiceOrder ==
  \A q \in QPs :
    /\ First <= last[q] /\ last[q] <= cpu_db[q]
    /\ Ringing(q) => last[q] <= tmp_db /\ tmp_db <= cpu_db[q]

RecordHolds == \A q \in QPs \ NoDbrHwQps : dbr[q] = Idx16(Recorded(q))

(* A doorbell on its way is of an index raised, and not outdated.          *)
DoorbellsRecent ==
  \A q \in QPs : \A k \in db[q] : k <= cpu_db[q] /\ Recent(k, ready[q])

(* The record of a QP that the GPU rings is not outdated either.           *)
RecordRecent == \A q \in AssistedQps : Recent(last[q], ready[q])

(* Where nobody else rings, the service thread is a queue ahead at most.   *)
ProxyRings ==
  \A q \in QPs \ AssistedQps :
    /\ nic_pi[q] <= Rung(q)
    /\ \A k \in db[q] : k <= Rung(q)
    /\ Ringing(q) => tmp_db <= last[q] + WqeNum

Submitting ==
  \A t \in Threads :
    /\ pc[t] \in {"submit", "ring"} =>
         /\ on[t] \in QPs
         /\ First <= prod[t] /\ prod[t] <= ready[on[t]]
    /\ pc[t] = "ring" =>
         /\ on[t] \in AssistedQps
         /\ prod[t] <= cpu_db[on[t]]
         /\ Recent(prod[t], ready[on[t]])

(* What the service thread remembers the NIC knows or is about to learn.   *)
RememberedReaches ==
  \A q \in QPs : nic_pi[q] >= last[q] \/ \E k \in db[q] : k >= last[q]

(* All that is said of the queues and their threads.                       *)
QueueInv ==
  /\ IndexOrder
  /\ ServiceOrder
  /\ RecordHolds
  /\ DoorbellsRecent
  /\ RecordRecent
  /\ ProxyRings
  /\ Submitting
  /\ RememberedReaches

IInv == TypeOK /\ LockHeld /\ Progressing /\ QueueInv

USE DEF qpVars, gpuVars, roundVars, serviceVars, hostVars

-----------------------------------------------------------------------------
(* Type correctness.                                                       *)

LEMMA SizeFacts ==
  /\ IdxMod \in Nat \ {0} /\ IdxMod > 2 * WqeNum
  /\ WqeNum \in Nat \ {0} /\ First \in Nat
  BY ProxyAssumption

LEMMA Idx16Type == \A i \in Int : Idx16(i) \in 0 .. IdxMod - 1
  BY SizeFacts, DivMod DEF Idx16

LEMMA InitType == Init => TypeOK
<1>1. First \in Nat /\ Idx16(First) \in 0 .. IdxMod - 1
  BY SizeFacts, Idx16Type
<1>2. used \in Populations => used \subseteq QPs
  BY ProxyAssumption
<1> SUFFICES ASSUME Init PROVE TypeOK
  OBVIOUS
<1>3. /\ ready \in [QPs -> Nat] /\ cpu_db \in [QPs -> Nat] /\ last \in [QPs -> Nat]
      /\ nic_pi \in [QPs -> Nat] /\ nic_ci \in [QPs -> Nat]
      /\ dbr \in [QPs -> 0 .. IdxMod - 1]
  BY <1>1 DEF Init
<1>4. db \in [QPs -> SUBSET Nat]
  BY DEF Init
<1>5. /\ pc \in [Threads -> {"idle", "submit", "ring"}]
      /\ on \in [Threads -> QPs \cup {NoQp}]
      /\ prod \in [Threads -> Nat]
  BY DEF Init
<1> QED
  BY <1>2, <1>3, <1>4, <1>5 DEF Init, TypeOK, SvcPcs, HostPcs

(* What the NIC makes of any field is an index, and no smaller one.        *)
LEMMA AheadType ==
  ASSUME NEW field \in Int, NEW known \in Int
  PROVE  Ahead(field, known) \in Nat
<1>1. Idx16(field - known) \in 0 .. IdxMod - 1
  BY Idx16Type
<1> QED
  BY <1>1, SizeFacts DEF Ahead

LEMMA GpuType ==
  ASSUME TypeOK, Submitting, NEW t \in Threads,
         GpuStep(t) \/ \E q \in QPs : Post(t, q)
  PROVE  TypeOK'
<1>1. CASE SubmitProxy(t)
  BY <1>1 DEF SubmitProxy, Raised, Larger, TypeOK, Submitting
<1>2. CASE SubmitNoDbr(t)
  BY <1>2 DEF SubmitNoDbr, Raised, Larger, TypeOK, Submitting
<1>3. CASE GpuRing(t)
  BY <1>3 DEF GpuRing, TypeOK, Submitting
<1>4. ASSUME NEW q \in QPs, Post(t, q) PROVE TypeOK'
  BY <1>4 DEF Post, TypeOK
<1> QED
  BY <1>1, <1>2, <1>3, <1>4 DEF GpuStep

LEMMA ServiceType ==
  ASSUME TypeOK, Progressing, ServiceStep
  PROVE  TypeOK'
<1> USE DEF SvcPcs, HostPcs
<1>1. CASE CheckRunning \/ Yield
  BY <1>1 DEF CheckRunning, Yield, TypeOK
<1>2. CASE RdLock \/ Again
  BY <1>2 DEF RdLock, Again, StartRound, TypeOK
<1>3. CASE NextQp
  BY <1>3 DEF NextQp, TypeOK
<1>4. CASE RdUnlock
  BY <1>4 DEF RdUnlock, TypeOK
<1>5. CASE LoadDb
  <2>1. svc' \in SvcPcs
    BY <1>5 DEF LoadDb
  <2>2. cpu_db[cur] \in Nat
    BY <1>5 DEF LoadDb, TypeOK, Progressing
  <2> QED
    BY <1>5, <2>1, <2>2 DEF LoadDb, TypeOK
<1>6. CASE RingEarly
  BY <1>6 DEF RingEarly, SvcRing, TypeOK, Progressing, RingPcs
<1>7. CASE UpdateDbr
  <2>1. DbrVal(tmp_db) \in 0 .. IdxMod - 1
    BY Idx16Type DEF DbrVal, TypeOK
  <2> QED
    BY <1>7, <2>1 DEF UpdateDbr, TypeOK
<1>8. CASE Ring
  BY <1>8 DEF Ring, SvcRing, Remembered, TypeOK, Progressing, RingPcs
<1> QED
  BY <1>1, <1>2, <1>3, <1>4, <1>5, <1>6, <1>7, <1>8 DEF ServiceStep

LEMMA HostType ==
  ASSUME TypeOK, LockHeld, HostStep \/ HostCall
  PROVE  TypeOK'
<1> USE DEF SvcPcs, HostPcs
<1>1. CASE WrLock
  BY <1>1 DEF WrLock, TypeOK
<1>2. CASE Insert
  BY <1>2 DEF Insert, TypeOK, LockHeld
<1>3. CASE Join \/ Destroy
  BY <1>3 DEF Join, Destroy, TypeOK
<1>4. ASSUME NEW q \in QPs, Monitor(q) PROVE TypeOK'
  BY <1>4 DEF Monitor, TypeOK
<1> QED
  BY <1>1, <1>2, <1>3, <1>4 DEF HostStep, HostCall

LEMMA NicType ==
  ASSUME TypeOK, NEW q \in QPs, NicDoorbell(q) \/ NicExecute(q)
  PROVE  TypeOK'
<1>1. CASE NicDoorbell(q)
  <2>1. PICK k \in db[q] :
          /\ db' = [db EXCEPT ![q] = @ \ {k}]
          /\ TakeIndex(q, Idx16(k)) \/ TakeIndex(q, dbr[q])
    BY <1>1 DEF NicDoorbell
  <2>2. k \in Nat /\ Idx16(k) \in Int /\ dbr[q] \in Int
    BY Idx16Type DEF TypeOK
  <2>3. /\ Ahead(Idx16(k), nic_pi[q]) \in Nat
        /\ Ahead(dbr[q], nic_pi[q]) \in Nat
    BY <2>2, AheadType DEF TypeOK
  <2>4. nic_pi' \in [QPs -> Nat]
    BY <2>1, <2>3 DEF TakeIndex, TypeOK
  <2>5. db' \in [QPs -> SUBSET Nat]
    BY <2>1 DEF TypeOK
  <2> QED
    BY <1>1, <2>4, <2>5 DEF NicDoorbell, TypeOK
<1>2. CASE NicExecute(q)
  BY <1>2 DEF NicExecute, TypeOK
<1> QED
  BY <1>1, <1>2

(* Every step keeps the types, given who holds the lock and whose turn it  *)
(* is.                                                                     *)
LEMMA NextType ==
  ASSUME IInv, [Next]_vars
  PROVE  TypeOK'
<1>1. CASE UNCHANGED vars
  BY <1>1 DEF vars, IInv, TypeOK
<1> QED
  BY <1>1, GpuType, ServiceType, HostType, NicType
     DEF Next, Done, IInv, QueueInv

-----------------------------------------------------------------------------
(* The lock, and the QP in progress.                                       *)

LEMMA LockStep ==
  ASSUME IInv, [Next]_vars
  PROVE  LockHeld' /\ Progressing'
<1> USE DEF IteratingPcs, RingPcs
<1>1. CASE UNCHANGED vars
  BY <1>1 DEF vars, IInv, LockHeld, Progressing
<1>2. CASE ServiceStep
  <2>1. CASE CheckRunning \/ Yield
    BY <1>2, <2>1 DEF CheckRunning, Yield, IInv, LockHeld, Progressing
  <2>2. CASE RdLock \/ Again
    BY <1>2, <2>2 DEF RdLock, Again, IInv, LockHeld, Progressing
  <2>3. CASE NextQp
    BY <1>2, <2>3 DEF NextQp, IInv, TypeOK, LockHeld, Progressing
  <2>4. CASE RdUnlock
    BY <1>2, <2>4 DEF RdUnlock, IInv, LockHeld, Progressing
  <2>5. CASE LoadDb
    <3>1. svc' \in {"next", "ring_early", "update_dbr", "ring"}
      BY <2>5 DEF LoadDb
    <3>2. /\ svc' = "ring_early" => cur \in FullQps
          /\ svc' = "update_dbr" => cur \in AssistedQps
      BY <2>5 DEF LoadDb
    <3> QED
      BY <1>2, <2>5, <3>1, <3>2 DEF LoadDb, IInv, LockHeld, Progressing
  <2>6. CASE RingEarly \/ UpdateDbr \/ Ring
    BY <1>2, <2>6 DEF RingEarly, UpdateDbr, Ring, SvcRing, IInv, LockHeld, Progressing
  <2> QED
    BY <1>2, <2>1, <2>2, <2>3, <2>4, <2>5, <2>6 DEF ServiceStep
<1>3. CASE HostStep \/ HostCall
  BY <1>3 DEF HostStep, HostCall, WrLock, Insert, Join, Destroy, Monitor,
     IInv, LockHeld, Progressing
<1>4. ASSUME NEW t \in Threads, GpuStep(t) \/ \E q \in QPs : Post(t, q)
      PROVE  LockHeld' /\ Progressing'
  BY <1>4 DEF GpuStep, SubmitProxy, SubmitNoDbr, GpuRing, Post,
     IInv, LockHeld, Progressing
<1>5. ASSUME NEW q \in QPs, NicDoorbell(q) \/ NicExecute(q)
      PROVE  LockHeld' /\ Progressing'
  BY <1>5 DEF NicDoorbell, NicExecute, IInv, LockHeld, Progressing
<1> QED
  BY <1>1, <1>2, <1>3, <1>4, <1>5 DEF Next, Done

-----------------------------------------------------------------------------
(* The queues.                                                             *)

(* An index less than half the range behind is behind for the NIC, one at  *)
(* most a queue ahead is read exactly: whatever it is told, the NIC ends   *)
(* up with the larger of the two indices.                                  *)
LEMMA NicReads ==
  ASSUME NEW k \in Nat, NEW known \in Nat,
         Recent(k, known), k <= known + WqeNum
  PROVE  known + Ahead(Idx16(k), known) = Larger(known, k)
<1> DEFINE d == Idx16(Idx16(k) - known)
<1>0. d \in Int
  <2>1. Idx16(k) - known \in Int
    BY Idx16Type
  <2> QED
    BY <2>1, Idx16Type
<1>1. CASE known <= k
  <2> /\ IdxMod \in Nat \ {0} /\ known \in Int /\ k \in Int
      /\ k < known + IdxMod
    BY SizeFacts
  <2>1. known + d = k
    BY <1>1, SerialDecode, Zenon DEF Idx16
  <2>2. 2 * d < IdxMod
    BY <1>0, <2>1, SizeFacts
  <2> QED
    BY <1>1, <2>1, <2>2 DEF Ahead, Larger
<1>2. CASE k < known
  <2>1. /\ known <= k + IdxMod /\ k + IdxMod < known + IdxMod
        /\ k + IdxMod \in Int /\ known \in Int /\ k \in Int
        /\ IdxMod \in Nat \ {0}
    BY <1>2, SizeFacts DEF Recent
  <2>2. (k + IdxMod) % IdxMod = k % IdxMod
    BY <2>1, NextLap, Zenon
  <2>3. known + ((((k + IdxMod) % IdxMod) - known) % IdxMod) = k + IdxMod
    BY <2>1, SerialDecode, Zenon
  <2>4. known + d = k + IdxMod
    BY <2>2, <2>3 DEF Idx16
  <2>5. ~(2 * d < IdxMod)
    BY <1>0, <2>4, SizeFacts DEF Recent
  <2> QED
    BY <1>2, <2>5 DEF Ahead, Larger
<1> QED
  BY <1>1, <1>2

LEMMA RecentNearer ==
  ASSUME NEW k \in Int, NEW i \in Int, NEW j \in Int, NEW m \in Int,
         Recent(k, i), k <= j, m <= i
  PROVE  Recent(j, m)
  BY SizeFacts DEF Recent

(* A queue is less than half the range.                                    *)
LEMMA RecentQueue ==
  ASSUME NEW k \in Int, NEW i \in Int, i <= k + WqeNum
  PROVE  Recent(k, i)
  BY SizeFacts DEF Recent

(* Steps that leave the queues alone, outside cpu_proxy_progress.          *)
LEMMA QueuesAlone ==
  ASSUME IInv, UNCHANGED <<qpVars, gpuVars>>,
         svc \notin RingPcs, svc' \notin RingPcs
  PROVE  QueueInv'
<1>1. \A q \in QPs : /\ Recorded(q)' = Recorded(q) /\ Rung(q)' = Rung(q)
                     /\ Ringing(q)' = Ringing(q)
  BY DEF Recorded, Rung, Ringing, RingPcs
<1>2. \A q \in QPs : ~Ringing(q) /\ ~Ringing(q)'
  BY DEF Ringing
<1> USE DEF IInv, QueueInv
<1>3. IndexOrder' /\ DoorbellsRecent' /\ RecordRecent' /\ RememberedReaches'
  BY DEF IndexOrder, DoorbellsRecent, RecordRecent, RememberedReaches
<1>4. ServiceOrder' /\ RecordHolds' /\ ProxyRings'
  BY <1>1, <1>2 DEF ServiceOrder, RecordHolds, ProxyRings
<1>5. Submitting'
  BY DEF Submitting
<1> QED
  BY <1>3, <1>4, <1>5

LEMMA HostAlone ==
  ASSUME IInv, HostStep \/ HostCall
  PROVE  QueueInv'
<1>1. UNCHANGED <<qpVars, gpuVars, roundVars, svc>>
  BY DEF HostStep, HostCall, WrLock, Insert, Join, Destroy, Monitor
<1>2. \A q \in QPs : /\ Recorded(q)' = Recorded(q) /\ Rung(q)' = Rung(q)
                     /\ Ringing(q)' = Ringing(q)
  BY <1>1 DEF Recorded, Rung, Ringing
<1> USE DEF IInv, QueueInv
<1>3. IndexOrder' /\ DoorbellsRecent' /\ RecordRecent' /\ RememberedReaches'
  BY <1>1 DEF IndexOrder, DoorbellsRecent, RecordRecent, RememberedReaches
<1>4. ServiceOrder' /\ RecordHolds' /\ ProxyRings'
  BY <1>1, <1>2 DEF ServiceOrder, RecordHolds, ProxyRings
<1>5. Submitting'
  BY <1>1 DEF Submitting
<1> QED
  BY <1>3, <1>4, <1>5

LEMMA RoundAlone ==
  ASSUME IInv, CheckRunning \/ RdLock \/ NextQp \/ Again \/ RdUnlock \/ Yield
  PROVE  QueueInv'
<1>1. UNCHANGED <<qpVars, gpuVars>> /\ svc \notin RingPcs /\ svc' \notin RingPcs
  BY DEF CheckRunning, RdLock, NextQp, Again, RdUnlock, Yield, RingPcs
<1> QED
  BY <1>1, QueuesAlone

(* A thread publishes: the guards keep what is under way within a queue    *)
(* and within half the range.                                              *)
LEMMA PostKeeps ==
  ASSUME IInv, NEW t \in Threads, NEW p \in QPs, Post(t, p)
  PROVE  QueueInv'
<1> USE DEF IInv, QueueInv
<1>1. /\ ready' = [ready EXCEPT ![p] = @ + 1]
      /\ ready[p] < nic_ci[p] + WqeNum
      /\ Timely(p, ready[p] + 1)
      /\ pc[t] = "idle"
      /\ pc' = [pc EXCEPT ![t] = "submit"]
      /\ on' = [on EXCEPT ![t] = p]
      /\ prod' = [prod EXCEPT ![t] = ready[p] + 1]
      /\ UNCHANGED <<cpu_db, last, dbr, db, nic_pi, nic_ci, cur, tmp_db, svc>>
  BY DEF Post
<1>2. \A q \in QPs : /\ Recorded(q)' = Recorded(q) /\ Rung(q)' = Rung(q)
                     /\ Ringing(q)' = Ringing(q)
  BY <1>1 DEF Recorded, Rung, Ringing
<1>3. IndexOrder'
  BY <1>1, SizeFacts DEF IndexOrder, TypeOK
<1>4. ServiceOrder' /\ RecordHolds' /\ ProxyRings'
  BY <1>1, <1>2 DEF ServiceOrder, RecordHolds, ProxyRings
<1>5. DoorbellsRecent'
  BY <1>1 DEF DoorbellsRecent, Timely, TypeOK
<1>6. RecordRecent'
  BY <1>1 DEF RecordRecent, Timely, TypeOK, QPs
<1>7. Submitting'
  <2> SUFFICES ASSUME NEW u \in Threads PROVE Submitting!(u)'
    BY DEF Submitting
  <2>1. CASE u = t
    BY <1>1, <1>3, <2>1, SizeFacts DEF IndexOrder, TypeOK
  <2>2. CASE u # t
    BY <1>1, <2>2 DEF Submitting, Timely, TypeOK
  <2> QED
    BY <2>1, <2>2
<1>8. RememberedReaches'
  BY <1>1 DEF RememberedReaches
<1> QED
  BY <1>3, <1>4, <1>5, <1>6, <1>7, <1>8

(* A thread raises the index the proxy reads, and leaves the rest to it or *)
(* is about to ring.                                                       *)
LEMMA SubmitKeeps ==
  ASSUME IInv, NEW t \in Threads, SubmitProxy(t) \/ SubmitNoDbr(t)
  PROVE  QueueInv'
<1> USE DEF IInv, QueueInv
<1> DEFINE p == on[t]
<1>1. /\ p \in QPs /\ First <= prod[t] /\ prod[t] <= ready[p]
      /\ prod[t] \in Nat /\ cpu_db[p] \in Nat
  BY DEF SubmitProxy, SubmitNoDbr, Submitting, TypeOK
<1>2. /\ cpu_db' = [cpu_db EXCEPT ![p] = Raised(t)]
      /\ UNCHANGED <<ready, last, dbr, db, nic_pi, nic_ci, on, prod, cur, tmp_db, svc>>
  BY DEF SubmitProxy, SubmitNoDbr
<1>3. /\ Raised(t) \in Nat /\ Raised(t) >= cpu_db[p]
      /\ Raised(t) >= prod[t] /\ Raised(t) <= ready[p]
  BY <1>1 DEF Raised, Larger, IndexOrder, TypeOK
<1>4. \A q \in QPs : cpu_db'[q] \in Nat /\ cpu_db[q] <= cpu_db'[q] /\ cpu_db'[q] <= ready[q]
  BY <1>1, <1>2, <1>3 DEF TypeOK, IndexOrder
<1>5. \A q \in QPs : /\ Recorded(q)' = Recorded(q) /\ Rung(q)' = Rung(q)
                     /\ Ringing(q)' = Ringing(q)
  BY <1>2 DEF Recorded, Rung, Ringing
<1>6. IndexOrder'
  BY <1>2, <1>4 DEF IndexOrder, TypeOK
<1>7. ServiceOrder'
  BY <1>2, <1>4, <1>5 DEF ServiceOrder, TypeOK
<1>8. RecordHolds' /\ ProxyRings'
  BY <1>2, <1>5 DEF RecordHolds, ProxyRings
<1>9. DoorbellsRecent'
  BY <1>2, <1>4 DEF DoorbellsRecent, TypeOK
<1>10. RecordRecent' /\ RememberedReaches'
  BY <1>2 DEF RecordRecent, RememberedReaches
<1>11. Submitting'
  <2> SUFFICES ASSUME NEW u \in Threads PROVE Submitting!(u)'
    BY DEF Submitting
  <2>1. CASE u = t
    <3>1. CASE pc'[t] = "idle"
      BY <2>1, <3>1
    <3>2. CASE pc'[t] # "idle"
      <4>1. SubmitNoDbr(t) /\ cpu_db[p] < prod[t] /\ p \in AssistedQps
        BY <3>2 DEF SubmitProxy, SubmitNoDbr, TypeOK
      <4>2. ready[p] <= prod[t] + WqeNum
        BY <1>1, <4>1, SizeFacts DEF IndexOrder, TypeOK
      <4>3. Recent(prod[t], ready[p])
        BY <1>1, <4>2, RecentQueue DEF TypeOK
      <4> QED
        BY <1>1, <1>2, <1>3, <2>1, <4>1, <4>3 DEF TypeOK
    <3> QED
      BY <3>1, <3>2
  <2>2. CASE u # t
    <3>1. pc'[u] = pc[u]
      BY <2>2 DEF SubmitProxy, SubmitNoDbr, TypeOK
    <3> QED
      BY <1>2, <1>4, <3>1 DEF Submitting, TypeOK
  <2> QED
    BY <2>1, <2>2
<1> QED
  BY <1>6, <1>7, <1>8, <1>9, <1>10, <1>11

LEMMA GpuRingKeeps ==
  ASSUME IInv, NEW t \in Threads, GpuRing(t)
  PROVE  QueueInv'
<1> USE DEF IInv, QueueInv
<1> DEFINE p == on[t]
<1>1. /\ db' = [db EXCEPT ![p] = @ \cup {prod[t]}]
      /\ pc' = [pc EXCEPT ![t] = "idle"]
      /\ UNCHANGED <<ready, cpu_db, last, dbr, nic_pi, nic_ci, on, prod, cur, tmp_db, svc>>
  BY DEF GpuRing
<1>2. /\ p \in AssistedQps /\ p \in QPs
      /\ prod[t] <= cpu_db[p] /\ Recent(prod[t], ready[p])
  BY DEF GpuRing, Submitting
<1>3. \A q \in QPs : /\ Recorded(q)' = Recorded(q) /\ Rung(q)' = Rung(q)
                     /\ Ringing(q)' = Ringing(q)
  BY <1>1 DEF Recorded, Rung, Ringing
<1>4. IndexOrder' /\ RecordRecent'
  BY <1>1 DEF IndexOrder, RecordRecent
<1>5. ServiceOrder' /\ RecordHolds' /\ ProxyRings'
  BY <1>1, <1>2, <1>3 DEF ServiceOrder, RecordHolds, ProxyRings
<1>6. DoorbellsRecent'
  BY <1>1, <1>2 DEF DoorbellsRecent, TypeOK
<1>7. Submitting'
  BY <1>1 DEF Submitting, TypeOK
<1>8. RememberedReaches'
  BY <1>1, <1>2 DEF RememberedReaches, TypeOK
<1> QED
  BY <1>4, <1>5, <1>6, <1>7, <1>8

(* The service thread loads an index: if it is to ring, what it will ring  *)
(* is at most a queue more than what it remembers.                         *)
LEMMA LoadKeeps ==
  ASSUME IInv, LoadDb
  PROVE  QueueInv'
<1> USE DEF IInv, QueueInv
<1>1. /\ svc = "load" /\ tmp_db' = cpu_db[cur] /\ cur' = cur
      /\ UNCHANGED <<qpVars, gpuVars>>
      /\ svc' \in {"next", "ring_early", "update_dbr", "ring"}
      /\ cpu_db[cur] = last[cur] => svc' = "next"
      /\ svc' = "ring" => cur \in NoDbrHwQps \/ cpu_db[cur] = last[cur]
  <2>1. cur \in QPs
    BY DEF LoadDb, Progressing
  <2> QED
    BY <2>1 DEF LoadDb, QPs
<1>2. cur \in QPs
  BY <1>1 DEF Progressing
<1>3. \A q \in QPs : ~Ringing(q) /\ (q # cur => ~Ringing(q)')
  BY <1>1 DEF Ringing, RingPcs
<1>4. \A q \in QPs : Rung(q) = last[q] /\ Recorded(q) = last[q]
  BY <1>1, <1>3 DEF Rung, Recorded
<1>5. IndexOrder' /\ DoorbellsRecent' /\ RecordRecent' /\ RememberedReaches'
  BY <1>1 DEF IndexOrder, DoorbellsRecent, RecordRecent, RememberedReaches
<1>6. ServiceOrder'
  <2> SUFFICES ASSUME NEW q \in QPs PROVE ServiceOrder!(q)'
    BY DEF ServiceOrder
  <2>1. CASE q = cur
    BY <1>1, <2>1 DEF ServiceOrder, TypeOK
  <2>2. CASE q # cur
    BY <1>1, <1>3, <2>2 DEF ServiceOrder
  <2> QED
    BY <2>1, <2>2
<1>7. RecordHolds'
  <2> SUFFICES ASSUME NEW q \in QPs \ NoDbrHwQps PROVE RecordHolds!(q)'
    BY DEF RecordHolds
  <2>1. Recorded(q)' = last[q]
    BY <1>1 DEF Recorded
  <2> QED
    BY <1>1, <1>4, <2>1 DEF RecordHolds, Idx16
<1>8. ProxyRings'
  <2> SUFFICES ASSUME NEW q \in QPs \ AssistedQps PROVE ProxyRings!(q)'
    BY DEF ProxyRings
  <2>1. /\ nic_pi[q] <= last[q] /\ \A k \in db[q] : k <= last[q]
    BY <1>4 DEF ProxyRings
  <2>2. CASE ~Ringing(q)'
    <3>1. Rung(q)' = last[q]
      BY <1>1, <2>2 DEF Rung
    <3> QED
      BY <1>1, <2>1, <2>2, <3>1
  <2>3. CASE Ringing(q)'
    <3>1. q = cur /\ Rung(q)' = cpu_db[q]
      BY <1>1, <1>3, <2>3 DEF Rung
    <3>2. cpu_db[q] <= last[q] + WqeNum /\ last[q] <= cpu_db[q]
      BY <2>1, SizeFacts DEF IndexOrder, ServiceOrder, TypeOK
    <3>3. nic_pi[q] <= cpu_db[q] /\ \A k \in db[q] : k <= cpu_db[q]
      BY DEF IndexOrder, DoorbellsRecent
    <3> QED
      BY <1>1, <3>1, <3>2, <3>3
  <2> QED
    BY <2>2, <2>3
<1>9. Submitting'
  BY <1>1 DEF Submitting
<1> QED
  BY <1>5, <1>6, <1>7, <1>8, <1>9

(* What the service thread is about to ring is not outdated.               *)
LEMMA ServiceRecent ==
  ASSUME IInv, Ringing(cur)
  PROVE  /\ cur \in QPs /\ tmp_db \in Nat
         /\ last[cur] <= tmp_db /\ tmp_db <= cpu_db[cur]
         /\ Recent(tmp_db, ready[cur])
<1> USE DEF IInv, QueueInv
<1>1. cur \in QPs /\ tmp_db \in Nat
  BY DEF Progressing, Ringing, TypeOK
<1>2. last[cur] <= tmp_db /\ tmp_db <= cpu_db[cur]
  BY <1>1 DEF ServiceOrder
<1>3. CASE cur \in AssistedQps
  BY <1>1, <1>2, <1>3, RecentNearer DEF RecordRecent, TypeOK
<1>4. CASE cur \notin AssistedQps
  <2>1. nic_pi[cur] <= tmp_db
    BY <1>1, <1>4 DEF ProxyRings, Rung
  <2>2. ready[cur] <= tmp_db + WqeNum
    BY <1>1, <2>1, SizeFacts DEF IndexOrder, TypeOK
  <2> QED
    BY <1>1, <1>2, <2>2, RecentQueue DEF TypeOK
<1> QED
  BY <1>1, <1>2, <1>3, <1>4

LEMMA RingEarlyKeeps ==
  ASSUME IInv, RingEarly
  PROVE  QueueInv'
<1> USE DEF IInv, QueueInv
<1>1. /\ db' = [db EXCEPT ![cur] = @ \cup {tmp_db}]
      /\ svc = "ring_early" /\ svc' = "update_dbr"
      /\ UNCHANGED <<ready, cpu_db, last, dbr, nic_pi, nic_ci, gpuVars, cur, tmp_db>>
  BY DEF RingEarly, SvcRing
<1>2. Ringing(cur)
  BY <1>1 DEF Ringing, RingPcs
<1>3. /\ cur \in QPs /\ tmp_db \in Nat
      /\ tmp_db <= cpu_db[cur] /\ Recent(tmp_db, ready[cur])
  BY <1>2, ServiceRecent
<1>4. \A q \in QPs : /\ Recorded(q)' = Recorded(q) /\ Rung(q)' = Rung(q)
                     /\ Ringing(q)' = Ringing(q)
  BY <1>1 DEF Recorded, Rung, Ringing, RingPcs
<1>5. IndexOrder' /\ RecordRecent'
  BY <1>1 DEF IndexOrder, RecordRecent
<1>6. ServiceOrder' /\ RecordHolds'
  BY <1>1, <1>4 DEF ServiceOrder, RecordHolds
<1>7. DoorbellsRecent'
  BY <1>1, <1>3 DEF DoorbellsRecent, TypeOK
<1>8. ProxyRings'
  <2>1. Rung(cur) = tmp_db
    BY <1>2 DEF Rung
  <2> QED
    BY <1>1, <1>3, <1>4, <2>1 DEF ProxyRings, TypeOK
<1>9. Submitting'
  BY <1>1 DEF Submitting
<1>10. RememberedReaches'
  BY <1>1 DEF RememberedReaches, TypeOK
<1> QED
  BY <1>5, <1>6, <1>7, <1>8, <1>9, <1>10

LEMMA UpdateDbrKeeps ==
  ASSUME IInv, UpdateDbr
  PROVE  QueueInv'
<1> USE DEF IInv, QueueInv
<1>1. /\ dbr' = [dbr EXCEPT ![cur] = Idx16(tmp_db)]
      /\ svc = "update_dbr" /\ svc' = "ring"
      /\ UNCHANGED <<ready, cpu_db, last, db, nic_pi, nic_ci, gpuVars, cur, tmp_db>>
  BY DEF UpdateDbr, DbrVal
<1>2. cur \in QPs
  BY <1>1 DEF Progressing, RingPcs
<1>3. \A q \in QPs : Rung(q)' = Rung(q) /\ Ringing(q)' = Ringing(q)
  BY <1>1 DEF Rung, Ringing, RingPcs
<1>4. IndexOrder' /\ RecordRecent' /\ DoorbellsRecent' /\ RememberedReaches'
  BY <1>1 DEF IndexOrder, RecordRecent, DoorbellsRecent, RememberedReaches
<1>5. ServiceOrder' /\ ProxyRings'
  BY <1>1, <1>3 DEF ServiceOrder, ProxyRings
<1>6. RecordHolds'
  <2> SUFFICES ASSUME NEW q \in QPs \ NoDbrHwQps PROVE RecordHolds!(q)'
    BY DEF RecordHolds
  <2>1. CASE q = cur
    BY <1>1, <1>2, <2>1 DEF Recorded, Idx16, TypeOK
  <2>2. CASE q # cur
    BY <1>1, <1>2, <2>2 DEF RecordHolds, Recorded, Idx16, TypeOK
  <2> QED
    BY <2>1, <2>2
<1>7. Submitting'
  BY <1>1 DEF Submitting
<1> QED
  BY <1>4, <1>5, <1>6, <1>7

(* The second doorbell carries what the thread then remembers.             *)
LEMMA RingKeeps ==
  ASSUME IInv, Ring
  PROVE  QueueInv'
<1> USE DEF IInv, QueueInv
<1>1. /\ db' = [db EXCEPT ![cur] = @ \cup {tmp_db}]
      /\ last' = [last EXCEPT ![cur] = tmp_db]
      /\ svc = "ring" /\ svc' = "next"
      /\ UNCHANGED <<ready, cpu_db, dbr, nic_pi, nic_ci, gpuVars, cur, tmp_db>>
  BY DEF Ring, SvcRing, Remembered
<1>2. Ringing(cur)
  BY <1>1 DEF Ringing, RingPcs
<1>3. /\ cur \in QPs /\ tmp_db \in Nat /\ last[cur] <= tmp_db
      /\ tmp_db <= cpu_db[cur] /\ Recent(tmp_db, ready[cur])
  BY <1>2, ServiceRecent
<1>4. \A q \in QPs : /\ ~Ringing(q)' /\ (q # cur => ~Ringing(q))
                     /\ Recorded(q)' = Recorded(q) /\ Rung(q)' = Rung(q)
  <2> SUFFICES ASSUME NEW q \in QPs
               PROVE  /\ ~Ringing(q)' /\ (q # cur => ~Ringing(q))
                      /\ Recorded(q)' = Recorded(q) /\ Rung(q)' = Rung(q)
    OBVIOUS
  <2>1. CASE q = cur
    BY <1>1, <1>2, <1>3, <2>1 DEF Ringing, Recorded, Rung, RingPcs, TypeOK
  <2>2. CASE q # cur
    BY <1>1, <1>3, <2>2 DEF Ringing, Recorded, Rung, RingPcs, TypeOK
  <2> QED
    BY <2>1, <2>2
<1>5. IndexOrder' /\ RecordHolds'
  BY <1>1, <1>4 DEF IndexOrder, RecordHolds
<1>6. ServiceOrder'
  BY <1>1, <1>3, <1>4, SizeFacts DEF ServiceOrder, TypeOK
<1>7. DoorbellsRecent' /\ RecordRecent'
  BY <1>1, <1>3 DEF DoorbellsRecent, RecordRecent, TypeOK, QPs
<1>8. ProxyRings'
  <2>1. Rung(cur) = tmp_db
    BY <1>2 DEF Rung
  <2> QED
    BY <1>1, <1>3, <1>4, <2>1 DEF ProxyRings, TypeOK
<1>9. Submitting'
  BY <1>1 DEF Submitting
<1>10. RememberedReaches'
  BY <1>1, <1>3 DEF RememberedReaches, TypeOK
<1> QED
  BY <1>5, <1>6, <1>7, <1>8, <1>9, <1>10

(* Whatever the NIC takes, its index becomes the larger of its own and one *)
(* that was raised; if it dropped the doorbell, the record says as much as *)
(* the service thread remembers.                                           *)
LEMMA NicTakes ==
  ASSUME IInv, NEW q \in QPs, NicDoorbell(q)
  PROVE  \E k \in db[q], j \in Nat :
           /\ db' = [db EXCEPT ![q] = @ \ {k}]
           /\ nic_pi' = [nic_pi EXCEPT ![q] = Larger(@, j)]
           /\ j <= cpu_db[q]
           /\ j = k \/ j >= last[q]
           /\ q \notin AssistedQps => j <= Rung(q)
<1> USE DEF IInv, QueueInv
<1>1. PICK k \in db[q] :
        /\ db' = [db EXCEPT ![q] = @ \ {k}]
        /\ TakeIndex(q, Idx16(k)) \/ (q \notin NoDbrHwQps /\ TakeIndex(q, dbr[q]))
  BY DEF NicDoorbell
<1>2. /\ k \in Nat /\ k <= cpu_db[q] /\ Recent(k, ready[q])
      /\ q \notin AssistedQps => k <= Rung(q)
  BY DEF DoorbellsRecent, ProxyRings, TypeOK
<1>3. /\ nic_pi[q] \in Nat /\ nic_pi[q] <= ready[q] /\ ready[q] \in Nat
      /\ cpu_db[q] <= nic_pi[q] + WqeNum /\ cpu_db[q] \in Nat /\ last[q] \in Nat
  BY SizeFacts DEF IndexOrder, TypeOK
<1>4. CASE TakeIndex(q, Idx16(k))
  <2>1. Recent(k, nic_pi[q]) /\ k <= nic_pi[q] + WqeNum
    BY <1>2, <1>3, SizeFacts DEF Recent
  <2>2. nic_pi[q] + Ahead(Idx16(k), nic_pi[q]) = Larger(nic_pi[q], k)
    BY <1>2, <1>3, <2>1, NicReads
  <2>3. nic_pi' = [nic_pi EXCEPT ![q] = Larger(@, k)]
    BY <1>4, <2>2 DEF TakeIndex, TypeOK
  <2> QED
    BY <1>1, <1>2, <2>3
<1>5. CASE q \notin NoDbrHwQps /\ TakeIndex(q, dbr[q])
  <2> DEFINE j == Recorded(q)
  <2>1. j = last[q] \/ (cur = q /\ svc = "ring" /\ j = tmp_db)
    BY DEF Recorded
  <2>2. /\ j \in Nat /\ j >= last[q] /\ j <= cpu_db[q]
        /\ q \notin AssistedQps => j <= Rung(q)
    <3>1. CASE cur = q /\ svc = "ring"
      BY <1>3, <3>1, ServiceRecent DEF Recorded, Rung, Ringing, RingPcs
    <3>2. CASE ~(cur = q /\ svc = "ring")
      BY <1>3, <3>2, ServiceRecent DEF Recorded, Rung, ServiceOrder, Ringing
    <3> QED
      BY <3>1, <3>2
  <2>3. Recent(last[q], nic_pi[q])
    <3>1. CASE q \in AssistedQps
      BY <1>3, <3>1, RecentNearer DEF RecordRecent
    <3>2. CASE q \notin AssistedQps
      <4>1. nic_pi[q] <= last[q] + WqeNum
        BY <1>3, <3>2, SizeFacts DEF ProxyRings, Rung, TypeOK
      <4> QED
        BY <1>3, <4>1, RecentQueue
    <3> QED
      BY <3>1, <3>2
  <2>4. Recent(j, nic_pi[q]) /\ j <= nic_pi[q] + WqeNum
    BY <1>3, <2>2, <2>3, SizeFacts DEF Recent
  <2>5. dbr[q] = Idx16(j)
    BY <1>5 DEF RecordHolds
  <2>6. nic_pi[q] + Ahead(dbr[q], nic_pi[q]) = Larger(nic_pi[q], j)
    BY <1>3, <2>2, <2>4, <2>5, NicReads
  <2>7. nic_pi' = [nic_pi EXCEPT ![q] = Larger(@, j)]
    BY <1>5, <2>6 DEF TakeIndex, TypeOK
  <2> HIDE DEF j
  <2> QED
    BY <1>1, <2>2, <2>7
<1> QED
  BY <1>1, <1>4, <1>5

LEMMA NicDoorbellKeeps ==
  ASSUME IInv, NEW p \in QPs, NicDoorbell(p)
  PROVE  QueueInv'
<1> USE DEF IInv, QueueInv
<1>1. PICK k \in db[p], j \in Nat :
        /\ db' = [db EXCEPT ![p] = @ \ {k}]
        /\ nic_pi' = [nic_pi EXCEPT ![p] = Larger(@, j)]
        /\ j <= cpu_db[p]
        /\ j = k \/ j >= last[p]
        /\ p \notin AssistedQps => j <= Rung(p)
  BY NicTakes
<1>2. UNCHANGED <<ready, cpu_db, last, dbr, nic_ci, gpuVars, cur, tmp_db, svc>>
  BY DEF NicDoorbell
<1>3. /\ nic_pi[p] \in Nat /\ Larger(nic_pi[p], j) \in Nat
      /\ nic_pi'[p] = Larger(nic_pi[p], j)
      /\ \A q \in QPs : q # p => nic_pi'[q] = nic_pi[q] /\ db'[q] = db[q]
      /\ db'[p] = db[p] \ {k}
  BY <1>1 DEF TypeOK, Larger
<1>4. \A q \in QPs : /\ Recorded(q)' = Recorded(q) /\ Rung(q)' = Rung(q)
                     /\ Ringing(q)' = Ringing(q)
  BY <1>2 DEF Recorded, Rung, Ringing
<1>5. IndexOrder'
  BY <1>1, <1>2, <1>3 DEF IndexOrder, Larger, TypeOK
<1>6. ServiceOrder' /\ RecordHolds'
  BY <1>2, <1>4 DEF ServiceOrder, RecordHolds
<1>7. DoorbellsRecent' /\ RecordRecent'
  BY <1>2, <1>3 DEF DoorbellsRecent, RecordRecent
<1>8. ProxyRings'
  BY <1>1, <1>2, <1>3, <1>4 DEF ProxyRings, Larger
<1>9. Submitting'
  BY <1>2 DEF Submitting
<1>10. RememberedReaches'
  <2> SUFFICES ASSUME NEW q \in QPs
               PROVE  nic_pi'[q] >= last[q] \/ \E i \in db'[q] : i >= last[q]
    BY <1>2 DEF RememberedReaches
  <2>1. CASE q # p
    BY <1>3, <2>1 DEF RememberedReaches
  <2>2. CASE q = p
    <3>1. nic_pi'[p] >= nic_pi[p] /\ nic_pi'[p] >= j
      BY <1>3 DEF Larger
    <3>2. nic_pi'[p] \in Nat /\ last[p] \in Nat /\ db[p] \subseteq Nat
      BY <1>3 DEF TypeOK
    <3>3. CASE nic_pi[p] >= last[p] \/ j >= last[p]
      BY <1>3, <2>2, <3>1, <3>2, <3>3
    <3>4. CASE \E i \in db[p] : i >= last[p] /\ i # k
      BY <1>3, <2>2, <3>4
    <3> QED
      BY <1>1, <2>2, <3>3, <3>4 DEF RememberedReaches
  <2> QED
    BY <2>1, <2>2
<1> QED
  BY <1>5, <1>6, <1>7, <1>8, <1>9, <1>10

LEMMA NicExecuteKeeps ==
  ASSUME IInv, NEW p \in QPs, NicExecute(p)
  PROVE  QueueInv'
<1> USE DEF IInv, QueueInv
<1>1. /\ nic_ci[p] < nic_pi[p]
      /\ nic_ci' = [nic_ci EXCEPT ![p] = @ + 1]
      /\ UNCHANGED <<ready, cpu_db, last, dbr, db, nic_pi, gpuVars, cur, tmp_db, svc>>
  BY DEF NicExecute
<1>2. \A q \in QPs : /\ Recorded(q)' = Recorded(q) /\ Rung(q)' = Rung(q)
                     /\ Ringing(q)' = Ringing(q)
  BY <1>1 DEF Recorded, Rung, Ringing
<1>3. IndexOrder'
  BY <1>1, SizeFacts DEF IndexOrder, TypeOK
<1>4. ServiceOrder' /\ RecordHolds' /\ ProxyRings'
  BY <1>1, <1>2 DEF ServiceOrder, RecordHolds, ProxyRings
<1>5. DoorbellsRecent' /\ RecordRecent' /\ RememberedReaches'
  BY <1>1 DEF DoorbellsRecent, RecordRecent, RememberedReaches
<1>6. Submitting'
  BY <1>1 DEF Submitting
<1> QED
  BY <1>3, <1>4, <1>5, <1>6

-----------------------------------------------------------------------------
(* The invariant.                                                          *)

LEMMA InitHolds == Init => IInv
<1> SUFFICES ASSUME Init PROVE IInv
  OBVIOUS
<1>1. LockHeld /\ Progressing
  BY DEF Init, LockHeld, Progressing, IteratingPcs, RingPcs
<1>2. \A q \in QPs : /\ ready[q] = First /\ cpu_db[q] = First /\ last[q] = First
                     /\ nic_pi[q] = First /\ nic_ci[q] = First
                     /\ dbr[q] = Idx16(First) /\ db[q] = {}
                     /\ ~Ringing(q) /\ Recorded(q) = First /\ Rung(q) = First
  BY DEF Init, Ringing, Recorded, Rung, RingPcs
<1>3. IndexOrder /\ ServiceOrder /\ RecordHolds /\ ProxyRings
  BY <1>2, SizeFacts DEF IndexOrder, ServiceOrder, RecordHolds, ProxyRings
<1>4. DoorbellsRecent /\ RecordRecent /\ RememberedReaches
  BY <1>2, SizeFacts DEF DoorbellsRecent, RecordRecent, RememberedReaches, Recent, QPs
<1>5. Submitting
  BY DEF Init, Submitting
<1> QED
  BY <1>1, <1>3, <1>4, <1>5, InitType DEF IInv, QueueInv

LEMMA QueueStep ==
  ASSUME IInv, [Next]_vars
  PROVE  QueueInv'
<1>1. CASE UNCHANGED vars
  BY <1>1 DEF vars, IInv, QueueInv, IndexOrder, ServiceOrder, RecordHolds,
     DoorbellsRecent, RecordRecent, ProxyRings, Submitting, RememberedReaches,
     Ringing, Recorded, Rung
<1>2. CASE ServiceStep
  BY <1>2, RoundAlone, LoadKeeps, RingEarlyKeeps, UpdateDbrKeeps, RingKeeps DEF ServiceStep
<1>3. CASE HostStep \/ HostCall
  BY <1>3, HostAlone
<1>4. ASSUME NEW t \in Threads, GpuStep(t) \/ \E q \in QPs : Post(t, q)
      PROVE  QueueInv'
  BY <1>4, PostKeeps, SubmitKeeps, GpuRingKeeps DEF GpuStep
<1>5. ASSUME NEW q \in QPs, NicDoorbell(q) \/ NicExecute(q)
      PROVE  QueueInv'
  BY <1>5, NicDoorbellKeeps, NicExecuteKeeps
<1> QED
  BY <1>1, <1>2, <1>3, <1>4, <1>5 DEF Next, Done

(* The conjuncts hold together in every reachable state.                   *)
THEOREM Invariance == Spec => []IInv
<1>1. Init => IInv
  BY InitHolds
<1>2. IInv /\ [Next]_vars => IInv'
  BY NextType, LockStep, QueueStep DEF IInv
<1> QED
  BY <1>1, <1>2, PTL DEF Spec

(* Every variable of the proxy's model keeps its type.                     *)
THEOREM TypeCorrect == Spec => []TypeOK
<1>1. IInv => TypeOK
  BY DEF IInv
<1> QED
  BY <1>1, Invariance, PTL

-----------------------------------------------------------------------------
(* What follows.                                                           *)

(* When cpu_proxy_progress has gone to the next QP and no doorbell is on   *)
(* its way, the NIC knows the index the service thread remembers, even if  *)
(* it dropped the doorbell that went ahead of the record.                  *)
THEOREM DoorbellsArrive == Spec => []NoLostDoorbell
<1>1. IInv => NoLostDoorbell
  BY DEF IInv, QueueInv, RememberedReaches, NoLostDoorbell
<1> QED
  BY <1>1, Invariance, PTL

(* While the service thread iterates over the monitored QPs, neither       *)
(* monitor_qp nor destroy_service changes or frees the set.                *)
THEOREM WalkIsSafe == Spec => IterationUndisturbed
<1> DEFINE Undisturbed == svc \in IteratingPcs => qps' = qps
<1>1. ASSUME IInv, Next PROVE Undisturbed
  <2>1. CASE ServiceStep
    BY <2>1 DEF ServiceStep, CheckRunning, RdLock, NextQp, Again, RdUnlock, Yield,
       LoadDb, RingEarly, UpdateDbr, Ring
  <2>2. CASE Insert \/ Join
    BY <1>1, <2>2 DEF Insert, Join, IInv, LockHeld, IteratingPcs
  <2>3. CASE WrLock \/ HostCall
    BY <2>3 DEF HostCall, WrLock, Destroy, Monitor
  <2>4. CASE \E t \in Threads : GpuStep(t) \/ \E q \in QPs : Post(t, q)
    BY <2>4 DEF GpuStep, SubmitProxy, SubmitNoDbr, GpuRing, Post
  <2>5. CASE \E q \in QPs : NicDoorbell(q) \/ NicExecute(q)
    BY <2>5 DEF NicDoorbell, NicExecute
  <2>6. CASE Done
    BY <2>6 DEF Done, vars
  <2> QED
    BY <1>1, <2>1, <2>2, <2>3, <2>4, <2>5, <2>6 DEF Next, HostStep
<1>2. IInv /\ [Next]_vars => [Undisturbed]_vars
  BY <1>1
<1> QED
  BY <1>2, Invariance, PTL DEF Spec, IterationUndisturbed

(* In a step the record of a QP that only the CPU rings moves forward by a *)
(* queue of WQEs at most.                                                  *)
THEOREM RecordForward == Spec => RecordMovesForward
<1> DEFINE Forward == \A q \in FullQps : Idx16(dbr'[q] - dbr[q]) <= WqeNum
<1>1. ASSUME IInv, dbr' = dbr PROVE Forward
  <2> SUFFICES ASSUME NEW q \in FullQps PROVE Idx16(dbr'[q] - dbr[q]) <= WqeNum
    OBVIOUS
  <2>1. dbr[q] \in Int
    BY <1>1 DEF IInv, TypeOK, QPs
  <2>2. dbr'[q] - dbr[q] = 0
    BY <1>1, <2>1
  <2>3. Idx16(0) = 0
    BY SizeFacts DEF Idx16
  <2> QED
    BY <2>2, <2>3, SizeFacts
<1>2. ASSUME IInv, UpdateDbr PROVE Forward
  <2> SUFFICES ASSUME NEW q \in FullQps PROVE Idx16(dbr'[q] - dbr[q]) <= WqeNum
    OBVIOUS
  <2> USE DEF IInv, QueueInv
  <2>1. /\ q \in QPs /\ q \notin AssistedQps /\ q \notin NoDbrHwQps
        /\ dbr \in [QPs -> Int] /\ cur \in QPs
        /\ dbr' = [dbr EXCEPT ![cur] = Idx16(tmp_db)] /\ svc = "update_dbr"
    BY <1>2, ProxyAssumption DEF QPs, TypeOK, UpdateDbr, DbrVal, Progressing, RingPcs
  <2>2. CASE q = cur
    <3>1. Ringing(q) /\ Recorded(q) = last[q]
      BY <2>1, <2>2 DEF Ringing, Recorded, RingPcs
    <3>2. /\ last[q] <= tmp_db /\ tmp_db <= last[q] + WqeNum
          /\ last[q] \in Int /\ tmp_db \in Int
      BY <1>2, <2>1, <3>1 DEF ServiceOrder, ProxyRings, TypeOK
    <3>3. dbr[q] = last[q] % IdxMod /\ dbr'[q] = tmp_db % IdxMod
      BY <1>2, <2>1, <2>2, <3>1 DEF RecordHolds, Idx16
    <3>4. IdxMod \in Nat \ {0} /\ tmp_db < last[q] + IdxMod
      BY <3>2, SizeFacts
    <3>5. ((tmp_db % IdxMod) - (last[q] % IdxMod)) % IdxMod = tmp_db - last[q]
      BY <3>2, <3>4, SerialDistance, Zenon
    <3>6. Idx16(dbr'[q] - dbr[q]) = tmp_db - last[q]
      BY <3>3, <3>5 DEF Idx16
    <3> QED
      BY <3>2, <3>6, SizeFacts
  <2>3. CASE q # cur
    <3>1. dbr'[q] - dbr[q] = 0
      BY <2>1, <2>3
    <3>2. Idx16(0) = 0
      BY SizeFacts DEF Idx16
    <3> QED
      BY <3>1, <3>2, SizeFacts
  <2> QED
    BY <2>2, <2>3
<1>3. ASSUME Next, ~UpdateDbr PROVE dbr' = dbr
  <2>1. CASE ServiceStep
    BY <1>3, <2>1 DEF ServiceStep, CheckRunning, RdLock, NextQp, Again, RdUnlock, Yield,
       LoadDb, RingEarly, Ring
  <2>2. CASE HostStep \/ HostCall
    BY <2>2 DEF HostStep, HostCall, WrLock, Insert, Join, Destroy, Monitor
  <2>3. CASE \E t \in Threads : GpuStep(t) \/ \E q \in QPs : Post(t, q)
    BY <2>3 DEF GpuStep, SubmitProxy, SubmitNoDbr, GpuRing, Post
  <2>4. CASE \E q \in QPs : NicDoorbell(q) \/ NicExecute(q)
    BY <2>4 DEF NicDoorbell, NicExecute
  <2>5. CASE Done
    BY <2>5 DEF Done, vars
  <2> QED
    BY <1>3, <2>1, <2>2, <2>3, <2>4, <2>5 DEF Next
<1>4. IInv /\ [Next]_vars => [Forward]_vars
  BY <1>1, <1>2, <1>3
<1> QED
  BY <1>4, Invariance, PTL DEF Spec, RecordMovesForward

-----------------------------------------------------------------------------
(* The QPs implement bounded FIFO queues.                                  *)

counters(q) == <<ready[q], nic_pi[q], nic_ci[q]>>

LEMMA StepImplements ==
  ASSUME IInv, [Next]_vars, NEW q \in QPs
  PROVE  [WQ(q)!Next]_(WQ(q)!wqVars)
<1> USE DEF IInv, QueueInv
<1>0. /\ ready[q] \in Nat /\ nic_pi[q] \in Nat /\ nic_ci[q] \in Nat
      /\ First <= nic_ci[q] /\ nic_ci[q] <= nic_pi[q] /\ nic_pi[q] <= ready[q]
      /\ cpu_db[q] \in Nat /\ cpu_db[q] <= ready[q]
  BY SizeFacts DEF TypeOK, IndexOrder
<1> SUFFICES WQ(q)!Next \/ UNCHANGED counters(q)
  BY DEF WQ!wqVars, counters
<1>1. CASE ServiceStep \/ HostStep \/ HostCall \/ Done \/ UNCHANGED vars
  <2>1. UNCHANGED <<ready, nic_pi, nic_ci>>
    BY <1>1 DEF ServiceStep, CheckRunning, RdLock, NextQp, Again, RdUnlock, Yield,
       LoadDb, RingEarly, UpdateDbr, Ring, SvcRing, HostStep, HostCall, WrLock, Insert,
       Join, Destroy, Monitor, Done, vars
  <2> QED
    BY <2>1 DEF counters
<1>2. ASSUME NEW t \in Threads, GpuStep(t) PROVE UNCHANGED counters(q)
  BY <1>2 DEF GpuStep, SubmitProxy, SubmitNoDbr, GpuRing, counters
<1>3. ASSUME NEW t \in Threads, NEW p \in QPs, Post(t, p)
      PROVE  WQ(q)!Post \/ UNCHANGED counters(q)
  <2>1. /\ UNCHANGED <<nic_pi, nic_ci>>
        /\ ready[p] < nic_ci[p] + WqeNum
        /\ ready' = [ready EXCEPT ![p] = @ + 1]
    BY <1>3 DEF Post
  <2>2. CASE p # q
    BY <2>1, <2>2 DEF counters, TypeOK
  <2>3. CASE p = q
    <3>1. ready'[q] = ready[q] + 1 /\ ready'[q] <= nic_ci[q] + WqeNum
      BY <1>0, <2>1, <2>3, SizeFacts DEF TypeOK
    <3> QED
      BY <1>0, <2>1, <3>1, SizeFacts DEF WQ!Post
  <2> QED
    BY <2>2, <2>3
<1>4. ASSUME NEW p \in QPs, NicDoorbell(p)
      PROVE  WQ(q)!Submit \/ UNCHANGED counters(q)
  <2>1. PICK j \in Nat : /\ nic_pi' = [nic_pi EXCEPT ![p] = Larger(@, j)]
                         /\ j <= cpu_db[p]
    BY <1>4, NicTakes
  <2>2. UNCHANGED <<ready, nic_ci>>
    BY <1>4 DEF NicDoorbell
  <2>3. CASE p # q
    BY <2>1, <2>2, <2>3 DEF counters, TypeOK
  <2>4. CASE p = q
    <3>1. nic_pi'[q] = Larger(nic_pi[q], j)
      BY <2>1, <2>4 DEF TypeOK
    <3>2. nic_pi'[q] \in Nat /\ nic_pi'[q] >= nic_pi[q] /\ nic_pi'[q] <= ready[q]
      BY <1>0, <2>1, <2>4, <3>1 DEF Larger
    <3> QED
      BY <1>0, <2>2, <3>2, SizeFacts DEF WQ!Submit, counters
  <2> QED
    BY <2>3, <2>4
<1>5. ASSUME NEW p \in QPs, NicExecute(p)
      PROVE  WQ(q)!Execute \/ UNCHANGED counters(q)
  <2>1. /\ UNCHANGED <<ready, nic_pi>> /\ nic_ci[p] < nic_pi[p]
        /\ nic_ci' = [nic_ci EXCEPT ![p] = @ + 1]
    BY <1>5 DEF NicExecute
  <2>2. CASE p # q
    BY <2>1, <2>2 DEF counters, TypeOK
  <2>3. CASE p = q
    <3>1. nic_ci'[q] = nic_ci[q] + 1
      BY <2>1, <2>3 DEF TypeOK
    <3> QED
      BY <1>0, <2>1, <2>3, <3>1, SizeFacts DEF WQ!Execute
  <2> QED
    BY <2>2, <2>3
<1> QED
  BY <1>1, <1>2, <1>3, <1>4, <1>5 DEF Next, WQ!Next

(* Whoever rings, the proxy's thread, GPU threads or both, a QP is a       *)
(* bounded FIFO: the NIC is told of published WQEs only, never goes back,  *)
(* and executes each once and in order.                                    *)
THEOREM Refinement == Spec => ImplementsWorkQueue
<1> DEFINE Start == \A q \in QPs : WQ(q)!Init
           Move == \A q \in QPs : [WQ(q)!Next]_(WQ(q)!wqVars)
<1>1. Init => Start
  BY SizeFacts DEF Init, WQ!Init
<1>2. IInv /\ [Next]_vars => Move
  BY StepImplements
<1>3. Spec => Start /\ [][Move]_vars
  <2> HIDE DEF Start, Move
  <2>1. IInv /\ [Next]_vars => [Move]_vars
    BY <1>2
  <2> QED
    BY <1>1, <2>1, Invariance, PTL DEF Spec
<1> QED
  BY <1>3 DEF ImplementsWorkQueue
=============================================================================
