--------------------------- MODULE SendQueueProofs ---------------------------
(***************************************************************************)
(* Theorems about SendQueue, for every set of threads, queue sizes, index  *)
(* width, sharing mode and ready mode.                                     *)
(***************************************************************************)
EXTENDS SendQueueInv, ModArith

-----------------------------------------------------------------------------
(* Type correctness.                                                       *)

LEMMA Idx16Type == \A i \in Int : Idx16(i) \in 0 .. IdxMod - 1
  BY SizesAssumption, DivMod DEF Idx16

LEMMA InitType == Init => TypeOK
  BY SizesAssumption DEF Init, TypeOK, Pcs, PollPcs, FillPcs, SubmitPcs,
     Callers, Statuses, NoDb

USE DEF indexVars, ringVars, nicVars, opVars, pollVars

LEMMA PcsMembers ==
  {"idle", "lock", "load_ci", "load_cqe", "advance", "write", "ready",
   "ready_store", "fetch_max", "ring_early", "update_dbr", "ring_again",
   "unlock"} \subseteq Pcs
  BY DEF Pcs, PollPcs, FillPcs, SubmitPcs

LEMMA StepType ==
  ASSUME TypeOK, NEW t \in Threads, Step(t)
  PROVE  TypeOK'
<1>0. DbValue(t) \in 0 .. IdxMod - 1 /\ DbrValue(t) \in 0 .. IdxMod - 1
  <2>1. Prod(t) \in Int
    BY DEF Prod, TypeOK
  <2> QED
    BY <2>1, Idx16Type DEF DbValue, DbrValue
<1>1. ASSUME LoadCi(t) PROVE TypeOK'
  <2>1. pc' \in [Threads -> Pcs]
    BY <1>1, PcsMembers DEF LoadCi, FinishPoll, Goto, TypeOK
  <2>2. status' \in [Threads -> Statuses]
    BY <1>1 DEF LoadCi, FinishPoll, Goto, TypeOK, Statuses
  <2>3. seen_ci' \in [Threads -> Nat] /\ UNCHANGED <<cons, caller>>
    BY <1>1 DEF LoadCi, FinishPoll, Goto, TypeOK
  <2> QED
    BY <1>1, <2>1, <2>2, <2>3 DEF LoadCi, TypeOK
<1>2. ASSUME LoadCqe(t) PROVE TypeOK'
  BY <1>2, PcsMembers DEF LoadCqe, FinishPoll, NotYet, Goto, TypeOK, Statuses
<1>3. ASSUME AdvanceCi(t) PROVE TypeOK'
  BY <1>3, PcsMembers DEF AdvanceCi, FinishPoll, Goto, Larger, TypeOK, Statuses
<1>4. ASSUME WriteWqe(t) PROVE TypeOK'
  <2>1. /\ wq' = [wq EXCEPT ![Slot(cur[t])] = cur[t]]
        /\ wq \in [0 .. WqeNum - 1 -> Int] /\ cur[t] \in Int
    BY <1>4 DEF WriteWqe, TypeOK
  <2>2. wq' \in [0 .. WqeNum - 1 -> Int]
    BY <2>1
  <2>3. pc' \in [Threads -> Pcs] /\ cur' \in [Threads -> Nat]
    BY <1>4, PcsMembers DEF WriteWqe, Goto, TypeOK
  <2> QED
    BY <1>4, <2>2, <2>3 DEF WriteWqe, TypeOK
<1>5. ASSUME MarkReady(t) PROVE TypeOK'
  <2>1. pc' \in [Threads -> Pcs]
    BY <1>5, PcsMembers DEF MarkReady, Goto, TypeOK
  <2>2. sq_ready_index' \in Nat
    BY <1>5 DEF MarkReady, Prod, TypeOK
  <2> QED
    BY <1>5, <2>1, <2>2 DEF MarkReady, TypeOK
<1>6. ASSUME StoreReady(t) PROVE TypeOK'
  BY <1>6, PcsMembers DEF StoreReady, Prod, Goto, TypeOK
<1>7. ASSUME Lock(t) PROVE TypeOK'
  BY <1>7, PcsMembers DEF Lock, Goto, TypeOK
<1>8. ASSUME SkipSubmit(t) PROVE TypeOK'
  BY <1>8, PcsMembers DEF SkipSubmit, Goto, TypeOK
<1>9. ASSUME FetchMax(t) PROVE TypeOK'
  BY <1>9, PcsMembers DEF FetchMax, Prod, Larger, Goto, TypeOK
<1>10. ASSUME RingEarly(t) PROVE TypeOK'
  BY <1>10, <1>0, PcsMembers DEF RingEarly, RingDb, Goto, TypeOK
<1>11. ASSUME UpdateDbr(t) PROVE TypeOK'
  BY <1>11, <1>0, PcsMembers DEF UpdateDbr, Goto, TypeOK
<1>12. ASSUME RingAgain(t) PROVE TypeOK'
  BY <1>12, <1>0, PcsMembers DEF RingAgain, RingDb, Goto, TypeOK
<1>13. ASSUME Unlock(t) PROVE TypeOK'
  BY <1>13, PcsMembers DEF Unlock, Goto, TypeOK
<1> QED
  BY <1>1, <1>2, <1>3, <1>4, <1>5, <1>6, <1>7, <1>8, <1>9, <1>10, <1>11,
     <1>12, <1>13 DEF Step

LEMMA CallType ==
  ASSUME TypeOK, NEW t \in Threads, Call(t)
  PROVE  TypeOK'
<1>1. ASSUME NEW index \in Nat, NEW who \in Callers, StartPoll(t, index, who)
      PROVE  /\ pc' \in [Threads -> Pcs]
             /\ cons' \in [Threads -> Nat]
             /\ caller' \in [Threads -> Callers]
             /\ status' \in [Threads -> Statuses]
             /\ seen_ci' \in [Threads -> Nat]
  BY <1>1, PcsMembers DEF StartPoll, Goto, TypeOK, Statuses
<1>2. ASSUME NEW n \in Counts, Reserve(t, n) PROVE TypeOK'
  <2> DEFINE index == SlotWaitIndex(sq_rsvd_index, n)
  <2>1. n \in Nat /\ index \in Int
    BY SizesAssumption DEF SlotWaitIndex, TypeOK
  <2>2. CASE index >= 0 /\ StartPoll(t, index, "reserve")
    <3>1. index \in Nat /\ "reserve" \in Callers
      BY <2>1, <2>2 DEF Callers
    <3>2. /\ base' \in [Threads -> Nat] /\ count' \in [Threads -> Nat]
          /\ cur' \in [Threads -> Nat] /\ sq_rsvd_index' \in Nat
      BY <1>2, <2>1 DEF Reserve, TypeOK
    <3>3. /\ pc' \in [Threads -> Pcs] /\ cons' \in [Threads -> Nat]
          /\ caller' \in [Threads -> Callers] /\ status' \in [Threads -> Statuses]
          /\ seen_ci' \in [Threads -> Nat]
      BY <1>1, <2>2, <3>1
    <3> QED
      BY <1>2, <3>2, <3>3 DEF Reserve, TypeOK
  <2>3. CASE index < 0 /\ Goto(t, "write") /\ UNCHANGED pollVars
    BY <1>2, <2>1, <2>3, PcsMembers DEF Reserve, Goto, TypeOK
  <2> QED
    BY <1>2, <2>2, <2>3 DEF Reserve
<1>3. PollTargets(t) \subseteq Nat
  BY DEF PollTargets, Prod, TypeOK
<1>4. ASSUME NEW who \in {"wait", "try"},
             \E index \in PollTargets(t) : StartPoll(t, index, who),
             UNCHANGED <<indexVars, cqe_ci, ringVars, nicVars, opVars>>
      PROVE  TypeOK'
  BY <1>1, <1>3, <1>4 DEF TypeOK, Callers
<1> QED
  BY <1>2, <1>4 DEF Call, Wait, TryPoll

LEMMA NicType ==
  ASSUME TypeOK, NicTakeDb \/ NicComplete
  PROVE  TypeOK'
<1>1. ASSUME NicTakeDb PROVE TypeOK'
  <2>1. \A v \in 0 .. IdxMod - 1 : NextIndex(v) \in Nat
    <3> SUFFICES ASSUME NEW v \in 0 .. IdxMod - 1 PROVE NextIndex(v) \in Nat
      OBVIOUS
    <3>1. v - nic_pi \in Int
      BY DEF TypeOK
    <3>2. Idx16(v - nic_pi) \in 0 .. IdxMod - 1
      BY <3>1, Idx16Type
    <3> QED
      BY <3>2 DEF NextIndex, TypeOK
  <2> QED
    BY <1>1, <2>1 DEF NicTakeDb, NicDoorbell, NicRecover, NoDb, TypeOK
<1>2. ASSUME NicComplete PROVE TypeOK'
  <2>1. /\ cq' = [cq EXCEPT ![CqSlot(nic_ci)] = nic_ci]
        /\ cq \in [0 .. CqeNum - 1 -> Int] /\ nic_ci \in Int
    BY <1>2 DEF NicComplete, TypeOK
  <2>2. cq' \in [0 .. CqeNum - 1 -> Int]
    BY <2>1
  <2>3. nic_ci' \in Nat /\ nic_ok' \in Nat
    BY <1>2 DEF NicComplete, TypeOK
  <2> QED
    BY <1>2, <2>2, <2>3 DEF NicComplete, TypeOK
<1> QED
  BY <1>1, <1>2

(* The type invariant holds in every reachable state.                      *)
THEOREM TypeCorrect == Spec => []TypeOK
<1>1. TypeOK /\ [Next]_vars => TypeOK'
  <2> SUFFICES ASSUME TypeOK, [Next]_vars PROVE TypeOK'
    OBVIOUS
  <2>1. CASE Next
    BY <2>1, StepType, CallType, NicType DEF Next
  <2>2. CASE UNCHANGED vars
    BY <2>2 DEF vars, TypeOK
  <2> QED
    BY <2>1, <2>2
<1> QED
  BY <1>1, InitType, PTL DEF Spec

-----------------------------------------------------------------------------
(* The inductive invariant: facts its proof uses.                          *)

(* The facts about types the steps below need, with the types of derived   *)
(* indices.                                                                *)
LEMMA TypeFacts ==
  ASSUME IInv
  PROVE  /\ pc \in [Threads -> Pcs]
         /\ status \in [Threads -> Statuses]
         /\ \A u \in Threads : Prod(u) \in Nat /\ base[u] \in Nat /\ count[u] \in Nat
         /\ \A u \in Threads : cur[u] \in Nat /\ cons[u] \in Nat /\ seen_ci[u] \in Nat
         /\ sq_rsvd_index \in Nat /\ sq_ready_index \in Nat /\ sq_wqe_pi \in Nat
         /\ cqe_ci \in Nat /\ nic_pi \in Nat /\ nic_ci \in Nat /\ nic_ok \in Nat
         /\ WqeNum \in Nat \ {0} /\ CqeNum \in Nat \ {0} /\ IdxMod \in Nat \ {0}
<1>0. /\ base \in [Threads -> Nat] /\ count \in [Threads -> Nat]
      /\ cur \in [Threads -> Nat] /\ cons \in [Threads -> Nat]
      /\ seen_ci \in [Threads -> Nat]
  BY DEF IInv, TypeOK
<1>1. ASSUME NEW u \in Threads
      PROVE  /\ base[u] \in Nat /\ count[u] \in Nat /\ Prod(u) \in Nat
             /\ cur[u] \in Nat /\ cons[u] \in Nat /\ seen_ci[u] \in Nat
  BY <1>0 DEF Prod
<1>2. WqeNum \in Nat \ {0} /\ CqeNum \in Nat \ {0} /\ IdxMod \in Nat \ {0}
  BY SizesAssumption
<1>3. /\ pc \in [Threads -> Pcs] /\ status \in [Threads -> Statuses]
      /\ sq_rsvd_index \in Nat /\ sq_ready_index \in Nat /\ sq_wqe_pi \in Nat
      /\ cqe_ci \in Nat /\ nic_pi \in Nat /\ nic_ci \in Nat /\ nic_ok \in Nat
  BY DEF IInv, TypeOK
<1> QED
  BY <1>1, <1>2, <1>3

(* What a poll that sees the CQE it asked for knows: the CQE is not one of *)
(* an earlier lap, so the WQE has completed.                               *)
LEMMA ObservedCompleted ==
  ASSUME IInv, NEW i \in Nat, NEW ci \in Nat,
         ci <= i, ci <= nic_ci, InWindow(i, ci), Observed(cq[CqSlot(i)], i)
  PROVE  i < nic_ci /\ i <= cq[CqSlot(i)]
<1> DEFINE e == cq[CqSlot(i)]
<1>1. /\ CqSlot(i) \in 0 .. CqeNum - 1
      /\ CqeNum \in Nat \ {0}
      /\ nic_ci \in Nat
  <2>1. CqeNum \in Nat \ {0} /\ nic_ci \in Nat /\ i \in Int
    BY SizesAssumption DEF IInv, TypeOK
  <2> QED
    BY <2>1, DivMod DEF CqSlot
<1>2. /\ e \in Int
      /\ e % CqeNum = i % CqeNum
      /\ nic_ci - CqeNum <= e
      /\ e < nic_ci
  BY <1>1 DEF IInv, TypeOK, CqHolds, CqSlot
<1>3. OwnerBit(e) = OwnerBit(i) /\ i < ci + CqeNum
  BY DEF Observed, InWindow
<1> HIDE DEF e
<1>4. CASE i >= nic_ci
  <2>1. i \in Int /\ e <= i /\ i < e + 2 * CqeNum
    BY <1>1, <1>2, <1>3, <1>4
  <2>2. i = e \/ i = e + CqeNum
    BY <1>1, <1>2, <2>1, SameOrNextLap, Zenon
  <2>3. i = e + CqeNum
    BY <1>1, <1>2, <1>4, <2>2
  <2>4. i \div CqeNum = (e \div CqeNum) + 1 /\ e \div CqeNum \in Int
    BY <1>1, <1>2, <2>3, NextLap, DivMod
  <2>5. ((e \div CqeNum) + 1) % 2 # (e \div CqeNum) % 2
    BY <2>4
  <2> QED
    BY <1>3, <2>4, <2>5 DEF OwnerBit
<1>5. CASE i < nic_ci /\ e < i
  <2>1. i \in Int /\ e <= i /\ i < e + CqeNum
    BY <1>1, <1>2, <1>3, <1>5
  <2>2. e = i
    BY <1>1, <1>2, <2>1, SameSlot, Zenon
  <2> QED
    BY <1>1, <1>2, <1>5, <2>2
<1> QED
  BY <1>1, <1>2, <1>4, <1>5 DEF e

(* The NIC, reading a 16-bit field of an index it can reach, gets it right. *)
LEMMA NicReads ==
  ASSUME IInv, NEW i \in nic_pi .. sq_wqe_pi
  PROVE  NextIndex(Idx16(i)) = i
<1>1. i \in Int /\ nic_pi \in Int /\ nic_pi <= i /\ i < nic_pi + IdxMod
  BY TypeFacts, SizesAssumption DEF IInv, IndexOrder
<1>2. IdxMod \in Nat \ {0}
  BY TypeFacts
<1> QED
  BY <1>1, <1>2, SerialDecode DEF NextIndex, Idx16

-----------------------------------------------------------------------------
(* The inductive invariant holds initially, and every step preserves it.   *)

LEMMA Initially == Init => IInv
<1> SUFFICES ASSUME Init PROVE IInv
  OBVIOUS
<1>type. TypeOK
  BY InitType
<1>size. WqeNum \in Nat \ {0} /\ CqeNum \in Nat \ {0} /\ IdxMod \in Nat \ {0}
  BY SizesAssumption
<1>idle. \A t \in Threads : /\ pc[t] = "idle" /\ status[t] = "none"
                           /\ ~Filling(t) /\ ~Reserving(t)
  BY DEF Init, Filling, Reserving, FillPcs, PollPcs
<1>zero. Idx16(0) = 0
  <2>1. 0 = IdxMod * 0 + 0 /\ 0 \in 0 .. IdxMod - 1 /\ 0 \in Int
    BY <1>size
  <2> QED
    BY <1>size, <2>1, DivModUnique DEF Idx16
<1>1. IndexOrder /\ PublishedIntact
  BY <1>size DEF Init, IndexOrder, PublishedIntact
<1>2. /\ Reservations /\ ExclusiveTurn /\ StoreTurn /\ SlotsFree /\ Progress /\ Written
      /\ Submitting /\ LockHeld /\ LockExclusion
  BY <1>idle DEF Init, Reservations, ExclusiveTurn, StoreTurn, SlotsFree, Progress, Written,
     Submitting, LockHeld, LockExclusion, FillPcs, SubmitPcs
<1>3. CqHolds
  <2> SUFFICES ASSUME NEW s \in 0 .. CqeNum - 1
               PROVE  /\ CqSlot(cq[s]) = s
                      /\ nic_ci - CqeNum <= cq[s]
                      /\ cq[s] < nic_ci
    BY DEF CqHolds
  <2>0. cq[s] = s - CqeNum /\ nic_ci = 0
    BY DEF Init
  <2>1. s - CqeNum = CqeNum * (-1) + s /\ s - CqeNum \in Int /\ -1 \in Int
    BY <1>size
  <2>2. s = (s - CqeNum) % CqeNum
    BY <1>size, <2>1, DivModUnique, Zenon
  <2> QED
    BY <1>size, <2>0, <2>2 DEF CqSlot
<1>4. Polling
  BY <1>idle DEF Polling
<1>5. /\ DbReaches /\ DbrStale /\ DbrCurrent /\ Told /\ ToBeSubmitted
  BY <1>idle, <1>zero
     DEF Init, DbReaches, DbrStale, DbrCurrent, Told, ToBeSubmitted, Ringing
<1>6. DbrBehind
  BY <1>size, <1>zero DEF Init, DbrBehind
<1> QED
  BY <1>type, <1>1, <1>2, <1>3, <1>4, <1>5, <1>6 DEF IInv

(* Polling.                                                                *)
LEMMA StepLoadCi ==
  ASSUME IInv, TypeOK', NEW t \in Threads, LoadCi(t)
  PROVE  IInv'
<1>eff. /\ pc[t] = "load_ci"
        /\ UNCHANGED <<indexVars, cqe_ci, ringVars, nicVars, opVars, cons, caller>>
        /\ \/ /\ pc' = [pc EXCEPT ![t] = "advance"]
              /\ status' = [status EXCEPT ![t] = "ok"]
              /\ cons[t] < cqe_ci
              /\ UNCHANGED seen_ci
           \/ /\ pc' = [pc EXCEPT ![t] = "load_cqe"]
              /\ seen_ci' = [seen_ci EXCEPT ![t] = cqe_ci]
              /\ cons[t] >= cqe_ci
              /\ UNCHANGED status
           \/ /\ pc' = [pc EXCEPT ![t] = "idle"]
              /\ status' = [status EXCEPT ![t] = "busy"]
              /\ caller[t] = "try"
              /\ UNCHANGED seen_ci
  BY DEF LoadCi, FinishPoll, Goto
<1>fill. \A u \in Threads : Filling(u)' = Filling(u) /\ Reserving(u)' = Reserving(u)
  BY TypeFacts, <1>eff DEF Filling, Reserving, FillPcs, PollPcs

<1>same. IndexOrder' /\ PublishedIntact' /\ CqHolds' /\ DbReaches' /\
         DbrBehind'
  BY TypeFacts, <1>eff DEF IInv, IndexOrder, PublishedIntact, CqHolds, DbReaches,
     Reaches, DbrBehind, Idx16
<1>Reservations. Reservations'
  BY TypeFacts, <1>eff, <1>fill DEF IInv, Reservations, Prod
<1>ExclusiveTurn. ExclusiveTurn'
  BY TypeFacts, <1>eff, <1>fill DEF IInv, ExclusiveTurn, Prod
<1>StoreTurn. StoreTurn'
  BY TypeFacts, <1>eff DEF IInv, StoreTurn
<1>SlotsFree. SlotsFree'
  BY TypeFacts, <1>eff DEF IInv, SlotsFree, FillPcs, Prod
<1>Progress. Progress'
  BY TypeFacts, <1>eff, <1>fill DEF IInv, Progress, Prod
<1>Written. Written'
  BY TypeFacts, <1>eff DEF IInv, Written, FillPcs
<1>Submitting. Submitting'
  BY TypeFacts, <1>eff DEF IInv, Submitting, Prod
<1>LockHeld. LockHeld'
  BY TypeFacts, <1>eff DEF IInv, LockHeld, SubmitPcs
<1>LockExclusion. LockExclusion'
  BY TypeFacts, <1>eff DEF IInv, LockExclusion, SubmitPcs
<1>Polling. Polling'
  <2> SUFFICES ASSUME NEW u \in Threads
               PROVE  /\ pc'[u] = "load_cqe" => seen_ci'[u] <= cqe_ci /\ seen_ci'[u] <= cons[u]
                      /\ pc'[u] = "advance" => status'[u] = "ok"
                      /\ status'[u] = "ok" => cons[u] < nic_ok
                      /\ Reserving(u)' => cons[u] = SlotWaitIndex(base[u], count[u])
    BY TypeFacts, <1>eff DEF Polling
  <2>1. /\ pc[u] = "load_cqe" => seen_ci[u] <= cqe_ci /\ seen_ci[u] <= cons[u]
        /\ pc[u] = "advance" => status[u] = "ok"
        /\ status[u] = "ok" => cons[u] < nic_ok
        /\ Reserving(u) => cons[u] = SlotWaitIndex(base[u], count[u])
    BY DEF IInv, Polling
  <2>2. cqe_ci <= nic_ok /\ seen_ci \in [Threads -> Nat]
    BY DEF IInv, IndexOrder, TypeOK
  <2>3. CASE u # t
    BY TypeFacts, <1>eff, <1>fill, <2>1, <2>2, <2>3
  <2>4. CASE u = t
    BY TypeFacts, <1>eff, <1>fill, <2>1, <2>2, <2>4
  <2> QED
    BY <2>3, <2>4
<1>DbrStale. DbrStale'
  BY TypeFacts, <1>eff DEF IInv, DbrStale, Ringing, Reaches
<1>DbrCurrent. DbrCurrent'
  BY TypeFacts, <1>eff DEF IInv, DbrCurrent, Ringing
<1>Told. Told'
  BY TypeFacts, <1>eff DEF IInv, Told, Ringing
<1>ToBeSubmitted. ToBeSubmitted'
  BY TypeFacts, <1>eff DEF IInv, ToBeSubmitted, Prod
<1> QED
  BY <1>same, <1>Reservations, <1>ExclusiveTurn, <1>StoreTurn, <1>SlotsFree,
     <1>Progress, <1>Written, <1>Submitting, <1>LockHeld, <1>LockExclusion,
     <1>Polling, <1>DbrStale, <1>DbrCurrent, <1>Told,
     <1>ToBeSubmitted DEF IInv

LEMMA StepLoadCqe ==
  ASSUME IInv, TypeOK', NEW t \in Threads, LoadCqe(t)
  PROVE  IInv'
<1>seen. pc[t] = "load_cqe" /\ seen_ci[t] <= cons[t] /\ seen_ci[t] <= nic_ci
  <2>1. pc[t] = "load_cqe"
    BY DEF LoadCqe
  <2>2. seen_ci[t] <= cqe_ci /\ seen_ci[t] <= cons[t]
    BY <2>1 DEF IInv, Polling
  <2>3. cqe_ci <= nic_ok /\ nic_ok <= nic_ci
    BY DEF IInv, IndexOrder
  <2> QED
    BY TypeFacts, <2>1, <2>2, <2>3
<1>obs. ASSUME InWindow(cons[t], seen_ci[t]), Observed(cq[CqSlot(cons[t])], cons[t])
        PROVE  cons[t] < nic_ci /\ cons[t] <= cq[CqSlot(cons[t])]
  BY TypeFacts, <1>seen, <1>obs, ObservedCompleted
<1>int. cq[CqSlot(cons[t])] \in Int
  <2>1. CqSlot(cons[t]) \in 0 .. CqeNum - 1
    <3>1. CqeNum \in Nat \ {0} /\ cons[t] \in Int
      BY TypeFacts
    <3> QED
      BY <3>1, DivMod DEF CqSlot
  <2> QED
    BY <2>1 DEF IInv, TypeOK
<1>eff. /\ pc[t] = "load_cqe"
        /\ UNCHANGED <<indexVars, cqe_ci, ringVars, nicVars, opVars, cons, seen_ci, caller>>
        /\ \/ /\ pc' = [pc EXCEPT ![t] = "advance"]
              /\ status' = [status EXCEPT ![t] = "ok"]
              /\ cons[t] < nic_ok
           \/ /\ pc' = [pc EXCEPT ![t] = "write"]
              /\ status' = [status EXCEPT ![t] = "error"]
              /\ caller[t] = "reserve"
              /\ cons[t] < nic_ci
           \/ /\ pc' = [pc EXCEPT ![t] = "idle"]
              /\ status' \in {[status EXCEPT ![t] = "error"], [status EXCEPT ![t] = "busy"]}
              /\ caller[t] # "reserve"
           \/ /\ pc' = [pc EXCEPT ![t] = "load_ci"]
              /\ UNCHANGED status
  <2> DEFINE e == cq[CqSlot(cons[t])]
             there == InWindow(cons[t], seen_ci[t]) /\ Observed(e, cons[t])
  <2>1. CASE there /\ ~Failed(e)
    <3>1. cons[t] < nic_ok
      BY TypeFacts, <1>int, <1>obs, <2>1 DEF Failed
    <3> QED
      BY <2>1, <3>1 DEF LoadCqe, Goto
  <2>2. CASE there /\ Failed(e)
    <3>1. cons[t] < nic_ci
      BY <1>obs, <2>2
    <3> QED
      BY <2>2, <3>1 DEF LoadCqe, FinishPoll, Goto
  <2>3. CASE ~there
    BY <2>3 DEF LoadCqe, NotYet, FinishPoll, Goto
  <2> QED
    BY <2>1, <2>2, <2>3
<1>fill. \A u \in Threads : Filling(u)' = Filling(u) /\ (Reserving(u)' => Reserving(u))
  BY TypeFacts, <1>eff DEF Filling, Reserving, FillPcs, PollPcs
<1>free. pc'[t] = "write" => /\ Prod(t) <= nic_ci + WqeNum
                            /\ cur[t] = base[t] /\ count[t] > 0
  BY TypeFacts, <1>eff DEF IInv, Polling, Progress, Reservations, Filling, Reserving,
     PollPcs, SlotWaitIndex, Prod

<1>same. IndexOrder' /\ PublishedIntact' /\ CqHolds' /\ DbReaches' /\
         DbrBehind'
  BY TypeFacts, <1>eff DEF IInv, IndexOrder, PublishedIntact, CqHolds, DbReaches,
     Reaches, DbrBehind, Idx16
<1>Reservations. Reservations'
  BY TypeFacts, <1>eff, <1>fill DEF IInv, Reservations, Prod
<1>ExclusiveTurn. ExclusiveTurn'
  BY TypeFacts, <1>eff, <1>fill DEF IInv, ExclusiveTurn, Prod
<1>StoreTurn. StoreTurn'
  BY TypeFacts, <1>eff DEF IInv, StoreTurn
<1>SlotsFree. SlotsFree'
  BY TypeFacts, <1>eff, <1>free DEF IInv, SlotsFree, FillPcs, Prod
<1>Progress. Progress'
  BY TypeFacts, <1>eff, <1>fill, <1>free DEF IInv, Progress, Prod
<1>Written. Written'
  <2> SUFFICES ASSUME NEW u \in Threads, pc'[u] \in FillPcs
               PROVE  \A i \in base[u] .. cur[u] - 1 : wq[Slot(i)] = i
    BY <1>eff DEF Written
  <2>1. CASE u # t
    BY TypeFacts, <1>eff, <2>1 DEF IInv, Written
  <2>2. CASE u = t
    <3>1. base[t] .. cur[t] - 1 = {}
      BY TypeFacts, <1>eff, <1>free, <2>2 DEF FillPcs
    <3> QED
      BY <2>2, <3>1
  <2> QED
    BY <2>1, <2>2
<1>Submitting. Submitting'
  BY TypeFacts, <1>eff DEF IInv, Submitting, Prod
<1>LockHeld. LockHeld'
  BY TypeFacts, <1>eff DEF IInv, LockHeld, SubmitPcs
<1>LockExclusion. LockExclusion'
  BY TypeFacts, <1>eff DEF IInv, LockExclusion, SubmitPcs
<1>Polling. Polling'
  BY TypeFacts, <1>eff, <1>fill DEF IInv, Polling
<1>DbrStale. DbrStale'
  BY TypeFacts, <1>eff DEF IInv, DbrStale, Ringing, Reaches
<1>DbrCurrent. DbrCurrent'
  BY TypeFacts, <1>eff DEF IInv, DbrCurrent, Ringing
<1>Told. Told'
  BY TypeFacts, <1>eff DEF IInv, Told, Ringing
<1>ToBeSubmitted. ToBeSubmitted'
  BY TypeFacts, <1>eff DEF IInv, ToBeSubmitted, Prod
<1> QED
  BY <1>same, <1>Reservations, <1>ExclusiveTurn, <1>StoreTurn, <1>SlotsFree,
     <1>Progress, <1>Written, <1>Submitting, <1>LockHeld, <1>LockExclusion,
     <1>Polling, <1>DbrStale, <1>DbrCurrent, <1>Told,
     <1>ToBeSubmitted DEF IInv

LEMMA StepAdvanceCi ==
  ASSUME IInv, TypeOK', NEW t \in Threads, AdvanceCi(t)
  PROVE  IInv'
<1>eff. /\ pc[t] = "advance"
        /\ cqe_ci' = Larger(cqe_ci, cons[t] + 1)
        /\ status' = [status EXCEPT ![t] = "ok"]
        /\ pc' = [pc EXCEPT ![t] = IF caller[t] = "reserve" THEN "write" ELSE "idle"]
        /\ UNCHANGED <<indexVars, ringVars, nicVars, opVars, cons, seen_ci, caller>>
  BY DEF AdvanceCi, FinishPoll, Goto
<1>done. cons[t] < nic_ok /\ nic_ok <= nic_ci
  BY TypeFacts, <1>eff DEF IInv, Polling, IndexOrder
<1>ci. cqe_ci <= cqe_ci' /\ cqe_ci' <= nic_ok
  BY TypeFacts, <1>eff, <1>done DEF IInv, IndexOrder, Larger
<1>fill. \A u \in Threads : Filling(u)' = Filling(u) /\ (Reserving(u)' => Reserving(u))
  BY TypeFacts, <1>eff DEF Filling, Reserving, FillPcs, PollPcs
<1>free. pc'[t] = "write" => /\ Prod(t) <= nic_ci + WqeNum
                            /\ cur[t] = base[t] /\ count[t] > 0
  BY TypeFacts, <1>eff, <1>done DEF IInv, Polling, Progress, Reservations, Filling,
     Reserving, PollPcs, SlotWaitIndex, Prod

<1>same. PublishedIntact' /\ CqHolds' /\ DbReaches' /\ DbrBehind'
  BY TypeFacts, <1>eff DEF IInv, PublishedIntact, CqHolds, DbReaches, Reaches,
     DbrBehind, Idx16
<1>IndexOrder. IndexOrder'
  BY <1>eff, <1>ci DEF IInv, IndexOrder
<1>Reservations. Reservations'
  BY TypeFacts, <1>eff, <1>fill DEF IInv, Reservations, Prod
<1>ExclusiveTurn. ExclusiveTurn'
  BY TypeFacts, <1>eff, <1>fill DEF IInv, ExclusiveTurn, Prod
<1>StoreTurn. StoreTurn'
  BY TypeFacts, <1>eff DEF IInv, StoreTurn
<1>SlotsFree. SlotsFree'
  BY TypeFacts, <1>eff, <1>free DEF IInv, SlotsFree, FillPcs, Prod
<1>Progress. Progress'
  BY TypeFacts, <1>eff, <1>fill, <1>free DEF IInv, Progress, Prod
<1>Written. Written'
  <2> SUFFICES ASSUME NEW u \in Threads, pc'[u] \in FillPcs
               PROVE  \A i \in base[u] .. cur[u] - 1 : wq[Slot(i)] = i
    BY <1>eff DEF Written
  <2>1. CASE u # t
    BY TypeFacts, <1>eff, <2>1 DEF IInv, Written
  <2>2. CASE u = t
    <3>1. base[t] .. cur[t] - 1 = {}
      BY TypeFacts, <1>eff, <1>free, <2>2 DEF FillPcs
    <3> QED
      BY <2>2, <3>1
  <2> QED
    BY <2>1, <2>2
<1>Submitting. Submitting'
  BY TypeFacts, <1>eff DEF IInv, Submitting, Prod
<1>LockHeld. LockHeld'
  BY TypeFacts, <1>eff DEF IInv, LockHeld, SubmitPcs
<1>LockExclusion. LockExclusion'
  BY TypeFacts, <1>eff DEF IInv, LockExclusion, SubmitPcs
<1>Polling. Polling'
  <2> SUFFICES ASSUME NEW u \in Threads
               PROVE  /\ pc'[u] = "load_cqe" => seen_ci[u] <= cqe_ci' /\ seen_ci[u] <= cons[u]
                      /\ pc'[u] = "advance" => status'[u] = "ok"
                      /\ status'[u] = "ok" => cons[u] < nic_ok
                      /\ Reserving(u)' => cons[u] = SlotWaitIndex(base[u], count[u])
    BY <1>eff DEF Polling
  <2>1. /\ pc[u] = "load_cqe" => seen_ci[u] <= cqe_ci /\ seen_ci[u] <= cons[u]
        /\ pc[u] = "advance" => status[u] = "ok"
        /\ status[u] = "ok" => cons[u] < nic_ok
        /\ Reserving(u) => cons[u] = SlotWaitIndex(base[u], count[u])
    BY DEF IInv, Polling
  <2>2. cqe_ci \in Nat /\ cqe_ci' \in Nat
    BY TypeFacts DEF TypeOK
  <2>3. CASE u # t
    BY TypeFacts, <1>eff, <1>fill, <1>ci, <2>1, <2>2, <2>3
  <2>4. CASE u = t
    BY TypeFacts, <1>eff, <1>fill, <1>done, <2>1, <2>4
  <2> QED
    BY <2>3, <2>4
<1>DbrStale. DbrStale'
  BY TypeFacts, <1>eff DEF IInv, DbrStale, Ringing, Reaches
<1>DbrCurrent. DbrCurrent'
  BY TypeFacts, <1>eff DEF IInv, DbrCurrent, Ringing
<1>Told. Told'
  BY TypeFacts, <1>eff DEF IInv, Told, Ringing
<1>ToBeSubmitted. ToBeSubmitted'
  BY TypeFacts, <1>eff DEF IInv, ToBeSubmitted, Prod
<1> QED
  BY <1>same, <1>IndexOrder, <1>Reservations, <1>ExclusiveTurn, <1>StoreTurn,
     <1>SlotsFree, <1>Progress, <1>Written, <1>Submitting, <1>LockHeld,
     <1>LockExclusion, <1>Polling, <1>DbrStale, <1>DbrCurrent, <1>Told,
     <1>ToBeSubmitted DEF IInv

(* Posting.                                                                *)
LEMMA StepReserve ==
  ASSUME IInv, TypeOK', NEW t \in Threads, NEW n \in Counts, Reserve(t, n)
  PROVE  IInv'
<1> DEFINE index == SlotWaitIndex(sq_rsvd_index, n)
<1>type. /\ n \in Nat \ {0} /\ index \in Int
         /\ base \in [Threads -> Nat] /\ count \in [Threads -> Nat]
         /\ cur \in [Threads -> Nat] /\ cons \in [Threads -> Nat]
         /\ caller \in [Threads -> Callers] /\ status \in [Threads -> Statuses]
  <2>1. n \in Nat \ {0}
    BY SizesAssumption
  <2>2. index \in Int
    BY TypeFacts, <2>1 DEF SlotWaitIndex
  <2> QED
    BY <2>1, <2>2 DEF IInv, TypeOK
<1>eff. /\ pc[t] = "idle"
        /\ base' = [base EXCEPT ![t] = sq_rsvd_index]
        /\ count' = [count EXCEPT ![t] = n]
        /\ cur' = [cur EXCEPT ![t] = sq_rsvd_index]
        /\ sq_rsvd_index' = sq_rsvd_index + n
        /\ UNCHANGED <<sq_ready_index, sq_wqe_pi, sq_lock, cqe_ci, ringVars, nicVars, seen_ci>>
        /\ \/ /\ pc' = [pc EXCEPT ![t] = "load_ci"]
              /\ cons' = [cons EXCEPT ![t] = index]
              /\ caller' = [caller EXCEPT ![t] = "reserve"]
              /\ status' = [status EXCEPT ![t] = "none"]
           \/ /\ pc' = [pc EXCEPT ![t] = "write"]
              /\ index < 0
              /\ UNCHANGED <<cons, caller, status>>
  BY DEF Reserve, StartPoll, Goto
<1>prod. /\ Prod(t)' = sq_rsvd_index' /\ base'[t] = sq_rsvd_index /\ count'[t] = n
         /\ cur'[t] = sq_rsvd_index
         /\ \A u \in Threads : u # t =>
              /\ Prod(u)' = Prod(u) /\ base'[u] = base[u] /\ count'[u] = count[u]
              /\ cur'[u] = cur[u] /\ pc'[u] = pc[u]
  BY TypeFacts, <1>type, <1>eff DEF Prod
<1>fill. /\ ~Filling(t) /\ Filling(t)'
         /\ \A u \in Threads : u # t => /\ Filling(u)' = Filling(u)
                                        /\ Reserving(u)' = Reserving(u)
  BY TypeFacts, <1>type, <1>eff DEF Filling, Reserving, FillPcs, PollPcs
<1>order. sq_ready_index <= sq_rsvd_index /\ nic_ci <= sq_rsvd_index
  BY TypeFacts DEF IInv, IndexOrder
<1> HIDE DEF index

<1>same. PublishedIntact' /\ CqHolds' /\ DbReaches' /\ DbrBehind'
  BY TypeFacts, <1>eff DEF IInv, PublishedIntact, CqHolds, DbReaches, Reaches,
     DbrBehind, Idx16
<1>IndexOrder. IndexOrder'
  BY TypeFacts, <1>type, <1>eff, <1>order DEF IInv, IndexOrder
<1>Reservations. Reservations'
  <2>1. ASSUME NEW u \in Threads, u # t, Filling(u)
        PROVE  /\ count[u] > 0 /\ sq_ready_index <= base[u]
               /\ Prod(u) <= sq_rsvd_index
    BY <2>1 DEF IInv, Reservations
  <2>2. ASSUME NEW u \in Threads, Filling(u)'
        PROVE  /\ count'[u] > 0
               /\ sq_ready_index' <= base'[u]
               /\ Prod(u)' <= sq_rsvd_index'
    <3>1. CASE u = t
      BY TypeFacts, <1>type, <1>eff, <1>prod, <1>order, <3>1
    <3>2. CASE u # t
      BY TypeFacts, <1>type, <1>eff, <1>prod, <1>fill, <2>1, <2>2, <3>2
    <3> QED
      BY <3>1, <3>2
  <2>3. ASSUME NEW u \in Threads, NEW w \in Threads, u # w, Filling(u)', Filling(w)'
        PROVE  Prod(u)' <= base'[w] \/ Prod(w)' <= base'[u]
    <3>1. CASE u = t
      BY <1>prod, <1>fill, <2>1, <2>3, <3>1
    <3>2. CASE w = t
      BY <1>prod, <1>fill, <2>1, <2>3, <3>2
    <3>3. CASE u # t /\ w # t
      BY <1>prod, <1>fill, <2>3, <3>3 DEF IInv, Reservations
    <3> QED
      BY <3>1, <3>2, <3>3
  <2> QED
    BY <2>2, <2>3 DEF Reservations
<1>ExclusiveTurn. ExclusiveTurn'
  BY <1>eff, <1>prod, <1>fill, ExclusiveAssumption DEF IInv, ExclusiveTurn
<1>StoreTurn. StoreTurn'
  BY TypeFacts, <1>eff, <1>prod DEF IInv, StoreTurn
<1>SlotsFree. SlotsFree'
  <2> SUFFICES ASSUME NEW u \in Threads, pc'[u] \in FillPcs
               PROVE  Prod(u)' <= nic_ci + WqeNum
    BY <1>eff DEF SlotsFree
  <2>1. CASE u # t
    BY <1>prod, <2>1 DEF IInv, SlotsFree
  <2>2. CASE u = t
    <3>1. index < 0
      BY TypeFacts, <1>eff, <2>2 DEF FillPcs
    <3>2. sq_rsvd_index + n <= WqeNum
      BY TypeFacts, <1>type, <3>1 DEF index, SlotWaitIndex
    <3> QED
      BY TypeFacts, <1>type, <1>eff, <1>prod, <2>2, <3>2
  <2> QED
    BY <2>1, <2>2
<1>Progress. Progress'
  <2>1. ASSUME NEW u \in Threads
        PROVE  /\ Reserving(u)' => cur'[u] = base'[u]
               /\ pc'[u] = "write" => base'[u] <= cur'[u] /\ cur'[u] < Prod(u)'
               /\ pc'[u] \in {"ready", "ready_store"} => cur'[u] = Prod(u)'
    <3>1. CASE u = t
      BY TypeFacts, <1>type, <1>eff, <1>prod, <3>1
    <3>2. CASE u # t
      BY <1>prod, <1>fill, <3>2 DEF IInv, Progress
    <3> QED
      BY <3>1, <3>2
  <2> QED
    BY <2>1 DEF Progress
<1>Written. Written'
  <2> SUFFICES ASSUME NEW u \in Threads, pc'[u] \in FillPcs
               PROVE  \A i \in base'[u] .. cur'[u] - 1 : wq[Slot(i)] = i
    BY <1>eff DEF Written, Slot
  <2>1. CASE u # t
    BY <1>prod, <2>1 DEF IInv, Written
  <2>2. CASE u = t
    <3>1. base'[t] .. cur'[t] - 1 = {}
      BY TypeFacts, <1>prod
    <3> QED
      BY <2>2, <3>1
  <2> QED
    BY <2>1, <2>2
<1>Submitting. Submitting'
  BY TypeFacts, <1>eff, <1>prod DEF IInv, Submitting
<1>LockHeld. LockHeld'
  BY TypeFacts, <1>eff DEF IInv, LockHeld, SubmitPcs
<1>LockExclusion. LockExclusion'
  BY TypeFacts, <1>eff DEF IInv, LockExclusion, SubmitPcs
<1>Polling. Polling'
  <2>1. ASSUME NEW u \in Threads
        PROVE  /\ pc[u] = "load_cqe" => seen_ci[u] <= cqe_ci /\ seen_ci[u] <= cons[u]
               /\ pc[u] = "advance" => status[u] = "ok"
               /\ status[u] = "ok" => cons[u] < nic_ok
               /\ Reserving(u) => cons[u] = SlotWaitIndex(base[u], count[u])
    BY DEF IInv, Polling
  <2>2. ASSUME NEW u \in Threads
        PROVE  /\ pc'[u] = "load_cqe" => seen_ci[u] <= cqe_ci /\ seen_ci[u] <= cons'[u]
               /\ pc'[u] = "advance" => status'[u] = "ok"
               /\ status'[u] = "ok" => cons'[u] < nic_ok
               /\ Reserving(u)' => cons'[u] = SlotWaitIndex(base'[u], count'[u])
    <3>1. CASE u # t
      <4>1. cons'[u] = cons[u] /\ status'[u] = status[u]
        BY <1>type, <1>eff, <3>1
      <4> QED
        BY <1>prod, <1>fill, <2>1, <3>1, <4>1
    <3>2. CASE u = t
      <4>1. Reserving(t)' => cons'[t] = SlotWaitIndex(base'[t], count'[t])
        BY TypeFacts, <1>type, <1>eff, <1>prod DEF Reserving, PollPcs, index
      <4> QED
        BY TypeFacts, <1>type, <1>eff, <2>1, <3>2, <4>1
    <3> QED
      BY <3>1, <3>2
  <2> QED
    BY <1>eff, <2>2 DEF Polling, SlotWaitIndex
<1>DbrStale. DbrStale'
  BY TypeFacts, <1>eff DEF IInv, DbrStale, Ringing, Reaches
<1>DbrCurrent. DbrCurrent'
  BY TypeFacts, <1>eff DEF IInv, DbrCurrent, Ringing
<1>Told. Told'
  BY TypeFacts, <1>eff DEF IInv, Told, Ringing
<1>ToBeSubmitted. ToBeSubmitted'
  <2>1. ASSUME NEW u \in Threads, pc[u] \in {"lock", "fetch_max"},
               Prod(u) = sq_ready_index
        PROVE  pc'[u] \in {"lock", "fetch_max"} /\ Prod(u)' = sq_ready_index'
    BY <1>eff, <1>prod, <2>1
  <2> QED
    BY <1>eff, <2>1 DEF IInv, ToBeSubmitted
<1> QED
  BY <1>same, <1>IndexOrder, <1>Reservations, <1>ExclusiveTurn, <1>StoreTurn,
     <1>SlotsFree, <1>Progress, <1>Written, <1>Submitting, <1>LockHeld,
     <1>LockExclusion, <1>Polling, <1>DbrStale, <1>DbrCurrent, <1>Told,
     <1>ToBeSubmitted DEF IInv

LEMMA StepStartPoll ==
  ASSUME IInv, TypeOK', NEW t \in Threads, NEW index, NEW who \in {"wait", "try"},
         pc[t] = "idle", StartPoll(t, index, who),
         UNCHANGED <<indexVars, cqe_ci, ringVars, nicVars, opVars>>
  PROVE  IInv'
<1>type. /\ cons \in [Threads -> Nat]
         /\ caller \in [Threads -> Callers] /\ status \in [Threads -> Statuses]
  BY DEF IInv, TypeOK
<1>eff. /\ pc' = [pc EXCEPT ![t] = "load_ci"]
        /\ cons' = [cons EXCEPT ![t] = index]
        /\ caller' = [caller EXCEPT ![t] = who]
        /\ status' = [status EXCEPT ![t] = "none"]
        /\ UNCHANGED <<indexVars, cqe_ci, ringVars, nicVars, opVars, seen_ci>>
  BY DEF StartPoll, Goto
<1>fill. \A u \in Threads : Filling(u)' = Filling(u) /\ Reserving(u)' = Reserving(u)
  BY TypeFacts, <1>type, <1>eff DEF Filling, Reserving, FillPcs, PollPcs

<1>same. IndexOrder' /\ PublishedIntact' /\ CqHolds' /\ DbReaches' /\
         DbrBehind'
  BY TypeFacts, <1>eff DEF IInv, IndexOrder, PublishedIntact, CqHolds, DbReaches,
     Reaches, DbrBehind, Idx16
<1>Reservations. Reservations'
  BY TypeFacts, <1>eff, <1>fill DEF IInv, Reservations, Prod
<1>ExclusiveTurn. ExclusiveTurn'
  BY TypeFacts, <1>eff, <1>fill DEF IInv, ExclusiveTurn, Prod
<1>StoreTurn. StoreTurn'
  BY TypeFacts, <1>eff DEF IInv, StoreTurn
<1>SlotsFree. SlotsFree'
  BY TypeFacts, <1>eff DEF IInv, SlotsFree, FillPcs, Prod
<1>Progress. Progress'
  BY TypeFacts, <1>eff, <1>fill DEF IInv, Progress, Prod
<1>Written. Written'
  BY TypeFacts, <1>eff DEF IInv, Written, FillPcs
<1>Submitting. Submitting'
  BY TypeFacts, <1>eff DEF IInv, Submitting, Prod
<1>LockHeld. LockHeld'
  BY TypeFacts, <1>eff DEF IInv, LockHeld, SubmitPcs
<1>LockExclusion. LockExclusion'
  BY TypeFacts, <1>eff DEF IInv, LockExclusion, SubmitPcs
<1>Polling. Polling'
  <2>1. ASSUME NEW u \in Threads
        PROVE  /\ pc[u] = "load_cqe" => seen_ci[u] <= cqe_ci /\ seen_ci[u] <= cons[u]
               /\ pc[u] = "advance" => status[u] = "ok"
               /\ status[u] = "ok" => cons[u] < nic_ok
               /\ Reserving(u) => cons[u] = SlotWaitIndex(base[u], count[u])
    BY DEF IInv, Polling
  <2>2. ASSUME NEW u \in Threads
        PROVE  /\ pc'[u] = "load_cqe" => seen_ci[u] <= cqe_ci /\ seen_ci[u] <= cons'[u]
               /\ pc'[u] = "advance" => status'[u] = "ok"
               /\ status'[u] = "ok" => cons'[u] < nic_ok
               /\ Reserving(u)' => cons'[u] = SlotWaitIndex(base[u], count[u])
    <3>1. CASE u # t
      BY TypeFacts, <1>type, <1>eff, <1>fill, <2>1, <3>1
    <3>2. CASE u = t
      BY TypeFacts, <1>type, <1>eff, <1>fill, <3>2 DEF Reserving
    <3> QED
      BY <3>1, <3>2
  <2> QED
    BY <1>eff, <2>2 DEF Polling, SlotWaitIndex
<1>DbrStale. DbrStale'
  BY TypeFacts, <1>eff DEF IInv, DbrStale, Ringing, Reaches
<1>DbrCurrent. DbrCurrent'
  BY TypeFacts, <1>eff DEF IInv, DbrCurrent, Ringing
<1>Told. Told'
  BY TypeFacts, <1>eff DEF IInv, Told, Ringing
<1>ToBeSubmitted. ToBeSubmitted'
  BY TypeFacts, <1>eff DEF IInv, ToBeSubmitted, Prod
<1> QED
  BY <1>same, <1>Reservations, <1>ExclusiveTurn, <1>StoreTurn, <1>SlotsFree,
     <1>Progress, <1>Written, <1>Submitting, <1>LockHeld, <1>LockExclusion,
     <1>Polling, <1>DbrStale, <1>DbrCurrent, <1>Told,
     <1>ToBeSubmitted DEF IInv

LEMMA StepWriteWqe ==
  ASSUME IInv, TypeOK', NEW t \in Threads, WriteWqe(t)
  PROVE  IInv'
<1>eff. /\ pc[t] = "write"
        /\ pc \in [Threads -> Pcs] /\ cur \in [Threads -> Nat]
        /\ \A u \in Threads : base[u] \in Nat /\ count[u] \in Nat /\ cur[u] \in Nat
        /\ nic_ci \in Nat /\ sq_ready_index \in Nat
        /\ wq \in [0 .. WqeNum - 1 -> Int]
        /\ wq' = [wq EXCEPT ![Slot(cur[t])] = cur[t]]
        /\ cur' = [cur EXCEPT ![t] = cur[t] + 1]
        /\ pc' = [pc EXCEPT ![t] = IF cur[t] + 1 = Prod(t) THEN "ready" ELSE "write"]
        /\ UNCHANGED <<indexVars, cqe_ci, cq, dbr, db, nicVars, base, count, pollVars>>
  BY DEF WriteWqe, Goto, IInv, TypeOK
<1>fill. \A u \in Threads : Filling(u)' = Filling(u) /\ Reserving(u)' = Reserving(u)
  BY <1>eff DEF Filling, Reserving, FillPcs, PollPcs
<1>int. /\ WqeNum \in Nat \ {0}
        /\ \A u \in Threads : Prod(u) \in Nat
  BY <1>eff, SizesAssumption DEF Prod
<1>mine. /\ base[t] <= cur[t] /\ cur[t] < Prod(t)
         /\ sq_ready_index <= base[t]
         /\ nic_ci <= sq_ready_index
         /\ Prod(t) <= nic_ci + WqeNum
  <2>1. base[t] <= cur[t] /\ cur[t] < Prod(t)
    BY <1>eff DEF IInv, Progress
  <2>2. sq_ready_index <= base[t]
    BY <1>eff DEF IInv, Reservations, Filling, FillPcs
  <2>3. nic_ci <= sq_ready_index
    BY <1>eff DEF IInv, IndexOrder, TypeOK
  <2>4. Prod(t) <= nic_ci + WqeNum
    BY <1>eff DEF IInv, SlotsFree, FillPcs
  <2> QED
    BY <2>1, <2>2, <2>3, <2>4
<1>slot. ASSUME NEW i \in Int, nic_ci <= i, i < nic_ci + WqeNum, i # cur[t]
         PROVE  wq'[Slot(i)] = wq[Slot(i)]
  <2>1. Slot(i) # Slot(cur[t])
    <3>1. WqeNum \in Nat \ {0} /\ cur[t] \in Int /\ nic_ci \in Int
      BY <1>eff, <1>int
    <3>2. i < cur[t] + WqeNum /\ cur[t] < i + WqeNum
      BY <1>slot, <1>mine, <1>eff, <1>int
    <3>3. CASE i <= cur[t]
      BY <1>slot, <3>1, <3>2, <3>3, SameSlot DEF Slot
    <3>4. CASE cur[t] <= i
      BY <1>slot, <3>1, <3>2, <3>4, SameSlot DEF Slot
    <3> QED
      BY <1>slot, <3>1, <3>3, <3>4
  <2> QED
    BY <1>eff, <2>1
<1>here. wq'[Slot(cur[t])] = cur[t]
  <2>1. Slot(cur[t]) \in 0 .. WqeNum - 1
    <3>1. WqeNum \in Nat \ {0} /\ cur[t] \in Int
      BY <1>eff, SizesAssumption
    <3> QED
      BY <3>1, DivMod DEF Slot
  <2> QED
    BY <1>eff, <2>1

<1>same. IndexOrder' /\ CqHolds' /\ DbReaches' /\ DbrBehind'
  BY <1>eff DEF IInv, IndexOrder, CqHolds, DbReaches, Reaches, DbrBehind,
     Idx16
<1>Reservations. Reservations'
  BY <1>eff, <1>fill DEF IInv, Reservations, Prod
<1>ExclusiveTurn. ExclusiveTurn'
  BY <1>eff, <1>fill DEF IInv, ExclusiveTurn, Prod
<1>StoreTurn. StoreTurn'
  BY <1>eff DEF IInv, StoreTurn
<1>SlotsFree. SlotsFree'
  BY <1>eff DEF IInv, SlotsFree, FillPcs, Prod
<1>Progress. Progress'
  BY <1>eff, <1>fill, <1>mine DEF IInv, Progress, Prod, Reserving, PollPcs
<1>Written. Written'
  <2> SUFFICES ASSUME NEW u \in Threads, pc'[u] \in FillPcs,
                      NEW i \in base[u] .. cur'[u] - 1
               PROVE  wq'[Slot(i)] = i
    BY <1>eff DEF Written
  <2>1. pc[u] \in FillPcs
    BY <1>eff DEF FillPcs
  <2>2. i \in Int /\ nic_ci <= i
    BY <1>eff, <1>mine, <2>1 DEF IInv, Reservations, Filling
  <2>3. CASE u = t
    <3>1. CASE i = cur[t]
      BY <1>here, <3>1
    <3>2. CASE i # cur[t]
      <4>1. i \in base[t] .. cur[t] - 1
        BY <1>eff, <2>2, <2>3, <3>2
      <4>2. wq[Slot(i)] = i
        BY <2>1, <2>3, <4>1 DEF IInv, Written
      <4>3. i < nic_ci + WqeNum
        BY <1>mine, <1>eff, <1>int, <4>1
      <4> QED
        BY <1>slot, <2>2, <3>2, <4>2, <4>3
    <3> QED
      BY <3>1, <3>2
  <2>4. CASE u # t
    <3>1. i \in base[u] .. cur[u] - 1 /\ cur[u] <= Prod(u)
      BY <1>eff, <2>1, <2>4 DEF IInv, Progress, FillPcs, Prod
    <3>2. wq[Slot(i)] = i
      BY <2>1, <3>1 DEF IInv, Written
    <3>3. i < nic_ci + WqeNum
      BY <1>eff, <2>1, <3>1, SizesAssumption DEF IInv, SlotsFree, Prod
    <3>4. i # cur[t]
      <4>1. Prod(t) <= base[u] \/ Prod(u) <= base[t]
        BY <1>eff, <2>1, <2>4 DEF IInv, Reservations, Filling, FillPcs
      <4> QED
        BY <1>eff, <1>int, <1>mine, <3>1, <4>1
    <3> QED
      BY <1>slot, <2>2, <3>2, <3>3, <3>4
  <2> QED
    BY <2>3, <2>4
<1>PublishedIntact. PublishedIntact'
  <2> SUFFICES ASSUME NEW i \in nic_ci .. sq_ready_index - 1
               PROVE  wq'[Slot(i)] = i
    BY <1>eff DEF PublishedIntact
  <2>1. wq[Slot(i)] = i
    BY DEF IInv, PublishedIntact
  <2>2. i \in Int /\ nic_ci <= i /\ i < nic_ci + WqeNum /\ i # cur[t]
    BY <1>eff, <1>mine, SizesAssumption DEF IInv, IndexOrder
  <2> QED
    BY <1>slot, <2>1, <2>2
<1>Submitting. Submitting'
  BY <1>eff DEF IInv, Submitting, Prod
<1>LockHeld. LockHeld'
  BY <1>eff DEF IInv, LockHeld, SubmitPcs
<1>LockExclusion. LockExclusion'
  BY <1>eff DEF IInv, LockExclusion, SubmitPcs
<1>Polling. Polling'
  BY <1>eff, <1>fill DEF IInv, Polling
<1>DbrStale. DbrStale'
  BY <1>eff DEF IInv, DbrStale, Ringing, Reaches
<1>DbrCurrent. DbrCurrent'
  BY <1>eff DEF IInv, DbrCurrent, Ringing
<1>Told. Told'
  BY <1>eff DEF IInv, Told, Ringing
<1>ToBeSubmitted. ToBeSubmitted'
  BY <1>eff DEF IInv, ToBeSubmitted, Prod
<1> QED
  BY <1>same, <1>Reservations, <1>ExclusiveTurn, <1>StoreTurn, <1>SlotsFree,
     <1>Progress, <1>Written, <1>PublishedIntact, <1>Submitting, <1>LockHeld,
     <1>LockExclusion, <1>Polling, <1>DbrStale, <1>DbrCurrent, <1>Told,
     <1>ToBeSubmitted DEF IInv

LEMMA PublishStep ==
  ASSUME IInv, TypeOK', NEW t \in Threads, MyTurn(t) \/ pc[t] = "ready_store",
         pc[t] \in {"ready", "ready_store"},
         pc' = [pc EXCEPT ![t] = "lock"],
         sq_ready_index' = Prod(t),
         UNCHANGED <<sq_rsvd_index, sq_wqe_pi, sq_lock, cqe_ci, ringVars, nicVars,
                     opVars, pollVars>>
  PROVE  IInv'
<1>eff. /\ pc[t] \in {"ready", "ready_store"}
        /\ pc' = [pc EXCEPT ![t] = "lock"]
        /\ sq_ready_index' = Prod(t)
        /\ UNCHANGED <<sq_rsvd_index, sq_wqe_pi, sq_lock, cqe_ci, ringVars, nicVars,
                       opVars, pollVars>>
  OBVIOUS
<1>turn. sq_ready_index = base[t] /\ base[t] < Prod(t)
  <2>1. sq_ready_index = base[t]
    BY <1>eff DEF MyTurn, IInv, ExclusiveTurn, Filling, FillPcs, StoreTurn
  <2>2. base[t] < Prod(t)
    BY TypeFacts, <1>eff DEF IInv, Reservations, Filling, FillPcs, Prod
  <2> QED
    BY <2>1, <2>2
<1>mine. /\ Prod(t) <= sq_rsvd_index
         /\ Prod(t) <= nic_ci + WqeNum
         /\ \A i \in base[t] .. Prod(t) - 1 : wq[Slot(i)] = i
  <2>1. Prod(t) <= sq_rsvd_index
    BY TypeFacts, <1>eff DEF IInv, Reservations, Filling, FillPcs
  <2>2. Prod(t) <= nic_ci + WqeNum /\ cur[t] = Prod(t)
    BY TypeFacts, <1>eff DEF IInv, SlotsFree, FillPcs, Progress
  <2>3. \A i \in base[t] .. cur[t] - 1 : wq[Slot(i)] = i
    BY TypeFacts, <1>eff DEF IInv, Written, FillPcs
  <2> QED
    BY <2>1, <2>2, <2>3
<1>fill. \A u \in Threads : /\ Filling(u)' <=> (u # t /\ Filling(u))
                            /\ Reserving(u)' = Reserving(u)
  BY TypeFacts, <1>eff DEF Filling, Reserving, FillPcs, PollPcs
<1>was. Filling(t)
  BY <1>eff DEF Filling, FillPcs

<1>same. CqHolds' /\ DbReaches' /\ DbrBehind'
  BY TypeFacts, <1>eff DEF IInv, CqHolds, DbReaches, Reaches, DbrBehind, Idx16
<1>IndexOrder. IndexOrder'
  BY TypeFacts, <1>eff, <1>turn, <1>mine DEF IInv, IndexOrder, TypeOK
<1>Reservations. Reservations'
  <2>1. ASSUME NEW u \in Threads, u # t, Filling(u)
        PROVE  Prod(t) <= base[u]
    <3>1. Prod(t) <= base[u] \/ Prod(u) <= base[t]
      BY <1>was, <2>1 DEF IInv, Reservations
    <3>2. sq_ready_index <= base[u] /\ base[u] < Prod(u)
      BY TypeFacts, <2>1 DEF IInv, Reservations, Prod
    <3> QED
      BY TypeFacts, <1>turn, <3>1, <3>2
  <2> QED
    BY <1>eff, <1>fill, <2>1 DEF IInv, Reservations, Prod
<1>ExclusiveTurn. ExclusiveTurn'
  BY TypeFacts, <1>eff, <1>fill, <1>was, ExclusiveAssumption DEF IInv,
     ExclusiveTurn, Prod
<1>StoreTurn. StoreTurn'
  <2> SUFFICES ASSUME NEW u \in Threads, u # t, pc[u] = "ready_store" PROVE FALSE
    BY TypeFacts, <1>eff DEF StoreTurn
  <2>1. sq_ready_index = base[u]
    BY DEF IInv, StoreTurn
  <2>2. Filling(u) /\ base[u] < Prod(u)
    <3>1. Filling(u)
      BY DEF Filling, FillPcs
    <3> QED
      BY <3>1, TypeFacts DEF IInv, Reservations, Prod
  <2>3. Prod(t) <= base[u] \/ Prod(u) <= base[t]
    BY <1>was, <2>2 DEF IInv, Reservations
  <2> QED
    BY TypeFacts, <1>turn, <2>1, <2>2, <2>3
<1>SlotsFree. SlotsFree'
  BY TypeFacts, <1>eff DEF IInv, SlotsFree, FillPcs, Prod
<1>Progress. Progress'
  BY TypeFacts, <1>eff, <1>fill DEF IInv, Progress, Prod
<1>Written. Written'
  BY TypeFacts, <1>eff DEF IInv, Written, FillPcs
<1>PublishedIntact. PublishedIntact'
  <2> SUFFICES ASSUME NEW i \in nic_ci .. Prod(t) - 1
               PROVE  wq[Slot(i)] = i
    BY <1>eff DEF PublishedIntact
  <2>1. CASE i < sq_ready_index
    BY TypeFacts, <2>1 DEF IInv, PublishedIntact
  <2>2. CASE i >= sq_ready_index
    BY TypeFacts, <1>turn, <1>mine, <2>2
  <2> QED
    BY TypeFacts, <2>1, <2>2
<1>Submitting. Submitting'
  BY TypeFacts, <1>eff, <1>turn DEF IInv, Submitting, Prod
<1>LockHeld. LockHeld'
  BY TypeFacts, <1>eff DEF IInv, LockHeld, SubmitPcs
<1>LockExclusion. LockExclusion'
  BY TypeFacts, <1>eff DEF IInv, LockExclusion, SubmitPcs
<1>Polling. Polling'
  BY TypeFacts, <1>eff, <1>fill DEF IInv, Polling
<1>DbrStale. DbrStale'
  BY TypeFacts, <1>eff DEF IInv, DbrStale, Ringing, Reaches
<1>DbrCurrent. DbrCurrent'
  BY TypeFacts, <1>eff DEF IInv, DbrCurrent, Ringing
<1>Told. Told'
  BY TypeFacts, <1>eff DEF IInv, Told, Ringing
<1>ToBeSubmitted. ToBeSubmitted'
  <2>1. pc'[t] = "lock" /\ Prod(t)' = sq_ready_index'
    BY TypeFacts, <1>eff DEF Prod
  <2> QED
    BY <2>1 DEF ToBeSubmitted
<1> QED
  BY <1>same, <1>IndexOrder, <1>Reservations, <1>ExclusiveTurn, <1>StoreTurn,
     <1>SlotsFree, <1>Progress, <1>Written, <1>PublishedIntact,
     <1>Submitting, <1>LockHeld, <1>LockExclusion, <1>Polling, <1>DbrStale,
     <1>DbrCurrent, <1>Told, <1>ToBeSubmitted DEF IInv

LEMMA MarkReadyLoadStep ==
  ASSUME IInv, TypeOK', NEW t \in Threads, MyTurn(t), Sharing # "EXCLUSIVE",
         pc[t] = "ready",
         pc' = [pc EXCEPT ![t] = "ready_store"],
         UNCHANGED <<indexVars, cqe_ci, ringVars, nicVars, opVars, pollVars>>
  PROVE  IInv'
<1>eff. /\ pc[t] = "ready"
        /\ pc' = [pc EXCEPT ![t] = "ready_store"]
        /\ sq_ready_index = base[t]
        /\ UNCHANGED <<indexVars, cqe_ci, ringVars, nicVars, opVars, pollVars>>
  BY DEF MyTurn
<1>fill. \A u \in Threads : Filling(u)' = Filling(u) /\ Reserving(u)' = Reserving(u)
  BY TypeFacts, <1>eff DEF Filling, Reserving, FillPcs, PollPcs

<1>same. IndexOrder' /\ PublishedIntact' /\ CqHolds' /\ DbReaches' /\
         DbrBehind'
  BY TypeFacts, <1>eff DEF IInv, IndexOrder, PublishedIntact, CqHolds, DbReaches,
     Reaches, DbrBehind, Idx16
<1>Reservations. Reservations'
  BY TypeFacts, <1>eff, <1>fill DEF IInv, Reservations, Prod
<1>ExclusiveTurn. ExclusiveTurn'
  BY TypeFacts, <1>eff, <1>fill DEF IInv, ExclusiveTurn, Prod
<1>StoreTurn. StoreTurn'
  BY TypeFacts, <1>eff DEF IInv, StoreTurn
<1>SlotsFree. SlotsFree'
  BY TypeFacts, <1>eff DEF IInv, SlotsFree, FillPcs, Prod
<1>Progress. Progress'
  BY TypeFacts, <1>eff, <1>fill DEF IInv, Progress, Prod
<1>Written. Written'
  BY TypeFacts, <1>eff DEF IInv, Written, FillPcs
<1>Submitting. Submitting'
  BY TypeFacts, <1>eff DEF IInv, Submitting, Prod
<1>LockHeld. LockHeld'
  BY TypeFacts, <1>eff DEF IInv, LockHeld, SubmitPcs
<1>LockExclusion. LockExclusion'
  BY TypeFacts, <1>eff DEF IInv, LockExclusion, SubmitPcs
<1>Polling. Polling'
  BY TypeFacts, <1>eff, <1>fill DEF IInv, Polling
<1>DbrStale. DbrStale'
  BY TypeFacts, <1>eff DEF IInv, DbrStale, Ringing, Reaches
<1>DbrCurrent. DbrCurrent'
  BY TypeFacts, <1>eff DEF IInv, DbrCurrent, Ringing
<1>Told. Told'
  BY TypeFacts, <1>eff DEF IInv, Told, Ringing
<1>ToBeSubmitted. ToBeSubmitted'
  BY TypeFacts, <1>eff DEF IInv, ToBeSubmitted, Prod
<1> QED
  BY <1>same, <1>Reservations, <1>ExclusiveTurn, <1>StoreTurn, <1>SlotsFree,
     <1>Progress, <1>Written, <1>Submitting, <1>LockHeld, <1>LockExclusion,
     <1>Polling, <1>DbrStale, <1>DbrCurrent, <1>Told,
     <1>ToBeSubmitted DEF IInv

LEMMA StepMarkReady ==
  ASSUME IInv, TypeOK', NEW t \in Threads, MarkReady(t) \/ StoreReady(t)
  PROVE  IInv'
<1>1. CASE StoreReady(t)
  BY <1>1, PublishStep DEF StoreReady, Goto
<1>2. CASE MarkReady(t) /\ pc'[t] = "lock"
  <2>1. pc' = [pc EXCEPT ![t] = "lock"] /\ sq_ready_index' = Prod(t)
    BY <1>2 DEF MarkReady, Goto, IInv, TypeOK
  <2> QED
    BY <1>2, <2>1, PublishStep DEF MarkReady
<1>3. CASE MarkReady(t) /\ pc'[t] # "lock"
  <2>1. /\ Sharing # "EXCLUSIVE"
        /\ pc' = [pc EXCEPT ![t] = "ready_store"]
        /\ UNCHANGED sq_ready_index
    BY <1>3 DEF MarkReady, Goto, IInv, TypeOK
  <2> QED
    BY <1>3, <2>1, MarkReadyLoadStep DEF MarkReady
<1> QED
  BY <1>1, <1>2, <1>3

LEMMA StepLock ==
  ASSUME IInv, TypeOK', NEW t \in Threads, Lock(t)
  PROVE  IInv'
<1>eff. /\ pc[t] = "lock" /\ LockFree
        /\ pc' = [pc EXCEPT ![t] = "fetch_max"]
        /\ sq_lock' = 1
        /\ UNCHANGED <<sq_rsvd_index, sq_ready_index, sq_wqe_pi, cqe_ci, ringVars,
                       nicVars, opVars, pollVars>>
  BY DEF Lock, Goto
<1>fill. \A u \in Threads : Filling(u)' = Filling(u) /\ Reserving(u)' = Reserving(u)
  BY TypeFacts, <1>eff DEF Filling, Reserving, FillPcs, PollPcs

<1>same. IndexOrder' /\ PublishedIntact' /\ CqHolds' /\ DbReaches' /\
         DbrBehind'
  BY TypeFacts, <1>eff DEF IInv, IndexOrder, PublishedIntact, CqHolds, DbReaches,
     Reaches, DbrBehind, Idx16
<1>Reservations. Reservations'
  BY TypeFacts, <1>eff, <1>fill DEF IInv, Reservations, Prod
<1>ExclusiveTurn. ExclusiveTurn'
  BY TypeFacts, <1>eff, <1>fill DEF IInv, ExclusiveTurn, Prod
<1>StoreTurn. StoreTurn'
  BY TypeFacts, <1>eff DEF IInv, StoreTurn
<1>SlotsFree. SlotsFree'
  BY TypeFacts, <1>eff DEF IInv, SlotsFree, FillPcs, Prod
<1>Progress. Progress'
  BY TypeFacts, <1>eff, <1>fill DEF IInv, Progress, Prod
<1>Written. Written'
  BY TypeFacts, <1>eff DEF IInv, Written, FillPcs
<1>Submitting. Submitting'
  BY TypeFacts, <1>eff DEF IInv, Submitting, Prod
<1>LockHeld. LockHeld'
  BY TypeFacts, <1>eff DEF IInv, LockHeld, SubmitPcs
<1>LockExclusion. LockExclusion'
  BY TypeFacts, <1>eff, ExclusiveAssumption DEF IInv, LockExclusion,
     SubmitPcs, LockHeld, LockFree
<1>Polling. Polling'
  BY TypeFacts, <1>eff, <1>fill DEF IInv, Polling
<1>DbrStale. DbrStale'
  BY TypeFacts, <1>eff DEF IInv, DbrStale, Ringing, Reaches
<1>DbrCurrent. DbrCurrent'
  BY TypeFacts, <1>eff DEF IInv, DbrCurrent, Ringing
<1>Told. Told'
  BY TypeFacts, <1>eff DEF IInv, Told, Ringing
<1>ToBeSubmitted. ToBeSubmitted'
  BY TypeFacts, <1>eff DEF IInv, ToBeSubmitted, Prod
<1> QED
  BY <1>same, <1>Reservations, <1>ExclusiveTurn, <1>StoreTurn, <1>SlotsFree,
     <1>Progress, <1>Written, <1>Submitting, <1>LockHeld, <1>LockExclusion,
     <1>Polling, <1>DbrStale, <1>DbrCurrent, <1>Told,
     <1>ToBeSubmitted DEF IInv

LEMMA StepSkipSubmit ==
  ASSUME IInv, TypeOK', NEW t \in Threads, SkipSubmit(t)
  PROVE  IInv'
<1>eff. /\ pc[t] = "lock" /\ SkipDbRinging
        /\ pc' = [pc EXCEPT ![t] = "idle"]
        /\ UNCHANGED <<indexVars, cqe_ci, ringVars, nicVars, opVars, pollVars>>
  BY DEF SkipSubmit, Goto
<1>fill. \A u \in Threads : Filling(u)' = Filling(u) /\ Reserving(u)' = Reserving(u)
  BY TypeFacts, <1>eff DEF Filling, Reserving, FillPcs, PollPcs

<1>same. IndexOrder' /\ PublishedIntact' /\ CqHolds' /\ DbReaches' /\
         DbrBehind'
  BY TypeFacts, <1>eff DEF IInv, IndexOrder, PublishedIntact, CqHolds, DbReaches,
     Reaches, DbrBehind, Idx16
<1>Reservations. Reservations'
  BY TypeFacts, <1>eff, <1>fill DEF IInv, Reservations, Prod
<1>ExclusiveTurn. ExclusiveTurn'
  BY TypeFacts, <1>eff, <1>fill DEF IInv, ExclusiveTurn, Prod
<1>StoreTurn. StoreTurn'
  BY TypeFacts, <1>eff DEF IInv, StoreTurn
<1>SlotsFree. SlotsFree'
  BY TypeFacts, <1>eff DEF IInv, SlotsFree, FillPcs, Prod
<1>Progress. Progress'
  BY TypeFacts, <1>eff, <1>fill DEF IInv, Progress, Prod
<1>Written. Written'
  BY TypeFacts, <1>eff DEF IInv, Written, FillPcs
<1>Submitting. Submitting'
  BY TypeFacts, <1>eff DEF IInv, Submitting, Prod
<1>LockHeld. LockHeld'
  BY TypeFacts, <1>eff DEF IInv, LockHeld, SubmitPcs
<1>LockExclusion. LockExclusion'
  BY TypeFacts, <1>eff DEF IInv, LockExclusion, SubmitPcs
<1>Polling. Polling'
  BY TypeFacts, <1>eff, <1>fill DEF IInv, Polling
<1>DbrStale. DbrStale'
  BY TypeFacts, <1>eff DEF IInv, DbrStale, Ringing, Reaches
<1>DbrCurrent. DbrCurrent'
  BY TypeFacts, <1>eff DEF IInv, DbrCurrent, Ringing
<1>Told. Told'
  BY TypeFacts, <1>eff DEF IInv, Told, Ringing
<1>ToBeSubmitted. ToBeSubmitted'
  BY TypeFacts, <1>eff DEF IInv, ToBeSubmitted, Prod
<1> QED
  BY <1>same, <1>Reservations, <1>ExclusiveTurn, <1>StoreTurn, <1>SlotsFree,
     <1>Progress, <1>Written, <1>Submitting, <1>LockHeld, <1>LockExclusion,
     <1>Polling, <1>DbrStale, <1>DbrCurrent, <1>Told,
     <1>ToBeSubmitted DEF IInv

LEMMA StepUnlock ==
  ASSUME IInv, TypeOK', NEW t \in Threads, Unlock(t)
  PROVE  IInv'
<1>eff. /\ pc[t] = "unlock"
        /\ pc' = [pc EXCEPT ![t] = "idle"]
        /\ sq_lock' = 0
        /\ UNCHANGED <<sq_rsvd_index, sq_ready_index, sq_wqe_pi, cqe_ci, ringVars,
                       nicVars, opVars, pollVars>>
  BY DEF Unlock, Goto
<1>fill. \A u \in Threads : Filling(u)' = Filling(u) /\ Reserving(u)' = Reserving(u)
  BY TypeFacts, <1>eff DEF Filling, Reserving, FillPcs, PollPcs

<1>same. IndexOrder' /\ PublishedIntact' /\ CqHolds' /\ DbReaches' /\
         DbrBehind'
  BY TypeFacts, <1>eff DEF IInv, IndexOrder, PublishedIntact, CqHolds, DbReaches,
     Reaches, DbrBehind, Idx16
<1>Reservations. Reservations'
  BY TypeFacts, <1>eff, <1>fill DEF IInv, Reservations, Prod
<1>ExclusiveTurn. ExclusiveTurn'
  BY TypeFacts, <1>eff, <1>fill DEF IInv, ExclusiveTurn, Prod
<1>StoreTurn. StoreTurn'
  BY TypeFacts, <1>eff DEF IInv, StoreTurn
<1>SlotsFree. SlotsFree'
  BY TypeFacts, <1>eff DEF IInv, SlotsFree, FillPcs, Prod
<1>Progress. Progress'
  BY TypeFacts, <1>eff, <1>fill DEF IInv, Progress, Prod
<1>Written. Written'
  BY TypeFacts, <1>eff DEF IInv, Written, FillPcs
<1>Submitting. Submitting'
  BY TypeFacts, <1>eff DEF IInv, Submitting, Prod
<1>LockHeld. LockHeld'
  BY TypeFacts, <1>eff DEF IInv, LockHeld, LockExclusion, SubmitPcs
<1>LockExclusion. LockExclusion'
  BY TypeFacts, <1>eff DEF IInv, LockExclusion, SubmitPcs
<1>Polling. Polling'
  BY TypeFacts, <1>eff, <1>fill DEF IInv, Polling
<1>DbrStale. DbrStale'
  BY TypeFacts, <1>eff DEF IInv, DbrStale, Ringing, Reaches
<1>DbrCurrent. DbrCurrent'
  BY TypeFacts, <1>eff DEF IInv, DbrCurrent, Ringing
<1>Told. Told'
  BY TypeFacts, <1>eff DEF IInv, Told, Ringing
<1>ToBeSubmitted. ToBeSubmitted'
  BY TypeFacts, <1>eff DEF IInv, ToBeSubmitted, Prod
<1> QED
  BY <1>same, <1>Reservations, <1>ExclusiveTurn, <1>StoreTurn, <1>SlotsFree,
     <1>Progress, <1>Written, <1>Submitting, <1>LockHeld, <1>LockExclusion,
     <1>Polling, <1>DbrStale, <1>DbrCurrent, <1>Told,
     <1>ToBeSubmitted DEF IInv

(* Ringing.                                                                *)
LEMMA StepFetchMax ==
  ASSUME IInv, TypeOK', NEW t \in Threads, FetchMax(t)
  PROVE  IInv'
<1>eff. /\ pc[t] = "fetch_max"
        /\ sq_wqe_pi' = Larger(sq_wqe_pi, Prod(t))
        /\ pc' = [pc EXCEPT ![t] = IF sq_wqe_pi < Prod(t) THEN "ring_early" ELSE "unlock"]
        /\ UNCHANGED <<sq_rsvd_index, sq_ready_index, sq_lock, cqe_ci, ringVars,
                       nicVars, opVars, pollVars>>
  BY DEF FetchMax, Goto
<1>fill. \A u \in Threads : Filling(u)' = Filling(u) /\ Reserving(u)' = Reserving(u)
  BY TypeFacts, <1>eff DEF Filling, Reserving, FillPcs, PollPcs
<1>alone. \A u \in Threads : u # t => pc[u] \notin SubmitPcs
  BY TypeFacts, <1>eff DEF IInv, LockExclusion, SubmitPcs
<1>pi. /\ Prod(t) <= sq_ready_index
       /\ sq_wqe_pi <= sq_wqe_pi' /\ sq_wqe_pi' <= sq_ready_index
       /\ sq_wqe_pi' \in Nat
       /\ pc'[t] = "ring_early" => sq_wqe_pi' = Prod(t)
       /\ pc'[t] = "unlock" => sq_wqe_pi' = sq_wqe_pi
  <2>1. Prod(t) <= sq_ready_index /\ sq_wqe_pi <= sq_ready_index
    BY TypeFacts, <1>eff DEF IInv, Submitting, IndexOrder
  <2> QED
    BY TypeFacts, <1>eff, <2>1 DEF Larger
<1>dbr. dbr = Idx16(sq_wqe_pi) /\ nic_pi <= sq_wqe_pi
  BY TypeFacts, <1>eff, <1>alone DEF IInv, DbrCurrent, Ringing, SubmitPcs, IndexOrder
<1>reach. \A v : Reaches(v, sq_wqe_pi) => Reaches(v, sq_wqe_pi)'
  BY TypeFacts, <1>eff, <1>pi DEF Reaches, Idx16

<1>same. PublishedIntact' /\ CqHolds'
  BY TypeFacts, <1>eff DEF IInv, PublishedIntact, CqHolds
<1>IndexOrder. IndexOrder'
  BY TypeFacts, <1>eff, <1>pi DEF IInv, IndexOrder
<1>Reservations. Reservations'
  BY TypeFacts, <1>eff, <1>fill DEF IInv, Reservations, Prod
<1>ExclusiveTurn. ExclusiveTurn'
  BY TypeFacts, <1>eff, <1>fill DEF IInv, ExclusiveTurn, Prod
<1>StoreTurn. StoreTurn'
  BY TypeFacts, <1>eff DEF IInv, StoreTurn
<1>SlotsFree. SlotsFree'
  BY TypeFacts, <1>eff DEF IInv, SlotsFree, FillPcs, Prod
<1>Progress. Progress'
  BY TypeFacts, <1>eff, <1>fill DEF IInv, Progress, Prod
<1>Written. Written'
  BY TypeFacts, <1>eff DEF IInv, Written, FillPcs
<1>Submitting. Submitting'
  BY TypeFacts, <1>eff, <1>alone, <1>pi DEF IInv, Submitting, SubmitPcs, Prod
<1>LockHeld. LockHeld'
  BY TypeFacts, <1>eff DEF IInv, LockHeld, SubmitPcs
<1>LockExclusion. LockExclusion'
  BY TypeFacts, <1>eff DEF IInv, LockExclusion, SubmitPcs
<1>Polling. Polling'
  BY TypeFacts, <1>eff, <1>fill DEF IInv, Polling
<1>DbReaches. DbReaches'
  BY <1>eff, <1>reach DEF IInv, DbReaches
<1>DbrStale. DbrStale'
  <2>1. sq_wqe_pi \in nic_pi' .. sq_wqe_pi'
    BY TypeFacts, <1>eff, <1>pi, <1>dbr
  <2>2. db' # NoDb => Reaches(db, sq_wqe_pi)
    BY TypeFacts, <1>eff DEF IInv, DbReaches
  <2>3. Reaches(db, sq_wqe_pi) => \E i \in nic_pi' .. sq_wqe_pi : db' = Idx16(i)
    BY <1>eff DEF Reaches
  <2> QED
    BY <1>eff, <1>dbr, <2>1, <2>2, <2>3 DEF DbrStale, Reaches, Idx16
<1>DbrCurrent. DbrCurrent'
  BY TypeFacts, <1>eff, <1>pi, <1>dbr DEF IInv, DbrCurrent, Ringing, Idx16
<1>DbrBehind. DbrBehind'
  <2>1. sq_wqe_pi' <= sq_wqe_pi + WqeNum
    BY TypeFacts, <1>pi DEF IInv, IndexOrder
  <2>2. sq_wqe_pi \in 0 .. sq_wqe_pi'
    BY TypeFacts, <1>pi
  <2> QED
    BY <1>eff, <1>dbr, <2>1, <2>2 DEF DbrBehind, Idx16
<1>Told. Told'
  <2>1. nic_pi = sq_wqe_pi \/ db = Idx16(sq_wqe_pi)
    BY TypeFacts, <1>eff, <1>alone DEF IInv, Told, Ringing, SubmitPcs
  <2> QED
    BY TypeFacts, <1>eff, <1>pi, <2>1 DEF Told, Ringing, Idx16
<1>ToBeSubmitted. ToBeSubmitted'
  <2> SUFFICES ASSUME ~SkipDbRinging
               PROVE  \/ sq_wqe_pi' = sq_ready_index
                      \/ \E u \in Threads : pc'[u] \in {"lock", "fetch_max"} /\ Prod(u) = sq_ready_index
    BY <1>eff DEF ToBeSubmitted, Prod
  <2>1. CASE sq_wqe_pi = sq_ready_index
    BY TypeFacts, <1>pi, <2>1
  <2>2. CASE Prod(t) = sq_ready_index
    BY TypeFacts, <1>eff, <1>pi, <2>2 DEF Larger
  <2>3. ASSUME NEW u \in Threads, u # t, pc[u] \in {"lock", "fetch_max"},
               Prod(u) = sq_ready_index
        PROVE  pc'[u] \in {"lock", "fetch_max"}
    BY TypeFacts, <1>eff, <2>3
  <2> QED
    BY <2>1, <2>2, <2>3 DEF IInv, ToBeSubmitted
<1> QED
  BY <1>same, <1>IndexOrder, <1>Reservations, <1>ExclusiveTurn, <1>StoreTurn,
     <1>SlotsFree, <1>Progress, <1>Written, <1>Submitting, <1>LockHeld,
     <1>LockExclusion, <1>Polling, <1>DbReaches, <1>DbrStale, <1>DbrCurrent,
     <1>DbrBehind, <1>Told, <1>ToBeSubmitted DEF IInv

LEMMA StepRingEarly ==
  ASSUME IInv, TypeOK', NEW t \in Threads, RingEarly(t)
  PROVE  IInv'
<1>eff. /\ pc[t] = "ring_early"
        /\ db' = Idx16(Prod(t))
        /\ pc' = [pc EXCEPT ![t] = "update_dbr"]
        /\ UNCHANGED <<indexVars, cqe_ci, wq, cq, dbr, nicVars, opVars, pollVars>>
  BY DEF RingEarly, RingDb, DbValue, Goto
<1>fill. \A u \in Threads : Filling(u)' = Filling(u) /\ Reserving(u)' = Reserving(u)
  BY TypeFacts, <1>eff DEF Filling, Reserving, FillPcs, PollPcs
<1>alone. \A u \in Threads : u # t => pc[u] \notin SubmitPcs
  BY TypeFacts, <1>eff DEF IInv, LockExclusion, SubmitPcs
<1>pi. Prod(t) = sq_wqe_pi /\ nic_pi <= sq_wqe_pi
  BY TypeFacts, <1>eff DEF IInv, Submitting, IndexOrder

<1>same. IndexOrder' /\ PublishedIntact' /\ CqHolds' /\ DbrBehind'
  BY TypeFacts, <1>eff DEF IInv, IndexOrder, PublishedIntact, CqHolds, DbrBehind, Idx16
<1>Reservations. Reservations'
  BY TypeFacts, <1>eff, <1>fill DEF IInv, Reservations, Prod
<1>ExclusiveTurn. ExclusiveTurn'
  BY TypeFacts, <1>eff, <1>fill DEF IInv, ExclusiveTurn, Prod
<1>StoreTurn. StoreTurn'
  BY TypeFacts, <1>eff DEF IInv, StoreTurn
<1>SlotsFree. SlotsFree'
  BY TypeFacts, <1>eff DEF IInv, SlotsFree, FillPcs, Prod
<1>Progress. Progress'
  BY TypeFacts, <1>eff, <1>fill DEF IInv, Progress, Prod
<1>Written. Written'
  BY TypeFacts, <1>eff DEF IInv, Written, FillPcs
<1>Submitting. Submitting'
  BY TypeFacts, <1>eff DEF IInv, Submitting, Prod
<1>LockHeld. LockHeld'
  BY TypeFacts, <1>eff DEF IInv, LockHeld, SubmitPcs
<1>LockExclusion. LockExclusion'
  BY TypeFacts, <1>eff DEF IInv, LockExclusion, SubmitPcs
<1>Polling. Polling'
  BY TypeFacts, <1>eff, <1>fill DEF IInv, Polling
<1>DbReaches. DbReaches'
  <2>1. Reaches(db', sq_wqe_pi)
    BY TypeFacts, <1>eff, <1>pi DEF Reaches
  <2>2. Reaches(dbr, sq_wqe_pi)
    BY TypeFacts, <1>eff DEF IInv, DbrStale, Ringing, Reaches
  <2> QED
    BY <1>eff, <2>1, <2>2 DEF DbReaches, Reaches
<1>DbrStale. DbrStale'
  BY TypeFacts, <1>eff, <1>alone DEF DbrStale, Ringing, SubmitPcs
<1>DbrCurrent. DbrCurrent'
  BY TypeFacts, <1>eff, <1>alone DEF DbrCurrent, Ringing, SubmitPcs
<1>Told. Told'
  BY TypeFacts, <1>eff, <1>alone DEF Told, Ringing, SubmitPcs
<1>ToBeSubmitted. ToBeSubmitted'
  BY TypeFacts, <1>eff DEF IInv, ToBeSubmitted, Prod
<1> QED
  BY <1>same, <1>Reservations, <1>ExclusiveTurn, <1>StoreTurn, <1>SlotsFree,
     <1>Progress, <1>Written, <1>Submitting, <1>LockHeld, <1>LockExclusion,
     <1>Polling, <1>DbReaches, <1>DbrStale, <1>DbrCurrent, <1>Told,
     <1>ToBeSubmitted DEF IInv

LEMMA StepUpdateDbr ==
  ASSUME IInv, TypeOK', NEW t \in Threads, UpdateDbr(t)
  PROVE  IInv'
<1>eff. /\ pc[t] = "update_dbr"
        /\ dbr' = Idx16(Prod(t))
        /\ pc' = [pc EXCEPT ![t] = "ring_again"]
        /\ UNCHANGED <<indexVars, cqe_ci, wq, cq, db, nicVars, opVars, pollVars>>
  BY DEF UpdateDbr, DbrValue, Goto
<1>fill. \A u \in Threads : Filling(u)' = Filling(u) /\ Reserving(u)' = Reserving(u)
  BY TypeFacts, <1>eff DEF Filling, Reserving, FillPcs, PollPcs
<1>alone. \A u \in Threads : u # t => pc[u] \notin SubmitPcs
  BY TypeFacts, <1>eff DEF IInv, LockExclusion, SubmitPcs
<1>pi. Prod(t) = sq_wqe_pi /\ nic_pi <= sq_wqe_pi
  BY TypeFacts, <1>eff DEF IInv, Submitting, IndexOrder

<1>same. IndexOrder' /\ PublishedIntact' /\ CqHolds'
  BY TypeFacts, <1>eff DEF IInv, IndexOrder, PublishedIntact, CqHolds
<1>Reservations. Reservations'
  BY TypeFacts, <1>eff, <1>fill DEF IInv, Reservations, Prod
<1>ExclusiveTurn. ExclusiveTurn'
  BY TypeFacts, <1>eff, <1>fill DEF IInv, ExclusiveTurn, Prod
<1>StoreTurn. StoreTurn'
  BY TypeFacts, <1>eff DEF IInv, StoreTurn
<1>SlotsFree. SlotsFree'
  BY TypeFacts, <1>eff DEF IInv, SlotsFree, FillPcs, Prod
<1>Progress. Progress'
  BY TypeFacts, <1>eff, <1>fill DEF IInv, Progress, Prod
<1>Written. Written'
  BY TypeFacts, <1>eff DEF IInv, Written, FillPcs
<1>Submitting. Submitting'
  BY TypeFacts, <1>eff DEF IInv, Submitting, Prod
<1>LockHeld. LockHeld'
  BY TypeFacts, <1>eff DEF IInv, LockHeld, SubmitPcs
<1>LockExclusion. LockExclusion'
  BY TypeFacts, <1>eff DEF IInv, LockExclusion, SubmitPcs
<1>Polling. Polling'
  BY TypeFacts, <1>eff, <1>fill DEF IInv, Polling
<1>DbReaches. DbReaches'
  <2>1. Reaches(dbr', sq_wqe_pi)
    BY TypeFacts, <1>eff, <1>pi DEF Reaches
  <2> QED
    BY <1>eff, <2>1 DEF IInv, DbReaches, Reaches
<1>DbrStale. DbrStale'
  BY TypeFacts, <1>eff, <1>alone DEF DbrStale, Ringing, SubmitPcs
<1>DbrCurrent. DbrCurrent'
  BY <1>eff, <1>pi DEF DbrCurrent
<1>DbrBehind. DbrBehind'
  BY TypeFacts, <1>eff, <1>pi DEF DbrBehind
<1>Told. Told'
  BY TypeFacts, <1>eff, <1>alone DEF Told, Ringing, SubmitPcs
<1>ToBeSubmitted. ToBeSubmitted'
  BY TypeFacts, <1>eff DEF IInv, ToBeSubmitted, Prod
<1> QED
  BY <1>same, <1>Reservations, <1>ExclusiveTurn, <1>StoreTurn, <1>SlotsFree,
     <1>Progress, <1>Written, <1>Submitting, <1>LockHeld, <1>LockExclusion,
     <1>Polling, <1>DbReaches, <1>DbrStale, <1>DbrCurrent, <1>DbrBehind,
     <1>Told, <1>ToBeSubmitted DEF IInv

LEMMA StepRingAgain ==
  ASSUME IInv, TypeOK', NEW t \in Threads, RingAgain(t)
  PROVE  IInv'
<1>eff. /\ pc[t] = "ring_again"
        /\ db' = Idx16(Prod(t))
        /\ pc' = [pc EXCEPT ![t] = "unlock"]
        /\ UNCHANGED <<indexVars, cqe_ci, wq, cq, dbr, nicVars, opVars, pollVars>>
  BY DEF RingAgain, RingDb, DbValue, Goto
<1>fill. \A u \in Threads : Filling(u)' = Filling(u) /\ Reserving(u)' = Reserving(u)
  BY TypeFacts, <1>eff DEF Filling, Reserving, FillPcs, PollPcs
<1>alone. \A u \in Threads : u # t => pc[u] \notin SubmitPcs
  BY TypeFacts, <1>eff DEF IInv, LockExclusion, SubmitPcs
<1>pi. /\ Prod(t) = sq_wqe_pi /\ nic_pi <= sq_wqe_pi
       /\ dbr = Idx16(sq_wqe_pi)
  BY TypeFacts, <1>eff, <1>alone
     DEF IInv, Submitting, IndexOrder, DbrCurrent, Ringing, SubmitPcs

<1>same. IndexOrder' /\ PublishedIntact' /\ CqHolds' /\ DbrBehind'
  BY TypeFacts, <1>eff DEF IInv, IndexOrder, PublishedIntact, CqHolds, DbrBehind, Idx16
<1>Reservations. Reservations'
  BY TypeFacts, <1>eff, <1>fill DEF IInv, Reservations, Prod
<1>ExclusiveTurn. ExclusiveTurn'
  BY TypeFacts, <1>eff, <1>fill DEF IInv, ExclusiveTurn, Prod
<1>StoreTurn. StoreTurn'
  BY TypeFacts, <1>eff DEF IInv, StoreTurn
<1>SlotsFree. SlotsFree'
  BY TypeFacts, <1>eff DEF IInv, SlotsFree, FillPcs, Prod
<1>Progress. Progress'
  BY TypeFacts, <1>eff, <1>fill DEF IInv, Progress, Prod
<1>Written. Written'
  BY TypeFacts, <1>eff DEF IInv, Written, FillPcs
<1>Submitting. Submitting'
  BY TypeFacts, <1>eff DEF IInv, Submitting, Prod
<1>LockHeld. LockHeld'
  BY TypeFacts, <1>eff DEF IInv, LockHeld, SubmitPcs
<1>LockExclusion. LockExclusion'
  BY TypeFacts, <1>eff DEF IInv, LockExclusion, SubmitPcs
<1>Polling. Polling'
  BY TypeFacts, <1>eff, <1>fill DEF IInv, Polling
<1>DbReaches. DbReaches'
  BY TypeFacts, <1>eff, <1>pi DEF DbReaches, Reaches
<1>DbrStale. DbrStale'
  BY TypeFacts, <1>eff, <1>alone DEF DbrStale, Ringing, SubmitPcs
<1>DbrCurrent. DbrCurrent'
  BY TypeFacts, <1>eff DEF IInv, DbrCurrent, Ringing
<1>Told. Told'
  BY TypeFacts, <1>eff, <1>pi DEF Told
<1>ToBeSubmitted. ToBeSubmitted'
  BY TypeFacts, <1>eff DEF IInv, ToBeSubmitted, Prod
<1> QED
  BY <1>same, <1>Reservations, <1>ExclusiveTurn, <1>StoreTurn, <1>SlotsFree,
     <1>Progress, <1>Written, <1>Submitting, <1>LockHeld, <1>LockExclusion,
     <1>Polling, <1>DbReaches, <1>DbrStale, <1>DbrCurrent, <1>Told,
     <1>ToBeSubmitted DEF IInv

(* The NIC.                                                                *)
LEMMA StepNicTakeDb ==
  ASSUME IInv, TypeOK', NicTakeDb
  PROVE  IInv'
<1>eff. /\ db # NoDb /\ db' = NoDb
        /\ nic_pi' = NextIndex(db) \/ nic_pi' = NextIndex(dbr)
        /\ UNCHANGED <<indexVars, cqe_ci, wq, cq, dbr, nic_ci, nic_ok, pc, opVars, pollVars>>
  BY DEF NicTakeDb, NicDoorbell, NicRecover
<1>pi. nic_pi' \in nic_pi .. sq_wqe_pi
  BY <1>eff, NicReads DEF IInv, DbReaches, Reaches
<1>fill. \A u \in Threads : Filling(u)' = Filling(u) /\ Reserving(u)' = Reserving(u)
  BY <1>eff DEF Filling, Reserving

<1>same. Reservations' /\ ExclusiveTurn' /\ StoreTurn' /\ SlotsFree' /\
         Progress' /\ Written' /\ PublishedIntact' /\ Submitting' /\
         LockHeld' /\ LockExclusion' /\ CqHolds' /\ Polling' /\
         DbrCurrent' /\ DbrBehind' /\ ToBeSubmitted'
  BY <1>eff DEF IInv, Reservations, Prod, Filling, Reserving, ExclusiveTurn,
     StoreTurn, SlotsFree, FillPcs, Progress, Written, PublishedIntact,
     Submitting, LockHeld, SubmitPcs, LockExclusion, CqHolds, Polling,
     DbrCurrent, Ringing, DbrBehind, Idx16, ToBeSubmitted
<1>IndexOrder. IndexOrder'
  BY TypeFacts, <1>eff, <1>pi DEF IInv, IndexOrder
<1>DbReaches. DbReaches'
  BY <1>eff DEF DbReaches
<1>DbrStale. DbrStale'
  <2> SUFFICES ASSUME Ringing({"ring_early"})
               PROVE  \E k \in nic_pi' .. sq_wqe_pi : dbr = Idx16(k)
    BY <1>eff DEF DbrStale, Ringing, Idx16
  <2>1. PICK k \in nic_pi .. sq_wqe_pi : dbr = Idx16(k) /\ Reaches(db, k)
    BY <1>eff DEF IInv, DbrStale
  <2>2. PICK i \in nic_pi .. k : db = Idx16(i)
    BY <2>1 DEF Reaches
  <2>3. NextIndex(dbr) = k
    BY <2>1, NicReads
  <2>4. NextIndex(db) = i
    BY TypeFacts, <2>1, <2>2, NicReads
  <2>5. k \in nic_pi' .. sq_wqe_pi
    BY TypeFacts, <1>eff, <2>1, <2>2, <2>3, <2>4
  <2> QED
    BY <2>1, <2>5
<1>Told. Told'
  <2> SUFFICES ASSUME ~Ringing({"ring_early", "update_dbr", "ring_again"})
               PROVE  nic_pi' = sq_wqe_pi
    BY <1>eff DEF Told, Ringing, Idx16
  <2>1. dbr = Idx16(sq_wqe_pi)
    BY DEF IInv, DbrCurrent, Ringing
  <2>2. NextIndex(Idx16(sq_wqe_pi)) = sq_wqe_pi
    BY TypeFacts, NicReads DEF IInv, IndexOrder
  <2>3. CASE nic_pi = sq_wqe_pi
    BY TypeFacts, <1>pi, <2>3
  <2>4. CASE db = Idx16(sq_wqe_pi)
    BY <1>eff, <2>1, <2>2, <2>4
  <2> QED
    BY <2>3, <2>4 DEF IInv, Told
<1> QED
  BY <1>same, <1>IndexOrder, <1>DbReaches, <1>DbrStale, <1>Told DEF IInv

LEMMA StepNicComplete ==
  ASSUME IInv, TypeOK', NicComplete
  PROVE  IInv'
<1>eff. /\ nic_ci < nic_pi
        /\ cq' = [cq EXCEPT ![CqSlot(nic_ci)] = nic_ci]
        /\ nic_ci' = nic_ci + 1
        /\ nic_ok' = nic_ok \/ (nic_ok = nic_ci /\ nic_ok' = nic_ci + 1)
        /\ nic_ok < nic_ci => nic_ok' = nic_ok
        /\ UNCHANGED <<indexVars, cqe_ci, wq, dbr, db, nic_pi, pc, opVars, pollVars>>
  BY TypeFacts DEF NicComplete
<1>ok. nic_ok <= nic_ok' /\ nic_ok' \in Nat /\ nic_ok' <= nic_ci + 1
  BY TypeFacts, <1>eff DEF IInv, IndexOrder
<1>fill. \A u \in Threads : Filling(u)' = Filling(u) /\ Reserving(u)' = Reserving(u)
  BY <1>eff DEF Filling, Reserving
<1>slot. /\ CqSlot(nic_ci) \in 0 .. CqeNum - 1
         /\ cq \in [0 .. CqeNum - 1 -> Int]
  <2>1. CqeNum \in Nat \ {0} /\ nic_ci \in Int
    BY TypeFacts
  <2> QED
    BY <2>1, DivMod DEF CqSlot, IInv, TypeOK

<1>same. Reservations' /\ ExclusiveTurn' /\ StoreTurn' /\ Progress' /\
         Written' /\ Submitting' /\ LockHeld' /\ LockExclusion' /\
         DbReaches' /\ DbrStale' /\ DbrCurrent' /\ DbrBehind' /\ Told' /\
         ToBeSubmitted'
  BY <1>eff DEF IInv, Reservations, Prod, Filling, Reserving, ExclusiveTurn,
     StoreTurn, Progress, Written, FillPcs, Submitting, LockHeld, SubmitPcs,
     LockExclusion, DbReaches, Reaches, DbrStale, Ringing, DbrCurrent,
     DbrBehind, Idx16, Told, ToBeSubmitted
<1>IndexOrder. IndexOrder'
  BY TypeFacts, <1>eff, <1>ok DEF IInv, IndexOrder
<1>SlotsFree. SlotsFree'
  BY TypeFacts, <1>eff DEF IInv, SlotsFree, Prod
<1>PublishedIntact. PublishedIntact'
  BY TypeFacts, <1>eff DEF IInv, PublishedIntact
<1>CqHolds. CqHolds'
  <2> SUFFICES ASSUME NEW s \in 0 .. CqeNum - 1
               PROVE  /\ CqSlot(cq'[s]) = s
                      /\ nic_ci' - CqeNum <= cq'[s]
                      /\ cq'[s] < nic_ci'
    BY DEF CqHolds, CqSlot
  <2>1. /\ CqSlot(cq[s]) = s
        /\ nic_ci - CqeNum <= cq[s]
        /\ cq[s] < nic_ci
        /\ cq[s] \in Int
    BY <1>slot DEF IInv, CqHolds
  <2>2. CASE s = CqSlot(nic_ci)
    <3>1. cq'[s] = nic_ci
      BY <1>eff, <1>slot, <2>2
    <3> QED
      BY TypeFacts, <1>eff, <2>2, <3>1
  <2>3. CASE s # CqSlot(nic_ci)
    <3>1. cq'[s] = cq[s]
      BY <1>eff, <1>slot, <2>3
    <3>2. (nic_ci - CqeNum) + CqeNum = nic_ci /\ nic_ci - CqeNum \in Int
      BY TypeFacts
    <3>3. ((nic_ci - CqeNum) + CqeNum) % CqeNum = (nic_ci - CqeNum) % CqeNum
      BY TypeFacts, <3>2, NextLap, Zenon
    <3>4. cq[s] # nic_ci - CqeNum
      BY <2>1, <2>3, <3>2, <3>3 DEF CqSlot
    <3> QED
      BY TypeFacts, <1>eff, <2>1, <3>1, <3>4
  <2> QED
    BY <2>2, <2>3
<1>Polling. Polling'
  BY TypeFacts, <1>eff, <1>ok, <1>fill DEF IInv, Polling, SlotWaitIndex
<1> QED
  BY <1>same, <1>IndexOrder, <1>SlotsFree, <1>PublishedIntact, <1>CqHolds,
     <1>Polling DEF IInv

-----------------------------------------------------------------------------
(* Theorems.                                                               *)

LEMMA StepPreserves ==
  ASSUME IInv, [Next]_vars
  PROVE  IInv'
<1>1. TypeOK'
  BY StepType, CallType, NicType DEF IInv, Next, vars, TypeOK
<1>2. ASSUME NEW t \in Threads, Step(t) PROVE IInv'
  BY <1>1, <1>2, StepLoadCi, StepLoadCqe, StepAdvanceCi, StepWriteWqe,
     StepMarkReady, StepLock, StepSkipSubmit, StepFetchMax, StepRingEarly,
     StepUpdateDbr, StepRingAgain, StepUnlock DEF Step
<1>3. ASSUME NEW t \in Threads, Call(t) PROVE IInv'
  BY <1>1, <1>3, StepReserve, StepStartPoll DEF Call, Wait, TryPoll
<1>4. CASE UNCHANGED vars
  BY <1>1, <1>4
     DEF vars, IInv, IndexOrder, Reservations, ExclusiveTurn, StoreTurn, SlotsFree,
         Progress, Written, PublishedIntact, Submitting, LockHeld, LockExclusion,
         CqHolds, Polling, DbReaches, DbrStale, DbrCurrent, DbrBehind, Told,
         ToBeSubmitted, Filling, Reserving, Prod, Reaches, Ringing
<1> QED
  BY <1>1, <1>2, <1>3, <1>4, StepNicTakeDb, StepNicComplete DEF Next

(* The inductive invariant holds in every reachable state.                 *)
THEOREM Invariance == Spec => []IInv
  BY Initially, StepPreserves, PTL DEF Spec

(* A published WQE stays whole in its slot until the NIC has completed it. *)
THEOREM WqesIntact == Spec => []PublishedIntact
<1>1. IInv => PublishedIntact
  BY DEF IInv
<1> QED
  BY <1>1, Invariance, PTL

(* The NIC is told of published WQEs only, and never led backwards.        *)
THEOREM DoorbellSafe == Spec => []DoorbellCoversReady
<1>1. IInv => DoorbellCoversReady
  BY DEF IInv, IndexOrder, DoorbellCoversReady
<1> QED
  BY <1>1, Invariance, PTL

(* One thread at a time is between the lock and the unlock of submit_db.   *)
THEOREM MutualExclusion == Spec => []LockExclusion
<1>1. IInv => LockExclusion
  BY DEF IInv
<1> QED
  BY <1>1, Invariance, PTL

(* No doorbell is lost, whether the NIC takes it or recovers it.           *)
THEOREM DoorbellsArrive == Spec => []NoLostDoorbell
<1>1. IInv => NoLostDoorbell
  <2> SUFFICES ASSUME IInv, db = NoDb,
                      \A t \in Threads : pc[t] \notin SubmitPcs \cup {"lock"}
               PROVE  /\ nic_pi = sq_wqe_pi
                      /\ ~SkipDbRinging => sq_wqe_pi = sq_ready_index
    BY DEF NoLostDoorbell
  <2>1. Idx16(sq_wqe_pi) # NoDb
    BY TypeFacts, Idx16Type DEF NoDb
  <2>2. nic_pi = sq_wqe_pi
    BY <2>1 DEF IInv, Told, Ringing, SubmitPcs
  <2>3. ~SkipDbRinging => sq_wqe_pi = sq_ready_index
    BY DEF IInv, ToBeSubmitted, SubmitPcs
  <2> QED
    BY <2>2, <2>3
<1> QED
  BY <1>1, Invariance, PTL

(* A poll reports success only for a WQE that has completed without error. *)
THEOREM PollsSound == Spec => []SuccessIsTrue
<1>1. IInv => SuccessIsTrue
  BY DEF IInv, Polling, SuccessIsTrue
<1> QED
  BY <1>1, Invariance, PTL

(* cqe_ci counts completions that have succeeded, and no others.           *)
THEOREM ConsumerSound == Spec => []ConsumerBehindNic
<1>1. IInv => ConsumerBehindNic
  BY DEF IInv, IndexOrder, ConsumerBehindNic
<1> QED
  BY <1>1, Invariance, PTL

-----------------------------------------------------------------------------
(* Errors.  What a poll learns of a CQE tells it from those of other laps  *)
(* only while the queue is young: over the range of wqe_counter, or, where *)
(* the owner bit is all it compares, over two laps of the CQ.              *)
LapTold == (WqeCounterCheck /\ MaxWqes <= IdxMod) \/ MaxWqes <= 2 * CqeNum

ErrInv == sq_rsvd_index <= MaxWqes /\ ErrorIsTrue

(* A CQE that passes for the one polled for is that one.                   *)
LEMMA ObservedIsThis ==
  ASSUME LapTold, IInv, sq_rsvd_index <= MaxWqes, NEW i \in Nat, NEW ci \in Nat,
         ci <= i, ci <= nic_ci, InWindow(i, ci), Observed(cq[CqSlot(i)], i)
  PROVE  i < nic_ci /\ i = cq[CqSlot(i)]
<1> DEFINE e == cq[CqSlot(i)]
<1>1. i < nic_ci /\ i <= e
  BY ObservedCompleted
<1>2. CqeNum \in Nat \ {0} /\ IdxMod \in Nat \ {0} /\ MaxWqes \in Nat
  BY SizesAssumption
<1>3. CqSlot(i) \in 0 .. CqeNum - 1
  BY <1>2, DivMod DEF CqSlot
<1>4. e \in Int /\ CqSlot(e) = CqSlot(i) /\ e < nic_ci
  BY <1>3 DEF IInv, TypeOK, CqHolds
<1>5. e < MaxWqes
  <2>1. nic_ci <= sq_rsvd_index /\ nic_ci \in Nat /\ sq_rsvd_index \in Nat
    BY DEF IInv, TypeOK, IndexOrder
  <2> QED BY <1>2, <1>4, <2>1
<1>6. CASE WqeCounterCheck /\ MaxWqes <= IdxMod
  <2>1. i % IdxMod = e % IdxMod
    BY <1>6 DEF Observed, Idx16
  <2> HIDE DEF e
  <2>4. i \in Int /\ e \in Int /\ IdxMod \in Nat \ {0}
    BY <1>2, <1>4
  <2>2. i <= e /\ e < i + IdxMod
    BY <1>1, <1>2, <1>4, <1>5, <1>6
  <2>3. i = e
    BY <2>1, <2>2, <2>4, SameSlot, Zenon
  <2> QED BY <1>1, <2>3 DEF e
<1>7. CASE MaxWqes <= 2 * CqeNum
  <2>1. (e \div CqeNum) % 2 = (i \div CqeNum) % 2 /\ i % CqeNum = e % CqeNum
    BY <1>4 DEF Observed, OwnerBit, CqSlot
  <2> HIDE DEF e
  <2>5. i \in Int /\ e \in Int /\ CqeNum \in Nat \ {0}
    BY <1>2, <1>4
  <2>2. i <= e /\ e < i + 2 * CqeNum
    BY <1>1, <1>2, <1>4, <1>5, <1>7
  <2>3. e = i \/ e = i + CqeNum
    BY <2>1, <2>2, <2>5, SameOrNextLap, Zenon
  <2>4. ASSUME e = i + CqeNum PROVE FALSE
    <3>1. (i + CqeNum) \div CqeNum = (i \div CqeNum) + 1 /\ i \div CqeNum \in Int
      BY <2>5, NextLap, DivMod, Zenon
    <3> QED BY <2>1, <2>4, <3>1
  <2> QED BY <1>1, <2>3, <2>4 DEF e
<1> QED BY <1>6, <1>7 DEF LapTold

LEMMA ErrStep ==
  ASSUME LapTold, IInv, ErrInv, [Next]_vars
  PROVE  ErrInv'
<1>1. sq_rsvd_index' <= MaxWqes
  <2>1. CASE \E t \in Threads, n \in Counts : Reserve(t, n)
    BY <2>1 DEF Reserve
  <2>2. CASE sq_rsvd_index' = sq_rsvd_index
    BY <2>2 DEF ErrInv
  <2>3. ASSUME Next PROVE (\E t \in Threads, n \in Counts : Reserve(t, n)) \/ sq_rsvd_index' = sq_rsvd_index
    BY <2>3 DEF Next, Step, Call, NicTakeDb, NicDoorbell, NicRecover, NicComplete, LoadCi, LoadCqe, AdvanceCi,
       WriteWqe, MarkReady, StoreReady, Lock, SkipSubmit, FetchMax, RingEarly, RingDb, UpdateDbr, RingAgain,
       Unlock, Wait, TryPoll
  <2> QED BY <2>1, <2>2, <2>3 DEF vars
<1>2. SUFFICES ASSUME NEW u \in Threads, status'[u] = "error"
               PROVE  nic_ok' <= cons'[u] /\ cons'[u] < nic_ci'
  BY <1>1 DEF ErrInv, ErrorIsTrue
<1>3. /\ nic_ok \in Nat /\ nic_ci \in Nat /\ cons \in [Threads -> Nat] /\ status \in [Threads -> Statuses]
  BY DEF IInv, TypeOK
<1>4. ASSUME status[u] = "error", cons'[u] = cons[u]
      PROVE  nic_ok' <= cons'[u] /\ cons'[u] < nic_ci'
  <2>1. nic_ok <= cons[u] /\ cons[u] < nic_ci
    BY <1>4 DEF ErrInv, ErrorIsTrue
  <2>2. CASE NicComplete
    BY <1>3, <1>4, <2>1, <2>2 DEF NicComplete
  <2>3. CASE nic_ok' = nic_ok /\ nic_ci' = nic_ci
    BY <1>4, <2>1, <2>3
  <2>4. ASSUME Next PROVE NicComplete \/ (nic_ok' = nic_ok /\ nic_ci' = nic_ci)
    BY <2>4 DEF Next, Step, Call, NicTakeDb, NicDoorbell, NicRecover, LoadCi, LoadCqe, AdvanceCi,
       WriteWqe, MarkReady, StoreReady, Lock, SkipSubmit, FetchMax, RingEarly, RingDb, UpdateDbr, RingAgain,
       Unlock, Reserve, Wait, TryPoll
  <2> QED BY <2>2, <2>3, <2>4 DEF vars
<1>5. CASE status' = status /\ cons' = cons
  BY <1>2, <1>4, <1>5
<1>6. CASE \E t \in Threads : LoadCqe(t)
  <2>1. PICK t \in Threads : LoadCqe(t)
    BY <1>6
  <2>2. cons' = cons /\ nic_ok' = nic_ok /\ nic_ci' = nic_ci
    BY <2>1 DEF LoadCqe, FinishPoll, NotYet
  <2> DEFINE e == cq[CqSlot(cons[t])]
             there == InWindow(cons[t], seen_ci[t]) /\ Observed(e, cons[t])
  <2>3. CASE there /\ Failed(e) /\ status' = [status EXCEPT ![t] = "error"]
    <3>1. InWindow(cons[t], seen_ci[t]) /\ Observed(e, cons[t]) /\ Failed(e)
      BY <2>3
    <3>2. /\ pc[t] = "load_cqe" /\ cons[t] \in Nat /\ seen_ci[t] \in Nat
          /\ seen_ci[t] <= cons[t] /\ seen_ci[t] <= nic_ci
      <4>1. pc[t] = "load_cqe"
        BY <2>1 DEF LoadCqe
      <4>2. seen_ci[t] <= cqe_ci /\ seen_ci[t] <= cons[t]
        BY <4>1 DEF IInv, Polling
      <4> QED BY <4>1, <4>2, TypeFacts DEF IInv, IndexOrder
    <3>3. cons[t] < nic_ci /\ e = cons[t]
      BY <3>1, <3>2, ObservedIsThis DEF ErrInv
    <3>4. nic_ok <= cons[t]
      BY <1>3, <3>1, <3>2, <3>3 DEF Failed
    <3>5. CASE u = t
      BY <2>2, <3>3, <3>4, <3>5
    <3>6. CASE u # t
      BY <1>2, <1>3, <1>4, <2>2, <2>3, <3>6
    <3> QED BY <3>5, <3>6
  <2>4. CASE \/ status' = [status EXCEPT ![t] = "ok"] \/ status' = [status EXCEPT ![t] = "busy"]
             \/ status' = status
    BY <1>2, <1>3, <1>4, <2>2, <2>4
  <2> QED BY <2>1, <2>3, <2>4 DEF LoadCqe, FinishPoll, NotYet
<1>7. CASE \E t \in Threads : LoadCi(t) \/ AdvanceCi(t) \/ Wait(t) \/ TryPoll(t) \/ \E n \in Counts : Reserve(t, n)
  <2>1. PICK t \in Threads : LoadCi(t) \/ AdvanceCi(t) \/ Wait(t) \/ TryPoll(t) \/ \E n \in Counts : Reserve(t, n)
    BY <1>7
  <2>2. \/ status' = status /\ cons' = cons
        \/ \E v \in {"ok", "busy", "none"} : status' = [status EXCEPT ![t] = v]
    BY <2>1 DEF LoadCi, AdvanceCi, Wait, TryPoll, Reserve, StartPoll, FinishPoll
  <2>3. \A r \in Threads \ {t} : cons'[r] = cons[r]
    BY <1>3, <2>1 DEF LoadCi, AdvanceCi, Wait, TryPoll, Reserve, StartPoll, FinishPoll
  <2>4. CASE \E v \in {"ok", "busy", "none"} : status' = [status EXCEPT ![t] = v]
    <3>1. u # t /\ status[u] = "error"
      BY <1>2, <1>3, <2>4
    <3> QED BY <1>4, <2>3, <3>1
  <2> QED BY <1>5, <2>2, <2>4
<1>8. ASSUME Next
      PROVE  \/ status' = status /\ cons' = cons
             \/ \E t \in Threads : LoadCqe(t)
             \/ \E t \in Threads : LoadCi(t) \/ AdvanceCi(t) \/ Wait(t) \/ TryPoll(t) \/ \E n \in Counts : Reserve(t, n)
  BY <1>8 DEF Next, Step, Call, NicTakeDb, NicDoorbell, NicRecover, NicComplete,
     WriteWqe, MarkReady, StoreReady, Lock, SkipSubmit, FetchMax, RingEarly, RingDb, UpdateDbr, RingAgain, Unlock
<1> QED BY <1>5, <1>6, <1>7, <1>8 DEF vars

(* A poll reports an error only for a WQE that has itself completed with   *)
(* an error, as the comment of poll_cq_at promises, as long as the queue   *)
(* has not gone round what the poll compares (finding 1 of the README).    *)
THEOREM ErrorsSound ==
  ASSUME LapTold PROVE Spec => []ErrorIsTrue
<1>1. Init => ErrInv
  BY SizesAssumption DEF Init, ErrInv, ErrorIsTrue
<1>2. IInv /\ ErrInv /\ [Next]_vars => ErrInv'
  BY ErrStep
<1>3. ErrInv => ErrorIsTrue
  BY DEF ErrInv
<1> QED BY <1>1, <1>2, <1>3, Invariance, PTL DEF Spec

-----------------------------------------------------------------------------
(* SendQueue implements WorkQueue: every step of the code's threads and of *)
(* the NIC is a step of the bounded FIFO or leaves its five counters       *)
(* alone.  And what the doorbell record may do in one step.                *)

wqCounters == <<sq_ready_index, nic_pi, nic_ci, nic_ok, cqe_ci>>

(* Publication posts: it moves sq_ready_index past the reservation of t.   *)
LEMMA PublishPosts ==
  ASSUME IInv, IInv', NEW t \in Threads, MarkReady(t) \/ StoreReady(t)
  PROVE  WQ!Post \/ UNCHANGED wqCounters
<1>1. /\ sq_ready_index' = Prod(t) \/ sq_ready_index' = sq_ready_index
      /\ UNCHANGED <<nic_pi, nic_ci, nic_ok, cqe_ci>>
      /\ pc[t] \in {"ready", "ready_store"}
  BY DEF MarkReady, StoreReady
<1>2. Prod(t) \in Nat /\ Prod(t) > sq_ready_index
  BY TypeFacts, <1>1 DEF IInv, Reservations, Filling, FillPcs, Prod
<1>3. sq_ready_index' <= nic_ci + WqeNum
  BY <1>1 DEF IInv, IndexOrder
<1> QED
  BY <1>1, <1>2, <1>3 DEF WQ!Post, wqCounters

(* A poll that saw its completion acknowledges it, unless another poll     *)
(* already had.                                                            *)
LEMMA AdvanceCiAcknowledges ==
  ASSUME IInv, IInv', NEW t \in Threads, AdvanceCi(t)
  PROVE  WQ!Acknowledge \/ UNCHANGED wqCounters
<1>1. /\ cqe_ci' = Larger(cqe_ci, cons[t] + 1)
      /\ UNCHANGED <<sq_ready_index, nic_pi, nic_ci, nic_ok>>
  BY DEF AdvanceCi
<1>2. cqe_ci' \in Nat /\ cqe_ci' >= cqe_ci
  BY TypeFacts, <1>1 DEF Larger
<1>3. cqe_ci' <= nic_ok
  BY <1>1 DEF IInv, IndexOrder
<1> QED
  BY TypeFacts, <1>1, <1>2, <1>3 DEF WQ!Acknowledge, wqCounters

(* A doorbell, taken or recovered, submits.                                *)
LEMMA DoorbellSubmits ==
  ASSUME IInv, IInv', NicTakeDb
  PROVE  WQ!Submit \/ UNCHANGED wqCounters
<1>1. /\ nic_pi' = NextIndex(db) \/ nic_pi' = NextIndex(dbr)
      /\ UNCHANGED <<sq_ready_index, sq_wqe_pi, nic_ci, nic_ok, cqe_ci>>
      /\ db # NoDb
  BY DEF NicTakeDb, NicDoorbell, NicRecover
<1>2. db \in Int /\ dbr \in Int /\ nic_pi \in Nat
  BY DEF IInv, TypeOK, NoDb
<1>3. Idx16(db - nic_pi) \in Nat /\ Idx16(dbr - nic_pi) \in Nat
  BY <1>2, Idx16Type, SizesAssumption
<1>4. nic_pi' \in Nat /\ nic_pi' >= nic_pi
  BY <1>1, <1>2, <1>3 DEF NextIndex
<1>5. nic_pi' <= sq_ready_index
  BY TypeFacts, <1>1, <1>4 DEF IInv, IndexOrder
<1> QED
  BY <1>1, <1>2, <1>4, <1>5 DEF WQ!Submit, wqCounters

(* Every step of SendQueue is a step of WorkQueue or a stutter.            *)
LEMMA StepImplements ==
  ASSUME IInv, IInv', [Next]_vars
  PROVE  [WQ!Next]_(WQ!wqVars)
<1> SUFFICES WQ!Next \/ UNCHANGED wqCounters
  BY DEF WQ!wqVars, wqCounters
<1>1. CASE UNCHANGED vars
  BY <1>1 DEF vars, wqCounters
<1>2. CASE NicTakeDb
  BY <1>2, DoorbellSubmits DEF WQ!Next
<1>3. CASE NicComplete
  BY <1>3 DEF NicComplete, WQ!Next, WQ!Execute
<1>4. ASSUME NEW t \in Threads, Step(t)
      PROVE  WQ!Next \/ UNCHANGED wqCounters
  <2>1. CASE MarkReady(t) \/ StoreReady(t)
    BY <2>1, PublishPosts DEF WQ!Next
  <2>2. CASE AdvanceCi(t)
    BY <2>2, AdvanceCiAcknowledges DEF WQ!Next
  <2>3. CASE LoadCi(t) \/ LoadCqe(t) \/ WriteWqe(t)
    BY <2>3 DEF LoadCi, LoadCqe, WriteWqe, wqCounters
  <2>4. CASE Lock(t) \/ SkipSubmit(t) \/ FetchMax(t) \/ Unlock(t)
    BY <2>4 DEF Lock, SkipSubmit, FetchMax, Unlock, wqCounters
  <2>5. CASE RingEarly(t) \/ UpdateDbr(t) \/ RingAgain(t)
    BY <2>5 DEF RingEarly, RingAgain, RingDb, UpdateDbr, wqCounters
  <2> QED
    BY <1>4, <2>1, <2>2, <2>3, <2>4, <2>5 DEF Step
<1>5. ASSUME NEW t \in Threads, Call(t)
      PROVE  WQ!Next \/ UNCHANGED wqCounters
  BY <1>5 DEF Call, Reserve, Wait, TryPoll, wqCounters
<1> QED
  BY <1>1, <1>2, <1>3, <1>4, <1>5 DEF Next

(* The send queue keeps the promise of the bounded FIFO: WQEs are posted,  *)
(* submitted and executed in order, at most WqeNum ahead of execution, and *)
(* acknowledged to the kernel only after they succeeded.                   *)
THEOREM Refinement == Spec => ImplementsWorkQueue
<1>1. Init => WQ!Init
  BY DEF Init, WQ!Init
<1>2. IInv /\ IInv' /\ [Next]_vars => [WQ!Next]_(WQ!wqVars)
  BY StepImplements
<1> QED
  BY <1>1, <1>2, Invariance, PTL DEF Spec, ImplementsWorkQueue, WQ!Spec

(* The doorbell record moves forward by no more than a queue of WQEs: the  *)
(* NIC that recovers from it can tell which index its 16 bits mean.        *)
THEOREM DbrForward == Spec => DbrMovesForward
<1>1. ASSUME IInv, NEW t \in Threads, UpdateDbr(t) PROVE RecordForward
  <2>1. dbr' = Idx16(sq_wqe_pi) /\ sq_wqe_pi \in Int
    BY <1>1, TypeFacts DEF UpdateDbr, DbrValue, IInv, Submitting
  <2>2. PICK k \in 0 .. sq_wqe_pi : sq_wqe_pi <= k + WqeNum /\ dbr = Idx16(k)
    BY <1>1 DEF IInv, DbrBehind
  <2>3. /\ IdxMod \in Nat \ {0} /\ k \in Int
        /\ k <= sq_wqe_pi /\ sq_wqe_pi < k + IdxMod
    BY <2>1, <2>2, SizesAssumption
  <2>4. ((sq_wqe_pi % IdxMod) - (k % IdxMod)) % IdxMod = sq_wqe_pi - k
    BY <2>1, <2>3, SerialDistance, Zenon
  <2> QED
    BY <2>1, <2>2, <2>3, <2>4, SizesAssumption DEF Idx16, RecordForward
<1>2. ASSUME Next, \A t \in Threads : ~UpdateDbr(t) PROVE dbr' = dbr
  <2>1. CASE NicTakeDb \/ NicComplete
    BY <2>1 DEF NicTakeDb, NicDoorbell, NicRecover, NicComplete
  <2>2. ASSUME NEW t \in Threads, Call(t) PROVE dbr' = dbr
    BY <2>2 DEF Call, Reserve, Wait, TryPoll
  <2>3. ASSUME NEW t \in Threads, Step(t) PROVE dbr' = dbr
    BY <1>2, <2>3 DEF Step, LoadCi, LoadCqe, AdvanceCi, WriteWqe, MarkReady,
       StoreReady, Lock, SkipSubmit, FetchMax, RingEarly, RingAgain, RingDb, Unlock
  <2> QED
    BY <1>2, <2>1, <2>2, <2>3 DEF Next
<1>3. IInv /\ [Next]_vars => [RecordForward]_vars
  BY <1>1, <1>2 DEF RecordForward
<1> QED
  BY <1>3, Invariance, PTL DEF Spec, DbrMovesForward
=============================================================================
