---------------------------- MODULE DeviceProofs ----------------------------
(***************************************************************************)
(* Theorems about the two parts of the device library that MCDevice        *)
(* composes: the collapsed CQ, what a poll may conclude from 16 bits, for  *)
(* every number of threads, queue size and width of wqe_counter; and the   *)
(* operations that count their completion, for any threads, QPs and pairs  *)
(* of them.                                                                *)
(***************************************************************************)
EXTENDS MCDevice, ModArith, SequenceTheorems

-----------------------------------------------------------------------------
(* The inductive invariant of the collapsed CQ.                            *)

Order ==
  /\ cqe_ci <= nic_ok
  /\ nic_ok <= nic_ci
  /\ nic_ci <= sq_wqe_pi
  /\ sq_wqe_pi <= nic_ci + WqeNum

(* The CQE in slot 0 is that of the latest completion.                     *)
Latest ==
  /\ opcode # "invalid" => nic_ci > 0 /\ wqe_counter = Idx16(nic_ci - 1)
  /\ opcode = "ok" => nic_ok = nic_ci

(* The gate keeps polls from looking for a WQE far in the future, of which *)
(* the 16-bit distance would say nothing.                                  *)
Gated ==
  \A t \in Threads :
    pc[t] \in {"load_ci", "load_cqe", "advance"} => cons[t] <= sq_wqe_pi

Rebuilt ==
  \A t \in Threads :
    pc[t] = "advance" =>
      /\ status[t] = "ok"
      /\ new_ci[t] <= nic_ok
      /\ cons[t] <= cqe_ci \/ cons[t] <= new_ci[t]

(* What the loop does establish: WQEs before cons_index have completed.    *)
SeenBefore == \A t \in Threads : status[t] = "ok" => nic_ok > 0 /\ cons[t] <= nic_ok

(* new_cqe_ci of a poll that has not computed one is 0 or left behind.     *)
Fresh == \A t \in Threads : new_ci[t] <= nic_ok

IInv ==
  /\ TypeOK
  /\ Order
  /\ Latest
  /\ Gated
  /\ Fresh
  /\ Rebuilt
  /\ SeenBefore
  /\ ConsumerCoversPolls

-----------------------------------------------------------------------------
(* Arithmetic of the 16-bit counter.                                       *)

LEMMA Sizes == IdxMod \in Nat \ {0} /\ CqeNum \in Nat /\ WqeNum \in Nat
  BY SizesAssumption

LEMMA Idx16Type == \A i \in Int : Idx16(i) \in 0 .. IdxMod - 1
  BY Sizes, DivMod DEF Idx16

(* The 16-bit distance from the counter after n completions to a later     *)
(* index is the real one, as long as it is less than a lap.                *)
LEMMA CounterDistance ==
  ASSUME NEW n \in Nat, NEW c \in Nat, n > 0, n < c, c <= n + IdxMod
  PROVE  Idx16(Idx16(c) - Idx16(n - 1) - 2) = c - n - 1
<1> DEFINE m == IdxMod
           q == c \div m
           r == c % m
           p == (n - 1) \div m
           s == (n - 1) % m
<1>0. m \in Nat \ {0}
  BY Sizes
<1>1. /\ c = m * q + r /\ r \in 0 .. m - 1 /\ q \in Int
      /\ n - 1 = m * p + s /\ s \in 0 .. m - 1 /\ p \in Int
  <2>1. n - 1 \in Int /\ c \in Int
    OBVIOUS
  <2> QED
    BY <1>0, <2>1, DivMod
<1>2. c - n - 1 \in 0 .. m - 1
  BY <1>0
<1> HIDE DEF m, q, r, p, s
<1>3. /\ r - s - 2 = m * (p - q) + (c - n - 1)
      /\ r - s - 2 \in Int /\ p - q \in Int
  BY <1>0, <1>1, Z3
<1>4. c - n - 1 = (r - s - 2) % m
  BY <1>0, <1>2, <1>3, DivModUnique, Zenon
<1> QED
  BY <1>4 DEF Idx16, m, r, s

(* A poll that stops waiting is not ahead of the NIC.                      *)
LEMMA NotBehind ==
  ASSUME IInv, NEW c \in Nat, c <= sq_wqe_pi, opcode # "invalid", ~Behind(c)
  PROVE  c <= nic_ci
<1> SUFFICES ASSUME c > nic_ci PROVE Behind(c)
  BY DEF IInv, TypeOK
<1>1. /\ nic_ci \in Nat /\ nic_ci > 0 /\ nic_ci < c
      /\ c <= nic_ci + WqeNum /\ wqe_counter = Idx16(nic_ci - 1)
  BY SizesAssumption DEF IInv, TypeOK, Order, Latest
<1>2. c <= nic_ci + IdxMod /\ c - nic_ci - 1 < CqeNum
  BY <1>1, SizesAssumption
<1>3. Idx16(Idx16(c) - wqe_counter - 2) = c - nic_ci - 1
  BY <1>1, <1>2, CounterDistance
<1> QED
  BY <1>2, <1>3 DEF Behind

(* The counter plus one, truncated, is the number of completions.          *)
LEMMA CounterPlusOne ==
  ASSUME NEW n \in Nat, n > 0
  PROVE  Idx16(Idx16(n - 1) + 1) = Idx16(n)
<1> DEFINE m == IdxMod
           p == (n - 1) \div m
           s == (n - 1) % m
<1>0. m \in Nat \ {0} /\ n - 1 \in Int
  BY Sizes
<1>1. n - 1 = m * p + s /\ s \in 0 .. m - 1 /\ p \in Int
  BY <1>0, DivMod
<1> HIDE DEF m, p, s
<1>2. CASE s + 1 < m
  <2>1. n = m * p + (s + 1) /\ s + 1 \in 0 .. m - 1 /\ n \in Int
    BY <1>0, <1>1, <1>2
  <2>2. s + 1 = n % m
    BY <1>0, <1>1, <2>1, DivModUnique, Zenon
  <2>3. s + 1 = m * 0 + (s + 1) /\ s + 1 \in Int /\ 0 \in Int
    BY <1>0, <1>1
  <2>4. s + 1 = (s + 1) % m
    BY <1>0, <2>1, <2>3, DivModUnique, Zenon
  <2> QED
    BY <2>2, <2>4 DEF Idx16, m, s
<1>3. CASE s + 1 = m
  <2>1. /\ n = m * (p + 1) + 0 /\ 0 \in 0 .. m - 1 /\ n \in Int
        /\ p + 1 \in Int
    BY <1>0, <1>1, <1>3, Z3
  <2>2. 0 = n % m
    BY <1>0, <2>1, DivModUnique, Zenon
  <2>3. s + 1 = m * 1 + 0 /\ s + 1 \in Int /\ 1 \in Int
    BY <1>0, <1>1, <1>3
  <2>4. 0 = (s + 1) % m
    BY <1>0, <2>1, <2>3, DivModUnique, Zenon
  <2> QED
    BY <2>2, <2>4 DEF Idx16, m, s
<1> QED
  BY <1>0, <1>1, <1>2, <1>3

(* The index rebuilt from 16 bits lies between the index polled and the    *)
(* number of completions, however far apart the two are.                   *)
LEMMA NewCiBetween ==
  ASSUME IInv, opcode # "invalid", NEW c \in Nat, c <= nic_ci
  PROVE  NewCi(c) \in Nat /\ c <= NewCi(c) /\ NewCi(c) <= nic_ci
<1> DEFINE m == IdxMod
           q == c \div m
           r == c % m
           p == nic_ci \div m
           s == nic_ci % m
<1>0. m \in Nat \ {0} /\ nic_ci \in Nat /\ nic_ci > 0
  BY Sizes DEF IInv, TypeOK, Latest
<1>1. /\ c = m * q + r /\ r \in 0 .. m - 1 /\ q \in Int
      /\ nic_ci = m * p + s /\ s \in 0 .. m - 1 /\ p \in Int
  <2>1. c \in Int /\ nic_ci \in Int
    BY <1>0
  <2> QED
    BY <1>0, <2>1, DivMod
<1>2. NewCi(c) = c - r + s + (IF r > s THEN m ELSE 0)
  BY <1>0, CounterPlusOne DEF NewCi, Idx16, IInv, Latest
<1> HIDE DEF m, q, r, p, s
<1>3. CASE r > s
  <2>1. m * (p - q) > 0
    BY <1>0, <1>1, <1>3, Z3
  <2>2. p - q >= 1
    BY <1>0, <1>1, <2>1, Z3
  <2>3. m * (p - q) >= m
    BY <1>0, <1>1, <2>2, Z3
  <2>4. nic_ci - c = m * (p - q) + s - r
    BY <1>0, <1>1, Z3
  <2> QED
    BY <1>0, <1>1, <1>2, <1>3, <2>3, <2>4
<1>4. CASE r <= s
  <2>1. m * (p - q) > 0 - m
    BY <1>0, <1>1, <1>4, Z3
  <2>2. p - q >= 0
    BY <1>0, <1>1, <2>1, Z3
  <2>3. m * (p - q) >= 0
    BY <1>0, <1>1, <2>2, Z3
  <2>4. nic_ci - c = m * (p - q) + s - r
    BY <1>0, <1>1, Z3
  <2> QED
    BY <1>0, <1>1, <1>2, <1>4, <2>3, <2>4
<1> QED
  BY <1>0, <1>1, <1>3, <1>4

-----------------------------------------------------------------------------
(* The invariant holds initially and every step preserves it.              *)

USE DEF nicVars

LEMMA Facts ==
  ASSUME IInv
  PROVE  /\ sq_wqe_pi \in Nat /\ cqe_ci \in Nat /\ nic_ci \in Nat /\ nic_ok \in Nat
         /\ pc \in [Threads -> Pcs]
         /\ status \in [Threads -> Statuses]
         /\ \A u \in Threads : cons[u] \in Nat /\ new_ci[u] \in Nat
         /\ cons \in [Threads -> Nat] /\ new_ci \in [Threads -> Nat]
  BY DEF IInv, TypeOK

LEMMA Initially == Init => IInv
<1> SUFFICES ASSUME Init PROVE IInv
  OBVIOUS
<1>1. TypeOK
  BY Sizes DEF Init, TypeOK, Opcodes, Pcs, Statuses
<1>2. Order /\ Latest
  BY Sizes DEF Init, Order, Latest
<1>3. Gated /\ Fresh /\ Rebuilt /\ SeenBefore /\ ConsumerCoversPolls
  BY DEF Init, Gated, Fresh, Rebuilt, SeenBefore, ConsumerCoversPolls
<1> QED
  BY <1>1, <1>2, <1>3 DEF IInv

LEMMA StepSubmit ==
  ASSUME IInv, Submit
  PROVE  IInv'
<1>1. TypeOK' /\ Order'
  BY Sizes DEF Submit, IInv, TypeOK, Order
<1>2. Latest' /\ SeenBefore' /\ ConsumerCoversPolls' /\ Rebuilt' /\ Fresh'
  BY DEF Submit, IInv, Latest, SeenBefore, ConsumerCoversPolls, Rebuilt, Fresh
<1>3. Gated'
  BY Facts DEF Submit, IInv, Gated
<1> QED
  BY <1>1, <1>2, <1>3 DEF IInv

LEMMA StepNicComplete ==
  ASSUME IInv, NicComplete
  PROVE  IInv'
<1>1. /\ nic_ci' = nic_ci + 1 /\ nic_ci < sq_wqe_pi
      /\ wqe_counter' = Idx16(nic_ci)
      /\ nic_ok' \in Nat /\ nic_ok <= nic_ok' /\ nic_ok' <= nic_ci'
      /\ opcode' \in {"ok", "req_err"}
      /\ opcode' = "ok" => nic_ok' = nic_ci'
      /\ UNCHANGED <<sq_wqe_pi, cqe_ci, pc, cons, new_ci, status>>
  BY Facts DEF NicComplete, IInv, Order
<1>2. TypeOK'
  BY Facts, <1>1, Idx16Type DEF IInv, TypeOK, Opcodes
<1>3. Order'
  BY Facts, <1>1, Sizes DEF IInv, Order
<1>4. Latest'
  BY Facts, <1>1 DEF Latest, Idx16
<1>5. Gated' /\ Rebuilt' /\ Fresh'
  BY Facts, <1>1 DEF IInv, Gated, Rebuilt, Fresh
<1>6. SeenBefore' /\ ConsumerCoversPolls'
  BY Facts, <1>1 DEF IInv, SeenBefore, ConsumerCoversPolls
<1> QED
  BY <1>2, <1>3, <1>4, <1>5, <1>6 DEF IInv

LEMMA StepStartPoll ==
  ASSUME IInv, NEW t \in Threads, NEW index \in 0 .. MaxWqes, StartPoll(t, index)
  PROVE  IInv'
<1>1. /\ pc[t] = "idle"
      /\ pc' = [pc EXCEPT ![t] = "gate"]
      /\ cons' = [cons EXCEPT ![t] = index]
      /\ new_ci' = [new_ci EXCEPT ![t] = 0]
      /\ status' = [status EXCEPT ![t] = "none"]
      /\ UNCHANGED <<sq_wqe_pi, cqe_ci, nicVars>>
  BY DEF StartPoll, Goto
<1>2. TypeOK'
  BY Facts, <1>1, SizesAssumption DEF IInv, TypeOK, Pcs, Statuses
<1>3. Order' /\ Latest'
  BY <1>1 DEF IInv, Order, Latest
<1>4. Gated' /\ Rebuilt' /\ Fresh'
  BY Facts, <1>1 DEF IInv, Gated, Rebuilt, Fresh
<1>5. SeenBefore' /\ ConsumerCoversPolls'
  BY Facts, <1>1 DEF IInv, SeenBefore, ConsumerCoversPolls
<1> QED
  BY <1>2, <1>3, <1>4, <1>5 DEF IInv

LEMMA StepPassGate ==
  ASSUME IInv, NEW t \in Threads, PassGate(t)
  PROVE  IInv'
<1>1. /\ pc[t] = "gate" /\ cons[t] <= sq_wqe_pi
      /\ pc' = [pc EXCEPT ![t] = "load_ci"]
      /\ UNCHANGED <<sq_wqe_pi, cqe_ci, nicVars, cons, new_ci, status>>
  BY Facts DEF PassGate, Submitted, Goto
<1>2. TypeOK'
  BY Facts, <1>1 DEF IInv, TypeOK, Pcs
<1>3. Order' /\ Latest'
  BY <1>1 DEF IInv, Order, Latest
<1>4. Gated' /\ Rebuilt' /\ Fresh'
  BY Facts, <1>1 DEF IInv, Gated, Rebuilt, Fresh
<1>5. SeenBefore' /\ ConsumerCoversPolls'
  BY Facts, <1>1 DEF IInv, SeenBefore, ConsumerCoversPolls
<1> QED
  BY <1>2, <1>3, <1>4, <1>5 DEF IInv

LEMMA StepLoadCi ==
  ASSUME IInv, NEW t \in Threads, LoadCi(t)
  PROVE  IInv'
<1>1. /\ pc[t] = "load_ci"
      /\ \/ /\ cons[t] < cqe_ci
            /\ pc' = [pc EXCEPT ![t] = "advance"]
            /\ status' = [status EXCEPT ![t] = "ok"]
         \/ /\ pc' = [pc EXCEPT ![t] = "load_cqe"]
            /\ status' = status
      /\ UNCHANGED <<sq_wqe_pi, cqe_ci, nicVars, cons, new_ci>>
  BY DEF LoadCi, Goto
<1>2. TypeOK'
  BY Facts, <1>1 DEF IInv, TypeOK, Pcs, Statuses
<1>3. Order' /\ Latest'
  BY <1>1 DEF IInv, Order, Latest
<1>4. Gated' /\ Fresh'
  BY Facts, <1>1 DEF IInv, Gated, Fresh
<1>5. new_ci[t] <= nic_ok
  BY DEF IInv, Fresh
<1>6. Rebuilt'
  BY Facts, <1>1, <1>5 DEF IInv, Rebuilt
<1>7. SeenBefore' /\ ConsumerCoversPolls'
  BY Facts, <1>1 DEF IInv, Order, SeenBefore, ConsumerCoversPolls
<1> QED
  BY <1>2, <1>3, <1>4, <1>6, <1>7 DEF IInv

LEMMA StepLoadCqe ==
  ASSUME IInv, NEW t \in Threads, LoadCqe(t)
  PROVE  IInv'
<1>1. /\ pc[t] = "load_cqe"
      /\ \/ /\ pc' = [pc EXCEPT ![t] = "load_ci"]
            /\ UNCHANGED <<new_ci, status>>
         \/ /\ opcode = "ok" /\ ~Behind(cons[t])
            /\ pc' = [pc EXCEPT ![t] = "advance"]
            /\ new_ci' = [new_ci EXCEPT ![t] = NewCi(cons[t])]
            /\ status' = [status EXCEPT ![t] = "ok"]
         \/ /\ pc' = [pc EXCEPT ![t] = "idle"]
            /\ status' = [status EXCEPT ![t] = "error"]
            /\ UNCHANGED new_ci
      /\ UNCHANGED <<sq_wqe_pi, cqe_ci, nicVars, cons>>
  BY DEF LoadCqe, Goto
<1>2. ASSUME opcode = "ok", ~Behind(cons[t])
      PROVE  /\ NewCi(cons[t]) \in Nat
             /\ cons[t] <= NewCi(cons[t])
             /\ NewCi(cons[t]) <= nic_ok
             /\ cons[t] <= nic_ok /\ nic_ok > 0
  <2>1. cons[t] \in Nat /\ cons[t] <= sq_wqe_pi
    BY Facts, <1>1 DEF IInv, Gated
  <2>2. cons[t] <= nic_ci
    BY <1>2, <2>1, NotBehind
  <2>3. nic_ok = nic_ci /\ nic_ci > 0
    BY <1>2 DEF IInv, Latest
  <2> QED
    BY <1>2, <2>1, <2>2, <2>3, NewCiBetween
<1>3. TypeOK'
  BY Facts, <1>1, <1>2 DEF IInv, TypeOK, Pcs, Statuses
<1>4. Order' /\ Latest'
  BY <1>1 DEF IInv, Order, Latest
<1>5. Gated'
  BY Facts, <1>1 DEF IInv, Gated
<1>6. Rebuilt'
  BY Facts, <1>1, <1>2 DEF IInv, Rebuilt
<1>7. Fresh'
  BY Facts, <1>1, <1>2 DEF IInv, Fresh
<1>8. SeenBefore'
  BY Facts, <1>1, <1>2 DEF IInv, SeenBefore
<1>9. ConsumerCoversPolls'
  BY Facts, <1>1 DEF IInv, ConsumerCoversPolls
<1> QED
  BY <1>3, <1>4, <1>5, <1>6, <1>7, <1>8, <1>9 DEF IInv

LEMMA StepAdvanceCi ==
  ASSUME IInv, NEW t \in Threads, AdvanceCi(t)
  PROVE  IInv'
<1>1. /\ pc[t] = "advance"
      /\ cqe_ci' = Larger(cqe_ci, new_ci[t])
      /\ pc' = [pc EXCEPT ![t] = "idle"]
      /\ UNCHANGED <<sq_wqe_pi, nicVars, cons, new_ci, status>>
  BY DEF AdvanceCi, Goto
<1>2. /\ cqe_ci' \in Nat /\ cqe_ci <= cqe_ci' /\ cqe_ci' <= nic_ok
      /\ cons[t] <= cqe_ci'
  BY Facts, <1>1 DEF IInv, Order, Rebuilt, Larger
<1>3. TypeOK'
  BY Facts, <1>1, <1>2 DEF IInv, TypeOK, Pcs
<1>4. Order' /\ Latest'
  BY Facts, <1>1, <1>2 DEF IInv, Order, Latest
<1>5. Gated' /\ Fresh'
  BY Facts, <1>1 DEF IInv, Gated, Fresh
<1>6. Rebuilt'
  BY Facts, <1>1, <1>2 DEF IInv, Rebuilt
<1>7. SeenBefore'
  BY <1>1 DEF IInv, SeenBefore
<1>8. ConsumerCoversPolls'
  BY Facts, <1>1, <1>2 DEF IInv, ConsumerCoversPolls
<1> QED
  BY <1>3, <1>4, <1>5, <1>6, <1>7, <1>8 DEF IInv

-----------------------------------------------------------------------------
(* Theorems.                                                               *)

(* The inductive invariant holds in every reachable state.                 *)
THEOREM Invariance == Spec => []IInv
<1>1. IInv /\ [Next]_vars => IInv'
  <2> SUFFICES ASSUME IInv, [Next]_vars PROVE IInv'
    OBVIOUS
  <2>1. CASE UNCHANGED vars
    BY <2>1 DEF vars, IInv, TypeOK, Order, Latest, Gated, Rebuilt, Fresh,
       SeenBefore, ConsumerCoversPolls
  <2>2. ASSUME NEW t \in Threads, Step(t) PROVE IInv'
    BY <2>2, StepPassGate, StepLoadCi, StepLoadCqe, StepAdvanceCi DEF Step
  <2> QED
    BY <2>1, <2>2, StepSubmit, StepNicComplete, StepStartPoll DEF Next
<1> QED
  BY <1>1, Initially, PTL DEF Spec

(* A poll at cons_index that returns success has seen every WQE before     *)
(* cons_index complete without error: one less than it is documented to    *)
(* wait for (run poll_collapsed).                                          *)
THEOREM PollsSeeBefore == Spec => []SeenBefore
<1>1. IInv => SeenBefore
  BY DEF IInv
<1> QED
  BY <1>1, Invariance, PTL

(* The consumer index rebuilt from 16 bits never claims too much ...       *)
THEOREM ConsumerSound == Spec => []ConsumerBehindNic
<1>1. IInv => ConsumerBehindNic
  BY DEF IInv, Order, ConsumerBehindNic
<1> QED
  BY <1>1, Invariance, PTL

(* ... nor, after a poll, less than that poll has seen.                    *)
THEOREM ConsumerComplete == Spec => []ConsumerCoversPolls
<1>1. IInv => ConsumerCoversPolls
  BY DEF IInv
<1> QED
  BY <1>1, Invariance, PTL

(* Together: cqe_ci lies between what polls have reported and what has     *)
(* succeeded.                                                              *)
THEOREM ConsumerExact == Spec => []ConsumerIsExact
<1>1. ConsumerBehindNic /\ ConsumerCoversPolls => ConsumerIsExact
  BY DEF ConsumerIsExact
<1> QED
  BY <1>1, ConsumerSound, ConsumerComplete, PTL
-----------------------------------------------------------------------------
(* The inductive invariant of the counted operations.                      *)

Sides == {1, 2}

(* Where the WQEs of an operation stand on one of its QPs: reserved and    *)
(* not yet marked ready, filled among those, marked ready.                 *)
Unmarked(p, s) == IF s = 1 THEN at[p] \in {2, 3} ELSE at[p] \in {5, 6}
Filled(p, s) == at[p] = IF s = 1 THEN 3 ELSE 6
Marked(p, s) == at[p] > IF s = 1 THEN 3 ELSE 6
Mine(p, s) == from[p][s] .. ProdIndex(p, s) - 1
Slot(q, i) == wqe[q][i % SqSize]

Calls == \A p \in Posters : at[p] # 0 => len[p][1] >= 1 /\ len[p][2] = 2

(* Reservations not yet marked are above sq_ready_index and disjoint,      *)
(* whichever side of its thread the QP is.                                 *)
Reserved ==
  /\ \A p \in Posters, s \in Sides : Unmarked(p, s) =>
       /\ ready[Qp(p, s)] <= from[p][s]
       /\ ProdIndex(p, s) <= rsvd[Qp(p, s)]
  /\ \A p, o \in Posters : \A s, z \in Sides :
       p # o /\ Unmarked(p, s) /\ Unmarked(o, z) /\ Qp(p, s) = Qp(o, z) =>
         ProdIndex(p, s) <= from[o][z] \/ ProdIndex(o, z) <= from[p][s]

(* What has been filled stays in its slots until it is marked.             *)
Prepared ==
  \A p \in Posters, s \in Sides : Filled(p, s) =>
    /\ ProdIndex(p, s) <= hw_ci[Qp(p, s)] + SqSize
    /\ \A i \in Mine(p, s) : Slot(Qp(p, s), i) = Content(p, s, i)

(* What is marked is ready, what is rung sq_wqe_pi covers.                 *)
Rings ==
  \A p \in Posters, s \in Sides :
    /\ Marked(p, s) => ProdIndex(p, s) <= ready[Qp(p, s)]
    /\ at[p] > 0 /\ OpSteps[at[p]] = <<"ring", s>> => ProdIndex(p, s) <= prod[Qp(p, s)]

(* An add that is ready follows the WAIT for its data, until that WAIT has *)
(* been executed and the data, therefore, completed.                       *)
Guards(v, w) == v.kind = "wait" /\ v.on = w.on /\ v.index = w.index
AddIsGuarded(q, i) ==
  LET w == Slot(q, i)
  IN  w.kind = "add" =>
        /\ w.on \in Qps /\ w.index \in Int
        /\ w.index < hw_ci[w.on] \/ (i > hw_ci[q] /\ Guards(Slot(q, i - 1), w))

Queued ==
  \A q \in Qps :
    /\ ready[q] <= hw_ci[q] + SqSize
    /\ \A i \in hw_ci[q] .. ready[q] - 1 : AddIsGuarded(q, i)

CtrInv == CtrTypeOK /\ Calls /\ Reserved /\ Prepared /\ Rings /\ Queued

-----------------------------------------------------------------------------
(* The steps of an operation.                                              *)

LEMMA CtrSizes == SqSize \in Nat \ {0} /\ SqSize >= 2 /\ Lens \subseteq Nat \ {0} /\ MaxOps \in Nat
BY LayoutsAssumption

LEMMA StepsAre ==
  /\ Len(OpSteps) = 6 + Len(SubmitAll)
  /\ \A k \in 1 .. 6 : OpSteps[k] = Prepare[k]
  /\ \A k \in 7 .. 6 + Len(SubmitAll) : OpSteps[k] = SubmitAll[k - 6]
<1> DEFINE Str == {"reserve", "fill", "mark", "lock", "raise", "ring", "unlock"} \X {1, 2}
<1>1. Prepare \in Seq(Str) /\ Len(Prepare) = 6
  BY DEF Prepare
<1>2. SubmitAll \in Seq(Str)
  <2>1. CASE handler = "db"
    BY <2>1 DEF SubmitAll
  <2>2. CASE handler # "db"
    BY <2>2 DEF SubmitAll
  <2> QED BY <2>1, <2>2
<1>3. OpSteps = Prepare \o SubmitAll
  BY DEF OpSteps
<1> HIDE DEF Str
<1>4. /\ Len(OpSteps) = 6 + Len(SubmitAll)
      /\ \A k \in 1 .. Len(Prepare) + Len(SubmitAll) :
           OpSteps[k] = IF k <= Len(Prepare) THEN Prepare[k] ELSE SubmitAll[k - Len(Prepare)]
  <2>1. /\ Len(Prepare \o SubmitAll) = Len(Prepare) + Len(SubmitAll)
        /\ \A k \in 1 .. Len(Prepare) + Len(SubmitAll) :
             (Prepare \o SubmitAll)[k] = IF k <= Len(Prepare) THEN Prepare[k] ELSE SubmitAll[k - Len(Prepare)]
    BY <1>1, <1>2, ConcatProperties, Zenon
  <2> QED BY <1>1, <1>3, <2>1, Zenon
<1>5. Len(SubmitAll) \in Nat
  BY <1>2
<1> QED BY <1>1, <1>4, <1>5

LEMMA AtStep ==
  ASSUME CtrTypeOK, NEW p \in Posters, NEW s \in Sides, NEW name, At(p, name, s)
  PROVE  /\ name = "reserve" => at[p] = IF s = 1 THEN 1 ELSE 4
         /\ name = "fill" => at[p] = IF s = 1 THEN 2 ELSE 5
         /\ name = "mark" => at[p] = IF s = 1 THEN 3 ELSE 6
         /\ name \in {"lock", "raise", "ring", "unlock"} => at[p] > 6
         /\ at[p] # 0
         /\ at' \in [Posters -> 0 .. Len(OpSteps)]
         /\ \A o \in Posters \ {p} : at'[o] = at[o]
         /\ at'[p] = at[p] + 1 \/ (at'[p] = 0 /\ at[p] > 6)
         /\ \A z \in Sides : at'[p] > 0 /\ OpSteps[at'[p]] = <<"ring", z>> => name = "raise" /\ z = s
<1>1. /\ at \in [Posters -> 0 .. Len(OpSteps)] /\ at[p] > 0 /\ OpSteps[at[p]] = <<name, s>>
      /\ at' = [at EXCEPT ![p] = (at[p] + 1) % (Len(OpSteps) + 1)] /\ handler \in {"db", "no_dbr"}
  BY DEF CtrTypeOK, At
<1>2. CASE handler = "db"
  <2>1. Len(SubmitAll) = 8 /\ Len(OpSteps) = 14
    BY <1>2, StepsAre DEF SubmitAll
  <2>2. at[p] \in 1 .. 14 /\ at'[p] = IF at[p] = 14 THEN 0 ELSE at[p] + 1
    BY <1>1, <2>1
  <2> QED BY <1>1, <1>2, <2>1, <2>2, StepsAre DEF Sides, Prepare, SubmitAll
<1>3. CASE handler = "no_dbr"
  <2>1. Len(SubmitAll) = 4 /\ Len(OpSteps) = 10
    BY <1>3, StepsAre DEF SubmitAll
  <2>2. at[p] \in 1 .. 10 /\ at'[p] = IF at[p] = 10 THEN 0 ELSE at[p] + 1
    BY <1>1, <2>1
  <2> QED BY <1>1, <1>3, <2>1, <2>2, StepsAre DEF Sides, Prepare, SubmitAll
<1> QED BY <1>1, <1>2, <1>3

LEMMA CtrFacts ==
  ASSUME CtrInv
  PROVE  /\ \A p \in Posters, s \in Sides :
              /\ Qp(p, s) \in Qps /\ from[p][s] \in Nat /\ len[p][s] \in Nat /\ ProdIndex(p, s) \in Nat
              /\ ProdIndex(p, s) = from[p][s] + len[p][s]
              /\ at[p] \in Nat
         /\ \A q \in Qps :
              /\ rsvd[q] \in Nat /\ ready[q] \in Nat /\ prod[q] \in Nat /\ hw_pi[q] \in Nat /\ hw_ci[q] \in Nat
              /\ hw_ci[q] <= hw_pi[q] /\ hw_pi[q] <= prod[q]
              /\ prod[q] <= ready[q] /\ ready[q] <= rsvd[q]
<1>1. CtrTypeOK
  BY DEF CtrInv
<1>2. \A p \in Posters, s \in Sides : from[p][s] \in Nat /\ len[p][s] \in Nat
  BY <1>1 DEF CtrTypeOK, Sides
<1>3. \A p \in Posters, s \in Sides : Qp(p, s) \in Qps
  <2>1. qps \in [Posters -> [{1, 2} -> Qps]]
    BY <1>1, LayoutsAssumption, Zenon DEF CtrTypeOK
  <2> QED BY <2>1 DEF Sides, Qp
<1>4. \A p \in Posters : at[p] \in Nat
  BY <1>1 DEF CtrTypeOK
<1>5. \A p \in Posters, s \in Sides : ProdIndex(p, s) = from[p][s] + len[p][s]
  BY DEF ProdIndex
<1>6. \A q \in Qps : rsvd[q] \in Nat /\ ready[q] \in Nat /\ prod[q] \in Nat /\ hw_pi[q] \in Nat /\ hw_ci[q] \in Nat
  BY <1>1 DEF CtrTypeOK
<1>7. \A q \in Qps : /\ hw_ci[q] <= hw_pi[q] /\ hw_pi[q] <= prod[q]
                     /\ prod[q] <= ready[q] /\ ready[q] <= rsvd[q]
  BY <1>1 DEF CtrTypeOK
<1> HIDE DEF CtrInv
<1> QED BY <1>2, <1>3, <1>4, <1>5, <1>6, <1>7

LEMMA CtrInitHolds == CtrInit => CtrInv
<1> SUFFICES ASSUME CtrInit PROVE CtrInv
  OBVIOUS
<1>1. at = [p \in Posters |-> 0] /\ ops = [p \in Posters |-> 0] /\ counted = [p \in Posters |-> 0]
  BY DEF CtrInit
<1>2. \A q \in Qps : rsvd[q] = 0 /\ ready[q] = 0 /\ prod[q] = 0 /\ hw_pi[q] = 0 /\ hw_ci[q] = 0
  BY DEF CtrInit
<1>3. {rsvd, ready, prod, hw_pi, hw_ci} \subseteq [Qps -> Nat]
  BY DEF CtrInit
<1>4. <<0, 0>> \in [{1, 2} -> Nat]
  OBVIOUS
<1>5. from \in [Posters -> [{1, 2} -> Nat]] /\ len \in [Posters -> [{1, 2} -> Nat]]
  BY <1>4 DEF CtrInit
<1>6. at \in [Posters -> 0 .. Len(OpSteps)]
  <2>1. Len(SubmitAll) \in Nat
    BY DEF SubmitAll
  <2> QED BY <1>1, <2>1, StepsAre
<1>7. CtrTypeOK
  BY <1>1, <1>2, <1>3, <1>5, <1>6, CtrSizes DEF CtrInit, CtrTypeOK
<1>8. Calls /\ Reserved /\ Prepared /\ Rings
  BY <1>1 DEF Calls, Reserved, Prepared, Rings, Unmarked, Filled, Marked, Sides
<1>9. Queued
  BY <1>2, CtrSizes DEF Queued
<1> QED BY <1>7, <1>8, <1>9 DEF CtrInv

(* What a thread does in submit, given the types: it stays where its WQEs  *)
(* are marked, and rings only once sq_wqe_pi covers them.                  *)
LEMMA SubmitKeeps ==
  ASSUME CtrInv, NEW p \in Posters, NEW s \in Sides, NEW name \in {"lock", "raise", "ring", "unlock"},
         At(p, name, s), UNCHANGED <<qps, handler, rsvd, ready, wqe, hw_ci, from, len>>,
         CtrTypeOK', \A q \in Qps : prod[q] <= prod'[q],
         name = "raise" => ProdIndex(p, s) <= prod'[Qp(p, s)]
  PROVE  CtrInv'
<1>1. /\ at[p] > 6
      /\ \A o \in Posters \ {p} : at'[o] = at[o]
      /\ at'[p] = at[p] + 1 \/ (at'[p] = 0 /\ at[p] > 6)
      /\ \A z \in Sides : at'[p] > 0 /\ OpSteps[at'[p]] = <<"ring", z>> => name = "raise" /\ z = s
  BY AtStep DEF CtrInv
<1>2. \A o \in Posters, z \in Sides :
        /\ ProdIndex(o, z)' = ProdIndex(o, z) /\ Qp(o, z)' = Qp(o, z)
        /\ Unmarked(o, z)' <=> Unmarked(o, z)
        /\ Filled(o, z)' <=> Filled(o, z)
        /\ Marked(o, z)' => Marked(o, z)
  BY <1>1, CtrFacts DEF ProdIndex, Qp, Unmarked, Filled, Marked, Sides
<1>3. Calls'
  BY <1>1 DEF CtrInv, Calls
<1>4. Reserved'
  BY <1>2 DEF CtrInv, Reserved
<1>5. Prepared'
  <2>1. \A o \in Posters, z \in Sides : \A i : Content(o, z, i)' = Content(o, z, i)
    BY DEF Content, WaitIndex, ProdIndex, Qp
  <2> QED BY <1>2, <2>1 DEF CtrInv, Prepared, Mine, Slot
<1>6. Rings'
  <2> SUFFICES ASSUME NEW o \in Posters, NEW z \in Sides
               PROVE  /\ Marked(o, z)' => ProdIndex(o, z) <= ready[Qp(o, z)]
                      /\ at'[o] > 0 /\ OpSteps'[at'[o]] = <<"ring", z>> => ProdIndex(o, z) <= prod'[Qp(o, z)]
    BY <1>2 DEF Rings
  <2>1. OpSteps' = OpSteps
    BY DEF OpSteps, SubmitAll
  <2>2. CASE o = p
    BY <1>1, <1>2, <2>1, <2>2 DEF CtrInv, Rings
  <2>3. CASE o # p
    <3>1. prod[Qp(o, z)] <= prod'[Qp(o, z)] /\ prod[Qp(o, z)] \in Nat /\ prod'[Qp(o, z)] \in Nat
          /\ ProdIndex(o, z) \in Nat /\ at'[o] = at[o]
      BY <1>1, <2>3, CtrFacts DEF CtrTypeOK
    <3> QED BY <1>2, <2>1, <3>1 DEF CtrInv, Rings
  <2> QED BY <2>2, <2>3
<1>7. Queued'
  BY DEF CtrInv, Queued, AddIsGuarded, Guards, Slot
<1> QED BY <1>3, <1>4, <1>5, <1>6, <1>7 DEF CtrInv

LEMMA LockKeeps ==
  ASSUME CtrInv, NEW p \in Posters, NEW s \in Sides, Lock(p, s) \/ Unlock(p, s)
  PROVE  CtrInv'
<1>1. PICK name \in {"lock", "unlock"} : At(p, name, s)
  BY DEF Lock, Unlock
<1>2. CtrTypeOK'
  <2>1. at' \in [Posters -> 0 .. Len(OpSteps)]
    BY <1>1, AtStep DEF CtrInv
  <2>2. OpSteps' = OpSteps
    BY DEF Lock, Unlock, OpSteps, SubmitAll
  <2>3. lock' \in [Qps -> Posters \cup {"free"}]
    BY DEF Lock, Unlock, CtrInv, CtrTypeOK
  <2>4. UNCHANGED <<qps, handler, rsvd, ready, prod, wqe, hw_pi, hw_ci, counted,
                    from, len, raised, ops>>
    BY DEF Lock, Unlock, hwVars
  <2>5. CtrTypeOK
    BY DEF CtrInv
  <2> QED BY <2>1, <2>2, <2>3, <2>4, <2>5 DEF CtrTypeOK
<1>3. \A q \in Qps : prod[q] <= prod'[q]
  BY CtrFacts DEF Lock, Unlock
<1> QED BY <1>1, <1>2, <1>3, SubmitKeeps DEF Lock, Unlock, hwVars

LEMMA RaiseKeeps ==
  ASSUME CtrInv, NEW p \in Posters, NEW s \in Sides, Raise(p, s)
  PROVE  CtrInv'
<1>1. /\ at[p] > 6 /\ at' \in [Posters -> 0 .. Len(OpSteps)]
  BY AtStep DEF CtrInv, Raise
<1>2. ProdIndex(p, s) <= ready[Qp(p, s)]
  <2>1. Marked(p, s)
    BY <1>1, CtrFacts DEF Marked
  <2> QED BY <2>1 DEF CtrInv, Rings
<1>9. /\ Qp(p, s) \in Qps /\ ProdIndex(p, s) \in Nat /\ prod \in [Qps -> Nat]
      /\ \A q \in Qps : hw_pi[q] \in Nat /\ hw_pi[q] <= prod[q] /\ prod[q] <= ready[q] /\ ready[q] \in Nat
  BY CtrFacts DEF CtrInv, CtrTypeOK
<1>3. /\ prod' = [prod EXCEPT ![Qp(p, s)] = IF prod[Qp(p, s)] < ProdIndex(p, s) THEN ProdIndex(p, s) ELSE prod[Qp(p, s)]]
      /\ raised' = [raised EXCEPT ![p] = prod[Qp(p, s)] < ProdIndex(p, s)]
  BY DEF Raise
<1>4. prod' \in [Qps -> Nat] /\ \A q \in Qps : hw_pi[q] <= prod'[q] /\ prod'[q] <= ready[q] /\ prod[q] <= prod'[q]
  BY <1>2, <1>3, <1>9
<1>5. raised' \in [Posters -> BOOLEAN]
  BY <1>3 DEF CtrInv, CtrTypeOK
<1>6. OpSteps' = OpSteps
  BY DEF Raise, OpSteps, SubmitAll
<1>7. CtrTypeOK'
  BY <1>1, <1>4, <1>5, <1>6 DEF Raise, CtrInv, CtrTypeOK, hwVars
<1>8. ProdIndex(p, s) <= prod'[Qp(p, s)]
  BY <1>3, <1>9
<1> QED BY <1>4, <1>7, <1>8, SubmitKeeps DEF Raise, hwVars

LEMMA RingKeeps ==
  ASSUME CtrInv, NEW p \in Posters, NEW s \in Sides, Ring(p, s)
  PROVE  CtrInv'
<1>1. at' \in [Posters -> 0 .. Len(OpSteps)] /\ at[p] > 0 /\ OpSteps[at[p]] = <<"ring", s>>
  BY AtStep DEF CtrInv, Ring, At
<1>2. ProdIndex(p, s) <= prod[Qp(p, s)]
  BY <1>1 DEF CtrInv, Rings
<1>6. /\ Qp(p, s) \in Qps /\ ProdIndex(p, s) \in Nat /\ hw_pi \in [Qps -> Nat]
      /\ \A q \in Qps : hw_ci[q] \in Nat /\ hw_ci[q] <= hw_pi[q] /\ hw_pi[q] <= prod[q] /\ prod[q] \in Nat
  BY CtrFacts DEF CtrInv, CtrTypeOK
<1>3. hw_pi' \in [Qps -> Nat] /\ \A q \in Qps : hw_ci[q] <= hw_pi'[q] /\ hw_pi'[q] <= prod[q]
  BY <1>2, <1>6 DEF Ring
<1>4. OpSteps' = OpSteps
  BY DEF Ring, OpSteps, SubmitAll
<1>5. CtrTypeOK'
  <2>1. \A q \in Qps : /\ hw_ci'[q] <= hw_pi'[q] /\ hw_pi'[q] <= prod'[q]
                       /\ prod'[q] <= ready'[q] /\ ready'[q] <= rsvd'[q]
    BY <1>3, CtrFacts DEF Ring, swVars
  <2>2. {rsvd', ready', prod', hw_pi', hw_ci'} \subseteq [Qps -> Nat]
    BY <1>3 DEF Ring, CtrInv, CtrTypeOK, swVars
  <2> QED BY <1>1, <1>4, <2>1, <2>2 DEF Ring, CtrInv, CtrTypeOK, swVars
<1>7. \A q \in Qps : prod[q] <= prod'[q]
  BY CtrFacts DEF Ring, swVars
<1> QED BY <1>5, <1>7, SubmitKeeps DEF Ring, swVars

LEMMA CallKeeps ==
  ASSUME CtrInv, NEW p \in Posters, NEW n \in Lens, Call(p, n)
  PROVE  CtrInv'
<1>1. /\ at[p] = 0 /\ at' = [at EXCEPT ![p] = 1] /\ ops' = [ops EXCEPT ![p] = ops[p] + 1] /\ ops[p] < MaxOps
      /\ len' = [len EXCEPT ![p] = <<n, 2>>]
      /\ UNCHANGED <<qps, handler, rsvd, ready, prod, lock, wqe, hw_pi, hw_ci, counted, from, raised>>
  BY DEF Call, swVars, hwVars
<1>2. OpSteps' = OpSteps
  BY <1>1 DEF OpSteps, SubmitAll
<1>3. /\ at \in [Posters -> 0 .. Len(OpSteps)] /\ ops \in [Posters -> 0 .. MaxOps]
      /\ len \in [Posters -> [{1, 2} -> Nat]]
  BY DEF CtrInv, CtrTypeOK
<1>4. at' \in [Posters -> 0 .. Len(OpSteps)] /\ ops' \in [Posters -> 0 .. MaxOps]
  <2>1. Len(SubmitAll) \in Nat
    BY DEF SubmitAll
  <2> QED BY <1>1, <1>3, <2>1, StepsAre, CtrSizes
<1>5. <<n, 2>> \in [{1, 2} -> Nat] /\ n >= 1 /\ n \in Nat
  BY CtrSizes
<1>6. len' \in [Posters -> [{1, 2} -> Nat]]
  BY <1>1, <1>3, <1>5
<1>7. CtrTypeOK'
  BY <1>1, <1>2, <1>4, <1>6 DEF CtrInv, CtrTypeOK
<1>8. at'[p] = 1 /\ len'[p] = <<n, 2>> /\ \A o \in Posters \ {p} : at'[o] = at[o] /\ len'[o] = len[o]
  BY <1>1, <1>3
<1>9. Calls'
  BY <1>5, <1>8 DEF CtrInv, Calls
<1>10. \A o \in Posters \ {p} : \A z \in Sides :
         /\ ProdIndex(o, z)' = ProdIndex(o, z) /\ Mine(o, z)' = Mine(o, z)
         /\ Unmarked(o, z)' = Unmarked(o, z) /\ Filled(o, z)' = Filled(o, z) /\ Marked(o, z)' = Marked(o, z)
         /\ \A i : Content(o, z, i)' = Content(o, z, i)
  BY <1>1, <1>8 DEF ProdIndex, Mine, Unmarked, Filled, Marked, Content, WaitIndex, Qp
<1>11. \A z \in Sides : ~Unmarked(p, z)' /\ ~Filled(p, z)' /\ ~Marked(p, z)'
  BY <1>8 DEF Unmarked, Filled, Marked
<1>12. \A o \in Posters, z \in Sides : Qp(o, z)' = Qp(o, z) /\ \A i : Slot(Qp(o, z), i)' = Slot(Qp(o, z), i)
  BY <1>1 DEF Qp, Slot
<1>13. Reserved'
  BY <1>1, <1>10, <1>11, <1>12 DEF CtrInv, Reserved
<1>14. Prepared'
  <2> SUFFICES ASSUME NEW o \in Posters, NEW z \in Sides, Filled(o, z)'
               PROVE  /\ ProdIndex(o, z)' <= (hw_ci[Qp(o, z)] + SqSize)'
                      /\ \A i \in Mine(o, z)' : Slot(Qp(o, z), i)' = Content(o, z, i)'
    BY DEF Prepared
  <2>1. o # p
    BY <1>11
  <2> QED BY <2>1, <1>1, <1>10, <1>12 DEF CtrInv, Prepared
<1>15. Rings'
  <2>1. \A z \in Sides : OpSteps[at'[p]] # <<"ring", z>>
    BY <1>8, StepsAre DEF Prepare
  <2> QED BY <2>1, <1>1, <1>2, <1>8, <1>10, <1>11, <1>12 DEF CtrInv, Rings
<1>16. Queued'
  BY <1>1 DEF CtrInv, Queued, AddIsGuarded, Guards, Slot
<1> QED BY <1>7, <1>9, <1>13, <1>14, <1>15, <1>16 DEF CtrInv

LEMMA ReserveKeeps ==
  ASSUME CtrInv, NEW p \in Posters, NEW s \in Sides, Reserve(p, s)
  PROVE  CtrInv'
<1> DEFINE Q == Qp(p, s)
<1>1. /\ from' = [from EXCEPT ![p][s] = rsvd[Q]] /\ rsvd' = [rsvd EXCEPT ![Q] = rsvd[Q] + len[p][s]]
      /\ At(p, "reserve", s)
      /\ UNCHANGED <<qps, handler, ready, prod, lock, wqe, hw_pi, hw_ci, counted, len, raised, ops>>
  BY DEF Reserve, hwVars
<1>2. OpSteps' = OpSteps
  BY <1>1 DEF OpSteps, SubmitAll
<1>3. /\ at[p] = (IF s = 1 THEN 1 ELSE 4) /\ at'[p] = at[p] + 1
      /\ at' \in [Posters -> 0 .. Len(OpSteps)]
      /\ \A o \in Posters \ {p} : at'[o] = at[o]
      /\ \A z \in Sides : at'[p] > 0 => OpSteps[at'[p]] # <<"ring", z>>
  BY <1>1, AtStep DEF CtrInv
<1>4. Q \in Qps /\ rsvd[Q] \in Nat /\ len[p][s] \in Nat /\ ready[Q] \in Nat /\ ready[Q] <= rsvd[Q]
      /\ from \in [Posters -> [{1, 2} -> Nat]] /\ rsvd \in [Qps -> Nat]
  BY CtrFacts DEF CtrInv, CtrTypeOK
<1>5. /\ from' \in [Posters -> [{1, 2} -> Nat]] /\ rsvd' \in [Qps -> Nat]
      /\ from'[p][s] = rsvd[Q] /\ rsvd'[Q] = rsvd[Q] + len[p][s]
      /\ \A o \in Posters, z \in Sides : o # p \/ z # s => from'[o][z] = from[o][z]
      /\ \A q \in Qps : rsvd[q] <= rsvd'[q]
  BY <1>1, <1>4 DEF Sides
<1>6. \A o \in Posters \ {p} : from'[o] = from[o]
  BY <1>1, <1>4
<1>7. CtrTypeOK'
  <2>1. \A q \in Qps : ready[q] <= rsvd'[q]
    BY <1>4, <1>5, CtrFacts
  <2>2. {rsvd', ready', prod', hw_pi', hw_ci'} \subseteq [Qps -> Nat]
    <3>1. {ready, prod, hw_pi, hw_ci} \subseteq [Qps -> Nat]
      BY DEF CtrInv, CtrTypeOK
    <3> QED BY <1>1, <1>5, <3>1
  <2>3. {from', len'} \subseteq [Posters -> [{1, 2} -> Nat]]
    BY <1>1, <1>5 DEF CtrInv, CtrTypeOK
  <2>4. \A q \in Qps : /\ hw_ci'[q] <= hw_pi'[q] /\ hw_pi'[q] <= prod'[q]
                       /\ prod'[q] <= ready'[q] /\ ready'[q] <= rsvd'[q]
    BY <1>1, <2>1, CtrFacts
  <2>5. CtrTypeOK
    BY DEF CtrInv
  <2> QED BY <1>1, <1>2, <1>3, <2>2, <2>3, <2>4, <2>5 DEF CtrTypeOK
<1>8. Calls'
  BY <1>1, <1>3 DEF CtrInv, Calls
<1>9. \A o \in Posters, z \in Sides : Qp(o, z)' = Qp(o, z) /\ \A i : Slot(Qp(o, z), i)' = Slot(Qp(o, z), i)
  BY <1>1 DEF Qp, Slot
<1>10. \A o \in Posters \ {p} : \A z \in Sides :
         /\ ProdIndex(o, z)' = ProdIndex(o, z) /\ Mine(o, z)' = Mine(o, z)
         /\ Unmarked(o, z)' = Unmarked(o, z) /\ Filled(o, z)' = Filled(o, z) /\ Marked(o, z)' = Marked(o, z)
         /\ \A i : Content(o, z, i)' = Content(o, z, i)
  BY <1>1, <1>3, <1>6 DEF ProdIndex, Mine, Unmarked, Filled, Marked, Content, WaitIndex, Qp
<1>11. /\ \A z \in Sides : ~Filled(p, z)'
       /\ \A z \in Sides : Unmarked(p, z)' => z = s
       /\ \A z \in Sides : Marked(p, z)' => z # s /\ Marked(p, z)
       /\ ProdIndex(p, s)' = rsvd'[Q]
       /\ \A z \in Sides : z # s => ProdIndex(p, z)' = ProdIndex(p, z)
  BY <1>1, <1>3, <1>4, <1>5 DEF Unmarked, Filled, Marked, ProdIndex, Sides
<1>12. Reserved'
  <2>1. ASSUME NEW o \in Posters, NEW z \in Sides, Unmarked(o, z)'
        PROVE  (ready[Qp(o, z)] <= from[o][z] /\ ProdIndex(o, z) <= rsvd[Qp(o, z)])'
    <3>1. CASE o = p
      BY <1>1, <1>4, <1>5, <1>9, <1>11, <2>1, <3>1
    <3>2. CASE o # p
      <4>1. ready[Qp(o, z)] <= from[o][z] /\ ProdIndex(o, z) <= rsvd[Qp(o, z)]
        BY <1>10, <2>1, <3>2 DEF CtrInv, Reserved
      <4>2. rsvd[Qp(o, z)] \in Nat /\ rsvd'[Qp(o, z)] \in Nat /\ rsvd[Qp(o, z)] <= rsvd'[Qp(o, z)] /\ ProdIndex(o, z) \in Nat
        BY <1>5, CtrFacts
      <4> QED BY <1>1, <1>6, <1>9, <1>10, <3>2, <4>1, <4>2
    <3> QED BY <3>1, <3>2
  <2>2. ASSUME NEW o \in Posters \ {p}, NEW z \in Sides, Unmarked(o, z)', Qp(o, z) = Q
        PROVE  ProdIndex(o, z)' <= from'[p][s]
    BY <1>5, <1>10, <2>2 DEF CtrInv, Reserved
  <2>3. ASSUME NEW o \in Posters, NEW r \in Posters, NEW z \in Sides, NEW y \in Sides,
               o # r, Unmarked(o, z)', Unmarked(r, y)', Qp(o, z)' = Qp(r, y)'
        PROVE  (ProdIndex(o, z) <= from[r][y] \/ ProdIndex(r, y) <= from[o][z])'
    <3>1. CASE o = p
      <4>1. z = s /\ Qp(r, y) = Q
        BY <1>9, <1>11, <2>3, <3>1
      <4> QED BY <2>2, <2>3, <3>1, <4>1
    <3>2. CASE r = p
      <4>1. y = s /\ Qp(o, z) = Q
        BY <1>9, <1>11, <2>3, <3>2
      <4> QED BY <2>2, <2>3, <3>2, <4>1
    <3>3. CASE o # p /\ r # p
      <4>1. ProdIndex(o, z) <= from[r][y] \/ ProdIndex(r, y) <= from[o][z]
        BY <1>9, <1>10, <2>3, <3>3 DEF CtrInv, Reserved
      <4> QED BY <1>6, <1>10, <3>3, <4>1
    <3> QED BY <3>1, <3>2, <3>3
  <2> QED BY <2>1, <2>3 DEF Reserved
<1>13. Prepared'
  <2> SUFFICES ASSUME NEW o \in Posters, NEW z \in Sides, Filled(o, z)'
               PROVE  /\ ProdIndex(o, z)' <= (hw_ci[Qp(o, z)] + SqSize)'
                      /\ \A i \in Mine(o, z)' : Slot(Qp(o, z), i)' = Content(o, z, i)'
    BY DEF Prepared
  <2>1. o # p
    BY <1>11
  <2> QED BY <2>1, <1>1, <1>9, <1>10 DEF CtrInv, Prepared
<1>14. Rings'
  BY <1>1, <1>2, <1>3, <1>9, <1>10, <1>11 DEF CtrInv, Rings
<1>15. Queued'
  BY <1>1 DEF CtrInv, Queued, AddIsGuarded, Guards, Slot
<1> QED BY <1>7, <1>8, <1>12, <1>13, <1>14, <1>15 DEF CtrInv

(* A window of SqSize indices lies one to one in the slots: the slots a    *)
(* thread fills are those of its indices.                                  *)
LEMMA FillSlots ==
  ASSUME CtrInv, NEW p \in Posters, NEW s \in Sides, Fill(p, s)
  PROVE  /\ \A i \in Mine(p, s) : Slot(Qp(p, s), i)' = Content(p, s, i)
         /\ \A j \in hw_ci[Qp(p, s)] .. hw_ci[Qp(p, s)] + SqSize - 1 :
              j \notin Mine(p, s) => Slot(Qp(p, s), j)' = Slot(Qp(p, s), j)
         /\ \A q \in Qps \ {Qp(p, s)} : \A j : Slot(q, j)' = Slot(q, j)
         /\ DOMAIN wqe' = Qps
         /\ Mine(p, s) \subseteq hw_ci[Qp(p, s)] .. hw_ci[Qp(p, s)] + SqSize - 1
<1> DEFINE Q == Qp(p, s)
           mine(k) == {i \in Mine(p, s) : i % SqSize = k}
           new == [k \in 0 .. SqSize - 1 |->
                     IF mine(k) = {} THEN wqe[Q][k] ELSE Content(p, s, CHOOSE i \in mine(k) : TRUE)]
           Window == hw_ci[Q] .. hw_ci[Q] + SqSize - 1
<1>1. wqe' = [wqe EXCEPT ![Q] = new]
  BY DEF Fill, Mine
<1>2. Q \in Qps /\ DOMAIN wqe = Qps /\ hw_ci[Q] \in Nat /\ SqSize \in Nat \ {0}
  BY CtrFacts, CtrSizes DEF CtrInv, CtrTypeOK
<1>3. Mine(p, s) \subseteq Window
  <2>1. at[p] = IF s = 1 THEN 2 ELSE 5
    BY AtStep DEF Fill, CtrInv
  <2>2. ready[Q] <= from[p][s]
    BY <2>1 DEF CtrInv, Reserved, Unmarked
  <2>3. ProdIndex(p, s) <= hw_ci[Q] + SqSize
    BY DEF Fill
  <2>4. /\ hw_ci[Q] <= ready[Q] /\ ready[Q] \in Nat /\ from[p][s] \in Nat /\ ProdIndex(p, s) \in Nat
    BY <1>2, CtrFacts
  <2> QED BY <1>2, <2>2, <2>3, <2>4 DEF Mine
<1>4. wqe'[Q] = new /\ \A q \in Qps \ {Q} : wqe'[q] = wqe[q]
  BY <1>1, <1>2
<1>5. ASSUME NEW i \in Window, NEW j \in Window, i % SqSize = j % SqSize PROVE i = j
    <2>1. i \in Int /\ j \in Int /\ ((i <= j /\ j < i + SqSize) \/ (j <= i /\ i < j + SqSize))
    BY <1>2
  <2> QED BY <1>2, <1>5, <2>1, SameSlot
<1>6. \A i \in Window : i % SqSize \in 0 .. SqSize - 1
  <2> TAKE i \in Window
  <2>1. i \in Int
    BY <1>2
  <2> QED BY <1>2, <2>1, DivMod
<1>7. ASSUME NEW i \in Mine(p, s) PROVE Slot(Q, i)' = Content(p, s, i)
  <2>1. i \in Window
    BY <1>3
  <2>2. mine(i % SqSize) = {i}
    BY <1>3, <1>5, <2>1
  <2>3. (CHOOSE x \in mine(i % SqSize) : TRUE) = i
    BY <2>2
  <2>4. new[i % SqSize] = Content(p, s, i)
    BY <1>6, <2>1, <2>2, <2>3
  <2> HIDE DEF new
  <2>5. Qp(p, s)' = Q
    BY DEF Fill, Qp
  <2> QED BY <1>4, <2>4, <2>5 DEF Slot
<1>8. ASSUME NEW j \in Window, j \notin Mine(p, s) PROVE Slot(Q, j)' = Slot(Q, j)
  <2>1. mine(j % SqSize) = {}
    BY <1>3, <1>5, <1>8
  <2>2. new[j % SqSize] = wqe[Q][j % SqSize]
    BY <1>6, <2>1
  <2> HIDE DEF new
  <2>5. Qp(p, s)' = Q
    BY DEF Fill, Qp
  <2> QED BY <1>4, <2>2, <2>5 DEF Slot
<1>9. DOMAIN wqe' = Qps
  BY <1>1, <1>2
<1> HIDE DEF new
<1> QED BY <1>3, <1>4, <1>7, <1>8, <1>9 DEF Slot

LEMMA FillKeeps ==
  ASSUME CtrInv, NEW p \in Posters, NEW s \in Sides, Fill(p, s)
  PROVE  CtrInv'
<1> DEFINE Q == Qp(p, s)
<1>1. /\ ProdIndex(p, s) <= hw_ci[Q] + SqSize
      /\ At(p, "fill", s)
      /\ UNCHANGED <<qps, handler, rsvd, ready, prod, lock, hw_pi, hw_ci, counted, from, len, raised, ops>>
  BY DEF Fill, hwVars
<1>2. OpSteps' = OpSteps
  BY <1>1 DEF OpSteps, SubmitAll
<1>3. /\ at[p] = (IF s = 1 THEN 2 ELSE 5) /\ at'[p] = at[p] + 1
      /\ at' \in [Posters -> 0 .. Len(OpSteps)]
      /\ \A o \in Posters \ {p} : at'[o] = at[o]
      /\ \A z \in Sides : at'[p] > 0 => OpSteps[at'[p]] # <<"ring", z>>
  BY <1>1, AtStep DEF CtrInv
<1>4. CtrTypeOK'
  <2>1. DOMAIN wqe' = Qps
    BY FillSlots
  <2> QED BY <1>1, <1>2, <1>3, <2>1 DEF CtrInv, CtrTypeOK
<1>5. Calls'
  BY <1>1, <1>3 DEF CtrInv, Calls
<1>6. \A o \in Posters, z \in Sides :
         /\ Qp(o, z)' = Qp(o, z)
         /\ ProdIndex(o, z)' = ProdIndex(o, z) /\ Mine(o, z)' = Mine(o, z)
         /\ Unmarked(o, z)' = Unmarked(o, z)
         /\ Filled(o, z)' => (o = p /\ z = s) \/ (o # p /\ Filled(o, z))
         /\ Marked(o, z)' = Marked(o, z)
         /\ \A i : Content(o, z, i)' = Content(o, z, i)
  BY <1>1, <1>3 DEF ProdIndex, Mine, Unmarked, Filled, Marked, Content, WaitIndex, Qp, Sides
<1>7. Reserved'
  BY <1>1, <1>6 DEF CtrInv, Reserved
<1>8. Prepared'
  <2> SUFFICES ASSUME NEW o \in Posters, NEW z \in Sides, Filled(o, z)'
               PROVE  /\ ProdIndex(o, z) <= hw_ci[Qp(o, z)] + SqSize
                      /\ \A i \in Mine(o, z) : Slot(Qp(o, z), i)' = Content(o, z, i)
    BY <1>1, <1>6 DEF Prepared
  <2>1. CASE o = p /\ z = s
    BY <1>1, <2>1, FillSlots
  <2>2. CASE o # p /\ Filled(o, z)
    <3>1. /\ ProdIndex(o, z) <= hw_ci[Qp(o, z)] + SqSize
          /\ \A i \in Mine(o, z) : Slot(Qp(o, z), i) = Content(o, z, i)
      BY <2>2 DEF CtrInv, Prepared
    <3>2. CASE Qp(o, z) # Q
      <4>1. \A i : Slot(Qp(o, z), i)' = Slot(Qp(o, z), i)
        BY <1>6, <3>2, FillSlots, CtrFacts DEF Slot
      <4> QED BY <3>1, <4>1
    <3>3. CASE Qp(o, z) = Q
      <4> SUFFICES ASSUME NEW i \in Mine(o, z) PROVE Slot(Q, i)' = Slot(Q, i)
        BY <1>6, <3>1, <3>3 DEF Slot
      <4>1. Unmarked(o, z) /\ Unmarked(p, s)
        BY <1>3, <2>2 DEF Unmarked, Filled
      <4>2. /\ ready[Q] <= from[o][z]
            /\ ProdIndex(o, z) <= from[p][s] \/ ProdIndex(p, s) <= from[o][z]
        BY <2>2, <3>3, <4>1 DEF CtrInv, Reserved
      <4>3. /\ from[p][s] \in Nat /\ from[o][z] \in Nat /\ ProdIndex(p, s) \in Nat /\ ProdIndex(o, z) \in Nat
            /\ hw_ci[Q] \in Nat /\ ready[Q] \in Nat /\ hw_ci[Q] <= ready[Q] /\ SqSize \in Nat
        BY CtrFacts, CtrSizes
      <4>4. i \notin Mine(p, s) /\ i \in hw_ci[Q] .. hw_ci[Q] + SqSize - 1
        BY <3>1, <3>3, <4>2, <4>3 DEF Mine
      <4> QED BY <4>4, FillSlots
    <3> QED BY <3>2, <3>3
  <2> QED BY <1>6, <2>1, <2>2
<1>9. Rings'
  <2> SUFFICES ASSUME NEW o \in Posters, NEW z \in Sides
               PROVE  /\ Marked(o, z) => ProdIndex(o, z) <= ready[Qp(o, z)]
                      /\ at'[o] > 0 /\ OpSteps[at'[o]] = <<"ring", z>> => ProdIndex(o, z) <= prod[Qp(o, z)]
    BY <1>1, <1>2, <1>6 DEF Rings
  <2> QED BY <1>3 DEF CtrInv, Rings
<1>10. Queued'
  <2>1. ASSUME NEW q \in Qps, NEW j \in hw_ci[q] .. ready[q] - 1 PROVE Slot(q, j)' = Slot(q, j)
    <3>1. CASE q # Q
      BY <3>1, FillSlots
    <3>2. CASE q = Q
      <4>1. ready[Q] <= from[p][s] /\ ready[Q] <= hw_ci[Q] + SqSize
        BY <1>3, CtrFacts DEF CtrInv, Reserved, Unmarked, Queued
      <4>2. /\ from[p][s] \in Nat /\ hw_ci[Q] \in Nat /\ ready[Q] \in Nat /\ SqSize \in Nat /\ Q \in Qps
        BY CtrFacts, CtrSizes
      <4>3. j \notin Mine(p, s) /\ j \in hw_ci[Q] .. hw_ci[Q] + SqSize - 1
        BY <3>2, <4>1, <4>2 DEF Mine
      <4>4. Slot(Q, j)' = Slot(Q, j) /\ Qp(p, s)' = Q
        BY <1>6, <4>3, FillSlots DEF Slot
      <4> QED BY <3>2, <4>4 DEF Slot
    <3> QED BY <3>1, <3>2
  <2>2. ASSUME NEW q \in Qps, NEW i \in hw_ci[q] .. ready[q] - 1 PROVE AddIsGuarded(q, i)'
    <3>1. AddIsGuarded(q, i) /\ Slot(q, i)' = Slot(q, i)
      BY <2>1 DEF CtrInv, Queued
    <3>2. i > hw_ci[q] => Slot(q, i - 1)' = Slot(q, i - 1)
      <4>1. hw_ci[q] \in Nat /\ ready[q] \in Nat
        BY CtrFacts
      <4>2. i > hw_ci[q] => i - 1 \in hw_ci[q] .. ready[q] - 1
        BY <4>1
      <4> QED BY <2>1, <4>2
    <3> QED BY <1>1, <3>1, <3>2 DEF AddIsGuarded, Guards
  <2> QED BY <1>1, <2>2 DEF CtrInv, Queued
<1> QED BY <1>4, <1>5, <1>7, <1>8, <1>9, <1>10 DEF CtrInv

LEMMA MarkKeeps ==
  ASSUME CtrInv, NEW p \in Posters, NEW s \in Sides, Mark(p, s)
  PROVE  CtrInv'
<1> DEFINE Q == Qp(p, s)
           next == ProdIndex(p, s)
<1>1. /\ ready[Q] = from[p][s] /\ At(p, "mark", s)
      /\ ready' = [ready EXCEPT ![Q] = next]
      /\ UNCHANGED <<qps, handler, rsvd, prod, lock, wqe, hw_pi, hw_ci, counted, from, len, raised, ops>>
  BY DEF Mark, hwVars, ProdIndex
<1>2. OpSteps' = OpSteps
  BY <1>1 DEF OpSteps, SubmitAll
<1>3. /\ at[p] = (IF s = 1 THEN 3 ELSE 6) /\ at'[p] = at[p] + 1
      /\ at' \in [Posters -> 0 .. Len(OpSteps)]
      /\ \A o \in Posters \ {p} : at'[o] = at[o]
      /\ \A z \in Sides : at'[p] > 0 => OpSteps[at'[p]] # <<"ring", z>>
  BY <1>1, AtStep DEF CtrInv
<1>4. Unmarked(p, s) /\ Filled(p, s)
  BY <1>3 DEF Unmarked, Filled
<1>5. /\ next <= rsvd[Q] /\ next <= hw_ci[Q] + SqSize
      /\ \A i \in Mine(p, s) : Slot(Q, i) = Content(p, s, i)
  BY <1>4 DEF CtrInv, Reserved, Prepared
<1>6. /\ Q \in Qps /\ next \in Nat /\ from[p][s] \in Nat /\ len[p][s] \in Nat /\ next = from[p][s] + len[p][s]
      /\ len[p][s] >= 1
  <2>1. len[p][1] >= 1 /\ len[p][2] = 2
    BY <1>3 DEF CtrInv, Calls
  <2> QED BY <2>1, CtrFacts DEF Sides
<1>7. /\ ready \in [Qps -> Nat] /\ ready' \in [Qps -> Nat]
      /\ ready'[Q] = next /\ \A q \in Qps \ {Q} : ready'[q] = ready[q]
      /\ \A q \in Qps : ready[q] <= ready'[q] /\ ready'[q] <= rsvd[q]
  <2>1. ready \in [Qps -> Nat]
    BY DEF CtrInv, CtrTypeOK
  <2> QED BY <1>1, <1>5, <1>6, <2>1, CtrFacts
<1>8. CtrTypeOK'
  <2>1. {rsvd', ready', prod', hw_pi', hw_ci'} \subseteq [Qps -> Nat]
    <3>1. {rsvd, prod, hw_pi, hw_ci} \subseteq [Qps -> Nat]
      BY DEF CtrInv, CtrTypeOK
    <3> QED BY <1>1, <1>7, <3>1
  <2>2. \A q \in Qps : /\ hw_ci'[q] <= hw_pi'[q] /\ hw_pi'[q] <= prod'[q]
                       /\ prod'[q] <= ready'[q] /\ ready'[q] <= rsvd'[q]
    BY <1>1, <1>7, CtrFacts
  <2>3. CtrTypeOK
    BY DEF CtrInv
  <2> QED BY <1>1, <1>2, <1>3, <2>1, <2>2, <2>3 DEF CtrTypeOK
<1>9. Calls'
  BY <1>1, <1>3 DEF CtrInv, Calls
<1>10. \A o \in Posters, z \in Sides :
         /\ Qp(o, z)' = Qp(o, z)
         /\ ProdIndex(o, z)' = ProdIndex(o, z) /\ Mine(o, z)' = Mine(o, z)
         /\ Unmarked(o, z)' => o # p /\ Unmarked(o, z)
         /\ Filled(o, z)' => Filled(o, z)
         /\ Marked(o, z)' => Marked(o, z) \/ (o = p /\ z = s)
         /\ \A i : Content(o, z, i)' = Content(o, z, i) /\ Slot(Qp(o, z), i)' = Slot(Qp(o, z), i)
  BY <1>1, <1>3 DEF ProdIndex, Mine, Unmarked, Filled, Marked, Content, WaitIndex, Qp, Slot, Sides
<1>11. Reserved'
  <2>1. ASSUME NEW o \in Posters, NEW z \in Sides, Unmarked(o, z)'
        PROVE  (ready[Qp(o, z)] <= from[o][z] /\ ProdIndex(o, z) <= rsvd[Qp(o, z)])'
    <3>1. /\ o # p /\ Unmarked(o, z) /\ ready[Qp(o, z)] <= from[o][z] /\ ProdIndex(o, z) <= rsvd[Qp(o, z)]
      BY <1>10, <2>1 DEF CtrInv, Reserved
    <3>2. CASE Qp(o, z) # Q
      BY <1>1, <1>7, <1>10, <3>1, <3>2, CtrFacts
    <3>3. CASE Qp(o, z) = Q
      <4>1. next <= from[o][z] \/ ProdIndex(o, z) <= from[p][s]
        BY <1>4, <3>1, <3>3 DEF CtrInv, Reserved
      <4>2. from[o][z] \in Nat /\ ProdIndex(o, z) = from[o][z] + len[o][z] /\ len[o][z] >= 1 /\ len[o][z] \in Nat
        <5>1. at[o] # 0
          BY <3>1 DEF Unmarked
        <5>2. len[o][1] >= 1 /\ len[o][2] = 2
          BY <5>1 DEF CtrInv, Calls
        <5> QED BY <5>2, CtrFacts DEF Sides
      <4>3. next <= from[o][z]
        BY <1>1, <1>6, <3>1, <3>3, <4>1, <4>2
      <4> QED BY <1>1, <1>7, <1>10, <3>1, <3>3, <4>3
    <3> QED BY <3>2, <3>3
  <2>2. \A o, r \in Posters : \A z, y \in Sides :
          (o # r /\ Unmarked(o, z) /\ Unmarked(r, y) /\ Qp(o, z) = Qp(r, y) =>
             ProdIndex(o, z) <= from[r][y] \/ ProdIndex(r, y) <= from[o][z])'
    BY <1>1, <1>10 DEF CtrInv, Reserved
  <2> QED BY <2>1, <2>2 DEF Reserved
<1>12. Prepared'
  BY <1>1, <1>10 DEF CtrInv, Prepared
<1>13. Rings'
  <2> SUFFICES ASSUME NEW o \in Posters, NEW z \in Sides
               PROVE  /\ Marked(o, z)' => ProdIndex(o, z) <= ready'[Qp(o, z)]
                      /\ at'[o] > 0 /\ OpSteps[at'[o]] = <<"ring", z>> => ProdIndex(o, z) <= prod[Qp(o, z)]
    BY <1>1, <1>2, <1>10 DEF Rings
  <2>1. ASSUME Marked(o, z)' PROVE ProdIndex(o, z) <= ready'[Qp(o, z)]
    <3>1. CASE o = p /\ z = s
      BY <1>6, <1>7, <3>1
    <3>2. CASE Marked(o, z)
      <4>1. ProdIndex(o, z) <= ready[Qp(o, z)]
        BY <3>2 DEF CtrInv, Rings
      <4>2. /\ Qp(o, z) \in Qps /\ ProdIndex(o, z) \in Nat /\ ready[Qp(o, z)] \in Nat
            /\ ready'[Qp(o, z)] \in Nat /\ ready[Qp(o, z)] <= ready'[Qp(o, z)]
        BY <1>7, CtrFacts
      <4> QED BY <4>1, <4>2
    <3> QED BY <1>10, <2>1, <3>1, <3>2
  <2> QED BY <1>3, <2>1 DEF CtrInv, Rings
<1>14. Queued'
  <2>1. ASSUME NEW q \in Qps PROVE ready'[q] <= hw_ci[q] + SqSize
    BY <1>5, <1>6, <1>7 DEF CtrInv, Queued
  <2>2. \A q \in Qps, i \in Int : AddIsGuarded(q, i) => AddIsGuarded(q, i)'
    BY <1>1 DEF AddIsGuarded, Guards, Slot
  <2>3. ASSUME NEW i \in Mine(p, s) PROVE AddIsGuarded(Q, i)
    <3>1. Slot(Q, i) = Content(p, s, i)
      BY <1>5
    <3>2. CASE s = 1
      BY <3>1, <3>2 DEF AddIsGuarded, Content
    <3>3. CASE s = 2 /\ i = from[p][2]
      BY <3>1, <3>3 DEF AddIsGuarded, Content
    <3>4. CASE s = 2 /\ i # from[p][2]
      <4>1. len[p][2] = 2 /\ from[p][1] \in Nat /\ len[p][1] \in Nat /\ Qp(p, 1) \in Qps
        BY <1>3, CtrFacts DEF CtrInv, Calls, Sides
      <4>2. i = from[p][2] + 1 /\ i - 1 = from[p][2] /\ i - 1 \in Mine(p, s)
        BY <1>6, <3>4, <4>1 DEF Mine
      <4>3. hw_ci[Q] \in Nat /\ hw_ci[Q] <= from[p][2]
        BY <1>1, <1>6, <3>4, CtrFacts
      <4>4. Slot(Q, i - 1) = [kind |-> "wait", on |-> Qp(p, 1), index |-> WaitIndex(p)]
        BY <1>5, <3>4, <4>2 DEF Content
      <4>5. Slot(Q, i) = [kind |-> "add", on |-> Qp(p, 1), index |-> from[p][1] + len[p][1] - 1, by |-> p]
        BY <3>1, <3>4 DEF Content
      <4>6. WaitIndex(p) = from[p][1] + len[p][1] - 1
        BY <4>1 DEF WaitIndex, ProdIndex
      <4>7. i > hw_ci[Q]
        BY <1>6, <3>4, <4>2, <4>3
      <4>8. Guards(Slot(Q, i - 1), Slot(Q, i))
        BY <4>4, <4>5, <4>6 DEF Guards
      <4>9. Slot(Q, i).on \in Qps /\ Slot(Q, i).index \in Int
        BY <4>1, <4>5
      <4> QED BY <4>7, <4>8, <4>9 DEF AddIsGuarded
    <3> QED BY <3>2, <3>3, <3>4 DEF Sides
  <2>4. ASSUME NEW q \in Qps, NEW i \in hw_ci[q] .. ready'[q] - 1 PROVE AddIsGuarded(q, i)
    <3>1. hw_ci[q] \in Nat /\ ready[q] \in Nat /\ ready'[q] \in Nat
      BY <1>7, CtrFacts
    <3>2. CASE i < ready[q]
      BY <3>1, <3>2 DEF CtrInv, Queued
    <3>3. CASE i >= ready[q]
      <4>1. q = Q /\ i \in Mine(p, s)
        BY <1>1, <1>6, <1>7, <3>1, <3>3 DEF Mine
      <4> QED BY <2>3, <4>1
    <3> QED BY <3>1, <3>2, <3>3
  <2> QED BY <1>1, <2>1, <2>2, <2>4 DEF Queued
<1> QED BY <1>8, <1>9, <1>11, <1>12, <1>13, <1>14 DEF CtrInv

LEMMA ExecuteKeeps ==
  ASSUME CtrInv, NEW e \in Qps, Execute(e)
  PROVE  CtrInv'
<1>1. /\ hw_ci[e] < hw_pi[e] /\ hw_ci' = [hw_ci EXCEPT ![e] = hw_ci[e] + 1]
      /\ NextWqe(e).kind = "wait" => NextWqe(e).index < hw_ci[NextWqe(e).on]
      /\ UNCHANGED <<qps, handler, rsvd, ready, prod, lock, wqe, hw_pi, at, from, len, raised, ops>>
  BY DEF Execute, swVars
<1>2. OpSteps' = OpSteps
  BY <1>1 DEF OpSteps, SubmitAll
<1>3. /\ hw_ci \in [Qps -> Nat] /\ hw_ci' \in [Qps -> Nat]
      /\ \A q \in Qps : hw_ci[q] <= hw_ci'[q] /\ hw_ci'[q] <= hw_pi[q]
      /\ hw_ci'[e] = hw_ci[e] + 1 /\ \A q \in Qps \ {e} : hw_ci'[q] = hw_ci[q]
  <2>1. hw_ci \in [Qps -> Nat]
    BY DEF CtrInv, CtrTypeOK
  <2> QED BY <1>1, <2>1, CtrFacts
<1>4. CtrTypeOK'
  <2>1. {rsvd', ready', prod', hw_pi', hw_ci'} \subseteq [Qps -> Nat]
    <3>1. {rsvd, ready, prod, hw_pi} \subseteq [Qps -> Nat]
      BY DEF CtrInv, CtrTypeOK
    <3> QED BY <1>1, <1>3, <3>1
  <2>2. \A q \in Qps : /\ hw_ci'[q] <= hw_pi'[q] /\ hw_pi'[q] <= prod'[q]
                       /\ prod'[q] <= ready'[q] /\ ready'[q] <= rsvd'[q]
    BY <1>1, <1>3, CtrFacts
  <2>3. CtrTypeOK
    BY DEF CtrInv
  <2>4. counted' \in [Posters -> Nat]
    <3>1. counted \in [Posters -> Nat]
      BY <2>3 DEF CtrTypeOK
    <3>2. \/ counted' = counted
          \/ counted' = [counted EXCEPT ![NextWqe(e).by] = @ + 1]
      BY DEF Execute
    <3> QED BY <3>1, <3>2
  <2> QED BY <1>1, <1>2, <2>1, <2>2, <2>3, <2>4 DEF CtrTypeOK
<1>5. Calls' /\ Reserved'
  BY <1>1 DEF CtrInv, Calls, Reserved, Unmarked, Qp, ProdIndex
<1>6. Rings'
  BY <1>1, <1>2 DEF CtrInv, Rings, Marked, Qp, ProdIndex
<1>7. Prepared'
  <2> SUFFICES ASSUME NEW o \in Posters, NEW z \in Sides, Filled(o, z)
               PROVE  /\ ProdIndex(o, z) <= hw_ci'[Qp(o, z)] + SqSize
                      /\ \A i \in Mine(o, z) : Slot(Qp(o, z), i) = Content(o, z, i)
    BY <1>1 DEF Prepared, Filled, ProdIndex, Mine, Slot, Content, WaitIndex, Qp
  <2>1. ProdIndex(o, z) <= hw_ci[Qp(o, z)] + SqSize /\ \A i \in Mine(o, z) : Slot(Qp(o, z), i) = Content(o, z, i)
    BY DEF CtrInv, Prepared
  <2>2. /\ ProdIndex(o, z) \in Nat /\ hw_ci[Qp(o, z)] \in Nat /\ hw_ci'[Qp(o, z)] \in Nat /\ SqSize \in Nat
        /\ hw_ci[Qp(o, z)] <= hw_ci'[Qp(o, z)]
    BY <1>3, CtrFacts, CtrSizes
  <2> QED BY <2>1, <2>2
<1>8. Queued'
  <2>1. ASSUME NEW q \in Qps PROVE ready[q] <= hw_ci'[q] + SqSize
    <3>1. ready[q] <= hw_ci[q] + SqSize
      BY DEF CtrInv, Queued
    <3>2. hw_ci[q] \in Nat /\ hw_ci'[q] \in Nat /\ hw_ci[q] <= hw_ci'[q] /\ ready[q] \in Nat /\ SqSize \in Nat
      BY <1>3, CtrFacts, CtrSizes
    <3> QED BY <3>1, <3>2
  <2>2. ASSUME NEW q \in Qps, NEW i \in hw_ci'[q] .. ready[q] - 1 PROVE AddIsGuarded(q, i)'
    <3> DEFINE w == Slot(q, i)
               v == Slot(q, i - 1)
    <3>1. hw_ci[q] \in Nat /\ hw_ci'[q] \in Nat /\ hw_ci[q] <= hw_ci'[q] /\ ready[q] \in Nat
      BY <1>3, CtrFacts
    <3>2. AddIsGuarded(q, i)
      BY <3>1 DEF CtrInv, Queued
    <3>3. Slot(q, i)' = w /\ Slot(q, i - 1)' = v
      BY <1>1 DEF Slot
    <3> SUFFICES ASSUME w.kind = "add"
                 PROVE  /\ w.on \in Qps /\ w.index \in Int
                        /\ w.index < hw_ci'[w.on] \/ (i > hw_ci'[q] /\ Guards(v, w))
      <4> HIDE DEF w, v
      <4> QED BY <3>3 DEF AddIsGuarded, Guards
    <3>4. /\ w.on \in Qps /\ w.index \in Int
          /\ w.index < hw_ci[w.on] \/ (i > hw_ci[q] /\ Guards(v, w))
      BY <3>2 DEF AddIsGuarded
    <3>5. hw_ci[w.on] \in Nat /\ hw_ci'[w.on] \in Nat /\ hw_ci[w.on] <= hw_ci'[w.on]
      BY <1>3, <3>4
    <3>6. CASE w.index < hw_ci[w.on]
      BY <3>4, <3>5, <3>6
    <3>7. CASE Guards(v, w) /\ i > hw_ci'[q]
      BY <3>4, <3>7
    <3>8. CASE Guards(v, w) /\ i > hw_ci[q] /\ ~(i > hw_ci'[q])
      <4>1. q = e /\ i - 1 = hw_ci[e]
        BY <1>3, <3>1, <3>8
      <4>2. v = NextWqe(e)
        BY <4>1 DEF NextWqe, Slot
      <4>3. v.kind = "wait" /\ v.on = w.on /\ v.index = w.index
        BY <3>8 DEF Guards
      <4>4. w.index < hw_ci[w.on]
        <5> HIDE DEF w, v
        <5> QED BY <1>1, <4>2, <4>3
      <4> QED BY <3>4, <3>5, <4>4
    <3> HIDE DEF w, v
    <3> QED BY <3>4, <3>6, <3>7, <3>8
  <2> QED BY <1>1, <2>1, <2>2 DEF Queued
<1> QED BY <1>4, <1>5, <1>6, <1>7, <1>8 DEF CtrInv

LEMMA CtrNextHolds == CtrInv /\ [CtrNext]_ctrVars => CtrInv'
<1> SUFFICES ASSUME CtrInv, [CtrNext]_ctrVars PROVE CtrInv'
  OBVIOUS
<1>1. ASSUME NEW p \in Posters, Advance(p) PROVE CtrInv'
  BY <1>1, ReserveKeeps, FillKeeps, MarkKeeps, LockKeeps, RaiseKeeps, RingKeeps DEF Advance, Sides
<1>2. CASE UNCHANGED ctrVars
  <2>1. /\ UNCHANGED <<qps, handler, rsvd, ready, prod, lock, wqe, hw_pi, hw_ci, counted>>
        /\ UNCHANGED <<at, from, len, raised, ops>>
    BY <1>2 DEF ctrVars, swVars, hwVars
  <2>2. OpSteps' = OpSteps
    BY <2>1 DEF OpSteps, SubmitAll
  <2>3. CtrTypeOK'
    BY <2>1, <2>2 DEF CtrInv, CtrTypeOK
  <2>4. Calls' /\ Reserved'
    BY <2>1 DEF CtrInv, Calls, Reserved, Unmarked, Qp, ProdIndex
  <2>5. Prepared'
    BY <2>1 DEF CtrInv, Prepared, Filled, Mine, Content, WaitIndex, ProdIndex, Slot, Qp
  <2>6. Rings'
    BY <2>1, <2>2 DEF CtrInv, Rings, Marked, Qp, ProdIndex
  <2>7. Queued'
    BY <2>1 DEF CtrInv, Queued, AddIsGuarded, Guards, Slot
  <2> QED BY <2>3, <2>4, <2>5, <2>6, <2>7 DEF CtrInv
<1> QED BY <1>1, <1>2, CallKeeps, ExecuteKeeps DEF CtrNext

LEMMA CtrInvariance == CtrSpec => []CtrInv
BY CtrInitHolds, CtrNextHolds, PTL DEF CtrSpec

(* Types and the order of the indices on every QP: the NIC knows of no WQE *)
(* that is not marked ready, however the two sides of operations share QPs.*)
THEOREM CountersTyped == CtrSpec => []CtrTypeOK
<1>1. CtrInv => CtrTypeOK
  BY DEF CtrInv
<1> QED BY <1>1, CtrInvariance, PTL

(* A counter is never incremented before the data it counts has completed. *)
THEOREM CountedAfterData == CtrSpec => CounterAfterData
<1> DEFINE Counts == \A q \in Qps : hw_ci'[q] # hw_ci[q] /\ NextWqe(q).kind = "add"
                                      => NextWqe(q).index < hw_ci[NextWqe(q).on]
<1>1. ASSUME CtrInv, CtrNext PROVE Counts
  <2> SUFFICES ASSUME NEW q \in Qps, hw_ci'[q] # hw_ci[q], NextWqe(q).kind = "add"
               PROVE  NextWqe(q).index < hw_ci[NextWqe(q).on]
    OBVIOUS
  <2>1. Execute(q)
    <3>1. CASE \E e \in Qps : Execute(e)
      <4>1. PICK e \in Qps : Execute(e)
        BY <3>1
      <4>2. hw_ci' = [hw_ci EXCEPT ![e] = hw_ci[e] + 1] /\ hw_ci \in [Qps -> Nat]
        BY <1>1, <4>1 DEF Execute, CtrInv, CtrTypeOK
      <4>3. q = e
        BY <4>2
      <4> QED BY <4>1, <4>3
    <3>2. CASE \E p \in Posters : Advance(p) \/ \E n \in Lens : Call(p, n)
      BY <3>2 DEF Advance, Call, Reserve, Fill, Mark, Lock, Raise, Ring, Unlock, hwVars
    <3> QED BY <1>1, <3>1, <3>2 DEF CtrNext
  <2>2. hw_ci[q] < hw_pi[q]
    BY <2>1 DEF Execute
  <2>3. hw_ci[q] \in hw_ci[q] .. ready[q] - 1
    BY <1>1, <2>2, CtrFacts
  <2>4. AddIsGuarded(q, hw_ci[q])
    BY <1>1, <2>3 DEF CtrInv, Queued
  <2>5. ~(hw_ci[q] > hw_ci[q])
    BY <1>1, CtrFacts
  <2> QED BY <2>4, <2>5 DEF AddIsGuarded, NextWqe, Slot
<1>2. CtrInv /\ [CtrNext]_ctrVars => [Counts]_ctrVars
  BY <1>1
<1> QED BY <1>2, CtrInvariance, PTL DEF CtrSpec, CounterAfterData

-----------------------------------------------------------------------------
(* The composition: whichever part a behaviour exercises, the other stands *)
(* still, so that what holds of each holds of both.                        *)
THEOREM DevicePartsRun == DevSpec => []ConsumerIsExact /\ CounterAfterData
<1>1. DevInit => Init /\ CtrInit
  BY DEF DevInit
<1>2. [DevNext]_devVars => [Next]_vars /\ [CtrNext]_ctrVars
  BY DEF DevNext, devVars, Poll, Count
<1>3. DevSpec => Spec /\ CtrSpec
  BY <1>1, <1>2, PTL DEF DevSpec, Spec, CtrSpec
<1> QED BY <1>3, ConsumerExact, CountedAfterData, PTL
=============================================================================
