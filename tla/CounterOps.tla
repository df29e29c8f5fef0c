----------------------------- MODULE CounterOps -----------------------------
(***************************************************************************)
(* One-sided operations that count their completion                        *)
(* (src/include/device/doca_gpunetio_dev_verbs_counter.cuh): the data goes *)
(* to a QP, and to a companion QP go a WAIT for the last of the data to    *)
(* complete and an atomic add to the counter.  Both QPs are shared with    *)
(* other threads and submitted together.  put, p, put_signal, signal and   *)
(* get differ in the number of WQEs on the first QP.                       *)
(*                                                                         *)
(* Abstracted, SendQueue has them in full: the poll of a slot wait, the    *)
(* doorbell record with the second ring, and the 16 bits of a doorbell.    *)
(***************************************************************************)
EXTENDS Naturals, Sequences, FiniteSets

CONSTANTS
  Posters,          \* GPU threads
  Qps,
  Layouts,          \* which <<QP, companion QP>> each thread posts to
  SqSize,           \* sq_wqe_num of every QP
  Lens,             \* numbers of WQEs an operation has on its first QP
  MaxOps            \* bound: operations of a thread

\* No QP is, through any number of operations, its companion's companion; an operation
\* fits its queue.
ASSUME LayoutsAssumption ==
  /\ Layouts \subseteq [Posters -> [{1, 2} -> Qps]]
  /\ \E rank \in [Qps -> 1 .. Cardinality(Qps)] :
       \A l \in Layouts, p \in Posters : rank[l[p][1]] < rank[l[p][2]]
  /\ SqSize \in Nat /\ SqSize >= 2
  /\ Lens \subseteq 1 .. SqSize
  /\ MaxOps \in Nat

VARIABLES
  qps,              \* thread -> its two QPs
  handler,          \* nic_handler of the QPs: "db" or "no_dbr"
  rsvd,             \* sq_rsvd_index of each QP
  ready,            \* sq_ready_index
  prod,             \* sq_wqe_pi
  lock,             \* sq_lock: its holder or "free"
  wqe,              \* slots of each QP
  hw_pi, hw_ci,     \* NIC: WQEs it knows of, WQEs it has completed
  at,               \* thread -> position in its operation, 0 outside one
  from, len,        \* thread -> WQEs of its operation on each QP
  raised,           \* thread -> it has raised sq_wqe_pi and will ring
  ops, counted      \* ghosts: operations called, operations counted

swVars == <<rsvd, ready, prod, lock, wqe>>
hwVars == <<hw_pi, hw_ci, counted>>
ctrVars == <<qps, handler, swVars, hwVars, at, from, len, raised, ops>>

CtrInit ==
  /\ qps \in Layouts
  /\ handler \in {"db", "no_dbr"}
  /\ rsvd = [q \in Qps |-> 0] /\ ready = rsvd /\ prod = rsvd /\ hw_pi = rsvd /\ hw_ci = rsvd
  /\ lock = [q \in Qps |-> "free"]
  /\ wqe = [q \in Qps |-> [i \in 0 .. SqSize - 1 |-> [kind |-> "none"]]]
  /\ at = [p \in Posters |-> 0] /\ ops = at /\ counted = at
  /\ from = [p \in Posters |-> <<0, 0>>]
  /\ len = [p \in Posters |-> <<0, 0>>]
  /\ raised = [p \in Posters |-> FALSE]
-----------------------------------------------------------------------------
(* The steps of an operation, each with the QP it is about, 1 or 2.        *)

\* seeded bug: nothing is marked ready before everything is filled.
PrepareAll == << <<"reserve", 1>>, <<"fill", 1>>, <<"reserve", 2>>, <<"fill", 2>>,
                 <<"mark", 1>>, <<"mark", 2>> >>

Prepare == << <<"reserve", 1>>, <<"fill", 1>>, <<"mark", 1>>,
              <<"reserve", 2>>, <<"fill", 2>>, <<"mark", 2>> >>

\* All locks are held from the first loop over the QPs to the second.
SubmitAll ==
  IF handler = "db"
  THEN << <<"lock", 1>>, <<"raise", 1>>, <<"ring", 1>>,
          <<"lock", 2>>, <<"raise", 2>>, <<"ring", 2>>, <<"unlock", 1>>, <<"unlock", 2>> >>
  ELSE << <<"raise", 1>>, <<"ring", 1>>, <<"raise", 2>>, <<"ring", 2>> >>

OpSteps == Prepare \o SubmitAll

\* p is at a step of this name, about side s of its QPs; it goes on to the next.
At(p, name, s) ==
  /\ at[p] > 0
  /\ OpSteps[at[p]] = <<name, s>>
  /\ at' = [at EXCEPT ![p] = (@ + 1) % (Len(OpSteps) + 1)]

Qp(p, s) == qps[p][s]

ProdIndex(p, s) == from[p][s] + len[p][s]

\* seeded bug: of its first.
WaitIndexFirst(p) == from[p][1]

\* The WAIT is for the completion of the operation's last WQE on the first QP.
WaitIndex(p) == ProdIndex(p, 1) - 1

\* What is written at an index of the operation's; an add remembers, as a ghost, the
\* operation and the index of its last data.
Content(p, s, i) ==
  IF s = 1 THEN [kind |-> "data"]
  ELSE IF i = from[p][2] THEN [kind |-> "wait", on |-> Qp(p, 1), index |-> WaitIndex(p)]
  ELSE [kind |-> "add", on |-> Qp(p, 1), index |-> from[p][1] + len[p][1] - 1, by |-> p]

Call(p, n) ==
  /\ at[p] = 0
  /\ ops[p] < MaxOps
  /\ ops' = [ops EXCEPT ![p] = @ + 1]
  /\ len' = [len EXCEPT ![p] = <<n, 2>>]
  /\ at' = [at EXCEPT ![p] = 1]
  /\ UNCHANGED <<qps, handler, swVars, hwVars, from, raised>>

Reserve(p, s) ==
  /\ At(p, "reserve", s)
  /\ from' = [from EXCEPT ![p][s] = rsvd[Qp(p, s)]]
  /\ rsvd' = [rsvd EXCEPT ![Qp(p, s)] = @ + len[p][s]]
  /\ UNCHANGED <<qps, handler, ready, prod, lock, wqe, hwVars, len, raised, ops>>

\* Waits until the last slot it reserved is available.
Fill(p, s) ==
  /\ At(p, "fill", s)
  /\ ProdIndex(p, s) <= hw_ci[Qp(p, s)] + SqSize
  /\ LET mine(k) == {i \in from[p][s] .. ProdIndex(p, s) - 1 : i % SqSize = k}
     IN  wqe' = [wqe EXCEPT ![Qp(p, s)] =
                   [k \in 0 .. SqSize - 1 |->
                      IF mine(k) = {} THEN @[k] ELSE Content(p, s, CHOOSE i \in mine(k) : TRUE)]]
  /\ UNCHANGED <<qps, handler, rsvd, ready, prod, lock, hwVars, from, len, raised, ops>>

\* In the order of reservation.
Mark(p, s) ==
  /\ At(p, "mark", s)
  /\ ready[Qp(p, s)] = from[p][s]
  /\ ready' = [ready EXCEPT ![Qp(p, s)] = from[p][s] + len[p][s]]
  /\ UNCHANGED <<qps, handler, rsvd, prod, lock, wqe, hwVars, from, len, raised, ops>>

Lock(p, s) ==
  /\ At(p, "lock", s)
  /\ lock[Qp(p, s)] = "free"
  /\ lock' = [lock EXCEPT ![Qp(p, s)] = p]
  /\ UNCHANGED <<qps, handler, rsvd, ready, prod, wqe, hwVars, from, len, raised, ops>>

Raise(p, s) ==
  /\ At(p, "raise", s)
  /\ raised' = [raised EXCEPT ![p] = prod[Qp(p, s)] < ProdIndex(p, s)]
  /\ prod' = [prod EXCEPT ![Qp(p, s)] = IF @ < ProdIndex(p, s) THEN ProdIndex(p, s) ELSE @]
  /\ UNCHANGED <<qps, handler, rsvd, ready, lock, wqe, hwVars, from, len, ops>>

\* Doorbells of threads without a lock may arrive in either order; the NIC keeps the
\* larger index (external).
Ring(p, s) ==
  /\ At(p, "ring", s)
  /\ hw_pi' = IF raised[p] /\ hw_pi[Qp(p, s)] < ProdIndex(p, s)
              THEN [hw_pi EXCEPT ![Qp(p, s)] = ProdIndex(p, s)]
              ELSE hw_pi
  /\ UNCHANGED <<qps, handler, swVars, hw_ci, counted, from, len, raised, ops>>

\* The record and the second doorbell go before.
Unlock(p, s) ==
  /\ At(p, "unlock", s)
  /\ lock' = [lock EXCEPT ![Qp(p, s)] = "free"]
  /\ UNCHANGED <<qps, handler, rsvd, ready, prod, wqe, hwVars, from, len, raised, ops>>

Advance(p) ==
  \E s \in {1, 2} : \/ Reserve(p, s) \/ Fill(p, s) \/ Mark(p, s)
                    \/ Lock(p, s) \/ Raise(p, s) \/ Ring(p, s) \/ Unlock(p, s)

\* External.  WQEs of a QP execute in order; a WAIT holds its QP back.
NextWqe(q) == wqe[q][hw_ci[q] % SqSize]

Execute(q) ==
  /\ hw_ci[q] < hw_pi[q]
  /\ NextWqe(q).kind = "wait" => NextWqe(q).index < hw_ci[NextWqe(q).on]
  /\ hw_ci' = [hw_ci EXCEPT ![q] = @ + 1]
  /\ counted' = IF NextWqe(q).kind = "add" THEN [counted EXCEPT ![NextWqe(q).by] = @ + 1] ELSE counted
  /\ UNCHANGED <<qps, handler, swVars, hw_pi, at, from, len, raised, ops>>

CtrNext ==
  \/ \E p \in Posters : Advance(p) \/ \E n \in Lens : Call(p, n)
  \/ \E q \in Qps : Execute(q)

CtrSpec == CtrInit /\ [][CtrNext]_ctrVars
-----------------------------------------------------------------------------
\* Type invariant, with the order of the indices of a QP: the NIC knows of no WQE that
\* is not marked ready.
CtrTypeOK ==
  /\ qps \in Layouts /\ handler \in {"db", "no_dbr"}
  /\ {rsvd, ready, prod, hw_pi, hw_ci} \subseteq [Qps -> Nat]
  /\ lock \in [Qps -> Posters \cup {"free"}] /\ DOMAIN wqe = Qps
  /\ at \in [Posters -> 0 .. Len(OpSteps)] /\ {from, len} \subseteq [Posters -> [{1, 2} -> Nat]]
  /\ raised \in [Posters -> BOOLEAN]
  /\ ops \in [Posters -> 0 .. MaxOps] /\ counted \in [Posters -> Nat]
  /\ \A q \in Qps :
       /\ hw_ci[q] <= hw_pi[q] /\ hw_pi[q] <= prod[q]
       /\ prod[q] <= ready[q] /\ ready[q] <= rsvd[q]

\* A counter is never incremented before all the data of its operation has completed,
\* however the operations of threads interleave on both QPs.
CounterAfterData ==
  [][\A q \in Qps : hw_ci'[q] # hw_ci[q] /\ NextWqe(q).kind = "add"
                      => NextWqe(q).index < hw_ci[NextWqe(q).on]]_ctrVars

\* Every operation is counted, of the MaxOps a thread makes at most: neither the slot
\* waits on two QPs, nor the in-order marking, nor the two locks leave threads waiting
\* for each other.
EveryOpCounted ==
  \A p \in Posters : counted[p] < ops[p] ~> counted[p] = ops[p]
=============================================================================
