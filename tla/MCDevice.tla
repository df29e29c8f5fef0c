------------------------------ MODULE MCDevice ------------------------------
(***************************************************************************)
(* Two parts of the device library that share no state, checked in one     *)
(* run: polling a collapsed CQ (doca_gpunetio_dev_verbs_cq.cuh) and the    *)
(* operations that count their completion                                  *)
(* (doca_gpunetio_dev_verbs_counter.cuh).  part is the one a behaviour     *)
(* exercises.                                                              *)
(***************************************************************************)
EXTENDS CollapsedCq, CounterOps, TLC

CONSTANTS t1, t2, q1, q2, q3

VARIABLE part

devVars == <<part, vars, ctrVars>>

(* Both threads on the same pair of QPs; the companion of one as the first *)
(* QP of the other.                                                        *)
TwoLayouts ==
  {t1 :> <<q1, q2>> @@ t2 :> <<q1, q2>>,
   t1 :> <<q1, q2>> @@ t2 :> <<q2, q3>>}

(* The part that is left alone starts in one of its initial states.        *)
DevInit ==
  /\ part \in {"poll", "counter"}
  /\ Init
  /\ CtrInit
  /\ part = "poll" => handler = "db" /\ qps = t1 :> <<q1, q2>> @@ t2 :> <<q1, q2>>

Poll(A) == part = "poll" /\ A /\ UNCHANGED <<part, ctrVars>>
Count(A) == part = "counter" /\ A /\ UNCHANGED <<part, vars>>

DevNext == Poll(Next) \/ Count(CtrNext)

(* The fairness of FairSpec, and of the threads inside a counted operation *)
(* and the NIC executing each QP.                                          *)
DevSpec ==
  /\ DevInit /\ [][DevNext]_devVars
  /\ WF_devVars(Poll(NicComplete))
  /\ \A t \in Threads : WF_devVars(Poll(Step(t)))
  /\ \A p \in Posters : WF_devVars(Count(Advance(p)))
  /\ \A q \in Qps : WF_devVars(Count(Execute(q)))
=============================================================================
