------------------------------ MODULE WorkQueue ------------------------------
(***************************************************************************)
(* What a send queue promises to the GPU kernel that posts on it: a        *)
(* bounded FIFO of work-queue entries (WQEs).  Entries are posted in index *)
(* order, handed to the NIC in index order, executed exactly once in index *)
(* order, and acknowledged to the kernel only after they succeeded.        *)
(* Posting never runs more than Depth entries ahead of execution.          *)
(*                                                                         *)
(* Nothing here knows of slots, locks, doorbells, owner bits or threads;   *)
(* SendQueue.tla is the code, and refines this module.                     *)
(***************************************************************************)
EXTENDS Naturals

CONSTANT Depth      \* entries that may be posted and not yet executed

VARIABLES
  posted,           \* entries published by the kernel: 0 .. posted - 1
  submitted,        \* entries the NIC has been told about
  executed,         \* entries the NIC has completed, with or without error
  succeeded,        \* entries completed before the first error, if any
  acked             \* entries the kernel knows to have succeeded

wqVars == <<posted, submitted, executed, succeeded, acked>>

Init ==
  /\ posted = 0
  /\ submitted = 0
  /\ executed = 0
  /\ succeeded = 0
  /\ acked = 0

Post ==
  /\ posted' \in Nat
  /\ posted' > posted
  /\ posted' <= executed + Depth
  /\ UNCHANGED <<submitted, executed, succeeded, acked>>

Submit ==
  /\ submitted' \in Nat
  /\ submitted' > submitted
  /\ submitted' <= posted
  /\ UNCHANGED <<posted, executed, succeeded, acked>>

(* An error is final: every later entry is flushed with an error too.      *)
Execute ==
  /\ executed < submitted
  /\ executed' = executed + 1
  /\ \/ succeeded' = succeeded
     \/ succeeded = executed /\ succeeded' = executed + 1
  /\ UNCHANGED <<posted, submitted, acked>>

Acknowledge ==
  /\ acked' \in Nat
  /\ acked' > acked
  /\ acked' <= succeeded
  /\ UNCHANGED <<posted, submitted, executed, succeeded>>

Next == Post \/ Submit \/ Execute \/ Acknowledge

Spec == Init /\ [][Next]_wqVars
=============================================================================
