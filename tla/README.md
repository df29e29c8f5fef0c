# A formal model of gpunetio

gpunetio (DOCA GPUNetIO, open part) lets CUDA kernels drive an RDMA NIC
directly: GPU threads write work-queue entries (WQEs) into a send queue in
memory, ring the NIC's doorbell themselves and poll completion-queue entries
(CQEs). The host side creates the queues, exports them to the GPU and, where
the GPU cannot reach the doorbell, rings it on the GPU's behalf.

This directory holds TLA+ modules of that code, TLC configurations that
model-check them and TLAPS proofs about them. `PROJECT.json` lists runs,
properties, the source lines every definition models, the hazards of the code
and what covers them.

    tlc -workers 2 -config SendQueue_safety.cfg MCSendQueueModes
    tlapm SendQueueProofs.tla      (every module with theorems likewise)

## The system

Paths are relative to `src/`.

| Component | State | Operations | Talks to | Modelled by |
|---|---|---|---|---|
| Send queue, `include/device/..._qp.cuh` | `sq_rsvd_index`, `sq_ready_index`, `sq_wqe_pi`, `sq_lock`, the WQE ring, the doorbell record (DBR), the doorbell (DB) | reserve slots, wait for slots, prepare WQEs, mark ready, submit (DB, no DBR, BlueFlame, CPU proxy) | polls the CQ for free slots; the NIC through DBR and DB | `SendQueue`, `Transfers` (formats), `CpuProxy` (proxy and no-DBR submit) |
| CQ polling, `..._cq.cuh` | `cqe_ci`, `cqe_rsvd`, the CQE ring | poll at an index (waiting or once), collapsed poll, poll a count, update the CQ's DBR | the NIC writes CQEs | `SendQueue`, `CollapsedCq`, `QpReset` |
| Atomics and lock, `..._common.cuh` | the lock word | fetch_add, fetch_max, lock, unlock in three sharing modes | used by all device code | atomic steps of the others |
| One-sided operations, `..._onesided.cuh` | none of their own | put, p, put_signal, get, signal, mcst, wait; of a thread and of a warp | callers of the send queue | `Transfers` |
| Counter operations, `..._counter.cuh` | several QPs at once | an operation on one QP counted on another; submit several QPs under all their locks | send queue | `CounterOps` |
| CPU proxy and service thread, `src/doca_gpunetio.cpp` | `cpu_db`, `sq_wqe_pi_last`, the set of monitored QPs, `running`, a reader-writer lock | progress, create, monitor, destroy | reads the index the GPU publishes, rings for it | `CpuProxy` |
| QP export, same file | the GPU copy of the QP, UAR registrations with their counts | export, get_qp_dev, unexport, for one QP and for an array | initialises the counters above | `QpExport` |
| Reset of tracking, same file | `cqe_rsvd` and all counters | reset_tracking_and_memory | the polls after it | `QpReset` |
| GPU memory table, same file and `doca_gpunetio_gdrcopy.cpp` | map of allocations by address | device create and destroy, alloc, free | CUDA, GDRCopy | `GpuMem` |
| High-level creation, `src/doca_gpunetio_high_level.cpp` | none of its own | create and destroy QPs, groups, flat lists | export, verbs objects | `HighLevel`, `QueueLayout` |
| Verbs QP, `src/doca_verbs_qp.cpp` | `m_current_state`, attributes, the layout of the rings | create, modify (RST, INIT, RTR, RTS, ERR), query, destroy, getters | the device by commands | `VerbsQp`, `VerbsObjects`, `VerbsAttrs`, `QueueLayout` |
| Verbs CQ, SRQ, UMEM, UAR, device | object handles, attributes | create, getters, destroy | the device | `VerbsObjects`, `VerbsAttrs`, `QueueLayout` |
| SDK wrappers, `src/*_sdk_wrapper.cpp` | resolved symbols | one forwarded call each | a closed library, which may be absent | `VerbsObjects`, `VerbsAttrs` |
| ibverbs, mlx5dv, CUDA wrappers | resolved symbols | one call each | closed libraries | not modelled |

What is hard in this code is on the device side: any number of GPU threads
share a QP without a queue lock, every index has a 16-bit shadow the NIC sees,
slots and CQEs are reused every lap, doorbells can be dropped by the NIC, and
completions are polled by threads that hold stale copies of `cqe_ci`. On the
host side it is a service thread that rings for the GPU, partial failures of
long creation sequences, an SDK that may or may not be there, sizes counted in
four units, and a cached QP state.

What makes each component correct:

* send queue: a slot is not reused before the NIC is done with it; the NIC is
  told of complete WQEs only, in order, never backwards; no doorbell is lost;
  everything reserved is eventually executed;
* polling: success means the WQE completed without error, error means it
  failed; a waiting poll returns once its completion arrived;
* one-sided and counted operations: what was asked for is moved once and
  whole; signal, DUMP and counter come after the data;
* CPU proxy: every index published is eventually rung, destroy terminates;
* export, creation, memory: what is acquired is released exactly once on every
  path; reset leaves counters and CQEs that agree;
* verbs objects: only the transitions of the state machine, cached state in
  step with the device; attributes reach creation as they were set; rings have
  the room asked for where device and kernels look for them.

## Modules

| Module | What it is |
|---|---|
| `WorkQueue` | Abstract: what a send queue promises, a bounded FIFO of WQEs with five counters (posted, submitted, executed, succeeded, acknowledged) |
| `SendQueue` | The device code: reserve, slot wait, write, publish, `submit_db`, `poll_cq_at`, `poll_one_cq_at`, with the NIC as environment; properties; the refinement mapping to `WorkQueue` |
| `SendQueueInv` | The inductive invariant of `SendQueue` |
| `SendQueueProofs` | Theorems: the invariant, the safety properties, the doorbell record; `SendQueue` implements `WorkQueue` |
| `ModArith` | Lemmas about `\div` and `%` for rings and 16-bit fields |
| `CollapsedCq` | The collapsed CQ: polls that learn only the 16-bit counter of the latest completion |
| `CounterOps` | Operations over two QPs with a counter, and the locks of several QPs |
| `DeviceProofs` | The inductive invariants of `CollapsedCq` and `CounterOps`, theorems about them and about `MCDevice`, which joins them |
| `Transfers` | The one-sided operations: which WQEs they post, which segments they store, what the data has done when they return |
| `TransfersProofs` | Its inductive invariant and theorems |
| `CpuProxy` | The service thread, the calls that steer it and the GPU threads it rings for; it too implements `WorkQueue` |
| `CpuProxyProofs` | Its inductive invariant, safety and refinement theorems |
| `QpExport` | Export and withdrawal of QPs, UAR counts, the dispatch of submit |
| `QpExportProofs` | Its inductive invariants and theorems |
| `QpReset` | A QP that starts again while its CQ goes on |
| `GpuMem` | The table of GPU allocations |
| `HighLevel` | Creation and destruction of a high-level QP or group, stage by stage |
| `QueueLayout` | Sizes and places of rings and doorbell records, as object, device and kernels see them |
| `HighLevelProofs` | Powers of two and rounding, theorems about `QueueLayout`; the inductive invariant of `HighLevel`, theorems about it and about `MCHighLevel`, which joins them |
| `VerbsQp` | The state machine of `doca_verbs_qp_modify` against the device's |
| `VerbsObjects` | Life and death of the verbs objects, with and without the SDK |
| `VerbsAttrs` | Their attributes and getters |
| `HostProofs` | Theorems about `VerbsQp`, `GpuMem`, `VerbsObjects`, `VerbsAttrs`, `QpReset` and about `MCHost`, which joins them |
| `MCSendQueueModes` | `SendQueue` with its two ways to publish and the two builds of its polls side by side; `mode`, constant in a behaviour, says which of them it uses |
| `MCSendQueue`, `MCCpuProxy`, `MCDevice`, `MCQpExport`, `MCHighLevel`, `MCHost` | Model values, symmetry and inputs for TLC. The last four put modules that share no state side by side (`MCQpExport` also an instance of `SendQueue` for one thread alone): `part`, constant in a behaviour, says which of them it exercises |

How they fit: `SendQueue` is the core; `CollapsedCq`, `QpReset`, `CounterOps`,
`Transfers` and `CpuProxy` each look at one neighbour of it and take from it
what the others prove or check (a posted WQE is published in order, slots are
waited for, the queue is bounded). `SendQueue` and `CpuProxy` are both shown to
implement `WorkQueue`, which is that promise. On the host side `HighLevel`
stands on `VerbsObjects`, `QueueLayout` and `QpExport`, and takes each of their
calls as one stage that may fail.

Operators commented "seeded bug" are plausible mistakes in the definition that
follows them. No specification uses them; substituting one for the definition
it precedes makes a property fail, which shows that the property looks at the
code it is about.

### SendQueue

One action is one atomic access of the code to shared memory, with the local
computation around it. `pc[t]` says where thread `t` stands:

    idle -> Reserve -> (slot wait: load_ci <-> load_cqe -> advance) -> write ...
         -> ready (-> ready_store) -> lock -> fetch_max
         -> ring_early -> update_dbr -> ring_again -> unlock -> idle
    idle -> Wait / TryPoll -> load_ci <-> load_cqe -> advance -> idle

| Action | Code |
|---|---|
| `Reserve(t, n)` | `reserve_wq_slots`: fetch_add on `sq_rsvd_index`, then the slot wait polls the completion one lap before the *last* slot |
| `LoadCi`, `LoadCqe`, `AdvanceCi` | `poll_cq_at` (loops) and `poll_one_cq_at` (returns EBUSY): the load of `cqe_ci`, the load of the CQE with the exit condition, the fetch_max on `cqe_ci` |
| `WriteWqe` | one `wqe_prepare_*` of an operation |
| `MarkReady`, `StoreReady` | `mark_wqes_ready`: one atomicCAS, or the final load of the LD_ST loop and its separate store |
| `Lock` ... `Unlock` | `submit_db`; `SkipSubmit` is `CODE_OPT_SKIP_DB_RINGING` |
| `Wait`, `TryPoll` | `wait` with a ticket or without, `poll_one_cq_at` |
| `NicDoorbell`, `NicRecover`, `NicComplete` | the NIC (external): takes the doorbell, or drops it and reads the doorbell record; executes a WQE and writes its CQE; an error flushes all later WQEs |

Indices are the 64-bit counters of the code, as naturals. `Idx16` is the
truncation to a hardware field; `IdxMod` stands for 2^16 and is small in the
runs, so that wraps happen. The NIC reads a field as the nearest index at or
after the one it knows: an index that went backwards becomes a jump of almost
`IdxMod`, as in hardware. `wq` and `cq` map a slot to the index it was last
written for; the code sees only what `Observed` and `Failed` extract: owner
bit, `wqe_counter` in the build for arch < sm_90, and the opcode.

What is abstracted:

* WQE contents; every WQE asks for a CQE, as every caller in the repository
  does (CQ_UPDATE), so CQE i belongs to WQE i;
* the CTA sharing mode, which is the GPU mode with narrower scopes;
* memory order: accesses take effect in program order. The fences of the code
  are what justifies it for WQE, publication and doorbell; the two relaxed
  loads of a poll have no fence between them and are listed as a hazard;
* a warp-wide put, whose lanes write their WQEs in parallel between two
  `__syncwarp`s, is a reservation of 32 written one after another;
* `cqe_rsvd`, 0 until tracking is reset, and `CODE_OPT_SKIP_AVAILABILITY_CHECK`
  (callers who promise free slots by other means).

Constants and assumptions: `SizesAssumption` (positive queue size, at least as
many CQEs as WQEs, a 16-bit field that can tell a queue of indices apart) is
the comment "Check QP and CQ same size" of `doca_gpu_verbs_export_qp`; the code
does not enforce it. `ExclusiveAssumption` is the meaning of
`RESOURCE_SHARING_MODE_EXCLUSIVE`: one thread uses the QP.

### CollapsedCq

The NIC overwrites one CQE; a poll reads its `wqe_counter` and opcode in one
32-bit load, decides by 16-bit arithmetic whether that is far enough
(`Behind`), and rebuilds a 64-bit consumer index (`NewCi`). Submission is
reduced to `sq_wqe_pi`, with at most `WqeNum` WQEs in flight, which callers of
a collapsed CQ ensure themselves. Any index may be polled, submitted or not.

### CounterOps

A thread reserves on its QP and on the companion (`OpSteps`, one entry per step
of the code), writes the data WQEs and a WAIT with an atomic add, marks both
queues in order and submits both under both locks, with or without a doorbell
record. `Layouts` says which thread uses which pair: the same pair, or a chain
in which the companion of one thread is the first QP of another. Opposite
orders of the same two QPs deadlock in the code (see the departures below) and
`LayoutsAssumption` excludes them. The NIC executes a WAIT when the WQE it
names has completed on the other QP.

### Transfers

`Plan` gives the WQEs of a call as the code computes them: `NumChunks` is
`div_ceil_aligned_pow2_32bits`, a zero-sized put is a NOP, a get in MCST mode
ends in a DUMP. `Format` gives the 16-byte segments that each
`wqe_prepare_*` stores and the `ds` it puts in the control segment; the NIC
reads the segments `ds` names, whoever stored them. A slot holds its segments
one by one, so a WQE can be torn. `Fill` is one `wqe_prepare_*` of a thread or
of a lane; `Mark`, `SubmitWqes`, `Polled` are the calls of the send queue, by
lane 0 for a warp; `StartWait` and `FinishWait` are `wait`.
`TransfersAssumption` says which calls there are: those of the header, with
sizes for the kinds that take one, and threads that are not lanes.

### CpuProxy

`svc` walks `service_mainloop`: `CheckRunning`, `RdLock`, over the set of
QPs `LoadDb`, `RingEarly`, `UpdateDbr`, `Ring`, then `RdUnlock`, `Yield`. The
three kinds of QP are those of `cpu_proxy_progress` (with a record,
`NoDbrHwQps` without) and of the assisted progress that only writes the record.
`host` is the caller of `monitor_qp` (`WrLock`, `Insert`) and of
`destroy_service` (`Destroy`, `Join`). GPU threads post and either store their
index for the proxy (`SubmitProxy`) or ring without a record (`SubmitNoDbr`,
`GpuRing`). Posting is one step. `First` starts the indices just below a wrap.

The doorbells of a QP reach the NIC in any order (`db`), and the NIC takes one
for old by its 16 bits (`Recent`): it is fooled by a doorbell or a record that
is half a range of indices late. No code keeps GPU threads from posting while a
doorbell is on its way, so that this does not happen is an assumption about
timing, and `Timely` names it: in the time half a range is posted (32768 WQEs),
a GPU thread rings what it has raised, doorbells arrive, and the service thread
brings the record of a QP it assists up to date. TLC finds each of the three
conjuncts necessary for `NoLostDoorbell` and `ImplementsWorkQueue`.

### QpExport, QpReset, GpuMem

`QpExport`: one action per call and per place it can fail; `live` is what is
allocated on the GPU, `refcount` and `registered` the code's maps of UARs,
`cpuDb` and `dev` the pointers of the host copy. `Submit(q)` is the function
the device's `submit` picks for the handler the export chose.

`QpReset`: `Reset` writes the host copy, the filler CQEs and the device
copy, and `ResetFails` stops in between or after the last copy; then posting, NIC
and polls go on with the NIC's own completion index. A poll is one step
(`Result`). `earlier` is a history variable: how many WQEs the CQ has seen that
`cqe_rsvd` does not count.

`GpuMem`: `held[a]` is what the process owns for the block `a` (CUDA memory,
mapping, pin, host memory), `table` what the library knows. An allocation of
each kind with a failure at each step is one action.

### HighLevel and QueueLayout

`HighLevel`: `pos` is the stage of `Plan` the call is at, `undo` the releases that
the running error path or destructor still owes, each with its turn: the path of
the function that failed first, then the main QP's, then the companion's, and a
step makes the one whose turn is least. `field` is the struct of the caller,
which error paths read; `live` is what exists. Frees go by `field`, as in the
code, so a stale pointer frees the wrong thing (`misused`).

`QueueLayout`: a request has the sizes asked for and, perhaps, an offset in an
external UMEM. `Object` is what `create` keeps for its getters, `Device` what
the command tells the device, in the device's units (logarithms, strides of 16
bytes, page offsets), `GetWq` and `Export` what kernels get. `LimitsAssumption` is what
the code takes from the device: descriptor sizes are 16-bit capabilities, the
largest send descriptor a multiple of a WQEBB, the largest SRQ entry fits a
receive descriptor, and a queue has at most 2^15 entries (`log_max_qp_sz`,
`log_max_srq_sz`; a larger one would not fit the 16-bit `sq_wqe_num`).
`RequestsAssumption`: attributes are 32-bit numbers, SGE counts at most 2^27
(see the departures).

### VerbsQp, VerbsObjects, VerbsAttrs

`VerbsQp`: `Modify` picks the command from `m_current_state` (or the caller's
CURRENT_STATE) and NEXT_STATE, checks the mask against `Requested` and
`OptionalOf`, copies the attributes and sets `OptParams`. The device refuses
what does not fit its state and may go to ERR at any time.

`VerbsObjects`: `Stages` lists what creation of each object acquires;
`OpenCreateFails` and `DestroyOpen` give it back by `ReleaseOrder`, each
release of which the device may refuse. A UAR and a UMEM may each be given
instead (`ext`), independently of the other. `lib` is the set of wrappers that found
the SDK.

`VerbsAttrs`: one attribute per behaviour, of one of the kinds of objects in the
tables at its head, each table naming the setters whose bodies agree. Setters,
getters and consumers (creation, modification) go to the SDK, or to the open
object, by the rules of each body.

## Runs

| Run | Configuration | Instance | Question |
|---|---|---|---|
| `safety` | `SendQueue_safety.cfg` | 2 threads, 2 slots, 2 CQEs, 16-bit fields mod 5, operations of 1 or 2 WQEs, 5 WQEs; mode `cas`: errors, `wqe_counter` compared; `ld_st`: LD_ST publication, 4 WQEs; `owner`: as `cas` with polls of sm_90, no errors; `owner_errors`: the same with errors, 4 WQEs | the safety of the queue, slot reuse, doorbells and lock included; polls report what happened in both builds; `WorkQueue` is implemented |
| `status_sm90` | `SendQueue_status_sm90.cfg` | owner bit only | violated, see Findings |
| `live` | `SendQueue_live.cfg` | 2 threads, 3 WQEs by atomicCAS or 2 by LD_ST, no errors, fair | everything reserved completes, polls return |
| `device` | `Device_live.cfg` | polling: 2 threads, 2 in flight, mod 4, 5 WQEs, errors; counting: 2 threads of 2 operations, 3 QPs of 2 slots; fair | the consumer index of collapsed polls, and that they return; counters after data, no circle of waits |
| `proxy` | `CpuProxy_safety.cfg` | 1 GPU thread, 2 QPs only the proxy rings or 1 it assists, 5 WQEs on 2 slots, indices from 4 mod 6 | doorbells and records of the service thread while QPs come and the service goes |
| `proxy_live` | `CpuProxy_live.cfg` | 2 GPU threads, 2 WQEs, indices from 6 mod 8, fair | what is published is executed; host calls return |
| `qpexport` | `QpExport_safety.cfg` | 2 QPs, 2 UARs, all handlers, every failure; a thread and a warp of 2 lanes, 2 calls on a queue of 4, chunks of 2 units; one thread alone: 4 slots, 8 CQEs, mod 8, operations of 1 or 3 WQEs, 12 WQEs, errors, skipped doorbells | ledgers and pointers of export; what one-sided calls move; the queue without atomics and lock (`AloneSafe`) |
| `hl` | `HighLevel_safety.cfg` | one QP or a group, every mode, a failure at each stage; requests at the real limits of a ConnectX device | creation is all or nothing; rings have room and agree |
| `host` | `Host_safety.cfg` | 3 blocks; two resets, epochs of up to 5 WQEs on a queue of 2, each attempt failing at any of four places, polls of both builds; the masks of `QpMasks`; one object of each kind; every attribute | memory, reset, state machine, objects, attributes |
| `umem_sdk` | `VerbsObjects_gpuumem.cfg` | UMEMs of GPU memory through the SDK | violated, see Findings |
| `reset_again` | `QpReset_again.cfg` | two resets, none fails, `wqe_counter` compared | violated, see Findings |
| `poll_collapsed` | `CollapsedCq_poll.cfg` | one thread, no errors | violated, see Findings |

Several modules share a run where they share no state; a behaviour of such a
run exercises one of them (`part`).

Bounds.

* `SendQueue`. `MaxWqes` bounds the WQEs of a behaviour (a guard of `Reserve`);
  everything else is finite by itself. Two slots and five WQEs go round the ring
  more than twice and let the 16-bit fields wrap; a third thread or slot adds no
  new kind of conflict, because each thread meets the others only through the
  counters, the lock and the slots, and the theorems below cover every size
  anyway. `IdxMod` in `safety` is the smallest that tells the WQEs of a behaviour
  apart, which `ErrorIsTrue` needs where `wqe_counter` is compared. Polls that do
  not compare it attribute errors over two laps only, hence the 4 WQEs
  (`FewerWqes`) of `owner_errors`; `status_sm90` posts five. `ld_st` has 4 because
  its window, between a load and a store, opens and closes within a lap. That their successes are true with
  errors and more laps is `PollsSound`, proved. `safety` has 2.8 million states.
* `device`. Five WQEs in a mod 4 counter wrap it once with polls on either side
  and let the NIC get a lap ahead of a poll. Two operations of up to two data
  WQEs on queues of two make operations wait for slots of both QPs.
* `proxy`, `proxy_live`. `First` lies just below the wrap. In `proxy` the range of
  six is twice the queue and two: the fifth WQE makes `Timely` hold a post back.
  In `proxy_live` it is four times the WQEs, so that `Timely` holds nothing back
  and liveness owes nothing to it.
* `qpexport`. Two QPs can share a UAR or not, two is also the shortest array.
  Transfers of 0 to 3 units in chunks of 2 are empty, whole, and with a rest;
  two calls on four slots make the queue wrap and the thread and the warp
  interleave. The thread alone goes three times round its queue, past the wrap,
  with a completion queue twice as long and reservations that do not divide it.
* `hl`. Sizes stand on either side of each rounding and limit; logarithms up to
  30 bits.
* `host`. Two blocks can exist while a third is allocated. More than two laps of
  a queue of two put both owner bits and a full cycle of `wqe_counter` before and after
  a reset; the second reset has attempts of the first to repeat, and epochs
  without WQEs. `QpMasks` has what each transition requires, alone and with all
  that is optional, and each of these with one attribute more or less; two
  values per attribute tell "copied" from "kept". `Values` 0..3 has zero, powers
  of two and one that is none.

Liveness runs have smaller bounds, since checking them costs more; symmetry is
used in safety runs only.

Properties, and why they are not obvious:

* `PublishedIntact`: a WQE stays whole in its slot from publication until
  executed, although the next user of the slot is another thread that waited
  for one completion only;
* `DoorbellCoversReady`: the NIC never hears of an unpublished WQE nor goes
  backwards, although threads submit in any order;
* `NoLostDoorbell`: when nothing is under way the NIC knows everything, even if
  every doorbell but the last was dropped and recovered from a stale record;
* `DbrMovesForward`, `RecordMovesForward`: the record never moves by more than a
  queue, so its 16 bits are unambiguous;
* `SuccessIsTrue`, `ErrorIsTrue`: what polls report, from an owner bit that
  repeats every second lap and a stale `cqe_ci`;
* `AloneSafe`: the same without atomics and lock, where a thread publishes by
  plain stores, waits for the last slot of a reservation only and leaves
  doorbells to a later operation;
* `ImplementsWorkQueue` (send queue and proxy): the counters move as those of a
  bounded FIFO, whoever rings;
* `EveryWqeCompletes`, `PollReturns`: no circle of slot wait, publication turn
  and lock; no lost wake-up;
* `ConsumerIsExact`: a 64-bit index rebuilt from 16 bits of one counter, by
  several pollers, claims neither too much nor too little;
* `CounterAfterData`, `EveryOpCounted`: a WAIT names an index of a queue that
  other threads fill too; slots, in-order marking, locks and WAITs of two
  queues could wait for each other in a circle;
* `PublishedIsRung`, `HostCallsReturn`, `IterationUndisturbed`: the service
  thread, its lock and the calls that steer it;
* `NothingLost`, `PointersLive`, `SubmitReachesDevice` of export: counts of
  shared UARs, pages, copies and arrays after any order of calls and failures;
  the word a service thread reads is the one GPU threads store to, and where it
  is not there it is for one of three reasons the property names;
* `WholeWqes`, `MovedOnce`, `DataFirst`: torn WQEs, lost rests of a transfer,
  a signal before its data;
* `AllOrNothing`, `ReleasedInOrder`: error paths of creation run nested in error
  paths of the caller;
* `RoomAsAsked`, `DeviceAgrees`: sizes in four units, described in four places;
* `NothingLost` of memory: what each error path gives back is what was taken;
* `PollsTrueWhileCounted`: `cqe_rsvd`, filler CQEs and owner bits agree, through
  attempts that fail anywhere and are repeated, so that polls cannot tell a
  reset happened; as long as no epoch with WQEs came before the last (`earlier`)
  and the filler reads as not written (`FillerTold`);
* `StateIsKnown`, `AttrsAsPromised`: a cached state against a device that
  refuses and fails; masks, copied fields and `opt_param_mask` are three tables;
* `DeviceMemoryLive`, `AllGivenBack`: one release function for failed
  constructors and for refused destroys;
* `NoNullFollowed`, `TakenIsAsked`: objects of two implementations behind one
  handle type.

Each module also has a type invariant, but `QueueLayout`, whose variables
`LayoutInv` determines. All of them are proved (see Proofs).

Where a property makes an exception, it says which, and the list of departures
below says why: `GetVisible` for lanes other than 0 of a warp-wide get in MCST
mode that did not block (their ticket is that of their READ), `AllOrNothing` and
the two `NothingLost` after a step whose error path is incomplete,
`PointersLive` for the word of a proxied QP before its first device copy, after
`unexport_multi_qps_dev` and after an array's filling failed,
`PollsTrueWhileCounted` once an epoch with WQEs precedes the last one (finding 3)
and, on sm_90, where a filler has the owner bit expected, `ReleasedInOrder` for
the UAR of a group, `DeviceAgrees` for a QP at an offset in an external UMEM,
`TakenIsAsked` for an external UMEM whose setter failed half way,
`SubmitReachesDevice` for BlueFlame, `NullSafe` for the setter of the SRQ,
`PollReturns` of the collapsed CQ for polls the NIC is most of a lap ahead of. `EveryWqeCompletes` and `PollReturns` of the send queue are checked without
errors. Constants choose the environment elsewhere: `SameAddress` (CUDA maps a
registered page at its host address, as it does with unified addressing) and
`LibLoads` (GDRCopy is there); other values lead into departures listed below.

Deadlock is checked in the `SendQueue` and proxy runs and in `qpexport`, where
behaviours that are through stutter (`Done`, `TrDone`). It is off in `device`,
where all operations made and WQEs executed is an end, and in `hl`, `host` and
`umem_sdk`, where a created, destroyed or refused object is one, and in
`reset_again` and `poll_collapsed`, where all WQEs done is one. There, waiting
in a circle is what `EveryOpCounted` and `PollReturns` exclude; the host parts
do not wait.

Fairness. Threads inside a call keep running: weak fairness of each thread's
step, which independent thread scheduling of the GPU gives; none of the calls
themselves, as nothing makes a kernel post again. The NIC takes or recovers a
doorbell and executes a WQE it can execute: weak fairness of each. The lock
needs no strong fairness in `live`, because a thread that is passed over is
passed over at most as often as there are reservations left; in `device`
likewise. Nothing more is claimed of the unfair spin lock of the code. In
`proxy_live` the operating system runs the service thread and the host's call
(weak fairness of `ServiceStep` and `HostStep`); that the reader-writer lock is
handed to a waiting writer at `RdUnlock` is glibc's behaviour for a thread
blocked in `pthread_rwlock_wrlock` while the reader yields (external), and that
`destroy_service` returns rests on the kernels' stopping to post, as `MaxWqes`
makes them: the inner loop of the service thread does not look at `running`.

## Findings

1. `status_sm90` / `ErrorIsTrue`. From sm_90 on `poll_cq_at` compares only the
   owner bit (`..._cq.cuh:197-204`). If the other threads move on two laps
   between its load of `cqe_ci` and its load of the CQE, it may take the status
   of a later WQE: it returns -EIO for a WQE that succeeded, where the comment
   (`:237-238`) promises 0. A false *success* is impossible (theorem
   `PollsSound`). The older build also compares `wqe_counter` and is right in
   modes `cas` and `ld_st` of `safety`.
2. `umem_sdk` / `NoNullDevice`. An error of the SDK's constructor for a UMEM of
   GPU memory by dmabuf is not returned but taken for the SDK's absence
   (`doca_verbs_umem_sdk_wrapper.cpp:200-224`); `doca_verbs_umem_create` then
   follows `net_dev->open`, which is null for a device of the SDK, where
   `doca_verbs.h:2356-2360` promises `DOCA_ERROR_DRIVER`.
3. `reset_again` / `PollsSurviveReset`. `reset_tracking_and_memory` assigns
   `cqe_rsvd` the WQEs of the last epoch (`doca_gpunetio.cpp:1362`), where
   `doca_gpunetio_verbs_dev.h:164` says "All previous CQEs are polled": it ought
   to add them. A QP that ran one WQE and is reset twice has `cqe_rsvd` 0 while
   its CQ stands at 1; the poll of its next WQE looks into a slot the NIC does
   not write for it, and does not see the completion. The same holds for a reset
   that is repeated after its last copy, when the synchronisation failed (:1412).
4. `poll_collapsed` / `PolledIsComplete`. `poll_cq_collapsed_at` is documented to
   wait for the completion of the index it is given (`..._cq.cuh:318-325`), and
   its only caller passes the index of its last WQE; by the `- 2` of `:305` it
   waits for the completion before that one. The poll of index 1 returns 0 when
   WQE 0 is complete, and WQE 1 need not even be submitted (`:278`). What such a
   poll does show is theorem `PollsSeeBefore`.

### Other departures met while modelling

The models do what the code does in each of these; the properties are stated
around them, or the case is outside the inputs, as said above. GN is
`src/doca_gpunetio.cpp`, HL `src/doca_gpunetio_high_level.cpp`, VQ
`src/doca_verbs_qp.cpp`.

Device library:

* `cqe_ci` is not advanced over a failed completion (`..._cq.cuh:246`): polls
  and slot waits a completion queue further on spin for ever.
* Nearly a lap of `wqe_counter` behind the NIC, a collapsed poll waits for a
  completion it already has (`..._cq.cuh:303`).
* A BlueFlame QP given to `submit` goes to the proxy's function
  (`..._qp.cuh:585`), although no proxy runs for it; with an explicit handler,
  NO_DBR is looked up in the QP rather than in the argument (`:592`).
* `submit_db_multi_qps` takes all locks in the caller's order
  (`..._counter.cuh:120`): two kernels with opposite orders deadlock.
* `p_warp`, `put_signal_warp` and `signal_warp` are stubs that return ticket 0;
  `signal` without a ticket ignores its scope; the inline write stores 8 bytes
  of a larger value; the MCST warp get passes no code options to submit; the
  comments of the two MCST modes are exchanged (`verbs_def.h:381-382`).
* A masked compare-and-swap takes two slots, so that from then on CQE numbers
  and WQE indices differ, which polls by ticket do not know.

Export, proxy, memory:

* Where GDRCopy is not there, an allocation for it takes host memory
  (GN:393-424), which free hands to `cudaFree` (GN:543); an error of the mapping
  leaves the CUDA memory (GN:386), one of `insert` everything (GN:487).
* `unexport_uar` looks a GPU address up in a table keyed by host address
  (GN:697): nothing is withdrawn where the two differ. Array export returns success when calloc fails (GN:1059) and leaves
  pointers into the freed array when the copy fails (GN:1066).
* The service thread reads `cpu_db` of a watched QP whether or not the QP has a
  device copy. With NO_DBR_SW_EMULATED that word is null until `get_qp_dev`
  (GN:984); `unexport_multi_qps_dev` clears the device pointers but neither
  `cpu_db` nor `cpu_proxy` (GN:1103-1109), so that it points into the array just
  freed until the next copy; and so it does after a filling that failed
  (GN:1066). `PointersLive` names the three (`None`, `Forsaken`, `FillFailed`).
* Reset tracking: besides finding 3, on sm_90 nothing but the owner bit tells the
  filler CQE (GN:1383) from a completion: where the first lap of the new epoch
  expects a 1, a poll takes the filler for a success (`FillerTold` excludes it);
  the service thread must not run meanwhile (GN:1364).

High level:

* The UAR of a group goes before the companion (HL:681); a failed export leaves
  what was created (HL:795); so does the calloc of the record (HL:454); the
  error path frees an emulated record by `gpu_mem_free` (HL:620); a dmabuf file
  descriptor stays open when its registration fails (HL:161); a pointer is set before its allocation
  succeeded (HL:225).
* Creating a flat list reports success when a copy failed and frees the address
  of the caller's pointer (HL:1000).
* A send queue size of 32769 to 65535 becomes 0 in 16 bits, and is then refused.

Verbs:

* An SGE count beyond 2^27 makes the byte size of a WQE wrap in 32 bits
  (VQ:1350-1351, VQ:1383-1387), so that the check of that size passes; for a
  receive queue the next step divides by it (VQ:1365).
* `pkey_index` is compared with `>` against a count (VQ:627). RTS2RTS applies
  only `sgid_index` and DSCP of an address vector. `query_qp` returns neither
  the external doorbell record nor `atomic_mode` and `attr_mask` in open mode.
* `external_umem_offset` of a QP moves the library's addresses (VQ:1528-1529)
  and the device is not told; a CQ ignores it; the size of an external UMEM is
  not checked.
* `get_uar_mtype` follows `external_uar` without a check (VQ:1661); the open
  path of `set_ah_attr` checks neither null nor type (VQ:3018); `set_srq` and
  `get_srq` follow `open` of a handle of the SDK (VQ:3703).
* A CQ whose UAR the device will not free keeps its UMEM and buffer, a QP goes
  on. Two early returns (device, UMEM) drop the handle. With some wrappers
  present and others absent, creation crashes. An external UMEM is half set
  when the SDK's second setter fails. The SDK wrapper of
  `uar_dbr_less_addr_get` returns `reg_addr`.

## Proofs

TLAPS checks, for every value of the constants allowed by the assumptions (any
set of threads, any queue sizes, any field width, both ready modes, all
sharing modes):

* `SendQueueProofs`: `TypeCorrect`, `Invariance` (`Spec => []IInv`), and from it
  `WqesIntact`, `DoorbellSafe`, `MutualExclusion`, `DoorbellsArrive`,
  `PollsSound`, `ConsumerSound`, `ErrorsSound`, `DbrForward`
  (`Spec => DbrMovesForward`) and `Refinement` (`Spec => ImplementsWorkQueue`);
* `DeviceProofs`: `PollsSeeBefore`, `ConsumerSound`, `ConsumerComplete` and, from
  these two, `ConsumerExact`; `CountersTyped` and `CountedAfterData` for any
  layout of threads over queues; `DevicePartsRun` of the two parts together;
* `CpuProxyProofs`: `TypeCorrect`, `Invariance`, `DoorbellsArrive`, the action
  properties `WalkIsSafe` and `RecordForward`, and `Refinement`: every QP of the
  proxy, of whichever of the three kinds, implements `WorkQueue`;
* `TransfersProofs`: `TransfersInvariance`, `WqesStayWhole`, `MovedOnceHolds`,
  `DataComesFirst`, `TransfersTyped`, for any calls, warps, chunk and queue size;
* `QpExportProofs`: `PointersStayLive` and `SubmitReaches` for any CUDA;
  `ExportTyped` and `ExportBalanced` assuming `SameAddress`;
* `HostProofs`: `StateKnown`, `AttrsKept` (any masks); `TableIsTrue`;
  `AllocationsReturned`; `ObjectsTyped`, `MemoryLive`, `GivenBack`,
  `DevicesMatch`; `AttrsTyped`, `NullNotUsed`, `TakenAsAsked`; `ResetTyped`,
  `PollsTrueAfterReset`; and `NullNotFollowed` of the parts together;
* `HighLevelProofs`: `RoomIsGiven`, `PlacesAgree`, for any device and any request;
  `CreationTyped`, `CreatesAllOrNothing`, `ReleasesInOrder`, whichever stages may
  fail; `LayoutBesideCreation` and `CreationBesideLayout` of the two parts of
  `hl` together.

Some of them have hypotheses, each of which excludes a departure listed above
and nothing more:

* `AllocationsReturned` assumes that GDRCopy loads and is not disabled
  (`LibLoads`, `~EnvDisables`): otherwise memory for both processors is host
  memory, and goes to `cudaFree` (GN:543); and that `insert` does not throw,
  which leaves a mapping (GN:487). `TableIsTrue`, without the first two, says what
  is right in any case.
* `ExportTyped`, `ExportBalanced` assume `SameAddress`: without it no UAR is ever
  withdrawn (GN:697) and its count grows without bound.
* `DevicesMatch`, `NullNotFollowed` assume `~GpuUmem` (finding 2).
* `ErrorsSound` assumes `LapTold`: the queue has posted no more WQEs than
  `wqe_counter` tells apart (65536), where that is compared, or than two laps of
  the CQ. Beyond that `ErrorIsTrue` is false (finding 1, which posts five WQEs on
  two CQEs), for the same reason in both builds.

The argument for the send queue. None of the properties is inductive: that a
slot is free depends on the completion a thread has seen, that on the counters
of the NIC, that on the doorbells. `IInv` (module `SendQueueInv`) puts them in
one order, `IndexOrder`: cqe_ci <= nic_ok <= nic_ci <= nic_pi <= sq_wqe_pi <=
sq_ready_index <= sq_rsvd_index, with publication at most a queue ahead of
execution. Its other conjuncts say why each link holds: `Reservations`
(reservations not yet published are disjoint and above `sq_ready_index`),
`SlotsFree` (a thread that fills its slots has seen the completion that frees
the last), `CqHolds` (the CQE ring holds the last `CqeNum` completions, so an
equal owner bit inside the window means this lap: lemma `ObservedCompleted`),
`Submitting`, `LockHeld` (the thread that rings holds the lock and the largest
index), and `DbReaches`, `DbrStale`, `DbrCurrent`, `Told` (whatever the NIC
reads, doorbell or record, names an index between its own and `sq_wqe_pi`:
lemma `NicReads`; once the second ring is out, the last one). There is one lemma
per action, and in it one step per conjunct. TLC checked `IInv` on the small
instances before it was proved.

The collapsed CQ needs two facts of arithmetic: inside the gate the 16-bit
distance is the real one (`NotBehind`), and the rebuilt index lies between the
index polled and the number of completions (`NewCiBetween`).

Counters. In `CtrInv`, reservations not yet marked are disjoint and above
`sq_ready_index`, whichever side of its thread a queue is (`Reserved`); what is
filled stays in its slots until it is marked (`Prepared`); marking is in order,
so what is marked is ready and what is rung `sq_wqe_pi` covers (`Rings`). An add
that is ready comes right after the WAIT for its data (`AddIsGuarded`) until the
NIC has executed that WAIT, and then the data has completed. The order of the
queues in `LayoutsAssumption` plays no part in this: it is liveness that needs it.

The CPU proxy. Its `IInv` is the type invariant, `LockHeld` and `Progressing`
(who holds the reader-writer lock, and on which QP the service thread stands),
and for every QP: `IndexOrder`, nic_ci <= nic_pi <= `cpu_db` <= `sq_ready_index`
<= nic_ci and a queue; `ServiceOrder`, what the service thread last rang and what
it has just loaded (`tmp_db`) are in order below `cpu_db`; `RecordHolds`, the
record is one of these two, by where the service thread stands; `ProxyRings`,
for a QP only the proxy rings, the NIC knows no more than that; and
`RememberedReaches`, what the service thread takes for rung the NIC knows or a
doorbell on its way names. `DoorbellsRecent` and `RecordRecent` keep doorbells and
records within the half range in which their 16 bits compare as their indices
do.

One-sided operations. `TrInv` has two halves. `QueueInv` reads the ring without
its calls: from the oldest WQE not executed to `sq_ready_index` it holds one
whole WQE after another, and whoever still fills has stored the segments it
says it has. `History` and `Outcome` read it by its calls, and for that need
something the state does not hold: the index at which each call of each actor
began. They are stated of a function `B` of first indices, and `TrInv` says that
there is one; `Start` extends it, and every other step keeps it. From `B` and
`Plan` follows which WQE of which call any index is; `PlanCovers` and
`ChunksCover` then say that each unit of a call is in exactly one of its WQEs,
`AtomicLast` that the atomic of a signal is after all data, `CallEnds` that a
DUMP is last. A WQE is executed once because indices are, in order because the
ring is; the three properties are these facts put together.

Export. `ExInv`: a QP not exported is bare; of one that is, handler, doorbell
mode, doorbell word and GPU copy fit each other (`HandlerFits`, `WordFits`,
`CopyFits`); and what is allocated has an owner or was left by a step known to
leave it (`LiveOwned`). `UarInv` adds, under `SameAddress`, that the count of a
page is the number of `GpuUsers` of its UAR (a cardinality, hence
`IsFiniteSet(Qps)`), and that it is registered exactly when this is positive.

Host. `QpInv` adds to the properties that in RST the context is clear.
`MemInv`: each block in the table is held as the steps for its kind take it
(`TableHolds`), and what is lost was left by a step that failed. `ObjInv`: what
an object has acquired is `Sound`, memory and registration under what uses them,
and so is what it lost, which a refusal explains (`LossOk`); with the SDK all
there or all absent, all objects are of one kind (`OneKind`). `AttrInv`: what
value an object may hold follows from the implementation it has, and that from
what the loader found, so that a null symbol is never the one called.
`ResetInv`: the CQ stands at `cqe_rsvd` plus `earlier` plus this epoch's
completions; while `earlier` is 0 and the QP usable, each CQE of the window is
the completion of its index or the filler of the reset (`CqHolds`), so that
owner bit and counter of one epoch cannot be taken for another's. The theorem
has no hypothesis: any number of resets, failures at any place, both builds.

Layout. A behaviour makes one object, and `LayoutInv` says what it is: that of an
accepted request. All the rest is arithmetic over numbers of 32 bits. The
provers have no induction over an exponent; `Least` (a set of naturals has a
least element, from the well-foundedness of `<`) stands in for it, so that a
least exponent for which a law of powers fails contradicts the one before.
Thus `Quotient` (2^j is 2^(j-i) times 2^i), `NextPow` (rounding gives the least
power that is not smaller) and `LogRoundTrip` (a power passed as a logarithm
arrives). From these: a power of two divided by a smaller one is a power
(`PowerDivides`), so what create() divides, rounds and passes as logarithms
loses nothing; the WQE size of a send queue need not be a power, and its room
comes from the rounded product instead (`SendSide`).

Creation. Its `IInv` gives `live` a cause: while the call goes on, what is live is
what the structure holds and has not gone stale (`Steady`), or what the path of
a silent failure has yet to release (`LiveInv`); what the structure holds
follows from the stages that are past (`FieldInv`, with `When`, the place of each
stage). So where a failure is told of, or a destruction begins, the releases of
the nested paths name each live thing exactly once (`Match`, lemmas `MatchCq`,
`MatchQp`, `MatchDestroy`), at turns in which what stands on a thing comes before
it (`TurnOrder`). From there on `ErrInv` (a release is owed for all that is left),
`UndoInv` (once, by the right call) and `OrderInv` (in that order) go down
release by release. A pointer left behind by a failed allocation adds one release
to such a path (`CqLeft`, `QpLeft`), which is why the properties name it.

Every inductive invariant was checked by TLC on a small instance before it was
proved. For the proxy there was none at first: with more than half a range of
posts `NoLostDoorbell` is false unless doorbells are timely, which the runs had
been too short to show. `Timely` is what the invariant asked for.

Model-checked only: liveness (`EveryWqeCompletes`, `PollReturns`,
`EveryOpCounted`, `PublishedIsRung`, `HostCallsReturn`), out of the reach of these
provers. Every safety property of a passing run is also proved, under the
hypotheses above. The constants of `HighLevel` are subsets of fixed finite sets
and `hl` takes each of them whole, so that its run covers every behaviour there
is; its theorems add why.

## Not modelled, and the plan

Left out, and why:

* `submit_bf` and `submit_bf_warp`: `submit_db` with the WQE itself as the first
  ring; their only caller is a benchmark. `CODE_OPT_SKIP_AVAILABILITY_CHECK`:
  the caller answers for free slots. `poll_cq(count)` and `cq_update_dbrec` have
  no callers, and nothing says how callers of a poll relative to what others
  have polled are to agree. `submit_proxy_multi_qps` is two stores of
  `submit_proxy`.
* Polls after a masked compare-and-swap (two slots, one CQE).
* The order of a poll's two relaxed loads: outside the code (hazards).
* Byte copies, byte swaps and fences of `..._common.cuh`; the bits of commands
  and layouts: `mlx5_ifc.h` (5,700 lines of declarations), `mlx5_prm.h`,
  `doca_verbs.h` (2,500 lines, whose enumerations are the constants of
  `VerbsQp`).
* Sharing modes other than by scope, sizes and alignments of memory, kernels
  that run while tracking is reset.
* ibverbs, mlx5dv and CUDA wrappers (one dlsym and one call each), logging,
  build scripts, and the examples (2,900 lines), which served to see how the
  device functions are called.

Of the implementation the map covers about a third of all lines; most of the
rest are the headers, wrappers and examples above, parameter checks that log,
and comments.

What is left for proofs is liveness, which waits for a prover of fairness and
ENABLED. The hypotheses of the theorems mark where the code itself stops keeping
its promise, and can go only when it does.
