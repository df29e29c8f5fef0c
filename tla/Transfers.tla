------------------------------ MODULE Transfers ------------------------------
(***************************************************************************)
(* The one-sided operations of                                             *)
(* src/include/device/doca_gpunetio_dev_verbs_onesided.cuh and the WQEs    *)
(* they prepare (doca_gpunetio_dev_verbs_qp.cuh): which WQEs a call posts, *)
(* which 16-byte segments of a slot each stores, what a thread alone and   *)
(* the lanes of a warp do together, and what has happened to the data when *)
(* a wait returns.                                                         *)
(*                                                                         *)
(* Abstracted, SendQueue has them in full: a reservation's wait for its    *)
(* slots is the guard of Fill, marking waits for its turn, submitting      *)
(* raises what the NIC may execute, polling waits for what it has.         *)
(***************************************************************************)
EXTENDS Integers, Sequences, FiniteSets

CONSTANTS
  Threads,          \* threads that call alone
  WarpSize,         \* lanes of the one warp that calls together
  SlotNum,          \* slots of the send queue
  MaxTransfer,      \* units of data in MAX_TRANSFER_SIZE
  ThreadCalls, WarpCalls,
  MaxCalls          \* bound: calls of all threads and the warp

Lanes == 0 .. WarpSize - 1
Warp == "warp"
Callers == Threads \cup {Warp}
Actors == Threads \cup Lanes
Members(p) == IF p = Warp THEN Lanes ELSE {p}

(* The formats: ds in the control segment and the segments stored.  The    *)
(* fifth segment of a masked compare-and-swap of 8 bytes is the first of   *)
(* the next slot.                                                          *)
Format(ds, stored) == [ds |-> ds, stored |-> stored]

WriteFormats == [NOP        |-> Format(1, {0}),
                 WRITE      |-> Format(3, 0 .. 2),
                 WRITE_2SGE |-> Format(4, 0 .. 3)]

\* WRITE_INL13 has more than 12 bytes of data.
InlineFormats == [WRITE_INL   |-> Format(3, 0 .. 2),
                  WRITE_INL13 |-> Format(4, 0 .. 3)]

ReadFormats == [READ      |-> Format(3, 0 .. 2),
                READ_2SGE |-> Format(4, 0 .. 3)]

AtomicFormats == [ATOMIC     |-> Format(4, 0 .. 3),
                  MASKED     |-> Format(4, 0 .. 3),
                  MASKED_CS8 |-> Format(5, 0 .. 4)]

OrderFormats == [WAIT |-> Format(2, 0 .. 1),
                 DUMP |-> Format(2, 0 .. 1)]

Joined(f, g) == [x \in DOMAIN f \cup DOMAIN g |-> IF x \in DOMAIN f THEN f[x] ELSE g[x]]
Formats == Joined(WriteFormats, Joined(InlineFormats, Joined(ReadFormats,
                                Joined(AtomicFormats, OrderFormats))))

Slots(op) == (Formats[op].ds + 3) \div 4

DataOps == {"WRITE", "READ", "WRITE_INL", "WRITE_INL13", "WRITE_2SGE", "READ_2SGE"}

(* A call: kind, units of data, and for get mcst_mode and blocking_mode.   *)
(* Kind "post" is an application that prepares a WQE of format op itself.  *)
Puts == {"put", "put_signal"}
Inlines == {"p", "p_signal"}
Signals == {"signal", "put_signal", "p_signal"}

(* div_ceil_aligned_pow2_32bits, at least 1.                               *)
NumChunksDown(size) == IF size < MaxTransfer THEN 1 ELSE size \div MaxTransfer
NumChunks(size) ==
  LET n == size \div MaxTransfer + (IF size % MaxTransfer # 0 THEN 1 ELSE 0)
  IN  IF n > 1 THEN n ELSE 1

W(op, off, len) == [op |-> op, off |-> off, len |-> len]

Chunks(op, size) ==
  [i \in 1 .. NumChunks(size) |->
     LET off == (i - 1) * MaxTransfer
         left == size - off
     IN  IF left > 0 THEN W(op, off, IF left > MaxTransfer THEN MaxTransfer ELSE left)
                     ELSE W("NOP", 0, 0)]

Data(c) ==
  CASE c.kind \in Puts -> Chunks("WRITE", c.size)
    [] c.kind = "get" -> Chunks("READ", c.size)
    [] c.kind \in Inlines -> <<W("WRITE_INL", 0, c.size)>>
    [] c.kind = "post" -> <<W(c.op, 0, c.size)>>
    [] OTHER -> <<>>

\* Every lane its own addresses, one WQE each.
WarpData(c) == [k \in 1 .. WarpSize |-> W(IF c.kind = "put" THEN "WRITE" ELSE "READ", 0, c.size)]

Closing(c) == IF c.kind \in Signals THEN <<W("ATOMIC", 0, 0)>>
              ELSE IF c.mcst THEN <<W("DUMP", 0, 0)>> ELSE <<>>

PlanSignalFirst(p, c) == Closing(c) \o (IF p = Warp THEN WarpData(c) ELSE Data(c))
Plan(p, c) == (IF p = Warp THEN WarpData(c) ELSE Data(c)) \o Closing(c)

\* The slots a call reserves.
Span(p, c) == IF c.kind = "post" THEN Slots(c.op) ELSE Len(Plan(p, c))

ASSUME TransfersAssumption ==
  /\ {WarpSize, SlotNum, MaxTransfer} \subseteq Nat \ {0}
  /\ Warp \notin Threads /\ Threads \cap Lanes = {}
  /\ \A c \in ThreadCalls \cup WarpCalls :
       c.size \in Nat /\ c.blocking \in BOOLEAN /\ c.mcst \in BOOLEAN
  /\ \A c \in ThreadCalls :
       /\ c.kind \in Puts \cup Inlines \cup Signals \cup {"get", "get_wait", "post"}
       /\ c.mcst => c.kind \in {"get", "get_wait"}
       /\ c.kind = "get_wait" => c.mcst
       /\ c.kind = "post" => c.op \in DOMAIN Formats
       /\ c.kind \in {"signal", "get_wait"} \/ (c.kind = "post" /\ c.op \notin DataOps) => c.size = 0
  /\ \A c \in WarpCalls : c.kind \in {"put", "get"} /\ (c.mcst => c.kind = "get")
-----------------------------------------------------------------------------
VARIABLES
  rsvd, ready, rung,     \* indices reserved, published, known to the NIC
  done,                  \* indices executed and completed
  slots,                 \* slot -> segment -> what was stored there
  executed,              \* ghost: the WQEs the NIC executed, in order
  op,                    \* caller -> the call it is in
  asked,                 \* ghost: actor -> the calls it made
  ticket,                \* actor -> *out_ticket of its last call, -1 before
  waiting,               \* actor -> the wait it is in
  seen,                  \* ghost: actor -> calls it has waited for
  vis                    \* ghost: actor -> calls whose data it may read

trVars == <<rsvd, ready, rung, done, slots, executed, op, asked, ticket, waiting, seen, vis>>

Nowhere == [how |-> "none", at |-> -1]
Idle == [pc |-> "idle"]
Torn == [op |-> "TORN"]
Blank == [idx |-> -1]

TrInit ==
  /\ rsvd = 0 /\ ready = 0 /\ rung = 0 /\ done = 0
  /\ slots = [s \in 0 .. SlotNum - 1 |-> [g \in 0 .. 3 |-> Blank]]
  /\ executed = <<>>
  /\ op = [p \in Callers |-> Idle]
  /\ asked = [a \in Actors |-> <<>>]
  /\ ticket = [a \in Actors |-> -1]
  /\ waiting = [a \in Actors |-> Nowhere]
  /\ seen = [a \in Actors |-> 0] /\ vis = seen

Larger(x, y) == IF x > y THEN x ELSE y

\* Where a segment of the WQE at an index lies.
SegSlot(i, s) == (i + s \div 4) % SlotNum

(* Reserve the slots of a call.  A warp is converged; lane 0 reserves and  *)
(* the others learn the base from it.  get_wait remembers the ticket it is *)
(* to wait for, or the last index reserved when it was given none.         *)
Call(p, c) ==
  /\ op[p] = Idle
  /\ \A a \in Members(p) : waiting[a] = Nowhere
  /\ op' = [op EXCEPT ![p] =
       [pc |-> "fill", call |-> c, base |-> rsvd, filled |-> {},
        at |-> IF c.kind = "get_wait" /\ c.how = "ticket" THEN ticket[p] ELSE rsvd - 1]]
  /\ c.kind = "get_wait" => op'[p].at >= 0
  /\ rsvd' = rsvd + Span(p, c)
  /\ asked' = [a \in Actors |-> IF a \in Members(p) THEN Append(asked[a], c) ELSE asked[a]]
  /\ UNCHANGED <<ready, rung, done, slots, executed, ticket, waiting, seen, vis>>

Steps(p) == Plan(p, op[p].call)
End(p) == op[p].base + Span(p, op[p].call)

(* A thread fills its WQEs in order; the lanes each their own, and lane 0  *)
(* the DUMP after a __syncwarp.                                            *)
MayFill(p, k) ==
  /\ k \notin op[p].filled
  /\ \/ p = Warp /\ k <= WarpSize
     \/ 1 .. k - 1 \subseteq op[p].filled

\* The last slot reserved is free, hence all of them.
HasRoom(p) == End(p) <= done + SlotNum

\* The lane or thread whose WQE it is.
By(p, k) == IF p # Warp THEN p ELSE IF k <= WarpSize THEN k - 1 ELSE 0

Fill(p, k) ==
  /\ op[p].pc = "fill"
  /\ HasRoom(p)
  /\ MayFill(p, k)
  /\ LET w == Steps(p)[k]
         i == op[p].base + k - 1
         seg == [idx |-> i, op |-> w.op, off |-> w.off, len |-> w.len,
                 by |-> By(p, k), call |-> Len(asked[By(p, k)])]
         At(s, g) == \E x \in Formats[w.op].stored : SegSlot(i, x) = s /\ x % 4 = g
     IN  slots' = [s \in DOMAIN slots |-> [g \in 0 .. 3 |-> IF At(s, g) THEN seg ELSE slots[s][g]]]
  /\ op' = [op EXCEPT ![p].filled = @ \cup {k}]
  /\ UNCHANGED <<rsvd, ready, rung, done, executed, asked, ticket, waiting, seen, vis>>

\* A thread goes on when it has filled its WQEs, lane 0 when __syncwarp lets it.
FilledByLane0(p) == 1 \in op[p].filled
Filled(p) == op[p].filled = DOMAIN Steps(p)

Mark(p) ==
  /\ op[p].pc = "fill" /\ Filled(p)
  /\ ready = op[p].base
  /\ ready' = End(p)
  /\ op' = [op EXCEPT ![p].pc = "submit"]
  /\ UNCHANGED <<rsvd, rung, done, slots, executed, asked, ticket, waiting, seen, vis>>

LastIndex(p) == op[p].base + Len(Steps(p)) - 1

(* A lane's ticket is its own WQE, lane 0's the DUMP when there is one.    *)
TicketOf(p, a) ==
  IF p = Warp /\ ~(a = 0 /\ op[p].call.mcst) THEN op[p].base + a ELSE LastIndex(p)

SubmitWqes(p) ==
  /\ op[p].pc = "submit"
  /\ rung' = Larger(rung, End(p))
  /\ op' = [op EXCEPT ![p] = IF @.call.blocking THEN [@ EXCEPT !.pc = "poll"] ELSE Idle]
  /\ ticket' = [a \in Actors |-> IF a \in Members(p) THEN TicketOf(p, a) ELSE ticket[a]]
  /\ UNCHANGED <<rsvd, ready, done, slots, executed, asked, waiting, seen, vis>>

(* get_wait polls at the larger of its DUMP and the ticket.                *)
PollAtRead(p) == IF op[p].call.mcst THEN LastIndex(p) - 1 ELSE LastIndex(p)
PollAt(p) == IF op[p].call.kind = "get_wait" THEN Larger(LastIndex(p), op[p].at) ELSE LastIndex(p)

(* A blocking call returns, to every lane of a warp.                       *)
Polled(p) ==
  /\ op[p].pc = "poll"
  /\ done > PollAt(p)
  /\ seen' = [a \in Actors |-> IF a \in Members(p) THEN Len(asked[a]) ELSE seen[a]]
  /\ vis' = [a \in Actors |-> IF a \in Members(p) /\ op[p].call.mcst THEN Len(asked[a]) ELSE vis[a]]
  /\ op' = [op EXCEPT ![p] = Idle]
  /\ UNCHANGED <<rsvd, ready, rung, done, slots, executed, asked, ticket, waiting>>

InCall(a) == op[IF a \in Lanes THEN Warp ELSE a] # Idle

(* wait: for a ticket, or for every index reserved so far, if any.         *)
StartWait(a, how) ==
  LET at == IF how = "ticket" THEN ticket[a] ELSE rsvd - 1
  IN  /\ ~InCall(a) /\ waiting[a] = Nowhere
      /\ at >= 0
      /\ seen[a] < Len(asked[a])
      /\ waiting' = [waiting EXCEPT ![a] = [how |-> how, at |-> at]]
      /\ UNCHANGED <<rsvd, ready, rung, done, slots, executed, op, asked, ticket, seen, vis>>

(* A lane other than 0 that got its READ as its ticket has not waited for  *)
(* the DUMP.                                                               *)
FinishWait(a) ==
  /\ waiting[a] # Nowhere
  /\ done > waiting[a].at
  /\ seen' = [seen EXCEPT ![a] = Len(asked[a])]
  /\ LET dumped == asked[a][Len(asked[a])].mcst /\ (waiting[a].how = "all" \/ a \notin Lanes \ {0})
     IN  vis' = [vis EXCEPT ![a] = IF dumped THEN Len(asked[a]) ELSE @]
  /\ waiting' = [waiting EXCEPT ![a] = Nowhere]
  /\ UNCHANGED <<rsvd, ready, rung, done, slots, executed, op, asked, ticket>>

(* The NIC takes the format from the control segment and the rest from     *)
(* wherever that format has it.                                            *)
WqeAt(i) ==
  LET head == slots[SegSlot(i, 0)][0]
  IN  IF /\ head.idx = i
         /\ \A s \in 0 .. Formats[head.op].ds - 1 : slots[SegSlot(i, s)][s % 4] = head
      THEN head ELSE Torn

Execute ==
  /\ done < rung
  /\ executed' = Append(executed, WqeAt(done))
  /\ done' = done + (IF WqeAt(done) = Torn THEN 1 ELSE Slots(WqeAt(done).op))
  /\ UNCHANGED <<rsvd, ready, rung, slots, op, asked, ticket, waiting, seen, vis>>

Leader(p) == IF p = Warp THEN 0 ELSE p
CallCount == Cardinality({x \in Callers \X (1 .. MaxCalls) : x[2] <= Len(asked[Leader(x[1])])})

\* Everyone is through with the bounded number of calls.
TrDone == /\ CallCount = MaxCalls /\ done = rsvd
          /\ \A p \in Callers : op[p] = Idle
          /\ \A a \in Actors : seen[a] = Len(asked[a])

TrNext ==
  \/ \E p \in Callers :
       \/ \E c \in IF p = Warp THEN WarpCalls ELSE ThreadCalls : CallCount < MaxCalls /\ Call(p, c)
       \/ op[p] # Idle /\ \E k \in DOMAIN Steps(p) : Fill(p, k)
       \/ op[p] # Idle /\ (Mark(p) \/ SubmitWqes(p) \/ Polled(p))
  \/ \E a \in Actors : FinishWait(a) \/ \E how \in {"ticket", "all"} : StartWait(a, how)
  \/ Execute
  \/ TrDone /\ UNCHANGED trVars

TrSpec == TrInit /\ [][TrNext]_trVars
-----------------------------------------------------------------------------
(* The queue's indices keep their order and the queue never holds more     *)
(* than its slots.                                                         *)
TrTypeOK ==
  /\ done <= rung /\ rung <= ready /\ ready <= rsvd /\ ready <= done + SlotNum
  /\ \A p \in Callers : op[p] = Idle \/ (op[p].pc \in {"fill", "submit", "poll"} /\ End(p) <= rsvd)
  /\ \A a \in Actors : vis[a] <= Len(asked[a]) /\ seen[a] <= Len(asked[a]) /\ ticket[a] < rsvd

(* What the NIC executes at an index is one WQE, stored for that index by  *)
(* one thread, in every segment its format says: the lanes have all        *)
(* written before lane 0 publishes, and a shorter format leaves nothing of *)
(* a longer one that was in the slot before to be read.                    *)
WholeWqes == \A i \in DOMAIN executed : executed[i] # Torn

\* How often the first n executed WQEs move a unit of an actor's call.
Moved(a, c, u, n) ==
  Cardinality({i \in 1 .. n : /\ executed[i] # Torn
                              /\ executed[i].by = a /\ executed[i].call = c
                              /\ executed[i].op \in DataOps
                              /\ u \in executed[i].off .. executed[i].off + executed[i].len - 1})

Whole(a, c, n) == \A u \in 0 .. asked[a][c].size : Moved(a, c, u, n) = IF u < asked[a][c].size THEN 1 ELSE 0

(* When a wait of a thread or a lane returns, or its blocking get, every   *)
(* unit of what it asked for in this and all earlier calls has been moved, *)
(* once, and nothing beyond: chunks neither overlap nor leave a rest, and  *)
(* the ticket is that of the last.                                         *)
MovedOnce == \A a \in Actors : \A c \in 1 .. seen[a] : Whole(a, c, Len(executed))

(* What a call adds to its data comes after the data: the signal of a put  *)
(* or of an inline put is raised after all of it, and data a get brought   *)
(* is read only after a DUMP that follows all its READs (MCST mode; a lane *)
(* other than 0 that did not block must wait for the whole queue or in     *)
(* get_wait).                                                              *)
SignalLast ==
  \A i \in DOMAIN executed :
    executed[i].op = "ATOMIC" => Whole(executed[i].by, executed[i].call, i)
GetVisible ==
  \A a \in Actors : \A i \in DOMAIN executed :
    executed[i].op = "READ" /\ executed[i].by = a /\ executed[i].call <= vis[a] =>
      \E j \in i + 1 .. Len(executed) : executed[j].op = "DUMP"
DataFirst == SignalLast /\ GetVisible
=============================================================================
