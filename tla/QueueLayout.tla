---------------------------- MODULE QueueLayout ----------------------------
(***************************************************************************)
(* Where the rings of a QP, a CQ or an SRQ of the open implementation lie  *)
(* and how large they are: create() of doca_verbs_qp.cpp, doca_verbs_cq.cpp *)
(* and doca_verbs_srq.cpp computes it from the attributes, tells the       *)
(* device in units of its own (logarithms, strides, offsets in a UMEM) and *)
(* keeps it for the getters, from which the export to the GPU takes it.    *)
(* The high-level API asks for a send queue and a CQ of one size, in UMEMs *)
(* it sizes itself.                                                        *)
(*                                                                         *)
(* A behaviour creates one object and exports it.  Numbers are bytes or    *)
(* counts, addresses offsets in their UMEM.  What else create() acquires,  *)
(* and its failures, are VerbsObjects and HighLevel.                       *)
(***************************************************************************)
EXTENDS Integers

CONSTANTS
  MaxQpWr, MaxRqDesc, MaxSqDesc, MaxSendWqebb, MaxCqe, MaxSrqWr, MaxSrqSge,  \* of the device
  Wrs, Sges, Inlines,           \* what callers ask of a queue
  CqSizes,                      \* of a CQ
  Offsets,                      \* into an external UMEM
  HlSizes                       \* sq_nwqe of the high-level API

Word16 == 2^16
IntMax == 2147483647

(* Segments, slots and units. *)
Ctrl == 16
Raddr == 16
DataSeg == 16
InlHeader == 4
Octoword == 16
Wqebb == 64
Cqe == 64
Cacheline == 64
Page == 4096
MinRq == Wqebb
MinSrqWqe == 32
Doorbell == 64      \* kept for a doorbell record
DbrSize == 8        \* its two words
StrideUnit == 16    \* of log_rq_stride

ASSUME LimitsAssumption ==
  /\ {MaxQpWr, MaxRqDesc, MaxSqDesc, MaxSendWqebb, MaxCqe, MaxSrqWr, MaxSrqSge} \subseteq Nat \ {0}
  /\ MaxQpWr <= 2^15 /\ MaxSrqWr <= 2^15          \* log_max_qp_sz, log_max_srq_sz
  /\ MaxSendWqebb <= 2^15                          \* are at most 15
  /\ MaxRqDesc < Word16 /\ MaxSqDesc < Word16         \* 16-bit capabilities
  /\ MaxSqDesc % Wqebb = 0
  /\ Ctrl + MaxSrqSge * DataSeg <= MaxRqDesc
ASSUME RequestsAssumption ==
  /\ Wrs \subseteq 0..IntMax /\ Inlines \subseteq 0..IntMax /\ CqSizes \subseteq 0..IntMax
  /\ Sges \subseteq 0..2^27      \* their segments are counted in 32 bits
  /\ Offsets \subseteq Nat
  /\ HlSizes \subseteq 0..(Word16 - 1)

VARIABLES
  request,      \* the attributes of the call; constant
  stage,        \* "asked", "refused", "made" or "exported"
  made,         \* the object's view of itself
  exported      \* what kernels are given

qlVars == <<request, stage, made, exported>>
-----------------------------------------------------------------------------
(* doca_internal.hpp                                                       *)

Logs == 0..31       \* 32-bit sizes
BiggestOf(m, n) == IF m >= n THEN m ELSE n
AlignUp(n, unit) == ((n + unit - 1) \div unit) * unit
NextPow2(n) == IF n = 0 THEN 0 ELSE 2^(CHOOSE i \in Logs : 2^i >= n /\ (i = 0 \/ 2^(i - 1) < n))
IsPow2(n) == n > 0 /\ NextPow2(n) = n
Log2(n) == IF n = 0 THEN 0 ELSE CHOOSE i \in Logs : n \div 2^i = 1
-----------------------------------------------------------------------------
(* The requests.  offset -1: the library allocates the memory.             *)

QpRequests == [kind : {"qp"}, sq_wr : Wrs, send_sges : Sges, inline : Inlines,
               rq_wr : Wrs, rcv_sges : Sges, srq : BOOLEAN, offset : Offsets \cup {-1}]
CqRequests == [kind : {"cq"}, size : CqSizes, offset : Offsets \cup {-1}]
SrqRequests == [kind : {"srq"}, linked : BOOLEAN, wr : Wrs, sges : Sges, offset : Offsets \cup {-1}]
HlRequests == [kind : {"hl"}, sq_nwqe : HlSizes]

IsExternal(r) == r.offset # -1
Base(r) == IF IsExternal(r) THEN r.offset ELSE 0
Ring(at, stride, count) == [at |-> at, stride |-> stride, count |-> count]
Bytes(ring) == ring.stride * ring.count
NoRing == Ring(0, 0, 0)
-----------------------------------------------------------------------------
(* QP                                                                      *)

HasRq(r) == r.rq_wr > 0 /\ ~r.srq
RcvSgesAsked(r) == r.rcv_sges                   \* seeded bug: not a power of two
RcvSges(r) == NextPow2(r.rcv_sges)
RcvWqe(r) == RcvSges(r) * DataSeg

RqAccepted(r) == HasRq(r) =>
  r.rq_wr <= MaxQpWr /\ r.rcv_sges # 0 /\ RcvWqe(r) <= MaxRqDesc

RecvRing(r) ==
  IF ~HasRq(r) THEN Ring(Base(r), 0, 0)
  ELSE Ring(Base(r), RcvWqe(r), BiggestOf(NextPow2(r.rq_wr * RcvWqe(r)), MinRq) \div RcvWqe(r))

SendSize(r) == Ctrl + Raddr + r.send_sges * DataSeg
InlineSizeBare(r) ==                            \* seeded bug: without the segment's header
  IF r.inline = 0 THEN 0 ELSE Ctrl + Raddr + AlignUp(r.inline, Octoword)
InlineSize(r) ==
  IF r.inline = 0 THEN 0 ELSE Ctrl + Raddr + AlignUp(InlHeader + r.inline, Octoword)
SendWqe(r) == AlignUp(BiggestOf(SendSize(r), InlineSize(r)), Wqebb)
SqBytes(r) == NextPow2(SendWqe(r) * r.sq_wr)

SqAccepted(r) == r.sq_wr > 0 =>
  /\ r.sq_wr <= IntMax \div MaxSqDesc
  /\ r.send_sges # 0 /\ SendSize(r) <= MaxSqDesc /\ InlineSize(r) <= MaxSqDesc
  /\ SqBytes(r) \div Wqebb <= MaxSendWqebb

\* m_sq_buf; the ring is counted in WQEBBs, sq_wr in WQEs.
SendRing(r) ==
  LET rq == RecvRing(r)
  IN  Ring(Base(r) + rq.count * 2^Log2(rq.stride), Wqebb,
           IF r.sq_wr = 0 THEN 0 ELSE SqBytes(r) \div Wqebb)

DbAfterRings(r) == AlignUp(Bytes(RecvRing(r)) + Bytes(SendRing(r)), Cacheline)

SizeInWrs(r) == IF r.sq_wr = 0 THEN 0 ELSE SqBytes(r) \div SendWqe(r)

\* What alignment adds is given to the caller.
InlineRoom(r) ==
  IF r.inline = 0 \/ r.sq_wr = 0 THEN r.inline ELSE SendWqe(r) - (Ctrl + Raddr + InlHeader)

NoObject == [recv |-> NoRing, send |-> NoRing, cqe |-> NoRing, db |-> <<"none", 0>>, size |-> 0,
             wr |-> 0, wqe |-> 0, inline |-> 0, sges |-> 0]

\* The object; size is that of the UMEM, 0 if the caller's.
QpObject(r) == [NoObject EXCEPT
  !.recv = RecvRing(r), !.send = SendRing(r),
  !.db = IF IsExternal(r) THEN <<"dbr", 0>> ELSE <<"wq", DbAfterRings(r)>>,
  !.size = IF IsExternal(r) THEN 0 ELSE AlignUp(DbAfterRings(r) + Doorbell, Page),
  !.wqe = SendWqe(r), !.sges = RcvSges(r), !.wr = SizeInWrs(r), !.inline = InlineRoom(r)]

\* What the device makes of log_rq_stride, log_rq_size and log_sq_size: the
\* receive queue at the start of the UMEM, the send queue behind it.
QpDevice(r) ==
  LET rq == RecvRing(r)
      recv == IF rq.count = 0 THEN NoRing
              ELSE Ring(0, StrideUnit * 2^(Log2(rq.stride) - 4), 2^Log2(rq.count))
  IN  [NoObject EXCEPT !.recv = recv, !.db = QpObject(r).db,
       !.send = Ring(Bytes(recv), Wqebb, IF r.sq_wr = 0 THEN 0 ELSE 2^Log2(SendRing(r).count))]
-----------------------------------------------------------------------------
(* CQ: the UMEM's address is used as it is, external_umem_offset is not.   *)

CqAccepted(n) == IsPow2(n) /\ n <= MaxCqe
CqDb(n) == AlignUp(n * Cqe, Cacheline)
CqObject(r) == [NoObject EXCEPT
  !.cqe = Ring(0, Cqe, r.size), !.db = <<"wq", CqDb(r.size)>>,
  !.size = IF IsExternal(r) THEN 0 ELSE AlignUp(CqDb(r.size) + Doorbell, Page)]
CqDevice(r) == [NoObject EXCEPT
  !.cqe = Ring(0, Cqe, 2^Log2(r.size)), !.db = CqObject(r).db]
-----------------------------------------------------------------------------
(* SRQ: the WQEs of a linked list have a segment that links them.          *)

SrqAccepted(r) == r.wr \in 1..MaxSrqWr /\ r.sges \in 1..MaxSrqSge
SrqControl(r) == IF r.linked THEN Ctrl ELSE 0
SrqWqe(r) ==
  NextPow2(BiggestOf(r.sges * DataSeg + SrqControl(r), IF r.linked THEN MinSrqWqe ELSE 0))
SrqRing(r) == Ring(Base(r), SrqWqe(r), NextPow2(r.wr * SrqWqe(r)) \div SrqWqe(r))
SrqDb(r) == AlignUp(Bytes(SrqRing(r)), Cacheline)
SrqObject(r) == [NoObject EXCEPT
  !.recv = SrqRing(r), !.db = <<"wq", Base(r) + SrqDb(r)>>,
  !.size = IF IsExternal(r) THEN 0 ELSE AlignUp(SrqDb(r) + Doorbell, Page),
  !.sges = (SrqWqe(r) - SrqControl(r)) \div DataSeg]
SrqDevice(r) == [NoObject EXCEPT
  !.recv = Ring(Base(r), 2^Log2(SrqWqe(r)), 2^Log2(SrqRing(r).count)), !.db = SrqObject(r).db]
-----------------------------------------------------------------------------
(* A QP and its CQ of the high-level API: sq_nwqe is rounded in place, in  *)
(* 16 bits; memory of no bytes is refused.                                 *)

HlSize(r) == NextPow2(r.sq_nwqe) % Word16
HlCq(r) == [kind |-> "cq", size |-> HlSize(r), offset |-> 0]
HlQp(r) == [kind |-> "qp", sq_wr |-> HlSize(r), send_sges |-> 1, inline |-> 0,
            rq_wr |-> 0, rcv_sges |-> 1, srq |-> FALSE, offset |-> 0]
CqUmemRings(n) == AlignUp(n * Cqe, Page)        \* seeded bug: no room for the record
CqUmem(n) == IF n = 0 THEN 0 ELSE AlignUp(n * Cqe + DbrSize, Page)
QpUmem(n) == AlignUp(n * Wqebb, Page)
HlObject(r) == [QpObject(HlQp(r)) EXCEPT !.cqe = CqObject(HlCq(r)).cqe, !.size = QpUmem(HlSize(r))]
HlDevice(r) == [QpDevice(HlQp(r)) EXCEPT !.cqe = CqDevice(HlCq(r)).cqe]
-----------------------------------------------------------------------------
Accepted(r) ==
  CASE r.kind = "qp" -> RqAccepted(r) /\ SqAccepted(r)
    [] r.kind = "cq" -> CqAccepted(r.size)
    [] r.kind = "srq" -> SrqAccepted(r)
    [] r.kind = "hl" -> HlSize(r) > 0 /\ CqAccepted(HlSize(r)) /\ SqAccepted(HlQp(r))

Object(r) ==
  CASE r.kind = "qp" -> QpObject(r)
    [] r.kind = "cq" -> CqObject(r)
    [] r.kind = "srq" -> SrqObject(r)
    [] r.kind = "hl" -> HlObject(r)

Device(r) ==
  CASE r.kind = "qp" -> QpDevice(r)
    [] r.kind = "cq" -> CqDevice(r)
    [] r.kind = "srq" -> SrqDevice(r)
    [] r.kind = "hl" -> HlDevice(r)

NoExport == [sq_wqe_num |-> 0, sq_wqe_mask |-> 0, cqe_num |-> 0]

QlInit ==
  /\ request \in QpRequests \cup CqRequests \cup SrqRequests \cup HlRequests
  /\ stage = "asked" /\ made = NoObject /\ exported = NoExport

Make ==
  /\ stage = "asked" /\ Accepted(request)
  /\ made' = Object(request) /\ stage' = "made"
  /\ UNCHANGED <<request, exported>>

Refuse ==
  /\ stage = "asked" /\ ~Accepted(request)
  /\ stage' = "refused" /\ UNCHANGED <<request, made, exported>>

\* doca_verbs_qp_get_wq and doca_verbs_cq_get_wq.
GetWqWrs(q) == q.wr                             \* seeded bug: WQEs for WQEBBs
GetWq(q) == q.send.count

Export ==
  /\ stage = "made" /\ request.kind \in {"qp", "hl"}
  /\ LET num == GetWq(made) % Word16
     IN  exported' = [sq_wqe_num |-> num, sq_wqe_mask |-> (num - 1) % Word16,
                      cqe_num |-> made.cqe.count]
  /\ stage' = "exported" /\ UNCHANGED <<request, made>>

QlNext == Make \/ Refuse \/ Export

QlSpec == QlInit /\ [][QlNext]_qlVars
-----------------------------------------------------------------------------
IsMade == stage \in {"made", "exported"}

(* As much room as was asked for: sq_wr WQEs, each with its SGEs or its    *)
(* inline data behind the segments and headers of the format, in the ring  *)
(* the device has, and max_inline_data as reported fits a WQE; rq_wr or    *)
(* srq_wr receive WQEs with their SGEs.                                    *)
QpRoom ==
  LET d == Device(request)
  IN  /\ made.wr >= request.sq_wr /\ made.wr * made.wqe <= Bytes(d.send)
      /\ request.sq_wr > 0 =>
           /\ made.wqe >= Ctrl + Raddr + request.send_sges * DataSeg
           /\ made.inline >= request.inline
           /\ made.inline > 0 => made.wqe >= Ctrl + Raddr + InlHeader + made.inline
      /\ HasRq(request) =>
           d.recv.count >= request.rq_wr /\ d.recv.stride >= request.rcv_sges * DataSeg
SrqRoom ==
  LET d == Device(request)
  IN  /\ d.recv.count >= request.wr /\ made.sges >= request.sges
      /\ d.recv.stride >= SrqControl(request) + made.sges * DataSeg

(* No byte of a UMEM has two uses: the rings and the doorbell record do    *)
(* not overlap, and they end within the UMEM where the library, or the     *)
(* high-level API, chose its size.                                         *)
Extents(q) ==
  {<<q.recv.at, q.recv.at + Bytes(q.recv)>>, <<q.send.at, q.send.at + Bytes(q.send)>>,
   <<q.cqe.at, q.cqe.at + Bytes(q.cqe)>>}
    \cup (IF q.db[1] = "wq" THEN {<<q.db[2], q.db[2] + DbrSize>>} ELSE {})
Fit(extents, size) ==
  /\ \A x, y \in {e \in extents : e[1] < e[2]} : x = y \/ x[2] <= y[1] \/ y[2] <= x[1]
  /\ size > 0 => \A x \in extents : x[2] <= size
RingsApart ==
  IF request.kind = "hl"
  THEN /\ Fit(Extents([made EXCEPT !.cqe = NoRing]), made.size)
       /\ Fit(Extents(CqObject(HlCq(request))), CqUmem(HlSize(request)))
  ELSE Fit(Extents(made), made.size)

(* Every ring has the room asked for, and has it for itself.               *)
RoomAsAsked == IsMade =>
  /\ request.kind = "qp" => QpRoom
  /\ request.kind = "srq" => SrqRoom
  /\ RingsApart

(* "Check QP and CQ same size!!!!": kernels count the slots the device     *)
(* has, with a mask that is one less than a power of two; the CQ of a      *)
(* high-level QP has a CQE for each.                                       *)
ExportedAsMade == stage = "exported" /\ made.send.count > 0 =>
  /\ exported.sq_wqe_num = Device(request).send.count
  /\ IsPow2(exported.sq_wqe_num) /\ exported.sq_wqe_mask = exported.sq_wqe_num - 1
  /\ request.kind = "hl" => exported.cqe_num = exported.sq_wqe_num

(* Device, library and kernels take the same bytes for the same WQE: ring  *)
(* by ring, the descriptions have one start, stride and number of entries. *)
(* A QP at an offset in an external UMEM is left out of the first: its     *)
(* device object is not told the offset.                                   *)
DeviceAgrees ==
  /\ IsMade /\ (request.kind = "qp" => Base(request) = 0) =>
       LET d == Device(request)
       IN  /\ made.db = d.db
           /\ \A ring \in {"recv", "send", "cqe"} : Bytes(d[ring]) + Bytes(made[ring]) > 0 =>
                made[ring] = d[ring]
  /\ ExportedAsMade
=============================================================================
